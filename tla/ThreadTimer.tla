------------------------------ MODULE ThreadTimer ------------------------------
(***************************************************************************)
(* Common/ThreadTimer.cpp: each timer is a thread that calls back once     *)
(* when it starts and from then on whenever at least Elapse ticks have     *)
(* passed since the last call.  It looks at the clock every 50 ms, which   *)
(* is often: a module that uses this one lets a tick pass only when no     *)
(* thread has anything left to do at this one (Idle).                      *)
(*                                                                         *)
(* The tick is Comm_GetTickCount, a U32 of milliseconds: it wraps.         *)
(***************************************************************************)
EXTENDS Integers

CONSTANTS
  Timer,    (* the handles                                                   *)
  Elapse,   (* ulElapse, in ticks                                            *)
  Wrap      (* the modulus of the tick count, 2^32 in the code               *)

ASSUME TimerAssumption == /\ Elapse \in Nat \ {0}
                          /\ Wrap \in Nat \ {0}

VARIABLES
  tick,     (* Comm_GetTickCount()                                           *)
  timer,    (* SThreadTimerParam: whether it is allocated, bThreadWorking,   *)
            (* ulLastTick, and whether semWaitExit was posted                *)
  at        (* where each timer's thread is                                  *)

timerVars == <<tick, timer, at>>

Param  == [live : BOOLEAN, working : BOOLEAN, last : 0 .. Wrap - 1, posted : BOOLEAN]
Freed  == [live |-> FALSE, working |-> FALSE, last |-> 0, posted |-> FALSE]
Place  == {"none", "start", "call", "loop"}

TimerTypeOK == /\ tick \in 0 .. Wrap - 1
               /\ timer \in [Timer -> Param]
               /\ at \in [Timer -> Place]

TimerInit == /\ tick = 0
             /\ timer = [h \in Timer |-> Freed]
             /\ at = [h \in Timer |-> "none"]

Thread(h, from, to) == at[h] = from /\ at' = [at EXCEPT ![h] = to]

(* Comm_CreateThreadTimer *)
Create(h) ==
  /\ ~timer[h].live
  /\ timer' = [timer EXCEPT ![h] = [Freed EXCEPT !.live = TRUE, !.working = TRUE]]
  /\ Thread(h, "none", "start")
  /\ UNCHANGED tick

(* The first call, which nobody can stop any more. *)
Begin(h) ==
  /\ Thread(h, "start", "call")
  /\ timer' = [timer EXCEPT ![h].last = tick]
  /\ UNCHANGED tick

(* The tick count has wrapped: start counting anew. *)
Wrapped(h) ==
  /\ Thread(h, "loop", "loop")
  /\ timer[h].working /\ timer[h].last > tick
  /\ timer' = [timer EXCEPT ![h].last = tick]
  /\ UNCHANGED tick

Due(h) == timer[h].working /\ tick - timer[h].last >= Elapse

Fire(h) ==
  /\ Thread(h, "loop", "call")
  /\ Due(h)
  /\ timer' = [timer EXCEPT ![h].last = tick]
  /\ UNCHANGED tick

(* The callback returns. *)
Return(h) == Thread(h, "call", "loop") /\ UNCHANGED <<tick, timer>>

(* bThreadWorking is FALSE: sem_post, the thread ends. *)
End(h) ==
  /\ Thread(h, "loop", "none")
  /\ ~timer[h].working
  /\ timer' = [timer EXCEPT ![h].posted = TRUE]
  /\ UNCHANGED tick

Advance(h) == Begin(h) \/ Wrapped(h) \/ Fire(h) \/ End(h)

(* Comm_ReleaseThreadTimer up to sem_wait, and from there. *)
Release(h) ==
  /\ timer[h].live /\ timer[h].working
  /\ timer' = [timer EXCEPT ![h].working = FALSE]
  /\ UNCHANGED <<tick, at>>

(* Faulty variant: without sem_wait. *)
ReleasedAtOnce(h) ==
  /\ timer[h].live /\ ~timer[h].working
  /\ timer' = [timer EXCEPT ![h] = Freed]
  /\ UNCHANGED <<tick, at>>

Released(h) ==
  /\ timer[h].live /\ ~timer[h].working /\ timer[h].posted
  /\ timer' = [timer EXCEPT ![h] = Freed]
  /\ UNCHANGED <<tick, at>>

(* No thread has anything to do before the next tick. *)
Idle == \A h \in Timer :
  /\ at[h] \notin {"start", "call"}
  /\ at[h] = "loop" => timer[h].working /\ timer[h].last <= tick /\ ~Due(h)

Tick == /\ Idle
        /\ tick' = (tick + 1) % Wrap
        /\ UNCHANGED <<timer, at>>

(* A timer is freed after its thread: from the return of                     *)
(* Comm_ReleaseThreadTimer on, the callback, which uses the owner's data, is  *)
(* not run any more, although the release may come while the callback runs   *)
(* or before the thread has begun.                                           *)
ThreadHasTimer == \A h \in Timer : at[h] # "none" => timer[h].live
=============================================================================
