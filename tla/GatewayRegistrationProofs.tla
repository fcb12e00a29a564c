----------------------- MODULE GatewayRegistrationProofs -----------------------
(* A thread timer outlives its thread, whatever the gateway and the server     *)
(* do and however the threads interleave; the type invariant; and once nothing *)
(* is lost any more the registration recovers, stays and stays the same.       *)
EXTENDS GatewayRegistration, SequenceTheorems, TLAPS

(* ThreadHasTimer is not inductive: that Released finds the thread gone rests  *)
(* on the semaphore, which is posted only when it goes.                        *)
TimerInv == /\ TimerTypeOK
            /\ \A h \in Timer : at[h] # "none" => timer[h].live /\ ~timer[h].posted

(* What a new timer and the start of its thread set                            *)
LEMMA FreedType ==
  ASSUME TimerAssumption
  PROVE  /\ Freed \in Param
         /\ [Freed EXCEPT !.live = TRUE, !.working = TRUE] \in Param
         /\ [Freed EXCEPT !.live = TRUE, !.working = TRUE].live
         /\ ~[Freed EXCEPT !.live = TRUE, !.working = TRUE].posted
  <1>1. 0 \in 0 .. Wrap - 1
    BY DEF TimerAssumption
  <1>2. Freed \in Param
    BY <1>1 DEF Freed, Param
  <1> QED
    BY <1>2 DEF Freed, Param

(* Noting the time changes nothing else.                                       *)
LEMMA LastType ==
  ASSUME NEW p \in Param, NEW n \in 0 .. Wrap - 1
  PROVE  /\ [p EXCEPT !.last = n] \in Param
         /\ [p EXCEPT !.last = n].live = p.live
         /\ [p EXCEPT !.last = n].posted = p.posted
  BY DEF Param

(* Nor does raising the semaphore or the flag.                                 *)
LEMMA FlagType ==
  ASSUME NEW p \in Param, NEW b \in BOOLEAN
  PROVE  /\ [p EXCEPT !.posted = b] \in Param
         /\ [p EXCEPT !.working = b] \in Param
         /\ [p EXCEPT !.working = b].live = p.live
         /\ [p EXCEPT !.working = b].posted = p.posted
  BY DEF Param

(* A step that gives one timer and its thread good values.                     *)
LEMMA OneTimer ==
  ASSUME TimerInv, NEW h \in Timer, NEW p \in Param, NEW q \in Place,
         timer' = [timer EXCEPT ![h] = p], at' = [at EXCEPT ![h] = q], UNCHANGED tick,
         q # "none" => p.live /\ ~p.posted
  PROVE  TimerInv'
  <1>1. TimerTypeOK'
    BY DEF TimerInv, TimerTypeOK
  <1>2. ASSUME NEW g \in Timer, at'[g] # "none"
        PROVE  timer'[g].live /\ ~timer'[g].posted
    <2>1. CASE g = h
      <3>1. timer'[g] = p /\ at'[g] = q
        BY <2>1 DEF TimerInv, TimerTypeOK
      <3> QED
        BY <3>1, <1>2
    <2>2. CASE g # h
      <3>1. timer'[g] = timer[g] /\ at'[g] = at[g]
        BY <2>2 DEF TimerInv, TimerTypeOK
      <3> QED
        BY <3>1, <1>2 DEF TimerInv
    <2> QED
      BY <2>1, <2>2
  <1> QED
    BY <1>1, <1>2 DEF TimerInv

(* What every step of a timer's own actions keeps.                             *)
LEMMA TimerStep ==
  ASSUME TimerAssumption, TimerInv, NEW h \in Timer,
         \/ Create(h) \/ Advance(h) \/ Return(h) \/ Release(h) \/ Released(h)
  PROVE  TimerInv'
  <1>0. /\ timer[h] \in Param /\ at[h] \in Place /\ tick \in 0 .. Wrap - 1
        /\ timer = [timer EXCEPT ![h] = timer[h]] /\ at = [at EXCEPT ![h] = at[h]]
        /\ at[h] # "none" => timer[h].live /\ ~timer[h].posted
    BY DEF TimerInv, TimerTypeOK
  <1>p. "none" \in Place /\ "start" \in Place /\ "call" \in Place /\ "loop" \in Place
    BY DEF Place
  <1>1. CASE Create(h)
    <2> DEFINE p == [Freed EXCEPT !.live = TRUE, !.working = TRUE]
    <2>1. /\ timer' = [timer EXCEPT ![h] = p] /\ at' = [at EXCEPT ![h] = "start"]
          /\ UNCHANGED tick
      BY <1>1 DEF Create, Thread
    <2>2. p \in Param /\ p.live /\ ~p.posted
      BY FreedType, <1>0
    <2> QED
      BY <2>1, <2>2, <1>p, OneTimer
  <1>2. CASE Begin(h)
    <2> DEFINE p == [timer[h] EXCEPT !.last = tick]
    <2>1. /\ timer' = [timer EXCEPT ![h] = p] /\ at' = [at EXCEPT ![h] = "call"]
          /\ at[h] # "none" /\ UNCHANGED tick
      BY <1>2 DEF Begin, Thread
    <2>2. p \in Param /\ p.live /\ ~p.posted
      BY <1>0, <2>1, LastType
    <2> QED
      BY <2>1, <2>2, <1>p, OneTimer
  <1>3. CASE Wrapped(h)
    <2> DEFINE p == [timer[h] EXCEPT !.last = tick]
    <2>1. /\ timer' = [timer EXCEPT ![h] = p] /\ at' = [at EXCEPT ![h] = "loop"]
          /\ at[h] # "none" /\ UNCHANGED tick
      BY <1>3 DEF Wrapped, Thread
    <2>2. p \in Param /\ p.live /\ ~p.posted
      BY <1>0, <2>1, LastType
    <2> QED
      BY <2>1, <2>2, <1>p, OneTimer
  <1>4. CASE Fire(h)
    <2> DEFINE p == [timer[h] EXCEPT !.last = tick]
    <2>1. /\ timer' = [timer EXCEPT ![h] = p] /\ at' = [at EXCEPT ![h] = "call"]
          /\ at[h] # "none" /\ UNCHANGED tick
      BY <1>4 DEF Fire, Thread
    <2>2. p \in Param /\ p.live /\ ~p.posted
      BY <1>0, <2>1, LastType
    <2> QED
      BY <2>1, <2>2, <1>p, OneTimer
  <1>5. CASE End(h)
    <2> DEFINE p == [timer[h] EXCEPT !.posted = TRUE]
    <2>1. /\ timer' = [timer EXCEPT ![h] = p] /\ at' = [at EXCEPT ![h] = "none"]
          /\ UNCHANGED tick
      BY <1>5 DEF End, Thread
    <2>2. p \in Param
      BY <1>0, FlagType
    <2> QED
      BY <2>1, <2>2, <1>p, OneTimer
  <1>6. CASE Return(h)
    <2>1. /\ timer' = [timer EXCEPT ![h] = timer[h]] /\ at' = [at EXCEPT ![h] = "loop"]
          /\ at[h] # "none" /\ UNCHANGED tick
      BY <1>6, <1>0 DEF Return, Thread
    <2> QED
      BY <2>1, <1>0, <1>p, OneTimer
  <1>7. CASE Release(h)
    <2> DEFINE p == [timer[h] EXCEPT !.working = FALSE]
    <2>1. /\ timer' = [timer EXCEPT ![h] = p] /\ at' = [at EXCEPT ![h] = at[h]]
          /\ UNCHANGED tick
      BY <1>7, <1>0 DEF Release
    <2>2. p \in Param /\ p.live = timer[h].live /\ p.posted = timer[h].posted
      BY <1>0, FlagType
    <2> QED
      BY <2>1, <2>2, <1>0, OneTimer
  <1>8. CASE Released(h)
    <2>1. /\ timer' = [timer EXCEPT ![h] = Freed] /\ at' = [at EXCEPT ![h] = at[h]]
          /\ at[h] = "none" /\ UNCHANGED tick
      BY <1>8, <1>0 DEF Released
    <2> QED
      BY <2>1, <1>0, FreedType, OneTimer
  <1> QED
    BY <1>1, <1>2, <1>3, <1>4, <1>5, <1>6, <1>7, <1>8 DEF Advance

LEMMA TimerInvInductive ==
  ASSUME TimerAssumption, GatewayAssumption, TimerInv, [Next]_vars
  PROVE  TimerInv'
  <1>h. "gate" \in Timer /\ "server" \in Timer
    BY DEF GatewayAssumption
  <1>1. CASE UNCHANGED timerVars
    BY <1>1 DEF TimerInv, TimerTypeOK, timerVars
  <1>2. CASE GB28181MediaGate_Init
    BY <1>2, <1>h, TimerStep DEF GB28181MediaGate_Init
  <1>3. CASE SendInitial \/ RefreshRegister \/ NoteRefresh \/ Keepalive
    <2>1. Return("gate") \/ UNCHANGED timerVars
      BY <1>3 DEF SendInitial, RefreshRegister, NoteRefresh, Keepalive
    <2> QED
      BY <2>1, <1>1, <1>h, TimerStep
  <1>4. CASE StartSipServer \/ StopSipServer \/ SipServerStopped
    <2>1. Create("server") \/ Release("server") \/ Released("server")
      BY <1>4 DEF StartSipServer, StopSipServer, SipServerStopped
    <2> QED
      BY <2>1, <1>h, TimerStep
  <1>5. CASE checkSipEndpointHeartbeat
    BY <1>5, <1>h, TimerStep DEF checkSipEndpointHeartbeat
  <1>6. CASE \E h \in Timer : TimerThread(h)
    BY <1>6, TimerStep DEF TimerThread
  (* The thread dies with its timer.                                           *)
  <1>7. CASE SipServerDies
    <2>1. Freed \in Param
      BY FreedType
    <2> QED
      BY <1>7, <2>1, <1>h DEF SipServerDies, TimerInv, TimerTypeOK, Place
  <1>8. CASE Period
    <2>1. /\ tick' = (tick + 1) % Wrap
          /\ UNCHANGED <<timer, at>>
      BY <1>8 DEF Period, Tick
    <2>2. tick' \in 0 .. Wrap - 1
      BY <2>1 DEF TimerInv, TimerTypeOK, TimerAssumption
    <2> QED
      BY <2>1, <2>2 DEF TimerInv, TimerTypeOK
  <1>9. CASE BuildRegister \/ NextEvent \/ GB28181EventCB
    <2>1. UNCHANGED timerVars
      BY <1>9 DEF BuildRegister, NextEvent, GB28181EventCB, Handle,
           mediaGateHandleRegisterSuccess, mediaGateHandleRegisterFailure,
           mediaGateHandleMessageFailure, MessageAnswered
    <2> QED
      BY <2>1, <1>1
  <1>10. CASE \E r \in requests : Deliver(r) \/ TimeoutF(r) \/ insertEndpoint(r)
                                    \/ updateSipEndpointKeepalive(r) \/ Lose(r)
    <2>1. UNCHANGED timerVars
      BY <1>10 DEF Deliver, TimeoutF, insertEndpoint, updateSipEndpointKeepalive,
           Answer, Lose
    <2> QED
      BY <2>1, <1>1
  <1>11. CASE UNCHANGED vars
    BY <1>11, <1>1 DEF vars
  <1> QED
    BY <1>2, <1>3, <1>4, <1>5, <1>6, <1>7, <1>8, <1>9, <1>10, <1>11
       DEF Next, keepaliveMsgTimer

(* Comm_ReleaseThreadTimer returns, and the timer is freed, only when its      *)
(* thread has ended: no callback of a released timer runs.                     *)
THEOREM ThreadHasTimerCorrect ==
  ASSUME TimerAssumption, GatewayAssumption
  PROVE  Spec => []ThreadHasTimer
  <1>1. Init => TimerInv
    <2>1. 0 \in 0 .. Wrap - 1
      BY DEF TimerAssumption
    <2> QED
      BY <2>1 DEF Init, TimerInit, TimerInv, TimerTypeOK, Freed, Param, Place
  <1>2. TimerInv /\ [Next]_vars => TimerInv'
    BY TimerInvInductive
  <1>3. TimerInv => ThreadHasTimer
    BY DEF TimerInv, ThreadHasTimer
  <1> QED
    BY <1>1, <1>2, <1>3, PTL DEF Spec

-----------------------------------------------------------------------------
(* What the callback has built is there when it is sent: no event of the event *)
(* thread takes a registration back.                                           *)
TypeInv == TypeOK /\ (gate.building => reg \in Reg)

(* What the two threads make of the gateway's record                           *)
LEMMA GateType ==
  ASSUME GatewayAssumption, NEW g \in Gate
  PROVE  /\ \A b \in BOOLEAN : [g EXCEPT !.building = b] \in Gate
         /\ \A b \in BOOLEAN : [g EXCEPT !.building = b].building = b
         /\ [g EXCEPT !.refreshing = TRUE] \in Gate
         /\ [g EXCEPT !.register = RegisterGap, !.refreshing = FALSE] \in Gate
         /\ [g EXCEPT !.keepalive = 0] \in Gate
         /\ [g EXCEPT !.registered = TRUE, !.register = 0] \in Gate
         /\ [g EXCEPT !.registered = FALSE] \in Gate
         /\ g.failures + 1 < FailLimit => [g EXCEPT !.failures = @ + 1] \in Gate
         /\ [g EXCEPT !.failures = 0, !.registered = FALSE] \in Gate
  <1>1. /\ 0 \in 0 .. RegisterGap /\ RegisterGap \in 0 .. RegisterGap
        /\ 0 \in 0 .. KeepaliveGap /\ 0 \in 0 .. FailLimit - 1
    BY DEF GatewayAssumption
  <1>2. g.failures + 1 < FailLimit => g.failures + 1 \in 0 .. FailLimit - 1
    BY DEF Gate, GatewayAssumption
  <1> QED
    BY <1>1, <1>2 DEF Gate

(* And they leave the rest of it alone.                                        *)
LEMMA GateBuilding ==
  ASSUME NEW g \in Gate
  PROVE  /\ [g EXCEPT !.refreshing = TRUE].building = g.building
         /\ [g EXCEPT !.register = RegisterGap, !.refreshing = FALSE].building = g.building
         /\ [g EXCEPT !.keepalive = 0].building = g.building
         /\ [g EXCEPT !.registered = TRUE, !.register = 0].building = g.building
         /\ [g EXCEPT !.registered = FALSE].building = g.building
         /\ [g EXCEPT !.failures = @ + 1].building = g.building
         /\ [g EXCEPT !.failures = 0, !.registered = FALSE].building = g.building
  BY DEF Gate

(* A refresh is under way from its REGISTER until its time is noted.           *)
LEMMA GateRefreshing ==
  ASSUME NEW g \in Gate
  PROVE  /\ [g EXCEPT !.refreshing = TRUE].refreshing
         /\ ~[g EXCEPT !.register = RegisterGap, !.refreshing = FALSE].refreshing
         /\ \A b \in BOOLEAN : [g EXCEPT !.building = b].refreshing = g.refreshing
         /\ [g EXCEPT !.keepalive = 0].refreshing = g.refreshing
         /\ [g EXCEPT !.registered = TRUE, !.register = 0].refreshing = g.refreshing
         /\ [g EXCEPT !.registered = FALSE].refreshing = g.refreshing
         /\ [g EXCEPT !.failures = @ + 1].refreshing = g.refreshing
         /\ [g EXCEPT !.failures = 0, !.registered = FALSE].refreshing = g.refreshing
  BY DEF Gate

(* A registration is sent, answered or given up.                               *)
LEMMA RegType ==
  ASSUME GatewayAssumption, NEW x \in Reg
  PROVE  /\ x.callid \in CallId
         /\ [x EXCEPT !.last = "open", !.age = 0] \in Reg
         /\ [x EXCEPT !.last = "2xx"] \in Reg /\ [x EXCEPT !.last = "no2xx"] \in Reg
  <1>1. 0 \in 0 .. RefreshAge + 1
    BY DEF GatewayAssumption
  <1> QED
    BY <1>1 DEF Reg

(* A request is sent, answered or lost.                                        *)
LEMMA RequestType ==
  ASSUME GatewayAssumption
  PROVE  /\ \A c \in CallId \cup {NULL} : Sent(c) \in Request
         /\ \A r \in Request, a \in {"sent", "200", "400", "lost", "provisional"} :
              [r EXCEPT !.at = a] \in Request
  <1>1. 0 \in 0 .. TransactionTime
    BY DEF GatewayAssumption
  <1> QED
    BY <1>1 DEF Request, Sent

(* Sending a REGISTER needs a registration.                                    *)
LEMMA SendType ==
  ASSUME GatewayAssumption, TypeOK, reg \in Reg, SendRegister
  PROVE  reg' \in Reg /\ requests' \subseteq Request
  <1>1. reg \in Reg /\ requests \subseteq Request
    BY DEF TypeOK
  <1>2. Sent(reg.callid) \in Request
    BY <1>1, RegType, RequestType
  <1> QED
    BY <1>1, <1>2, RegType DEF SendRegister

(* The timer's callback                                                        *)
LEMMA CallbackType ==
  ASSUME GatewayAssumption, TypeInv, TimerTypeOK', keepaliveMsgTimer
  PROVE  TypeInv'
  <1>0. gate \in Gate /\ reg \in Reg \cup {NULL} /\ requests \subseteq Request
    BY DEF TypeInv, TypeOK
  <1> USE DEF TypeInv, TypeOK
  <1>1. CASE BuildRegister
    <2>1. PICK c \in CallId : reg' = [callid |-> c, last |-> "none", age |-> 0]
      BY <1>1 DEF BuildRegister, BuildInitial
    <2>2. reg' \in Reg
      BY <2>1 DEF Reg, GatewayAssumption
    <2> QED
      BY <1>1, <2>2, GateType DEF BuildRegister
  <1>2. CASE SendInitial
    <2>1. reg' \in Reg /\ requests' \subseteq Request
      BY <1>2, SendType DEF SendInitial
    <2>2. gate' \in Gate /\ ~gate'.building
      BY <1>2, GateType DEF SendInitial
    <2> QED
      BY <1>2, <2>1, <2>2 DEF SendInitial
  <1>3. CASE RefreshRegister
    <2>1. gate' \in Gate /\ ~gate'.building
      <3>1. gate' = [gate EXCEPT !.refreshing = TRUE] \/ gate' = gate
        BY <1>3 DEF RefreshRegister
      <3>2. [gate EXCEPT !.refreshing = TRUE] \in Gate
        BY <1>0, GateType
      <3>3. ~gate.building
        BY <1>3 DEF RefreshRegister, Callback
      <3> QED
        BY <1>0, <3>1, <3>2, <3>3, GateBuilding
    <2>2. reg' \in Reg \cup {NULL} /\ requests' \subseteq Request
      <3>1. CASE reg # NULL /\ SendRegister
        BY <1>0, <3>1, SendType
      <3>2. CASE reg' = reg /\ requests' = requests
        BY <1>0, <3>2
      <3> QED
        BY <1>3, <3>1, <3>2 DEF RefreshRegister, MayRegister
    <2> QED
      BY <1>3, <2>1, <2>2 DEF RefreshRegister
  <1>4. CASE Keepalive
    <2>1. gate' \in Gate /\ ~gate'.building
      <3>1. gate' = [gate EXCEPT !.keepalive = 0] \/ gate' = gate
        BY <1>4 DEF Keepalive
      <3>2. [gate EXCEPT !.keepalive = 0] \in Gate
        BY <1>0, GateType
      <3>3. ~gate.building
        BY <1>4 DEF Keepalive, Callback
      <3> QED
        BY <1>0, <3>1, <3>2, <3>3, GateBuilding
    <2>2. requests' \subseteq Request
      BY <1>4, RequestType DEF Keepalive
    <2> QED
      BY <1>4, <2>1, <2>2 DEF Keepalive
  <1>5. CASE NoteRefresh
    <2>1. gate' \in Gate /\ gate'.building = gate.building
      BY <1>0, <1>5, GateType, GateBuilding DEF NoteRefresh
    <2> QED
      BY <1>5, <2>1 DEF NoteRefresh
  <1> QED
    BY <1>1, <1>2, <1>3, <1>4, <1>5 DEF keepaliveMsgTimer

(* The stack's reports and the handlers of the event thread                    *)
LEMMA EventType ==
  ASSUME GatewayAssumption, TypeInv, TimerTypeOK', NextEvent \/ GB28181EventCB
  PROVE  TypeInv'
  <1>0. /\ gate \in Gate /\ reg \in Reg \cup {NULL} /\ requests \subseteq Request
        /\ events \in Seq(Event) /\ (gate.building => reg \in Reg)
        /\ faults' = faults /\ calm' = calm /\ server' = server
    BY DEF TypeInv, TypeOK, NextEvent, GB28181EventCB, Handle,
         mediaGateHandleRegisterSuccess, mediaGateHandleRegisterFailure,
         mediaGateHandleMessageFailure, MessageAnswered
  <1>e. events \in Seq(Event)
    BY <1>0
  <1>1. CASE NextEvent
    <2>1. event' \in Event /\ events' \in Seq(Event)
      <3>1. events # <<>> /\ event' = Head(events) /\ events' = Tail(events)
        BY <1>1 DEF NextEvent
      <3> QED
        BY <1>e, <3>1, HeadTailProperties
    <2>2. reg' \in Reg \cup {NULL} /\ requests' \subseteq Request
          /\ (gate.building => reg' \in Reg)
      <3>0. (reg # NULL /\ SendRegister) \/ (reg' = reg /\ requests' = requests)
        BY <1>1 DEF NextEvent, RefreshIsDue
      <3>1. CASE reg # NULL /\ SendRegister
        BY <1>0, <3>1, SendType DEF TypeInv
      <3>2. CASE reg' = reg /\ requests' = requests
        BY <1>0, <3>2
      <3> QED
        BY <3>0, <3>1, <3>2
    <2> QED
      BY <1>0, <1>1, <2>1, <2>2 DEF NextEvent, TypeInv, TypeOK
  <1>2. ASSUME NEW e \in Event, NEW g \in Gate, Handle(e, g), g.building = gate.building
        PROVE  TypeInv'
    BY <1>0, <1>2 DEF Handle, TypeInv, TypeOK
  <1>3. CASE mediaGateHandleRegisterSuccess
    <2>1. [gate EXCEPT !.registered = TRUE, !.register = 0] \in Gate
      BY <1>0, GateType
    <2> QED
      BY <1>0, <1>2, <1>3, <2>1, GateBuilding DEF mediaGateHandleRegisterSuccess, Event
  <1>4. CASE mediaGateHandleRegisterFailure
    <2>1. [gate EXCEPT !.registered = FALSE] \in Gate
      BY <1>0, GateType
    <2> QED
      BY <1>0, <1>2, <1>4, <2>1, GateBuilding DEF mediaGateHandleRegisterFailure, Event
  <1>5. CASE mediaGateHandleMessageFailure
    <2> DEFINE g == IF gate.failures + 1 >= FailLimit
                      THEN [gate EXCEPT !.failures = 0, !.registered = FALSE]
                      ELSE [gate EXCEPT !.failures = @ + 1]
    <2>0. gate.failures \in Nat /\ FailLimit \in Nat
      BY <1>0 DEF Gate, GatewayAssumption
    <2>1. g \in Gate /\ g.building = gate.building
      <3>1. CASE gate.failures + 1 >= FailLimit
        BY <1>0, <3>1, GateType, GateBuilding
      <3>2. CASE ~(gate.failures + 1 >= FailLimit)
        <4>1. gate.failures + 1 < FailLimit
          BY <2>0, <3>2
        <4> QED
          BY <1>0, <3>2, <4>1, GateType, GateBuilding
      <3> QED
        BY <3>1, <3>2
    <2> QED
      BY <1>2, <1>5, <2>1 DEF mediaGateHandleMessageFailure, Event
  <1>6. CASE MessageAnswered
    BY <1>0, <1>2, <1>6 DEF MessageAnswered, Event
  <1> QED
    BY <1>1, <1>3, <1>4, <1>5, <1>6 DEF GB28181EventCB

(* What becomes of a request at the gateway                                    *)
LEMMA AnswerType ==
  ASSUME GatewayAssumption, TypeInv, TimerTypeOK', NEW r \in requests,
         Deliver(r) \/ TimeoutF(r)
  PROVE  TypeInv'
  <1>0. /\ gate \in Gate /\ reg \in Reg \cup {NULL} /\ requests \subseteq Request
        /\ events \in Seq(Event) /\ (gate.building => reg \in Reg)
    BY DEF TypeInv, TypeOK
  <1>1. requests' \subseteq Request /\ UNCHANGED <<gate, event, server, faults, calm>>
    BY <1>0 DEF Deliver, TimeoutF
  <1>2. events' = events \/ \E e \in Event : events' = Append(events, e)
    BY DEF Deliver, TimeoutF, Report, Event
  <1>3. events' \in Seq(Event)
    <2>1. events \in Seq(Event)
      BY <1>0
    <2>2. ASSUME NEW e \in Event, events' = Append(events, e)
          PROVE  events' \in Seq(Event)
      BY <2>1, <2>2, AppendProperties
    <2> QED
      BY <1>2, <2>1, <2>2
  <1>4. reg' = reg \/ (reg # NULL /\ reg' \in {[reg EXCEPT !.last = "2xx"],
                                               [reg EXCEPT !.last = "no2xx"]})
    BY DEF Deliver, TimeoutF, Current
  <1>5. reg' \in Reg \cup {NULL} /\ (gate.building => reg' \in Reg)
    <2>1. CASE reg' = reg
      BY <1>0, <2>1, Zenon
    <2>2. CASE reg' # reg
      <3>1. reg \in Reg
        BY <1>0, <1>4, <2>2
      <3>2. [reg EXCEPT !.last = "2xx"] \in Reg /\ [reg EXCEPT !.last = "no2xx"] \in Reg
        BY <3>1, RegType
      <3> QED
        BY <1>4, <2>2, <3>2
    <2> QED
      BY <2>1, <2>2
  <1> QED
    BY <1>1, <1>3, <1>5 DEF TypeInv, TypeOK

(* What becomes of it at the server, or on the way                             *)
LEMMA ServeType ==
  ASSUME GatewayAssumption, TypeInv, TimerTypeOK', NEW r \in requests,
         insertEndpoint(r) \/ updateSipEndpointKeepalive(r) \/ Lose(r)
  PROVE  TypeInv'
  <1>0. /\ requests \subseteq Request /\ r \in Request
        /\ server \in [up : BOOLEAN, endpoint : Endpoint \cup {NULL}]
    BY DEF TypeInv, TypeOK
  <1>1. 0 \in 0 .. MonitorKeepalive /\ 0 \in 0 .. Expires
    BY DEF GatewayAssumption
  <1>2. ASSUME NEW a \in {"200", "400"}, NEW e \in Endpoint \cup {NULL}, Answer(r, a, e)
        PROVE  TypeInv'
    <2>1. requests' \subseteq Request
      <3>1. [r EXCEPT !.at = a] \in Request
        BY <1>0, RequestType
      <3> QED
        BY <1>0, <1>2, <3>1 DEF Answer
    <2>2. server' \in [up : BOOLEAN, endpoint : Endpoint \cup {NULL}]
      BY <1>0, <1>2 DEF Answer
    <2> QED
      BY <1>2, <2>1, <2>2 DEF Answer, TypeInv, TypeOK
  <1>3. CASE insertEndpoint(r)
    <2>1. r.callid \in CallId
      BY <1>0, <1>3 DEF Request, insertEndpoint
    <2>2. [callid |-> r.callid, keepalive |-> 0, register |-> 0] \in Endpoint
      BY <1>1, <2>1 DEF Endpoint
    <2> QED
      BY <1>2, <1>3, <2>2 DEF insertEndpoint
  <1>4. CASE updateSipEndpointKeepalive(r)
    <2>1. CASE server.endpoint = NULL
      BY <1>2, <1>4, <2>1 DEF updateSipEndpointKeepalive
    <2>2. CASE server.endpoint # NULL
      <3>1. server.endpoint \in Endpoint
        BY <1>0, <2>2
      <3>2. [server.endpoint EXCEPT !.keepalive = 0] \in Endpoint
        BY <1>1, <3>1 DEF Endpoint
      <3> QED
        BY <1>2, <1>4, <2>2, <3>2 DEF updateSipEndpointKeepalive
    <2> QED
      BY <2>1, <2>2
  <1>5. CASE Lose(r)
    <2>1. requests' \subseteq Request
      <3>1. \E a \in {"lost", "provisional"} :
              requests' = (requests \ {r}) \cup {[r EXCEPT !.at = a]}
        BY <1>5 DEF Lose
      <3>2. ASSUME NEW a \in {"lost", "provisional"}
            PROVE  [r EXCEPT !.at = a] \in Request
        BY <1>0, RequestType
      <3> QED
        BY <1>0, <3>1, <3>2
    <2>2. faults' \in 0 .. MaxFaults /\ calm' \in 0 .. CalmCap
      BY <1>5 DEF Lose, Fault, TypeInv, TypeOK, GatewayAssumption
    <2> QED
      BY <1>5, <2>1, <2>2 DEF Lose, TypeInv, TypeOK
  <1> QED
    BY <1>3, <1>4, <1>5

(* The server comes, goes, and looks after the registration.                   *)
LEMMA ServerType ==
  ASSUME GatewayAssumption, TypeInv, TimerTypeOK',
         \/ StartSipServer \/ StopSipServer \/ SipServerStopped \/ SipServerDies
         \/ checkSipEndpointHeartbeat
  PROVE  TypeInv'
  <1> DEFINE Server == [up : BOOLEAN, endpoint : Endpoint \cup {NULL}]
  <1>1. server' \in Server
    <2>1. server \in Server
      BY DEF TypeInv, TypeOK
    <2>2. \/ server' = [up |-> TRUE, endpoint |-> NULL]
          \/ server' = [up |-> FALSE, endpoint |-> NULL]
          \/ server' = [server EXCEPT !.up = FALSE]
          \/ server' = [server EXCEPT !.endpoint = NULL]
          \/ server' = server
      BY DEF StartSipServer, StopSipServer, SipServerStopped, SipServerDies,
           checkSipEndpointHeartbeat
    <2>3. NULL \in Endpoint \cup {NULL}
      OBVIOUS
    <2>4. /\ [up |-> TRUE, endpoint |-> NULL] \in Server
          /\ [up |-> FALSE, endpoint |-> NULL] \in Server
          /\ [server EXCEPT !.up = FALSE] \in Server
          /\ [server EXCEPT !.endpoint = NULL] \in Server
      BY <2>1, <2>3
    <2> QED
      BY <2>1, <2>2, <2>4, Zenon
  <1>2. /\ UNCHANGED gatewayVars
        /\ \/ UNCHANGED <<faults, calm>>
           \/ faults < MaxFaults /\ faults' = faults + 1 /\ calm' = 0
    <2>1. CASE StopSipServer \/ SipServerDies
      BY <2>1 DEF StopSipServer, SipServerDies, Fault
    <2>2. CASE StartSipServer \/ SipServerStopped \/ checkSipEndpointHeartbeat
      BY <2>2 DEF StartSipServer, SipServerStopped, checkSipEndpointHeartbeat
    <2> QED
      BY <2>1, <2>2
  <1>3. faults' \in 0 .. MaxFaults /\ calm' \in 0 .. CalmCap
    <2>1. /\ faults \in 0 .. MaxFaults /\ calm \in 0 .. CalmCap
          /\ MaxFaults \in Nat /\ CalmCap \in Nat
      BY DEF TypeInv, TypeOK, GatewayAssumption
    <2> QED
      BY <1>2, <2>1
  <1> QED
    BY <1>1, <1>2, <1>3 DEF TypeInv, TypeOK, gatewayVars

(* No age passes its bound.                                                    *)
LEMMA OlderType ==
  ASSUME NEW max \in Nat, NEW n \in 0 .. max
  PROVE  Older(n, max) \in 0 .. max
  BY DEF Older, AtMost

LEMMA PeriodType ==
  ASSUME GatewayAssumption, TypeInv, TimerTypeOK', Period
  PROVE  TypeInv'
  <1>0. /\ gate \in Gate /\ reg \in Reg \cup {NULL} /\ requests \subseteq Request
        /\ server \in [up : BOOLEAN, endpoint : Endpoint \cup {NULL}]
        /\ gate.building => reg \in Reg
        /\ faults \in 0 .. MaxFaults /\ calm \in 0 .. CalmCap
    BY DEF TypeInv, TypeOK
  <1>c. /\ RegisterGap \in Nat /\ KeepaliveGap \in Nat /\ RefreshAge + 1 \in Nat
        /\ MonitorKeepalive \in Nat /\ Expires \in Nat /\ TransactionTime \in Nat
        /\ CalmCap \in Nat /\ MaxFaults \in Nat
    BY DEF GatewayAssumption
  <1>1. gate' \in Gate /\ gate'.building = gate.building
    <2>1. /\ gate' = [gate EXCEPT !.register = Older(gate.register, RegisterGap),
                                  !.keepalive = Older(gate.keepalive, KeepaliveGap)]
      BY DEF Period
    <2>2. gate.register \in 0 .. RegisterGap /\ gate.keepalive \in 0 .. KeepaliveGap
      BY <1>0 DEF Gate
    <2>3. /\ Older(gate.register, RegisterGap) \in 0 .. RegisterGap
          /\ Older(gate.keepalive, KeepaliveGap) \in 0 .. KeepaliveGap
      BY <1>c, <2>2, OlderType
    <2> QED
      BY <1>0, <2>1, <2>3 DEF Gate
  <1>2. reg' \in Reg \cup {NULL} /\ (gate.building => reg' \in Reg)
    <2>1. CASE reg = NULL
      BY <1>0, <2>1 DEF Period
    <2>2. CASE reg # NULL
      <3>1. reg \in Reg /\ reg' = [reg EXCEPT !.age = Older(reg.age, RefreshAge + 1)]
        BY <1>0, <2>2 DEF Period
      <3>2. reg.age \in 0 .. RefreshAge + 1
        BY <3>1 DEF Reg
      <3>3. Older(reg.age, RefreshAge + 1) \in 0 .. RefreshAge + 1
        BY <1>c, <3>2, OlderType
      <3> QED
        BY <3>1, <3>3 DEF Reg
    <2> QED
      BY <2>1, <2>2
  <1>3. requests' \subseteq Request
    <2>1. requests' = {[r EXCEPT !.age = r.age + 1] : r \in requests}
      BY DEF Period
    <2>2. ASSUME NEW r \in requests
          PROVE  [r EXCEPT !.age = r.age + 1] \in Request
      <3>1. r \in Request /\ r.age < TransactionTime
        BY <1>0 DEF Period
      <3>2. r.age + 1 \in 0 .. TransactionTime
        BY <1>c, <3>1 DEF Request
      <3> QED
        BY <3>1, <3>2 DEF Request
    <2> QED
      BY <2>1, <2>2
  <1>4. server' \in [up : BOOLEAN, endpoint : Endpoint \cup {NULL}]
    <2>1. CASE server.endpoint = NULL
      BY <1>0, <2>1 DEF Period
    <2>2. CASE server.endpoint # NULL
      <3> DEFINE e == server.endpoint
                 k == Older(e.keepalive, MonitorKeepalive)
                 g == Older(e.register, Expires)
      <3>1. e \in Endpoint
        BY <1>0, <2>2
      <3>2. e.keepalive \in 0 .. MonitorKeepalive /\ e.register \in 0 .. Expires
        BY <3>1 DEF Endpoint
      <3>3. k \in 0 .. MonitorKeepalive /\ g \in 0 .. Expires
        BY <1>c, <3>2, OlderType
      <3>4. server' = [server EXCEPT !.endpoint = [e EXCEPT !.keepalive = k, !.register = g]]
        BY <1>0, <2>2, <3>1 DEF Period, Endpoint
      <3>5. [e EXCEPT !.keepalive = k, !.register = g] \in Endpoint
        BY <3>1, <3>3 DEF Endpoint
      <3> HIDE DEF e, k, g
      <3> QED
        BY <1>0, <3>4, <3>5
    <2> QED
      BY <2>1, <2>2
  <1>5. faults' \in 0 .. MaxFaults /\ calm' \in 0 .. CalmCap
    <2>1. calm' = 0 \/ calm' = Older(calm, CalmCap)
      BY DEF Period, Fault
    <2>2. calm' \in 0 .. CalmCap
      BY <1>0, <1>c, <2>1, OlderType
    <2>3. faults' = faults \/ (faults < MaxFaults /\ faults' = faults + 1)
      BY DEF Period, Fault
    <2> QED
      BY <1>0, <1>c, <2>2, <2>3
  <1>6. UNCHANGED <<events, event>>
    BY DEF Period
  <1> QED
    BY <1>1, <1>2, <1>3, <1>4, <1>5, <1>6 DEF TypeInv, TypeOK

LEMMA TypesStart ==
  ASSUME TimerAssumption, GatewayAssumption
  PROVE  Init => TimerInv /\ TypeInv
  <1>1. 0 \in 0 .. Wrap - 1
    BY DEF TimerAssumption
  <1>2. Init => TimerInv
    BY <1>1 DEF Init, TimerInit, TimerInv, TimerTypeOK, Freed, Param, Place
  <1>3. /\ RegisterGap \in 0 .. RegisterGap /\ KeepaliveGap \in 0 .. KeepaliveGap
        /\ 0 \in 0 .. FailLimit - 1 /\ 0 \in 0 .. MaxFaults /\ 0 \in 0 .. CalmCap
    BY DEF GatewayAssumption
  <1>4. ASSUME Init PROVE TypeInv
    <2>1. gate \in Gate /\ ~gate.building
      BY <1>3, <1>4 DEF Init, Gate
    <2>2. events \in Seq(Event)
      BY <1>4 DEF Init
    <2> QED
      BY <1>2, <1>3, <1>4, <2>1, <2>2 DEF Init, TypeInv, TypeOK, TimerInv
  <1> QED
    BY <1>2, <1>4

LEMMA TypesStep ==
  ASSUME TimerAssumption, GatewayAssumption, TimerInv, TypeInv, [Next]_vars
  PROVE  TimerInv' /\ TypeInv'
  <1>1. TimerInv' /\ TimerTypeOK'
    BY TimerInvInductive DEF TimerInv
  <1>2. CASE keepaliveMsgTimer
    BY <1>1, <1>2, CallbackType
  <1>3. CASE NextEvent \/ GB28181EventCB
    BY <1>1, <1>3, EventType
  <1>4. CASE \E r \in requests : Deliver(r) \/ TimeoutF(r) \/ insertEndpoint(r)
                                   \/ updateSipEndpointKeepalive(r) \/ Lose(r)
    BY <1>1, <1>4, AnswerType, ServeType
  <1>5. CASE \/ StartSipServer \/ StopSipServer \/ SipServerStopped \/ SipServerDies
             \/ checkSipEndpointHeartbeat
    BY <1>1, <1>5, ServerType
  <1>6. CASE Period
    BY <1>1, <1>6, PeriodType
  <1>7. CASE UNCHANGED <<gatewayVars, server, faults, calm>>
    BY <1>1, <1>7 DEF TypeInv, TypeOK, gatewayVars
  <1>8. CASE GB28181MediaGate_Init \/ (\E h \in Timer : TimerThread(h)) \/ UNCHANGED vars
    BY <1>7, <1>8 DEF GB28181MediaGate_Init, TimerThread, vars
  <1> QED
    BY <1>1, <1>2, <1>3, <1>4, <1>5, <1>6, <1>8 DEF Next

(* Every REGISTER on its way carries the Call-ID of a registration, though it   *)
(* is built and sent in two steps (mediaGateRegister) with the event thread    *)
(* between them, and the ages and counters keep their bounds.                  *)
THEOREM TypeCorrect ==
  ASSUME TimerAssumption, GatewayAssumption
  PROVE  Spec => []TypeOK
  <1>1. Init => TimerInv /\ TypeInv
    BY TypesStart
  <1>2. TimerInv /\ TypeInv /\ [Next]_vars => (TimerInv /\ TypeInv)'
    BY TypesStep
  <1>3. TimerInv /\ TypeInv => TypeOK
    BY DEF TypeInv
  <1> QED
    BY <1>1, <1>2, <1>3, PTL DEF Spec

-----------------------------------------------------------------------------
(* The registration recovers and stays.  Stale requests are gone when it has   *)
(* been calm for longer than a transaction lasts; from then on every period    *)
(* begins at rest, and what is sent in it comes to its end in it.              *)

Clock == timer["gate"]

(* The timer has yet to call back, or to find the tick count wrapped; in the   *)
(* callback, it has yet to send.                                               *)
Ahead == ~gate.refreshing /\ (at["gate"] # "loop" \/ Clock.last # tick)

ClockInv ==
  /\ Clock.live => Clock.working /\ at["gate"] # "none"
  /\ at["gate"] = "call" => Clock.last = tick
  /\ at["gate"] = "loop" => \/ Clock.last = tick \/ tick = Clock.last + 1
                            \/ tick = 0 /\ Clock.last > 0
  /\ calm > 0 => server.up /\ Clock.live /\ at["gate"] \in {"call", "loop"}

(* Who needs a registration finds one, and one that waits for an answer has a  *)
(* request that does.                                                          *)
RegInv ==
  /\ reg = NULL => ~gate.registered /\ requests = {} /\ events = <<>> /\ event = NULL
  /\ gate.building => at["gate"] = "call" /\ reg # NULL /\ reg.last = "none"
  /\ reg # NULL /\ ~gate.building => reg.last # "none"
  /\ gate.refreshing => at["gate"] = "call" /\ ~gate.building /\ reg # NULL
  /\ at["gate"] = "loop" \/ calm > 0 => reg # NULL

OpenInv ==
  /\ reg # NULL /\ reg.last = "open" => \E r \in requests : Current(r)
  /\ \A r \in requests : Current(r) => reg.last = "open" /\ (r.age <= reg.age \/ reg.age > RefreshAge)
  /\ \A r, s \in requests : Current(r) /\ Current(s) => r = s

(* What was lost was sent before it was calm.                                  *)
StaleInv ==
  \A r \in requests :
    /\ r.at = "400" => r.callid = NULL
    /\ IF r.at \in {"lost", "provisional"} THEN r.age >= calm ELSE calm > 0 => r.age = 0

(* A REGISTER without an answer was sent before it was calm; since one that    *)
(* was answered the server has not been without news for longer than that.     *)
SentInv ==
  reg # NULL =>
    /\ reg.last = "no2xx" => reg.age >= calm \/ reg.age > RefreshAge
    /\ server.endpoint # NULL /\ (reg.last = "2xx" \/ \E r \in requests : Current(r) /\ r.at = "200")
         => server.endpoint.register <= reg.age \/ reg.age > RefreshAge

StackInv == ClockInv /\ RegInv /\ OpenInv /\ StaleInv /\ SentInv

-----------------------------------------------------------------------------
Settled == calm > TransactionTime
Asked == {"answered", "requestfailure"}

(* What is under way in a period: nothing; a keepalive, answered or refused;   *)
(* its event; a REGISTER, accepted; its event.                                 *)
Stage == {"rest", "ask", "yes", "no", "heard", "failed", "register", "ok", "success"}

Waiting(callid, code) == {[callid |-> callid, at |-> code, age |-> 0]}

RequestsAt(p) ==
  CASE p = "ask" -> Waiting(NULL, "sent") [] p = "yes" -> Waiting(NULL, "200")
    [] p = "no" -> Waiting(NULL, "400") [] p = "register" -> Waiting(reg.callid, "sent")
    [] p = "ok" -> Waiting(reg.callid, "200") [] OTHER -> {}

EventsAt(p) ==
  CASE p = "heard" -> <<"answered">> [] p = "failed" -> <<"requestfailure">>
    [] p = "success" -> <<"success">> [] OTHER -> <<>>

Asking(p) == p \in {"ask", "yes", "no", "heard", "failed"}
Failing(p) == p \in {"no", "failed"} \/ event = "requestfailure"
Renewing(p) == p \in {"register", "ok", "success"} \/ event = "success"
Renewed(p) == p \in {"ok", "success"} \/ event = "success"

AtStage(p) ==
  /\ requests = RequestsAt(p) /\ events = EventsAt(p)
  /\ event \in Asked \cup {NULL, "success"}
  /\ event = "success" => p = "rest"
  /\ event # NULL => ~Asking(p)
  /\ Ahead => p = "rest" /\ event = NULL
  /\ (reg.last = "open") <=> p \in {"register", "ok"}
  /\ Renewing(p) => reg.age = 0 /\ reg.last \in {"2xx", "open"}
  /\ Renewed(p) => server.endpoint = [callid |-> reg.callid, keepalive |-> 0, register |-> 0]

(* How many periods the timer may take to call back, and to send a keepalive.  *)
Skip == IF tick = 0 THEN 1 ELSE IF Ahead THEN 0 ELSE 2
Wait == IF gate.keepalive < KeepaliveGap THEN KeepaliveGap - gate.keepalive + 1 ELSE Skip

(* The server hears of the gateway in time, and will.                          *)
Kept ==
  server.endpoint.keepalive <=
    IF gate.keepalive < KeepaliveGap THEN gate.keepalive
    ELSE IF tick = 0 THEN KeepaliveGap ELSE IF Ahead THEN KeepaliveGap + 1 ELSE 0

Safe(p) ==
  /\ gate.registered /\ ~gate.building /\ server.endpoint # NULL /\ ~Failing(p)
  /\ reg.last \in {"2xx", "open"}
  /\ server.endpoint.keepalive <= KeepaliveGap + 1
  /\ server.endpoint.register <= RefreshAge + KeepaliveGap + 1
  /\ ~Renewing(p) =>
       /\ p = "ask" \/ Kept
       /\ p \in {"yes", "heard"} \/ server.endpoint.register <= RefreshAge + server.endpoint.keepalive

(* What is left to do until the next REGISTER is answered.                     *)
Pause(p) == IF Asking(p) \/ Failing(p) THEN 0 ELSE Wait
Rest == (FailLimit - gate.failures - 1) * (KeepaliveGap + 1)

Recovering(p) ==
  /\ calm < RecoveryTime
  /\ \/ Renewing(p) \/ gate.building
     \/ ~gate.registered /\ calm + Skip < RecoveryTime
     \/ /\ gate.registered /\ reg.last = "no2xx"
        /\ reg.age <= RetryAge \/ (event = NULL /\ calm + Pause(p) < RecoveryTime)
     \/ /\ gate.registered /\ reg.last = "2xx"
        /\ p \in {"yes", "heard"} => reg.age > RefreshAge
        /\ event # "answered"
        /\ calm + Pause(p) + Rest + 2 < RecoveryTime

(* The server has the registration under the Call-ID of the gateway's.  If it   *)
(* has not, the gateway's was answered before it was calm, or by a server that *)
(* is no more, and has yet to be refreshed.                                    *)
Same == server.endpoint # NULL /\ server.endpoint.callid = reg.callid

Former == reg.last = "2xx" => calm <= reg.age + TransactionTime \/ reg.age > RefreshAge

Old(p) ==
  /\ Former /\ calm < CalmCap
  /\ Renewing(p) \/ reg.age <= RefreshAge \/ (event = NULL /\ calm + Pause(p) < CalmCap)

AtPeace(p) == \/ Safe(p) /\ (Same \/ Old(p))
              \/ Recovering(p) /\ (Renewed(p) \/ Former)

SettledInv == Settled => \E p \in Stage : AtStage(p) /\ AtPeace(p)
-----------------------------------------------------------------------------
LEMMA Numbers ==
  ASSUME GatewayAssumption
  PROVE  /\ KeepaliveGap \in Nat \ {0} /\ RegisterGap \in Nat \ {0} /\ TransactionTime \in Nat \ {0}
         /\ RetryAge \in Nat \ {0} /\ RefreshAge \in Nat \ {0} /\ FailLimit \in Nat \ {0}
         /\ Expires \in Nat \ {0} /\ MonitorKeepalive \in Nat \ {0}
         /\ MaxFaults \in Nat /\ RecoveryTime \in Nat /\ CalmCap \in Nat
         /\ "gate" \in Timer /\ "server" \in Timer /\ NULL \notin CallId
  BY DEF GatewayAssumption

(* The types once more, field by field.                                        *)
LEMMA FieldTypes ==
  ASSUME GatewayAssumption, NullAssumption, TypeInv
  PROVE  /\ gate \in Gate /\ calm \in Nat /\ calm <= CalmCap
         /\ tick \in Int /\ Clock.last \in Int /\ Clock \in Param
         /\ reg # NULL => reg \in Reg /\ reg.callid \in CallId /\ reg.age \in 0 .. RefreshAge + 1
         /\ server.endpoint # NULL =>
              /\ server.endpoint \in Endpoint
              /\ server.endpoint.keepalive \in 0 .. MonitorKeepalive
              /\ server.endpoint.register \in 0 .. Expires
         /\ requests \subseteq Request /\ \A r \in requests : r.age \in 0 .. TransactionTime
  <1>1. /\ gate \in Gate /\ calm \in 0 .. CalmCap /\ CalmCap \in Nat /\ requests \subseteq Request
        /\ reg \in Reg \cup {NULL} /\ server \in [up : BOOLEAN, endpoint : Endpoint \cup {NULL}]
    BY Numbers DEF TypeInv, TypeOK
  <1>2. calm \in Nat /\ calm <= CalmCap
    BY <1>1
  <1>3. tick \in Int /\ Clock.last \in Int /\ Clock \in Param
    <2>1. /\ tick \in 0 .. Wrap - 1 /\ timer["gate"] \in Param
      BY Numbers DEF TypeInv, TypeOK, TimerTypeOK
    <2> QED
      BY <2>1 DEF Clock, Param
  <1>4. reg # NULL => reg \in Reg /\ reg.callid \in CallId /\ reg.age \in 0 .. RefreshAge + 1
    BY <1>1 DEF Reg
  <1>5. server.endpoint # NULL =>
          /\ server.endpoint \in Endpoint
          /\ server.endpoint.keepalive \in 0 .. MonitorKeepalive
          /\ server.endpoint.register \in 0 .. Expires
    BY <1>1 DEF Endpoint
  <1>6. \A r \in requests : r.age \in 0 .. TransactionTime
    BY <1>1 DEF Request
  <1> QED
    BY <1>1, <1>2, <1>3, <1>4, <1>5, <1>6

(* Steps that do not touch the gateway's timer.                                *)
SameClock == Clock' = Clock /\ at'["gate"] = at["gate"] /\ tick' = tick

LEMMA ServerTimer ==
  ASSUME GatewayAssumption, TimerInv,
         Create("server") \/ Advance("server") \/ Return("server") \/ Release("server")
           \/ Released("server")
  PROVE  SameClock
  BY Numbers DEF SameClock, Clock, TimerInv, TimerTypeOK, Create, Advance, Begin, Wrapped, Fire, End,
     Return, Release, Released, Thread

LEMMA SameClockSteps ==
  ASSUME GatewayAssumption, TimerInv,
         \/ BuildRegister \/ (RefreshRegister /\ MayRegister) \/ NextEvent \/ GB28181EventCB
         \/ \E r \in requests : Deliver(r) \/ TimeoutF(r) \/ insertEndpoint(r)
                                  \/ updateSipEndpointKeepalive(r) \/ Lose(r)
         \/ StartSipServer \/ StopSipServer \/ SipServerStopped \/ SipServerDies
         \/ checkSipEndpointHeartbeat \/ TimerThread("server") \/ UNCHANGED vars
  PROVE  SameClock
  <1>1. CASE UNCHANGED timerVars
    BY <1>1 DEF SameClock, Clock, timerVars
  <1>2. CASE BuildRegister \/ (RefreshRegister /\ MayRegister) \/ NextEvent \/ GB28181EventCB
             \/ UNCHANGED vars
    <2>1. UNCHANGED timerVars
      BY <1>2 DEF BuildRegister, RefreshRegister, NextEvent, GB28181EventCB, Handle, mediaGateHandleRegisterSuccess,
         mediaGateHandleRegisterFailure, mediaGateHandleMessageFailure, MessageAnswered, vars
    <2> QED
      BY <1>1, <2>1
  <1>3. CASE \E r \in requests : Deliver(r) \/ TimeoutF(r) \/ insertEndpoint(r)
                                   \/ updateSipEndpointKeepalive(r) \/ Lose(r)
    <2>1. UNCHANGED timerVars
      BY <1>3 DEF Deliver, TimeoutF, insertEndpoint, updateSipEndpointKeepalive, Answer, Lose
    <2> QED
      BY <1>1, <2>1
  <1>4. CASE SipServerDies
    <2>1. timer'["gate"] = timer["gate"] /\ at'["gate"] = at["gate"] /\ tick' = tick
      BY <1>4, Numbers DEF SipServerDies, TimerInv, TimerTypeOK
    <2> QED
      BY <2>1 DEF SameClock, Clock
  <1>5. CASE StartSipServer \/ StopSipServer \/ SipServerStopped \/ checkSipEndpointHeartbeat
             \/ TimerThread("server")
    BY <1>5, ServerTimer DEF StartSipServer, StopSipServer, SipServerStopped,
       checkSipEndpointHeartbeat, TimerThread
  <1> QED
    BY <1>2, <1>3, <1>4, <1>5

(* The server's part of a step: it stays up unless that counts as a fault.     *)
LEMMA CalmSteps ==
  ASSUME GatewayAssumption, TypeInv, [Next]_vars, ~Period
  PROVE  calm' = 0 \/ (calm' = calm /\ (server.up => server'.up))
  <1>0. server \in [up : BOOLEAN, endpoint : Endpoint \cup {NULL}]
    BY DEF TypeInv, TypeOK
  <1>1. CASE keepaliveMsgTimer \/ NextEvent \/ GB28181EventCB \/ GB28181MediaGate_Init
             \/ (\E h \in Timer : TimerThread(h)) \/ UNCHANGED vars
    BY <1>1 DEF keepaliveMsgTimer, BuildRegister, SendInitial, RefreshRegister, NoteRefresh, Keepalive,
       NextEvent,
       GB28181EventCB, Handle, mediaGateHandleRegisterSuccess, mediaGateHandleRegisterFailure,
       mediaGateHandleMessageFailure, MessageAnswered, GB28181MediaGate_Init, TimerThread, vars
  <1>2. CASE \E r \in requests : Deliver(r) \/ TimeoutF(r)
    BY <1>2 DEF Deliver, TimeoutF
  <1>3. CASE \E r \in requests : insertEndpoint(r) \/ updateSipEndpointKeepalive(r) \/ Lose(r)
    BY <1>0, <1>3 DEF insertEndpoint, updateSipEndpointKeepalive, Answer, Lose, Fault
  <1>4. CASE StartSipServer \/ StopSipServer \/ SipServerStopped \/ SipServerDies
             \/ checkSipEndpointHeartbeat
    BY <1>0, <1>4 DEF StartSipServer, StopSipServer, SipServerStopped, SipServerDies,
       checkSipEndpointHeartbeat, Fault
  <1> QED
    BY <1>1, <1>2, <1>3, <1>4 DEF Next

(* What a period makes of the ages.                                            *)
Grows(n, m, max) == m = IF n < max THEN n + 1 ELSE max

LEMMA PeriodFacts ==
  ASSUME GatewayAssumption, NullAssumption, TimesFit, TimerAssumption, TimerInv, TypeInv,
         ClockInv, Period
  PROVE  /\ Clock' = Clock /\ at' = at /\ at["gate"] \notin {"start", "call"}
         /\ at["gate"] = "loop" => Clock.last = tick
         /\ tick' \in {0, tick + 1} /\ (tick' = 0 => tick > 0)
         /\ \/ calm' = 0
            \/ /\ calm' \in {calm, calm + 1} /\ ~Pending /\ server.up /\ server'.up
               /\ Clock.live /\ at["gate"] = "loop"
         /\ gate'.registered = gate.registered /\ gate'.building = gate.building
         /\ gate'.refreshing = gate.refreshing /\ gate'.failures = gate.failures
         /\ Grows(gate.keepalive, gate'.keepalive, KeepaliveGap)
         /\ reg = NULL => reg' = NULL
         /\ reg # NULL => /\ reg' # NULL /\ reg'.callid = reg.callid /\ reg'.last = reg.last
                          /\ Grows(reg.age, reg'.age, RefreshAge + 1)
         /\ server.endpoint = NULL => server'.endpoint = NULL
         /\ server.endpoint # NULL =>
              /\ server'.endpoint # NULL /\ server'.endpoint.callid = server.endpoint.callid
              /\ Grows(server.endpoint.keepalive, server'.endpoint.keepalive, MonitorKeepalive)
              /\ Grows(server.endpoint.register, server'.endpoint.register, Expires)
         /\ requests' = {[r EXCEPT !.age = r.age + 1] : r \in requests}
         /\ \A r \in requests : r.age < TransactionTime
         /\ events' = events /\ event' = event
  <1>0. /\ gate \in Gate /\ reg \in Reg \cup {NULL} /\ calm \in 0 .. CalmCap /\ CalmCap \in Nat
        /\ server \in [up : BOOLEAN, endpoint : Endpoint \cup {NULL}]
        /\ tick \in 0 .. Wrap - 1 /\ Wrap \in Nat \ {0} /\ Wrap > 1 /\ Elapse = 1
        /\ timer["gate"] \in Param /\ NULL \notin Reg /\ NULL \notin Endpoint
    BY Numbers DEF TypeInv, TypeOK, TimerTypeOK, TimerAssumption, TimesFit, NullAssumption
  <1>o. \A n, max \in Int : n <= max => Grows(n, Older(n, max), max)
    BY DEF Grows, Older, AtMost
  <1>1. /\ Clock' = Clock /\ at' = at /\ at["gate"] \notin {"start", "call"}
        /\ at["gate"] = "loop" => Clock.last = tick
    <2>1. /\ timer' = timer /\ at' = at /\ at["gate"] \notin {"start", "call"}
          /\ at["gate"] = "loop" => timer["gate"].last <= tick /\ ~(tick - timer["gate"].last >= Elapse)
      BY Numbers DEF Period, Tick, Idle, Due
    <2>2. timer["gate"].last \in Int
      BY <1>0 DEF Param
    <2> QED
      BY <1>0, <2>1, <2>2 DEF Clock
  <1>2. tick' \in {0, tick + 1} /\ (tick' = 0 => tick > 0)
    <2>1. tick' = (tick + 1) % Wrap
      BY DEF Period, Tick
    <2>2. CASE tick + 1 < Wrap
      <3>1. (tick + 1) % Wrap = tick + 1
        BY <1>0, <2>2
      <3> QED
        BY <1>0, <2>1, <3>1
    <2>3. CASE tick + 1 = Wrap
      <3>1. Wrap % Wrap = 0
        BY <1>0
      <3> QED
        BY <1>0, <2>1, <2>3, <3>1
    <2> QED
      BY <1>0, <2>2, <2>3
  <1>3. \/ calm' = 0
        \/ /\ calm' \in {calm, calm + 1} /\ ~Pending /\ server.up /\ server'.up
           /\ Clock.live /\ at["gate"] = "loop"
    <2>1. \/ calm' = 0
          \/ ~Pending /\ server.up /\ timer["gate"].live /\ calm' = Older(calm, CalmCap)
      BY DEF Period, Fault
    <2>2. Older(calm, CalmCap) \in {calm, calm + 1}
      BY <1>0 DEF Older, AtMost
    <2>3. server'.up = server.up
      BY <1>0 DEF Period
    <2>4. timer["gate"].live => at["gate"] = "loop"
      BY <1>1, Numbers DEF Clock, ClockInv, TimerInv, TimerTypeOK, Place
    <2> QED
      BY <2>1, <2>2, <2>3, <2>4 DEF Clock
  <1>4. /\ gate'.registered = gate.registered /\ gate'.building = gate.building
        /\ gate'.refreshing = gate.refreshing /\ gate'.failures = gate.failures
        /\ Grows(gate.keepalive, gate'.keepalive, KeepaliveGap)
    <2>1. gate' = [gate EXCEPT !.register = Older(gate.register, RegisterGap),
                               !.keepalive = Older(gate.keepalive, KeepaliveGap)]
      BY DEF Period
    <2>2. gate.keepalive \in Int /\ gate.keepalive <= KeepaliveGap /\ KeepaliveGap \in Int
      BY <1>0, Numbers DEF Gate
    <2>3. gate'.keepalive = Older(gate.keepalive, KeepaliveGap)
      BY <1>0, <2>1 DEF Gate
    <2>4. Grows(gate.keepalive, gate'.keepalive, KeepaliveGap)
      BY <1>o, <2>2, <2>3
    <2> QED
      BY <1>0, <2>1, <2>4 DEF Gate
  <1>5. /\ reg = NULL => reg' = NULL
        /\ reg # NULL => /\ reg' # NULL /\ reg'.callid = reg.callid /\ reg'.last = reg.last
                         /\ Grows(reg.age, reg'.age, RefreshAge + 1)
    <2>1. CASE reg = NULL
      BY <2>1 DEF Period
    <2>2. CASE reg # NULL
      <3>1. reg \in Reg /\ reg' = [reg EXCEPT !.age = Older(reg.age, RefreshAge + 1)]
        BY <1>0, <2>2 DEF Period
      <3>2. reg.age \in Int /\ reg.age <= RefreshAge + 1 /\ RefreshAge + 1 \in Int
        BY <3>1, Numbers DEF Reg
      <3>3. /\ reg'.callid = reg.callid /\ reg'.last = reg.last
            /\ reg'.age = Older(reg.age, RefreshAge + 1)
        BY <3>1 DEF Reg
      <3>4. reg' # NULL
        <4>1. Older(reg.age, RefreshAge + 1) \in 0 .. RefreshAge + 1
          BY <3>1, Numbers, OlderType DEF Reg
        <4>2. reg' \in Reg
          BY <3>1, <4>1 DEF Reg
        <4> QED
          BY <1>0, <4>2
      <3>5. Grows(reg.age, Older(reg.age, RefreshAge + 1), RefreshAge + 1)
        BY <1>o, <3>2
      <3> QED
        BY <2>2, <3>3, <3>4, <3>5
    <2> QED
      BY <2>1, <2>2
  <1>6. /\ server.endpoint = NULL => server'.endpoint = NULL
        /\ server.endpoint # NULL =>
             /\ server'.endpoint # NULL /\ server'.endpoint.callid = server.endpoint.callid
             /\ Grows(server.endpoint.keepalive, server'.endpoint.keepalive, MonitorKeepalive)
             /\ Grows(server.endpoint.register, server'.endpoint.register, Expires)
    <2>1. CASE server.endpoint = NULL
      BY <2>1 DEF Period
    <2>2. CASE server.endpoint # NULL
      <3> DEFINE e == server.endpoint
                 k == Older(e.keepalive, MonitorKeepalive)
                 g == Older(e.register, Expires)
      <3>1. e \in Endpoint
        BY <1>0, <2>2
      <3>2. e.keepalive \in 0 .. MonitorKeepalive /\ e.register \in 0 .. Expires
        BY <3>1 DEF Endpoint
      <3>3. k \in 0 .. MonitorKeepalive /\ g \in 0 .. Expires
        BY <3>2, Numbers, OlderType
      <3>4. Grows(e.keepalive, k, MonitorKeepalive) /\ Grows(e.register, g, Expires)
        BY <1>o, <3>2, Numbers
      <3>5. server' = [server EXCEPT !.endpoint = [e EXCEPT !.keepalive = k, !.register = g]]
        BY <1>0, <2>2, <3>1 DEF Period, Endpoint
      <3>6. /\ [e EXCEPT !.keepalive = k, !.register = g] \in Endpoint
            /\ [e EXCEPT !.keepalive = k, !.register = g].callid = e.callid
            /\ [e EXCEPT !.keepalive = k, !.register = g].keepalive = k
            /\ [e EXCEPT !.keepalive = k, !.register = g].register = g
        BY <3>1, <3>3 DEF Endpoint
      <3> HIDE DEF k, g
      <3>7. server'.endpoint = [e EXCEPT !.keepalive = k, !.register = g]
        BY <1>0, <3>5
      <3> QED
        BY <1>0, <2>2, <3>4, <3>6, <3>7
    <2> QED
      BY <2>1, <2>2
  <1>7. /\ requests' = {[r EXCEPT !.age = r.age + 1] : r \in requests}
        /\ \A r \in requests : r.age < TransactionTime
        /\ events' = events /\ event' = event
    BY DEF Period
  <1> QED
    BY <1>1, <1>2, <1>3, <1>4, <1>5, <1>6, <1>7

LEMMA ClockStep ==
  ASSUME GatewayAssumption, NullAssumption, TimesFit, TimerAssumption, TimerInv, TypeInv,
         ClockInv, [Next]_vars
  PROVE  ClockInv'
  <1>0. /\ tick \in Int /\ Clock.last \in Int /\ calm \in Nat /\ "gate" \in Timer
        /\ timer["gate"] \in Param /\ at["gate"] \in Place
        /\ timer \in [Timer -> Param] /\ at \in [Timer -> Place]
        /\ at["gate"] # "none" => Clock.live
    BY FieldTypes, Numbers DEF TimerInv, TimerTypeOK, Clock
  <1>1. CASE SameClock /\ ~Period
    BY <1>1, CalmSteps DEF ClockInv, SameClock
  <1>2. CASE GB28181MediaGate_Init
    <2>1. ~Clock.live /\ timer'["gate"] = [Freed EXCEPT !.live = TRUE, !.working = TRUE]
          /\ at'["gate"] = "start" /\ calm' = calm
      BY <1>0, <1>2 DEF GB28181MediaGate_Init, Create, Thread, Clock
    <2>2. calm = 0
      BY <1>0, <2>1 DEF ClockInv
    <2>3. Clock'.live /\ Clock'.working
      BY <2>1 DEF Clock, Freed
    <2> QED
      BY <2>1, <2>2, <2>3 DEF ClockInv
  <1>3. CASE keepaliveMsgTimer /\ ~BuildRegister /\ ~(RefreshRegister /\ MayRegister)
    <2>1. at["gate"] = "call" /\ at'["gate"] = "loop" /\ UNCHANGED <<tick, timer>> /\ ~Period
      <3>1. Return("gate")
        BY <1>3 DEF keepaliveMsgTimer, SendInitial, RefreshRegister, NoteRefresh, Keepalive
      <3>2. ~Period
        BY <3>1, Numbers DEF Return, Thread, Period, Tick, Idle
      <3> QED
        BY <1>0, <3>1, <3>2 DEF Return, Thread
    <2>2. Clock' = Clock
      BY <2>1 DEF Clock
    <2> QED
      BY <2>1, <2>2, CalmSteps DEF ClockInv
  <1>4. CASE TimerThread("gate")
    <2>1. UNCHANGED <<server, calm>> /\ Advance("gate")
      BY <1>4 DEF TimerThread
    <2>2. ~End("gate")
      BY <1>0 DEF End, Thread, ClockInv, Clock
    <2>3. /\ at["gate"] # "none" /\ timer'["gate"] = [timer["gate"] EXCEPT !.last = tick]
          /\ at'["gate"] \in {"call", "loop"} /\ tick' = tick
      BY <1>0, <2>1, <2>2 DEF Advance, Begin, Wrapped, Fire, Thread
    <2>4. Clock'.last = tick /\ Clock'.live = Clock.live /\ Clock'.working = Clock.working
      BY <1>0, <2>3 DEF Clock, Param
    <2> QED
      BY <1>0, <2>1, <2>3, <2>4 DEF ClockInv
  <1>5. CASE Period
    <2>1. /\ Clock' = Clock /\ at'["gate"] = at["gate"] /\ at["gate"] \notin {"start", "call"}
          /\ at["gate"] = "loop" => Clock.last = tick
          /\ tick' \in {0, tick + 1} /\ (tick' = 0 => tick > 0)
          /\ calm' = 0 \/ (server'.up /\ Clock.live /\ at["gate"] = "loop")
      BY <1>5, PeriodFacts
    <2> QED
      BY <1>0, <2>1 DEF ClockInv
  <1>6. CASE TimerThread("server") /\ ~Period
    BY <1>1, <1>6, SameClockSteps
  <1>7. ASSUME NEW h \in Timer, TimerThread(h), ~Period
        PROVE  ClockInv'
    BY <1>4, <1>6, <1>7 DEF GatewayAssumption
  <1> QED
    BY <1>1, <1>2, <1>3, <1>5, <1>7, SameClockSteps DEF Next

-----------------------------------------------------------------------------
(* What a step does to the registration and to the requests.                   *)
GInv == TimerInv /\ TypeInv /\ StackInv

Sends == reg # NULL /\ reg.last # "open" /\ SendRegister

Asks == UNCHANGED <<reg, server, calm>> /\ requests' = requests \cup {Sent(NULL)}

Quiet ==
  /\ UNCHANGED <<reg, requests>>
  /\ server'.endpoint # NULL => server'.endpoint = server.endpoint

LEMMA StackParts ==
  ASSUME GatewayAssumption, NullAssumption, GInv, [Next]_vars
  PROVE  \/ BuildRegister
         \/ Sends /\ UNCHANGED <<server, calm>>
         \/ Asks
         \/ \E r \in requests : Deliver(r) \/ TimeoutF(r)
         \/ \E r \in requests : insertEndpoint(r) \/ updateSipEndpointKeepalive(r) \/ Lose(r)
         \/ Period
         \/ Quiet
  <1>0. server \in [up : BOOLEAN, endpoint : Endpoint \cup {NULL}]
    BY DEF GInv, TypeInv, TypeOK
  <1>1. CASE SendInitial
    BY <1>1 DEF GInv, StackInv, RegInv, SendInitial, Sends
  <1>2. CASE RefreshRegister
    <2>1. CASE MayRegister
      BY <1>2, <2>1 DEF RefreshRegister, MayRegister, Sends
    <2>2. CASE ~MayRegister
      BY <1>2, <2>2 DEF RefreshRegister, Quiet
    <2> QED
      BY <2>1, <2>2
  <1>3. CASE NoteRefresh \/ Keepalive
    BY <1>3 DEF NoteRefresh, Keepalive, Asks, Quiet
  <1>4. CASE NextEvent
    <2>1. CASE RefreshIsDue
      BY <1>4, <2>1 DEF NextEvent, RefreshIsDue, Sends
    <2>2. CASE ~RefreshIsDue
      BY <1>4, <2>2 DEF NextEvent, Quiet
    <2> QED
      BY <2>1, <2>2
  <1>5. CASE GB28181EventCB \/ GB28181MediaGate_Init \/ (\E h \in Timer : TimerThread(h))
             \/ UNCHANGED vars
    BY <1>5 DEF GB28181EventCB, Handle, mediaGateHandleRegisterSuccess, mediaGateHandleRegisterFailure,
       mediaGateHandleMessageFailure, MessageAnswered, GB28181MediaGate_Init, TimerThread, vars,
       gatewayVars, Quiet
  <1>6. CASE StartSipServer \/ StopSipServer \/ SipServerStopped \/ SipServerDies
             \/ checkSipEndpointHeartbeat
    <2>1. UNCHANGED gatewayVars
      BY <1>6 DEF StartSipServer, StopSipServer, SipServerStopped, SipServerDies,
         checkSipEndpointHeartbeat
    <2>2. server'.endpoint # NULL => server'.endpoint = server.endpoint
      BY <1>0, <1>6 DEF StartSipServer, StopSipServer, SipServerStopped, SipServerDies,
         checkSipEndpointHeartbeat
    <2> QED
      BY <2>1, <2>2 DEF Quiet, gatewayVars
  <1> QED
    BY <1>1, <1>2, <1>3, <1>4, <1>5, <1>6 DEF Next, keepaliveMsgTimer

(* A new registration belongs to none of the requests.                         *)
LEMMA Built ==
  ASSUME GatewayAssumption, NullAssumption, TypeInv, BuildRegister
  PROVE  /\ reg' \in Reg /\ reg' # NULL /\ reg'.last = "none" /\ reg'.age = 0 /\ gate'.building
         /\ \A r \in requests : r.callid # reg'.callid
         /\ requests' = requests /\ at["gate"] = "call"
         /\ UNCHANGED <<timerVars, events, event, server, faults, calm>>
         /\ gate'.registered = gate.registered /\ ~gate.registered
         /\ gate' = [gate EXCEPT !.building = TRUE] /\ ~gate.building
         /\ ~gate.refreshing /\ ~gate'.refreshing
  <1>1. PICK c \in CallId \ InUse : reg' = [callid |-> c, last |-> "none", age |-> 0]
    BY DEF BuildRegister, BuildInitial
  <1>2. reg' \in Reg
    BY <1>1 DEF Reg, GatewayAssumption
  <1>3. reg' # NULL
    BY <1>2 DEF NullAssumption
  <1>4. \A r \in requests : r.callid # c
    BY <1>1 DEF InUse
  <1>5. gate \in Gate
    BY DEF TypeInv, TypeOK
  <1>6. /\ gate'.building /\ gate'.registered = gate.registered
        /\ gate'.refreshing = gate.refreshing
    BY <1>5 DEF Gate, BuildRegister
  <1> QED
    BY <1>1, <1>2, <1>3, <1>4, <1>6 DEF BuildRegister, Callback

(* A REGISTER is sent.                                                         *)
LEMMA Sending ==
  ASSUME GatewayAssumption, NullAssumption, TypeInv, reg # NULL, SendRegister
  PROVE  /\ reg' # NULL /\ reg'.callid = reg.callid /\ reg'.last = "open" /\ reg'.age = 0
         /\ requests' = requests \cup Waiting(reg.callid, "sent")
         /\ Waiting(reg.callid, "sent") = {Sent(reg.callid)}
  <1>1. reg \in Reg /\ 0 \in 0 .. RefreshAge + 1
    BY Numbers DEF TypeInv, TypeOK
  <1>2. reg' = [reg EXCEPT !.last = "open", !.age = 0]
    BY DEF SendRegister
  <1>3. reg' \in Reg
    BY <1>1, <1>2 DEF Reg
  <1>4. reg'.callid = reg.callid /\ reg'.last = "open" /\ reg'.age = 0
    BY <1>1, <1>2 DEF Reg
  <1> QED
    BY <1>3, <1>4 DEF NullAssumption, SendRegister, Sent, Waiting

(* The end of a request                                                        *)
LEMMA Ending ==
  ASSUME GatewayAssumption, NullAssumption, GInv, NEW r \in requests, Deliver(r) \/ TimeoutF(r)
  PROVE  /\ reg # NULL /\ reg' # NULL /\ reg'.callid = reg.callid /\ reg'.age = reg.age
         /\ requests' = requests \ {r}
         /\ ~Current(r) => reg' = reg
         /\ Current(r) => \/ Deliver(r) /\ r.at = "200" /\ reg'.last = "2xx"
                          \/ TimeoutF(r) /\ reg'.last = "no2xx"
         /\ Current(r) => reg.last = "open"
         /\ UNCHANGED <<timerVars, gate, event, server, faults, calm>>
  <1>1. reg # NULL /\ reg \in Reg
    BY DEF GInv, StackInv, RegInv, TypeInv, TypeOK
  <1>2. \A l \in {"2xx", "no2xx"} : /\ [reg EXCEPT !.last = l] \in Reg
                                    /\ [reg EXCEPT !.last = l].callid = reg.callid
                                    /\ [reg EXCEPT !.last = l].age = reg.age
                                    /\ [reg EXCEPT !.last = l].last = l
    BY <1>1 DEF Reg
  <1>3. Current(r) => /\ reg.last = "open" /\ r.callid \in CallId
                      /\ (r.at = "400" => r.callid = NULL)
    BY <1>1 DEF Reg, Current, GInv, StackInv, OpenInv, StaleInv
  <1>4. NULL \notin CallId /\ NULL \notin Reg
    BY Numbers DEF NullAssumption
  <1>5. CASE Deliver(r)
    <2>1. /\ requests' = requests \ {r} /\ r.at \in {"200", "400"}
          /\ UNCHANGED <<timerVars, gate, event, server, faults, calm>>
          /\ reg' = IF r.callid # NULL /\ Current(r) THEN [reg EXCEPT !.last = "2xx"] ELSE reg
      BY <1>5 DEF Deliver
    <2>2. CASE Current(r)
      <3>1. reg' = [reg EXCEPT !.last = "2xx"] /\ r.at = "200"
        BY <1>3, <1>4, <2>1, <2>2
      <3> QED
        BY <1>1, <1>2, <1>3, <1>4, <1>5, <2>1, <2>2, <3>1
    <2>3. CASE ~Current(r)
      BY <1>1, <2>1, <2>3
    <2> QED
      BY <2>2, <2>3
  <1>6. CASE TimeoutF(r)
    <2>1. /\ requests' = requests \ {r}
          /\ UNCHANGED <<timerVars, gate, event, server, faults, calm>>
          /\ reg' = IF Current(r) THEN [reg EXCEPT !.last = "no2xx"] ELSE reg
      BY <1>6 DEF TimeoutF
    <2>2. CASE Current(r)
      <3>1. reg' = [reg EXCEPT !.last = "no2xx"]
        BY <2>1, <2>2
      <3> QED
        BY <1>1, <1>2, <1>3, <1>4, <1>6, <2>1, <2>2, <3>1
    <2>3. CASE ~Current(r)
      BY <1>1, <2>1, <2>3
    <2> QED
      BY <2>2, <2>3
  <1> QED
    BY <1>5, <1>6

(* What the server or the network makes of a request                           *)
Replaced(r, q) ==
  /\ requests' = (requests \ {r}) \cup {q} /\ q.callid = r.callid /\ q.age = r.age
  /\ UNCHANGED <<timerVars, gate, reg, events, event>>
  /\ \/ Lose(r) /\ server' = server /\ q.at \in {"lost", "provisional"} /\ calm' = 0
     \/ /\ insertEndpoint(r) /\ q.at = "200" /\ r.at = "sent" /\ r.callid # NULL
        /\ server'.endpoint = [callid |-> r.callid, keepalive |-> 0, register |-> 0]
        /\ calm' = calm
     \/ /\ updateSipEndpointKeepalive(r) /\ r.at = "sent" /\ r.callid = NULL /\ calm' = calm
        /\ \/ server.endpoint = NULL /\ server'.endpoint = NULL /\ q.at = "400"
           \/ /\ server.endpoint # NULL /\ q.at = "200"
              /\ server'.endpoint = [server.endpoint EXCEPT !.keepalive = 0]

LEMMA Replacing ==
  ASSUME GatewayAssumption, TypeInv, NEW r \in requests,
         insertEndpoint(r) \/ updateSipEndpointKeepalive(r) \/ Lose(r)
  PROVE  \E q \in Request : Replaced(r, q)
  <1> USE DEF Replaced
  <1>0. /\ r \in Request /\ server \in [up : BOOLEAN, endpoint : Endpoint \cup {NULL}]
        /\ \A a \in {"sent", "200", "400", "lost", "provisional"} : [r EXCEPT !.at = a] \in Request
    BY RequestType DEF TypeInv, TypeOK
  <1>1. \A a \in {"200", "400", "lost", "provisional"} :
          /\ [r EXCEPT !.at = a].callid = r.callid /\ [r EXCEPT !.at = a].age = r.age
          /\ [r EXCEPT !.at = a].at = a
    BY <1>0 DEF Request
  <1>2. CASE insertEndpoint(r)
    <2> DEFINE q == [r EXCEPT !.at = "200"]
    <2>1. q \in Request /\ q.callid = r.callid /\ q.age = r.age /\ q.at = "200"
      BY <1>0, <1>1
    <2>2. requests' = (requests \ {r}) \cup {q}
      BY <1>2 DEF insertEndpoint, Answer
    <2> HIDE DEF q
    <2> QED
      BY <1>0, <1>2, <2>1, <2>2 DEF insertEndpoint, Answer
  <1>3. CASE updateSipEndpointKeepalive(r)
    <2>1. CASE server.endpoint = NULL
      <3> DEFINE q == [r EXCEPT !.at = "400"]
      <3>1. q \in Request /\ q.callid = r.callid /\ q.age = r.age /\ q.at = "400"
        BY <1>0, <1>1
      <3>2. requests' = (requests \ {r}) \cup {q}
        BY <1>3, <2>1 DEF updateSipEndpointKeepalive, Answer
      <3> HIDE DEF q
      <3> QED
        BY <1>0, <1>3, <2>1, <3>1, <3>2 DEF updateSipEndpointKeepalive, Answer
    <2>2. CASE server.endpoint # NULL
      <3> DEFINE q == [r EXCEPT !.at = "200"]
                 e == [server.endpoint EXCEPT !.keepalive = 0]
      <3>1. q \in Request /\ q.callid = r.callid /\ q.age = r.age /\ q.at = "200"
        BY <1>0, <1>1
      <3>2. requests' = (requests \ {r}) \cup {q} /\ server' = [server EXCEPT !.endpoint = e]
        BY <1>3, <2>2 DEF updateSipEndpointKeepalive, Answer
      <3> HIDE DEF q, e
      <3>3. server'.endpoint = e
        BY <1>0, <3>2
      <3> QED
        BY <1>3, <2>2, <3>1, <3>2, <3>3 DEF updateSipEndpointKeepalive, Answer, e
    <2> QED
      BY <2>1, <2>2
  <1>4. CASE Lose(r)
    <2>1. PICK a \in {"lost", "provisional"} : requests' = (requests \ {r}) \cup {[r EXCEPT !.at = a]}
      BY <1>4 DEF Lose
    <2>2. /\ server' = server /\ calm' = 0
          /\ UNCHANGED <<timerVars, gate, reg, events, event>>
      BY <1>4 DEF Lose, Fault
    <2> DEFINE q == [r EXCEPT !.at = a]
    <2>3. q \in Request /\ q.callid = r.callid /\ q.age = r.age /\ q.at \in {"lost", "provisional"}
      BY <1>0, <1>1, <2>1
    <2> HIDE DEF q
    <2> QED
      BY <1>4, <2>1, <2>2, <2>3 DEF q
  <1> QED
    BY <1>2, <1>3, <1>4

(* Who needs a registration finds one.                                         *)
LEMMA RegStep ==
  ASSUME GatewayAssumption, NullAssumption, TimesFit, TimerAssumption, GInv, [Next]_vars
  PROVE  RegInv'
  <1>0. /\ gate \in Gate /\ "gate" \in Timer /\ at \in [Timer -> Place] /\ calm \in Nat
        /\ TimerInv /\ TypeInv /\ ClockInv /\ RegInv /\ OpenInv /\ StaleInv
        /\ at["gate"] # "none" => Clock.live /\ Clock.working
    BY FieldTypes, Numbers DEF GInv, StackInv, TimerInv, TimerTypeOK, ClockInv, Clock
  <1> USE DEF RegInv
  (* The step leaves the timer's thread where it is, or it is calm no more.     *)
  <1>1. CASE BuildRegister
    BY <1>0, <1>1, Built DEF timerVars
  <1>2. CASE SendInitial
    <2>1. /\ reg' # NULL /\ reg'.last = "open"
      BY <1>0, <1>2, Sending DEF SendInitial
    <2>2. ~gate'.building /\ ~gate'.refreshing
      BY <1>0, <1>2, GateType, GateRefreshing DEF SendInitial
    <2> QED
      BY <2>1, <2>2
  <1>3. CASE RefreshRegister \/ Keepalive
    <2>1. /\ ~gate.building /\ ~gate.refreshing /\ gate.registered /\ at["gate"] = "call"
          /\ UNCHANGED <<events, event, server, calm>>
      BY <1>3 DEF RefreshRegister, Keepalive, Callback
    <2>2. /\ ~gate'.building
          /\ gate'.refreshing => at'["gate"] = "call"
      <3>1. CASE gate' = gate
        BY <2>1, <3>1
      <3>2. CASE gate' = [gate EXCEPT !.refreshing = TRUE] /\ UNCHANGED timerVars
        BY <1>0, <2>1, <3>2, GateBuilding DEF timerVars
      <3>3. CASE gate' = [gate EXCEPT !.keepalive = 0]
        BY <1>0, <2>1, <3>3, GateBuilding, GateRefreshing
      <3> QED
        BY <1>3, <3>1, <3>2, <3>3 DEF RefreshRegister, Keepalive
    <2>3. reg' # NULL /\ reg'.last # "none"
      <3>1. CASE SendRegister
        BY <1>0, <2>1, <3>1, Sending
      <3>2. CASE reg' = reg
        BY <1>0, <2>1, <3>2
      <3> QED
        BY <1>3, <3>1, <3>2 DEF RefreshRegister, Keepalive
    <2> QED
      BY <2>2, <2>3
  <1>12. CASE NoteRefresh
    <2>1. /\ gate'.building = gate.building /\ ~gate'.refreshing /\ gate.refreshing
          /\ UNCHANGED <<reg, requests, events, event, server, calm>>
      <3>1. gate' = [gate EXCEPT !.register = RegisterGap, !.refreshing = FALSE]
        BY <1>12 DEF NoteRefresh
      <3> QED
        BY <1>0, <1>12, <3>1, GateBuilding, GateRefreshing DEF NoteRefresh
    <2>2. ~gate.building /\ reg # NULL /\ reg.last # "none"
      BY <1>0, <2>1, Zenon DEF RegInv
    <2> QED
      BY <2>1, <2>2
  <1>4. CASE NextEvent
    <2>1. reg # NULL /\ gate' = gate /\ UNCHANGED timerVars
      BY <1>0, <1>4 DEF NextEvent
    <2>2. \/ reg' = reg
          \/ ~gate.building /\ reg' # NULL /\ reg'.last = "open"
      BY <1>0, <1>4, <2>1, Sending DEF NextEvent, RefreshIsDue
    <2> QED
      BY <1>0, <2>1, <2>2 DEF timerVars
  <1>5. CASE GB28181EventCB
    <2>1. /\ event # NULL /\ event' = NULL
          /\ UNCHANGED <<timerVars, reg, requests, events, server, calm>>
      BY <1>5 DEF GB28181EventCB, Handle, mediaGateHandleRegisterSuccess, mediaGateHandleRegisterFailure,
         mediaGateHandleMessageFailure, MessageAnswered, NullAssumption, Event
    <2>2. gate'.building = gate.building /\ gate'.refreshing = gate.refreshing
      <3>1. CASE \/ gate' = [gate EXCEPT !.failures = 0, !.registered = FALSE]
                 \/ gate' = [gate EXCEPT !.failures = @ + 1]
        <4>1. gate \in Gate
          BY <1>0
        <4>2. gate'.building = gate.building
          BY <3>1, <4>1, GateBuilding
        <4>3. gate'.refreshing = gate.refreshing
          BY <3>1, <4>1, GateRefreshing
        <4> QED
          BY <4>2, <4>3
      <3>2. CASE \/ gate' = [gate EXCEPT !.registered = TRUE, !.register = 0]
                 \/ gate' = [gate EXCEPT !.registered = FALSE] \/ gate' = gate
        <4>1. gate \in Gate
          BY <1>0
        <4>2. gate'.building = gate.building
          BY <3>2, <4>1, GateBuilding
        <4>3. gate'.refreshing = gate.refreshing
          BY <3>2, <4>1, GateRefreshing
        <4> QED
          BY <4>2, <4>3
      <3> QED
        BY <1>5, <3>1, <3>2 DEF GB28181EventCB, Handle, mediaGateHandleRegisterSuccess,
           mediaGateHandleRegisterFailure, mediaGateHandleMessageFailure, MessageAnswered
    <2> QED
      BY <1>0, <2>1, <2>2 DEF timerVars
  <1>6. CASE \E r \in requests : Deliver(r) \/ TimeoutF(r)
    <2>1. PICK r \in requests : Deliver(r) \/ TimeoutF(r)
      BY <1>6
    <2>2. /\ reg # NULL /\ reg' # NULL /\ gate' = gate /\ UNCHANGED timerVars
          /\ reg' = reg \/ (reg.last = "open" /\ reg'.last \in {"2xx", "no2xx"})
      BY <2>1, Ending
    <2> QED
      BY <1>0, <2>2 DEF timerVars
  <1>7. CASE \E r \in requests : insertEndpoint(r) \/ updateSipEndpointKeepalive(r) \/ Lose(r)
    <2>1. /\ reg # NULL /\ UNCHANGED <<timerVars, gate, reg, events, event>>
      BY <1>0, <1>7, Replacing DEF Replaced
    <2> QED
      BY <1>0, <2>1 DEF timerVars
  <1>8. CASE GB28181MediaGate_Init \/ TimerThread("gate")
    <2>1. UNCHANGED gatewayVars /\ calm' = calm
      BY <1>8 DEF GB28181MediaGate_Init, TimerThread
    <2>2. at["gate"] = "call" => ~Advance("gate") /\ ~Create("gate")
      BY DEF Advance, Begin, Wrapped, Fire, End, Create, Thread
    <2>3. at'["gate"] = "loop" => at["gate"] = "loop"
      BY <1>0, <1>8 DEF GB28181MediaGate_Init, TimerThread, Advance, Begin, Wrapped, Fire, End, Create, Thread
    <2> QED
      BY <1>0, <1>8, <2>1, <2>2, <2>3 DEF gatewayVars, GB28181MediaGate_Init, TimerThread
  <1>9. CASE /\ ~Period
             /\ \/ StartSipServer \/ StopSipServer \/ SipServerStopped \/ SipServerDies
                \/ checkSipEndpointHeartbeat \/ TimerThread("server") \/ UNCHANGED vars
    <2>1. UNCHANGED gatewayVars
      BY <1>9 DEF StartSipServer, StopSipServer, SipServerStopped, SipServerDies,
         checkSipEndpointHeartbeat, TimerThread, vars
    <2>2. at'["gate"] = at["gate"]
      BY <1>0, <1>9, SameClockSteps DEF SameClock
    <2>3. calm' > 0 => calm > 0
      BY <1>0, <1>9, CalmSteps
    <2> QED
      BY <1>0, <2>1, <2>2, <2>3 DEF gatewayVars
  <1>10. CASE Period
    <2>1. /\ at' = at /\ gate'.registered = gate.registered /\ gate'.building = gate.building
          /\ gate'.refreshing = gate.refreshing
          /\ reg = NULL => reg' = NULL
          /\ reg # NULL => reg' # NULL /\ reg'.last = reg.last
          /\ requests = {} => requests' = {}
          /\ events' = events /\ event' = event
          /\ calm' = 0 \/ at["gate"] = "loop"
          /\ at["gate"] # "call"
      BY <1>0, <1>10, PeriodFacts
    <2> QED
      BY <1>0, <2>1
  <1>11. ASSUME NEW h \in Timer, TimerThread(h)
         PROVE  RegInv'
    BY <1>8, <1>9, <1>10, <1>11 DEF GatewayAssumption
  <1> QED
    BY <1>1, <1>2, <1>3, <1>4, <1>5, <1>6, <1>7, <1>8, <1>9, <1>10, <1>11, <1>12
       DEF Next, keepaliveMsgTimer

(* A registration that waits for an answer has one request that does.          *)
LEMMA OpenStep ==
  ASSUME GatewayAssumption, NullAssumption, TimesFit, TimerAssumption, GInv, [Next]_vars
  PROVE  OpenInv'
  <1>0. /\ TimerInv /\ TypeInv /\ ClockInv /\ RegInv /\ OpenInv /\ StaleInv
        /\ RefreshAge \in Nat /\ NULL \notin CallId
        /\ reg # NULL => reg.callid \in CallId /\ reg.age \in 0 .. RefreshAge + 1
        /\ \A r \in requests : r.age \in 0 .. TransactionTime
    BY FieldTypes, Numbers DEF GInv, StackInv
  <1> USE DEF OpenInv, Current
  <1>1. CASE BuildRegister
    BY <1>0, <1>1, Built
  <1>2. CASE Sends
    <2>1. /\ reg' # NULL /\ reg'.callid = reg.callid /\ reg'.last = "open" /\ reg'.age = 0
          /\ requests' = requests \cup Waiting(reg.callid, "sent")
      BY <1>0, <1>2, Sending DEF Sends
    <2>2. \A r \in requests : r.callid # reg.callid
      BY <1>0, <1>2 DEF Sends
    <2> DEFINE q == [callid |-> reg.callid, at |-> "sent", age |-> 0]
    <2>3. q \in requests' /\ q.callid = reg.callid /\ q.age = 0
      BY <2>1 DEF Waiting
    <2>4. \A r \in requests' : r.callid = reg.callid => r = q
      BY <2>1, <2>2 DEF Waiting
    <2> HIDE DEF q
    <2> QED
      BY <2>1, <2>3, <2>4
  <1>3. CASE Asks
    <2>1. Sent(NULL).callid = NULL
      BY DEF Sent
    <2>2. \A r \in requests' : r \in requests \/ r.callid = NULL
      BY <1>3, <2>1 DEF Asks
    <2> QED
      BY <1>0, <1>3, <2>2 DEF Asks
  <1>4. ASSUME NEW r \in requests, Deliver(r) \/ TimeoutF(r)
        PROVE  OpenInv'
    <2>1. /\ reg # NULL /\ reg' # NULL /\ reg'.callid = reg.callid /\ reg'.age = reg.age
          /\ requests' = requests \ {r}
          /\ ~Current(r) => reg' = reg
          /\ Current(r) => reg'.last \in {"2xx", "no2xx"}
      BY <1>4, Ending
    <2>2. CASE Current(r)
      <3>1. \A s \in requests' : s.callid # reg.callid
        BY <1>0, <2>1, <2>2
      <3> QED
        BY <2>1, <2>2, <3>1
    <2>3. CASE ~Current(r)
      BY <1>0, <2>1, <2>3
    <2> QED
      BY <2>2, <2>3
  <1>5. ASSUME NEW r \in requests, insertEndpoint(r) \/ updateSipEndpointKeepalive(r) \/ Lose(r)
        PROVE  OpenInv'
    <2>0. PICK q \in Request : Replaced(r, q)
      BY <1>0, <1>5, Replacing
    <2>1. /\ requests' = (requests \ {r}) \cup {q}
          /\ q.callid = r.callid /\ q.age = r.age /\ reg' = reg
      BY <2>0 DEF Replaced
    <2>2. \A s \in requests' : \E t \in requests : /\ s = IF t = r THEN q ELSE t
                                                   /\ s.callid = t.callid /\ s.age = t.age
      BY <2>1
    <2>3. \A t \in requests : \E s \in requests' : s.callid = t.callid
      BY <2>1
    <2>4. reg # NULL /\ reg.last = "open" => \E s \in requests' : s.callid = reg.callid
      BY <1>0, <2>3
    <2>5. ASSUME NEW s \in requests', s.callid = reg.callid, reg # NULL
          PROVE  /\ reg.last = "open" /\ (s.age <= reg.age \/ reg.age > RefreshAge)
                 /\ \A u \in requests' : u.callid = reg.callid => u = s
      BY <1>0, <2>2, <2>5
    <2> QED
      BY <2>1, <2>4, <2>5
  <1>6. CASE Period
    <2>1. /\ reg = NULL => reg' = NULL
          /\ reg # NULL => /\ reg' # NULL /\ reg'.callid = reg.callid /\ reg'.last = reg.last
                           /\ Grows(reg.age, reg'.age, RefreshAge + 1)
          /\ requests' = {[r EXCEPT !.age = r.age + 1] : r \in requests}
      BY <1>0, <1>6, PeriodFacts
    <2>2. \A r \in requests : /\ [r EXCEPT !.age = r.age + 1].callid = r.callid
                              /\ [r EXCEPT !.age = r.age + 1].age = r.age + 1
      BY <1>0 DEF TypeInv, TypeOK, Request
    <2>3. reg # NULL => \A r \in requests :
                            r.age <= reg.age \/ reg.age > RefreshAge
                                 => r.age + 1 <= reg'.age \/ reg'.age > RefreshAge
      BY <1>0, <2>1 DEF Grows
    <2>4. reg # NULL /\ reg.last = "open" => \E r \in requests' : r.callid = reg.callid
      BY <1>0, <2>1, <2>2
    <2>5. \A r \in requests' : \E s \in requests : /\ r = [s EXCEPT !.age = s.age + 1]
                                                   /\ r.callid = s.callid /\ r.age = s.age + 1
      BY <2>1, <2>2
    <2>6. ASSUME NEW r \in requests', reg' # NULL, r.callid = reg'.callid
          PROVE  /\ reg'.last = "open" /\ (r.age <= reg'.age \/ reg'.age > RefreshAge)
                 /\ \A s \in requests' : s.callid = reg'.callid => s = r
      <3>1. PICK t \in requests : /\ r = [t EXCEPT !.age = t.age + 1]
                                  /\ r.callid = t.callid /\ r.age = t.age + 1
        BY <2>5
      <3>2. reg # NULL /\ t.callid = reg.callid /\ reg'.last = reg.last
        BY <2>1, <2>6, <3>1
      <3>3. reg.last = "open" /\ (t.age <= reg.age \/ reg.age > RefreshAge)
        BY <1>0, <3>2
      <3>4. \A s \in requests : s.callid = reg.callid => s = t
        BY <1>0, <3>2
      <3>5. \A s \in requests' : s.callid = reg'.callid => s = r
        BY <2>1, <2>5, <3>1, <3>2, <3>4
      <3> QED
        BY <2>3, <3>1, <3>2, <3>3, <3>5
    <2> QED
      BY <2>1, <2>4, <2>6
  <1>7. CASE Quiet
    BY <1>0, <1>7 DEF Quiet
  <1> QED
    BY <1>1, <1>2, <1>3, <1>4, <1>5, <1>6, <1>7, StackParts

(* What was lost was sent before it was calm.                                  *)
LEMMA StaleStep ==
  ASSUME GatewayAssumption, NullAssumption, TimesFit, TimerAssumption, GInv, [Next]_vars
  PROVE  StaleInv'
  <1>0. /\ TimerInv /\ TypeInv /\ ClockInv /\ RegInv /\ OpenInv /\ StaleInv /\ calm \in Nat
        /\ requests \subseteq Request
        /\ \A r \in requests : r.age \in 0 .. TransactionTime
        /\ TransactionTime \in Nat
    BY FieldTypes, Numbers DEF GInv, StackInv
  <1>c. ~Period => calm' = 0 \/ calm' = calm
    BY <1>0, CalmSteps
  <1> USE DEF StaleInv
  <1>k. ASSUME ~Period, \A q \in requests' : \/ q \in requests
                                             \/ q.at = "sent" /\ q.age = 0
        PROVE  StaleInv'
    BY <1>0, <1>c, <1>k
  <1>1. CASE BuildRegister /\ ~Period
    BY <1>0, <1>k, <1>1, Built
  <1>2. CASE (Sends \/ Asks) /\ ~Period
    <2>1. Sent(NULL).at = "sent" /\ Sent(NULL).age = 0
          /\ Sent(reg.callid).at = "sent" /\ Sent(reg.callid).age = 0
      BY DEF Sent
    <2>2. \A q \in requests' : q \in requests \/ q \in {Sent(NULL), Sent(reg.callid)}
      BY <1>2 DEF Sends, SendRegister, Asks
    <2> QED
      BY <1>2, <1>k, <2>1, <2>2
  <1>4. ASSUME NEW r \in requests, Deliver(r) \/ TimeoutF(r), ~Period
        PROVE  StaleInv'
    BY <1>4, <1>k, Ending
  <1>5. ASSUME NEW r \in requests, insertEndpoint(r) \/ updateSipEndpointKeepalive(r) \/ Lose(r), ~Period
        PROVE  StaleInv'
    <2>0. PICK q \in Request : Replaced(r, q)
      BY <1>0, <1>5, Replacing
    <2>1. /\ requests' = (requests \ {r}) \cup {q}
          /\ q.callid = r.callid /\ q.age = r.age
          /\ \/ q.at \in {"lost", "provisional"} /\ calm' = 0
             \/ r.at = "sent" /\ q.at = "200" /\ calm' = calm
             \/ r.at = "sent" /\ q.at = "400" /\ r.callid = NULL /\ calm' = calm
      BY <2>0 DEF Replaced
    <2>2. CASE q.at \in {"lost", "provisional"} /\ calm' = 0
      BY <1>0, <2>1, <2>2
    <2>3. CASE r.at = "sent" /\ q.at = "200" /\ calm' = calm
      BY <1>0, <2>1, <2>3
    <2>4. CASE r.at = "sent" /\ q.at = "400" /\ r.callid = NULL /\ calm' = calm
      BY <1>0, <2>1, <2>4
    <2> QED
      BY <2>1, <2>2, <2>3, <2>4
  <1>6. CASE Period
    <2>1. /\ requests' = {[r EXCEPT !.age = r.age + 1] : r \in requests}
          /\ \/ calm' = 0
             \/ calm' \in {calm, calm + 1} /\ ~Pending /\ server.up
      BY <1>0, <1>6, PeriodFacts
    <2>2. \A r \in requests : /\ [r EXCEPT !.age = r.age + 1].callid = r.callid
                              /\ [r EXCEPT !.age = r.age + 1].at = r.at
                              /\ [r EXCEPT !.age = r.age + 1].age = r.age + 1
      BY <1>0 DEF Request
    <2>3. \A q \in requests' : \E r \in requests : /\ q.callid = r.callid /\ q.at = r.at
                                                   /\ q.age = r.age + 1
      BY <2>1, <2>2
    <2>4. calm' = 0 \/ \A r \in requests : r.at \in {"lost", "provisional"}
      BY <1>0, <2>1 DEF Pending, Request
    <2> QED
      BY <1>0, <2>1, <2>3, <2>4
  <1>7. CASE Quiet /\ ~Period
    BY <1>7, <1>k DEF Quiet
  <1> QED
    BY <1>1, <1>2, <1>4, <1>5, <1>6, <1>7, StackParts

(* The server was told when the gateway heard of it.                           *)
LEMMA SentStep ==
  ASSUME GatewayAssumption, NullAssumption, TimesFit, TimerAssumption, GInv, [Next]_vars
  PROVE  SentInv'
  <1>0. /\ TimerInv /\ TypeInv /\ ClockInv /\ RegInv /\ OpenInv /\ StaleInv /\ SentInv
        /\ RefreshAge \in Nat /\ NULL \notin CallId /\ calm \in Nat /\ Expires \in Nat
        /\ TransactionTime \in Nat \ {0} /\ RefreshAge < Expires /\ KeepaliveGap \in Nat
        /\ reg # NULL => reg.callid \in CallId /\ reg.age \in 0 .. RefreshAge + 1
        /\ \A r \in requests : r.age \in 0 .. TransactionTime
        /\ server.endpoint # NULL => /\ server.endpoint \in Endpoint
                                     /\ server.endpoint.register \in 0 .. Expires
    BY FieldTypes, Numbers DEF GInv, StackInv, TimesFit
  <1>c. ~Period => calm' = 0 \/ calm' = calm
    BY <1>0, CalmSteps
  <1> USE DEF SentInv, Current
  <1>1. CASE BuildRegister
    BY <1>0, <1>1, Built
  <1>2. CASE Sends /\ UNCHANGED <<server, calm>>
    <2>1. /\ reg' # NULL /\ reg'.callid = reg.callid /\ reg'.last = "open" /\ reg'.age = 0
          /\ requests' = requests \cup Waiting(reg.callid, "sent")
      BY <1>0, <1>2, Sending DEF Sends
    <2>2. \A r \in requests : r.callid # reg.callid
      BY <1>0, <1>2 DEF Sends, OpenInv
    <2> QED
      BY <2>1, <2>2 DEF Waiting
  <1>3. CASE Asks
    <2>1. Sent(NULL).callid = NULL
      BY DEF Sent
    <2>2. \A r \in requests' : r \in requests \/ r.callid = NULL
      BY <1>3, <2>1 DEF Asks
    <2> QED
      BY <1>0, <1>3, <2>2 DEF Asks
  <1>4. ASSUME NEW r \in requests, Deliver(r) \/ TimeoutF(r)
        PROVE  SentInv'
    <2>1. /\ reg # NULL /\ reg' # NULL /\ reg'.callid = reg.callid /\ reg'.age = reg.age
          /\ requests' = requests \ {r} /\ UNCHANGED <<server, calm>>
          /\ ~Current(r) => reg' = reg
          /\ Current(r) => \/ r.at = "200" /\ reg'.last = "2xx"
                           \/ TimeoutF(r) /\ reg'.last = "no2xx"
      BY <1>4, Ending
    <2>2. CASE Current(r) /\ r.at = "200" /\ reg'.last = "2xx"
      <3>1. /\ reg # NULL /\ reg'.last # "no2xx"
            /\ server.endpoint # NULL
                 => server.endpoint.register <= reg.age \/ reg.age > RefreshAge
        BY <1>0, <2>1, <2>2
      <3> QED
        BY <2>1, <3>1
    <2>3. CASE Current(r) /\ TimeoutF(r) /\ reg'.last = "no2xx"
      <3>1. r.age = TransactionTime
        BY <2>3 DEF TimeoutF
      <3>2. r.age >= calm
        BY <1>0, <3>1 DEF StaleInv
      <3>3. r.age <= reg.age \/ reg.age > RefreshAge
        BY <1>0, <2>3 DEF OpenInv
      <3>4. \A s \in requests' : ~Current(s)
        BY <1>0, <2>1, <2>3 DEF OpenInv
      <3> QED
        BY <1>0, <2>1, <2>3, <3>2, <3>3, <3>4
    <2>4. CASE ~Current(r)
      BY <1>0, <2>1, <2>4
    <2> QED
      BY <2>1, <2>2, <2>3, <2>4
  <1>5. ASSUME NEW r \in requests, insertEndpoint(r) \/ updateSipEndpointKeepalive(r) \/ Lose(r), ~Period
        PROVE  SentInv'
    <2>q. PICK q \in Request : Replaced(r, q)
      BY <1>0, <1>5, Replacing
    <2>1. /\ requests' = (requests \ {r}) \cup {q} /\ q.callid = r.callid /\ q.age = r.age
          /\ reg' = reg
          /\ \/ server' = server /\ q.at \in {"lost", "provisional"}
             \/ server'.endpoint = [callid |-> r.callid, keepalive |-> 0, register |-> 0]
             \/ /\ r.callid = NULL
                /\ \/ server.endpoint = NULL /\ server'.endpoint = NULL
                   \/ /\ server.endpoint # NULL
                      /\ server'.endpoint = [server.endpoint EXCEPT !.keepalive = 0]
      BY <2>q DEF Replaced
    <2>0. reg # NULL
      BY <1>0 DEF RegInv
    <2>2. CASE server' = server /\ q.at \in {"lost", "provisional"}
      BY <1>0, <1>c, <1>5, <2>1, <2>2
    <2>3. CASE server'.endpoint = [callid |-> r.callid, keepalive |-> 0, register |-> 0]
      BY <1>0, <1>c, <1>5, <2>1, <2>3
    <2>4. CASE r.callid = NULL /\ server.endpoint = NULL /\ server'.endpoint = NULL
      BY <1>0, <1>c, <1>5, <2>1, <2>4
    <2>5. CASE /\ r.callid = NULL /\ server.endpoint # NULL
               /\ server'.endpoint = [server.endpoint EXCEPT !.keepalive = 0]
      <3>1. server'.endpoint.register = server.endpoint.register
        BY <1>0, <2>5 DEF Endpoint
      <3>2. \A s \in requests' : Current(s) => s \in requests
        BY <1>0, <2>0, <2>1, <2>5
      <3> QED
        BY <1>0, <1>c, <1>5, <2>0, <2>1, <2>5, <3>1, <3>2
    <2> QED
      BY <2>1, <2>2, <2>3, <2>4, <2>5
  <1>6. CASE Period
    <2>1. /\ reg = NULL => reg' = NULL
          /\ reg # NULL => /\ reg' # NULL /\ reg'.callid = reg.callid /\ reg'.last = reg.last
                           /\ Grows(reg.age, reg'.age, RefreshAge + 1)
          /\ server.endpoint = NULL => server'.endpoint = NULL
          /\ server.endpoint # NULL =>
               Grows(server.endpoint.register, server'.endpoint.register, Expires)
          /\ requests' = {[r EXCEPT !.age = r.age + 1] : r \in requests}
          /\ calm' \in {0, calm, calm + 1}
      BY <1>0, <1>6, PeriodFacts
    <2>2. \A r \in requests : /\ [r EXCEPT !.age = r.age + 1].callid = r.callid
                              /\ [r EXCEPT !.age = r.age + 1].at = r.at
      BY <1>0 DEF TypeInv, TypeOK, Request
    <2>3. \A q \in requests' : \E r \in requests : q.callid = r.callid /\ q.at = r.at
      BY <2>1, <2>2
    <2>4. ASSUME reg' # NULL, reg'.last = "no2xx"
          PROVE  reg'.age >= calm' \/ reg'.age > RefreshAge
      BY <1>0, <2>1, <2>4 DEF Grows
    <2>5. ASSUME reg' # NULL, server'.endpoint # NULL,
                 reg'.last = "2xx" \/ \E q \in requests' : q.callid = reg'.callid /\ q.at = "200"
          PROVE  server'.endpoint.register <= reg'.age \/ reg'.age > RefreshAge
      <3>1. reg # NULL /\ server.endpoint # NULL
        BY <2>1, <2>5
      <3>2. reg.last = "2xx" \/ \E r \in requests : r.callid = reg.callid /\ r.at = "200"
        BY <2>1, <2>3, <2>5
      <3>3. server.endpoint.register <= reg.age \/ reg.age > RefreshAge
        BY <1>0, <3>1, <3>2
      <3> QED
        BY <1>0, <2>1, <3>1, <3>3 DEF Grows
    <2> QED
      BY <2>4, <2>5
  <1>7. CASE Quiet /\ ~Period
    BY <1>0, <1>c, <1>7 DEF Quiet
  <1> QED
    BY <1>1, <1>2, <1>3, <1>4, <1>5, <1>6, <1>7, StackParts

LEMMA StackInductive ==
  ASSUME GatewayAssumption, NullAssumption, TimesFit, TimerAssumption, GInv, [Next]_vars
  PROVE  ClockInv' /\ RegInv' /\ OpenInv' /\ StaleInv' /\ SentInv'
  BY ClockStep, RegStep, OpenStep, StaleStep, SentStep DEF GInv, StackInv

-----------------------------------------------------------------------------
(* What is known of every settled state                                        *)
LEMMA SettledFacts ==
  ASSUME GatewayAssumption, NullAssumption, TimesFit, TimerAssumption, GInv, Settled
  PROVE  /\ calm \in Nat /\ calm > 0 /\ calm <= CalmCap /\ tick \in Int /\ Clock.last \in Int
         /\ KeepaliveGap \in Nat \ {0} /\ RefreshAge \in Nat \ {0} /\ RetryAge \in Nat \ {0}
         /\ TransactionTime \in Nat \ {0} /\ MonitorKeepalive \in Nat /\ Expires \in Nat
         /\ FailLimit \in Nat \ {0} /\ RecoveryTime \in Nat /\ CalmCap \in Nat
         /\ NULL \notin CallId /\ NULL \notin Event
         /\ at["gate"] \in {"call", "loop"} /\ Clock.working /\ server.up
         /\ reg # NULL /\ reg \in Reg /\ reg.callid \in CallId /\ reg.age \in 0 .. RefreshAge + 1
         /\ reg.last \in {"none", "open", "2xx", "no2xx"} /\ (reg.last = "none" <=> gate.building)
         /\ gate \in Gate /\ gate.registered \in BOOLEAN /\ gate.building \in BOOLEAN
         /\ gate.keepalive \in 0 .. KeepaliveGap /\ gate.failures \in 0 .. FailLimit - 1
         /\ server \in [up : BOOLEAN, endpoint : Endpoint \cup {NULL}]
         /\ server.endpoint # NULL =>
              /\ server.endpoint \in Endpoint
              /\ server.endpoint.keepalive \in 0 .. MonitorKeepalive
              /\ server.endpoint.register \in 0 .. Expires
         /\ requests \subseteq Request
         /\ gate.building => at["gate"] = "call" /\ Ahead
         /\ gate.refreshing => at["gate"] = "call" /\ ~gate.building
         /\ at["gate"] = "call" /\ ~gate.refreshing => Ahead
         /\ TimerInv /\ TypeInv /\ ClockInv /\ RegInv /\ OpenInv /\ StaleInv /\ SentInv
  <1>1. TimerInv /\ TypeInv /\ ClockInv /\ RegInv /\ OpenInv /\ StaleInv /\ SentInv
    BY DEF GInv, StackInv
  <1>2. calm > 0 /\ calm \in Nat
    BY <1>1, FieldTypes, Numbers DEF Settled
  <1>3. reg # NULL /\ reg \in Reg
    BY <1>1, <1>2, FieldTypes DEF RegInv
  <1>4. reg.last \in {"none", "open", "2xx", "no2xx"}
    BY <1>3 DEF Reg
  <1>5. gate \in Gate /\ server \in [up : BOOLEAN, endpoint : Endpoint \cup {NULL}]
    BY <1>1 DEF TypeInv, TypeOK
  <1>6. /\ gate.registered \in BOOLEAN /\ gate.building \in BOOLEAN
        /\ gate.keepalive \in 0 .. KeepaliveGap /\ gate.failures \in 0 .. FailLimit - 1
    BY <1>5 DEF Gate
  <1>7. NULL \notin CallId /\ NULL \notin Event
    BY Numbers DEF NullAssumption
  <1>8. at["gate"] \in {"call", "loop"} /\ Clock.working /\ server.up
    BY <1>1, <1>2 DEF ClockInv
  <1>9. at["gate"] = "call" /\ ~gate.refreshing => Ahead
    BY DEF Ahead
  <1>10. /\ reg.last = "none" <=> gate.building
         /\ gate.building => at["gate"] = "call" /\ ~gate.refreshing
         /\ gate.refreshing => at["gate"] = "call" /\ ~gate.building
    BY <1>1, <1>3 DEF RegInv
  <1> QED
    BY <1>1, <1>2, <1>3, <1>4, <1>5, <1>6, <1>7, <1>8, <1>9, <1>10, FieldTypes, Numbers

(* The times that are left are bounded.                                        *)
LEMMA Spans ==
  ASSUME GatewayAssumption, TypeInv, NEW p
  PROVE  /\ Skip \in 0 .. 2 /\ Wait \in 0 .. KeepaliveGap + 1 /\ Pause(p) \in 0 .. KeepaliveGap + 1
         /\ Rest \in Nat /\ Rest <= (FailLimit - 1) * (KeepaliveGap + 1)
  <1>1. /\ KeepaliveGap \in Nat \ {0} /\ FailLimit \in Nat \ {0}
        /\ gate.keepalive \in 0 .. KeepaliveGap /\ gate.failures \in 0 .. FailLimit - 1
    BY Numbers DEF TypeInv, TypeOK, Gate
  <1>2. Skip \in 0 .. 2
    BY DEF Skip
  <1>3. Wait \in 0 .. KeepaliveGap + 1
    BY <1>1, <1>2 DEF Wait
  <1>4. Pause(p) \in 0 .. KeepaliveGap + 1
    BY <1>1, <1>3 DEF Pause
  <1>5. ASSUME NEW m \in Nat, NEW n \in Nat, NEW l \in Nat, m <= n
        PROVE  m * l \in Nat /\ m * l <= n * l
    <2>1. PICK d \in Nat : n = m + d
      <3>1. n - m \in Nat /\ n = m + (n - m)
        BY <1>5
      <3> QED
        BY <3>1
    <2>2. n * l = m * l + d * l /\ m * l \in Nat /\ d * l \in Nat
      BY <2>1
    <2> QED
      BY <2>2
  <1>6. Rest \in Nat /\ Rest <= (FailLimit - 1) * (KeepaliveGap + 1)
    <2> DEFINE m == FailLimit - gate.failures - 1
               n == FailLimit - 1
               l == KeepaliveGap + 1
    <2>1. m \in Nat /\ n \in Nat /\ l \in Nat /\ m <= n
      BY <1>1
    <2>2. Rest = m * l
      BY DEF Rest
    <2> HIDE DEF m, n, l
    <2>3. m * l \in Nat /\ m * l <= n * l
      BY <1>5, <2>1
    <2> QED
      BY <2>2, <2>3 DEF n, l
  <1> QED
    BY <1>2, <1>3, <1>4, <1>6

(* A step that leaves the registration alone and the time as it is             *)
LEMMA Undisturbed ==
  ASSUME GatewayAssumption, NullAssumption, TimesFit, TimerAssumption, GInv, Settled,
         NEW p \in Stage, AtStage(p), AtPeace(p),
         UNCHANGED <<gatewayVars, calm, tick>>, server'.endpoint = server.endpoint,
         tick # 0 => (Ahead' <=> Ahead), Ahead' => Ahead
  PROVE  AtStage(p)' /\ AtPeace(p)'
  <1>0. /\ requests' = requests /\ events' = events /\ event' = event /\ gate' = gate /\ reg' = reg
        /\ server'.endpoint = server.endpoint /\ calm' = calm /\ tick' = tick
    BY DEF gatewayVars
  <1>1. Skip' = Skip
    BY <1>0 DEF Skip
  <1>2. Wait' = Wait /\ Rest' = Rest
    BY <1>0, <1>1 DEF Wait, Rest
  <1>3. Pause(p)' = Pause(p)
    BY <1>0, <1>2 DEF Pause, Asking, Failing
  <1>4. Kept' <=> Kept
    BY <1>0 DEF Kept
  <1>5. AtStage(p)'
    BY <1>0 DEF AtStage, RequestsAt, EventsAt, Asking, Renewing, Renewed, Waiting
  <1>6. Safe(p)' <=> Safe(p)
    BY <1>0, <1>4 DEF Safe, Failing, Renewing
  <1>7. (Same' <=> Same) /\ (Former' <=> Former)
    BY <1>0 DEF Same, Former
  <1>8. Old(p)' <=> Old(p)
    BY <1>0, <1>3, <1>7 DEF Old, Renewing
  <1>9. Recovering(p)' <=> Recovering(p)
    BY <1>0, <1>1, <1>2, <1>3 DEF Recovering, Renewing
  <1>10. Renewed(p)' <=> Renewed(p)
    BY <1>0 DEF Renewed
  <1> QED
    BY <1>5, <1>6, <1>7, <1>8, <1>9, <1>10 DEF AtPeace

(* While the timer calls back nothing is under way.                            *)
LEMMA AtCall ==
  ASSUME NEW p \in Stage, AtStage(p), Ahead
  PROVE  /\ p = "rest" /\ event = NULL /\ requests = {} /\ events = <<>>
  <1>1. p = "rest" /\ event = NULL
    BY DEF AtStage
  <1>2. requests = {} /\ events = <<>>
    BY <1>1 DEF AtStage, RequestsAt, EventsAt
  <1> QED
    BY <1>1, <1>2

(* After it has called back the timer has nothing to do until the next tick.   *)
LEMMA Returned ==
  ASSUME GatewayAssumption, NullAssumption, TimesFit, TimerAssumption, GInv, Settled, Return("gate")
  PROVE  /\ ~gate.refreshing => Ahead
         /\ ~Ahead' /\ tick' = tick /\ Clock' = Clock /\ at'["gate"] = "loop"
         /\ at["gate"] = "call"
  <1>1. at["gate"] = "call" /\ at'["gate"] = "loop" /\ UNCHANGED <<tick, timer>>
    BY Numbers DEF Return, Thread, GInv, TimerInv, TimerTypeOK
  <1>2. Clock' = Clock /\ Clock.last = tick
    BY <1>1 DEF Clock, GInv, StackInv, ClockInv
  <1> QED
    BY <1>1, <1>2 DEF Ahead

LEMMA BuildStep ==
  ASSUME GatewayAssumption, NullAssumption, TimesFit, TimerAssumption, GInv, Settled,
         NEW p \in Stage, AtStage(p), AtPeace(p), BuildRegister
  PROVE  AtStage("rest")' /\ AtPeace("rest")'
  <1>0. /\ reg'.last = "none" /\ gate'.building /\ requests' = requests
        /\ at["gate"] = "call" /\ ~gate.registered
        /\ UNCHANGED <<timerVars, events, event, server, calm>>
    BY Built DEF GInv
  <1>1. Ahead /\ calm \in Nat /\ NULL \notin Event
    <2>1. ~gate.refreshing
      BY DEF BuildRegister, Callback
    <2> QED
      BY <1>0, <2>1, SettledFacts
  <1>2. p = "rest" /\ event = NULL /\ requests = {} /\ events = <<>>
    BY <1>1, AtCall
  <1>3. calm < RecoveryTime
    BY <1>0 DEF AtPeace, Safe, Recovering
  <1>4. AtStage("rest")'
    BY <1>0, <1>1, <1>2 DEF AtStage, RequestsAt, EventsAt, Renewing, Renewed, Event
  <1>5. Recovering("rest")'
    BY <1>0, <1>3 DEF Recovering
  <1>6. Former'
    BY <1>0 DEF Former
  <1> QED
    BY <1>4, <1>5, <1>6 DEF AtPeace

(* A REGISTER is sent from rest, by the timer's thread.                        *)
LEMMA TimerSendsStep ==
  ASSUME GatewayAssumption, NullAssumption, TimesFit, TimerAssumption, GInv, Settled,
         NEW p \in Stage, AtStage(p), AtPeace(p),
         SendInitial \/ (RefreshRegister /\ MayRegister)
  PROVE  AtStage("register")' /\ AtPeace("register")'
  <1>s. SendRegister /\ UNCHANGED <<events, event, server, calm>>
    BY DEF SendInitial, RefreshRegister
  <1>0. /\ reg'.callid = reg.callid /\ reg'.last = "open" /\ reg'.age = 0
        /\ requests' = requests \cup Waiting(reg.callid, "sent")
    BY <1>s, SettledFacts, Sending
  <1>1. Ahead /\ ~Ahead' /\ tick' = tick /\ calm \in Nat /\ NULL \notin Event /\ gate \in Gate
    <2>1. CASE SendInitial
      BY <2>1, SettledFacts, Returned DEF SendInitial
    <2>2. CASE RefreshRegister /\ MayRegister
      <3>1. at["gate"] = "call" /\ ~gate.refreshing /\ gate'.refreshing /\ tick' = tick
        <4>1. /\ gate' = [gate EXCEPT !.refreshing = TRUE] /\ UNCHANGED timerVars
              /\ Callback /\ gate \in Gate
          BY <2>2, SettledFacts DEF RefreshRegister
        <4>2. gate'.refreshing
          BY <4>1, GateRefreshing
        <4> QED
          BY <4>1, <4>2 DEF Callback, timerVars
      <3> QED
        BY <3>1, SettledFacts DEF Ahead
    <2> QED
      BY <2>1, <2>2
  <1>2. p = "rest" /\ event = NULL /\ requests = {} /\ events = <<>>
    BY <1>1, AtCall
  <1>3. /\ UNCHANGED <<events, event, server, calm>> /\ gate'.registered = gate.registered
        /\ ~gate'.building
    <2>1. CASE SendInitial
      BY <1>1, <1>s, <2>1 DEF SendInitial, Gate
    <2>2. CASE RefreshRegister /\ MayRegister
      <3>1. gate' = [gate EXCEPT !.refreshing = TRUE] /\ ~gate.building
        BY <2>2 DEF RefreshRegister, Callback
      <3> QED
        BY <1>1, <1>s, <3>1 DEF Gate
    <2> QED
      BY <2>1, <2>2
  <1>4. AtStage("register")'
    BY <1>0, <1>1, <1>2, <1>3
       DEF AtStage, RequestsAt, EventsAt, Renewing, Renewed, Event, Asking, Waiting
  <1>5. Former' /\ (calm' = calm)
    BY <1>0, <1>3 DEF Former
  <1>6. Renewing("register")' /\ Renewing("register")
    BY DEF Renewing
  <1>7. CASE Recovering(p)
    <2>1. Recovering("register")'
      BY <1>3, <1>6, <1>7 DEF Recovering
    <2> QED
      BY <1>4, <1>5, <2>1 DEF AtPeace
  <1>8. CASE Safe(p) /\ (Same \/ Old(p))
    <2>1. Safe("register")'
      BY <1>0, <1>1, <1>2, <1>3, <1>6, <1>8 DEF Safe, Failing, Event
    <2>2. (Same \/ Old("register"))'
      BY <1>0, <1>3, <1>5, <1>6, <1>8 DEF Same, Old
    <2> QED
      BY <1>4, <2>1, <2>2 DEF AtPeace
  <1> QED
    BY <1>7, <1>8 DEF AtPeace

(* A keepalive is sent, or is not due.                                         *)
LEMMA KeepaliveStep ==
  ASSUME GatewayAssumption, NullAssumption, TimesFit, TimerAssumption, GInv, Settled,
         NEW p \in Stage, AtStage(p), AtPeace(p), Keepalive
  PROVE  \E q \in Stage : AtStage(q)' /\ AtPeace(q)'
  <1>0. /\ calm \in Nat /\ NULL \notin Event /\ gate \in Gate /\ gate.keepalive \in 0 .. KeepaliveGap
        /\ KeepaliveGap \in Nat \ {0} /\ gate.registered
        /\ UNCHANGED <<reg, events, event, server, calm>> /\ Return("gate") /\ ~gate.refreshing
    BY SettledFacts DEF Keepalive, Callback
  <1>1. Ahead /\ ~Ahead' /\ tick' = tick
    BY <1>0, Returned
  <1>2. p = "rest" /\ event = NULL /\ requests = {} /\ events = <<>>
    BY <1>1, AtCall
  <1>e. event' # "success" /\ event' # "requestfailure" /\ event' # "answered"
    BY <1>0, <1>2 DEF Event
  <1>3. CASE gate.keepalive >= KeepaliveGap
    <2>1. gate' = [gate EXCEPT !.keepalive = 0] /\ requests' = Waiting(NULL, "sent")
      BY <1>2, <1>3 DEF Keepalive, Sent, Waiting
    <2>2. /\ gate'.registered = gate.registered /\ gate'.building = gate.building
          /\ gate'.failures = gate.failures
      BY <1>0, <2>1 DEF Gate
    <2>3. AtStage("ask")'
      BY <1>0, <1>1, <1>2, <1>e, <2>1
         DEF AtStage, RequestsAt, EventsAt, Renewing, Renewed, Asking, Waiting
    <2>4. Pause("ask")' = 0 /\ Pause(p) \in Nat /\ Rest \in Nat /\ Rest' = Rest
      <3>1. Rest \in Nat /\ Pause(p) \in 0 .. KeepaliveGap + 1
        BY Spans DEF GInv
      <3> QED
        BY <1>0, <2>2, <3>1 DEF Pause, Asking, Rest
    <2>5. Former' <=> Former
      BY <1>0 DEF Former
    <2>6. ~Renewing(p) /\ ~Renewed(p) /\ ~gate.building
      BY <1>0, <1>2, <1>e DEF Renewing, Renewed, Keepalive, Callback
    <2>7. CASE Safe(p) /\ (Same \/ Old(p))
      <3>1. Safe("ask")'
        BY <1>0, <1>2, <1>e, <2>2, <2>6, <2>7 DEF Safe, Failing
      <3>2. Old(p) => Old("ask")'
        BY <1>0, <2>4, <2>5, <2>6 DEF Old
      <3>3. Same => Same'
        BY <1>0 DEF Same
      <3> QED
        BY <2>3, <2>7, <3>1, <3>2, <3>3 DEF AtPeace, Stage
    <2>8. CASE Recovering(p) /\ Former
      <3>1. Recovering("ask")'
        BY <1>0, <1>2, <1>e, <2>2, <2>4, <2>6, <2>8 DEF Recovering
      <3> QED
        BY <2>3, <2>5, <2>8, <3>1 DEF AtPeace, Stage
    <2> QED
      BY <2>6, <2>7, <2>8 DEF AtPeace
  <1>4. CASE ~(gate.keepalive >= KeepaliveGap)
    <2>1. gate' = gate /\ requests' = requests
      BY <1>4 DEF Keepalive
    <2>2. Wait' = Wait /\ Rest' = Rest /\ (Kept' <=> Kept)
      BY <1>0, <1>4, <2>1 DEF Wait, Rest, Kept
    <2>3. Pause(p)' = Pause(p)
      BY <1>0, <2>2 DEF Pause, Asking, Failing
    <2>4. AtStage(p)'
      BY <1>0, <1>1, <2>1 DEF AtStage, RequestsAt, EventsAt, Asking, Renewing, Renewed, Waiting
    <2>5. Safe(p) => Safe(p)'
      BY <1>0, <2>1, <2>2 DEF Safe, Failing, Renewing
    <2>6. (Same => Same') /\ (Former => Former')
      BY <1>0 DEF Same, Former
    <2>7. Old(p) => Old(p)'
      BY <1>0, <2>3, <2>6 DEF Old, Renewing
    <2>8. Recovering(p) => Recovering(p)'
      BY <1>0, <2>1, <2>2, <2>3 DEF Recovering, Renewing
    <2>9. Renewed(p) => Renewed(p)'
      BY <1>0 DEF Renewed
    <2> QED
      BY <2>4, <2>5, <2>6, <2>7, <2>8, <2>9 DEF AtPeace
  <1> QED
    BY <1>3, <1>4

(* What the event thread takes up is what the keepalive or the REGISTER of     *)
(* this period came to.                                                        *)
LEMMA NextEventStep ==
  ASSUME GatewayAssumption, NullAssumption, TimesFit, TimerAssumption, GInv, Settled,
         NEW p \in Stage, AtStage(p), AtPeace(p), NextEvent
  PROVE  \E q \in Stage : AtStage(q)' /\ AtPeace(q)'
  <1>0. /\ calm \in Nat /\ NULL \notin Event /\ RefreshAge \in Nat \ {0} /\ RetryAge \in Nat \ {0}
        /\ RecoveryTime \in Nat /\ CalmCap \in Nat
        /\ reg # NULL /\ reg.age \in 0 .. RefreshAge + 1 /\ SentInv
        /\ reg.last \in {"none", "open", "2xx", "no2xx"} /\ (reg.last = "none" <=> gate.building)
        /\ gate.building => Ahead
        /\ server.endpoint # NULL => /\ server.endpoint.keepalive \in Nat
                                     /\ server.endpoint.register \in Nat
    <2>1. \A m \in Nat : \A n \in 0 .. m : n \in Nat
      OBVIOUS
    <2> QED
      BY <2>1, SettledFacts
  <1>1. /\ UNCHANGED <<timerVars, gate, server, calm>> /\ event = NULL /\ events # <<>>
        /\ event' = Head(events) /\ events' = Tail(events)
    BY DEF NextEvent
  <1>2. p \in {"heard", "failed", "success"}
    BY <1>1 DEF AtStage, EventsAt, Stage
  <1>3. /\ requests = {} /\ events' = <<>> /\ ~Ahead /\ reg.last # "open" /\ ~gate.building
        /\ event' = CASE p = "heard" -> "answered" [] p = "failed" -> "requestfailure"
                      [] p = "success" -> "success"
    <2>1. events = <<CASE p = "heard" -> "answered" [] p = "failed" -> "requestfailure"
                       [] p = "success" -> "success">> /\ requests = {}
      BY <1>2 DEF AtStage, EventsAt, RequestsAt
    <2>2. ~Ahead /\ reg.last # "open"
      BY <1>2 DEF AtStage
    <2>3. \A e : Head(<<e>>) = e /\ Tail(<<e>>) = <<>>
      OBVIOUS
    <2>4. /\ events' = <<>>
          /\ event' = CASE p = "heard" -> "answered" [] p = "failed" -> "requestfailure"
                        [] p = "success" -> "success"
      BY <1>1, <2>1, <2>3
    <2> QED
      BY <1>0, <2>1, <2>2, <2>4
  <1>4. event' # NULL /\ event # "answered" /\ event # "requestfailure" /\ event # "success"
    BY <1>0, <1>1, <1>2, <1>3 DEF Event
  <1>5. ~Ahead'
    BY <1>1, <1>3 DEF Ahead, timerVars, Clock
  <1>6. CASE RefreshIsDue
    <2>1. /\ reg'.callid = reg.callid /\ reg'.last = "open" /\ reg'.age = 0
          /\ requests' = Waiting(reg.callid, "sent")
      BY <1>0, <1>3, <1>6, SettledFacts, Sending DEF NextEvent
    <2>2. p \in {"heard", "failed"} /\ event' \in Asked /\ event' # "success"
      <3>1. p # "success"
        BY <1>0, <1>6 DEF RefreshIsDue, AtStage, Renewing
      <3> QED
        BY <1>2, <1>3, <3>1 DEF Asked
    <2>3. AtStage("register")'
      BY <1>3, <1>5, <2>1, <2>2
         DEF AtStage, RequestsAt, EventsAt, Renewing, Renewed, Asking, Waiting
    <2>4. Renewing("register")' /\ Renewing("register") /\ Former'
      BY <2>1 DEF Renewing, Former
    <2>5. CASE Recovering(p)
      <3>1. Recovering("register")'
        BY <1>1, <2>4, <2>5 DEF Recovering
      <3> QED
        BY <2>3, <2>4, <3>1 DEF AtPeace, Stage
    <2>6. CASE Safe(p) /\ (Same \/ Old(p))
      <3>1. p = "heard" /\ event' = "answered"
        BY <1>3, <2>2, <2>6 DEF Safe, Failing
      <3>2. Safe("register")'
        BY <1>1, <2>1, <2>4, <2>6, <3>1 DEF Safe, Failing
      <3>3. (Same \/ Old("register"))'
        BY <1>1, <2>1, <2>4, <2>6 DEF Same, Old
      <3> QED
        BY <2>3, <3>2, <3>3 DEF AtPeace, Stage
    <2> QED
      BY <2>5, <2>6 DEF AtPeace
  <1>7. CASE ~RefreshIsDue
    <2>1. reg' = reg /\ requests' = {}
      BY <1>3, <1>7 DEF NextEvent
    <2>2. /\ reg.last \in {"2xx", "no2xx"} /\ reg.age <= RefreshAge
          /\ reg.last = "no2xx" => reg.age <= RetryAge
      BY <1>0, <1>3, <1>7 DEF RefreshIsDue
    <2>3. AtStage("rest")'
      BY <1>1, <1>2, <1>3, <1>5, <2>1
         DEF AtStage, RequestsAt, EventsAt, Renewing, Renewed, Asking, Asked
    <2>4. (Former' <=> Former) /\ Rest' = Rest /\ Skip' = Skip /\ (Kept' <=> Kept) /\ (Same' <=> Same)
      BY <1>1, <1>3, <1>5, <2>1 DEF Former, Rest, Skip, Kept, Same, timerVars
    <2>5. CASE p = "success"
      <3>1. Renewing(p) /\ Renewing("rest")' /\ Renewed("rest")' /\ ~Failing("rest")'
        BY <1>3, <2>5 DEF Renewing, Renewed, Failing
      <3>2. Recovering(p) => Recovering("rest")'
        BY <1>1, <2>1, <3>1 DEF Recovering
      <3>3. Safe(p) => Safe("rest")'
        BY <1>1, <2>1, <3>1 DEF Safe
      <3>4. Old(p) => Old("rest")'
        BY <1>1, <2>1, <2>4, <3>1 DEF Old
      <3> QED
        BY <2>3, <2>4, <3>1, <3>2, <3>3, <3>4 DEF AtPeace, Stage
    <2>6. CASE p = "heard"
      <3>1. ~Renewing(p) /\ event' = "answered" /\ ~Renewed(p)
        BY <1>3, <1>4, <2>6 DEF Renewing, Renewed
      <3>2. CASE Recovering(p) /\ Former
        <4>1. Recovering("rest")'
          BY <1>0, <1>1, <1>3, <2>1, <2>2, <2>4, <2>6, <3>1, <3>2 DEF Recovering
        <4> QED
          BY <2>3, <2>4, <3>2, <4>1 DEF AtPeace, Stage
      <3>3. CASE Safe(p) /\ (Same \/ Old(p))
        <4>1. Kept /\ server.endpoint.register <= RefreshAge
          BY <1>0, <2>2, <2>6, <3>1, <3>3 DEF Safe, SentInv
        <4>2. server.endpoint.register <= RefreshAge + server.endpoint.keepalive
          BY <1>0, <3>3, <4>1 DEF Safe
        <4>3. Safe("rest")'
          BY <1>1, <2>1, <2>4, <3>1, <3>3, <4>1, <4>2 DEF Safe, Failing
        <4>4. (Same \/ Old("rest"))'
          BY <1>1, <2>1, <2>2, <2>4, <3>3 DEF Old
        <4> QED
          BY <2>3, <4>3, <4>4 DEF AtPeace, Stage
      <3> QED
        BY <3>1, <3>2, <3>3 DEF AtPeace
    <2>7. CASE p = "failed"
      <3>1. ~Renewing(p) /\ event' = "requestfailure" /\ ~Renewed(p) /\ Failing(p)
        BY <1>3, <1>4, <2>7 DEF Renewing, Renewed, Failing
      <3>2. Recovering(p) /\ Former
        BY <3>1 DEF AtPeace, Safe
      <3>3. Pause(p) = 0 /\ Pause("rest")' = 0
        BY <3>1 DEF Pause, Failing
      <3>4. Recovering("rest")'
        BY <1>0, <1>1, <1>3, <2>1, <2>2, <2>4, <2>7, <3>1, <3>2, <3>3 DEF Recovering
      <3> QED
        BY <2>3, <2>4, <3>2, <3>4 DEF AtPeace, Stage
    <2> QED
      BY <1>2, <2>5, <2>6, <2>7
  <1> QED
    BY <1>6, <1>7

(* The handlers of the event thread                                            *)
LEMMA SuccessStep ==
  ASSUME GatewayAssumption, NullAssumption, TimesFit, TimerAssumption, GInv, Settled,
         NEW p \in Stage, AtStage(p), AtPeace(p), mediaGateHandleRegisterSuccess
  PROVE  AtStage("rest")' /\ AtPeace("rest")'
  <1>0. /\ NULL \notin Event /\ gate \in Gate /\ KeepaliveGap \in Nat \ {0} /\ RefreshAge \in Nat \ {0}
        /\ gate.keepalive \in 0 .. KeepaliveGap /\ reg # NULL /\ reg.callid \in CallId
        /\ (reg.last = "none" <=> gate.building) /\ NULL \notin Endpoint
        /\ MonitorKeepalive \in Nat /\ Expires \in Nat
    BY SettledFacts DEF NullAssumption
  <1>1. /\ event = "success" /\ event' = NULL
        /\ gate' = [gate EXCEPT !.registered = TRUE, !.register = 0]
        /\ UNCHANGED <<timerVars, reg, requests, events, server, calm>>
    BY DEF mediaGateHandleRegisterSuccess, Handle
  <1>2. gate'.registered /\ gate'.building = gate.building /\ gate'.keepalive = gate.keepalive
    BY <1>0, <1>1 DEF Gate
  <1>3. /\ p = "rest" /\ reg.last = "2xx" /\ reg.age = 0 /\ ~Ahead
        /\ server.endpoint = [callid |-> reg.callid, keepalive |-> 0, register |-> 0]
        /\ requests = {} /\ events = <<>>
    <2>1. p = "rest" /\ Renewing(p) /\ Renewed(p)
      BY <1>1 DEF AtStage, Renewing, Renewed
    <2>2. event # NULL
      BY <1>0, <1>1 DEF Event
    <2> QED
      BY <2>1, <2>2 DEF AtStage, RequestsAt, EventsAt
  <1>4. /\ event' # "success" /\ event' # "requestfailure" /\ event' # "answered"
        /\ server.endpoint # NULL
    <2>1. server.endpoint \in Endpoint
      BY <1>0, <1>3 DEF Endpoint
    <2> QED
      BY <1>0, <1>1, <2>1 DEF Event
  <1>5. AtStage("rest")'
    BY <1>1, <1>3, <1>4 DEF AtStage, RequestsAt, EventsAt, Renewing, Renewed, Asking, Asked
  <1>6. Kept'
    BY <1>0, <1>1, <1>2, <1>3 DEF Kept
  <1>7. Safe("rest")'
    BY <1>0, <1>1, <1>2, <1>3, <1>4, <1>6 DEF Safe, Failing
  <1>8. Same'
    BY <1>1, <1>3, <1>4 DEF Same
  <1> QED
    BY <1>5, <1>7, <1>8 DEF AtPeace

LEMMA MessageFailureStep ==
  ASSUME GatewayAssumption, NullAssumption, TimesFit, TimerAssumption, GInv, Settled,
         NEW p \in Stage, AtStage(p), AtPeace(p), mediaGateHandleMessageFailure
  PROVE  AtStage(p)' /\ AtPeace(p)'
  <1>0. /\ calm \in Nat /\ NULL \notin Event /\ gate \in Gate /\ KeepaliveGap \in Nat \ {0}
        /\ RetryAge \in Nat \ {0} /\ RefreshAge \in Nat \ {0} /\ RecoveryTime \in Nat
        /\ FailLimit \in Nat \ {0} /\ reg # NULL /\ reg.age \in 0 .. RefreshAge + 1 /\ SentInv
        /\ gate.failures \in 0 .. FailLimit - 1 /\ (gate.building => Ahead)
        /\ gate.keepalive \in 0 .. KeepaliveGap /\ gate.registered \in BOOLEAN
    BY SettledFacts
  <1>1. /\ event = "requestfailure" /\ event' = NULL
        /\ gate' = IF gate.failures + 1 >= FailLimit
                     THEN [gate EXCEPT !.failures = 0, !.registered = FALSE]
                     ELSE [gate EXCEPT !.failures = gate.failures + 1]
        /\ UNCHANGED <<timerVars, reg, requests, events, server, calm>>
    BY DEF mediaGateHandleMessageFailure, Handle
  <1>2. /\ event' # "success" /\ event' # "requestfailure" /\ event' # "answered"
        /\ event # NULL
    BY <1>0, <1>1 DEF Event
  <1>3. ~Ahead /\ p \in {"rest", "register", "ok", "success"} /\ ~Asking(p) /\ ~gate.building
    BY <1>0, <1>1, <1>2 DEF AtStage, Stage, Asking
  <1>4. /\ gate'.building = gate.building /\ gate'.keepalive = gate.keepalive
        /\ gate.failures + 1 >= FailLimit => ~gate'.registered
        /\ ~(gate.failures + 1 >= FailLimit) => /\ gate'.registered = gate.registered
                                                /\ gate'.failures = gate.failures + 1
    BY <1>0, <1>1 DEF Gate
  <1>5. (Renewed(p)' <=> Renewed(p)) /\ (Renewing(p)' <=> Renewing(p)) /\ (Former' <=> Former)
    <2>1. event # "success" /\ event' # "success" /\ reg' = reg /\ calm' = calm
      BY <1>1, <1>2
    <2>2. (Renewed(p)' <=> Renewed(p)) /\ (Renewing(p)' <=> Renewing(p))
      BY <2>1 DEF Renewed, Renewing
    <2>3. Former' <=> Former
      BY <2>1 DEF Former
    <2> QED
      BY <2>2, <2>3
  <1>6. AtStage(p)'
    <2>1. ~Ahead' /\ reg' = reg /\ requests' = requests /\ events' = events /\ server' = server
      BY <1>1, <1>3 DEF Ahead, timerVars, Clock
    <2>2. RequestsAt(p)' = RequestsAt(p) /\ EventsAt(p)' = EventsAt(p)
      BY <2>1 DEF RequestsAt, EventsAt, Waiting
    <2> QED
      BY <1>1, <1>2, <1>3, <1>5, <2>1, <2>2 DEF AtStage
  <1>7. Recovering(p) /\ (Renewed(p) \/ Former)
    BY <1>1 DEF AtPeace, Safe, Failing
  <1>8. Recovering(p)'
    <2>1. Skip' \in 0 .. 2 /\ Wait' \in 0 .. KeepaliveGap + 1
      BY <1>0, <1>1, <1>4 DEF Skip, Wait
    <2>2. CASE Renewing(p)
      BY <1>1, <1>5, <1>7, <2>2 DEF Recovering
    <2>3. CASE ~gate.registered /\ calm + Skip < RecoveryTime
      <3>1. ~gate'.registered
        BY <1>4, <2>3
      <3>2. Skip' = Skip
        BY <1>1, <1>3 DEF Skip, Ahead, timerVars, Clock
      <3> QED
        BY <1>1, <1>7, <2>3, <3>1, <3>2 DEF Recovering
    <2>4. CASE gate.registered /\ reg.last = "no2xx" /\ reg.age <= RetryAge
      <3>1. calm <= RetryAge
        BY <1>0, <2>4 DEF SentInv, TimesFit
      <3>2. calm + 2 < RecoveryTime
        BY <1>0, <3>1 DEF TimesFit
      <3>3. CASE gate.failures + 1 >= FailLimit
        BY <1>0, <1>1, <1>4, <2>1, <3>2, <3>3 DEF Recovering
      <3>4. CASE ~(gate.failures + 1 >= FailLimit)
        BY <1>0, <1>1, <1>4, <1>7, <2>4, <3>4 DEF Recovering
      <3> QED
        BY <3>3, <3>4
    <2>5. CASE /\ gate.registered /\ reg.last = "2xx" /\ ~Renewing(p)
               /\ calm + Pause(p) + Rest + 2 < RecoveryTime
      <3>1. Pause(p) = 0 /\ Rest \in Nat
        BY <1>1, Spans DEF Pause, Failing, GInv
      <3>2. calm + Rest + 2 < RecoveryTime
        BY <1>0, <2>5, <3>1
      <3>3. CASE gate.failures + 1 >= FailLimit
        BY <1>0, <1>1, <1>4, <1>7, <2>1, <3>1, <3>2, <3>3 DEF Recovering
      <3>4. CASE ~(gate.failures + 1 >= FailLimit)
        <4>1. Rest' + (KeepaliveGap + 1) = Rest /\ Rest' \in Int
          <5> DEFINE m == FailLimit - gate.failures - 2
                     l == KeepaliveGap + 1
          <5>1. m \in Nat /\ l \in Nat
            BY <1>0, <3>4
          <5>2. FailLimit - gate'.failures - 1 = m /\ FailLimit - gate.failures - 1 = m + 1
            BY <1>0, <1>4, <3>4
          <5>3. Rest' = m * l /\ Rest = (m + 1) * l
            BY <5>2 DEF Rest
          <5> HIDE DEF m, l
          <5>4. (m + 1) * l = m * l + l /\ m * l \in Int
            BY <5>1
          <5> QED
            BY <5>3, <5>4 DEF l
        <4>2. Pause(p)' <= KeepaliveGap + 1 /\ Pause(p)' \in Nat
          BY <1>0, <2>1 DEF Pause
        <4>4. calm + Pause(p)' + Rest' + 2 < RecoveryTime
          <5> DEFINE m == Pause(p)'
                     n == Rest'
          <5>1. /\ m \in Int /\ n \in Int /\ Rest \in Int /\ KeepaliveGap \in Int /\ calm \in Int
                /\ RecoveryTime \in Int /\ m <= KeepaliveGap + 1 /\ n + (KeepaliveGap + 1) = Rest
                /\ calm + Rest + 2 < RecoveryTime
            <6>1. m \in Int /\ m <= KeepaliveGap + 1
              BY <4>2
            <6>2. n \in Int /\ n + (KeepaliveGap + 1) = Rest
              BY <4>1
            <6>3. Rest \in Int /\ calm + Rest + 2 < RecoveryTime
              BY <3>1, <3>2
            <6>4. KeepaliveGap \in Int /\ calm \in Int /\ RecoveryTime \in Int
              BY <1>0
            <6> QED
              BY <6>1, <6>2, <6>3, <6>4
          <5> HIDE DEF m, n
          <5>2. calm + m + n + 2 < RecoveryTime
            BY <5>1
          <5> QED
            BY <5>2 DEF m, n
        <4>5. p \notin {"yes", "heard"}
          BY <1>3
        <4> QED
          BY <1>1, <1>2, <1>4, <1>7, <2>5, <3>4, <4>4, <4>5 DEF Recovering
      <3> QED
        BY <3>3, <3>4
    <2> QED
      BY <1>2, <1>3, <1>7, <2>2, <2>3, <2>4, <2>5 DEF Recovering
  <1> QED
    BY <1>5, <1>6, <1>7, <1>8 DEF AtPeace

LEMMA AnsweredStep ==
  ASSUME GatewayAssumption, NullAssumption, TimesFit, TimerAssumption, GInv, Settled,
         NEW p \in Stage, AtStage(p), AtPeace(p), MessageAnswered
  PROVE  AtStage(p)' /\ AtPeace(p)'
  <1>0. /\ NULL \notin Event /\ (gate.building => Ahead)
    BY SettledFacts
  <1>1. /\ event = "answered" /\ event' = NULL /\ gate' = gate
        /\ UNCHANGED <<timerVars, reg, requests, events, server, calm>>
    BY DEF MessageAnswered, Handle
  <1>2. /\ event' # "success" /\ event' # "requestfailure" /\ event' # "answered"
        /\ event # NULL
    BY <1>0, <1>1 DEF Event
  <1>3. ~Ahead /\ p \in {"rest", "register", "ok", "success"} /\ ~Asking(p) /\ ~gate.building
    BY <1>0, <1>1, <1>2 DEF AtStage, Stage, Asking
  <1>4. /\ (Renewed(p)' <=> Renewed(p)) /\ (Renewing(p)' <=> Renewing(p))
        /\ (Former' <=> Former) /\ (Same' <=> Same)
    BY <1>1, <1>2 DEF Renewed, Renewing, Former, Same
  <1>5. ~Ahead' /\ Skip' = Skip /\ (Kept' <=> Kept)
    <2>1. ~Ahead' /\ tick' = tick
      BY <1>1, <1>3 DEF Ahead, timerVars, Clock
    <2>2. Skip' = Skip
      BY <1>3, <2>1 DEF Skip
    <2>3. Kept' <=> Kept
      BY <1>1, <1>3, <2>1 DEF Kept
    <2> QED
      BY <2>1, <2>2, <2>3
  <1>6. AtStage(p)'
    <2>1. ~Ahead' /\ reg' = reg /\ requests' = requests /\ events' = events /\ server' = server
      BY <1>1, <1>3 DEF Ahead, timerVars, Clock
    <2>2. RequestsAt(p)' = RequestsAt(p) /\ EventsAt(p)' = EventsAt(p)
      BY <2>1 DEF RequestsAt, EventsAt, Waiting
    <2> QED
      BY <1>1, <1>2, <1>3, <1>4, <2>1, <2>2 DEF AtStage
  <1>7. Safe(p) => Safe(p)'
    BY <1>1, <1>2, <1>4, <1>5 DEF Safe, Failing
  <1>8. Old(p) => Old(p)'
    BY <1>1, <1>2, <1>4 DEF Old
  <1>9. Recovering(p) => Recovering(p)'
    BY <1>1, <1>2, <1>3, <1>4, <1>5 DEF Recovering
  <1> QED
    BY <1>4, <1>6, <1>7, <1>8, <1>9 DEF AtPeace

(* What is on its way belongs to the stage.                                    *)
LEMMA AtWait ==
  ASSUME GatewayAssumption, NullAssumption, TimesFit, TimerAssumption, GInv, Settled,
         NEW p \in Stage, AtStage(p), NEW r \in requests
  PROVE  /\ requests = {r} /\ r.age = 0 /\ events = <<>> /\ ~Ahead /\ ~gate.building
         /\ \/ p = "ask" /\ r.callid = NULL /\ r.at = "sent"
            \/ p = "yes" /\ r.callid = NULL /\ r.at = "200"
            \/ p = "no" /\ r.callid = NULL /\ r.at = "400"
            \/ p = "register" /\ r.callid = reg.callid /\ r.callid # NULL /\ r.at = "sent"
            \/ p = "ok" /\ r.callid = reg.callid /\ r.callid # NULL /\ r.at = "200"
  <1>0. /\ reg.callid \in CallId /\ NULL \notin CallId /\ (gate.building => Ahead)
    BY SettledFacts
  <1>1. p \in {"ask", "yes", "no", "register", "ok"}
    BY DEF AtStage, RequestsAt, Stage
  <1>2. ~Ahead /\ events = <<>>
    BY <1>1 DEF AtStage, EventsAt
  <1>3. /\ p = "ask" => requests = Waiting(NULL, "sent")
        /\ p = "yes" => requests = Waiting(NULL, "200")
        /\ p = "no" => requests = Waiting(NULL, "400")
        /\ p = "register" => requests = Waiting(reg.callid, "sent")
        /\ p = "ok" => requests = Waiting(reg.callid, "200")
    BY DEF AtStage, RequestsAt
  <1>4. ASSUME NEW c, NEW a, requests = Waiting(c, a)
        PROVE  requests = {r} /\ r.callid = c /\ r.at = a /\ r.age = 0
    BY <1>4 DEF Waiting
  <1> QED
    BY <1>0, <1>1, <1>2, <1>3, <1>4

(* The answer to a keepalive, or to a REGISTER, arrives.                       *)
LEMMA DeliverStep ==
  ASSUME GatewayAssumption, NullAssumption, TimesFit, TimerAssumption, GInv, Settled,
         NEW p \in Stage, AtStage(p), AtPeace(p), NEW r \in requests, Deliver(r)
  PROVE  \E q \in Stage : AtStage(q)' /\ AtPeace(q)'
  <1>0. /\ requests' = {} /\ UNCHANGED <<timerVars, gate, event, server, calm>>
        /\ reg # NULL /\ reg'.callid = reg.callid /\ reg'.age = reg.age
        /\ ~Current(r) => reg' = reg
        /\ Current(r) => reg'.last = "2xx"
    <2>1. /\ reg # NULL /\ reg'.callid = reg.callid /\ reg'.age = reg.age
          /\ requests' = requests \ {r}
          /\ ~Current(r) => reg' = reg
          /\ Current(r) => \/ Deliver(r) /\ r.at = "200" /\ reg'.last = "2xx"
                           \/ TimeoutF(r) /\ reg'.last = "no2xx"
          /\ UNCHANGED <<timerVars, gate, event, server, calm>>
      BY Ending
    <2>2. requests = {r} /\ r.age = 0
      BY AtWait
    <2>3. ~TimeoutF(r)
      BY <2>2, Numbers DEF TimeoutF
    <2> QED
      BY <2>1, <2>2, <2>3
  <1>1. /\ events = <<>> /\ ~Ahead /\ ~gate.building
        /\ \/ p = "ask" /\ r.callid = NULL /\ r.at = "sent"
           \/ p = "yes" /\ r.callid = NULL /\ r.at = "200"
           \/ p = "no" /\ r.callid = NULL /\ r.at = "400"
           \/ p = "register" /\ r.callid = reg.callid /\ r.callid # NULL /\ r.at = "sent"
           \/ p = "ok" /\ r.callid = reg.callid /\ r.callid # NULL /\ r.at = "200"
    BY AtWait
  <1>2. ~Ahead' /\ Skip' = Skip /\ Rest' = Rest /\ (Kept' <=> Kept)
    <2>1. tick' = tick /\ Clock' = Clock /\ at' = at /\ gate' = gate /\ server' = server
      BY <1>0 DEF timerVars, Clock
    <2>2. Ahead' <=> Ahead
      BY <2>1 DEF Ahead
    <2> QED
      BY <1>1, <2>1, <2>2 DEF Skip, Rest, Kept
  <1>3. CASE p = "ok"
    <2>1. Current(r) /\ reg'.last = "2xx"
      BY <1>0, <1>1, <1>3 DEF Current
    <2>2. events' = <<"success">>
      BY <1>1, <1>3, <2>1 DEF Deliver, Report
    <2>3. Renewing(p) /\ Renewed(p) /\ Renewing("success")' /\ Renewed("success")'
      BY <1>3 DEF Renewing, Renewed
    <2>4. /\ reg.age = 0
          /\ server.endpoint = [callid |-> reg.callid, keepalive |-> 0, register |-> 0]
          /\ event \in Asked \cup {NULL}
      BY <1>3, <2>3 DEF AtStage
    <2>5. AtStage("success")'
      BY <1>0, <1>2, <2>1, <2>2, <2>4, <1>3 DEF AtStage, RequestsAt, EventsAt, Asking
    <2>6. Recovering(p) => Recovering("success")'
      BY <1>0, <2>3 DEF Recovering
    <2>7. Safe(p) => Safe("success")'
      BY <1>0, <1>3, <2>1, <2>3 DEF Safe, Failing
    <2>8. Safe(p) => Same'
      BY <1>0, <2>4 DEF Safe, Same
    <2> QED
      BY <2>3, <2>5, <2>6, <2>7, <2>8 DEF AtPeace, Stage
  <1>4. CASE p \in {"yes", "no"}
    <2>1. reg' = reg
      <3>1. r.callid = NULL /\ reg.callid \in CallId /\ NULL \notin CallId
        BY <1>1, <1>4, SettledFacts
      <3> QED
        BY <1>0, <3>1 DEF Current
    <2>2. event = NULL /\ ~Renewing(p) /\ ~Renewed(p)
      <3>1. event = NULL
        BY <1>4 DEF AtStage, Asking
      <3>2. NULL \notin Event
        BY SettledFacts
      <3> QED
        BY <1>4, <3>1, <3>2 DEF Renewing, Renewed, Event
    <2>3. (Former' <=> Former) /\ (Same' <=> Same) /\ event' = NULL
      BY <1>0, <2>1, <2>2 DEF Former, Same
    <2>e. event' # "success" /\ event' # "requestfailure" /\ event' # "answered"
      <3>1. NULL \notin Event
        BY SettledFacts
      <3> QED
        BY <2>3, <3>1 DEF Event
    <2>4. CASE p = "yes"
      <3>1. events' = <<"answered">>
        BY <1>1, <2>4 DEF Deliver, Report
      <3>2. AtStage("heard")'
        BY <1>0, <1>2, <2>1, <2>3, <2>e, <3>1, <2>4 DEF AtStage, RequestsAt, EventsAt, Asking, Renewing, Renewed
      <3>3. Pause("heard")' = 0 /\ Pause(p) = 0
        BY <2>4 DEF Pause, Asking
      <3>4. Recovering(p) => Recovering("heard")'
        BY <1>0, <1>1, <1>2, <2>1, <2>2, <2>3, <2>4, <3>3 DEF Recovering
      <3>5. Safe(p) => Safe("heard")'
        BY <1>0, <1>2, <2>1, <2>2, <2>e, <2>4 DEF Safe, Failing
      <3>6. Old(p) => Old("heard")'
        BY <1>0, <2>1, <2>2, <2>3, <3>3 DEF Old
      <3> QED
        BY <2>2, <2>3, <3>2, <3>4, <3>5, <3>6 DEF AtPeace, Stage
    <2>5. CASE p = "no"
      <3>1. events' = <<"requestfailure">>
        BY <1>1, <2>5 DEF Deliver, Report
      <3>2. AtStage("failed")'
        BY <1>0, <1>2, <2>1, <2>3, <2>e, <3>1, <2>5 DEF AtStage, RequestsAt, EventsAt, Asking, Renewing, Renewed
      <3>3. Pause("failed")' = 0 /\ Pause(p) = 0
        BY <2>5 DEF Pause, Asking
      <3>4. Recovering(p) => Recovering("failed")'
        BY <1>0, <1>1, <1>2, <2>1, <2>2, <2>3, <2>5, <3>3, <2>e DEF Recovering
      <3>5. ~Safe(p)
        BY <2>5 DEF Safe, Failing
      <3> QED
        BY <2>2, <2>3, <3>2, <3>4, <3>5 DEF AtPeace, Stage
    <2> QED
      BY <1>4, <2>4, <2>5
  <1>5. p \in {"ok", "yes", "no"}
    BY <1>1 DEF Deliver
  <1> QED
    BY <1>3, <1>4, <1>5

(* Nothing takes longer than TransactionTime any more.                         *)
LEMMA NoTimeout ==
  ASSUME GatewayAssumption, NullAssumption, TimesFit, TimerAssumption, GInv, Settled,
         NEW p \in Stage, AtStage(p), NEW r \in requests
  PROVE  ~TimeoutF(r)
  BY AtWait, Numbers DEF TimeoutF

(* The server answers a REGISTER.                                              *)
LEMMA InsertStep ==
  ASSUME GatewayAssumption, NullAssumption, TimesFit, TimerAssumption, GInv, Settled,
         NEW p \in Stage, AtStage(p), AtPeace(p), NEW r \in requests, insertEndpoint(r)
  PROVE  AtStage("ok")' /\ AtPeace("ok")'
  <1> DEFINE e == [callid |-> reg.callid, keepalive |-> 0, register |-> 0]
  <1>0. PICK q \in Request : Replaced(r, q)
    BY Replacing, SettledFacts
  <1>1. /\ r.at = "sent" /\ r.callid # NULL
    BY DEF insertEndpoint, Answer
  <1>2. p = "register" /\ r.callid = reg.callid /\ requests = {r} /\ events = <<>> /\ ~Ahead /\ r.age = 0
    BY <1>1, AtWait
  <1>3. /\ requests' = {[r EXCEPT !.at = "200"]} /\ calm' = calm
        /\ server' = [server EXCEPT !.endpoint = e]
        /\ UNCHANGED <<timerVars, gate, reg, events, event>>
    BY <1>2 DEF insertEndpoint, Answer
  <1>4. requests' = Waiting(reg.callid, "200")
    <2>1. r = [callid |-> reg.callid, at |-> "sent", age |-> 0]
      BY <1>2 DEF AtStage, RequestsAt, Waiting
    <2> QED
      BY <1>3, <2>1 DEF Waiting
  <1>5. server'.endpoint = e /\ e \in Endpoint /\ NULL \notin Endpoint
    BY <1>3, SettledFacts DEF Endpoint, NullAssumption
  <1>6. ~Ahead'
    BY <1>2, <1>3 DEF Ahead, timerVars, Clock
  <1>7. reg.age = 0 /\ reg.last = "open" /\ event # "success" /\ event \in Asked \cup {NULL}
    BY <1>2 DEF AtStage, Renewing
  <1>8. Renewing("ok")' /\ Renewed("ok")' /\ Renewing(p)
    BY <1>2 DEF Renewing, Renewed
  <1>9. AtStage("ok")'
    BY <1>2, <1>3, <1>4, <1>5, <1>6, <1>7 DEF AtStage, RequestsAt, EventsAt, Asking
  <1>10. Recovering(p) => Recovering("ok")'
    BY <1>3, <1>8 DEF Recovering
  <1>11. Safe(p) => Safe("ok")'
    <2>1. /\ e.keepalive = 0 /\ e.register = 0 /\ 0 <= KeepaliveGap + 1 /\ 0 <= RefreshAge + KeepaliveGap + 1
      BY Numbers
    <2> HIDE DEF e
    <2> QED
      BY <1>2, <1>3, <1>5, <1>8, <2>1 DEF Safe, Failing
  <1>12. Same'
    BY <1>3, <1>5 DEF Same
  <1> QED
    BY <1>8, <1>9, <1>10, <1>11, <1>12 DEF AtPeace

(* The server answers a keepalive.                                             *)
LEMMA UpdateStep ==
  ASSUME GatewayAssumption, NullAssumption, TimesFit, TimerAssumption, GInv, Settled,
         NEW p \in Stage, AtStage(p), AtPeace(p), NEW r \in requests, updateSipEndpointKeepalive(r)
  PROVE  \E q \in Stage : AtStage(q)' /\ AtPeace(q)'
  <1>0. /\ r.at = "sent" /\ r.callid = NULL
        /\ server \in [up : BOOLEAN, endpoint : Endpoint \cup {NULL}]
    BY SettledFacts DEF updateSipEndpointKeepalive, Answer
  <1>1. p = "ask" /\ requests = {r} /\ events = <<>> /\ ~Ahead /\ r.age = 0 /\ ~gate.building
    BY <1>0, AtWait
  <1>2. r = [callid |-> NULL, at |-> "sent", age |-> 0]
    BY <1>1 DEF AtStage, RequestsAt, Waiting
  <1>3. event = NULL /\ event # "success" /\ event # "requestfailure" /\ event # "answered"
    <2>1. event = NULL
      BY <1>1 DEF AtStage, Asking
    <2>2. NULL \notin Event
      BY SettledFacts
    <2> QED
      BY <2>1, <2>2 DEF Event
  <1>4. UNCHANGED <<timerVars, gate, reg, events, event, calm>>
    BY DEF updateSipEndpointKeepalive, Answer
  <1>5. ~Ahead' /\ Skip' = Skip /\ Rest' = Rest /\ (Former' <=> Former)
    <2>1. tick' = tick /\ Clock' = Clock /\ at' = at /\ gate' = gate /\ reg' = reg /\ calm' = calm
      BY <1>4 DEF timerVars, Clock
    <2>2. Ahead' <=> Ahead
      BY <2>1 DEF Ahead
    <2> QED
      BY <1>1, <2>1, <2>2 DEF Skip, Rest, Former
  <1>6. /\ ~Renewing(p) /\ ~Renewed(p) /\ Pause(p) = 0
        /\ Pause("yes")' = 0 /\ Pause("no")' = 0
    BY <1>1, <1>3 DEF Renewing, Renewed, Pause, Asking
  <1>7. CASE server.endpoint = NULL
    <2>1. server'.endpoint = NULL /\ requests' = Waiting(NULL, "400")
      BY <1>0, <1>1, <1>2, <1>7 DEF updateSipEndpointKeepalive, Answer, Waiting
    <2>2. AtStage("no")'
      BY <1>1, <1>3, <1>4, <1>5, <2>1 DEF AtStage, RequestsAt, EventsAt, Asking, Renewing, Renewed
    <2>3. Recovering(p) /\ Former
      BY <1>6, <1>7 DEF AtPeace, Safe
    <2>4. Recovering("no")'
      BY <1>1, <1>3, <1>4, <1>5, <1>6, <2>3 DEF Recovering
    <2> QED
      BY <1>5, <2>2, <2>3, <2>4 DEF AtPeace, Stage
  <1>8. CASE server.endpoint # NULL
    <2> DEFINE e == [server.endpoint EXCEPT !.keepalive = 0]
    <2>0. /\ server.endpoint \in Endpoint /\ server.endpoint.register \in Nat
          /\ server.endpoint.keepalive \in Nat
          /\ calm \in Nat /\ RecoveryTime \in Nat /\ CalmCap \in Nat /\ KeepaliveGap \in Nat
          /\ gate.keepalive \in Nat /\ RefreshAge \in Nat /\ reg.age \in Nat
          /\ NULL \notin Endpoint /\ MonitorKeepalive \in Nat /\ Expires \in Nat /\ SentInv
          /\ reg # NULL
      <3>1. \A m \in Nat : \A n \in 0 .. m : n \in Nat
        OBVIOUS
      <3>2. NULL \notin Endpoint
        BY DEF NullAssumption
      <3> QED
        BY <1>8, <3>1, <3>2, SettledFacts
    <2>1. /\ requests' = Waiting(NULL, "200")
          /\ server' = [server EXCEPT !.endpoint = e]
      BY <1>0, <1>1, <1>2, <1>8 DEF updateSipEndpointKeepalive, Answer, Waiting
    <2>2. /\ e \in Endpoint /\ e.keepalive = 0 /\ e.register = server.endpoint.register
          /\ e.callid = server.endpoint.callid
      BY <2>0 DEF Endpoint
    <2> HIDE DEF e
    <2>3. server'.endpoint = e /\ e # NULL
      BY <1>0, <2>0, <2>1, <2>2
    <2>4. AtStage("yes")'
      BY <1>1, <1>3, <1>4, <1>5, <2>1 DEF AtStage, RequestsAt, EventsAt, Asking, Renewing, Renewed
    <2>5. Kept'
      BY <1>4, <2>0, <2>2, <2>3 DEF Kept
    <2>6. CASE Safe(p) /\ (Same \/ Old(p))
      <3>1. Safe("yes")'
        BY <1>1, <1>3, <1>4, <1>6, <2>0, <2>2, <2>3, <2>5, <2>6 DEF Safe, Failing
      <3>2. Same => Same'
        BY <1>4, <2>2, <2>3 DEF Same
      <3>3. Old(p) => Old("yes")'
        BY <1>4, <1>5, <1>6 DEF Old
      <3> QED
        BY <2>4, <2>6, <3>1, <3>2, <3>3 DEF AtPeace, Stage
    <2>7. CASE Recovering(p) /\ Former
      <3>1. CASE gate.registered /\ reg.last = "2xx" /\ reg.age <= RefreshAge
        <4>1. server.endpoint.register <= RefreshAge
          BY <1>8, <2>0, <3>1 DEF SentInv
        <4>2. Safe("yes")'
          BY <1>1, <1>3, <1>4, <2>0, <2>2, <2>3, <2>5, <3>1, <4>1 DEF Safe, Failing
        <4>3. Old("yes")'
          BY <1>4, <1>5, <2>0, <2>7, <3>1 DEF Old, Recovering, TimesFit
        <4> QED
          BY <2>4, <4>2, <4>3 DEF AtPeace, Stage
      <3>2. CASE ~(gate.registered /\ reg.last = "2xx" /\ reg.age <= RefreshAge)
        <4>1. Recovering("yes")'
          BY <1>1, <1>3, <1>4, <1>5, <1>6, <2>0, <2>7, <3>2 DEF Recovering
        <4> QED
          BY <1>5, <2>4, <2>7, <4>1 DEF AtPeace, Stage
      <3> QED
        BY <3>1, <3>2
    <2> QED
      BY <1>6, <2>6, <2>7 DEF AtPeace
  <1> QED
    BY <1>7, <1>8

(* The monitor drops no registration that is safe.                             *)
LEMMA MonitorStep ==
  ASSUME GatewayAssumption, NullAssumption, TimesFit, TimerAssumption, GInv, Settled,
         NEW p \in Stage, AtStage(p), AtPeace(p), checkSipEndpointHeartbeat
  PROVE  AtStage(p)' /\ AtPeace(p)'
  <1>0. UNCHANGED <<gatewayVars, calm>> /\ SameClock /\ server \in [up : BOOLEAN, endpoint : Endpoint \cup {NULL}]
    BY SettledFacts, SameClockSteps DEF checkSipEndpointHeartbeat
  <1>1. Ahead' <=> Ahead
    BY <1>0 DEF Ahead, SameClock, gatewayVars
  <1>2. CASE server' = server
    BY <1>0, <1>1, <1>2, Undisturbed DEF SameClock
  <1>3. CASE server.endpoint # NULL /\ Overdue /\ server' = [server EXCEPT !.endpoint = NULL]
    <2>0. /\ KeepaliveGap \in Nat /\ RefreshAge \in Nat /\ MonitorKeepalive \in Nat /\ Expires \in Nat
          /\ server.endpoint.keepalive \in 0 .. MonitorKeepalive
          /\ server.endpoint.register \in 0 .. Expires
      BY <1>3, SettledFacts
    <2>1. ~Safe(p)
      BY <1>3, <2>0 DEF Safe, Overdue, TimesFit
    <2>2. ~Renewed(p)
      BY <1>3, <2>0 DEF AtStage, Overdue, TimesFit
    <2>3. Recovering(p) /\ Former
      BY <2>1, <2>2 DEF AtPeace
    <2>4. /\ requests' = requests /\ events' = events /\ event' = event /\ gate' = gate /\ reg' = reg
          /\ calm' = calm /\ tick' = tick
      BY <1>0 DEF gatewayVars, SameClock
    <2>5. AtStage(p)'
      BY <1>1, <2>2, <2>4 DEF AtStage, RequestsAt, EventsAt, Asking, Renewing, Renewed, Waiting
    <2>6. Skip' = Skip
      BY <1>1, <2>4 DEF Skip
    <2>7. Pause(p)' = Pause(p) /\ Rest' = Rest
      BY <2>4, <2>6 DEF Pause, Wait, Rest, Asking, Failing
    <2>8. Recovering(p)'
      BY <2>3, <2>4, <2>6, <2>7 DEF Recovering, Renewing
    <2>9. Former'
      BY <2>3, <2>4 DEF Former
    <2> QED
      BY <2>5, <2>8, <2>9 DEF AtPeace
  <1> QED
    BY <1>2, <1>3 DEF checkSipEndpointHeartbeat

(* A tick makes the waits shorter.                                             *)
LEMMA PeriodWaits ==
  ASSUME GatewayAssumption, NullAssumption, TimesFit, TimerAssumption, GInv, Period, calm' > 0
  PROVE  /\ \E c, t, v \in Nat :
              /\ calm' = c /\ Skip' = t /\ Wait' = v
              /\ c \in {calm, calm + 1} /\ t + 1 <= Skip /\ t <= 1 /\ v + 1 <= Wait /\ v <= KeepaliveGap
         /\ ~Ahead /\ Ahead' /\ Rest' = Rest /\ ~gate.building
         /\ gate.keepalive \in 0 .. KeepaliveGap /\ KeepaliveGap \in Nat \ {0}
         /\ gate'.keepalive = IF gate.keepalive < KeepaliveGap THEN gate.keepalive + 1 ELSE KeepaliveGap
         /\ tick \in Nat /\ (tick' = 0 => tick > 0) /\ tick' \in {0, tick + 1}
  <1>1. /\ tick \in Nat /\ gate.keepalive \in 0 .. KeepaliveGap /\ KeepaliveGap \in Nat \ {0}
        /\ Clock.last \in Int
    BY FieldTypes, Numbers DEF GInv, TypeInv, TypeOK, TimerTypeOK, Gate
  <1>2. /\ Clock' = Clock /\ at' = at /\ at["gate"] = "loop" /\ Clock.last = tick
        /\ tick' \in {0, tick + 1} /\ (tick' = 0 => tick > 0)
        /\ calm' \in {calm, calm + 1}
        /\ gate'.failures = gate.failures /\ gate'.refreshing = gate.refreshing
        /\ Grows(gate.keepalive, gate'.keepalive, KeepaliveGap)
    BY PeriodFacts DEF GInv, StackInv
  <1>3. ~Ahead /\ Ahead' /\ tick' # tick
    <2>1. ~gate.refreshing
      BY <1>2 DEF GInv, StackInv, RegInv
    <2> QED
      BY <1>1, <1>2, <2>1 DEF Ahead
  <1>5. gate'.keepalive = IF gate.keepalive < KeepaliveGap THEN gate.keepalive + 1 ELSE KeepaliveGap
    BY <1>2 DEF Grows
  <1> DEFINE t == IF tick' = 0 THEN 1 ELSE 0
             v == IF gate.keepalive + 1 < KeepaliveGap THEN KeepaliveGap - gate.keepalive ELSE t
  <1>4. Skip' = t /\ t \in Nat /\ t <= 1
    BY <1>3 DEF Skip
  <1>6. Wait' = v
    <2>1. CASE gate.keepalive + 1 < KeepaliveGap
      <3>1. gate'.keepalive = gate.keepalive + 1 /\ gate'.keepalive < KeepaliveGap
        BY <1>1, <1>5, <2>1
      <3> QED
        BY <1>1, <2>1, <3>1 DEF Wait
    <2>2. CASE ~(gate.keepalive + 1 < KeepaliveGap)
      <3>1. ~(gate'.keepalive < KeepaliveGap)
        BY <1>1, <1>5, <2>2
      <3> QED
        BY <1>4, <2>2, <3>1 DEF Wait
    <2> QED
      BY <2>1, <2>2
  <1>w. t + 1 <= Skip
    BY <1>1, <1>2, <1>3 DEF Skip
  <1>v. v \in Nat /\ v <= KeepaliveGap /\ v + 1 <= Wait
    <2> HIDE DEF t
    <2>1. Skip \in 0 .. 2
      BY DEF Skip
    <2>2. CASE gate.keepalive < KeepaliveGap
      BY <1>1, <1>4, <2>2 DEF Wait
    <2>3. CASE ~(gate.keepalive < KeepaliveGap)
      BY <1>1, <1>4, <1>w, <2>1, <2>3 DEF Wait
    <2> QED
      BY <2>2, <2>3
  <1> HIDE DEF t, v
  <1>c. PICK c \in Nat : c = calm' /\ c \in {calm, calm + 1}
    <2>1. calm \in Nat
      BY FieldTypes DEF GInv
    <2> QED
      BY <1>2, <2>1
  <1>7. Rest' = Rest
    BY <1>2 DEF Rest
  <1>8. ~gate.building
    BY <1>2 DEF GInv, StackInv, RegInv
  <1>9. \E d, m, n \in Nat :
          /\ calm' = d /\ Skip' = m /\ Wait' = n
          /\ d \in {calm, calm + 1} /\ m + 1 <= Skip /\ m <= 1 /\ n + 1 <= Wait /\ n <= KeepaliveGap
    BY <1>c, <1>4, <1>6, <1>w, <1>v, Zenon
  <1> QED
    BY <1>1, <1>2, <1>3, <1>5, <1>7, <1>8, <1>9, Zenon

(* A period begins at rest.                                                    *)
LEMMA PeriodRests ==
  ASSUME GatewayAssumption, NullAssumption, TimesFit, TimerAssumption, GInv, Period, calm' > 0,
         requests = {}, event = NULL, events = <<>>, reg # NULL
  PROVE  /\ AtStage("rest")' /\ event' = NULL /\ reg.last # "open"
         /\ ~Renewing("rest")' /\ ~Renewed("rest")' /\ ~Failing("rest")' /\ ~Asking("rest")
         /\ Pause("rest")' = Wait'
  <1>1. /\ requests' = {[r EXCEPT !.age = r.age + 1] : r \in requests}
        /\ events' = events /\ event' = event /\ reg'.last = reg.last
    BY PeriodFacts DEF GInv, StackInv
  <1>2. reg.last # "open"
    BY DEF GInv, StackInv, OpenInv
  <1>3. event' # "success" /\ event' # "requestfailure"
    BY <1>1 DEF NullAssumption, Event
  <1>4. requests' = {}
    BY <1>1
  <1>5. ~Renewing("rest")' /\ ~Renewed("rest")' /\ ~Failing("rest")' /\ ~Asking("rest")
    BY <1>3 DEF Renewing, Renewed, Failing, Asking
  <1>6. AtStage("rest")'
    BY <1>1, <1>2, <1>3, <1>4, <1>5 DEF AtStage, RequestsAt, EventsAt
  <1>7. Pause("rest")' = Wait'
    BY <1>5 DEF Pause, Asking
  <1> QED
    BY <1>1, <1>2, <1>5, <1>6, <1>7

(* The first period in which nothing of the past is on its way                 *)
LEMMA EntryStep ==
  ASSUME GatewayAssumption, NullAssumption, TimesFit, TimerAssumption, GInv, ~Settled, Settled', Period
  PROVE  AtStage("rest")' /\ AtPeace("rest")'
  <1>0. /\ calm \in Nat /\ TransactionTime \in Nat \ {0} /\ KeepaliveGap \in Nat \ {0}
        /\ RefreshAge \in Nat \ {0} /\ RetryAge \in Nat \ {0} /\ FailLimit \in Nat \ {0}
        /\ RecoveryTime \in Nat
        /\ ClockInv /\ RegInv /\ OpenInv /\ StaleInv /\ SentInv /\ TimerInv /\ TypeInv
    BY FieldTypes, Numbers DEF GInv, StackInv
  <1>1. /\ calm' \in {0, calm, calm + 1}
    BY <1>0, PeriodFacts
  <1>2. calm = TransactionTime /\ calm' = TransactionTime + 1 /\ calm' > 0 /\ calm > 0
    BY <1>0, <1>1 DEF Settled
  <1>3. /\ ~Pending /\ server.up /\ \A r \in requests : r.age < TransactionTime
    BY <1>0, <1>2, PeriodFacts
  <1>4. events = <<>> /\ event = NULL
    BY <1>3 DEF Pending
  <1>5. requests = {}
    <2>1. \A r \in requests : r.at \in {"lost", "provisional"}
      BY <1>0, <1>3 DEF Pending, TypeInv, TypeOK, Request
    <2> QED
      <3>1. \A r \in requests : r.age >= calm /\ r.age \in Int
        BY <1>0, <2>1, FieldTypes DEF StaleInv
      <3> QED
        BY <1>0, <1>2, <1>3, <3>1
  <1>6. reg # NULL
    BY <1>0, <1>2 DEF RegInv
  <1>7. /\ AtStage("rest")' /\ event' = NULL /\ reg.last # "open" /\ Pause("rest")' = Wait'
    BY <1>2, <1>4, <1>5, <1>6, PeriodRests
  <1>8. /\ gate'.registered = gate.registered /\ gate'.building = gate.building
        /\ reg'.last = reg.last /\ Grows(reg.age, reg'.age, RefreshAge + 1)
    BY <1>0, <1>6, PeriodFacts
  <1>9. reg.last \in {"2xx", "no2xx"} /\ reg.age \in 0 .. RefreshAge + 1 /\ gate.registered \in BOOLEAN
    <2>1. ~gate.building
      BY <1>2, PeriodWaits
    <2> QED
      BY <1>0, <1>6, <1>7, <2>1 DEF RegInv, TypeInv, TypeOK, Reg, Gate
  <1>10. Former'
    BY <1>0, <1>2, <1>8, <1>9 DEF Former, Grows
  <1>11. PICK t \in Nat, v \in Nat : t = Skip' /\ v = Wait' /\ t <= 1 /\ v <= KeepaliveGap
    BY <1>2, PeriodWaits
  <1>r. Rest' = Rest
    BY <1>2, PeriodWaits
  <1>12. /\ TransactionTime + 1 + KeepaliveGap + Rest + 2 < RecoveryTime
         /\ TransactionTime + 1 + KeepaliveGap + 1 < RecoveryTime
         /\ Rest \in Nat
    <2> DEFINE f == FailLimit - 1
               l == KeepaliveGap + 1
    <2>1. f \in Nat /\ l \in Nat /\ FailLimit = f + 1
      BY <1>0
    <2>2. Rest \in Nat /\ Rest <= f * l
      BY <1>0, Spans
    <2>3. TransactionTime + (f + 1) * l + 3 <= RecoveryTime
      BY <2>1 DEF TimesFit
    <2>l. l = KeepaliveGap + 1
      OBVIOUS
    <2> HIDE DEF f, l
    <2>4. (f + 1) * l = f * l + l /\ f * l \in Nat
      BY <2>1
    <2> QED
      BY <1>0, <2>1, <2>2, <2>3, <2>4, <2>l
  <1>13. Recovering("rest")'
    <2>a. t \in Nat /\ t <= 1 /\ v \in Nat /\ v <= KeepaliveGap
      BY <1>11, Zenon
    <2>n. TransactionTime \in Nat /\ KeepaliveGap \in Nat \ {0} /\ RecoveryTime \in Nat
      BY <1>0
    <2> DEFINE n == Rest
    <2>m. n \in Nat /\ TransactionTime + 1 + KeepaliveGap + n + 2 < RecoveryTime
      BY <1>12
    <2> HIDE DEF n
    <2>e. /\ TransactionTime + 1 < RecoveryTime /\ TransactionTime + 1 + t < RecoveryTime
          /\ TransactionTime + 1 + v < RecoveryTime
          /\ TransactionTime + 1 + v + n + 2 < RecoveryTime
      BY <2>a, <2>n, <2>m
    <2>0. /\ TransactionTime + 1 < RecoveryTime /\ TransactionTime + 1 + t < RecoveryTime
          /\ TransactionTime + 1 + v < RecoveryTime
          /\ TransactionTime + 1 + v + Rest + 2 < RecoveryTime
      BY <2>e DEF n
    <2>1. /\ calm' < RecoveryTime /\ calm' + Skip' < RecoveryTime
          /\ calm' + Pause("rest")' < RecoveryTime
          /\ calm' + Pause("rest")' + Rest' + 2 < RecoveryTime
      BY <1>2, <1>7, <1>11, <1>r, <2>0, Zenon
    <2>2. CASE ~gate.registered
      BY <1>8, <2>1, <2>2 DEF Recovering
    <2>3. CASE gate.registered /\ reg.last = "no2xx"
      BY <1>7, <1>8, <2>1, <2>3 DEF Recovering
    <2>4. CASE gate.registered /\ reg.last = "2xx"
      <3>1. event' # "answered"
        BY <1>7 DEF NullAssumption, Event
      <3> QED
        BY <1>8, <2>1, <2>4, <3>1 DEF Recovering
    <2> QED
      BY <1>9, <2>2, <2>3, <2>4
  <1> QED
    BY <1>7, <1>10, <1>13 DEF AtPeace

(* Every other period                                                          *)
LEMMA PeriodStep ==
  ASSUME GatewayAssumption, NullAssumption, TimesFit, TimerAssumption, GInv, Settled, Settled',
         NEW p \in Stage, AtStage(p), AtPeace(p), Period
  PROVE  AtStage("rest")' /\ AtPeace("rest")'
  <1>0. /\ calm \in Nat /\ TransactionTime \in Nat /\ KeepaliveGap \in Nat \ {0}
        /\ RefreshAge \in Nat /\ RetryAge \in Nat /\ RecoveryTime \in Nat /\ CalmCap \in Nat
        /\ MonitorKeepalive \in Nat /\ Expires \in Nat
        /\ reg # NULL /\ reg.age \in 0 .. RefreshAge + 1 /\ reg.last \in {"none", "open", "2xx", "no2xx"}
        /\ (reg.last = "none" <=> gate.building) /\ gate.registered \in BOOLEAN
        /\ server.endpoint # NULL =>
              /\ server.endpoint.keepalive \in 0 .. MonitorKeepalive
              /\ server.endpoint.register \in 0 .. Expires
        /\ ClockInv /\ SentInv /\ TimerInv /\ TypeInv
    BY SettledFacts
  <1>1. calm' > 0
    <2>1. calm' \in {0, calm, calm + 1}
      BY <1>0, PeriodFacts
    <2> QED
      BY <1>0, <2>1 DEF Settled
  <1>2. /\ ~Pending /\ server.up
    BY <1>0, <1>1, PeriodFacts
  <1>3. events = <<>> /\ event = NULL /\ \A r \in requests : r.at \notin {"sent", "200", "400"}
    BY <1>2 DEF Pending
  <1>4. requests = {}
    <2>1. \A r \in requests : r.at \in {"sent", "200", "400"}
      BY AtWait
    <2> QED
      BY <1>3, <2>1
  <1>5. p = "rest"
    <2>1. \A c, a : Waiting(c, a) # {}
      BY DEF Waiting
    <2> QED
      BY <1>3, <1>4, <2>1 DEF AtStage, RequestsAt, EventsAt, Stage
  <1>6. /\ AtStage("rest")' /\ event' = NULL /\ reg.last # "open" /\ Pause("rest")' = Wait'
        /\ ~Renewing("rest")' /\ ~Renewed("rest")' /\ ~Failing("rest")'
    BY <1>0, <1>1, <1>3, <1>4, PeriodRests
  <1>7. /\ gate'.registered = gate.registered /\ gate'.building = gate.building
        /\ reg'.last = reg.last /\ reg'.callid = reg.callid /\ Grows(reg.age, reg'.age, RefreshAge + 1)
        /\ server.endpoint = NULL => server'.endpoint = NULL
        /\ server.endpoint # NULL =>
             /\ server'.endpoint # NULL /\ server'.endpoint.callid = server.endpoint.callid
             /\ Grows(server.endpoint.keepalive, server'.endpoint.keepalive, MonitorKeepalive)
             /\ Grows(server.endpoint.register, server'.endpoint.register, Expires)
    BY <1>0, PeriodFacts
  <1>8. PICK c \in Nat, t \in Nat, v \in Nat :
          /\ calm' = c /\ Skip' = t /\ Wait' = v
          /\ c \in {calm, calm + 1} /\ t + 1 <= Skip /\ t <= 1 /\ v + 1 <= Wait /\ v <= KeepaliveGap
    BY <1>1, PeriodWaits
  <1>w. ~gate.building /\ Rest' = Rest /\ Rest \in Nat /\ Skip \in Int /\ Wait \in Int
    BY <1>0, <1>1, PeriodWaits, Spans
  <1>9. ~Renewing(p) /\ ~Renewed(p) /\ ~Asking(p) /\ ~Failing(p) /\ Pause(p) = Wait /\ event # "answered"
    <2>1. event # "success" /\ event # "requestfailure" /\ event # "answered"
      BY <1>3 DEF NullAssumption, Event
    <2> QED
      BY <1>5, <2>1 DEF Renewing, Renewed, Asking, Failing, Pause
  <1>10. Former => Former'
    BY <1>0, <1>7, <1>8 DEF Former, Grows
  <1>11. CASE Recovering(p) /\ Former
    <2>1. CASE ~gate.registered /\ calm + Skip < RecoveryTime
      <3>1. c < RecoveryTime /\ c + t < RecoveryTime
        BY <1>0, <1>8, <1>w, <2>1
      <3>2. calm' < RecoveryTime /\ calm' + Skip' < RecoveryTime
        BY <1>8, <3>1, Zenon
      <3> QED
        BY <1>6, <1>7, <1>10, <1>11, <2>1, <3>2 DEF Recovering, AtPeace
    <2>2. CASE /\ gate.registered /\ reg.last = "no2xx"
               /\ reg.age <= RetryAge \/ calm + Wait < RecoveryTime
      <3>1. c < RecoveryTime /\ c + v < RecoveryTime
        <4>1. CASE reg.age <= RetryAge
          <5>1. calm <= RetryAge
            BY <1>0, <2>2, <4>1 DEF SentInv, TimesFit
          <5> QED
            BY <1>0, <1>8, <5>1 DEF TimesFit
        <4>2. CASE calm + Wait < RecoveryTime
          BY <1>0, <1>8, <1>w, <4>2
        <4> QED
          BY <2>2, <4>1, <4>2
      <3>2. calm' < RecoveryTime /\ calm' + Pause("rest")' < RecoveryTime
        BY <1>6, <1>8, <3>1, Zenon
      <3> QED
        BY <1>6, <1>7, <1>10, <1>11, <2>2, <3>2 DEF Recovering, AtPeace
    <2>4. CASE gate.registered /\ reg.last = "2xx" /\ calm + Wait + Rest + 2 < RecoveryTime
      <3>1. c < RecoveryTime /\ c + v + Rest + 2 < RecoveryTime
        BY <1>0, <1>8, <1>w, <2>4
      <3>2. calm' < RecoveryTime /\ calm' + Pause("rest")' + Rest' + 2 < RecoveryTime
        BY <1>6, <1>8, <1>w, <3>1, Zenon
      <3>3. event' # "answered"
        BY <1>6 DEF NullAssumption, Event
      <3> QED
        BY <1>6, <1>7, <1>10, <1>11, <2>4, <3>2, <3>3 DEF Recovering, AtPeace
    <2> QED
      BY <1>w, <1>9, <1>11, <2>1, <2>2, <2>4 DEF Recovering
  <1>12. CASE Safe(p) /\ (Same \/ Old(p))
    <2> DEFINE k == server.endpoint.keepalive
               l == server'.endpoint.keepalive
    <2>1. /\ server.endpoint # NULL /\ server'.endpoint # NULL /\ reg.last = "2xx"
          /\ Kept /\ k <= KeepaliveGap + 1 /\ gate.registered
          /\ server.endpoint.register <= RefreshAge + k
      BY <1>5, <1>6, <1>7, <1>9, <1>12 DEF Safe
    <2>2. l = k + 1 /\ k \in Nat
      BY <1>0, <1>7, <2>1 DEF Grows, TimesFit
    <2>3. Kept' /\ l <= KeepaliveGap + 1
      <3>1. /\ ~Ahead /\ Ahead' /\ gate.keepalive \in 0 .. KeepaliveGap
            /\ gate'.keepalive = IF gate.keepalive < KeepaliveGap THEN gate.keepalive + 1 ELSE KeepaliveGap
            /\ tick \in Nat /\ (tick' = 0 => tick > 0) /\ tick' \in {0, tick + 1}
        BY <1>1, PeriodWaits
      <3>2. k <= IF gate.keepalive < KeepaliveGap THEN gate.keepalive
                 ELSE IF tick = 0 THEN KeepaliveGap ELSE 0
        BY <2>1, <3>1 DEF Kept
      <3>3. l <= IF gate'.keepalive < KeepaliveGap THEN gate'.keepalive
                 ELSE IF tick' = 0 THEN KeepaliveGap ELSE KeepaliveGap + 1
        BY <1>0, <2>2, <3>1, <3>2
      <3>4. l <= KeepaliveGap + 1
        BY <1>0, <2>2, <3>1, <3>2
      <3> QED
        BY <3>1, <3>3, <3>4 DEF Kept
    <2>4. /\ server'.endpoint.register <= RefreshAge + l
          /\ server'.endpoint.register <= RefreshAge + KeepaliveGap + 1
      BY <1>0, <1>7, <2>1, <2>2, <2>3 DEF Grows
    <2>5. Safe("rest")'
      BY <1>6, <1>7, <1>w, <2>1, <2>3, <2>4 DEF Safe
    <2>6. Same => Same'
      BY <1>7, <2>1 DEF Same
    <2>7. Old(p) => Old("rest")'
      <3> SUFFICES ASSUME Old(p) PROVE Old("rest")'
        OBVIOUS
      <3>1. Former /\ calm < CalmCap /\ (reg.age <= RefreshAge \/ calm + Wait < CalmCap)
        BY <1>9 DEF Old
      <3>2. CASE reg.age <= RefreshAge
        <4>1. calm <= RefreshAge + TransactionTime
          BY <1>0, <2>1, <3>1, <3>2 DEF Former
        <4>2. c < CalmCap /\ c + v < CalmCap
          BY <1>0, <1>8, <4>1 DEF TimesFit
        <4>3. calm' < CalmCap /\ calm' + Pause("rest")' < CalmCap
          BY <1>6, <1>8, <4>2, Zenon
        <4> QED
          BY <1>6, <1>10, <3>1, <4>3 DEF Old
      <3>3. CASE calm + Wait < CalmCap
        <4>1. c < CalmCap /\ c + v < CalmCap
          BY <1>0, <1>8, <1>w, <3>3
        <4>2. calm' < CalmCap /\ calm' + Pause("rest")' < CalmCap
          BY <1>6, <1>8, <4>1, Zenon
        <4> QED
          BY <1>6, <1>10, <3>1, <4>2 DEF Old
      <3> QED
        BY <3>1, <3>2, <3>3
    <2> QED
      BY <1>6, <1>12, <2>5, <2>6, <2>7 DEF AtPeace
  <1> QED
    BY <1>9, <1>11, <1>12 DEF AtPeace

(* The timer's thread calls back when it is due, or starts to count anew.      *)
LEMMA TimerThreadStep ==
  ASSUME GatewayAssumption, NullAssumption, TimesFit, TimerAssumption, GInv, Settled,
         NEW p \in Stage, AtStage(p), AtPeace(p), NEW h \in Timer, TimerThread(h)
  PROVE  AtStage(p)' /\ AtPeace(p)'
  <1>1. UNCHANGED <<gatewayVars, server, faults, calm>> /\ Advance(h) /\ tick' = tick
    BY DEF TimerThread, Advance, Begin, Wrapped, Fire, End
  <1>2. CASE h = "server"
    <2>1. SameClock
      BY <1>1, <1>2, ServerTimer, SettledFacts
    <2>2. Ahead' <=> Ahead
      BY <1>1, <2>1 DEF SameClock, Ahead, gatewayVars
    <2> QED
      BY <1>1, <2>2, Undisturbed
  <1>3. CASE h = "gate"
    <2>1. /\ at["gate"] \in {"call", "loop"} /\ Clock.working /\ tick \in Int /\ Clock.last \in Int
          /\ ClockInv /\ TimerInv /\ "gate" \in Timer
      BY SettledFacts, Numbers
    <2>2. Begin("gate") \/ Wrapped("gate") \/ Fire("gate") \/ End("gate")
      BY <1>1, <1>3 DEF Advance
    <2>3. CASE Wrapped("gate")
      <3>1. /\ at["gate"] = "loop" /\ at'["gate"] = "loop" /\ Clock.last > tick
            /\ Clock'.last = tick
        BY <2>1, <2>3 DEF Wrapped, Thread, Clock, TimerInv, TimerTypeOK, Param
      <3>2. tick = 0
        BY <2>1, <3>1 DEF ClockInv
      <3>3. ~Ahead'
        BY <1>1, <3>1 DEF Ahead
      <3> QED
        BY <1>1, <3>2, <3>3, Undisturbed
    <2>4. CASE Fire("gate")
      <3>1. at["gate"] = "loop" /\ at'["gate"] = "call" /\ tick - Clock.last >= Elapse
        BY <2>1, <2>4 DEF Fire, Thread, Clock, Due, TimerInv, TimerTypeOK
      <3>2. Clock.last # tick
        BY <2>1, <3>1 DEF TimesFit
      <3>3. Ahead /\ Ahead'
        <4>1. ~gate.refreshing /\ gate' = gate
          BY <1>1, <3>1, SettledFacts DEF gatewayVars
        <4> QED
          BY <3>1, <3>2, <4>1 DEF Ahead
      <3> QED
        BY <1>1, <3>3, Undisturbed
    <2> QED
      BY <2>1, <2>2, <2>3, <2>4 DEF Begin, End, Thread, Clock
  <1> QED
    BY <1>2, <1>3 DEF GatewayAssumption

(* The time of a refresh is noted after its answer, or before: no one minds.   *)
LEMMA NoteStep ==
  ASSUME GatewayAssumption, NullAssumption, TimesFit, TimerAssumption, GInv, Settled,
         NEW p \in Stage, AtStage(p), AtPeace(p), NoteRefresh
  PROVE  AtStage(p)' /\ AtPeace(p)'
  <1>1. /\ UNCHANGED <<reg, requests, events, event, server, calm>> /\ Return("gate")
        /\ gate.refreshing /\ gate' = [gate EXCEPT !.register = RegisterGap, !.refreshing = FALSE]
        /\ gate \in Gate
    BY SettledFacts DEF NoteRefresh
  <1>2. ~Ahead /\ ~Ahead' /\ tick' = tick
    BY <1>1, Returned DEF Ahead
  <1>3. /\ gate'.registered = gate.registered /\ gate'.building = gate.building
        /\ gate'.keepalive = gate.keepalive /\ gate'.failures = gate.failures
    BY <1>1 DEF Gate
  <1>4. Skip' = Skip
    BY <1>2 DEF Skip
  <1>5. Wait' = Wait /\ Rest' = Rest
    BY <1>3, <1>4 DEF Wait, Rest
  <1>6. Pause(p)' = Pause(p)
    BY <1>1, <1>5 DEF Pause, Asking, Failing
  <1>7. Kept' <=> Kept
    BY <1>1, <1>2, <1>3 DEF Kept
  <1>8. AtStage(p)'
    BY <1>1, <1>2 DEF AtStage, RequestsAt, EventsAt, Asking, Renewing, Renewed, Waiting
  <1>9. Safe(p)' <=> Safe(p)
    BY <1>1, <1>3, <1>7 DEF Safe, Failing, Renewing
  <1>10. (Same' <=> Same) /\ (Former' <=> Former)
    BY <1>1 DEF Same, Former
  <1>11. Old(p)' <=> Old(p)
    BY <1>1, <1>6, <1>10 DEF Old, Renewing
  <1>12. Recovering(p)' <=> Recovering(p)
    BY <1>1, <1>3, <1>4, <1>5, <1>6 DEF Recovering, Renewing
  <1>13. Renewed(p)' <=> Renewed(p)
    BY <1>1 DEF Renewed
  <1> QED
    BY <1>8, <1>9, <1>10, <1>11, <1>12, <1>13 DEF AtPeace

(* The steps of the gateway                                                    *)
LEMMA GatewayStep ==
  ASSUME GatewayAssumption, NullAssumption, TimesFit, TimerAssumption, GInv, Settled,
         NEW p \in Stage, AtStage(p), AtPeace(p),
         keepaliveMsgTimer \/ NextEvent \/ GB28181EventCB
  PROVE  \E q \in Stage : AtStage(q)' /\ AtPeace(q)'
  <1>0. "rest" \in Stage /\ "register" \in Stage
    BY DEF Stage
  <1>1. CASE BuildRegister
    BY <1>0, <1>1, BuildStep
  <1>2. CASE SendInitial \/ RefreshRegister
    <2>1. RefreshRegister => MayRegister
      <3>1. SUFFICES ASSUME RefreshRegister PROVE MayRegister
        OBVIOUS
      <3>2. Ahead /\ reg # NULL
        BY <3>1, SettledFacts DEF RefreshRegister, Callback
      <3>3. p = "rest"
        BY <3>2, AtCall
      <3> QED
        BY <3>2, <3>3 DEF AtStage, MayRegister
    <2>2. SendInitial \/ (RefreshRegister /\ MayRegister)
      BY <1>2, <2>1
    <2>3. AtStage("register")' /\ AtPeace("register")'
      BY <2>2, TimerSendsStep
    <2> QED
      BY <1>0, <2>3
  <1>3. CASE Keepalive
    BY <1>3, KeepaliveStep
  <1>6. CASE NoteRefresh
    BY <1>6, NoteStep
  <1>4. CASE NextEvent
    BY <1>4, NextEventStep
  <1>5. CASE GB28181EventCB
    <2>1. ~mediaGateHandleRegisterFailure
      <3>1. event \in Asked \cup {NULL, "success"} /\ NULL \notin Event
        BY SettledFacts DEF AtStage
      <3> QED
        BY <3>1 DEF mediaGateHandleRegisterFailure, Handle, Asked, Event
    <2> QED
      BY <1>0, <1>5, <2>1, SuccessStep, MessageFailureStep, AnsweredStep DEF GB28181EventCB
  <1> QED
    BY <1>1, <1>2, <1>3, <1>4, <1>5, <1>6 DEF keepaliveMsgTimer

(* The steps of the server and of its timer                                    *)
LEMMA ServerStep ==
  ASSUME GatewayAssumption, NullAssumption, TimesFit, TimerAssumption, GInv, Settled,
         NEW p \in Stage, AtStage(p), AtPeace(p),
         \/ GB28181MediaGate_Init \/ StartSipServer \/ SipServerStopped
         \/ checkSipEndpointHeartbeat \/ (\E h \in Timer : TimerThread(h)) \/ UNCHANGED vars
  PROVE  AtStage(p)' /\ AtPeace(p)'
  <1>1. CASE GB28181MediaGate_Init \/ StartSipServer
    BY <1>1, SettledFacts DEF GB28181MediaGate_Init, StartSipServer
  <1>2. CASE SipServerStopped \/ UNCHANGED vars
    <2>1. SameClock
      BY <1>2, SettledFacts, SameClockSteps
    <2>2. UNCHANGED <<gatewayVars, server, calm>>
      BY <1>2 DEF SipServerStopped, vars
    <2>3. (Ahead' <=> Ahead) /\ tick' = tick
      BY <2>1, <2>2 DEF SameClock, Ahead, gatewayVars
    <2> QED
      BY <2>2, <2>3, Undisturbed
  <1>3. CASE checkSipEndpointHeartbeat
    BY <1>3, MonitorStep
  <1>4. CASE \E h \in Timer : TimerThread(h)
    BY <1>4, TimerThreadStep
  <1> QED
    BY <1>1, <1>2, <1>3, <1>4

LEMMA SettledStep ==
  ASSUME GatewayAssumption, NullAssumption, TimesFit, TimerAssumption, GInv, SettledInv, [Next]_vars
  PROVE  SettledInv'
  <1> SUFFICES ASSUME Settled' PROVE \E q \in Stage : AtStage(q)' /\ AtPeace(q)'
    BY DEF SettledInv, Stage
  <1>0. "rest" \in Stage /\ "ok" \in Stage
    BY DEF Stage
  <1>1. CASE Period
    <2>1. CASE Settled
      BY <1>0, <1>1, <2>1, PeriodStep DEF SettledInv
    <2>2. CASE ~Settled
      BY <1>0, <1>1, <2>2, EntryStep
    <2> QED
      BY <2>1, <2>2
  <1>2. CASE ~Period
    <2>1. calm' # 0
      BY Numbers DEF Settled
    <2>2. calm' = calm
      BY <1>2, <2>1, CalmSteps DEF GInv
    <2>3. Settled
      BY <2>2 DEF Settled
    <2>4. PICK p \in Stage : AtStage(p) /\ AtPeace(p)
      BY <2>3 DEF SettledInv
    <2>5. CASE keepaliveMsgTimer \/ NextEvent \/ GB28181EventCB
      BY <2>3, <2>4, <2>5, GatewayStep
    <2>6. CASE \E r \in requests : Deliver(r) \/ TimeoutF(r) \/ insertEndpoint(r)
                                     \/ updateSipEndpointKeepalive(r) \/ Lose(r)
      <3>1. PICK r \in requests : Deliver(r) \/ TimeoutF(r) \/ insertEndpoint(r)
                                     \/ updateSipEndpointKeepalive(r) \/ Lose(r)
        BY <2>6
      <3>2. ~TimeoutF(r) /\ ~Lose(r)
        BY <2>1, <2>3, <2>4, NoTimeout DEF Lose, Fault
      <3> QED
        BY <1>0, <2>3, <2>4, <3>1, <3>2, DeliverStep, InsertStep, UpdateStep
    <2>7. CASE \/ GB28181MediaGate_Init \/ StartSipServer \/ SipServerStopped
               \/ checkSipEndpointHeartbeat \/ (\E h \in Timer : TimerThread(h)) \/ UNCHANGED vars
      BY <2>3, <2>4, <2>7, ServerStep
    <2>8. ~StopSipServer /\ ~SipServerDies
      BY <2>1 DEF StopSipServer, SipServerDies, Fault
    <2> QED
      BY <1>2, <2>5, <2>6, <2>7, <2>8 DEF Next
  <1> QED
    BY <1>1, <1>2

-----------------------------------------------------------------------------
RegistrationInv == GInv /\ SettledInv

LEMMA RegistrationStarts ==
  ASSUME GatewayAssumption, TimerAssumption, Init
  PROVE  RegistrationInv
  <1>1. TimerInv /\ TypeInv
    BY TypesStart
  <1>2. ClockInv
    BY Numbers DEF Init, TimerInit, ClockInv, Clock, Freed
  <1>3. RegInv /\ OpenInv /\ StaleInv /\ SentInv
    BY Numbers DEF Init, TimerInit, RegInv, OpenInv, StaleInv, SentInv
  <1>4. SettledInv
    BY Numbers DEF Init, SettledInv, Settled
  <1> QED
    BY <1>1, <1>2, <1>3, <1>4 DEF RegistrationInv, GInv, StackInv

LEMMA RegistrationInductive ==
  ASSUME GatewayAssumption, NullAssumption, TimesFit, TimerAssumption, RegistrationInv, [Next]_vars
  PROVE  RegistrationInv'
  <1>1. TimerInv' /\ TypeInv'
    BY TypesStep DEF RegistrationInv, GInv
  <1>2. ClockInv' /\ RegInv' /\ OpenInv' /\ StaleInv' /\ SentInv'
    BY StackInductive DEF RegistrationInv
  <1>3. SettledInv'
    BY SettledStep DEF RegistrationInv
  <1> QED
    BY <1>1, <1>2, <1>3 DEF RegistrationInv, GInv, StackInv

(* Nothing is left to repeat after RecoveryTime periods.                       *)
Recovered ==
  calm >= RecoveryTime => \E p \in Stage : AtStage(p) /\ Safe(p) /\ (Same \/ Old(p))

LEMMA RecoveredHolds ==
  ASSUME GatewayAssumption, NullAssumption, TimesFit, RegistrationInv
  PROVE  Recovered
  <1> SUFFICES ASSUME calm >= RecoveryTime
               PROVE  \E p \in Stage : AtStage(p) /\ Safe(p) /\ (Same \/ Old(p))
    BY DEF Recovered
  <1>1. calm \in Nat /\ RecoveryTime \in Nat /\ TransactionTime \in Nat
        /\ KeepaliveGap \in Nat /\ FailLimit \in Nat
    BY FieldTypes, Numbers DEF RegistrationInv, GInv
  <1>2. Settled
    <2> DEFINE m == FailLimit * (KeepaliveGap + 1)
    <2>1. m \in Nat /\ TransactionTime + m + 3 <= RecoveryTime
      BY <1>1 DEF TimesFit
    <2> HIDE DEF m
    <2> QED
      BY <1>1, <2>1 DEF Settled
  <1>3. PICK p \in Stage : AtStage(p) /\ AtPeace(p)
    BY <1>2 DEF RegistrationInv, SettledInv
  <1>4. ~Recovering(p)
    BY <1>1 DEF Recovering
  <1> QED
    BY <1>3, <1>4 DEF AtPeace

(* RecoversInTime: whatever was lost and whichever servers came and went,       *)
(* RecoveryTime periods later mediaGateHandleRegisterSuccess has been called   *)
(* and the server holds the endpoint, if that is as long as a transaction and  *)
(* as many keepalives as mediaGateHandleMessageFailure counts.                 *)
THEOREM RecoversInTimeCorrect ==
  ASSUME TimerAssumption, GatewayAssumption, NullAssumption, TimesFit
  PROVE  Spec => []RecoversInTime
  <1>1. Init => RegistrationInv
    BY RegistrationStarts
  <1>2. RegistrationInv /\ [Next]_vars => RegistrationInv'
    BY RegistrationInductive
  <1>3. RegistrationInv => RecoversInTime
    BY RecoveredHolds DEF Recovered, RecoversInTime, Registered, Safe
  <1> QED
    BY <1>1, <1>2, <1>3, PTL DEF Spec

(* A gateway that is registered keeps its Call-ID.                             *)
LEMMA CallIdStays ==
  ASSUME GatewayAssumption, NullAssumption, TimesFit, TimerAssumption, RegistrationInv,
         [Next]_vars, gate.registered, reg # NULL
  PROVE  reg'.callid = reg.callid
  <1>1. GInv /\ TimerInv /\ TypeInv /\ ClockInv
    BY DEF RegistrationInv, GInv, StackInv
  <1>2. CASE BuildRegister
    BY <1>2 DEF BuildRegister
  <1>3. CASE Sends
    BY <1>1, <1>3, Sending DEF Sends
  <1>4. CASE \E r \in requests : Deliver(r) \/ TimeoutF(r)
    BY <1>1, <1>4, Ending
  <1>5. CASE \E r \in requests : insertEndpoint(r) \/ updateSipEndpointKeepalive(r) \/ Lose(r)
    BY <1>5 DEF insertEndpoint, updateSipEndpointKeepalive, Answer, Lose
  <1>6. CASE Period
    BY <1>1, <1>6, PeriodFacts
  <1>7. CASE Asks \/ Quiet
    BY <1>7 DEF Asks, Quiet
  <1> QED
    BY <1>1, <1>2, <1>3, <1>4, <1>5, <1>6, <1>7, StackParts

(* The gateway and the server have the same registration while it is calm.     *)
LEMMA EndpointStays ==
  ASSUME GatewayAssumption, NullAssumption, TimesFit, TimerAssumption, RegistrationInv,
         Recovered, Recovered', [Next]_vars, calm = CalmCap, calm' = CalmCap
  PROVE  /\ server.endpoint # NULL /\ server'.endpoint # NULL
         /\ server'.endpoint.callid = server.endpoint.callid
  <1>1. CalmCap \in Nat /\ CalmCap >= RecoveryTime /\ RecoveryTime \in Nat
    BY Numbers DEF TimesFit
  <1>2. Same /\ gate.registered
    <2>1. PICK p \in Stage : Safe(p) /\ (Same \/ Old(p))
      BY <1>1 DEF Recovered
    <2> QED
      BY <1>1, <2>1 DEF Old, Safe
  <1>3. Same'
    <2>1. calm' >= RecoveryTime /\ ~(calm' < CalmCap)
      BY <1>1
    <2>2. PICK p \in Stage : Safe(p)' /\ (Same' \/ Old(p)')
      BY <2>1 DEF Recovered
    <2> QED
      BY <2>1, <2>2 DEF Old
  <1>4. reg # NULL
    BY <1>2 DEF RegistrationInv, GInv, StackInv, RegInv
  <1>5. reg'.callid = reg.callid
    BY <1>2, <1>4, CallIdStays
  <1> QED
    BY <1>2, <1>3, <1>5 DEF Same

(* CallsSurviveCalm: once a refresh lies behind it, no endpoint is dropped     *)
(* (checkSipEndpointHeartbeat) or replaced by one of another Call-ID           *)
(* (insertEndpoint), for which the server would end its calls.                 *)
THEOREM CallsSurviveCalmCorrect ==
  ASSUME TimerAssumption, GatewayAssumption, NullAssumption, TimesFit
  PROVE  Spec => CallsSurviveCalm
  <1>1. Init => RegistrationInv
    BY RegistrationStarts
  <1>2. RegistrationInv /\ [Next]_vars => RegistrationInv'
    BY RegistrationInductive
  <1>3. RegistrationInv => Recovered
    BY RecoveredHolds
  <1>4. RegistrationInv /\ Recovered /\ Recovered' /\ [Next]_vars
          => [calm = CalmCap /\ calm' = CalmCap
                => server.endpoint # NULL /\ server'.endpoint # NULL
                   /\ server'.endpoint.callid = server.endpoint.callid]_vars
    BY EndpointStays
  <1> QED
    BY <1>1, <1>2, <1>3, <1>4, PTL DEF Spec, CallsSurviveCalm
================================================================================
