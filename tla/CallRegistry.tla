---------------------------- MODULE CallRegistry -----------------------------
(***************************************************************************)
(* What CCallManager promises (CallManager.h:120 and 160): the table of    *)
(* registered endpoints and the table of bridged calls, without threads,   *)
(* locks, heap or time.  A call joins two legs of the SIP stack that serve *)
(* no other call; its callee is registered when it starts; an endpoint     *)
(* leaves, or starts a new registration, only when no call of it is left.  *)
(***************************************************************************)
EXTENDS Integers

CONSTANTS SipId, CallId, MaxCid, NULL

VARIABLES
  registered,  (* the Call-ID each endpoint is registered with, NULL if none *)
  bridged      (* the calls                                                  *)

vars == <<registered, bridged>>

Call == [callerCid : 1 .. MaxCid, callerId : SipId,
         calleeCid : 1 .. MaxCid, calleeId : SipId]

Legs(call)    == {call.callerCid, call.calleeCid}
Parties(call) == {call.callerId, call.calleeId}
CallsOf(s)    == {call \in bridged : s \in Parties(call)}

Init == /\ registered = [s \in SipId |-> NULL]
        /\ bridged = {}

Join(s, k) ==
  /\ registered[s] = NULL
  /\ registered' = [registered EXCEPT ![s] = k]
  /\ UNCHANGED bridged

Restart(s, k) ==
  /\ registered[s] \notin {NULL, k}
  /\ CallsOf(s) = {}
  /\ registered' = [registered EXCEPT ![s] = k]
  /\ UNCHANGED bridged

Leave(s) ==
  /\ registered[s] # NULL
  /\ CallsOf(s) = {}
  /\ registered' = [registered EXCEPT ![s] = NULL]
  /\ UNCHANGED bridged

Connect(call) ==
  /\ registered[call.calleeId] # NULL
  /\ \A other \in bridged : Legs(call) \cap Legs(other) = {}
  /\ bridged' = bridged \cup {call}
  /\ UNCHANGED registered

HangUp(call) ==
  /\ bridged' = bridged \ {call}
  /\ UNCHANGED registered

Next == \/ \E s \in SipId : \/ Leave(s)
                            \/ \E k \in CallId : Join(s, k) \/ Restart(s, k)
        \/ \E call \in Call : Connect(call)
        \/ \E call \in bridged : HangUp(call)

Spec == Init /\ [][Next]_vars
=============================================================================
