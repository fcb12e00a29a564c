-------------------------------- MODULE Call --------------------------------
(* What the programs above a SIP stack may rely on when one of them calls the  *)
(* other, whatever the network does.  The caller makes one INVITE and hears   *)
(* at most one outcome.  The callee may be asked more than once, when a copy  *)
(* of the INVITE arrives after its call has ended, but never while it is      *)
(* being asked or in a call.                                                  *)
EXTENDS Naturals

CONSTANT Callee    \* the calls the callee may take the INVITE for

VARIABLES
  caller,    \* "calling" until it hears an outcome, then "up", "over"; or "off"
  callee     \* of each call: "none", "asked", then "up", "over"; or "off"

vars == <<caller, callee>>

Init == caller = "calling" /\ callee = [k \in Callee |-> "none"]

Busy == \E k \in Callee : callee[k] \in {"asked", "up"}

\* The callee is asked.
Ask(k) ==
  /\ callee[k] = "none" /\ ~Busy
  /\ callee' = [callee EXCEPT ![k] = "asked"]
  /\ UNCHANGED caller

Accept(k) ==
  /\ callee[k] = "asked"
  /\ callee' = [callee EXCEPT ![k] = "up"]
  /\ UNCHANGED caller

\* Refused, or taken back before an answer.
Decline(k) ==
  /\ callee[k] = "asked"
  /\ callee' = [callee EXCEPT ![k] = "off"]
  /\ UNCHANGED caller

CalleeEnds(k) ==
  /\ callee[k] = "up"
  /\ callee' = [callee EXCEPT ![k] = "over"]
  /\ UNCHANGED caller

\* Only an INVITE that was accepted is answered.
Answered ==
  /\ caller = "calling" /\ \E k \in Callee : callee[k] \in {"up", "over"}
  /\ caller' = "up"
  /\ UNCHANGED callee

CallerEnds ==
  /\ caller \in {"calling", "up"}
  /\ caller' = IF caller = "up" THEN "over" ELSE "off"
  /\ UNCHANGED callee

Next ==
  \/ \E k \in Callee : Ask(k) \/ Accept(k) \/ Decline(k) \/ CalleeEnds(k)
  \/ Answered \/ CallerEnds

Spec == Init /\ [][Next]_vars
=============================================================================
