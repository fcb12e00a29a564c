--------------------------- MODULE SipTransactions ---------------------------
(* One call over UDP, as the vendored stacks carry it: osip2's transactions    *)
(* (ict_fsm.c, ist_fsm.c, nict_fsm.c, nist_fsm.c) with their timers, and       *)
(* eXosip2's dialogs above them (udp.c, eXcall_api.c, jcallback.c, eXosip.c).  *)
(* The caller's stack sends an INVITE, the callee's program answers it or does *)
(* not, and each side may hang up.  The network loses, duplicates, delays and  *)
(* reorders.  A copy of the INVITE that arrives when the callee's call is over *)
(* asks it again: these are the callee's further calls.                        *)
(*                                                                             *)
(* What a stack does with one message or one timer is a step, with the         *)
(* answers it gives itself; the 200 OK of a program is queued first.  100 and  *)
(* 101, sent together, are one message.  What a stack keeps for a few seconds  *)
(* after a call ended (completed_time) is left out.  A call without a final    *)
(* answer is dropped after Longest.                                            *)
EXTENDS Integers, Sequences, FiniteSets

CONSTANTS
  MaxCall,          \* how often the callee can be asked
  T1, T2, T4,       \* the base timers of osip.h, in ticks
  Long,             \* 64 * T1
  Longest,          \* 180 s: a call without a final answer is dropped
  Gap,              \* time before each resent 200 OK (d_timer, d_count: 9)
  Life,             \* the longest a message is under way
  MaxFaults,        \* how many messages are lost, duplicated or delayed
  InTime            \* a caller that acknowledged this long ago keeps its call

ASSUME TransactionAssumption ==
  /\ MaxCall \in Nat \ {0}
  /\ T1 \in Nat \ {0} /\ T2 \in Nat \ {0} /\ T4 \in Nat \ {0}
  /\ Long \in Nat \ {0} /\ Longest \in Nat \ {0}
  /\ Gap \in Seq(Nat \ {0}) /\ Gap # <<>>
  /\ Life \in Nat /\ MaxFaults \in Nat /\ InTime \in Nat

(* T1 is 0.5 s and T2 4 s; nothing is under way for as long as 180 s less 32 s. *)
ASSUME TimeAssumption == T1 <= T2 /\ Long + Life < Longest

(* The network fails less often than a request or an answer is sent before its *)
(* sender gives up, and not so often that all the 200 OK sent in InTime are    *)
(* lost or stay without their ACK.                                             *)
FewFaults ==
  /\ (MaxFaults + 1) * T2 <= Long
  /\ MaxFaults < Len(Gap)
  /\ \E g \in {Gap[i] : i \in DOMAIN Gap} :
       (\A i \in DOMAIN Gap : Gap[i] <= g) /\ MaxFaults * g < InTime

VARIABLES
  ict,       \* the caller's INVITE transaction
  ist,       \* the callee's, one for each time it is asked
  nict,      \* the client transactions of the BYE requests
  nist,      \* their server transactions
  cancel,    \* the client and the server transaction of the CANCEL
  caller,    \* eXosip_call_t and its dialog, and what its program has heard
  callee,    \* the same of each call of the callee
  net,       \* the messages under way, with their age
  faults

vars == <<ict, ist, nict, nist, cancel, caller, callee, net, faults>>

Callee == 1..MaxCall
(* The BYE requests by their branch: 0 is the caller's, k that of call k, and  *)
(* MaxCall + k one the caller's stack sent on its own and that ended call k.   *)
Branch == 0..2 * MaxCall
Own(k) == MaxCall + k
Off == -1

-----------------------------------------------------------------------------
(* Transactions.  resend is the time left of timer A, G or E and len its       *)
(* length; end is the time left of the timer that ends the state: B or D,      *)
(* H or I, F or K, J.                                                          *)

Transaction(s, r, e) == [state |-> s, resend |-> r, len |-> IF r = Off THEN 0 ELSE r, end |-> e]
Unused == Transaction("none", Off, Off)
Terminated == Transaction("TERMINATED", Off, Off)

Alive(t) == t.state \notin {"none", "TERMINATED"}

ict_snd_invite == Transaction("CALLING", T1, Long)
ict_rcv_1xx == Transaction("PROCEEDING", Off, Off)
ict_rcv_3456xx == Transaction("COMPLETED", Off, Long)
osip_ict_timeout_a_event == [ict EXCEPT !.len = 2 * @, !.resend = 2 * ict.len]

ist_rcv_invite == Transaction("PROCEEDING", Off, Off)
ist_snd_3456xx == Transaction("COMPLETED", T1, Long)
ist_rcv_ack == Transaction("CONFIRMED", Off, T4)
osip_ist_timeout_g_event(k) ==
  LET l == IF 2 * ist[k].len < T2 THEN 2 * ist[k].len ELSE T2
  IN  [ist[k] EXCEPT !.len = l, !.resend = l]

nict_snd_request == Transaction("TRYING", T1, Long)
nict_rcv_23456xx == Transaction("COMPLETED", Off, T4)
osip_nict_timeout_e_event(t) ==
  LET l == IF 2 * t.len < T2 THEN 2 * t.len ELSE T2
  IN  [t EXCEPT !.len = l, !.resend = l]

\* Mutant: timer J is not started.
nist_snd_WithoutTimerJ == Transaction("COMPLETED", Off, Off)

nist_snd_23456xx == Transaction("COMPLETED", Off, Long)

-----------------------------------------------------------------------------
(* Calls.  jd is the dialog: "none" before there is one, "early", "confirmed", *)
(* "empty" when d_dialog was freed, "gone" when the call was released.  bye is *)
(* the BYE that ended it, heard what the program above knows, age how long the *)
(* INVITE has had no final answer.  tag is the call of the callee the caller's *)
(* dialog is with, and ack the age of its ACK.  wait and count are d_timer and *)
(* d_count; wait is Off without a d_200Ok.                                     *)

NewCaller == [jd |-> "none", heard |-> "calling", bye |-> Off, age |-> 0,
              tag |-> 0, ack |-> Off]
NewCallee == [jd |-> "none", heard |-> "none", bye |-> Off, age |-> 0,
              wait |-> Off, count |-> 0]

\* What the program knows of a call when it ends.
Ended(heard) == IF heard \in {"up", "over"} THEN "over" ELSE "off"

HasDialog(c) == c.jd \in {"early", "confirmed"}
Live == {k \in Callee : HasDialog(callee[k])}
ActiveIst == {k \in Callee : Alive(ist[k])}
NeverAsked == {k \in Callee : callee[k].jd = "none"}

\* d_200Ok is set: the 200 OK of this call has not been acknowledged.
Awaited(k) == callee[k].jd = "confirmed" /\ callee[k].wait # Off

(* An INVITE the transaction has not answered: the program has accepted it,    *)
(* but eXosip's thread has not yet handed over the 200 OK, or it has not, or a *)
(* BYE was faster.                                                             *)
Queued(k) == ist[k].state = "PROCEEDING" /\ callee[k].heard \in {"up", "over"}
Unanswered(k) == ist[k].state = "PROCEEDING" /\ callee[k].heard \in {"asked", "off"}

Msg(m, k) == [m |-> m, k |-> k]
Fresh(S) == {[msg |-> s, age |-> 0] : s \in S}

Send(S) == net' = net \cup Fresh(S) /\ UNCHANGED faults

\* x arrives, perhaps not for the last time, and S is sent.
Exchange(x, again, S) ==
  /\ faults + (IF again THEN 1 ELSE 0) <= MaxFaults
  /\ faults' = faults + (IF again THEN 1 ELSE 0)
  /\ net' = (IF again THEN net ELSE net \ {x}) \cup Fresh(S)

Init ==
  /\ ict = ict_snd_invite
  /\ ist = [k \in Callee |-> Unused]
  /\ nict = [b \in 0..MaxCall |-> Unused]
  /\ nist = [b \in Branch |-> Unused]
  /\ cancel = [client |-> Unused, server |-> Unused]
  /\ caller = NewCaller
  /\ callee = [k \in Callee |-> NewCallee]
  /\ net = Fresh({Msg("INVITE", 0)})
  /\ faults = 0

-----------------------------------------------------------------------------
(* The callee's stack.                                                         *)

\* eXosip_process_new_invite: a transaction and an early dialog.
NewInvite(k) ==
  /\ ist' = [ist EXCEPT ![k] = ist_rcv_invite]
  /\ callee' = [callee EXCEPT ![k].jd = "early", ![k].heard = "asked"]

\* What the transaction of call k answers to a copy of its INVITE.
LastResponse(k) ==
  CASE ist[k].state = "PROCEEDING" -> {Msg("101", k)}
    [] ist[k].state = "COMPLETED"  -> {Msg("refuse", k)}
    [] OTHER                       -> {}

\* ist_snd_3456xx, and cb_snd123456xx frees the early dialog.
Refused(k) ==
  /\ ist' = [ist EXCEPT ![k] = ist_snd_3456xx]
  /\ callee' = [callee EXCEPT ![k].jd = "empty", ![k].heard = "off"]

\* Mutant: the dialog's CSeq is not compared.
RcvInviteAnyCSeq(x, again) ==
  /\ x.msg.m = "INVITE"
  /\ UNCHANGED <<ict, nict, nist, caller>>
  /\ \/ \E k \in ActiveIst :
          Exchange(x, again, LastResponse(k)) /\ UNCHANGED <<ist, callee>>
     \/ /\ ActiveIst = {}
        /\ \E k \in NeverAsked : NewInvite(k) /\ Exchange(x, again, {Msg("101", k)})

(* A copy belongs to the transaction if there is still one; else its CSeq      *)
(* gives it away as long as the dialog lives; else it is a new call.  The     *)
(* model drops the copies that come after MaxCall calls.                       *)
RcvInvite(x, again) ==
  /\ x.msg.m = "INVITE"
  /\ UNCHANGED <<ict, nict, nist, caller>>
  /\ \/ \E k \in ActiveIst :
          Exchange(x, again, LastResponse(k)) /\ UNCHANGED <<ist, callee>>
     \/ /\ ActiveIst = {} /\ (Live # {} \/ NeverAsked = {})
        /\ Exchange(x, again, {}) /\ UNCHANGED <<ist, callee>>
     \/ /\ ActiveIst = {} /\ Live = {}
        /\ \E k \in NeverAsked :
             /\ \A j \in NeverAsked : k <= j
             /\ NewInvite(k) /\ Exchange(x, again, {Msg("101", k)})

\* eXosip_process_ack: the 200 OK is not sent any more.
ProcessAck ==
  callee' = [k \in Callee |->
               IF k \in Live THEN [callee[k] EXCEPT !.wait = Off, !.count = 0] ELSE callee[k]]

(* The ACK of a refusal is part of the INVITE's transaction.  Any other, and   *)
(* one whose transaction has ended, goes to the dialog, whatever its To tag.   *)
RcvAck(x, again) ==
  /\ x.msg.m \in {"ACK", "ACK refuse"}
  /\ UNCHANGED <<ict, nict, nist, caller>>
  /\ Exchange(x, again, {})
  /\ IF x.msg.m = "ACK refuse" /\ ActiveIst # {}
       THEN /\ ist' = [k \in Callee |->
                         IF ist[k].state \in {"COMPLETED", "CONFIRMED"} THEN ist_rcv_ack ELSE ist[k]]
            /\ UNCHANGED callee
       ELSE ProcessAck /\ UNCHANGED ist

(* eXosip_process_cancel: an INVITE that is not answered is refused with 487,  *)
(* else nothing comes of it: a 487 behind a queued 200 OK is dropped by the    *)
(* transaction.  A copy goes to the CANCEL's own as long as there is one.      *)

RcvCancel(x, again) ==
  /\ x.msg.m = "CANCEL"
  /\ UNCHANGED <<ict, nict, nist, caller>>
  /\ \/ /\ Alive(cancel.server) \/ \A k \in Callee : ~Unanswered(k)
        /\ Exchange(x, again, {Msg("CANCEL answered", 0)}) /\ UNCHANGED <<ist, callee>>
     \/ /\ ~Alive(cancel.server)
        /\ \E k \in Callee :
             /\ Unanswered(k) /\ Refused(k)
             /\ Exchange(x, again, {Msg("CANCEL answered", 0), Msg("refuse", k)})
  /\ cancel' = IF Alive(cancel.server) THEN cancel
               ELSE [cancel EXCEPT !.server = nist_snd_23456xx]

\* eXosip_process_bye, on either side.
Closed(c, b) == [c EXCEPT !.jd = "empty", !.heard = Ended(@), !.bye = b]

(* A BYE to the callee matches any live dialog, as osip_dialog_match_as_uas    *)
(* compares the Call-ID and the caller's tag.  Without one the answer is 481;  *)
(* what answers a BYE makes no difference to who sent it.                      *)
RcvByeOfCaller(x, again) ==
  /\ x.msg.m = "BYE" /\ x.msg.k = 0
  /\ UNCHANGED <<ict, ist, nict, caller>>
  /\ Exchange(x, again, {Msg("BYE answered", 0)})
  /\ IF Alive(nist[0])
       THEN UNCHANGED <<nist, callee>>
       ELSE /\ nist' = [nist EXCEPT ![0] = nist_snd_23456xx]
            /\ callee' = [k \in Callee |-> IF k \in Live THEN Closed(callee[k], 0) ELSE callee[k]]

(* The BYE the caller's stack sends without a transaction: its answer goes     *)
(* nowhere, so it is left out.                                                 *)
RcvStrayBye(x, again) ==
  /\ x.msg.m = "stray BYE"
  /\ UNCHANGED <<ict, ist, nict, caller>>
  /\ Exchange(x, again, {})
  /\ nist' = [b \in Branch |-> IF \E k \in Live : b = Own(k) THEN nist_snd_23456xx ELSE nist[b]]
  /\ callee' = [k \in Callee |-> IF k \in Live THEN Closed(callee[k], Own(k)) ELSE callee[k]]

-----------------------------------------------------------------------------
(* The caller's stack.                                                         *)

\* Mutant: a repeated answer is dropped.
OutOfTransactionIgnored(k) ==
  IF ~HasDialog(caller) /\ caller.jd = "empty" THEN {Msg("ACK", 0), Msg("stray BYE", 0)} ELSE {}

(* eXosip_process_response_out_of_transaction: a repeated answer of this       *)
(* dialog gets its ACK again; that of another call is acknowledged and hung up *)
(* at once, if the call still has a dialog, be it an empty one.                *)
OutOfTransaction(k) ==
  IF HasDialog(caller) /\ caller.tag = k
    THEN IF caller.ack # Off THEN {Msg("ACK", 0)} ELSE {}
    ELSE IF HasDialog(caller) \/ caller.jd = "empty"
      THEN {Msg("ACK", 0), Msg("stray BYE", 0)}
      ELSE {}

\* The ICT takes provisional and final answers.
Inviting == ict.state \in {"CALLING", "PROCEEDING"}

\* cb_rcv1xx
Rcv1xx(x, again) ==
  /\ x.msg.m = "101"
  /\ UNCHANGED <<ist, nict, nist, callee>>
  /\ \/ /\ Inviting
        /\ ict' = ict_rcv_1xx
        /\ caller' = IF caller.jd = "empty" THEN [caller EXCEPT !.age = 0]
                     ELSE [caller EXCEPT !.jd = "early", !.tag = x.msg.k, !.age = 0]
        /\ Exchange(x, again, {})
     \/ /\ ~Inviting
        /\ Exchange(x, again, IF Alive(ict) THEN {} ELSE OutOfTransaction(x.msg.k))
        /\ UNCHANGED <<ict, caller>>

\* Mutant: a dialog whose BYE came before the answer is not recognised.
Rcv2xxAfterBye(x, again) ==
  /\ x.msg.m = "200"
  /\ UNCHANGED <<ist, nict, nist, callee>>
  /\ Exchange(x, again, {})
  /\ IF Inviting
       THEN /\ ict' = Terminated
            /\ caller' = [caller EXCEPT !.jd = "confirmed", !.tag = x.msg.k, !.heard = "up"]
       ELSE UNCHANGED <<ict, caller>>

\* cb_rcv2xx_4invite
Rcv2xx(x, again) ==
  /\ x.msg.m = "200"
  /\ UNCHANGED <<ist, nict, nist, callee>>
  /\ \/ /\ Inviting
        /\ ict' = Terminated
        /\ caller' = IF caller.jd = "empty" THEN caller
                     ELSE [caller EXCEPT !.jd = "confirmed", !.tag = x.msg.k,
                                         !.heard = "up", !.age = 0]
        /\ Exchange(x, again, {})
     \/ /\ ~Inviting
        /\ Exchange(x, again, IF Alive(ict) THEN {} ELSE OutOfTransaction(x.msg.k))
        /\ UNCHANGED <<ict, caller>>

(* ict_rcv_3456xx, ict_retransmit_ack and cb_rcv4xx.  A refusal has no         *)
(* Contact: without its transaction nothing can be sent.                       *)
RcvRefuse(x, again) ==
  /\ x.msg.m = "refuse"
  /\ UNCHANGED <<ist, nict, nist, callee>>
  /\ Exchange(x, again, IF Alive(ict) THEN {Msg("ACK refuse", 0)} ELSE {})
  /\ IF Inviting
       THEN /\ ict' = ict_rcv_3456xx
            /\ caller' = [caller EXCEPT !.jd = IF @ = "none" THEN @ ELSE "empty", !.heard = Ended(@)]
       ELSE UNCHANGED <<ict, caller>>

RcvByeOfCallee(x, again) ==
  /\ x.msg.m = "BYE" /\ x.msg.k # 0
  /\ UNCHANGED <<ict, ist, nict, callee>>
  /\ Exchange(x, again, {Msg("BYE answered", x.msg.k)})
  /\ IF Alive(nist[x.msg.k])
       THEN UNCHANGED <<nist, caller>>
       ELSE /\ nist' = [nist EXCEPT ![x.msg.k] = nist_snd_23456xx]
            /\ caller' = IF HasDialog(caller) /\ caller.tag = x.msg.k
                           THEN Closed(caller, x.msg.k) ELSE caller

\* An answer to a BYE, on either side.
RcvByeAnswered(x, again) ==
  /\ x.msg.m = "BYE answered"
  /\ UNCHANGED <<ict, ist, nist, caller, callee>>
  /\ Exchange(x, again, {})
  /\ nict' = IF nict[x.msg.k].state = "TRYING"
               THEN [nict EXCEPT ![x.msg.k] = nict_rcv_23456xx] ELSE nict

RcvCancelAnswered(x, again) ==
  /\ x.msg.m = "CANCEL answered"
  /\ UNCHANGED <<ict, ist, nict, nist, caller, callee>>
  /\ Exchange(x, again, {})
  /\ cancel' = IF cancel.client.state = "TRYING"
                 THEN [cancel EXCEPT !.client = nict_rcv_23456xx] ELSE cancel

Receive ==
  \E x \in net, again \in BOOLEAN :
    \/ /\ \/ RcvInvite(x, again) \/ RcvAck(x, again)
          \/ RcvByeOfCaller(x, again) \/ RcvStrayBye(x, again)
          \/ Rcv1xx(x, again) \/ Rcv2xx(x, again) \/ RcvRefuse(x, again)
          \/ RcvByeOfCallee(x, again) \/ RcvByeAnswered(x, again)
       /\ UNCHANGED cancel
    \/ RcvCancel(x, again) \/ RcvCancelAnswered(x, again)

-----------------------------------------------------------------------------
(* The programs.                                                               *)

\* eXosip_call_send_answer with 200: eXosip queues it and keeps a copy for the ACK.
Accept(k) ==
  /\ ist[k].state = "PROCEEDING" /\ callee[k].heard = "asked"
  /\ callee' = [callee EXCEPT ![k].jd = "confirmed", ![k].heard = "up", ![k].age = 0,
                              ![k].wait = Gap[1]]
  /\ Send({})
  /\ UNCHANGED <<ict, ist, nict, nist, caller>>

\* The same with a refusal; eXosip_call_terminate before the answer is one too.
Refuse(k) ==
  /\ ist[k].state = "PROCEEDING" /\ callee[k].heard = "asked"
  /\ Refused(k)
  /\ Send({Msg("refuse", k)})
  /\ UNCHANGED <<ict, nict, nist, caller>>

\* eXosip_call_send_ack
SendAck ==
  /\ caller.jd = "confirmed" /\ caller.ack = Off
  /\ caller' = [caller EXCEPT !.ack = 0]
  /\ Send({Msg("ACK", 0)})
  /\ UNCHANGED <<ict, ist, nict, nist, callee>>

\* eXosip_call_terminate of an answered call
CallerHangsUp ==
  /\ caller.jd = "confirmed"
  /\ caller' = Closed(caller, 0)
  /\ nict' = [nict EXCEPT ![0] = nict_snd_request]
  /\ Send({Msg("BYE", 0)})
  /\ UNCHANGED <<ict, ist, nist, callee>>

(* The same before there is an answer: with a provisional one it sends a       *)
(* CANCEL and keeps the dialog, without one it does nothing.  The program asks *)
(* for it once.                                                                *)
CallerCancels ==
  /\ ict.state = "PROCEEDING" /\ cancel.client = Unused
  /\ cancel' = [cancel EXCEPT !.client = nict_snd_request]
  /\ Send({Msg("CANCEL", 0)})
  /\ UNCHANGED <<ict, ist, nict, nist, caller, callee>>

\* Mutant: the call is dropped without a BYE.
TerminateSilently(k) ==
  /\ ~Queued(k)
  /\ callee' = [callee EXCEPT ![k] = Closed(@, k)]
  /\ nict' = [nict EXCEPT ![k] = Terminated]
  /\ UNCHANGED <<ict, ist, nist, caller, net, faults>>

(* Behind a queued 200 OK it only queues a 603, which the transaction drops:   *)
(* the program's wish is lost.                                                 *)
Terminate(k) ==
  /\ ~Queued(k)
  /\ callee' = [callee EXCEPT ![k] = Closed(@, k)]
  /\ nict' = [nict EXCEPT ![k] = nict_snd_request]
  /\ Send({Msg("BYE", k)})
  /\ UNCHANGED <<ict, ist, nist, caller>>

CalleeHangsUp(k) == callee[k].jd = "confirmed" /\ Terminate(k)

Program ==
  \/ /\ \/ SendAck \/ CallerHangsUp
        \/ \E k \in Callee : Accept(k) \/ Refuse(k) \/ CalleeHangsUp(k)
     /\ UNCHANGED cancel
  \/ CallerCancels

-----------------------------------------------------------------------------
(* Timers.                                                                     *)

\* Mutant: d_count is not compared.
Resend200Always(k) ==
  /\ Awaited(k) /\ callee[k].wait = 0
  /\ LET n == callee[k].count + 1 IN
       callee' = [callee EXCEPT ![k].count = n, ![k].wait = IF n < Len(Gap) THEN Gap[n + 1] ELSE 0]
  /\ Send({Msg("200", k)})
  /\ UNCHANGED <<ict, ist, nict, nist, caller>>

\* eXosip_retransmit_lost200ok
Resend200(k) ==
  /\ Awaited(k) /\ callee[k].wait = 0 /\ callee[k].count < Len(Gap)
  /\ LET n == callee[k].count + 1 IN
       callee' = [callee EXCEPT ![k].count = n, ![k].wait = IF n < Len(Gap) THEN Gap[n + 1] ELSE 0]
  /\ Send({Msg("200", k)})
  /\ UNCHANGED <<ict, ist, nict, nist, caller>>

\* After the last one it hangs up with the next turn of its loop.
GiveUp(k) == Awaited(k) /\ callee[k].count = Len(Gap) /\ Terminate(k)

TimeoutIct ==
  /\ UNCHANGED <<ist, nict, nist, caller, callee>>
  /\ \/ ict.resend = 0 /\ ict' = osip_ict_timeout_a_event /\ Send({Msg("INVITE", 0)})
     \/ ict.end = 0 /\ ict' = Terminated /\ Send({})

TimeoutIst(k) ==
  /\ UNCHANGED <<ict, nict, nist, caller, callee>>
  /\ \/ /\ ist[k].resend = 0
        /\ ist' = [ist EXCEPT ![k] = osip_ist_timeout_g_event(k)] /\ Send({Msg("refuse", k)})
     \/ ist[k].end = 0 /\ ist' = [ist EXCEPT ![k] = Terminated] /\ Send({})

TimeoutNict(b) ==
  /\ UNCHANGED <<ict, ist, nist, caller, callee>>
  /\ \/ /\ nict[b].resend = 0
        /\ nict' = [nict EXCEPT ![b] = osip_nict_timeout_e_event(nict[b])] /\ Send({Msg("BYE", b)})
     \/ nict[b].end = 0 /\ nict' = [nict EXCEPT ![b] = Terminated] /\ Send({})

TimeoutNist(b) ==
  /\ nist[b].end = 0 /\ nist' = [nist EXCEPT ![b] = Terminated] /\ Send({})
  /\ UNCHANGED <<ict, ist, nict, caller, callee>>

(* eXosip_release_terminated_calls.  c is a call, invite its initial           *)
(* transaction and mine whether it was the side that sent the BYE.             *)
Releasable(c, invite, byeOver) ==
  /\ c.jd # "gone"
  /\ IF c.bye = Off
       THEN \/ invite.state = "TERMINATED" /\ c.jd # "confirmed"
            \/ Alive(invite) /\ c.age = Longest
       ELSE byeOver /\ (~Alive(invite) \/ c.age = Longest)

Released(c) == [c EXCEPT !.jd = "gone", !.heard = Ended(@), !.age = 0]

CallerByeOver ==
  IF caller.bye = 0 THEN nict[0].state = "TERMINATED" ELSE nist[caller.bye].state = "TERMINATED"
CalleeByeOver(k) ==
  IF callee[k].bye = k THEN nict[k].state = "TERMINATED" ELSE nist[callee[k].bye].state = "TERMINATED"

CallerReleasable == Releasable(caller, ict, CallerByeOver)
CalleeReleasable(k) == callee[k].jd # "none" /\ Releasable(callee[k], ist[k], CalleeByeOver(k))

ReleaseCaller ==
  /\ CallerReleasable
  /\ ict' = Terminated /\ caller' = Released(caller)
  /\ UNCHANGED <<ist, nict, nist, callee, net, faults>>

ReleaseCallee(k) ==
  /\ CalleeReleasable(k)
  /\ ist' = [ist EXCEPT ![k] = Terminated] /\ callee' = [callee EXCEPT ![k] = Released(@)]
  /\ UNCHANGED <<ict, nict, nist, caller, net, faults>>

\* ist_snd_2xx, of what Accept queued.
Send200(k) ==
  /\ Queued(k)
  /\ ist' = [ist EXCEPT ![k] = Terminated]
  /\ Send({Msg("200", k)})
  /\ UNCHANGED <<ict, nict, nist, caller, callee>>

TimeoutCancel ==
  /\ UNCHANGED <<ict, ist, nict, nist, caller, callee>>
  /\ \/ /\ cancel.client.resend = 0
        /\ cancel' = [cancel EXCEPT !.client = osip_nict_timeout_e_event(@)]
        /\ Send({Msg("CANCEL", 0)})
     \/ /\ cancel.client.end = 0
        /\ cancel' = [cancel EXCEPT !.client = Terminated] /\ Send({})
     \/ /\ cancel.server.end = 0
        /\ cancel' = [cancel EXCEPT !.server = Terminated] /\ Send({})

Expire ==
  \/ /\ \/ TimeoutIct \/ ReleaseCaller
        \/ \E k \in Callee :
             Send200(k) \/ TimeoutIst(k) \/ Resend200(k) \/ GiveUp(k) \/ ReleaseCallee(k)
        \/ \E b \in 0..MaxCall : TimeoutNict(b)
        \/ \E b \in Branch : TimeoutNist(b)
     /\ UNCHANGED cancel
  \/ TimeoutCancel

-----------------------------------------------------------------------------
(* Time and the network.                                                       *)

Due(t) == t.resend = 0 \/ t.end = 0

SomethingDue ==
  \/ Due(ict) \/ Due(cancel.client) \/ Due(cancel.server)
  \/ \E k \in Callee : Queued(k) \/ Due(ist[k]) \/ (Awaited(k) /\ callee[k].wait = 0)
  \/ \E b \in 0..MaxCall : Due(nict[b])
  \/ \E b \in Branch : Due(nist[b])
  \/ CallerReleasable \/ \E k \in Callee : CalleeReleasable(k)

Less(t) == IF t = Off THEN Off ELSE t - 1
Older(c, invite) == [c EXCEPT !.age = IF Alive(invite) /\ @ < Longest THEN @ + 1 ELSE @]
Later(t) == [t EXCEPT !.resend = Less(@), !.end = Less(@)]

(* What is due happens in time.  So does what is under way, or else it counts  *)
(* as a fault; after Life ticks it has arrived or is lost.                     *)
Tick ==
  /\ ~SomethingDue /\ \A x \in net : x.age < Life
  /\ faults + Cardinality(net) <= MaxFaults
  /\ faults' = faults + Cardinality(net)
  /\ ict' = Later(ict)
  /\ ist' = [k \in Callee |-> Later(ist[k])]
  /\ nict' = [b \in 0..MaxCall |-> Later(nict[b])]
  /\ nist' = [b \in Branch |-> Later(nist[b])]
  /\ cancel' = [client |-> Later(cancel.client), server |-> Later(cancel.server)]
  /\ caller' = [Older(caller, ict) EXCEPT
                  !.ack = IF @ # Off /\ @ < InTime THEN @ + 1 ELSE @]
  /\ callee' = [k \in Callee |-> [Older(callee[k], ist[k]) EXCEPT
                  !.wait = IF Awaited(k) THEN @ - 1 ELSE @]]
  /\ net' = {[x EXCEPT !.age = @ + 1] : x \in net}

Lose ==
  /\ faults < MaxFaults
  /\ \E x \in net : net' = net \ {x}
  /\ faults' = faults + 1
  /\ UNCHANGED <<ict, ist, nict, nist, cancel, caller, callee>>

Next == Receive \/ Program \/ Expire \/ Tick \/ Lose

Spec == Init /\ [][Next]_vars

Fairness == WF_vars(Receive \/ Expire \/ Tick)

FairSpec == Spec /\ Fairness

-----------------------------------------------------------------------------
Time == Nat \cup {Off}
InviteState == {"none", "CALLING", "PROCEEDING", "COMPLETED", "CONFIRMED", "TERMINATED"}
OtherState == {"none", "TRYING", "COMPLETED", "TERMINATED"}
Dialog == {"none", "early", "confirmed", "empty", "gone"}
Transactions(S) == [state : S, resend : Time, len : Nat, end : Time]
Message ==
  [m : {"INVITE", "ACK", "ACK refuse", "stray BYE", "CANCEL", "CANCEL answered"}, k : {0}]
    \cup [m : {"101", "200", "refuse"}, k : Callee]
    \cup [m : {"BYE", "BYE answered"}, k : 0..MaxCall]

Packet == [msg : Message, age : 0..Life]
CallerCall ==
  [jd : Dialog, heard : {"calling", "up", "over", "off"}, bye : 0..MaxCall \cup {Off},
   age : 0..Longest, tag : 0..MaxCall, ack : 0..InTime \cup {Off}]
CalleeCall ==
  [jd : Dialog, heard : {"none", "asked", "up", "over", "off"}, bye : Branch \cup {Off},
   age : 0..Longest, wait : Time, count : 0..Len(Gap)]

CallTypeOK ==
  /\ ict \in Transactions(InviteState)
  /\ ist \in [Callee -> Transactions(InviteState)]
  /\ nict \in [0..MaxCall -> Transactions(OtherState)]
  /\ nist \in [Branch -> Transactions(OtherState)]
  /\ caller \in CallerCall
  /\ callee \in [Callee -> CalleeCall]
  /\ net \subseteq Packet /\ IsFiniteSet(net)
  /\ faults \in 0..MaxFaults

CancelTypeOK == cancel \in [client : Transactions(OtherState), server : Transactions(OtherState)]

(* Types; a 200 OK is not resent more often than d_count allows                *)
(* (eXosip_retransmit_lost200ok).                                              *)
TypeOK == CallTypeOK /\ CancelTypeOK

(* The callee's program is in one call at a time: a copy of the INVITE that    *)
(* outlives the transaction of the first is told from a new call by the CSeq   *)
(* of the dialog (eXosip_process_newrequest), until that has gone too.         *)
OneLive == \A j, k \in Callee : HasDialog(callee[j]) /\ HasDialog(callee[k]) => j = k

(* Whatever is lost, repeated or late, what the two programs hear are the      *)
(* steps of one call: the callee is only asked when it is in no call, and what *)
(* the caller hears is an answer the callee gave, then the end (cb_rcv1xx,     *)
(* cb_rcv2xx_4invite, cb_rcv4xx, eXosip_process_bye, release).                 *)
Outcome == INSTANCE Call WITH
  caller <- caller.heard,
  callee <- [k \in Callee |-> callee[k].heard]

ImplementsCall == Outcome!Spec

(* A callee that hears of no ACK hangs up (eXosip_retransmit_lost200ok), but   *)
(* not a caller that acknowledged in time: each copy of its 200 OK makes the   *)
(* caller's stack send the ACK again (response_out_of_transaction).            *)
AckedCallSurvives ==
  [][\A k \in Callee : GiveUp(k) => caller.ack < InTime \/ caller.tag # k]_vars

Settled ==
  /\ net = {} /\ ~Alive(ict) /\ ~Alive(cancel.client) /\ ~Alive(cancel.server)
  /\ \A k \in Callee : ~Alive(ist[k]) /\ ~Awaited(k)
  /\ \A b \in 0..MaxCall : ~Alive(nict[b])
  /\ \A b \in Branch : ~Alive(nist[b])

\* The program hung up while its 200 OK had no ACK: see section 10 of the README.
HungUpEarly(k) == callee[k].bye = k /\ callee[k].wait # Off /\ callee[k].count < Len(Gap)

(* When all transactions have ended both sides agree: the leg a caller is in   *)
(* is up at the callee, and the call the callee took first is up at the caller.*)
(* What was not answered, refused or hung up is so on both sides, thanks to    *)
(* the timers G, E and eXosip's own for the 200 OK.                            *)
LegsAgree ==
  Settled /\ (\A k \in Callee : ~HungUpEarly(k)) =>
    /\ caller.heard = "up" => callee[caller.tag].heard = "up"
    /\ callee[1].heard = "up" => caller.heard = "up"

(* Every transaction ends and every 200 OK is acknowledged or given up,        *)
(* whatever was lost (timers B, D, F, H, I, J, K and the 180 s of              *)
(* eXosip_release_terminated_calls).                                           *)
EverythingSettles == <>[]Settled
=============================================================================
