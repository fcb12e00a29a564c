------------------- MODULE SipTransactionsAgreementProofs -------------------
(* Both sides of a call agree once their transactions have ended, and a caller *)
(* that acknowledged keeps its call, if the network fails less often than a    *)
(* message is sent.  The argument counts faults: each of them delays a message *)
(* that is sent again by one interval of its timer at most, so that it is      *)
(* heard before the timers F and H, or the last of the 200 OK, end its sending. *)
EXTENDS SipTransactionsProofs

-----------------------------------------------------------------------------
(* What has happened so far.                                                   *)

Used(t) == t.state # "none"
Asked(k) == callee[k].jd # "none"
Over(k) == callee[k].jd \in {"empty", "gone"}
Accepted(k) == callee[k].heard \in {"up", "over"}
Answered == caller.heard \in {"up", "over"}

(* The 200 OK of an accepted call has left the queue.                          *)
Handed(k) == Accepted(k) /\ ist[k].state = "TERMINATED"

(* Which timers run in which state.                                            *)
IctTimers(t) ==
  /\ t.state \in {"CALLING", "PROCEEDING", "COMPLETED", "TERMINATED"}
  /\ t.resend # Off => t.state = "CALLING"
  /\ t.end # Off => t.state \in {"CALLING", "COMPLETED"}
  /\ t.state = "CALLING" => t.end \in 0..Long

IstTimers(t) ==
  /\ t.resend # Off => t.state = "COMPLETED"
  /\ t.end # Off => t.state \in {"COMPLETED", "CONFIRMED"}

ByeTimers(t) == ~Used(t) => t.resend = Off /\ t.end = Off

(* No time has passed since a 200 OK that is still queued.                     *)
QueueTimers(k) == Queued(k) => callee[k].wait # 0 /\ callee[k].age = 0

TimerInv ==
  /\ IctTimers(ict) /\ \A k \in Callee : IstTimers(ist[k]) /\ QueueTimers(k)
  /\ \A b \in 0..MaxCall : ByeTimers(nict[b]) /\ ByeTimers(nist[b])

(* The states the transactions are put into, with their timers.                *)
LEMMA StateFacts ==
  ASSUME TransactionAssumption
  PROVE  /\ Off = -1
         /\ Unused.state = "none" /\ Unused.resend = Off /\ Unused.end = Off
         /\ Terminated.state = "TERMINATED" /\ Terminated.resend = Off /\ Terminated.end = Off
         /\ ict_snd_invite.state = "CALLING" /\ ict_snd_invite.end = Long
         /\ ict_rcv_1xx.state = "PROCEEDING"
         /\ ict_rcv_1xx.resend = Off /\ ict_rcv_1xx.end = Off
         /\ ict_rcv_3456xx.state = "COMPLETED" /\ ict_rcv_3456xx.resend = Off
         /\ ist_rcv_invite.state = "PROCEEDING"
         /\ ist_rcv_invite.resend = Off /\ ist_rcv_invite.end = Off
         /\ ist_snd_3456xx.state = "COMPLETED" /\ ist_snd_3456xx.resend = T1
         /\ ist_snd_3456xx.end = Long /\ ist_snd_3456xx.len = T1
         /\ ist_rcv_ack.state = "CONFIRMED" /\ ist_rcv_ack.resend = Off
         /\ nict_snd_request.state = "TRYING" /\ nict_snd_request.resend = T1
         /\ nict_snd_request.end = Long /\ nict_snd_request.len = T1
         /\ nict_rcv_23456xx.state = "COMPLETED" /\ nist_snd_23456xx.state = "COMPLETED"
BY DEF Off, Unused, Terminated, Transaction, ict_snd_invite, ict_rcv_1xx, ict_rcv_3456xx,
   ist_rcv_invite, ist_snd_3456xx, ist_rcv_ack, nict_snd_request, nict_rcv_23456xx,
   nist_snd_23456xx, TransactionAssumption

(* A timer that sends again changes nothing else.                              *)
LEMMA ResendFacts ==
  ASSUME TransactionAssumption, NEW S, NEW t \in Transactions(S), NEW l
  PROVE  LET u == [t EXCEPT !.len = l, !.resend = l]
         IN  u.state = t.state /\ u.end = t.end /\ u.len = l /\ u.resend = l
BY DEF Transactions

(* One tick later.                                                             *)
LEMMA LaterFacts ==
  ASSUME TransactionAssumption, NEW S, NEW t \in Transactions(S)
  PROVE  /\ Later(t).state = t.state /\ Later(t).len = t.len
         /\ Later(t).resend = IF t.resend = Off THEN Off ELSE t.resend - 1
         /\ Later(t).end = IF t.end = Off THEN Off ELSE t.end - 1
<1>1. Later(t) = [t EXCEPT !.resend = Less(t.resend), !.end = Less(t.end)]
  BY DEF Later, Transactions
<1>2. Later(t) = [state |-> t.state, resend |-> Less(t.resend), len |-> t.len, end |-> Less(t.end)]
  <2>1. t \in [state : S, resend : Time, len : Nat, end : Time]
    BY DEF Transactions
  <2> HIDE DEF Less
  <2> QED
    BY <1>1, <2>1
<1> QED
  BY <1>2 DEF Less

(* What the steps make of the callee's call.                                   *)
LEMMA CalleeFields ==
  ASSUME NEW c \in CalleeCall
  PROVE  /\ \A b : LET d == Closed(c, b)
                   IN  /\ d.jd = "empty" /\ d.heard = Ended(c.heard) /\ d.bye = b
                       /\ d.age = c.age /\ d.wait = c.wait /\ d.count = c.count
         /\ LET d == Released(c)
            IN  /\ d.jd = "gone" /\ d.heard = Ended(c.heard) /\ d.bye = c.bye
                /\ d.age = 0 /\ d.wait = c.wait /\ d.count = c.count
         /\ LET d == [c EXCEPT !.jd = "early", !.heard = "asked"]
            IN  /\ d.jd = "early" /\ d.heard = "asked" /\ d.bye = c.bye
                /\ d.age = c.age /\ d.wait = c.wait /\ d.count = c.count
         /\ LET d == [c EXCEPT !.jd = "confirmed", !.heard = "up", !.age = 0, !.wait = Gap[1]]
            IN  /\ d.jd = "confirmed" /\ d.heard = "up" /\ d.bye = c.bye
                /\ d.age = 0 /\ d.wait = Gap[1] /\ d.count = c.count
         /\ LET d == [c EXCEPT !.jd = "empty", !.heard = "off"]
            IN  /\ d.jd = "empty" /\ d.heard = "off" /\ d.bye = c.bye
                /\ d.age = c.age /\ d.wait = c.wait /\ d.count = c.count
         /\ LET d == [c EXCEPT !.wait = Off, !.count = 0]
            IN  /\ d.jd = c.jd /\ d.heard = c.heard /\ d.bye = c.bye
                /\ d.age = c.age /\ d.wait = Off /\ d.count = 0
         /\ \A n, w : LET d == [c EXCEPT !.count = n, !.wait = w]
                      IN  /\ d.jd = c.jd /\ d.heard = c.heard /\ d.bye = c.bye
                          /\ d.age = c.age /\ d.wait = w /\ d.count = n
         /\ \A a, w : LET d == [[c EXCEPT !.age = a] EXCEPT !.wait = w]
                      IN  /\ d.jd = c.jd /\ d.heard = c.heard /\ d.bye = c.bye
                          /\ d.age = a /\ d.wait = w /\ d.count = c.count
BY DEF CalleeCall, Closed, Released

(* And of the caller's.                                                        *)
LEMMA CallerFields ==
  ASSUME NEW c \in CallerCall
  PROVE  /\ \A b : LET d == Closed(c, b)
                   IN  /\ d.jd = "empty" /\ d.heard = Ended(c.heard) /\ d.bye = b
                       /\ d.tag = c.tag /\ d.ack = c.ack
         /\ LET d == Released(c)
            IN  /\ d.jd = "gone" /\ d.heard = Ended(c.heard) /\ d.bye = c.bye
                /\ d.tag = c.tag /\ d.ack = c.ack
         /\ LET d == [c EXCEPT !.age = 0]
            IN  /\ d.jd = c.jd /\ d.heard = c.heard /\ d.bye = c.bye
                /\ d.tag = c.tag /\ d.ack = c.ack
         /\ \A k : LET d == [c EXCEPT !.jd = "early", !.tag = k, !.age = 0]
                   IN  /\ d.jd = "early" /\ d.heard = c.heard /\ d.bye = c.bye
                       /\ d.tag = k /\ d.ack = c.ack
         /\ \A k : LET d == [c EXCEPT !.jd = "confirmed", !.tag = k, !.heard = "up", !.age = 0]
                   IN  /\ d.jd = "confirmed" /\ d.heard = "up" /\ d.bye = c.bye
                       /\ d.tag = k /\ d.ack = c.ack
         /\ \A j, h : LET d == [c EXCEPT !.jd = j, !.heard = h]
                   IN  /\ d.jd = j /\ d.heard = h /\ d.bye = c.bye
                       /\ d.tag = c.tag /\ d.ack = c.ack
         /\ LET d == [c EXCEPT !.ack = 0]
            IN  /\ d.jd = c.jd /\ d.heard = c.heard /\ d.bye = c.bye
                /\ d.tag = c.tag /\ d.ack = 0
         /\ \A a, w : LET d == [[c EXCEPT !.age = a] EXCEPT !.ack = w]
                      IN  /\ d.jd = c.jd /\ d.heard = c.heard /\ d.bye = c.bye
                          /\ d.tag = c.tag /\ d.ack = w
BY DEF CallerCall, Closed, Released

-----------------------------------------------------------------------------
(* How the two sides, their BYE and what is under way belong together: what    *)
(* must have happened for the caller, a call of the callee or a message to be  *)
(* as it is.                                                                   *)

CallerShape ==
  /\ ict.state = "CALLING" => caller.jd = "none"
  /\ caller.jd = "early" => ict.state = "PROCEEDING"
  /\ caller.jd \in {"none", "early", "confirmed"} => caller.bye = Off
  /\ caller.heard = "over" => caller.bye # Off
  /\ Answered => ict.state = "TERMINATED" /\ caller.tag \in Callee /\ Handed(caller.tag)
  /\ Used(nict[0]) <=> caller.bye = 0
  /\ caller.bye = 0 \/ caller.ack # Off => Answered
  /\ caller.jd = "empty" => Over(1) \/ caller.bye = 0
  /\ ict.state = "COMPLETED" => Over(1)
  /\ \A j \in Callee : caller.bye = j => Used(nict[j])

CalleeShape(k) ==
  /\ Used(ist[k]) <=> Asked(k)
  /\ callee[k].jd = "early" => ist[k].state = "PROCEEDING"
  /\ Accepted(k) => ist[k].state \in {"PROCEEDING", "TERMINATED"}
  /\ ist[k].state = "COMPLETED" => Over(k)
  /\ callee[k].jd \in {"none", "early", "confirmed"} => callee[k].bye = Off
  /\ callee[k].heard = "over" => callee[k].bye # Off
  /\ callee[k].bye \in {Off, 0, k, Own(k)}
  /\ Used(nict[k]) <=> callee[k].bye = k
  /\ callee[k].bye = 0 => Used(nist[0])
  /\ Inviting => /\ ist[k].state # "CONFIRMED" /\ callee[k].bye \in {Off, k}
                 /\ Accepted(k) => callee[k].wait # Off

ByeShape ==
  /\ \A b \in 0..MaxCall : Used(nist[b]) => Used(nict[b])
  /\ Used(nist[0]) => Over(caller.tag)

(* The callee is asked again only when the call before is over.                *)
OrderInv == \A j, k \in Callee : j < k /\ Asked(k) => Over(j)

(* What the callee's first call knows of the caller.                           *)
FirstShape ==
  /\ callee[1].jd = "confirmed" /\ callee[1].wait = Off => Answered
  /\ callee[1].bye = Own(1) /\ caller.jd = "confirmed" => caller.tag # 1

(* What was so when the message was sent, and is so ever after.                *)
Justified(m) ==
  /\ m.m = "ACK" => ict.state = "TERMINATED" /\ (Answered \/ Over(1))
  /\ m.m = "stray BYE" =>
       ict.state = "TERMINATED" /\ (caller.jd = "confirmed" => caller.tag # 1 \/ Over(1))
  /\ m.m = "ACK refuse" => ~Inviting /\ Over(1)
  /\ m.m = "101" => Asked(m.k)
  /\ m.m = "200" => Handed(m.k)
  /\ m.m = "refuse" => Over(m.k)
  /\ m.m = "BYE" => Used(nict[m.k])
  /\ m.m = "BYE answered" => Used(nist[m.k])

MessageInv == \A x \in net : Justified(x.msg)

Shape ==
  /\ CallerShape /\ ByeShape /\ OrderInv /\ FirstShape
  /\ \A k \in Callee : CalleeShape(k)

-----------------------------------------------------------------------------
(* The steps of each side, as far as the shape goes.                           *)

CallerStays ==
  /\ caller'.jd = caller.jd /\ caller'.heard = caller.heard /\ caller'.bye = caller.bye
  /\ caller'.tag = caller.tag /\ (caller'.ack = Off <=> caller.ack = Off)
  /\ \/ ict'.state = ict.state
     \/ ict.state \in {"CALLING", "COMPLETED"} /\ ict'.state = "TERMINATED"
  /\ Used(nict'[0]) <=> Used(nict[0])

CallerRings ==
  /\ Inviting /\ ict'.state = "PROCEEDING"
  /\ caller'.heard = caller.heard /\ caller'.bye = caller.bye /\ caller'.ack = caller.ack
  /\ caller'.jd = IF caller.jd = "empty" THEN "empty" ELSE "early"
  /\ Used(nict'[0]) <=> Used(nict[0])

CallerAnswered(k) ==
  /\ Inviting /\ Handed(k) /\ ict'.state = "TERMINATED"
  /\ caller'.bye = caller.bye /\ caller'.ack = caller.ack
  /\ IF caller.jd = "empty"
       THEN caller'.jd = "empty" /\ caller'.heard = caller.heard /\ caller'.tag = caller.tag
       ELSE caller'.jd = "confirmed" /\ caller'.heard = "up" /\ caller'.tag = k
  /\ Used(nict'[0]) <=> Used(nict[0])

CallerRefused ==
  /\ Inviting /\ Over(1) /\ ict'.state = "COMPLETED"
  /\ caller'.bye = caller.bye /\ caller'.ack = caller.ack /\ caller'.tag = caller.tag
  /\ caller'.heard = Ended(caller.heard)
  /\ caller'.jd = IF caller.jd = "none" THEN "none" ELSE "empty"
  /\ Used(nict'[0]) <=> Used(nict[0])

CallerEndsWith(b) ==
  /\ HasDialog(caller) /\ ict'.state = ict.state
  /\ caller'.jd = "empty" /\ caller'.heard = Ended(caller.heard) /\ caller'.bye = b
  /\ caller'.ack = caller.ack /\ caller'.tag = caller.tag
  /\ IF b = 0 THEN caller.jd = "confirmed" /\ Used(nict'[0])
              ELSE Used(nict[b]) /\ Over(1) /\ (Used(nict'[0]) <=> Used(nict[0]))

CallerAcks ==
  /\ caller.jd = "confirmed" /\ ict'.state = ict.state
  /\ caller'.jd = caller.jd /\ caller'.heard = caller.heard /\ caller'.bye = caller.bye
  /\ caller'.tag = caller.tag
  /\ Used(nict'[0]) <=> Used(nict[0])

CallerLeaves ==
  /\ ict'.state = "TERMINATED" /\ (caller.bye = Off => caller.jd # "confirmed")
  /\ caller'.jd = "gone" /\ caller'.heard = Ended(caller.heard) /\ caller'.bye = caller.bye
  /\ caller'.ack = caller.ack /\ caller'.tag = caller.tag
  /\ Used(nict'[0]) <=> Used(nict[0])

CallerMove ==
  \/ CallerStays \/ CallerRings \/ CallerRefused \/ CallerAcks \/ CallerLeaves
  \/ \E k \in Callee : CallerAnswered(k)
  \/ \E b \in 0..MaxCall : CallerEndsWith(b)

CalleeStays(k) ==
  /\ callee'[k].jd = callee[k].jd /\ callee'[k].heard = callee[k].heard
  /\ callee'[k].bye = callee[k].bye /\ (callee'[k].wait = Off <=> callee[k].wait = Off)
  /\ \/ ist'[k].state = ist[k].state
     \/ ist[k].state \in {"COMPLETED", "CONFIRMED"} /\ ist'[k].state = "TERMINATED"
  /\ Used(nict'[k]) <=> Used(nict[k])

CalleeRings(k) ==
  /\ callee[k].jd = "none" /\ \A j \in Callee : j < k => Over(j)
  /\ callee'[k].jd = "early" /\ callee'[k].heard = "asked" /\ callee'[k].bye = callee[k].bye
  /\ ist'[k].state = "PROCEEDING"
  /\ Used(nict'[k]) <=> Used(nict[k])

CalleeAccepts(k) ==
  /\ callee[k].jd = "early"
  /\ callee'[k].jd = "confirmed" /\ callee'[k].heard = "up" /\ callee'[k].bye = callee[k].bye
  /\ callee'[k].wait # Off /\ ist'[k].state = ist[k].state
  /\ Used(nict'[k]) <=> Used(nict[k])

CalleeAnswers(k) ==
  /\ Accepted(k) /\ ist'[k].state = "TERMINATED"
  /\ callee'[k] = callee[k]
  /\ Used(nict'[k]) <=> Used(nict[k])

CalleeRefuses(k) ==
  /\ callee[k].heard \in {"asked", "off"} /\ ist[k].state = "PROCEEDING"
  /\ callee'[k].jd = "empty" /\ callee'[k].heard = "off" /\ callee'[k].bye = callee[k].bye
  /\ ist'[k].state = "COMPLETED"
  /\ Used(nict'[k]) <=> Used(nict[k])

CalleeHearsAck(k) ==
  /\ ~Inviting /\ (k = 1 => Answered)
  /\ callee'[k].jd = callee[k].jd /\ callee'[k].heard = callee[k].heard
  /\ callee'[k].bye = callee[k].bye /\ ist'[k].state = ist[k].state
  /\ Used(nict'[k]) <=> Used(nict[k])

CalleeHearsAckOfRefuse(k) ==
  /\ ~Inviting /\ ist[k].state \in {"COMPLETED", "CONFIRMED"} /\ ist'[k].state = "CONFIRMED"
  /\ callee'[k] = callee[k]
  /\ Used(nict'[k]) <=> Used(nict[k])

CalleeEndsWith(k, b) ==
  /\ HasDialog(callee[k]) /\ ist'[k].state = ist[k].state
  /\ callee'[k].jd = "empty" /\ callee'[k].heard = Ended(callee[k].heard)
  /\ callee'[k].bye = b /\ callee'[k].wait = callee[k].wait
  /\ \/ b = 0 /\ ~Inviting /\ Used(nist'[0]) /\ (Used(nict'[k]) <=> Used(nict[k]))
     \/ b = k /\ callee[k].jd = "confirmed" /\ Used(nict'[k])
     \/ /\ b = Own(k) /\ ~Inviting /\ (Used(nict'[k]) <=> Used(nict[k]))
        /\ k = 1 /\ caller.jd = "confirmed" => caller.tag # 1

CalleeLeaves(k) ==
  /\ Asked(k) /\ (callee[k].bye = Off => callee[k].jd # "confirmed")
  /\ callee'[k].jd = "gone" /\ callee'[k].heard = Ended(callee[k].heard)
  /\ callee'[k].bye = callee[k].bye /\ callee'[k].wait = callee[k].wait
  /\ ist'[k].state = "TERMINATED"
  /\ Used(nict'[k]) <=> Used(nict[k])

CalleeMove(k) ==
  \/ CalleeStays(k) \/ CalleeRings(k) \/ CalleeAccepts(k) \/ CalleeAnswers(k) \/ CalleeRefuses(k)
  \/ CalleeHearsAck(k) \/ CalleeHearsAckOfRefuse(k) \/ CalleeLeaves(k)
  \/ \E b : CalleeEndsWith(k, b)

ByeMove ==
  /\ \A b \in 0..MaxCall : /\ Used(nict[b]) => Used(nict'[b])
                           /\ Used(nist[b]) => Used(nist'[b])
                           /\ Used(nist'[b]) => Used(nist[b]) \/ Used(nict[b])
  /\ Used(nist'[0]) => Used(nist[0]) \/ \A k \in Callee : ~HasDialog(callee'[k])

Moves ==
  /\ ByeMove
  /\ \/ CallerMove /\ \A k \in Callee : CalleeStays(k)
     \/ CallerStays /\ \A k \in Callee : CalleeMove(k)

(* What is so from now on.                                                     *)
Forward ==
  /\ \A k \in Callee : /\ Asked(k) => Asked(k)'
                       /\ Over(k) => Over(k)'
                       /\ Accepted(k) => Accepted(k)'
                       /\ Handed(k) => Handed(k)'
  /\ ict.state = "TERMINATED" => ict'.state = "TERMINATED"
  /\ ~Inviting => /\ ~Inviting' /\ caller'.tag = caller.tag
                  /\ caller'.jd = "confirmed" => caller.jd = "confirmed"
  /\ Answered => Answered'
  /\ \A b \in 0..MaxCall : /\ Used(nict[b]) => Used(nict'[b])
                           /\ Used(nist[b]) => Used(nist'[b])

LEMMA CalleeGoesOn ==
  ASSUME TypeOK, CallInv, NEW k \in Callee, CalleeShape(k), CalleeMove(k)
  PROVE  /\ Asked(k) => Asked(k)'
         /\ Over(k) => Over(k)'
         /\ Accepted(k) => Accepted(k)'
         /\ Handed(k) => Handed(k)'
<1>1. /\ callee[k].jd = "none" <=> callee[k].heard = "none"
      /\ callee[k].jd = "early" <=> callee[k].heard = "asked"
      /\ callee[k].jd = "confirmed" <=> callee[k].heard = "up"
      /\ ~Used(ist[k]) <=> ~Asked(k)
  BY DEF CallInv, CalleeInv, CalleeShape
<1>2. CASE CalleeStays(k)
  BY <1>2 DEF CalleeStays, Asked, Over, Accepted, Handed
<1>3. CASE CalleeRings(k)
  BY <1>1, <1>3 DEF CalleeRings, Asked, Over, Accepted, Handed
<1>4. CASE CalleeAccepts(k) \/ CalleeAnswers(k) \/ CalleeRefuses(k)
  BY <1>1, <1>4 DEF CalleeAccepts, CalleeAnswers, CalleeRefuses, Asked, Over, Accepted, Handed
<1>5. CASE CalleeHearsAck(k) \/ CalleeHearsAckOfRefuse(k)
  BY <1>1, <1>5 DEF CalleeHearsAck, CalleeHearsAckOfRefuse, Asked, Over, Accepted, Handed
<1>6. CASE CalleeLeaves(k) \/ \E b : CalleeEndsWith(k, b)
  BY <1>1, <1>6 DEF CalleeLeaves, CalleeEndsWith, Asked, Over, Accepted, Handed, Ended
<1> QED
  BY <1>2, <1>3, <1>4, <1>5, <1>6 DEF CalleeMove

LEMMA CallerGoesOn ==
  ASSUME TypeOK, CallInv, IctTimers(ict), CallerShape, CallerMove
  PROVE  /\ ict.state = "TERMINATED" => ict'.state = "TERMINATED"
         /\ ~Inviting => /\ ~Inviting' /\ caller'.tag = caller.tag
                         /\ caller'.jd = "confirmed" => caller.jd = "confirmed"
         /\ Answered => Answered'
<1>1. Answered => ict.state = "TERMINATED"
  BY DEF CallerShape
<1>2. CASE CallerStays \/ CallerAcks
  BY <1>2 DEF CallerStays, CallerAcks, Inviting, Answered
<1>3. CASE CallerRings \/ CallerRefused \/ \E k \in Callee : CallerAnswered(k)
  BY <1>1, <1>3 DEF CallerRings, CallerRefused, CallerAnswered, Inviting, Answered
<1>4. CASE CallerLeaves \/ \E b \in 0..MaxCall : CallerEndsWith(b)
  BY <1>4 DEF CallerLeaves, CallerEndsWith, Inviting, Answered, Ended
<1> QED
  BY <1>2, <1>3, <1>4 DEF CallerMove

LEMMA GoesOn ==
  ASSUME TransactionAssumption, TypeOK, CallInv, TimerInv, Shape, Moves
  PROVE  Forward
<1>1. ASSUME NEW k \in Callee
      PROVE  /\ Asked(k) => Asked(k)'
             /\ Over(k) => Over(k)'
             /\ Accepted(k) => Accepted(k)'
             /\ Handed(k) => Handed(k)'
  <2>1. CalleeMove(k)
    BY DEF Moves, CalleeMove
  <2> QED
    BY <2>1, CalleeGoesOn DEF Shape
<1>2. CallerMove
  BY DEF Moves, CallerMove
<1>3. /\ ict.state = "TERMINATED" => ict'.state = "TERMINATED"
      /\ ~Inviting => /\ ~Inviting' /\ caller'.tag = caller.tag
                      /\ caller'.jd = "confirmed" => caller.jd = "confirmed"
      /\ Answered => Answered'
  BY <1>2, CallerGoesOn DEF TimerInv, Shape
<1> QED
  BY <1>1, <1>3 DEF Forward, Moves, ByeMove

LEMMA JustifiedForEver ==
  ASSUME TransactionAssumption, Forward, NEW m \in Message, Justified(m)
  PROVE  Justified(m)'
<1>1. 1 \in Callee
  BY DEF Callee, TransactionAssumption
<1>2. CASE m.m = "ACK" \/ m.m = "ACK refuse" \/ m.m = "stray BYE"
  <2>1. ict.state = "TERMINATED" => ~Inviting
    BY DEF Inviting
  <2> QED
    BY <1>1, <1>2, <2>1 DEF Justified, Forward
<1>3. CASE m.m = "101" \/ m.m = "200" \/ m.m = "refuse"
  <2>1. m.k \in Callee
    BY <1>3 DEF Message
  <2> QED
    BY <1>3, <2>1 DEF Justified, Forward
<1>4. CASE m.m = "BYE" \/ m.m = "BYE answered"
  <2>1. m.k \in 0..MaxCall
    BY <1>4 DEF Message
  <2> QED
    BY <1>4, <2>1 DEF Justified, Forward
<1>5. CASE m.m \in {"INVITE", "CANCEL", "CANCEL answered"}
  BY <1>5 DEF Justified
<1> QED
  BY <1>2, <1>3, <1>4, <1>5 DEF Message

LEMMA CallerShapeKeeps ==
  ASSUME TransactionAssumption, TypeOK, TypeOK', CallInv, CallInv', TimerInv, Shape, Moves, Forward
  PROVE  CallerShape'
<1>0. /\ 1 \in Callee /\ Callee \subseteq 0..MaxCall /\ \A j \in Callee : j # 0 /\ j # Off
      /\ 0 # Off /\ \A b \in 0..MaxCall : b # Off
      /\ ict.state \in {"CALLING", "PROCEEDING", "COMPLETED", "TERMINATED"}
  BY DEF Callee, TransactionAssumption, TypeOK, CallTypeOK, CallerCall, Off, TimerInv, IctTimers
<1>1. CallerShape /\ CallerMove
  BY DEF Shape, Moves, CallerMove
<1>2. /\ Over(1) => Over(1)'
      /\ \A k \in Callee : Handed(k) => Handed(k)'
      /\ \A k \in Callee : Used(nict[k]) => Used(nict'[k])
  BY <1>0 DEF Forward
<1>3. /\ caller.jd = "confirmed" <=> caller.heard = "up"
      /\ caller.jd = "early" => caller.heard = "calling"
      /\ Inviting => caller.jd \in {"none", "early", "empty"}
  BY DEF CallInv, CallerInv
<1>4. CASE CallerStays \/ CallerAcks
  BY <1>0, <1>1, <1>2, <1>3, <1>4 DEF CallerShape, CallerStays, CallerAcks, Answered
<1>5. CASE CallerRings
  BY <1>0, <1>1, <1>2, <1>3, <1>5 DEF CallerShape, CallerRings, Answered, Inviting
<1>6. ASSUME NEW k \in Callee, CallerAnswered(k) PROVE CallerShape'
  BY <1>0, <1>1, <1>2, <1>3, <1>6 DEF CallerShape, CallerAnswered, Answered, Inviting
<1>7. CASE CallerRefused
  BY <1>0, <1>1, <1>2, <1>3, <1>7 DEF CallerShape, CallerRefused, Answered, Inviting, Ended
<1>8. ASSUME NEW b \in 0..MaxCall, CallerEndsWith(b) PROVE CallerShape'
  <2>1. caller.bye = Off /\ ~Used(nict[0])
    BY <1>0, <1>1, <1>8 DEF CallerShape, CallerEndsWith, HasDialog
  <2>2. CASE b = 0
    BY <1>0, <1>1, <1>2, <1>3, <1>8, <2>1, <2>2
       DEF CallerShape, CallerEndsWith, Answered, Ended, HasDialog
  <2>3. CASE b # 0
    BY <1>0, <1>1, <1>2, <1>3, <1>8, <2>1, <2>3
       DEF CallerShape, CallerEndsWith, Answered, Ended, HasDialog
  <2> QED
    BY <2>2, <2>3
<1>9. CASE CallerLeaves
  BY <1>0, <1>1, <1>2, <1>3, <1>9 DEF CallerShape, CallerLeaves, Answered, Ended
<1> QED
  BY <1>1, <1>4, <1>5, <1>6, <1>7, <1>8, <1>9 DEF CallerMove

LEMMA CalleeShapeKeeps ==
  ASSUME TransactionAssumption, TypeOK, TypeOK', CallInv, CallInv', Shape, Moves, Forward,
         NEW k \in Callee
  PROVE  CalleeShape(k)'
<1>0. k # 0 /\ k # Off /\ Own(k) # 0 /\ Own(k) # k /\ Own(k) # Off /\ 0 # Off /\ 0 \in 0..MaxCall
  BY DEF Callee, TransactionAssumption, Own, Off
<1>1. CalleeShape(k) /\ CalleeMove(k)
  BY DEF Shape, Moves, CalleeMove
<1>2. /\ Inviting' => Inviting
      /\ Used(nist[0]) => Used(nist'[0])
  BY <1>0 DEF Forward
<1>3. /\ callee[k].jd = "none" <=> callee[k].heard = "none"
      /\ callee[k].jd = "early" <=> callee[k].heard = "asked"
      /\ callee[k].jd = "confirmed" <=> callee[k].heard = "up"
      /\ callee[k].jd \in {"none", "early", "confirmed", "empty", "gone"}
      /\ callee[k].heard \in {"none", "asked", "up", "over", "off"}
  BY DEF CallInv, CalleeInv, TypeOK, CallTypeOK, CalleeCall, Dialog
<1>4. CASE CalleeStays(k)
  BY <1>1, <1>2, <1>3, <1>4 DEF CalleeShape, CalleeStays, Used, Asked, Over, Accepted
<1>5. CASE CalleeRings(k)
  BY <1>0, <1>1, <1>2, <1>3, <1>5 DEF CalleeShape, CalleeRings, Used, Asked, Over, Accepted
<1>6. CASE CalleeAccepts(k) \/ CalleeAnswers(k) \/ CalleeRefuses(k)
  BY <1>0, <1>1, <1>2, <1>3, <1>6
     DEF CalleeShape, CalleeAccepts, CalleeAnswers, CalleeRefuses, Used, Asked, Over, Accepted
<1>7. CASE CalleeHearsAck(k) \/ CalleeHearsAckOfRefuse(k)
  BY <1>1, <1>2, <1>3, <1>7
     DEF CalleeShape, CalleeHearsAck, CalleeHearsAckOfRefuse, Used, Asked, Over, Accepted
<1>8. CASE CalleeLeaves(k)
  BY <1>1, <1>2, <1>3, <1>8
     DEF CalleeShape, CalleeLeaves, Used, Asked, Over, Accepted, Ended
<1>9. ASSUME NEW b, CalleeEndsWith(k, b) PROVE CalleeShape(k)'
  <2>1. callee[k].bye = Off /\ ~Used(nict[k])
    BY <1>0, <1>1, <1>9 DEF CalleeShape, CalleeEndsWith, HasDialog
  <2>2. /\ b \in {0, k, Own(k)} /\ (Used(nict'[k]) <=> b = k)
        /\ b = 0 => Used(nist'[0])
        /\ Inviting' => b = k
    BY <1>0, <1>2, <1>9, <2>1 DEF CalleeEndsWith
  <2>3. /\ callee'[k].jd = "empty" /\ callee'[k].heard = Ended(callee[k].heard)
        /\ callee'[k].bye = b /\ callee'[k].wait = callee[k].wait /\ ist'[k].state = ist[k].state
        /\ callee[k].jd \in {"early", "confirmed"}
    BY <1>9 DEF CalleeEndsWith, HasDialog
  <2> QED
    BY <1>0, <1>1, <1>2, <1>3, <2>2, <2>3 DEF CalleeShape, Used, Asked, Over, Accepted, Ended
<1> QED
  BY <1>1, <1>4, <1>5, <1>6, <1>7, <1>8, <1>9 DEF CalleeMove

LEMMA ByeShapeKeeps ==
  ASSUME TransactionAssumption, TypeOK, TypeOK', CallInv, Shape, Moves, Forward
  PROVE  ByeShape'
<1>0. 0 \in 0..MaxCall
  BY DEF TransactionAssumption
<1>1. \A b \in 0..MaxCall : Used(nist'[b]) => Used(nict'[b])
  BY DEF Shape, ByeShape, Moves, ByeMove
<1>2. ASSUME Used(nist'[0]) PROVE callee'[caller'.tag].jd \in {"empty", "gone"}
  <2>1. Used(nict[0])
    BY <1>0, <1>2 DEF Shape, ByeShape, Moves, ByeMove
  <2>2. Answered /\ caller.tag \in Callee /\ Accepted(caller.tag) /\ ict.state = "TERMINATED"
    BY <2>1 DEF Shape, CallerShape, Handed
  <2>3. caller'.tag = caller.tag
    BY <2>2 DEF Forward, Inviting
  <2>4. CASE Used(nist[0])
    <3>1. Over(caller.tag)
      BY <2>4 DEF Shape, ByeShape
    <3> QED
      BY <2>2, <2>3, <3>1 DEF Forward, Over
  <2>5. CASE ~Used(nist[0])
    <3>1. ~HasDialog(callee'[caller.tag])
      BY <1>2, <2>2, <2>5 DEF Moves, ByeMove
    <3>2. callee[caller.tag].heard # "none" /\ callee[caller.tag].jd # "none"
      BY <2>2 DEF Accepted, CallInv, CalleeInv
    <3>3. callee'[caller.tag].jd # "none"
      BY <2>2, <3>2 DEF Forward, Asked
    <3>4. callee'[caller.tag].jd \in {"none", "early", "confirmed", "empty", "gone"}
      BY <2>2 DEF TypeOK, CallTypeOK, CalleeCall, Dialog
    <3> QED
      BY <2>3, <3>1, <3>3, <3>4 DEF Over, HasDialog
  <2> QED
    BY <2>4, <2>5
<1> QED
  BY <1>1, <1>2 DEF ByeShape, Over

LEMMA OrderKeeps ==
  ASSUME TransactionAssumption, TypeOK, Shape, Moves, Forward
  PROVE  OrderInv'
<1> SUFFICES ASSUME NEW j \in Callee, NEW k \in Callee, j < k, Asked(k)'
             PROVE  Over(j)'
  BY DEF OrderInv
<1>1. CASE Asked(k)
  BY <1>1 DEF Shape, OrderInv, Forward
<1>2. CASE ~Asked(k)
  <2>1. CalleeMove(k) /\ CalleeShape(k)
    BY DEF Moves, CalleeMove, Shape
  <2>2. CalleeRings(k)
    BY <1>2, <2>1
       DEF CalleeMove, CalleeStays, CalleeAccepts, CalleeAnswers, CalleeRefuses, CalleeHearsAck,
           CalleeHearsAckOfRefuse, CalleeLeaves, CalleeEndsWith, CalleeShape, HasDialog, Asked,
           Used
  <2> QED
    BY <2>2 DEF CalleeRings, Forward
<1> QED
  BY <1>1, <1>2

LEMMA FirstShapeKeeps ==
  ASSUME TransactionAssumption, TypeOK, CallInv, Shape, Moves, Forward
  PROVE  FirstShape'
<1>0. 1 \in Callee /\ Own(1) # 1 /\ Own(1) # 0 /\ Own(1) # Off
  BY DEF Callee, TransactionAssumption, Own, Off
<1>1. CalleeMove(1) /\ CalleeShape(1) /\ FirstShape
  BY <1>0 DEF Moves, CalleeMove, Shape
<1>2. ASSUME callee'[1].jd = "confirmed", callee'[1].wait = Off PROVE Answered'
  <2>1. CASE callee[1].jd = "confirmed" /\ callee[1].wait = Off
    BY <1>1, <2>1 DEF FirstShape, Forward
  <2>2. CASE ~(callee[1].jd = "confirmed" /\ callee[1].wait = Off)
    <3>1. CalleeHearsAck(1)
      BY <1>1, <1>2, <2>2
         DEF CalleeMove, CalleeStays, CalleeRings, CalleeAccepts, CalleeAnswers, CalleeRefuses,
             CalleeHearsAckOfRefuse, CalleeLeaves, CalleeEndsWith
    <3> QED
      BY <3>1 DEF CalleeHearsAck, Forward
  <2> QED
    BY <2>1, <2>2
<1>3. ASSUME callee'[1].bye = Own(1), caller'.jd = "confirmed" PROVE caller'.tag # 1
  <2>1. CASE callee[1].bye = Own(1)
    <3>1. ~Inviting
      BY <1>0, <1>1, <2>1 DEF CalleeShape
    <3>2. caller.jd = "confirmed" /\ caller'.tag = caller.tag
      BY <1>3, <3>1 DEF Forward
    <3> QED
      BY <1>1, <2>1, <3>2 DEF FirstShape
  <2>2. CASE callee[1].bye # Own(1)
    <3>1. CalleeEndsWith(1, Own(1))
      BY <1>1, <1>3, <2>2
         DEF CalleeMove, CalleeStays, CalleeRings, CalleeAccepts, CalleeAnswers, CalleeRefuses,
             CalleeHearsAck, CalleeHearsAckOfRefuse, CalleeLeaves, CalleeEndsWith
    <3>2. ~Inviting /\ (caller.jd = "confirmed" => caller.tag # 1)
      BY <1>0, <3>1 DEF CalleeEndsWith
    <3> QED
      BY <1>3, <3>2 DEF Forward
  <2> QED
    BY <2>1, <2>2
<1> QED
  BY <1>2, <1>3 DEF FirstShape

(* Whatever the moves of a step are, the shape stays and every message is      *)
(* still justified.                                                            *)
LEMMA MovesKeep ==
  ASSUME TransactionAssumption, TypeOK, TypeOK', CallInv, CallInv', TimerInv, Shape, Moves
  PROVE  Shape' /\ Forward
<1>1. Forward
  BY GoesOn
<1>2. CallerShape'
  BY <1>1, CallerShapeKeeps
<1>3. \A k \in Callee : CalleeShape(k)'
  BY <1>1, CalleeShapeKeeps
<1>4. ByeShape' /\ OrderInv' /\ FirstShape'
  BY <1>1, ByeShapeKeeps, OrderKeeps, FirstShapeKeeps
<1> QED
  BY <1>1, <1>2, <1>3, <1>4 DEF Shape

-----------------------------------------------------------------------------
(* The timers.                                                                 *)

LEMMA ReceiveOfIct ==
  ASSUME Receive
  PROVE  ict' \in {ict, ict_rcv_1xx, ict_rcv_3456xx, Terminated}
<1>1. ASSUME NEW x \in net, NEW again \in BOOLEAN, Rcv1xx(x, again)
      PROVE  ict' = ict \/ ict' = ict_rcv_1xx
  BY <1>1 DEF Rcv1xx
<1>2. ASSUME NEW x \in net, NEW again \in BOOLEAN, Rcv2xx(x, again)
      PROVE  ict' = ict \/ ict' = Terminated
  BY <1>2 DEF Rcv2xx
<1>3. ASSUME NEW x \in net, NEW again \in BOOLEAN, RcvRefuse(x, again)
      PROVE  ict' = ict \/ ict' = ict_rcv_3456xx
  BY <1>3 DEF RcvRefuse
<1>4. ASSUME NEW x \in net, NEW again \in BOOLEAN,
             \/ RcvInvite(x, again) \/ RcvAck(x, again) \/ RcvByeOfCaller(x, again)
             \/ RcvStrayBye(x, again) \/ RcvByeOfCallee(x, again) \/ RcvByeAnswered(x, again)
             \/ RcvCancel(x, again) \/ RcvCancelAnswered(x, again)
      PROVE  ict' = ict
  BY <1>4 DEF RcvInvite, RcvAck, RcvByeOfCaller, RcvStrayBye, RcvByeOfCallee, RcvByeAnswered,
     RcvCancel, RcvCancelAnswered
<1> QED
  BY <1>1, <1>2, <1>3, <1>4 DEF Receive

LEMMA IctTimersKeep ==
  ASSUME TransactionAssumption, TypeOK, IctTimers(ict), [Next]_vars
  PROVE  IctTimers(ict')
<1>0. ict \in Transactions(InviteState) /\ ict.resend \in Time /\ ict.end \in Time
  BY DEF TypeOK, CallTypeOK, Transactions
<1>1. CASE ict' = ict
  BY <1>1
<1>2. CASE ict' \in {ict_rcv_1xx, ict_rcv_3456xx, Terminated}
  BY <1>2, StateFacts DEF IctTimers
<1>3. CASE TimeoutIct
  <2>1. CASE ict.resend = 0 /\ ict' = osip_ict_timeout_a_event
    <3> DEFINE l == 2 * ict.len
    <3>1. ict' = [ict EXCEPT !.len = l, !.resend = l]
      BY <2>1 DEF osip_ict_timeout_a_event
    <3>2. ict.state = "CALLING"
      BY <2>1, StateFacts DEF IctTimers
    <3> HIDE DEF l
    <3>3. ict'.state = ict.state /\ ict'.end = ict.end
      BY <1>0, <3>1, ResendFacts, Zenon
    <3> QED
      BY <3>2, <3>3 DEF IctTimers
  <2> QED
    BY <1>2, <1>3, <2>1 DEF TimeoutIct
<1>4. CASE Tick
  <2>1. ict' = Later(ict) /\ ict.resend # 0 /\ ict.end # 0
    BY <1>4 DEF Tick, SomethingDue, Due
  <2>2. /\ ict'.state = ict.state
        /\ ict'.resend = IF ict.resend = Off THEN Off ELSE ict.resend - 1
        /\ ict'.end = IF ict.end = Off THEN Off ELSE ict.end - 1
    BY <1>0, <2>1, LaterFacts
  <2> QED
    BY <1>0, <2>1, <2>2, StateFacts DEF IctTimers, TransactionAssumption
<1>5. CASE Receive
  <2>1. ict' \in {ict, ict_rcv_1xx, ict_rcv_3456xx, Terminated}
    BY <1>5, ReceiveOfIct
  <2> QED
    BY <1>1, <1>2, <2>1
<1>6. CASE Program
  BY <1>1, <1>6 DEF Program, SendAck, CallerHangsUp, Accept, Refuse, CalleeHangsUp, Terminate,
     CallerCancels
<1>7. CASE Expire /\ ~TimeoutIct
  <2>1. ict' \in {ict, Terminated}
    BY <1>7 DEF Expire, ReleaseCaller, TimeoutIst, Resend200, GiveUp, Terminate,
       ReleaseCallee, TimeoutNict, TimeoutNist, Send200, TimeoutCancel
  <2> QED
    BY <1>1, <1>2, <2>1
<1>8. CASE Lose \/ UNCHANGED vars
  BY <1>1, <1>8 DEF Lose, vars
<1> QED
  BY <1>3, <1>4, <1>5, <1>6, <1>7, <1>8 DEF Next

LEMMA ReceiveOfIst ==
  ASSUME Receive
  PROVE  \/ ist' = ist
         \/ \E c \in Callee : ist' = [ist EXCEPT ![c] = ist_rcv_invite]
         \/ \E c \in Callee : /\ ist' = [ist EXCEPT ![c] = ist_snd_3456xx]
                             /\ \E x, again, S : Msg("refuse", c) \in S /\ Exchange(x, again, S)
         \/ ist' = [c \in Callee |->
                      IF ist[c].state \in {"COMPLETED", "CONFIRMED"} THEN ist_rcv_ack ELSE ist[c]]
<1>1. ASSUME NEW x \in net, NEW again \in BOOLEAN, RcvInvite(x, again)
      PROVE  ist' = ist \/ \E c \in Callee : ist' = [ist EXCEPT ![c] = ist_rcv_invite]
  BY <1>1 DEF RcvInvite, NeverAsked, NewInvite
<1>2. ASSUME NEW x \in net, NEW again \in BOOLEAN, RcvAck(x, again)
      PROVE  \/ ist' = ist
             \/ ist' = [c \in Callee |->
                          IF ist[c].state \in {"COMPLETED", "CONFIRMED"} THEN ist_rcv_ack ELSE ist[c]]
  BY <1>2 DEF RcvAck
<1>3. ASSUME NEW x \in net, NEW again \in BOOLEAN,
             \/ RcvByeOfCaller(x, again) \/ RcvStrayBye(x, again) \/ Rcv1xx(x, again)
             \/ Rcv2xx(x, again) \/ RcvRefuse(x, again) \/ RcvByeOfCallee(x, again)
             \/ RcvByeAnswered(x, again) \/ RcvCancelAnswered(x, again)
      PROVE  ist' = ist
  BY <1>3 DEF RcvByeOfCaller, RcvStrayBye, Rcv1xx, Rcv2xx, RcvRefuse, RcvByeOfCallee,
     RcvByeAnswered, RcvCancelAnswered
<1>4. ASSUME NEW x \in net, NEW again \in BOOLEAN, RcvCancel(x, again)
      PROVE  \/ ist' = ist
             \/ \E c \in Callee : /\ ist' = [ist EXCEPT ![c] = ist_snd_3456xx]
                                 /\ \E y, often, S : /\ Msg("refuse", c) \in S
                                                    /\ Exchange(y, often, S)
  BY <1>4 DEF RcvCancel, Refused
<1> QED
  BY <1>1, <1>2, <1>3, <1>4 DEF Receive

LEMMA IstTimersKeep ==
  ASSUME TransactionAssumption, TypeOK, TimerInv, [Next]_vars, NEW k \in Callee
  PROVE  IstTimers(ist'[k])
<1>0. /\ ist[k] \in Transactions(InviteState) /\ ist[k].resend \in Time /\ ist[k].end \in Time
      /\ IstTimers(ist[k])
  BY DEF TypeOK, CallTypeOK, Transactions, TimerInv
<1>1. CASE ist'[k] = ist[k]
  BY <1>0, <1>1
<1>2. CASE ist'[k] \in {ist_rcv_invite, ist_snd_3456xx, ist_rcv_ack, Terminated}
  BY <1>2, StateFacts DEF IstTimers
<1>3. ASSUME NEW j \in Callee, TimeoutIst(j) PROVE IstTimers(ist'[k])
  <2>1. CASE k = j /\ ist[j].resend = 0 /\ ist' = [ist EXCEPT ![j] = osip_ist_timeout_g_event(j)]
    <3> DEFINE l == IF 2 * ist[k].len < T2 THEN 2 * ist[k].len ELSE T2
    <3>1. ist'[k] = [ist[k] EXCEPT !.len = l, !.resend = l]
      BY <2>1 DEF osip_ist_timeout_g_event, TypeOK, CallTypeOK
    <3>2. ist[k].state = "COMPLETED"
      BY <1>0, <2>1, StateFacts DEF IstTimers
    <3> HIDE DEF l
    <3>3. ist'[k].state = ist[k].state /\ ist'[k].end = ist[k].end
      BY <1>0, <3>1 DEF Transactions
    <3> QED
      BY <1>0, <3>2, <3>3 DEF IstTimers
  <2>2. CASE k # j \/ ist' = [ist EXCEPT ![j] = Terminated]
    <3>1. CASE k # j
      <4>1. \E t : ist' = [ist EXCEPT ![j] = t]
        BY <1>3 DEF TimeoutIst
      <4> QED
        BY <1>1, <3>1, <4>1 DEF TypeOK, CallTypeOK
    <3>2. CASE ist' = [ist EXCEPT ![j] = Terminated]
      <4>1. ist'[k] \in {ist[k], Terminated}
        BY <3>2 DEF TypeOK, CallTypeOK
      <4> QED
        BY <1>1, <1>2, <4>1
    <3> QED
      BY <2>2, <3>1, <3>2
  <2> QED
    BY <1>3, <2>1, <2>2 DEF TimeoutIst
<1>4. CASE Tick
  <2>1. ist'[k] = Later(ist[k]) /\ ist[k].resend # 0 /\ ist[k].end # 0
    BY <1>4 DEF Tick, SomethingDue, Due
  <2>2. /\ ist'[k].state = ist[k].state
        /\ ist'[k].resend = IF ist[k].resend = Off THEN Off ELSE ist[k].resend - 1
        /\ ist'[k].end = IF ist[k].end = Off THEN Off ELSE ist[k].end - 1
    BY <1>0, <2>1, LaterFacts
  <2> QED
    BY <1>0, <2>1, <2>2, StateFacts DEF IstTimers
<1>5. CASE Receive
  <2>1. ist'[k] \in {ist[k], ist_rcv_invite, ist_snd_3456xx, ist_rcv_ack}
    BY <1>5, ReceiveOfIst DEF TypeOK, CallTypeOK
  <2> QED
    BY <1>1, <1>2, <2>1
<1>6. CASE Program
  <2>1. ist'[k] \in {ist[k], Terminated, ist_snd_3456xx}
    BY <1>6 DEF Program, SendAck, CallerHangsUp, Accept, Refuse, Refused, CalleeHangsUp,
       Terminate, CallerCancels, TypeOK, CallTypeOK
  <2> QED
    BY <1>1, <1>2, <2>1
<1>7. CASE Expire /\ ~\E j \in Callee : TimeoutIst(j)
  <2>1. ist'[k] \in {ist[k], Terminated}
    BY <1>7 DEF Expire, ReleaseCaller, TimeoutIct, Resend200, GiveUp, Terminate,
       ReleaseCallee, TimeoutNict, TimeoutNist, Send200, TimeoutCancel, TypeOK, CallTypeOK
  <2> QED
    BY <1>1, <1>2, <2>1
<1>8. CASE Lose \/ UNCHANGED vars
  BY <1>1, <1>8 DEF Lose, vars
<1> QED
  BY <1>3, <1>4, <1>5, <1>6, <1>7, <1>8 DEF Next

LEMMA ByeTimersKeep ==
  ASSUME TransactionAssumption, TypeOK, TimerInv, [Next]_vars, NEW b \in 0..MaxCall
  PROVE  ByeTimers(nict'[b]) /\ ByeTimers(nist'[b])
<1>0. /\ nict[b] \in Transactions(OtherState) /\ nist[b] \in Transactions(OtherState)
      /\ ByeTimers(nict[b]) /\ ByeTimers(nist[b]) /\ b \in Branch
  BY MessageType DEF TypeOK, CallTypeOK, TimerInv
<1>1. \A t \in {nict_snd_request, nict_rcv_23456xx, nist_snd_23456xx, Terminated} : ByeTimers(t)
  BY StateFacts DEF ByeTimers, Used
<1>2. CASE nict'[b] \in {nict[b], nict_snd_request, nict_rcv_23456xx, Terminated}
           /\ nist'[b] \in {nist[b], nist_snd_23456xx, Terminated}
  BY <1>0, <1>1, <1>2
<1>3. ASSUME NEW c \in 0..MaxCall, TimeoutNict(c)
      PROVE  ByeTimers(nict'[b]) /\ ByeTimers(nist'[b])
  <2>0. nist' = nist
    BY <1>3 DEF TimeoutNict
  <2>1. CASE b = c /\ nict[c].resend = 0 /\ nict' = [nict EXCEPT ![c] = osip_nict_timeout_e_event(nict[c])]
    <3> DEFINE l == IF 2 * nict[b].len < T2 THEN 2 * nict[b].len ELSE T2
    <3>1. nict'[b] = [nict[b] EXCEPT !.len = l, !.resend = l]
      BY <2>1 DEF osip_nict_timeout_e_event, TypeOK, CallTypeOK
    <3>2. Used(nict[b])
      BY <1>0, <2>1, StateFacts DEF ByeTimers
    <3> HIDE DEF l
    <3>3. nict'[b].state = nict[b].state
      BY <1>0, <3>1 DEF Transactions
    <3> QED
      BY <1>0, <2>0, <3>2, <3>3 DEF ByeTimers, Used
  <2>2. CASE b # c
    <3>1. \E t : nict' = [nict EXCEPT ![c] = t]
      BY <1>3 DEF TimeoutNict
    <3> QED
      BY <1>0, <2>0, <2>2, <3>1 DEF TypeOK, CallTypeOK
  <2>3. CASE nict' = [nict EXCEPT ![c] = Terminated]
    BY <1>0, <1>1, <2>0, <2>3 DEF TypeOK, CallTypeOK
  <2> QED
    BY <1>3, <2>1, <2>2, <2>3 DEF TimeoutNict
<1>4. CASE Tick
  <2>1. nict'[b] = Later(nict[b]) /\ nist'[b] = Later(nist[b])
    BY <1>0, <1>4 DEF Tick
  <2>2. ASSUME NEW t \in Transactions(OtherState), ByeTimers(t) PROVE ByeTimers(Later(t))
    BY <2>2, LaterFacts DEF ByeTimers, Used
  <2> QED
    BY <1>0, <2>1, <2>2
<1>5. CASE Receive
  <2>1. nict'[b] \in {nict[b], nict_rcv_23456xx} /\ nist'[b] \in {nist[b], nist_snd_23456xx}
    <3>1. PICK x \in net, again \in BOOLEAN :
             \/ RcvInvite(x, again) \/ RcvAck(x, again)
             \/ RcvByeOfCaller(x, again) \/ RcvStrayBye(x, again)
             \/ Rcv1xx(x, again) \/ Rcv2xx(x, again) \/ RcvRefuse(x, again)
             \/ RcvByeOfCallee(x, again) \/ RcvByeAnswered(x, again)
             \/ RcvCancel(x, again) \/ RcvCancelAnswered(x, again)
      BY <1>5 DEF Receive
    <3>2. CASE RcvInvite(x, again)
      BY <3>2 DEF RcvInvite
    <3>3. CASE RcvAck(x, again)
      BY <3>3 DEF RcvAck
    <3>4. CASE RcvByeOfCaller(x, again)
      BY <1>0, <3>4 DEF RcvByeOfCaller, TypeOK, CallTypeOK
    <3>5. CASE RcvStrayBye(x, again)
      BY <1>0, <3>5 DEF RcvStrayBye
    <3>6. CASE Rcv1xx(x, again) \/ Rcv2xx(x, again) \/ RcvRefuse(x, again)
      BY <3>6 DEF Rcv1xx, Rcv2xx, RcvRefuse
    <3>7. CASE RcvByeOfCallee(x, again)
      BY <1>0, <3>7 DEF RcvByeOfCallee, TypeOK, CallTypeOK
    <3>8. CASE RcvByeAnswered(x, again)
      BY <1>0, <3>8 DEF RcvByeAnswered, TypeOK, CallTypeOK
    <3>9. CASE RcvCancel(x, again) \/ RcvCancelAnswered(x, again)
      BY <3>9 DEF RcvCancel, RcvCancelAnswered
    <3> QED
      BY <3>1, <3>2, <3>3, <3>4, <3>5, <3>6, <3>7, <3>8, <3>9
  <2> QED
    BY <1>2, <2>1
<1>6. CASE Program
  <2>1. nict'[b] \in {nict[b], nict_snd_request} /\ nist' = nist
    BY <1>6 DEF Program, SendAck, CallerHangsUp, Accept, Refuse, CalleeHangsUp, Terminate,
       CallerCancels, TypeOK, CallTypeOK
  <2> QED
    BY <1>2, <2>1
<1>7. CASE Expire /\ ~\E c \in 0..MaxCall : TimeoutNict(c)
  <2>1. nict'[b] \in {nict[b], nict_snd_request} /\ nist'[b] \in {nist[b], Terminated}
    BY <1>0, <1>7 DEF Expire, ReleaseCaller, TimeoutIct, TimeoutIst, Resend200, GiveUp, Terminate,
       ReleaseCallee, TimeoutNist, Send200, TimeoutCancel, TypeOK, CallTypeOK
  <2> QED
    BY <1>2, <2>1
<1>8. CASE Lose \/ UNCHANGED vars
  BY <1>2, <1>8 DEF Lose, vars
<1> QED
  BY <1>3, <1>4, <1>5, <1>6, <1>7, <1>8 DEF Next

LEMMA QueueTimersKeep ==
  ASSUME TransactionAssumption, TypeOK, TimerInv, [Next]_vars, NEW k \in Callee
  PROVE  QueueTimers(k)'
<1> SUFFICES ASSUME Queued(k)' PROVE callee'[k].wait # 0 /\ callee'[k].age = 0
  BY DEF QueueTimers
<1>0. /\ callee[k] \in CalleeCall /\ callee \in [Callee -> CalleeCall]
      /\ ist \in [Callee -> Transactions(InviteState)]
      /\ Queued(k) => callee[k].wait # 0 /\ callee[k].age = 0
  BY DEF TypeOK, CallTypeOK, TimerInv, QueueTimers
<1>1. CASE /\ ist'[k] = ist[k] /\ Queued(k)
           /\ callee'[k].wait \in {callee[k].wait, Off} /\ callee'[k].age = callee[k].age
  BY <1>0, <1>1 DEF Off
<1>2. CASE ist'[k] = ist[k] /\ callee'[k] = callee[k]
  BY <1>0, <1>2 DEF Queued
<1>3. CASE ist'[k] \in {ist_snd_3456xx, ist_rcv_ack, Terminated}
  BY <1>3, StateFacts DEF Queued
<1>4. ASSUME NEW b, ist'[k] = ist[k], callee'[k] = Closed(callee[k], b)
      PROVE  callee'[k].wait # 0 /\ callee'[k].age = 0
  <2>1. callee'[k].heard = Ended(callee[k].heard) /\ callee'[k].wait = callee[k].wait
        /\ callee'[k].age = callee[k].age
    BY <1>0, <1>4, CalleeFields
  <2> QED
    BY <1>0, <1>4, <2>1 DEF Queued, Ended
<1>5. CASE Receive
  <2>1. PICK x \in net, again \in BOOLEAN :
          \/ RcvInvite(x, again) \/ RcvAck(x, again)
          \/ RcvByeOfCaller(x, again) \/ RcvStrayBye(x, again)
          \/ Rcv1xx(x, again) \/ Rcv2xx(x, again) \/ RcvRefuse(x, again)
          \/ RcvByeOfCallee(x, again) \/ RcvByeAnswered(x, again)
          \/ RcvCancel(x, again) \/ RcvCancelAnswered(x, again)
    BY <1>5 DEF Receive
  <2>2. CASE RcvInvite(x, again)
    <3>1. CASE UNCHANGED <<ist, callee>>
      BY <1>2, <3>1
    <3>2. ASSUME NEW j \in Callee, NewInvite(j)
          PROVE  callee'[k].wait # 0 /\ callee'[k].age = 0
      <4>1. CASE j = k
        <5>1. callee'[k] = [[callee[k] EXCEPT !.jd = "early"] EXCEPT !.heard = "asked"]
          BY <1>0, <3>2, <4>1, Zenon DEF NewInvite
        <5>2. callee'[k].heard = "asked"
          BY <1>0, <5>1 DEF CalleeCall
        <5> QED
          BY <5>2 DEF Queued
      <4>2. CASE j # k
        BY <1>0, <1>2, <3>2, <4>2 DEF NewInvite
      <4> QED
        BY <4>1, <4>2
    <3> QED
      BY <2>2, <3>1, <3>2 DEF RcvInvite, NeverAsked
  <2>3. CASE RcvAck(x, again)
    <3>1. CASE UNCHANGED callee
      <4>1. ist'[k] \in {ist[k], ist_rcv_ack}
        BY <2>3, <3>1 DEF RcvAck
      <4> QED
        BY <1>2, <1>3, <3>1, <4>1
    <3>2. CASE ProcessAck /\ UNCHANGED ist
      <4>1. callee'[k] \in {callee[k], [callee[k] EXCEPT !.wait = Off, !.count = 0]}
        BY <3>2 DEF ProcessAck
      <4>2. LET d == [callee[k] EXCEPT !.wait = Off, !.count = 0]
            IN  d.wait = Off /\ d.age = callee[k].age /\ d.heard = callee[k].heard
        BY <1>0 DEF CalleeCall
      <4>3. callee'[k].wait \in {callee[k].wait, Off} /\ callee'[k].age = callee[k].age
            /\ callee'[k].heard = callee[k].heard
        BY <4>1, <4>2, Zenon
      <4> QED
        BY <1>1, <3>2, <4>3 DEF Queued
    <3> QED
      BY <2>3, <3>1, <3>2 DEF RcvAck
  <2>4. CASE RcvByeOfCaller(x, again) \/ RcvStrayBye(x, again)
    <3>1. ist' = ist /\ \E b : callee'[k] \in {callee[k], Closed(callee[k], b)}
      BY <2>4, Zenon DEF RcvByeOfCaller, RcvStrayBye
    <3> QED
      BY <1>2, <1>4, <3>1
  <2>5. CASE Rcv1xx(x, again) \/ Rcv2xx(x, again) \/ RcvRefuse(x, again)
             \/ RcvByeOfCallee(x, again) \/ RcvByeAnswered(x, again) \/ RcvCancelAnswered(x, again)
    BY <1>2, <2>5 DEF Rcv1xx, Rcv2xx, RcvRefuse, RcvByeOfCallee, RcvByeAnswered, RcvCancelAnswered
  <2>6. CASE RcvCancel(x, again)
    <3>1. CASE UNCHANGED <<ist, callee>>
      BY <1>2, <3>1
    <3>2. ASSUME NEW j \in Callee, Refused(j)
          PROVE  callee'[k].wait # 0 /\ callee'[k].age = 0
      <4>1. ist'[k] = ist_snd_3456xx \/ (ist'[k] = ist[k] /\ callee'[k] = callee[k])
        BY <1>0, <3>2 DEF Refused
      <4> QED
        BY <1>2, <1>3, <4>1
    <3> QED
      BY <2>6, <3>1, <3>2 DEF RcvCancel
  <2> QED
    BY <2>1, <2>2, <2>3, <2>4, <2>5, <2>6
<1>6. CASE Program
  <2>1. ASSUME NEW j \in Callee, Accept(j) PROVE callee'[k].wait # 0 /\ callee'[k].age = 0
    <3>1. CASE j = k
      <4>1. callee'[k] = [callee[k] EXCEPT !.jd = "confirmed", !.heard = "up", !.age = 0,
                                           !.wait = Gap[1]]
        BY <1>0, <2>1, <3>1 DEF Accept
      <4> QED
        BY <1>0, <4>1, CalleeFields DEF TransactionAssumption
    <3>2. CASE j # k
      BY <1>0, <1>2, <2>1, <3>2 DEF Accept
    <3> QED
      BY <3>1, <3>2
  <2>2. ASSUME NEW j \in Callee, Refuse(j) PROVE callee'[k].wait # 0 /\ callee'[k].age = 0
    <3>1. ist'[k] = ist_snd_3456xx \/ (ist'[k] = ist[k] /\ callee'[k] = callee[k])
      BY <1>0, <2>2 DEF Refuse, Refused
    <3> QED
      BY <1>2, <1>3, <3>1
  <2>3. ASSUME NEW j \in Callee, CalleeHangsUp(j) PROVE callee'[k].wait # 0 /\ callee'[k].age = 0
    <3>1. ist' = ist /\ callee'[k] \in {callee[k], Closed(callee[k], k)}
      BY <1>0, <2>3, Zenon DEF CalleeHangsUp, Terminate
    <3> QED
      BY <1>2, <1>4, <3>1
  <2>4. CASE SendAck \/ CallerHangsUp \/ CallerCancels
    BY <1>2, <2>4 DEF SendAck, CallerHangsUp, CallerCancels
  <2> QED
    BY <1>6, <2>1, <2>2, <2>3, <2>4 DEF Program
<1>7. CASE Expire
  <2>1. ASSUME NEW j \in Callee, Resend200(j) PROVE callee'[k].wait # 0 /\ callee'[k].age = 0
    <3>1. CASE j = k
      <4>1. callee[k].wait = 0 /\ ist' = ist
        BY <2>1, <3>1 DEF Resend200
      <4> DEFINE n == callee[k].count + 1
                 w == IF n < Len(Gap) THEN Gap[n + 1] ELSE 0
      <4>2. callee'[k] = [callee[k] EXCEPT !.count = n, !.wait = w]
        BY <1>0, <2>1, <3>1 DEF Resend200
      <4> HIDE DEF n, w
      <4>3. callee'[k].heard = callee[k].heard
        BY <1>0, <4>2, CalleeFields
      <4> QED
        BY <1>0, <4>1, <4>3 DEF Queued
    <3>2. CASE j # k
      <4>1. \E d : callee' = [callee EXCEPT ![j] = d]
        BY <2>1, Zenon DEF Resend200
      <4>2. callee'[k] = callee[k] /\ ist' = ist
        BY <1>0, <2>1, <3>2, <4>1 DEF Resend200
      <4> QED
        BY <1>2, <4>2
    <3> QED
      BY <3>1, <3>2
  <2>2. ASSUME NEW j \in Callee, GiveUp(j) PROVE callee'[k].wait # 0 /\ callee'[k].age = 0
    <3>1. ist' = ist /\ callee'[k] \in {callee[k], Closed(callee[k], k)}
      BY <1>0, <2>2, Zenon DEF GiveUp, Terminate
    <3> QED
      BY <1>2, <1>4, <3>1
  <2>3. ASSUME NEW j \in Callee, ReleaseCallee(j) \/ Send200(j)
        PROVE  callee'[k].wait # 0 /\ callee'[k].age = 0
    <3>1. ist'[k] = Terminated \/ (ist'[k] = ist[k] /\ callee'[k] = callee[k])
      BY <1>0, <2>3 DEF ReleaseCallee, Send200
    <3> QED
      BY <1>2, <1>3, <3>1
  <2>4. ASSUME NEW j \in Callee, TimeoutIst(j) PROVE callee'[k].wait # 0 /\ callee'[k].age = 0
    <3>1. ist'[k].state = "PROCEEDING" => ist[k].state = "PROCEEDING"
      <4>1. CASE k = j /\ ist' = [ist EXCEPT ![j] = osip_ist_timeout_g_event(j)]
        <5> DEFINE l == IF 2 * ist[k].len < T2 THEN 2 * ist[k].len ELSE T2
        <5>1. ist'[k] = [ist[k] EXCEPT !.len = l, !.resend = l]
          BY <1>0, <4>1 DEF osip_ist_timeout_g_event
        <5> HIDE DEF l
        <5> QED
          BY <1>0, <5>1 DEF Transactions
      <4>2. CASE k # j
        <5>1. \E t : ist' = [ist EXCEPT ![j] = t]
          BY <2>4, Zenon DEF TimeoutIst
        <5> QED
          BY <1>0, <4>2, <5>1
      <4>3. CASE ist' = [ist EXCEPT ![j] = Terminated]
        BY <1>0, <4>3, StateFacts
      <4> QED
        BY <2>4, <4>1, <4>2, <4>3 DEF TimeoutIst
    <3> QED
      BY <1>0, <2>4, <3>1 DEF TimeoutIst, Queued
  <2>5. CASE TimeoutIct \/ ReleaseCaller \/ TimeoutCancel
             \/ (\E b \in 0..MaxCall : TimeoutNict(b)) \/ \E b \in Branch : TimeoutNist(b)
    BY <1>2, <2>5 DEF TimeoutIct, ReleaseCaller, TimeoutCancel, TimeoutNict, TimeoutNist
  <2> QED
    BY <1>7, <2>1, <2>2, <2>3, <2>4, <2>5 DEF Expire
<1>8. CASE Tick
  <2>1. ist'[k].state = ist[k].state
    BY <1>0, <1>8, LaterFacts DEF Tick
  <2>2. callee'[k].heard = callee[k].heard
    BY <1>8, TickUnheard DEF Unheard
  <2> QED
    BY <1>8, <2>1, <2>2 DEF Queued, Tick, SomethingDue
<1>9. CASE Lose \/ UNCHANGED vars
  BY <1>2, <1>9 DEF Lose, vars
<1> QED
  BY <1>5, <1>6, <1>7, <1>8, <1>9 DEF Next

LEMMA TimerStep ==
  ASSUME TransactionAssumption, TypeOK, TimerInv, [Next]_vars
  PROVE  TimerInv'
BY IctTimersKeep, IstTimersKeep, ByeTimersKeep, QueueTimersKeep DEF TimerInv

LEMMA InitShape ==
  ASSUME TransactionAssumption, Init
  PROVE  TimerInv /\ Shape /\ MessageInv
<1>0. 1 \in Callee /\ 0 \notin Callee /\ 0 # Off /\ Callee \subseteq 0..MaxCall
      /\ 0..MaxCall \subseteq Branch /\ 0 \in 0..MaxCall
      /\ \A k \in Callee : k # Off
  BY DEF Callee, TransactionAssumption, Off, Branch
<1>1. /\ ict = ict_snd_invite
      /\ \A k \in Callee : ist[k] = Unused
      /\ \A b \in 0..MaxCall : nict[b] = Unused /\ nist[b] = Unused
      /\ net = Fresh({Msg("INVITE", 0)})
  BY <1>0 DEF Init
<1>2. \A k \in Callee : /\ callee[k].jd = "none" /\ callee[k].heard = "none"
                         /\ callee[k].bye = Off
  BY DEF Init, NewCallee
<1>3. caller.jd = "none" /\ caller.heard = "calling" /\ caller.bye = Off /\ caller.ack = Off
  BY DEF Init, NewCaller
<1>4. TimerInv
  <2>1. IctTimers(ict)
    BY <1>1, StateFacts DEF IctTimers, TransactionAssumption, ict_snd_invite, Transaction
  <2> QED
    BY <1>1, <2>1, StateFacts DEF TimerInv, IstTimers, ByeTimers, QueueTimers, Queued
<1>5. CallerShape
  BY <1>0, <1>1, <1>3, StateFacts DEF CallerShape, Answered, Used
<1>6. \A k \in Callee : CalleeShape(k)
  BY <1>0, <1>1, <1>2, StateFacts DEF CalleeShape, Asked, Over, Accepted, Used
<1>7. ByeShape
  BY <1>0, <1>1, StateFacts DEF ByeShape, Used
<1>8. OrderInv /\ FirstShape
  BY <1>0, <1>2, <1>3 DEF OrderInv, FirstShape, Asked
<1>9. MessageInv
  <2>1. \A x \in net : x.msg.m = "INVITE"
    BY <1>1 DEF Fresh, Msg
  <2> QED
    BY <2>1 DEF MessageInv, Justified
<1> QED
  BY <1>4, <1>5, <1>6, <1>7, <1>8, <1>9 DEF Shape

-----------------------------------------------------------------------------
(* Every step is made of these moves, and every message it sends is justified. *)

Told == \A y \in net' : (\E x \in net : x.msg = y.msg) \/ Justified(y.msg)'

ByesStay ==
  \A b \in 0..MaxCall : (Used(nict'[b]) <=> Used(nict[b])) /\ (Used(nist'[b]) <=> Used(nist[b]))

LEMMA ToldAfter ==
  ASSUME NEW S, \A y \in net' : y \in net \/ y.msg \in S, \A s \in S : Justified(s)'
  PROVE  Told
BY DEF Told

LEMMA ToldNothing == ASSUME \A y \in net' : y \in net PROVE Told
BY DEF Told

LEMMA ToldBefore ==
  ASSUME TransactionAssumption, Forward, NEW S \in SUBSET Message,
         \A y \in net' : y \in net \/ y.msg \in S, \A s \in S : Justified(s)
  PROVE  Told
<1>1. \A s \in S : Justified(s)'
  BY JustifiedForEver
<1> QED
  BY <1>1, ToldAfter

LEMMA NothingExchanged ==
  ASSUME TransactionAssumption, TypeOK, NEW x \in net, NEW again \in BOOLEAN,
         Exchange(x, again, {})
  PROVE  \A y \in net' : y \in net
BY NetIsOK, ExchangeKeeps, FS_EmptySet

LEMMA SideMoves ==
  ASSUME TransactionAssumption, ByesStay
  PROVE  /\ UNCHANGED <<ist, callee>> /\ CallerMove => Moves
         /\ UNCHANGED <<ict, caller>> /\ (\A k \in Callee : CalleeMove(k)) => Moves
         /\ UNCHANGED <<ict, caller, ist, callee>> => Moves
<1>0. 0 \in 0..MaxCall /\ Callee \subseteq 0..MaxCall
  BY DEF Callee, TransactionAssumption
<1>1. ByeMove
  BY <1>0 DEF ByeMove, ByesStay
<1>2. UNCHANGED <<ict, caller>> => CallerStays
  BY <1>0 DEF CallerStays, ByesStay
<1>3. UNCHANGED <<ist, callee>> => \A k \in Callee : CalleeStays(k)
  BY <1>0 DEF CalleeStays, ByesStay
<1> QED
  BY <1>1, <1>2, <1>3 DEF Moves, CallerMove

(* What the messages say of the two sides.                                     *)
LEMMA JustifiedFacts ==
  ASSUME TransactionAssumption, TypeOK, CallInv, TimerInv, Shape, MessageInv, NEW x \in net
  PROVE  /\ x \in Packet /\ 1 \in Callee /\ 0 \in 0..MaxCall /\ Callee \subseteq 0..MaxCall
         /\ x.msg.m \in {"101", "200", "refuse"} => x.msg.k \in Callee /\ Asked(x.msg.k)
         /\ x.msg.m = "200" => Handed(x.msg.k)
         /\ x.msg.m = "refuse" => Over(1)
         /\ x.msg.m = "ACK" => ~Inviting /\ (Answered \/ Over(1))
         /\ x.msg.m = "ACK refuse" => ~Inviting /\ Over(1)
         /\ x.msg.m = "stray BYE" =>
              ~Inviting /\ (caller.jd = "confirmed" => caller.tag # 1 \/ Over(1))
         /\ x.msg.m = "BYE" => x.msg.k \in 0..MaxCall /\ Used(nict[x.msg.k])
         /\ x.msg.m = "BYE" /\ x.msg.k = 0 => ~Inviting
         /\ x.msg.m = "BYE" /\ x.msg.k # 0 => x.msg.k \in Callee /\ Over(1)
         /\ x.msg.m = "BYE answered" => x.msg.k \in 0..MaxCall
<1>0. x \in Packet /\ 1 \in Callee /\ 0 \in 0..MaxCall /\ Callee \subseteq 0..MaxCall
      /\ \A b \in 0..MaxCall : b # 0 => b \in Callee
  BY DEF Callee, TransactionAssumption, TypeOK, CallTypeOK
<1>1. Justified(x.msg)
  BY DEF MessageInv
<1>2. /\ x.msg.m \in {"101", "200", "refuse"} => x.msg.k \in Callee
      /\ x.msg.m \in {"BYE", "BYE answered"} => x.msg.k \in 0..MaxCall
  BY <1>0, PacketType
<1>3. ict.state = "TERMINATED" => ~Inviting
  BY DEF Inviting
<1>4. ASSUME NEW k \in Callee
      PROVE  (Accepted(k) => Asked(k)) /\ (Over(k) => Asked(k) /\ Over(1))
  <2>1. Accepted(k) => Asked(k)
    BY DEF Accepted, Asked, CallInv, CalleeInv
  <2>2. Over(k) => Asked(k)
    BY DEF Over, Asked
  <2>3. k = 1 \/ 1 < k
    BY DEF Callee
  <2>4. Over(k) => Over(1)
    BY <1>0, <2>2, <2>3 DEF Shape, OrderInv
  <2> QED
    BY <2>1, <2>2, <2>4
<1>5. ASSUME NEW k \in Callee, Used(nict[k]) PROVE Over(1)
  <2>1. callee[k].bye = k /\ k # Off
    BY <1>5 DEF Shape, CalleeShape, Callee, Off
  <2>2. callee[k].jd \notin {"none", "early", "confirmed"}
    BY <2>1 DEF Shape, CalleeShape
  <2>3. Over(k)
    BY <2>2 DEF Over, TypeOK, CallTypeOK, CalleeCall, Dialog
  <2> QED
    BY <1>4, <2>3
<1>6. Used(nict[0]) => ~Inviting
  BY <1>3 DEF Shape, CallerShape
<1>7. /\ x.msg.m \in {"101", "200", "refuse"} => x.msg.k \in Callee /\ Asked(x.msg.k)
      /\ x.msg.m = "200" => Handed(x.msg.k)
      /\ x.msg.m = "refuse" => Over(1)
  BY <1>1, <1>2, <1>4 DEF Justified, Handed
<1>8. /\ x.msg.m = "ACK" => ~Inviting /\ (Answered \/ Over(1))
      /\ x.msg.m = "ACK refuse" => ~Inviting /\ Over(1)
      /\ x.msg.m = "stray BYE" =>
              ~Inviting /\ (caller.jd = "confirmed" => caller.tag # 1 \/ Over(1))
  BY <1>1, <1>3 DEF Justified
<1>9. x.msg.m = "BYE" => /\ x.msg.k \in 0..MaxCall /\ Used(nict[x.msg.k])
                        /\ (x.msg.k = 0 => ~Inviting)
                        /\ (x.msg.k # 0 => x.msg.k \in Callee /\ Over(1))
  BY <1>0, <1>1, <1>2, <1>5, <1>6 DEF Justified
<1> QED
  BY <1>0, <1>2, <1>7, <1>8, <1>9

LEMMA RcvInviteMoves ==
  ASSUME TransactionAssumption, TypeOK, TypeOK', CallInv, CallInv', TimerInv, Shape, MessageInv,
         NEW x \in net, NEW again \in BOOLEAN, RcvInvite(x, again)
  PROVE  Moves /\ Told
<1>0. UNCHANGED <<ict, nict, nist, caller>> /\ ByesStay
  BY DEF RcvInvite, ByesStay
<1>1. CASE \E k \in ActiveIst :
             Exchange(x, again, LastResponse(k)) /\ UNCHANGED <<ist, callee>>
  <2>1. PICK k \in ActiveIst : Exchange(x, again, LastResponse(k)) /\ UNCHANGED <<ist, callee>>
    BY <1>1
  <2>2. LastResponse(k) \in SUBSET Message /\ IsFiniteSet(LastResponse(k)) /\ k \in Callee
    BY MessageType, SomeMessages DEF LastResponse, ActiveIst
  <2>3. Moves /\ Forward
    BY <1>0, <2>1, SideMoves, MovesKeep
  <2>4. \A y \in net' : y \in net \/ y.msg \in LastResponse(k)
    BY <2>1, <2>2, NetIsOK, ExchangeKeeps
  <2>5. CalleeShape(k)
    BY <2>2 DEF Shape
  <2>6. CASE ist[k].state = "PROCEEDING"
    <3>1. LastResponse(k) = {Msg("101", k)} /\ Asked(k)
      BY <2>5, <2>6 DEF LastResponse, CalleeShape, Used
    <3>2. Justified(Msg("101", k))
      BY <3>1 DEF Justified, Msg
    <3>3. \A y \in net' : y \in net \/ y.msg \in {Msg("101", k)}
      BY <2>4, <3>1
    <3>4. {Msg("101", k)} \in SUBSET Message
      BY <2>2, MessageType
    <3> QED
      BY <2>3, <3>2, <3>3, <3>4, ToldBefore
  <2>7. CASE ist[k].state = "COMPLETED"
    <3>1. LastResponse(k) = {Msg("refuse", k)} /\ Over(k)
      BY <2>5, <2>7 DEF LastResponse, CalleeShape
    <3>2. Justified(Msg("refuse", k))
      BY <3>1 DEF Justified, Msg
    <3>3. \A y \in net' : y \in net \/ y.msg \in {Msg("refuse", k)}
      BY <2>4, <3>1
    <3>4. {Msg("refuse", k)} \in SUBSET Message
      BY <2>2, MessageType
    <3> QED
      BY <2>3, <3>2, <3>3, <3>4, ToldBefore
  <2>8. CASE ist[k].state \notin {"PROCEEDING", "COMPLETED"}
    <3>1. LastResponse(k) = {}
      BY <2>8 DEF LastResponse
    <3>2. \A y \in net' : y \in net
      BY <2>4, <3>1
    <3> QED
      BY <2>3, <3>2, ToldNothing
  <2> QED
    BY <2>6, <2>7, <2>8
<1>2. CASE Exchange(x, again, {}) /\ UNCHANGED <<ist, callee>>
  <2>1. \A y \in net' : y \in net
    BY <1>2, NothingExchanged
  <2> QED
    BY <1>0, <1>2, <2>1, SideMoves, ToldNothing
<1>3. CASE /\ ActiveIst = {} /\ Live = {}
           /\ \E k \in NeverAsked :
                /\ \A j \in NeverAsked : k <= j
                /\ NewInvite(k) /\ Exchange(x, again, {Msg("101", k)})
  <2>1. PICK k \in NeverAsked : /\ \A j \in NeverAsked : k <= j
                                /\ NewInvite(k) /\ Exchange(x, again, {Msg("101", k)})
    BY <1>3
  <2>2. k \in Callee /\ callee[k].jd = "none" /\ callee[k] \in CalleeCall
    BY DEF NeverAsked, TypeOK, CallTypeOK
  <2>3. /\ callee' = [callee EXCEPT ![k] = [@ EXCEPT !.jd = "early", !.heard = "asked"]]
        /\ ist' = [ist EXCEPT ![k] = ist_rcv_invite]
    BY <2>1 DEF NewInvite
  <2>4. CalleeRings(k)
    <3>1. /\ callee'[k].jd = "early" /\ callee'[k].heard = "asked"
          /\ callee'[k].bye = callee[k].bye
      BY <2>2, <2>3, CalleeFields DEF TypeOK, CallTypeOK
    <3>2. ist'[k].state = "PROCEEDING"
      BY <2>2, <2>3, StateFacts DEF TypeOK, CallTypeOK
    <3>3. ASSUME NEW j \in Callee, j < k PROVE Over(j)
      <4>1. ~(k <= j)
        BY <2>2, <3>3 DEF Callee
      <4>2. callee[j].jd # "none" /\ ~HasDialog(callee[j])
        BY <1>3, <2>1, <4>1 DEF NeverAsked, Live
      <4> QED
        BY <4>2 DEF Over, HasDialog, TypeOK, CallTypeOK, CalleeCall, Dialog
    <3>4. Used(nict'[k]) <=> Used(nict[k])
      BY <1>0
    <3> QED
      BY <2>2, <3>1, <3>2, <3>3, <3>4 DEF CalleeRings
  <2>5. ASSUME NEW j \in Callee, j # k PROVE CalleeStays(j)
    BY <1>0, <2>3, <2>5 DEF CalleeStays, TypeOK, CallTypeOK
  <2>6. Moves
    BY <1>0, <2>4, <2>5, SideMoves DEF CalleeMove
  <2>7. Justified(Msg("101", k))'
    BY <2>4 DEF Justified, Msg, CalleeRings, Asked
  <2>8. \A y \in net' : y \in net \/ y.msg \in {Msg("101", k)}
    BY <2>1, <2>2, NetIsOK, ExchangeKeeps, MessageType, SomeMessages
  <2> QED
    BY <2>6, <2>7, <2>8, ToldAfter
<1> QED
  BY <1>1, <1>2, <1>3 DEF RcvInvite

LEMMA RcvAckMoves ==
  ASSUME TransactionAssumption, TypeOK, TypeOK', CallInv, CallInv', TimerInv, Shape, MessageInv,
         NEW x \in net, NEW again \in BOOLEAN, RcvAck(x, again)
  PROVE  Moves /\ Told
<1>0. UNCHANGED <<ict, nict, nist, caller>> /\ ByesStay /\ Exchange(x, again, {})
  BY DEF RcvAck, ByesStay
<1>1. Told
  BY <1>0, NothingExchanged, ToldNothing
<1>2. /\ ~Inviting /\ 1 \in Callee /\ Callee \subseteq 0..MaxCall
      /\ x.msg.m = "ACK refuse" => Over(1)
      /\ x.msg.m = "ACK" => Answered \/ Over(1)
      /\ x.msg.m \in {"ACK", "ACK refuse"}
  BY JustifiedFacts DEF RcvAck
<1>3. CASE /\ ist' = [k \in Callee |->
                        IF ist[k].state \in {"COMPLETED", "CONFIRMED"} THEN ist_rcv_ack ELSE ist[k]]
           /\ UNCHANGED callee
  <2>1. ASSUME NEW k \in Callee PROVE CalleeMove(k)
    <3>1. CASE ist[k].state \in {"COMPLETED", "CONFIRMED"}
      <4>1. ist'[k].state = "CONFIRMED"
        BY <1>3, <3>1, StateFacts
      <4> QED
        BY <1>0, <1>2, <1>3, <3>1, <4>1 DEF CalleeMove, CalleeHearsAckOfRefuse
    <3>2. CASE ist[k].state \notin {"COMPLETED", "CONFIRMED"}
      <4>1. ist'[k] = ist[k]
        BY <1>3, <3>2
      <4> QED
        BY <1>0, <1>3, <4>1 DEF CalleeMove, CalleeStays
    <3> QED
      BY <3>1, <3>2
  <2> QED
    BY <1>0, <1>1, <2>1, SideMoves
<1>4. CASE ProcessAck /\ UNCHANGED ist
  <2>1. ASSUME NEW k \in Callee PROVE CalleeMove(k)
    <3>0. callee[k] \in CalleeCall
      BY DEF TypeOK, CallTypeOK
    <3>1. CASE k \in Live
      <4>1. callee'[k] = [callee[k] EXCEPT !.wait = Off, !.count = 0]
        BY <1>4, <3>1 DEF ProcessAck
      <4>2. /\ callee'[k].jd = callee[k].jd /\ callee'[k].heard = callee[k].heard
            /\ callee'[k].bye = callee[k].bye
        BY <3>0, <4>1, CalleeFields
      <4>3. ~Over(k)
        BY <3>1 DEF Live, HasDialog, Over
      <4> QED
        BY <1>0, <1>2, <1>4, <4>2, <4>3 DEF CalleeMove, CalleeHearsAck
    <3>2. CASE k \notin Live
      <4>1. callee'[k] = callee[k]
        BY <1>4, <3>2 DEF ProcessAck
      <4> QED
        BY <1>0, <1>4, <4>1 DEF CalleeMove, CalleeStays
    <3> QED
      BY <3>1, <3>2
  <2> QED
    BY <1>0, <1>1, <2>1, SideMoves
<1> QED
  BY <1>3, <1>4 DEF RcvAck

LEMMA RcvByeOfCallerMoves ==
  ASSUME TransactionAssumption, TypeOK, TypeOK', CallInv, CallInv', TimerInv, Shape, MessageInv,
         NEW x \in net, NEW again \in BOOLEAN, RcvByeOfCaller(x, again)
  PROVE  Moves /\ Told
<1>0. /\ UNCHANGED <<ict, ist, nict, caller>> /\ Exchange(x, again, {Msg("BYE answered", 0)})
      /\ 0 \in 0..MaxCall /\ Callee \subseteq 0..MaxCall /\ 0..MaxCall \subseteq Branch
  BY MessageType DEF RcvByeOfCaller
<1>1. ~Inviting /\ Used(nict[0])
  BY JustifiedFacts DEF RcvByeOfCaller
<1>2. \A y \in net' : y \in net \/ y.msg \in {Msg("BYE answered", 0)}
  BY <1>0, NetIsOK, ExchangeKeeps, MessageType, SomeMessages
<1>3. Used(nist'[0]) => Justified(Msg("BYE answered", 0))'
  BY DEF Justified, Msg
<1>4. Used(nist'[0]) => Told
  BY <1>2, <1>3, ToldAfter
<1>5. CASE Alive(nist[0]) /\ UNCHANGED <<nist, callee>>
  <2>1. Used(nist'[0])
    BY <1>5 DEF Alive, Used
  <2>2. ByesStay
    BY <1>0, <1>5 DEF ByesStay
  <2> QED
    BY <1>0, <1>4, <1>5, <2>1, <2>2, SideMoves
<1>6. CASE /\ nist' = [nist EXCEPT ![0] = nist_snd_23456xx]
           /\ callee' = [k \in Callee |-> IF k \in Live THEN Closed(callee[k], 0) ELSE callee[k]]
  <2>1. Used(nist'[0]) /\ \A b \in 0..MaxCall : b # 0 => nist'[b] = nist[b]
    <3>1. nist'[0] = nist_snd_23456xx /\ \A b \in 0..MaxCall : b # 0 => nist'[b] = nist[b]
      BY <1>0, <1>6 DEF TypeOK, CallTypeOK
    <3> QED
      BY <3>1, StateFacts DEF Used
  <2>2. ASSUME NEW k \in Callee PROVE CalleeMove(k) /\ ~HasDialog(callee'[k])
    <3>0. callee[k] \in CalleeCall
      BY DEF TypeOK, CallTypeOK
    <3>1. CASE k \in Live
      <4>1. callee'[k] = Closed(callee[k], 0)
        BY <1>6, <3>1
      <4>2. /\ callee'[k].jd = "empty" /\ callee'[k].heard = Ended(callee[k].heard)
            /\ callee'[k].bye = 0 /\ callee'[k].wait = callee[k].wait
        BY <3>0, <4>1, CalleeFields
      <4>3. HasDialog(callee[k])
        BY <3>1 DEF Live
      <4>4. CalleeEndsWith(k, 0)
        BY <1>0, <1>1, <2>1, <4>2, <4>3 DEF CalleeEndsWith
      <4> QED
        BY <4>2, <4>4 DEF CalleeMove, HasDialog
    <3>2. CASE k \notin Live
      <4>1. callee'[k] = callee[k]
        BY <1>6, <3>2
      <4> QED
        BY <1>0, <3>2, <4>1 DEF CalleeMove, CalleeStays, Live
    <3> QED
      BY <3>1, <3>2
  <2>3. ByeMove
    BY <1>0, <1>1, <2>1, <2>2 DEF ByeMove
  <2>4. CallerStays
    BY <1>0 DEF CallerStays
  <2>5. Moves
    BY <2>2, <2>3, <2>4 DEF Moves
  <2> QED
    BY <1>4, <2>1, <2>5
<1> QED
  BY <1>5, <1>6 DEF RcvByeOfCaller

LEMMA RcvStrayByeMoves ==
  ASSUME TransactionAssumption, TypeOK, TypeOK', CallInv, CallInv', TimerInv, Shape, MessageInv,
         NEW x \in net, NEW again \in BOOLEAN, RcvStrayBye(x, again)
  PROVE  Moves /\ Told
<1>0. UNCHANGED <<ict, ist, nict, caller>> /\ Exchange(x, again, {})
  BY DEF RcvStrayBye
<1>1. /\ ~Inviting /\ 1 \in Callee /\ Callee \subseteq 0..MaxCall
      /\ caller.jd = "confirmed" => caller.tag # 1 \/ Over(1)
  BY JustifiedFacts DEF RcvStrayBye
<1>2. Told
  BY <1>0, NothingExchanged, ToldNothing
<1>3. ByesStay
  <2>1. ASSUME NEW b \in 0..MaxCall PROVE nist'[b] = nist[b]
    <3>1. b \in Branch /\ ~ \E k \in Live : b = Own(k)
      <4>1. b \in Branch
        BY MessageType
      <4>2. \A k \in Callee : b # Own(k)
        BY DEF Own, Callee, TransactionAssumption
      <4> QED
        BY <4>1, <4>2 DEF Live
    <3>2. nist' = [c \in Branch |-> IF \E k \in Live : c = Own(k) THEN nist_snd_23456xx ELSE nist[c]]
      BY DEF RcvStrayBye
    <3> QED
      BY <3>1, <3>2
  <2> QED
    BY <1>0, <2>1 DEF ByesStay
<1>4. ASSUME NEW k \in Callee PROVE CalleeMove(k)
  <2>0. callee[k] \in CalleeCall
    BY DEF TypeOK, CallTypeOK
  <2>1. CASE k \in Live
    <3>1. callee'[k] = Closed(callee[k], Own(k))
      BY <2>1 DEF RcvStrayBye
    <3>2. /\ callee'[k].jd = "empty" /\ callee'[k].heard = Ended(callee[k].heard)
          /\ callee'[k].bye = Own(k) /\ callee'[k].wait = callee[k].wait
      BY <2>0, <3>1, CalleeFields
    <3>3. HasDialog(callee[k]) /\ ~Over(k)
      BY <2>1 DEF Live, HasDialog, Over
    <3>4. CalleeEndsWith(k, Own(k))
      BY <1>0, <1>1, <3>2, <3>3 DEF CalleeEndsWith
    <3> QED
      BY <3>4 DEF CalleeMove
  <2>2. CASE k \notin Live
    <3>1. callee'[k] = callee[k]
      BY <2>2 DEF RcvStrayBye
    <3> QED
      BY <1>0, <3>1 DEF CalleeMove, CalleeStays
  <2> QED
    BY <2>1, <2>2
<1> QED
  BY <1>0, <1>2, <1>3, <1>4, SideMoves

(* Whatever the stack sends without a transaction, its caller was answered or  *)
(* the first call is over.                                                     *)
LEMMA OutOfTransactionTold ==
  ASSUME TransactionAssumption, TypeOK, CallInv, TimerInv, Shape,
         NEW k \in Callee, Asked(k), ~Inviting, ~Alive(ict)
  PROVE  \A s \in OutOfTransaction(k) : Justified(s)
<1>0. 1 \in Callee /\ (k = 1 \/ 1 < k)
  BY DEF Callee, TransactionAssumption
<1>1. ict.state = "TERMINATED"
  BY DEF Alive, TimerInv, IctTimers
<1>2. HasDialog(caller) => caller.jd = "confirmed" /\ Answered
  BY <1>1 DEF HasDialog, Shape, CallerShape, CallInv, CallerInv, Answered
<1>3. caller.ack # Off \/ HasDialog(caller) \/ caller.jd = "empty" => Answered \/ Over(1)
  BY <1>2 DEF Shape, CallerShape
<1>4. k # 1 => Over(1)
  BY <1>0 DEF Shape, OrderInv
<1>5. caller.ack # Off \/ HasDialog(caller) \/ caller.jd = "empty" => Justified(Msg("ACK", 0))
  BY <1>1, <1>3 DEF Justified, Msg
<1>6. ~(HasDialog(caller) /\ caller.tag = k) => Justified(Msg("stray BYE", 0))
  BY <1>1, <1>2, <1>4 DEF Justified, Msg, HasDialog
<1>7. CASE HasDialog(caller) /\ caller.tag = k
  BY <1>5, <1>7 DEF OutOfTransaction
<1>8. CASE ~(HasDialog(caller) /\ caller.tag = k)
  <2>1. \/ OutOfTransaction(k) = {}
        \/ /\ HasDialog(caller) \/ caller.jd = "empty"
           /\ OutOfTransaction(k) = {Msg("ACK", 0), Msg("stray BYE", 0)}
    BY <1>8, Zenon DEF OutOfTransaction
  <2> QED
    BY <1>5, <1>6, <1>8, <2>1
<1> QED
  BY <1>7, <1>8

(* A repeated answer moves nothing.                                            *)
LEMMA RepeatedAnswerMoves ==
  ASSUME TransactionAssumption, TypeOK, TypeOK', CallInv, CallInv', TimerInv, Shape, MessageInv,
         NEW x \in net, NEW again \in BOOLEAN, x.msg.m \in {"101", "200"}, ~Inviting,
         UNCHANGED <<ict, ist, nict, nist, caller, callee>>,
         Exchange(x, again, IF Alive(ict) THEN {} ELSE OutOfTransaction(x.msg.k))
  PROVE  Moves /\ Told
<1>0. x.msg.k \in Callee /\ Asked(x.msg.k)
  BY JustifiedFacts
<1>1. ByesStay
  BY DEF ByesStay
<1>2. Moves /\ Forward
  BY <1>1, SideMoves, MovesKeep
<1>3. CASE Alive(ict)
  BY <1>2, <1>3, NothingExchanged, ToldNothing
<1>4. CASE ~Alive(ict)
  <2>1. OutOfTransaction(x.msg.k) \in SUBSET Message /\ IsFiniteSet(OutOfTransaction(x.msg.k))
    BY OutOfTransactionType
  <2>2. \A y \in net' : y \in net \/ y.msg \in OutOfTransaction(x.msg.k)
    BY <1>4, <2>1, NetIsOK, ExchangeKeeps
  <2>3. \A s \in OutOfTransaction(x.msg.k) : Justified(s)
    BY <1>0, <1>4, OutOfTransactionTold
  <2>4. Told
    BY <1>2, <2>1, <2>2, <2>3, ToldBefore
  <2> QED
    BY <1>2, <2>4
<1> QED
  BY <1>3, <1>4

LEMMA Rcv1xxMoves ==
  ASSUME TransactionAssumption, TypeOK, TypeOK', CallInv, CallInv', TimerInv, Shape, MessageInv,
         NEW x \in net, NEW again \in BOOLEAN, Rcv1xx(x, again)
  PROVE  Moves /\ Told
<1>0. UNCHANGED <<ist, nict, nist, callee>> /\ x.msg.m = "101" /\ ByesStay /\ caller \in CallerCall
      /\ 0 \in 0..MaxCall
  BY JustifiedFacts DEF Rcv1xx, ByesStay, TypeOK, CallTypeOK
<1>1. CASE /\ Inviting /\ ict' = ict_rcv_1xx
           /\ caller' = IF caller.jd = "empty" THEN [caller EXCEPT !.age = 0]
                        ELSE [caller EXCEPT !.jd = "early", !.tag = x.msg.k, !.age = 0]
           /\ Exchange(x, again, {})
  <2>1. ict'.state = "PROCEEDING"
    BY <1>1, StateFacts
  <2>2. /\ caller'.heard = caller.heard /\ caller'.bye = caller.bye /\ caller'.ack = caller.ack
        /\ caller'.jd = IF caller.jd = "empty" THEN "empty" ELSE "early"
    BY <1>0, <1>1, CallerFields
  <2>3. CallerRings
    BY <1>0, <1>1, <2>1, <2>2 DEF CallerRings
  <2>4. Told
    BY <1>1, NothingExchanged, ToldNothing
  <2> QED
    BY <1>0, <2>3, <2>4, SideMoves DEF CallerMove
<1>2. CASE /\ ~Inviting /\ UNCHANGED <<ict, caller>>
           /\ Exchange(x, again, IF Alive(ict) THEN {} ELSE OutOfTransaction(x.msg.k))
  BY <1>0, <1>2, RepeatedAnswerMoves
<1> QED
  BY <1>1, <1>2 DEF Rcv1xx

LEMMA Rcv2xxMoves ==
  ASSUME TransactionAssumption, TypeOK, TypeOK', CallInv, CallInv', TimerInv, Shape, MessageInv,
         NEW x \in net, NEW again \in BOOLEAN, Rcv2xx(x, again)
  PROVE  Moves /\ Told
<1>0. UNCHANGED <<ist, nict, nist, callee>> /\ x.msg.m = "200" /\ ByesStay /\ caller \in CallerCall
      /\ 0 \in 0..MaxCall /\ x.msg.k \in Callee /\ Handed(x.msg.k)
  BY JustifiedFacts DEF Rcv2xx, ByesStay, TypeOK, CallTypeOK
<1>1. CASE /\ Inviting /\ ict' = Terminated
           /\ caller' = IF caller.jd = "empty" THEN caller
                        ELSE [caller EXCEPT !.jd = "confirmed", !.tag = x.msg.k,
                                            !.heard = "up", !.age = 0]
           /\ Exchange(x, again, {})
  <2>1. ict'.state = "TERMINATED"
    BY <1>1, StateFacts
  <2>2. /\ caller'.bye = caller.bye /\ caller'.ack = caller.ack
        /\ IF caller.jd = "empty"
             THEN caller'.jd = "empty" /\ caller'.heard = caller.heard /\ caller'.tag = caller.tag
             ELSE caller'.jd = "confirmed" /\ caller'.heard = "up" /\ caller'.tag = x.msg.k
    BY <1>0, <1>1, CallerFields
  <2>3. CallerAnswered(x.msg.k)
    BY <1>0, <1>1, <2>1, <2>2 DEF CallerAnswered
  <2>4. Told
    BY <1>1, NothingExchanged, ToldNothing
  <2> QED
    BY <1>0, <2>3, <2>4, SideMoves DEF CallerMove
<1>2. CASE /\ ~Inviting /\ UNCHANGED <<ict, caller>>
           /\ Exchange(x, again, IF Alive(ict) THEN {} ELSE OutOfTransaction(x.msg.k))
  BY <1>0, <1>2, RepeatedAnswerMoves
<1> QED
  BY <1>1, <1>2 DEF Rcv2xx

LEMMA RcvRefuseMoves ==
  ASSUME TransactionAssumption, TypeOK, TypeOK', CallInv, CallInv', TimerInv, Shape, MessageInv,
         NEW x \in net, NEW again \in BOOLEAN, RcvRefuse(x, again)
  PROVE  Moves /\ Told
<1>0. UNCHANGED <<ist, nict, nist, callee>> /\ ByesStay /\ caller \in CallerCall
      /\ 0 \in 0..MaxCall /\ Over(1) /\ 1 \in Callee
      /\ Exchange(x, again, IF Alive(ict) THEN {Msg("ACK refuse", 0)} ELSE {})
  BY JustifiedFacts DEF RcvRefuse, ByesStay, TypeOK, CallTypeOK
<1>1. \A y \in net' : y \in net \/ y.msg \in {Msg("ACK refuse", 0)}
  <2>1. CASE Alive(ict)
    BY <1>0, <2>1, NetIsOK, ExchangeKeeps, MessageType, SomeMessages
  <2>2. CASE ~Alive(ict)
    BY <1>0, <2>2, NothingExchanged
  <2> QED
    BY <2>1, <2>2
<1>2. Moves /\ ~Inviting'
  <2>1. CASE Inviting
    <3>1. /\ ict' = ict_rcv_3456xx
          /\ caller' = [caller EXCEPT !.jd = IF caller.jd = "none" THEN caller.jd ELSE "empty",
                                      !.heard = Ended(caller.heard)]
      BY <1>0, <2>1 DEF RcvRefuse
    <3>2. ict'.state = "COMPLETED"
      BY <3>1, StateFacts
    <3>3. /\ caller'.bye = caller.bye /\ caller'.ack = caller.ack /\ caller'.tag = caller.tag
          /\ caller'.heard = Ended(caller.heard)
          /\ caller'.jd = IF caller.jd = "none" THEN "none" ELSE "empty"
      <4> DEFINE j == IF caller.jd = "none" THEN caller.jd ELSE "empty"
                 h == Ended(caller.heard)
                 d == [caller EXCEPT !.jd = j, !.heard = h]
      <4>1. /\ d.jd = j /\ d.heard = h /\ d.bye = caller.bye
            /\ d.tag = caller.tag /\ d.ack = caller.ack
        <5> HIDE DEF j, h
        <5> QED
          BY <1>0 DEF CallerCall
      <4>2. caller' = d
        BY <3>1
      <4> HIDE DEF d
      <4> QED
        BY <4>1, <4>2
    <3>4. CallerRefused
      BY <1>0, <2>1, <3>2, <3>3 DEF CallerRefused
    <3> QED
      BY <1>0, <3>2, <3>4, SideMoves DEF CallerMove, Inviting
  <2>2. CASE ~Inviting
    <3>1. UNCHANGED <<ict, caller>>
      BY <2>2 DEF RcvRefuse
    <3> QED
      BY <1>0, <2>2, <3>1, SideMoves DEF Inviting
  <2> QED
    BY <2>1, <2>2
<1>3. Over(1)'
  BY <1>0 DEF Over
<1>4. Justified(Msg("ACK refuse", 0))'
  BY <1>2, <1>3 DEF Justified, Msg
<1> QED
  BY <1>1, <1>2, <1>4, ToldAfter

LEMMA ClosedCaller ==
  ASSUME NEW c \in CallerCall, NEW b
  PROVE  /\ Closed(c, b).jd = "empty" /\ Closed(c, b).heard = Ended(c.heard)
         /\ Closed(c, b).bye = b /\ Closed(c, b).tag = c.tag /\ Closed(c, b).ack = c.ack
BY DEF CallerCall, Closed

LEMMA RcvByeOfCalleeMoves ==
  ASSUME TransactionAssumption, TypeOK, TypeOK', CallInv, CallInv', TimerInv, Shape, MessageInv,
         NEW x \in net, NEW again \in BOOLEAN, RcvByeOfCallee(x, again)
  PROVE  Moves /\ Told
<1> DEFINE k == x.msg.k
<1>0. /\ UNCHANGED <<ict, ist, nict, callee>> /\ Exchange(x, again, {Msg("BYE answered", k)})
      /\ k \in Callee /\ k # 0 /\ k \in 0..MaxCall /\ k \in Branch /\ Over(1) /\ Used(nict[k])
      /\ 0 \in 0..MaxCall /\ Callee \subseteq 0..MaxCall /\ caller \in CallerCall
      /\ 0..MaxCall \subseteq Branch
  BY JustifiedFacts, MessageType DEF RcvByeOfCallee, TypeOK, CallTypeOK
<1> HIDE DEF k
<1>1. \A y \in net' : y \in net \/ y.msg \in {Msg("BYE answered", k)}
  BY <1>0, NetIsOK, ExchangeKeeps, MessageType, SomeMessages
<1>2. Used(nist'[k]) => Justified(Msg("BYE answered", k))'
  BY DEF Justified, Msg
<1>3. Used(nist'[k]) => Told
  BY <1>1, <1>2, ToldAfter
<1>4. CASE Alive(nist[k]) /\ UNCHANGED <<nist, caller>>
  <2>1. Used(nist'[k])
    BY <1>4 DEF Alive, Used
  <2>2. ByesStay
    BY <1>0, <1>4 DEF ByesStay
  <2> QED
    BY <1>0, <1>3, <1>4, <2>1, <2>2, SideMoves
<1>5. CASE /\ nist' = [nist EXCEPT ![k] = nist_snd_23456xx]
           /\ caller' = IF HasDialog(caller) /\ caller.tag = k THEN Closed(caller, k) ELSE caller
  <2>1. Used(nist'[k]) /\ \A b \in 0..MaxCall : b # k => nist'[b] = nist[b]
    <3>1. nist'[k] = nist_snd_23456xx /\ \A b \in 0..MaxCall : b # k => nist'[b] = nist[b]
      BY <1>0, <1>5 DEF TypeOK, CallTypeOK
    <3> QED
      BY <3>1, StateFacts DEF Used
  <2>2. ByeMove
    BY <1>0, <2>1 DEF ByeMove
  <2>3. CallerMove
    <3>1. CASE HasDialog(caller) /\ caller.tag = k
      <4>1. caller' = Closed(caller, k)
        BY <1>5, <3>1
      <4>2. /\ caller'.jd = "empty" /\ caller'.heard = Ended(caller.heard) /\ caller'.bye = k
            /\ caller'.ack = caller.ack /\ caller'.tag = caller.tag
        BY <1>0, <4>1, ClosedCaller
      <4>3. CallerEndsWith(k)
        BY <1>0, <3>1, <4>2 DEF CallerEndsWith
      <4> QED
        BY <1>0, <4>3 DEF CallerMove
    <3>2. CASE ~(HasDialog(caller) /\ caller.tag = k)
      <4>1. caller' = caller
        BY <1>5, <3>2
      <4> QED
        BY <1>0, <4>1 DEF CallerMove, CallerStays
    <3> QED
      BY <3>1, <3>2
  <2>4. \A j \in Callee : CalleeStays(j)
    BY <1>0 DEF CalleeStays
  <2> QED
    BY <1>3, <2>1, <2>2, <2>3, <2>4 DEF Moves
<1> QED
  BY <1>4, <1>5 DEF RcvByeOfCallee, k

LEMMA RcvByeAnsweredMoves ==
  ASSUME TransactionAssumption, TypeOK, TypeOK', CallInv, CallInv', TimerInv, Shape, MessageInv,
         NEW x \in net, NEW again \in BOOLEAN, RcvByeAnswered(x, again)
  PROVE  Moves /\ Told
<1>0. /\ UNCHANGED <<ict, ist, nist, caller, callee>> /\ Exchange(x, again, {})
      /\ x.msg.k \in 0..MaxCall
      /\ \/ nict' = nict
         \/ nict[x.msg.k].state = "TRYING" /\ nict' = [nict EXCEPT ![x.msg.k] = nict_rcv_23456xx]
  BY JustifiedFacts DEF RcvByeAnswered
<1>1. ByesStay
  <2>1. ASSUME NEW b \in 0..MaxCall PROVE Used(nict'[b]) <=> Used(nict[b])
    <3>1. nict'[b] = nict[b] \/ (nict[b].state = "TRYING" /\ nict'[b] = nict_rcv_23456xx)
      BY <1>0 DEF TypeOK, CallTypeOK
    <3> QED
      BY <3>1, StateFacts DEF Used
  <2> QED
    BY <1>0, <2>1 DEF ByesStay
<1> QED
  BY <1>0, <1>1, SideMoves, NothingExchanged, ToldNothing

(* One call of the callee moves.                                               *)
LEMMA OneCallMoves ==
  ASSUME TransactionAssumption, TypeOK, ByesStay, NEW k \in Callee, CalleeMove(k),
         UNCHANGED <<ict, caller>>,
         \A j \in Callee : j # k => callee'[j] = callee[j] /\ ist'[j] = ist[j]
  PROVE  Moves
<1>0. Callee \subseteq 0..MaxCall
  BY MessageType
<1>1. ASSUME NEW j \in Callee PROVE CalleeMove(j)
  BY <1>0, <1>1 DEF CalleeMove, CalleeStays, ByesStay
<1> QED
  BY <1>1, SideMoves

LEMMA AcceptMoves ==
  ASSUME TransactionAssumption, TypeOK, CallInv, Shape, NEW k \in Callee, Accept(k)
  PROVE  Moves /\ Told
<1> DEFINE d == [callee[k] EXCEPT !.jd = "confirmed", !.heard = "up", !.age = 0, !.wait = Gap[1]]
<1>0. /\ callee[k] \in CalleeCall /\ callee \in [Callee -> CalleeCall]
      /\ ist \in [Callee -> Transactions(InviteState)] /\ Callee \subseteq 0..MaxCall
      /\ 0..MaxCall \subseteq Branch
  BY MessageType DEF TypeOK, CallTypeOK
<1>1. callee' = [callee EXCEPT ![k] = d] /\ ist' = ist
  BY DEF Accept
<1>2. d.jd = "confirmed" /\ d.heard = "up" /\ d.bye = callee[k].bye /\ d.wait = Gap[1]
  BY <1>0 DEF CalleeCall
<1> HIDE DEF d
<1>3. /\ callee'[k] = d /\ ist'[k] = ist[k]
      /\ \A j \in Callee : j # k => callee'[j] = callee[j] /\ ist'[j] = ist[j]
  BY <1>0, <1>1
<1>4. callee[k].jd = "early"
  BY DEF Accept, CallInv, CalleeInv
<1>5. UNCHANGED <<ict, nict, nist, caller>> /\ ByesStay /\ Send({})
  BY DEF Accept, ByesStay
<1>6. Gap[1] # Off
  BY DEF TransactionAssumption, Off
<1>7. CalleeAccepts(k)
  BY <1>0, <1>2, <1>3, <1>4, <1>5, <1>6 DEF CalleeAccepts
<1>8. Moves
  BY <1>3, <1>5, <1>7, OneCallMoves DEF CalleeMove
<1> QED
  BY <1>5, <1>8, ToldNothing DEF Send, Fresh

(* A call is refused, by the program or by a CANCEL.                           *)
LEMMA RefusedMoves ==
  ASSUME TransactionAssumption, TypeOK, CallInv, NEW k \in Callee, Refused(k),
         ist[k].state = "PROCEEDING", callee[k].heard \in {"asked", "off"},
         UNCHANGED <<ict, nict, nist, caller>>
  PROVE  Moves /\ Justified(Msg("refuse", k))'
<1> DEFINE d == [callee[k] EXCEPT !.jd = "empty", !.heard = "off"]
<1>0. /\ callee[k] \in CalleeCall /\ callee \in [Callee -> CalleeCall]
      /\ ist \in [Callee -> Transactions(InviteState)] /\ Callee \subseteq 0..MaxCall
      /\ 0..MaxCall \subseteq Branch
  BY MessageType DEF TypeOK, CallTypeOK
<1>1. callee' = [callee EXCEPT ![k] = d] /\ ist' = [ist EXCEPT ![k] = ist_snd_3456xx]
  BY DEF Refused
<1>2. d.jd = "empty" /\ d.heard = "off" /\ d.bye = callee[k].bye
  BY <1>0 DEF CalleeCall
<1> HIDE DEF d
<1>3. /\ callee'[k] = d /\ ist'[k] = ist_snd_3456xx
      /\ \A j \in Callee : j # k => callee'[j] = callee[j] /\ ist'[j] = ist[j]
  BY <1>0, <1>1
<1>4. ByesStay
  BY DEF ByesStay
<1>5. CalleeRefuses(k)
  BY <1>0, <1>2, <1>3, StateFacts DEF CalleeRefuses
<1>6. Moves
  BY <1>3, <1>4, <1>5, OneCallMoves DEF CalleeMove
<1>7. Justified(Msg("refuse", k))'
  BY <1>2, <1>3 DEF Justified, Msg, Over
<1> QED
  BY <1>6, <1>7

LEMMA RefuseMoves ==
  ASSUME TransactionAssumption, TypeOK, CallInv, Shape, NEW k \in Callee, Refuse(k)
  PROVE  Moves /\ Told
<1>1. Moves /\ Justified(Msg("refuse", k))'
  BY RefusedMoves DEF Refuse
<1>2. \A y \in net' : y \in net \/ y.msg \in {Msg("refuse", k)}
  BY NetIsOK, SendKeeps, MessageType, SomeMessages DEF Refuse
<1> QED
  BY <1>1, <1>2, ToldAfter

(* A queued 200 OK is sent.                                                    *)
LEMMA Send200Moves ==
  ASSUME TransactionAssumption, TypeOK, CallInv, NEW k \in Callee, Send200(k)
  PROVE  Moves /\ Told
<1>0. ist \in [Callee -> Transactions(InviteState)]
  BY DEF TypeOK, CallTypeOK
<1>1. /\ ist'[k] = Terminated /\ \A j \in Callee : j # k => ist'[j] = ist[j]
      /\ UNCHANGED <<ict, nict, nist, caller, callee>> /\ Accepted(k)
  BY <1>0 DEF Send200, Queued, Accepted
<1>2. CalleeAnswers(k) /\ ByesStay
  BY <1>1, StateFacts DEF CalleeAnswers, ByesStay
<1>3. Moves
  BY <1>1, <1>2, OneCallMoves DEF CalleeMove
<1>4. \A y \in net' : y \in net \/ y.msg \in {Msg("200", k)}
  BY NetIsOK, SendKeeps, MessageType, SomeMessages DEF Send200
<1>5. Justified(Msg("200", k))'
  BY <1>1, StateFacts DEF Justified, Msg, Handed, Accepted
<1> QED
  BY <1>3, <1>4, <1>5, ToldAfter

(* The CANCEL itself concerns nobody; at the callee it is a refusal.           *)
LEMMA CancelMessages ==
  /\ Justified(Msg("CANCEL", 0)) /\ Justified(Msg("CANCEL answered", 0))
  /\ Justified(Msg("CANCEL", 0))' /\ Justified(Msg("CANCEL answered", 0))'
BY DEF Justified, Msg

LEMMA RcvCancelMoves ==
  ASSUME TransactionAssumption, TypeOK, CallInv, NEW x \in net, NEW again \in BOOLEAN,
         RcvCancel(x, again)
  PROVE  Moves /\ Told
<1>0. UNCHANGED <<ict, nict, nist, caller>> /\ ByesStay
  BY DEF RcvCancel, ByesStay
<1>1. CASE Exchange(x, again, {Msg("CANCEL answered", 0)}) /\ UNCHANGED <<ist, callee>>
  <2>1. \A y \in net' : y \in net \/ y.msg \in {Msg("CANCEL answered", 0)}
    BY <1>1, NetIsOK, ExchangeKeeps, MessageType, SomeMessages
  <2>2. Told
    BY <2>1, CancelMessages, ToldAfter
  <2> QED
    BY <1>0, <1>1, <2>2, SideMoves
<1>2. ASSUME NEW k \in Callee, Unanswered(k), Refused(k),
             Exchange(x, again, {Msg("CANCEL answered", 0), Msg("refuse", k)})
      PROVE  Moves /\ Told
  <2>1. Moves /\ Justified(Msg("refuse", k))'
    BY <1>0, <1>2, RefusedMoves DEF Unanswered
  <2>2. \A y \in net' : y \in net \/ y.msg \in {Msg("CANCEL answered", 0), Msg("refuse", k)}
    BY <1>2, NetIsOK, ExchangeKeeps, MessageType, SomeMessages
  <2>3. Told
    BY <2>1, <2>2, CancelMessages, ToldAfter
  <2> QED
    BY <2>1, <2>3
<1> QED
  BY <1>1, <1>2 DEF RcvCancel

LEMMA CancelMoves ==
  ASSUME TransactionAssumption, TypeOK,
         \/ CallerCancels \/ TimeoutCancel
         \/ \E x \in net, again \in BOOLEAN : RcvCancelAnswered(x, again)
  PROVE  Moves /\ Told
<1>1. UNCHANGED <<ict, ist, nict, nist, caller, callee>>
  BY DEF CallerCancels, TimeoutCancel, RcvCancelAnswered
<1>2. Moves
  BY <1>1, SideMoves DEF ByesStay
<1>3. Send({Msg("CANCEL", 0)}) => Told
  <2>1. Send({Msg("CANCEL", 0)}) => \A y \in net' : y \in net \/ y.msg \in {Msg("CANCEL", 0)}
    BY NetIsOK, SendKeeps, MessageType, SomeMessages
  <2> QED
    BY <2>1, CancelMessages, ToldAfter
<1>4. Send({}) => Told
  BY ToldNothing DEF Send, Fresh
<1>5. \A x \in net, again \in BOOLEAN : RcvCancelAnswered(x, again) => Told
  BY NothingExchanged, ToldNothing DEF RcvCancelAnswered
<1> QED
  BY <1>2, <1>3, <1>4, <1>5 DEF CallerCancels, TimeoutCancel

LEMMA SendAckMoves ==
  ASSUME TransactionAssumption, TypeOK, TypeOK', CallInv, CallInv', TimerInv, Shape, SendAck
  PROVE  Moves /\ Told
<1>0. caller \in CallerCall /\ 0 \in 0..MaxCall /\ UNCHANGED <<ict, ist, nict, nist, callee>>
      /\ ByesStay /\ Send({Msg("ACK", 0)}) /\ caller.jd = "confirmed"
      /\ caller' = [caller EXCEPT !.ack = 0]
  BY MessageType DEF TypeOK, CallTypeOK, SendAck, ByesStay
<1>1. /\ caller'.jd = caller.jd /\ caller'.heard = caller.heard /\ caller'.bye = caller.bye
      /\ caller'.tag = caller.tag
  BY <1>0 DEF CallerCall
<1>2. CallerAcks
  BY <1>0, <1>1 DEF CallerAcks
<1>3. Moves /\ Forward
  BY <1>0, <1>2, SideMoves, MovesKeep DEF CallerMove
<1>4. Answered /\ ict.state = "TERMINATED"
  BY <1>0 DEF CallInv, CallerInv, Answered, Shape, CallerShape
<1>5. Justified(Msg("ACK", 0))
  BY <1>4 DEF Justified, Msg
<1>6. \A y \in net' : y \in net \/ y.msg \in {Msg("ACK", 0)}
  BY <1>0, NetIsOK, SendKeeps, MessageType, SomeMessages
<1>7. {Msg("ACK", 0)} \in SUBSET Message
  BY MessageType
<1> QED
  BY <1>3, <1>5, <1>6, <1>7, ToldBefore

LEMMA CallerHangsUpMoves ==
  ASSUME TransactionAssumption, TypeOK, CallInv, Shape, CallerHangsUp
  PROVE  Moves /\ Told
<1>0. caller \in CallerCall /\ 0 \in 0..MaxCall /\ UNCHANGED <<ict, ist, nist, callee>>
      /\ Send({Msg("BYE", 0)}) /\ caller.jd = "confirmed" /\ caller' = Closed(caller, 0)
      /\ Callee \subseteq 0..MaxCall
  BY MessageType DEF TypeOK, CallTypeOK, CallerHangsUp
<1>1. /\ caller'.jd = "empty" /\ caller'.heard = Ended(caller.heard) /\ caller'.bye = 0
      /\ caller'.ack = caller.ack /\ caller'.tag = caller.tag
  BY <1>0, ClosedCaller
<1>2. Used(nict'[0]) /\ \A b \in 0..MaxCall : b # 0 => nict'[b] = nict[b]
  <2>1. nict'[0] = nict_snd_request /\ \A b \in 0..MaxCall : b # 0 => nict'[b] = nict[b]
    BY <1>0 DEF CallerHangsUp, TypeOK, CallTypeOK
  <2> QED
    BY <2>1, StateFacts DEF Used
<1>3. CallerEndsWith(0)
  BY <1>0, <1>1, <1>2 DEF CallerEndsWith, HasDialog
<1>4. ByeMove
  BY <1>0, <1>2 DEF ByeMove
<1>5. \A k \in Callee : CalleeStays(k)
  BY <1>0, <1>2 DEF CalleeStays, Callee
<1>6. Moves
  BY <1>0, <1>3, <1>4, <1>5 DEF Moves, CallerMove
<1>7. \A y \in net' : y \in net \/ y.msg \in {Msg("BYE", 0)}
  BY <1>0, NetIsOK, SendKeeps, MessageType, SomeMessages
<1>8. Justified(Msg("BYE", 0))'
  BY <1>2 DEF Justified, Msg
<1> QED
  BY <1>6, <1>7, <1>8, ToldAfter

LEMMA TerminateMoves ==
  ASSUME TransactionAssumption, TypeOK, NEW k \in Callee, callee[k].jd = "confirmed", Terminate(k)
  PROVE  Moves /\ Told
<1> DEFINE d == Closed(callee[k], k)
<1>0. /\ callee[k] \in CalleeCall /\ callee \in [Callee -> CalleeCall]
      /\ nict \in [0..MaxCall -> Transactions(OtherState)] /\ Callee \subseteq 0..MaxCall
      /\ 0 \notin Callee /\ k \in 0..MaxCall /\ 0 \in 0..MaxCall
  <2>1. Callee \subseteq 0..MaxCall /\ 0 \in 0..MaxCall /\ 0 \notin Callee
    BY DEF Callee, TransactionAssumption
  <2> QED
    BY <2>1 DEF TypeOK, CallTypeOK
<1>1. callee' = [callee EXCEPT ![k] = d] /\ nict' = [nict EXCEPT ![k] = nict_snd_request]
      /\ UNCHANGED <<ict, ist, nist, caller>> /\ Send({Msg("BYE", k)})
  <2>1. callee' = [callee EXCEPT ![k] = Closed(callee[k], k)]
    BY DEF Terminate
  <2> QED
    BY <2>1 DEF Terminate
<1>2. /\ d.jd = "empty" /\ d.heard = Ended(callee[k].heard) /\ d.bye = k
      /\ d.wait = callee[k].wait
  BY <1>0 DEF CalleeCall, Closed
<1> HIDE DEF d
<1>3. /\ callee'[k] = d /\ \A j \in Callee : j # k => callee'[j] = callee[j]
      /\ Used(nict'[k]) /\ \A b \in 0..MaxCall : b # k => nict'[b] = nict[b]
  <2>1. nict'[k] = nict_snd_request
    BY <1>0, <1>1
  <2> QED
    BY <1>0, <1>1, <2>1, StateFacts DEF Used
<1>4. CalleeEndsWith(k, k)
  BY <1>0, <1>1, <1>2, <1>3 DEF CalleeEndsWith, HasDialog
<1>5. ASSUME NEW j \in Callee PROVE CalleeMove(j)
  <2>1. j # k => CalleeStays(j)
    BY <1>0, <1>1, <1>3 DEF CalleeStays
  <2> QED
    BY <1>4, <2>1 DEF CalleeMove
<1>6. ByeMove
  BY <1>0, <1>1, <1>3 DEF ByeMove
<1>7. CallerStays
  BY <1>0, <1>1, <1>3 DEF CallerStays
<1>8. Moves
  BY <1>5, <1>6, <1>7 DEF Moves
<1>9. \A y \in net' : y \in net \/ y.msg \in {Msg("BYE", k)}
  BY <1>0, <1>1, NetIsOK, SendKeeps, MessageType, SomeMessages
<1>10. Justified(Msg("BYE", k))'
  BY <1>3 DEF Justified, Msg
<1> QED
  BY <1>8, <1>9, <1>10, ToldAfter

LEMMA Resend200Moves ==
  ASSUME TransactionAssumption, TypeOK, TypeOK', CallInv, CallInv', TimerInv, Shape,
         NEW k \in Callee, Resend200(k)
  PROVE  Moves /\ Told
<1> DEFINE n == callee[k].count + 1
           w == IF n < Len(Gap) THEN Gap[n + 1] ELSE 0
           d == [callee[k] EXCEPT !.count = n, !.wait = w]
<1>0. /\ callee[k] \in CalleeCall /\ callee \in [Callee -> CalleeCall]
      /\ Callee \subseteq 0..MaxCall /\ 0..MaxCall \subseteq Branch
      /\ callee[k].count \in 0..Len(Gap)
  BY MessageType DEF TypeOK, CallTypeOK, CalleeCall
<1>1. /\ callee' = [callee EXCEPT ![k] = d] /\ UNCHANGED <<ict, ist, nict, nist, caller>>
      /\ Send({Msg("200", k)}) /\ Awaited(k) /\ ByesStay
  BY DEF Resend200, ByesStay
<1>2. w # Off
  <2>1. n < Len(Gap) => Gap[n + 1] \in Nat
    BY <1>0 DEF TransactionAssumption
  <2> QED
    BY <2>1 DEF Off
<1>3. d.jd = callee[k].jd /\ d.heard = callee[k].heard /\ d.bye = callee[k].bye /\ d.wait = w
  <2> HIDE DEF n, w
  <2> QED
    BY <1>0 DEF CalleeCall
<1> HIDE DEF d, w, n
<1>4. callee'[k] = d /\ \A j \in Callee : j # k => callee'[j] = callee[j] /\ ist'[j] = ist[j]
  BY <1>0, <1>1
<1>5. CalleeStays(k)
  BY <1>0, <1>1, <1>2, <1>3, <1>4 DEF CalleeStays, Awaited
<1>6. Moves /\ Forward
  BY <1>1, <1>4, <1>5, OneCallMoves, MovesKeep DEF CalleeMove
<1>7. callee[k].heard = "up"
  BY <1>1 DEF Awaited, CallInv, CalleeInv
<1>8. Justified(Msg("200", k))
  <2>1. ist[k].state # "PROCEEDING"
    BY <1>7 DEF Resend200, TimerInv, QueueTimers, Queued
  <2>2. ist[k].state = "TERMINATED"
    BY <1>7, <2>1 DEF Shape, CalleeShape, Accepted
  <2> QED
    BY <1>7, <2>2 DEF Justified, Msg, Handed, Accepted
<1>9. \A y \in net' : y \in net \/ y.msg \in {Msg("200", k)}
  BY <1>1, NetIsOK, SendKeeps, MessageType, SomeMessages
<1>10. {Msg("200", k)} \in SUBSET Message
  BY MessageType
<1> QED
  BY <1>6, <1>8, <1>9, <1>10, ToldBefore

LEMMA SentIsTold ==
  ASSUME TransactionAssumption, TypeOK, Forward, NEW m \in Message, Justified(m), Send({m})
  PROVE  Told
<1>1. \A y \in net' : y \in net \/ y.msg \in {m}
  BY NetIsOK, SendKeeps, SomeMessages
<1>2. {m} \in SUBSET Message
  OBVIOUS
<1> QED
  BY <1>1, <1>2, ToldBefore

LEMMA NothingSentIsTold == ASSUME Send({}) PROVE Told
BY ToldNothing DEF Send, Fresh

LEMMA TimeoutIctMoves ==
  ASSUME TransactionAssumption, TypeOK, TypeOK', CallInv, CallInv', TimerInv, Shape, TimeoutIct
  PROVE  Moves /\ Told
<1>0. /\ UNCHANGED <<ist, nict, nist, caller, callee>> /\ ByesStay /\ IctTimers(ict)
      /\ ict \in Transactions(InviteState)
  BY DEF TimeoutIct, ByesStay, TimerInv, TypeOK, CallTypeOK
<1>1. \/ ict.resend = 0 /\ ict' = osip_ict_timeout_a_event /\ Send({Msg("INVITE", 0)})
      \/ ict.end = 0 /\ ict' = Terminated /\ Send({})
  BY DEF TimeoutIct
<1>2. \/ ict'.state = ict.state
      \/ ict.state \in {"CALLING", "COMPLETED"} /\ ict'.state = "TERMINATED"
  <2>1. ict.end = 0 => ict.state \in {"CALLING", "COMPLETED"}
    BY <1>0 DEF IctTimers, Off
  <2>2. osip_ict_timeout_a_event.state = ict.state
    BY <1>0 DEF osip_ict_timeout_a_event, Transactions
  <2> QED
    BY <1>1, <2>1, <2>2, StateFacts
<1>3. CallerStays
  BY <1>0, <1>2, MessageType DEF CallerStays, ByesStay
<1>4. Moves /\ Forward
  BY <1>0, <1>3, SideMoves, MovesKeep DEF CallerMove
<1>5. Justified(Msg("INVITE", 0))
  BY DEF Justified, Msg
<1>6. Told
  BY <1>1, <1>4, <1>5, SentIsTold, NothingSentIsTold, MessageType
<1> QED
  BY <1>4, <1>6

LEMMA TimeoutIstMoves ==
  ASSUME TransactionAssumption, TypeOK, TypeOK', CallInv, CallInv', TimerInv, Shape,
         NEW k \in Callee, TimeoutIst(k)
  PROVE  Moves /\ Told
<1>0. /\ UNCHANGED <<ict, nict, nist, caller, callee>> /\ ByesStay /\ IstTimers(ist[k])
      /\ ist[k] \in Transactions(InviteState) /\ ist \in [Callee -> Transactions(InviteState)]
      /\ CalleeShape(k)
  BY DEF TimeoutIst, ByesStay, TimerInv, TypeOK, CallTypeOK, Shape
<1>1. \/ /\ ist[k].resend = 0 /\ ist' = [ist EXCEPT ![k] = osip_ist_timeout_g_event(k)]
         /\ Send({Msg("refuse", k)})
      \/ ist[k].end = 0 /\ ist' = [ist EXCEPT ![k] = Terminated] /\ Send({})
  BY DEF TimeoutIst
<1>2. /\ ist[k].end = 0 => ist[k].state \in {"COMPLETED", "CONFIRMED"}
      /\ ist[k].resend = 0 => Over(k)
  BY <1>0 DEF IstTimers, Off, CalleeShape
<1>3. /\ \/ ist'[k].state = ist[k].state
         \/ ist[k].state \in {"COMPLETED", "CONFIRMED"} /\ ist'[k].state = "TERMINATED"
      /\ \A j \in Callee : j # k => ist'[j] = ist[j]
  <2>1. \/ ist' = [ist EXCEPT ![k] = osip_ist_timeout_g_event(k)]
        \/ ist[k].end = 0 /\ ist' = [ist EXCEPT ![k] = Terminated]
    BY <1>1
  <2>2. osip_ist_timeout_g_event(k).state = ist[k].state
    BY <1>0, ResendFacts DEF osip_ist_timeout_g_event
  <2>3. ASSUME NEW t, ist' = [ist EXCEPT ![k] = t]
        PROVE  ist'[k] = t /\ \A j \in Callee : j # k => ist'[j] = ist[j]
    BY <1>0, <2>3
  <2>4. Terminated.state = "TERMINATED"
    BY StateFacts
  <2>5. CASE ist' = [ist EXCEPT ![k] = osip_ist_timeout_g_event(k)]
    BY <2>2, <2>3, <2>5
  <2>6. CASE ist[k].end = 0 /\ ist' = [ist EXCEPT ![k] = Terminated]
    BY <1>2, <2>3, <2>4, <2>6
  <2> QED
    BY <2>1, <2>5, <2>6
<1>4. CalleeStays(k)
  BY <1>0, <1>3, MessageType DEF CalleeStays, ByesStay
<1>5. Moves /\ Forward
  BY <1>0, <1>3, <1>4, OneCallMoves, MovesKeep DEF CalleeMove
<1>6. ist[k].resend = 0 => Justified(Msg("refuse", k))
  BY <1>2 DEF Justified, Msg
<1>7. Told
  BY <1>1, <1>5, <1>6, SentIsTold, NothingSentIsTold, MessageType
<1> QED
  BY <1>5, <1>7

LEMMA TimeoutNictMoves ==
  ASSUME TransactionAssumption, TypeOK, TypeOK', CallInv, CallInv', TimerInv, Shape,
         NEW b \in 0..MaxCall, TimeoutNict(b)
  PROVE  Moves /\ Told
<1>0. /\ UNCHANGED <<ict, ist, nist, caller, callee>> /\ ByeTimers(nict[b])
      /\ nict[b] \in Transactions(OtherState) /\ nict \in [0..MaxCall -> Transactions(OtherState)]
  BY DEF TimeoutNict, TimerInv, TypeOK, CallTypeOK
<1>1. \/ /\ nict[b].resend = 0 /\ nict' = [nict EXCEPT ![b] = osip_nict_timeout_e_event(nict[b])]
         /\ Send({Msg("BYE", b)})
      \/ nict[b].end = 0 /\ nict' = [nict EXCEPT ![b] = Terminated] /\ Send({})
  BY DEF TimeoutNict
<1>2. Used(nict[b])
  BY <1>0, <1>1 DEF ByeTimers, Off
<1>3. ByesStay
  <2>1. \/ nict' = [nict EXCEPT ![b] = osip_nict_timeout_e_event(nict[b])]
        \/ nict' = [nict EXCEPT ![b] = Terminated]
    BY <1>1
  <2>2. osip_nict_timeout_e_event(nict[b]).state = nict[b].state
    BY <1>0, ResendFacts DEF osip_nict_timeout_e_event
  <2>3. ASSUME NEW t, nict' = [nict EXCEPT ![b] = t]
        PROVE  nict'[b] = t /\ \A c \in 0..MaxCall : c # b => nict'[c] = nict[c]
    BY <1>0, <2>3
  <2>4. /\ nict'[b] = osip_nict_timeout_e_event(nict[b]) \/ nict'[b] = Terminated
        /\ \A c \in 0..MaxCall : c # b => nict'[c] = nict[c]
    BY <2>1, <2>3
  <2>5. Used(nict'[b])
    BY <1>2, <2>2, <2>4, StateFacts DEF Used
  <2>6. \A c \in 0..MaxCall : Used(nict'[c]) <=> Used(nict[c])
    BY <1>2, <2>4, <2>5
  <2> QED
    BY <1>0, <2>6 DEF ByesStay
<1>4. Moves /\ Forward
  BY <1>0, <1>3, SideMoves, MovesKeep
<1>5. Justified(Msg("BYE", b))
  BY <1>2 DEF Justified, Msg
<1>6. Told
  BY <1>1, <1>4, <1>5, SentIsTold, NothingSentIsTold, MessageType
<1> QED
  BY <1>4, <1>6

LEMMA TimeoutNistMoves ==
  ASSUME TransactionAssumption, TypeOK, TimerInv, NEW b \in Branch, TimeoutNist(b)
  PROVE  Moves /\ Told
<1>0. /\ UNCHANGED <<ict, ist, nict, caller, callee>> /\ nist[b].end = 0
      /\ nist' = [nist EXCEPT ![b] = Terminated] /\ Send({})
      /\ nist \in [Branch -> Transactions(OtherState)]
  BY DEF TimeoutNist, TypeOK, CallTypeOK
<1>1. ASSUME NEW c \in 0..MaxCall PROVE Used(nist'[c]) <=> Used(nist[c])
  <2>1. ByeTimers(nist[c]) /\ c \in Branch
    BY MessageType DEF TimerInv
  <2>2. CASE c = b
    BY <1>0, <2>1, <2>2, StateFacts DEF ByeTimers, Used, Off
  <2>3. CASE c # b
    BY <1>0, <2>1, <2>3
  <2> QED
    BY <2>2, <2>3
<1>2. ByesStay
  BY <1>0, <1>1 DEF ByesStay
<1> QED
  BY <1>0, <1>2, SideMoves, NothingSentIsTold

LEMMA ReleaseCallerMoves ==
  ASSUME TransactionAssumption, TypeOK, CallInv, TimerInv, Shape, ReleaseCaller
  PROVE  Moves /\ Told
<1>0. /\ UNCHANGED <<ist, nict, nist, callee, net>> /\ ict' = Terminated /\ ByesStay
      /\ caller' = Released(caller) /\ Releasable(caller, ict, CallerByeOver)
      /\ caller \in CallerCall /\ 0 \in 0..MaxCall
  BY MessageType DEF ReleaseCaller, CallerReleasable, ByesStay, TypeOK, CallTypeOK
<1>1. /\ caller'.jd = "gone" /\ caller'.heard = Ended(caller.heard) /\ caller'.bye = caller.bye
      /\ caller'.ack = caller.ack /\ caller'.tag = caller.tag
  BY <1>0, CallerFields
<1>2. caller.bye = Off => caller.jd # "confirmed"
  <2>1. caller.jd = "confirmed" => ~Alive(ict)
    BY DEF CallInv, CallerInv, Shape, CallerShape, Answered, Alive
  <2> QED
    BY <1>0, <2>1, Zenon DEF Releasable
<1>3. CallerLeaves
  BY <1>0, <1>1, <1>2, StateFacts DEF CallerLeaves
<1> QED
  BY <1>0, <1>3, SideMoves, ToldNothing DEF CallerMove

LEMMA ReleasedCallee ==
  ASSUME NEW c \in CalleeCall
  PROVE  /\ Released(c).jd = "gone" /\ Released(c).heard = Ended(c.heard)
         /\ Released(c).bye = c.bye /\ Released(c).wait = c.wait /\ Released(c).count = c.count
         /\ Released(c).age = 0
BY DEF CalleeCall, Released

LEMMA ReleaseCalleeMoves ==
  ASSUME TransactionAssumption, TypeOK, CallInv, TimerInv, Shape, NEW k \in Callee, ReleaseCallee(k)
  PROVE  Moves /\ Told
<1>0. /\ UNCHANGED <<ict, nict, nist, caller, net>> /\ ByesStay
      /\ ist' = [ist EXCEPT ![k] = Terminated] /\ callee' = [callee EXCEPT ![k] = Released(callee[k])]
      /\ callee[k].jd # "none" /\ Releasable(callee[k], ist[k], CalleeByeOver(k))
      /\ Callee \subseteq 0..MaxCall
  BY MessageType DEF ReleaseCallee, CalleeReleasable, ByesStay
<1>1. /\ callee[k] \in CalleeCall /\ callee \in [Callee -> CalleeCall]
      /\ ist \in [Callee -> Transactions(InviteState)] /\ CalleeShape(k)
  BY DEF TypeOK, CallTypeOK, Shape
<1>2. /\ callee'[k] = Released(callee[k]) /\ ist'[k] = Terminated
      /\ \A j \in Callee : j # k => callee'[j] = callee[j] /\ ist'[j] = ist[j]
  BY <1>0, <1>1
<1>3. /\ callee'[k].jd = "gone" /\ callee'[k].heard = Ended(callee[k].heard)
      /\ callee'[k].bye = callee[k].bye /\ callee'[k].wait = callee[k].wait
  BY <1>1, <1>2, ReleasedCallee
<1>4. callee[k].bye = Off => callee[k].jd # "confirmed"
  <2>1. callee[k].jd = "confirmed" => ~Alive(ist[k]) \/ Queued(k)
    BY <1>1 DEF CallInv, CalleeInv, CalleeShape, Accepted, Alive, Queued
  <2>2. Queued(k) => callee[k].age # Longest
    BY TimeAssumption DEF TimerInv, QueueTimers, TransactionAssumption
  <2> QED
    BY <1>0, <2>1, <2>2, Zenon DEF Releasable
<1>5. CalleeLeaves(k)
  BY <1>0, <1>2, <1>3, <1>4, StateFacts DEF CalleeLeaves, Asked
<1> QED
  BY <1>0, <1>2, <1>5, OneCallMoves, ToldNothing DEF CalleeMove

(* What a tick makes of the calls.                                             *)
LEMMA TickCaller ==
  ASSUME TransactionAssumption, TypeOK, Tick
  PROVE  /\ caller'.jd = caller.jd /\ caller'.heard = caller.heard /\ caller'.bye = caller.bye
         /\ caller'.tag = caller.tag
         /\ caller'.ack = IF caller.ack # Off /\ caller.ack < InTime
                            THEN caller.ack + 1 ELSE caller.ack
<1> DEFINE a == IF Alive(ict) /\ caller.age < Longest THEN caller.age + 1 ELSE caller.age
           w == IF caller.ack # Off /\ caller.ack < InTime THEN caller.ack + 1 ELSE caller.ack
           d == [[caller EXCEPT !.age = a] EXCEPT !.ack = w]
<1>0. caller \in CallerCall
  BY DEF TypeOK, CallTypeOK
<1>1. [caller EXCEPT !.age = a].ack = caller.ack
  <2> HIDE DEF a
  <2> QED
    BY <1>0 DEF CallerCall
<1>2. Older(caller, ict) = [caller EXCEPT !.age = a]
  BY DEF Older
<1>3. caller' = d
  <2>1. caller' = [Older(caller, ict) EXCEPT
                     !.ack = IF Older(caller, ict).ack # Off /\ Older(caller, ict).ack < InTime
                               THEN Older(caller, ict).ack + 1 ELSE Older(caller, ict).ack]
    BY DEF Tick
  <2> HIDE DEF a
  <2> QED
    BY <1>1, <1>2, <2>1
<1>4. /\ d.jd = caller.jd /\ d.heard = caller.heard /\ d.bye = caller.bye
      /\ d.tag = caller.tag /\ d.ack = w
  <2> HIDE DEF a, w
  <2> QED
    BY <1>0 DEF CallerCall
<1> QED
  BY <1>3, <1>4

LEMMA TickCallee ==
  ASSUME TransactionAssumption, TypeOK, Tick, NEW k \in Callee
  PROVE  /\ callee'[k].jd = callee[k].jd /\ callee'[k].heard = callee[k].heard
         /\ callee'[k].bye = callee[k].bye /\ callee'[k].count = callee[k].count
         /\ callee'[k].wait = (IF Awaited(k) THEN callee[k].wait - 1 ELSE callee[k].wait)
         /\ callee'[k].age = IF Alive(ist[k]) /\ callee[k].age < Longest
                               THEN callee[k].age + 1 ELSE callee[k].age
<1> DEFINE c == callee[k]
           a == IF Alive(ist[k]) /\ c.age < Longest THEN c.age + 1 ELSE c.age
           w == IF Awaited(k) THEN c.wait - 1 ELSE c.wait
           d == [[c EXCEPT !.age = a] EXCEPT !.wait = w]
<1>0. c \in CalleeCall
  BY DEF TypeOK, CallTypeOK
<1>1. [c EXCEPT !.age = a].wait = c.wait
  <2> HIDE DEF a, c
  <2> QED
    BY <1>0 DEF CalleeCall
<1>2. Older(c, ist[k]) = [c EXCEPT !.age = a]
  BY DEF Older
<1>3. callee'[k] = d
  <2>1. callee'[k] = [Older(c, ist[k]) EXCEPT
                     !.wait = IF Awaited(k) THEN Older(c, ist[k]).wait - 1 ELSE Older(c, ist[k]).wait]
    BY DEF Tick
  <2> HIDE DEF a, c
  <2> QED
    BY <1>1, <1>2, <2>1
<1>4. /\ d.jd = c.jd /\ d.heard = c.heard /\ d.bye = c.bye
      /\ d.count = c.count /\ d.wait = w /\ d.age = a
  <2> HIDE DEF a, w, c
  <2> QED
    BY <1>0 DEF CalleeCall
<1> QED
  BY <1>3, <1>4

LEMMA TickMoves ==
  ASSUME TransactionAssumption, TypeOK, CallInv, TimerInv, Shape, Tick
  PROVE  Moves /\ Told
<1>0. /\ ict' = Later(ict) /\ \A k \in Callee : ist'[k] = Later(ist[k])
      /\ \A b \in 0..MaxCall : nict'[b] = Later(nict[b]) /\ nist'[b] = Later(nist[b])
  BY MessageType DEF Tick
<1>1. ict'.state = ict.state /\ \A k \in Callee : ist'[k].state = ist[k].state
  <2>1. ict \in Transactions(InviteState)
        /\ \A k \in Callee : ist[k] \in Transactions(InviteState)
    BY DEF TypeOK, CallTypeOK
  <2>2. \A t \in Transactions(InviteState) : Later(t).state = t.state
    BY LaterFacts
  <2> QED
    BY <1>0, <2>1, <2>2
<1>2. ByesStay
  <2>1. \A b \in 0..MaxCall : /\ nict[b] \in Transactions(OtherState)
                              /\ nist[b] \in Transactions(OtherState)
    BY MessageType DEF TypeOK, CallTypeOK
  <2>2. \A t \in Transactions(OtherState) : Later(t).state = t.state
    BY LaterFacts
  <2> QED
    BY <1>0, <2>1, <2>2 DEF ByesStay, Used
<1>3. CallerStays
  <2>1. caller'.ack = Off <=> caller.ack = Off
    <3>1. caller.ack \in 0..InTime \cup {Off}
      BY DEF TypeOK, CallTypeOK, CallerCall
    <3>2. caller'.ack = IF caller.ack # Off /\ caller.ack < InTime
                          THEN caller.ack + 1 ELSE caller.ack
      BY TickCaller
    <3> QED
      BY <3>1, <3>2 DEF Off, TransactionAssumption
  <2>2. /\ caller'.jd = caller.jd /\ caller'.heard = caller.heard /\ caller'.bye = caller.bye
        /\ caller'.tag = caller.tag
    BY TickCaller
  <2> QED
    BY <1>1, <1>2, <2>1, <2>2, MessageType DEF CallerStays, ByesStay
<1>4. ASSUME NEW k \in Callee PROVE CalleeStays(k)
  <2>1. callee'[k].wait = Off <=> callee[k].wait = Off
    <3>1. callee[k].wait \in Time
      BY DEF TypeOK, CallTypeOK, CalleeCall
    <3>2. ~(Awaited(k) /\ callee[k].wait = 0)
      BY DEF Tick, SomethingDue
    <3>3. Awaited(k) => callee[k].wait # Off
      BY DEF Awaited
    <3>4. callee'[k].wait = (IF Awaited(k) THEN callee[k].wait - 1 ELSE callee[k].wait)
      BY TickCallee
    <3> QED
      BY <3>1, <3>2, <3>3, <3>4 DEF Off, Time
  <2>2. /\ callee'[k].jd = callee[k].jd /\ callee'[k].heard = callee[k].heard
        /\ callee'[k].bye = callee[k].bye
    BY TickCallee
  <2> QED
    BY <1>1, <1>2, <2>1, <2>2, MessageType DEF CalleeStays, ByesStay
<1>5. ByeMove
  BY <1>2, MessageType DEF ByeMove, ByesStay
<1>6. Told
  BY NetIsOK, TickNet DEF Told
<1> QED
  BY <1>3, <1>4, <1>5, <1>6 DEF Moves, CallerMove

LEMMA NextMoves ==
  ASSUME TransactionAssumption, TypeOK, TypeOK', CallInv, CallInv', TimerInv, Shape, MessageInv,
         [Next]_vars
  PROVE  Moves /\ Told
<1>1. CASE Receive
  BY <1>1, RcvInviteMoves, RcvAckMoves, RcvByeOfCallerMoves, RcvStrayByeMoves, Rcv1xxMoves,
     Rcv2xxMoves, RcvRefuseMoves, RcvByeOfCalleeMoves, RcvByeAnsweredMoves, RcvCancelMoves,
     CancelMoves DEF Receive
<1>2. ASSUME NEW k \in Callee, CalleeHangsUp(k) \/ GiveUp(k) PROVE Moves /\ Told
  BY <1>2, TerminateMoves DEF CalleeHangsUp, GiveUp, Awaited
<1>3. CASE Program
  BY <1>2, <1>3, SendAckMoves, CallerHangsUpMoves, AcceptMoves, RefuseMoves, CancelMoves
     DEF Program
<1>4. CASE Expire
  BY <1>2, <1>4, TimeoutIctMoves, TimeoutIstMoves, TimeoutNictMoves, TimeoutNistMoves,
     Resend200Moves, ReleaseCallerMoves, ReleaseCalleeMoves, Send200Moves, CancelMoves
     DEF Expire
<1>5. CASE Tick
  BY <1>5, TickMoves
<1>6. CASE Lose \/ UNCHANGED vars
  <2>1. UNCHANGED <<ict, ist, nict, nist, caller, callee>> /\ ByesStay
    BY <1>6 DEF Lose, vars, ByesStay
  <2>2. \A y \in net' : y \in net
    BY <1>6 DEF Lose, vars
  <2> QED
    BY <2>1, <2>2, SideMoves, ToldNothing
<1> QED
  BY <1>1, <1>3, <1>4, <1>5, <1>6 DEF Next

LEMMA MessageStep ==
  ASSUME TransactionAssumption, TypeOK, Forward, MessageInv, Told
  PROVE  MessageInv'
<1> SUFFICES ASSUME NEW y \in net' PROVE Justified(y.msg)'
  BY DEF MessageInv
<1>1. CASE \E x \in net : x.msg = y.msg
  <2>1. PICK x \in net : x.msg = y.msg
    BY <1>1
  <2>2. x.msg \in Message /\ Justified(x.msg)
    BY PacketType DEF TypeOK, CallTypeOK, MessageInv
  <2>3. Justified(x.msg)'
    BY <2>2, JustifiedForEver
  <2> DEFINE m == x.msg
  <2>4. Justified(y.msg)'
    BY <2>1, <2>3 DEF Justified
  <2> QED
    BY <2>4
<1>2. CASE Justified(y.msg)'
  BY <1>2
<1> QED
  BY <1>1, <1>2 DEF Told

Sound == TypeOK /\ CallInv /\ TimerInv /\ Shape /\ MessageInv

LEMMA SoundStep ==
  ASSUME TransactionAssumption, Sound, [Next]_vars
  PROVE  Sound' /\ Moves /\ Forward
<1>1. TypeOK /\ CallInv /\ TimerInv /\ Shape /\ MessageInv
  BY DEF Sound
<1>2. TypeOK' /\ CallInv' /\ TimerInv'
  BY <1>1, TypeStep, CallStep, TimerStep
<1>3. Moves /\ Told
  BY <1>1, <1>2, NextMoves
<1>4. Shape' /\ Forward
  BY <1>1, <1>2, <1>3, MovesKeep
<1>5. MessageInv'
  BY <1>1, <1>3, <1>4, MessageStep
<1> QED
  BY <1>2, <1>3, <1>4, <1>5 DEF Sound

LEMMA SoundInit == ASSUME TransactionAssumption, Init PROVE Sound
BY InitType, InitCall, InitShape, Times DEF Sound, TypeOK, CancelTypeOK, Init

-----------------------------------------------------------------------------
(* Faults.  A message that was just sent is received, or is lost, repeated or  *)
(* late, and then the network has failed once more.                            *)

FreshIn(m, N) == \E x \in N : x.msg = m /\ x.age = 0

Received(x) ==
  \/ RcvInvite(x, FALSE) \/ RcvAck(x, FALSE)
  \/ RcvByeOfCaller(x, FALSE) \/ RcvStrayBye(x, FALSE)
  \/ Rcv1xx(x, FALSE) \/ Rcv2xx(x, FALSE) \/ RcvRefuse(x, FALSE)
  \/ RcvByeOfCallee(x, FALSE) \/ RcvByeAnswered(x, FALSE)
  \/ RcvCancel(x, FALSE) \/ RcvCancelAnswered(x, FALSE)

LEMMA ReceiveExchanges ==
  ASSUME TypeOK, Receive
  PROVE  \E x \in net, again \in BOOLEAN :
            (\E S : Exchange(x, again, S)) /\ (again \/ Received(x))
<1>1. PICK x \in net, again \in BOOLEAN :
        \/ RcvInvite(x, again) \/ RcvAck(x, again)
        \/ RcvByeOfCaller(x, again) \/ RcvStrayBye(x, again)
        \/ Rcv1xx(x, again) \/ Rcv2xx(x, again) \/ RcvRefuse(x, again)
        \/ RcvByeOfCallee(x, again) \/ RcvByeAnswered(x, again)
        \/ RcvCancel(x, again) \/ RcvCancelAnswered(x, again)
  BY DEF Receive
<1>2. \E S : Exchange(x, again, S)
  BY <1>1 DEF RcvInvite, RcvAck, RcvByeOfCaller, RcvStrayBye, Rcv1xx, Rcv2xx, RcvRefuse,
     RcvByeOfCallee, RcvByeAnswered, RcvCancel, RcvCancelAnswered
<1>3. again \/ Received(x)
  BY <1>1 DEF Received
<1> QED
  BY <1>2, <1>3

(* All other steps but Tick, Lose and Receive only send.                       *)
LEMMA OthersSend ==
  ASSUME [Next]_vars, ~Tick, ~Lose, ~Receive
  PROVE  \E S : Send(S)
<1>1. CASE Program
  BY <1>1 DEF Program, Accept, Refuse, SendAck, CallerHangsUp, CalleeHangsUp, Terminate,
     CallerCancels
<1>2. CASE UNCHANGED <<net, faults>>
  <2>1. Send({})
    BY <1>2 DEF Send, Fresh
  <2> QED
    BY <2>1
<1>3. CASE Expire
  BY <1>2, <1>3 DEF Expire, TimeoutIct, TimeoutIst, TimeoutNict, TimeoutNist, Resend200, GiveUp,
     Terminate, ReleaseCaller, ReleaseCallee, Send200, TimeoutCancel
<1> QED
  BY <1>1, <1>2, <1>3 DEF Next, vars

LEMMA FreshStays ==
  ASSUME TransactionAssumption, TypeOK, [Next]_vars, ~Tick, NEW m
  PROVE  /\ faults' >= faults /\ faults' \in Int /\ faults \in Int
         /\ FreshIn(m, net) => \/ FreshIn(m, net') \/ faults' >= faults + 1
                               \/ \E x \in net : x.msg = m /\ Received(x)
<1>0. faults \in 0..MaxFaults /\ MaxFaults \in Nat
  BY DEF TypeOK, CallTypeOK, TransactionAssumption
<1>1. CASE Receive
  <2>1. PICK x \in net, again \in BOOLEAN :
          (\E S : Exchange(x, again, S)) /\ (again \/ Received(x))
    BY <1>1, ReceiveExchanges
  <2>2. faults' = faults + (IF again THEN 1 ELSE 0)
    BY <2>1 DEF Exchange
  <2>3. ~again => net \ {x} \subseteq net'
    BY <2>1 DEF Exchange
  <2>4. FreshIn(m, net) => again \/ FreshIn(m, net') \/ x.msg = m
    BY <2>3 DEF FreshIn
  <2> QED
    BY <1>0, <2>1, <2>2, <2>4
<1>2. CASE Lose
  <2>1. faults' = faults + 1
    BY <1>2 DEF Lose
  <2> QED
    BY <1>0, <2>1
<1>3. CASE ~Receive /\ ~Lose
  <2>1. PICK S : Send(S)
    BY <1>3, OthersSend
  <2>2. net \subseteq net' /\ faults' = faults
    BY <2>1 DEF Send
  <2> QED
    BY <1>0, <2>2 DEF FreshIn
<1> QED
  BY <1>1, <1>2, <1>3

LEMMA TickFaults ==
  ASSUME TransactionAssumption, TypeOK, Tick, NEW m
  PROVE  /\ faults' >= faults /\ faults' \in Int /\ faults \in Int
         /\ FreshIn(m, net) => faults' >= faults + 1
         /\ ~FreshIn(m, net')
<1>0. faults \in 0..MaxFaults /\ MaxFaults \in Nat /\ IsFiniteSet(net) /\ net \subseteq Packet
  BY DEF TypeOK, CallTypeOK, TransactionAssumption
<1>1. faults' = faults + Cardinality(net) /\ Cardinality(net) \in Nat
  BY <1>0, FS_CardinalityType DEF Tick
<1>2. FreshIn(m, net) => Cardinality(net) # 0
  BY <1>0, FS_EmptySet DEF FreshIn
<1>3. ~FreshIn(m, net')
  <2>1. ASSUME NEW x \in net PROVE [x EXCEPT !.age = @ + 1].age # 0
    BY <1>0, <2>1 DEF Packet, TransactionAssumption
  <2>2. net' = {[x EXCEPT !.age = @ + 1] : x \in net}
    BY DEF Tick
  <2> QED
    BY <2>1, <2>2 DEF FreshIn
<1> QED
  BY <1>0, <1>1, <1>2, <1>3

LEMMA SentIsFresh == ASSUME NEW S, NEW m \in S, Send(S) PROVE FreshIn(m, net') /\ faults' = faults
<1> DEFINE x == [msg |-> m, age |-> 0]
<1>1. x \in net' /\ x.msg = m /\ x.age = 0
  BY DEF Send, Fresh
<1> QED
  BY <1>1 DEF FreshIn, Send

LEMMA ExchangedIsFresh ==
  ASSUME NEW S, NEW m \in S, NEW x, NEW again, Exchange(x, again, S)
  PROVE  FreshIn(m, net')
<1> DEFINE y == [msg |-> m, age |-> 0]
<1>1. y \in net' /\ y.msg = m /\ y.age = 0
  BY DEF Exchange, Fresh
<1> QED
  BY <1>1 DEF FreshIn

(* A product grows with its first factor.                                      *)
LEMMA TimesGrows ==
  ASSUME NEW g \in Nat, NEW a \in Int, NEW b \in Int
  PROVE  /\ a * g \in Int /\ (a + 1) * g = a * g + g
         /\ a <= b => a * g <= b * g
         /\ a + 1 <= b => a * g + g <= b * g
<1>1. \A i, j \in Int : i >= 0 /\ j >= 0 => i * j >= 0
  OBVIOUS
<1>2. (b - a) * g = b * g - a * g /\ (b - (a + 1)) * g = b * g - (a * g + g)
  OBVIOUS
<1>3. (a + 1) * g = a * g + g
  OBVIOUS
<1>4. a * g \in Int /\ b * g \in Int
  OBVIOUS
<1>5. ASSUME a <= b PROVE a * g <= b * g
  <2>1. (b - a) * g >= 0
    BY <1>1, <1>5
  <2> QED
    BY <1>2, <1>4, <2>1
<1>6. ASSUME a + 1 <= b PROVE a * g + g <= b * g
  <2>1. (b - (a + 1)) * g >= 0
    BY <1>1, <1>6
  <2> QED
    BY <1>2, <1>4, <2>1
<1> QED
  BY <1>3, <1>4, <1>5, <1>6

(* Every fault uses up at most T2 of the time a request or an answer is sent   *)
(* again: what was sent last is still on its way, or a fault has been counted. *)
Covered(t, fresh, f) ==
  /\ t.resend \in Nat /\ t.end \in Nat /\ t.len \in Nat \ {0}
  /\ Long - t.end + t.resend <= f * T2 + (IF t.resend # 0 /\ fresh THEN T2 ELSE 0)

LEMMA CoveredStarts ==
  ASSUME TransactionAssumption, TimeAssumption, NEW f \in Nat, NEW t,
         t.resend = T1, t.len = T1, t.end = Long
  PROVE  Covered(t, TRUE, f)
<1> DEFINE p == f * T2
<1>1. p \in Int /\ p >= 0 /\ T1 \in Nat \ {0} /\ T1 <= T2 /\ Long \in Nat /\ T2 \in Nat
  <2>1. 0 * T2 <= p /\ p \in Int /\ 0 * T2 = 0
    BY TimesGrows DEF TransactionAssumption
  <2> QED
    BY <2>1 DEF TransactionAssumption, TimeAssumption
<1> HIDE DEF p
<1>2. Long - t.end + t.resend <= p + (IF t.resend # 0 /\ TRUE THEN T2 ELSE 0)
  BY <1>1
<1> QED
  BY <1>1, <1>2 DEF Covered, p

LEMMA CoveredResent ==
  ASSUME TransactionAssumption, NEW f \in Nat, NEW S, NEW t \in Transactions(S), NEW fresh \in BOOLEAN,
         Covered(t, fresh, f), t.resend = 0
  PROVE  LET l == IF 2 * t.len < T2 THEN 2 * t.len ELSE T2
         IN  Covered([t EXCEPT !.len = l, !.resend = l], TRUE, f)
<1> DEFINE p == f * T2
           l == IF 2 * t.len < T2 THEN 2 * t.len ELSE T2
           u == [t EXCEPT !.len = l, !.resend = l]
<1>1. u.end = t.end /\ u.len = l /\ u.resend = l
  <2> HIDE DEF l
  <2> QED
    BY ResendFacts
<1>2. l \in Nat \ {0} /\ l <= T2 /\ T2 \in Nat /\ Long \in Nat /\ p \in Int /\ t.end \in Nat
  <2>1. p \in Int
    BY TimesGrows DEF TransactionAssumption
  <2> QED
    BY <2>1 DEF Covered, TransactionAssumption
<1>3. Long - t.end + t.resend <= p
  BY DEF Covered
<1> HIDE DEF u, l, p
<1>4. Long - u.end + u.resend <= p + (IF u.resend # 0 /\ TRUE THEN T2 ELSE 0)
  BY <1>1, <1>2, <1>3
<1>5. Covered(u, TRUE, f)
  BY <1>1, <1>2, <1>4 DEF Covered, p
<1> QED
  BY <1>5 DEF u, l

LEMMA CoveredStays ==
  ASSUME TransactionAssumption, NEW f \in Nat, NEW h \in Nat, NEW t, NEW fresh, NEW still,
         Covered(t, fresh, f), h >= f, fresh => still \/ h >= f + 1
  PROVE  Covered(t, still, h)
<1> DEFINE p == f * T2
           q == h * T2
<1>1. /\ p \in Int /\ q \in Int /\ p <= q /\ (h >= f + 1 => p + T2 <= q)
      /\ T2 \in Nat /\ Long \in Nat
  BY TimesGrows DEF TransactionAssumption
<1>2. /\ t.resend \in Nat /\ t.end \in Nat /\ t.len \in Nat \ {0}
      /\ Long - t.end + t.resend <= p + (IF t.resend # 0 /\ fresh THEN T2 ELSE 0)
  BY DEF Covered
<1> HIDE DEF p, q
<1>3. Long - t.end + t.resend <= q + (IF t.resend # 0 /\ still THEN T2 ELSE 0)
  BY <1>1, <1>2
<1> QED
  BY <1>2, <1>3 DEF Covered, q

LEMMA CoveredLater ==
  ASSUME TransactionAssumption, NEW f \in Nat, NEW h \in Nat, NEW S, NEW t \in Transactions(S),
         NEW fresh, Covered(t, fresh, f), h >= f, fresh => h >= f + 1, ~Due(t)
  PROVE  Covered(Later(t), FALSE, h)
<1> DEFINE u == Later(t)
           p == h * T2
<1>1. Covered(t, FALSE, h)
  BY CoveredStays
<1>2. /\ t.resend \in Nat \ {0} /\ t.end \in Nat \ {0} /\ t.len \in Nat \ {0}
      /\ Long - t.end + t.resend <= p + 0
  BY <1>1 DEF Covered, Due
<1>3. u.len = t.len /\ u.resend = t.resend - 1 /\ u.end = t.end - 1
  BY <1>2, LaterFacts DEF Off
<1>4. p \in Int /\ Long \in Nat
  BY TimesGrows DEF TransactionAssumption
<1> HIDE DEF u, p
<1>5. Long - u.end + u.resend <= p + (IF u.resend # 0 /\ FALSE THEN T2 ELSE 0)
  BY <1>2, <1>3, <1>4
<1>6. u.resend \in Nat /\ u.end \in Nat /\ u.len \in Nat \ {0}
  BY <1>2, <1>3
<1>7. Covered(u, FALSE, h)
  BY <1>5, <1>6 DEF Covered, p
<1> QED
  BY <1>7 DEF u

(* With few faults nobody gives up sending.                                    *)
LEMMA CoveredGoesOn ==
  ASSUME TransactionAssumption, FewFaults, NEW f \in 0..MaxFaults, NEW t, NEW fresh,
         Covered(t, fresh, f)
  PROVE  t.end # 0
<1> SUFFICES ASSUME t.end = 0 PROVE FALSE
  OBVIOUS
<1> DEFINE p == f * T2
           q == MaxFaults * T2
<1>1. /\ p \in Int /\ q \in Int /\ p <= q /\ (MaxFaults + 1) * T2 = q + T2
      /\ T2 \in Nat \ {0} /\ Long \in Nat
  BY TimesGrows DEF TransactionAssumption
<1>2. q + T2 <= Long
  BY <1>1 DEF FewFaults
<1>3. /\ t.resend \in Nat
      /\ Long - t.end + t.resend <= p + (IF t.resend # 0 /\ fresh THEN T2 ELSE 0)
  BY DEF Covered
<1> HIDE DEF p, q
<1> QED
  BY <1>1, <1>2, <1>3

-----------------------------------------------------------------------------
(* A BYE goes on until it is received, and so does the refusal of the first    *)
(* call while the caller waits for an answer.                                  *)

ByeInv ==
  \A b \in 0..MaxCall : Used(nict[b]) /\ ~Used(nist[b]) =>
    nict[b].state = "TRYING" /\ Covered(nict[b], FreshIn(Msg("BYE", b), net), faults)

RefuseInv ==
  Inviting /\ ist[1].state = "COMPLETED" =>
    Covered(ist[1], FreshIn(Msg("refuse", 1), net), faults)

(* What becomes of a BYE's transaction.                                        *)
LEMMA ByeCases ==
  ASSUME TransactionAssumption, Sound, [Next]_vars, NEW b \in 0..MaxCall
  PROVE  \/ ~Tick /\ nict'[b] = nict[b]
         \/ Tick /\ ~Due(nict[b]) /\ nict'[b] = Later(nict[b])
         \/ nict'[b] = nict_snd_request /\ Send({Msg("BYE", b)})
         \/ /\ nict[b].resend = 0 /\ nict'[b] = osip_nict_timeout_e_event(nict[b])
            /\ Send({Msg("BYE", b)})
         \/ nict[b].end = 0
         \/ Used(nist[b])
<1>0. /\ nict \in [0..MaxCall -> Transactions(OtherState)] /\ TypeOK
      /\ \A t, c : nict' = [nict EXCEPT ![c] = t] /\ c # b => nict'[b] = nict[b]
      /\ \A t : nict' = [nict EXCEPT ![b] = t] => nict'[b] = t
      /\ 0 \in 0..MaxCall /\ Callee \subseteq 0..MaxCall
  BY MessageType DEF Sound, TypeOK, CallTypeOK
<1>1. CASE Tick
  BY <1>1 DEF Tick, SomethingDue
<1>2. CASE nict' = nict /\ ~Tick
  BY <1>2
<1>3. ASSUME NEW x \in net, NEW again \in BOOLEAN, RcvByeAnswered(x, again), nict' # nict
      PROVE  nict'[b] = nict[b] \/ Used(nist[b])
  <2>1. /\ x.msg.m = "BYE answered" /\ x.msg.k \in 0..MaxCall
        /\ nict' = [nict EXCEPT ![x.msg.k] = nict_rcv_23456xx]
    BY <1>3, JustifiedFacts DEF RcvByeAnswered, Sound
  <2>2. Used(nist[x.msg.k])
    BY <2>1 DEF Sound, MessageInv, Justified
  <2> QED
    BY <1>0, <2>1, <2>2
<1>4. CASE Receive /\ ~Tick
  <2>1. \/ nict' = nict
        \/ \E x \in net, again \in BOOLEAN : RcvByeAnswered(x, again)
    BY <1>4 DEF Receive, RcvInvite, RcvAck, RcvByeOfCaller, RcvStrayBye, Rcv1xx, Rcv2xx,
       RcvRefuse, RcvByeOfCallee, RcvCancel, RcvCancelAnswered
  <2> QED
    BY <1>2, <1>3, <1>4, <2>1
<1>5. ASSUME ~Tick, NEW c \in 0..MaxCall, nict' = [nict EXCEPT ![c] = nict_snd_request],
             Send({Msg("BYE", c)})
      PROVE  \/ nict'[b] = nict[b]
             \/ nict'[b] = nict_snd_request /\ Send({Msg("BYE", b)})
  BY <1>0, <1>5
<1>6. CASE Program /\ ~Tick
  <2>1. \/ nict' = nict
        \/ \E c \in 0..MaxCall : nict' = [nict EXCEPT ![c] = nict_snd_request] /\ Send({Msg("BYE", c)})
    BY <1>0, <1>6 DEF Program, Accept, Refuse, SendAck, CallerHangsUp, CalleeHangsUp, Terminate,
       CallerCancels
  <2> QED
    BY <1>2, <1>5, <1>6, <2>1
<1>7. ASSUME ~Tick, NEW c \in 0..MaxCall, TimeoutNict(c)
      PROVE  \/ nict'[b] = nict[b]
             \/ /\ nict[b].resend = 0 /\ nict'[b] = osip_nict_timeout_e_event(nict[b])
                /\ Send({Msg("BYE", b)})
             \/ nict[b].end = 0
  <2>1. CASE c # b
    BY <1>0, <1>7, <2>1 DEF TimeoutNict
  <2>2. CASE c = b
    BY <1>0, <1>7, <2>2 DEF TimeoutNict
  <2> QED
    BY <2>1, <2>2
<1>8. CASE Expire /\ ~Tick
  <2>1. \/ nict' = nict
        \/ \E c \in 0..MaxCall : nict' = [nict EXCEPT ![c] = nict_snd_request] /\ Send({Msg("BYE", c)})
        \/ \E c \in 0..MaxCall : TimeoutNict(c)
    BY <1>0, <1>8 DEF Expire, TimeoutIct, TimeoutIst, TimeoutNist, Resend200, GiveUp,
       Terminate, ReleaseCaller, ReleaseCallee, Send200, TimeoutCancel
  <2> QED
    BY <1>2, <1>5, <1>7, <1>8, <2>1
<1>9. CASE (Lose \/ UNCHANGED vars) /\ ~Tick
  BY <1>2, <1>9 DEF Lose, vars
<1> QED
  BY <1>1, <1>4, <1>6, <1>8, <1>9 DEF Next

(* And of an INVITE's at the callee.                                           *)
LEMMA RefuseCases ==
  ASSUME TransactionAssumption, Sound, [Next]_vars, NEW k \in Callee
  PROVE  \/ ~Tick /\ ist'[k] = ist[k]
         \/ Tick /\ ~Due(ist[k]) /\ ist'[k] = Later(ist[k])
         \/ ist'[k].state # "COMPLETED"
         \/ ist'[k] = ist_snd_3456xx /\ FreshIn(Msg("refuse", k), net')
         \/ /\ ist[k].resend = 0 /\ ist'[k] = osip_ist_timeout_g_event(k)
            /\ Send({Msg("refuse", k)})
<1>0. /\ ist \in [Callee -> Transactions(InviteState)] /\ TypeOK
      /\ \A t, c : ist' = [ist EXCEPT ![c] = t] /\ c # k => ist'[k] = ist[k]
      /\ \A t : ist' = [ist EXCEPT ![k] = t] => ist'[k] = t
  BY DEF Sound, TypeOK, CallTypeOK
<1>1. CASE Tick
  BY <1>1 DEF Tick, SomethingDue
<1>2. CASE ist' = ist /\ ~Tick
  BY <1>2
<1>3. CASE Receive /\ ~Tick
  <2>1. \/ ist' = ist
        \/ \E c \in Callee : ist' = [ist EXCEPT ![c] = ist_rcv_invite]
        \/ \E c \in Callee : ist' = [ist EXCEPT ![c] = ist_snd_3456xx] /\ FreshIn(Msg("refuse", c), net')
        \/ ist' = [c \in Callee |->
                     IF ist[c].state \in {"COMPLETED", "CONFIRMED"} THEN ist_rcv_ack ELSE ist[c]]
    BY <1>3, ReceiveOfIst, ExchangedIsFresh
  <2>2. \/ ist' = ist
        \/ \E c \in Callee : ist' = [ist EXCEPT ![c] = ist_rcv_invite]
        \/ \E c \in Callee : ist' = [ist EXCEPT ![c] = ist_snd_3456xx] /\ FreshIn(Msg("refuse", c), net')
        \/ ist'[k] = ist[k] \/ ist'[k] = ist_rcv_ack
    BY <2>1
  <2> QED
    BY <1>0, <1>3, <2>2, StateFacts
<1>4. CASE Program /\ ~Tick
  <2>1. \/ ist' = ist
        \/ \E c \in Callee : ist' = [ist EXCEPT ![c] = ist_snd_3456xx] /\ Send({Msg("refuse", c)})
    BY <1>4 DEF Program, Accept, Refuse, Refused, SendAck, CallerHangsUp, CalleeHangsUp, Terminate,
       CallerCancels
  <2> QED
    BY <1>0, <1>4, <2>1, SentIsFresh
<1>5. ASSUME ~Tick, NEW c \in Callee, TimeoutIst(c)
      PROVE  \/ ist'[k] = ist[k] \/ ist'[k] = Terminated
             \/ /\ ist[k].resend = 0 /\ ist'[k] = osip_ist_timeout_g_event(k)
                /\ Send({Msg("refuse", k)})
  <2>1. CASE c # k
    BY <1>0, <1>5, <2>1 DEF TimeoutIst
  <2>2. CASE c = k
    BY <1>0, <1>5, <2>2 DEF TimeoutIst
  <2> QED
    BY <2>1, <2>2
<1>6. CASE Expire /\ ~Tick
  <2>1. \/ ist' = ist
        \/ \E c \in Callee : TimeoutIst(c) \/ ist' = [ist EXCEPT ![c] = Terminated]
    BY <1>6 DEF Expire, TimeoutIct, TimeoutNict, TimeoutNist, Resend200, GiveUp,
       Terminate, ReleaseCaller, ReleaseCallee, Send200, TimeoutCancel
  <2> QED
    BY <1>0, <1>5, <1>6, <2>1, StateFacts
<1>7. CASE (Lose \/ UNCHANGED vars) /\ ~Tick
  BY <1>2, <1>7 DEF Lose, vars
<1> QED
  BY <1>1, <1>3, <1>4, <1>6, <1>7 DEF Next

(* What is heard of the messages that are sent again.                          *)
LEMMA ByeIsHeard ==
  ASSUME TransactionAssumption, Sound, NEW b \in 0..MaxCall, NEW x \in net,
         x.msg = Msg("BYE", b), Received(x)
  PROVE  Used(nist'[b])
<1>0. /\ nist \in [Branch -> Transactions(OtherState)] /\ 0..MaxCall \subseteq Branch
      /\ x.msg.m = "BYE" /\ x.msg.k = b
  <2>1. x.msg.m = "BYE" /\ x.msg.k = b
    BY DEF Msg
  <2> QED
    BY <2>1, MessageType DEF Sound, TypeOK, CallTypeOK
<1>1. RcvByeOfCaller(x, FALSE) \/ RcvByeOfCallee(x, FALSE)
  BY <1>0 DEF Received, RcvInvite, RcvAck, RcvStrayBye, Rcv1xx, Rcv2xx, RcvRefuse, RcvByeAnswered,
     RcvCancel, RcvCancelAnswered
<1>2. nist' = [nist EXCEPT ![b] = nist_snd_23456xx] \/ (Alive(nist[b]) /\ nist' = nist)
  BY <1>0, <1>1 DEF RcvByeOfCaller, RcvByeOfCallee
<1>3. nist'[b] = nist_snd_23456xx \/ (Alive(nist[b]) /\ nist'[b] = nist[b])
  BY <1>0, <1>2
<1> QED
  BY <1>3, StateFacts DEF Used, Alive

LEMMA AnswerIsHeard ==
  ASSUME TransactionAssumption, NEW k, NEW x \in net, Received(x),
         x.msg = Msg("refuse", k) \/ x.msg = Msg("200", k)
  PROVE  ~Inviting'
<1>0. x.msg.m \in {"refuse", "200"}
  BY DEF Msg
<1>1. RcvRefuse(x, FALSE) \/ Rcv2xx(x, FALSE)
  BY <1>0 DEF Received, RcvInvite, RcvAck, RcvByeOfCaller, RcvStrayBye, Rcv1xx, RcvByeOfCallee,
     RcvByeAnswered, RcvCancel, RcvCancelAnswered
<1>2. ict' \in {ict_rcv_3456xx, Terminated} \/ (~Inviting /\ ict' = ict)
  BY <1>1 DEF RcvRefuse, Rcv2xx
<1> QED
  BY <1>2, StateFacts DEF Inviting

LEMMA CoveredKept ==
  ASSUME TransactionAssumption, Sound, [Next]_vars, ~Tick, NEW t, NEW m,
         Covered(t, FreshIn(m, net), faults),
         ~ \E x \in net : x.msg = m /\ Received(x)
  PROVE  Covered(t, FreshIn(m, net'), faults')
<1>1. faults \in Nat /\ faults' \in Nat
  BY SoundStep DEF Sound, TypeOK, CallTypeOK
<1>2. /\ faults' >= faults
      /\ FreshIn(m, net) => FreshIn(m, net') \/ faults' >= faults + 1
  BY FreshStays DEF Sound
<1> QED
  BY <1>1, <1>2, CoveredStays

LEMMA CoveredTicks ==
  ASSUME TransactionAssumption, Sound, Tick, NEW S, NEW t \in Transactions(S), NEW m,
         Covered(t, FreshIn(m, net), faults), ~Due(t)
  PROVE  Covered(Later(t), FreshIn(m, net'), faults')
<1>1. faults \in Nat /\ faults' \in Nat
  BY SoundStep DEF Sound, TypeOK, CallTypeOK, Next
<1>2. /\ faults' >= faults /\ (FreshIn(m, net) => faults' >= faults + 1)
      /\ FreshIn(m, net') = FALSE
  BY TickFaults DEF Sound
<1>3. Covered(Later(t), FALSE, faults')
  BY <1>1, <1>2, CoveredLater
<1> QED
  BY <1>2, <1>3

LEMMA ByeStep ==
  ASSUME TransactionAssumption, TimeAssumption, FewFaults, Sound, ByeInv, [Next]_vars
  PROVE  ByeInv'
<1> SUFFICES ASSUME NEW b \in 0..MaxCall, Used(nict'[b]), ~Used(nist'[b])
             PROVE  /\ nict'[b].state = "TRYING"
                    /\ Covered(nict'[b], FreshIn(Msg("BYE", b), net'), faults')
  BY DEF ByeInv
<1> DEFINE m == Msg("BYE", b)
           f == FreshIn(m, net')
<1>0. /\ ~Used(nist[b]) /\ faults \in 0..MaxFaults /\ faults' \in Nat
      /\ nict[b] \in Transactions(OtherState)
  BY SoundStep DEF Forward, Sound, TypeOK, CallTypeOK
<1>1. Used(nict[b]) => nict[b].state = "TRYING" /\ Covered(nict[b], FreshIn(m, net), faults)
  BY <1>0 DEF ByeInv
<1>2. ~ \E x \in net : x.msg = m /\ Received(x)
  BY ByeIsHeard
<1>3. Send({m}) => f = TRUE /\ faults' = faults
  BY SentIsFresh
<1>4. ByeTimers(nict[b])
  BY DEF Sound, TimerInv
<1>5. CASE ~Tick /\ nict'[b] = nict[b]
  BY <1>1, <1>2, <1>5, CoveredKept
<1>6. CASE Tick /\ ~Due(nict[b]) /\ nict'[b] = Later(nict[b])
  <2>1. Later(nict[b]).state = nict[b].state
    BY <1>0, LaterFacts
  <2>2. Used(nict[b])
    BY <1>6, <2>1 DEF Used
  <2> QED
    BY <1>0, <1>1, <1>6, <2>1, <2>2, CoveredTicks
<1>7. CASE nict'[b] = nict_snd_request /\ Send({m})
  <2>1. Covered(nict_snd_request, TRUE, faults')
    BY <1>0, CoveredStarts, StateFacts
  <2> QED
    BY <1>3, <1>7, <2>1, StateFacts
<1>8. CASE nict[b].resend = 0 /\ nict'[b] = osip_nict_timeout_e_event(nict[b]) /\ Send({m})
  <2>1. Used(nict[b])
    BY <1>4, <1>8 DEF ByeTimers, Off
  <2>2. osip_nict_timeout_e_event(nict[b]).state = nict[b].state
    BY <1>0, ResendFacts DEF osip_nict_timeout_e_event
  <2>3. FreshIn(m, net) \in BOOLEAN /\ faults \in Nat
    BY <1>0 DEF FreshIn
  <2>4. Covered(osip_nict_timeout_e_event(nict[b]), TRUE, faults)
    BY <1>0, <1>1, <1>8, <2>1, <2>3, CoveredResent DEF osip_nict_timeout_e_event
  <2> QED
    BY <1>1, <1>3, <1>8, <2>1, <2>2, <2>4
<1>9. CASE nict[b].end = 0
  <2>1. Used(nict[b])
    BY <1>4, <1>9 DEF ByeTimers, Off
  <2> QED
    BY <1>0, <1>1, <1>9, <2>1, CoveredGoesOn
<1> QED
  BY <1>0, <1>5, <1>6, <1>7, <1>8, <1>9, ByeCases

LEMMA RefuseStep ==
  ASSUME TransactionAssumption, TimeAssumption, Sound, RefuseInv, [Next]_vars
  PROVE  RefuseInv'
<1> SUFFICES ASSUME Inviting', ist'[1].state = "COMPLETED"
             PROVE  Covered(ist'[1], FreshIn(Msg("refuse", 1), net'), faults')
  BY DEF RefuseInv
<1> DEFINE m == Msg("refuse", 1)
           f == FreshIn(m, net')
<1>0. /\ 1 \in Callee /\ Inviting /\ faults \in 0..MaxFaults /\ faults' \in Nat
      /\ ist[1] \in Transactions(InviteState)
  BY SoundStep DEF Forward, Sound, TypeOK, CallTypeOK, Callee, TransactionAssumption
<1>1. ist[1].state = "COMPLETED" => Covered(ist[1], FreshIn(m, net), faults)
  BY <1>0 DEF RefuseInv
<1>2. ~ \E x \in net : x.msg = m /\ Received(x)
  BY AnswerIsHeard
<1>3. Send({m}) => f = TRUE /\ faults' = faults
  BY SentIsFresh
<1>4. IstTimers(ist[1])
  BY <1>0 DEF Sound, TimerInv
<1>5. CASE ~Tick /\ ist'[1] = ist[1]
  BY <1>1, <1>2, <1>5, CoveredKept
<1>6. CASE Tick /\ ~Due(ist[1]) /\ ist'[1] = Later(ist[1])
  <2>1. Later(ist[1]).state = ist[1].state
    BY <1>0, LaterFacts
  <2> QED
    BY <1>0, <1>1, <1>6, <2>1, CoveredTicks
<1>7. CASE ist'[1] = ist_snd_3456xx /\ f
  <2>1. Covered(ist_snd_3456xx, TRUE, faults') /\ f \in BOOLEAN
    BY <1>0, CoveredStarts, StateFacts DEF FreshIn
  <2> QED
    BY <1>7, <2>1
<1>8. CASE ist[1].resend = 0 /\ ist'[1] = osip_ist_timeout_g_event(1) /\ Send({m})
  <2>1. ist[1].state = "COMPLETED"
    BY <1>4, <1>8 DEF IstTimers, Off
  <2>2. FreshIn(m, net) \in BOOLEAN /\ faults \in Nat
    BY <1>0 DEF FreshIn
  <2>3. Covered(osip_ist_timeout_g_event(1), TRUE, faults)
    BY <1>0, <1>1, <1>8, <2>1, <2>2, CoveredResent DEF osip_ist_timeout_g_event
  <2> QED
    BY <1>3, <1>8, <2>3
<1> QED
  BY <1>0, <1>5, <1>6, <1>7, <1>8, RefuseCases

-----------------------------------------------------------------------------
(* What becomes of a callee's numbers: the age of the INVITE and when and how  *)
(* often the 200 OK is sent again.                                             *)

SameNumbers(c, d) == d.age \in {c.age, 0} /\ d.wait = c.wait /\ d.count = c.count

Accepts(c, d) == d.age = 0 /\ d.wait = Gap[1] /\ d.count = c.count

Resends(c, d) ==
  /\ d.age = c.age /\ d.count = c.count + 1
  /\ d.wait = IF c.count + 1 < Len(Gap) THEN Gap[c.count + 1 + 1] ELSE 0

HearsAck(c, d) == d.age = c.age /\ d.wait = Off /\ d.count = 0

LEMMA NumberFacts ==
  ASSUME NEW c \in CalleeCall
  PROVE  /\ SameNumbers(c, c)
         /\ \A b : SameNumbers(c, Closed(c, b))
         /\ SameNumbers(c, Released(c))
         /\ SameNumbers(c, [c EXCEPT !.jd = "early", !.heard = "asked"])
         /\ SameNumbers(c, [c EXCEPT !.jd = "empty", !.heard = "off"])
         /\ Accepts(c, [c EXCEPT !.jd = "confirmed", !.heard = "up", !.age = 0, !.wait = Gap[1]])
         /\ HearsAck(c, [c EXCEPT !.wait = Off, !.count = 0])
<1>1. /\ SameNumbers(c, c)
      /\ \A b : SameNumbers(c, Closed(c, b))
      /\ SameNumbers(c, Released(c))
  BY DEF CalleeCall, SameNumbers, Closed, Released
<1>2. /\ SameNumbers(c, [c EXCEPT !.jd = "early", !.heard = "asked"])
      /\ SameNumbers(c, [c EXCEPT !.jd = "empty", !.heard = "off"])
  BY DEF CalleeCall, SameNumbers
<1>3. /\ Accepts(c, [c EXCEPT !.jd = "confirmed", !.heard = "up", !.age = 0, !.wait = Gap[1]])
      /\ HearsAck(c, [c EXCEPT !.wait = Off, !.count = 0])
  BY DEF CalleeCall, Accepts, HearsAck
<1> QED
  BY <1>1, <1>2, <1>3

LEMMA ResendNumbers ==
  ASSUME TransactionAssumption, TypeOK, NEW k \in Callee, Resend200(k)
  PROVE  /\ Resends(callee[k], callee'[k])
         /\ \A j \in Callee : j # k => callee'[j] = callee[j]
<1> DEFINE c == callee[k]
           n == c.count + 1
           w == IF n < Len(Gap) THEN Gap[n + 1] ELSE 0
           d == [c EXCEPT !.count = n, !.wait = w]
<1>0. c \in CalleeCall /\ callee \in [Callee -> CalleeCall]
  BY DEF TypeOK, CallTypeOK
<1>1. callee' = [callee EXCEPT ![k] = d]
  BY DEF Resend200
<1>2. d.age = c.age /\ d.count = n /\ d.wait = w
  <2> HIDE DEF n, w, c
  <2> QED
    BY <1>0 DEF CalleeCall
<1> HIDE DEF d, w, n
<1>3. callee'[k] = d /\ \A j \in Callee : j # k => callee'[j] = callee[j]
  BY <1>0, <1>1
<1> QED
  BY <1>2, <1>3 DEF Resends, n, w

LEMMA CalleeNumbers ==
  ASSUME TransactionAssumption, Sound, [Next]_vars, ~Tick, NEW k \in Callee
  PROVE  \/ SameNumbers(callee[k], callee'[k])
         \/ Accept(k) /\ Accepts(callee[k], callee'[k])
         \/ Resend200(k) /\ Resends(callee[k], callee'[k])
         \/ HasDialog(callee[k]) /\ ~Inviting /\ HearsAck(callee[k], callee'[k])
<1>0. callee[k] \in CalleeCall /\ callee \in [Callee -> CalleeCall] /\ TypeOK
  BY DEF Sound, TypeOK, CallTypeOK
<1> DEFINE Same(d) == SameNumbers(callee[k], d)
<1>1. ASSUME NEW j \in Callee, NEW d, callee' = [callee EXCEPT ![j] = d]
      PROVE  (j = k => callee'[k] = d) /\ (j # k => Same(callee'[k]))
  BY <1>0, <1>1, NumberFacts
<1>2. UNCHANGED callee => Same(callee'[k])
  BY <1>0, NumberFacts
<1>3. ASSUME NEW j \in Callee, NewInvite(j) PROVE Same(callee'[k])
  <2>1. callee' = [callee EXCEPT ![j] = [callee[j] EXCEPT !.jd = "early", !.heard = "asked"]]
    BY <1>3 DEF NewInvite
  <2>2. CASE j = k
    <3>1. callee'[k] = [callee[k] EXCEPT !.jd = "early", !.heard = "asked"]
      BY <1>1, <2>1, <2>2
    <3> QED
      BY <1>0, <3>1, NumberFacts
  <2> QED
    BY <1>1, <2>1, <2>2
<1>r. ASSUME NEW j \in Callee, Refused(j) PROVE Same(callee'[k])
  <2>1. callee' = [callee EXCEPT ![j] = [callee[j] EXCEPT !.jd = "empty", !.heard = "off"]]
    BY <1>r DEF Refused
  <2>2. CASE j = k
    <3>1. callee'[k] = [callee[k] EXCEPT !.jd = "empty", !.heard = "off"]
      BY <1>1, <2>1, <2>2
    <3> QED
      BY <1>0, <3>1, NumberFacts
  <2> QED
    BY <1>1, <2>1, <2>2
<1>4. ASSUME NEW j \in Callee, Terminate(j) PROVE Same(callee'[k])
  <2>1. callee' = [callee EXCEPT ![j] = Closed(callee[j], j)]
    BY <1>4 DEF Terminate
  <2>2. CASE j = k
    <3>1. callee'[k] = Closed(callee[k], k)
      BY <1>1, <2>1, <2>2
    <3> QED
      BY <1>0, <3>1, NumberFacts
  <2> QED
    BY <1>1, <2>1, <2>2
<1>5. CASE Receive
  <2>1. ASSUME NEW x \in net, NEW again \in BOOLEAN, RcvInvite(x, again) PROVE Same(callee'[k])
    BY <1>2, <1>3, <2>1 DEF RcvInvite, NeverAsked
  <2>2. ASSUME NEW x \in net, NEW again \in BOOLEAN, RcvAck(x, again)
        PROVE  Same(callee'[k]) \/ (HasDialog(callee[k]) /\ ~Inviting /\ HearsAck(callee[k], callee'[k]))
    <3>1. ~Inviting
      BY <2>2, JustifiedFacts DEF RcvAck, Sound
    <3>2. CASE UNCHANGED callee
      BY <1>2, <3>2
    <3>3. CASE ProcessAck
      <4>1. CASE k \in Live
        <5>1. callee'[k] = [callee[k] EXCEPT !.wait = Off, !.count = 0]
          BY <3>3, <4>1 DEF ProcessAck
        <5>2. HearsAck(callee[k], callee'[k])
          BY <1>0, <5>1, NumberFacts
        <5> QED
          BY <3>1, <4>1, <5>2 DEF Live
      <4>2. CASE k \notin Live
        <5>1. callee'[k] = callee[k]
          BY <3>3, <4>2 DEF ProcessAck
        <5> QED
          BY <1>0, <5>1, NumberFacts
      <4> QED
        BY <4>1, <4>2
    <3> QED
      BY <2>2, <3>2, <3>3 DEF RcvAck
  <2>3. ASSUME NEW x \in net, NEW again \in BOOLEAN,
               RcvByeOfCaller(x, again) \/ RcvStrayBye(x, again)
        PROVE  Same(callee'[k])
    <3>1. \/ callee'[k] = callee[k] \/ \E b : callee'[k] = Closed(callee[k], b)
      BY <2>3 DEF RcvByeOfCaller, RcvStrayBye
    <3> QED
      BY <1>0, <3>1, NumberFacts
  <2>4. ASSUME NEW x \in net, NEW again \in BOOLEAN,
               \/ Rcv1xx(x, again) \/ Rcv2xx(x, again) \/ RcvRefuse(x, again)
               \/ RcvByeOfCallee(x, again) \/ RcvByeAnswered(x, again)
               \/ RcvCancelAnswered(x, again)
        PROVE  Same(callee'[k])
    BY <1>2, <2>4 DEF Rcv1xx, Rcv2xx, RcvRefuse, RcvByeOfCallee, RcvByeAnswered, RcvCancelAnswered
  <2>5. ASSUME NEW x \in net, NEW again \in BOOLEAN, RcvCancel(x, again) PROVE Same(callee'[k])
    BY <1>2, <1>r, <2>5 DEF RcvCancel
  <2> QED
    BY <1>5, <2>1, <2>2, <2>3, <2>4, <2>5 DEF Receive
<1>6. CASE Program
  <2>1. ASSUME NEW j \in Callee, Accept(j)
        PROVE  Same(callee'[k]) \/ (Accept(k) /\ Accepts(callee[k], callee'[k]))
    <3>1. callee' = [callee EXCEPT ![j] = [callee[j] EXCEPT !.jd = "confirmed", !.heard = "up",
                                                          !.age = 0, !.wait = Gap[1]]]
      BY <2>1 DEF Accept
    <3>2. CASE j = k
      <4>1. callee'[k] = [callee[k] EXCEPT !.jd = "confirmed", !.heard = "up",
                                           !.age = 0, !.wait = Gap[1]]
        BY <1>1, <3>1, <3>2
      <4>2. Accepts(callee[k], callee'[k])
        BY <1>0, <4>1, NumberFacts
      <4> QED
        BY <2>1, <3>2, <4>2
    <3> QED
      BY <1>1, <3>1, <3>2
  <2>2. ASSUME NEW j \in Callee, Refuse(j) PROVE Same(callee'[k])
    BY <1>r, <2>2 DEF Refuse
  <2> QED
    BY <1>2, <1>4, <1>6, <2>1, <2>2 DEF Program, SendAck, CallerHangsUp, CalleeHangsUp, CallerCancels
<1>7. CASE Expire
  <2>1. ASSUME NEW j \in Callee, Resend200(j)
        PROVE  Same(callee'[k]) \/ (Resend200(k) /\ Resends(callee[k], callee'[k]))
    BY <1>0, <2>1, ResendNumbers, NumberFacts
  <2>2. ASSUME NEW j \in Callee, ReleaseCallee(j) PROVE Same(callee'[k])
    <3>1. callee' = [callee EXCEPT ![j] = Released(callee[j])]
      BY <2>2 DEF ReleaseCallee
    <3>2. CASE j = k
      <4>1. callee'[k] = Released(callee[k])
        BY <1>1, <3>1, <3>2
      <4> QED
        BY <1>0, <4>1, NumberFacts
    <3> QED
      BY <1>1, <3>1, <3>2
  <2> QED
    BY <1>2, <1>4, <1>7, <2>1, <2>2 DEF Expire, TimeoutIct, TimeoutIst, TimeoutNict, TimeoutNist,
       GiveUp, ReleaseCaller, Send200, TimeoutCancel
<1>8. CASE Lose \/ UNCHANGED vars
  BY <1>2, <1>8 DEF Lose, vars
<1> QED
  BY <1>5, <1>6, <1>7, <1>8 DEF Next

(* How an INVITE's transaction ends at the callee.                             *)
LEMMA IstEnds ==
  ASSUME TransactionAssumption, Sound, [Next]_vars, NEW k \in Callee, Alive(ist[k]), ~Alive(ist'[k])
  PROVE  ist[k].end = 0 \/ Send200(k) \/ CalleeReleasable(k)
<1>0. ist[k] \in Transactions(InviteState) /\ ist \in [Callee -> Transactions(InviteState)]
      /\ TypeOK
  BY DEF Sound, TypeOK, CallTypeOK
<1>1. ist'[k] # ist[k]
  OBVIOUS
<1>2. \A j \in Callee : \A t : ist' = [ist EXCEPT ![j] = t] => j = k /\ ist'[k] = t
  BY <1>0, <1>1
<1>3. ASSUME Tick PROVE FALSE
  <2>1. ist'[k] = Later(ist[k])
    BY <1>3 DEF Tick
  <2> QED
    BY <1>0, <2>1, LaterFacts DEF Alive
<1>4. ASSUME Receive PROVE FALSE
  <2>1. \/ ist' = ist
        \/ \E c \in Callee : \/ ist' = [ist EXCEPT ![c] = ist_rcv_invite]
                             \/ ist' = [ist EXCEPT ![c] = ist_snd_3456xx]
        \/ ist' = [c \in Callee |->
                     IF ist[c].state \in {"COMPLETED", "CONFIRMED"} THEN ist_rcv_ack ELSE ist[c]]
    BY <1>4, ReceiveOfIst
  <2>2. ist'[k] = ist_rcv_invite \/ ist'[k] = ist_snd_3456xx \/ ist'[k] = ist_rcv_ack
    BY <1>1, <1>2, <2>1
  <2> QED
    BY <2>2, StateFacts DEF Alive
<1>5. CASE Program
  <2>1. \/ ist' = ist
        \/ \E c \in Callee : ist' = [ist EXCEPT ![c] = ist_snd_3456xx]
    BY <1>5 DEF Program, Accept, Refuse, Refused, SendAck, CallerHangsUp, CalleeHangsUp, Terminate,
       CallerCancels
  <2>2. ist'[k] = ist_snd_3456xx
    BY <1>1, <1>2, <2>1
  <2> QED
    BY <2>2, StateFacts DEF Alive
<1>6. CASE Expire
  <2>1. \/ ist' = ist
        \/ \E c \in Callee :
             \/ ist' = [ist EXCEPT ![c] = osip_ist_timeout_g_event(c)]
             \/ ist[c].end = 0 /\ ist' = [ist EXCEPT ![c] = Terminated]
             \/ Send200(c) /\ ist' = [ist EXCEPT ![c] = Terminated]
             \/ CalleeReleasable(c) /\ ist' = [ist EXCEPT ![c] = Terminated]
    BY <1>6 DEF Expire, TimeoutIct, TimeoutIst, TimeoutNict, TimeoutNist, Resend200, GiveUp,
       Terminate, ReleaseCaller, ReleaseCallee, Send200, TimeoutCancel
  <2>2. \/ ist'[k] = osip_ist_timeout_g_event(k) \/ ist[k].end = 0 \/ Send200(k)
        \/ CalleeReleasable(k)
    BY <1>1, <1>2, <2>1
  <2>3. osip_ist_timeout_g_event(k).state = ist[k].state
    BY <1>0, ResendFacts DEF osip_ist_timeout_g_event
  <2> QED
    BY <2>2, <2>3 DEF Alive
<1>7. ASSUME Lose \/ UNCHANGED vars PROVE FALSE
  BY <1>1, <1>7 DEF Lose, vars
<1> QED
  BY <1>3, <1>4, <1>5, <1>6, <1>7 DEF Next

(* The time to the next 200 OK, and who ended a call.                          *)
WaitInv ==
  \A k \in Callee :
    /\ ~Accepted(k) => callee[k].wait = Off /\ callee[k].count = 0
    /\ Awaited(k) => IF callee[k].count < Len(Gap)
                       THEN callee[k].wait \in 0..Gap[callee[k].count + 1]
                       ELSE callee[k].wait = 0
    /\ callee[k].bye = k => Accepted(k)

LEMMA GapFacts ==
  ASSUME TransactionAssumption
  PROVE  /\ Len(Gap) \in Nat \ {0} /\ \A n \in 1..Len(Gap) : Gap[n] \in Nat \ {0}
BY DEF TransactionAssumption

LEMMA CalleeNumberType ==
  ASSUME TransactionAssumption, Sound, NEW k \in Callee
  PROVE  /\ callee[k].count \in 0..Len(Gap) /\ callee[k].wait \in Nat \cup {-1}
         /\ callee[k].age \in 0..Longest /\ faults \in 0..MaxFaults /\ MaxFaults \in Nat
BY DEF Sound, TypeOK, CallTypeOK, CalleeCall, Time, Off, TransactionAssumption

LEMMA WaitStep ==
  ASSUME TransactionAssumption, Sound, WaitInv, [Next]_vars
  PROVE  WaitInv'
<1> SUFFICES ASSUME NEW k \in Callee
             PROVE  /\ ~Accepted(k)' => callee'[k].wait = Off /\ callee'[k].count = 0
                    /\ Awaited(k)' => IF callee'[k].count < Len(Gap)
                                        THEN callee'[k].wait \in 0..Gap[callee'[k].count + 1]
                                        ELSE callee'[k].wait = 0
                    /\ callee'[k].bye = k => Accepted(k)'
  BY DEF WaitInv
<1>0. /\ Accepted(k) => Accepted(k)'
      /\ CalleeMove(k) /\ TypeOK /\ Sound' /\ CalleeShape(k)
      /\ callee[k].jd = "confirmed" => Accepted(k)
  BY SoundStep DEF Forward, Moves, CalleeMove, Sound, Shape, CallInv, CalleeInv, Accepted
<1>1. /\ ~Accepted(k) => callee[k].wait = Off /\ callee[k].count = 0
      /\ Awaited(k) => IF callee[k].count < Len(Gap)
                         THEN callee[k].wait \in 0..Gap[callee[k].count + 1]
                         ELSE callee[k].wait = 0
      /\ callee[k].bye = k => Accepted(k)
  BY DEF WaitInv
<1>2. callee'[k].bye = k => Accepted(k)'
  <2>1. k # 0 /\ Own(k) # k
    BY DEF Callee, Own, TransactionAssumption
  <2>2. callee'[k].bye = callee[k].bye \/ \E b : CalleeEndsWith(k, b)
    BY <1>0 DEF CalleeMove, CalleeStays, CalleeRings, CalleeAccepts, CalleeAnswers, CalleeRefuses, CalleeHearsAck,
       CalleeHearsAckOfRefuse, CalleeLeaves
  <2>3. ASSUME NEW b, CalleeEndsWith(k, b), callee'[k].bye = k PROVE Accepted(k)
    BY <1>0, <2>1, <2>3 DEF CalleeEndsWith
  <2> QED
    BY <1>0, <1>1, <2>2, <2>3
<1>3. ~Accepted(k)' => callee'[k].wait = Off /\ callee'[k].count = 0
  <2> SUFFICES ASSUME ~Accepted(k)' PROVE callee'[k].wait = Off /\ callee'[k].count = 0
    OBVIOUS
  <2>0. ~Accepted(k) /\ callee[k].wait = Off /\ callee[k].count = 0
    BY <1>0, <1>1
  <2>1. CASE Tick
    <3>1. ~Awaited(k)
      BY <1>0, <2>0 DEF Awaited
    <3> QED
      BY <1>0, <2>0, <2>1, <3>1, TickCallee
  <2>2. CASE Accept(k)
    <3>1. callee'[k].heard = "up"
      BY <1>0, <2>2 DEF Accept, TypeOK, CallTypeOK, CalleeCall
    <3> QED
      BY <3>1 DEF Accepted
  <2>3. CASE ~Tick /\ ~Accept(k)
    <3>1. ~Resend200(k)
      BY <2>0 DEF Resend200, Awaited
    <3> QED
      BY <2>0, <2>3, <3>1, CalleeNumbers DEF SameNumbers, HearsAck
  <2> QED
    BY <2>1, <2>2, <2>3
<1>4. Awaited(k)' => IF callee'[k].count < Len(Gap)
                       THEN callee'[k].wait \in 0..Gap[callee'[k].count + 1]
                       ELSE callee'[k].wait = 0
  <2> SUFFICES ASSUME callee'[k].jd = "confirmed", callee'[k].wait # Off
               PROVE  IF callee'[k].count < Len(Gap)
                        THEN callee'[k].wait \in 0..Gap[callee'[k].count + 1]
                        ELSE callee'[k].wait = 0
    BY DEF Awaited
  <2>1. callee[k].jd = "confirmed" \/ (callee[k].jd = "early" /\ ~Accepted(k))
    <3>1. callee[k].jd = "early" => ~Accepted(k)
      BY <1>0 DEF Sound, CallInv, CalleeInv, Accepted
    <3> QED
      BY <1>0, <3>1 DEF CalleeMove, CalleeStays, CalleeRings, CalleeAccepts, CalleeAnswers, CalleeRefuses,
         CalleeHearsAck, CalleeHearsAckOfRefuse, CalleeLeaves, CalleeEndsWith
  <2>2. callee[k].wait # Off => Awaited(k)
    BY <1>1, <2>1 DEF Awaited
  <2>3. CASE SameNumbers(callee[k], callee'[k])
    BY <1>1, <2>2, <2>3 DEF SameNumbers
  <2>4. CASE Accept(k) /\ Accepts(callee[k], callee'[k])
    <3>1. callee[k].count = 0
      BY <1>0, <1>1, <2>4 DEF Accept, Accepted
    <3>2. callee'[k].wait = Gap[1] /\ callee'[k].count = 0
      BY <2>4, <3>1 DEF Accepts
    <3> QED
      BY <3>2, GapFacts
  <2>5. CASE Resends(callee[k], callee'[k])
    <3>1. /\ callee'[k].count = callee[k].count + 1
          /\ callee'[k].wait = IF callee'[k].count < Len(Gap) THEN Gap[callee'[k].count + 1] ELSE 0
      BY <2>5 DEF Resends
    <3>2. callee'[k].count \in 0..Len(Gap)
      BY <1>0, <3>1 DEF Sound, TypeOK, CallTypeOK, CalleeCall
    <3>3. callee'[k].count < Len(Gap) => Gap[callee'[k].count + 1] \in Nat
      BY <3>2, GapFacts
    <3> QED
      BY <3>1, <3>3
  <2>6. CASE HearsAck(callee[k], callee'[k])
    BY <2>6 DEF HearsAck
  <2>7. CASE Tick
    <3>1. /\ callee'[k].count = callee[k].count
          /\ callee'[k].wait = IF Awaited(k) THEN callee[k].wait - 1 ELSE callee[k].wait
      BY <1>0, <2>7, TickCallee
    <3>2. Awaited(k)
      BY <2>2, <3>1
    <3>3. callee[k].wait # 0
      BY <2>7, <3>2 DEF Tick, SomethingDue
    <3>4. callee[k].count < Len(Gap) => Gap[callee[k].count + 1] \in Nat
      BY CalleeNumberType, GapFacts
    <3> QED
      BY <1>1, <3>1, <3>2, <3>3, <3>4
  <2> QED
    BY <2>3, <2>4, <2>5, <2>6, <2>7, CalleeNumbers
<1> QED
  BY <1>2, <1>3, <1>4

(* A call that was hung up before its ACK stays so.                            *)
LEMMA HungUpEarlyStays ==
  ASSUME TransactionAssumption, Sound, [Next]_vars, NEW k \in Callee, HungUpEarly(k)
  PROVE  HungUpEarly(k)'
<1>0. /\ CalleeMove(k) /\ TypeOK /\ CalleeShape(k) /\ callee[k].bye = k /\ k # Off
      /\ callee[k].wait # Off /\ callee[k].count < Len(Gap)
  BY SoundStep DEF Moves, CalleeMove, Sound, Shape, HungUpEarly, Callee, Off
<1>1. ~HasDialog(callee[k])
  BY <1>0 DEF CalleeShape, HasDialog
<1>2. callee'[k].bye = k
  BY <1>0, <1>1 DEF CalleeMove, CalleeStays, CalleeRings, CalleeAccepts, CalleeAnswers, CalleeRefuses,
     CalleeHearsAck, CalleeHearsAckOfRefuse, CalleeLeaves, CalleeEndsWith, HasDialog
<1>3. callee'[k].wait = callee[k].wait /\ callee'[k].count = callee[k].count
  <2>1. ~Awaited(k)
    BY <1>1 DEF Awaited, HasDialog
  <2>2. ~Accept(k) /\ ~Resend200(k)
    BY <1>1, <2>1 DEF Accept, Resend200, Sound, CallInv, CalleeInv, HasDialog
  <2>3. CASE Tick
    BY <1>0, <2>1, <2>3, TickCallee
  <2>4. CASE ~Tick
    BY <1>1, <2>2, <2>4, CalleeNumbers DEF SameNumbers
  <2> QED
    BY <2>3, <2>4
<1> QED
  BY <1>0, <1>2, <1>3 DEF HungUpEarly

(* As long as the caller waits for an answer, each 200 OK of the first call    *)
(* but the one queued or under way was lost or is late.                        *)
OkInv ==
  Inviting /\ Accepted(1) =>
    callee[1].count < faults + (IF callee[1].wait # 0 /\ (Queued(1) \/ FreshIn(Msg("200", 1), net))
                                  THEN 1 ELSE 0)

(* A queued 200 OK is sent in time.                                            *)
LEMMA QueueSends ==
  ASSUME TransactionAssumption, Sound, [Next]_vars, NEW k \in Callee, Queued(k)
  PROVE  ~Tick /\ (Queued(k)' \/ Send200(k))
<1>0. /\ CalleeMove(k) /\ CalleeShape(k) /\ ist[k].state = "PROCEEDING"
      /\ callee[k].heard \in {"up", "over"} /\ callee[k].age = 0 /\ IstTimers(ist[k])
  BY SoundStep DEF Moves, CalleeMove, Sound, Shape, TimerInv, QueueTimers, Queued
<1>1. ~Tick
  BY DEF Tick, SomethingDue
<1>2. callee'[k].heard \in {"up", "over"}
  BY <1>0, SoundStep DEF Forward, Accepted
<1>3. ~CalleeReleasable(k)
  <2>1. callee[k].age # Longest /\ Alive(ist[k])
    BY <1>0 DEF TransactionAssumption, Alive
  <2> QED
    BY <1>0, <2>1 DEF CalleeReleasable, Releasable
<1>4. Alive(ist[k]) /\ ist[k].end # 0
  BY <1>0 DEF Alive, IstTimers, Off
<1>5. CASE Alive(ist'[k])
  <2>1. ist'[k].state = "PROCEEDING"
    BY <1>0, <1>5 DEF CalleeMove, CalleeStays, CalleeRings, CalleeAccepts, CalleeAnswers, CalleeRefuses,
       CalleeHearsAck, CalleeHearsAckOfRefuse, CalleeLeaves, CalleeEndsWith, Alive
  <2> QED
    BY <1>1, <1>2, <2>1 DEF Queued
<1>6. CASE ~Alive(ist'[k])
  BY <1>1, <1>3, <1>4, <1>6, IstEnds
<1> QED
  BY <1>5, <1>6

LEMMA OkStep ==
  ASSUME TransactionAssumption, FewFaults, Sound, WaitInv, OkInv, [Next]_vars
  PROVE  OkInv'
<1> DEFINE m == Msg("200", 1)
           c == callee[1].count
           fresh == Queued(1) \/ FreshIn(m, net)
           still == Queued(1)' \/ FreshIn(m, net')
<1> SUFFICES ASSUME Inviting', Accepted(1)'
             PROVE  callee'[1].count < faults' + (IF callee'[1].wait # 0 /\ still THEN 1 ELSE 0)
  BY DEF OkInv
<1>0. /\ 1 \in Callee /\ Inviting /\ Sound' /\ CalleeMove(1) /\ TypeOK
  BY SoundStep DEF Forward, Moves, CalleeMove, Sound, Callee, TransactionAssumption
<1>1. /\ faults \in 0..MaxFaults /\ faults' \in 0..MaxFaults /\ MaxFaults \in Nat
      /\ c \in 0..Len(Gap) /\ callee'[1].count \in 0..Len(Gap) /\ Len(Gap) \in Nat \ {0}
      /\ MaxFaults < Len(Gap)
  BY <1>0, GapFacts DEF Sound, TypeOK, CallTypeOK, CalleeCall, TransactionAssumption, FewFaults
<1> DEFINE f == faults
           g == faults'
           d == callee'[1].count
<1>n. f \in Nat /\ g \in Nat /\ c \in Nat /\ d \in Nat
  BY <1>1
<1>2. ~ \E x \in net : x.msg = m /\ Received(x)
  BY AnswerIsHeard
<1>3. ASSUME Send({m}) PROVE FreshIn(m, net') /\ faults' = faults
  BY <1>3, SentIsFresh
<1>4. Accepted(1) => c < faults + (IF callee[1].wait # 0 /\ fresh THEN 1 ELSE 0)
  BY <1>0 DEF OkInv
<1>q. Queued(1) => ~Tick /\ still
  <2>1. Send200(1) => Send({m})
    BY DEF Send200
  <2> QED
    BY <1>0, <1>3, <2>1, QueueSends
<1>r. Queued(1) => callee[1].wait # 0
  BY <1>0 DEF Sound, TimerInv, QueueTimers
<1> HIDE DEF m, c
<1>5. CASE ~Accepted(1)
  <2>1. CalleeAccepts(1)
    BY <1>0, <1>5 DEF CalleeMove, CalleeStays, CalleeRings, CalleeAccepts, CalleeAnswers, CalleeRefuses,
       CalleeHearsAck, CalleeHearsAckOfRefuse, CalleeLeaves, CalleeEndsWith, Accepted, Ended
  <2>2. callee[1].wait = Off /\ callee[1].count = 0
    BY <1>0, <1>5 DEF WaitInv
  <2>3. ~Tick
    <3>1. Tick => callee'[1].heard = callee[1].heard
      BY <1>0, TickCallee
    <3> QED
      BY <1>5, <2>1, <3>1 DEF CalleeAccepts, Accepted
  <2>4. ~Resend200(1) /\ ~SameNumbers(callee[1], callee'[1]) /\ ~HearsAck(callee[1], callee'[1])
    <3>1. callee'[1].wait # Off
      BY <2>1 DEF CalleeAccepts
    <3>2. ~Resend200(1)
      BY <2>2 DEF Resend200, Awaited
    <3> QED
      BY <2>2, <3>1, <3>2 DEF SameNumbers, HearsAck
  <2>5. Accept(1) /\ Accepts(callee[1], callee'[1])
    BY <1>0, <2>3, <2>4, CalleeNumbers
  <2>6. callee'[1].wait = Gap[1] /\ callee'[1].count = 0 /\ Gap[1] # 0
    <3>1. Gap[1] # 0
      BY <1>1, GapFacts
    <3> QED
      BY <2>2, <2>5, <3>1 DEF Accepts
  <2>7. still
    <3>1. ist'[1].state = "PROCEEDING" /\ callee'[1].heard = "up"
      BY <2>1, <2>5 DEF CalleeAccepts, Accept
    <3> QED
      BY <3>1 DEF Queued
  <2>8. callee'[1].wait # 0
    BY <2>6
  <2>9. d < g + 1
    <3>1. d = 0
      BY <2>6
    <3> HIDE DEF d, g
    <3> QED
      BY <1>n, <3>1
  <2> QED
    BY <2>7, <2>8, <2>9
<1>6. CASE Accepted(1) /\ Tick
  <2>1. callee'[1].count = c
    BY <1>0, <1>6, TickCallee DEF c
  <2>2. faults' >= faults /\ (fresh => faults' >= faults + 1)
    BY <1>0, <1>6, <1>q, TickFaults
  <2>3. g >= f /\ (fresh => g >= f + 1) /\ c < f + (IF fresh THEN 1 ELSE 0)
    <3>1. c < f + (IF callee[1].wait # 0 /\ fresh THEN 1 ELSE 0)
      BY <1>4, <1>6
    <3> HIDE DEF f, fresh
    <3> QED
      BY <1>n, <2>2, <3>1 DEF f
  <2>4. c < g
    <3> HIDE DEF f, g, fresh
    <3> QED
      BY <1>n, <2>3
  <2>5. d < g
    BY <2>1, <2>4
  <2> HIDE DEF d, g, still
  <2> QED
    BY <1>n, <2>5 DEF d, g
<1>7. CASE Accepted(1) /\ ~Tick /\ SameNumbers(callee[1], callee'[1])
  <2>1. callee'[1].count = c /\ callee'[1].wait = callee[1].wait
    BY <1>7 DEF SameNumbers, c
  <2>2. /\ faults' >= faults
        /\ fresh => still \/ faults' >= faults + 1
    BY <1>0, <1>2, <1>7, <1>q, FreshStays
  <2>3. c < f + (IF callee[1].wait # 0 /\ fresh THEN 1 ELSE 0)
    BY <1>4, <1>7
  <2>4. g >= f /\ (fresh => still \/ g >= f + 1)
    BY <2>2
  <2>5. c < g + (IF callee[1].wait # 0 /\ still THEN 1 ELSE 0)
    <3> HIDE DEF f, g, fresh, still
    <3> QED
      BY <1>n, <2>3, <2>4
  <2> QED
    BY <2>1, <2>5
<1>8. CASE Accepted(1) /\ Resend200(1) /\ Resends(callee[1], callee'[1])
  <2>1. /\ callee[1].wait = 0 /\ c < Len(Gap) /\ FreshIn(m, net') /\ faults' = faults
    BY <1>3, <1>8 DEF Resend200, m, c
  <2>2. /\ callee'[1].count = c + 1
        /\ callee'[1].wait = IF c + 1 < Len(Gap) THEN Gap[c + 1 + 1] ELSE 0
    BY <1>8 DEF Resends, c
  <2>3. c < faults
    BY <1>1, <1>4, <1>8, <2>1
  <2>4. c + 1 < Len(Gap)
    BY <1>1, <2>3
  <2>5. Gap[c + 1 + 1] # 0
    BY <1>1, <2>4, GapFacts
  <2>6. callee'[1].wait # 0
    BY <2>2, <2>4, <2>5
  <2>7. d < g + 1
    <3>1. d = c + 1 /\ g = f /\ c < f
      BY <2>1, <2>2, <2>3
    <3> HIDE DEF d, f, g
    <3> QED
      BY <1>n, <3>1
  <2> QED
    BY <2>1, <2>6, <2>7
<1>9. ~(Accepted(1) /\ Accept(1))
  BY <1>0 DEF Accept, Accepted
<1> QED
  BY <1>0, <1>5, <1>6, <1>7, <1>8, <1>9, CalleeNumbers

(* While an INVITE is sent or under way, the first call is not so old that it  *)
(* would be dropped.                                                           *)
InviteUnderWay == ict.state = "CALLING" \/ \E x \in net : x.msg.m = "INVITE"

InviteInv ==
  /\ ict.state = "CALLING" => callee[1].age <= Long - ict.end
  /\ \A x \in net : x.msg.m = "INVITE" => callee[1].age <= x.age + Long

LEMMA InviteYoung ==
  ASSUME TransactionAssumption, TimeAssumption, Sound, InviteInv, InviteUnderWay
  PROVE  callee[1].age < Longest
<1>0. callee[1].age \in Nat /\ Long \in Nat /\ Longest \in Nat /\ Life \in Nat
      /\ Long + Life < Longest
  BY CalleeNumberType DEF TransactionAssumption, TimeAssumption, Callee
<1>1. CASE ict.state = "CALLING"
  <2>1. ict.end \in 0..Long
    BY <1>1 DEF Sound, TimerInv, IctTimers
  <2> QED
    BY <1>0, <1>1, <2>1 DEF InviteInv
<1>2. ASSUME NEW x \in net, x.msg.m = "INVITE" PROVE callee[1].age < Longest
  <2>1. x.age \in 0..Life
    BY PacketType DEF Sound, TypeOK, CallTypeOK
  <2>2. callee[1].age <= x.age + Long
    BY <1>2 DEF InviteInv
  <2> QED
    BY <1>0, <2>1, <2>2
<1> QED
  BY <1>1, <1>2 DEF InviteUnderWay

(* Only timer A sends the INVITE again.                                        *)
NoInvite(S) == \A s \in S : s.m # "INVITE"

InviteSilent == \E S : NoInvite(S) /\ net' \subseteq net \cup Fresh(S)

LEMMA NoInviteFacts ==
  /\ NoInvite({})
  /\ \A k : /\ NoInvite({Msg("101", k)}) /\ NoInvite({Msg("200", k)}) /\ NoInvite({Msg("refuse", k)})
            /\ NoInvite({Msg("BYE", k)}) /\ NoInvite({Msg("BYE answered", k)})
            /\ NoInvite({Msg("ACK", k)}) /\ NoInvite({Msg("ACK refuse", k)})
            /\ NoInvite({Msg("ACK", k), Msg("stray BYE", k)})
            /\ NoInvite({Msg("CANCEL", 0)}) /\ NoInvite({Msg("CANCEL answered", 0)})
            /\ NoInvite({Msg("CANCEL answered", 0), Msg("refuse", k)})
BY DEF NoInvite, Msg

LEMMA AnswersDoNotInvite ==
  ASSUME NEW k
  PROVE  NoInvite(LastResponse(k)) /\ NoInvite(OutOfTransaction(k))
<1>1. LastResponse(k) \in {{Msg("101", k)}, {Msg("refuse", k)}, {}}
  BY DEF LastResponse
<1>2. OutOfTransaction(k) \in {{Msg("ACK", 0)}, {Msg("ACK", 0), Msg("stray BYE", 0)}, {}}
  BY DEF OutOfTransaction
<1> QED
  BY <1>1, <1>2, NoInviteFacts

LEMMA SilentSteps ==
  /\ \A x, again, S : Exchange(x, again, S) /\ NoInvite(S) => InviteSilent
  /\ \A S : Send(S) /\ NoInvite(S) => InviteSilent
  /\ net' \subseteq net => InviteSilent
<1>1. ASSUME NEW x, NEW again, NEW S, Exchange(x, again, S), NoInvite(S) PROVE InviteSilent
  <2>1. net' \subseteq net \cup Fresh(S)
    BY <1>1 DEF Exchange
  <2> QED
    BY <1>1, <2>1 DEF InviteSilent
<1>2. ASSUME NEW S, Send(S), NoInvite(S) PROVE InviteSilent
  <2>1. net' \subseteq net \cup Fresh(S)
    BY <1>2 DEF Send
  <2> QED
    BY <1>2, <2>1 DEF InviteSilent
<1>3. ASSUME net' \subseteq net PROVE InviteSilent
  <2>1. net' \subseteq net \cup Fresh({})
    BY <1>3
  <2> QED
    BY <2>1, NoInviteFacts DEF InviteSilent
<1> QED
  BY <1>1, <1>2, <1>3

LEMMA ReceiveIsSilent ==
  ASSUME Receive
  PROVE  InviteSilent /\ (ict' = ict \/ ict' \in {ict_rcv_1xx, Terminated, ict_rcv_3456xx})
<1>1. ASSUME NEW x \in net, NEW again \in BOOLEAN, RcvInvite(x, again) PROVE InviteSilent /\ ict' = ict
  BY <1>1, NoInviteFacts, AnswersDoNotInvite, SilentSteps DEF RcvInvite
<1>2. ASSUME NEW x \in net, NEW again \in BOOLEAN, RcvAck(x, again) PROVE InviteSilent /\ ict' = ict
  BY <1>2, NoInviteFacts, SilentSteps DEF RcvAck
<1>3. ASSUME NEW x \in net, NEW again \in BOOLEAN, RcvByeOfCaller(x, again) \/ RcvStrayBye(x, again)
      PROVE  InviteSilent /\ ict' = ict
  BY <1>3, NoInviteFacts, SilentSteps DEF RcvByeOfCaller, RcvStrayBye
<1>4. ASSUME NEW x \in net, NEW again \in BOOLEAN, Rcv1xx(x, again)
      PROVE  InviteSilent /\ (ict' = ict \/ ict' = ict_rcv_1xx)
  <2>1. CASE Exchange(x, again, {})
    BY <1>4, <2>1, NoInviteFacts, SilentSteps DEF Rcv1xx
  <2>2. CASE Exchange(x, again, OutOfTransaction(x.msg.k))
    BY <1>4, <2>2, AnswersDoNotInvite, SilentSteps DEF Rcv1xx
  <2> QED
    BY <1>4, <2>1, <2>2 DEF Rcv1xx
<1>5. ASSUME NEW x \in net, NEW again \in BOOLEAN, Rcv2xx(x, again)
      PROVE  InviteSilent /\ (ict' = ict \/ ict' = Terminated)
  <2>1. CASE Exchange(x, again, {})
    BY <1>5, <2>1, NoInviteFacts, SilentSteps DEF Rcv2xx
  <2>2. CASE Exchange(x, again, OutOfTransaction(x.msg.k))
    BY <1>5, <2>2, AnswersDoNotInvite, SilentSteps DEF Rcv2xx
  <2> QED
    BY <1>5, <2>1, <2>2 DEF Rcv2xx
<1>6. ASSUME NEW x \in net, NEW again \in BOOLEAN, RcvRefuse(x, again)
      PROVE  InviteSilent /\ (ict' = ict \/ ict' = ict_rcv_3456xx)
  <2>1. CASE Exchange(x, again, {})
    BY <1>6, <2>1, NoInviteFacts, SilentSteps DEF RcvRefuse
  <2>2. CASE Exchange(x, again, {Msg("ACK refuse", 0)})
    BY <1>6, <2>2, NoInviteFacts, SilentSteps DEF RcvRefuse
  <2> QED
    BY <1>6, <2>1, <2>2 DEF RcvRefuse
<1>7. ASSUME NEW x \in net, NEW again \in BOOLEAN, RcvByeOfCallee(x, again) \/ RcvByeAnswered(x, again)
      PROVE  InviteSilent /\ ict' = ict
  BY <1>7, NoInviteFacts, SilentSteps DEF RcvByeOfCallee, RcvByeAnswered
<1>8. ASSUME NEW x \in net, NEW again \in BOOLEAN, RcvCancel(x, again) \/ RcvCancelAnswered(x, again)
      PROVE  InviteSilent /\ ict' = ict
  BY <1>8, NoInviteFacts, SilentSteps DEF RcvCancel, RcvCancelAnswered
<1> QED
  BY <1>1, <1>2, <1>3, <1>4, <1>5, <1>6, <1>7, <1>8 DEF Receive

(* A step other than a tick does not start the caller's INVITE again.          *)
LEMMA InviteCases ==
  ASSUME [Next]_vars, ~Tick
  PROVE  \/ ict.resend = 0 /\ ict' = osip_ict_timeout_a_event /\ Send({Msg("INVITE", 0)})
         \/ InviteSilent /\ (ict' = ict \/ ict' \in {ict_rcv_1xx, Terminated, ict_rcv_3456xx})
<1>1. CASE Program
  BY <1>1, NoInviteFacts, SilentSteps
     DEF Program, Accept, Refuse, SendAck, CallerHangsUp, CalleeHangsUp, Terminate, CallerCancels
<1>2. CASE TimeoutIct
  BY <1>2, NoInviteFacts, SilentSteps DEF TimeoutIct
<1>3. CASE ReleaseCaller
  BY <1>3, SilentSteps DEF ReleaseCaller
<1>4. ASSUME NEW k \in Callee, \/ TimeoutIst(k) \/ Resend200(k) \/ GiveUp(k) \/ ReleaseCallee(k)
                               \/ Send200(k)
      PROVE  InviteSilent /\ ict' = ict
  <2>1. CASE TimeoutIst(k)
    BY <2>1, NoInviteFacts, SilentSteps DEF TimeoutIst
  <2>2. CASE Resend200(k) \/ Send200(k)
    BY <2>2, NoInviteFacts, SilentSteps DEF Resend200, Send200
  <2>3. CASE GiveUp(k) \/ ReleaseCallee(k)
    BY <2>3, NoInviteFacts, SilentSteps DEF GiveUp, Terminate, ReleaseCallee
  <2> QED
    BY <1>4, <2>1, <2>2, <2>3
<1>5. ASSUME NEW b, TimeoutNict(b) \/ TimeoutNist(b) \/ TimeoutCancel PROVE InviteSilent /\ ict' = ict
  BY <1>5, NoInviteFacts, SilentSteps DEF TimeoutNict, TimeoutNist, TimeoutCancel
<1>6. CASE Lose \/ UNCHANGED vars
  BY <1>6, SilentSteps DEF Lose, vars
<1> QED
  BY <1>1, <1>2, <1>3, <1>4, <1>5, <1>6, ReceiveIsSilent DEF Next, Expire

LEMMA InviteSent ==
  ASSUME TransactionAssumption, Sound, [Next]_vars, ~Tick
  PROVE  /\ ict'.state = "CALLING" => ict.state = "CALLING" /\ ict'.end = ict.end
         /\ \A y \in net' : y.msg.m = "INVITE" => y \in net \/ (ict.state = "CALLING" /\ y.age = 0)
<1>0. ict \in Transactions(InviteState) /\ IctTimers(ict)
  BY DEF Sound, TypeOK, CallTypeOK, TimerInv
<1>1. CASE ict.resend = 0 /\ ict' = osip_ict_timeout_a_event /\ Send({Msg("INVITE", 0)})
  <2>1. ict.state = "CALLING"
    BY <1>0, <1>1 DEF IctTimers, Off
  <2>2. ict'.end = ict.end
    BY <1>0, <1>1 DEF osip_ict_timeout_a_event, Transactions
  <2>3. \A y \in net' : y \in net \/ y.age = 0
    BY <1>1 DEF Send, Fresh
  <2> QED
    BY <2>1, <2>2, <2>3
<1>2. CASE InviteSilent /\ (ict' = ict \/ ict' \in {ict_rcv_1xx, Terminated, ict_rcv_3456xx})
  <2>1. ict'.state = "CALLING" => ict.state = "CALLING" /\ ict'.end = ict.end
    BY <1>2, StateFacts
  <2>2. PICK S : NoInvite(S) /\ net' \subseteq net \cup Fresh(S)
    BY <1>2 DEF InviteSilent
  <2>3. \A y \in Fresh(S) : y.msg.m # "INVITE"
    BY <2>2 DEF Fresh, NoInvite
  <2> QED
    BY <2>1, <2>2, <2>3
<1> QED
  BY <1>1, <1>2, InviteCases

LEMMA InviteStep ==
  ASSUME TransactionAssumption, TimeAssumption, Sound, InviteInv, [Next]_vars
  PROVE  InviteInv'
<1> DEFINE a == callee[1].age
           b == callee'[1].age
<1>0. /\ 1 \in Callee /\ a \in Nat /\ b \in Nat /\ Long \in Nat /\ net \subseteq Packet
      /\ ict \in Transactions(InviteState) /\ IctTimers(ict) /\ IctTimers(ict') /\ TypeOK
  <2>1. 1 \in Callee /\ Long \in Nat /\ Sound'
    BY SoundStep DEF Callee, TransactionAssumption
  <2>2. callee \in [Callee -> CalleeCall] /\ callee' \in [Callee -> CalleeCall] /\ Longest \in Nat
    BY <2>1 DEF Sound, TypeOK, CallTypeOK, TransactionAssumption
  <2>3. a \in Nat /\ b \in Nat
    BY <2>1, <2>2 DEF CalleeCall
  <2> QED
    BY <2>1, <2>3 DEF Sound, TypeOK, CallTypeOK, TimerInv
<1>1. /\ ict.state = "CALLING" => a <= Long - ict.end /\ ict.end \in 0..Long
      /\ \A x \in net : x.msg.m = "INVITE" => a <= x.age + Long
  BY <1>0 DEF InviteInv, IctTimers
<1>2. \A x \in net : x.age \in Nat
  BY <1>0 DEF Packet, TransactionAssumption
<1>3. CASE Tick
  <2>1. b <= a + 1
    BY <1>0, <1>3, TickCallee
  <2>2. ict'.state = ict.state /\ (ict.end \in Nat => ict'.end = ict.end - 1)
    <3>1. ict' = Later(ict)
      BY <1>3 DEF Tick
    <3>2. /\ Later(ict).state = ict.state
          /\ Later(ict).end = IF ict.end = Off THEN Off ELSE ict.end - 1
      BY <1>0, LaterFacts
    <3> QED
      BY <3>1, <3>2 DEF Off
  <2>3. net' = {[x EXCEPT !.age = @ + 1] : x \in net}
    BY <1>3 DEF Tick
  <2>4. ASSUME NEW x \in net
        PROVE  [x EXCEPT !.age = @ + 1].age = x.age + 1 /\ [x EXCEPT !.age = @ + 1].msg = x.msg
    BY <1>0 DEF Packet
  <2>5. ASSUME NEW y \in net', y.msg.m = "INVITE" PROVE b <= y.age + Long
    <3>1. PICK x \in net : y = [x EXCEPT !.age = @ + 1]
      BY <2>3
    <3>2. y.age = x.age + 1 /\ y.msg = x.msg
      BY <2>4, <3>1
    <3>3. x.age \in Nat /\ a <= x.age + Long
      BY <1>1, <1>2, <2>5, <3>2
    <3> HIDE DEF a, b
    <3> QED
      BY <1>0, <2>1, <3>2, <3>3
  <2>6. ict'.state = "CALLING" => b <= Long - ict'.end
    <3> HIDE DEF a, b
    <3> QED
      BY <1>0, <1>1, <2>1, <2>2
  <2> QED
    BY <2>5, <2>6 DEF InviteInv
<1>4. CASE ~Tick
  <2>1. b = a \/ b = 0
    BY <1>0, <1>4, CalleeNumbers DEF SameNumbers, Accepts, Resends, HearsAck
  <2>2. /\ ict'.state = "CALLING" => ict.state = "CALLING" /\ ict'.end = ict.end
        /\ \A y \in net' : y.msg.m = "INVITE" => y \in net \/ (ict.state = "CALLING" /\ y.age = 0)
    BY <1>4, InviteSent
  <2>3. ict.state = "CALLING" => b <= Long - ict.end
    <3> HIDE DEF a, b
    <3> QED
      BY <1>0, <1>1, <2>1
  <2>4. ASSUME NEW y \in net', y.msg.m = "INVITE" PROVE b <= y.age + Long
    <3>1. CASE y \in net
      <4>1. y.age \in Nat /\ a <= y.age + Long
        BY <1>1, <1>2, <2>4, <3>1
      <4> HIDE DEF a, b
      <4> QED
        BY <1>0, <2>1, <4>1
    <3>2. CASE ict.state = "CALLING" /\ y.age = 0
      <4> HIDE DEF a, b
      <4> QED
        BY <1>0, <1>1, <2>3, <3>2
    <3> QED
      BY <2>2, <2>4, <3>1, <3>2
  <2> QED
    BY <2>2, <2>3, <2>4 DEF InviteInv
<1> QED
  BY <1>3, <1>4

-----------------------------------------------------------------------------
(* While the caller waits for an answer, the callee is in its first call, or   *)
(* no INVITE is left that could ask it again.                                  *)

FirstBusy == ~Asked(1) \/ HasDialog(callee[1]) \/ Alive(ist[1])

FirstInv ==
  Inviting /\ ~HungUpEarly(1) =>
    /\ \A k \in Callee : k # 1 => ~Asked(k)
    /\ InviteUnderWay => FirstBusy

LEMMA AskedByInvite ==
  ASSUME TransactionAssumption, Sound, [Next]_vars, NEW k \in Callee, ~Asked(k), Asked(k)'
  PROVE  /\ ActiveIst = {} /\ Live = {} /\ \A j \in NeverAsked : k <= j
         /\ \E x \in net : x.msg.m = "INVITE"
<1>0. /\ callee \in [Callee -> CalleeCall] /\ TypeOK /\ CalleeInv
      /\ callee[k].jd = "none" /\ callee'[k].jd # callee[k].jd
  BY DEF Sound, TypeOK, CallTypeOK, CallInv, Asked
<1>1. \A j \in Callee : \A d : callee' = [callee EXCEPT ![j] = d] => j = k
  BY <1>0
<1>2. callee' # callee
  BY <1>0
<1>3. ~Tick
  BY <1>0, TickCallee
<1>r. ASSUME NEW j \in Callee, Refused(j), ist[j].state = "PROCEEDING" PROVE FALSE
  <2>1. j = k
    BY <1>0, <1>1, <1>r DEF Refused
  <2>2. ~Used(ist[k])
    BY DEF Sound, Shape, CalleeShape
  <2> QED
    BY <1>r, <2>1, <2>2 DEF Used
<1>4. ASSUME Receive
      PROVE  \E x \in net, again \in BOOLEAN : RcvInvite(x, again)
  <2>1. ASSUME ProcessAck PROVE FALSE
    <3>1. callee'[k] = callee[k]
      BY <1>0, <2>1 DEF ProcessAck, Live, HasDialog
    <3> QED
      BY <1>0, <3>1
  <2>2. ASSUME NEW x \in net, NEW again \in BOOLEAN,
               RcvByeOfCaller(x, again) \/ RcvStrayBye(x, again)
        PROVE  FALSE
    <3>1. callee'[k] = callee[k]
      BY <1>0, <1>2, <2>2 DEF RcvByeOfCaller, RcvStrayBye, Live, HasDialog
    <3> QED
      BY <1>0, <3>1
  <2> QED
    BY <1>2, <1>4, <1>r, <2>1, <2>2 DEF Receive, RcvAck, Rcv1xx, Rcv2xx, RcvRefuse, RcvByeOfCallee,
       RcvByeAnswered, RcvCancel, RcvCancelAnswered, Unanswered
<1>5. ~Program
  BY <1>0, <1>1, <1>2, <1>r DEF Program, Accept, Refuse, SendAck, CallerHangsUp, CalleeHangsUp, Terminate,
     CallerCancels, CalleeInv
<1>6. ~Expire
  BY <1>0, <1>1, <1>2 DEF Expire, TimeoutIct, TimeoutIst, TimeoutNict, TimeoutNist, Resend200, GiveUp,
     Terminate, ReleaseCaller, ReleaseCallee, Awaited, CalleeReleasable, Send200, TimeoutCancel
<1>7. PICK x \in net, again \in BOOLEAN : RcvInvite(x, again)
  BY <1>2, <1>3, <1>4, <1>5, <1>6 DEF Next, Lose, vars
<1>8. PICK j \in NeverAsked : /\ ActiveIst = {} /\ Live = {} /\ \A i \in NeverAsked : j <= i
                              /\ NewInvite(j)
  BY <1>2, <1>7 DEF RcvInvite
<1>9. j = k
  <2>1. j \in Callee /\ \E d : callee' = [callee EXCEPT ![j] = d]
    BY <1>8 DEF NewInvite, NeverAsked
  <2> QED
    BY <1>1, <2>1
<1> QED
  BY <1>7, <1>8, <1>9 DEF RcvInvite

LEMMA InviteGoesOn ==
  ASSUME TransactionAssumption, Sound, [Next]_vars, InviteUnderWay'
  PROVE  InviteUnderWay
<1>1. CASE Tick
  <2>1. ict'.state = ict.state
    BY <1>1, LaterFacts DEF Tick, Sound, TypeOK, CallTypeOK
  <2>2. net' = {[x EXCEPT !.age = @ + 1] : x \in net}
    BY <1>1 DEF Tick
  <2>3. \A x \in net : [x EXCEPT !.age = @ + 1].msg = x.msg
    BY DEF Sound, TypeOK, CallTypeOK, Packet
  <2>4. ASSUME NEW y \in net', y.msg.m = "INVITE" PROVE InviteUnderWay
    <3>1. PICK x \in net : y = [x EXCEPT !.age = @ + 1]
      BY <2>2
    <3>2. y.msg = x.msg
      BY <2>3, <3>1
    <3> QED
      BY <2>4, <3>2 DEF InviteUnderWay
  <2> QED
    BY <2>1, <2>4 DEF InviteUnderWay
<1>2. CASE ~Tick
  BY <1>2, InviteSent DEF InviteUnderWay
<1> QED
  BY <1>1, <1>2

LEMMA FirstBusyStays ==
  ASSUME TransactionAssumption, TimeAssumption, FewFaults, Sound, RefuseInv, InviteInv, OkInv',
         [Next]_vars, Inviting, Inviting', InviteUnderWay, FirstBusy, ~HungUpEarly(1)'
  PROVE  FirstBusy'
<1>0. /\ 1 \in Callee /\ CalleeMove(1) /\ Sound' /\ CalleeShape(1) /\ CalleeShape(1)'
      /\ CalleeInv /\ IstTimers(ist[1])
  BY SoundStep DEF Moves, CalleeMove, Sound, Shape, CallInv, TimerInv, Callee, TransactionAssumption
<1>1. CASE ~Asked(1)
  <2>1. ~Asked(1)' \/ HasDialog(callee'[1])
    BY <1>0, <1>1 DEF CalleeMove, CalleeStays, CalleeRings, CalleeAccepts, CalleeAnswers, CalleeRefuses,
       CalleeHearsAck, CalleeHearsAckOfRefuse, CalleeLeaves, CalleeEndsWith, HasDialog, Asked,
       CalleeInv
  <2> QED
    BY <2>1 DEF FirstBusy
<1>h. ASSUME callee'[1].bye = 1, Accepted(1)' PROVE FALSE
  <2>1. callee'[1].wait # Off
    BY <1>0, <1>h DEF CalleeShape
  <2>2. callee'[1].count < Len(Gap)
    <3> DEFINE c == callee'[1].count
               f == faults'
               still == (callee[1].wait # 0 /\ (Queued(1) \/ FreshIn(Msg("200", 1), net)))'
    <3>1. c < f + (IF still THEN 1 ELSE 0)
      BY <1>h DEF OkInv
    <3>2. c \in Nat /\ f \in 0..MaxFaults /\ MaxFaults \in Nat /\ Len(Gap) \in Nat /\ MaxFaults < Len(Gap)
      <4>1. c \in 0..Len(Gap) /\ Len(Gap) \in Nat
        BY <1>0, GapFacts DEF Sound, TypeOK, CallTypeOK, CalleeCall
      <4> QED
        BY <1>0, <4>1 DEF Sound, TypeOK, CallTypeOK, FewFaults, TransactionAssumption
    <3> HIDE DEF c, f, still
    <3>3. c < Len(Gap)
      BY <3>1, <3>2
    <3> QED
      BY <3>3 DEF c
  <2> QED
    BY <1>h, <2>1, <2>2 DEF HungUpEarly
<1>2. CASE Alive(ist[1])
  <2> SUFFICES ASSUME ~Alive(ist'[1]) PROVE HasDialog(callee'[1])
    BY DEF FirstBusy
  <2>1. ist[1].end = 0 \/ Send200(1) \/ CalleeReleasable(1)
    BY <1>0, <1>2, IstEnds
  <2>2. ist[1].end # 0
    <3> SUFFICES ASSUME ist[1].end = 0 PROVE FALSE
      OBVIOUS
    <3>1. ist[1].state = "COMPLETED"
      <4>1. 0 # Off
        BY DEF Off
      <4> QED
        BY <1>0, <4>1 DEF IstTimers, CalleeShape
    <3>2. Covered(ist[1], FreshIn(Msg("refuse", 1), net), faults)
      BY <3>1 DEF RefuseInv
    <3> QED
      BY <3>2, CoveredGoesOn DEF Sound, TypeOK, CallTypeOK
  <2>3. ~CalleeReleasable(1)
    <3>1. callee[1].age # Longest
      <4>1. callee[1].age < Longest /\ callee[1].age \in Nat /\ Longest \in Nat
        BY <1>0, InviteYoung, CalleeNumberType DEF TransactionAssumption
      <4> QED
        BY <4>1
    <3>2. ist[1].state # "TERMINATED"
      BY <1>2 DEF Alive
    <3> QED
      BY <1>2, <3>1, <3>2 DEF CalleeReleasable, Releasable
  <2>4. ASSUME Send200(1) PROVE callee'[1].jd = "confirmed"
    <3>1. Accepted(1) /\ callee' = callee
      BY <2>4 DEF Send200, Queued, Accepted
    <3>2. callee[1].heard # "over"
      BY <1>0, <1>h, <3>1 DEF CalleeShape, Accepted
    <3> QED
      BY <1>0, <3>1, <3>2 DEF Accepted, CalleeInv
  <2> QED
    BY <2>1, <2>2, <2>3, <2>4 DEF HasDialog
<1>3. CASE callee[1].jd = "confirmed"
  <2> SUFFICES ASSUME ~HasDialog(callee'[1]) PROVE FALSE
    BY DEF FirstBusy
  <2>1. callee[1].bye = Off /\ callee[1].heard = "up"
    BY <1>0, <1>3 DEF CalleeShape, CalleeInv
  <2>2. PICK b : CalleeEndsWith(1, b)
    BY <1>0, <1>3, <2>1 DEF CalleeMove, CalleeStays, CalleeRings, CalleeAccepts, CalleeAnswers, CalleeRefuses,
       CalleeHearsAck, CalleeHearsAckOfRefuse, CalleeLeaves, HasDialog
  <2>3. callee'[1].bye = 1 /\ Accepted(1)'
    BY <2>1, <2>2 DEF CalleeEndsWith, Ended, Accepted
  <2> QED
    BY <1>h, <2>3
<1>4. CASE callee[1].jd = "early"
  <2>1. Alive(ist[1])
    BY <1>0, <1>4 DEF CalleeShape, Alive
  <2> QED
    BY <1>2, <2>1
<1> QED
  BY <1>1, <1>2, <1>3, <1>4 DEF FirstBusy, HasDialog

LEMMA FirstStep ==
  ASSUME TransactionAssumption, TimeAssumption, FewFaults, Sound, RefuseInv, InviteInv, OkInv',
         FirstInv, [Next]_vars
  PROVE  FirstInv'
<1> SUFFICES ASSUME Inviting', ~HungUpEarly(1)'
             PROVE  /\ \A k \in Callee : k # 1 => ~Asked(k)'
                    /\ InviteUnderWay' => FirstBusy'
  BY DEF FirstInv
<1>0. 1 \in Callee /\ Inviting /\ ~HungUpEarly(1)
  BY SoundStep, HungUpEarlyStays DEF Forward, Callee, TransactionAssumption
<1>1. /\ \A k \in Callee : k # 1 => ~Asked(k)
      /\ InviteUnderWay => FirstBusy
  BY <1>0 DEF FirstInv
<1>2. ASSUME NEW k \in Callee, k # 1, Asked(k)' PROVE FALSE
  <2>1. /\ ActiveIst = {} /\ Live = {} /\ \A j \in NeverAsked : k <= j
        /\ \E x \in net : x.msg.m = "INVITE"
    BY <1>1, <1>2, AskedByInvite
  <2>2. FirstBusy
    BY <1>1, <2>1 DEF InviteUnderWay
  <2>3. ~(k <= 1)
    BY <1>2 DEF Callee
  <2> QED
    BY <1>0, <2>1, <2>2, <2>3 DEF FirstBusy, NeverAsked, ActiveIst, Live, Asked
<1>3. ASSUME InviteUnderWay' PROVE FirstBusy'
  BY <1>0, <1>1, <1>3, InviteGoesOn, FirstBusyStays
<1> QED
  BY <1>2, <1>3

(* A caller in a call is in the callee's first one, and the BYE of that one    *)
(* has not reached it, unless the callee hung up before its ACK.               *)
TagInv == ~HungUpEarly(1) /\ caller.jd = "confirmed" => caller.tag = 1

EarlyBye ==
  Used(nist[1]) /\ (Inviting \/ (caller.jd = "confirmed" /\ caller.tag = 1)) => HungUpEarly(1)

LEMMA TagStep ==
  ASSUME TransactionAssumption, Sound, FirstInv, TagInv, [Next]_vars
  PROVE  TagInv'
<1> SUFFICES ASSUME ~HungUpEarly(1)', caller'.jd = "confirmed" PROVE caller'.tag = 1
  BY DEF TagInv
<1>0. 1 \in Callee /\ ~HungUpEarly(1) /\ Forward /\ CallerMove
  BY SoundStep, HungUpEarlyStays DEF Callee, TransactionAssumption, Moves, CallerMove
<1>1. CASE ~Inviting
  BY <1>0, <1>1 DEF Forward, TagInv
<1>2. CASE Inviting
  <2>1. \A k \in Callee : k # 1 => ~Asked(k)
    BY <1>0, <1>2 DEF FirstInv
  <2>2. caller.jd # "confirmed"
    BY <1>2 DEF Sound, CallInv, CallerInv
  <2>3. PICK k \in Callee : CallerAnswered(k)
    BY <1>0, <2>2 DEF CallerMove, CallerStays, CallerRings, CallerRefused, CallerAcks, CallerLeaves,
       CallerEndsWith
  <2>4. Accepted(k) /\ caller'.tag = k
    BY <2>3 DEF CallerAnswered, Handed
  <2>5. Asked(k)
    BY <2>4 DEF Accepted, Asked, Sound, CallInv, CalleeInv
  <2> QED
    BY <2>1, <2>4, <2>5
<1> QED
  BY <1>1, <1>2

LEMMA ByeOfCalleeHeard ==
  ASSUME TransactionAssumption, Sound, [Next]_vars, NEW k \in Callee, ~Used(nist[k]), Used(nist'[k])
  PROVE  \E x \in net, again \in BOOLEAN : RcvByeOfCallee(x, again) /\ x.msg.k = k
<1>0. /\ nist \in [Branch -> Transactions(OtherState)] /\ k \in Branch /\ k # 0 /\ k \in 0..MaxCall
      /\ \A j \in Callee : Own(j) # k
      /\ nist'[k] # nist[k] /\ nist' # nist
  <2>1. k \in Branch /\ k # 0 /\ k \in 0..MaxCall /\ \A j \in Callee : Own(j) # k
    BY DEF Callee, Branch, Own, TransactionAssumption
  <2> QED
    BY <2>1 DEF Sound, TypeOK, CallTypeOK
<1>1. \A b : \A t : nist' = [nist EXCEPT ![b] = t] => b = k
  BY <1>0
<1>2. ~Tick
  <2>1. Later(nist[k]).state = nist[k].state
    BY <1>0, LaterFacts
  <2> QED
    BY <1>0, <2>1 DEF Tick, Used
<1>3. CASE Receive
  <2>1. ASSUME NEW x \in net, NEW again \in BOOLEAN, RcvByeOfCaller(x, again) PROVE FALSE
    BY <1>0, <1>1, <2>1 DEF RcvByeOfCaller
  <2>2. ASSUME NEW x \in net, NEW again \in BOOLEAN, RcvStrayBye(x, again) PROVE FALSE
    <3>1. nist'[k] = nist[k]
      BY <1>0, <2>2 DEF RcvStrayBye, Live
    <3> QED
      BY <1>0, <3>1
  <2>3. PICK x \in net, again \in BOOLEAN : RcvByeOfCallee(x, again)
    BY <1>0, <1>3, <2>1, <2>2 DEF Receive, RcvInvite, RcvAck, Rcv1xx, Rcv2xx, RcvRefuse, RcvByeAnswered,
       RcvCancel, RcvCancelAnswered
  <2>4. x.msg.k = k
    BY <1>0, <1>1, <2>3 DEF RcvByeOfCallee
  <2> QED
    BY <2>3, <2>4
<1>4. ~Program
  BY <1>0 DEF Program, Accept, Refuse, SendAck, CallerHangsUp, CalleeHangsUp, Terminate, CallerCancels
<1>5. ~Expire
  <2>1. ASSUME NEW b, TimeoutNist(b) PROVE FALSE
    <3>1. nist[b].end = 0 /\ b = k
      BY <1>1, <2>1 DEF TimeoutNist
    <3>2. ByeTimers(nist[k])
      BY <1>0 DEF Sound, TimerInv
    <3> QED
      BY <3>1, <3>2 DEF ByeTimers, Off
  <2> QED
    BY <1>0, <2>1 DEF Expire, TimeoutIct, TimeoutIst, TimeoutNict, Resend200, GiveUp,
       Terminate, ReleaseCaller, ReleaseCallee, Send200, TimeoutCancel
<1> QED
  BY <1>0, <1>2, <1>3, <1>4, <1>5 DEF Next, Lose, vars

(* Until the caller has its answer, a callee that hangs up does so early.      *)
LEMMA EarlyHangUp ==
  ASSUME TransactionAssumption, FewFaults, Sound, OkInv, Inviting, Accepted(1), callee[1].bye = 1
  PROVE  HungUpEarly(1)
<1> DEFINE c == callee[1].count
           fresh == callee[1].wait # 0 /\ (Queued(1) \/ FreshIn(Msg("200", 1), net))
<1>0. 1 \in Callee
  BY DEF Callee, TransactionAssumption
<1>1. callee[1].wait # Off
  BY <1>0 DEF Sound, Shape, CalleeShape
<1>2. c < faults + (IF fresh THEN 1 ELSE 0)
  BY DEF OkInv
<1>3. c \in Nat /\ faults \in 0..MaxFaults /\ MaxFaults \in Nat /\ Len(Gap) \in Nat /\ MaxFaults < Len(Gap)
  BY <1>0, GapFacts, CalleeNumberType DEF FewFaults
<1> HIDE DEF c, fresh
<1>4. c < Len(Gap)
  BY <1>2, <1>3
<1> QED
  BY <1>1, <1>4 DEF HungUpEarly, c

LEMMA EarlyByeStep ==
  ASSUME TransactionAssumption, FewFaults, Sound, WaitInv, OkInv, EarlyBye, [Next]_vars
  PROVE  EarlyBye'
<1> SUFFICES ASSUME Used(nist'[1]), Inviting' \/ (caller'.jd = "confirmed" /\ caller'.tag = 1)
             PROVE  HungUpEarly(1)'
  BY DEF EarlyBye
<1>0. 1 \in Callee /\ Forward /\ Sound'
  BY SoundStep DEF Callee, TransactionAssumption
<1>1. CASE Used(nist[1])
  <2>1. Inviting \/ (caller.jd = "confirmed" /\ caller.tag = 1)
    BY <1>0 DEF Forward
  <2> QED
    BY <1>0, <1>1, <2>1, HungUpEarlyStays DEF EarlyBye
<1>2. CASE ~Used(nist[1])
  <2>1. PICK x \in net, again \in BOOLEAN : RcvByeOfCallee(x, again) /\ x.msg.k = 1
    BY <1>0, <1>2, ByeOfCalleeHeard
  <2>2. x.msg.m = "BYE" /\ UNCHANGED <<ict, callee>> /\ ~Alive(nist[1])
        /\ caller' = IF HasDialog(caller) /\ caller.tag = 1 THEN Closed(caller, 1) ELSE caller
    <3>1. ~Alive(nist[1])
      <4>1. nist' # nist
        BY <1>2
      <4> QED
        BY <2>1, <4>1 DEF RcvByeOfCallee
    <3> QED
      BY <2>1, <3>1 DEF RcvByeOfCallee
  <2>3. Used(nict[1])
    BY <2>1, <2>2 DEF Sound, MessageInv, Justified
  <2>4. callee[1].bye = 1 /\ Accepted(1)
    BY <1>0, <2>3 DEF Sound, Shape, CalleeShape, WaitInv
  <2>5. ~(caller'.jd = "confirmed" /\ caller'.tag = 1)
    BY <2>2, ClosedCaller DEF HasDialog, Sound, TypeOK, CallTypeOK
  <2>6. Inviting
    BY <2>2, <2>5 DEF Inviting
  <2>7. HungUpEarly(1)
    BY <2>4, <2>6, EarlyHangUp
  <2> QED
    BY <1>0, <2>7, HungUpEarlyStays
<1> QED
  BY <1>1, <1>2

-----------------------------------------------------------------------------
(* All of it together: the inductive invariant behind LegsAgree.               *)
LegsInv ==
  /\ Sound /\ ByeInv /\ RefuseInv /\ WaitInv /\ OkInv /\ InviteInv
  /\ FirstInv /\ TagInv /\ EarlyBye

LEMMA LegsInit == ASSUME TransactionAssumption, TimeAssumption, Init PROVE LegsInv
<1>0. /\ 1 \in Callee /\ 1 \in Branch /\ Long \in Nat /\ Sound
      /\ \A k \in Callee : k # Off
  BY SoundInit DEF Callee, Branch, TransactionAssumption, Off
<1>1. /\ \A k \in Callee : /\ callee[k].jd = "none" /\ callee[k].heard = "none" /\ callee[k].bye = Off
                           /\ callee[k].age = 0 /\ callee[k].wait = Off /\ callee[k].count = 0
      /\ caller.jd = "none"
  BY DEF Init, NewCaller, NewCallee
<1>2. ByeInv
  BY StateFacts DEF Init, ByeInv, Used
<1>3. RefuseInv
  BY <1>0, StateFacts DEF Init, RefuseInv
<1>4. WaitInv
  BY <1>0, <1>1 DEF WaitInv, Accepted, Awaited
<1>5. OkInv
  BY <1>0, <1>1 DEF OkInv, Accepted
<1>6. InviteInv
  <2>1. ict.end = Long
    BY StateFacts DEF Init
  <2>2. \A x \in net : x.age = 0
    BY DEF Init, Fresh
  <2> QED
    BY <1>0, <1>1, <2>1, <2>2 DEF InviteInv
<1>7. FirstInv
  BY <1>0, <1>1 DEF FirstInv, FirstBusy, Asked
<1>8. TagInv
  BY <1>1 DEF TagInv
<1>9. EarlyBye
  BY <1>0, StateFacts DEF Init, EarlyBye, Used
<1> QED
  BY <1>0, <1>2, <1>3, <1>4, <1>5, <1>6, <1>7, <1>8, <1>9 DEF LegsInv

LEMMA LegsStep ==
  ASSUME TransactionAssumption, TimeAssumption, FewFaults, LegsInv, [Next]_vars
  PROVE  LegsInv'
<1>1. /\ Sound /\ ByeInv /\ RefuseInv /\ WaitInv /\ OkInv /\ InviteInv
      /\ FirstInv /\ TagInv /\ EarlyBye
  BY DEF LegsInv
<1>2. Sound' /\ ByeInv' /\ RefuseInv'
  BY <1>1, SoundStep, ByeStep, RefuseStep
<1>3. WaitInv' /\ OkInv' /\ InviteInv'
  BY <1>1, WaitStep, OkStep, InviteStep
<1>4. FirstInv'
  BY <1>1, <1>3, FirstStep
<1>5. TagInv' /\ EarlyBye'
  BY <1>1, TagStep, EarlyByeStep
<1> QED
  BY <1>2, <1>3, <1>4, <1>5 DEF LegsInv

(* Once a BYE's transaction has ended the BYE was heard, so the side that did  *)
(* not send it has closed the call, too.                                       *)
LEMMA ByeWasHeard ==
  ASSUME ByeInv, NEW b \in 0..MaxCall, Used(nict[b]), ~Alive(nict[b])
  PROVE  Used(nist[b])
BY DEF ByeInv, Used, Alive

LEMMA LegsAgreeFollows ==
  ASSUME TransactionAssumption, LegsInv
  PROVE  LegsAgree
<1> SUFFICES ASSUME Settled, \A k \in Callee : ~HungUpEarly(k)
             PROVE  /\ caller.heard = "up" => callee[caller.tag].heard = "up"
                    /\ callee[1].heard = "up" => caller.heard = "up"
  BY DEF LegsAgree
<1>0. /\ 1 \in Callee /\ 0 \in 0..MaxCall /\ Callee \subseteq 0..MaxCall
      /\ \A b \in 0..MaxCall : b # Off
      /\ \A j \in Callee : j = 1 \/ 1 < j
      /\ ~HungUpEarly(1) /\ ~Awaited(1)
      /\ \A b \in 0..MaxCall : ~Alive(nict[b])
  BY DEF Callee, Settled, Off, TransactionAssumption
<1>1. /\ Sound /\ ByeInv /\ TagInv /\ EarlyBye
      /\ TypeOK /\ CallerShape /\ ByeShape /\ OrderInv /\ FirstShape
      /\ CalleeInv /\ CallerInv
  BY DEF LegsInv, Sound, Shape, CallInv
<1>2. \A k \in Callee : CalleeShape(k)
  BY <1>1 DEF Sound, Shape
<1>3. \A b \in 0..MaxCall : Used(nict[b]) => Used(nist[b])
  BY <1>0, <1>1, ByeWasHeard
<1>4. ASSUME caller.heard = "up" PROVE callee[caller.tag].heard = "up"
  <2>1. caller.jd = "confirmed" /\ caller.tag = 1 /\ Accepted(1) /\ caller.bye = Off
    BY <1>0, <1>1, <1>4 DEF TagInv, CallerInv, CallerShape, Answered, Handed
  <2>2. callee[1].heard # "over"
    <3> SUFFICES ASSUME callee[1].heard = "over" PROVE FALSE
      OBVIOUS
    <3>1. callee[1].bye \in {0, 1, Own(1)}
      BY <1>0, <1>2 DEF CalleeShape
    <3>2. CASE callee[1].bye = 0
      BY <1>0, <1>1, <1>2, <2>1, <3>2 DEF CalleeShape, ByeShape, CallerShape
    <3>3. CASE callee[1].bye = 1
      <4>1. Used(nist[1])
        BY <1>0, <1>2, <1>3, <3>3 DEF CalleeShape
      <4> QED
        BY <1>0, <1>1, <2>1, <4>1 DEF EarlyBye
    <3>4. CASE callee[1].bye = Own(1)
      BY <1>1, <2>1, <3>4 DEF FirstShape
    <3> QED
      BY <3>1, <3>2, <3>3, <3>4
  <2> QED
    BY <2>1, <2>2 DEF Accepted
<1>5. ASSUME callee[1].heard = "up" PROVE caller.heard = "up"
  <2>1. callee[1].jd = "confirmed" /\ callee[1].wait = Off
    BY <1>0, <1>1, <1>5 DEF CalleeInv, Awaited
  <2>2. Answered /\ caller.tag \in Callee
    BY <1>1, <2>1 DEF FirstShape, CallerShape
  <2>3. \A k \in Callee : ~Over(k)
    BY <1>0, <1>1, <2>1 DEF OrderInv, Over, Asked
  <2>4. caller.heard # "over"
    <3> SUFFICES ASSUME caller.heard = "over" PROVE FALSE
      OBVIOUS
    <3>1. caller.bye \in 0..MaxCall
      BY <1>1 DEF CallerShape, TypeOK, CallTypeOK, CallerCall
    <3>2. CASE caller.bye = 0
      <4>1. Used(nist[0])
        BY <1>0, <1>1, <1>3, <3>2 DEF CallerShape
      <4> QED
        BY <1>1, <2>2, <2>3, <4>1 DEF ByeShape
    <3>3. CASE caller.bye # 0
      <4> DEFINE j == caller.bye
      <4>1. j \in Callee
        BY <3>1, <3>3 DEF Callee
      <4>2. Used(nict[j])
        BY <1>1, <4>1 DEF CallerShape
      <4>3. callee[j].bye = j /\ j # Off
        BY <1>0, <1>2, <4>1, <4>2 DEF CalleeShape
      <4>4. callee[j].jd \in {"none", "early", "confirmed", "empty", "gone"}
        BY <1>1, <4>1 DEF TypeOK, CallTypeOK, CalleeCall, Dialog
      <4>5. Over(j)
        BY <1>2, <4>1, <4>3, <4>4 DEF CalleeShape, Over
      <4> QED
        BY <2>3, <4>1, <4>5
    <3> QED
      BY <3>2, <3>3
  <2> QED
    BY <2>2, <2>4 DEF Answered
<1> QED
  BY <1>4, <1>5

(* When all transactions have ended both sides agree on the call, if the       *)
(* network fails less often than a message is sent: the timers E, G and        *)
(* eXosip's own for the 200 OK (osip's nict_fsm.c and ist_fsm.c, eXcall_api.c) *)
(* go on longer than the network can lose what they send.                      *)
THEOREM LegsAgreeCorrect == ASSUME FewFaults PROVE Spec => []LegsAgree
<1>1. Init => LegsInv
  BY LegsInit, TransactionAssumption, TimeAssumption
<1>2. LegsInv /\ [Next]_vars => LegsInv'
  BY LegsStep, TransactionAssumption, TimeAssumption
<1>3. LegsInv => LegsAgree
  BY LegsAgreeFollows, TransactionAssumption
<1> QED
  BY <1>1, <1>2, <1>3, PTL DEF Spec

-----------------------------------------------------------------------------
(* With whom the caller's dialog is, the BYE that ended it and the age of its  *)
(* ACK.                                                                        *)
SameLink(c, d) == d.ack = c.ack /\ d.tag = c.tag /\ d.bye \in {c.bye, 0, c.tag}
NewLink(c, d) == d.ack = c.ack /\ d.bye = c.bye

LEMMA LinkFacts ==
  ASSUME NEW c \in CallerCall
  PROVE  /\ SameLink(c, c) /\ SameLink(c, Closed(c, 0)) /\ SameLink(c, Closed(c, c.tag))
         /\ SameLink(c, Released(c)) /\ SameLink(c, [c EXCEPT !.age = 0])
         /\ \A j, h : SameLink(c, [c EXCEPT !.jd = j, !.heard = h])
         /\ \A k : /\ NewLink(c, [c EXCEPT !.jd = "early", !.tag = k, !.age = 0])
                   /\ NewLink(c, [c EXCEPT !.jd = "confirmed", !.tag = k, !.heard = "up", !.age = 0])
<1>1. SameLink(c, c) /\ SameLink(c, Closed(c, 0)) /\ SameLink(c, Closed(c, c.tag))
  BY ClosedCaller DEF SameLink
<1>2. SameLink(c, Released(c)) /\ SameLink(c, [c EXCEPT !.age = 0])
  BY DEF CallerCall, SameLink, Released
<1>3. \A j, h : SameLink(c, [c EXCEPT !.jd = j, !.heard = h])
  BY DEF CallerCall, SameLink
<1>4. \A k : /\ NewLink(c, [c EXCEPT !.jd = "early", !.tag = k, !.age = 0])
             /\ NewLink(c, [c EXCEPT !.jd = "confirmed", !.tag = k, !.heard = "up", !.age = 0])
  BY DEF CallerCall, NewLink
<1> QED
  BY <1>1, <1>2, <1>3, <1>4

LEMMA CallerLink ==
  ASSUME TransactionAssumption, Sound, [Next]_vars, ~Tick, ~SendAck
  PROVE  \/ SameLink(caller, caller')
         \/ caller.jd \in {"none", "early"} /\ NewLink(caller, caller')
<1>0. caller \in CallerCall /\ (Inviting => caller.jd \in {"none", "early", "empty"})
  BY DEF Sound, TypeOK, CallTypeOK, CallInv, CallerInv
<1>1. UNCHANGED caller => SameLink(caller, caller')
  BY <1>0, LinkFacts
<1>2. ASSUME NEW x \in net, NEW again \in BOOLEAN, Rcv1xx(x, again) \/ Rcv2xx(x, again)
      PROVE  \/ SameLink(caller, caller')
             \/ caller.jd \in {"none", "early"} /\ NewLink(caller, caller')
  <2>1. \/ UNCHANGED caller \/ caller' = [caller EXCEPT !.age = 0]
        \/ /\ caller.jd \in {"none", "early"}
           /\ \/ caller' = [caller EXCEPT !.jd = "early", !.tag = x.msg.k, !.age = 0]
              \/ caller' = [caller EXCEPT !.jd = "confirmed", !.tag = x.msg.k, !.heard = "up", !.age = 0]
    BY <1>0, <1>2 DEF Rcv1xx, Rcv2xx
  <2> DEFINE k == x.msg.k
             d == [caller EXCEPT !.jd = "early", !.tag = k, !.age = 0]
             e == [caller EXCEPT !.jd = "confirmed", !.tag = k, !.heard = "up", !.age = 0]
             f == [caller EXCEPT !.age = 0]
  <2>2. SameLink(caller, f) /\ NewLink(caller, d) /\ NewLink(caller, e)
    <3> HIDE DEF k
    <3> QED
      BY <1>0, LinkFacts
  <2> HIDE DEF d, e, f
  <2>3. UNCHANGED caller \/ caller' = f \/ (caller.jd \in {"none", "early"} /\ (caller' = d \/ caller' = e))
    BY <2>1 DEF d, e, f
  <2> QED
    BY <1>1, <2>2, <2>3
<1>3. ASSUME NEW x \in net, NEW again \in BOOLEAN, RcvRefuse(x, again) PROVE SameLink(caller, caller')
  <2> DEFINE j == IF caller.jd = "none" THEN caller.jd ELSE "empty"
             h == Ended(caller.heard)
  <2>1. UNCHANGED caller \/ caller' = [caller EXCEPT !.jd = j, !.heard = h]
    BY <1>3 DEF RcvRefuse
  <2> HIDE DEF j, h
  <2>2. SameLink(caller, [caller EXCEPT !.jd = j, !.heard = h])
    BY <1>0, LinkFacts
  <2> QED
    BY <1>1, <2>1, <2>2
<1>4. ASSUME NEW x \in net, NEW again \in BOOLEAN, RcvByeOfCallee(x, again)
      PROVE  SameLink(caller, caller')
  <2>1. UNCHANGED caller \/ caller' = Closed(caller, caller.tag)
    BY <1>4 DEF RcvByeOfCallee
  <2> QED
    BY <1>0, <1>1, <2>1, LinkFacts
<1>5. CASE Receive
  BY <1>1, <1>2, <1>3, <1>4, <1>5 DEF Receive, RcvInvite, RcvAck, RcvByeOfCaller, RcvStrayBye,
     RcvByeAnswered, RcvCancel, RcvCancelAnswered
<1>6. CASE Program
  <2>1. UNCHANGED caller \/ caller' = Closed(caller, 0)
    BY <1>6 DEF Program, Accept, Refuse, CallerHangsUp, CalleeHangsUp, Terminate, CallerCancels
  <2> QED
    BY <1>0, <1>1, <2>1, LinkFacts
<1>7. CASE Expire
  <2>1. UNCHANGED caller \/ caller' = Released(caller)
    BY <1>7 DEF Expire, TimeoutIct, TimeoutIst, TimeoutNict, TimeoutNist, Resend200, GiveUp,
       Terminate, ReleaseCaller, ReleaseCallee, Send200, TimeoutCancel
  <2> QED
    BY <1>0, <1>1, <2>1, LinkFacts
<1>8. CASE Lose \/ UNCHANGED vars
  BY <1>1, <1>8 DEF Lose, vars
<1> QED
  BY <1>5, <1>6, <1>7, <1>8 DEF Next

(* A caller that has left its call leaves no callee behind in it.              *)
ByeTagInv == \A j \in Callee : caller.bye = j => caller.tag = j

GoneInv == caller.jd = "gone" /\ Answered => Over(caller.tag)

LEMMA ByeTagStep ==
  ASSUME TransactionAssumption, Sound, ByeTagInv, [Next]_vars
  PROVE  ByeTagInv'
<1> SUFFICES ASSUME NEW j \in Callee, caller'.bye = j PROVE caller'.tag = j
  BY DEF ByeTagInv
<1>0. j # 0 /\ j # Off /\ (caller.bye = j => caller.tag = j) /\ TypeOK
      /\ (caller.jd \in {"none", "early"} => caller.bye = Off)
  <2>1. j # 0 /\ j # Off
    BY DEF Callee, Off
  <2> QED
    BY <2>1 DEF ByeTagInv, Sound, Shape, CallerShape
<1>1. CASE Tick
  BY <1>0, <1>1, TickCaller
<1>2. CASE SendAck
  BY <1>0, <1>2 DEF SendAck, TypeOK, CallTypeOK, CallerCall
<1>3. CASE SameLink(caller, caller')
  BY <1>0, <1>3 DEF SameLink
<1>4. CASE caller.jd \in {"none", "early"} /\ NewLink(caller, caller')
  BY <1>0, <1>4 DEF NewLink
<1> QED
  BY <1>1, <1>2, <1>3, <1>4, CallerLink

LEMMA CallerGoes ==
  ASSUME TransactionAssumption, Sound, [Next]_vars, caller.jd # "gone", caller'.jd = "gone"
  PROVE  CallerReleasable
<1>0. caller \in CallerCall /\ caller' # caller
  BY DEF Sound, TypeOK, CallTypeOK
<1>1. /\ \A b : Closed(caller, b).jd = "empty"
      /\ [caller EXCEPT !.ack = 0].jd = caller.jd /\ [caller EXCEPT !.age = 0].jd = caller.jd
      /\ \A k : [caller EXCEPT !.jd = "early", !.tag = k, !.age = 0].jd = "early"
      /\ \A k : [caller EXCEPT !.jd = "confirmed", !.tag = k, !.heard = "up", !.age = 0].jd = "confirmed"
      /\ \A j, h : [caller EXCEPT !.jd = j, !.heard = h].jd = j
  BY <1>0 DEF CallerCall, Closed
<1>2. ~Tick
  BY TickCaller DEF Sound
<1>3. ~Receive
  <2>1. ASSUME NEW x \in net, NEW again \in BOOLEAN, Rcv1xx(x, again) PROVE FALSE
    BY <1>0, <1>1, <2>1 DEF Rcv1xx
  <2>2. ASSUME NEW x \in net, NEW again \in BOOLEAN, Rcv2xx(x, again) PROVE FALSE
    BY <1>0, <1>1, <2>2 DEF Rcv2xx
  <2>3. ASSUME NEW x \in net, NEW again \in BOOLEAN, RcvRefuse(x, again) PROVE FALSE
    <3> DEFINE j == IF caller.jd = "none" THEN caller.jd ELSE "empty"
               h == Ended(caller.heard)
    <3>1. caller' = [caller EXCEPT !.jd = j, !.heard = h] /\ j # "gone"
      BY <1>0, <2>3 DEF RcvRefuse
    <3> HIDE DEF j, h
    <3> QED
      BY <1>1, <3>1
  <2>4. ASSUME NEW x \in net, NEW again \in BOOLEAN, RcvByeOfCallee(x, again) PROVE FALSE
    BY <1>0, <1>1, <2>4 DEF RcvByeOfCallee
  <2> QED
    BY <1>0, <2>1, <2>2, <2>3, <2>4 DEF Receive, RcvInvite, RcvAck, RcvByeOfCaller, RcvStrayBye,
       RcvByeAnswered, RcvCancel, RcvCancelAnswered
<1>4. ~Program
  BY <1>0, <1>1 DEF Program, Accept, Refuse, SendAck, CallerHangsUp, CalleeHangsUp, Terminate,
     CallerCancels
<1>5. CASE Expire
  BY <1>0, <1>5 DEF Expire, TimeoutIct, TimeoutIst, TimeoutNict, TimeoutNist, Resend200, GiveUp,
     Terminate, ReleaseCaller, ReleaseCallee, Send200, TimeoutCancel
<1> QED
  BY <1>0, <1>2, <1>3, <1>4, <1>5 DEF Next, Lose, vars

LEMMA GoneStep ==
  ASSUME TransactionAssumption, Sound, ByeInv, ByeTagInv, GoneInv, [Next]_vars
  PROVE  GoneInv'
<1> SUFFICES ASSUME caller'.jd = "gone", caller'.heard \in {"up", "over"}
             PROVE  callee'[caller'.tag].jd \in {"empty", "gone"}
  BY DEF GoneInv, Answered, Over
<1>0. /\ CallerMove /\ Forward /\ CallerShape /\ CallerInv /\ ByeShape /\ TypeOK
      /\ \A k \in Callee : CalleeShape(k)
  BY SoundStep DEF Moves, CallerMove, Sound, Shape, CallInv
<1>1. Answered
  BY <1>0 DEF CallerMove, CallerStays, CallerRings, CallerAnswered, CallerRefused, CallerAcks,
     CallerLeaves, CallerEndsWith, Ended, Answered
<1>2. ict.state = "TERMINATED" /\ ~Alive(ict) /\ caller.tag \in Callee /\ caller'.tag = caller.tag
  <2>1. ict.state = "TERMINATED" /\ caller.tag \in Callee
    BY <1>0, <1>1 DEF CallerShape
  <2>2. ~Inviting /\ ~Alive(ict)
    BY <2>1 DEF Inviting, Alive
  <2> QED
    BY <1>0, <2>1, <2>2 DEF Forward
<1>3. Over(caller.tag)
  <2>1. CASE caller.jd = "gone"
    BY <1>1, <2>1 DEF GoneInv
  <2>2. CASE caller.jd # "gone"
    <3>1. CallerReleasable
      BY <2>2, CallerGoes
    <3>2. caller.bye # Off /\ CallerByeOver
      <4>1. caller.bye = Off => caller.heard = "up" /\ caller.jd = "confirmed"
        BY <1>0, <1>1 DEF CallerShape, CallerInv, Answered
      <4> QED
        BY <1>2, <3>1, <4>1 DEF CallerReleasable, Releasable
    <3>3. CASE caller.bye = 0
      <4>1. 0 \in 0..MaxCall /\ Used(nict[0]) /\ ~Alive(nict[0])
        BY <3>2, <3>3 DEF CallerByeOver, Used, Alive, TransactionAssumption
      <4>2. Used(nist[0])
        BY <4>1, ByeWasHeard
      <4> QED
        BY <1>0, <4>2 DEF ByeShape
    <3>4. CASE caller.bye # 0
      <4> DEFINE j == caller.bye
      <4>1. j \in Callee /\ j # Off
        BY <1>0, <3>2, <3>4 DEF TypeOK, CallTypeOK, CallerCall, Callee
      <4>2. caller.tag = j
        BY <4>1 DEF ByeTagInv
      <4>3. callee[j].bye = j
        BY <1>0, <4>1 DEF CallerShape, CalleeShape
      <4>4. callee[j].jd \in {"none", "early", "confirmed", "empty", "gone"}
        BY <1>0, <4>1 DEF TypeOK, CallTypeOK, CalleeCall, Dialog
      <4>5. Over(j)
        BY <1>0, <4>1, <4>3, <4>4 DEF CalleeShape, Over
      <4> QED
        BY <4>2, <4>5
    <3> QED
      BY <3>3, <3>4
  <2> QED
    BY <2>1, <2>2
<1> QED
  BY <1>0, <1>2, <1>3 DEF Forward, Over

-----------------------------------------------------------------------------
(* A caller that acknowledged keeps its call: since then each 200 OK but the   *)
(* last one, or the ACK that answered it, was lost or is late.                 *)

(* The time since the last 200 OK of a call that waits for its ACK.            *)
Elapsed(c) == IF c.count < Len(Gap) THEN Gap[c.count + 1] - c.wait ELSE 0

AckFresh(k, N) == FreshIn(Msg("ACK", 0), N) \/ FreshIn(Msg("200", k), N)

(* a is the age of the ACK, s the time since the last 200 OK, f how often the  *)
(* network failed and g the longest gap between two 200 OK.                    *)
AckCovered(a, s, fresh, f, g) ==
  IF fresh /\ (s = 0 \/ a = 0) THEN a - s <= f * g ELSE f >= 1 /\ a - s <= (f - 1) * g

AckInv(g) ==
  caller.ack # Off /\ Awaited(caller.tag) =>
    AckCovered(caller.ack, Elapsed(callee[caller.tag]), AckFresh(caller.tag, net), faults, g)

LEMMA AckStarts ==
  ASSUME NEW g \in Nat, NEW f \in Nat, NEW s \in Nat
  PROVE  AckCovered(0, s, TRUE, f, g)
<1> DEFINE p == f * g
<1>1. p \in Int /\ p >= 0
  <2>1. 0 * g <= p /\ p \in Int /\ 0 * g = 0
    BY TimesGrows
  <2> QED
    BY <2>1
<1> HIDE DEF p
<1>2. 0 - s <= p
  BY <1>1
<1> QED
  BY <1>2 DEF AckCovered, p

LEMMA AckStays ==
  ASSUME NEW g \in Nat, NEW f \in Nat, NEW h \in Nat, NEW a \in Nat, NEW s \in Nat,
         NEW fresh, NEW still, AckCovered(a, s, fresh, f, g), h >= f, fresh => still \/ h >= f + 1
  PROVE  AckCovered(a, s, still, h, g)
<1> DEFINE p == f * g
           q == h * g
           o == (f - 1) * g
           r == (h - 1) * g
<1>1. /\ p \in Int /\ q \in Int /\ o \in Int /\ r \in Int
      /\ p <= q /\ o <= r /\ o <= p /\ r <= q /\ (h >= f + 1 => p <= r)
  <2>1. f - 1 <= h - 1 /\ f - 1 <= f /\ h - 1 <= h /\ (h >= f + 1 => f <= h - 1)
        /\ f - 1 \in Int /\ h - 1 \in Int
    OBVIOUS
  <2> QED
    BY <2>1, TimesGrows
<1>2. IF fresh /\ (s = 0 \/ a = 0) THEN a - s <= p ELSE f >= 1 /\ a - s <= o
  BY DEF AckCovered
<1> HIDE DEF p, q, o, r
<1>3. IF still /\ (s = 0 \/ a = 0) THEN a - s <= q ELSE h >= 1 /\ a - s <= r
  BY <1>1, <1>2
<1> QED
  BY <1>3 DEF AckCovered, q, r

LEMMA AckLater ==
  ASSUME NEW g \in Nat, NEW f \in Nat, NEW h \in Nat, NEW a \in Nat, NEW s \in Nat, NEW b \in Nat,
         NEW fresh, AckCovered(a, s, fresh, f, g), h >= f, fresh => h >= f + 1, b <= a + 1
  PROVE  AckCovered(b, s + 1, FALSE, h, g)
<1> DEFINE r == (h - 1) * g
<1>1. AckCovered(a, s, FALSE, h, g)
  BY AckStays
<1>2. h >= 1 /\ a - s <= r /\ r \in Int
  <2>1. h - 1 \in Int /\ 0 \in Int
    OBVIOUS
  <2> QED
    BY <1>1, <2>1, TimesGrows DEF AckCovered
<1> HIDE DEF r
<1>3. h >= 1 /\ b - (s + 1) <= r
  BY <1>2
<1> QED
  BY <1>3 DEF AckCovered, r

LEMMA AckResent ==
  ASSUME NEW g \in Nat, NEW f \in Nat, NEW a \in Nat, NEW s \in 1..g,
         NEW fresh, AckCovered(a, s, fresh, f, g)
  PROVE  AckCovered(a, 0, TRUE, f, g)
<1> DEFINE p == f * g
           o == (f - 1) * g
<1>1. p \in Int /\ o \in Int /\ p = o + g /\ p >= 0
  <2>1. f - 1 \in Int /\ (f - 1) + 1 = f /\ 0 <= f /\ f \in Int /\ 0 \in Int
    OBVIOUS
  <2>2. ((f - 1) + 1) * g = o + g /\ o \in Int
    BY <2>1, TimesGrows
  <2>3. 0 * g <= p /\ 0 * g = 0 /\ p \in Int
    BY <2>1, TimesGrows
  <2> QED
    BY <2>1, <2>2, <2>3
<1>2. IF fresh /\ (s = 0 \/ a = 0) THEN a - s <= p ELSE f >= 1 /\ a - s <= o
  BY DEF AckCovered
<1> HIDE DEF p, o
<1>3. a - 0 <= p
  BY <1>1, <1>2
<1> QED
  BY <1>3 DEF AckCovered, p

LEMMA AckBound ==
  ASSUME NEW g \in Nat, NEW m \in Nat, NEW f \in 0..m, NEW a \in Nat, NEW fresh,
         AckCovered(a, 0, fresh, f, g)
  PROVE  a <= m * g
<1> DEFINE p == f * g
           o == (f - 1) * g
           q == m * g
<1>1. p \in Int /\ o \in Int /\ q \in Int /\ p <= q /\ o <= p
  <2>1. f \in Int /\ m \in Int /\ f - 1 \in Int /\ f <= m /\ f - 1 <= f
    OBVIOUS
  <2> QED
    BY <2>1, TimesGrows
<1>2. IF fresh /\ (0 = 0 \/ a = 0) THEN a - 0 <= p ELSE f >= 1 /\ a - 0 <= o
  BY DEF AckCovered
<1> HIDE DEF p, o, q
<1>3. a <= q
  BY <1>1, <1>2
<1> QED
  BY <1>3 DEF q

(* What is heard of the ACK and of the 200 OK.                                 *)
LEMMA AckIsHeard ==
  ASSUME TransactionAssumption, Sound, NEW x \in net, x.msg = Msg("ACK", 0), Received(x),
         NEW k \in Callee, callee[k].jd = "confirmed"
  PROVE  callee'[k].wait = Off
<1>1. x.msg.m = "ACK"
  BY DEF Msg
<1>2. RcvAck(x, FALSE)
  BY <1>1 DEF Received, RcvInvite, RcvByeOfCaller, RcvStrayBye, Rcv1xx, Rcv2xx, RcvRefuse,
     RcvByeOfCallee, RcvByeAnswered, RcvCancel, RcvCancelAnswered
<1>3. ProcessAck
  BY <1>1, <1>2 DEF RcvAck
<1>4. callee'[k] = [callee[k] EXCEPT !.wait = Off, !.count = 0]
  BY <1>3 DEF ProcessAck, Live, HasDialog
<1>5. callee[k] \in CalleeCall
  BY DEF Sound, TypeOK, CallTypeOK
<1> QED
  BY <1>4, <1>5 DEF CalleeCall

LEMMA OkIsAcked ==
  ASSUME TransactionAssumption, Sound, GoneInv, NEW x \in net, x.msg = Msg("200", caller.tag),
         Received(x), caller.ack # Off, callee[caller.tag].jd = "confirmed"
  PROVE  FreshIn(Msg("ACK", 0), net')
<1> DEFINE k == caller.tag
<1>1. x.msg.m = "200" /\ x.msg.k = k
  BY DEF Msg
<1>2. Rcv2xx(x, FALSE)
  BY <1>1 DEF Received, RcvInvite, RcvAck, RcvByeOfCaller, RcvStrayBye, Rcv1xx, RcvRefuse,
     RcvByeOfCallee, RcvByeAnswered, RcvCancel, RcvCancelAnswered
<1>3. Answered /\ ict.state = "TERMINATED"
  BY DEF Sound, Shape, CallerShape
<1>4. ~Inviting /\ ~Alive(ict)
  BY <1>3 DEF Inviting, Alive
<1>5. Exchange(x, FALSE, OutOfTransaction(k))
  BY <1>1, <1>2, <1>4 DEF Rcv2xx
<1>6. HasDialog(caller) \/ caller.jd = "empty"
  <2>1. caller.jd \in {"none", "early", "confirmed", "empty", "gone"}
    BY DEF Sound, TypeOK, CallTypeOK, CallerCall, Dialog
  <2>2. caller.jd # "gone"
    BY <1>3 DEF GoneInv, Over
  <2>3. caller.jd # "none"
    BY <1>3, <2>1 DEF Sound, Shape, CallerShape, CallInv, CallerInv, Answered
  <2> QED
    BY <2>1, <2>2, <2>3 DEF HasDialog
<1>7. Msg("ACK", 0) \in OutOfTransaction(k)
  BY <1>6 DEF OutOfTransaction
<1>8. [msg |-> Msg("ACK", 0), age |-> 0] \in net'
  BY <1>5, <1>7 DEF Exchange, Fresh
<1> QED
  BY <1>8 DEF FreshIn

LEMMA ElapsedType ==
  ASSUME TransactionAssumption, Sound, WaitInv, NEW k \in Callee, Awaited(k)
  PROVE  Elapsed(callee[k]) \in Nat
<1> DEFINE n == callee[k].count
           w == callee[k].wait
<1>1. n < Len(Gap) => w \in 0..Gap[n + 1] /\ Gap[n + 1] \in Nat
  <2>1. n < Len(Gap) => w \in 0..Gap[n + 1]
    BY DEF WaitInv
  <2>2. n < Len(Gap) => n + 1 \in 1..Len(Gap)
    BY CalleeNumberType, GapFacts
  <2> QED
    BY <2>1, <2>2, GapFacts
<1> HIDE DEF n, w
<1>2. (IF n < Len(Gap) THEN Gap[n + 1] - w ELSE 0) \in Nat
  BY <1>1
<1> QED
  BY <1>2 DEF Elapsed, n, w

(* The caller that has sent its ACK, or sends it, and the call it is in.       *)
LEMMA AckedCall ==
  ASSUME TransactionAssumption, Sound, WaitInv, [Next]_vars, caller'.ack # Off,
         callee'[caller'.tag].jd = "confirmed", callee'[caller'.tag].wait # Off
  PROVE  /\ caller.tag \in Callee /\ caller'.tag = caller.tag /\ Awaited(caller.tag)
         /\ Tick => caller.ack # Off
         /\ ~Tick /\ ~SendAck => caller'.ack = caller.ack
         /\ \/ Tick \/ Resend200(caller.tag)
            \/ callee'[caller.tag].wait = callee[caller.tag].wait
               /\ callee'[caller.tag].count = callee[caller.tag].count
<1>0. TypeOK /\ CallerShape /\ Forward /\ CallerInv /\ CalleeInv
  BY SoundStep DEF Sound, Shape, CallInv
<1>1. /\ Tick => caller.ack # Off
      /\ ~Tick /\ ~SendAck => caller'.ack = caller.ack
  BY <1>0, TickCaller, CallerLink DEF SameLink, NewLink
<1>2. Answered
  <2>1. SendAck => caller.jd = "confirmed"
    BY DEF SendAck
  <2> QED
    BY <1>0, <1>1, <2>1 DEF CallerShape, CallerInv, Answered
<1>3. caller.tag \in Callee /\ Accepted(caller.tag) /\ caller'.tag = caller.tag
  <2>1. ~Inviting
    BY <1>0, <1>2 DEF CallerShape, Inviting
  <2> QED
    BY <1>0, <1>2, <2>1 DEF CallerShape, Forward, Handed
<1> DEFINE k == caller.tag
<1>4. k \in Callee /\ callee'[k].jd = "confirmed" /\ callee'[k].wait # Off /\ Accepted(k)
  BY <1>3
<1> HIDE DEF k
<1>5. callee[k].jd = "confirmed"
  <2>1. CalleeMove(k)
    BY <1>4, SoundStep DEF Moves, CalleeMove
  <2>2. callee[k].jd # "early"
    BY <1>0, <1>4 DEF CalleeInv, Accepted
  <2> QED
    BY <1>4, <2>1, <2>2 DEF CalleeMove, CalleeStays, CalleeRings, CalleeAccepts, CalleeAnswers, CalleeRefuses,
       CalleeHearsAck, CalleeHearsAckOfRefuse, CalleeLeaves, CalleeEndsWith
<1>6. ~Accept(k)
  BY <1>4 DEF Accept, Accepted
<1>7. \/ Tick \/ Resend200(k)
      \/ callee'[k].wait = callee[k].wait /\ callee'[k].count = callee[k].count
  BY <1>4, <1>6, CalleeNumbers DEF SameNumbers, HearsAck
<1>8. callee[k].wait # Off
  <2>1. Tick /\ callee[k].wait = Off => callee'[k].wait = Off
    BY <1>0, <1>4, TickCallee DEF Awaited
  <2>2. Resend200(k) => callee[k].wait # Off
    BY DEF Resend200, Awaited
  <2> QED
    BY <1>4, <1>7, <2>1, <2>2
<1> QED
  BY <1>1, <1>3, <1>5, <1>7, <1>8 DEF k, Awaited

LEMMA AckStep ==
  ASSUME TransactionAssumption, Sound, WaitInv, WaitInv', GoneInv, [Next]_vars,
         NEW g \in Nat, \A i \in 1..Len(Gap) : Gap[i] <= g, AckInv(g)
  PROVE  AckInv(g)'
<1> SUFFICES ASSUME caller'.ack # Off, callee'[caller'.tag].jd = "confirmed",
                    callee'[caller'.tag].wait # Off
             PROVE  AckCovered(caller'.ack, Elapsed(callee'[caller'.tag]),
                               AckFresh(caller'.tag, net'), faults', g)
  BY DEF AckInv, Awaited
<1>0. /\ caller.tag \in Callee /\ caller'.tag = caller.tag /\ Awaited(caller.tag)
      /\ Tick => caller.ack # Off
      /\ ~Tick /\ ~SendAck => caller'.ack = caller.ack
      /\ \/ Tick \/ Resend200(caller.tag)
         \/ callee'[caller.tag].wait = callee[caller.tag].wait
            /\ callee'[caller.tag].count = callee[caller.tag].count
  BY AckedCall
<1> DEFINE k == caller.tag
           a == caller.ack
           b == caller'.ack
           s == Elapsed(callee[k])
           t == Elapsed(callee'[k])
           f == faults
           h == faults'
           fresh == AckFresh(k, net)
           still == AckFresh(k, net')
           ack == Msg("ACK", 0)
           ok == Msg("200", k)
<1>1. /\ k \in Callee /\ TypeOK /\ f \in Nat /\ h \in Nat /\ b \in Nat /\ (a # Off => a \in Nat)
      /\ s \in Nat /\ t \in Nat
  <2>1. Sound' /\ k \in Callee
    BY <1>0, SoundStep
  <2>2. TypeOK /\ f \in Nat /\ h \in Nat /\ b \in Nat /\ (a # Off => a \in Nat)
    BY <2>1 DEF Sound, TypeOK, CallTypeOK, CallerCall
  <2>3. s \in Nat
    BY <1>0, ElapsedType
  <2>4. t \in Nat
    <3> DEFINE n == callee'[k].count
               w == callee'[k].wait
    <3>1. n < Len(Gap) => w \in 0..Gap[n + 1]
      BY <1>0 DEF WaitInv, Awaited
    <3>2. n \in 0..Len(Gap)
      BY <2>1 DEF Sound, TypeOK, CallTypeOK, CalleeCall
    <3> HIDE DEF n, w
    <3>3. n < Len(Gap) => Gap[n + 1] \in Nat
      <4>1. Len(Gap) \in Nat
        BY GapFacts
      <4>2. n < Len(Gap) => n + 1 \in 1..Len(Gap)
        BY <3>2, <4>1
      <4> QED
        BY <4>2, GapFacts
    <3>4. (IF n < Len(Gap) THEN Gap[n + 1] - w ELSE 0) \in Nat
      BY <3>1, <3>3
    <3> QED
      BY <3>4 DEF Elapsed, n, w
  <2> QED
    BY <2>1, <2>2, <2>3, <2>4
<1>2. a # Off => AckCovered(a, s, fresh, f, g)
  BY <1>0 DEF AckInv
<1>3. callee[k].jd = "confirmed" /\ callee[k].wait # Off /\ callee'[k].wait # Off
  BY <1>0 DEF Awaited
<1>4. CASE Tick
  <2> DEFINE n == callee[k].count
             w == callee[k].wait
  <2>1. callee'[k].count = n /\ callee'[k].wait = w - 1
    BY <1>0, <1>1, <1>4, TickCallee
  <2>2. w # 0
    BY <1>0, <1>4 DEF Tick, SomethingDue
  <2>3. n < Len(Gap) /\ w \in 0..Gap[n + 1] /\ Gap[n + 1] \in Nat
    <3>1. n < Len(Gap) /\ w \in 0..Gap[n + 1]
      BY <1>0, <1>1, <2>2 DEF WaitInv
    <3>2. n + 1 \in 1..Len(Gap)
      <4>1. n \in 0..Len(Gap) /\ Len(Gap) \in Nat
        BY <1>1, CalleeNumberType, GapFacts
      <4> HIDE DEF n
      <4> QED
        BY <3>1, <4>1
    <3> QED
      BY <3>1, <3>2, GapFacts
  <2>4. t = s + 1
    <3>1. s = Gap[n + 1] - w /\ t = Gap[n + 1] - (w - 1)
      BY <2>1, <2>3 DEF Elapsed
    <3> HIDE DEF s, t, n, w
    <3> QED
      BY <2>3, <3>1
  <2>5. b <= a + 1 /\ a # Off
    <3>1. a \in Nat
      BY <1>0, <1>1, <1>4
    <3>2. b = IF a # Off /\ a < InTime THEN a + 1 ELSE a
      BY <1>1, <1>4, TickCaller
    <3> HIDE DEF a, b
    <3> QED
      BY <3>1, <3>2 DEF Off
  <2>6. h >= f /\ (fresh => h >= f + 1) /\ still = FALSE
    BY <1>1, <1>4, TickFaults DEF AckFresh
  <2> HIDE DEF a, b, s, t, f, h, fresh, still
  <2>7. AckCovered(b, s + 1, FALSE, h, g)
    BY <1>1, <1>2, <2>5, <2>6, AckLater
  <2> QED
    BY <1>0, <2>4, <2>6, <2>7 DEF b, t, h, still
<1>5. CASE SendAck /\ ~Tick
  <2>1. b = 0
    BY <1>1, <1>5 DEF SendAck, TypeOK, CallTypeOK, CallerCall
  <2>2. still = TRUE
    BY <1>5, SentIsFresh DEF SendAck, AckFresh
  <2> HIDE DEF b, t, h, still
  <2>3. AckCovered(0, t, TRUE, h, g)
    BY <1>1, AckStarts
  <2> QED
    BY <1>0, <2>1, <2>2, <2>3 DEF b, t, h, still
<1>6. CASE Resend200(k) /\ ~Tick /\ ~SendAck
  <2> DEFINE n == callee[k].count
  <2>1. callee[k].wait = 0 /\ n < Len(Gap) /\ still = TRUE /\ h = f
    BY <1>6, SentIsFresh DEF Resend200, AckFresh
  <2>2. /\ callee'[k].count = n + 1
        /\ callee'[k].wait = IF n + 1 < Len(Gap) THEN Gap[n + 1 + 1] ELSE 0
    BY <1>1, <1>6, ResendNumbers DEF Resends
  <2>3. n \in Nat /\ Len(Gap) \in Nat
    BY <1>1, CalleeNumberType, GapFacts
  <2>4. s = Gap[n + 1] /\ Gap[n + 1] \in 1..g
    <3>1. n + 1 \in 1..Len(Gap)
      BY <2>1, <2>3
    <3>2. Gap[n + 1] \in Nat \ {0} /\ Gap[n + 1] <= g
      BY <3>1, GapFacts
    <3>3. s = Gap[n + 1] - 0
      BY <2>1 DEF Elapsed
    <3> QED
      BY <3>2, <3>3
  <2>5. t = 0
    <3>1. n + 1 < Len(Gap) => n + 1 + 1 \in 1..Len(Gap)
      BY <2>3
    <3>2. n + 1 < Len(Gap) => Gap[n + 1 + 1] \in Nat
      BY <3>1, GapFacts
    <3> QED
      BY <2>2, <3>2 DEF Elapsed
  <2>6. b = a
    BY <1>0, <1>6
  <2> HIDE DEF a, b, s, t, f, h, fresh, still
  <2>7. AckCovered(a, 0, TRUE, f, g)
    <3>1. s \in 1..g /\ a \in Nat /\ f \in Nat /\ AckCovered(a, s, fresh, f, g)
      <4>1. a # Off
        BY <2>6 DEF b
      <4> QED
        BY <1>1, <1>2, <2>4, <4>1
    <3> QED
      BY <3>1, AckResent
  <2> QED
    BY <1>0, <2>1, <2>5, <2>6, <2>7 DEF b, t, h, still
<1>7. CASE ~Resend200(k) /\ ~Tick /\ ~SendAck
  <2>1. t = s /\ b = a /\ a # Off
    BY <1>0, <1>7 DEF Elapsed
  <2>2. ~ \E x \in net : x.msg = ack /\ Received(x)
    BY <1>1, <1>3, AckIsHeard
  <2>3. ASSUME NEW x \in net, x.msg = ok, Received(x) PROVE FreshIn(ack, net')
    BY <1>3, <2>1, <2>3, OkIsAcked
  <2>4. /\ h >= f
        /\ FreshIn(ack, net) => FreshIn(ack, net') \/ h >= f + 1
    BY <1>1, <1>7, <2>2, FreshStays
  <2>5. FreshIn(ok, net) => FreshIn(ok, net') \/ FreshIn(ack, net') \/ h >= f + 1
    BY <1>1, <1>7, <2>3, FreshStays
  <2>6. fresh => still \/ h >= f + 1
    BY <2>4, <2>5 DEF AckFresh
  <2> HIDE DEF a, b, s, t, f, h, fresh, still
  <2>7. AckCovered(a, s, still, h, g)
    BY <1>1, <1>2, <2>1, <2>4, <2>6, AckStays
  <2> QED
    BY <1>0, <2>1, <2>7 DEF b, t, h, still
<1> QED
  BY <1>4, <1>5, <1>6, <1>7

LEMMA GiveUpIsLate ==
  ASSUME TransactionAssumption, Sound, NEW g \in Nat, MaxFaults * g < InTime, AckInv(g),
         NEW k \in Callee, GiveUp(k)
  PROVE  caller.ack < InTime \/ caller.tag # k
<1> SUFFICES ASSUME caller.tag = k PROVE caller.ack < InTime
  OBVIOUS
<1>0. /\ Awaited(k) /\ callee[k].count = Len(Gap) /\ Len(Gap) \in Nat /\ InTime \in Nat
      /\ MaxFaults \in Nat /\ faults \in 0..MaxFaults /\ caller.ack \in Nat \cup {Off}
  BY GapFacts DEF GiveUp, Sound, TypeOK, CallTypeOK, CallerCall, TransactionAssumption
<1>1. CASE caller.ack = Off
  BY <1>0, <1>1 DEF Off
<1>2. CASE caller.ack # Off
  <2>1. Elapsed(callee[k]) = 0
    BY <1>0 DEF Elapsed
  <2>2. AckCovered(caller.ack, 0, AckFresh(k, net), faults, g)
    BY <1>0, <1>2, <2>1 DEF AckInv
  <2> DEFINE q == MaxFaults * g
  <2>3. caller.ack <= q /\ q < InTime /\ q \in Int
    <3>1. MaxFaults \in Int /\ 0 \in Int
      BY <1>0
    <3> QED
      BY <1>0, <1>2, <2>2, <3>1, AckBound, TimesGrows
  <2> HIDE DEF q
  <2> QED
    BY <1>0, <1>2, <2>3
<1> QED
  BY <1>1, <1>2

-----------------------------------------------------------------------------
(* The inductive invariant behind AckedCallSurvives.                           *)
SurvivesInv(g) == Sound /\ ByeInv /\ WaitInv /\ ByeTagInv /\ GoneInv /\ AckInv(g)

LEMMA SurvivesInit ==
  ASSUME TransactionAssumption, TimeAssumption, Init, NEW g \in Nat
  PROVE  SurvivesInv(g)
<1>1. Sound /\ ByeInv /\ WaitInv
  BY LegsInit DEF LegsInv
<1>2. caller.jd = "none" /\ caller.bye = Off /\ caller.ack = Off
  BY DEF Init, NewCaller
<1>3. \A j \in Callee : j # Off
  BY DEF Callee, Off
<1> QED
  BY <1>1, <1>2, <1>3 DEF SurvivesInv, ByeTagInv, GoneInv, AckInv

LEMMA SurvivesStep ==
  ASSUME TransactionAssumption, TimeAssumption, FewFaults, [Next]_vars,
         NEW g \in Nat, \A i \in 1..Len(Gap) : Gap[i] <= g, SurvivesInv(g)
  PROVE  SurvivesInv(g)'
<1>1. Sound /\ ByeInv /\ WaitInv /\ ByeTagInv /\ GoneInv /\ AckInv(g)
  BY DEF SurvivesInv
<1>2. Sound' /\ ByeInv' /\ WaitInv'
  BY <1>1, SoundStep, ByeStep, WaitStep
<1>3. ByeTagInv' /\ GoneInv'
  BY <1>1, ByeTagStep, GoneStep
<1>4. AckInv(g)'
  BY <1>1, <1>2, AckStep
<1> QED
  BY <1>2, <1>3, <1>4 DEF SurvivesInv

(* A callee that gives up waiting for an ACK does not hang up on a caller that *)
(* acknowledged InTime ago, if the network fails less often than the 200 OK    *)
(* is sent in that time (eXosip_retransmit_lost200ok): each copy makes the     *)
(* caller's stack send the ACK again (response_out_of_transaction).            *)
THEOREM AckedCallSurvivesCorrect == ASSUME FewFaults PROVE Spec => AckedCallSurvives
<1>0. PICK g \in {Gap[i] : i \in DOMAIN Gap} :
        (\A i \in DOMAIN Gap : Gap[i] <= g) /\ MaxFaults * g < InTime
  BY DEF FewFaults
<1>1. g \in Nat /\ \A i \in 1..Len(Gap) : Gap[i] <= g
  BY <1>0, TransactionAssumption DEF TransactionAssumption
<1>2. Init => SurvivesInv(g)
  BY <1>1, SurvivesInit, TransactionAssumption, TimeAssumption
<1>3. SurvivesInv(g) /\ [Next]_vars => SurvivesInv(g)'
  BY <1>1, SurvivesStep, TransactionAssumption, TimeAssumption
<1>4. SurvivesInv(g) /\ [Next]_vars =>
        [\A k \in Callee : GiveUp(k) => caller.ack < InTime \/ caller.tag # k]_vars
  BY <1>0, <1>1, GiveUpIsLate, TransactionAssumption DEF SurvivesInv
<1> QED
  BY <1>2, <1>3, <1>4, PTL DEF Spec, AckedCallSurvives
=============================================================================
