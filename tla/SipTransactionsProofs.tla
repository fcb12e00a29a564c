------------------------ MODULE SipTransactionsProofs ------------------------
(* The callee's program is in one call at a time, and what the two programs    *)
(* hear are the steps of one call, for any times and any number of faults.     *)
EXTENDS SipTransactions, FiniteSetTheorems, TLAPS

-----------------------------------------------------------------------------
(* The network.                                                                *)

NetOK == net \subseteq Packet /\ IsFiniteSet(net) /\ faults \in 0..MaxFaults

LEMMA FreshType ==
  ASSUME TransactionAssumption, NEW S \in SUBSET Message, IsFiniteSet(S)
  PROVE  Fresh(S) \subseteq Packet /\ IsFiniteSet(Fresh(S))
<1>1. Fresh(S) \subseteq Packet
  BY DEF Fresh, Packet, TransactionAssumption
<1>2. [s \in S |-> [msg |-> s, age |-> 0]] \in Surjection(S, Fresh(S))
  BY DEF Surjection, Fresh
<1> QED
  BY <1>1, <1>2, FS_Surjection

LEMMA SendKeeps ==
  ASSUME TransactionAssumption, NetOK, NEW S \in SUBSET Message, IsFiniteSet(S), Send(S)
  PROVE  NetOK' /\ \A y \in net' : y \in net \/ y.msg \in S
<1>1. Fresh(S) \subseteq Packet /\ IsFiniteSet(Fresh(S))
  BY FreshType
<1>2. IsFiniteSet(net \cup Fresh(S))
  BY <1>1, FS_Union DEF NetOK
<1>3. \A y \in Fresh(S) : y.msg \in S
  BY DEF Fresh
<1> QED
  BY <1>1, <1>2, <1>3 DEF NetOK, Send

LEMMA ExchangeKeeps ==
  ASSUME TransactionAssumption, NetOK, NEW x \in net, NEW again \in BOOLEAN,
         NEW S \in SUBSET Message, IsFiniteSet(S), Exchange(x, again, S)
  PROVE  NetOK' /\ \A y \in net' : y \in net \/ y.msg \in S
<1> DEFINE kept == IF again THEN net ELSE net \ {x}
<1>1. Fresh(S) \subseteq Packet /\ IsFiniteSet(Fresh(S))
  BY FreshType
<1>2. kept \subseteq net /\ IsFiniteSet(kept)
  BY FS_Subset DEF NetOK
<1>3. IsFiniteSet(kept \cup Fresh(S))
  BY <1>1, <1>2, FS_Union
<1>4. \A y \in Fresh(S) : y.msg \in S
  BY DEF Fresh
<1>5. net' = kept \cup Fresh(S)
  BY DEF Exchange
<1>6. faults' \in 0..MaxFaults
  BY DEF Exchange, NetOK, TransactionAssumption
<1> QED
  BY <1>1, <1>2, <1>3, <1>4, <1>5, <1>6 DEF NetOK

(* The sets of messages the actions send.                                      *)
LEMMA SomeMessages ==
  ASSUME NEW m \in Message, NEW n \in Message
  PROVE  /\ {} \in SUBSET Message /\ IsFiniteSet({})
         /\ {m} \in SUBSET Message /\ IsFiniteSet({m})
         /\ {m, n} \in SUBSET Message /\ IsFiniteSet({m, n})
<1>1. {m, n} = {m} \cup {n}
  OBVIOUS
<1>2. IsFiniteSet({}) /\ IsFiniteSet({m}) /\ IsFiniteSet({n})
  BY FS_EmptySet, FS_Singleton
<1>3. IsFiniteSet({m, n})
  BY <1>1, <1>2, FS_Union
<1> QED
  BY <1>2, <1>3

(* Only Send200 and Resend200 send an answer that a program hears.             *)
LEMMA NoAnswer ==
  \A k : /\ Msg("101", k).m # "200" /\ Msg("refuse", k).m # "200" /\ Msg("ACK", k).m # "200"
         /\ Msg("ACK refuse", k).m # "200" /\ Msg("BYE", k).m # "200"
         /\ Msg("CANCEL", k).m # "200" /\ Msg("CANCEL answered", k).m # "200"
         /\ Msg("stray BYE", k).m # "200" /\ Msg("BYE answered", k).m # "200"
         /\ Msg("200", k).k = k
BY DEF Msg

LEMMA MessageType ==
  ASSUME TransactionAssumption
  PROVE  /\ Msg("INVITE", 0) \in Message /\ Msg("ACK", 0) \in Message
         /\ Msg("ACK refuse", 0) \in Message /\ Msg("stray BYE", 0) \in Message
         /\ Msg("CANCEL", 0) \in Message /\ Msg("CANCEL answered", 0) \in Message
         /\ \A k \in Callee : /\ Msg("101", k) \in Message /\ Msg("200", k) \in Message
                              /\ Msg("refuse", k) \in Message
         /\ \A k \in 0..MaxCall : Msg("BYE", k) \in Message /\ Msg("BYE answered", k) \in Message
         /\ 0 \in 0..MaxCall /\ Callee \subseteq 0..MaxCall
         /\ 0..MaxCall \subseteq Branch /\ \A k \in Callee : Own(k) \in Branch
BY DEF Msg, Message, Callee, Branch, Own, TransactionAssumption

(* What a message of each kind names.                                          *)
LEMMA PacketType ==
  ASSUME TransactionAssumption, NEW x \in Packet
  PROVE  /\ x.msg \in Message /\ x.age \in 0..Life
         /\ x.msg.m \in {"101", "200", "refuse"} => x.msg.k \in Callee
         /\ x.msg.m \in {"BYE", "BYE answered"} => x.msg.k \in 0..MaxCall
BY DEF Packet, Message

LEMMA TickNet ==
  ASSUME TransactionAssumption, NetOK, Tick
  PROVE  NetOK' /\ \A y \in net' : \E x \in net : y.msg = x.msg
<1> DEFINE f == [x \in net |-> [x EXCEPT !.age = @ + 1]]
<1>1. \A x \in net : f[x] \in Packet /\ f[x].msg = x.msg
  BY DEF Tick, NetOK, Packet, TransactionAssumption
<1>2. net' = {f[x] : x \in net}
  BY DEF Tick
<1>3. f \in Surjection(net, net')
  BY <1>2 DEF Surjection
<1>4. IsFiniteSet(net')
  BY <1>3, FS_Surjection DEF NetOK
<1>5. Cardinality(net) \in Nat
  BY FS_CardinalityType DEF NetOK
<1>6. faults' \in 0..MaxFaults
  BY <1>5 DEF Tick, NetOK, TransactionAssumption
<1> QED
  BY <1>1, <1>2, <1>4, <1>6 DEF NetOK

-----------------------------------------------------------------------------
(* Transactions and calls.                                                     *)

LEMMA TransactionType ==
  ASSUME TransactionAssumption, NEW S, NEW t \in Transactions(S)
  PROVE  /\ \A s \in S, r \in Time, e \in Time : Transaction(s, r, e) \in Transactions(S)
         /\ \A l \in Nat : [t EXCEPT !.len = l, !.resend = l] \in Transactions(S)
         /\ t.state \in S /\ t.len \in Nat
         /\ ~Due(t) => Later(t) \in Transactions(S)
         /\ Later(t).state = t.state
<1>1. \A s \in S, r \in Time, e \in Time : Transaction(s, r, e) \in Transactions(S)
  BY DEF Transaction, Transactions, Time, Off
<1>2. \A l \in Nat : [t EXCEPT !.len = l, !.resend = l] \in Transactions(S)
  BY DEF Transactions, Time
<1>3. /\ t.resend \in Time /\ t.end \in Time /\ t.state \in S /\ t.len \in Nat
      /\ t = [state |-> t.state, resend |-> t.resend, len |-> t.len, end |-> t.end]
  BY DEF Transactions
<1>4. ASSUME NEW r \in Time, NEW e \in Time
      PROVE  [state |-> t.state, resend |-> r, len |-> t.len, end |-> e] \in Transactions(S)
  BY <1>3 DEF Transactions
<1>5. ASSUME ~Due(t) PROVE Less(t.resend) \in Time /\ Less(t.end) \in Time
  <2>1. ASSUME NEW r \in Time, r # 0 PROVE Less(r) \in Time
    BY <2>1 DEF Less, Time, Off
  <2>2. t.resend # 0 /\ t.end # 0
    BY <1>5 DEF Due
  <2> QED
    BY <1>3, <2>1, <2>2
<1>6. Later(t) = [state |-> t.state, resend |-> Less(t.resend), len |-> t.len,
                  end |-> Less(t.end)]
  <2>1. Later(t) = [t EXCEPT !.resend = Less(t.resend), !.end = Less(t.end)]
    BY <1>3 DEF Later
  <2>2. t \in [state : S, resend : Time, len : Nat, end : Time]
    BY DEF Transactions
  <2> HIDE DEF Less
  <2> QED
    BY <2>1, <2>2
<1>7. Later(t).state = t.state
  BY <1>6
<1>8. ~Due(t) => Later(t) \in Transactions(S)
  BY <1>4, <1>5, <1>6
<1> QED
  BY <1>1, <1>2, <1>3, <1>7, <1>8

LEMMA Times ==
  ASSUME TransactionAssumption
  PROVE  /\ Off \in Time /\ T1 \in Time /\ T4 \in Time /\ Long \in Time
         /\ Unused \in Transactions(InviteState) /\ Terminated \in Transactions(InviteState)
         /\ ict_snd_invite \in Transactions(InviteState)
         /\ ict_rcv_1xx \in Transactions(InviteState)
         /\ ict_rcv_3456xx \in Transactions(InviteState)
         /\ ist_rcv_invite \in Transactions(InviteState)
         /\ ist_snd_3456xx \in Transactions(InviteState)
         /\ ist_rcv_ack \in Transactions(InviteState)
         /\ Unused \in Transactions(OtherState) /\ Terminated \in Transactions(OtherState)
         /\ nict_snd_request \in Transactions(OtherState)
         /\ nict_rcv_23456xx \in Transactions(OtherState)
         /\ nist_snd_23456xx \in Transactions(OtherState)
<1>1. /\ Off \in Time /\ T1 \in Time /\ T4 \in Time /\ Long \in Time
      /\ T1 \in Nat /\ Off = -1
  BY DEF Time, Off, TransactionAssumption
<1>2. \A S : \A s \in S, r \in Time, e \in Time : Transaction(s, r, e) \in Transactions(S)
  BY <1>1 DEF Transaction, Transactions, Time
<1> QED
  BY <1>1, <1>2 DEF Unused, Terminated, ict_snd_invite, ict_rcv_1xx, ict_rcv_3456xx,
     ist_rcv_invite, ist_snd_3456xx, ist_rcv_ack, nict_snd_request, nict_rcv_23456xx,
     nist_snd_23456xx, InviteState, OtherState

LEMMA CallerType ==
  ASSUME TransactionAssumption, NEW c \in CallerCall
  PROVE  /\ \A b \in 0..MaxCall : Closed(c, b) \in CallerCall
         /\ Released(c) \in CallerCall
         /\ [c EXCEPT !.age = 0] \in CallerCall
         /\ \A k \in Callee :
              /\ [c EXCEPT !.jd = "early", !.tag = k, !.age = 0] \in CallerCall
              /\ [c EXCEPT !.jd = "confirmed", !.tag = k, !.heard = "up", !.age = 0] \in CallerCall
         /\ [c EXCEPT !.jd = IF @ = "none" THEN @ ELSE "empty", !.heard = Ended(@)] \in CallerCall
         /\ [c EXCEPT !.ack = 0] \in CallerCall
         /\ \A t : [Older(c, t) EXCEPT !.ack = IF @ # Off /\ @ < InTime THEN @ + 1 ELSE @]
                    \in CallerCall
<1>1. /\ c.jd \in Dialog /\ c.heard \in {"calling", "up", "over", "off"}
      /\ c.bye \in 0..MaxCall \cup {Off} /\ c.age \in 0..Longest /\ c.tag \in 0..MaxCall
      /\ c.ack \in 0..InTime \cup {Off}
  BY DEF CallerCall
<1>2. Ended(c.heard) \in {"over", "off"} /\ {"none", "early", "confirmed", "empty", "gone"} = Dialog
  BY DEF Ended, Dialog
<1>3. 0 \in 0..Longest /\ 0 \in 0..InTime /\ Callee \subseteq 0..MaxCall
  BY DEF TransactionAssumption, Callee
<1>4. ASSUME NEW t PROVE Older(c, t) \in CallerCall
  <2>1. \A a \in 0..Longest : [c EXCEPT !.age = a] \in CallerCall
    BY <1>1 DEF CallerCall
  <2>2. (IF Alive(t) /\ c.age < Longest THEN c.age + 1 ELSE c.age) \in 0..Longest
    BY <1>1 DEF TransactionAssumption
  <2> QED
    BY <2>1, <2>2, Zenon DEF Older
<1>5. ASSUME NEW d \in CallerCall
      PROVE  [d EXCEPT !.ack = IF @ # Off /\ @ < InTime THEN @ + 1 ELSE @] \in CallerCall
  <2>1. (IF d.ack # Off /\ d.ack < InTime THEN d.ack + 1 ELSE d.ack) \in 0..InTime \cup {Off}
    BY DEF CallerCall, Off, TransactionAssumption
  <2> QED
    BY <2>1 DEF CallerCall
<1>6. \A b \in 0..MaxCall : Closed(c, b) \in CallerCall
  BY <1>1, <1>2 DEF Closed, CallerCall
<1>7. Released(c) \in CallerCall
  BY <1>1, <1>2, <1>3 DEF Released, CallerCall
<1>8. /\ [c EXCEPT !.age = 0] \in CallerCall /\ [c EXCEPT !.ack = 0] \in CallerCall
  BY <1>1, <1>3 DEF CallerCall
<1>9. ASSUME NEW k \in Callee
      PROVE  /\ [c EXCEPT !.jd = "early", !.tag = k, !.age = 0] \in CallerCall
             /\ [c EXCEPT !.jd = "confirmed", !.tag = k, !.heard = "up", !.age = 0] \in CallerCall
  BY <1>1, <1>2, <1>3 DEF CallerCall
<1>10. [c EXCEPT !.jd = IF @ = "none" THEN @ ELSE "empty", !.heard = Ended(@)] \in CallerCall
  BY <1>1, <1>2 DEF CallerCall
<1> QED
  BY <1>4, <1>5, <1>6, <1>7, <1>8, <1>9, <1>10

LEMMA CalleeType ==
  ASSUME TransactionAssumption, NEW c \in CalleeCall
  PROVE  /\ \A b \in Branch : Closed(c, b) \in CalleeCall
         /\ Released(c) \in CalleeCall
         /\ [c EXCEPT !.jd = "early", !.heard = "asked"] \in CalleeCall
         /\ [c EXCEPT !.jd = "confirmed", !.heard = "up", !.age = 0, !.wait = Gap[1]] \in CalleeCall
         /\ [c EXCEPT !.jd = "empty", !.heard = "off"] \in CalleeCall
         /\ [c EXCEPT !.wait = Off, !.count = 0] \in CalleeCall
         /\ \A n \in 1..Len(Gap) :
              [c EXCEPT !.count = n, !.wait = IF n < Len(Gap) THEN Gap[n + 1] ELSE 0] \in CalleeCall
         /\ \A t, b : (b => c.wait \in Nat \ {0}) =>
              [Older(c, t) EXCEPT !.wait = IF b THEN @ - 1 ELSE @] \in CalleeCall
<1>1. /\ c.jd \in Dialog /\ c.heard \in {"none", "asked", "up", "over", "off"}
      /\ c.bye \in Branch \cup {Off} /\ c.age \in 0..Longest /\ c.wait \in Time
      /\ c.count \in 0..Len(Gap)
  BY DEF CalleeCall
<1>2. Ended(c.heard) \in {"over", "off"} /\ {"none", "early", "confirmed", "empty", "gone"} = Dialog
  BY DEF Ended, Dialog
<1>3. /\ 0 \in 0..Longest /\ 0 \in Time /\ Off \in Time /\ 0 \in 0..Len(Gap) /\ Gap[1] \in Time
      /\ Len(Gap) \in Nat
  BY DEF TransactionAssumption, Time
<1>4. \A b \in Branch : Closed(c, b) \in CalleeCall
  BY <1>1, <1>2 DEF Closed, CalleeCall
<1>5. Released(c) \in CalleeCall
  BY <1>1, <1>2, <1>3 DEF Released, CalleeCall
<1>6. /\ [c EXCEPT !.jd = "early", !.heard = "asked"] \in CalleeCall
      /\ [c EXCEPT !.jd = "confirmed", !.heard = "up", !.age = 0, !.wait = Gap[1]] \in CalleeCall
      /\ [c EXCEPT !.jd = "empty", !.heard = "off"] \in CalleeCall
      /\ [c EXCEPT !.wait = Off, !.count = 0] \in CalleeCall
  BY <1>1, <1>2, <1>3 DEF CalleeCall
<1>7. ASSUME NEW n \in 1..Len(Gap)
      PROVE  [c EXCEPT !.count = n, !.wait = IF n < Len(Gap) THEN Gap[n + 1] ELSE 0] \in CalleeCall
  <2>1. (IF n < Len(Gap) THEN Gap[n + 1] ELSE 0) \in Time /\ n \in 0..Len(Gap)
    BY <1>3 DEF TransactionAssumption, Time
  <2> QED
    BY <1>1, <2>1 DEF CalleeCall
<1>8. ASSUME NEW t, NEW b, b => c.wait \in Nat \ {0}
      PROVE  [Older(c, t) EXCEPT !.wait = IF b THEN @ - 1 ELSE @] \in CalleeCall
  <2>1. Older(c, t) \in CalleeCall /\ Older(c, t).wait = c.wait
    <3>1. \A a \in 0..Longest : /\ [c EXCEPT !.age = a] \in CalleeCall
                                /\ [c EXCEPT !.age = a].wait = c.wait
      BY <1>1 DEF CalleeCall
    <3>2. (IF Alive(t) /\ c.age < Longest THEN c.age + 1 ELSE c.age) \in 0..Longest
      BY <1>1 DEF TransactionAssumption
    <3> QED
      BY <3>1, <3>2, Zenon DEF Older
  <2>2. (IF b THEN c.wait - 1 ELSE c.wait) \in Time
    BY <1>1, <1>8 DEF Time
  <2> QED
    BY <2>1, <2>2 DEF CalleeCall
<1> QED
  BY <1>4, <1>5, <1>6, <1>7, <1>8

-----------------------------------------------------------------------------
(* Types.                                                                      *)

LEMMA InitType == ASSUME TransactionAssumption, Init PROVE CallTypeOK
<1>1. Msg("INVITE", 0) \in Message
  BY MessageType
<1>2. net = Fresh({Msg("INVITE", 0)})
  BY DEF Init
<1>3. net \subseteq Packet /\ IsFiniteSet(net)
  BY <1>1, <1>2, SomeMessages, FreshType
<1>4. NewCaller \in CallerCall /\ NewCallee \in CalleeCall
  BY DEF NewCaller, NewCallee, CallerCall, CalleeCall, Dialog, Time, Off, TransactionAssumption
<1>5. faults \in 0..MaxFaults
  BY DEF Init, TransactionAssumption
<1> QED
  BY <1>3, <1>4, <1>5, Times DEF Init, CallTypeOK

LEMMA NetIsOK == (CallTypeOK => NetOK) /\ (TypeOK => NetOK)
BY DEF TypeOK, CallTypeOK, NetOK

LEMMA RcvInviteType ==
  ASSUME TransactionAssumption, CallTypeOK, NEW x \in net, NEW again \in BOOLEAN, RcvInvite(x, again)
  PROVE  CallTypeOK'
<1>1. UNCHANGED <<ict, nict, nist, caller>>
  BY DEF RcvInvite
<1>2. CASE \E k \in ActiveIst :
             Exchange(x, again, LastResponse(k)) /\ UNCHANGED <<ist, callee>>
  <2>1. PICK k \in ActiveIst : Exchange(x, again, LastResponse(k)) /\ UNCHANGED <<ist, callee>>
    BY <1>2
  <2>2. LastResponse(k) \in SUBSET Message /\ IsFiniteSet(LastResponse(k))
    BY MessageType, SomeMessages DEF LastResponse, ActiveIst
  <2>3. NetOK'
    BY <2>1, <2>2, NetIsOK, ExchangeKeeps
  <2> QED
    BY <1>1, <2>1, <2>3 DEF CallTypeOK, NetOK
<1>3. CASE Exchange(x, again, {}) /\ UNCHANGED <<ist, callee>>
  <2>1. NetOK'
    BY <1>3, NetIsOK, ExchangeKeeps, FS_EmptySet
  <2> QED
    BY <1>1, <1>3, <2>1 DEF CallTypeOK, NetOK
<1>4. CASE \E k \in NeverAsked : NewInvite(k) /\ Exchange(x, again, {Msg("101", k)})
  <2>1. PICK k \in NeverAsked : NewInvite(k) /\ Exchange(x, again, {Msg("101", k)})
    BY <1>4
  <2>2. NetOK'
    BY <2>1, NetIsOK, ExchangeKeeps, MessageType, SomeMessages DEF NeverAsked
  <2>3. ist' \in [Callee -> Transactions(InviteState)]
    BY <2>1, Times DEF NewInvite, CallTypeOK
  <2>4. callee' \in [Callee -> CalleeCall]
    <3>1. [callee[k] EXCEPT !.jd = "early", !.heard = "asked"] \in CalleeCall
      BY CalleeType DEF CallTypeOK, NeverAsked
    <3>2. callee' = [callee EXCEPT ![k] = [callee[k] EXCEPT !.jd = "early", !.heard = "asked"]]
      BY <2>1 DEF NewInvite, CallTypeOK, NeverAsked, CalleeCall
    <3> QED
      BY <3>1, <3>2 DEF CallTypeOK
  <2> QED
    BY <1>1, <2>2, <2>3, <2>4 DEF CallTypeOK, NetOK
<1> QED
  BY <1>2, <1>3, <1>4 DEF RcvInvite

LEMMA RcvAckType ==
  ASSUME TransactionAssumption, CallTypeOK, NEW x \in net, NEW again \in BOOLEAN, RcvAck(x, again)
  PROVE  CallTypeOK'
<1>1. UNCHANGED <<ict, nict, nist, caller>> /\ Exchange(x, again, {})
  BY DEF RcvAck
<1>2. NetOK'
  BY <1>1, NetIsOK, ExchangeKeeps, FS_EmptySet
<1>3. CASE /\ ist' = [k \in Callee |->
                        IF ist[k].state \in {"COMPLETED", "CONFIRMED"} THEN ist_rcv_ack ELSE ist[k]]
           /\ UNCHANGED callee
  BY <1>1, <1>2, <1>3, Times DEF CallTypeOK, NetOK
<1>4. CASE ProcessAck /\ UNCHANGED ist
  <2>1. \A k \in Callee : [callee[k] EXCEPT !.wait = Off, !.count = 0] \in CalleeCall
    BY CalleeType DEF CallTypeOK
  <2>2. callee' \in [Callee -> CalleeCall]
    BY <1>4, <2>1 DEF ProcessAck, CallTypeOK
  <2> QED
    BY <1>1, <1>2, <1>4, <2>2 DEF CallTypeOK, NetOK
<1> QED
  BY <1>3, <1>4 DEF RcvAck

LEMMA RcvByeType ==
  ASSUME TransactionAssumption, CallTypeOK, NEW x \in net, NEW again \in BOOLEAN,
         RcvByeOfCaller(x, again) \/ RcvStrayBye(x, again) \/ RcvByeOfCallee(x, again)
         \/ RcvByeAnswered(x, again)
  PROVE  CallTypeOK'
<1>0. x \in Packet /\ nist_snd_23456xx \in Transactions(OtherState)
      /\ nict_rcv_23456xx \in Transactions(OtherState)
  BY Times DEF CallTypeOK
<1>1. CASE RcvByeOfCaller(x, again)
  <2>1. NetOK'
    BY <1>1, NetIsOK, ExchangeKeeps, MessageType, SomeMessages DEF RcvByeOfCaller
  <2>2. \A k \in Callee : Closed(callee[k], 0) \in CalleeCall
    BY CalleeType, MessageType DEF CallTypeOK
  <2>3. callee' \in [Callee -> CalleeCall]
    <3>1. \/ callee' = callee
          \/ callee' = [k \in Callee |-> IF k \in Live THEN Closed(callee[k], 0) ELSE callee[k]]
      BY <1>1, Zenon DEF RcvByeOfCaller
    <3>2. [k \in Callee |-> IF k \in Live THEN Closed(callee[k], 0) ELSE callee[k]]
            \in [Callee -> CalleeCall]
      BY <2>2 DEF CallTypeOK
    <3> QED
      BY <3>1, <3>2 DEF CallTypeOK
  <2>4. nist' \in [Branch -> Transactions(OtherState)]
    BY <1>0, <1>1 DEF RcvByeOfCaller, CallTypeOK
  <2> QED
    BY <1>1, <2>1, <2>3, <2>4 DEF RcvByeOfCaller, CallTypeOK, NetOK
<1>2. CASE RcvStrayBye(x, again)
  <2>1. NetOK'
    BY <1>2, NetIsOK, ExchangeKeeps, FS_EmptySet DEF RcvStrayBye
  <2>2. \A k \in Callee : Closed(callee[k], Own(k)) \in CalleeCall
    BY CalleeType, MessageType DEF CallTypeOK
  <2> QED
    BY <1>0, <1>2, <2>1, <2>2 DEF RcvStrayBye, CallTypeOK, NetOK
<1>3. CASE RcvByeOfCallee(x, again)
  <2>0. x.msg.k \in 0..MaxCall
    BY <1>0, <1>3, PacketType DEF RcvByeOfCallee
  <2>1. NetOK'
    BY <1>3, <2>0, NetIsOK, ExchangeKeeps, MessageType, SomeMessages DEF RcvByeOfCallee
  <2>2. Closed(caller, x.msg.k) \in CallerCall
    BY <2>0, CallerType DEF CallTypeOK
  <2> QED
    BY <1>0, <1>3, <2>1, <2>2 DEF RcvByeOfCallee, CallTypeOK, NetOK
<1>4. CASE RcvByeAnswered(x, again)
  <2>1. NetOK'
    BY <1>4, NetIsOK, ExchangeKeeps, FS_EmptySet DEF RcvByeAnswered
  <2> QED
    BY <1>0, <1>4, <2>1 DEF RcvByeAnswered, CallTypeOK, NetOK
<1> QED
  BY <1>1, <1>2, <1>3, <1>4

LEMMA OutOfTransactionType ==
  ASSUME TransactionAssumption, NEW k
  PROVE  OutOfTransaction(k) \in SUBSET Message /\ IsFiniteSet(OutOfTransaction(k))
BY MessageType, SomeMessages DEF OutOfTransaction

LEMMA RcvAnswerType ==
  ASSUME TransactionAssumption, CallTypeOK, NEW x \in net, NEW again \in BOOLEAN,
         Rcv1xx(x, again) \/ Rcv2xx(x, again) \/ RcvRefuse(x, again)
  PROVE  CallTypeOK'
<1>0. x \in Packet
  BY DEF CallTypeOK
<1>1. CASE Rcv1xx(x, again)
  <2>0. x.msg.k \in Callee
    BY <1>0, <1>1, PacketType DEF Rcv1xx
  <2>1. NetOK'
    BY <1>1, NetIsOK, ExchangeKeeps, OutOfTransactionType, FS_EmptySet DEF Rcv1xx
  <2>2. /\ [caller EXCEPT !.age = 0] \in CallerCall
        /\ [caller EXCEPT !.jd = "early", !.tag = x.msg.k, !.age = 0] \in CallerCall
    BY <2>0, CallerType DEF CallTypeOK
  <2>3. caller' \in CallerCall
    BY <1>1, <2>2 DEF Rcv1xx, CallTypeOK
  <2>4. ict' \in Transactions(InviteState)
    BY <1>1, Times DEF Rcv1xx, CallTypeOK
  <2> QED
    BY <1>1, <2>1, <2>3, <2>4 DEF Rcv1xx, CallTypeOK, NetOK
<1>2. CASE Rcv2xx(x, again)
  <2>0. x.msg.k \in Callee
    BY <1>0, <1>2, PacketType DEF Rcv2xx
  <2>1. NetOK'
    BY <1>2, NetIsOK, ExchangeKeeps, OutOfTransactionType, FS_EmptySet DEF Rcv2xx
  <2>2. [caller EXCEPT !.jd = "confirmed", !.tag = x.msg.k, !.heard = "up", !.age = 0] \in CallerCall
    BY <2>0, CallerType DEF CallTypeOK
  <2>3. caller' \in CallerCall
    BY <1>2, <2>2 DEF Rcv2xx, CallTypeOK
  <2>4. ict' \in Transactions(InviteState)
    BY <1>2, Times DEF Rcv2xx, CallTypeOK
  <2> QED
    BY <1>2, <2>1, <2>3, <2>4 DEF Rcv2xx, CallTypeOK, NetOK
<1>3. CASE RcvRefuse(x, again)
  <2>1. NetOK'
    BY <1>3, NetIsOK, ExchangeKeeps, MessageType, SomeMessages DEF RcvRefuse
  <2>2. [caller EXCEPT !.jd = IF @ = "none" THEN @ ELSE "empty", !.heard = Ended(@)] \in CallerCall
    BY CallerType DEF CallTypeOK
  <2>3. caller' \in CallerCall
    BY <1>3, <2>2 DEF RcvRefuse, CallTypeOK
  <2>4. ict' \in Transactions(InviteState)
    BY <1>3, Times DEF RcvRefuse, CallTypeOK
  <2> QED
    BY <1>3, <2>1, <2>3, <2>4 DEF RcvRefuse, CallTypeOK, NetOK
<1> QED
  BY <1>1, <1>2, <1>3

LEMMA TerminateType ==
  ASSUME TransactionAssumption, CallTypeOK, NEW k \in Callee, Terminate(k) PROVE CallTypeOK'
<1>1. NetOK'
  BY NetIsOK, SendKeeps, MessageType, SomeMessages DEF Terminate
<1>2. Closed(callee[k], k) \in CalleeCall
  BY CalleeType, MessageType DEF CallTypeOK
<1>3. nict' \in [0..MaxCall -> Transactions(OtherState)]
  BY Times DEF Terminate, CallTypeOK
<1> QED
  BY <1>1, <1>2, <1>3 DEF Terminate, CallTypeOK, NetOK

LEMMA RefusedType ==
  ASSUME TransactionAssumption, CallTypeOK, NetOK', NEW k \in Callee, Refused(k),
         UNCHANGED <<ict, nict, nist, caller>>
  PROVE  CallTypeOK'
<1>1. ist' \in [Callee -> Transactions(InviteState)]
  BY Times DEF Refused, CallTypeOK
<1>2. [callee[k] EXCEPT !.jd = "empty", !.heard = "off"] \in CalleeCall
  BY CalleeType DEF CallTypeOK
<1>3. callee' = [callee EXCEPT ![k] = [@ EXCEPT !.jd = "empty", !.heard = "off"]]
  BY DEF Refused
<1> QED
  BY <1>1, <1>2, <1>3 DEF CallTypeOK, NetOK

LEMMA ProgramType == ASSUME TransactionAssumption, CallTypeOK, Program PROVE CallTypeOK'
<1>0. NetOK
  BY NetIsOK
<1>1. ASSUME NEW k \in Callee, Accept(k) PROVE CallTypeOK'
  <2>1. NetOK'
    BY <1>0, <1>1, SendKeeps, FS_EmptySet DEF Accept
  <2>2. ist' \in [Callee -> Transactions(InviteState)]
    BY <1>1 DEF Accept, CallTypeOK
  <2>3. [callee[k] EXCEPT !.jd = "confirmed", !.heard = "up", !.age = 0, !.wait = Gap[1]] \in CalleeCall
    BY CalleeType DEF CallTypeOK
  <2>4. callee' = [callee EXCEPT ![k] = [@ EXCEPT !.jd = "confirmed", !.heard = "up", !.age = 0,
                                                 !.wait = Gap[1]]]
    BY <1>1 DEF Accept
  <2> QED
    BY <1>1, <2>1, <2>2, <2>3, <2>4 DEF Accept, CallTypeOK, NetOK
<1>2. ASSUME NEW k \in Callee, Refuse(k) PROVE CallTypeOK'
  <2>1. NetOK'
    BY <1>0, <1>2, SendKeeps, MessageType, SomeMessages DEF Refuse
  <2>2. Refused(k) /\ UNCHANGED <<ict, nict, nist, caller>>
    BY <1>2 DEF Refuse
  <2> QED
    BY <2>1, <2>2, RefusedType
<1>3. CASE SendAck
  <2>1. NetOK'
    BY <1>0, <1>3, SendKeeps, MessageType, SomeMessages DEF SendAck
  <2>2. [caller EXCEPT !.ack = 0] \in CallerCall
    BY CallerType DEF CallTypeOK
  <2> QED
    BY <1>3, <2>1, <2>2 DEF SendAck, CallTypeOK, NetOK
<1>4. CASE CallerHangsUp
  <2>1. NetOK'
    BY <1>0, <1>4, SendKeeps, MessageType, SomeMessages DEF CallerHangsUp
  <2>2. Closed(caller, 0) \in CallerCall
    BY CallerType, MessageType DEF CallTypeOK
  <2>3. nict' \in [0..MaxCall -> Transactions(OtherState)]
    BY <1>4, Times DEF CallerHangsUp, CallTypeOK
  <2> QED
    BY <1>4, <2>1, <2>2, <2>3 DEF CallerHangsUp, CallTypeOK, NetOK
<1>5. ASSUME NEW k \in Callee, CalleeHangsUp(k) PROVE CallTypeOK'
  BY <1>5, TerminateType DEF CalleeHangsUp
<1>6. CASE CallerCancels
  <2>1. NetOK'
    BY <1>0, <1>6, SendKeeps, MessageType, SomeMessages DEF CallerCancels
  <2> QED
    BY <1>6, <2>1 DEF CallerCancels, CallTypeOK, NetOK
<1> QED
  BY <1>1, <1>2, <1>3, <1>4, <1>5, <1>6 DEF Program

LEMMA TimeoutInviteType ==
  ASSUME TransactionAssumption, CallTypeOK, TimeoutIct \/ \E k \in Callee : TimeoutIst(k)
  PROVE  CallTypeOK'
<1>0. NetOK
  BY NetIsOK
<1>1. CASE TimeoutIct
  <2>1. NetOK'
    BY <1>0, <1>1, SendKeeps, MessageType, SomeMessages DEF TimeoutIct
  <2>2. 2 * ict.len \in Nat
    BY DEF CallTypeOK, Transactions
  <2>3. osip_ict_timeout_a_event \in Transactions(InviteState)
    BY <2>2, TransactionType DEF osip_ict_timeout_a_event, CallTypeOK
  <2> QED
    BY <1>1, <2>1, <2>3, Times DEF TimeoutIct, CallTypeOK, NetOK
<1>2. ASSUME NEW k \in Callee, TimeoutIst(k) PROVE CallTypeOK'
  <2>1. NetOK'
    BY <1>0, <1>2, SendKeeps, MessageType, SomeMessages DEF TimeoutIst
  <2>2. ist[k] \in Transactions(InviteState)
    BY DEF CallTypeOK
  <2>3. (IF 2 * ist[k].len < T2 THEN 2 * ist[k].len ELSE T2) \in Nat
    BY <2>2 DEF Transactions, TransactionAssumption
  <2>4. osip_ist_timeout_g_event(k) \in Transactions(InviteState)
    BY <2>2, <2>3, TransactionType DEF osip_ist_timeout_g_event
  <2>5. /\ \E t \in Transactions(InviteState) : ist' = [ist EXCEPT ![k] = t]
        /\ UNCHANGED <<ict, nict, nist, caller, callee>>
    BY <1>2, <2>4, Times DEF TimeoutIst
  <2> QED
    BY <2>1, <2>5 DEF CallTypeOK, NetOK
<1> QED
  BY <1>1, <1>2

LEMMA TimeoutByeType ==
  ASSUME TransactionAssumption, CallTypeOK,
         (\E b \in 0..MaxCall : TimeoutNict(b)) \/ \E b \in Branch : TimeoutNist(b)
  PROVE  CallTypeOK'
<1>0. NetOK
  BY NetIsOK
<1>1. ASSUME NEW b \in 0..MaxCall, TimeoutNict(b) PROVE CallTypeOK'
  <2>1. NetOK'
    BY <1>0, <1>1, SendKeeps, MessageType, SomeMessages DEF TimeoutNict
  <2>2. nict[b] \in Transactions(OtherState)
    BY DEF CallTypeOK
  <2>3. (IF 2 * nict[b].len < T2 THEN 2 * nict[b].len ELSE T2) \in Nat
    BY <2>2 DEF Transactions, TransactionAssumption
  <2>4. osip_nict_timeout_e_event(nict[b]) \in Transactions(OtherState)
    BY <2>2, <2>3, TransactionType DEF osip_nict_timeout_e_event
  <2> QED
    BY <1>1, <2>1, <2>4, Times DEF TimeoutNict, CallTypeOK, NetOK
<1>2. ASSUME NEW b \in Branch, TimeoutNist(b) PROVE CallTypeOK'
  <2>1. NetOK'
    BY <1>0, <1>2, SendKeeps, FS_EmptySet DEF TimeoutNist
  <2> QED
    BY <1>2, <2>1, Times DEF TimeoutNist, CallTypeOK, NetOK
<1> QED
  BY <1>1, <1>2

LEMMA Resend200Type ==
  ASSUME TransactionAssumption, CallTypeOK, NEW k \in Callee, Resend200(k) \/ GiveUp(k)
  PROVE  CallTypeOK'
<1>1. CASE Resend200(k)
  <2> DEFINE n == callee[k].count + 1
             c == [callee[k] EXCEPT !.count = n, !.wait = IF n < Len(Gap) THEN Gap[n + 1] ELSE 0]
  <2>1. NetOK'
    BY <1>1, NetIsOK, SendKeeps, MessageType, SomeMessages DEF Resend200
  <2>2. callee[k] \in CalleeCall
    BY DEF CallTypeOK
  <2>3. n \in 1..Len(Gap)
    <3>1. Len(Gap) \in Nat
      BY DEF TransactionAssumption
    <3>2. callee[k].count \in 0..Len(Gap)
      BY <2>2 DEF CalleeCall
    <3>3. callee[k].count < Len(Gap)
      BY <1>1 DEF Resend200
    <3> QED
      BY <3>1, <3>2, <3>3
  <2>4. c \in CalleeCall
    BY <2>2, <2>3, CalleeType
  <2>5. callee' = [callee EXCEPT ![k] = c]
    BY <1>1 DEF Resend200, CallTypeOK
  <2> QED
    BY <1>1, <2>1, <2>4, <2>5 DEF Resend200, CallTypeOK, NetOK
<1>2. CASE GiveUp(k)
  BY <1>2, TerminateType DEF GiveUp
<1> QED
  BY <1>1, <1>2

LEMMA ReleaseType ==
  ASSUME TransactionAssumption, CallTypeOK, ReleaseCaller \/ \E k \in Callee : ReleaseCallee(k)
  PROVE  CallTypeOK'
<1>1. CASE ReleaseCaller
  <2>1. Released(caller) \in CallerCall
    BY CallerType DEF CallTypeOK
  <2> QED
    BY <1>1, <2>1, Times DEF ReleaseCaller, CallTypeOK
<1>2. ASSUME NEW k \in Callee, ReleaseCallee(k) PROVE CallTypeOK'
  <2>1. Released(callee[k]) \in CalleeCall
    BY CalleeType DEF CallTypeOK
  <2> QED
    BY <1>2, <2>1, Times DEF ReleaseCallee, CallTypeOK
<1> QED
  BY <1>1, <1>2

LEMMA TickType == ASSUME TransactionAssumption, CallTypeOK, Tick PROVE CallTypeOK'
<1>1. NetOK'
  BY NetIsOK, TickNet
<1>2. /\ ~Due(ict) /\ \A k \in Callee : ~Due(ist[k]) /\ ~(Awaited(k) /\ callee[k].wait = 0)
      /\ \A b \in 0..MaxCall : ~Due(nict[b])
      /\ \A b \in Branch : ~Due(nist[b])
  BY DEF Tick, SomethingDue
<1>3. Later(ict) \in Transactions(InviteState)
  BY <1>2, TransactionType DEF CallTypeOK
<1>4. \A k \in Callee : Later(ist[k]) \in Transactions(InviteState)
  BY <1>2, TransactionType DEF CallTypeOK
<1>5. \A b \in 0..MaxCall : Later(nict[b]) \in Transactions(OtherState)
  BY <1>2, TransactionType DEF CallTypeOK
<1>6. \A b \in Branch : Later(nist[b]) \in Transactions(OtherState)
  BY <1>2, TransactionType DEF CallTypeOK
<1>7. caller' \in CallerCall
  <2>1. [Older(caller, ict) EXCEPT !.ack = IF @ # Off /\ @ < InTime THEN @ + 1 ELSE @] \in CallerCall
    BY CallerType DEF CallTypeOK
  <2> QED
    BY <2>1 DEF Tick
<1>8. ASSUME NEW k \in Callee
      PROVE  [Older(callee[k], ist[k]) EXCEPT !.wait = IF Awaited(k) THEN @ - 1 ELSE @] \in CalleeCall
  <2>1. callee[k] \in CalleeCall
    BY DEF CallTypeOK
  <2>2. Awaited(k) => callee[k].wait \in Nat \ {0}
    BY <1>2, <2>1 DEF Awaited, CalleeCall, Time
  <2> QED
    BY <2>1, <2>2, CalleeType
<1>9. callee' \in [Callee -> CalleeCall]
  BY <1>8 DEF Tick
<1> QED
  BY <1>1, <1>3, <1>4, <1>5, <1>6, <1>7, <1>9 DEF Tick, CallTypeOK, NetOK

LEMMA LoseType == ASSUME TransactionAssumption, CallTypeOK, Lose PROVE CallTypeOK' /\ net' \subseteq net
<1>1. PICK x \in net : net' = net \ {x}
  BY DEF Lose
<1>2. IsFiniteSet(net')
  BY <1>1, FS_RemoveElement DEF CallTypeOK
<1>3. faults' \in 0..MaxFaults
  BY DEF Lose, CallTypeOK, TransactionAssumption
<1> QED
  BY <1>1, <1>2, <1>3 DEF Lose, CallTypeOK

LEMMA Send200Type ==
  ASSUME TransactionAssumption, CallTypeOK, NEW k \in Callee, Send200(k) PROVE CallTypeOK'
<1>1. NetOK'
  BY NetIsOK, SendKeeps, MessageType, SomeMessages DEF Send200
<1>2. ist' \in [Callee -> Transactions(InviteState)]
  BY Times DEF Send200, CallTypeOK
<1> QED
  BY <1>1, <1>2 DEF Send200, CallTypeOK, NetOK

(* What the CANCEL's transactions send and receive.                            *)
LEMMA CancelCallType ==
  ASSUME TransactionAssumption, CallTypeOK, NEW x \in net, NEW again \in BOOLEAN,
         RcvCancel(x, again) \/ RcvCancelAnswered(x, again)
  PROVE  CallTypeOK'
<1>1. CASE RcvCancel(x, again)
  <2>1. CASE Exchange(x, again, {Msg("CANCEL answered", 0)}) /\ UNCHANGED <<ist, callee>>
    <3>1. NetOK'
      BY <2>1, NetIsOK, ExchangeKeeps, MessageType, SomeMessages
    <3> QED
      BY <1>1, <2>1, <3>1 DEF RcvCancel, CallTypeOK, NetOK
  <2>2. ASSUME NEW k \in Callee, Refused(k),
               Exchange(x, again, {Msg("CANCEL answered", 0), Msg("refuse", k)})
        PROVE  CallTypeOK'
    <3>1. NetOK'
      BY <2>2, NetIsOK, ExchangeKeeps, MessageType, SomeMessages
    <3> QED
      BY <1>1, <2>2, <3>1, RefusedType DEF RcvCancel
  <2> QED
    BY <1>1, <2>1, <2>2 DEF RcvCancel
<1>2. CASE RcvCancelAnswered(x, again)
  <2>1. NetOK'
    BY <1>2, NetIsOK, ExchangeKeeps, FS_EmptySet DEF RcvCancelAnswered
  <2> QED
    BY <1>2, <2>1 DEF RcvCancelAnswered, CallTypeOK, NetOK
<1> QED
  BY <1>1, <1>2

LEMMA TimeoutCancelType ==
  ASSUME TransactionAssumption, CallTypeOK, TimeoutCancel PROVE CallTypeOK'
<1>1. NetOK'
  BY NetIsOK, SendKeeps, MessageType, SomeMessages DEF TimeoutCancel
<1> QED
  BY <1>1 DEF TimeoutCancel, CallTypeOK, NetOK

(* Its two transactions are like those of a BYE.                               *)
LEMMA CancelType ==
  ASSUME TransactionAssumption, CancelTypeOK, [Next]_vars PROVE CancelTypeOK'
<1>0. /\ cancel.client \in Transactions(OtherState) /\ cancel.server \in Transactions(OtherState)
      /\ cancel = [client |-> cancel.client, server |-> cancel.server]
  BY DEF CancelTypeOK
<1>1. ASSUME NEW t \in Transactions(OtherState)
      PROVE  /\ [cancel EXCEPT !.client = t]
                  \in [client : Transactions(OtherState), server : Transactions(OtherState)]
             /\ [cancel EXCEPT !.server = t]
                  \in [client : Transactions(OtherState), server : Transactions(OtherState)]
  BY <1>0
<1>2. osip_nict_timeout_e_event(cancel.client) \in Transactions(OtherState)
  <2>1. (IF 2 * cancel.client.len < T2 THEN 2 * cancel.client.len ELSE T2) \in Nat
    BY <1>0 DEF Transactions, TransactionAssumption
  <2> QED
    BY <1>0, <2>1, TransactionType DEF osip_nict_timeout_e_event
<1>3. \/ UNCHANGED cancel
      \/ \E t \in Transactions(OtherState) :
           cancel' = [cancel EXCEPT !.client = t] \/ cancel' = [cancel EXCEPT !.server = t]
      \/ cancel' = [client |-> Later(cancel.client), server |-> Later(cancel.server)]
         /\ ~Due(cancel.client) /\ ~Due(cancel.server)
  <2>1. CASE Receive
    BY <2>1, Times DEF Receive, RcvCancel, RcvCancelAnswered
  <2>2. CASE Program
    BY <2>2, Times DEF Program, CallerCancels
  <2>3. CASE Expire
    BY <2>3, <1>2, Times DEF Expire, TimeoutCancel
  <2>4. CASE Tick
    BY <2>4 DEF Tick, SomethingDue
  <2>5. CASE Lose \/ UNCHANGED vars
    BY <2>5 DEF Lose, vars
  <2> QED
    BY <2>1, <2>2, <2>3, <2>4, <2>5 DEF Next
<1>4. /\ ~Due(cancel.client) => Later(cancel.client) \in Transactions(OtherState)
      /\ ~Due(cancel.server) => Later(cancel.server) \in Transactions(OtherState)
  BY <1>0, TransactionType
<1>5. cancel' \in [client : Transactions(OtherState), server : Transactions(OtherState)]
  BY <1>0, <1>1, <1>3, <1>4
<1> QED
  BY <1>5 DEF CancelTypeOK

LEMMA TypeStep == ASSUME TransactionAssumption, TypeOK, [Next]_vars PROVE TypeOK'
<1>0. CallTypeOK /\ CancelTypeOK'
  BY CancelType DEF TypeOK
<1>1. CASE Receive
  BY <1>0, <1>1, RcvInviteType, RcvAckType, RcvByeType, RcvAnswerType, CancelCallType
     DEF Receive, TypeOK
<1>2. CASE Program
  BY <1>0, <1>2, ProgramType DEF TypeOK
<1>3. CASE Expire
  BY <1>0, <1>3, TimeoutInviteType, TimeoutByeType, Resend200Type, ReleaseType, Send200Type,
     TimeoutCancelType DEF Expire, TypeOK
<1>4. CASE Tick \/ Lose
  BY <1>0, <1>4, TickType, LoseType DEF TypeOK
<1>5. CASE UNCHANGED vars
  BY <1>0, <1>5 DEF vars, TypeOK, CallTypeOK
<1> QED
  BY <1>1, <1>2, <1>3, <1>4, <1>5 DEF Next

(* Every variable of both stacks keeps its values, for any times, any bound on *)
(* the calls and any number of faults; eXosip_retransmit_lost200ok counts its  *)
(* copies within bounds.                                                       *)
THEOREM TypeCorrect == Spec => []TypeOK
<1>1. Init => TypeOK
  BY TransactionAssumption, InitType, Times DEF Init, TypeOK, CancelTypeOK
<1>2. TypeOK /\ [Next]_vars => TypeOK'
  BY TransactionAssumption, TypeStep
<1> QED
  BY <1>1, <1>2, PTL DEF Spec

-----------------------------------------------------------------------------
(* Calls.  OneLive is not inductive: that a new call finds the callee free and *)
(* an answer is one that was given rests on how a dialog, what the program     *)
(* heard of it and the 200 OK under way belong together.                       *)

CalleeInv ==
  \A k \in Callee :
    /\ callee[k].jd = "none" <=> callee[k].heard = "none"
    /\ callee[k].jd = "early" <=> callee[k].heard = "asked"
    /\ callee[k].jd = "confirmed" <=> callee[k].heard = "up"

CallerInv ==
  /\ caller.jd = "confirmed" <=> caller.heard = "up"
  /\ caller.jd = "early" => caller.heard = "calling"
  /\ caller.heard = "calling" => caller.jd \in {"none", "early"}
  /\ Inviting => /\ caller.jd \in {"none", "early", "empty"}
                 /\ caller.jd = "none" => caller.heard = "calling"

AnswerInv == \A x \in net : x.msg.m = "200" => callee[x.msg.k].heard \in {"up", "over"}

CallInv == CalleeInv /\ CallerInv /\ AnswerInv /\ OneLive

(* What a step may do to the callee: nothing that is heard, or one event of    *)
(* one call.                                                                   *)
Unheard(c, d) == d.jd = c.jd /\ d.heard = c.heard

CalleeEvent(k) ==
  \/ /\ callee[k].jd = "none" /\ Live = {}
     /\ callee'[k].jd = "early" /\ callee'[k].heard = "asked"
  \/ /\ callee[k].jd = "early"
     /\ callee'[k].jd = "confirmed" /\ callee'[k].heard = "up"
  \/ /\ callee[k].jd # "none"
     /\ callee'[k].jd \in {"empty", "gone"} /\ callee'[k].heard = Ended(callee[k].heard)

CalleeStep ==
  \/ \A k \in Callee : Unheard(callee[k], callee'[k])
  \/ \E k \in Callee : CalleeEvent(k) /\ \A j \in Callee \ {k} : Unheard(callee[j], callee'[j])

CallerStep ==
  \/ Unheard(caller, caller') /\ (Inviting' => Inviting)
  \/ Inviting /\ caller.jd \in {"none", "early"} /\ caller'.jd = "early" /\ caller'.heard = caller.heard
  \/ /\ Inviting /\ caller.jd \in {"none", "early"} /\ ~Inviting'
     /\ caller'.jd = "confirmed" /\ caller'.heard = "up"
     /\ \E k \in Callee : callee[k].heard \in {"up", "over"}
  \/ /\ caller'.heard = Ended(caller.heard)
     /\ caller'.jd \in {"empty", "gone"} \/ (caller'.jd = "none" /\ ~Inviting')
     /\ caller'.jd = "empty" \/ ~Inviting'

(* A 200 OK that is sent is that of a call that was accepted.                  *)
AnswersAreTrue ==
  \A y \in net' : y.msg.m = "200" =>
    \/ \E x \in net : x.msg = y.msg
    \/ callee'[y.msg.k].heard \in {"up", "over"}

Heard ==
  \/ UNCHANGED callee /\ CallerStep /\ AnswersAreTrue
  \/ UNCHANGED <<ict, caller>> /\ CalleeStep /\ AnswersAreTrue

LEMMA CalleeStepKeeps ==
  ASSUME TypeOK, TypeOK', CallInv, CalleeStep
  PROVE  /\ CalleeInv' /\ OneLive'
         /\ \A k \in Callee : callee[k].heard \in {"up", "over"} => callee'[k].heard \in {"up", "over"}
<1>1. CASE \A k \in Callee : Unheard(callee[k], callee'[k])
  BY <1>1 DEF Unheard, CallInv, CalleeInv, OneLive, HasDialog
<1>2. ASSUME NEW k \in Callee, CalleeEvent(k), \A j \in Callee \ {k} : Unheard(callee[j], callee'[j])
      PROVE  /\ CalleeInv' /\ OneLive'
             /\ \A j \in Callee : callee[j].heard \in {"up", "over"} => callee'[j].heard \in {"up", "over"}
  <2>1. /\ callee'[k].jd = "none" <=> callee'[k].heard = "none"
        /\ callee'[k].jd = "early" <=> callee'[k].heard = "asked"
        /\ callee'[k].jd = "confirmed" <=> callee'[k].heard = "up"
        /\ callee[k].heard \in {"up", "over"} => callee'[k].heard \in {"up", "over"}
    BY <1>2 DEF CalleeEvent, CallInv, CalleeInv, Ended
  <2>2. \A j \in Callee \ {k} : HasDialog(callee'[j]) => ~HasDialog(callee'[k])
    BY <1>2 DEF CalleeEvent, Unheard, CallInv, OneLive, HasDialog, Live
  <2>3. \A i, j \in Callee \ {k} : HasDialog(callee'[i]) /\ HasDialog(callee'[j]) => i = j
    BY <1>2 DEF Unheard, CallInv, OneLive, HasDialog
  <2>4. OneLive'
    BY <2>2, <2>3 DEF OneLive
  <2> QED
    BY <1>2, <2>1, <2>4 DEF Unheard, CallInv, CalleeInv
<1> QED
  BY <1>1, <1>2 DEF CalleeStep

LEMMA CallerStepKeeps == ASSUME CallInv, CallerStep PROVE CallerInv'
<1>1. CASE Unheard(caller, caller') /\ (Inviting' => Inviting)
  BY <1>1 DEF Unheard, CallInv, CallerInv
<1>2. CASE ~(Unheard(caller, caller') /\ (Inviting' => Inviting))
  BY <1>2 DEF CallInv, CallerInv, CallerStep, Ended
<1> QED
  BY <1>1, <1>2

LEMMA HeardKeeps == ASSUME TransactionAssumption, TypeOK, TypeOK', CallInv, Heard PROVE CallInv'
<1>0. \A x \in net : x.msg.m = "200" => x.msg.k \in Callee
  BY PacketType DEF TypeOK, CallTypeOK
<1>1. CASE UNCHANGED callee /\ CallerStep /\ AnswersAreTrue
  <2>1. CallerInv'
    BY <1>1, CallerStepKeeps
  <2>2. CalleeInv' /\ OneLive'
    BY <1>1 DEF CallInv, CalleeInv, OneLive
  <2>3. AnswerInv'
    BY <1>1 DEF CallInv, AnswerInv, AnswersAreTrue
  <2> QED
    BY <2>1, <2>2, <2>3 DEF CallInv
<1>2. CASE UNCHANGED <<ict, caller>> /\ CalleeStep /\ AnswersAreTrue
  <2>1. CallerInv'
    BY <1>2 DEF CallInv, CallerInv, Inviting
  <2>2. /\ CalleeInv' /\ OneLive'
        /\ \A k \in Callee : callee[k].heard \in {"up", "over"} => callee'[k].heard \in {"up", "over"}
    BY <1>2, CalleeStepKeeps
  <2>3. AnswerInv'
    BY <1>0, <1>2, <2>2 DEF CallInv, AnswerInv, AnswersAreTrue
  <2> QED
    BY <2>1, <2>2, <2>3 DEF CallInv
<1> QED
  BY <1>1, <1>2 DEF Heard

(* Every step is one of these.                                                 *)

LEMMA SentAnswers ==
  ASSUME NEW S, \A y \in net' : y \in net \/ y.msg \in S,
         \A s \in S : s.m = "200" => callee'[s.k].heard \in {"up", "over"}
  PROVE  AnswersAreTrue
BY DEF AnswersAreTrue

LEMMA ReceivedHeard ==
  ASSUME TransactionAssumption, TypeOK, NEW x \in net, NEW again \in BOOLEAN,
         NEW S \in SUBSET Message, IsFiniteSet(S), Exchange(x, again, S),
         \A s \in S : s.m # "200"
  PROVE  AnswersAreTrue
BY NetIsOK, ExchangeKeeps, SentAnswers

LEMMA OneReceivedHeard ==
  ASSUME TransactionAssumption, TypeOK, NEW x \in net, NEW again \in BOOLEAN,
         NEW s \in Message, Exchange(x, again, {s}), s.m # "200"
  PROVE  AnswersAreTrue
<1>1. {s} \in SUBSET Message /\ IsFiniteSet({s})
  BY SomeMessages
<1> QED
  BY <1>1, ReceivedHeard

LEMMA OneSentHeard ==
  ASSUME TransactionAssumption, TypeOK, NEW s \in Message, Send({s}),
         s.m = "200" => callee'[s.k].heard \in {"up", "over"}
  PROVE  AnswersAreTrue
<1>1. {s} \in SUBSET Message /\ IsFiniteSet({s})
  BY SomeMessages
<1>2. \A y \in net' : y \in net \/ y.msg \in {s}
  BY <1>1, NetIsOK, SendKeeps
<1> QED
  BY <1>2, SentAnswers

LEMMA RcvInviteHeard ==
  ASSUME TransactionAssumption, TypeOK, CallInv, NEW x \in net, NEW again \in BOOLEAN,
         RcvInvite(x, again)
  PROVE  Heard
<1>0. UNCHANGED <<ict, caller>>
  BY DEF RcvInvite
<1>1. CASE \E k \in ActiveIst :
             Exchange(x, again, LastResponse(k)) /\ UNCHANGED <<ist, callee>>
  <2>1. PICK k \in ActiveIst : Exchange(x, again, LastResponse(k)) /\ UNCHANGED <<ist, callee>>
    BY <1>1
  <2>2. LastResponse(k) \in SUBSET Message /\ IsFiniteSet(LastResponse(k))
    BY MessageType, SomeMessages DEF LastResponse, ActiveIst
  <2>3. \A s \in LastResponse(k) : s.m # "200"
    BY DEF LastResponse, Msg
  <2>4. AnswersAreTrue
    BY <2>1, <2>2, <2>3, ReceivedHeard
  <2> QED
    BY <1>0, <2>1, <2>4 DEF Heard, CalleeStep, Unheard
<1>2. CASE Exchange(x, again, {}) /\ UNCHANGED <<ist, callee>>
  <2>1. AnswersAreTrue
    BY <1>2, ReceivedHeard, FS_EmptySet
  <2> QED
    BY <1>0, <1>2, <2>1 DEF Heard, CalleeStep, Unheard
<1>3. CASE /\ Live = {}
           /\ \E k \in NeverAsked : NewInvite(k) /\ Exchange(x, again, {Msg("101", k)})
  <2>1. PICK k \in NeverAsked : NewInvite(k) /\ Exchange(x, again, {Msg("101", k)})
    BY <1>3
  <2>2. AnswersAreTrue
    <3>1. Msg("101", k) \in Message /\ Msg("101", k).m # "200"
      BY MessageType, NoAnswer DEF NeverAsked
    <3> QED
      BY <2>1, <3>1, OneReceivedHeard
  <2>3. /\ callee' = [callee EXCEPT ![k] = [@ EXCEPT !.jd = "early", !.heard = "asked"]]
        /\ k \in Callee /\ callee[k].jd = "none"
    BY <2>1 DEF NewInvite, NeverAsked
  <2>4. CalleeEvent(k) /\ \A j \in Callee \ {k} : Unheard(callee[j], callee'[j])
    BY <1>3, <2>3 DEF CalleeEvent, Unheard, TypeOK, CallTypeOK, CalleeCall
  <2> QED
    BY <1>0, <2>2, <2>3, <2>4 DEF Heard, CalleeStep
<1> QED
  BY <1>1, <1>2, <1>3 DEF RcvInvite

LEMMA RcvAckHeard ==
  ASSUME TransactionAssumption, TypeOK, NEW x \in net, NEW again \in BOOLEAN, RcvAck(x, again)
  PROVE  Heard
<1>1. UNCHANGED <<ict, caller>> /\ AnswersAreTrue
  BY ReceivedHeard, FS_EmptySet DEF RcvAck
<1>2. \A k \in Callee : Unheard(callee[k], [callee[k] EXCEPT !.wait = Off, !.count = 0])
  BY DEF Unheard, TypeOK, CallTypeOK, CalleeCall
<1>3. \A k \in Callee : Unheard(callee[k], callee'[k])
  <2>1. CASE UNCHANGED callee
    BY <2>1 DEF Unheard
  <2>2. CASE ProcessAck
    BY <1>2, <2>2 DEF ProcessAck, Unheard
  <2> QED
    BY <2>1, <2>2 DEF RcvAck
<1> QED
  BY <1>1, <1>3 DEF Heard, CalleeStep

(* A BYE closes the live dialog, of which there is one at most.                *)
LEMMA ClosedHeard ==
  ASSUME TypeOK, CallInv,
         \A k \in Live : \E b : callee'[k] = Closed(callee[k], b),
         \A k \in Callee \ Live : callee'[k] = callee[k]
  PROVE  CalleeStep
<1>1. \A k \in Callee \ Live : Unheard(callee[k], callee'[k])
  BY DEF Unheard
<1>2. ASSUME NEW k \in Live PROVE CalleeEvent(k)
  <2>1. callee[k] \in CalleeCall /\ \E b : callee'[k] = Closed(callee[k], b)
    BY DEF Live, TypeOK, CallTypeOK
  <2>2. callee'[k].jd = "empty" /\ callee'[k].heard = Ended(callee[k].heard)
    BY <2>1 DEF Closed, CalleeCall
  <2>3. callee[k].jd # "none"
    BY DEF Live, HasDialog
  <2> QED
    BY <2>2, <2>3 DEF CalleeEvent
<1>3. \A j, k \in Live : j = k
  BY DEF CallInv, OneLive, Live
<1> QED
  BY <1>1, <1>2, <1>3 DEF CalleeStep, Live

LEMMA RcvByeHeard ==
  ASSUME TransactionAssumption, TypeOK, CallInv, NEW x \in net, NEW again \in BOOLEAN,
         RcvByeOfCaller(x, again) \/ RcvStrayBye(x, again) \/ RcvByeOfCallee(x, again)
         \/ RcvByeAnswered(x, again)
  PROVE  Heard
<1>0. x \in Packet
  BY DEF TypeOK, CallTypeOK
<1>1. CASE RcvByeOfCaller(x, again)
  <2>1. UNCHANGED <<ict, caller>> /\ AnswersAreTrue
    <3>1. Msg("BYE answered", 0) \in Message /\ Msg("BYE answered", 0).m # "200"
      BY MessageType, NoAnswer
    <3> QED
      BY <1>1, <3>1, OneReceivedHeard DEF RcvByeOfCaller
  <2>2. CASE UNCHANGED callee
    BY <2>1, <2>2 DEF Heard, CalleeStep, Unheard
  <2>3. CASE callee' = [k \in Callee |-> IF k \in Live THEN Closed(callee[k], 0) ELSE callee[k]]
    <3>1. /\ \A k \in Live : callee'[k] = Closed(callee[k], 0)
          /\ \A k \in Callee \ Live : callee'[k] = callee[k]
      BY <2>3 DEF Live
    <3> QED
      BY <2>1, <3>1, ClosedHeard DEF Heard
  <2> QED
    BY <1>1, <2>2, <2>3 DEF RcvByeOfCaller
<1>2. CASE RcvStrayBye(x, again)
  <2>1. UNCHANGED <<ict, caller>> /\ AnswersAreTrue
    BY <1>2, ReceivedHeard, FS_EmptySet DEF RcvStrayBye
  <2>2. callee' = [k \in Callee |-> IF k \in Live THEN Closed(callee[k], Own(k)) ELSE callee[k]]
    BY <1>2 DEF RcvStrayBye
  <2>3. /\ \A k \in Live : callee'[k] = Closed(callee[k], Own(k))
        /\ \A k \in Callee \ Live : callee'[k] = callee[k]
    BY <2>2 DEF Live
  <2> QED
    BY <2>1, <2>3, ClosedHeard DEF Heard
<1>3. CASE RcvByeOfCallee(x, again)
  <2>0. x.msg.k \in 0..MaxCall
    BY <1>0, <1>3, PacketType DEF RcvByeOfCallee
  <2>1. UNCHANGED <<ict, callee>> /\ AnswersAreTrue
    <3>1. Msg("BYE answered", x.msg.k) \in Message /\ Msg("BYE answered", x.msg.k).m # "200"
      BY <2>0, MessageType, NoAnswer
    <3> QED
      BY <1>3, <3>1, OneReceivedHeard DEF RcvByeOfCallee
  <2>2. CASE UNCHANGED caller
    BY <2>1, <2>2 DEF Heard, CallerStep, Unheard, Inviting
  <2>3. CASE caller' = Closed(caller, x.msg.k)
    <3>1. caller'.jd = "empty" /\ caller'.heard = Ended(caller.heard)
      BY <2>3 DEF Closed, TypeOK, CallTypeOK, CallerCall
    <3> QED
      BY <2>1, <3>1 DEF Heard, CallerStep
  <2> QED
    BY <1>3, <2>2, <2>3 DEF RcvByeOfCallee
<1>4. CASE RcvByeAnswered(x, again)
  <2>1. UNCHANGED <<ict, caller, callee>> /\ AnswersAreTrue
    BY <1>4, ReceivedHeard, FS_EmptySet DEF RcvByeAnswered
  <2> QED
    BY <2>1 DEF Heard, CalleeStep, Unheard
<1> QED
  BY <1>1, <1>2, <1>3, <1>4

LEMMA RcvAnswerHeard ==
  ASSUME TransactionAssumption, TypeOK, CallInv, NEW x \in net, NEW again \in BOOLEAN,
         Rcv1xx(x, again) \/ Rcv2xx(x, again) \/ RcvRefuse(x, again)
  PROVE  Heard
<1>0. x \in Packet /\ caller \in CallerCall
  BY DEF TypeOK, CallTypeOK
<1>1. ASSUME NEW k, Exchange(x, again, OutOfTransaction(k)) PROVE AnswersAreTrue
  <2>1. \A s \in OutOfTransaction(k) : s.m # "200"
    BY NoAnswer DEF OutOfTransaction
  <2> QED
    BY <1>1, <2>1, ReceivedHeard, OutOfTransactionType
<1>2. ASSUME Exchange(x, again, {}) PROVE AnswersAreTrue
  BY <1>2, ReceivedHeard, FS_EmptySet
<1>3. CASE UNCHANGED <<callee, caller, ict>> /\ AnswersAreTrue
  BY <1>3 DEF Heard, CallerStep, Unheard, Inviting
<1>4. CASE Rcv1xx(x, again) /\ Inviting /\ ict' = ict_rcv_1xx
  <2>1. UNCHANGED callee /\ AnswersAreTrue
    BY <1>1, <1>2, <1>4 DEF Rcv1xx
  <2>2. caller.jd \in {"none", "early", "empty"}
    BY <1>4 DEF CallInv, CallerInv
  <2>3. CallerStep
    BY <1>0, <1>4, <2>2 DEF Rcv1xx, CallerStep, Unheard, CallerCall
  <2> QED
    BY <2>1, <2>3 DEF Heard
<1>5. CASE Rcv2xx(x, again) /\ Inviting /\ ict' = Terminated
  <2>1. UNCHANGED callee /\ AnswersAreTrue
    BY <1>1, <1>2, <1>5 DEF Rcv2xx
  <2>2. caller.jd \in {"none", "early", "empty"} /\ ~Inviting'
    BY <1>5 DEF CallInv, CallerInv, Inviting, Terminated, Transaction
  <2>3. x.msg.k \in Callee /\ callee[x.msg.k].heard \in {"up", "over"}
    BY <1>0, <1>5, PacketType DEF Rcv2xx, CallInv, AnswerInv
  <2>4. CallerStep
    BY <1>0, <1>5, <2>2, <2>3 DEF Rcv2xx, CallerStep, Unheard, CallerCall
  <2> QED
    BY <2>1, <2>4 DEF Heard
<1>6. CASE RcvRefuse(x, again)
  <2>1. UNCHANGED callee /\ AnswersAreTrue
    <3>1. Msg("ACK refuse", 0) \in Message /\ Msg("ACK refuse", 0).m # "200"
      BY MessageType, NoAnswer
    <3> QED
      BY <1>2, <1>6, <3>1, OneReceivedHeard DEF RcvRefuse
  <2>2. CASE ~Inviting
    BY <1>3, <1>6, <2>1, <2>2 DEF RcvRefuse
  <2>3. CASE Inviting
    <3>1. ict' = ict_rcv_3456xx
          /\ caller' = [caller EXCEPT !.jd = IF @ = "none" THEN @ ELSE "empty", !.heard = Ended(@)]
      BY <1>6, <2>3 DEF RcvRefuse
    <3>2. ~Inviting'
      BY <3>1 DEF Inviting, ict_rcv_3456xx, Transaction
    <3>3. /\ caller'.heard = Ended(caller.heard)
          /\ caller'.jd = IF caller.jd = "none" THEN "none" ELSE "empty"
      BY <1>0, <3>1 DEF CallerCall
    <3>4. CallerStep
      BY <3>2, <3>3 DEF CallerStep
    <3> QED
      BY <2>1, <3>4 DEF Heard
  <2> QED
    BY <2>2, <2>3
<1> QED
  BY <1>1, <1>2, <1>3, <1>4, <1>5, <1>6 DEF Rcv1xx, Rcv2xx

LEMMA TerminateHeard ==
  ASSUME TransactionAssumption, TypeOK, CallInv, NEW k \in Callee, HasDialog(callee[k]), Terminate(k)
  PROVE  Heard
<1>1. Msg("BYE", k) \in Message /\ Msg("BYE", k).m # "200"
  BY MessageType, NoAnswer
<1>2. AnswersAreTrue
  BY <1>1, OneSentHeard DEF Terminate
<1>3. callee'[k].jd = "empty" /\ callee'[k].heard = Ended(callee[k].heard)
  BY DEF Terminate, Closed, TypeOK, CallTypeOK, CalleeCall
<1>4. \A j \in Callee \ {k} : Unheard(callee[j], callee'[j])
  BY DEF Terminate, Unheard, TypeOK, CallTypeOK
<1>5. CalleeStep
  BY <1>3, <1>4 DEF CalleeStep, CalleeEvent, HasDialog
<1> QED
  BY <1>2, <1>5 DEF Heard, Terminate

LEMMA NothingSentHeard == ASSUME TransactionAssumption, TypeOK, Send({}) PROVE AnswersAreTrue
BY NetIsOK, SendKeeps, FS_EmptySet, SentAnswers

LEMMA RefusedHeard ==
  ASSUME TypeOK, CallInv, NEW k \in Callee, callee[k].heard \in {"asked", "off"}, Refused(k)
  PROVE  CalleeStep
<1>1. callee' = [callee EXCEPT ![k] = [@ EXCEPT !.jd = "empty", !.heard = "off"]]
  BY DEF Refused
<1>2. callee[k].jd # "none"
  BY DEF CallInv, CalleeInv
<1>3. CalleeEvent(k) /\ \A j \in Callee \ {k} : Unheard(callee[j], callee'[j])
  BY <1>1, <1>2 DEF CalleeEvent, Unheard, TypeOK, CallTypeOK, CalleeCall, Ended
<1> QED
  BY <1>3 DEF CalleeStep

LEMMA ProgramHeard == ASSUME TransactionAssumption, TypeOK, CallInv, Program PROVE Heard
<1>1. ASSUME NEW k \in Callee, Accept(k) PROVE Heard
  <2>1. callee' = [callee EXCEPT ![k] = [@ EXCEPT !.jd = "confirmed", !.heard = "up", !.age = 0,
                                                 !.wait = Gap[1]]]
    BY <1>1 DEF Accept
  <2>2. callee[k].jd = "early"
    BY <1>1 DEF Accept, CallInv, CalleeInv
  <2>3. CalleeEvent(k) /\ \A j \in Callee \ {k} : Unheard(callee[j], callee'[j])
    BY <2>1, <2>2 DEF CalleeEvent, Unheard, TypeOK, CallTypeOK, CalleeCall
  <2>4. AnswersAreTrue
    BY <1>1, NothingSentHeard DEF Accept
  <2> QED
    BY <1>1, <2>3, <2>4 DEF Accept, Heard, CalleeStep
<1>2. ASSUME NEW k \in Callee, Refuse(k) PROVE Heard
  <2>3. CalleeStep
    BY <1>2, RefusedHeard DEF Refuse
  <2>4. Msg("refuse", k) \in Message /\ Msg("refuse", k).m # "200"
    BY MessageType, NoAnswer
  <2>5. AnswersAreTrue
    BY <1>2, <2>4, OneSentHeard DEF Refuse
  <2> QED
    BY <1>2, <2>3, <2>5 DEF Refuse, Heard
<1>3. CASE SendAck
  <2>1. Msg("ACK", 0) \in Message /\ Msg("ACK", 0).m # "200"
    BY MessageType, NoAnswer
  <2>2. AnswersAreTrue
    BY <1>3, <2>1, OneSentHeard DEF SendAck
  <2>3. Unheard(caller, caller') /\ UNCHANGED <<ict, callee>>
    BY <1>3 DEF SendAck, Unheard, TypeOK, CallTypeOK, CallerCall
  <2> QED
    BY <2>2, <2>3 DEF Heard, CallerStep, Inviting
<1>4. CASE CallerHangsUp
  <2>1. Msg("BYE", 0) \in Message /\ Msg("BYE", 0).m # "200"
    BY MessageType, NoAnswer
  <2>2. AnswersAreTrue
    BY <1>4, <2>1, OneSentHeard DEF CallerHangsUp
  <2>3. caller'.jd = "empty" /\ caller'.heard = Ended(caller.heard) /\ UNCHANGED callee
    BY <1>4 DEF CallerHangsUp, Closed, TypeOK, CallTypeOK, CallerCall
  <2> QED
    BY <2>2, <2>3 DEF Heard, CallerStep
<1>5. ASSUME NEW k \in Callee, CalleeHangsUp(k) PROVE Heard
  BY <1>5, TerminateHeard DEF CalleeHangsUp, HasDialog
<1>6. CASE CallerCancels
  <2>1. Msg("CANCEL", 0) \in Message /\ Msg("CANCEL", 0).m # "200"
    BY MessageType, NoAnswer
  <2>2. AnswersAreTrue
    BY <1>6, <2>1, OneSentHeard DEF CallerCancels
  <2> QED
    BY <1>6, <2>2 DEF CallerCancels, Heard, CallerStep, Unheard, Inviting
<1> QED
  BY <1>1, <1>2, <1>3, <1>4, <1>5, <1>6 DEF Program

(* A timer that sends at most one message and touches no call.                 *)
LEMMA SilentHeard ==
  ASSUME TransactionAssumption, TypeOK, UNCHANGED <<caller, callee>>, Inviting' => Inviting,
         AnswersAreTrue
  PROVE  Heard
BY DEF Heard, CallerStep, Unheard

LEMMA TimeoutHeard ==
  ASSUME TransactionAssumption, TypeOK,
         \/ TimeoutIct \/ \E k \in Callee : TimeoutIst(k)
         \/ (\E b \in 0..MaxCall : TimeoutNict(b)) \/ \E b \in Branch : TimeoutNist(b)
  PROVE  Heard
<1>1. CASE TimeoutIct
  <2>1. Msg("INVITE", 0) \in Message /\ Msg("INVITE", 0).m # "200"
    BY MessageType DEF Msg
  <2>2. AnswersAreTrue
    BY <1>1, <2>1, OneSentHeard, NothingSentHeard DEF TimeoutIct
  <2>3. Inviting' => Inviting
    <3>1. ict \in Transactions(InviteState)
      BY DEF TypeOK, CallTypeOK
    <3>2. \A l, r : [ict EXCEPT !.len = l, !.resend = r].state = ict.state
      BY <3>1 DEF Transactions
    <3>3. CASE ict' = osip_ict_timeout_a_event
      <4>1. ict'.state = ict.state
        <5> DEFINE l == 2 * ict.len
        <5>1. osip_ict_timeout_a_event = [ict EXCEPT !.len = l, !.resend = l]
          BY DEF osip_ict_timeout_a_event
        <5> HIDE DEF l
        <5> QED
          BY <3>2, <3>3, <5>1, Zenon
      <4> QED
        BY <4>1 DEF Inviting
    <3>4. CASE ict' = Terminated
      BY <3>4 DEF Inviting, Terminated, Transaction
    <3> QED
      BY <1>1, <3>3, <3>4 DEF TimeoutIct
  <2> QED
    BY <1>1, <2>2, <2>3, SilentHeard DEF TimeoutIct
<1>2. ASSUME NEW k \in Callee, TimeoutIst(k) PROVE Heard
  <2>1. Msg("refuse", k) \in Message /\ Msg("refuse", k).m # "200"
    BY MessageType, NoAnswer
  <2>2. AnswersAreTrue
    BY <1>2, <2>1, OneSentHeard, NothingSentHeard DEF TimeoutIst
  <2> QED
    BY <1>2, <2>2, SilentHeard DEF TimeoutIst, Inviting
<1>3. ASSUME NEW b \in 0..MaxCall, TimeoutNict(b) PROVE Heard
  <2>1. Msg("BYE", b) \in Message /\ Msg("BYE", b).m # "200"
    BY MessageType, NoAnswer
  <2>2. AnswersAreTrue
    BY <1>3, <2>1, OneSentHeard, NothingSentHeard DEF TimeoutNict
  <2> QED
    BY <1>3, <2>2, SilentHeard DEF TimeoutNict, Inviting
<1>4. ASSUME NEW b \in Branch, TimeoutNist(b) PROVE Heard
  BY <1>4, NothingSentHeard, SilentHeard DEF TimeoutNist, Inviting
<1> QED
  BY <1>1, <1>2, <1>3, <1>4

LEMMA Resend200Heard ==
  ASSUME TransactionAssumption, TypeOK, CallInv, NEW k \in Callee, Resend200(k) \/ GiveUp(k)
  PROVE  Heard
<1>1. CASE Resend200(k)
  <2> DEFINE w == IF callee[k].count + 1 < Len(Gap) THEN Gap[callee[k].count + 1 + 1] ELSE 0
  <2>1. callee[k].heard = "up"
    BY <1>1 DEF Resend200, Awaited, CallInv, CalleeInv
  <2>2. callee' = [callee EXCEPT ![k] = [@ EXCEPT !.count = callee[k].count + 1, !.wait = w]]
    BY <1>1 DEF Resend200
  <2>3. \A n, v : Unheard(callee[k], [callee[k] EXCEPT !.count = n, !.wait = v])
    BY DEF Unheard, TypeOK, CallTypeOK, CalleeCall
  <2>4. Unheard(callee[k], callee'[k])
    BY <2>2, <2>3, Zenon DEF TypeOK, CallTypeOK
  <2>5. \A j \in Callee \ {k} : Unheard(callee[j], callee'[j])
    BY <2>2 DEF Unheard, TypeOK, CallTypeOK
  <2>6. Msg("200", k) \in Message /\ Msg("200", k).k = k
    BY MessageType, NoAnswer
  <2>7. AnswersAreTrue
    BY <1>1, <2>1, <2>4, <2>6, OneSentHeard DEF Resend200, Unheard
  <2> QED
    BY <1>1, <2>4, <2>5, <2>7 DEF Resend200, Heard, CalleeStep
<1>2. CASE GiveUp(k)
  BY <1>2, TerminateHeard DEF GiveUp, Awaited, HasDialog
<1> QED
  BY <1>1, <1>2

LEMMA ReleaseHeard ==
  ASSUME TransactionAssumption, TypeOK, ReleaseCaller \/ \E k \in Callee : ReleaseCallee(k)
  PROVE  Heard
<1>0. net' = net => AnswersAreTrue
  BY DEF AnswersAreTrue
<1>1. CASE ReleaseCaller
  <2>1. caller'.jd = "gone" /\ caller'.heard = Ended(caller.heard)
    BY <1>1 DEF ReleaseCaller, Released, TypeOK, CallTypeOK, CallerCall
  <2>2. ~Inviting'
    BY <1>1 DEF ReleaseCaller, Inviting, Terminated, Transaction
  <2> QED
    BY <1>0, <1>1, <2>1, <2>2 DEF ReleaseCaller, Heard, CallerStep
<1>2. ASSUME NEW k \in Callee, ReleaseCallee(k) PROVE Heard
  <2>1. callee[k].jd # "none"
    BY <1>2 DEF ReleaseCallee, CalleeReleasable
  <2>2. callee'[k].jd = "gone" /\ callee'[k].heard = Ended(callee[k].heard)
    <3>1. callee' = [callee EXCEPT ![k] = Released(@)]
      BY <1>2 DEF ReleaseCallee
    <3>2. callee'[k] = Released(callee[k]) /\ callee[k] \in CalleeCall
      BY <3>1, Zenon DEF TypeOK, CallTypeOK
    <3>3. Released(callee[k]).jd = "gone" /\ Released(callee[k]).heard = Ended(callee[k].heard)
      BY <3>2 DEF Released, CalleeCall
    <3> QED
      BY <3>2, <3>3
  <2>3. \A j \in Callee \ {k} : Unheard(callee[j], callee'[j])
    BY <1>2 DEF ReleaseCallee, Unheard, TypeOK, CallTypeOK
  <2>4. CalleeStep
    BY <2>1, <2>2, <2>3 DEF CalleeStep, CalleeEvent
  <2> QED
    BY <1>0, <1>2, <2>4 DEF ReleaseCallee, Heard
<1> QED
  BY <1>1, <1>2

(* The 200 OK that was queued is that of an accepted call.                     *)
LEMMA Send200Heard ==
  ASSUME TransactionAssumption, TypeOK, CallInv, NEW k \in Callee, Send200(k)
  PROVE  Heard
<1>1. Msg("200", k) \in Message /\ Msg("200", k).k = k
  BY MessageType, NoAnswer
<1>2. callee'[k].heard \in {"up", "over"}
  BY DEF Send200, Queued
<1>3. AnswersAreTrue
  BY <1>1, <1>2, OneSentHeard DEF Send200
<1> QED
  BY <1>3 DEF Send200, Heard, CalleeStep, Unheard

(* A CANCEL is a refusal of the program's, or nothing.                         *)
LEMMA CancelHeard ==
  ASSUME TransactionAssumption, TypeOK, CallInv, NEW x \in net, NEW again \in BOOLEAN,
         RcvCancel(x, again) \/ RcvCancelAnswered(x, again)
  PROVE  Heard
<1>0. Msg("CANCEL answered", 0) \in Message /\ Msg("CANCEL answered", 0).m # "200"
  BY MessageType, NoAnswer
<1>1. CASE RcvCancel(x, again)
  <2>0. UNCHANGED <<ict, caller>>
    BY <1>1 DEF RcvCancel
  <2>1. CASE Exchange(x, again, {Msg("CANCEL answered", 0)}) /\ UNCHANGED <<ist, callee>>
    <3>1. AnswersAreTrue
      BY <1>0, <2>1, OneReceivedHeard
    <3> QED
      BY <2>0, <2>1, <3>1 DEF Heard, CalleeStep, Unheard
  <2>2. ASSUME NEW k \in Callee, Unanswered(k), Refused(k),
               Exchange(x, again, {Msg("CANCEL answered", 0), Msg("refuse", k)})
        PROVE  Heard
    <3> DEFINE S == {Msg("CANCEL answered", 0), Msg("refuse", k)}
    <3>1. Msg("refuse", k) \in Message /\ Msg("refuse", k).m # "200"
      BY MessageType, NoAnswer
    <3>2. S \in SUBSET Message /\ IsFiniteSet(S) /\ \A s \in S : s.m # "200"
      BY <1>0, <3>1, SomeMessages
    <3>3. AnswersAreTrue
      BY <2>2, <3>2, ReceivedHeard
    <3>4. CalleeStep
      BY <2>2, RefusedHeard DEF Unanswered
    <3> QED
      BY <2>0, <3>3, <3>4 DEF Heard
  <2> QED
    BY <1>1, <2>1, <2>2 DEF RcvCancel
<1>2. CASE RcvCancelAnswered(x, again)
  <2>1. UNCHANGED <<ict, caller, callee>> /\ AnswersAreTrue
    BY <1>2, ReceivedHeard, FS_EmptySet DEF RcvCancelAnswered
  <2> QED
    BY <2>1 DEF Heard, CalleeStep, Unheard
<1> QED
  BY <1>1, <1>2

LEMMA TimeoutCancelHeard ==
  ASSUME TransactionAssumption, TypeOK, TimeoutCancel PROVE Heard
<1>1. Msg("CANCEL", 0) \in Message /\ Msg("CANCEL", 0).m # "200"
  BY MessageType, NoAnswer
<1>2. AnswersAreTrue
  BY <1>1, OneSentHeard, NothingSentHeard DEF TimeoutCancel
<1> QED
  BY <1>2, SilentHeard DEF TimeoutCancel, Inviting

(* Time changes both sides, but neither hears of it.                           *)
LEMMA TickUnheard ==
  ASSUME TransactionAssumption, TypeOK, Tick
  PROVE  /\ Unheard(caller, caller') /\ (Inviting' => Inviting)
         /\ \A k \in Callee : Unheard(callee[k], callee'[k])
         /\ AnswersAreTrue
<1>1. ASSUME NEW c, NEW t, c \in CallerCall \/ c \in CalleeCall
      PROVE  /\ Unheard(c, Older(c, t))
             /\ c \in CallerCall => Older(c, t) \in CallerCall
             /\ c \in CalleeCall => Older(c, t) \in CalleeCall
  <2>1. \A a : /\ [c EXCEPT !.age = a].jd = c.jd /\ [c EXCEPT !.age = a].heard = c.heard
               /\ c \in CallerCall /\ a \in 0..Longest => [c EXCEPT !.age = a] \in CallerCall
               /\ c \in CalleeCall /\ a \in 0..Longest => [c EXCEPT !.age = a] \in CalleeCall
    BY <1>1 DEF CallerCall, CalleeCall
  <2>2. c.age \in 0..Longest
    BY <1>1 DEF CallerCall, CalleeCall
  <2>3. (IF Alive(t) /\ c.age < Longest THEN c.age + 1 ELSE c.age) \in 0..Longest
    BY <2>2 DEF TransactionAssumption
  <2> QED
    BY <2>1, <2>3, Zenon DEF Older, Unheard
<1>2. \A c \in CallerCall : \A v : Unheard(c, [c EXCEPT !.ack = v])
  BY DEF Unheard, CallerCall
<1>3. \A c \in CalleeCall : \A v : Unheard(c, [c EXCEPT !.wait = v])
  BY DEF Unheard, CalleeCall
<1>4. Unheard(caller, caller')
  <2>1. Unheard(caller, Older(caller, ict)) /\ Older(caller, ict) \in CallerCall
    BY <1>1 DEF TypeOK, CallTypeOK
  <2>2. \E v : caller' = [Older(caller, ict) EXCEPT !.ack = v]
    BY Zenon DEF Tick
  <2> QED
    BY <1>2, <2>1, <2>2 DEF Unheard
<1>5. ASSUME NEW k \in Callee PROVE Unheard(callee[k], callee'[k])
  <2>1. Unheard(callee[k], Older(callee[k], ist[k])) /\ Older(callee[k], ist[k]) \in CalleeCall
    BY <1>1 DEF TypeOK, CallTypeOK
  <2>2. \E v : callee'[k] = [Older(callee[k], ist[k]) EXCEPT !.wait = v]
    BY Zenon DEF Tick
  <2> QED
    BY <1>3, <2>1, <2>2 DEF Unheard
<1>6. Inviting' => Inviting
  <2>1. ict' = Later(ict) /\ Later(ict).state = ict.state
    BY TransactionType DEF Tick, TypeOK, CallTypeOK
  <2> QED
    BY <2>1 DEF Inviting
<1>7. AnswersAreTrue
  BY NetIsOK, TickNet DEF AnswersAreTrue
<1> QED
  BY <1>4, <1>5, <1>6, <1>7

LEMMA TickCall ==
  ASSUME TransactionAssumption, TypeOK, CallInv, Tick
  PROVE  CallInv'
<1>1. /\ Unheard(caller, caller') /\ (Inviting' => Inviting) /\ AnswersAreTrue
      /\ \A k \in Callee : Unheard(callee[k], callee'[k])
  BY TickUnheard
<1>2. CallerInv'
  BY <1>1 DEF CallInv, CallerInv, Unheard
<1>3. CalleeInv' /\ OneLive'
  BY <1>1 DEF CallInv, CalleeInv, OneLive, HasDialog, Unheard
<1>4. \A x \in net : x.msg.m = "200" => x.msg.k \in Callee
  BY PacketType DEF TypeOK, CallTypeOK
<1>5. AnswerInv'
  BY <1>1, <1>4 DEF CallInv, AnswerInv, AnswersAreTrue, Unheard
<1> QED
  BY <1>2, <1>3, <1>5 DEF CallInv

LEMMA NextHeard ==
  ASSUME TransactionAssumption, TypeOK, CallInv, Next, ~Tick
  PROVE  Heard
<1>1. CASE Receive
  BY <1>1, RcvInviteHeard, RcvAckHeard, RcvByeHeard, RcvAnswerHeard, CancelHeard DEF Receive
<1>2. CASE Program
  BY <1>2, ProgramHeard
<1>3. CASE Expire
  BY <1>3, TimeoutHeard, Resend200Heard, ReleaseHeard, Send200Heard, TimeoutCancelHeard
     DEF Expire
<1>4. CASE Lose
  <2>1. UNCHANGED <<ict, caller, callee>> /\ net' \subseteq net
    BY <1>4, LoseType DEF Lose
  <2> QED
    BY <2>1 DEF Heard, CalleeStep, Unheard, AnswersAreTrue
<1> QED
  BY <1>1, <1>2, <1>3, <1>4 DEF Next

LEMMA InitCall == ASSUME Init PROVE CallInv
<1>1. \A k \in Callee : callee[k].jd = "none" /\ callee[k].heard = "none"
  BY DEF Init, NewCallee
<1>2. caller.jd = "none" /\ caller.heard = "calling"
  BY DEF Init, NewCaller
<1>3. \A x \in net : x.msg.m # "200"
  BY DEF Init, Fresh, Msg
<1> QED
  BY <1>1, <1>2, <1>3 DEF CallInv, CalleeInv, CallerInv, AnswerInv, OneLive, HasDialog

LEMMA CallStep == ASSUME TransactionAssumption, TypeOK, CallInv, [Next]_vars PROVE CallInv'
<1>1. CASE Next /\ ~Tick
  BY <1>1, NextHeard, TypeStep, HeardKeeps
<1>2. CASE Tick
  BY <1>2, TickCall
<1>3. CASE UNCHANGED vars
  BY <1>3 DEF vars, CallInv, CalleeInv, CallerInv, AnswerInv, OneLive, Inviting
<1> QED
  BY <1>1, <1>2, <1>3

LEMMA CallsAreSound == Spec => [](TypeOK /\ CallInv)
<1>1. Init => TypeOK /\ CallInv
  BY TransactionAssumption, InitType, InitCall, Times DEF Init, TypeOK, CancelTypeOK
<1>2. TypeOK /\ CallInv /\ [Next]_vars => (TypeOK /\ CallInv)'
  BY TransactionAssumption, TypeStep, CallStep
<1> QED
  BY <1>1, <1>2, PTL DEF Spec

(* Whatever the network does to the INVITE, the callee's stack never takes it  *)
(* for a second call while the first has a dialog.                             *)
THEOREM OneLiveCorrect == Spec => []OneLive
BY CallsAreSound, PTL DEF CallInv

-----------------------------------------------------------------------------
(* The refinement: what the two programs hear are the steps of one call.       *)

LEMMA CalleeRefines ==
  ASSUME TypeOK, CallInv, CalleeStep, TypeOK', UNCHANGED caller
  PROVE  [Outcome!Next]_Outcome!vars
<1>1. UNCHANGED caller.heard
  OBVIOUS
<1>2. CASE \A k \in Callee : Unheard(callee[k], callee'[k])
  <2>1. [k \in Callee |-> callee'[k].heard] = [k \in Callee |-> callee[k].heard]
    BY <1>2 DEF Unheard
  <2> QED
    BY <1>1, <2>1 DEF Outcome!vars
<1>3. ASSUME NEW k \in Callee, CalleeEvent(k),
             \A j \in Callee \ {k} : Unheard(callee[j], callee'[j])
      PROVE  [Outcome!Next]_Outcome!vars
  <2>1. [j \in Callee |-> callee'[j].heard] =
          [[j \in Callee |-> callee[j].heard] EXCEPT ![k] = callee'[k].heard]
    BY <1>3 DEF Unheard
  <2>2. CASE callee[k].jd = "none" /\ Live = {} /\ callee'[k].heard = "asked"
    <3>1. ~Outcome!Busy
      BY <2>2 DEF Outcome!Busy, CallInv, CalleeInv, Live, HasDialog
    <3>2. Outcome!Ask(k)
      BY <1>1, <2>1, <2>2, <3>1 DEF Outcome!Ask, CallInv, CalleeInv
    <3> QED
      BY <3>2 DEF Outcome!Next
  <2>3. CASE callee[k].jd = "early" /\ callee'[k].heard = "up"
    <3>1. Outcome!Accept(k)
      BY <1>1, <2>1, <2>3 DEF Outcome!Accept, CallInv, CalleeInv
    <3> QED
      BY <3>1 DEF Outcome!Next
  <2>4. CASE callee[k].jd # "none" /\ callee'[k].heard = Ended(callee[k].heard)
    <3>1. callee[k].heard \in {"asked", "up", "over", "off"}
      BY <2>4 DEF CallInv, CalleeInv, TypeOK, CallTypeOK, CalleeCall
    <3>2. CASE callee[k].heard = "asked"
      <4>1. Outcome!Decline(k)
        BY <1>1, <2>1, <2>4, <3>2 DEF Outcome!Decline, Ended
      <4> QED
        BY <4>1 DEF Outcome!Next
    <3>3. CASE callee[k].heard = "up"
      <4>1. Outcome!CalleeEnds(k)
        BY <1>1, <2>1, <2>4, <3>3 DEF Outcome!CalleeEnds, Ended
      <4> QED
        BY <4>1 DEF Outcome!Next
    <3>4. CASE callee[k].heard \in {"over", "off"}
      <4>1. callee'[k].heard = callee[k].heard
        BY <2>4, <3>4 DEF Ended
      <4> QED
        BY <1>1, <2>1, <4>1 DEF Outcome!vars
    <3> QED
      BY <3>1, <3>2, <3>3, <3>4
  <2> QED
    BY <1>3, <2>2, <2>3, <2>4 DEF CalleeEvent
<1> QED
  BY <1>2, <1>3 DEF CalleeStep

LEMMA CallerRefines ==
  ASSUME TypeOK, CallInv, CallerStep, UNCHANGED callee
  PROVE  [Outcome!Next]_Outcome!vars
<1>1. UNCHANGED [k \in Callee |-> callee[k].heard]
  OBVIOUS
<1>2. CASE caller'.heard = caller.heard
  BY <1>1, <1>2 DEF Outcome!vars
<1>3. CASE /\ Inviting /\ caller.jd \in {"none", "early"} /\ caller'.heard = "up"
           /\ \E k \in Callee : callee[k].heard \in {"up", "over"}
  <2>1. caller.heard = "calling"
    BY <1>3 DEF CallInv, CallerInv
  <2>2. Outcome!Answered
    BY <1>1, <1>3, <2>1 DEF Outcome!Answered
  <2> QED
    BY <2>2 DEF Outcome!Next
<1>4. CASE caller'.heard = Ended(caller.heard)
  <2>1. caller.heard \in {"calling", "up", "over", "off"}
    BY DEF TypeOK, CallTypeOK, CallerCall
  <2>2. CASE caller.heard \in {"calling", "up"}
    <3>1. Outcome!CallerEnds
      BY <1>1, <1>4, <2>2 DEF Outcome!CallerEnds, Ended
    <3> QED
      BY <3>1 DEF Outcome!Next
  <2>3. CASE caller.heard \in {"over", "off"}
    <3>1. caller'.heard = caller.heard
      BY <1>4, <2>3 DEF Ended
    <3> QED
      BY <1>2, <3>1
  <2> QED
    BY <2>1, <2>2, <2>3
<1> QED
  BY <1>2, <1>3, <1>4 DEF CallerStep, Unheard

LEMMA StepRefines ==
  ASSUME TransactionAssumption, TypeOK, CallInv, [Next]_vars
  PROVE  [Outcome!Next]_Outcome!vars
<1>1. CASE Next /\ ~Tick
  <2>1. Heard
    BY <1>1, NextHeard
  <2>2. CASE UNCHANGED callee /\ CallerStep
    BY <2>2, CallerRefines
  <2>3. CASE UNCHANGED caller /\ CalleeStep
    BY <1>1, <2>3, CalleeRefines, TypeStep
  <2> QED
    BY <2>1, <2>2, <2>3 DEF Heard
<1>2. CASE Tick
  <2>1. caller'.heard = caller.heard /\ \A k \in Callee : callee'[k].heard = callee[k].heard
    BY <1>2, TickUnheard DEF Unheard
  <2>2. [k \in Callee |-> callee'[k].heard] = [k \in Callee |-> callee[k].heard]
    BY <2>1
  <2> QED
    BY <2>1, <2>2 DEF Outcome!vars
<1>3. CASE UNCHANGED vars
  <2>1. UNCHANGED <<caller, callee>>
    BY <1>3 DEF vars
  <2> QED
    BY <2>1 DEF Outcome!vars
<1> QED
  BY <1>1, <1>2, <1>3

(* Whatever the network loses, repeats or delays, and whatever the timers do,  *)
(* the programs hear the events of one call: an answer only if one was given,  *)
(* at most one outcome, and no second call while the first is up.              *)
THEOREM ImplementsCallCorrect == Spec => ImplementsCall
<1>1. Init => Outcome!Init
  BY DEF Init, Outcome!Init, NewCaller, NewCallee
<1>2. TypeOK /\ CallInv /\ [Next]_vars => [Outcome!Next]_Outcome!vars
  BY TransactionAssumption, StepRefines
<1> QED
  BY <1>1, <1>2, CallsAreSound, PTL DEF Spec, ImplementsCall, Outcome!Spec
=============================================================================
