--------------------- MODULE StreamFramesDeliveryProofs ----------------------
(***************************************************************************)
(* What the application at the far end gets: every frame on a network      *)
(* without faults, and every undisturbed one on any network.               *)
(***************************************************************************)
EXTENDS StreamFramesProofs

-----------------------------------------------------------------------------
(* The units on the wire no fault has touched, and with them the one sent next *)
Unhurt == DOMAIN sent \ hurt
UnhurtOrNext == (1..(Len(sent) + 1)) \ hurt

(* How many blocks unit i has *)
Nb(i) == NumBlocks(i, sent[i])

(* pos tells, for every unit, how many packets are before it: the b-th block of
   an unhurt one is the packet at pos[i] + b.  What arrived is counted below 0. *)
PosOK(pos) == pos \in [1..(Len(sent) + 1) -> Int] /\ pos[Len(sent) + 1] = Len(net)

(* Each block of an unhurt unit is in its place. *)
InPlace(pos) ==
  \A i \in Unhurt, k \in 1..Len(net) :
    /\ k <= pos[i] => net[k].nal < i
    /\ k > pos[i] + Nb(i) => net[k].nal > i
    /\ (pos[i] < k /\ k <= pos[i] + Nb(i)) => net[k] = Packet(i, sent[i], k - pos[i])

(* The units go one behind the other. *)
InOrder(pos) ==
  \A i \in Unhurt, j \in UnhurtOrNext :
    /\ i < j => pos[i] + Nb(i) <= pos[j]
    /\ j = i + 1 => pos[j] = pos[i] + Nb(i)

(* Every packet is a block of its unit. *)
AreBlocks ==
  \A k \in 1..Len(net) : \E b \in 1..Nb(net[k].nal) :
    net[k] = Packet(net[k].nal, sent[net[k].nal], b)

(* What is on the wire *)
NetInv(pos) == PosOK(pos) /\ InPlace(pos) /\ InOrder(pos) /\ AreBlocks

(* How many blocks a unit that was sent has *)
LEMMA NbIs ==
  ASSUME Sendable, NEW i \in DOMAIN sent
  PROVE  /\ i \in 1..Len(sent) /\ i \in Nat /\ Len(sent) \in Nat /\ sent[i] \in Nal /\ sent[i].type # "other"
         /\ Nb(i) \in Nat /\ Nb(i) > 0
<1>1. sent \in Seq(Nal) /\ DOMAIN sent = 1..Len(sent) /\ Len(sent) \in Nat
  BY DEF Sendable
<1>2. sent[i] \in Nal /\ sent[i].type # "other" /\ i \in Nat
  <2>1. i \in 1..Len(sent)
    BY <1>1
  <2> QED BY <1>1, <2>1, ElementOfSeq DEF Sendable
<1> QED BY <1>1, <1>2, BlocksAre DEF Nb

(* What is known of the packets *)
LEMMA NetIs ==
  ASSUME TypeOK
  PROVE  /\ Len(net) \in Nat /\ Len(sent) \in Nat /\ DOMAIN sent = 1..Len(sent)
         /\ \A k \in 1..Len(net) :
              /\ net[k].nal \in DOMAIN sent /\ net[k].cells \in Seq(Cell)
              /\ Len(net[k].cells) \in 1..Block /\ Len(net[k].cells) \in Nat
<1>1. net \in Seq(WirePacket) /\ \A k \in DOMAIN net : Len(net[k].cells) \in 1..Block
  BY DEF TypeOK, WirePacket
<1>2. Len(net) \in Nat /\ DOMAIN net = 1..Len(net)
  BY <1>1, LenProperties
<1>3. sent \in Seq(Nal) /\ Len(sent) \in Nat /\ DOMAIN sent = 1..Len(sent)
  BY DEF TypeOK
<1>4. ASSUME NEW k \in 1..Len(net)
      PROVE  /\ net[k].nal \in DOMAIN sent /\ net[k].cells \in Seq(Cell)
             /\ Len(net[k].cells) \in 1..Block /\ Len(net[k].cells) \in Nat
  <2>1. net[k] \in WirePacket
    BY <1>1, ElementOfSeq
  <2>2. net[k].nal \in DOMAIN sent /\ net[k].cells \in Seq(Cell)
    BY <2>1 DEF WirePacket
  <2>3. Len(net[k].cells) \in 1..Block
    BY <1>1, <1>2
  <2> QED BY <2>2, <2>3
<1> QED BY <1>2, <1>3, <1>4

(* A packet arrives. *)
LEMMA NetReceive ==
  ASSUME TypeOK, Sendable, net # << >>, net' = Tail(net), UNCHANGED <<sent, hurt>>,
         NEW pos, NetInv(pos), NEW q, q = [i \in 1..(Len(sent) + 1) |-> pos[i] - 1]
  PROVE  NetInv(q)'
<1> DEFINE n == Len(net)
<1>1. /\ n \in Nat /\ n > 0 /\ Len(net') = n - 1 /\ \A k \in 1..(n - 1) : net'[k] = net[k + 1]
  BY HeadIs
<1>2. Len(sent) \in Nat /\ DOMAIN sent = 1..Len(sent)
  BY NetIs
<1>3. pos \in [1..(Len(sent) + 1) -> Int] /\ pos[Len(sent) + 1] = n
  BY DEF NetInv, PosOK
<1>4. Unhurt' = Unhurt /\ UnhurtOrNext' = UnhurtOrNext /\ \A i : Nb(i)' = Nb(i)
  BY DEF Unhurt, UnhurtOrNext, Nb
<1>5. \A i \in Unhurt : i \in 1..(Len(sent) + 1) /\ q[i] = pos[i] - 1 /\ pos[i] \in Int /\ Nb(i) \in Nat
  <2> TAKE i \in Unhurt
  <2>1. i \in DOMAIN sent
    BY DEF Unhurt
  <2>2. Nb(i) \in Nat
    BY <2>1, NbIs
  <2>3. i \in 1..(Len(sent) + 1)
    BY <2>1, <1>2
  <2> QED BY <2>2, <2>3, <1>3
<1>6. \A j \in UnhurtOrNext : q[j] = pos[j] - 1 /\ pos[j] \in Int
  BY <1>3 DEF UnhurtOrNext
<1> HIDE DEF n
<1>7. PosOK(q)'
  <2>1. Len(sent) + 1 \in 1..(Len(sent) + 1)
    BY <1>2
  <2>2. q \in [1..(Len(sent) + 1) -> Int] /\ q[Len(sent) + 1] = n - 1
    BY <1>3, <2>1
  <2> QED BY <1>1, <2>2 DEF PosOK
<1>8. InPlace(q)'
  <2> SUFFICES ASSUME NEW i \in Unhurt, NEW k \in 1..(n - 1)
               PROVE  /\ k <= q[i] => net'[k].nal < i
                      /\ k > q[i] + Nb(i) => net'[k].nal > i
                      /\ (q[i] < k /\ k <= q[i] + Nb(i)) => net'[k] = Packet(i, sent[i], k - q[i])
    BY <1>1, <1>4 DEF InPlace
  <2> DEFINE m == k + 1
             p == pos[i]
             b == Nb(i)
  <2>1. m \in 1..n /\ net'[k] = net[m]
    BY <1>1
  <2>2. /\ m <= p => net[m].nal < i
        /\ m > p + b => net[m].nal > i
        /\ (p < m /\ m <= p + b) => net[m] = Packet(i, sent[i], m - p)
    <3> HIDE DEF m
    <3> QED BY <2>1 DEF NetInv, InPlace, n
  <2>3. q[i] = p - 1 /\ p \in Int /\ b \in Nat
    BY <1>5
  <2> HIDE DEF p, b
  <2>4. /\ k <= q[i] => m <= p
        /\ k > q[i] + b => m > p + b
        /\ (q[i] < k /\ k <= q[i] + b) => (p < m /\ m <= p + b)
        /\ k - q[i] = m - p
    BY <2>3
  <2> HIDE DEF m
  <2> QED BY <2>1, <2>2, <2>4 DEF b
<1>9. InOrder(q)'
  <2> SUFFICES ASSUME NEW i \in Unhurt, NEW j \in UnhurtOrNext
               PROVE  (i < j => q[i] + Nb(i) <= q[j]) /\ (j = i + 1 => q[j] = q[i] + Nb(i))
    BY <1>4, ZenonT(40) DEF InOrder
  <2> DEFINE a == pos[i]
             c == pos[j]
             b == Nb(i)
  <2>1. (i < j => a + b <= c) /\ (j = i + 1 => c = a + b)
    BY DEF NetInv, InOrder
  <2>2. q[i] = a - 1 /\ q[j] = c - 1 /\ a \in Int /\ c \in Int /\ b \in Nat
    BY <1>5, <1>6
  <2> HIDE DEF a, b, c
  <2>3. (i < j => q[i] + b <= q[j]) /\ (j = i + 1 => q[j] = q[i] + b)
    BY <2>1, <2>2
  <2> QED BY <2>3 DEF b
<1>10. AreBlocks'
  <2> SUFFICES ASSUME NEW k \in 1..(n - 1)
               PROVE  \E b \in 1..Nb(net'[k].nal) : net'[k] = Packet(net'[k].nal, sent[net'[k].nal], b)
    BY <1>1, <1>4 DEF AreBlocks
  <2>1. k + 1 \in 1..n /\ net'[k] = net[k + 1]
    BY <1>1
  <2> QED BY <2>1 DEF NetInv, AreBlocks, n
<1> QED BY <1>7, <1>8, <1>9, <1>10 DEF NetInv

(* Only units of a known type are sent. *)
LEMMA SendableSend ==
  ASSUME TypeOK, Sendable, NEW nal \in Nal, inputFrameData(nal)
  PROVE  Sendable'
<1> DEFINE u == Len(sent) + 1
<1>1. /\ Len(sent) \in Nat /\ nal.type # "other" /\ DOMAIN sent = 1..Len(sent) /\ DOMAIN sent' = 1..u
      /\ sent' \in Seq(Nal) /\ sent'[u] = nal /\ \A k \in 1..Len(sent) : sent'[k] = sent[k]
  BY SendIs
<1>2. \A i \in 1..Len(sent) : sent[i].type # "other"
  BY <1>1 DEF Sendable
<1>3. ASSUME NEW i \in 1..u PROVE sent'[i].type # "other"
  <2>1. i = u \/ i \in 1..Len(sent)
    BY <1>1
  <2> QED BY <2>1, <1>1, <1>2
<1> QED BY <1>1, <1>3 DEF Sendable

(* A unit is sent. *)
LEMMA NetSend ==
  ASSUME TypeOK, Sendable, NEW nal \in Nal, inputFrameData(nal), NEW pos, NetInv(pos),
         NEW q, q = [i \in 1..(Len(sent) + 2) |-> IF i <= Len(sent) + 1 THEN pos[i] ELSE Len(net')]
  PROVE  NetInv(q)'
<1> DEFINE n == Len(net)
           u == Len(sent) + 1
           m == NumBlocks(u, nal)
<1>1. /\ Len(sent) \in Nat /\ u \in Nat /\ nal.type # "other"
      /\ sent' \in Seq(Nal) /\ Len(sent') = u /\ DOMAIN sent = 1..Len(sent) /\ DOMAIN sent' = 1..u
      /\ sent'[u] = nal /\ \A k \in 1..Len(sent) : sent'[k] = sent[k]
      /\ n \in Nat /\ Len(net') = n + m
      /\ \A k \in 1..n : net'[k] = net[k]
      /\ \A k \in 1..m : net'[n + k] = Packet(u, nal, k)
  BY SendIs
<1>2. m \in Nat /\ m > 0
  BY <1>1, BlocksAre
<1>3. pos \in [1..u -> Int] /\ pos[u] = n
  BY DEF NetInv, PosOK
<1>4. hurt' = hurt /\ hurt \subseteq DOMAIN sent
  BY DEF inputFrameData, TypeOK
<1>5. \A k \in 1..n : net[k].nal \in DOMAIN sent
  BY NetIs
<1>6. ASSUME NEW i \in Unhurt PROVE i \in 1..Len(sent) /\ i < u /\ pos[i] \in Int /\ Nb(i) \in Nat /\ Nb(i)' = Nb(i)
                                    /\ sent'[i] = sent[i] /\ q[i] = pos[i]
  <2>1. i \in 1..Len(sent) /\ i < u /\ sent'[i] = sent[i]
    BY <1>1 DEF Unhurt
  <2>2. Nb(i) \in Nat
    BY <1>1, <2>1, NbIs
  <2>3. pos[i] \in Int /\ q[i] = pos[i]
    BY <1>1, <1>3, <2>1
  <2> QED BY <2>1, <2>2, <2>3 DEF Nb
<1>7. Unhurt' = Unhurt \union {u} /\ UnhurtOrNext = Unhurt \union {u} /\ UnhurtOrNext' = Unhurt \union {u, u + 1}
  <2>1. 1..u = 1..Len(sent) \union {u} /\ 1..(u + 1) = 1..Len(sent) \union {u, u + 1}
    BY <1>1
  <2>2. u \notin hurt /\ u + 1 \notin hurt
    BY <1>1, <1>4
  <2>3. Unhurt' = (1..u) \ hurt /\ UnhurtOrNext = (1..u) \ hurt /\ UnhurtOrNext' = (1..(u + 1)) \ hurt
    BY <1>1, <1>4 DEF Unhurt, UnhurtOrNext
  <2>4. Unhurt = (1..Len(sent)) \ hurt
    BY <1>1 DEF Unhurt
  <2> HIDE DEF u
  <2> QED BY <2>1, <2>2, <2>3, <2>4
<1>8. q[u] = n /\ q[u + 1] = n + m /\ q \in [1..(u + 1) -> Int]
  <2>1. u + 1 = Len(sent) + 2 /\ u \in 1..(u + 1) /\ u + 1 \in 1..(u + 1) /\ ~(u + 1 <= u)
    BY <1>1
  <2>2. n + m \in Int
    BY <1>1, <1>2
  <2>3. \A i \in 1..(u + 1) : i <= u => i \in 1..u
    BY <1>1
  <2> HIDE DEF m, n
  <2> QED BY <1>1, <1>3, <2>1, <2>2, <2>3
<1>9. \A i : i = u => Nb(i)' = m
  BY <1>1 DEF Nb
<1> HIDE DEF n, u, m
<1>10. PosOK(q)'
  BY <1>1, <1>8 DEF PosOK
<1>11. InPlace(q)'
  <2> SUFFICES ASSUME NEW i \in Unhurt', NEW k \in 1..(n + m)
               PROVE  /\ k <= q[i] => net'[k].nal < i
                      /\ k > q[i] + Nb(i)' => net'[k].nal > i
                      /\ (q[i] < k /\ k <= q[i] + Nb(i)') => net'[k] = Packet(i, sent'[i], k - q[i])
    BY <1>1 DEF InPlace
  <2>1. CASE i = u
    <3>1. CASE k <= n
      <4>1. k \in 1..n
        BY <3>1, <1>1
      <4>2. net'[k].nal \in 1..Len(sent)
        BY <4>1, <1>1, <1>5
      <4>3. net'[k].nal < i
        BY <4>2, <2>1, <1>1 DEF u
      <4> QED BY <4>1, <4>3, <3>1, <2>1, <1>1, <1>2, <1>8, <1>9
    <3>2. CASE ~(k <= n)
      <4> DEFINE b == k - n
      <4>1. b \in 1..m /\ n + b = k
        BY <3>2, <1>1, <1>2
      <4> HIDE DEF b
      <4>2. net'[n + b] = Packet(u, nal, b)
        BY <4>1, <1>1
      <4>3. net'[k] = Packet(u, nal, k - n)
        BY <4>1, <4>2 DEF b
      <4>4. ~(k > n + m)
        BY <1>1, <1>2
      <4> QED BY <4>3, <4>4, <3>2, <2>1, <1>1, <1>8, <1>9
    <3> QED BY <3>1, <3>2
  <2>2. CASE i # u
    <3>1. i \in Unhurt
      BY <2>2, <1>7
    <3>2. i \in 1..Len(sent) /\ i < u /\ pos[i] \in Int /\ Nb(i) \in Nat /\ Nb(i)' = Nb(i) /\ sent'[i] = sent[i] /\ q[i] = pos[i]
      BY <3>1, <1>6
    <3>3. pos[i] + Nb(i) <= n
      <4>1. u \in UnhurtOrNext
        BY <1>7
      <4> QED BY <3>1, <3>2, <4>1, <1>3 DEF NetInv, InOrder
    <3>4. CASE k <= n
      <4>1. k \in 1..n
        BY <3>4, <1>1
      <4>2. /\ k <= pos[i] => net[k].nal < i
            /\ k > pos[i] + Nb(i) => net[k].nal > i
            /\ (pos[i] < k /\ k <= pos[i] + Nb(i)) => net[k] = Packet(i, sent[i], k - pos[i])
        BY <3>1, <4>1 DEF NetInv, InPlace, n
      <4> QED BY <3>2, <4>1, <4>2, <1>1
    <3>5. CASE ~(k <= n)
      <4> DEFINE b == k - n
      <4>1. b \in 1..m /\ n + b = k
        BY <3>5, <1>1, <1>2
      <4> HIDE DEF b
      <4>2. net'[n + b] = Packet(u, nal, b)
        BY <4>1, <1>1
      <4>3. Packet(u, nal, b).nal = u
        BY <4>1, <1>1, BlockIs DEF m
      <4>4. net'[k].nal > i
        BY <4>1, <4>2, <4>3, <3>2, <1>1
      <4>5. ~(k <= pos[i]) /\ ~(k <= pos[i] + Nb(i))
        BY <3>2, <3>3, <3>5, <1>1
      <4> QED BY <3>2, <4>4, <4>5
    <3> QED BY <3>4, <3>5
  <2> QED BY <2>1, <2>2
<1>12. InOrder(q)'
  <2> SUFFICES ASSUME NEW i \in Unhurt', NEW j \in UnhurtOrNext'
               PROVE  (i < j => q[i] + Nb(i)' <= q[j]) /\ (j = i + 1 => q[j] = q[i] + Nb(i)')
    BY DEF InOrder
  <2>1. CASE i = u
    <3>1. \A k \in Unhurt : ~(u < k) /\ k # u + 1
      <4> TAKE k \in Unhurt
      <4>1. k \in 1..Len(sent) /\ k < u
        BY <1>6
      <4> QED BY <4>1, <1>1
    <3>2. ~(u < u) /\ u # u + 1
      BY <1>1
    <3>3. i < j \/ j = i + 1 => j = u + 1
      BY <2>1, <3>1, <3>2, <1>7
    <3>4. q[i] + Nb(i)' = n + m
      BY <2>1, <1>8, <1>9
    <3> QED BY <3>3, <3>4, <2>1, <1>1, <1>2, <1>8
  <2>2. CASE i # u
    <3>1. i \in Unhurt
      BY <2>2, <1>7
    <3>2. i \in 1..Len(sent) /\ i < u /\ pos[i] \in Int /\ Nb(i) \in Nat /\ Nb(i)' = Nb(i) /\ q[i] = pos[i]
      BY <3>1, <1>6
    <3>3. CASE j = u + 1
      <4>1. u \in UnhurtOrNext
        BY <1>7
      <4>2. pos[i] + Nb(i) <= n
        BY <3>1, <3>2, <4>1, <1>3 DEF NetInv, InOrder
      <4>3. j # i + 1
        BY <3>2, <3>3, <1>1
      <4> QED BY <3>2, <3>3, <4>2, <4>3, <1>1, <1>2, <1>8
    <3>4. CASE j # u + 1
      <4>1. j \in UnhurtOrNext
        BY <3>4, <1>7
      <4>2. q[j] = pos[j]
        BY <4>1, <1>3, <1>6, <1>7, <1>8
      <4>3. (i < j => pos[i] + Nb(i) <= pos[j]) /\ (j = i + 1 => pos[j] = pos[i] + Nb(i))
        BY <3>1, <4>1 DEF NetInv, InOrder
      <4> QED BY <3>2, <4>2, <4>3
    <3> QED BY <3>3, <3>4
  <2> QED BY <2>1, <2>2
<1>13. AreBlocks'
  <2> SUFFICES ASSUME NEW k \in 1..(n + m)
               PROVE  \E b \in 1..NumBlocks(net'[k].nal, sent'[net'[k].nal]) :
                        net'[k] = Packet(net'[k].nal, sent'[net'[k].nal], b)
    BY <1>1 DEF AreBlocks, Nb
  <2>1. CASE k <= n
    <3>1. k \in 1..n /\ net'[k] = net[k]
      BY <2>1, <1>1
    <3>2. net[k].nal \in 1..Len(sent) /\ sent'[net[k].nal] = sent[net[k].nal]
      BY <3>1, <1>1, <1>5
    <3>3. \E b \in 1..NumBlocks(net[k].nal, sent[net[k].nal]) : net[k] = Packet(net[k].nal, sent[net[k].nal], b)
      BY <3>1 DEF NetInv, AreBlocks, n, Nb
    <3> QED BY <3>1, <3>2, <3>3
  <2>2. CASE ~(k <= n)
    <3> DEFINE b == k - n
    <3>1. b \in 1..m /\ n + b = k
      BY <2>2, <1>1, <1>2
    <3> HIDE DEF b
    <3>2. net'[n + b] = Packet(u, nal, b)
      BY <3>1, <1>1
    <3>3. Packet(u, nal, b).nal = u
      BY <3>1, <1>1, BlockIs DEF m
    <3>4. net'[k] = Packet(u, nal, b) /\ net'[k].nal = u
      BY <3>1, <3>2, <3>3
    <3>5. NumBlocks(net'[k].nal, sent'[net'[k].nal]) = m /\ sent'[net'[k].nal] = nal
      BY <3>4, <1>1 DEF m
    <3> QED BY <3>1, <3>4, <3>5
  <2> QED BY <2>1, <2>2
<1> QED BY <1>10, <1>11, <1>12, <1>13 DEF NetInv

(* The first l cells of B are the frame that unit g opens, up to the b-th block
   of unit i. *)
Filled(g, i, b, B, l) ==
  /\ l = Room(g, i) + Covered(i, sent[i], b)
  /\ \A p \in 1..l : B[p] = Join(Muxed, g, i + 1)[p]

(* How many cells these are *)
LEMMA RoomIs ==
  ASSUME Sendable, NEW i \in DOMAIN sent, NEW g \in Int, 1 <= g, g <= i
  PROVE  /\ Room(g, i) \in Nat /\ Room(g, i + 1) \in Nat /\ Len(h264PsMux(i, sent[i])) \in Nat
         /\ Len(h264PsMux(i, sent[i])) > 0
         /\ Room(g, i + 1) = Room(g, i) + Len(h264PsMux(i, sent[i]))
         /\ Covered(i, sent[i], 0) = 0
         /\ Covered(i, sent[i], Nb(i)) = Len(h264PsMux(i, sent[i]))
         /\ AllSeqs(Muxed, g, i + 1, Cell) /\ i \in g..i /\ Muxed[i] = h264PsMux(i, sent[i])
<1>1. i \in Nat /\ i <= Len(sent) /\ Len(sent) \in Nat /\ sent[i] \in Nal /\ sent[i].type # "other"
  BY NbIs
<1>2. 1 <= g /\ i + 1 \in Int /\ i + 1 <= Len(sent) + 1 /\ g <= i + 1 /\ i \in g..(i + 1) /\ i \in g..((i + 1) - 1)
      /\ g \in g..(i + 1) /\ i \in g..i
  BY <1>1
<1>3. AllSeqs(Muxed, g, i + 1, Cell) /\ \A k \in g..((i + 1) - 1) : Muxed[k] = h264PsMux(k, sent[k])
  BY <1>2, UnitsAre
<1>4. Muxed[i] = h264PsMux(i, sent[i])
  BY <1>2, <1>3
<1>5. /\ Join(Muxed, g, i) \in Seq(Cell) /\ Join(Muxed, g, i + 1) \in Seq(Cell)
      /\ Len(Join(Muxed, g, i + 1)) = Len(Join(Muxed, g, i)) + Len(Muxed[i])
  <2>1. /\ \A k \in g..(i + 1) : Join(Muxed, g, k) \in Seq(Cell)
        /\ \A k \in g..((i + 1) - 1) :
             /\ Join(Muxed, g, k + 1) = Join(Muxed, g, k) \o Muxed[k]
             /\ Len(Join(Muxed, g, k + 1)) = Len(Join(Muxed, g, k)) + Len(Muxed[k])
    BY <1>2, <1>3, JoinFacts, SMTT(20)
  <2>2. i + 1 \in g..(i + 1)
    BY <1>2
  <2> QED BY <1>2, <2>1, <2>2
<1>6. Len(Join(Muxed, g, i)) \in Nat /\ Len(Join(Muxed, g, i + 1)) \in Nat
  BY <1>5, LenProperties
<1>7. h264PsMux(i, sent[i]) \in Seq(Cell) /\ h264PsMux(i, sent[i]) # << >>
  BY <1>1, MuxIs
<1>8. Len(h264PsMux(i, sent[i])) \in Nat /\ Len(h264PsMux(i, sent[i])) > 0
  <2> DEFINE s == h264PsMux(i, sent[i])
  <2>1. s \in Seq(Cell) /\ s # << >>
    BY <1>7
  <2> HIDE DEF s
  <2>2. Len(s) \in Nat /\ Len(s) # 0
    BY <2>1, EmptySeq, LenProperties
  <2> QED BY <2>2 DEF s
<1>9. Covered(i, sent[i], 0) = 0 /\ Covered(i, sent[i], Nb(i)) = Len(h264PsMux(i, sent[i]))
  BY <1>1, BlocksAre DEF Nb
<1> QED BY <1>2, <1>3, <1>4, <1>5, <1>6, <1>8, <1>9 DEF Room

(* The next block of the same unit comes behind what is there. *)
LEMMA FillsOn ==
  ASSUME Sendable, BufferOK, NEW i \in DOMAIN sent, NEW g \in Int, 1 <= g, g <= i,
         NEW b \in 1..Nb(i), NEW l \in 0..Len(buf), Filled(g, i, b - 1, buf, l),
         Room(g, i) + Covered(i, sent[i], b) <= RecvMax
  PROVE  LET new == fillFrameBuff(l, Packet(i, sent[i], b).cells)
         IN  Filled(g, i, b, new.buf, new.len)
<1> DEFINE cells == Packet(i, sent[i], b).cells
           new == fillFrameBuff(l, cells)
           r == Room(g, i)
           c == Covered(i, sent[i], b - 1)
           d == Covered(i, sent[i], b)
           s == Join(Muxed, g, i + 1)
           m == h264PsMux(i, sent[i])
<1>1. /\ cells \in Seq(Cell) /\ c \in Nat /\ d \in Nat /\ c < d /\ d <= Len(m)
      /\ Len(cells) = d - c /\ \A q \in 1..Len(cells) : cells[q] = m[c + q]
  <2>1. i \in Nat /\ sent[i] \in Nal /\ sent[i].type # "other"
    BY NbIs
  <2>2. b \in 1..NumBlocks(i, sent[i])
    BY DEF Nb
  <2>3. /\ Packet(i, sent[i], b).cells \in Seq(Cell)
        /\ Covered(i, sent[i], b - 1) \in Nat /\ Covered(i, sent[i], b) \in Nat
        /\ Covered(i, sent[i], b - 1) < Covered(i, sent[i], b)
        /\ Covered(i, sent[i], b) <= Len(h264PsMux(i, sent[i]))
        /\ Len(Packet(i, sent[i], b).cells) = Covered(i, sent[i], b) - Covered(i, sent[i], b - 1)
    BY <2>1, <2>2, BlockIs, SMTT(30)
  <2>4. \A q \in 1..Len(Packet(i, sent[i], b).cells) :
          Packet(i, sent[i], b).cells[q] = h264PsMux(i, sent[i])[Covered(i, sent[i], b - 1) + q]
    BY <2>1, <2>2, BlockIs, SMTT(30)
  <2> QED BY <2>3, <2>4
<1>2. r \in Nat /\ AllSeqs(Muxed, g, i + 1, Cell) /\ Muxed[i] = m /\ Len(m) \in Nat
  BY RoomIs
<1>3. i \in Nat /\ g <= i + 1 /\ i + 1 \in Int /\ i \in g..((i + 1) - 1)
  BY NbIs
<1>4. \A p \in 1..Len(m) : s[r + p] = m[p]
  <2>1. Lies(Muxed, g, i + 1, i)
    BY <1>2, <1>3, JoinCell
  <2>2. \A p \in 1..Len(Muxed[i]) : s[Len(Join(Muxed, g, i)) + p] = Muxed[i][p]
    BY <2>1 DEF Lies
  <2> QED BY <1>2, <2>2 DEF Room
<1>5. l = r + c /\ \A p \in 1..l : buf[p] = s[p]
  BY DEF Filled
<1>6. buf \in Seq(Cell) /\ Len(buf) <= RecvMax
  BY DEF BufferOK
<1> DEFINE n == Len(cells)
<1>7. n = d - c /\ l + n <= RecvMax /\ r + d <= RecvMax
  <2>1. n = d - c /\ r + d <= RecvMax
    BY <1>1
  <2> HIDE DEF n, r, d, c, s
  <2> QED BY <2>1, <1>1, <1>2, <1>5, Constants
<1>8. /\ new.len = l + n /\ \A p \in 1..l : new.buf[p] = buf[p]
      /\ \A p \in 1..n : new.buf[l + p] = cells[p]
  BY <1>1, <1>6, <1>7, FillIs
<1>9. \A q \in 1..n : cells[q] = m[c + q]
  BY <1>1
<1> DEFINE lm == Len(m)
<1>10. lm \in Nat /\ d <= lm /\ \A p \in 1..lm : s[r + p] = m[p]
  BY <1>1, <1>2, <1>4
<1> HIDE DEF n, r, d, c, s, m, lm, new, cells
<1>11. new.len = r + d
  BY <1>1, <1>2, <1>5, <1>7, <1>8
<1>12. ASSUME NEW p \in 1..(r + d) PROVE new.buf[p] = s[p]
  <2>1. CASE p <= l
    <3>1. p \in 1..l
      BY <2>1, <1>1, <1>2, <1>5
    <3> QED BY <3>1, <1>5, <1>8
  <2>2. CASE ~(p <= l)
    <3> DEFINE q == p - l
               x == c + q
    <3>1. q \in 1..n /\ l + q = p /\ x \in 1..lm /\ r + x = p
      <4>1. l = r + c /\ n = d - c /\ r \in Nat /\ c \in Nat /\ d \in Nat /\ c < d /\ d <= lm /\ lm \in Nat
        BY <1>1, <1>2, <1>5, <1>7, <1>10
      <4> QED BY <4>1, <2>2
    <3>2. x = c + q
      OBVIOUS
    <3> HIDE DEF q, x
    <3>3. new.buf[l + q] = cells[q] /\ cells[q] = m[x] /\ s[r + x] = m[x]
      BY <3>1, <3>2, <1>8, <1>9, <1>10
    <3> QED BY <3>1, <3>3
  <2> QED BY <2>1, <2>2
<1> QED BY <1>11, <1>12 DEF Filled, new, r, d, s, cells

(* Behind a whole unit the next one begins. *)
LEMMA FillsUp ==
  ASSUME Sendable, NEW i \in DOMAIN sent, i + 1 \in DOMAIN sent, NEW g \in Int, 1 <= g, g <= i,
         NEW B, NEW l, Filled(g, i, Nb(i), B, l)
  PROVE  Filled(g, i + 1, 0, B, l)
<1>1. l = Room(g, i) + Covered(i, sent[i], Nb(i)) /\ \A p \in 1..l : B[p] = Join(Muxed, g, i + 1)[p]
  BY DEF Filled
<1>2. l = Room(g, i + 1)
  BY <1>1, RoomIs
<1> DEFINE j == i + 1
<1>3. j \in DOMAIN sent /\ g <= j /\ i \in Nat /\ j \in g..(j + 1) /\ j + 1 \in Int /\ g <= j + 1
  BY NbIs
<1>4. l = Room(g, j) /\ \A p \in 1..l : B[p] = Join(Muxed, g, j)[p]
  BY <1>1, <1>2
<1> HIDE DEF j
<1>5. Room(g, j) \in Nat /\ Covered(j, sent[j], 0) = 0 /\ AllSeqs(Muxed, g, j + 1, Cell)
  BY <1>3, RoomIs
<1>6. \A p \in 1..Len(Join(Muxed, g, j)) : Join(Muxed, g, j + 1)[p] = Join(Muxed, g, j)[p]
  BY <1>3, <1>5, JoinPrefix
<1>7. Filled(g, j, 0, B, l)
  <2>1. \A p \in 1..l : Join(Muxed, g, j + 1)[p] = Join(Muxed, g, j)[p]
    BY <1>4, <1>6 DEF Room
  <2>2. l = Room(g, j) + Covered(j, sent[j], 0)
    BY <1>4, <1>5
  <2> QED BY <1>4, <2>1, <2>2 DEF Filled
<1> QED BY <1>7 DEF j

(* When a unit is about to begin, the buffer holds all the units before it. *)
LEMMA FilledHolds ==
  ASSUME Sendable, BufferOK, NEW i \in DOMAIN sent, NEW g \in Int, 1 <= g, g <= i,
         Filled(g, i, 0, buf, len)
  PROVE  Room(g, i) = len /\ Holds(0, Join(Muxed, g, i))
<1>1. len = Room(g, i) + Covered(i, sent[i], 0) /\ \A p \in 1..len : buf[p] = Join(Muxed, g, i + 1)[p]
  BY DEF Filled
<1>2. Room(g, i) \in Nat /\ Covered(i, sent[i], 0) = 0 /\ AllSeqs(Muxed, g, i + 1, Cell)
  BY RoomIs
<1>3. len = Room(g, i)
  BY <1>1, <1>2
<1>4. i \in g..(i + 1) /\ i + 1 \in Int /\ g <= i + 1
  BY NbIs
<1>5. \A p \in 1..Len(Join(Muxed, g, i)) : Join(Muxed, g, i + 1)[p] = Join(Muxed, g, i)[p]
  BY <1>2, <1>4, JoinPrefix
<1> DEFINE s == Join(Muxed, g, i)
           t == Join(Muxed, g, i + 1)
           n == Len(s)
<1>6. n = len /\ n \in Nat /\ \A p \in 1..n : t[p] = s[p]
  BY <1>2, <1>3, <1>5 DEF Room
<1>7. \A p \in 1..n : buf[p] = t[p]
  BY <1>1, <1>6
<1> HIDE DEF s, t, n
<1>8. 0 + n <= len /\ \A q \in 1..n : buf[0 + q] = s[q]
  BY <1>6, <1>7
<1> QED BY <1>3, <1>8 DEF Holds, n, s

(* The packets of the units no fault has touched *)
LEMMA PosIs ==
  ASSUME Sendable, NEW pos, NetInv(pos), NEW i \in Unhurt
  PROVE  /\ i \in DOMAIN sent /\ i \in Nat /\ i \in 1..Len(sent) /\ Len(sent) \in Nat
         /\ pos[i] \in Int /\ Nb(i) \in Nat /\ Nb(i) > 0
         /\ \A j \in UnhurtOrNext :
              /\ j \in Nat /\ pos[j] \in Int
              /\ i < j => pos[i] + Nb(i) <= pos[j]
              /\ j = i + 1 => pos[j] = pos[i] + Nb(i)
<1>1. i \in DOMAIN sent
  BY DEF Unhurt
<1>2. i \in Nat /\ i \in 1..Len(sent) /\ Len(sent) \in Nat /\ Nb(i) \in Nat /\ Nb(i) > 0
  BY <1>1, NbIs
<1>3. pos \in [1..(Len(sent) + 1) -> Int]
  BY DEF NetInv, PosOK
<1>4. pos[i] \in Int
  BY <1>2, <1>3
<1>5. \A j \in UnhurtOrNext : j \in Nat /\ pos[j] \in Int
  BY <1>2, <1>3 DEF UnhurtOrNext
<1> QED BY <1>1, <1>2, <1>4, <1>5 DEF NetInv, InOrder

(* Whose block the packet is that arrives next *)
LEMMA HeadUnit ==
  ASSUME TypeOK, Sendable, net # << >>, NEW pos, NetInv(pos), NEW i \in Unhurt, net[1].nal = i
  PROVE  /\ 1 - pos[i] \in 1..Nb(i) /\ net[1] = Packet(i, sent[i], 1 - pos[i])
         /\ StartsFrame(Head(net)) <=> (1 - pos[i] = 1 /\ i \in Openers)
<1> DEFINE p == pos[i]
           n == Nb(i)
           b == 1 - p
<1>1. i \in DOMAIN sent /\ i \in Nat /\ p \in Int /\ n \in Nat
  BY PosIs
<1>2. 1 \in 1..Len(net) /\ Head(net) = net[1]
  BY HeadIs
<1>3. /\ 1 <= p => net[1].nal < i
      /\ 1 > p + n => net[1].nal > i
      /\ (p < 1 /\ 1 <= p + n) => net[1] = Packet(i, sent[i], 1 - p)
  BY <1>2 DEF NetInv, InPlace
<1> HIDE DEF p, n
<1>4. p < 1 /\ 1 <= p + n
  BY <1>1, <1>3
<1>5. b \in 1..n /\ net[1] = Packet(i, sent[i], b)
  BY <1>1, <1>3, <1>4
<1> HIDE DEF b
<1>6. sent[i] \in Nal /\ sent[i].type # "other"
  BY <1>1, NbIs
<1>7. StartsFrame(Packet(i, sent[i], b)) <=> (b = 1 /\ sent[i].type \in {"SPS", "PFRAME"})
  <2>1. b \in 1..NumBlocks(i, sent[i])
    BY <1>5 DEF n, Nb
  <2> QED BY <1>1, <1>6, <2>1, BlockIs
<1>8. i \in Openers <=> sent[i].type \in {"SPS", "PFRAME"}
  BY <1>1 DEF Openers
<1> QED BY <1>2, <1>5, <1>7, <1>8 DEF b, p, n

(* Every block of a unit lies where pos says. *)
LEMMA Owner ==
  ASSUME TypeOK, Sendable, NEW pos, NetInv(pos), NEW i \in Unhurt, NEW k \in 1..Len(net),
         pos[i] < k, k <= pos[i] + Nb(i)
  PROVE  net[k].nal = i
<1> DEFINE p == pos[i]
           n == Nb(i)
           b == k - p
<1>1. i \in DOMAIN sent /\ i \in Nat /\ p \in Int /\ n \in Nat
  BY PosIs
<1>2. net[k] = Packet(i, sent[i], k - p)
  BY DEF NetInv, InPlace
<1>3. p < k /\ k <= p + n
  OBVIOUS
<1> HIDE DEF p, n
<1>4. b \in 1..n /\ net[k] = Packet(i, sent[i], b)
  BY <1>1, <1>2, <1>3
<1> HIDE DEF b
<1>5. sent[i] \in Nal /\ sent[i].type # "other"
  BY <1>1, NbIs
<1>6. Packet(i, sent[i], b).nal = i
  <2>1. b \in 1..NumBlocks(i, sent[i])
    BY <1>4 DEF n, Nb
  <2> QED BY <1>1, <1>5, <2>1, BlockIs
<1> QED BY <1>4, <1>6

(* The packet that arrives next belongs to the unit it lies in. *)
LEMMA HeadOf ==
  ASSUME TypeOK, Sendable, net # << >>, NEW pos, NetInv(pos), NEW i \in Unhurt,
         pos[i] < 1, 1 <= pos[i] + Nb(i)
  PROVE  net[1].nal = i
<1>1. 1 \in 1..Len(net)
  BY HeadIs
<1> QED BY <1>1, Owner

-----------------------------------------------------------------------------
(* Units sent before stay as they were when another one is sent. *)
LEMMA OldUnits ==
  ASSUME TypeOK, Sendable, NEW nal \in Nal, inputFrameData(nal), NEW g \in Int, NEW h \in Int,
         1 <= g, g <= h, h <= Len(sent) + 1
  PROVE  /\ Join(Muxed, g, h)' = Join(Muxed, g, h) /\ Video(g, h)' = Video(g, h)
         /\ Room(g, h)' = Room(g, h)
<1>1. /\ Len(sent) \in Nat /\ DOMAIN sent = 1..Len(sent) /\ DOMAIN sent' = 1..(Len(sent) + 1)
      /\ \A k \in 1..Len(sent) : sent'[k] = sent[k]
  BY SendIs
<1>2. AllSeqs(Muxed, g, h, Cell) /\ AllSeqs(Pushed, g, h, Cell)
  BY UnitsAre
<1> DEFINE M == Muxed'
           P == Pushed'
<1>3. \A i \in g..(h - 1) : M[i] = Muxed[i] /\ P[i] = Pushed[i]
  <2> TAKE i \in g..(h - 1)
  <2>1. i \in 1..Len(sent) /\ i \in 1..(Len(sent) + 1)
    BY <1>1
  <2>2. sent'[i] = sent[i] /\ i \in DOMAIN sent /\ i \in DOMAIN sent'
    BY <1>1, <2>1
  <2> QED BY <2>2 DEF Muxed, Pushed
<1> HIDE DEF M, P
<1>4. Join(M, g, h) = Join(Muxed, g, h) /\ Join(P, g, h) = Join(Pushed, g, h)
  BY <1>2, <1>3, JoinSame
<1> QED BY <1>4 DEF M, P, Video, Room

-----------------------------------------------------------------------------
(* Where frames begin *)
LEMMA BeginsAre ==
  ASSUME TypeOK
  PROVE  /\ Begins \subseteq 1..(Len(sent) + 1) /\ Len(sent) \in Nat /\ 1 \in Begins
         /\ Openers \subseteq 1..Len(sent) /\ Begins \subseteq Nat
         /\ \A i \in Begins : i # 1 => i \in Openers
<1>1. Len(sent) \in Nat /\ DOMAIN sent = 1..Len(sent)
  BY NetIs
<1> QED BY <1>1 DEF Begins, Openers

(* Places are counted from 1, one by one. *)
LEMMA PlaceIs ==
  ASSUME TypeOK, NEW i \in Begins
  PROVE  /\ IsFiniteSet({j \in Begins : j <= i}) /\ Place(i) \in Nat /\ Place(i) > 0
         /\ \A h \in Begins : Follows(i, h) => Place(h) = Place(i) + 1
<1>1. /\ Begins \subseteq 1..(Len(sent) + 1) /\ Len(sent) \in Nat /\ Begins \subseteq Nat
  BY BeginsAre
<1>2. IsFiniteSet(Begins)
  <2>1. Len(sent) + 1 \in Int
    BY <1>1
  <2>2. IsFiniteSet(1..(Len(sent) + 1))
    BY <2>1, FS_Interval
  <2> QED BY <1>1, <2>2, FS_Subset
<1> DEFINE S == {j \in Begins : j <= i}
<1>3. IsFiniteSet(S)
  BY <1>2, FS_Subset
<1>4. i \in S /\ Cardinality(S) \in Nat
  <2>1. i <= i
    BY <1>1
  <2> QED BY <1>3, <2>1, FS_CardinalityType
<1>5. Cardinality(S) > 0
  <2>1. S # {}
    BY <1>4
  <2> QED BY <1>3, <1>4, <2>1, FS_EmptySet
<1>6. ASSUME NEW h \in Begins, Follows(i, h) PROVE Place(h) = Place(i) + 1
  <2>1. i < h /\ \A j \in Begins : ~(i < j /\ j < h)
    BY <1>6 DEF Follows
  <2>2. {j \in Begins : j <= h} = S \union {h}
    <3>1. ASSUME NEW j \in Begins PROVE j <= h <=> j <= i \/ j = h
      <4>1. j \in Nat /\ i \in Nat /\ h \in Nat /\ ~(i < j /\ j < h) /\ i < h
        BY <1>1, <2>1
      <4> QED BY <4>1
    <3> QED BY <3>1
  <2>3. h \notin S
    BY <1>1, <2>1
  <2>4. Cardinality(S \union {h}) = Cardinality(S) + 1
    <3> HIDE DEF S
    <3> QED BY <1>3, <2>3, FS_AddElement
  <2> QED BY <2>2, <2>4 DEF Place
<1> QED BY <1>3, <1>4, <1>5, <1>6 DEF Place

-----------------------------------------------------------------------------
(* On a network without faults.  The unit cur opened the frame that is arriving. *)
Current(pos, cur) ==
  /\ cur \in Begins /\ (cur = 1 \/ pos[cur] < 0)
  /\ \A h \in Begins : h > cur => pos[h] >= 0

(* The buffer holds what arrived of the frame, up to the block of unit i that
   came last, unless it was too much. *)
Kept(pos, cur) ==
  \A i \in DOMAIN sent :
    (/\ cur <= i /\ pos[i] < 0 /\ pos[i] + Nb(i) >= 0
     /\ Room(cur, i) + Covered(i, sent[i], -pos[i]) <= RecvMax)
      => Filled(cur, i, -pos[i], buf, len)

(* All frames before it were delivered. *)
Given(cur) ==
  /\ Len(out) = Place(cur) - 1
  /\ \A g, h \in Begins : Follows(g, h) /\ h <= cur => out[Place(g)] = Video(g, h)

(* Before the first packet of all, the buffer is empty. *)
NothingYet(pos) == pos[1] >= 0 => len = 0

(* Every frame whose successor is known fits in the buffer. *)
Fit == \A g, h \in Begins : Follows(g, h) => Room(g, h) <= RecvMax

(* What the receiver has, as long as every frame fits *)
WholeInv(pos) ==
  (faults = 0 /\ Fit) =>
    /\ NothingYet(pos)
    /\ \E cur : Current(pos, cur) /\ Kept(pos, cur) /\ Given(cur)

(* What the buffer holds when a block of unit i is about to come *)
LEMMA BeforeHead ==
  ASSUME TypeOK, Sendable, hurt = {}, net # << >>, NEW pos, NetInv(pos), NEW cur,
         NothingYet(pos), Current(pos, cur), Kept(pos, cur),
         NEW i \in DOMAIN sent, net[1].nal = i
  PROVE  /\ i \in Unhurt /\ cur <= i /\ cur \in Nat /\ 1 <= cur
         /\ pos[i] = 0 /\ i # 1 => cur < i /\ Follows(cur, i)
         /\ cur = i => pos[i] < 0 \/ i = 1
         /\ Room(cur, i) + Covered(i, sent[i], -pos[i]) <= RecvMax => Filled(cur, i, -pos[i], buf, len)
<1> DEFINE p == pos[i]
           n == Nb(i)
<1>1. i \in Unhurt /\ \A j \in DOMAIN sent : j \in Unhurt
  BY DEF Unhurt
<1>2. i \in Nat /\ i \in 1..Len(sent) /\ Len(sent) \in Nat /\ p \in Int /\ n \in Nat /\ n > 0 /\ DOMAIN sent = 1..Len(sent)
  BY <1>1, PosIs, NetIs
<1>3. 1 - p \in 1..n
  BY <1>1, HeadUnit
<1>4. /\ cur \in Begins /\ (cur = 1 \/ pos[cur] < 0) /\ \A h \in Begins : h > cur => pos[h] >= 0
      /\ Begins \subseteq Nat /\ Begins \subseteq 1..(Len(sent) + 1) /\ \A h \in Begins : h # 1 => h \in 1..Len(sent)
  BY BeginsAre DEF Current
<1>5. cur \in Nat /\ 1 <= cur
  BY <1>2, <1>4
<1>6. \A j \in UnhurtOrNext : pos[j] \in Int /\ (i < j => p + n <= pos[j])
  BY <1>1, PosIs
<1>7. \A j \in 1..Len(sent) : j \in Unhurt /\ j \in UnhurtOrNext /\ j \in Nat /\ pos[j] \in Int
  <2> TAKE j \in 1..Len(sent)
  <2>1. j \in Unhurt /\ j \in UnhurtOrNext
    BY <1>1, <1>2 DEF UnhurtOrNext
  <2> QED BY <2>1, PosIs
<1> HIDE DEF p, n
<1>8. cur <= i
  <2> SUFFICES ASSUME i < cur PROVE FALSE
    BY <1>2, <1>5
  <2>1. cur # 1 /\ cur \in 1..Len(sent) /\ pos[cur] < 0
    BY <1>2, <1>4
  <2>2. p + n <= pos[cur] /\ pos[cur] \in Int
    BY <2>1, <1>6, <1>7
  <2> QED BY <2>1, <2>2, <1>2, <1>3
<1>9. cur = i => p < 0 \/ i = 1
  BY <1>4 DEF p
<1>10. ASSUME p = 0, i # 1 PROVE cur < i /\ Follows(cur, i)
  <2>1. cur < i
    BY <1>10, <1>2, <1>5, <1>8, <1>9
  <2>2. ASSUME NEW h \in Begins, cur < h, h < i PROVE FALSE
    <3>1. h \in 1..Len(sent) /\ pos[h] >= 0 /\ i \in UnhurtOrNext
      BY <2>2, <1>2, <1>4, <1>5, <1>7
    <3> DEFINE a == pos[h]
               b == Nb(h)
    <3>2. a \in Int /\ b \in Nat /\ b > 0 /\ (h < i => a + b <= pos[i])
      BY <3>1, <1>7, PosIs
    <3>3. a >= 0 /\ a + b <= p
      BY <3>1, <3>2, <2>2 DEF p
    <3> HIDE DEF a, b
    <3> QED BY <3>2, <3>3, <1>10
  <2> QED BY <2>1, <2>2 DEF Follows
<1>11. ASSUME Room(cur, i) + Covered(i, sent[i], -p) <= RecvMax PROVE Filled(cur, i, -p, buf, len)
  <2>1. CASE p < 0
    <3>1. p + n >= 0
      BY <1>2, <1>3
    <3> QED BY <2>1, <3>1, <1>8, <1>11 DEF Kept, p, n
  <2>2. CASE ~(p < 0) /\ i = 1
    <3>1. p = 0 /\ cur = 1 /\ -p = 0
      BY <2>2, <1>2, <1>3, <1>5, <1>8
    <3>2. len = 0
      BY <3>1, <2>2 DEF NothingYet, p
    <3>3. AllSeqs(Muxed, 1, 2, Cell) /\ Covered(i, sent[i], 0) = 0
      <4>1. 1 \in Int /\ 1 <= 1 /\ 1 <= i /\ i + 1 = 2
        BY <2>2
      <4> QED BY <4>1, RoomIs
    <3>4. Join(Muxed, 1, 1) = << >>
      <4>1. 1 \in Int /\ 2 \in Int /\ 1 <= 2
        OBVIOUS
      <4> QED BY <3>3, <4>1, JoinFacts
    <3>5. Room(1, 1) = 0
      BY <3>4 DEF Room
    <3> QED BY <3>1, <3>2, <3>3, <3>5, <2>2 DEF Filled
  <2>3. CASE ~(p < 0) /\ i # 1
    <3> DEFINE e == i - 1
    <3>1. p = 0 /\ -p = 0 /\ cur < i
      BY <2>3, <1>2, <1>3, <1>5, <1>8, <1>9
    <3>2. e \in 1..Len(sent) /\ e + 1 = i /\ cur <= e /\ i = e + 1
      BY <2>3, <3>1, <1>2, <1>5
    <3> HIDE DEF e
    <3>3. e \in Unhurt /\ i \in UnhurtOrNext /\ e \in DOMAIN sent
      BY <3>2, <1>2, <1>7
    <3> DEFINE a == pos[e]
               b == Nb(e)
    <3>4. a \in Int /\ b \in Nat /\ b > 0 /\ pos[i] = a + b
      BY <3>2, <3>3, PosIs
    <3>5. a < 0 /\ a + b >= 0 /\ -a = b
      <4>1. p = a + b
        BY <3>4 DEF p
      <4> HIDE DEF a, b
      <4> QED BY <3>1, <3>4, <4>1
    <3>6. /\ Room(cur, e + 1) = Room(cur, e) + Len(h264PsMux(e, sent[e]))
          /\ Covered(e, sent[e], Nb(e)) = Len(h264PsMux(e, sent[e]))
      BY <3>2, <3>3, <1>5, RoomIs
    <3>7. Room(cur, i) \in Nat /\ Covered(i, sent[i], 0) = 0
      BY <1>5, <1>8, RoomIs
    <3>8. Room(cur, e) + Covered(e, sent[e], b) <= RecvMax
      <4>1. Room(cur, e) + Covered(e, sent[e], b) = Room(cur, i)
        BY <3>2, <3>6
      <4>2. Room(cur, i) + 0 <= RecvMax
        BY <3>1, <3>7, <1>11
      <4> QED BY <4>1, <4>2, <3>7
    <3>9. Filled(cur, e, -a, buf, len)
      <4>1. Room(cur, e) + Covered(e, sent[e], -a) <= RecvMax
        BY <3>5, <3>8
      <4>2. cur <= e /\ pos[e] < 0 /\ pos[e] + Nb(e) >= 0
        BY <3>2, <3>5
      <4> QED BY <4>1, <4>2, <3>3 DEF Kept
    <3>10. Filled(cur, e, Nb(e), buf, len)
      BY <3>5, <3>9
    <3>11. Filled(cur, e + 1, 0, buf, len)
      BY <3>2, <3>3, <3>10, <1>5, FillsUp
    <3> QED BY <3>1, <3>2, <3>11
  <2> QED BY <2>1, <2>2, <2>3
<1> QED BY <1>1, <1>5, <1>8, <1>9, <1>10, <1>11 DEF p

(* What is said of the units depends on the units alone. *)
LEMMA SameUnits ==
  ASSUME sent' = sent
  PROVE  /\ Openers' = Openers /\ Begins' = Begins
         /\ \A g, h : /\ (Follows(g, h))' = Follows(g, h) /\ (Room(g, h))' = Room(g, h)
                      /\ (Video(g, h))' = Video(g, h) /\ (Join(Muxed, g, h))' = Join(Muxed, g, h)
         /\ \A g : (Place(g))' = Place(g) /\ (Nb(g))' = Nb(g)
<1>1. Openers' = Openers /\ Begins' = Begins
  BY DEF Openers, Begins
<1>2. Muxed' = Muxed /\ Pushed' = Pushed
  BY DEF Muxed, Pushed
<1>3. ASSUME NEW g, NEW h
      PROVE  /\ (Follows(g, h))' = Follows(g, h) /\ (Room(g, h))' = Room(g, h)
             /\ (Video(g, h))' = Video(g, h) /\ (Join(Muxed, g, h))' = Join(Muxed, g, h)
  <2>1. (Follows(g, h))' = Follows(g, h)
    BY <1>1, Zenon DEF Follows
  <2>2. /\ (Room(g, h))' = Room(g, h) /\ (Video(g, h))' = Video(g, h)
        /\ (Join(Muxed, g, h))' = Join(Muxed, g, h)
    BY <1>2 DEF Room, Video
  <2> QED BY <2>1, <2>2
<1>4. ASSUME NEW g PROVE (Place(g))' = Place(g) /\ (Nb(g))' = Nb(g)
  BY <1>1 DEF Place, Nb
<1> QED BY <1>1, <1>3, <1>4

(* Earlier frames come in earlier places. *)
LEMMA PlaceUp ==
  ASSUME TypeOK, NEW g \in Begins, NEW h \in Begins, g <= h
  PROVE  Place(g) <= Place(h)
<1> DEFINE S == {j \in Begins : j <= g}
           T == {j \in Begins : j <= h}
<1>1. S \subseteq T
  <2>1. Begins \subseteq Nat
    BY BeginsAre
  <2>2. \A j \in Begins : j <= g => j <= h
    BY <2>1
  <2> QED BY <2>2
<1>2. IsFiniteSet(T)
  BY PlaceIs
<1> HIDE DEF S, T
<1>3. Cardinality(S) <= Cardinality(T)
  BY <1>1, <1>2, FS_Subset
<1> QED BY <1>3 DEF Place, S, T

(* There is something in every unit. *)
LEMMA FrameFull ==
  ASSUME Sendable, NEW g \in Int, NEW h \in Int, 1 <= g, g < h, h <= Len(sent) + 1
  PROVE  Video(g, h) # << >> /\ Video(g, h) \in Seq(Cell) /\ Room(g, h) \in Nat /\ Room(g, h) > 0
<1> DEFINE e == h - 1
<1>1. e \in g..(h - 1) /\ e + 1 = h /\ h \in g..h /\ e \in g..h /\ g <= h
  OBVIOUS
<1> HIDE DEF e
<1>2. ASSUME NEW f, AllSeqs(f, g, h, Cell), f[e] # << >>
      PROVE  Join(f, g, h) # << >> /\ Join(f, g, h) \in Seq(Cell) /\ Len(Join(f, g, h)) \in Nat /\ Len(Join(f, g, h)) > 0
  <2> DEFINE J == Join(f, g, e)
             K == Join(f, g, h)
  <2>1. J \in Seq(Cell) /\ K \in Seq(Cell) /\ Len(K) = Len(J) + Len(f[e])
    <3>1. \A i \in g..(h - 1) : /\ Join(f, g, i + 1) = Join(f, g, i) \o f[i]
                               /\ Len(Join(f, g, i + 1)) = Len(Join(f, g, i)) + Len(f[i])
      BY <1>1, <1>2, JoinFacts, SMTT(30)
    <3>2. Join(f, g, e) \in Seq(Cell) /\ Join(f, g, h) \in Seq(Cell)
      BY <1>1, <1>2, JoinFacts
    <3> QED BY <1>1, <3>1, <3>2
  <2> DEFINE s == f[e]
  <2>2. s \in Seq(Cell) /\ s # << >>
    BY <1>1, <1>2 DEF AllSeqs
  <2>3. Len(K) = Len(J) + Len(s)
    BY <2>1
  <2> HIDE DEF J, K, s
  <2>4. Len(s) \in Nat /\ Len(s) # 0 /\ Len(J) \in Nat /\ Len(K) \in Nat
    BY <2>1, <2>2, EmptySeq, LenProperties
  <2>5. Len(K) > 0
    BY <2>3, <2>4
  <2>6. K # << >>
    BY <2>5
  <2> QED BY <2>1, <2>4, <2>5, <2>6 DEF K
<1>3. /\ AllSeqs(Muxed, g, h, Cell) /\ AllSeqs(Pushed, g, h, Cell)
      /\ \A i \in g..(h - 1) : Muxed[i] # << >> /\ Pushed[i] # << >>
  BY UnitsAre
<1>4. Muxed[e] # << >> /\ Pushed[e] # << >>
  BY <1>1, <1>3
<1>5. Video(g, h) # << >> /\ Video(g, h) \in Seq(Cell)
  BY <1>2, <1>3, <1>4 DEF Video
<1>6. Room(g, h) \in Nat /\ Room(g, h) > 0
  BY <1>2, <1>3, <1>4 DEF Room
<1> QED BY <1>5, <1>6

(* Before its first block comes, a unit that opens a frame has nothing there. *)
LEMMA FillsFirst ==
  ASSUME Sendable, NEW i \in DOMAIN sent, NEW B
  PROVE  Filled(i, i, 0, B, 0)
<1>1. i \in Nat /\ i \in Int /\ 1 <= i /\ i <= i /\ i + 1 \in Int /\ i <= i + 1
  BY NbIs
<1>2. AllSeqs(Muxed, i, i + 1, Cell) /\ Covered(i, sent[i], 0) = 0
  BY <1>1, RoomIs
<1>3. Join(Muxed, i, i) = << >>
  BY <1>1, <1>2, JoinFacts
<1>4. Room(i, i) = 0
  BY <1>3 DEF Room
<1> QED BY <1>2, <1>4 DEF Filled

(* What the receiver does with the packet that arrives *)
LEMMA ReceiveIs ==
  ASSUME TypeOK, StartFrame \/ JoinPacket
  PROVE  LET start == StartsFrame(Head(net)) /\ len > 0
             new == fillFrameBuff(IF start THEN 0 ELSE len, net[1].cells)
         IN  /\ net # << >> /\ net' = Tail(net) /\ UNCHANGED <<sent, faults, hurt>>
             /\ buf' = new.buf /\ len' = new.len
             /\ out' = IF start /\ cutPsHeader # << >> THEN Append(out, cutPsHeader) ELSE out
<1>1. net # << >>
  BY DEF StartFrame, JoinPacket
<1>2. Head(net) = net[1]
  BY <1>1, HeadIs
<1> QED BY <1>1, <1>2 DEF StartFrame, JoinPacket

(* The block that arrives comes behind those of its unit that are there. *)
LEMMA FillsHead ==
  ASSUME TypeOK, Sendable, net # << >>, NEW pos, NetInv(pos), NEW i \in Unhurt, net[1].nal = i,
         NEW g \in Int, 1 <= g, g <= i, NEW l \in 0..Len(buf), Filled(g, i, -pos[i], buf, l),
         Room(g, i) + Covered(i, sent[i], 1 - pos[i]) <= RecvMax
  PROVE  LET new == fillFrameBuff(l, net[1].cells)
         IN  Filled(g, i, 1 - pos[i], new.buf, new.len)
<1> DEFINE p == pos[i]
           b == 1 - p
<1>1. i \in DOMAIN sent /\ p \in Int /\ b \in 1..Nb(i) /\ net[1] = Packet(i, sent[i], b)
  BY PosIs, HeadUnit
<1>2. BufferOK
  BY DEF TypeOK, BufferOK
<1>3. Filled(g, i, b - 1, buf, l)
  <2>1. b - 1 = -p
    BY <1>1
  <2> QED BY <2>1
<1>4. Room(g, i) + Covered(i, sent[i], b) <= RecvMax
  OBVIOUS
<1> HIDE DEF b, p
<1>5. LET new == fillFrameBuff(l, Packet(i, sent[i], b).cells)
      IN  Filled(g, i, b, new.buf, new.len)
  BY <1>1, <1>2, <1>3, <1>4, FillsOn
<1> QED BY <1>1, <1>5 DEF b, p

(* Less of a unit needs less room. *)
LEMMA CoveredUp ==
  ASSUME Sendable, NEW i \in DOMAIN sent, NEW b \in 1..Nb(i)
  PROVE  /\ Covered(i, sent[i], b - 1) \in Nat /\ Covered(i, sent[i], b) \in Nat
         /\ Covered(i, sent[i], b - 1) < Covered(i, sent[i], b)
         /\ Covered(i, sent[i], b) <= Len(h264PsMux(i, sent[i]))
         /\ Covered(i, sent[i], b) <= Covered(i, sent[i], b - 1) + Block
<1>1. i \in Nat /\ sent[i] \in Nal /\ sent[i].type # "other"
  BY NbIs
<1>2. b \in 1..NumBlocks(i, sent[i])
  BY DEF Nb
<1> DEFINE c == Covered(i, sent[i], b - 1)
           d == Covered(i, sent[i], b)
           n == Len(Packet(i, sent[i], b).cells)
<1>3. c \in Nat /\ d \in Nat /\ c < d /\ d <= Len(h264PsMux(i, sent[i])) /\ n = d - c /\ n \in 1..Block
  BY <1>1, <1>2, BlockIs
<1>4. Block \in Nat
  BY Constants
<1> HIDE DEF c, d, n
<1>5. d <= c + Block
  BY <1>3, <1>4
<1> QED BY <1>3, <1>5 DEF c, d

(* Units before the one that arrives have arrived, those behind it have not. *)
LEMMA HeadSplits ==
  ASSUME TypeOK, Sendable, hurt = {}, net # << >>, NEW pos, NetInv(pos), NEW i \in DOMAIN sent, net[1].nal = i
  PROVE  /\ pos[i] \in Int /\ pos[i] <= 0 /\ pos[i] + Nb(i) >= 1 /\ Nb(i) \in Nat
         /\ \A k \in 1..Len(sent) :
              /\ pos[k] \in Int /\ Nb(k) \in Nat /\ Nb(k) > 0
              /\ k < i => pos[k] + Nb(k) <= pos[i] /\ pos[k] < 0
              /\ k > i => pos[k] >= 1
<1> DEFINE p == pos[i]
           n == Nb(i)
<1>1. Unhurt = 1..Len(sent) /\ \A k \in 1..Len(sent) : k \in UnhurtOrNext
  <2>1. Len(sent) \in Nat /\ DOMAIN sent = 1..Len(sent)
    BY NetIs
  <2> QED BY <2>1 DEF Unhurt, UnhurtOrNext
<1>2. i \in Unhurt /\ i \in 1..Len(sent) /\ i \in Nat
  BY <1>1, NbIs
<1>3. p \in Int /\ n \in Nat /\ 1 - p \in 1..n
  BY <1>2, PosIs, HeadUnit
<1>4. p <= 0 /\ p + n >= 1
  <2> HIDE DEF p, n
  <2> QED BY <1>3
<1>5. ASSUME NEW k \in 1..Len(sent)
      PROVE  /\ pos[k] \in Int /\ Nb(k) \in Nat /\ Nb(k) > 0
             /\ k < i => pos[k] + Nb(k) <= pos[i] /\ pos[k] < 0
             /\ k > i => pos[k] >= 1
  <2> DEFINE a == pos[k]
             b == Nb(k)
  <2>1. k \in Nat /\ a \in Int /\ b \in Nat /\ b > 0 /\ (k < i => a + b <= p)
    BY <1>1, <1>2, PosIs
  <2>2. i < k => p + n <= a
    BY <1>1, <1>2, PosIs
  <2> HIDE DEF a, b, p, n
  <2>3. /\ k < i => a + b <= p /\ a < 0
        /\ k > i => a >= 1
    BY <1>2, <1>3, <1>4, <2>1, <2>2
  <2> QED BY <2>1, <2>3 DEF a, b, p
<1> QED BY <1>3, <1>4, <1>5 DEF p, n

(* The current frame goes on, or the next one begins. *)
LEMMA WholeReceive ==
  ASSUME TypeOK, Sendable, hurt = {}, StartFrame \/ JoinPacket, faults = 0, Fit,
         NEW pos, NetInv(pos), WholeInv(pos), NEW q, q = [i \in 1..(Len(sent) + 1) |-> pos[i] - 1]
  PROVE  WholeInv(q)'
<1> DEFINE start == StartsFrame(Head(net)) /\ len > 0
           new == fillFrameBuff(IF start THEN 0 ELSE len, net[1].cells)
<1>1. /\ net # << >> /\ net' = Tail(net) /\ sent' = sent
      /\ buf' = new.buf /\ len' = new.len
      /\ out' = IF start /\ cutPsHeader # << >> THEN Append(out, cutPsHeader) ELSE out
  BY ReceiveIs
<1>2. NothingYet(pos) /\ \E cur : Current(pos, cur) /\ Kept(pos, cur) /\ Given(cur)
  BY DEF WholeInv
<1>3. PICK cur : Current(pos, cur) /\ Kept(pos, cur) /\ Given(cur)
  BY <1>2
<1>4. PICK i \in DOMAIN sent : net[1].nal = i
  BY <1>1, HeadIs
<1> DEFINE p == pos[i]
           b == 1 - p
<1>5. /\ i \in Unhurt /\ cur <= i /\ cur \in Nat /\ 1 <= cur
      /\ p = 0 /\ i # 1 => cur < i /\ Follows(cur, i)
      /\ cur = i => p < 0 \/ i = 1
      /\ Room(cur, i) + Covered(i, sent[i], -p) <= RecvMax => Filled(cur, i, -p, buf, len)
  BY <1>1, <1>2, <1>3, <1>4, BeforeHead
<1>6. /\ i \in Nat /\ i \in 1..Len(sent) /\ Len(sent) \in Nat /\ DOMAIN sent = 1..Len(sent)
      /\ \A k \in 1..Len(sent) : q[k] = pos[k] - 1
  <2>1. i \in Nat /\ i \in 1..Len(sent) /\ Len(sent) \in Nat /\ DOMAIN sent = 1..Len(sent)
    BY NbIs, NetIs
  <2>2. \A k \in 1..Len(sent) : k \in 1..(Len(sent) + 1)
    BY <2>1
  <2> QED BY <2>1, <2>2
<1>7. /\ p \in Int /\ p <= 0 /\ p + Nb(i) >= 1 /\ Nb(i) \in Nat
      /\ \A k \in 1..Len(sent) :
              /\ pos[k] \in Int /\ Nb(k) \in Nat /\ Nb(k) > 0
              /\ k < i => pos[k] + Nb(k) <= pos[i] /\ pos[k] < 0
              /\ k > i => pos[k] >= 1
  BY <1>1, <1>4, HeadSplits
<1>8. b \in 1..Nb(i) /\ (StartsFrame(Head(net)) <=> (b = 1 /\ i \in Openers))
  BY <1>1, <1>4, <1>5, HeadUnit
<1>9. /\ Begins \subseteq Nat /\ Openers \subseteq 1..Len(sent) /\ Begins = {1} \union Openers
      /\ 1 \in 1..Len(sent) /\ Begins \subseteq 1..Len(sent) /\ cur \in Begins
  <2>1. 1 \in 1..Len(sent)
    BY <1>6
  <2> QED BY <2>1, <1>3, BeginsAre DEF Begins, Current
<1>10. /\ Openers' = Openers /\ Begins' = Begins
       /\ \A g, h : /\ (Follows(g, h))' = Follows(g, h) /\ (Room(g, h))' = Room(g, h)
                    /\ (Video(g, h))' = Video(g, h) /\ (Join(Muxed, g, h))' = Join(Muxed, g, h)
       /\ \A g : (Place(g))' = Place(g) /\ (Nb(g))' = Nb(g)
  BY <1>1, SameUnits
<1>11. NothingYet(q)'
  <2>1. pos[1] \in Int /\ pos[1] <= 0
    <3>1. 1 = i \/ 1 < i
      BY <1>6
    <3> QED BY <3>1, <1>7, <1>9
  <2>2. q[1] = pos[1] - 1
    BY <1>6, <1>9
  <2>3. ~(q[1] >= 0)
    BY <2>1, <2>2
  <2> QED BY <2>3 DEF NothingYet
<1>12. ASSUME NEW c \in 1..i, Room(c, i) + Covered(i, sent[i], b) <= RecvMax => Filled(c, i, b, buf', len')
       PROVE  Kept(q, c)'
  <2> SUFFICES ASSUME NEW k \in 1..Len(sent), c <= k, q[k] < 0, q[k] + Nb(k) >= 0,
                      Room(c, k) + Covered(k, sent[k], -q[k]) <= RecvMax
               PROVE  Filled(c, k, -q[k], buf, len)'
    BY <1>1, <1>6, <1>10 DEF Kept
  <2> DEFINE a == pos[k]
             n == Nb(k)
  <2>1. a \in Int /\ n \in Nat /\ n > 0 /\ (k < i => a + n <= p /\ a < 0) /\ (k > i => a >= 1) /\ q[k] = a - 1
    BY <1>6, <1>7
  <2>2. q[k] < 0 /\ q[k] + n >= 0
    OBVIOUS
  <2>3. p \in Int /\ p <= 0
    BY <1>7
  <2> HIDE DEF a, n, p
  <2>4. ~(k < i) /\ ~(k > i)
    BY <2>1, <2>2, <2>3
  <2>5. k = i
    BY <2>4, <1>6
  <2>6. -q[k] = b
    BY <2>1, <2>3, <2>5 DEF a, p
  <2> HIDE DEF b
  <2>7. Filled(c, i, b, buf', len')
    BY <2>5, <2>6, <1>12
  <2>8. Filled(c, k, -q[k], buf', len')
    BY <2>5, <2>6, <2>7
  <2> QED BY <2>8, <1>1, <1>10 DEF Filled
<1>13. ASSUME NEW c \in 1..i, NEW l \in 0..Len(buf),
              Room(c, i) + Covered(i, sent[i], -p) <= RecvMax => Filled(c, i, -p, buf, l),
              buf' = fillFrameBuff(l, net[1].cells).buf, len' = fillFrameBuff(l, net[1].cells).len
       PROVE  Room(c, i) + Covered(i, sent[i], b) <= RecvMax => Filled(c, i, b, buf', len')
  <2> SUFFICES ASSUME Room(c, i) + Covered(i, sent[i], b) <= RecvMax
               PROVE  Filled(c, i, b, buf', len')
    OBVIOUS
  <2>1. c \in Int /\ 1 <= c /\ c <= i
    BY <1>6
  <2>2. Room(c, i) \in Nat
    BY <2>1, RoomIs
  <2>3. Covered(i, sent[i], b - 1) \in Nat /\ Covered(i, sent[i], b) \in Nat
        /\ Covered(i, sent[i], b - 1) < Covered(i, sent[i], b)
    BY <1>8, CoveredUp
  <2>4. b - 1 = -p
    BY <1>7
  <2> DEFINE x == Covered(i, sent[i], b - 1)
             y == Covered(i, sent[i], b)
             r == Room(c, i)
  <2>5. r + y <= RecvMax /\ r \in Nat /\ x \in Nat /\ y \in Nat /\ x < y /\ RecvMax \in Nat
    BY <2>2, <2>3, Constants
  <2> HIDE DEF x, y, r
  <2>6. r + x <= RecvMax
    BY <2>5
  <2>7. Room(c, i) + Covered(i, sent[i], -p) <= RecvMax
    BY <2>4, <2>6 DEF r, x
  <2>8. Filled(c, i, -p, buf, l)
    BY <2>7, <1>13
  <2> QED BY <2>1, <2>8, <1>1, <1>4, <1>5, <1>13, FillsHead
<1>14. len \in 0..Len(buf) /\ 0 \in 0..Len(buf) /\ BufferOK
  BY DEF TypeOK, BufferOK
<1>15. ASSUME b = 1, i \in Openers, i # 1
       PROVE  /\ p = 0 /\ -p = 0 /\ cur < i /\ Follows(cur, i) /\ Room(cur, i) = len /\ len > 0
              /\ cutPsHeader = Video(cur, i) /\ Video(cur, i) # << >>
  <2>1. p = 0 /\ -p = 0
    BY <1>15, <1>7
  <2>2. cur < i /\ Follows(cur, i)
    BY <2>1, <1>5, <1>15
  <2>3. i \in Begins /\ Room(cur, i) <= RecvMax
    BY <2>2, <1>9, <1>15 DEF Fit
  <2>4. /\ cur \in Int /\ i \in Int /\ i <= Len(sent) + 1 /\ cur <= i /\ i <= Len(sent)
    BY <1>5, <1>6
  <2>5. Video(cur, i) # << >> /\ Room(cur, i) \in Nat /\ Room(cur, i) > 0
    BY <2>2, <2>4, <1>5, FrameFull
  <2>6. Covered(i, sent[i], 0) = 0
    BY <2>4, <1>5, RoomIs
  <2>7. Filled(cur, i, 0, buf, len)
    <3>1. Room(cur, i) + 0 <= RecvMax
      BY <2>3, <2>5
    <3>2. Room(cur, i) + Covered(i, sent[i], -p) <= RecvMax
      BY <3>1, <2>1, <2>6
    <3> QED BY <3>2, <2>1, <1>5
  <2>8. Room(cur, i) = len /\ Holds(0, Join(Muxed, cur, i))
    BY <2>4, <2>7, <1>5, <1>14, FilledHolds
  <2>9. cutPsHeader = Video(cur, i)
    <3>1. buf \in Seq(Cell) /\ 1 <= cur
      BY <1>5, <1>14 DEF BufferOK
    <3> QED BY <3>1, <2>4, <2>8, <1>14, Cuts
  <2> QED BY <2>1, <2>2, <2>5, <2>8, <2>9
<1>16. CASE start
  <2>1. b = 1 /\ i \in Openers /\ len > 0
    BY <1>8, <1>16
  <2>2. i # 1
    <3> SUFFICES ASSUME i = 1 PROVE FALSE
      OBVIOUS
    <3>1. p = 0
      BY <2>1, <1>7
    <3> QED BY <3>1, <2>1, <1>2 DEF NothingYet
  <2>3. /\ p = 0 /\ -p = 0 /\ cur < i /\ Follows(cur, i)
        /\ cutPsHeader = Video(cur, i) /\ Video(cur, i) # << >>
    BY <2>1, <2>2, <1>15
  <2>4. /\ out' = Append(out, Video(cur, i))
        /\ buf' = fillFrameBuff(0, net[1].cells).buf /\ len' = fillFrameBuff(0, net[1].cells).len
    BY <2>3, <1>1, <1>16
  <2>5. Current(q, i)'
    <3>1. i \in Begins
      BY <2>1, <1>9
    <3>2. q[i] < 0
      <4>1. q[i] = p - 1
        BY <1>6
      <4>2. q[i] = 0 - 1
        BY <4>1, <2>3
      <4> QED BY <4>2
    <3>3. \A h \in Begins : h > i => q[h] >= 0
      <4> TAKE h \in Begins
      <4>1. h \in 1..Len(sent)
        BY <1>9
      <4>2. q[h] = pos[h] - 1 /\ pos[h] \in Int /\ (h > i => pos[h] >= 1)
        BY <4>1, <1>6, <1>7
      <4> QED BY <4>2
    <3> QED BY <3>1, <3>2, <3>3, <1>10 DEF Current
  <2>6. Kept(q, i)'
    <3>1. Filled(i, i, 0, buf, 0)
      BY FillsFirst
    <3>2. -p = 0 /\ i \in 1..i
      <4>1. i \in Nat /\ 1 <= i /\ i <= i
        BY <2>3, <1>6
      <4> QED BY <4>1, <2>3
    <3>3. Filled(i, i, -p, buf, 0)
      BY <3>1, <3>2
    <3>4. Room(i, i) + Covered(i, sent[i], b) <= RecvMax => Filled(i, i, b, buf', len')
      <4> HIDE DEF b, p
      <4> QED BY <3>2, <3>3, <2>4, <1>13, <1>14
    <3> HIDE DEF b, p
    <3> QED BY <3>2, <3>4, <1>12
  <2>7. Given(i)'
    <3>1. /\ Len(out) = Place(cur) - 1
          /\ \A g, h \in Begins : Follows(g, h) /\ h <= cur => out[Place(g)] = Video(g, h)
      BY <1>3 DEF Given
    <3>2. i \in Begins /\ Place(i) = Place(cur) + 1 /\ Place(cur) \in Nat /\ Place(cur) > 0
      BY <2>1, <2>3, <1>9, PlaceIs
    <3>3. out \in Seq(Seq(Cell) \ {<< >>})
      BY DEF TypeOK
    <3>4. Video(cur, i) \in Seq(Cell)
      BY <2>3, <1>5, <1>6, FrameFull
    <3> DEFINE x == Video(cur, i)
               n == Len(out)
               m == Place(cur)
    <3>5. x \in Seq(Cell) \ {<< >>}
      BY <2>3, <3>4
    <3> HIDE DEF x
    <3>6. Len(out') = n + 1 /\ out'[n + 1] = x /\ \A k \in 1..n : out'[k] = out[k]
      <4>1. out' = Append(out, x)
        BY <2>4 DEF x
      <4> QED BY <4>1, <3>3, <3>5, AppendProperties
    <3>7. n = m - 1 /\ m \in Nat /\ m > 0
      BY <3>1, <3>2
    <3> HIDE DEF n, m
    <3>8. n + 1 = m /\ n \in Nat
      BY <3>7
    <3>9. Len(out') = Place(i) - 1
      BY <3>2, <3>6, <3>8 DEF m
    <3>10. ASSUME NEW g \in Begins, NEW h \in Begins, Follows(g, h), h <= i
           PROVE  out'[Place(g)] = Video(g, h)
      <4>1. g < h /\ \A j \in Begins : ~(g < j /\ j < h)
        BY <3>10 DEF Follows
      <4>2. cur < i /\ \A j \in Begins : ~(cur < j /\ j < i)
        BY <2>3 DEF Follows
      <4>3. g \in Nat /\ h \in Nat /\ cur \in Nat /\ ~(cur < h /\ h < i) /\ ~(cur < g /\ g < i) /\ ~(g < cur /\ cur < h)
        BY <4>1, <4>2, <1>9
      <4>4. CASE h <= cur
        <5>1. out[Place(g)] = Video(g, h)
          BY <4>4, <3>1, <3>10
        <5>2. Place(g) \in Nat /\ Place(g) > 0 /\ Place(h) = Place(g) + 1
          BY <3>10, PlaceIs
        <5>3. Place(h) <= m
          BY <4>4, <1>9, PlaceUp DEF m
        <5> DEFINE k == Place(g)
        <5>4. k \in Nat /\ k > 0 /\ k + 1 <= m
          BY <5>2, <5>3
        <5> HIDE DEF k
        <5>5. k \in 1..n
          BY <5>4, <3>7
        <5>6. out'[k] = out[k]
          BY <5>5, <3>6
        <5> QED BY <5>1, <5>6 DEF k
      <4>5. CASE ~(h <= cur)
        <5>1. h = i /\ g = cur
          BY <4>1, <4>2, <4>3, <4>5, <3>10, <1>6
        <5>2. Place(g) = n + 1
          BY <5>1, <3>8 DEF m
        <5> QED BY <5>1, <5>2, <3>6 DEF x
      <4> QED BY <4>4, <4>5
    <3> QED BY <3>9, <3>10, <1>10 DEF Given
  <2> QED BY <2>5, <2>6, <2>7, <1>11 DEF WholeInv
<1>17. CASE ~start
  <2>1. out' = out /\ buf' = fillFrameBuff(len, net[1].cells).buf /\ len' = fillFrameBuff(len, net[1].cells).len
    BY <1>1, <1>17
  <2>2. b = 1 /\ i \in Openers => i = 1
    <3> SUFFICES ASSUME b = 1, i \in Openers, i # 1 PROVE FALSE
      OBVIOUS
    <3>1. len > 0
      BY <1>15
    <3> QED BY <3>1, <1>8, <1>17
  <2>3. Current(q, cur)'
    <3>1. cur \in Begins /\ (cur = 1 \/ pos[cur] < 0) /\ \A h \in Begins : h > cur => pos[h] >= 0
      BY <1>3 DEF Current
    <3>2. cur = 1 \/ q[cur] < 0
      <4>1. cur \in 1..Len(sent) /\ q[cur] = pos[cur] - 1 /\ pos[cur] \in Int
        BY <1>6, <1>7, <1>9
      <4> QED BY <3>1, <4>1
    <3>3. ASSUME NEW h \in Begins, h > cur PROVE q[h] >= 0
      <4>1. h \in 1..Len(sent) /\ h # 1 /\ h \in Openers
        BY <3>3, <1>5, <1>9
      <4>2. h \in Unhurt
        BY <4>1, <1>6 DEF Unhurt
      <4>3. pos[h] \in Int /\ pos[h] >= 0 /\ q[h] = pos[h] - 1 /\ Nb(h) \in Nat /\ Nb(h) > 0
        BY <3>1, <3>3, <4>1, <1>6, <1>7
      <4>4. pos[h] # 0
        <5> SUFFICES ASSUME pos[h] = 0 PROVE FALSE
          OBVIOUS
        <5>1. pos[h] < 1 /\ 1 <= pos[h] + Nb(h)
          <6> DEFINE n == Nb(h)
          <6>1. n \in Nat /\ n > 0
            BY <4>3
          <6> HIDE DEF n
          <6>2. 0 < 1 /\ 1 <= 0 + n
            BY <6>1
          <6> QED BY <6>2 DEF n
        <5>2. net[1].nal = h
          BY <4>2, <5>1, <1>1, HeadOf
        <5>3. h = i
          BY <5>2, <1>4
        <5>4. b = 1
          BY <5>3
        <5> QED BY <4>1, <5>3, <5>4, <2>2
      <4> QED BY <4>3, <4>4
    <3> QED BY <3>1, <3>2, <3>3, <1>10 DEF Current
  <2>4. Kept(q, cur)'
    <3>1. cur \in 1..i
      BY <1>5, <1>6
    <3>2. Room(cur, i) + Covered(i, sent[i], b) <= RecvMax => Filled(cur, i, b, buf', len')
      <4> HIDE DEF b, p
      <4> QED BY <3>1, <2>1, <1>5, <1>13, <1>14
    <3> HIDE DEF b, p
    <3> QED BY <3>1, <3>2, <1>12
  <2>5. Given(cur)'
    BY <2>1, <1>3, <1>10 DEF Given
  <2> QED BY <2>3, <2>4, <2>5, <1>11 DEF WholeInv
<1> QED BY <1>16, <1>17

(* What is said of the units sent before stays true when another one is sent. *)
LEMMA OldFrames ==
  ASSUME TypeOK, Sendable, NEW nal \in Nal, inputFrameData(nal)
  PROVE  /\ Begins \subseteq Begins' /\ Begins' \subseteq Begins \union {Len(sent) + 1}
         /\ \A h \in Begins', g \in Begins' : h <= Len(sent) =>
              /\ h \in Begins /\ (g < h => g \in Begins)
              /\ (Follows(g, h))' <=> Follows(g, h)
         /\ \A h \in Begins : h <= Len(sent) \/ Begins = {1} => Place(h)' = Place(h)
<1> DEFINE n == Len(sent)
           u == n + 1
<1>1. /\ n \in Nat /\ DOMAIN sent = 1..n /\ DOMAIN sent' = 1..u /\ \A k \in 1..n : sent'[k] = sent[k]
  BY SendIs
<1> HIDE DEF n
<1>2. Openers' \subseteq Openers \union {u} /\ Openers \subseteq Openers'
  <2>1. \A k \in 1..u : k \in 1..n \/ k = u
    BY <1>1
  <2>2. \A k \in 1..n : k \in 1..u
    BY <1>1
  <2> HIDE DEF u
  <2> QED BY <1>1, <2>1, <2>2 DEF Openers
<1>3. Begins \subseteq Begins' /\ Begins' \subseteq Begins \union {u}
  BY <1>2 DEF Begins
<1>4. Begins \subseteq Nat /\ Begins \subseteq 1..u
  BY BeginsAre DEF n
<1>5. \A h \in Begins' : h <= n => h \in Begins
  <2>1. ~(u <= n)
    BY <1>1
  <2> QED BY <1>3, <2>1
<1>6. ASSUME NEW h \in Begins', NEW g \in Begins', h <= n
      PROVE  h \in Begins /\ (g < h => g \in Begins) /\ ((Follows(g, h))' <=> Follows(g, h))
  <2>1. h \in Begins /\ h \in Nat
    BY <1>4, <1>5, <1>6
  <2>2. g < h => g \in Begins
    <3>1. ~(u < h)
      BY <2>1, <1>1, <1>6
    <3> QED BY <3>1, <1>3
  <2>3. \A i \in Begins' : g < i /\ i < h => i \in Begins
    <3>1. ~(u < h)
      BY <2>1, <1>1, <1>6
    <3> QED BY <3>1, <1>3
  <2>4. (Follows(g, h))' <=> (g < h /\ \A i \in Begins' : ~(g < i /\ i < h))
    BY DEF Follows
  <2>5. Follows(g, h) <=> (g < h /\ \A i \in Begins : ~(g < i /\ i < h))
    BY DEF Follows
  <2>6. (\A i \in Begins' : ~(g < i /\ i < h)) <=> (\A i \in Begins : ~(g < i /\ i < h))
    BY <2>3, <1>3
  <2> QED BY <2>1, <2>2, <2>4, <2>5, <2>6
<1>7. ASSUME NEW h \in Begins, h <= n \/ Begins = {1} PROVE Place(h)' = Place(h)
  <2>1. {i \in Begins' : i <= h} = {i \in Begins : i <= h}
    <3>1. ASSUME NEW i \in Begins', i <= h PROVE i \in Begins
      <4>1. CASE h <= n
        <5>1. ~(u <= h)
          BY <4>1, <1>1, <1>4
        <5> QED BY <5>1, <3>1, <1>3
      <4>2. CASE Begins = {1}
        <5>1. i \in Nat /\ h = 1 /\ 1 \in Begins
          BY <4>2, <1>1, <1>3, <1>4
        <5>2. i = u => i = 1
          BY <5>1, <3>1, <1>1
        <5> QED BY <5>1, <5>2, <1>3
      <4> QED BY <4>1, <4>2, <1>7
    <3> QED BY <3>1, <1>3
  <2> QED BY <2>1 DEF Place
<1> QED BY <1>3, <1>6, <1>7 DEF n

(* A unit that is sent changes nothing in what the receiver has. *)
LEMMA WholeSend ==
  ASSUME TypeOK, Sendable, hurt = {}, NEW nal \in Nal, inputFrameData(nal), faults = 0, Fit',
         NEW pos, NetInv(pos), WholeInv(pos),
         NEW q, q = [i \in 1..(Len(sent) + 2) |-> IF i <= Len(sent) + 1 THEN pos[i] ELSE Len(net')]
  PROVE  WholeInv(q)'
<1> DEFINE n == Len(sent)
           u == n + 1
<1>1. /\ n \in Nat /\ DOMAIN sent = 1..n /\ Len(sent') = u /\ DOMAIN sent' = 1..u
      /\ \A k \in 1..n : sent'[k] = sent[k]
  BY SendIs
<1>2. /\ Begins \subseteq Begins' /\ Begins' \subseteq Begins \union {u}
      /\ \A h \in Begins', g \in Begins' : h <= n =>
              /\ h \in Begins /\ (g < h => g \in Begins)
              /\ (Follows(g, h))' <=> Follows(g, h)
      /\ \A h \in Begins : h <= n \/ Begins = {1} => Place(h)' = Place(h)
  BY OldFrames
<1>3. UNCHANGED <<faults, buf, len, out>>
  BY DEF inputFrameData
<1>4. Begins \subseteq Nat /\ Openers \subseteq 1..n /\ Begins = {1} \union Openers /\ 1 \in Begins
  BY BeginsAre DEF Begins
<1>5. ASSUME NEW g \in Nat, NEW h \in Nat, 1 <= g, g <= h, h <= n + 1
      PROVE  Room(g, h)' = Room(g, h) /\ Video(g, h)' = Video(g, h) /\ Join(Muxed, g, h)' = Join(Muxed, g, h)
  BY <1>5, OldUnits
<1>6. /\ pos \in [1..u -> Int] /\ \A k \in 1..u : q[k] = pos[k]
      /\ pos[u] = Len(net) /\ Len(net) \in Nat
  <2>1. pos \in [1..u -> Int] /\ pos[u] = Len(net) /\ Len(net) \in Nat
    BY NetIs DEF NetInv, PosOK
  <2>2. \A k \in 1..u : k \in 1..(Len(sent) + 2) /\ k <= Len(sent) + 1
    BY <1>1
  <2> QED BY <2>1, <2>2
<1> HIDE DEF n
<1>7. Fit
  <2> SUFFICES ASSUME NEW g \in Begins, NEW h \in Begins, Follows(g, h)
               PROVE  Room(g, h) <= RecvMax
    BY DEF Fit
  <2>1. g < h /\ g \in Nat /\ h \in Nat
    BY <1>4 DEF Follows
  <2>2. h # 1 /\ 1 <= g /\ h \in 1..n
    <3>1. 1 <= g
      BY <1>4, <2>1
    <3>2. h # 1
      BY <3>1, <2>1
    <3> QED BY <3>1, <3>2, <1>4
  <2>3. g \in Begins' /\ h \in Begins' /\ h <= n /\ g <= h /\ h <= n + 1
    BY <1>1, <1>2, <2>1, <2>2
  <2>4. (Follows(g, h))' /\ Room(g, h)' = Room(g, h)
    BY <1>2, <1>5, <2>1, <2>2, <2>3
  <2>5. Room(g, h)' <= RecvMax
    BY <2>3, <2>4 DEF Fit
  <2> QED BY <2>4, <2>5
<1>8. PICK cur : NothingYet(pos) /\ Current(pos, cur) /\ Kept(pos, cur) /\ Given(cur)
  BY <1>7 DEF WholeInv
<1>9. NothingYet(q)'
  <2>1. q[1] = pos[1]
    BY <1>1, <1>6
  <2> QED BY <2>1, <1>3, <1>8 DEF NothingYet
<1>10. /\ cur \in Begins /\ (cur = 1 \/ pos[cur] < 0) /\ \A h \in Begins : h > cur => pos[h] >= 0
       /\ cur \in Nat /\ 1 <= cur
  <2>1. cur \in Begins /\ (cur = 1 \/ pos[cur] < 0) /\ \A h \in Begins : h > cur => pos[h] >= 0
    BY <1>8 DEF Current
  <2>2. cur \in Nat /\ 1 <= cur
    BY <2>1, <1>1, <1>4
  <2> QED BY <2>1, <2>2
<1>11. (cur <= n \/ (n = 0 /\ cur = 1 /\ Begins = {1})) /\ cur \in 1..u
  <2>1. CASE n = 0
    <3>1. Openers = {}
      BY <2>1, <1>4
    <3> QED BY <2>1, <3>1, <1>4, <1>10
  <2>2. CASE n # 0
    <3>1. cur \in 1..n
      BY <2>2, <1>1, <1>4, <1>10
    <3> QED BY <3>1, <1>1
  <2> QED BY <2>1, <2>2
<1>12. Current(q, cur)'
  <2>1. cur \in Begins' /\ (cur = 1 \/ q[cur] < 0)
    BY <1>2, <1>6, <1>10, <1>11
  <2>2. ASSUME NEW h \in Begins', h > cur PROVE q[h] >= 0
    <3>1. CASE h = u
      <4>1. q[u] = Len(net)
        BY <1>1, <1>6
      <4> QED BY <3>1, <4>1, <1>6
    <3>2. CASE h # u
      <4>1. h \in Begins /\ h \in 1..u
        BY <3>2, <1>1, <1>2, <1>4
      <4> QED BY <4>1, <2>2, <1>6, <1>10
    <3> QED BY <3>1, <3>2
  <2> QED BY <2>1, <2>2 DEF Current
<1>13. Kept(q, cur)'
  <2> SUFFICES ASSUME NEW i \in 1..u, cur <= i, q[i] < 0, q[i] + NumBlocks(i, sent'[i]) >= 0,
                      Room(cur, i)' + Covered(i, sent'[i], -q[i]) <= RecvMax
               PROVE  Filled(cur, i, -q[i], buf, len)'
    BY <1>1 DEF Kept, Nb
  <2>1. q[i] = pos[i]
    BY <1>6
  <2>2. i # u
    <3> SUFFICES ASSUME i = u PROVE FALSE
      OBVIOUS
    <3>1. q[i] = Len(net)
      BY <2>1, <1>6
    <3> QED BY <3>1, <1>6
  <2>3. i \in 1..n /\ i \in Nat /\ i + 1 \in Nat /\ i <= n + 1 /\ i + 1 <= n + 1 /\ cur <= i + 1
    BY <2>2, <1>1, <1>10
  <2>4. /\ sent'[i] = sent[i] /\ Room(cur, i)' = Room(cur, i)
        /\ Join(Muxed, cur, i + 1)' = Join(Muxed, cur, i + 1)
    BY <2>3, <1>1, <1>5, <1>10
  <2>5. Filled(cur, i, -pos[i], buf, len)
    <3>1. pos[i] + Nb(i) >= 0 /\ Room(cur, i) + Covered(i, sent[i], -pos[i]) <= RecvMax /\ pos[i] < 0
      BY <2>1, <2>4 DEF Nb
    <3> QED BY <3>1, <2>3, <1>1, <1>8 DEF Kept
  <2>6. Filled(cur, i, -q[i], buf, len)
    BY <2>1, <2>5
  <2> QED BY <2>4, <2>6, <1>3 DEF Filled
<1>14. Given(cur)'
  <2>1. Place(cur)' = Place(cur)
    BY <1>2, <1>10, <1>11
  <2>2. Len(out) = Place(cur) - 1 /\ \A g, h \in Begins : Follows(g, h) /\ h <= cur => out[Place(g)] = Video(g, h)
    BY <1>8 DEF Given
  <2>3. ASSUME NEW g \in Begins', NEW h \in Begins', (Follows(g, h))', h <= cur
        PROVE  out'[Place(g)'] = Video(g, h)'
    <3>1. g < h /\ g \in Nat /\ h \in Nat /\ 1 <= g
      <4>1. g < h
        BY <2>3 DEF Follows
      <4>2. g \in Nat /\ h \in Nat
        BY <1>1, <1>2, <1>4
      <4>3. g \in 1..u
        BY <1>1, <1>2, <1>4
      <4> QED BY <4>1, <4>2, <4>3
    <3>2. cur <= n
      <4> SUFFICES ASSUME cur = 1 PROVE FALSE
        BY <1>11
      <4> QED BY <3>1, <2>3
    <3>3. h <= n /\ g <= n /\ g <= h /\ h <= n + 1
      BY <3>1, <3>2, <2>3, <1>1, <1>10
    <3>4. h \in Begins /\ g \in Begins /\ Follows(g, h)
      BY <3>1, <3>3, <2>3, <1>2
    <3>5. out[Place(g)] = Video(g, h)
      BY <3>4, <2>2, <2>3
    <3>6. Place(g)' = Place(g) /\ Video(g, h)' = Video(g, h)
      BY <3>1, <3>3, <3>4, <1>2, <1>5
    <3> QED BY <3>5, <3>6, <1>3
  <2> QED BY <2>1, <2>2, <2>3, <1>3 DEF Given
<1> QED BY <1>9, <1>12, <1>13, <1>14 DEF WholeInv

(* The inductive invariant of a network without faults *)
WholeIInv ==
  /\ TypeOK /\ Sendable
  /\ faults = 0 => hurt = {} /\ \E pos : NetInv(pos) /\ WholeInv(pos)

(* A step that changes nothing *)
LEMMA SameNet ==
  ASSUME sent' = sent, net' = net, hurt' = hurt, NEW pos, NetInv(pos)
  PROVE  NetInv(pos)'
<1>1. \A g : (Nb(g))' = Nb(g)
  BY SameUnits
<1>2. Unhurt' = Unhurt /\ UnhurtOrNext' = UnhurtOrNext
  BY DEF Unhurt, UnhurtOrNext
<1>3. PosOK(pos)'
  BY DEF NetInv, PosOK
<1>4. InPlace(pos)'
  BY <1>1, <1>2 DEF NetInv, InPlace
<1>5. InOrder(pos)'
  BY <1>1, <1>2 DEF NetInv, InOrder
<1>6. AreBlocks'
  BY <1>1 DEF NetInv, AreBlocks
<1> QED BY <1>3, <1>4, <1>5, <1>6 DEF NetInv

(* The same for what the receiver has *)
LEMMA SameWhole ==
  ASSUME sent' = sent, faults' = faults, buf' = buf, len' = len, out' = out,
         NEW pos, WholeInv(pos)
  PROVE  WholeInv(pos)'
<1>1. /\ Openers' = Openers /\ Begins' = Begins
      /\ \A g, h : /\ (Follows(g, h))' = Follows(g, h) /\ (Room(g, h))' = Room(g, h)
                   /\ (Video(g, h))' = Video(g, h) /\ (Join(Muxed, g, h))' = Join(Muxed, g, h)
      /\ \A g : (Place(g))' = Place(g) /\ (Nb(g))' = Nb(g)
  BY SameUnits
<1>2. Fit' <=> Fit
  BY <1>1 DEF Fit
<1>3. NothingYet(pos)' <=> NothingYet(pos)
  BY DEF NothingYet
<1>4. ASSUME NEW cur, Current(pos, cur), Kept(pos, cur), Given(cur)
      PROVE  (Current(pos, cur) /\ Kept(pos, cur) /\ Given(cur))'
  <2>1. Current(pos, cur)'
    BY <1>1, <1>4 DEF Current
  <2>2. \A g, i, b : Filled(g, i, b, buf, len)' <=> Filled(g, i, b, buf, len)
    BY <1>1 DEF Filled
  <2>3. Kept(pos, cur)'
    BY <1>1, <1>4, <2>2 DEF Kept
  <2>4. Given(cur)'
    BY <1>1, <1>4 DEF Given
  <2> QED BY <2>1, <2>3, <2>4
<1> QED BY <1>2, <1>3, <1>4 DEF WholeInv

(* At the start nothing is on the wire. *)
LEMMA WholeInit == Init => WholeIInv
<1> SUFFICES ASSUME Init PROVE WholeIInv
  OBVIOUS
<1>1. sent = << >> /\ net = << >> /\ out = << >> /\ hurt = {} /\ buf = << >> /\ len = 0
  BY DEF Init
<1>2. TypeOK
  BY TypeInit
<1>3. Len(sent) = 0 /\ DOMAIN sent = {} /\ Len(net) = 0 /\ Len(out) = 0
  BY <1>1
<1>4. Sendable
  BY <1>2, <1>3 DEF Sendable, TypeOK
<1> DEFINE pos == [i \in 1..(Len(sent) + 1) |-> 0]
<1>5. pos[1] = 0 /\ pos \in [1..(Len(sent) + 1) -> Int] /\ Len(sent) + 1 = 1
  BY <1>3
<1> HIDE DEF pos
<1>6. NetInv(pos)
  <2>1. PosOK(pos)
    BY <1>3, <1>5 DEF PosOK
  <2>2. Unhurt = {} /\ 1..Len(net) = {}
    BY <1>3 DEF Unhurt
  <2> QED BY <2>1, <2>2 DEF NetInv, InPlace, InOrder, AreBlocks
<1>7. Openers = {} /\ Begins = {1}
  BY <1>3 DEF Openers, Begins
<1>8. Place(1) = 1
  <2>1. {i \in Begins : i <= 1} = {1}
    BY <1>7
  <2>2. Cardinality({1}) = 1
    BY FS_Singleton
  <2> QED BY <2>1, <2>2 DEF Place
<1>9. Current(pos, 1) /\ Kept(pos, 1) /\ NothingYet(pos)
  BY <1>1, <1>3, <1>7 DEF Current, Kept, NothingYet
<1>10. Given(1)
  <2>1. \A g, h \in Begins : ~Follows(g, h)
    BY <1>7 DEF Follows
  <2> QED BY <2>1, <1>3, <1>8 DEF Given
<1>11. WholeInv(pos)
  BY <1>9, <1>10 DEF WholeInv
<1> QED BY <1>1, <1>2, <1>4, <1>6, <1>11 DEF WholeIInv

(* Every step keeps the invariant; a fault ends what it says. *)
LEMMA WholeStep == WholeIInv /\ [Next]_vars => WholeIInv'
<1> SUFFICES ASSUME WholeIInv, [Next]_vars PROVE WholeIInv'
  OBVIOUS
<1>1. TypeOK /\ Sendable /\ (faults = 0 => hurt = {} /\ \E pos : NetInv(pos) /\ WholeInv(pos))
  BY DEF WholeIInv
<1>2. ASSUME NEW nal \in Nal, inputFrameData(nal) PROVE WholeIInv'
  <2>1. TypeOK'
    BY <1>1, <1>2, TypeSend
  <2>2. faults' = faults /\ hurt' = hurt
    BY <1>2 DEF inputFrameData
  <2>3. ASSUME NEW pos, NetInv(pos)
        PROVE  \E q : NetInv(q)' /\ (hurt = {} /\ faults = 0 /\ WholeInv(pos) => WholeInv(q)')
    <3>1. PICK q : q = [i \in 1..(Len(sent) + 2) |-> IF i <= Len(sent) + 1 THEN pos[i] ELSE Len(net')]
      OBVIOUS
    <3>2. NetInv(q)'
      BY <1>1, <1>2, <2>3, <3>1, NetSend
    <3>3. ASSUME hurt = {}, faults = 0, WholeInv(pos), Fit' PROVE WholeInv(q)'
      BY <1>1, <1>2, <2>3, <3>1, <3>3, WholeSend
    <3>4. ~Fit' => WholeInv(q)'
      BY DEF WholeInv
    <3> QED BY <3>2, <3>3, <3>4
  <2>4. Sendable'
    BY <1>1, <1>2, SendableSend
  <2>5. ASSUME faults' = 0 PROVE hurt' = {} /\ \E q : (NetInv(q) /\ WholeInv(q))'
    BY <1>1, <2>2, <2>3, <2>5
  <2> QED BY <2>1, <2>4, <2>5 DEF WholeIInv
<1>3. CASE Disturb
  <2>1. TypeOK' /\ sent' = sent /\ faults' = faults + 1
    BY <1>1, <1>3, TypeDisturb, DisturbIs
  <2>2. faults' # 0
    <3>1. faults \in 0..MaxFaults /\ MaxFaults \in Nat
      BY <1>1, Constants DEF TypeOK
    <3> QED BY <2>1, <3>1
  <2>3. Sendable'
    BY <1>1, <2>1 DEF Sendable
  <2> QED BY <2>1, <2>2, <2>3 DEF WholeIInv
<1>4. CASE StartFrame \/ JoinPacket
  <2>1. TypeOK'
    BY <1>1, <1>4, TypeReceive
  <2>2. net # << >> /\ net' = Tail(net) /\ UNCHANGED <<sent, faults, hurt>>
    BY <1>1, <1>4, ReceiveIs
  <2>3. Sendable'
    BY <1>1, <2>2 DEF Sendable
  <2>4. ASSUME NEW pos, NetInv(pos), hurt = {}, faults = 0, WholeInv(pos)
        PROVE  \E q : (NetInv(q) /\ WholeInv(q))'
    <3>1. PICK q : q = [i \in 1..(Len(sent) + 1) |-> pos[i] - 1]
      OBVIOUS
    <3>2. NetInv(q)'
      BY <1>1, <2>2, <2>4, <3>1, NetReceive
    <3>3. CASE Fit
      <4>1. WholeInv(q)'
        BY <1>1, <1>4, <2>4, <3>1, <3>3, WholeReceive
      <4> QED BY <3>2, <4>1
    <3>4. CASE ~Fit
      <4>1. Fit' <=> Fit
        <5>1. /\ Begins' = Begins
              /\ \A g, h : (Follows(g, h))' = Follows(g, h) /\ (Room(g, h))' = Room(g, h)
          BY <2>2, SameUnits
        <5> QED BY <5>1 DEF Fit
      <4>2. WholeInv(q)'
        BY <3>4, <4>1 DEF WholeInv
      <4> QED BY <3>2, <4>2
    <3> QED BY <3>3, <3>4
  <2>5. ASSUME faults' = 0 PROVE hurt' = {} /\ \E q : (NetInv(q) /\ WholeInv(q))'
    BY <1>1, <2>2, <2>4, <2>5
  <2> QED BY <2>1, <2>3, <2>5 DEF WholeIInv
<1>5. CASE UNCHANGED vars
  <2>1. /\ sent' = sent /\ net' = net /\ faults' = faults /\ hurt' = hurt /\ buf' = buf
        /\ len' = len /\ out' = out
    BY <1>5 DEF vars
  <2>2. TypeOK' /\ Sendable'
    BY <1>1, <2>1 DEF TypeOK, Sendable
  <2>3. ASSUME NEW pos, NetInv(pos), WholeInv(pos) PROVE (NetInv(pos) /\ WholeInv(pos))'
    BY <2>1, <2>3, SameNet, SameWhole
  <2> QED BY <1>1, <2>1, <2>2, <2>3 DEF WholeIInv
<1> QED BY <1>2, <1>3, <1>4, <1>5 DEF Next

(* When nothing is on its way, everything but the open frame was delivered. *)
LEMMA WholeImplies == WholeIInv => FramesArriveWhole
<1> SUFFICES ASSUME WholeIInv, faults = 0, net = << >>,
                    \A g, h \in Begins : Follows(g, h) => Room(g, h) <= RecvMax
             PROVE  /\ Len(out) = Cardinality(Begins) - 1
                    /\ \A g, h \in Begins : Follows(g, h) => out[Place(g)] = Video(g, h)
  BY DEF FramesArriveWhole
<1>1. TypeOK /\ Sendable /\ hurt = {}
  BY DEF WholeIInv
<1>2. PICK pos : NetInv(pos) /\ WholeInv(pos)
  BY DEF WholeIInv
<1>3. PICK cur : Current(pos, cur) /\ Given(cur)
  BY <1>2 DEF WholeInv, Fit
<1>4. Len(sent) \in Nat /\ DOMAIN sent = 1..Len(sent) /\ Begins \subseteq Nat /\ cur \in Begins
      /\ 1 \in Begins /\ \A h \in Begins : 1 <= h /\ (h # 1 => h \in 1..Len(sent))
  BY <1>1, <1>3, NetIs, BeginsAre DEF Current
<1>5. ASSUME NEW h \in Begins PROVE h <= cur
  <2> SUFFICES ASSUME cur < h PROVE FALSE
    BY <1>4
  <2>1. h \in 1..Len(sent) /\ pos[h] >= 0
    BY <1>3, <1>4 DEF Current
  <2> DEFINE u == Len(sent) + 1
             a == pos[h]
             b == Nb(h)
  <2>2. h \in Unhurt /\ u \in UnhurtOrNext /\ h < u
    BY <2>1, <1>1, <1>4 DEF Unhurt, UnhurtOrNext
  <2>3. pos[u] = 0
    BY <1>2 DEF NetInv, PosOK
  <2> HIDE DEF u
  <2>4. a + b <= pos[u] /\ a \in Int /\ b \in Nat /\ b > 0
    BY <2>2, <1>1, <1>2, PosIs
  <2>5. a >= 0
    BY <2>1
  <2> HIDE DEF a, b
  <2> QED BY <2>3, <2>4, <2>5
<1>6. Place(cur) = Cardinality(Begins)
  <2>1. {i \in Begins : i <= cur} = Begins
    BY <1>5
  <2> QED BY <2>1 DEF Place
<1> QED BY <1>3, <1>5, <1>6 DEF Given

(* On a network without faults the application at the far end gets the frames
   that were pushed, all but the open one, each with the data of all its units in
   their order, whatever blocks and PES packets they went in. *)
THEOREM WholeFrames == Spec => []FramesArriveWhole
<1>1. Spec => []WholeIInv
  BY WholeInit, WholeStep, PTL DEF Spec
<1> QED BY <1>1, WholeImplies, PTL

-----------------------------------------------------------------------------
(* On a network with faults.  A fault at packet k makes d packets more of it;
   what is behind it moves. *)
Shift(k, d, p) == IF p >= k THEN p + d ELSE p

(* The fault does not touch packet i. *)
Spared(k, d, i) == i # k /\ (d = 0 => i # k - 1)

(* What all faults have in common *)
Moved(k, d) ==
  /\ k \in 1..Len(net) /\ d \in {-1, 0, 1} /\ (d = 0 => k > 1) /\ Len(net') = Len(net) + d
  /\ hurt \subseteq hurt' /\ \A i \in 1..Len(net) : ~Spared(k, d, i) => net[i].nal \in hurt'
  /\ \A j \in 1..Len(net') : \E i \in 1..Len(net) :
       /\ net'[j] = net[i]
       /\ Spared(k, d, i) => j = Shift(k, d, i)
       /\ \A p \in Int : (d # 0 \/ p # k - 1) => (j <= Shift(k, d, p) <=> i <= p)

(* A packet that is lost *)
LEMMA LostMoves ==
  ASSUME Len(net) \in Nat, NEW k \in 1..Len(net), LostAt(k)
  PROVE  Moved(k, -1)
<1> DEFINE n == Len(net)
<1>1. /\ Len(net') = n - 1 /\ hurt' = hurt \union {net[k].nal}
      /\ \A j \in 1..(n - 1) : net'[j] = IF j < k THEN net[j] ELSE net[j + 1]
  BY DEF LostAt
<1>2. n \in Nat /\ k \in 1..n /\ -1 \in {-1, 0, 1} /\ n + (-1) = n - 1 /\ -1 # 0
  OBVIOUS
<1> HIDE DEF n
<1>3. ASSUME NEW i \in 1..n, ~Spared(k, -1, i) PROVE net[i].nal \in hurt'
  BY <1>1, <1>2, <1>3 DEF Spared
<1>4. ASSUME NEW j \in 1..(n - 1)
      PROVE  \E i \in 1..n :
               /\ net'[j] = net[i]
               /\ Spared(k, -1, i) => j = Shift(k, -1, i)
               /\ \A p \in Int : j <= Shift(k, -1, p) <=> i <= p
  <2> DEFINE i == IF j < k THEN j ELSE j + 1
  <2>1. i \in 1..n /\ net'[j] = net[i]
    BY <1>1, <1>2
  <2>2. j = Shift(k, -1, i)
    BY <1>2 DEF Shift
  <2>3. \A p \in Int : j <= Shift(k, -1, p) <=> i <= p
    BY <1>2 DEF Shift
  <2> HIDE DEF i
  <2> QED BY <2>1, <2>2, <2>3
<1> QED BY <1>1, <1>2, <1>3, <1>4 DEF Moved, n

(* A packet that overtakes another one *)
LEMMA SwappedMoves ==
  ASSUME Len(net) \in Nat, NEW k \in 1..Len(net), SwappedAt(k)
  PROVE  Moved(k, 0)
<1> DEFINE n == Len(net)
<1>1. /\ k > 1 /\ Len(net') = n
      /\ hurt' = hurt \union {net[k].nal, net[k - 1].nal}
      /\ net'[k] = net[k - 1] /\ net'[k - 1] = net[k]
      /\ \A j \in 1..n : j # k /\ j # k - 1 => net'[j] = net[j]
  BY DEF SwappedAt
<1>2. n \in Nat /\ k \in 1..n /\ 0 \in {-1, 0, 1} /\ n + 0 = n
  OBVIOUS
<1> HIDE DEF n
<1>3. ASSUME NEW i \in 1..n, ~Spared(k, 0, i) PROVE net[i].nal \in hurt'
  BY <1>1, <1>2, <1>3 DEF Spared
<1>4. \A p \in Int : Shift(k, 0, p) = p
  BY <1>2 DEF Shift
<1>5. ASSUME NEW j \in 1..n
      PROVE  \E i \in 1..n :
               /\ net'[j] = net[i]
               /\ Spared(k, 0, i) => j = Shift(k, 0, i)
               /\ \A p \in Int : p # k - 1 => (j <= Shift(k, 0, p) <=> i <= p)
  <2>1. CASE j = k
    <3> DEFINE i == k - 1
    <3>1. i \in 1..n /\ net'[j] = net[i] /\ ~Spared(k, 0, i)
      BY <2>1, <1>1, <1>2 DEF Spared
    <3>2. \A p \in Int : p # k - 1 => (j <= p <=> i <= p)
      BY <2>1, <1>2
    <3> HIDE DEF i
    <3> QED BY <3>1, <3>2, <1>4
  <2>2. CASE j = k - 1
    <3>1. net'[j] = net[k] /\ ~Spared(k, 0, k)
      BY <2>2, <1>1, <1>2 DEF Spared
    <3>2. \A p \in Int : p # k - 1 => (j <= p <=> k <= p)
      BY <2>2, <1>2
    <3> QED BY <3>1, <3>2, <1>2, <1>4
  <2>3. CASE j # k /\ j # k - 1
    <3>1. net'[j] = net[j] /\ j = Shift(k, 0, j)
      BY <2>3, <1>1, <1>4
    <3>2. \A p \in Int : j <= Shift(k, 0, p) <=> j <= p
      BY <1>4
    <3> QED BY <3>1, <3>2
  <2> QED BY <2>1, <2>2, <2>3
<1> QED BY <1>1, <1>2, <1>3, <1>5 DEF Moved, n

(* A packet that comes twice *)
LEMMA DoubledMoves ==
  ASSUME Len(net) \in Nat, NEW k \in 1..Len(net), DoubledAt(k)
  PROVE  Moved(k, 1)
<1> DEFINE n == Len(net)
<1>1. /\ Len(net') = n + 1 /\ hurt' = hurt \union {net[k].nal}
      /\ \A j \in 1..(n + 1) : net'[j] = IF j <= k THEN net[j] ELSE net[j - 1]
  BY DEF DoubledAt
<1>2. n \in Nat /\ k \in 1..n /\ 1 \in {-1, 0, 1} /\ 1 # 0
  OBVIOUS
<1> HIDE DEF n
<1>3. ASSUME NEW i \in 1..n, ~Spared(k, 1, i) PROVE net[i].nal \in hurt'
  BY <1>1, <1>2, <1>3 DEF Spared
<1>4. ASSUME NEW j \in 1..(n + 1)
      PROVE  \E i \in 1..n :
               /\ net'[j] = net[i]
               /\ Spared(k, 1, i) => j = Shift(k, 1, i)
               /\ \A p \in Int : j <= Shift(k, 1, p) <=> i <= p
  <2> DEFINE i == IF j <= k THEN j ELSE j - 1
  <2>1. i \in 1..n /\ net'[j] = net[i]
    BY <1>1, <1>2
  <2>2. i # k => j = Shift(k, 1, i)
    BY <1>2 DEF Shift
  <2>3. \A p \in Int : j <= Shift(k, 1, p) <=> i <= p
    BY <1>2 DEF Shift
  <2> HIDE DEF i
  <2> QED BY <2>1, <2>2, <2>3 DEF Spared
<1> QED BY <1>1, <1>2, <1>3, <1>4 DEF Moved, n

(* A unit the fault does not hurt moves as a whole. *)
LEMMA Unmoved ==
  ASSUME TypeOK, Sendable, NEW pos, NetInv(pos), NEW k, NEW d, Moved(k, d),
         NEW i \in Unhurt, i \notin hurt'
  PROVE  /\ k <= pos[i] \/ k > pos[i] + Nb(i)
         /\ d # 0 \/ (pos[i] # k - 1 /\ pos[i] + Nb(i) # k - 1)
         /\ Shift(k, d, pos[i] + Nb(i)) = Shift(k, d, pos[i]) + Nb(i)
         /\ k \in Int /\ d \in Int
<1> DEFINE p == pos[i]
           n == Nb(i)
<1>1. p \in Int /\ n \in Nat /\ n > 0
  BY PosIs
<1>2. /\ k \in 1..Len(net) /\ d \in {-1, 0, 1} /\ (d = 0 => k > 1) /\ Len(net) \in Nat
      /\ \A c \in 1..Len(net) : ~Spared(k, d, c) => net[c].nal \in hurt'
  BY NetIs DEF Moved
<1>3. \A c \in 1..Len(net) : ~Spared(k, d, c) => ~(p < c /\ c <= p + n)
  <2> TAKE c \in 1..Len(net)
  <2> SUFFICES ASSUME ~Spared(k, d, c), p < c, c <= p + n PROVE FALSE
    OBVIOUS
  <2>1. net[c].nal = i
    BY Owner
  <2> QED BY <2>1, <1>2
<1>4. ~(p < k /\ k <= p + n)
  BY <1>2, <1>3 DEF Spared
<1>5. d = 0 => ~(p < k - 1 /\ k - 1 <= p + n)
  <2> SUFFICES ASSUME d = 0 PROVE ~(p < k - 1 /\ k - 1 <= p + n)
    OBVIOUS
  <2> DEFINE c == k - 1
  <2>1. c \in 1..Len(net)
    BY <1>2
  <2>2. ~Spared(k, d, c)
    BY DEF Spared
  <2> HIDE DEF c, p, n
  <2>3. ~(p < c /\ c <= p + n)
    BY <2>1, <2>2, <1>3
  <2> QED BY <2>3 DEF c
<1> HIDE DEF p, n
<1>6. k \in Int /\ d \in Int /\ (k <= p \/ k > p + n)
  BY <1>1, <1>2, <1>4
<1>7. d # 0 \/ (p # k - 1 /\ p + n # k - 1)
  BY <1>1, <1>5, <1>6
<1>8. Shift(k, d, p + n) = Shift(k, d, p) + n
  BY <1>1, <1>6 DEF Shift
<1> QED BY <1>6, <1>7, <1>8 DEF p, n

(* The unhurt units are in place after a fault as well. *)
LEMMA NetMoved ==
  ASSUME TypeOK, Sendable, sent' = sent, NEW k, NEW d, Moved(k, d), NEW pos, NetInv(pos),
         NEW q, q = [i \in 1..(Len(sent) + 1) |-> Shift(k, d, pos[i])]
  PROVE  NetInv(q)'
<1> DEFINE n == Len(net)
<1>1. /\ k \in 1..n /\ d \in {-1, 0, 1} /\ (d = 0 => k > 1) /\ Len(net') = n + d
      /\ hurt \subseteq hurt'
      /\ \A j \in 1..Len(net') : \E i \in 1..n :
           /\ net'[j] = net[i]
           /\ Spared(k, d, i) => j = Shift(k, d, i)
           /\ \A p \in Int : (d # 0 \/ p # k - 1) => (j <= Shift(k, d, p) <=> i <= p)
  BY DEF Moved
<1>2. n \in Nat /\ Len(sent) \in Nat /\ DOMAIN sent = 1..Len(sent)
  BY NetIs
<1>3. pos \in [1..(Len(sent) + 1) -> Int] /\ pos[Len(sent) + 1] = n
  BY DEF NetInv, PosOK
<1>4. Unhurt' \subseteq Unhurt /\ UnhurtOrNext' \subseteq UnhurtOrNext
  BY <1>1 DEF Unhurt, UnhurtOrNext
<1>5. \A i : Nb(i)' = Nb(i)
  BY SameUnits
<1>6. \A i \in 1..(Len(sent) + 1) : q[i] = Shift(k, d, pos[i])
  OBVIOUS
<1>7. \A p \in Int : Shift(k, d, p) \in Int
  BY <1>1, <1>2 DEF Shift
<1> HIDE DEF n
<1>8. PosOK(q)'
  <2>1. Len(sent) + 1 \in 1..(Len(sent) + 1)
    BY <1>2
  <2>2. q[Len(sent) + 1] = Shift(k, d, n)
    BY <2>1, <1>3, <1>6
  <2>3. Shift(k, d, n) = n + d
    BY <1>1, <1>2 DEF Shift
  <2>4. q \in [1..(Len(sent) + 1) -> Int]
    BY <1>3, <1>7
  <2> QED BY <2>2, <2>3, <2>4, <1>1 DEF PosOK
<1>9. ASSUME NEW i \in Unhurt'
      PROVE  /\ i \in Unhurt /\ i \notin hurt' /\ i \in 1..(Len(sent) + 1) /\ i \in Nat
             /\ pos[i] \in Int /\ Nb(i) \in Nat /\ Nb(i) > 0 /\ q[i] = Shift(k, d, pos[i])
             /\ q[i] \in Int
             /\ d # 0 \/ (pos[i] # k - 1 /\ pos[i] + Nb(i) # k - 1)
             /\ Shift(k, d, pos[i] + Nb(i)) = q[i] + Nb(i)
             /\ k <= pos[i] \/ k > pos[i] + Nb(i)
             /\ \A c \in 1..n : pos[i] < c /\ c <= pos[i] + Nb(i) => Spared(k, d, c)
  <2>1. i \in Unhurt /\ i \notin hurt'
    BY <1>4 DEF Unhurt
  <2>2. i \in 1..Len(sent) /\ i \in Nat /\ pos[i] \in Int /\ Nb(i) \in Nat /\ Nb(i) > 0
    BY <2>1, PosIs
  <2>3. i \in 1..(Len(sent) + 1)
    BY <2>2, <1>2
  <2>4. /\ d # 0 \/ (pos[i] # k - 1 /\ pos[i] + Nb(i) # k - 1)
        /\ Shift(k, d, pos[i] + Nb(i)) = Shift(k, d, pos[i]) + Nb(i)
        /\ k <= pos[i] \/ k > pos[i] + Nb(i)
    BY <2>1, Unmoved
  <2>5. ASSUME NEW c \in 1..n, pos[i] < c, c <= pos[i] + Nb(i) PROVE Spared(k, d, c)
    <3>1. net[c].nal = i
      BY <2>1, <2>5, Owner DEF n
    <3> QED BY <2>1, <3>1 DEF Moved, n
  <2> QED BY <2>1, <2>2, <2>3, <2>4, <2>5, <1>6, <1>7
<1>10. InPlace(q)'
  <2> SUFFICES ASSUME NEW i \in Unhurt', NEW j \in 1..Len(net')
               PROVE  /\ j <= q[i] => net'[j].nal < i
                      /\ j > q[i] + Nb(i) => net'[j].nal > i
                      /\ (q[i] < j /\ j <= q[i] + Nb(i)) => net'[j] = Packet(i, sent[i], j - q[i])
    BY <1>5 DEF InPlace
  <2>1. PICK c \in 1..n :
           /\ net'[j] = net[c]
           /\ Spared(k, d, c) => j = Shift(k, d, c)
           /\ \A p \in Int : (d # 0 \/ p # k - 1) => (j <= Shift(k, d, p) <=> c <= p)
    BY <1>1
  <2> DEFINE p == pos[i]
             m == Nb(i)
  <2>2. /\ i \in Unhurt /\ p \in Int /\ m \in Nat /\ q[i] = Shift(k, d, p) /\ q[i] \in Int
        /\ d # 0 \/ (p # k - 1 /\ p + m # k - 1)
        /\ Shift(k, d, p + m) = q[i] + m
        /\ k <= p \/ k > p + m
        /\ p < c /\ c <= p + m => Spared(k, d, c)
    BY <1>9
  <2>3. /\ c <= p => net[c].nal < i
        /\ c > p + m => net[c].nal > i
        /\ (p < c /\ c <= p + m) => net[c] = Packet(i, sent[i], c - p)
    BY <2>2 DEF NetInv, InPlace, n
  <2> HIDE DEF p, m
  <2>4. p + m \in Int
    BY <2>2
  <2>5. (j <= q[i] <=> c <= p) /\ (j <= q[i] + m <=> c <= p + m)
    BY <2>1, <2>2, <2>4
  <2>6. c \in Int /\ j \in Int /\ k \in Int /\ d \in Int
    <3>1. Len(net') = n + d
      BY <1>1
    <3> QED BY <3>1, <1>1, <1>2
  <2>7. (p < c /\ c <= p + m) => j - q[i] = c - p
    <3> SUFFICES ASSUME p < c, c <= p + m PROVE j - q[i] = c - p
      OBVIOUS
    <3>1. j = Shift(k, d, c)
      BY <2>1, <2>2
    <3> QED BY <3>1, <2>2, <2>6 DEF Shift
  <2>8. /\ j > q[i] + m => c > p + m
        /\ q[i] < j /\ j <= q[i] + m => p < c /\ c <= p + m
    BY <2>2, <2>5, <2>6
  <2> QED BY <2>1, <2>3, <2>5, <2>7, <2>8 DEF m
<1>11. InOrder(q)'
  <2> SUFFICES ASSUME NEW i \in Unhurt', NEW j \in UnhurtOrNext'
               PROVE  (i < j => q[i] + Nb(i) <= q[j]) /\ (j = i + 1 => q[j] = q[i] + Nb(i))
    BY <1>5 DEF InOrder
  <2> DEFINE p == pos[i]
             m == Nb(i)
             r == pos[j]
  <2>1. p \in Int /\ m \in Nat /\ Shift(k, d, p + m) = q[i] + m /\ i \in Unhurt
    BY <1>9
  <2>2. j \in UnhurtOrNext /\ j \in 1..(Len(sent) + 1)
    BY <1>4 DEF UnhurtOrNext
  <2>3. r \in Int /\ q[j] = Shift(k, d, r)
    BY <2>2, <1>3, <1>6
  <2>4. (i < j => p + m <= r) /\ (j = i + 1 => r = p + m)
    BY <2>1, <2>2 DEF NetInv, InOrder
  <2>5. k \in Int /\ d \in {-1, 0, 1}
    BY <1>1, <1>2
  <2> HIDE DEF p, m, r
  <2>6. p + m \in Int /\ (p + m <= r => Shift(k, d, p + m) <= Shift(k, d, r))
    BY <2>1, <2>3, <2>5 DEF Shift
  <2> QED BY <2>1, <2>3, <2>4, <2>6 DEF m
<1>12. AreBlocks'
  <2> SUFFICES ASSUME NEW j \in 1..Len(net')
               PROVE  \E b \in 1..NumBlocks(net'[j].nal, sent[net'[j].nal]) :
                        net'[j] = Packet(net'[j].nal, sent[net'[j].nal], b)
    BY DEF AreBlocks, Nb
  <2>1. PICK c \in 1..n : net'[j] = net[c]
    BY <1>1
  <2>2. \E b \in 1..NumBlocks(net[c].nal, sent[net[c].nal]) : net[c] = Packet(net[c].nal, sent[net[c].nal], b)
    BY DEF NetInv, AreBlocks, n, Nb
  <2> QED BY <2>1, <2>2
<1> QED BY <1>8, <1>10, <1>11, <1>12 DEF NetInv

(* cum counts the cells on the wire, packet by packet. *)
Sums(cum) ==
  /\ cum \in [0..Len(net) -> Nat]
  /\ \A k \in 1..Len(net) : cum[k] = cum[k - 1] + Len(net[k].cells)

(* Between two unhurt units there is no more than was sent between them, and a
   block for every fault. *)
Bounded(pos, cum) ==
  \A g, j \in UnhurtOrNext :
    g < j /\ pos[g] >= 0 => cum[pos[j]] - cum[pos[g]] <= Room(g, j) + faults * Block

(* How much there is on the wire *)
LoadInv(pos, cum) == Sums(cum) /\ Bounded(pos, cum)

(* What never falls from one number to the next never falls. *)
LEMMA Rising ==
  ASSUME NEW n \in Nat, NEW f \in [0..n -> Nat], \A k \in 1..n : f[k - 1] <= f[k],
         NEW p \in 0..n, NEW q \in p..n
  PROVE  f[p] <= f[q]
<1> DEFINE m == n - p
           S == {i \in 0..m : f[p] <= f[p + i]}
<1>1. m \in Nat /\ 0 \in 0..m /\ p + 0 = p /\ f[p] \in Nat
  OBVIOUS
<1>2. 0 \in S
  BY <1>1
<1>3. \A i \in 0..(m - 1) : i \in S => i + 1 \in S
  <2> SUFFICES ASSUME NEW i \in 0..(m - 1), f[p] <= f[p + i] PROVE i + 1 \in 0..m /\ f[p] <= f[p + (i + 1)]
    OBVIOUS
  <2> DEFINE k == p + (i + 1)
  <2>1. k \in 1..n /\ k - 1 = p + i /\ k \in 0..n /\ k - 1 \in 0..n /\ i + 1 \in 0..m
    OBVIOUS
  <2> HIDE DEF k
  <2>2. f[k - 1] <= f[k] /\ f[k - 1] \in Nat /\ f[k] \in Nat
    BY <2>1
  <2>3. f[p] <= f[k - 1]
    BY <2>1
  <2>4. f[p] <= f[k]
    BY <2>2, <2>3, <1>1
  <2> QED BY <2>1, <2>4 DEF k
<1> HIDE DEF S
<1>4. 0..m \subseteq S
  <2> HIDE DEF m
  <2> QED BY <1>1, <1>2, <1>3, Induction
<1>5. q - p \in 0..m /\ p + (q - p) = q
  OBVIOUS
<1> QED BY <1>4, <1>5 DEF S

(* What counts the cells on the wire never falls. *)
LEMMA SumsRise ==
  ASSUME TypeOK, NEW cum, Sums(cum), NEW p \in 0..Len(net), NEW q \in p..Len(net)
  PROVE  cum[p] \in Nat /\ cum[q] \in Nat /\ cum[p] <= cum[q]
<1> DEFINE n == Len(net)
<1>1. n \in Nat /\ cum \in [0..n -> Nat] /\ \A k \in 1..n : cum[k] = cum[k - 1] + Len(net[k].cells)
  BY NetIs DEF Sums
<1>2. \A k \in 1..n : Len(net[k].cells) \in Nat
  BY NetIs
<1>3. p \in 0..n /\ q \in p..n
  OBVIOUS
<1> HIDE DEF n
<1>4. \A k \in 1..n : cum[k - 1] <= cum[k]
  <2> TAKE k \in 1..n
  <2> DEFINE a == Len(net[k].cells)
             b == cum[k - 1]
  <2>1. a \in Nat /\ cum[k] = b + a
    BY <1>1, <1>2
  <2>2. b \in Nat
    <3>1. k - 1 \in 0..n
      BY <1>1
    <3> QED BY <3>1, <1>1
  <2> HIDE DEF a, b
  <2>3. b <= cum[k]
    BY <2>1, <2>2
  <2> QED BY <2>3 DEF b
<1>5. cum[p] <= cum[q]
  BY <1>1, <1>3, <1>4, Rising
<1>6. p \in 0..n /\ q \in 0..n
  BY <1>1, <1>3
<1> QED BY <1>1, <1>5, <1>6

(* What is behind something that has not arrived is on the wire. *)
LEMMA InNet ==
  ASSUME TypeOK, Sendable, NEW pos, NetInv(pos), NEW j \in UnhurtOrNext, pos[j] >= 0
  PROVE  pos[j] \in 0..Len(net)
<1> DEFINE u == Len(sent) + 1
           n == Len(net)
           p == pos[j]
<1>1. n \in Nat /\ Len(sent) \in Nat /\ DOMAIN sent = 1..Len(sent) /\ pos[u] = n /\ hurt \subseteq DOMAIN sent
  BY NetIs DEF NetInv, PosOK, TypeOK
<1>2. CASE j = u
  BY <1>1, <1>2
<1>3. CASE j # u
  <2>1. j \in Unhurt /\ u \in UnhurtOrNext /\ j < u
    BY <1>1, <1>3 DEF Unhurt, UnhurtOrNext
  <2> DEFINE b == Nb(j)
  <2>2. p \in Int /\ b \in Nat /\ p + b <= pos[u]
    BY <2>1, PosIs
  <2>3. p >= 0
    OBVIOUS
  <2> HIDE DEF p, b, n
  <2>4. p \in 0..n
    BY <2>2, <2>3, <1>1
  <2> QED BY <2>4 DEF p, n
<1> QED BY <1>2, <1>3

(* A packet arrives. *)
LEMMA LoadReceive ==
  ASSUME TypeOK, Sendable, net # << >>, net' = Tail(net), UNCHANGED <<sent, faults, hurt>>,
         NEW pos, NetInv(pos), NEW cum, LoadInv(pos, cum),
         NEW q, q = [i \in 1..(Len(sent) + 1) |-> pos[i] - 1],
         NEW c, c = [p \in 0..(Len(net) - 1) |-> cum[p + 1]]
  PROVE  LoadInv(q, c)'
<1> DEFINE n == Len(net)
<1>1. /\ n \in Nat /\ n > 0 /\ Len(net') = n - 1 /\ \A k \in 1..(n - 1) : net'[k] = net[k + 1]
  BY HeadIs
<1>2. cum \in [0..n -> Nat] /\ \A k \in 1..n : cum[k] = cum[k - 1] + Len(net[k].cells)
  BY DEF LoadInv, Sums
<1>3. Sums(c)'
  <2> HIDE DEF n
  <2>1. c \in [0..(n - 1) -> Nat]
    <3>1. \A p \in 0..(n - 1) : p + 1 \in 0..n
      BY <1>1
    <3>2. c = [p \in 0..(n - 1) |-> cum[p + 1]]
      BY DEF n
    <3> QED BY <3>1, <3>2, <1>2
  <2>2. ASSUME NEW k \in 1..(n - 1) PROVE c[k] = c[k - 1] + Len(net'[k].cells)
    <3>1. k \in 0..(n - 1) /\ k - 1 \in 0..(n - 1) /\ (k - 1) + 1 = k /\ k + 1 \in 1..n /\ (k + 1) - 1 = k
      BY <1>1
    <3>2. c[k] = cum[k + 1] /\ c[k - 1] = cum[k] /\ net'[k] = net[k + 1]
      BY <3>1, <1>1 DEF n
    <3>3. cum[k + 1] = cum[k] + Len(net[k + 1].cells)
      BY <3>1, <1>2
    <3> QED BY <3>2, <3>3
  <2> QED BY <2>1, <2>2, <1>1 DEF Sums
<1>4. Bounded(q, c)'
  <2>1. UnhurtOrNext' = UnhurtOrNext /\ \A g, h : Room(g, h)' = Room(g, h)
    BY SameUnits DEF UnhurtOrNext
  <2> SUFFICES ASSUME NEW g \in UnhurtOrNext, NEW j \in UnhurtOrNext, g < j, q[g] >= 0
               PROVE  c[q[j]] - c[q[g]] <= Room(g, j) + faults * Block
    BY <2>1 DEF Bounded
  <2>2. pos \in [1..(Len(sent) + 1) -> Int] /\ g \in 1..(Len(sent) + 1) /\ j \in 1..(Len(sent) + 1)
        /\ Len(sent) \in Nat /\ DOMAIN sent = 1..Len(sent)
    BY NetIs DEF NetInv, PosOK, UnhurtOrNext
  <2> DEFINE a == pos[g]
             b == pos[j]
  <2>3. a \in Int /\ b \in Int /\ q[g] = a - 1 /\ q[j] = b - 1
    BY <2>2
  <2>4. a <= b
    <3>1. g \in Unhurt
      BY <2>2 DEF Unhurt, UnhurtOrNext
    <3> DEFINE m == Nb(g)
    <3>2. m \in Nat /\ a + m <= b
      BY <3>1, PosIs
    <3> HIDE DEF a, b, m
    <3> QED BY <2>3, <3>2
  <2>5. a >= 1 /\ b >= 1
    BY <2>3, <2>4
  <2>6. a \in 0..n /\ b \in 0..n
    <3>1. a >= 0 /\ b >= 0
      BY <2>3, <2>5
    <3> QED BY <3>1, InNet
  <2>7. cum[b] - cum[a] <= Room(g, j) + faults * Block
    <3>1. pos[g] >= 0
      BY <2>3, <2>5
    <3>2. \A x, y \in UnhurtOrNext :
            x < y /\ pos[x] >= 0 => cum[pos[y]] - cum[pos[x]] <= Room(x, y) + faults * Block
      BY DEF LoadInv, Bounded
    <3> QED BY <3>1, <3>2
  <2> HIDE DEF a, b
  <2>8. a - 1 \in 0..(n - 1) /\ b - 1 \in 0..(n - 1) /\ (a - 1) + 1 = a /\ (b - 1) + 1 = b
    BY <2>3, <2>5, <2>6, <1>1
  <2>9. c[q[j]] = cum[b] /\ c[q[g]] = cum[a]
    BY <2>3, <2>8
  <2> QED BY <2>7, <2>9
<1> QED BY <1>3, <1>4 DEF LoadInv

(* How much room the unit that is sent needs *)
LEMMA NewUnit ==
  ASSUME TypeOK, Sendable, NEW nal \in Nal, inputFrameData(nal), NEW u, u = Len(sent) + 1,
         NEW g \in Int, 1 <= g, g <= u
  PROVE  /\ Room(g, u + 1)' = Room(g, u) + Len(h264PsMux(u, nal))
         /\ Room(g, u) \in Nat /\ Room(u, u) = 0
<1> DEFINE M == Muxed'
<1>1. /\ Len(sent) \in Nat /\ u \in Nat /\ nal.type # "other" /\ DOMAIN sent = 1..Len(sent)
      /\ DOMAIN sent' = 1..u /\ sent'[u] = nal /\ \A k \in 1..Len(sent) : sent'[k] = sent[k]
  BY SendIs
<1>2. AllSeqs(Muxed, g, u, Cell) /\ \A i \in g..(u - 1) : Muxed[i] \in Seq(Cell)
  <2>1. u \in Int /\ u <= Len(sent) + 1
    BY <1>1
  <2> QED BY <2>1, UnitsAre
<1>3. ASSUME NEW i \in g..(u - 1) PROVE M[i] = Muxed[i]
  <2>1. i \in 1..Len(sent) /\ i \in DOMAIN sent /\ i \in DOMAIN sent'
    BY <1>1
  <2> QED BY <2>1, <1>1 DEF Muxed
<1>4. M[u] = h264PsMux(u, nal)
  <2>1. u \in DOMAIN sent'
    BY <1>1
  <2> QED BY <2>1, <1>1 DEF Muxed
<1>5. h264PsMux(u, nal) \in Seq(Cell)
  BY <1>1, MuxIs
<1>6. \A i \in g..u : i \in g..(u - 1) \/ i = u
  BY <1>1
<1>7. /\ u + 1 \in Int /\ u \in Int /\ g <= u + 1 /\ (u + 1) - 1 = u /\ u \in g..u /\ u \in g..(u + 1) /\ u <= u
      /\ u \in g..((u + 1) - 1)
  BY <1>1
<1> HIDE DEF M
<1>8. AllSeqs(M, g, u + 1, Cell)
  <2>1. \A i \in g..u : M[i] \in Seq(Cell)
    BY <1>2, <1>3, <1>4, <1>5, <1>6
  <2> QED BY <2>1, <1>7 DEF AllSeqs
<1>9. Join(M, g, u) = Join(Muxed, g, u)
  BY <1>2, <1>3, <1>7, JoinSame
<1>10. Len(Join(M, g, u + 1)) = Len(Join(M, g, u)) + Len(M[u])
  <2>1. \A i \in g..((u + 1) - 1) :
          /\ Join(M, g, i + 1) = Join(M, g, i) \o M[i]
          /\ Len(Join(M, g, i + 1)) = Len(Join(M, g, i)) + Len(M[i])
    BY <1>7, <1>8, JoinFacts
  <2> QED BY <1>7, <2>1
<1>11. Join(Muxed, g, u) \in Seq(Cell)
  <2>1. \A i \in g..u : Join(Muxed, g, i) \in Seq(Cell)
    BY <1>2, <1>7, JoinFacts
  <2> QED BY <1>7, <2>1
<1>12. Room(g, u) \in Nat
  BY <1>11, LenProperties DEF Room
<1>13. Room(u, u) = 0
  <2>1. AllSeqs(Muxed, u, u, Cell)
    BY <1>1 DEF AllSeqs
  <2>2. Join(Muxed, u, u) = << >>
    BY <1>7, <2>1, JoinFacts
  <2> QED BY <2>2 DEF Room
<1>14. Room(g, u + 1)' = Len(Join(M, g, u + 1))
  BY DEF Room, M
<1> QED BY <1>4, <1>9, <1>10, <1>12, <1>13, <1>14 DEF Room

(* What counts the cells on the wire when nal is sent, and what it is at each packet *)
CountedOn(c, cum, nal) ==
  c = [p \in 0..Len(net') |->
         IF p <= Len(net) THEN cum[p]
         ELSE cum[Len(net)] + Covered(Len(sent) + 1, nal, p - Len(net))]

GoesOn(c, cum, nal) ==
  /\ \A p \in 0..Len(net) : c[p] = cum[p]
  /\ \A k \in 0..NumBlocks(Len(sent) + 1, nal) :
       c[Len(net) + k] = cum[Len(net)] + Covered(Len(sent) + 1, nal, k)

(* The count goes on from its value at the last packet there was *)
LEMMA SumsOn ==
  ASSUME TypeOK, NEW nal \in Nal, inputFrameData(nal), NEW cum, Sums(cum),
         NEW c, CountedOn(c, cum, nal)
  PROVE  GoesOn(c, cum, nal)
<1> USE DEF CountedOn
<1> DEFINE n == Len(net)
           u == Len(sent) + 1
           m == NumBlocks(u, nal)
           cov(k) == Covered(u, nal, k)
<1>1. /\ Len(sent) \in Nat /\ u \in Nat /\ nal.type # "other"
      /\ Len(sent') = u /\ DOMAIN sent = 1..Len(sent) /\ DOMAIN sent' = 1..u
      /\ sent'[u] = nal /\ n \in Nat /\ Len(net') = n + m
      /\ \A k \in 1..n : net'[k] = net[k]
      /\ \A k \in 1..m : net'[n + k] = Packet(u, nal, k)
  BY SendIs
<1>2. m \in Nat /\ m > 0 /\ cov(0) = 0 /\ cov(m) = Len(h264PsMux(u, nal)) /\ Len(h264PsMux(u, nal)) \in Nat
  BY <1>1, BlocksAre
<1>3. cum \in [0..n -> Nat]
  BY DEF Sums
<1>4. \A p \in 0..n : p \in 0..Len(net') /\ p <= Len(net)
  BY <1>1, <1>2
<1>5. ASSUME NEW k \in 1..m PROVE c[n + k] = cum[n] + cov(k)
  <2> DEFINE p == n + k
  <2>1. p \in 0..Len(net') /\ ~(p <= Len(net)) /\ p - Len(net) = k
    BY <1>1, <1>2
  <2> HIDE DEF p
  <2>2. c[p] = cum[Len(net)] + Covered(Len(sent) + 1, nal, p - Len(net))
    BY <2>1
  <2> QED BY <2>1, <2>2 DEF p
<1>6. n \in 0..n /\ n + 0 = n /\ cum[n] \in Nat
  BY <1>1, <1>3
<1>7. c[n + 0] = cum[n] + cov(0)
  <2>1. c[n] = cum[n]
    BY <1>4, <1>6
  <2> HIDE DEF n, cov
  <2> QED BY <2>1, <1>6, <1>2
<1>8. \A k \in 0..m : k = 0 \/ k \in 1..m
  BY <1>2
<1>9. (\A p \in 0..n : c[p] = cum[p]) /\ \A k \in 0..m : c[n + k] = cum[n] + cov(k)
  <2>1. \A p \in 0..n : c[p] = cum[p]
    BY <1>4
  <2> HIDE DEF n, m, cov
  <2> QED BY <2>1, <1>5, <1>7, <1>8
<1> QED BY <1>9

(* A unit is sent. *)
LEMMA LoadSend ==
  ASSUME TypeOK, Sendable, NEW nal \in Nal, inputFrameData(nal),
         NEW pos, NetInv(pos), NEW cum, LoadInv(pos, cum),
         NEW q, q = [i \in 1..(Len(sent) + 2) |-> IF i <= Len(sent) + 1 THEN pos[i] ELSE Len(net')],
         NEW c, c = [p \in 0..Len(net') |->
                       IF p <= Len(net) THEN cum[p]
                       ELSE cum[Len(net)] + Covered(Len(sent) + 1, nal, p - Len(net))]
  PROVE  LoadInv(q, c)'
<1> DEFINE n == Len(net)
           u == Len(sent) + 1
           m == NumBlocks(u, nal)
           cov(k) == Covered(u, nal, k)
<1>1. /\ Len(sent) \in Nat /\ u \in Nat /\ nal.type # "other"
      /\ Len(sent') = u /\ DOMAIN sent = 1..Len(sent) /\ DOMAIN sent' = 1..u
      /\ sent'[u] = nal /\ n \in Nat /\ Len(net') = n + m
      /\ \A k \in 1..n : net'[k] = net[k]
      /\ \A k \in 1..m : net'[n + k] = Packet(u, nal, k)
  BY SendIs
<1>2. m \in Nat /\ m > 0 /\ cov(0) = 0 /\ cov(m) = Len(h264PsMux(u, nal)) /\ Len(h264PsMux(u, nal)) \in Nat
  BY <1>1, BlocksAre
<1>3. \A k \in 1..m : /\ cov(k - 1) \in Nat /\ cov(k) \in Nat
                      /\ Len(Packet(u, nal, k).cells) = cov(k) - cov(k - 1)
  BY <1>1, BlockIs
<1>4. cum \in [0..n -> Nat] /\ \A k \in 1..n : cum[k] = cum[k - 1] + Len(net[k].cells)
  BY DEF LoadInv, Sums
<1>5. UNCHANGED <<faults, hurt>>
  BY DEF inputFrameData
<1>6. /\ \A p \in 0..n : c[p] = cum[p]
      /\ \A k \in 0..m : c[n + k] = cum[n] + cov(k)
  <2>1. Sums(cum) /\ CountedOn(c, cum, nal)
    BY DEF LoadInv, CountedOn
  <2>2. GoesOn(c, cum, nal)
    BY <2>1, SumsOn
  <2> QED BY <2>2 DEF GoesOn
<1> DEFINE total == Len(h264PsMux(u, nal))
<1>7. \A p \in 0..(n + m) : c[p] \in Nat
  <2> TAKE p \in 0..(n + m)
  <2>1. CASE p <= n
    <3>1. p \in 0..n
      BY <2>1, <1>1
    <3> QED BY <3>1, <1>4, <1>6
  <2>2. CASE ~(p <= n)
    <3> DEFINE k == p - n
    <3>1. k \in 1..m /\ n + k = p /\ k \in 0..m /\ n \in 0..n
      BY <2>2, <1>1, <1>2
    <3> HIDE DEF k, n, m, cov
    <3>2. c[n + k] = cum[n] + cov(k) /\ cum[n] \in Nat /\ cov(k) \in Nat
      BY <3>1, <1>3, <1>4, <1>6
    <3>3. c[n + k] \in Nat
      <4> DEFINE e == c[n + k]
                 a == cum[n]
                 b == cov(k)
      <4>1. e = a + b /\ a \in Nat /\ b \in Nat
        BY <3>2
      <4> HIDE DEF e, a, b
      <4>2. e \in Nat
        BY <4>1
      <4> QED BY <4>2 DEF e
    <3> QED BY <3>1, <3>3
  <2> QED BY <2>1, <2>2
<1>8. DOMAIN c = 0..(n + m) /\ c = [p \in DOMAIN c |-> c[p]]
  BY <1>1
<1> HIDE DEF n, m, cov, u, total
<1>9. Sums(c)'
  <2>1. c \in [0..(n + m) -> Nat]
    BY <1>7, <1>8
  <2>2. ASSUME NEW k \in 1..(n + m) PROVE c[k] = c[k - 1] + Len(net'[k].cells)
    <3>1. CASE k <= n
      <4>1. k \in 1..n /\ k \in 0..n /\ k - 1 \in 0..n
        BY <3>1, <1>1
      <4> QED BY <4>1, <1>1, <1>4, <1>6
    <3>2. CASE ~(k <= n)
      <4> DEFINE b == k - n
      <4>1. b \in 1..m /\ n + b = k /\ b \in 0..m /\ b - 1 \in 0..m /\ n + (b - 1) = k - 1 /\ n \in 0..n
        BY <3>2, <1>1, <1>2
      <4> HIDE DEF b
      <4>2. c[n + b] = cum[n] + cov(b) /\ c[n + (b - 1)] = cum[n] + cov(b - 1)
        BY <4>1, <1>6
      <4>3. net'[n + b] = Packet(u, nal, b)
        BY <4>1, <1>1
      <4> DEFINE l == Len(Packet(u, nal, b).cells)
      <4>4. l = cov(b) - cov(b - 1) /\ cov(b) \in Nat /\ cov(b - 1) \in Nat /\ cum[n] \in Nat
        BY <4>1, <1>3, <1>4
      <4>5. Len(net'[k].cells) = l
        BY <4>1, <4>3
      <4> HIDE DEF l
      <4> DEFINE x == cum[n]
                 y == cov(b)
                 z == cov(b - 1)
      <4>6. c[k] = x + y /\ c[k - 1] = x + z /\ x \in Nat /\ y \in Nat /\ z \in Nat /\ l = y - z
        BY <4>1, <4>2, <4>4
      <4> HIDE DEF x, y, z
      <4>7. c[k] = c[k - 1] + l
        BY <4>6
      <4> QED BY <4>5, <4>7
    <3> QED BY <3>1, <3>2
  <2> QED BY <2>1, <2>2, <1>1 DEF Sums
<1>10. Bounded(q, c)'
  <2>1. UnhurtOrNext = (1..u) \ hurt /\ UnhurtOrNext' = (1..(u + 1)) \ hurt
    BY <1>1, <1>5 DEF UnhurtOrNext, u
  <2>2. /\ hurt \subseteq 1..Len(sent) /\ u \notin hurt /\ u + 1 \notin hurt /\ u \in UnhurtOrNext
        /\ Len(sent) = u - 1
    <3>1. hurt \subseteq 1..Len(sent)
      BY <1>1 DEF TypeOK
    <3>2. u = Len(sent) + 1
      BY DEF u
    <3> QED BY <2>1, <3>1, <3>2, <1>1
  <2>3. pos \in [1..u -> Int] /\ pos[u] = n /\ \A i \in 1..u : q[i] = pos[i]
    <3>1. pos \in [1..u -> Int] /\ pos[u] = n
      BY DEF NetInv, PosOK, u, n
    <3>2. \A i \in 1..u : i \in 1..(Len(sent) + 2) /\ i <= Len(sent) + 1
      BY <1>1 DEF u
    <3> QED BY <3>1, <3>2
  <2>4. q[u + 1] = n + m
    <3>1. u + 1 \in 1..(Len(sent) + 2) /\ ~(u + 1 <= Len(sent) + 1)
      BY <1>1 DEF u
    <3> QED BY <3>1, <1>1
  <2> SUFFICES ASSUME NEW g \in UnhurtOrNext', NEW j \in UnhurtOrNext', g < j, q[g] >= 0
               PROVE  c[q[j]] - c[q[g]] <= Room(g, j)' + faults' * Block
    BY DEF Bounded
  <2>5. g \in 1..u /\ g \in UnhurtOrNext /\ q[g] = pos[g] /\ g \in Int /\ 1 <= g
    <3>1. g \in 1..u
      BY <2>1, <1>1
    <3>2. g \notin hurt
      BY <2>1
    <3>3. g \in UnhurtOrNext
      BY <3>1, <3>2, <2>1
    <3>4. g \in Int /\ 1 <= g
      BY <3>1, <1>1
    <3> QED BY <3>1, <3>3, <3>4, <2>3
  <2>6. pos[g] \in 0..n /\ c[q[g]] = cum[pos[g]]
    <3>1. pos[g] >= 0
      BY <2>5
    <3>2. pos[g] \in 0..n
      BY <3>1, <2>5, InNet DEF n
    <3> QED BY <3>2, <2>5, <1>6
  <2>7. CASE j \in 1..u
    <3>1. j \in UnhurtOrNext /\ q[j] = pos[j] /\ j \in Int
      BY <2>1, <2>3, <2>7
    <3>2. cum[pos[j]] - cum[pos[g]] <= Room(g, j) + faults * Block
      BY <3>1, <2>5 DEF LoadInv, Bounded
    <3>3. pos[j] \in 0..n
      <4>1. g \in Unhurt
        BY <2>1, <2>5, <2>7, <1>1, <2>2 DEF Unhurt
      <4> DEFINE a == pos[g]
                 x == pos[j]
                 b == Nb(g)
      <4>2. b \in Nat /\ a + b <= x /\ x \in Int
        BY <3>1, <4>1, PosIs
      <4>3. a \in 0..n
        BY <2>6
      <4> HIDE DEF a, b, x
      <4>4. x >= 0
        BY <4>2, <4>3, <1>1
      <4> QED BY <3>1, <4>4, InNet DEF x, n
    <3>4. c[q[j]] = cum[pos[j]]
      BY <3>1, <3>3, <1>6
    <3>5. Room(g, j)' = Room(g, j)
      <4>1. g <= j /\ j <= Len(sent) + 1
        BY <2>5, <2>7, <1>1 DEF u
      <4> QED BY <3>1, <4>1, <2>5, OldUnits
    <3> QED BY <3>2, <3>4, <3>5, <2>6, <1>5
  <2>8. CASE j = u + 1
    <3>1. g <= u /\ u \in Int /\ g \in Int /\ u = Len(sent) + 1
      BY <2>5, <1>1 DEF u
    <3>2. ASSUME NEW i, i = u
          PROVE  /\ Room(g, i + 1)' = Room(g, i) + Len(h264PsMux(i, nal))
                 /\ Room(g, i) \in Nat /\ Room(i, i) = 0
      <4>1. i = Len(sent) + 1 /\ g <= i
        BY <3>1, <3>2
      <4> QED BY <4>1, <2>5, NewUnit
    <3>3. /\ Room(g, u) \in Nat /\ Room(u, u) = 0
          /\ Room(g, j)' = Room(g, u) + total
      <4>1. ASSUME NEW i, i = u, i + 1 = j PROVE Room(g, j)' = Room(g, i) + Len(h264PsMux(i, nal))
        BY <3>2, <4>1
      <4>2. Room(g, j)' = Room(g, u) + Len(h264PsMux(u, nal))
        BY <4>1, <2>8
      <4> QED BY <3>2, <4>2 DEF total
    <3>4. c[q[j]] = cum[n] + total
      <4>1. q[j] = n + m /\ m \in 0..m
        BY <2>4, <2>8, <1>2
      <4>2. c[n + m] = cum[n] + cov(m)
        BY <4>1, <1>6
      <4> QED BY <4>1, <4>2, <1>2 DEF total
    <3> DEFINE x == cum[pos[g]]
               y == cum[n]
               r == Room(g, u)
               d == faults * Block
    <3>5. y - x <= r + d
      <4>1. CASE g = u
        <5>1. x = y /\ r = 0
          BY <4>1, <2>3, <3>3
        <5>2. d \in Nat /\ y \in Nat
          BY <1>1, <1>4, Constants DEF TypeOK
        <5> HIDE DEF x, y, r, d
        <5> QED BY <5>1, <5>2
      <4>2. CASE g # u
        <5>1. g < u
          BY <4>2, <3>1
        <5>2. cum[pos[u]] - cum[pos[g]] <= Room(g, u) + faults * Block
          BY <5>1, <2>2, <2>5 DEF LoadInv, Bounded
        <5> QED BY <5>2, <2>3
      <4> HIDE DEF x, y, r, d
      <4> QED BY <4>1, <4>2
    <3>6. x \in Nat /\ y \in Nat /\ r \in Nat /\ d \in Nat /\ total \in Nat
      <4>1. faults \in Nat /\ Block \in Nat
        BY Constants DEF TypeOK
      <4> QED BY <1>1, <1>2, <1>4, <2>6, <3>3, <4>1 DEF total
    <3>7. c[q[j]] = y + total /\ c[q[g]] = x /\ Room(g, j)' = r + total /\ faults' * Block = d
      BY <3>3, <3>4, <2>6, <1>5
    <3> HIDE DEF x, y, r, d
    <3> QED BY <3>5, <3>6, <3>7
  <2> QED BY <2>1, <2>7, <2>8, <1>1
<1> QED BY <1>9, <1>10 DEF LoadInv

(* c counts what w tells of each of n packets. *)
Counts(c, w, n) == c \in [0..n -> Nat] /\ \A k \in 1..n : c[k] = c[k - 1] + w[k]

(* After a fault at packet k, c counts as cum did, and x more behind it. *)
Drifts(k, d, n, cum, c, x) ==
  \A p \in 0..n : (d # 0 \/ p # k - 1) =>
    /\ Shift(k, d, p) \in 0..(n + d)
    /\ c[Shift(k, d, p)] = IF p >= k THEN cum[p] + x ELSE cum[p]

(* How many cells a packet has *)
Cells == [k \in 1..Len(net) |-> Len(net[k].cells)]

(* The cells on the wire are counted packet by packet. *)
LEMMA CellsAre ==
  ASSUME TypeOK
  PROVE  /\ Cells \in [1..Len(net) -> Nat] /\ \A k \in 1..Len(net) : Cells[k] <= Block /\ Cells[k] = Len(net[k].cells)
         /\ \A c : Sums(c) <=> Counts(c, Cells, Len(net))
<1>1. \A k \in 1..Len(net) : Len(net[k].cells) \in Nat /\ Len(net[k].cells) <= Block
  BY NetIs
<1>2. \A k \in 1..Len(net) : Cells[k] = Len(net[k].cells)
  BY DEF Cells
<1>3. Cells \in [1..Len(net) -> Nat]
  BY <1>1 DEF Cells
<1>4. ASSUME NEW c PROVE Sums(c) <=> Counts(c, Cells, Len(net))
  BY <1>2 DEF Sums, Counts
<1> QED BY <1>1, <1>2, <1>3, <1>4

(* A packet less *)
LEMMA LostDrifts ==
  ASSUME NEW n \in Nat, NEW w \in [1..n -> Nat], NEW k \in 1..n, NEW cum, Counts(cum, w, n),
         NEW v, \A j \in 1..(n - 1) : v[j] = IF j < k THEN w[j] ELSE w[j + 1]
  PROVE  \E c : Counts(c, v, n - 1) /\ Drifts(k, -1, n, cum, c, -w[k])
<1> DEFINE L == w[k]
           c == [p \in 0..(n - 1) |-> IF p < k THEN cum[p] ELSE cum[p + 1] - L]
<1>1. cum \in [0..n -> Nat] /\ (\A j \in 1..n : cum[j] = cum[j - 1] + w[j]) /\ L \in Nat /\ \A j \in 1..n : w[j] \in Nat
  BY DEF Counts
<1>2. cum[k] = cum[k - 1] + L /\ cum[k] \in Nat /\ cum[k - 1] \in Nat
  <2>1. k \in 0..n /\ k - 1 \in 0..n
    OBVIOUS
  <2> QED BY <2>1, <1>1
<1>3. ASSUME NEW p \in k..n PROVE cum[p] \in Nat /\ cum[p] >= L
  <2>1. \A j \in 1..n : cum[j - 1] <= cum[j]
    <3> TAKE j \in 1..n
    <3>1. j \in 0..n /\ j - 1 \in 0..n
      OBVIOUS
    <3>2. cum[j] \in Nat /\ cum[j - 1] \in Nat /\ w[j] \in Nat /\ cum[j] = cum[j - 1] + w[j]
      BY <3>1, <1>1
    <3> QED BY <3>2
  <2>2. k \in 0..n /\ p \in 0..n
    OBVIOUS
  <2>3. cum[k] <= cum[p]
    BY <2>1, <2>2, <1>1, Rising
  <2>4. cum[p] \in Nat
    BY <2>2, <1>1
  <2> HIDE DEF L
  <2> QED BY <2>3, <2>4, <1>1, <1>2
<1> HIDE DEF L
<1>4. /\ \A p \in 0..(n - 1) : p < k => c[p] = cum[p]
      /\ \A p \in 0..(n - 1) : p >= k - 1 => c[p] = cum[p + 1] - L
  <2>1. ASSUME NEW p \in 0..(n - 1), p >= k - 1 PROVE c[p] = cum[p + 1] - L
    <3>1. CASE p = k - 1
      <4>1. p < k /\ p + 1 = k
        BY <3>1
      <4> QED BY <4>1, <3>1, <1>1, <1>2
    <3>2. CASE p # k - 1
      <4>1. ~(p < k)
        BY <2>1, <3>2
      <4> QED BY <4>1
    <3> QED BY <3>1, <3>2
  <2> QED BY <2>1
<1>5. c \in [0..(n - 1) -> Nat]
  <2> SUFFICES ASSUME NEW p \in 0..(n - 1) PROVE (IF p < k THEN cum[p] ELSE cum[p + 1] - L) \in Nat
    OBVIOUS
  <2>1. CASE p < k
    <3>1. p \in 0..n
      OBVIOUS
    <3> QED BY <2>1, <3>1, <1>1
  <2>2. CASE ~(p < k)
    <3>1. p + 1 \in k..n
      BY <2>2
    <3>2. cum[p + 1] \in Nat /\ cum[p + 1] >= L
      BY <3>1, <1>3
    <3>3. cum[p + 1] - L \in Nat
      BY <3>2, <1>1
    <3> QED BY <2>2, <3>3
  <2> QED BY <2>1, <2>2
<1> HIDE DEF c
<1>6. ASSUME NEW j \in 1..(n - 1) PROVE c[j] = c[j - 1] + v[j]
  <2>1. j \in 0..(n - 1) /\ j - 1 \in 0..(n - 1) /\ j \in 1..n /\ j + 1 \in 1..n /\ (j + 1) - 1 = j /\ (j - 1) + 1 = j
        /\ j \in 0..n /\ j - 1 \in 0..n /\ j + 1 \in 0..n
    OBVIOUS
  <2>2. CASE j < k
    <3>1. c[j] = cum[j] /\ c[j - 1] = cum[j - 1] /\ v[j] = w[j]
      BY <2>1, <2>2, <1>4
    <3> QED BY <3>1, <2>1, <1>1
  <2>3. CASE ~(j < k)
    <3>1. c[j] = cum[j + 1] - L /\ c[j - 1] = cum[j] - L /\ v[j] = w[j + 1]
      BY <2>1, <2>3, <1>4
    <3>2. cum[j + 1] = cum[j] + w[j + 1] /\ cum[j] \in Nat /\ w[j + 1] \in Nat
      BY <2>1, <1>1
    <3> DEFINE x == cum[j]
               y == w[j + 1]
               z == cum[j + 1]
    <3>3. c[j] = z - L /\ c[j - 1] = x - L /\ v[j] = y /\ z = x + y /\ x \in Nat /\ y \in Nat
      BY <3>1, <3>2
    <3> HIDE DEF x, y, z
    <3> QED BY <3>3, <1>1
  <2> QED BY <2>2, <2>3
<1>7. ASSUME NEW p \in 0..n
      PROVE  /\ Shift(k, -1, p) \in 0..(n + (-1))
             /\ c[Shift(k, -1, p)] = IF p >= k THEN cum[p] + (-L) ELSE cum[p]
  <2>1. CASE p >= k
    <3>1. Shift(k, -1, p) = p - 1 /\ p - 1 \in 0..(n - 1) /\ p - 1 >= k - 1 /\ (p - 1) + 1 = p
      BY <2>1 DEF Shift
    <3>2. c[p - 1] = cum[p] - L
      BY <3>1, <1>4
    <3>3. cum[p] \in Nat
      BY <1>1
    <3>4. cum[p] - L = cum[p] + (-L) /\ n + (-1) = n - 1
      BY <3>3, <1>1
    <3> QED BY <2>1, <3>1, <3>2, <3>4
  <2>2. CASE ~(p >= k)
    <3>1. Shift(k, -1, p) = p /\ p \in 0..(n - 1) /\ p < k /\ n + (-1) = n - 1
      BY <2>2 DEF Shift
    <3> QED BY <2>2, <3>1, <1>4
  <2> QED BY <2>1, <2>2
<1>8. Counts(c, v, n - 1)
  BY <1>5, <1>6 DEF Counts
<1>9. Drifts(k, -1, n, cum, c, -w[k])
  BY <1>7 DEF Drifts, L
<1> QED BY <1>8, <1>9

(* Two packets in another order *)
LEMMA SwappedDrifts ==
  ASSUME NEW n \in Nat, NEW w \in [1..n -> Nat], NEW k \in 1..n, k > 1, NEW cum, Counts(cum, w, n),
         NEW v, v[k] = w[k - 1], v[k - 1] = w[k], \A j \in 1..n : j # k /\ j # k - 1 => v[j] = w[j]
  PROVE  \E c : Counts(c, v, n) /\ Drifts(k, 0, n, cum, c, 0)
<1> DEFINE L == w[k]
           M == w[k - 1]
           c == [p \in 0..n |-> IF p = k - 1 THEN cum[k - 2] + L ELSE cum[p]]
<1>1. cum \in [0..n -> Nat] /\ (\A j \in 1..n : cum[j] = cum[j - 1] + w[j]) /\ L \in Nat /\ M \in Nat
  <2>1. k - 1 \in 1..n
    OBVIOUS
  <2> QED BY <2>1 DEF Counts
<1>2. /\ k - 1 \in 1..n /\ k - 2 \in 0..n /\ k - 1 \in 0..n /\ k \in 0..n /\ (k - 1) - 1 = k - 2
      /\ k - 2 # k - 1 /\ k # k - 1
  OBVIOUS
<1>3. /\ cum[k] = cum[k - 1] + L /\ cum[k - 1] = cum[k - 2] + M
      /\ cum[k] \in Nat /\ cum[k - 1] \in Nat /\ cum[k - 2] \in Nat
  <2>1. cum[k - 1] = cum[(k - 1) - 1] + w[k - 1]
    BY <1>1, <1>2
  <2> QED BY <2>1, <1>1, <1>2
<1> HIDE DEF L, M
<1>4. cum[k - 2] + L \in Nat
  <2> DEFINE x == cum[k - 2]
  <2>1. x \in Nat /\ L \in Nat
    BY <1>1, <1>3
  <2> HIDE DEF x
  <2>2. x + L \in Nat
    BY <2>1
  <2> QED BY <2>2 DEF x
<1>5. /\ c \in [0..n -> Nat] /\ c[k - 1] = cum[k - 2] + L
      /\ \A p \in 0..n : p # k - 1 => c[p] = cum[p]
  BY <1>1, <1>2, <1>4
<1> HIDE DEF c
<1>6. ASSUME NEW j \in 1..n PROVE c[j] = c[j - 1] + v[j]
  <2>1. j \in 0..n /\ j - 1 \in 0..n
    OBVIOUS
  <2>2. CASE j = k
    <3>1. c[j] = cum[k] /\ c[j - 1] = cum[k - 2] + L /\ v[j] = M
      BY <2>2, <1>2, <1>5 DEF M
    <3> QED BY <3>1, <1>1, <1>3
  <2>3. CASE j = k - 1
    <3>1. c[j] = cum[k - 2] + L /\ c[j - 1] = cum[k - 2] /\ v[j] = L
      BY <2>3, <1>2, <1>5 DEF L
    <3> QED BY <3>1
  <2>4. CASE j # k /\ j # k - 1
    <3>1. j - 1 # k - 1
      BY <2>4
    <3>2. c[j] = cum[j] /\ c[j - 1] = cum[j - 1] /\ v[j] = w[j]
      BY <2>1, <2>4, <3>1, <1>5
    <3> QED BY <3>2, <1>1
  <2> QED BY <2>2, <2>3, <2>4
<1>7. ASSUME NEW p \in 0..n, p # k - 1
      PROVE  /\ Shift(k, 0, p) \in 0..(n + 0)
             /\ c[Shift(k, 0, p)] = IF p >= k THEN cum[p] + 0 ELSE cum[p]
  <2>1. Shift(k, 0, p) = p /\ n + 0 = n
    BY DEF Shift
  <2>2. cum[p] \in Nat
    BY <1>1
  <2>3. cum[p] + 0 = cum[p]
    BY <2>2
  <2> QED BY <2>1, <2>3, <1>5, <1>7
<1>8. Counts(c, v, n)
  BY <1>5, <1>6 DEF Counts
<1>9. Drifts(k, 0, n, cum, c, 0)
  BY <1>7 DEF Drifts
<1> QED BY <1>8, <1>9

(* A packet more *)
LEMMA DoubledDrifts ==
  ASSUME NEW n \in Nat, NEW w \in [1..n -> Nat], NEW k \in 1..n, NEW cum, Counts(cum, w, n),
         NEW v, \A j \in 1..(n + 1) : v[j] = IF j <= k THEN w[j] ELSE w[j - 1]
  PROVE  \E c : Counts(c, v, n + 1) /\ Drifts(k, 1, n, cum, c, w[k])
<1> DEFINE L == w[k]
           c == [p \in 0..(n + 1) |-> IF p <= k THEN cum[p] ELSE cum[p - 1] + L]
<1>1. cum \in [0..n -> Nat] /\ (\A j \in 1..n : cum[j] = cum[j - 1] + w[j]) /\ L \in Nat
  BY DEF Counts
<1>2. k \in 0..n /\ k - 1 \in 0..n /\ cum[k] = cum[k - 1] + L /\ cum[k - 1] \in Nat /\ cum[k] \in Nat
  <2>1. k \in 0..n /\ k - 1 \in 0..n
    OBVIOUS
  <2> QED BY <2>1, <1>1
<1>3. \A j \in 1..n : w[j] \in Nat
  OBVIOUS
<1> HIDE DEF L
<1>4. c \in [0..(n + 1) -> Nat]
  <2> SUFFICES ASSUME NEW p \in 0..(n + 1) PROVE (IF p <= k THEN cum[p] ELSE cum[p - 1] + L) \in Nat
    OBVIOUS
  <2>1. CASE p <= k
    <3>1. p \in 0..n
      BY <2>1
    <3> QED BY <2>1, <3>1, <1>1
  <2>2. CASE ~(p <= k)
    <3>1. p - 1 \in 0..n
      BY <2>2
    <3>2. cum[p - 1] \in Nat
      BY <3>1, <1>1
    <3>3. cum[p - 1] + L \in Nat
      BY <3>2, <1>1
    <3> QED BY <2>2, <3>3
  <2> QED BY <2>1, <2>2
<1>5. /\ \A p \in 0..(n + 1) : p <= k => c[p] = cum[p]
      /\ \A p \in 0..(n + 1) : p > k => c[p] = cum[p - 1] + L
  OBVIOUS
<1> HIDE DEF c
<1>6. ASSUME NEW j \in 1..(n + 1) PROVE c[j] = c[j - 1] + v[j]
  <2>1. j \in 0..(n + 1) /\ j - 1 \in 0..(n + 1)
    OBVIOUS
  <2>2. CASE j <= k
    <3>1. j \in 1..n /\ j - 1 <= k
      BY <2>2
    <3>2. c[j] = cum[j] /\ c[j - 1] = cum[j - 1] /\ v[j] = w[j]
      BY <2>1, <2>2, <3>1, <1>5
    <3> QED BY <3>1, <3>2, <1>1
  <2>3. CASE j = k + 1
    <3>1. j > k /\ j - 1 <= k /\ j - 1 = k /\ ~(j <= k)
      BY <2>3
    <3>2. c[j] = cum[k] + L /\ c[j - 1] = cum[k] /\ v[j] = L
      BY <2>1, <3>1, <1>5 DEF L
    <3> QED BY <3>2
  <2>4. CASE j > k + 1
    <3>1. j > k /\ j - 1 > k /\ (j - 1) - 1 = j - 2 /\ ~(j <= k) /\ j - 1 \in 1..n /\ j - 2 \in 0..n /\ j - 1 \in 0..n
      BY <2>4
    <3>2. c[j] = cum[j - 1] + L /\ c[j - 1] = cum[(j - 1) - 1] + L /\ v[j] = w[j - 1]
      BY <2>1, <3>1, <1>5
    <3> DEFINE x == cum[(j - 1) - 1]
               y == w[j - 1]
               z == cum[j - 1]
    <3>3. z = x + y
      BY <3>1, <1>1
    <3>4. x \in Nat /\ y \in Nat /\ c[j] = z + L /\ c[j - 1] = x + L /\ v[j] = y
      BY <3>1, <3>2, <1>1, <1>3
    <3> HIDE DEF x, y, z
    <3> QED BY <3>3, <3>4, <1>1
  <2> QED BY <2>2, <2>3, <2>4
<1>7. ASSUME NEW p \in 0..n
      PROVE  /\ Shift(k, 1, p) \in 0..(n + 1)
             /\ c[Shift(k, 1, p)] = IF p >= k THEN cum[p] + L ELSE cum[p]
  <2>1. CASE p >= k
    <3>1. Shift(k, 1, p) = p + 1 /\ p + 1 \in 0..(n + 1) /\ p + 1 > k /\ (p + 1) - 1 = p
      BY <2>1 DEF Shift
    <3> QED BY <2>1, <3>1, <1>5
  <2>2. CASE ~(p >= k)
    <3>1. Shift(k, 1, p) = p /\ p \in 0..(n + 1) /\ p <= k
      BY <2>2 DEF Shift
    <3> QED BY <2>2, <3>1, <1>5
  <2> QED BY <2>1, <2>2
<1>8. Counts(c, v, n + 1)
  BY <1>4, <1>6 DEF Counts
<1>9. Drifts(k, 1, n, cum, c, w[k])
  BY <1>7 DEF Drifts, L
<1> QED BY <1>8, <1>9

(* What a fault does to the packets and to what counts their cells *)
LEMMA DisturbDrifts ==
  ASSUME TypeOK, Disturb, NEW cum, Sums(cum)
  PROVE  \E k, d, x, c : /\ Moved(k, d) /\ Sums(c)' /\ x \in Int /\ x <= Block
                         /\ Drifts(k, d, Len(net), cum, c, x)
<1> DEFINE n == Len(net)
           w == Cells
           v == Cells'
<1>1. n \in Nat /\ \E k \in 1..n : LostAt(k) \/ SwappedAt(k) \/ DoubledAt(k)
  BY DisturbIs
<1>2. PICK k \in 1..n : LostAt(k) \/ SwappedAt(k) \/ DoubledAt(k)
  BY <1>1
<1>3. w \in [1..n -> Nat] /\ (\A i \in 1..n : w[i] <= Block) /\ Counts(cum, w, n)
  BY CellsAre
<1>4. \A i \in 1..n : w[i] = Len(net[i].cells)
  BY CellsAre
<1>5. \A i \in 1..Len(net') : v[i] = Len(net'[i].cells)
  BY DEF Cells
<1>6. \A c : Counts(c, v, Len(net')) => Sums(c)'
  BY <1>5 DEF Counts, Sums
<1>7. Block \in Nat /\ w[k] \in Nat /\ w[k] <= Block
  BY <1>3, Constants
<1> HIDE DEF v, w
<1>8. CASE LostAt(k)
  <2>1. Moved(k, -1)
    BY <1>1, <1>8, LostMoves
  <2>2. Len(net') = n - 1 /\ \A j \in 1..(n - 1) : net'[j] = IF j < k THEN net[j] ELSE net[j + 1]
    BY <1>8 DEF LostAt
  <2>3. \A j \in 1..(n - 1) : v[j] = IF j < k THEN w[j] ELSE w[j + 1]
    <3> HIDE DEF n
    <3> TAKE j \in 1..(n - 1)
    <3>1. j \in 1..n /\ j + 1 \in 1..n /\ j \in 1..Len(net')
      BY <1>1, <2>2
    <3>2. v[j] = Len(net'[j].cells) /\ w[j] = Len(net[j].cells) /\ w[j + 1] = Len(net[j + 1].cells)
      BY <3>1, <1>4, <1>5
    <3> QED BY <2>2, <3>2
  <2>4. PICK c : Counts(c, v, n - 1) /\ Drifts(k, -1, n, cum, c, -w[k])
    BY <1>1, <1>3, <2>3, LostDrifts
  <2>5. -w[k] \in Int /\ -w[k] <= Block
    BY <1>7
  <2>6. Sums(c)'
    BY <2>2, <2>4, <1>6
  <2> QED BY <2>1, <2>4, <2>5, <2>6
<1>9. CASE SwappedAt(k)
  <2>1. Moved(k, 0)
    BY <1>1, <1>9, SwappedMoves
  <2>2. /\ k > 1 /\ Len(net') = n /\ net'[k] = net[k - 1] /\ net'[k - 1] = net[k]
        /\ \A j \in 1..n : j # k /\ j # k - 1 => net'[j] = net[j]
    BY <1>9 DEF SwappedAt
  <2>3. /\ v[k] = w[k - 1] /\ v[k - 1] = w[k]
        /\ \A j \in 1..n : j # k /\ j # k - 1 => v[j] = w[j]
    <3> HIDE DEF n
    <3>1. k \in 1..n /\ k - 1 \in 1..n
      BY <1>1, <2>2
    <3> QED BY <3>1, <2>2, <1>4, <1>5
  <2>4. PICK c : Counts(c, v, n) /\ Drifts(k, 0, n, cum, c, 0)
    BY <1>1, <1>3, <2>2, <2>3, SwappedDrifts
  <2>5. 0 \in Int /\ 0 <= Block
    BY <1>7
  <2>6. Sums(c)'
    BY <2>2, <2>4, <1>6
  <2> QED BY <2>1, <2>4, <2>5, <2>6
<1>10. CASE DoubledAt(k)
  <2>1. Moved(k, 1)
    BY <1>1, <1>10, DoubledMoves
  <2>2. Len(net') = n + 1 /\ \A j \in 1..(n + 1) : net'[j] = IF j <= k THEN net[j] ELSE net[j - 1]
    BY <1>10 DEF DoubledAt
  <2>3. \A j \in 1..(n + 1) : v[j] = IF j <= k THEN w[j] ELSE w[j - 1]
    <3> HIDE DEF n
    <3> TAKE j \in 1..(n + 1)
    <3>1. j \in 1..Len(net') /\ (j <= k => j \in 1..n) /\ (~(j <= k) => j - 1 \in 1..n)
      BY <1>1, <2>2
    <3>2. v[j] = Len(net'[j].cells)
      BY <3>1, <1>5
    <3>3. CASE j <= k
      BY <3>1, <3>2, <3>3, <2>2, <1>4
    <3>4. CASE ~(j <= k)
      BY <3>1, <3>2, <3>4, <2>2, <1>4
    <3> QED BY <3>3, <3>4
  <2>4. PICK c : Counts(c, v, n + 1) /\ Drifts(k, 1, n, cum, c, w[k])
    BY <1>1, <1>3, <2>3, DoubledDrifts
  <2>5. w[k] \in Int /\ w[k] <= Block
    BY <1>7
  <2>6. Sums(c)'
    BY <2>2, <2>4, <1>6
  <2> QED BY <2>1, <2>4, <2>5, <2>6
<1> QED BY <1>2, <1>8, <1>9, <1>10

(* Where a fault leaves the units it does not hurt *)
LEMMA MovedPos ==
  ASSUME TypeOK, Sendable, NEW pos, NetInv(pos), NEW k, NEW d, Moved(k, d),
         NEW i \in UnhurtOrNext, i \notin hurt'
  PROVE  /\ pos[i] \in Int /\ (Shift(k, d, pos[i]) >= 0 <=> pos[i] >= 0)
         /\ pos[i] < 0 => Shift(k, d, pos[i]) = pos[i]
         /\ d # 0 \/ pos[i] # k - 1
<1> DEFINE u == Len(sent) + 1
           n == Len(net)
           p == pos[i]
<1>1. /\ n \in Nat /\ Len(sent) \in Nat /\ DOMAIN sent = 1..Len(sent) /\ hurt \subseteq DOMAIN sent
      /\ pos \in [1..u -> Int] /\ pos[u] = n
  BY NetIs DEF NetInv, PosOK, TypeOK
<1>2. k \in 1..n /\ d \in {-1, 0, 1}
  BY DEF Moved
<1>3. i \in 1..u /\ p \in Int
  BY <1>1 DEF UnhurtOrNext
<1>4. d # 0 \/ p # k - 1
  <2>1. CASE i = u
    <3>1. p = n
      BY <2>1, <1>1
    <3> HIDE DEF p, n
    <3> QED BY <3>1, <1>1, <1>2
  <2>2. CASE i # u
    <3>1. i \in Unhurt
      BY <2>2, <1>1, <1>3 DEF Unhurt, UnhurtOrNext
    <3> QED BY <3>1, Unmoved
  <2> QED BY <2>1, <2>2
<1> HIDE DEF p, n
<1>5. (Shift(k, d, p) >= 0 <=> p >= 0) /\ (p < 0 => Shift(k, d, p) = p)
  BY <1>1, <1>2, <1>3 DEF Shift
<1> QED BY <1>3, <1>4, <1>5 DEF p

(* A fault adds at most a block to what is between two unhurt units. *)
LEMMA LoadMoved ==
  ASSUME TypeOK, Sendable, sent' = sent, faults' = faults + 1, NEW k, NEW d, Moved(k, d),
         NEW pos, NetInv(pos), NEW cum, LoadInv(pos, cum),
         NEW q, q = [i \in 1..(Len(sent) + 1) |-> Shift(k, d, pos[i])],
         NEW x \in Int, x <= Block, NEW c, Sums(c)', Drifts(k, d, Len(net), cum, c, x)
  PROVE  LoadInv(q, c)'
<1> DEFINE n == Len(net)
<1>1. /\ n \in Nat /\ Len(sent) \in Nat /\ DOMAIN sent = 1..Len(sent) /\ k \in 1..n /\ k \in Int
      /\ faults \in Nat /\ Block \in Nat
  BY NetIs, Constants, SMTT(20) DEF Moved, TypeOK
<1>2. hurt \subseteq hurt'
  BY DEF Moved
<1>3. \A g, h : Room(g, h)' = Room(g, h)
  BY SameUnits
<1>4. \A i \in UnhurtOrNext' : i \in UnhurtOrNext /\ i \notin hurt' /\ i \in 1..(Len(sent) + 1)
  BY <1>2 DEF UnhurtOrNext
<1>5. cum \in [0..n -> Nat]
  BY DEF LoadInv, Sums
<1> SUFFICES ASSUME NEW g \in UnhurtOrNext', NEW j \in UnhurtOrNext', g < j, q[g] >= 0
             PROVE  c[q[j]] - c[q[g]] <= Room(g, j) + faults' * Block
  BY <1>3 DEF LoadInv, Bounded
<1> DEFINE a == pos[g]
           b == pos[j]
<1>6. g \in UnhurtOrNext /\ j \in UnhurtOrNext /\ q[g] = Shift(k, d, a) /\ q[j] = Shift(k, d, b)
  BY <1>4
<1>7. a \in Int /\ a >= 0 /\ (d # 0 \/ a # k - 1)
  <2>1. g \notin hurt' /\ Shift(k, d, a) >= 0
    BY <1>4, <1>6
  <2> QED BY <2>1, <1>6, MovedPos
<1>8. b \in Int /\ (d # 0 \/ b # k - 1)
  <2>1. j \notin hurt'
    BY <1>4
  <2> QED BY <2>1, <1>6, MovedPos
<1>9. g \in Unhurt
  <2>1. g # Len(sent) + 1
    BY <1>1, <1>4
  <2> QED BY <2>1, <1>1, <1>4, <1>6 DEF Unhurt, UnhurtOrNext
<1>10. a <= b
  <2> DEFINE m == Nb(g)
  <2>1. m \in Nat /\ a + m <= b
    BY <1>6, <1>9, PosIs
  <2> HIDE DEF a, b, m
  <2> QED BY <2>1, <1>7, <1>8
<1>11. a \in 0..n /\ b \in 0..n
  <2>1. b >= 0
    <3> HIDE DEF a, b
    <3> QED BY <1>7, <1>8, <1>10
  <2> QED BY <2>1, <1>6, <1>7, InNet
<1>12. cum[b] - cum[a] <= Room(g, j) + faults * Block
  BY <1>6, <1>7 DEF LoadInv, Bounded
<1> HIDE DEF n
<1>13. c[q[g]] = (IF a >= k THEN cum[a] + x ELSE cum[a]) /\ c[q[j]] = (IF b >= k THEN cum[b] + x ELSE cum[b])
  <2> HIDE DEF a, b
  <2> QED BY <1>6, <1>7, <1>8, <1>11 DEF Drifts, n
<1>14. Room(g, j) \in Nat
  <2>1. g \in Int /\ j \in Int /\ 1 <= g /\ g < j /\ j <= Len(sent) + 1
    BY <1>1, <1>4
  <2> QED BY <2>1, FrameFull
<1> DEFINE s == cum[a]
           t == cum[b]
           y == c[q[g]]
           z == c[q[j]]
           r == Room(g, j)
           f == faults * Block
<1>15. faults' * Block = f + Block /\ f \in Nat
  BY <1>1
<1>16. s \in Nat /\ t \in Nat
  BY <1>5, <1>11
<1>17. y = (IF a >= k THEN s + x ELSE s) /\ z = (IF b >= k THEN t + x ELSE t) /\ t - s <= r + f /\ r \in Nat
  BY <1>12, <1>13, <1>14
<1> HIDE DEF a, b, s, t, y, z, r, f
<1>18. z - y <= r + (f + Block)
  BY <1>1, <1>7, <1>8, <1>10, <1>15, <1>16, <1>17
<1> QED BY <1>15, <1>18 DEF z, y, r

-----------------------------------------------------------------------------
(* The units from g to e are one frame so far, and no fault touched them. *)
Alone(g, e) == \A i \in g..e : i \in Unhurt /\ (i > g => i \notin Openers)

(* The frame came as far as r packets from the beginning of unit e.  What comes
   behind the unit may be anything. *)
Open(g, e, r) ==
  /\ r <= Nb(e) => Filled(g, e, r, buf, len)
  /\ r > Nb(e) => Holds(0, Join(Muxed, g, e + 1))

(* The application has it. *)
Arrived(g, e) == \E k \in DOMAIN out : IsPrefix(Video(g, e + 1), out[k])
Over(pos, g, e) ==
  /\ Arrived(g, e)
  /\ e + 1 <= Len(sent) /\ (e + 1 \in Unhurt => pos[e + 1] < 0)

(* It is in the buffer, and what is before unit j will not make the buffer overflow. *)
Under(pos, cum, g, e, j) ==
  /\ pos[j] >= 0 /\ Open(g, e, -pos[e])
  /\ len + cum[pos[j]] - cum[0] <= Room(g, j) + faults * Block

(* Where the units from g to e belong that came before unit j, an opener or one
   that has not arrived *)
Asked(pos, g, e, j) ==
  /\ g \in Openers /\ e \in DOMAIN sent /\ j \in UnhurtOrNext /\ g <= e /\ e < j /\ Alone(g, e)
  /\ Room(g, j) + faults * Block <= RecvMax
  /\ pos[e] < 0 /\ (pos[j] >= 0 \/ j \in Openers)

(* A part of an undisturbed frame is in the buffer or with the application. *)
FrameInv(pos, cum) ==
  \A g, e, j : Asked(pos, g, e, j) => Over(pos, g, e) \/ Under(pos, cum, g, e, j)

(* What is asked is about units of the sender. *)
LEMMA AskedIs ==
  ASSUME TypeOK, Sendable, NEW pos, NetInv(pos), NEW g, NEW e, NEW j,
         g \in Openers, e \in DOMAIN sent, j \in UnhurtOrNext, g <= e, e < j, Alone(g, e)
  PROVE  /\ g \in 1..Len(sent) /\ e \in 1..Len(sent) /\ j \in 1..(Len(sent) + 1)
         /\ g \in Int /\ e \in Int /\ j \in Int /\ 1 <= g /\ Len(sent) \in Nat
         /\ g \in Unhurt /\ e \in Unhurt /\ g \in UnhurtOrNext /\ e \in UnhurtOrNext
         /\ pos[g] \in Int /\ pos[e] \in Int /\ pos[j] \in Int /\ Nb(e) \in Nat /\ Nb(e) > 0
         /\ pos[e] + Nb(e) <= pos[j]
         /\ e + 1 \in Unhurt => pos[e + 1] = pos[e] + Nb(e)
<1>1. Len(sent) \in Nat /\ DOMAIN sent = 1..Len(sent)
  BY NetIs
<1>2. g \in 1..Len(sent) /\ e \in 1..Len(sent) /\ j \in 1..(Len(sent) + 1)
  BY <1>1 DEF Openers, UnhurtOrNext
<1>3. g \in g..e /\ e \in g..e
  BY <1>2
<1>4. g \in Unhurt /\ e \in Unhurt
  BY <1>3 DEF Alone
<1>5. \A i \in Unhurt : i \in UnhurtOrNext
  BY <1>1 DEF Unhurt, UnhurtOrNext
<1>6. pos[g] \in Int
  BY <1>4, PosIs
<1>7. pos[e] \in Int /\ Nb(e) \in Nat /\ Nb(e) > 0 /\ pos[e] + Nb(e) <= pos[j] /\ pos[j] \in Int
  BY <1>4, PosIs
<1>8. e + 1 \in Unhurt => pos[e + 1] = pos[e] + Nb(e)
  BY <1>4, <1>5, PosIs
<1> QED BY <1>1, <1>2, <1>4, <1>5, <1>6, <1>7, <1>8

(* The room a frame needs up to a later unit is no less. *)
LEMMA RoomUp ==
  ASSUME Sendable, NEW g \in Int, NEW e \in Int, NEW j \in Int, 1 <= g, g <= e, e <= j, j <= Len(sent) + 1
  PROVE  Room(g, e) \in Nat /\ Room(g, j) \in Nat /\ Room(g, e) <= Room(g, j)
<1>1. AllSeqs(Muxed, g, j, Cell)
  BY UnitsAre
<1>2. e \in g..j /\ g <= j
  OBVIOUS
<1> QED BY <1>1, <1>2, JoinPrefix DEF Room

(* All blocks of a unit are all of it. *)
LEMMA FilledWhole ==
  ASSUME Sendable, NEW e \in DOMAIN sent, NEW g \in Int, 1 <= g, g <= e, len \in Nat,
         Filled(g, e, Nb(e), buf, len)
  PROVE  Holds(0, Join(Muxed, g, e + 1))
<1>1. /\ len = Room(g, e) + Covered(e, sent[e], Nb(e))
      /\ \A p \in 1..len : buf[p] = Join(Muxed, g, e + 1)[p]
  BY DEF Filled
<1>2. Room(g, e + 1) = Room(g, e) + Covered(e, sent[e], Nb(e))
  BY RoomIs
<1> DEFINE s == Join(Muxed, g, e + 1)
           n == Len(s)
<1>3. n = len /\ \A p \in 1..len : buf[p] = s[p]
  BY <1>1, <1>2 DEF Room
<1> HIDE DEF s, n
<1>4. 0 + n <= len /\ \A p \in 1..n : buf[0 + p] = s[p]
  BY <1>3
<1> QED BY <1>4 DEF Holds, n, s

(* What begins with something that is not empty is not empty. *)
LEMMA PrefixFull ==
  ASSUME NEW s, NEW t, IsPrefix(s, t), s # << >>, s \in Seq(Cell), t \in Seq(Cell)
  PROVE  t # << >>
<1>1. Len(s) <= Len(t)
  BY DEF IsPrefix
<1>2. Len(s) \in Nat /\ Len(s) # 0
  BY EmptySeq, LenProperties
<1>3. Len(t) # 0
  <2>1. Len(t) \in Nat
    BY LenProperties
  <2> QED BY <1>1, <1>2, <2>1
<1> QED BY <1>3

(* What was delivered stays delivered. *)
LEMMA StaysOver ==
  ASSUME out \in Seq(Seq(Cell)), NEW g, NEW e, Arrived(g, e), NEW x \in Seq(Cell), Video(g, e + 1)' = Video(g, e + 1),
         out' = out \/ out' = Append(out, x)
  PROVE  Arrived(g, e)'
<1>1. PICK k \in DOMAIN out : IsPrefix(Video(g, e + 1), out[k])
  BY DEF Arrived
<1>2. k \in DOMAIN out' /\ out'[k] = out[k]
  <2>1. CASE out' = out
    BY <2>1
  <2>2. CASE out' = Append(out, x)
    <3>1. k \in 1..Len(out) /\ Len(out) \in Nat
      BY LenProperties
    <3>2. Len(out') = Len(out) + 1 /\ out'[k] = out[k] /\ out' \in Seq(Seq(Cell))
      BY <2>2, <3>1, AppendProperties
    <3>3. k \in DOMAIN out'
      <4>1. DOMAIN out' = 1..Len(out')
        BY <3>2, LenProperties
      <4> QED BY <3>1, <3>2, <4>1
    <3> QED BY <3>2, <3>3
  <2> QED BY <2>1, <2>2
<1>3. ASSUME NEW v, v = Video(g, e + 1), IsPrefix(v, out[k]) PROVE IsPrefix(v, out'[k])
  BY <1>2, <1>3
<1>4. IsPrefix(Video(g, e + 1), out'[k])
  BY <1>1, <1>3
<1>5. IsPrefix(Video(g, e + 1)', out'[k])
  BY <1>4
<1> QED BY <1>2, <1>5 DEF Arrived

(* The block that arrives is one of unit e: it comes behind what is there. *)
LEMMA JoinsFrame ==
  ASSUME TypeOK, Sendable, StartFrame \/ JoinPacket, NEW pos, NetInv(pos), NEW e \in Unhurt,
         pos[e] < 1, 1 <= pos[e] + Nb(e),
         NEW g \in Int, 1 <= g, g <= e, Room(g, e + 1) <= RecvMax,
         NEW l \in 0..Len(buf), l = 0 \/ l = len, Filled(g, e, -pos[e], buf, l),
         l = 0 <=> (len = 0 \/ (pos[e] = 0 /\ e \in Openers))
  PROVE  /\ Filled(g, e, 1 - pos[e], buf', len') /\ len' = l + Len(net[1].cells)
         /\ 1 - pos[e] \in 1..Nb(e)
<1> DEFINE start == StartsFrame(Head(net)) /\ len > 0
           p == pos[e]
           b == 1 - p
<1>1. net # << >> /\ e \in DOMAIN sent /\ p \in Int /\ len \in Nat /\ 1 \in 1..Len(net)
  <2>1. net # << >>
    BY ReceiveIs
  <2> QED BY <2>1, PosIs, HeadIs DEF TypeOK
<1>2. net[1].nal = e
  BY <1>1, HeadOf
<1>3. b \in 1..Nb(e) /\ net[1] = Packet(e, sent[e], b) /\ (StartsFrame(Head(net)) <=> (b = 1 /\ e \in Openers))
  BY <1>1, <1>2, HeadUnit
<1>4. b = 1 <=> p = 0
  BY <1>1
<1>5. (IF start THEN 0 ELSE len) = l
  BY <1>1, <1>3, <1>4
<1>6. buf' = fillFrameBuff(l, net[1].cells).buf /\ len' = fillFrameBuff(l, net[1].cells).len
  <2>1. LET new == fillFrameBuff(IF start THEN 0 ELSE len, net[1].cells)
        IN  buf' = new.buf /\ len' = new.len
    BY ReceiveIs
  <2> HIDE DEF start
  <2> QED BY <2>1, <1>5
<1>7. /\ Covered(e, sent[e], b - 1) \in Nat /\ Covered(e, sent[e], b) \in Nat
      /\ Covered(e, sent[e], b - 1) < Covered(e, sent[e], b)
      /\ Covered(e, sent[e], b) <= Len(h264PsMux(e, sent[e]))
  BY <1>1, <1>3, CoveredUp
<1>8. /\ Room(g, e) \in Nat /\ Len(h264PsMux(e, sent[e])) \in Nat
      /\ Room(g, e + 1) = Room(g, e) + Len(h264PsMux(e, sent[e]))
  BY <1>1, RoomIs
<1> DEFINE c == Covered(e, sent[e], b - 1)
           d == Covered(e, sent[e], b)
           r == Room(g, e)
           m == Len(h264PsMux(e, sent[e]))
           n == Len(net[1].cells)
<1>9. r + d <= RecvMax
  <2>1. r + m <= RecvMax /\ d <= m /\ r \in Nat /\ m \in Nat /\ d \in Nat
    BY <1>7, <1>8
  <2> HIDE DEF r, d, m
  <2> QED BY <2>1, Constants
<1>10. Filled(g, e, b, buf', len')
  <2>1. LET new == fillFrameBuff(l, net[1].cells) IN Filled(g, e, b, new.buf, new.len)
    BY <1>1, <1>2, <1>9, FillsHead
  <2> QED BY <2>1, <1>6
<1>11. n = d - c
  <2>1. e \in Nat /\ sent[e] \in Nal /\ sent[e].type # "other" /\ b \in 1..NumBlocks(e, sent[e])
    BY <1>1, <1>3, NbIs DEF Nb
  <2>2. Len(Packet(e, sent[e], b).cells) = Covered(e, sent[e], b) - Covered(e, sent[e], b - 1)
    BY <2>1, BlockIs
  <2> QED BY <1>3, <2>2
<1>12. l = r + c
  <2>1. b - 1 = -p
    BY <1>1
  <2>2. Filled(g, e, b - 1, buf, l)
    BY <2>1
  <2> QED BY <2>2 DEF Filled
<1>13. len' = r + d
  BY <1>10 DEF Filled
<1>14. len' = l + n
  <2>1. r \in Nat /\ c \in Nat /\ d \in Nat
    BY <1>7, <1>8
  <2> HIDE DEF r, c, d, n
  <2> QED BY <2>1, <1>11, <1>12, <1>13
<1> QED BY <1>3, <1>10, <1>14

(* What arrives behind a whole frame either delivers it or comes behind it. *)
LEMMA BehindFrame ==
  ASSUME TypeOK, Sendable, StartFrame \/ JoinPacket,
         NEW g \in Int, NEW e \in DOMAIN sent, 1 <= g, g <= e, Holds(0, Join(Muxed, g, e + 1))
  PROVE  /\ StartsFrame(Head(net)) => Arrived(g, e)'
         /\ ~StartsFrame(Head(net)) /\ len + Len(net[1].cells) <= RecvMax =>
              len' = len + Len(net[1].cells) /\ Holds(0, Join(Muxed, g, e + 1))'
<1> DEFINE start == StartsFrame(Head(net)) /\ len > 0
           h == e + 1
           s == Join(Muxed, g, h)
           n == Len(s)
           cells == net[1].cells
<1>1. /\ net # << >> /\ sent' = sent
      /\ LET new == fillFrameBuff(IF start THEN 0 ELSE len, cells)
         IN  buf' = new.buf /\ len' = new.len
      /\ out' = IF start /\ cutPsHeader # << >> THEN Append(out, cutPsHeader) ELSE out
  BY ReceiveIs
<1>2. /\ buf \in Seq(Cell) /\ Len(buf) <= RecvMax /\ len \in 0..Len(buf) /\ len \in Nat
      /\ out \in Seq(Seq(Cell) \ {<< >>})
  BY DEF TypeOK
<1>3. e \in Int /\ h \in Int /\ g <= h /\ g < h /\ h <= Len(sent) + 1
  BY NbIs
<1>4. /\ Video(g, h) # << >> /\ Video(g, h) \in Seq(Cell) /\ Room(g, h) \in Nat /\ Room(g, h) > 0
  BY <1>3, FrameFull
<1>5. cells \in Seq(Cell)
  BY <1>1, HeadIs
<1>6. n \in Nat /\ n > 0 /\ 0 + n <= len /\ \A q \in 1..n : buf[0 + q] = s[q]
  BY <1>4 DEF Room, Holds
<1>7. len > 0
  <2> HIDE DEF n, s
  <2> QED BY <1>2, <1>6
<1>8. /\ Join(Muxed, g, h)' = Join(Muxed, g, h) /\ Video(g, h)' = Video(g, h)
  BY <1>1, SameUnits
<1>9. ASSUME StartsFrame(Head(net)) PROVE Arrived(g, e)'
  <2>1. start
    BY <1>7, <1>9
  <2>2. cutPsHeader \in Seq(Cell) /\ IsPrefix(Video(g, h), cutPsHeader)
    BY <1>2, <1>3, Cuts
  <2>3. cutPsHeader # << >>
    BY <1>4, <2>2, PrefixFull
  <2>4. out' = Append(out, cutPsHeader)
    BY <2>1, <2>3, <1>1
  <2> DEFINE x == cutPsHeader
             k == Len(out) + 1
  <2>5. x \in Seq(Cell) \ {<< >>}
    BY <2>2, <2>3
  <2>6. out' = Append(out, x)
    BY <2>4
  <2> HIDE DEF x
  <2>7. Len(out') = k /\ out'[k] = x /\ out' \in Seq(Seq(Cell) \ {<< >>}) /\ Len(out) \in Nat
    BY <2>5, <2>6, <1>2, AppendProperties, LenProperties
  <2>8. k \in DOMAIN out'
    <3>1. DOMAIN out' = 1..Len(out')
      BY <2>7, LenProperties
    <3> QED BY <3>1, <2>7
  <2>9. IsPrefix(Video(g, h)', out'[k])
    <3>1. IsPrefix(Video(g, h)', x)
      BY <2>2, <1>8 DEF x
    <3> QED BY <3>1, <2>7
  <2> HIDE DEF k
  <2>10. \E i \in DOMAIN out' : IsPrefix(Video(g, h)', out'[i])
    BY <2>8, <2>9
  <2> QED BY <2>10 DEF Arrived
<1>10. ASSUME ~StartsFrame(Head(net)), len + Len(cells) <= RecvMax
       PROVE  len' = len + Len(cells) /\ Holds(0, Join(Muxed, g, h))'
  <2>1. buf' = fillFrameBuff(len, cells).buf /\ len' = fillFrameBuff(len, cells).len
    <3>1. ~start
      BY <1>10
    <3> HIDE DEF start, cells
    <3> QED BY <3>1, <1>1
  <2>2. /\ len' = len + Len(cells) /\ \A p \in 1..len : buf'[p] = buf[p]
    <3> HIDE DEF cells
    <3>1. LET new == fillFrameBuff(len, cells)
          IN  new.len = len + Len(cells) /\ \A p \in 1..len : new.buf[p] = buf[p]
      BY <1>2, <1>5, <1>10, FillIs
    <3> QED BY <2>1, <3>1
  <2>3. Len(cells) \in Nat
    BY <1>5, LenProperties
  <2> DEFINE m == Len(cells)
  <2>4. m \in Nat /\ len' = len + m
    BY <2>2, <2>3
  <2> HIDE DEF m, n, s
  <2>5. 0 + n <= len' /\ \A q \in 1..n : buf'[0 + q] = s[q]
    <3>1. 0 + n <= len'
      BY <2>4, <1>2, <1>6
    <3>2. \A q \in 1..n : q \in 1..len /\ 0 + q = q
      BY <1>2, <1>6
    <3> QED BY <3>1, <3>2, <2>2, <1>6
  <2>6. Holds(0, s)'
    <3>1. s' = s
      BY <1>8 DEF s
    <3>2. n' = n
      BY <3>1 DEF n
    <3> QED BY <2>5, <3>1, <3>2 DEF Holds, n
  <2> QED BY <2>2, <2>6 DEF s
<1> QED BY <1>9, <1>10

(* What the first packet counts *)
LEMMA FirstSum ==
  ASSUME TypeOK, net # << >>, NEW cum, Sums(cum)
  PROVE  /\ cum[1] = cum[0] + Len(net[1].cells) /\ cum[0] \in Nat /\ Len(net[1].cells) \in Nat
         /\ 0 \in 0..Len(net) /\ 1 \in 0..Len(net) /\ \A p \in 1..Len(net) : cum[p] \in Nat /\ cum[1] <= cum[p]
<1>1. 1 \in 1..Len(net) /\ Len(net) \in Nat /\ Len(net[1].cells) \in Nat
  BY HeadIs, NetIs
<1>2. 0 \in 0..Len(net) /\ 1 \in 0..Len(net) /\ 1 - 1 = 0
  BY <1>1
<1>3. cum \in [0..Len(net) -> Nat] /\ cum[1] = cum[1 - 1] + Len(net[1].cells)
  BY <1>1 DEF Sums
<1>4. cum[0] \in Nat
  BY <1>2, <1>3
<1>5. ASSUME NEW p \in 1..Len(net) PROVE cum[p] \in Nat /\ cum[1] <= cum[p]
  BY <1>2, SumsRise
<1>6. cum[1] = cum[0] + Len(net[1].cells)
  BY <1>2, <1>3
<1> QED BY <1>1, <1>2, <1>4, <1>5, <1>6

(* What is asked after a packet came was asked before, of the unit or of the one
   before it. *)
LEMMA AskedBefore ==
  ASSUME TypeOK, Sendable, net # << >>, UNCHANGED <<sent, faults, hurt>>, NEW pos, NetInv(pos),
         NEW q, q = [i \in 1..(Len(sent) + 1) |-> pos[i] - 1],
         NEW g, NEW e, NEW j, Asked(q, g, e, j)'
  PROVE  /\ g \in Openers /\ e \in DOMAIN sent /\ j \in UnhurtOrNext /\ g <= e /\ e < j /\ Alone(g, e)
         /\ Room(g, j) + faults * Block <= RecvMax
         /\ pos[e] <= 0 /\ (pos[j] >= 1 \/ j \in Openers)
         /\ q[e] = pos[e] - 1 /\ q[j] = pos[j] - 1
<1>1. Openers' = Openers /\ (\A x, y : Room(x, y)' = Room(x, y)) /\ UnhurtOrNext' = UnhurtOrNext /\ Unhurt' = Unhurt
  BY SameUnits DEF UnhurtOrNext, Unhurt
<1>2. /\ g \in Openers /\ e \in DOMAIN sent /\ j \in UnhurtOrNext /\ g <= e /\ e < j
      /\ Room(g, j) + faults * Block <= RecvMax
      /\ q[e] < 0 /\ (q[j] >= 0 \/ j \in Openers)
  BY <1>1 DEF Asked
<1>3. Alone(g, e)
  BY <1>1 DEF Asked, Alone
<1>4. /\ e \in 1..Len(sent) /\ j \in 1..(Len(sent) + 1) /\ Len(sent) \in Nat
      /\ pos[e] \in Int /\ pos[j] \in Int
  BY <1>2, <1>3, AskedIs
<1>5. q[e] = pos[e] - 1 /\ q[j] = pos[j] - 1
  <2>1. e \in 1..(Len(sent) + 1)
    BY <1>4
  <2> QED BY <2>1, <1>4
<1>6. pos[e] <= 0 /\ (pos[j] >= 1 \/ j \in Openers)
  BY <1>2, <1>4, <1>5
<1> QED BY <1>2, <1>3, <1>5, <1>6

(* A packet arrives. *)
LEMMA FrameReceive ==
  ASSUME TypeOK, Sendable, StartFrame \/ JoinPacket, NEW pos, NetInv(pos), NEW cum, LoadInv(pos, cum),
         FrameInv(pos, cum), NEW q, q = [i \in 1..(Len(sent) + 1) |-> pos[i] - 1],
         NEW c, c = [p \in 0..(Len(net) - 1) |-> cum[p + 1]]
  PROVE  FrameInv(q, c)'
<1> SUFFICES ASSUME NEW g, NEW e, NEW j, Asked(q, g, e, j)'
             PROVE  Over(q, g, e)' \/ Under(q, c, g, e, j)'
  BY DEF FrameInv
<1> DEFINE a == pos[e]
           b == pos[j]
           n == Nb(e)
           L == Len(net[1].cells)
           N == Len(net)
<1>1. /\ net # << >> /\ net' = Tail(net) /\ UNCHANGED <<sent, faults, hurt>>
      /\ out' = out \/ out' = Append(out, cutPsHeader)
  BY ReceiveIs
<1>2. /\ g \in Openers /\ e \in DOMAIN sent /\ j \in UnhurtOrNext /\ g <= e /\ e < j /\ Alone(g, e)
      /\ Room(g, j) + faults * Block <= RecvMax
      /\ a <= 0 /\ (b >= 1 \/ j \in Openers)
      /\ q[e] = a - 1 /\ q[j] = b - 1
  BY <1>1, AskedBefore
<1>3. /\ g \in 1..Len(sent) /\ e \in 1..Len(sent) /\ j \in 1..(Len(sent) + 1)
      /\ g \in Int /\ e \in Int /\ j \in Int /\ 1 <= g /\ Len(sent) \in Nat
      /\ g \in Unhurt /\ e \in Unhurt /\ g \in UnhurtOrNext /\ e \in UnhurtOrNext
      /\ a \in Int /\ b \in Int /\ n \in Nat /\ n > 0 /\ a + n <= b
      /\ e + 1 \in Unhurt => pos[e + 1] = a + n
  BY <1>2, AskedIs
<1>4. /\ cum[1] = cum[0] + L /\ cum[0] \in Nat /\ L \in Nat /\ N \in Nat /\ N > 0
      /\ \A p \in 1..N : cum[p] \in Nat /\ cum[1] <= cum[p]
  <2>1. Sums(cum)
    BY DEF LoadInv
  <2>2. N \in Nat /\ N > 0
    <3>1. 1 \in 1..N /\ N \in Nat
      BY <1>1, HeadIs
    <3> HIDE DEF N
    <3> QED BY <3>1
  <2> QED BY <1>1, <2>1, <2>2, FirstSum
<1>5. /\ Openers' = Openers /\ Unhurt' = Unhurt
      /\ \A x, y : Room(x, y)' = Room(x, y) /\ Video(x, y)' = Video(x, y) /\ Join(Muxed, x, y)' = Join(Muxed, x, y)
      /\ \A x : Nb(x)' = Nb(x)
  BY <1>1, SameUnits DEF Unhurt
<1>6. /\ len \in 0..Len(buf) /\ 0 \in 0..Len(buf) /\ len \in Nat /\ buf \in Seq(Cell) /\ faults \in Nat
      /\ out \in Seq(Seq(Cell)) /\ RecvMax \in Nat /\ Block \in Nat
  <2>1. out \in Seq(Seq(Cell))
    BY DEF TypeOK
  <2> QED BY <2>1, Constants DEF TypeOK
<1>7. b >= 0 => b \in 0..N
  BY <1>2, InNet
<1>8. /\ Room(g, e + 1) \in Nat /\ Room(g, j) \in Nat /\ Room(g, e + 1) <= Room(g, j)
      /\ Room(g, e + 1) <= RecvMax
  <2>1. g <= e + 1 /\ e + 1 <= j /\ j <= Len(sent) + 1 /\ e + 1 \in Int
    BY <1>2, <1>3
  <2>2. Room(g, e + 1) \in Nat /\ Room(g, j) \in Nat /\ Room(g, e + 1) <= Room(g, j)
    BY <2>1, <1>3, RoomUp
  <2> DEFINE x == Room(g, e + 1)
             y == Room(g, j)
             f == faults * Block
  <2>3. f \in Nat /\ y + f <= RecvMax /\ x \in Nat /\ y \in Nat /\ x <= y
    BY <2>2, <1>2, <1>6
  <2> HIDE DEF x, y, f
  <2>4. x <= RecvMax
    BY <2>3, <1>6
  <2> QED BY <2>2, <2>4 DEF x
<1>9. ASSUME b >= 1, Open(g, e, 1 - a)', len' + cum[b] - cum[1] <= Room(g, j) + faults * Block
      PROVE  Under(q, c, g, e, j)'
  <2>1. q[j] >= 0
    BY <1>2, <1>3, <1>9
  <2>2. -q[e] = 1 - a
    BY <1>2, <1>3
  <2>3. c[q[j]] = cum[b] /\ c[0] = cum[1]
    <3> HIDE DEF a, b, n, L
    <3>1. b - 1 \in 0..(N - 1) /\ (b - 1) + 1 = b /\ 0 \in 0..(N - 1) /\ 0 + 1 = 1
      BY <1>3, <1>4, <1>7, <1>9
    <3> QED BY <3>1, <1>2
  <2>4. Open(g, e, -q[e])'
    <3> HIDE DEF a
    <3> QED BY <2>2, <1>9
  <2> QED BY <2>1, <2>3, <2>4, <1>1, <1>5, <1>9 DEF Under
<1>10. ASSUME a + n >= 1, NEW l \in 0..Len(buf), l = 0 \/ l = len, Filled(g, e, -a, buf, l),
              l = 0 <=> (len = 0 \/ (a = 0 /\ e \in Openers)),
              l + cum[b] - cum[0] <= Room(g, j) + faults * Block
       PROVE  Under(q, c, g, e, j)'
  <2>1. b >= 1
    <3> HIDE DEF a, b, n, L, N
    <3> QED BY <1>3, <1>10
  <2>2. /\ Filled(g, e, 1 - a, buf', len') /\ len' = l + L /\ 1 - a \in 1..n
    <3>1. a < 1 /\ 1 <= a + n
      <4> HIDE DEF a, b, n, L, N
      <4> QED BY <1>2, <1>3, <1>10
    <3> QED BY <3>1, <1>2, <1>3, <1>8, <1>10, JoinsFrame
  <2>3. Open(g, e, 1 - a)'
    <3>1. Filled(g, e, 1 - a, buf, len)'
      BY <2>2, <1>1, <1>5 DEF Filled
    <3>2. ~(1 - a > n)
      <4> HIDE DEF a, n
      <4> QED BY <2>2, <1>3
    <3> QED BY <3>1, <3>2, <1>5 DEF Open
  <2>4. len' + cum[b] - cum[1] <= Room(g, j) + faults * Block
    <3> DEFINE x == cum[b]
               y == cum[0]
               z == cum[1]
               r == Room(g, j) + faults * Block
    <3>1. b \in 1..N
      <4> HIDE DEF a, n, L
      <4> QED BY <2>1, <1>3, <1>4, <1>7
    <3>2. x \in Nat
      BY <3>1, <1>4
    <3>3. z = y + L /\ y \in Nat /\ L \in Nat /\ l \in Nat /\ l + x - y <= r /\ len' = l + L
      BY <2>2, <1>4, <1>6, <1>10
    <3>4. r \in Nat
      <4>1. faults * Block \in Nat /\ Room(g, j) \in Nat
        BY <1>6, <1>8
      <4> HIDE DEF x, y, z
      <4> QED BY <4>1
    <3> HIDE DEF x, y, z, r, L
    <3>5. len' + x - z <= r
      BY <3>2, <3>3, <3>4
    <3> QED BY <3>5 DEF x, z, r
  <2> QED BY <2>1, <2>3, <2>4, <1>9
<1>11. ASSUME NEW f, g <= f, f <= e, f \in Int, pos[f] < 0, b >= 0
       PROVE  Over(pos, g, f) \/ Under(pos, cum, g, f, j)
  <2>1. f \in DOMAIN sent /\ f < j
    <3>1. f \in 1..Len(sent) /\ f < j
      BY <1>2, <1>3, <1>11
    <3> QED BY <3>1, NetIs
  <2>2. Alone(g, f)
    <3>1. \A i \in g..f : i \in g..e
      BY <1>3, <1>11
    <3> QED BY <3>1, <1>2 DEF Alone
  <2>3. Asked(pos, g, f, j)
    BY <2>1, <2>2, <1>2, <1>11 DEF Asked
  <2> QED BY <2>3 DEF FrameInv
<1>12. CASE a = 0 /\ e = g
  <2>1. b >= 0 /\ -a = 0 /\ a + n >= 1
    <3>1. a <= 0 /\ a >= 0
      BY <1>12
    <3> HIDE DEF a, b, n, L, N
    <3> QED BY <1>3, <3>1
  <2>2. Filled(g, e, -a, buf, 0)
    <3>1. Filled(e, e, 0, buf, 0)
      BY <1>2, FillsFirst
    <3> HIDE DEF a
    <3> QED BY <2>1, <3>1, <1>12
  <2>3. 0 + cum[b] - cum[0] <= Room(g, j) + faults * Block
    <3>1. pos[g] = 0 /\ g < j
      BY <1>2, <1>12
    <3>2. pos[g] >= 0
      BY <3>1
    <3>3. cum[pos[j]] - cum[pos[g]] <= Room(g, j) + faults * Block
      BY <3>1, <3>2, <1>2, <1>3 DEF LoadInv, Bounded
    <3>4. cum[b] - cum[0] <= Room(g, j) + faults * Block
      BY <3>1, <3>3
    <3>5. cum[b] \in Nat
      <4>1. b \in 0..N
        BY <2>1, <1>7
      <4> QED BY <4>1, <1>4 DEF LoadInv, Sums
    <3> DEFINE x == cum[b]
               y == cum[0]
               r == Room(g, j) + faults * Block
    <3>6. x \in Nat /\ y \in Nat /\ x - y <= r
      BY <3>4, <3>5, <1>4
    <3> HIDE DEF x, y, r
    <3>7. 0 + x - y <= r
      BY <3>6
    <3> QED BY <3>7 DEF x, y, r
  <2>4. e \in Openers
    BY <1>2, <1>12
  <2> HIDE DEF a, b, n, L, N
  <2> QED BY <2>1, <2>2, <2>3, <2>4, <1>6, <1>10, <1>12
<1>13. CASE a = 0 /\ e # g
  <2> DEFINE f == e - 1
             m == Nb(f)
  <2>1. f \in Int /\ f + 1 = e /\ g <= f /\ f <= e /\ f \in g..e /\ e \in g..e /\ e > g
    BY <1>2, <1>3, <1>13
  <2> HIDE DEF f
  <2>2. f \in Unhurt /\ e \notin Openers
    BY <2>1, <1>2 DEF Alone
  <2>3. f \in DOMAIN sent /\ m \in Nat /\ m > 0 /\ a = pos[f] + m /\ pos[f] \in Int
    BY <2>1, <2>2, <1>3, PosIs
  <2>4. b >= 0 /\ -a = 0 /\ a + n >= 1
    <3>1. a <= 0 /\ a >= 0
      BY <1>13
    <3> HIDE DEF a, b, n, m, L, N
    <3> QED BY <1>3, <3>1
  <2>5. pos[f] < 0 /\ -pos[f] = m
    <3> DEFINE z == pos[f]
    <3>1. z \in Int /\ 0 = z + m
      BY <2>3, <1>13
    <3> HIDE DEF a, b, n, m, z
    <3>2. z < 0 /\ -z = m
      BY <3>1, <2>3
    <3> QED BY <3>2 DEF z
  <2>6. Over(pos, g, f) \/ Under(pos, cum, g, f, j)
    BY <2>1, <2>4, <2>5, <1>11
  <2>7. ~Over(pos, g, f)
    <3>1. f + 1 \in Unhurt /\ pos[f + 1] = 0
      BY <2>1, <1>3, <1>13
    <3>2. ~(pos[f + 1] < 0)
      BY <3>1
    <3> QED BY <3>1, <3>2 DEF Over
  <2>8. Under(pos, cum, g, f, j)
    BY <2>6, <2>7
  <2>9. Filled(g, f, m, buf, len) /\ len + cum[b] - cum[0] <= Room(g, j) + faults * Block
    <3>1. Open(g, f, -pos[f]) /\ len + cum[b] - cum[0] <= Room(g, j) + faults * Block
      BY <2>8 DEF Under
    <3>2. m <= m
      BY <2>3
    <3> QED BY <2>5, <3>1, <3>2 DEF Open
  <2>10. Filled(g, f + 1, 0, buf, len)
    BY <2>1, <2>3, <2>9, <1>2, <1>3, FillsUp
  <2>11. Filled(g, e, -a, buf, len)
    <3> HIDE DEF a
    <3> QED BY <2>1, <2>4, <2>10
  <2>12. (len = 0) <=> (len = 0 \/ (a = 0 /\ e \in Openers))
    BY <2>2
  <2> HIDE DEF a, b, n, L, N
  <2> QED BY <2>4, <2>9, <2>11, <2>12, <1>6, <1>10
<1>14. CASE a # 0
  <2>1. a < 0 /\ q[e] < 0
    BY <1>2, <1>3, <1>14
  <2>2. Over(pos, g, e) \/ Under(pos, cum, g, e, j)
    <3>1. Asked(pos, g, e, j)
      <4>1. b >= 0 \/ j \in Openers
        BY <1>2, <1>3
      <4> QED BY <4>1, <2>1, <1>2 DEF Asked
    <3> QED BY <3>1 DEF FrameInv
  <2>3. CASE Over(pos, g, e)
    <3>1. Arrived(g, e) /\ e + 1 <= Len(sent) /\ (e + 1 \in Unhurt => pos[e + 1] < 0)
      BY <2>3 DEF Over
    <3>2. Arrived(g, e)'
      <4>1. cutPsHeader \in Seq(Cell)
        BY <1>6, ScanIs DEF ScanState
      <4> QED BY <3>1, <4>1, <1>1, <1>5, <1>6, StaysOver
    <3>3. e + 1 \in Unhurt => q[e + 1] < 0
      <4> SUFFICES ASSUME e + 1 \in Unhurt PROVE q[e + 1] < 0
        OBVIOUS
      <4>1. pos[e + 1] \in Int /\ pos[e + 1] < 0 /\ e + 1 \in 1..(Len(sent) + 1)
        <5>1. pos[e + 1] \in Int
          BY PosIs
        <5> QED BY <3>1, <5>1, <1>3
      <4>2. q[e + 1] = pos[e + 1] - 1
        BY <4>1
      <4> QED BY <4>1, <4>2
    <3> QED BY <3>1, <3>2, <3>3, <1>1, <1>5 DEF Over
  <2>4. CASE Under(pos, cum, g, e, j)
    <3>1. b >= 0 /\ Open(g, e, -a) /\ len + cum[b] - cum[0] <= Room(g, j) + faults * Block
      BY <2>4 DEF Under
    <3>2. CASE a + n >= 1
      <4>1. -a <= n
        <5> HIDE DEF a, b, n, L, N
        <5> QED BY <3>2, <1>3
      <4>2. Filled(g, e, -a, buf, len)
        BY <4>1, <3>1 DEF Open
      <4>3. (len = 0) <=> (len = 0 \/ (a = 0 /\ e \in Openers))
        BY <1>14
      <4> HIDE DEF a, b, n, L, N
      <4> QED BY <4>2, <4>3, <3>1, <3>2, <1>6, <1>10
    <3>3. CASE ~(a + n >= 1)
      <4>1. a + n <= 0 /\ 1 - a > n
        <5> HIDE DEF a, b, n, L, N
        <5> QED BY <3>3, <1>3
      <4>2. Holds(0, Join(Muxed, g, e + 1))
        <5>1. CASE -a <= n
          <6>1. -a = n
            <7> HIDE DEF a, b, n, L, N
            <7> QED BY <4>1, <5>1, <1>3
          <6>2. Filled(g, e, -a, buf, len)
            BY <5>1, <3>1 DEF Open
          <6>3. Filled(g, e, Nb(e), buf, len)
            <7> HIDE DEF a
            <7> QED BY <6>1, <6>2
          <6> QED BY <6>3, <1>2, <1>3, <1>6, FilledWhole
        <5>2. CASE ~(-a <= n)
          <6>1. -a > n
            <7> HIDE DEF a, b, n, L, N
            <7> QED BY <5>2, <1>3
          <6> QED BY <6>1, <3>1 DEF Open
        <5> QED BY <5>1, <5>2
      <4>3. /\ StartsFrame(Head(net)) => Arrived(g, e)'
            /\ ~StartsFrame(Head(net)) /\ len + L <= RecvMax =>
                 len' = len + L /\ Holds(0, Join(Muxed, g, e + 1))'
        BY <4>2, <1>2, <1>3, BehindFrame
      <4>4. CASE StartsFrame(Head(net))
        <5>1. Arrived(g, e)'
          BY <4>3, <4>4
        <5>2. e + 1 <= Len(sent)
          <6> SUFFICES ASSUME e = Len(sent) PROVE FALSE
            BY <1>3
          <6>1. Len(sent) + 1 \in UnhurtOrNext
            BY NetIs DEF TypeOK, UnhurtOrNext
          <6>2. pos[Len(sent) + 1] = a + n
            BY <6>1, <1>3, PosIs
          <6>3. pos[Len(sent) + 1] = N
            BY DEF NetInv, PosOK
          <6> HIDE DEF a, n, N
          <6> QED BY <4>1, <6>2, <6>3, <1>4
        <5>3. e + 1 \in Unhurt => q[e + 1] < 0
          <6> SUFFICES ASSUME e + 1 \in Unhurt PROVE q[e + 1] < 0
            OBVIOUS
          <6>1. pos[e + 1] = a + n /\ e + 1 \in 1..(Len(sent) + 1)
            BY <5>2, <1>3
          <6>2. q[e + 1] = pos[e + 1] - 1
            BY <6>1
          <6> HIDE DEF a, n, N
          <6> QED BY <4>1, <6>1, <6>2, <1>3
        <5> QED BY <5>1, <5>2, <5>3, <1>1, <1>5 DEF Over
      <4>5. CASE ~StartsFrame(Head(net))
        <5>1. b >= 1
          <6> SUFFICES ASSUME b = 0 PROVE FALSE
            BY <3>1, <1>3
          <6>1. j \in Openers
            BY <1>2
          <6>2. j \in Unhurt /\ Nb(j) \in Nat /\ Nb(j) > 0
            <7>1. j \in Unhurt
              BY <6>1, <1>2 DEF Unhurt, UnhurtOrNext, Openers
            <7> QED BY <7>1, PosIs
          <6>3. pos[j] < 1 /\ 1 <= pos[j] + Nb(j) /\ 1 - pos[j] = 1
            <7> DEFINE m == Nb(j)
            <7>1. m \in Nat /\ m > 0
              BY <6>2
            <7> HIDE DEF m
            <7>2. 0 < 1 /\ 1 <= 0 + m /\ 1 - 0 = 1
              BY <7>1
            <7> QED BY <7>2 DEF m
          <6>4. net[1].nal = j
            BY <6>2, <6>3, <1>1, HeadOf
          <6>5. StartsFrame(Head(net))
            BY <6>1, <6>2, <6>3, <6>4, <1>1, HeadUnit
          <6> QED BY <6>5, <4>5
        <5>2. b \in 1..N
          <6> HIDE DEF a, b, n, L, N
          <6> QED BY <5>1, <1>3, <1>4, <1>7
        <5> DEFINE x == cum[b]
                   y == cum[0]
                   z == cum[1]
                   r == Room(g, j) + faults * Block
        <5>3. x \in Nat /\ z <= x /\ z = y + L /\ y \in Nat /\ L \in Nat
          BY <5>2, <1>4
        <5>4. r \in Nat /\ r <= RecvMax /\ len + x - y <= r
          <6>1. faults * Block \in Nat /\ Room(g, j) \in Nat
            BY <1>6, <1>8
          <6> QED BY <6>1, <3>1, <1>2, <1>8
        <5> HIDE DEF x, y, z, r, L
        <5>5. len + L <= RecvMax
          BY <5>3, <5>4, <1>6
        <5>6. len' = len + L /\ Holds(0, Join(Muxed, g, e + 1))'
          BY <4>3, <4>5, <5>5
        <5>7. len' + x - z <= r
          BY <5>3, <5>4, <5>6, <1>6
        <5>8. Open(g, e, 1 - a)'
          <6>1. ~(1 - a <= n)
            <7> HIDE DEF a, n
            <7> QED BY <4>1, <1>3
          <6>2. 1 - a > n
            BY <4>1
          <6> QED BY <6>1, <6>2, <5>6, <1>5 DEF Open
        <5>9. Under(q, c, g, e, j)'
          BY <5>1, <5>7, <5>8, <1>9 DEF x, z, r
        <5> QED BY <5>9
      <4> QED BY <4>4, <4>5
    <3> QED BY <3>2, <3>3
  <2> QED BY <2>2, <2>3, <2>4
<1> QED BY <1>12, <1>13, <1>14

(* A unit that is sent is not before what was asked. *)
LEMMA AskedAtSend ==
  ASSUME TypeOK, Sendable, NEW nal \in Nal, inputFrameData(nal), NEW pos, NetInv(pos),
         NEW q, q = [i \in 1..(Len(sent) + 2) |-> IF i <= Len(sent) + 1 THEN pos[i] ELSE Len(net')],
         NEW u, u = Len(sent) + 1, NEW g, NEW e, NEW j, Asked(q, g, e, j)'
  PROVE  /\ g \in Openers /\ e \in DOMAIN sent /\ g <= e /\ e < j /\ Alone(g, e)
         /\ Room(g, j)' + faults * Block <= RecvMax /\ pos[e] < 0 /\ q[e] = pos[e]
         /\ (j \in 1..u /\ j \in UnhurtOrNext /\ (pos[j] >= 0 \/ j \in Openers) /\ q[j] = pos[j])
            \/ (j = u + 1 /\ u \in UnhurtOrNext /\ pos[u] = Len(net) /\ q[j] = Len(net'))
         /\ e + 1 <= u /\ q[e + 1] = pos[e + 1] /\ sent'[e] = sent[e]
<1>1. /\ Len(sent) \in Nat /\ u \in Nat /\ DOMAIN sent = 1..Len(sent) /\ DOMAIN sent' = 1..u /\ Len(sent') = u
      /\ Len(sent) = u - 1 /\ \A k \in 1..Len(sent) : sent'[k] = sent[k]
  BY SendIs
<1>2. UNCHANGED <<faults, hurt, buf, len, out>> /\ hurt \subseteq 1..Len(sent)
  BY <1>1 DEF inputFrameData, TypeOK
<1>3. pos \in [1..u -> Int] /\ pos[u] = Len(net) /\ Len(net) \in Nat
  BY NetIs DEF NetInv, PosOK
<1>4. /\ \A i \in 1..u : q[i] = pos[i]
      /\ q[u + 1] = Len(net')
  <2>1. \A i \in 1..u : i \in 1..(Len(sent) + 2) /\ i <= Len(sent) + 1
    BY <1>1
  <2>2. u + 1 \in 1..(Len(sent) + 2) /\ ~(u + 1 <= Len(sent) + 1)
    BY <1>1
  <2> QED BY <2>1, <2>2
<1>5. \A i \in 1..Len(sent) : i \in Openers' <=> i \in Openers
  <2> TAKE i \in 1..Len(sent)
  <2>1. i \in DOMAIN sent /\ i \in DOMAIN sent' /\ sent'[i] = sent[i]
    BY <1>1
  <2> QED BY <2>1 DEF Openers
<1>6. /\ g \in Openers' /\ e \in 1..u /\ j \in (1..(u + 1)) \ hurt /\ g <= e /\ e < j /\ Alone(g, e)'
      /\ Room(g, j)' + faults * Block <= RecvMax /\ q[e] < 0 /\ (q[j] >= 0 \/ j \in Openers')
      /\ Openers' \subseteq 1..u
  BY <1>1, <1>2 DEF Asked, UnhurtOrNext, Openers
<1>7. e # u
  <2> SUFFICES ASSUME e = u PROVE FALSE
    OBVIOUS
  <2>1. q[e] = Len(net)
    BY <1>1, <1>3, <1>4
  <2> QED BY <2>1, <1>3, <1>6
<1>8. e \in 1..Len(sent) /\ e \in 1..u /\ g \in 1..Len(sent) /\ e + 1 \in 1..u /\ e + 1 <= u
  BY <1>1, <1>6, <1>7
<1>9. g \in Openers
  BY <1>5, <1>6, <1>8
<1>10. Alone(g, e)
  <2> SUFFICES ASSUME NEW i \in g..e PROVE i \in Unhurt /\ (i > g => i \notin Openers)
    BY DEF Alone
  <2>1. i \in 1..Len(sent)
    BY <1>8
  <2>2. i \in Unhurt' /\ (i > g => i \notin Openers')
    BY <1>6 DEF Alone
  <2>3. i \in DOMAIN sent /\ i \notin hurt
    BY <2>1, <2>2, <1>1, <1>2 DEF Unhurt
  <2> QED BY <2>1, <2>2, <2>3, <1>5 DEF Unhurt
<1>11. UnhurtOrNext = (1..u) \ hurt /\ u \in UnhurtOrNext
  <2>1. UnhurtOrNext = (1..u) \ hurt
    BY DEF UnhurtOrNext
  <2>2. u \in 1..u /\ u \notin hurt
    BY <1>1, <1>2
  <2> QED BY <2>1, <2>2
<1>12. CASE j \in 1..u
  <2>1. j \in UnhurtOrNext /\ q[j] = pos[j]
    BY <1>4, <1>6, <1>11, <1>12
  <2>2. pos[j] >= 0 \/ j \in Openers
    <3>1. CASE j = u
      BY <3>1, <1>3
    <3>2. CASE j # u
      <4>1. j \in 1..Len(sent)
        BY <3>2, <1>1, <1>12
      <4> QED BY <4>1, <2>1, <1>5, <1>6
    <3> QED BY <3>1, <3>2
  <2> QED BY <2>1, <2>2, <1>1, <1>4, <1>6, <1>8, <1>9, <1>10, <1>12
<1>13. CASE j \notin 1..u
  <2>1. j = u + 1
    BY <1>1, <1>6, <1>13
  <2>2. q[j] = Len(net')
    BY <2>1, <1>4
  <2> QED BY <2>1, <2>2, <1>1, <1>3, <1>4, <1>6, <1>8, <1>9, <1>10, <1>11
<1> QED BY <1>12, <1>13

(* A unit is sent. *)
LEMMA FrameSend ==
  ASSUME TypeOK, Sendable, NEW nal \in Nal, inputFrameData(nal), NEW pos, NetInv(pos),
         NEW cum, LoadInv(pos, cum), FrameInv(pos, cum),
         NEW q, q = [i \in 1..(Len(sent) + 2) |-> IF i <= Len(sent) + 1 THEN pos[i] ELSE Len(net')],
         NEW c, c = [p \in 0..Len(net') |->
                       IF p <= Len(net) THEN cum[p]
                       ELSE cum[Len(net)] + Covered(Len(sent) + 1, nal, p - Len(net))]
  PROVE  FrameInv(q, c)'
<1> SUFFICES ASSUME NEW g, NEW e, NEW j, Asked(q, g, e, j)'
             PROVE  Over(q, g, e)' \/ Under(q, c, g, e, j)'
  BY DEF FrameInv
<1>1. PICK u : u = Len(sent) + 1
  OBVIOUS
<1> DEFINE N == Len(net)
           m == NumBlocks(u, nal)
           total == Len(h264PsMux(u, nal))
<1>2. /\ Len(sent) \in Nat /\ u \in Nat /\ nal.type # "other" /\ N \in Nat /\ Len(net') = N + m
      /\ DOMAIN sent = 1..Len(sent) /\ Len(sent) = u - 1 /\ Len(sent') = u
  BY <1>1, SendIs
<1>3. UNCHANGED <<faults, hurt, buf, len, out>> /\ faults \in Nat /\ len \in Nat /\ Block \in Nat /\ RecvMax \in Nat
  BY Constants DEF inputFrameData, TypeOK
<1>4. /\ g \in Openers /\ e \in DOMAIN sent /\ g <= e /\ e < j /\ Alone(g, e)
      /\ Room(g, j)' + faults * Block <= RecvMax /\ pos[e] < 0 /\ q[e] = pos[e]
      /\ (j \in 1..u /\ j \in UnhurtOrNext /\ (pos[j] >= 0 \/ j \in Openers) /\ q[j] = pos[j])
         \/ (j = u + 1 /\ u \in UnhurtOrNext /\ pos[u] = N /\ q[j] = Len(net'))
      /\ e + 1 <= u /\ q[e + 1] = pos[e + 1] /\ sent'[e] = sent[e]
  BY <1>1, AskedAtSend, SMTT(20)
<1>5. /\ \A p \in 0..N : c[p] = cum[p]
      /\ \A k \in 0..m : c[N + k] = cum[N] + Covered(u, nal, k)
  <2>1. Sums(cum) /\ CountedOn(c, cum, nal)
    BY DEF LoadInv, CountedOn
  <2>2. GoesOn(c, cum, nal)
    BY <2>1, <1>1, SumsOn
  <2>3. /\ \A p \in 0..Len(net) : c[p] = cum[p]
        /\ \A k \in 0..NumBlocks(Len(sent) + 1, nal) :
             c[Len(net) + k] = cum[Len(net)] + Covered(Len(sent) + 1, nal, k)
    BY <2>2 DEF GoesOn
  <2> QED BY <2>3, <1>1
<1>6. m \in Nat /\ Covered(u, nal, m) = total /\ total \in Nat
  BY <1>2, BlocksAre
<1>7. c[0] = cum[0] /\ cum[0] \in Nat /\ cum[N] \in Nat /\ c[N + m] = cum[N] + total
  <2>1. 0 \in 0..N /\ N \in 0..N /\ m \in 0..m
    BY <1>2, <1>6
  <2>2. cum \in [0..N -> Nat]
    BY DEF LoadInv, Sums
  <2> QED BY <2>1, <2>2, <1>5, <1>6
<1>8. g \in 1..Len(sent) /\ g \in Int /\ e \in 1..Len(sent) /\ e \in Int /\ e + 1 \in Int /\ 1 <= g /\ g <= e + 1
      /\ e + 1 <= Len(sent) + 1
  BY <1>2, <1>4 DEF Openers
<1>9. /\ Room(g, e)' = Room(g, e) /\ Video(g, e + 1)' = Video(g, e + 1)
      /\ Join(Muxed, g, e + 1)' = Join(Muxed, g, e + 1)
  <2>1. g <= e /\ e <= Len(sent) + 1
    BY <1>4, <1>8
  <2> QED BY <2>1, <1>8, OldUnits
<1>10. Over(pos, g, e) => Over(q, g, e)'
  <2> SUFFICES ASSUME Over(pos, g, e) PROVE Over(q, g, e)'
    OBVIOUS
  <2>1. Arrived(g, e) /\ e + 1 <= Len(sent) /\ (e + 1 \in Unhurt => pos[e + 1] < 0)
    BY DEF Over
  <2>2. Arrived(g, e)'
    BY <2>1, <1>3, <1>9 DEF Arrived
  <2>3. e + 1 <= Len(sent')
    BY <2>1, <1>2, <1>8
  <2>4. e + 1 \in Unhurt' => q[e + 1] < 0
    <3>1. e + 1 \in 1..Len(sent)
      BY <2>1, <1>8
    <3>2. e + 1 \in Unhurt' => e + 1 \in Unhurt
      BY <3>1, <1>2, <1>3 DEF Unhurt
    <3> QED BY <3>2, <2>1, <1>4
  <2> QED BY <2>2, <2>3, <2>4 DEF Over
<1>11. Open(g, e, -pos[e]) => Open(g, e, -q[e])'
  <2>1. -q[e] = -pos[e]
    BY <1>4
  <2>2. Nb(e)' = Nb(e) /\ \A b : Filled(g, e, b, buf, len)' <=> Filled(g, e, b, buf, len)
    BY <1>3, <1>4, <1>9 DEF Nb, Filled
  <2>3. Holds(0, Join(Muxed, g, e + 1))' <=> Holds(0, Join(Muxed, g, e + 1))
    BY <1>3, <1>9 DEF Holds
  <2> QED BY <2>1, <2>2, <2>3 DEF Open
<1>12. CASE j \in 1..u /\ j \in UnhurtOrNext /\ (pos[j] >= 0 \/ j \in Openers) /\ q[j] = pos[j]
  <2>1. Room(g, j)' = Room(g, j)
    <3>1. j \in Int /\ g <= j /\ j <= Len(sent) + 1
      BY <1>1, <1>2, <1>4, <1>8, <1>12
    <3> QED BY <3>1, <1>8, OldUnits
  <2>2. Asked(pos, g, e, j)
    BY <2>1, <1>4, <1>12 DEF Asked
  <2>3. Over(pos, g, e) \/ Under(pos, cum, g, e, j)
    BY <2>2 DEF FrameInv
  <2>4. ASSUME Under(pos, cum, g, e, j) PROVE Under(q, c, g, e, j)'
    <3>1. pos[j] >= 0 /\ Open(g, e, -pos[e]) /\ len + cum[pos[j]] - cum[0] <= Room(g, j) + faults * Block
      BY <2>4 DEF Under
    <3>2. c[q[j]] = cum[pos[j]]
      <4>1. pos[j] \in 0..N
        BY <3>1, <1>12, InNet
      <4> QED BY <4>1, <1>5, <1>12
    <3> QED BY <3>1, <3>2, <2>1, <1>3, <1>7, <1>11, <1>12 DEF Under
  <2> QED BY <2>3, <2>4, <1>10
<1>13. CASE j = u + 1 /\ u \in UnhurtOrNext /\ pos[u] = N /\ q[j] = Len(net')
  <2>1. g <= u /\ e < u
    BY <1>2, <1>8
  <2>2. Room(g, j)' = Room(g, u) + total /\ Room(g, u) \in Nat
    <3>1. Room(g, u + 1)' = Room(g, u) + total /\ Room(g, u) \in Nat
      BY <2>1, <1>1, <1>8, NewUnit
    <3> QED BY <3>1, <1>13
  <2> DEFINE f == faults * Block
             r == Room(g, u)
             x == cum[N]
             y == cum[0]
  <2>3. f \in Nat /\ r \in Nat /\ x \in Nat /\ y \in Nat /\ Room(g, j)' = r + total /\ total \in Nat
    BY <2>2, <1>3, <1>6, <1>7
  <2>4. r + f <= RecvMax
    <3>1. (r + total) + f <= RecvMax
      BY <2>3, <1>4
    <3> HIDE DEF f, r, x, y, total
    <3> QED BY <3>1, <2>3, <1>3
  <2>5. pos[u] >= 0
    BY <1>2, <1>13
  <2>6. Asked(pos, g, e, u)
    BY <2>1, <2>4, <2>5, <1>4, <1>13 DEF Asked
  <2>7. Over(pos, g, e) \/ Under(pos, cum, g, e, u)
    BY <2>6 DEF FrameInv
  <2>8. ASSUME Under(pos, cum, g, e, u) PROVE Under(q, c, g, e, j)'
    <3>1. Open(g, e, -pos[e]) /\ len + cum[pos[u]] - cum[0] <= Room(g, u) + faults * Block
      BY <2>8 DEF Under
    <3>2. q[j] >= 0 /\ c[q[j]] = x + total /\ c[0] = y
      <4>1. q[j] = N + m
        BY <1>2, <1>13
      <4>2. q[j] >= 0
        BY <4>1, <1>2, <1>6
      <4> QED BY <4>1, <4>2, <1>7
    <3>3. len + x - y <= r + f
      BY <3>1, <1>13
    <3>4. len + (x + total) - y <= (r + total) + f
      <4> HIDE DEF f, r, x, y, total
      <4> QED BY <3>3, <2>3, <1>3
    <3> HIDE DEF r, x, y, total
    <3>5. len' + c[q[j]] - c[0] <= Room(g, j)' + faults' * Block
      BY <3>2, <3>4, <2>3, <1>3
    <3> QED BY <3>1, <3>2, <3>5, <1>11 DEF Under
  <2> QED BY <2>7, <2>8, <1>10
<1> QED BY <1>4, <1>12, <1>13

(* A fault leaves what the receiver has, and what is asked of the units it spares. *)
LEMMA FrameMoved ==
  ASSUME TypeOK, Sendable, UNCHANGED <<sent, buf, len, out>>, faults' = faults + 1,
         NEW k, NEW d, Moved(k, d),
         NEW pos, NetInv(pos), NEW cum, LoadInv(pos, cum), FrameInv(pos, cum),
         NEW q, q = [i \in 1..(Len(sent) + 1) |-> Shift(k, d, pos[i])],
         NEW x \in Int, x <= Block, NEW c, Drifts(k, d, Len(net), cum, c, x)
  PROVE  FrameInv(q, c)'
<1> SUFFICES ASSUME NEW g, NEW e, NEW j, Asked(q, g, e, j)'
             PROVE  Over(q, g, e)' \/ Under(q, c, g, e, j)'
  BY DEF FrameInv
<1> DEFINE N == Len(net)
           a == pos[e]
           b == pos[j]
<1>1. /\ N \in Nat /\ Len(sent) \in Nat /\ DOMAIN sent = 1..Len(sent) /\ k \in 1..N /\ k \in Int
      /\ d \in {-1, 0, 1} /\ (d = 0 => k > 1)
      /\ hurt \subseteq hurt' /\ faults \in Nat /\ Block \in Nat /\ RecvMax \in Nat /\ len \in Nat
  BY NetIs, Constants, SMTT(20) DEF Moved, TypeOK
<1>2. /\ Openers' = Openers
      /\ \A s, t : Room(s, t)' = Room(s, t) /\ Video(s, t)' = Video(s, t) /\ Join(Muxed, s, t)' = Join(Muxed, s, t)
      /\ \A i : Nb(i)' = Nb(i)
  BY SameUnits
<1>3. /\ g \in Openers /\ e \in DOMAIN sent /\ j \in UnhurtOrNext' /\ g <= e /\ e < j /\ Alone(g, e)'
      /\ Room(g, j) + faults' * Block <= RecvMax
      /\ q[e] < 0 /\ (q[j] >= 0 \/ j \in Openers)
  BY <1>2 DEF Asked
<1>4. /\ UnhurtOrNext' \subseteq UnhurtOrNext /\ Unhurt' \subseteq Unhurt
      /\ \A i \in UnhurtOrNext' : i \notin hurt' /\ i \in 1..(Len(sent) + 1)
      /\ \A i \in Unhurt' : i \in UnhurtOrNext'
  BY <1>1 DEF UnhurtOrNext, Unhurt
<1>5. Alone(g, e)
  BY <1>2, <1>3, <1>4 DEF Alone
<1>6. /\ g \in 1..Len(sent) /\ e \in 1..Len(sent) /\ j \in 1..(Len(sent) + 1)
      /\ g \in Int /\ e \in Int /\ j \in Int /\ 1 <= g
      /\ a \in Int /\ b \in Int
  <2>1. j \in UnhurtOrNext
    BY <1>3, <1>4
  <2> QED BY <2>1, <1>3, <1>5, AskedIs
<1>7. e \in Unhurt' /\ e \in UnhurtOrNext'
  <2>1. e \in g..e
    BY <1>3, <1>6
  <2>2. e \in Unhurt'
    BY <2>1, <1>3 DEF Alone
  <2> QED BY <2>2, <1>4
<1>8. \A i \in UnhurtOrNext' :
        /\ pos[i] \in Int /\ q[i] = Shift(k, d, pos[i])
        /\ (q[i] >= 0 <=> pos[i] >= 0) /\ (pos[i] < 0 => q[i] = pos[i])
        /\ d # 0 \/ pos[i] # k - 1
  <2> TAKE i \in UnhurtOrNext'
  <2>1. i \in UnhurtOrNext /\ i \notin hurt' /\ q[i] = Shift(k, d, pos[i])
    BY <1>4
  <2>2. /\ pos[i] \in Int /\ (Shift(k, d, pos[i]) >= 0 <=> pos[i] >= 0)
        /\ pos[i] < 0 => Shift(k, d, pos[i]) = pos[i]
        /\ d # 0 \/ pos[i] # k - 1
    BY <2>1, MovedPos
  <2> QED BY <2>1, <2>2
<1>9. a < 0 /\ q[e] = a
  <2>1. (q[e] >= 0 <=> a >= 0) /\ (a < 0 => q[e] = a)
    BY <1>7, <1>8
  <2>2. a < 0
    <3> SUFFICES ASSUME a >= 0 PROVE FALSE
      BY <1>6
    <3>1. q[e] >= 0
      BY <2>1
    <3>2. q[e] = Shift(k, d, a)
      BY <1>7, <1>8
    <3>3. q[e] \in Int
      <4> HIDE DEF a
      <4> QED BY <3>2, <1>1, <1>6 DEF Shift
    <3> QED BY <3>1, <3>3, <1>3
  <2> QED BY <2>1, <2>2
<1>10. (q[j] >= 0 <=> b >= 0) /\ q[j] = Shift(k, d, b) /\ (d # 0 \/ b # k - 1)
  BY <1>3, <1>8
<1> DEFINE r == Room(g, j)
           f == faults * Block
<1>11. faults' * Block = f + Block /\ f \in Nat
  BY <1>1
<1>12. r \in Nat
  <2>1. g <= j /\ j <= Len(sent) + 1
    BY <1>1, <1>3, <1>6
  <2> QED BY <2>1, <1>6, RoomUp
<1>13. r + f <= RecvMax
  <2>1. r + (f + Block) <= RecvMax
    BY <1>3, <1>11
  <2> HIDE DEF r, f
  <2> QED BY <2>1, <1>1, <1>11, <1>12
<1>14. Asked(pos, g, e, j)
  BY <1>3, <1>4, <1>5, <1>9, <1>10, <1>13 DEF Asked
<1>15. CASE Over(pos, g, e)
  <2>1. Arrived(g, e) /\ e + 1 <= Len(sent) /\ (e + 1 \in Unhurt => pos[e + 1] < 0)
    BY <1>15 DEF Over
  <2>2. Arrived(g, e)'
    BY <2>1, <1>2 DEF Arrived
  <2>3. ASSUME e + 1 \in Unhurt' PROVE q[e + 1] < 0
    <3> DEFINE i == e + 1
    <3>1. i \in UnhurtOrNext' /\ pos[i] < 0
      BY <2>1, <2>3, <1>4
    <3> HIDE DEF i
    <3>2. q[i] = pos[i]
      BY <3>1, <1>8
    <3>3. q[i] < 0
      BY <3>1, <3>2
    <3> QED BY <3>3 DEF i
  <2> QED BY <2>1, <2>2, <2>3 DEF Over
<1>16. CASE Under(pos, cum, g, e, j)
  <2>1. b >= 0 /\ Open(g, e, -a) /\ len + cum[b] - cum[0] <= r + f
    BY <1>16 DEF Under
  <2>2. b \in 0..N /\ 0 \in 0..N
    <3>1. b \in 0..N
      BY <2>1, <1>3, <1>4, InNet
    <3>2. 0 \in 0..N
      BY <1>1
    <3> QED BY <3>1, <3>2
  <2>3. cum \in [0..N -> Nat]
    BY DEF LoadInv, Sums
  <2>4. cum[b] \in Nat /\ cum[0] \in Nat
    BY <2>2, <2>3
  <2>5. c[0] = cum[0]
    <3>1. Shift(k, d, 0) = 0 /\ ~(0 >= k) /\ (d # 0 \/ 0 # k - 1)
      BY <1>1 DEF Shift
    <3>2. c[Shift(k, d, 0)] = IF 0 >= k THEN cum[0] + x ELSE cum[0]
      BY <2>2, <3>1 DEF Drifts
    <3> QED BY <3>1, <3>2
  <2>6. c[q[j]] = IF b >= k THEN cum[b] + x ELSE cum[b]
    <3> HIDE DEF b
    <3> QED BY <2>2, <1>10 DEF Drifts
  <2> DEFINE y == cum[b]
             z == cum[0]
             w == c[q[j]]
  <2>7. len + w - z <= r + (f + Block)
    <3>1. w = (IF b >= k THEN y + x ELSE y) /\ len + y - z <= r + f /\ y \in Nat /\ z \in Nat
      BY <2>1, <2>4, <2>6
    <3> HIDE DEF w, y, z, r, f, b
    <3> QED BY <3>1, <1>1, <1>11, <1>12
  <2>8. len' + c[q[j]] - c[0] <= Room(g, j)' + faults' * Block
    <3>1. Room(g, j)' = r
      BY <1>2
    <3> HIDE DEF r, f
    <3> QED BY <2>5, <2>7, <3>1, <1>11
  <2>9. Open(g, e, -q[e])'
    <3>1. -q[e] = -a
      BY <1>9
    <3>2. \A s : Filled(g, e, s, buf, len)' <=> Filled(g, e, s, buf, len)
      BY <1>2 DEF Filled
    <3>3. Holds(0, Join(Muxed, g, e + 1))' <=> Holds(0, Join(Muxed, g, e + 1))
      BY <1>2 DEF Holds
    <3>4. Nb(e)' = Nb(e)
      BY <1>2
    <3> HIDE DEF a
    <3> QED BY <2>1, <3>1, <3>2, <3>3, <3>4 DEF Open
  <2> QED BY <2>1, <2>8, <2>9, <1>10 DEF Under
<1> QED BY <1>14, <1>15, <1>16 DEF FrameInv

(* A step that changes nothing *)
LEMMA SameFrame ==
  ASSUME UNCHANGED vars, NEW pos, NEW cum, LoadInv(pos, cum), FrameInv(pos, cum)
  PROVE  LoadInv(pos, cum)' /\ FrameInv(pos, cum)'
<1>1. sent' = sent /\ net' = net /\ faults' = faults /\ hurt' = hurt /\ buf' = buf /\ len' = len /\ out' = out
  BY DEF vars
<1>2. /\ Openers' = Openers /\ Unhurt' = Unhurt /\ UnhurtOrNext' = UnhurtOrNext
      /\ \A s, t : Room(s, t)' = Room(s, t) /\ Video(s, t)' = Video(s, t) /\ Join(Muxed, s, t)' = Join(Muxed, s, t)
      /\ \A i : Nb(i)' = Nb(i)
  BY <1>1, SameUnits DEF Unhurt, UnhurtOrNext
<1>3. Sums(cum)' /\ Bounded(pos, cum)'
  BY <1>1, <1>2 DEF LoadInv, Sums, Bounded
<1>4. ASSUME NEW g, NEW e, NEW j
      PROVE  /\ Asked(pos, g, e, j)' <=> Asked(pos, g, e, j)
             /\ Over(pos, g, e)' <=> Over(pos, g, e)
             /\ Under(pos, cum, g, e, j)' <=> Under(pos, cum, g, e, j)
  <2>1. Alone(g, e)' <=> Alone(g, e)
    BY <1>2 DEF Alone
  <2>2. Asked(pos, g, e, j)' <=> Asked(pos, g, e, j)
    BY <2>1, <1>1, <1>2 DEF Asked
  <2>3. Arrived(g, e)' <=> Arrived(g, e)
    BY <1>1, <1>2 DEF Arrived
  <2>4. Over(pos, g, e)' <=> Over(pos, g, e)
    BY <2>3, <1>1, <1>2 DEF Over
  <2>5. \A s : Filled(g, e, s, buf, len)' <=> Filled(g, e, s, buf, len)
    BY <1>1, <1>2 DEF Filled
  <2>6. Holds(0, Join(Muxed, g, e + 1))' <=> Holds(0, Join(Muxed, g, e + 1))
    BY <1>1, <1>2 DEF Holds
  <2>7. Open(g, e, -pos[e])' <=> Open(g, e, -pos[e])
    BY <2>5, <2>6, <1>2 DEF Open
  <2>8. Under(pos, cum, g, e, j)' <=> Under(pos, cum, g, e, j)
    BY <2>7, <1>1, <1>2 DEF Under
  <2> QED BY <2>2, <2>4, <2>8
<1>5. FrameInv(pos, cum)'
  BY <1>4 DEF FrameInv
<1> QED BY <1>3, <1>5 DEF LoadInv

(* The inductive invariant of any network *)
LocalIInv ==
  /\ TypeOK /\ Sendable
  /\ \E pos, cum : NetInv(pos) /\ LoadInv(pos, cum) /\ FrameInv(pos, cum)

(* At the start nothing is on the wire. *)
LEMMA LocalInit == Init => LocalIInv
<1> SUFFICES ASSUME Init PROVE LocalIInv
  OBVIOUS
<1>1. sent = << >> /\ net = << >> /\ hurt = {} /\ faults = 0
  BY DEF Init
<1>2. WholeIInv
  BY WholeInit
<1>3. TypeOK /\ Sendable /\ \E pos : NetInv(pos)
  BY <1>1, <1>2 DEF WholeIInv
<1>4. PICK pos : NetInv(pos)
  BY <1>3
<1>5. Len(sent) = 0 /\ Len(net) = 0 /\ DOMAIN sent = {}
  BY <1>1
<1> DEFINE cum == [p \in 0..Len(net) |-> 0]
<1>6. Sums(cum)
  <2>1. cum \in [0..Len(net) -> Nat] /\ 1..Len(net) = {}
    BY <1>5
  <2> HIDE DEF cum
  <2> QED BY <2>1 DEF Sums
<1> HIDE DEF cum
<1>7. UnhurtOrNext = {1}
  BY <1>1, <1>5 DEF UnhurtOrNext
<1>8. Bounded(pos, cum)
  BY <1>7 DEF Bounded
<1>9. FrameInv(pos, cum)
  BY <1>5 DEF FrameInv, Asked
<1> QED BY <1>3, <1>4, <1>6, <1>8, <1>9 DEF LocalIInv, LoadInv

(* Every step keeps the invariant. *)
LEMMA LocalStep == LocalIInv /\ [Next]_vars => LocalIInv'
<1> SUFFICES ASSUME LocalIInv, [Next]_vars PROVE LocalIInv'
  OBVIOUS
<1>1. TypeOK /\ Sendable
  BY DEF LocalIInv
<1>2. PICK pos, cum : NetInv(pos) /\ LoadInv(pos, cum) /\ FrameInv(pos, cum)
  BY DEF LocalIInv
<1>3. ASSUME NEW nal \in Nal, inputFrameData(nal) PROVE LocalIInv'
  <2>1. TypeOK' /\ Sendable'
    BY <1>1, <1>3, TypeSend, SendableSend
  <2>2. PICK q : q = [i \in 1..(Len(sent) + 2) |-> IF i <= Len(sent) + 1 THEN pos[i] ELSE Len(net')]
    OBVIOUS
  <2>3. PICK c : c = [p \in 0..Len(net') |->
                        IF p <= Len(net) THEN cum[p]
                        ELSE cum[Len(net)] + Covered(Len(sent) + 1, nal, p - Len(net))]
    OBVIOUS
  <2>4. NetInv(q)'
    BY <1>1, <1>2, <1>3, <2>2, NetSend
  <2>5. LoadInv(q, c)'
    BY <1>1, <1>2, <1>3, <2>2, <2>3, LoadSend
  <2>6. FrameInv(q, c)'
    BY <1>1, <1>2, <1>3, <2>2, <2>3, FrameSend
  <2> QED BY <2>1, <2>4, <2>5, <2>6 DEF LocalIInv
<1>4. CASE Disturb
  <2>1. TypeOK' /\ UNCHANGED <<sent, buf, len, out>> /\ faults' = faults + 1
    BY <1>1, <1>4, TypeDisturb, DisturbIs
  <2>2. Sendable'
    BY <1>1, <2>1 DEF Sendable
  <2>3. PICK k, d, x, c : /\ Moved(k, d) /\ Sums(c)' /\ x \in Int /\ x <= Block
                          /\ Drifts(k, d, Len(net), cum, c, x)
    <3>1. Sums(cum)
      BY <1>2 DEF LoadInv
    <3> QED BY <1>1, <1>4, <3>1, DisturbDrifts
  <2>4. PICK q : q = [i \in 1..(Len(sent) + 1) |-> Shift(k, d, pos[i])]
    OBVIOUS
  <2>5. NetInv(q)'
    BY <1>1, <1>2, <2>1, <2>3, <2>4, NetMoved
  <2>6. LoadInv(q, c)'
    BY <1>1, <1>2, <2>1, <2>3, <2>4, LoadMoved
  <2>7. FrameInv(q, c)'
    BY <1>1, <1>2, <2>1, <2>3, <2>4, FrameMoved
  <2> QED BY <2>1, <2>2, <2>5, <2>6, <2>7 DEF LocalIInv
<1>5. CASE StartFrame \/ JoinPacket
  <2>1. TypeOK' /\ net # << >> /\ net' = Tail(net) /\ UNCHANGED <<sent, faults, hurt>>
    BY <1>1, <1>5, TypeReceive, ReceiveIs
  <2>2. Sendable'
    BY <1>1, <2>1 DEF Sendable
  <2>3. PICK q : q = [i \in 1..(Len(sent) + 1) |-> pos[i] - 1]
    OBVIOUS
  <2>4. PICK c : c = [p \in 0..(Len(net) - 1) |-> cum[p + 1]]
    OBVIOUS
  <2>5. NetInv(q)'
    BY <1>1, <1>2, <2>1, <2>3, NetReceive
  <2>6. LoadInv(q, c)'
    BY <1>1, <1>2, <2>1, <2>3, <2>4, LoadReceive
  <2>7. FrameInv(q, c)'
    BY <1>1, <1>2, <1>5, <2>3, <2>4, FrameReceive
  <2> QED BY <2>1, <2>2, <2>5, <2>6, <2>7 DEF LocalIInv
<1>6. CASE UNCHANGED vars
  <2>1. sent' = sent /\ net' = net /\ hurt' = hurt
    BY <1>6 DEF vars
  <2>2. TypeOK' /\ Sendable'
    BY <1>1, <1>6 DEF TypeOK, Sendable, vars
  <2>3. NetInv(pos)' /\ LoadInv(pos, cum)' /\ FrameInv(pos, cum)'
    BY <1>2, <1>6, <2>1, SameNet, SameFrame
  <2> QED BY <2>2, <2>3 DEF LocalIInv
<1> QED BY <1>3, <1>4, <1>5, <1>6 DEF Next

(* When a later opener has arrived whole, the frame before it was delivered. *)
LEMMA LocalImplies == LocalIInv => UndisturbedFrameArrives
<1> SUFFICES ASSUME LocalIInv, NEW g \in Openers, NEW h \in Openers, NEW j \in Openers,
                    Follows(g, h), h <= j, hurt \intersect (g..(h - 1) \union {j}) = {},
                    \A k \in DOMAIN net : net[k].nal # j,
                    Room(g, j) + faults * Block <= RecvMax
             PROVE  \E k \in DOMAIN out : IsPrefix(Video(g, h), out[k])
  BY DEF UndisturbedFrameArrives
<1> DEFINE e == h - 1
           u == Len(sent) + 1
           N == Len(net)
<1>1. TypeOK /\ Sendable
  BY DEF LocalIInv
<1>2. PICK pos, cum : NetInv(pos) /\ LoadInv(pos, cum) /\ FrameInv(pos, cum)
  BY DEF LocalIInv
<1>3. /\ Len(sent) \in Nat /\ DOMAIN sent = 1..Len(sent) /\ N \in Nat /\ DOMAIN net = 1..N
      /\ Openers \subseteq 1..Len(sent) /\ Openers \subseteq Begins
  BY <1>1, NetIs, BeginsAre DEF Begins, TypeOK
<1>4. g < h /\ \A i \in Begins : ~(g < i /\ i < h)
  BY DEF Follows
<1>5. /\ g \in 1..Len(sent) /\ h \in 1..Len(sent) /\ j \in 1..Len(sent)
      /\ e \in 1..Len(sent) /\ e + 1 = h /\ g <= e /\ e < j /\ e \in g..(h - 1) /\ g..e = g..(h - 1)
      /\ j < u /\ u \in 1..u
  <2>1. g \in 1..Len(sent) /\ h \in 1..Len(sent) /\ j \in 1..Len(sent)
    BY <1>3
  <2> QED BY <2>1, <1>3, <1>4
<1> HIDE DEF e
<1>6. Alone(g, e)
  <2> SUFFICES ASSUME NEW i \in g..e PROVE i \in Unhurt /\ (i > g => i \notin Openers)
    BY DEF Alone
  <2>1. i \in g..(h - 1) /\ i \in 1..Len(sent)
    BY <1>5
  <2>2. i \in Unhurt
    BY <2>1, <1>3 DEF Unhurt
  <2>3. i < h
    BY <2>1, <1>5
  <2> QED BY <2>2, <2>3, <1>3, <1>4
<1>7. j \in Unhurt /\ j \in UnhurtOrNext /\ u \in UnhurtOrNext
  <2>1. j \notin hurt /\ j \in 1..u
    BY <1>3, <1>5
  <2>2. u \notin hurt
    BY <1>1, <1>3 DEF TypeOK
  <2> QED BY <2>1, <2>2, <1>3, <1>5 DEF Unhurt, UnhurtOrNext
<1> DEFINE b == pos[j]
           m == Nb(j)
<1>8. b \in Int /\ m \in Nat /\ m > 0 /\ b + m <= N
  <2>1. b \in Int /\ m \in Nat /\ m > 0 /\ b + m <= pos[u]
    BY <1>1, <1>2, <1>5, <1>7, PosIs
  <2>2. pos[u] = N
    BY <1>2 DEF NetInv, PosOK
  <2> QED BY <2>1, <2>2
<1>9. b < 0
  <2> SUFFICES ASSUME b >= 0 PROVE FALSE
    BY <1>8
  <2> DEFINE k == b + 1
  <2>1. k \in 1..N /\ b < k /\ k <= b + m
    <3> HIDE DEF b, m, N
    <3> QED BY <1>3, <1>8
  <2> HIDE DEF k
  <2>2. net[k].nal = j
    BY <2>1, <1>1, <1>2, <1>7, Owner
  <2> QED BY <2>1, <2>2, <1>3
<1>10. pos[e] < 0
  <2> DEFINE a == pos[e]
             n == Nb(e)
  <2>1. a \in Int /\ n \in Nat /\ a + n <= b
    BY <1>1, <1>2, <1>3, <1>5, <1>6, <1>7, AskedIs
  <2> HIDE DEF a, b, n
  <2>2. a < 0
    BY <2>1, <1>8, <1>9
  <2> QED BY <2>2 DEF a
<1>11. Asked(pos, g, e, j)
  BY <1>3, <1>5, <1>6, <1>7, <1>10 DEF Asked
<1>12. Over(pos, g, e)
  <2>1. Over(pos, g, e) \/ Under(pos, cum, g, e, j)
    BY <1>2, <1>11 DEF FrameInv
  <2>2. ~(pos[j] >= 0)
    BY <1>8, <1>9
  <2> QED BY <2>1, <2>2 DEF Under
<1> QED BY <1>5, <1>12 DEF Over, Arrived

(* Damage stays local: a frame whose packets came in order and unharmed is
   delivered, at the start of what the application gets, as soon as a later opener
   arrives, whatever became of the packets before it and between. *)
THEOREM UndisturbedFrames == Spec => []UndisturbedFrameArrives
<1>1. Spec => []LocalIInv
  BY LocalInit, LocalStep, PTL DEF Spec
<1> QED BY <1>1, LocalImplies, PTL
==============================================================================
