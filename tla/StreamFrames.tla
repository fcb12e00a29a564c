---------------------------- MODULE StreamFrames ----------------------------
(***************************************************************************)
(* The way of a video frame from a stream pusher to a stream puller:       *)
(* inputFrameData wraps a NAL unit in PS and PES headers and sends it in   *)
(* blocks over RTP, the network loses, swaps and duplicates packets, and   *)
(* handleRtpData joins what arrives and cuts the headers out of it when    *)
(* the packet of a following frame comes.                                  *)
(*                                                                         *)
(* A stream of bytes is a sequence of cells.  A header is one cell, with   *)
(* what the receiver reads of it, and so is a piece of video data.  RTP's  *)
(* sequence number, time stamp and marker are left out: the receiver looks *)
(* at none of them except to print a line.  A block boundary inside a      *)
(* header is left out with this, and so is where the scan for headers goes *)
(* on behind a PES packet: 18 bytes before its end, as the header is not   *)
(* counted.  In a frame without loss these hold no start code; in one with *)
(* a loss they may hold a header of what came later, whose data the code   *)
(* then copies a second time into a frame that is broken already.          *)
(* The stream comes from a pusher: no RTP packet is padded or empty.       *)
(***************************************************************************)
EXTENDS Integers, Sequences, FiniteSets, SequencesExt

CONSTANTS
  Nal,        \* the NAL units an application may push: records of a type and a size
  Block,      \* iFrameSizePerCap: cells in one RTP packet
  PesRest,    \* what a PES length counts besides the data
  PesWide,    \* the PES length is a number below this one
  RecvMax,    \* RTP_RECV_BUFF_MAX_LEN
  MaxNal,     \* bound: NAL units sent
  MaxFaults   \* bound: packets lost, swapped and duplicated

NalType == {"SPS", "PPS", "IDR", "PFRAME", "other"}

ASSUME FramesAssumption ==
  /\ Nal \subseteq [type : NalType, size : Nat \ {0}]
  /\ {Block, RecvMax} \subseteq Nat \ {0}
  /\ {PesRest, MaxNal, MaxFaults} \subseteq Nat
  /\ PesWide \in Nat /\ PesWide > PesRest + 1

VARIABLES
  sent,     \* the NAL units pushed and sent so far
  net,      \* the RTP packets on their way: the unit of each, and its cells
  faults,   \* how often the network misbehaved
  hurt,     \* the units with a packet the network lost, moved or doubled
  buf,      \* m_pPsData, as far as it was ever written
  len,      \* m_iPsDataLen
  out       \* the frames m_fnStreamCB was called with

vars == <<sent, net, faults, hurt, buf, len, out>>

-----------------------------------------------------------------------------
(***************************************************************************)
(* Cells: the headers of a pack (BA), the system (BB) and the map (BC), a  *)
(* PES header (E0) with its length, the n-th piece of data of a unit, and  *)
(* a byte of the buffer nobody has written.                                *)
(***************************************************************************)
Cell == [tag : {"BA", "BB", "BC", "E0", "data", "junk"}, nal : Nat, n : Nat]

PsHeader == [tag |-> "BA", nal |-> 0, n |-> 0]
SysHeader == [tag |-> "BB", nal |-> 0, n |-> 0]
MapHeader == [tag |-> "BC", nal |-> 0, n |-> 0]
Junk == [tag |-> "junk", nal |-> 0, n |-> 0]

PesHeader(size) == [tag |-> "E0", nal |-> 0, n |-> (size + PesRest) % PesWide]

\* The data of unit i from piece a to piece b.
Data(i, a, b) == [k \in 1..(b - a + 1) |-> [tag |-> "data", nal |-> i, n |-> a + k - 1]]

\* Faulty variant: the greatest length is one too many for the 16-bit field.
PesMaxTooLarge == PesWide - PesRest

PesMax == PesWide - 1 - PesRest   \* PS_PES_PAYLOAD_SIZE

Least(a, b) == IF a < b THEN a ELSE b

\* How many parts of m cells, the last one perhaps smaller, n cells make.
Parts(n, m) == (n + m - 1) \div m

\* The sequences f[g], ..., f[h - 1], one behind the other.
Join(f, g, h) ==
  LET upto[k \in 0..(h - g)] == IF k = 0 THEN << >> ELSE upto[k - 1] \o f[g + k - 1]
  IN  upto[h - g]

\* addPesHeader: the unit's data in PES packets of at most PesMax pieces.
PesPacket(i, size, k) ==
  LET first == (k - 1) * PesMax + 1
      last == Least(k * PesMax, size)
  IN  <<PesHeader(last - first + 1)>> \o Data(i, first, last)

addPesHeader(i, size) ==
  LET n == Parts(size, PesMax)
  IN  Join([k \in 1..n |-> PesPacket(i, size, k)], 1, n + 1)

\* h264PsMux: the headers before the PES packets depend on the type of the unit.
h264PsMux(i, nal) ==
  CASE nal.type = "SPS" -> <<PsHeader, SysHeader, MapHeader>> \o addPesHeader(i, nal.size)
    [] nal.type = "PFRAME" -> <<PsHeader>> \o addPesHeader(i, nal.size)
    [] nal.type \in {"PPS", "IDR"} -> addPesHeader(i, nal.size)
    [] OTHER -> << >>

\* The blocks inputFrameData sends.
Blocks(i, cells) ==
  [k \in 1..Parts(Len(cells), Block) |->
    [nal |-> i, cells |-> SubSeq(cells, (k - 1) * Block + 1, Least(k * Block, Len(cells)))]]

-----------------------------------------------------------------------------
\* Faulty variant: nobody asks whether there is room.
fillFrameBuffUnbounded(l, cells) ==
  [buf |-> SubSeq(buf, 1, l) \o cells \o SubSeq(buf, l + Len(cells) + 1, Len(buf)),
   len |-> l + Len(cells)]

\* fillFrameBuff: the buffer and its length after cells are added behind l.
\* What lies behind them stays as it was.
fillFrameBuff(l, cells) ==
  IF l + Len(cells) > RecvMax
  THEN [buf |-> buf, len |-> 0]
  ELSE [buf |-> SubSeq(buf, 1, l) \o cells \o SubSeq(buf, l + Len(cells) + 1, Len(buf)),
        len |-> l + Len(cells)]

\* What memcpy finds from position p on: the length is not asked for.
Copy(p, n) == [k \in 1..n |-> IF p + k - 1 <= Len(buf) THEN buf[p + k - 1] ELSE Junk]

\* What one cell does to the scan.  What is before `next' was cut already.
\* The scan ends at a packet that announces more than the buffer holds, or
\* more than that together with the data cut before it.
CutCell(s, p) ==
  LET n == buf[p].n - PesRest
  IN  IF p < s.next \/ buf[p].tag # "E0" THEN s
      ELSE IF n < 0 \/ n > len \/ Len(s.video) + n > len
             THEN [next |-> len + 1, video |-> s.video]
             ELSE [next |-> p + 1 + n, video |-> s.video \o Copy(p + 1, n)]

\* cutPsHeader: the data of the PES packets in the first len cells.
cutPsHeader ==
  LET scan[p \in 0..len] ==
        IF p = 0 THEN [next |-> 1, video |-> << >>] ELSE CutCell(scan[p - 1], p)
  IN  scan[len].video

StartsFrame(packet) == packet.cells[1].tag = "BA"

-----------------------------------------------------------------------------
Init ==
  /\ sent = << >> /\ net = << >> /\ out = << >>
  /\ faults = 0 /\ hurt = {}
  /\ buf = << >> /\ len = 0

\* inputFrameData; a unit of another type makes no PS data and is not sent.
inputFrameData(nal) ==
  LET i == Len(sent) + 1
      cells == h264PsMux(i, nal)
  IN  /\ i <= MaxNal /\ cells # << >>
      /\ sent' = Append(sent, nal)
      /\ net' = net \o Blocks(i, cells)
      /\ UNCHANGED <<faults, hurt, buf, len, out>>

\* A packet is lost on its way, or was never sent: sendOneBlock gives a block
\* up when the socket is not ready within 50 ms or refuses it.
Lose(k) ==
  /\ net' = RemoveAt(net, k)
  /\ hurt' = hurt \union {net[k].nal}

\* A packet overtakes the one before it.
Swap(k) ==
  /\ k > 1
  /\ net' = [net EXCEPT ![k] = net[k - 1], ![k - 1] = net[k]]
  /\ hurt' = hurt \union {net[k].nal, net[k - 1].nal}

\* A packet comes twice.
Duplicate(k) ==
  /\ net' = InsertAt(net, k, net[k])
  /\ hurt' = hurt \union {net[k].nal}

Disturb ==
  /\ faults < MaxFaults
  /\ faults' = faults + 1
  /\ \E k \in DOMAIN net : Lose(k) \/ Swap(k) \/ Duplicate(k)
  /\ UNCHANGED <<sent, buf, len, out>>

\* Faulty variant: the frame delivered stays in front of the next one.
StartFrameWithoutReset ==
  /\ net # << >> /\ StartsFrame(Head(net)) /\ len > 0
  /\ out' = IF cutPsHeader = << >> THEN out ELSE Append(out, cutPsHeader)
  /\ LET new == fillFrameBuff(len, Head(net).cells)
     IN  buf' = new.buf /\ len' = new.len
  /\ net' = Tail(net)
  /\ UNCHANGED <<sent, faults, hurt>>

\* handleRtpData, for a packet that starts a frame while another is in the
\* buffer: that one is cut and, if there is data in it, delivered.
StartFrame ==
  /\ net # << >> /\ StartsFrame(Head(net)) /\ len > 0
  /\ out' = IF cutPsHeader = << >> THEN out ELSE Append(out, cutPsHeader)
  /\ LET new == fillFrameBuff(0, Head(net).cells)
     IN  buf' = new.buf /\ len' = new.len
  /\ net' = Tail(net)
  /\ UNCHANGED <<sent, faults, hurt>>

\* handleRtpData, for any other packet.
JoinPacket ==
  /\ net # << >> /\ ~(StartsFrame(Head(net)) /\ len > 0)
  /\ LET new == fillFrameBuff(len, Head(net).cells)
     IN  buf' = new.buf /\ len' = new.len
  /\ net' = Tail(net)
  /\ UNCHANGED <<sent, faults, hurt, out>>

Next == (\E nal \in Nal : inputFrameData(nal)) \/ Disturb \/ StartFrame \/ JoinPacket

Spec == Init /\ [][Next]_vars

-----------------------------------------------------------------------------
(***************************************************************************)
(* What was pushed, independently of how it is sent.                       *)
(***************************************************************************)
\* The units that open a frame, and where frames begin: at these, or with
\* whatever was sent first.
Openers == {i \in DOMAIN sent : sent[i].type \in {"SPS", "PFRAME"}}
Begins == {1} \union Openers

Follows(g, h) == g < h /\ \A i \in Begins : ~(g < i /\ i < h)

\* Which frame begins with unit g.
Place(g) == Cardinality({i \in Begins : i <= g})

\* Each unit as it was pushed, and as it goes over the wire.
Pushed == [i \in DOMAIN sent |-> Data(i, 1, sent[i].size)]
Muxed == [i \in DOMAIN sent |-> h264PsMux(i, sent[i])]

\* The data of the units from g to the one before h, and how many cells they
\* take on the wire.
Video(g, h) == Join(Pushed, g, h)
Room(g, h) == Len(Join(Muxed, g, h))

\* The variables hold what their descriptions say; the buffer never holds
\* more than RTP_RECV_BUFF_MAX_LEN.
TypeOK ==
  /\ sent \in Seq(Nal) /\ Len(sent) <= MaxNal
  /\ net \in Seq([nal : DOMAIN sent, cells : Seq(Cell)])
  /\ \A k \in DOMAIN net : Len(net[k].cells) \in 1..Block
  /\ faults \in 0..MaxFaults /\ hurt \subseteq DOMAIN sent
  /\ buf \in Seq(Cell) /\ Len(buf) <= RecvMax /\ len \in 0..Len(buf)
  /\ out \in Seq(Seq(Cell) \ {<< >>})

\* On a network without faults the application at the far end gets the frames
\* that were pushed, all but the one that is still open, each with the data of
\* all its units in their order, whatever blocks and PES packets they went in.
\* A frame the buffer cannot hold is not promised, nor what shares it.
FramesArriveWhole ==
  (/\ faults = 0 /\ net = << >>
   /\ \A g, h \in Begins : Follows(g, h) => Room(g, h) <= RecvMax)
    => /\ Len(out) = Cardinality(Begins) - 1
       /\ \A g, h \in Begins : Follows(g, h) => out[Place(g)] = Video(g, h)

\* Damage stays local: a frame whose packets came in order and unharmed is
\* delivered, at the start of what the application gets, as soon as a later
\* opener arrives, whatever became of the packets before it and between.
UndisturbedFrameArrives ==
  \A g, h, j \in Openers :
    (/\ Follows(g, h) /\ h <= j
     /\ hurt \intersect (g..(h - 1) \union {j}) = {}
     /\ \A k \in DOMAIN net : net[k].nal # j
     /\ Room(g, j) + faults * Block <= RecvMax)
      => \E k \in DOMAIN out : IsPrefix(Video(g, h), out[k])
=============================================================================
