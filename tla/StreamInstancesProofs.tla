------------------------ MODULE StreamInstancesProofs ------------------------
(* Theorems about StreamInstances, for every number of instances and legs. *)
EXTENDS StreamInstances, TLAPS

USE StreamAssumption

Creating  == {"cr_init", "cr_invite", "cr_insert"}
Entering  == {"cr_invite", "cr_insert"}
Erasing   == {"er_find", "er_stop", "er_wait", "er_free", "er_erase"}
Busy      == (Erasing \ {"er_find"}) \cup {"ok_did", "rsp_notify", "bye_auto"}
EventOnly == {"inv_callback", "inv_return", "ok_did", "rsp_notify", "bye_auto", "bye_notify"}

(* The application is being asked for a stream. *)
Asking(t) == \/ pc[t] \in {"inv_callback", "inv_return"}
             \/ pc[t] \in Creating /\ loc[t].ret = "inv_return"

(* Calls nest in two ways only, both in the event thread. *)
RetInv ==
  \A t \in Thread :
    /\ pc[t] \in Creating => loc[t].ret \in {"idle", "inv_return"}
    /\ pc[t] \in Erasing => loc[t].ret \in {"idle", "bye_notify"}
    /\ pc[t] \notin Creating \cup Erasing => loc[t].ret = "idle"
    /\ pc[t] \in EventOnly \/ loc[t].ret # "idle" => t = "event"

(* A cid belongs to one instance; handles and the map have instances with one. *)
CidInv ==
  /\ \A p \in Obj : obj[p].cid < next
  /\ \A p \in Obj : p \notin used => obj[p].cid = 0
  /\ \A p, q \in Obj : obj[p].cid = obj[q].cid /\ obj[p].cid # 0 => p = q
  /\ \A p \in handle : p \in used /\ obj[p].cid # 0
  /\ \A c \in Cid : map[c] # NULL => map[c] \in used

(* A puller in the making is known to its creator alone. *)
EnterInv ==
  /\ \A t \in Thread :
       pc[t] \in Entering => loc[t].self \in live /\ obj[loc[t].self].cid = 0
  /\ \A t \in Thread : pc[t] = "cr_insert" =>
       /\ loc[t].cid \in Cid /\ loc[t].cid < next
       /\ \A p \in Obj : obj[p].cid # loc[t].cid
  /\ \A t, u \in Thread :
       t # u /\ pc[t] \in Entering /\ pc[u] \in Entering => loc[t].self # loc[u].self
  /\ \A t, u \in Thread :
       t # u /\ pc[t] = "cr_insert" /\ pc[u] = "cr_insert" => loc[t].cid # loc[u].cid

(* What a thread has looked up or was given is of the leg it thinks. *)
KnowsItsLeg(t) ==
  /\ pc[t] \in Busy => /\ loc[t].self \in used /\ loc[t].cid \in Cid
                       /\ obj[loc[t].self].cid = loc[t].cid
  /\ pc[t] = "del_check" => loc[t].self \in used /\ obj[loc[t].self].cid # 0
  /\ pc[t] \in {"del_term", "er_find"} =>
       loc[t].cid \in Cid /\ \E p \in used : obj[p].cid = loc[t].cid

BusyInv == \A t \in Thread : KnowsItsLeg(t)

(* The pusher of an INVITE that is not accepted yet is known to its handler alone. *)
AskedInv ==
  \A t \in Thread : Asking(t) =>
    /\ loc[t].asked \in live /\ obj[loc[t].asked].cid # 0
    /\ loc[t].asked \notin handle
    /\ \A c \in Cid : map[c] # loc[t].asked
    /\ \A u \in Thread : pc[u] \in Busy \cup {"del_check"} => loc[u].self # loc[t].asked

(* A release is the application's, whose handle is gone, or follows a BYE. *)
MayRelease(t) ==
  /\ pc[t] = "del_check" => loc[t].self \notin handle
  /\ pc[t] = "del_term" \/ (pc[t] \in Erasing /\ loc[t].ret = "idle")
       => \A p \in handle : obj[p].cid # loc[t].cid
  /\ pc[t] = "bye_auto" \/ (pc[t] \in Erasing /\ loc[t].ret = "bye_notify")
       => leg[loc[t].cid].peer = "bye"

ReleaseInv == \A t \in Thread : MayRelease(t)

OwnerInv == /\ TypeOK /\ RetInv /\ CidInv /\ EnterInv /\ BusyInv /\ AskedInv /\ ReleaseInv
            /\ MapHasLiveInstances /\ HandleOutlivesCall

-----------------------------------------------------------------------------
(* Go moves one thread. *)
LEMMA GoMoves ==
  ASSUME TypeOK, NEW t \in Thread, NEW l \in Label, NEW x \in Locals, Go(t, l, x)
  PROVE  /\ pc' \in [Thread -> Label] /\ loc' \in [Thread -> Locals]
         /\ pc'[t] = l /\ loc'[t] = x
         /\ \A u \in Thread : u # t => pc'[u] = pc[u] /\ loc'[u] = loc[u]
BY DEF Go, TypeOK

(* The locals the threads start with *)
LEMMA NoLocalsFields ==
  /\ NoLocals \in Locals
  /\ NoLocals.self = NULL /\ NoLocals.cid = 0 /\ NoLocals.ret = "idle"
BY DEF NoLocals, Locals, Label, Cid0

(* The locals of a handler that has found its instance *)
LEMMA HoldingFields ==
  ASSUME NEW p \in Obj, NEW c \in Cid0
  PROVE  /\ Holding(p, c) \in Locals
         /\ Holding(p, c).self = p /\ Holding(p, c).cid = c /\ Holding(p, c).ret = "idle"
BY DEF Holding, Locals, Label, Cid0

(* The locals of the INVITE handler *)
LEMMA AskedFields ==
  ASSUME NEW p \in Obj, NEW c \in Cid0
  PROVE  /\ Asked(p, c) \in Locals
         /\ Asked(p, c).asked = p /\ Asked(p, c).cid = c /\ Asked(p, c).ret = "idle"
BY DEF Asked, Locals, Label, Cid0

(* What GB28181MediaGate_DeleteStreamPuller reads of the instance *)
LEMMA DeletingFields ==
  ASSUME TypeOK, NEW p \in Obj
  PROVE  /\ Deleting(p) \in Locals
         /\ Deleting(p).self = p /\ Deleting(p).ret = "idle"
         /\ Deleting(p).cid = obj[p].cid /\ Deleting(p).did = obj[p].did
BY DEF Deleting, Locals, Label, Cid0, TypeOK, Instance

(* Calling a function changes where to return only. *)
LEMMA WithRetFields ==
  ASSUME NEW x \in Locals, NEW r \in Label
  PROVE  /\ WithRet(x, r) \in Locals /\ WithRet(x, r).ret = r
         /\ WithRet(x, r).self = x.self /\ WithRet(x, r).asked = x.asked
         /\ WithRet(x, r).cid = x.cid /\ WithRet(x, r).did = x.did
BY DEF Locals, WithRet

(* Finding an instance changes self only. *)
LEMMA WithSelfFields ==
  ASSUME NEW x \in Locals, NEW p \in Obj
  PROVE  /\ WithSelf(x, p) \in Locals /\ WithSelf(x, p).self = p
         /\ WithSelf(x, p).ret = x.ret /\ WithSelf(x, p).asked = x.asked
         /\ WithSelf(x, p).cid = x.cid /\ WithSelf(x, p).did = x.did
BY DEF Locals, WithSelf

(* Sending INVITE changes the cid only. *)
LEMMA WithCidFields ==
  ASSUME NEW x \in Locals, NEW c \in Cid0
  PROVE  /\ WithCid(x, c) \in Locals /\ WithCid(x, c).cid = c
         /\ WithCid(x, c).ret = x.ret /\ WithCid(x, c).asked = x.asked
         /\ WithCid(x, c).self = x.self /\ WithCid(x, c).did = x.did
BY DEF Locals, WithCid

(* The pusher of an INVITE has its cid from the start. *)
LEMMA PusherFields ==
  ASSUME NEW c \in Cid0
  PROVE  Pusher(c) \in Instance /\ Pusher(c).cid = c /\ Pusher(c).did = 0
         /\ Pusher(c).working = FALSE /\ Pusher(c).posted = 0
BY DEF Pusher, Instance, Cid0

(* A new puller has no cid yet. *)
LEMMA PullerFields ==
  Puller \in Instance /\ Puller.cid = 0 /\ Puller.did = 0 /\ Puller.working = TRUE /\ Puller.posted = 0
BY DEF Puller, Instance, Cid0

(* Setting a member of one instance leaves the others, and its cid, alone. *)
LEMMA SetDid ==
  ASSUME TypeOK, NEW p \in Obj, NEW c \in Cid0
  PROVE  /\ setDID(p, c) \in [Obj -> Instance] /\ setDID(p, c)[p].did = c
         /\ \A q \in Obj : /\ setDID(p, c)[q].cid = obj[q].cid
                           /\ setDID(p, c)[q].working = obj[q].working
                           /\ setDID(p, c)[q].posted = obj[q].posted
                           /\ q # p => setDID(p, c)[q] = obj[q]
BY DEF TypeOK, Instance, setDID

(* So does the auto-release mark. *)
LEMMA SetAutoRelease ==
  ASSUME TypeOK, NEW p \in Obj, NEW b \in BOOLEAN
  PROVE  /\ setAutoRelease(p, b) \in [Obj -> Instance]
         /\ \A q \in Obj : /\ setAutoRelease(p, b)[q].cid = obj[q].cid
                           /\ setAutoRelease(p, b)[q].did = obj[q].did
                           /\ setAutoRelease(p, b)[q].working = obj[q].working
                           /\ setAutoRelease(p, b)[q].posted = obj[q].posted
BY DEF TypeOK, Instance, setAutoRelease

(* So does the flag of the receiving thread. *)
LEMMA SetWorking ==
  ASSUME TypeOK, NEW p \in Obj, NEW b \in BOOLEAN
  PROVE  /\ Working(p, b) \in [Obj -> Instance]
         /\ \A q \in Obj : /\ Working(p, b)[q].cid = obj[q].cid
                           /\ Working(p, b)[q].did = obj[q].did
                           /\ Working(p, b)[q].posted = obj[q].posted
                           /\ q # p => Working(p, b)[q] = obj[q]
BY DEF TypeOK, Instance, Working

(* So does its semaphore. *)
LEMMA SetPosted ==
  ASSUME TypeOK, NEW p \in Obj, NEW n \in {0, 1}
  PROVE  /\ Posted(p, n) \in [Obj -> Instance] /\ Posted(p, n)[p].posted = n
         /\ \A q \in Obj : /\ Posted(p, n)[q].cid = obj[q].cid
                           /\ Posted(p, n)[q].did = obj[q].did
                           /\ Posted(p, n)[q].working = obj[q].working
                           /\ q # p => Posted(p, n)[q] = obj[q]
BY DEF TypeOK, Instance, Posted

(* The cid of one instance is set. *)
LEMMA SetCid ==
  ASSUME TypeOK, NEW p \in Obj, NEW c \in Cid0
  PROVE  /\ setCID(p, c) \in [Obj -> Instance] /\ setCID(p, c)[p].cid = c
         /\ \A q \in Obj : q # p => setCID(p, c)[q] = obj[q]
BY DEF TypeOK, Instance, setCID

(* A leg that opens has no answer yet. *)
LEMMA LegFields ==
  /\ Inbound \in Leg /\ Inbound.role = "in" /\ Inbound.peer = "wait" /\ ~Inbound.answered
  /\ Outbound \in Leg /\ Outbound.role = "out" /\ Outbound.peer = "wait"
BY DEF Inbound, Outbound, NoLeg, Leg

(* What is said on one leg leaves the others alone. *)
LEMMA SetLeg ==
  ASSUME TypeOK, NEW c \in Cid, NEW a \in {"ok", "refuse", "bye"}
  PROVE  /\ Peer(c, a) \in [Cid -> Leg] /\ Answered(c) \in [Cid -> Leg]
         /\ Ended(c) \in [Cid -> Leg]
         /\ Peer(c, a)[c].peer = a /\ \A d \in Cid : d # c => Peer(c, a)[d] = leg[d]
         /\ \A d \in Cid : Answered(c)[d].peer = leg[d].peer /\ Ended(c)[d].peer = leg[d].peer
<1>1. leg \in [Cid -> Leg]
  BY DEF TypeOK
<1>2. /\ Peer(c, a) \in [Cid -> Leg]
      /\ Peer(c, a)[c].peer = a /\ \A d \in Cid : d # c => Peer(c, a)[d] = leg[d]
  BY <1>1 DEF Leg, Peer
<1>3. Answered(c) \in [Cid -> Leg] /\ \A d \in Cid : Answered(c)[d].peer = leg[d].peer
  BY <1>1 DEF Leg, Answered
<1>4. Ended(c) \in [Cid -> Leg] /\ \A d \in Cid : Ended(c)[d].peer = leg[d].peer
  BY <1>1 DEF Leg, Ended
<1> QED BY <1>2, <1>3, <1>4

(* A call that is over leaves its thread idle. *)
LEMMA FinishMoves ==
  ASSUME TypeOK, NEW t \in Thread, Finish(t)
  PROVE  /\ pc' \in [Thread -> Label] /\ loc' \in [Thread -> Locals]
         /\ pc'[t] = "idle" /\ loc'[t].ret = "idle"
         /\ \A u \in Thread : u # t => pc'[u] = pc[u] /\ loc'[u] = loc[u]
BY NoLocalsFields, GoMoves DEF Finish, Label

(* A nested call returns to the INVITE or the BYE it was called from. *)
LEMMA ReturnMoves ==
  ASSUME TypeOK, NEW t \in Thread, Return(t)
  PROVE  /\ pc' \in [Thread -> Label] /\ loc' \in [Thread -> Locals]
         /\ pc'[t] = loc[t].ret /\ loc'[t].ret = "idle"
         /\ loc[t].ret # "idle" => loc'[t].asked = loc[t].asked
         /\ \A u \in Thread : u # t => pc'[u] = pc[u] /\ loc'[u] = loc[u]
<1>1. loc[t] \in Locals /\ loc[t].ret \in Label
  BY DEF TypeOK, Locals
<1>2. CASE loc[t].ret = "idle"
  BY <1>2, FinishMoves DEF Return
<1>3. CASE loc[t].ret # "idle"
  <2>1. WithRet(loc[t], "idle") \in Locals /\ WithRet(loc[t], "idle").ret = "idle"
        /\ WithRet(loc[t], "idle").asked = loc[t].asked
    BY <1>1, WithRetFields DEF Label
  <2>2. Go(t, loc[t].ret, WithRet(loc[t], "idle"))
    BY <1>3 DEF Return
  <2> QED BY <1>1, <1>3, <2>1, <2>2, GoMoves
<1> QED BY <1>2, <1>3

(* What nearly every step leaves alone: the other threads, and the cid of an
   instance that has one. *)
OthersStay(t) == \A u \in Thread : u # t => pc'[u] = pc[u] /\ loc'[u] = loc[u]
CidsStay == /\ \A p \in Obj : obj[p].cid # 0 => obj'[p].cid = obj[p].cid
            /\ used \subseteq used'

(* A thread that does not move still knows its leg. *)
LEMMA KnowsItsLegStays ==
  ASSUME OwnerInv, CidsStay, NEW u \in Thread, pc'[u] = pc[u], loc'[u] = loc[u]
  PROVE  KnowsItsLeg(u)'
<1>1. KnowsItsLeg(u) /\ used \subseteq Obj /\ 0 \notin Cid
  BY DEF OwnerInv, BusyInv, TypeOK, Cid
<1>2. ASSUME NEW p \in used, obj[p].cid = loc[u].cid, loc[u].cid \in Cid
      PROVE  p \in used' /\ obj'[p].cid = loc'[u].cid
  BY <1>1, <1>2 DEF CidsStay
<1>3. pc'[u] \in Busy => /\ loc'[u].self \in used' /\ loc'[u].cid \in Cid
                         /\ obj'[loc'[u].self].cid = loc'[u].cid
  BY <1>1, <1>2 DEF KnowsItsLeg
<1>4. pc'[u] = "del_check" => loc'[u].self \in used' /\ obj'[loc'[u].self].cid # 0
  BY <1>1 DEF KnowsItsLeg, CidsStay
<1>5. pc'[u] \in {"del_term", "er_find"} =>
        loc'[u].cid \in Cid /\ \E p \in used' : obj'[p].cid = loc'[u].cid
  BY <1>1, <1>2 DEF KnowsItsLeg
<1> QED BY <1>3, <1>4, <1>5 DEF KnowsItsLeg

(* The map is in order as long as nothing is freed and no instance is taken out. *)
LEMMA InMapStays ==
  ASSUME OwnerInv, CidsStay, NEW t \in Thread, OthersStay(t), pc[t] # "er_erase",
         live \subseteq live', NEW c \in Cid, map'[c] = map[c], map'[c] # NULL
  PROVE  /\ obj'[map'[c]].cid = c
         /\ \/ map'[c] \in live'
            \/ \E u \in Thread : pc'[u] = "er_erase" /\ loc'[u].cid = c
<1>1. /\ map[c] \in Obj /\ obj[map[c]].cid = c /\ c # 0
      /\ \/ map[c] \in live
         \/ \E u \in Thread : pc[u] = "er_erase" /\ loc[u].cid = c
  BY DEF OwnerInv, MapHasLiveInstances, TypeOK, Cid
<1>2. obj'[map'[c]].cid = c
  BY <1>1 DEF CidsStay
<1>3. CASE map[c] \in live
  BY <1>2, <1>3
<1>4. CASE \E u \in Thread : pc[u] = "er_erase" /\ loc[u].cid = c
  <2>1. PICK u \in Thread : pc[u] = "er_erase" /\ loc[u].cid = c
    BY <1>4
  <2>2. pc'[u] = "er_erase" /\ loc'[u].cid = c
    BY <2>1 DEF OthersStay
  <2> QED BY <1>2, <2>2
<1> QED BY <1>1, <1>3, <1>4

(* No handle is given out and no BYE taken back, so that what may be released
   still may. *)
ByesStay == \A c \in Cid : c < next /\ leg[c].peer = "bye" => leg'[c].peer = "bye"

LEMMA MayReleaseStays ==
  ASSUME OwnerInv, CidsStay, handle' \subseteq handle, ByesStay,
         NEW u \in Thread, pc'[u] = pc[u], loc'[u] = loc[u]
  PROVE  MayRelease(u)'
<1>1. KnowsItsLeg(u) /\ MayRelease(u) /\ 0 \notin Cid
  BY DEF OwnerInv, BusyInv, ReleaseInv, Cid
<1>2. pc[u] \in Erasing \cup {"bye_auto"} => loc[u].cid \in Cid /\ loc[u].cid < next
  BY <1>1 DEF KnowsItsLeg, Busy, Erasing, OwnerInv, CidInv, TypeOK
<1>3. \A p \in handle' : p \in handle /\ obj'[p].cid = obj[p].cid
  BY DEF OwnerInv, CidInv, CidsStay, TypeOK
<1> QED BY <1>1, <1>2, <1>3 DEF MayRelease, ByesStay

(* Handles stay good as long as nothing is freed and no BYE is taken back. *)
LEMMA HandlesStay ==
  ASSUME OwnerInv, CidsStay, live \subseteq live', handle' \subseteq handle,
         ByesStay
  PROVE  HandleOutlivesCall'
<1>1. ASSUME NEW p \in handle'
      PROVE  p \in live' \/ leg'[obj'[p].cid].peer = "bye"
  <2>1. p \in Obj /\ obj[p].cid \in Cid /\ obj[p].cid < next /\ obj'[p].cid = obj[p].cid
    BY DEF OwnerInv, TypeOK, CidInv, CidsStay, Instance, Cid, Cid0
  <2> QED BY <2>1 DEF OwnerInv, HandleOutlivesCall, ByesStay
<1> QED BY <1>1 DEF HandleOutlivesCall


(* A step of thread t leaves what the others know, and may release, alone. *)
LEMMA BusyMoves ==
  ASSUME OwnerInv, CidsStay, NEW t \in Thread, OthersStay(t), KnowsItsLeg(t)'
  PROVE  BusyInv'
<1>1. ASSUME NEW u \in Thread, u # t
      PROVE  KnowsItsLeg(u)'
  BY <1>1, KnowsItsLegStays DEF OthersStay
<1> QED BY <1>1 DEF BusyInv

(* Likewise for what the others may release. *)
LEMMA ReleaseMoves ==
  ASSUME OwnerInv, CidsStay, ByesStay, handle' \subseteq handle,
         NEW t \in Thread, OthersStay(t), MayRelease(t)'
  PROVE  ReleaseInv'
<1>1. ASSUME NEW u \in Thread, u # t
      PROVE  MayRelease(u)'
  BY <1>1, MayReleaseStays DEF OthersStay
<1> QED BY <1>1 DEF ReleaseInv

(* The map as a whole *)
LEMMA MapStays ==
  ASSUME OwnerInv, CidsStay, NEW t \in Thread, OthersStay(t), pc[t] # "er_erase",
         live \subseteq live', map' = map
  PROVE  MapHasLiveInstances'
BY InMapStays DEF MapHasLiveInstances

(* Nor does the book-keeping of cids, while none is given out. *)
LEMMA CidsKept ==
  ASSUME TypeOK, CidInv, \A q \in Obj : obj'[q].cid = obj[q].cid,
         \A c \in Cid : map'[c] \in {map[c], NULL}, handle' \subseteq handle,
         UNCHANGED <<used, next>>
  PROVE  CidInv'
<1>1. /\ \A p \in Obj : obj'[p].cid < next'
      /\ \A p \in Obj : p \notin used' => obj'[p].cid = 0
      /\ \A p, q \in Obj : obj'[p].cid = obj'[q].cid /\ obj'[p].cid # 0 => p = q
  BY DEF CidInv
<1>2. \A p \in handle' : p \in used' /\ obj'[p].cid # 0
  BY DEF CidInv, TypeOK
<1> QED BY <1>1, <1>2 DEF CidInv

(* A cid that is given out next is greater than all there are. *)
LEMMA CidsBelow ==
  ASSUME OwnerInv, NEW p \in Obj
  PROVE  obj[p].cid \in Nat /\ obj[p].cid < next /\ obj[p].cid < next + 1 /\ obj[p].cid # next
<1>1. obj[p].cid \in Cid0 /\ obj[p].cid < next /\ next \in Nat
  BY DEF OwnerInv, TypeOK, CidInv, Instance
<1> QED BY <1>1 DEF Cid0

(* Opening a leg changes no other. *)
LEMMA LegOpens ==
  ASSUME OwnerInv, next \in Cid, NEW l \in Leg
  PROVE  /\ [leg EXCEPT ![next] = l] \in [Cid -> Leg]
         /\ \A c \in Cid : c < next => [leg EXCEPT ![next] = l][c] = leg[c]
         /\ next + 1 \in 1 .. MaxCid + 1 /\ next # 0
BY DEF OwnerInv, TypeOK, Cid

(* A created puller gets its cid, a place in the map and a handle. *)
LEMMA CreateInsertOwner ==
  ASSUME OwnerInv, NEW t \in Thread, CreateInsert(t)
  PROVE  OwnerInv'
<1>1. PICK p \in Obj, c \in Cid :
        /\ p = loc[t].self /\ c = loc[t].cid /\ p \in live /\ p \in used
        /\ obj[p].cid = 0 /\ c # 0 /\ c < next /\ \A q \in Obj : obj[q].cid # c
  <2>1. /\ loc[t].self \in live /\ obj[loc[t].self].cid = 0
        /\ loc[t].cid \in Cid /\ loc[t].cid < next
        /\ \A q \in Obj : obj[q].cid # loc[t].cid
    BY DEF CreateInsert, At, OwnerInv, EnterInv, Entering
  <2>2. live \subseteq used /\ used \subseteq Obj
    BY DEF OwnerInv, TypeOK
  <2> QED BY <2>1, <2>2 DEF Cid
<1>2. /\ pc[t] = "cr_insert"
      /\ pc'[t] = loc[t].ret /\ loc'[t].ret = "idle" /\ loc[t].ret \in {"idle", "inv_return"}
      /\ loc[t].ret # "idle" => loc'[t].asked = loc[t].asked /\ t = "event"
      /\ OthersStay(t)
      /\ pc' \in [Thread -> Label] /\ loc' \in [Thread -> Locals]
  BY ReturnMoves DEF CreateInsert, At, OwnerInv, RetInv, Creating, EventOnly, OthersStay
<1>3. /\ obj' \in [Obj -> Instance] /\ obj'[p].cid = c
      /\ \A q \in Obj : q # p => obj'[q] = obj[q]
  BY <1>1, SetCid DEF CreateInsert, OwnerInv, Cid, Cid0
<1>4. /\ map' = [map EXCEPT ![c] = p] /\ handle' = handle \cup {p}
      /\ UNCHANGED <<live, used, recv, leg, next>>
  BY <1>1 DEF CreateInsert, stack
<1>5. CidsStay
  BY <1>1, <1>3, <1>4 DEF CidsStay
<1>6. TypeOK' /\ RetInv' /\ CidInv'
  <2>1. TypeOK'
    BY <1>1, <1>2, <1>3, <1>4 DEF OwnerInv, TypeOK
  <2>2. RetInv'
    BY <1>2 DEF OwnerInv, OthersStay, RetInv, Creating, Erasing, EventOnly
  <2>3. \A q \in Obj : obj'[q].cid = IF q = p THEN c ELSE obj[q].cid
    BY <1>3
  <2>4. CidInv /\ used \subseteq Obj /\ handle \subseteq Obj
    BY DEF OwnerInv, TypeOK
  <2>5. /\ \A q \in Obj : obj'[q].cid < next'
        /\ \A q \in Obj : q \notin used' => obj'[q].cid = 0
        /\ \A q, r \in Obj : obj'[q].cid = obj'[r].cid /\ obj'[q].cid # 0 => q = r
    BY <1>1, <1>4, <2>3, <2>4 DEF CidInv
  <2>6. \A q \in handle' : q \in used' /\ obj'[q].cid # 0
    BY <1>1, <1>4, <2>3, <2>4 DEF CidInv
  <2>7. \A d \in Cid : map'[d] # NULL => map'[d] \in used'
    BY <1>1, <1>4, <2>4 DEF CidInv, OwnerInv, TypeOK
  <2>8. CidInv'
    BY <2>5, <2>6, <2>7 DEF CidInv
  <2> QED BY <2>1, <2>2, <2>8
<1>7. EnterInv' /\ AskedInv'
  <2>1. EnterInv'
    BY <1>1, <1>2, <1>3, <1>4, <1>5 DEF OwnerInv, OthersStay, EnterInv, Entering, TypeOK
  <2>2. ASSUME NEW u \in Thread, Asking(u)'
        PROVE  Asking(u) /\ loc'[u].asked = loc[u].asked
    BY <1>2, <2>2 DEF OwnerInv, OthersStay, Asking, Creating
  <2>3. \A u \in Thread : pc'[u] \in Busy \cup {"del_check"} =>
          pc[u] = pc'[u] /\ loc[u] = loc'[u]
    BY <1>2 DEF OthersStay, Busy, Erasing
  <2>4. ASSUME NEW u \in Thread, Asking(u)
        PROVE  loc[u].asked # p /\ loc[u].asked \in Obj
    BY <1>1, <2>4 DEF OwnerInv, AskedInv, TypeOK
  <2>5. AskedInv'
    BY <1>1, <1>3, <1>4, <2>2, <2>3, <2>4 DEF OwnerInv, AskedInv, TypeOK
  <2> QED BY <2>1, <2>5
<1>8. KnowsItsLeg(t)'
  BY <1>1, <1>2, <1>3, <1>4, <1>5 DEF OwnerInv, OthersStay, KnowsItsLeg, Busy, Erasing,
     TypeOK
<1>9. ReleaseInv'
  <2>1. MayRelease(t)'
    BY <1>1, <1>2, <1>3, <1>4, <1>5 DEF MayRelease, Erasing
  <2>2. ASSUME NEW u \in Thread, u # t
        PROVE  MayRelease(u)'
    BY <2>2, <1>1, <1>2, <1>3, <1>4, <1>5 DEF OwnerInv, OthersStay, ReleaseInv, MayRelease,
       BusyInv, KnowsItsLeg, Busy, Erasing, TypeOK
  <2> QED BY <2>1, <2>2 DEF ReleaseInv
<1>10. MapHasLiveInstances'
  <2>1. ASSUME NEW d \in Cid, d # c, map'[d] # NULL
        PROVE  /\ obj'[map'[d]].cid = d
               /\ \/ map'[d] \in live'
                  \/ \E u \in Thread : pc'[u] = "er_erase" /\ loc'[u].cid = d
    <3>1. map'[d] = map[d] /\ live \subseteq live' /\ pc[t] # "er_erase" /\ OthersStay(t)
      BY <2>1, <1>2, <1>4 DEF OwnerInv, TypeOK
    <3> QED BY <2>1, <3>1, <1>5, InMapStays
  <2>2. map'[c] = p /\ p \in live' /\ obj'[p].cid = c
    BY <1>1, <1>3, <1>4 DEF OwnerInv, TypeOK
  <2> QED BY <2>1, <2>2 DEF MapHasLiveInstances
<1>11. HandleOutlivesCall'
  BY <1>1, <1>2, <1>3, <1>4, <1>5 DEF OwnerInv, HandleOutlivesCall, CidInv, TypeOK
<1> QED BY <1>1, <1>2, <1>3, <1>4, <1>5, <1>6, <1>7, <1>8, <1>9, <1>10, <1>11, BusyMoves DEF
           OwnerInv

(* A puller for which no port can be opened was never there. *)
LEMMA CreateNoPortOwner ==
  ASSUME OwnerInv, NEW t \in Thread, CreateNoPort(t)
  PROVE  OwnerInv'
<1>1. /\ pc[t] = "cr_init" /\ OthersStay(t)
      /\ pc'[t] = loc[t].ret /\ loc'[t].ret = "idle" /\ loc[t].ret \in {"idle", "inv_return"}
      /\ loc[t].ret # "idle" => loc'[t].asked = loc[t].asked /\ t = "event"
      /\ pc' \in [Thread -> Label] /\ loc' \in [Thread -> Locals]
  BY ReturnMoves DEF CreateNoPort, At, OwnerInv, RetInv, Creating, EventOnly, OthersStay
<1>2. UNCHANGED <<live, used, obj, map, recv, handle, leg, next>>
  BY DEF CreateNoPort, streams, stack
<1>3. CidsStay /\ ByesStay
  BY <1>2 DEF CidsStay, ByesStay
<1>4. TypeOK' /\ RetInv' /\ CidInv'
  <2>1. TypeOK'
    BY <1>1, <1>2 DEF OwnerInv, TypeOK
  <2>2. RetInv'
    BY <1>1 DEF OwnerInv, OthersStay, RetInv, Creating, Erasing, EventOnly
  <2> QED BY <2>1, <2>2, <1>2, CidsKept DEF OwnerInv
<1>5. EnterInv' /\ AskedInv'
  <2>1. EnterInv'
    BY <1>1, <1>2, <1>3 DEF OwnerInv, OthersStay, EnterInv, Entering, TypeOK
  <2>2. AskedInv'
    BY <1>1, <1>2, <1>3 DEF OwnerInv, OthersStay, AskedInv, Asking, Creating, Busy,
       Erasing, TypeOK
  <2> QED BY <2>1, <2>2
<1>6. KnowsItsLeg(t)' /\ MayRelease(t)'
  BY <1>1, <1>2, <1>3 DEF OwnerInv, OthersStay, KnowsItsLeg, Busy, Erasing, TypeOK,
     MayRelease
<1> QED BY <1>1, <1>2, <1>3, <1>4, <1>5, <1>6, BusyMoves, ReleaseMoves, MapStays,
           HandlesStay DEF OwnerInv

(* A handle that is found to be auto-released is forgotten. *)
LEMMA DeleteAutoReleasedOwner ==
  ASSUME OwnerInv, NEW t \in Thread, DeleteAutoReleased(t)
  PROVE  OwnerInv'
<1>1. /\ pc[t] = "del_check" /\ OthersStay(t)
      /\ pc'[t] = "idle" /\ loc'[t].ret = "idle"
      /\ pc' \in [Thread -> Label] /\ loc' \in [Thread -> Locals]
  BY FinishMoves DEF DeleteAutoReleased, At, OwnerInv, OthersStay
<1>2. UNCHANGED <<live, used, obj, map, recv, handle, leg, next>>
  BY DEF DeleteAutoReleased, streams, stack
<1>3. CidsStay /\ ByesStay
  BY <1>2 DEF CidsStay, ByesStay
<1>4. TypeOK' /\ RetInv' /\ CidInv'
  <2>1. TypeOK'
    BY <1>1, <1>2 DEF OwnerInv, TypeOK
  <2>2. RetInv'
    BY <1>1 DEF OwnerInv, OthersStay, RetInv, Creating, Erasing, EventOnly
  <2> QED BY <2>1, <2>2, <1>2, CidsKept DEF OwnerInv
<1>5. EnterInv' /\ AskedInv'
  <2>1. EnterInv'
    BY <1>1, <1>2, <1>3 DEF OwnerInv, OthersStay, EnterInv, Entering, TypeOK
  <2>2. AskedInv'
    BY <1>1, <1>2, <1>3 DEF OwnerInv, OthersStay, AskedInv, Asking, Creating, Busy,
       Erasing, TypeOK
  <2> QED BY <2>1, <2>2
<1>6. KnowsItsLeg(t)' /\ MayRelease(t)'
  BY <1>1, <1>2, <1>3 DEF OwnerInv, OthersStay, KnowsItsLeg, Busy, Erasing, TypeOK,
     MayRelease
<1> QED BY <1>1, <1>2, <1>3, <1>4, <1>5, <1>6, BusyMoves, ReleaseMoves, MapStays,
           HandlesStay DEF OwnerInv

(* A puller that is deleted keeps its leg in the thread's locals. *)
LEMMA DeleteActiveOwner ==
  ASSUME OwnerInv, NEW t \in Thread, DeleteActive(t)
  PROVE  OwnerInv'
<1>1. /\ pc[t] = "del_check" /\ OthersStay(t) /\ loc[t].self \in used
      /\ obj[loc[t].self].cid # 0 /\ obj[loc[t].self].cid \in Cid
      /\ pc'[t] = "del_term" /\ loc'[t].ret = "idle" /\ loc'[t].cid = obj[loc[t].self].cid
      /\ pc' \in [Thread -> Label] /\ loc' \in [Thread -> Locals]
  <2>1. pc[t] = "del_check" /\ loc[t].self \in used /\ obj[loc[t].self].cid # 0
    BY DEF DeleteActive, At, OwnerInv, BusyInv, KnowsItsLeg
  <2>2. loc[t].self \in Obj /\ obj[loc[t].self].cid \in Cid
    BY <2>1 DEF OwnerInv, TypeOK, Instance, Cid, Cid0
  <2>3. Go(t, "del_term", Deleting(loc[t].self))
    BY DEF DeleteActive
  <2> QED BY <2>1, <2>2, <2>3, GoMoves, DeletingFields DEF OwnerInv, Label, OthersStay
<1>2. UNCHANGED <<live, used, obj, map, recv, handle, leg, next>>
  BY DEF DeleteActive, streams, stack
<1>3. CidsStay /\ ByesStay
  BY <1>2 DEF CidsStay, ByesStay
<1>4. TypeOK' /\ RetInv' /\ CidInv'
  <2>1. TypeOK'
    BY <1>1, <1>2 DEF OwnerInv, TypeOK
  <2>2. RetInv'
    BY <1>1 DEF OwnerInv, OthersStay, RetInv, Creating, Erasing, EventOnly
  <2> QED BY <2>1, <2>2, <1>2, CidsKept DEF OwnerInv
<1>5. EnterInv' /\ AskedInv'
  <2>1. EnterInv'
    BY <1>1, <1>2, <1>3 DEF OwnerInv, OthersStay, EnterInv, Entering, TypeOK
  <2>2. AskedInv'
    BY <1>1, <1>2, <1>3 DEF OwnerInv, OthersStay, AskedInv, Asking, Creating, Busy,
       Erasing, TypeOK
  <2> QED BY <2>1, <2>2
<1>6. KnowsItsLeg(t)' /\ MayRelease(t)'
  BY <1>1, <1>2, <1>3 DEF OwnerInv, OthersStay, KnowsItsLeg, Busy, Erasing, TypeOK,
     MayRelease, CidInv, ReleaseInv
<1> QED BY <1>1, <1>2, <1>3, <1>4, <1>5, <1>6, BusyMoves, ReleaseMoves, MapStays,
           HandlesStay DEF OwnerInv

(* eraseStreamInstance finds an instance of the leg in the map, if any. *)
LEMMA EraseFindOwner ==
  ASSUME OwnerInv, NEW t \in Thread, EraseFind(t)
  PROVE  OwnerInv'
<1>1. /\ pc[t] = "er_find" /\ OthersStay(t)
      /\ \/ /\ pc'[t] = loc[t].ret /\ loc'[t].ret = "idle"
            /\ loc[t].ret \in {"idle", "bye_notify"} /\ (loc[t].ret # "idle" => t = "event")
         \/ /\ map[loc[t].cid] # NULL /\ pc'[t] = "er_stop"
            /\ loc'[t].self = map[loc[t].cid] /\ loc'[t].cid = loc[t].cid /\ loc'[t].ret = loc[t].ret
      /\ loc[t].cid \in Cid /\ map[loc[t].cid] \in Obj \cup {NULL}
      /\ pc' \in [Thread -> Label] /\ loc' \in [Thread -> Locals]
  <2>1. pc[t] = "er_find" /\ loc[t].cid \in Cid /\ loc[t] \in Locals
        /\ loc[t].ret \in {"idle", "bye_notify"} /\ (loc[t].ret # "idle" => t = "event")
    BY DEF EraseFind, At, OwnerInv, TypeOK, BusyInv, KnowsItsLeg, RetInv, Erasing, EventOnly
  <2>2. map[loc[t].cid] \in Obj \cup {NULL}
    BY <2>1 DEF OwnerInv, TypeOK
  <2>3. CASE map[loc[t].cid] = NULL
    BY <2>1, <2>3, ReturnMoves DEF EraseFind, OwnerInv, OthersStay
  <2>4. CASE map[loc[t].cid] # NULL
    <3>1. Go(t, "er_stop", WithSelf(loc[t], map[loc[t].cid])) /\ map[loc[t].cid] \in Obj
      BY <2>2, <2>4 DEF EraseFind
    <3> QED BY <2>1, <2>4, <3>1, GoMoves, WithSelfFields DEF OwnerInv, Label, OthersStay
  <2> QED BY <2>1, <2>2, <2>3, <2>4
<1>2. UNCHANGED <<live, used, obj, map, recv, handle, leg, next>>
  BY DEF EraseFind, streams, stack
<1>3. CidsStay /\ ByesStay
  BY <1>2 DEF CidsStay, ByesStay
<1>4. TypeOK' /\ RetInv' /\ CidInv'
  BY <1>1, <1>2, <1>3 DEF OwnerInv, OthersStay, TypeOK, RetInv, Creating, Erasing,
     EventOnly, BusyInv, CidInv
<1>5. EnterInv' /\ AskedInv'
  BY <1>1, <1>2, <1>3 DEF OwnerInv, OthersStay, EnterInv, Entering, TypeOK, AskedInv,
     Asking, Creating, Busy, Erasing
<1>6. KnowsItsLeg(t)' /\ MayRelease(t)'
  BY <1>1, <1>2, <1>3 DEF OwnerInv, OthersStay, KnowsItsLeg, Busy, Erasing, TypeOK, CidInv,
     MapHasLiveInstances, MayRelease, ReleaseInv
<1> QED BY <1>1, <1>2, <1>3, <1>4, <1>5, <1>6, BusyMoves, ReleaseMoves, MapStays,
           HandlesStay DEF OwnerInv

(* releaseInstance asks the receiving thread to end. *)
LEMMA EraseStopOwner ==
  ASSUME OwnerInv, NEW t \in Thread, EraseStop(t)
  PROVE  OwnerInv'
<1>1. /\ pc[t] = "er_stop" /\ OthersStay(t)
      /\ pc'[t] \in {"er_wait", "er_free"} /\ loc'[t] = loc[t] /\ loc[t].self \in Obj
      /\ pc' \in [Thread -> Label] /\ loc' \in [Thread -> Locals]
  <2>1. pc[t] = "er_stop" /\ loc[t] \in Locals /\ loc[t].self \in Obj
    BY DEF EraseStop, At, OwnerInv, TypeOK, BusyInv, KnowsItsLeg, Busy, Erasing
  <2>2. Go(t, "er_wait", loc[t]) \/ Go(t, "er_free", loc[t])
    BY DEF EraseStop
  <2> QED BY <2>1, <2>2, GoMoves DEF OwnerInv, Label, OthersStay
<1>2. /\ obj' \in [Obj -> Instance] /\ \A p \in Obj : obj'[p].cid = obj[p].cid
      /\ UNCHANGED <<live, used, map, recv, handle, leg, next>>
  <2>1. obj' = Working(loc[t].self, FALSE) \/ obj' = obj
    BY DEF EraseStop
  <2>2. UNCHANGED <<live, used, map, recv, handle, leg, next>>
    BY DEF EraseStop, stack
  <2>3. Working(loc[t].self, FALSE) \in [Obj -> Instance]
        /\ \A p \in Obj : Working(loc[t].self, FALSE)[p].cid = obj[p].cid
    BY <1>1, SetWorking DEF OwnerInv
  <2>4. obj \in [Obj -> Instance]
    BY DEF OwnerInv, TypeOK
  <2> QED BY <2>1, <2>2, <2>3, <2>4
<1>3. CidsStay /\ ByesStay
  BY <1>1, <1>2 DEF CidsStay, ByesStay
<1>4. TypeOK' /\ RetInv' /\ CidInv'
  <2>1. TypeOK'
    BY <1>1, <1>2 DEF OwnerInv, TypeOK
  <2>2. RetInv'
    BY <1>1 DEF OwnerInv, OthersStay, RetInv, Creating, Erasing, EventOnly
  <2> QED BY <2>1, <2>2, <1>2, CidsKept DEF OwnerInv
<1>5. EnterInv' /\ AskedInv'
  <2>1. EnterInv'
    BY <1>1, <1>2, <1>3 DEF OwnerInv, OthersStay, EnterInv, Entering, TypeOK
  <2>2. AskedInv'
    BY <1>1, <1>2, <1>3 DEF OwnerInv, OthersStay, AskedInv, Asking, Creating, Busy,
       Erasing, TypeOK
  <2> QED BY <2>1, <2>2
<1>6. KnowsItsLeg(t)' /\ MayRelease(t)'
  BY <1>1, <1>2, <1>3 DEF OwnerInv, OthersStay, KnowsItsLeg, Busy, Erasing, TypeOK, BusyInv,
     MayRelease, ReleaseInv
<1> QED BY <1>1, <1>2, <1>3, <1>4, <1>5, <1>6, BusyMoves, ReleaseMoves, MapStays,
           HandlesStay DEF OwnerInv

(* sem_wait returns. *)
LEMMA EraseWaitOwner ==
  ASSUME OwnerInv, NEW t \in Thread, EraseWait(t)
  PROVE  OwnerInv'
<1>1. /\ pc[t] = "er_wait" /\ OthersStay(t)
      /\ pc'[t] = "er_free" /\ loc'[t] = loc[t] /\ loc[t].self \in Obj
      /\ pc' \in [Thread -> Label] /\ loc' \in [Thread -> Locals]
  <2>1. pc[t] = "er_wait" /\ loc[t] \in Locals /\ loc[t].self \in Obj
    BY DEF EraseWait, At, OwnerInv, TypeOK, BusyInv, KnowsItsLeg, Busy, Erasing
  <2> QED BY <2>1, GoMoves DEF EraseWait, OwnerInv, Label, OthersStay
<1>2. /\ obj' \in [Obj -> Instance] /\ \A p \in Obj : obj'[p].cid = obj[p].cid
      /\ UNCHANGED <<live, used, map, recv, handle, leg, next>>
  BY <1>1, SetPosted DEF EraseWait, OwnerInv, stack
<1>3. CidsStay /\ ByesStay
  BY <1>1, <1>2 DEF CidsStay, ByesStay
<1>4. TypeOK' /\ RetInv' /\ CidInv'
  <2>1. TypeOK'
    BY <1>1, <1>2 DEF OwnerInv, TypeOK
  <2>2. RetInv'
    BY <1>1 DEF OwnerInv, OthersStay, RetInv, Creating, Erasing, EventOnly
  <2> QED BY <2>1, <2>2, <1>2, CidsKept DEF OwnerInv
<1>5. EnterInv' /\ AskedInv'
  <2>1. EnterInv'
    BY <1>1, <1>2, <1>3 DEF OwnerInv, OthersStay, EnterInv, Entering, TypeOK
  <2>2. AskedInv'
    BY <1>1, <1>2, <1>3 DEF OwnerInv, OthersStay, AskedInv, Asking, Creating, Busy,
       Erasing, TypeOK
  <2> QED BY <2>1, <2>2
<1>6. KnowsItsLeg(t)' /\ MayRelease(t)'
  BY <1>1, <1>2, <1>3 DEF OwnerInv, OthersStay, KnowsItsLeg, Busy, Erasing, TypeOK, BusyInv,
     MayRelease, ReleaseInv
<1> QED BY <1>1, <1>2, <1>3, <1>4, <1>5, <1>6, BusyMoves, ReleaseMoves, MapStays,
           HandlesStay DEF OwnerInv

(* The instance is deleted, whose leg the thread has, and which no creator
   and no INVITE handler has. *)
LEMMA EraseFreeOwner ==
  ASSUME OwnerInv, NEW t \in Thread, EraseFree(t)
  PROVE  OwnerInv'
<1>1. /\ pc[t] = "er_free" /\ OthersStay(t)
      /\ pc'[t] = "er_erase" /\ loc'[t] = loc[t]
      /\ loc[t].self \in used /\ loc[t].cid \in Cid /\ obj[loc[t].self].cid = loc[t].cid /\ loc[t].cid # 0
      /\ pc' \in [Thread -> Label] /\ loc' \in [Thread -> Locals]
  <2>1. /\ pc[t] = "er_free" /\ loc[t] \in Locals /\ loc[t].self \in used
        /\ loc[t].cid \in Cid /\ obj[loc[t].self].cid = loc[t].cid /\ 0 \notin Cid
    BY DEF EraseFree, At, OwnerInv, TypeOK, BusyInv, KnowsItsLeg, Busy, Erasing, Cid
  <2> QED BY <2>1, GoMoves DEF EraseFree, OwnerInv, Label, OthersStay
<1>2. /\ live' = live \ {loc[t].self}
      /\ UNCHANGED <<used, obj, map, recv, handle, leg, next>>
  BY DEF EraseFree, stack
<1>3. CidsStay /\ ByesStay
  BY <1>1, <1>2 DEF CidsStay, ByesStay
<1>4. TypeOK' /\ RetInv' /\ CidInv'
  <2>1. TypeOK'
    BY <1>1, <1>2 DEF OwnerInv, TypeOK
  <2>2. RetInv'
    BY <1>1 DEF OwnerInv, OthersStay, RetInv, Creating, Erasing, EventOnly
  <2> QED BY <2>1, <2>2, <1>2, CidsKept DEF OwnerInv
<1>5. EnterInv' /\ AskedInv'
  <2>1. EnterInv'
    BY <1>1, <1>2, <1>3 DEF OwnerInv, OthersStay, EnterInv, Entering, TypeOK
  <2>2. AskedInv'
    BY <1>1, <1>2, <1>3 DEF OwnerInv, OthersStay, AskedInv, Asking, Creating, Busy,
       Erasing, TypeOK
  <2> QED BY <2>1, <2>2
<1>6. KnowsItsLeg(t)' /\ MayRelease(t)'
  BY <1>1, <1>2, <1>3 DEF OwnerInv, OthersStay, KnowsItsLeg, Busy, Erasing, TypeOK, BusyInv,
     MayRelease, ReleaseInv
<1>7. MapHasLiveInstances'
  <2> SUFFICES ASSUME NEW c \in Cid, map[c] # NULL
               PROVE  /\ obj[map[c]].cid = c
                      /\ \/ map[c] \in live'
                         \/ \E u \in Thread : pc'[u] = "er_erase" /\ loc'[u].cid = c
    BY <1>2 DEF MapHasLiveInstances
  <2>1. /\ obj[map[c]].cid = c
        /\ \/ map[c] \in live
           \/ \E u \in Thread : pc[u] = "er_erase" /\ loc[u].cid = c
    BY DEF OwnerInv, MapHasLiveInstances
  <2>2. CASE map[c] = loc[t].self
    BY <1>1, <2>1, <2>2
  <2>3. CASE map[c] # loc[t].self /\ map[c] \in live
    BY <1>2, <2>1, <2>3
  <2>4. CASE \E u \in Thread : pc[u] = "er_erase" /\ loc[u].cid = c
    BY <1>1, <2>1, <2>4 DEF OthersStay
  <2> QED BY <2>1, <2>2, <2>3, <2>4
<1>8. HandleOutlivesCall'
  <2> SUFFICES ASSUME NEW p \in handle
               PROVE  p \in live' \/ leg[obj[p].cid].peer = "bye"
    BY <1>2 DEF HandleOutlivesCall
  <2>1. CASE p = loc[t].self
    <3>1. loc[t].ret # "idle"
      BY <1>1, <2>1 DEF OwnerInv, ReleaseInv, MayRelease, Erasing
    <3> QED BY <1>1, <2>1, <3>1 DEF OwnerInv, ReleaseInv, MayRelease, RetInv, Erasing
  <2>2. CASE p # loc[t].self
    BY <1>2, <2>2 DEF OwnerInv, HandleOutlivesCall
  <2> QED BY <2>1, <2>2
<1> QED BY <1>1, <1>2, <1>3, <1>4, <1>5, <1>6, <1>7, <1>8, BusyMoves, ReleaseMoves DEF
           OwnerInv

(* The instance that was deleted leaves the map. *)
LEMMA EraseEraseOwner ==
  ASSUME OwnerInv, NEW t \in Thread, EraseErase(t)
  PROVE  OwnerInv'
<1>1. /\ pc[t] = "er_erase" /\ OthersStay(t) /\ loc[t].cid \in Cid
      /\ pc'[t] = loc[t].ret /\ loc'[t].ret = "idle"
      /\ loc[t].ret \in {"idle", "bye_notify"} /\ (loc[t].ret # "idle" => t = "event")
      /\ pc' \in [Thread -> Label] /\ loc' \in [Thread -> Locals]
  <2>1. pc[t] = "er_erase" /\ loc[t].cid \in Cid
    BY DEF EraseErase, At, OwnerInv, BusyInv, KnowsItsLeg, Busy, Erasing
  <2>2. loc[t].ret \in {"idle", "bye_notify"} /\ (loc[t].ret # "idle" => t = "event")
    BY <2>1 DEF OwnerInv, RetInv, Erasing
  <2> QED BY <2>1, <2>2, ReturnMoves DEF EraseErase, OwnerInv, OthersStay
<1>2. /\ map' = [map EXCEPT ![loc[t].cid] = NULL]
      /\ UNCHANGED <<live, used, obj, recv, handle, leg, next>>
  BY DEF EraseErase, stack
<1>3. CidsStay /\ ByesStay
  BY <1>1, <1>2 DEF CidsStay, ByesStay
<1>4. TypeOK' /\ RetInv' /\ CidInv'
  <2>1. TypeOK'
    BY <1>1, <1>2 DEF OwnerInv, TypeOK
  <2>2. RetInv'
    BY <1>1 DEF OwnerInv, OthersStay, RetInv, Creating, Erasing, EventOnly
  <2>3. \A c \in Cid : map'[c] \in {map[c], NULL}
    BY <1>2 DEF OwnerInv, TypeOK
  <2> QED BY <2>1, <2>2, <2>3, <1>2, CidsKept DEF OwnerInv
<1>5. EnterInv' /\ AskedInv'
  <2>1. EnterInv'
    BY <1>1, <1>2, <1>3 DEF OwnerInv, OthersStay, EnterInv, Entering, TypeOK
  <2>2. AskedInv'
    BY <1>1, <1>2, <1>3 DEF OwnerInv, OthersStay, AskedInv, Asking, Creating, Busy,
       Erasing, TypeOK
  <2> QED BY <2>1, <2>2
<1>6. KnowsItsLeg(t)' /\ MayRelease(t)'
  BY <1>1, <1>2, <1>3 DEF OwnerInv, OthersStay, KnowsItsLeg, Busy, Erasing, TypeOK,
     MayRelease
<1>7. MapHasLiveInstances'
  <2> SUFFICES ASSUME NEW c \in Cid, map'[c] # NULL
               PROVE  /\ obj[map[c]].cid = c /\ map'[c] = map[c]
                      /\ \/ map[c] \in live
                         \/ \E u \in Thread : pc'[u] = "er_erase" /\ loc'[u].cid = c
    BY <1>2 DEF MapHasLiveInstances
  <2>1. c # loc[t].cid /\ map'[c] = map[c]
    BY <1>1, <1>2 DEF OwnerInv, TypeOK
  <2>2. /\ obj[map[c]].cid = c
        /\ \/ map[c] \in live
           \/ \E u \in Thread : pc[u] = "er_erase" /\ loc[u].cid = c
    BY <2>1 DEF OwnerInv, MapHasLiveInstances
  <2> QED BY <1>1, <2>1, <2>2 DEF OthersStay
<1> QED BY <1>1, <1>2, <1>3, <1>4, <1>5, <1>6, <1>7, BusyMoves, ReleaseMoves, HandlesStay
           DEF OwnerInv

(* BYE is sent or not; the instance is looked for in the map then. *)
LEMMA DeleteTerminateOwner ==
  ASSUME OwnerInv, NEW t \in Thread, DeleteTerminate(t)
  PROVE  OwnerInv'
<1>1. /\ pc[t] = "del_term" /\ OthersStay(t) /\ loc[t].cid \in Cid
      /\ pc'[t] = "er_find" /\ loc'[t] = loc[t] /\ loc[t].ret = "idle"
      /\ pc' \in [Thread -> Label] /\ loc' \in [Thread -> Locals]
  <2>1. pc[t] = "del_term" /\ loc[t] \in Locals /\ loc[t].cid \in Cid /\ loc[t].ret = "idle"
    BY DEF DeleteTerminate, At, OwnerInv, TypeOK, BusyInv, KnowsItsLeg, RetInv, Creating,
       Erasing
  <2> QED BY <2>1, GoMoves DEF DeleteTerminate, OwnerInv, Label, OthersStay
<1>2. /\ leg' \in [Cid -> Leg] /\ \A c \in Cid : leg'[c].peer = leg[c].peer
      /\ UNCHANGED <<live, used, obj, map, recv, handle, next>>
  <2>1. leg' = Ended(loc[t].cid) \/ leg' = leg
    BY DEF DeleteTerminate
  <2> QED BY <1>1, <2>1, SetLeg DEF DeleteTerminate, OwnerInv, TypeOK, streams
<1>3. CidsStay /\ ByesStay
  BY <1>1, <1>2 DEF CidsStay, ByesStay
<1>4. TypeOK' /\ RetInv' /\ CidInv'
  <2>1. TypeOK'
    BY <1>1, <1>2 DEF OwnerInv, TypeOK
  <2>2. RetInv'
    BY <1>1 DEF OwnerInv, OthersStay, RetInv, Creating, Erasing, EventOnly
  <2> QED BY <2>1, <2>2, <1>2, CidsKept DEF OwnerInv
<1>5. EnterInv' /\ AskedInv'
  <2>1. EnterInv'
    BY <1>1, <1>2, <1>3 DEF OwnerInv, OthersStay, EnterInv, Entering, TypeOK
  <2>2. AskedInv'
    BY <1>1, <1>2, <1>3 DEF OwnerInv, OthersStay, AskedInv, Asking, Creating, Busy,
       Erasing, TypeOK
  <2> QED BY <2>1, <2>2
<1>6. KnowsItsLeg(t)' /\ MayRelease(t)'
  BY <1>1, <1>2, <1>3 DEF OwnerInv, OthersStay, KnowsItsLeg, Busy, Erasing, TypeOK, BusyInv,
     MayRelease, ReleaseInv
<1> QED BY <1>1, <1>2, <1>3, <1>4, <1>5, <1>6, BusyMoves, ReleaseMoves, MapStays,
           HandlesStay DEF OwnerInv

(* A puller whose INVITE is not sent is deleted: nobody else has it. *)
LEMMA CreateNotSentOwner ==
  ASSUME OwnerInv, NEW t \in Thread, CreateNotSent(t)
  PROVE  OwnerInv'
<1>1. /\ pc[t] = "cr_invite" /\ loc[t].self \in live /\ obj[loc[t].self].cid = 0 /\ OthersStay(t)
      /\ pc'[t] = loc[t].ret /\ loc'[t].ret = "idle" /\ loc[t].ret \in {"idle", "inv_return"}
      /\ loc[t].ret # "idle" => loc'[t].asked = loc[t].asked /\ t = "event"
      /\ pc' \in [Thread -> Label] /\ loc' \in [Thread -> Locals]
  BY ReturnMoves DEF CreateNotSent, At, OwnerInv, RetInv, Creating, EventOnly, EnterInv,
     Entering, OthersStay
<1>2. /\ live' = live \ {loc[t].self}
      /\ UNCHANGED <<used, obj, map, recv, handle, leg, next>>
  BY DEF CreateNotSent, stack
<1>3. CidsStay /\ ByesStay
  BY <1>1, <1>2 DEF CidsStay, ByesStay
<1>4. \A p \in live : obj[p].cid # 0 => p \in live'
  BY <1>1, <1>2
<1>5. TypeOK' /\ RetInv' /\ CidInv'
  BY <1>1, <1>2, <1>3, <1>4 DEF OwnerInv, OthersStay, TypeOK, RetInv, Creating, Erasing,
     EventOnly, CidInv
<1>6. EnterInv' /\ AskedInv'
  BY <1>1, <1>2, <1>3, <1>4 DEF OwnerInv, OthersStay, EnterInv, Entering, TypeOK, AskedInv,
     Asking, Creating, Busy, Erasing
<1>7. KnowsItsLeg(t)' /\ MayRelease(t)'
  BY <1>1, <1>2, <1>3, <1>4 DEF OwnerInv, OthersStay, KnowsItsLeg, Busy, Erasing, TypeOK,
     MayRelease
<1>8. MapHasLiveInstances'
  <2> SUFFICES ASSUME NEW c \in Cid, map[c] # NULL
               PROVE  /\ obj[map[c]].cid = c
                      /\ \/ map[c] \in live'
                         \/ \E u \in Thread : pc'[u] = "er_erase" /\ loc'[u].cid = c
    BY <1>2 DEF MapHasLiveInstances
  <2>1. /\ obj[map[c]].cid = c /\ c # 0
        /\ \/ map[c] \in live
           \/ \E u \in Thread : pc[u] = "er_erase" /\ loc[u].cid = c
    BY DEF OwnerInv, MapHasLiveInstances, Cid
  <2> QED BY <1>1, <1>4, <2>1 DEF OthersStay
<1>9. HandleOutlivesCall'
  BY <1>1, <1>2, <1>3, <1>4 DEF OwnerInv, HandleOutlivesCall, CidInv
<1> QED BY <1>1, <1>2, <1>3, <1>4, <1>5, <1>6, <1>7, <1>8, <1>9, BusyMoves, ReleaseMoves DEF
           OwnerInv

(* A new puller is known to its creator alone. *)
LEMMA CreateInitOwner ==
  ASSUME OwnerInv, NEW t \in Thread, CreateInit(t)
  PROVE  OwnerInv'
<1>1. PICK p \in Obj \ used :
        /\ live' = live \cup {p} /\ used' = used \cup {p}
        /\ obj' = [obj EXCEPT ![p] = Puller]
        /\ recv' = [recv EXCEPT ![p] = "run"]
        /\ Go(t, "cr_invite", WithSelf(loc[t], p))
        /\ UNCHANGED <<map, handle, leg, next>>
  BY DEF CreateInit, stack
<1>2. /\ pc[t] = "cr_init" /\ OthersStay(t)
      /\ pc'[t] = "cr_invite" /\ loc'[t].self = p /\ loc'[t].asked = loc[t].asked
      /\ loc'[t].ret = loc[t].ret /\ loc[t].ret \in {"idle", "inv_return"}
      /\ (loc[t].ret # "idle" => t = "event")
      /\ pc' \in [Thread -> Label] /\ loc' \in [Thread -> Locals]
  <2>1. /\ pc[t] = "cr_init" /\ loc[t] \in Locals /\ loc[t].ret \in {"idle", "inv_return"}
        /\ (loc[t].ret # "idle" => t = "event")
    BY DEF CreateInit, At, OwnerInv, TypeOK, RetInv, Creating, EventOnly
  <2> QED BY <1>1, <2>1, GoMoves, WithSelfFields DEF OwnerInv, Label, OthersStay
<1>3. /\ obj' \in [Obj -> Instance] /\ obj[p].cid = 0 /\ obj'[p].cid = 0 /\ p \notin live
      /\ \A q \in Obj : obj'[q].cid = obj[q].cid
  BY <1>1, PullerFields DEF OwnerInv, TypeOK, CidInv
<1>4. CidsStay /\ ByesStay
  BY <1>1, <1>3 DEF CidsStay, ByesStay
<1>5. TypeOK' /\ RetInv' /\ CidInv'
  BY <1>1, <1>2, <1>3, <1>4 DEF OwnerInv, OthersStay, TypeOK, RetInv, Creating, Erasing,
     EventOnly, CidInv
<1>6. EnterInv' /\ AskedInv'
  BY <1>1, <1>2, <1>3, <1>4 DEF OwnerInv, OthersStay, EnterInv, Entering, TypeOK, AskedInv,
     Asking, Creating, Busy, Erasing
<1>7. KnowsItsLeg(t)' /\ MayRelease(t)'
  BY <1>1, <1>2, <1>3, <1>4 DEF OwnerInv, OthersStay, KnowsItsLeg, Busy, Erasing, TypeOK,
     MayRelease
<1> QED BY <1>1, <1>2, <1>3, <1>4, <1>5, <1>6, <1>7, BusyMoves, ReleaseMoves, MapStays,
           HandlesStay DEF OwnerInv

(* The INVITE of a puller opens a leg whose cid nobody has. *)
LEMMA CreateInviteOwner ==
  ASSUME OwnerInv, NEW t \in Thread, CreateInvite(t)
  PROVE  OwnerInv'
<1>1. /\ pc[t] = "cr_invite" /\ OthersStay(t) /\ next \in Cid
      /\ pc'[t] = "cr_insert" /\ loc'[t].self = loc[t].self /\ loc'[t].asked = loc[t].asked
      /\ loc'[t].ret = loc[t].ret /\ loc[t].ret \in {"idle", "inv_return"} /\ loc'[t].cid = next
      /\ (loc[t].ret # "idle" => t = "event")
      /\ pc' \in [Thread -> Label] /\ loc' \in [Thread -> Locals]
  <2>1. /\ pc[t] = "cr_invite" /\ loc[t] \in Locals /\ loc[t].ret \in {"idle", "inv_return"}
        /\ (loc[t].ret # "idle" => t = "event")
    BY DEF CreateInvite, At, OwnerInv, TypeOK, RetInv, Creating, EventOnly
  <2>2. next \in Cid /\ next \in Cid0 /\ Go(t, "cr_insert", WithCid(loc[t], next))
    BY DEF CreateInvite, Cid, Cid0
  <2> QED BY <2>1, <2>2, GoMoves, WithCidFields DEF OwnerInv, Label, OthersStay
<1>2. /\ leg' \in [Cid -> Leg] /\ \A c \in Cid : c < next => leg'[c] = leg[c]
      /\ next' = next + 1 /\ next' \in 1 .. MaxCid + 1 /\ next \in Nat
      /\ UNCHANGED <<live, used, obj, map, recv, handle>>
  BY <1>1, LegFields DEF CreateInvite, OwnerInv, TypeOK, streams, Cid
<1>3. ASSUME NEW p \in Obj
      PROVE  obj[p].cid \in Cid0 /\ obj[p].cid < next /\ obj[p].cid # next
  <2>1. obj[p].cid \in Cid0 /\ obj[p].cid < next
    BY DEF OwnerInv, TypeOK, CidInv, Instance
  <2> QED BY <2>1, <1>2 DEF Cid0
<1>4. CidsStay /\ ByesStay
  BY <1>2 DEF CidsStay, ByesStay
<1>5. TypeOK' /\ RetInv'
  BY <1>1, <1>2, <1>3, <1>4 DEF OwnerInv, OthersStay, TypeOK, RetInv, Creating, Erasing,
     EventOnly
<1>6. CidInv'
  <2>1. \A p \in Obj : obj'[p].cid < next'
    <3> SUFFICES ASSUME NEW p \in Obj
                 PROVE  obj'[p].cid < next'
      OBVIOUS
    <3>1. obj[p].cid \in Nat /\ obj[p].cid < next
      BY <1>3 DEF Cid0
    <3> QED BY <3>1, <1>2
  <2> QED BY <2>1, <1>2 DEF OwnerInv, CidInv
<1>7. AskedInv'
  BY <1>1, <1>2, <1>3, <1>4 DEF OwnerInv, OthersStay, AskedInv, Asking, Creating, Busy,
     Erasing, TypeOK
<1>8. EnterInv'
  <2>1. /\ pc'[t] \in Entering => loc'[t].self \in live' /\ obj'[loc'[t].self].cid = 0
        /\ loc'[t].cid \in Cid /\ loc'[t].cid < next'
        /\ \A p \in Obj : obj'[p].cid # loc'[t].cid
    BY <1>1, <1>2, <1>3, <1>4 DEF OwnerInv, EnterInv, Entering
  <2>2. ASSUME NEW u \in Thread, u # t
        PROVE  /\ pc'[u] \in Entering => loc'[u].self \in live' /\ obj'[loc'[u].self].cid = 0
               /\ pc'[u] = "cr_insert" =>
                    /\ loc'[u].cid \in Cid /\ loc'[u].cid < next /\ loc'[u].cid # loc'[t].cid
                    /\ \A p \in Obj : obj'[p].cid # loc'[u].cid
               /\ pc'[u] \in Entering => loc'[u].self # loc'[t].self
    BY <2>2, <1>1, <1>2, <1>3, <1>4 DEF OwnerInv, EnterInv, Entering, OthersStay, Cid
  <2>3. ASSUME NEW u \in Thread, NEW v \in Thread, u # t, v # t, u # v
        PROVE  /\ pc'[u] \in Entering /\ pc'[v] \in Entering => loc'[u].self # loc'[v].self
               /\ pc'[u] = "cr_insert" /\ pc'[v] = "cr_insert" => loc'[u].cid # loc'[v].cid
    BY <2>3, <1>1 DEF OwnerInv, EnterInv, OthersStay
  <2>4. \A u \in Thread : pc'[u] = "cr_insert" => loc'[u].cid < next'
    BY <2>1, <2>2, <1>1, <1>2, <1>3, <1>4 DEF Cid
  <2> QED BY <2>1, <2>2, <2>3, <2>4, <1>1, <1>2, <1>3, <1>4 DEF EnterInv, Entering
<1>9. KnowsItsLeg(t)' /\ MayRelease(t)'
  BY <1>1, <1>2, <1>3, <1>4 DEF OwnerInv, OthersStay, KnowsItsLeg, Busy, Erasing, TypeOK,
     MayRelease
<1> QED BY <1>1, <1>2, <1>3, <1>4, <1>5, <1>6, <1>7, <1>8, <1>9, BusyMoves, ReleaseMoves,
           MapStays, HandlesStay DEF OwnerInv

(* An INVITE that is dropped opens a leg. *)
LEMMA InviteDroppedOwner ==
  ASSUME OwnerInv, InviteDropped
  PROVE  OwnerInv'
<1>1. /\ "event" \in Thread /\ OthersStay("event") /\ next \in Cid
      /\ pc' = pc /\ loc' = loc /\ pc["event"] = "idle"
  BY DEF InviteDropped, At, control, OthersStay
<1>2. /\ leg' \in [Cid -> Leg] /\ \A c \in Cid : c < next => leg'[c] = leg[c]
      /\ next' = next + 1 /\ next' \in 1 .. MaxCid + 1 /\ next \in Nat
      /\ UNCHANGED <<live, used, obj, map, recv, handle>>
  BY <1>1, LegFields, LegOpens DEF InviteDropped, streams, Cid
<1>3. CidsStay /\ ByesStay
  BY <1>2 DEF CidsStay, ByesStay
<1>4. TypeOK' /\ RetInv'
  BY <1>1, <1>2, <1>3 DEF OwnerInv, OthersStay, TypeOK, RetInv, Creating, Erasing, EventOnly
<1>5. CidInv'
  BY <1>1, <1>2, <1>3, CidsBelow DEF OwnerInv, CidInv
<1>6. AskedInv'
  BY <1>1, <1>2, <1>3 DEF OwnerInv, OthersStay, AskedInv, Asking, Creating, Busy, Erasing,
     TypeOK
<1>7. EnterInv'
  <2>1. \A t \in Thread : loc[t].cid \in Cid /\ loc[t].cid < next => loc[t].cid < next'
    BY <1>2 DEF Cid
  <2> QED BY <2>1, <1>1, <1>2, <1>3 DEF OwnerInv, EnterInv
<1>8. KnowsItsLeg("event")' /\ MayRelease("event")'
  BY <1>1, <1>2, <1>3 DEF OwnerInv, OthersStay, KnowsItsLeg, Busy, Erasing, TypeOK,
     MayRelease
<1> QED BY <1>1, <1>2, <1>3, <1>4, <1>5, <1>6, <1>7, <1>8, BusyMoves, ReleaseMoves,
           MapStays, HandlesStay DEF OwnerInv

(* The pusher of an INVITE is new, and has a cid nobody has. *)
LEMMA InviteIncomingOwner ==
  ASSUME OwnerInv, InviteIncoming
  PROVE  OwnerInv'
<1>1. PICK p \in Obj \ used :
        /\ live' = live \cup {p} /\ used' = used \cup {p}
        /\ obj' = [obj EXCEPT ![p] = Pusher(next)]
        /\ Go("event", "inv_callback", Asked(p, next))
        /\ UNCHANGED <<map, recv, handle>>
  BY DEF InviteIncoming
<1>2. /\ "event" \in Thread /\ OthersStay("event") /\ next \in Cid /\ pc["event"] = "idle"
      /\ pc'["event"] = "inv_callback" /\ loc'["event"].asked = p
      /\ loc'["event"].ret = "idle"
      /\ pc' \in [Thread -> Label] /\ loc' \in [Thread -> Locals]
  <2>1. "event" \in Thread /\ next \in Cid /\ pc["event"] = "idle"
    BY DEF InviteIncoming, At
  <2>2. next \in Cid0
    BY <2>1 DEF Cid, Cid0
  <2> QED BY <1>1, <2>1, <2>2, GoMoves, AskedFields DEF OwnerInv, Label, OthersStay
<1>3. /\ leg' \in [Cid -> Leg] /\ \A c \in Cid : c < next => leg'[c] = leg[c]
      /\ next' = next + 1 /\ next' \in 1 .. MaxCid + 1 /\ next \in Nat /\ next # 0
  BY <1>2, LegFields, LegOpens DEF InviteIncoming, Cid
<1>4. /\ obj' \in [Obj -> Instance] /\ obj[p].cid = 0 /\ obj'[p].cid = next /\ p \notin live
      /\ \A q \in Obj : q # p => obj'[q] = obj[q]
  <2>1. next \in Cid0
    BY <1>2 DEF Cid, Cid0
  <2> QED BY <1>1, <2>1, PusherFields DEF OwnerInv, TypeOK, CidInv
<1>5. CidsStay /\ ByesStay
  BY <1>1, <1>3, <1>4 DEF CidsStay, ByesStay
<1>6. TypeOK' /\ RetInv'
  BY <1>1, <1>2, <1>3, <1>4, <1>5 DEF OwnerInv, OthersStay, TypeOK, RetInv, Creating,
     Erasing, EventOnly
<1>7. CidInv'
  <2>1. \A q \in Obj : obj'[q].cid < next'
    BY <1>3, <1>4, CidsBelow
  <2>2. \A q \in Obj : q # p => obj'[q].cid # obj'[p].cid
    BY <1>4, CidsBelow
  <2>3. \A q, r \in Obj : obj'[q].cid = obj'[r].cid /\ obj'[q].cid # 0 => q = r
    BY <2>2, <1>4 DEF OwnerInv, CidInv
  <2> QED BY <1>1, <1>4, <2>1, <2>3 DEF OwnerInv, CidInv, TypeOK
<1>8. EnterInv'
  <2> SUFFICES ASSUME NEW u \in Thread, pc'[u] \in Entering
               PROVE  /\ pc[u] = pc'[u] /\ loc[u] = loc'[u] /\ u # "event"
                      /\ loc'[u].self \in live' /\ obj'[loc'[u].self].cid = 0
                      /\ pc'[u] = "cr_insert" =>
                           /\ loc'[u].cid \in Cid /\ loc'[u].cid < next'
                           /\ \A q \in Obj : obj'[q].cid # loc'[u].cid
    BY DEF OwnerInv, EnterInv, Entering
  <2>1. pc[u] = pc'[u] /\ loc[u] = loc'[u] /\ u # "event"
    BY <1>2 DEF OthersStay, Entering
  <2>2. loc[u].self \in live /\ loc[u].self \in Obj /\ obj[loc[u].self].cid = 0
    BY <2>1 DEF OwnerInv, EnterInv, TypeOK
  <2>3. pc[u] = "cr_insert" => /\ loc[u].cid \in Cid /\ loc[u].cid < next
                               /\ \A q \in Obj : obj[q].cid # loc[u].cid
    BY DEF OwnerInv, EnterInv
  <2>4. pc[u] = "cr_insert" => loc[u].cid < next' /\ loc[u].cid # next
    BY <2>3, <1>3 DEF Cid
  <2> QED BY <1>1, <1>2, <1>4, <2>1, <2>2, <2>3, <2>4
<1>9. AskedInv'
  <2> SUFFICES ASSUME NEW u \in Thread, Asking(u)'
               PROVE  /\ loc'[u].asked = p /\ p \in live' /\ obj'[p].cid # 0 /\ p \notin handle'
                      /\ \A c \in Cid : map'[c] # p
                      /\ \A v \in Thread : pc'[v] \in Busy \cup {"del_check"} => loc'[v].self # p
    BY DEF AskedInv
  <2>1. u = "event"
    BY <1>1, <1>2, <1>3, <1>4, <1>5 DEF OwnerInv, RetInv, OthersStay, Asking, Creating,
       Erasing, EventOnly
  <2>2. \A v \in Thread : pc'[v] \in Busy \cup {"del_check"} =>
          v # "event" /\ pc[v] = pc'[v] /\ loc[v] = loc'[v]
    BY <1>2 DEF OthersStay, Busy, Erasing
  <2>3. \A v \in Thread : pc[v] \in Busy \cup {"del_check"} => loc[v].self \in used
    BY DEF OwnerInv, BusyInv, KnowsItsLeg
  <2>4. \A v \in Thread : pc'[v] \in Busy \cup {"del_check"} => loc'[v].self # p
    BY <1>1, <2>2, <2>3
  <2>5. p \notin handle' /\ \A c \in Cid : map'[c] # p
    BY <1>1, StreamAssumption DEF OwnerInv, CidInv
  <2> QED BY <1>1, <1>2, <1>3, <1>4, <2>1, <2>4, <2>5
<1>10. KnowsItsLeg("event")' /\ MayRelease("event")'
  BY <1>1, <1>2, <1>3, <1>4, <1>5 DEF OwnerInv, OthersStay, KnowsItsLeg, Busy, Erasing,
     TypeOK, MayRelease
<1> QED BY <1>1, <1>2, <1>3, <1>4, <1>5, <1>6, <1>7, <1>8, <1>9, <1>10, BusyMoves,
           ReleaseMoves, MapStays, HandlesStay DEF OwnerInv

(* The application creates a puller before it answers, or answers. *)
LEMMA InviteCallbackOwner ==
  ASSUME OwnerInv, InviteCallback
  PROVE  OwnerInv'
<1>1. /\ "event" \in Thread /\ OthersStay("event") /\ pc["event"] = "inv_callback"
      /\ loc'["event"].asked = loc["event"].asked
      /\ \/ pc'["event"] = "inv_return" /\ loc'["event"].ret = "idle"
         \/ pc'["event"] = "cr_init" /\ loc'["event"].ret = "inv_return"
      /\ pc' \in [Thread -> Label] /\ loc' \in [Thread -> Locals]
  <2>1. "event" \in Thread /\ pc["event"] = "inv_callback"
    BY DEF InviteCallback, At
  <2>2. loc["event"] \in Locals /\ loc["event"].ret = "idle"
    BY <2>1 DEF OwnerInv, TypeOK, RetInv, Creating, Erasing
  <2>3. CASE Go("event", "inv_return", loc["event"])
    BY <2>1, <2>2, <2>3, GoMoves DEF OwnerInv, Label, OthersStay
  <2>4. CASE Go("event", "cr_init", WithRet(loc["event"], "inv_return"))
    BY <2>1, <2>2, <2>4, GoMoves, WithRetFields DEF OwnerInv, Label, OthersStay
  <2> QED BY <2>3, <2>4 DEF InviteCallback
<1>2. UNCHANGED <<live, used, obj, map, recv, handle, leg, next>>
  BY DEF InviteCallback, streams, stack
<1>3. CidsStay /\ ByesStay
  BY <1>2 DEF CidsStay, ByesStay
<1>4. TypeOK' /\ RetInv' /\ CidInv'
  <2>1. TypeOK'
    BY <1>1, <1>2 DEF OwnerInv, TypeOK
  <2>2. RetInv'
    BY <1>1 DEF OwnerInv, OthersStay, RetInv, Creating, Erasing, EventOnly
  <2> QED BY <2>1, <2>2, <1>2, CidsKept DEF OwnerInv
<1>5. EnterInv' /\ AskedInv'
  <2>1. EnterInv'
    BY <1>1, <1>2, <1>3 DEF OwnerInv, OthersStay, EnterInv, Entering, TypeOK
  <2>2. AskedInv'
    BY <1>1, <1>2, <1>3 DEF OwnerInv, OthersStay, AskedInv, Asking, Creating, Busy,
       Erasing, TypeOK
  <2> QED BY <2>1, <2>2
<1>6. KnowsItsLeg("event")' /\ MayRelease("event")'
  BY <1>1, <1>2, <1>3 DEF OwnerInv, OthersStay, KnowsItsLeg, Busy, Erasing, TypeOK,
     MayRelease
<1> QED BY <1>1, <1>2, <1>3, <1>4, <1>5, <1>6, BusyMoves, ReleaseMoves, MapStays,
           HandlesStay DEF OwnerInv

(* The pusher of an INVITE that is accepted enters the map under its cid. *)
LEMMA InviteAcceptedOwner ==
  ASSUME OwnerInv, InviteAccepted
  PROVE  OwnerInv'
<1>1. PICK p \in live :
        /\ p = loc["event"].asked /\ p \in Obj /\ p \in used /\ obj[p].cid # 0 /\ obj[p].cid \in Cid
        /\ p \notin handle /\ \A c \in Cid : map[c] # p
  <2>1. pc["event"] = "inv_return" /\ "event" \in Thread
    BY DEF InviteAccepted, At
  <2>2. /\ loc["event"].asked \in live /\ obj[loc["event"].asked].cid # 0
        /\ loc["event"].asked \notin handle /\ \A c \in Cid : map[c] # loc["event"].asked
    BY <2>1 DEF OwnerInv, AskedInv, Asking
  <2>3. \A q \in Obj : obj[q].cid \in Cid0
    BY DEF OwnerInv, TypeOK, Instance
  <2> QED BY <2>2, <2>3 DEF OwnerInv, TypeOK, Cid, Cid0
<1>2. /\ "event" \in Thread /\ OthersStay("event") /\ pc["event"] = "inv_return"
      /\ pc'["event"] = "idle" /\ loc'["event"].ret = "idle"
      /\ pc' \in [Thread -> Label] /\ loc' \in [Thread -> Locals]
  BY FinishMoves DEF InviteAccepted, At, OwnerInv, OthersStay
<1>3. /\ obj' \in [Obj -> Instance] /\ \A q \in Obj : obj'[q].cid = obj[q].cid
  <2>1. obj[p].cid \in Cid0 /\ obj' = setDID(p, obj[p].cid) /\ p \in Obj /\ TypeOK
    BY <1>1 DEF InviteAccepted, Cid, Cid0, OwnerInv
  <2> QED BY <2>1, SetDid
<1>4. /\ leg' \in [Cid -> Leg] /\ \A c \in Cid : leg'[c].peer = leg[c].peer
      /\ map' = [map EXCEPT ![obj[p].cid] = p]
      /\ UNCHANGED <<live, used, recv, handle, next>>
  <2>1. leg' = Answered(obj[p].cid) /\ map' = [map EXCEPT ![obj[p].cid] = p]
        /\ UNCHANGED <<live, used, recv, handle, next>>
    BY <1>1 DEF InviteAccepted
  <2> QED BY <1>1, <2>1, SetLeg DEF OwnerInv
<1>5. CidsStay /\ ByesStay
  BY <1>1, <1>2, <1>3, <1>4 DEF CidsStay, ByesStay
<1>6. ASSUME NEW u \in Thread, pc'[u] \in Entering
      PROVE  /\ pc[u] = pc'[u] /\ loc[u] = loc'[u]
             /\ loc[u].self \in Obj
  BY <1>2, <1>6 DEF OthersStay, OwnerInv, EnterInv, Entering, TypeOK
<1>7. TypeOK' /\ RetInv'
  BY <1>1, <1>2, <1>3, <1>4, <1>5, <1>6 DEF OwnerInv, OthersStay, TypeOK, RetInv, Creating,
     Erasing, EventOnly
<1>8. CidInv'
  <2>1. \A c \in Cid : map'[c] # NULL => map'[c] \in used
    BY <1>1, <1>4 DEF OwnerInv, CidInv, TypeOK
  <2>2. \A q \in used : q \in Obj
    BY DEF OwnerInv, TypeOK
  <2> QED BY <1>3, <1>4, <2>1, <2>2 DEF OwnerInv, CidInv, TypeOK
<1>9. EnterInv'
  BY <1>3, <1>4, <1>6 DEF OwnerInv, EnterInv, Entering
<1>10. AskedInv'
  <2> SUFFICES ASSUME NEW u \in Thread, Asking(u)'
               PROVE  FALSE
    BY DEF AskedInv
  <2> QED BY <1>1, <1>2, <1>3, <1>4, <1>5, <1>6 DEF OwnerInv, RetInv, OthersStay, Asking,
             Creating, Erasing, EventOnly
<1>11. KnowsItsLeg("event")' /\ MayRelease("event")'
  BY <1>1, <1>2, <1>3, <1>4, <1>5, <1>6 DEF OwnerInv, OthersStay, KnowsItsLeg, Busy,
     Erasing, TypeOK, MayRelease
<1>12. MapHasLiveInstances'
  <2> SUFFICES ASSUME NEW c \in Cid, map'[c] # NULL
               PROVE  /\ obj'[map'[c]].cid = c
                      /\ \/ map'[c] \in live'
                         \/ \E u \in Thread : pc'[u] = "er_erase" /\ loc'[u].cid = c
    BY DEF MapHasLiveInstances
  <2>1. CASE c = obj[p].cid
    <3>1. map'[c] = p
      BY <1>1, <1>4, <2>1 DEF OwnerInv, TypeOK
    <3>2. obj'[p].cid = c /\ p \in live'
      BY <1>1, <1>3, <1>4, <2>1
    <3> QED BY <3>1, <3>2
  <2>2. CASE c # obj[p].cid
    <3>1. map'[c] = map[c] /\ live \subseteq live' /\ pc["event"] # "er_erase"
      BY <1>1, <1>2, <1>4, <2>2 DEF OwnerInv, TypeOK
    <3> QED BY <1>2, <1>5, <3>1, InMapStays
  <2> QED BY <2>1, <2>2
<1> QED BY <1>1, <1>2, <1>3, <1>4, <1>5, <1>6, <1>7, <1>8, <1>9, <1>10, <1>11, <1>12,
           BusyMoves, ReleaseMoves, HandlesStay DEF OwnerInv

(* The pusher of an INVITE that is refused is known to nobody else. *)
LEMMA InviteRefusedOwner ==
  ASSUME OwnerInv, InviteRefused
  PROVE  OwnerInv'
<1>1. PICK p \in live :
        /\ p = loc["event"].asked /\ p \in Obj /\ p \in used /\ obj[p].cid # 0 /\ obj[p].cid \in Cid
        /\ p \notin handle /\ \A c \in Cid : map[c] # p
  <2>1. pc["event"] = "inv_return" /\ "event" \in Thread
    BY DEF InviteRefused, At
  <2>2. /\ loc["event"].asked \in live /\ obj[loc["event"].asked].cid # 0
        /\ loc["event"].asked \notin handle /\ \A c \in Cid : map[c] # loc["event"].asked
    BY <2>1 DEF OwnerInv, AskedInv, Asking
  <2>3. \A q \in Obj : obj[q].cid \in Cid0
    BY DEF OwnerInv, TypeOK, Instance
  <2> QED BY <2>2, <2>3 DEF OwnerInv, TypeOK, Cid, Cid0
<1>2. /\ "event" \in Thread /\ OthersStay("event") /\ pc["event"] = "inv_return"
      /\ pc'["event"] = "idle" /\ loc'["event"].ret = "idle"
      /\ pc' \in [Thread -> Label] /\ loc' \in [Thread -> Locals]
  BY FinishMoves DEF InviteRefused, At, OwnerInv, OthersStay
<1>3. /\ live' = live \ {p}
      /\ UNCHANGED <<used, obj, map, recv, handle, leg, next>>
  BY <1>1 DEF InviteRefused, stack
<1>4. CidsStay /\ ByesStay
  BY <1>3 DEF CidsStay, ByesStay
<1>5. TypeOK' /\ RetInv' /\ CidInv'
  BY <1>1, <1>2, <1>3, <1>4 DEF OwnerInv, OthersStay, TypeOK, RetInv, Creating, Erasing,
     EventOnly, CidInv
<1>6. EnterInv'
  BY <1>1, <1>2, <1>3, <1>4 DEF OwnerInv, OthersStay, EnterInv, Entering, TypeOK
<1>7. AskedInv'
  <2> SUFFICES ASSUME NEW u \in Thread, Asking(u)'
               PROVE  FALSE
    BY DEF AskedInv
  <2> QED BY <1>1, <1>2, <1>3, <1>4 DEF OwnerInv, RetInv, OthersStay, Asking, Creating,
             Erasing, EventOnly
<1>8. KnowsItsLeg("event")' /\ MayRelease("event")'
  BY <1>1, <1>2, <1>3, <1>4 DEF OwnerInv, OthersStay, KnowsItsLeg, Busy, Erasing, TypeOK,
     MayRelease
<1>9. MapHasLiveInstances'
  <2> SUFFICES ASSUME NEW c \in Cid, map[c] # NULL
               PROVE  /\ obj[map[c]].cid = c
                      /\ \/ map[c] \in live'
                         \/ \E u \in Thread : pc'[u] = "er_erase" /\ loc'[u].cid = c
    BY <1>3 DEF MapHasLiveInstances
  <2>1. /\ obj[map[c]].cid = c /\ map[c] # p
        /\ \/ map[c] \in live
           \/ \E u \in Thread : pc[u] = "er_erase" /\ loc[u].cid = c
    BY <1>1 DEF OwnerInv, MapHasLiveInstances
  <2> QED BY <1>2, <1>3, <2>1 DEF OthersStay
<1>10. HandleOutlivesCall'
  BY <1>1, <1>2, <1>3, <1>4 DEF OwnerInv, HandleOutlivesCall
<1> QED BY <1>1, <1>2, <1>3, <1>4, <1>5, <1>6, <1>7, <1>8, <1>9, <1>10, BusyMoves,
           ReleaseMoves DEF OwnerInv

(* A thread that is done with a call or a callback is at rest. *)
LEMMA FinishOwner ==
  ASSUME OwnerInv, NEW t \in Thread, pc[t] \in {"idle", "rsp_notify", "bye_notify"},
         Finish(t), UNCHANGED <<live, used, obj, map, recv, handle, leg, next>>
  PROVE  OwnerInv'
<1>1. /\ OthersStay(t) /\ pc'[t] = "idle" /\ loc'[t].ret = "idle"
      /\ pc' \in [Thread -> Label] /\ loc' \in [Thread -> Locals]
  BY FinishMoves DEF OwnerInv, OthersStay
<1>2. CidsStay /\ ByesStay
  BY <1>1 DEF CidsStay, ByesStay
<1>3. TypeOK' /\ RetInv' /\ CidInv'
  BY <1>1, <1>2 DEF OwnerInv, OthersStay, TypeOK, RetInv, Creating, Erasing, EventOnly,
     CidInv
<1>4. EnterInv' /\ AskedInv'
  BY <1>1, <1>2 DEF OwnerInv, OthersStay, EnterInv, Entering, TypeOK, AskedInv, Asking,
     Creating, Busy, Erasing
<1>5. KnowsItsLeg(t)' /\ MayRelease(t)'
  BY <1>1, <1>2 DEF OwnerInv, OthersStay, KnowsItsLeg, Busy, Erasing, TypeOK, MayRelease
<1> QED BY <1>1, <1>2, <1>3, <1>4, <1>5, BusyMoves, ReleaseMoves, MapStays, HandlesStay DEF
           OwnerInv

(* The application gives back a handle to have its puller deleted. *)
LEMMA DeleteOwner ==
  ASSUME OwnerInv, NEW t \in Thread, NEW p \in handle, Delete(t, p),
         pc[t] \in {"idle", "rsp_notify", "bye_notify"},
         UNCHANGED <<live, used, obj, map, recv, leg, next>>
  PROVE  OwnerInv'
<1>1. /\ OthersStay(t) /\ pc'[t] = "del_check" /\ loc'[t].ret = "idle" /\ loc'[t].self = p
      /\ pc' \in [Thread -> Label] /\ loc' \in [Thread -> Locals]
  <2>1. p \in Obj /\ 0 \in Cid0 /\ Go(t, "del_check", Holding(p, 0))
    BY DEF Delete, OwnerInv, TypeOK, Cid0
  <2> QED BY <2>1, GoMoves, HoldingFields DEF OwnerInv, Label, OthersStay
<1>2. handle' = handle \ {p} /\ p \in used /\ obj[p].cid # 0
  BY DEF Delete, OwnerInv, CidInv
<1>3. CidsStay /\ ByesStay
  BY DEF CidsStay, ByesStay
<1>4. TypeOK' /\ RetInv' /\ CidInv'
  <2>1. TypeOK'
    BY <1>1, <1>2 DEF OwnerInv, TypeOK
  <2>2. RetInv'
    BY <1>1 DEF OwnerInv, OthersStay, RetInv, Creating, Erasing, EventOnly
  <2> QED BY <2>1, <2>2, <1>2, CidsKept DEF OwnerInv
<1>5. EnterInv' /\ AskedInv'
  <2>1. EnterInv'
    BY <1>1, <1>2, <1>3 DEF OwnerInv, OthersStay, EnterInv, Entering, TypeOK
  <2>2. AskedInv'
    BY <1>1, <1>2, <1>3 DEF OwnerInv, OthersStay, AskedInv, Asking, Creating, Busy,
       Erasing, TypeOK
  <2> QED BY <2>1, <2>2
<1>6. KnowsItsLeg(t)' /\ MayRelease(t)'
  BY <1>1, <1>2, <1>3 DEF OwnerInv, OthersStay, KnowsItsLeg, Busy, Erasing, TypeOK,
     MayRelease
<1> QED BY <1>1, <1>2, <1>3, <1>4, <1>5, <1>6, BusyMoves, ReleaseMoves, MapStays,
           HandlesStay DEF OwnerInv

(* The application creates a puller from its own thread. *)
LEMMA ApiCreateOwner ==
  ASSUME OwnerInv, ApiCreate
  PROVE  OwnerInv'
<1>1. /\ "api" \in Thread /\ OthersStay("api") /\ pc["api"] = "idle"
      /\ pc'["api"] = "cr_init" /\ loc'["api"].ret = "idle"
      /\ pc' \in [Thread -> Label] /\ loc' \in [Thread -> Locals]
  BY NoLocalsFields, GoMoves DEF ApiCreate, At, OwnerInv, Label, OthersStay
<1>2. UNCHANGED <<live, used, obj, map, recv, handle, leg, next>>
  BY DEF ApiCreate, streams, stack
<1>3. CidsStay /\ ByesStay
  BY <1>2 DEF CidsStay, ByesStay
<1>4. TypeOK' /\ RetInv' /\ CidInv'
  <2>1. TypeOK'
    BY <1>1, <1>2 DEF OwnerInv, TypeOK
  <2>2. RetInv'
    BY <1>1 DEF OwnerInv, OthersStay, RetInv, Creating, Erasing, EventOnly
  <2> QED BY <2>1, <2>2, <1>2, CidsKept DEF OwnerInv
<1>5. EnterInv' /\ AskedInv'
  <2>1. EnterInv'
    BY <1>1, <1>2, <1>3 DEF OwnerInv, OthersStay, EnterInv, Entering, TypeOK
  <2>2. AskedInv'
    BY <1>1, <1>2, <1>3 DEF OwnerInv, OthersStay, AskedInv, Asking, Creating, Busy,
       Erasing, TypeOK
  <2> QED BY <2>1, <2>2
<1>6. KnowsItsLeg("api")' /\ MayRelease("api")'
  BY <1>1, <1>2, <1>3 DEF OwnerInv, OthersStay, KnowsItsLeg, Busy, Erasing, TypeOK,
     MayRelease
<1> QED BY <1>1, <1>2, <1>3, <1>4, <1>5, <1>6, BusyMoves, ReleaseMoves, MapStays,
           HandlesStay DEF OwnerInv

(* The event thread looks for the instance of a leg the other side has
   spoken on. *)
LEMMA LookupOwner ==
  ASSUME OwnerInv, NEW c \in Cid, NEW l \in {"ok_did", "rsp_notify", "bye_auto"}, Lookup(c, l),
         NEW a \in {"ok", "refuse", "bye"}, leg' = Peer(c, a),
         leg[c].peer = "bye" \/ l = "bye_auto" => a = "bye",
         "event" \in Thread, pc["event"] = "idle",
         UNCHANGED <<live, used, obj, map, recv, handle, next>>
  PROVE  OwnerInv'
<1>1. /\ leg' \in [Cid -> Leg] /\ leg'[c].peer = a
      /\ \A d \in Cid : leg[d].peer = "bye" => leg'[d].peer = "bye"
  <2>1. /\ leg' \in [Cid -> Leg] /\ leg'[c].peer = a
        /\ \A d \in Cid : d # c => leg'[d] = leg[d]
    BY SetLeg DEF OwnerInv
  <2> QED BY <2>1
<1>2. /\ OthersStay("event") /\ loc'["event"].ret = "idle"
      /\ \/ pc'["event"] = "idle"
         \/ /\ pc'["event"] = l /\ loc'["event"].cid = c /\ loc'["event"].self = map[c]
            /\ map[c] \in used /\ obj[map[c]].cid = c
      /\ pc' \in [Thread -> Label] /\ loc' \in [Thread -> Locals]
  <2>1. CASE map[c] = NULL
    BY <2>1, FinishMoves DEF Lookup, OwnerInv, OthersStay
  <2>2. CASE map[c] # NULL
    <3>1. map[c] \in used /\ obj[map[c]].cid = c /\ map[c] \in Obj /\ c \in Cid0
      BY <2>2 DEF OwnerInv, CidInv, MapHasLiveInstances, TypeOK, Cid, Cid0
    <3>2. Go("event", l, Holding(map[c], c))
      BY <2>2 DEF Lookup
    <3> QED BY <3>1, <3>2, GoMoves, HoldingFields DEF OwnerInv, Label, OthersStay
  <2> QED BY <2>1, <2>2
<1>3. CidsStay /\ ByesStay
  BY <1>1 DEF CidsStay, ByesStay
<1>4. TypeOK' /\ RetInv' /\ CidInv'
  BY <1>1, <1>2, <1>3 DEF OwnerInv, OthersStay, TypeOK, RetInv, Creating, Erasing,
     EventOnly, CidInv
<1>5. EnterInv'
  BY <1>1, <1>2, <1>3 DEF OwnerInv, OthersStay, EnterInv, Entering, TypeOK
<1>6. AskedInv'
  <2> SUFFICES ASSUME NEW u \in Thread, Asking(u)'
               PROVE  FALSE
    BY DEF AskedInv
  <2> QED BY <1>1, <1>2, <1>3 DEF OwnerInv, RetInv, OthersStay, Asking, Creating, Erasing,
             EventOnly
<1>7. KnowsItsLeg("event")' /\ MayRelease("event")'
  BY <1>1, <1>2, <1>3 DEF OwnerInv, OthersStay, KnowsItsLeg, Busy, Erasing, TypeOK,
     MayRelease
<1> QED BY <1>1, <1>2, <1>3, <1>4, <1>5, <1>6, <1>7, BusyMoves, ReleaseMoves, MapStays,
           HandlesStay DEF OwnerInv

(* The dialog of a call that is answered is noted. *)
LEMMA AnswerSetDidOwner ==
  ASSUME OwnerInv, AnswerSetDid
  PROVE  OwnerInv'
<1>1. /\ "event" \in Thread /\ OthersStay("event") /\ pc["event"] = "ok_did"
      /\ pc'["event"] = "idle" /\ loc'["event"].ret = "idle"
      /\ pc' \in [Thread -> Label] /\ loc' \in [Thread -> Locals]
  BY FinishMoves DEF AnswerSetDid, At, OwnerInv, OthersStay
<1>2. /\ obj' \in [Obj -> Instance] /\ \A q \in Obj : obj'[q].cid = obj[q].cid
      /\ UNCHANGED <<live, used, map, recv, handle, leg, next>>
  <2>1. loc["event"].self \in Obj /\ loc["event"].cid \in Cid0
    BY <1>1 DEF OwnerInv, BusyInv, KnowsItsLeg, Busy, TypeOK, Cid, Cid0
  <2> QED BY <2>1, SetDid DEF AnswerSetDid, OwnerInv, stack
<1>3. CidsStay /\ ByesStay
  BY <1>1, <1>2 DEF CidsStay, ByesStay
<1>4. TypeOK' /\ RetInv' /\ CidInv'
  <2>1. TypeOK'
    BY <1>1, <1>2 DEF OwnerInv, TypeOK
  <2>2. RetInv'
    BY <1>1 DEF OwnerInv, OthersStay, RetInv, Creating, Erasing, EventOnly
  <2> QED BY <2>1, <2>2, <1>2, CidsKept DEF OwnerInv
<1>5. EnterInv' /\ AskedInv'
  <2>1. EnterInv'
    BY <1>1, <1>2, <1>3 DEF OwnerInv, OthersStay, EnterInv, Entering, TypeOK
  <2>2. AskedInv'
    BY <1>1, <1>2, <1>3 DEF OwnerInv, OthersStay, AskedInv, Asking, Creating, Busy,
       Erasing, TypeOK
  <2> QED BY <2>1, <2>2
<1>6. KnowsItsLeg("event")' /\ MayRelease("event")'
  BY <1>1, <1>2, <1>3 DEF OwnerInv, OthersStay, KnowsItsLeg, Busy, Erasing, TypeOK,
     MayRelease
<1> QED BY <1>1, <1>2, <1>3, <1>4, <1>5, <1>6, BusyMoves, ReleaseMoves, MapStays,
           HandlesStay DEF OwnerInv

(* A BYE releases the instance. *)
LEMMA ByeAutoReleaseOwner ==
  ASSUME OwnerInv, ByeAutoRelease
  PROVE  OwnerInv'
<1>1. /\ "event" \in Thread /\ OthersStay("event") /\ pc["event"] = "bye_auto"
      /\ pc'["event"] = "er_find" /\ loc'["event"].ret = "bye_notify"
      /\ loc'["event"].cid = loc["event"].cid
      /\ loc["event"].cid \in Cid /\ loc["event"].self \in used
      /\ obj[loc["event"].self].cid = loc["event"].cid
      /\ pc' \in [Thread -> Label] /\ loc' \in [Thread -> Locals]
  <2>1. /\ "event" \in Thread /\ pc["event"] = "bye_auto" /\ loc["event"] \in Locals
        /\ loc["event"].cid \in Cid /\ loc["event"].self \in used
        /\ obj[loc["event"].self].cid = loc["event"].cid
    BY DEF ByeAutoRelease, At, OwnerInv, BusyInv, KnowsItsLeg, Busy, TypeOK
  <2>2. Go("event", "er_find", WithRet(loc["event"], "bye_notify"))
    BY DEF ByeAutoRelease
  <2> QED BY <2>1, <2>2, GoMoves, WithRetFields DEF OwnerInv, Label, OthersStay
<1>2. /\ obj' \in [Obj -> Instance] /\ \A q \in Obj : obj'[q].cid = obj[q].cid
      /\ UNCHANGED <<live, used, map, recv, handle, leg, next>>
  <2>1. loc["event"].self \in Obj
    BY <1>1 DEF OwnerInv, TypeOK
  <2> QED BY <2>1, SetAutoRelease DEF ByeAutoRelease, OwnerInv, stack
<1>3. CidsStay /\ ByesStay
  BY <1>1, <1>2 DEF CidsStay, ByesStay
<1>4. TypeOK' /\ RetInv' /\ CidInv'
  <2>1. TypeOK'
    BY <1>1, <1>2 DEF OwnerInv, TypeOK
  <2>2. RetInv'
    BY <1>1 DEF OwnerInv, OthersStay, RetInv, Creating, Erasing, EventOnly
  <2> QED BY <2>1, <2>2, <1>2, CidsKept DEF OwnerInv
<1>5. EnterInv' /\ AskedInv'
  <2>1. EnterInv'
    BY <1>1, <1>2, <1>3 DEF OwnerInv, OthersStay, EnterInv, Entering, TypeOK
  <2>2. AskedInv'
    BY <1>1, <1>2, <1>3 DEF OwnerInv, OthersStay, AskedInv, Asking, Creating, Busy,
       Erasing, TypeOK
  <2> QED BY <2>1, <2>2
<1>6. KnowsItsLeg("event")' /\ MayRelease("event")'
  BY <1>1, <1>2, <1>3 DEF OwnerInv, OthersStay, KnowsItsLeg, Busy, Erasing, TypeOK,
     MayRelease, ReleaseInv
<1> QED BY <1>1, <1>2, <1>3, <1>4, <1>5, <1>6, BusyMoves, ReleaseMoves, MapStays,
           HandlesStay DEF OwnerInv

(* A receiving thread that ends touches its semaphore only. *)
LEMMA PullStreamEndsOwner ==
  ASSUME OwnerInv, NEW p \in Obj, PullStreamEnds(p)
  PROVE  OwnerInv'
<1>1. /\ obj' \in [Obj -> Instance] /\ \A q \in Obj : obj'[q].cid = obj[q].cid
      /\ recv' \in [Obj -> {"none", "run", "ended"}]
      /\ UNCHANGED <<live, used, map, handle, leg, next, pc, loc>>
  <2>1. obj' = Posted(p, 1) /\ recv' = [recv EXCEPT ![p] = "ended"]
        /\ UNCHANGED <<live, used, map, handle, leg, next, pc, loc>>
    BY DEF PullStreamEnds, stack, control
  <2>2. Posted(p, 1) \in [Obj -> Instance] /\ \A q \in Obj : Posted(p, 1)[q].cid = obj[q].cid
    BY SetPosted DEF OwnerInv
  <2> QED BY <2>1, <2>2 DEF OwnerInv, TypeOK
<1>2. CidsStay /\ ByesStay
  BY <1>1 DEF CidsStay, ByesStay
<1>3. TypeOK' /\ RetInv' /\ CidInv'
  <2>1. TypeOK'
    BY <1>1 DEF OwnerInv, TypeOK
  <2>2. RetInv'
    BY <1>1 DEF OwnerInv, RetInv
  <2> QED BY <2>1, <2>2, <1>1, CidsKept DEF OwnerInv
<1>4. EnterInv' /\ AskedInv'
  BY <1>1, <1>2 DEF OwnerInv, OthersStay, EnterInv, Entering, TypeOK, AskedInv, Asking,
     Creating, Busy, Erasing
<1>5. BusyInv'
  <2>1. ASSUME NEW u \in Thread
        PROVE  KnowsItsLeg(u)'
    BY <1>1, <1>2, KnowsItsLegStays
  <2> QED BY <2>1 DEF BusyInv
<1>6. ReleaseInv'
  <2>1. ASSUME NEW u \in Thread
        PROVE  MayRelease(u)'
    BY <1>1, <1>2, MayReleaseStays
  <2> QED BY <2>1 DEF ReleaseInv
<1>7. MapHasLiveInstances'
  BY <1>1 DEF OwnerInv, MapHasLiveInstances, TypeOK
<1> QED BY <1>1, <1>2, <1>3, <1>4, <1>5, <1>6, <1>7, HandlesStay DEF OwnerInv

-----------------------------------------------------------------------------
(* No instance exists when the gateway starts. *)
LEMMA InitOwner == Init => OwnerInv
<1> SUFFICES ASSUME Init
             PROVE  OwnerInv
  OBVIOUS
<1>1. \A p \in Obj : obj[p] \in Instance /\ obj[p].cid = 0
  BY PullerFields DEF Init
<1>2. NoLeg \in Leg /\ 1 \in 1 .. MaxCid + 1
  BY DEF NoLeg, Leg
<1>3. TypeOK
  BY <1>1, <1>2, NoLocalsFields DEF Init, TypeOK, Label
<1>4. \A t \in Thread : pc[t] = "idle" /\ loc[t].ret = "idle"
  BY NoLocalsFields DEF Init
<1>5. RetInv /\ EnterInv /\ BusyInv /\ AskedInv /\ ReleaseInv
  BY <1>4 DEF RetInv, EnterInv, BusyInv, KnowsItsLeg, AskedInv, ReleaseInv, MayRelease,
              Creating, Entering, Erasing, Busy, EventOnly, Asking
<1>6. CidInv /\ MapHasLiveInstances /\ HandleOutlivesCall
  BY <1>1 DEF Init, CidInv, MapHasLiveInstances, HandleOutlivesCall
<1> QED BY <1>3, <1>5, <1>6 DEF OwnerInv

(* What the other side of a leg does *)
LEMMA EventsOwner ==
  ASSUME OwnerInv, Events
  PROVE  OwnerInv'
<1>1. CASE InviteDropped
  BY <1>1, InviteDroppedOwner
<1>2. CASE InviteIncoming
  BY <1>2, InviteIncomingOwner
<1>3. ASSUME NEW c \in Cid, Answer200OK(c)
      PROVE  OwnerInv'
  BY <1>3, LookupOwner DEF Answer200OK, At, streams
<1>4. ASSUME NEW c \in Cid, AnswerRsp(c)
      PROVE  OwnerInv'
  BY <1>4, LookupOwner DEF AnswerRsp, At, streams
<1>5. ASSUME NEW c \in Cid, CallBye(c)
      PROVE  OwnerInv'
  BY <1>5, LookupOwner DEF CallBye, At, streams
<1> QED BY <1>1, <1>2, <1>3, <1>4, <1>5 DEF Events

(* What the event thread does in its handlers and callbacks *)
LEMMA EventHandlerOwner ==
  ASSUME OwnerInv, EventHandler
  PROVE  OwnerInv'
<1>1. CASE InviteCallback
  BY <1>1, InviteCallbackOwner
<1>2. CASE InviteAccepted
  BY <1>2, InviteAcceptedOwner
<1>3. CASE InviteRefused
  BY <1>3, InviteRefusedOwner
<1>4. CASE AnswerSetDid
  BY <1>4, AnswerSetDidOwner
<1>5. CASE ByeAutoRelease
  BY <1>5, ByeAutoReleaseOwner
<1>6. CASE ReleaseCallback
  BY <1>6, DeleteOwner, FinishOwner DEF ReleaseCallback, At, streams, stack
<1> QED BY <1>1, <1>2, <1>3, <1>4, <1>5, <1>6 DEF EventHandler

(* Every step of a thread *)
LEMMA StepOwner ==
  ASSUME OwnerInv, NEW t \in Thread, Step(t)
  PROVE  OwnerInv'
<1>1. CASE EventHandler
  BY <1>1, EventHandlerOwner
<1>2. CASE Create(t)
  BY <1>2, CreateNoPortOwner, CreateInitOwner, CreateInviteOwner, CreateNotSentOwner,
     CreateInsertOwner DEF Create
<1>3. CASE DeleteStreamPuller(t)
  BY <1>3, DeleteAutoReleasedOwner, DeleteActiveOwner, DeleteTerminateOwner
     DEF DeleteStreamPuller
<1>4. CASE Erase(t)
  BY <1>4, EraseFindOwner, EraseStopOwner, EraseWaitOwner, EraseFreeOwner, EraseEraseOwner
     DEF Erase
<1> QED BY <1>1, <1>2, <1>3, <1>4 DEF Step

(* The ownership invariant is inductive, with or without a second thread. *)
LEMMA NextOwner ==
  ASSUME OwnerInv, [Next]_vars
  PROVE  OwnerInv'
<1>1. CASE Events
  BY <1>1, EventsOwner
<1>2. CASE ApiCreate
  BY <1>2, ApiCreateOwner
<1>3. CASE ApiDelete
  BY <1>3, DeleteOwner DEF ApiDelete, At, streams, stack
<1>4. ASSUME NEW t \in Thread, Step(t)
      PROVE  OwnerInv'
  BY <1>4, StepOwner
<1>5. ASSUME NEW p \in Obj, PullStreamEnds(p)
      PROVE  OwnerInv'
  BY <1>5, PullStreamEndsOwner
<1>6. CASE UNCHANGED vars
  <2>1. UNCHANGED <<live, used, obj, map, recv, handle, leg, next, pc, loc>>
    BY <1>6 DEF vars, streams, stack, control
  <2>2. TypeOK' /\ RetInv' /\ CidInv'
    BY <2>1 DEF OwnerInv, TypeOK, RetInv, CidInv
  <2>3. EnterInv' /\ BusyInv' /\ AskedInv'
    BY <2>1 DEF OwnerInv, EnterInv, BusyInv, KnowsItsLeg, AskedInv, Asking
  <2>4. ReleaseInv' /\ MapHasLiveInstances' /\ HandleOutlivesCall'
    BY <2>1 DEF OwnerInv, ReleaseInv, MayRelease, MapHasLiveInstances, HandleOutlivesCall
  <2> QED BY <2>2, <2>3, <2>4 DEF OwnerInv
<1> QED BY <1>1, <1>2, <1>3, <1>4, <1>5, <1>6 DEF Next

(* Who knows an instance at each moment: its creator or the handler of its
   INVITE alone, then the map, and whoever releases it. *)
THEOREM Ownership == Spec => []OwnerInv
<1>1. Init => OwnerInv
  BY InitOwner
<1>2. OwnerInv /\ [Next]_vars => OwnerInv'
  BY NextOwner
<1> QED BY <1>1, <1>2, PTL DEF Spec

(* The variables keep their types. *)
THEOREM TypeCorrect == Spec => []TypeOK
<1>1. OwnerInv => TypeOK
  BY DEF OwnerInv
<1> QED BY <1>1, Ownership, PTL

(* The event thread never finds a wrong or a freed instance in
   g_mapGB28181StreamInstance, whatever other threads do between its steps,
   except one that is being erased at that moment. *)
THEOREM MapIsSound == Spec => []MapHasLiveInstances
<1>1. OwnerInv => MapHasLiveInstances
  BY DEF OwnerInv
<1> QED BY <1>1, Ownership, PTL

(* The gateway frees a puller the application has a handle of only after the
   other side has ended its call. *)
THEOREM HandleIsSafe == Spec => []HandleOutlivesCall
<1>1. OwnerInv => HandleOutlivesCall
  BY DEF OwnerInv
<1> QED BY <1>1, Ownership, PTL

-----------------------------------------------------------------------------
(* An application that calls the gateway from its callback only, as a relay    *)
(* does (Concurrent = FALSE).                                                  *)

Relay == ~Concurrent

(* What the event thread does, and with which locals *)
at   == pc["event"]
mine == loc["event"]

(* A puller's thread runs until the event thread, releasing it, has asked for
   its end; it posts the semaphore as it ends, never before. *)
ReceiverInv ==
  /\ \A p \in Obj : recv[p] # "none" => p \in used
  /\ \A p \in Obj : recv[p] = "run" =>
       /\ obj[p].posted = 0
       /\ obj[p].working \/ (at = "er_wait" /\ mine.self = p)
  /\ at = "er_free" => recv[mine.self] # "run"

(* The dialog of a call is noted with the 200 OK, or in the step after it. *)
Noted(c) == \/ obj[map[c]].did = c
            \/ at = "ok_did" /\ mine.self = map[c] /\ mine.cid = c

NotedInv == \A c \in Cid : map[c] # NULL /\ Established(c) => Noted(c)

(* The application has handles of the calls that the gateway has made. *)
OutboundInv == \A p \in handle : leg[obj[p].cid].role = "out"

(* So are the call that is being made and the one that is being hung up; a
   stream is released when its call is down. *)
CallInv ==
  /\ at = "cr_insert" => leg[mine.cid].role = "out" /\ leg[mine.cid].peer = "wait"
  /\ at = "del_check" => leg[obj[mine.self].cid].role = "out"
  /\ at = "del_term" =>
       /\ leg[mine.cid].role = "out"
       /\ map[mine.cid] # NULL => mine.did = obj[map[mine.cid]].did
  /\ at \in Erasing /\ map[mine.cid] # NULL => ~Established(mine.cid)

DialogInv == NotedInv /\ OutboundInv /\ CallInv

RelayInv == OwnerInv /\ ReceiverInv /\ DialogInv

(* Where CallInv says nothing *)
Calling == {"cr_insert", "del_check", "del_term"} \cup Erasing

-----------------------------------------------------------------------------
(* The event thread is the only one that calls the gateway. *)
LEMMA OneThread ==
  ASSUME Relay
  PROVE  Thread = {"event"} /\ ~ApiCreate /\ ~ApiDelete
BY DEF Relay, Thread, ApiCreate, ApiDelete, At

(* Speaking on a leg keeps who opened it. *)
LEMMA RolesStay ==
  ASSUME TypeOK, NEW c \in Cid, NEW a \in {"ok", "refuse", "bye"}, NEW d \in Cid
  PROVE  /\ Peer(c, a)[d].role = leg[d].role /\ Peer(c, a)[d].ended = leg[d].ended
         /\ Peer(c, a)[d].answered = leg[d].answered
         /\ Answered(c)[d].role = leg[d].role /\ Ended(c)[d].role = leg[d].role
<1>1. leg \in [Cid -> Leg]
  BY DEF TypeOK
<1>2. /\ Peer(c, a)[d].role = leg[d].role /\ Peer(c, a)[d].ended = leg[d].ended
      /\ Peer(c, a)[d].answered = leg[d].answered
  BY <1>1 DEF Peer, Leg
<1>3. Answered(c)[d].role = leg[d].role
  BY <1>1 DEF Answered, Leg
<1>4. Ended(c)[d].role = leg[d].role
  BY <1>1 DEF Ended, Leg
<1> QED BY <1>2, <1>3, <1>4

(* What is said, or answered, on one leg leaves the others alone. *)
LEMMA OtherLegs ==
  ASSUME TypeOK, NEW c \in Cid, NEW d \in Cid, d # c
  PROVE  Answered(c)[d] = leg[d] /\ Ended(c)[d] = leg[d]
BY DEF TypeOK, Answered, Ended

(* The leg that the gateway hangs up is down. *)
LEMMA EndedIsEnded ==
  ASSUME TypeOK, NEW c \in Cid
  PROVE  Ended(c)[c].ended
BY DEF TypeOK, Ended, Leg

(* Asking a receiving thread to end sets its flag only. *)
LEMMA FlagIsDown ==
  ASSUME TypeOK, NEW p \in Obj
  PROVE  Working(p, FALSE)[p].working = FALSE
BY DEF TypeOK, Working, Instance

(* A cid is given to an instance that keeps its other members. *)
LEMMA SetCidOnly ==
  ASSUME TypeOK, NEW p \in Obj, NEW c \in Cid0, NEW q \in Obj
  PROVE  /\ setCID(p, c)[q].did = obj[q].did
         /\ setCID(p, c)[q].working = obj[q].working
         /\ setCID(p, c)[q].posted = obj[q].posted
BY DEF TypeOK, setCID, Instance

-----------------------------------------------------------------------------
(* Most steps leave the receiving threads alone. *)
LEMMA ReceiversStay ==
  ASSUME OwnerInv, ReceiverInv, recv' = recv, used \subseteq used',
         \A p \in used : /\ obj'[p].working = obj[p].working
                         /\ obj'[p].posted = obj[p].posted,
         at # "er_wait", at' # "er_free"
  PROVE  ReceiverInv'
<1>1. ASSUME NEW p \in Obj, recv'[p] = "run"
      PROVE  obj'[p].posted = 0 /\ obj'[p].working
  <2>1. p \in used /\ obj[p].posted = 0 /\ obj[p].working
    BY <1>1 DEF ReceiverInv
  <2> QED BY <2>1
<1>2. \A p \in Obj : recv'[p] # "none" => p \in used'
  BY DEF ReceiverInv
<1> QED BY <1>1, <1>2 DEF ReceiverInv

(* A call whose dialog is noted stays so. *)
LEMMA NotedStays ==
  ASSUME OwnerInv, NotedInv, at # "ok_did", NEW c \in Cid,
         map'[c] \in {map[c], NULL},
         \A p \in used : obj'[p].did = obj[p].did,
         Established(c)' => Established(c),
         map'[c] # NULL, Established(c)'
  PROVE  Noted(c)'
<1>1. map'[c] = map[c] /\ map[c] \in used
  BY DEF OwnerInv, CidInv
<1>2. obj[map[c]].did = c
  BY <1>1 DEF NotedInv, Noted
<1>3. obj'[map'[c]].did = c
  BY <1>1, <1>2
<1> QED BY <1>3 DEF Noted

(* No call changes hands: legs keep their roles and instances their cids. *)
LEMMA OutboundStays ==
  ASSUME OwnerInv, OutboundInv, CidsStay, handle' \subseteq handle,
         \A c \in Cid : c < next => leg'[c].role = leg[c].role
  PROVE  OutboundInv'
<1>1. ASSUME NEW p \in handle'
      PROVE  leg'[obj'[p].cid].role = "out"
  <2>1. p \in Obj /\ obj[p].cid # 0 /\ obj[p].cid < next /\ obj[p].cid \in Cid
    BY DEF OwnerInv, TypeOK, CidInv, Instance, Cid, Cid0
  <2>2. leg[obj[p].cid].role = "out"
    BY DEF OutboundInv
  <2> QED BY <2>1, <2>2 DEF CidsStay
<1> QED BY <1>1 DEF OutboundInv

(* A step that only moves the event thread, takes a handle or clears a place in
   the map *)
LEMMA QuietStep ==
  ASSUME RelayInv, UNCHANGED <<used, obj, recv, leg, next>>, handle' \subseteq handle,
         \A c \in Cid : map'[c] \in {map[c], NULL},
         at \notin {"er_wait", "ok_did"}, at' # "er_free", CallInv'
  PROVE  ReceiverInv' /\ DialogInv'
<1>1. CidsStay
  BY DEF CidsStay
<1>2. ReceiverInv'
  BY ReceiversStay DEF RelayInv
<1>3. NotedInv'
  <2> SUFFICES ASSUME NEW c \in Cid, map'[c] # NULL, Established(c)'
               PROVE  Noted(c)'
    BY DEF NotedInv
  <2>1. Established(c)
    BY DEF Established
  <2> QED BY <2>1, NotedStays DEF RelayInv, DialogInv
<1>4. OutboundInv'
  BY <1>1, OutboundStays DEF RelayInv, DialogInv
<1> QED BY <1>2, <1>3, <1>4 DEF DialogInv

(* CallInv is about a few places only. *)
LEMMA ElsewhereCall ==
  ASSUME at' \notin Calling
  PROVE  CallInv'
BY DEF Calling, CallInv

-----------------------------------------------------------------------------
(* An INVITE of the other side is not answered yet, whatever becomes of it. *)
LEMMA InboundRelay ==
  ASSUME Relay, RelayInv, InviteDropped \/ InviteIncoming
  PROVE  ReceiverInv' /\ DialogInv'
<1>1. /\ at = "idle" /\ next \in Cid /\ leg' = [leg EXCEPT ![next] = Inbound]
      /\ UNCHANGED <<map, recv, handle>> /\ used \subseteq used'
      /\ obj' = obj \/ \E p \in Obj \ used : obj' = [obj EXCEPT ![p] = Pusher(next)]
  BY DEF InviteDropped, InviteIncoming, At, at, streams
<1>2. at' \in {"idle", "inv_callback"}
  BY <1>1, GoMoves, AskedFields
  DEF InviteDropped, InviteIncoming, RelayInv, OwnerInv, TypeOK, Go, at, control, Cid0
<1>3. obj \in [Obj -> Instance] /\ leg \in [Cid -> Leg] /\ used \subseteq Obj /\ CidInv
  BY DEF RelayInv, OwnerInv, TypeOK
<1>4. \A p \in used : obj'[p] = obj[p]
  BY <1>1, <1>3
<1>5. CidsStay
  <2>1. \A p \in Obj : p \notin used => obj[p].cid = 0
    BY <1>3 DEF CidInv
  <2> QED BY <1>1, <1>4, <2>1 DEF CidsStay
<1>6. ReceiverInv'
  BY <1>1, <1>2, <1>4, ReceiversStay DEF RelayInv
<1>7. /\ \A c \in Cid : c # next => leg'[c] = leg[c]
      /\ leg'[next].role = "in" /\ ~leg'[next].answered
  BY <1>1, <1>3, LegFields
<1>8. NotedInv'
  <2> SUFFICES ASSUME NEW c \in Cid, map'[c] # NULL, Established(c)'
               PROVE  Noted(c)'
    BY DEF NotedInv
  <2>1. Established(c)
    BY <1>7 DEF Established
  <2> QED BY <1>1, <1>4, <2>1, NotedStays DEF RelayInv, DialogInv
<1>9. OutboundInv'
  <2>1. \A c \in Cid : c < next => leg'[c].role = leg[c].role
    BY <1>7 DEF Cid, RelayInv, OwnerInv, TypeOK
  <2> QED BY <1>1, <1>5, <2>1, OutboundStays DEF RelayInv, DialogInv
<1>10. CallInv'
  BY <1>2, ElsewhereCall DEF Calling, Erasing
<1> QED BY <1>6, <1>8, <1>9, <1>10 DEF DialogInv

(* The application is asked for a stream, and refuses it, or a call into the
   gateway returns without having done anything. *)
LEMMA ReturningRelay ==
  ASSUME Relay, RelayInv,
         InviteCallback \/ InviteRefused \/ CreateNoPort("event") \/ CreateNotSent("event")
           \/ DeleteAutoReleased("event")
  PROVE  ReceiverInv' /\ DialogInv'
<1>0. "event" \in Thread /\ TypeOK /\ RetInv
  BY OneThread DEF RelayInv, OwnerInv
<1>1. /\ at \in {"inv_callback", "inv_return", "cr_init", "cr_invite", "del_check"}
      /\ UNCHANGED <<used, obj, map, recv, handle, leg, next>>
  BY DEF InviteCallback, InviteRefused, CreateNoPort, CreateNotSent, DeleteAutoReleased, At,
         at, streams, stack
<1>2. at' \in {"inv_return", "cr_init", "idle"}
  <2>1. CASE InviteCallback
    BY <1>0, <2>1 DEF InviteCallback, Go, at, TypeOK
  <2>2. CASE InviteRefused \/ DeleteAutoReleased("event")
    BY <1>0, <2>2, FinishMoves DEF InviteRefused, DeleteAutoReleased, at
  <2>3. CASE CreateNoPort("event") \/ CreateNotSent("event")
    BY <1>0, <2>3, ReturnMoves DEF CreateNoPort, CreateNotSent, RetInv, Creating, At, at
  <2> QED BY <2>1, <2>2, <2>3
<1>3. CallInv'
  BY <1>2, ElsewhereCall DEF Calling, Erasing
<1> QED BY <1>1, <1>2, <1>3, QuietStep DEF RelayInv, OwnerInv

(* The pusher of an INVITE that is accepted has its dialog at once. *)
LEMMA InviteAcceptedRelay ==
  ASSUME Relay, RelayInv, InviteAccepted
  PROVE  ReceiverInv' /\ DialogInv'
<1>0. "event" \in Thread /\ TypeOK
  BY OneThread DEF RelayInv, OwnerInv
<1>1. PICK p \in Obj, k \in Cid :
        /\ p = mine.asked /\ k = obj[p].cid /\ \A c \in Cid : map[c] # p
        /\ at = "inv_return"
  <2>1. at = "inv_return" /\ Asking("event")
    BY DEF InviteAccepted, At, at, Asking
  <2>2. mine.asked \in live /\ obj[mine.asked].cid # 0 /\ \A c \in Cid : map[c] # mine.asked
    BY <1>0, <2>1 DEF RelayInv, OwnerInv, AskedInv, mine
  <2>3. mine.asked \in Obj
    BY <1>0, <2>2 DEF TypeOK
  <2>4. obj[mine.asked].cid \in Cid0
    BY <1>0, <2>3 DEF TypeOK, Instance
  <2>5. obj[mine.asked].cid \in Cid
    BY <2>2, <2>4 DEF Cid, Cid0
  <2> QED BY <2>1, <2>2, <2>3, <2>5
<1>2. /\ map' = [map EXCEPT ![k] = p] /\ obj' = setDID(p, k) /\ leg' = Answered(k)
      /\ UNCHANGED <<used, recv, handle, next>> /\ at' = "idle"
  BY <1>0, <1>1, FinishMoves DEF InviteAccepted, at, mine
<1>3. /\ \A q \in Obj : /\ obj'[q].cid = obj[q].cid
                        /\ obj'[q].working = obj[q].working /\ obj'[q].posted = obj[q].posted
                        /\ q # p => obj'[q] = obj[q]
      /\ obj'[p].did = k
  <2>1. k \in Cid0
    BY DEF Cid, Cid0
  <2> QED BY <1>0, <1>2, <2>1, SetDid
<1>4. CidsStay
  BY <1>2, <1>3 DEF CidsStay
<1>5. ReceiverInv'
  <2>1. used \subseteq Obj
    BY <1>0 DEF TypeOK
  <2> QED BY <1>1, <1>2, <1>3, <2>1, ReceiversStay DEF RelayInv
<1>6. NotedInv'
  <2> SUFFICES ASSUME NEW c \in Cid, map'[c] # NULL, Established(c)'
               PROVE  Noted(c)'
    BY DEF NotedInv
  <2>1. CASE c = k
    <3>1. map'[c] = p
      BY <1>0, <1>2, <2>1 DEF TypeOK
    <3> QED BY <1>3, <2>1, <3>1 DEF Noted
  <2>2. CASE c # k
    <3>1. map'[c] = map[c] /\ leg'[c] = leg[c]
      BY <1>0, <1>2, <2>2, OtherLegs DEF TypeOK
    <3>2. Established(c)
      BY <3>1 DEF Established
    <3>3. map[c] \in Obj /\ map[c] # p
      BY <1>0, <1>1, <3>1 DEF TypeOK
    <3>4. obj[map[c]].did = c
      BY <1>1, <3>1, <3>2 DEF RelayInv, DialogInv, NotedInv, Noted
    <3>5. obj'[map'[c]].did = c
      BY <1>3, <3>1, <3>3, <3>4
    <3> QED BY <3>5 DEF Noted
  <2> QED BY <2>1, <2>2
<1>7. OutboundInv'
  <2>1. \A c \in Cid : leg'[c].role = leg[c].role
    BY <1>0, <1>2, RolesStay
  <2> QED BY <1>2, <1>4, <2>1, OutboundStays DEF RelayInv, DialogInv
<1>8. CallInv'
  BY <1>2, ElsewhereCall DEF Calling, Erasing
<1> QED BY <1>5, <1>6, <1>7, <1>8 DEF DialogInv

(* A puller starts with a running thread. *)
LEMMA CreateInitRelay ==
  ASSUME Relay, RelayInv, CreateInit("event")
  PROVE  ReceiverInv' /\ DialogInv'
<1>0. "event" \in Thread /\ TypeOK /\ CidInv
  BY OneThread DEF RelayInv, OwnerInv
<1>1. PICK p \in Obj \ used :
        /\ used' = used \cup {p} /\ obj' = [obj EXCEPT ![p] = Puller]
        /\ recv' = [recv EXCEPT ![p] = "run"]
        /\ Go("event", "cr_invite", WithSelf(mine, p))
  BY DEF CreateInit, mine
<1>2. at = "cr_init" /\ at' = "cr_invite" /\ UNCHANGED <<map, handle, leg, next>>
  BY <1>0, <1>1 DEF CreateInit, At, at, stack, Go, TypeOK
<1>3. /\ obj'[p] = Puller /\ recv'[p] = "run" /\ used \subseteq Obj
      /\ \A q \in Obj : q # p => obj'[q] = obj[q] /\ recv'[q] = recv[q]
  BY <1>0, <1>1 DEF TypeOK
<1>4. CidsStay
  <2>1. obj[p].cid = 0
    BY <1>0, <1>1 DEF CidInv
  <2> QED BY <1>1, <1>3, <2>1 DEF CidsStay
<1>5. ReceiverInv'
  <2>1. ASSUME NEW q \in Obj, recv'[q] = "run"
        PROVE  obj'[q].posted = 0 /\ obj'[q].working
    <3>1. CASE q = p
      BY <1>3, <3>1, PullerFields
    <3>2. CASE q # p
      BY <1>2, <1>3, <2>1, <3>2 DEF RelayInv, ReceiverInv
    <3> QED BY <3>1, <3>2
  <2>2. \A q \in Obj : recv'[q] # "none" => q \in used'
    BY <1>1, <1>3 DEF RelayInv, ReceiverInv
  <2> QED BY <1>2, <2>1, <2>2 DEF ReceiverInv
<1>6. NotedInv'
  <2> SUFFICES ASSUME NEW c \in Cid, map'[c] # NULL, Established(c)'
               PROVE  Noted(c)'
    BY DEF NotedInv
  <2>1. Established(c)
    BY <1>2 DEF Established
  <2>2. \A q \in used : obj'[q].did = obj[q].did
    BY <1>1, <1>3
  <2> QED BY <1>2, <2>1, <2>2, NotedStays DEF RelayInv, DialogInv
<1>7. OutboundInv'
  BY <1>2, <1>4, OutboundStays DEF RelayInv, DialogInv
<1>8. CallInv'
  BY <1>2, ElsewhereCall DEF Calling, Erasing
<1> QED BY <1>5, <1>6, <1>7, <1>8 DEF DialogInv

(* The gateway's own INVITE opens an outbound leg. *)
LEMMA CreateInviteRelay ==
  ASSUME Relay, RelayInv, CreateInvite("event")
  PROVE  ReceiverInv' /\ DialogInv'
<1>0. "event" \in Thread /\ TypeOK /\ mine \in Locals
  BY OneThread DEF RelayInv, OwnerInv, TypeOK, mine
<1>1. /\ at = "cr_invite" /\ next \in Cid /\ leg' = [leg EXCEPT ![next] = Outbound]
      /\ UNCHANGED <<used, obj, map, recv, handle>>
      /\ Go("event", "cr_insert", WithCid(mine, next))
  BY DEF CreateInvite, At, at, mine, streams
<1>2. at' = "cr_insert" /\ mine'.cid = next
  BY <1>0, <1>1, WithCidFields, GoMoves DEF at, mine, Label, Cid, Cid0
<1>3. /\ \A c \in Cid : c # next => leg'[c] = leg[c]
      /\ leg'[next].role = "out" /\ leg'[next].peer = "wait"
  BY <1>0, <1>1, LegFields DEF TypeOK
<1>4. CidsStay
  BY <1>1 DEF CidsStay
<1>5. ReceiverInv'
  BY <1>1, <1>2, ReceiversStay DEF RelayInv
<1>6. NotedInv'
  <2> SUFFICES ASSUME NEW c \in Cid, map'[c] # NULL, Established(c)'
               PROVE  Noted(c)'
    BY DEF NotedInv
  <2>1. Established(c)
    BY <1>3 DEF Established
  <2> QED BY <1>1, <2>1, NotedStays DEF RelayInv, DialogInv
<1>7. OutboundInv'
  <2>1. \A c \in Cid : c < next => leg'[c].role = leg[c].role
    BY <1>0, <1>3 DEF Cid, TypeOK
  <2> QED BY <1>1, <1>4, <2>1, OutboundStays DEF RelayInv, DialogInv
<1>8. CallInv'
  BY <1>2, <1>3 DEF CallInv, Erasing
<1> QED BY <1>5, <1>6, <1>7, <1>8 DEF DialogInv

(* The puller gets its cid before the INVITE is answered. *)
LEMMA CreateInsertRelay ==
  ASSUME Relay, RelayInv, CreateInsert("event")
  PROVE  ReceiverInv' /\ DialogInv'
<1>0. "event" \in Thread /\ TypeOK /\ EnterInv /\ RetInv /\ used \subseteq Obj
  BY OneThread DEF RelayInv, OwnerInv, TypeOK
<1>1. PICK p \in Obj, k \in Cid :
        /\ p = mine.self /\ k = mine.cid /\ at = "cr_insert" /\ obj[p].cid = 0
        /\ leg[k].role = "out" /\ leg[k].peer = "wait"
  <2>1. at = "cr_insert"
    BY DEF CreateInsert, At, at
  <2>2. mine.self \in live /\ obj[mine.self].cid = 0 /\ mine.cid \in Cid
    BY <1>0, <2>1 DEF EnterInv, Entering, at, mine
  <2>3. mine.self \in Obj
    BY <1>0, <2>2 DEF TypeOK
  <2>4. leg[mine.cid].role = "out" /\ leg[mine.cid].peer = "wait"
    BY <2>1 DEF RelayInv, DialogInv, CallInv
  <2> QED BY <2>1, <2>2, <2>3, <2>4
<1>2. /\ obj' = setCID(p, k) /\ map' = [map EXCEPT ![k] = p]
      /\ handle' = handle \cup {p} /\ UNCHANGED <<used, recv, leg, next>>
  BY <1>1 DEF CreateInsert, mine, stack
<1>3. at' \in {"idle", "inv_return"}
  BY <1>0, <1>1, ReturnMoves DEF CreateInsert, RetInv, Creating, at
<1>4. /\ \A q \in Obj : /\ obj'[q].did = obj[q].did /\ obj'[q].working = obj[q].working
                        /\ obj'[q].posted = obj[q].posted
                        /\ q # p => obj'[q].cid = obj[q].cid
      /\ obj'[p].cid = k
  <2>1. k \in Cid0
    BY DEF Cid, Cid0
  <2> QED BY <1>0, <1>2, <2>1, SetCid, SetCidOnly
<1>5. ReceiverInv'
  BY <1>0, <1>1, <1>2, <1>3, <1>4, ReceiversStay DEF RelayInv
<1>6. NotedInv'
  <2> SUFFICES ASSUME NEW c \in Cid, map'[c] # NULL, Established(c)'
               PROVE  Noted(c)'
    BY DEF NotedInv
  <2>1. Established(c) /\ c # k
    BY <1>1, <1>2 DEF Established
  <2>2. map'[c] = map[c]
    BY <1>0, <1>2, <2>1 DEF TypeOK
  <2> QED BY <1>0, <1>1, <1>4, <2>1, <2>2, NotedStays DEF RelayInv, DialogInv
<1>7. OutboundInv'
  <2>1. ASSUME NEW q \in handle'
        PROVE  leg'[obj'[q].cid].role = "out"
    <3>1. CASE q = p
      BY <1>1, <1>2, <1>4, <3>1
    <3>2. CASE q # p
      <4>1. q \in handle /\ q \in Obj
        BY <1>0, <1>2, <3>2 DEF TypeOK
      <4> QED BY <1>2, <1>4, <3>2, <4>1 DEF RelayInv, DialogInv, OutboundInv
    <3> QED BY <3>1, <3>2
  <2> QED BY <2>1 DEF OutboundInv
<1>8. CallInv'
  BY <1>3, ElsewhereCall DEF Calling, Erasing
<1> QED BY <1>5, <1>6, <1>7, <1>8 DEF DialogInv

-----------------------------------------------------------------------------
(* Only what the caller of eraseStreamInstance knows of the call matters. *)
LEMMA StillErasing ==
  ASSUME RelayInv, at \in Erasing, at' \in Erasing, mine'.cid = mine.cid, map' = map, leg' = leg
  PROVE  CallInv'
BY DEF RelayInv, DialogInv, CallInv, Erasing, Established

(* The function goes on with the same locals. *)
LEMMA GoesOn ==
  ASSUME TypeOK, "event" \in Thread, NEW l \in Label, Go("event", l, mine)
  PROVE  at' = l /\ mine' = mine
<1>1. loc["event"] \in Locals /\ Go("event", l, loc["event"])
  BY DEF TypeOK, mine
<1> QED BY <1>1, GoMoves DEF at, mine

(* Finding the instance, freeing it and taking it out of the map *)
LEMMA EraseRelay ==
  ASSUME Relay, RelayInv, EraseFind("event") \/ EraseFree("event") \/ EraseErase("event")
  PROVE  ReceiverInv' /\ DialogInv'
<1>0. "event" \in Thread /\ TypeOK /\ RetInv /\ mine \in Locals
  BY OneThread DEF RelayInv, OwnerInv, TypeOK, mine
<1>1. /\ at \in {"er_find", "er_free", "er_erase"}
      /\ UNCHANGED <<used, obj, recv, handle, leg, next>>
  BY DEF EraseFind, EraseFree, EraseErase, At, at, streams, stack
<1>2. \A c \in Cid : map'[c] \in {map[c], NULL}
  BY <1>0 DEF EraseFind, EraseFree, EraseErase, streams, TypeOK
<1>3. \/ at' \in {"idle", "bye_notify"}
      \/ at' \in {"er_stop", "er_erase"} /\ mine'.cid = mine.cid /\ map' = map
  <2>1. CASE EraseFind("event") /\ map[mine.cid] # NULL
    <3>1. map[mine.cid] \in Obj
      <4>1. mine.cid \in Cid
        BY <2>1 DEF RelayInv, OwnerInv, BusyInv, KnowsItsLeg, EraseFind, At, mine
      <4> QED BY <1>0, <2>1, <4>1 DEF TypeOK
    <3>2. Go("event", "er_stop", WithSelf(mine, map[mine.cid])) /\ map' = map
      BY <2>1 DEF EraseFind, mine, streams
    <3> QED BY <1>0, <3>1, <3>2, WithSelfFields, GoMoves DEF at, mine, Label
  <2>2. CASE EraseFree("event")
    BY <1>0, <2>2, GoMoves DEF EraseFree, at, mine, Label
  <2>3. CASE Return("event")
    BY <1>0, <1>1, <2>3, ReturnMoves DEF RetInv, Erasing, at
  <2> QED BY <2>1, <2>2, <2>3 DEF EraseFind, EraseErase, mine
<1>4. CallInv'
  <2>1. CASE at' \in {"idle", "bye_notify"}
    BY <2>1, ElsewhereCall DEF Calling, Erasing
  <2>2. CASE at' \in {"er_stop", "er_erase"} /\ mine'.cid = mine.cid /\ map' = map
    BY <1>1, <2>2, StillErasing DEF Erasing
  <2> QED BY <1>3, <2>1, <2>2
<1> QED BY <1>1, <1>2, <1>3, <1>4, QuietStep

(* releaseStreamPuller asks the thread to end, unless it was asked before. *)
LEMMA EraseStopRelay ==
  ASSUME Relay, RelayInv, EraseStop("event")
  PROVE  ReceiverInv' /\ DialogInv'
<1>0. "event" \in Thread /\ TypeOK /\ mine \in Locals /\ mine.self \in Obj /\ at = "er_stop"
  BY OneThread
  DEF EraseStop, At, at, mine, RelayInv, OwnerInv, TypeOK, BusyInv, KnowsItsLeg, Busy, Erasing
<1>1. /\ UNCHANGED <<used, map, recv, handle, leg, next>>
      /\ \/ /\ obj' = Working(mine.self, FALSE) /\ Go("event", "er_wait", mine)
         \/ /\ ~obj[mine.self].working /\ obj' = obj /\ Go("event", "er_free", mine)
  BY DEF EraseStop, mine, stack
<1>2. at' \in {"er_wait", "er_free"} /\ mine' = mine
  <2>1. ASSUME NEW l \in {"er_wait", "er_free"}, Go("event", l, mine)
        PROVE  at' = l /\ mine' = mine
    BY <1>0, <2>1, GoesOn DEF Label
  <2> QED BY <1>1, <2>1
<1>3. \A q \in Obj : /\ obj'[q].cid = obj[q].cid /\ obj'[q].did = obj[q].did
                     /\ obj'[q].posted = obj[q].posted
                     /\ q # mine.self => obj'[q] = obj[q]
  <2>1. CASE obj' = obj
    BY <2>1
  <2>2. CASE obj' = Working(mine.self, FALSE)
    BY <1>0, <2>2, SetWorking
  <2> QED BY <1>1, <2>1, <2>2
<1>4. CidsStay
  BY <1>1, <1>3 DEF CidsStay
<1>5. ReceiverInv'
  <2>1. ASSUME NEW q \in Obj, recv'[q] = "run"
        PROVE  /\ obj'[q].posted = 0
               /\ obj'[q].working \/ (at' = "er_wait" /\ mine'.self = q)
    <3>1. recv[q] = "run" /\ obj[q].posted = 0 /\ obj[q].working
      BY <1>0, <1>1, <2>1 DEF RelayInv, ReceiverInv
    <3>2. CASE q = mine.self
      <4>1. at' = "er_wait"
        BY <1>0, <1>1, <3>1, <3>2, GoesOn DEF Label
      <4> QED BY <1>2, <1>3, <3>1, <3>2, <4>1
    <3>3. CASE q # mine.self
      BY <1>3, <3>1, <3>3
    <3> QED BY <3>2, <3>3
  <2>2. at' = "er_free" => recv'[mine'.self] # "run"
    <3>1. CASE obj[mine.self].working
      BY <1>0, <1>1, <3>1, GoesOn DEF Label
    <3>2. CASE ~obj[mine.self].working
      BY <1>0, <1>1, <1>2, <3>2 DEF RelayInv, ReceiverInv
    <3> QED BY <3>1, <3>2
  <2>3. \A q \in Obj : recv'[q] # "none" => q \in used'
    BY <1>1 DEF RelayInv, ReceiverInv
  <2> QED BY <2>1, <2>2, <2>3 DEF ReceiverInv
<1>6. NotedInv'
  <2> SUFFICES ASSUME NEW c \in Cid, map'[c] # NULL, Established(c)'
               PROVE  Noted(c)'
    BY DEF NotedInv
  <2>1. Established(c) /\ used \subseteq Obj
    BY <1>0, <1>1 DEF Established, TypeOK
  <2> QED BY <1>0, <1>1, <1>3, <2>1, NotedStays DEF RelayInv, DialogInv
<1>7. OutboundInv'
  BY <1>1, <1>4, OutboundStays DEF RelayInv, DialogInv
<1>8. CallInv'
  BY <1>0, <1>1, <1>2, StillErasing DEF Erasing
<1> QED BY <1>5, <1>6, <1>7, <1>8 DEF DialogInv

(* The semaphore is posted by the thread that ends. *)
LEMMA EraseWaitRelay ==
  ASSUME Relay, RelayInv, EraseWait("event")
  PROVE  ReceiverInv' /\ DialogInv'
<1>0. "event" \in Thread /\ TypeOK /\ mine \in Locals /\ mine.self \in Obj /\ at = "er_wait"
  BY OneThread
  DEF EraseWait, At, at, mine, RelayInv, OwnerInv, TypeOK, BusyInv, KnowsItsLeg, Busy, Erasing
<1>1. /\ UNCHANGED <<used, map, recv, handle, leg, next>>
      /\ obj[mine.self].posted = 1 /\ obj' = Posted(mine.self, 0) /\ Go("event", "er_free", mine)
  BY DEF EraseWait, mine, stack
<1>2. at' = "er_free" /\ mine' = mine
  BY <1>0, <1>1, GoesOn DEF Label
<1>3. \A q \in Obj : /\ obj'[q].cid = obj[q].cid /\ obj'[q].did = obj[q].did
                     /\ obj'[q].working = obj[q].working
                     /\ q # mine.self => obj'[q] = obj[q]
  BY <1>0, <1>1, SetPosted
<1>4. CidsStay
  BY <1>1, <1>3 DEF CidsStay
<1>5. ReceiverInv'
  <2>1. recv[mine.self] # "run"
    BY <1>0, <1>1 DEF RelayInv, ReceiverInv
  <2>2. ASSUME NEW q \in Obj, recv'[q] = "run"
        PROVE  obj'[q].posted = 0 /\ obj'[q].working
    <3>1. recv[q] = "run" /\ q # mine.self
      BY <1>1, <2>1, <2>2
    <3> QED BY <1>3, <3>1 DEF RelayInv, ReceiverInv
  <2>3. \A q \in Obj : recv'[q] # "none" => q \in used'
    BY <1>1 DEF RelayInv, ReceiverInv
  <2> QED BY <1>1, <1>2, <2>1, <2>2, <2>3 DEF ReceiverInv
<1>6. NotedInv'
  <2> SUFFICES ASSUME NEW c \in Cid, map'[c] # NULL, Established(c)'
               PROVE  Noted(c)'
    BY DEF NotedInv
  <2>1. Established(c) /\ used \subseteq Obj
    BY <1>0, <1>1 DEF Established, TypeOK
  <2> QED BY <1>0, <1>1, <1>3, <2>1, NotedStays DEF RelayInv, DialogInv
<1>7. OutboundInv'
  BY <1>1, <1>4, OutboundStays DEF RelayInv, DialogInv
<1>8. CallInv'
  BY <1>0, <1>1, <1>2, StillErasing DEF Erasing
<1> QED BY <1>5, <1>6, <1>7, <1>8 DEF DialogInv

(* A thread that ends has posted, wherever its puller is being released. *)
LEMMA PullStreamEndsRelay ==
  ASSUME Relay, RelayInv, NEW p \in Obj, PullStreamEnds(p)
  PROVE  ReceiverInv' /\ DialogInv'
<1>0. TypeOK
  BY DEF RelayInv, OwnerInv
<1>1. /\ UNCHANGED <<used, map, handle, leg, next, pc, loc>>
      /\ recv[p] = "run" /\ recv' = [recv EXCEPT ![p] = "ended"] /\ obj' = Posted(p, 1)
  BY DEF PullStreamEnds, stack, control
<1>2. /\ at' = at /\ mine' = mine /\ recv'[p] = "ended"
      /\ \A q \in Obj : q # p => recv'[q] = recv[q]
      /\ \A q \in Obj : /\ obj'[q].cid = obj[q].cid /\ obj'[q].did = obj[q].did
                        /\ q # p => obj'[q] = obj[q]
  BY <1>0, <1>1, SetPosted DEF at, mine, TypeOK
<1>3. CidsStay
  BY <1>1, <1>2 DEF CidsStay
<1>4. ReceiverInv'
  <2>1. ASSUME NEW q \in Obj, recv'[q] # "none"
        PROVE  q \in used'
    BY <1>1, <1>2, <2>1 DEF RelayInv, ReceiverInv
  <2>2. ASSUME NEW q \in Obj, recv'[q] = "run"
        PROVE  /\ obj'[q].posted = 0
               /\ obj'[q].working \/ (at' = "er_wait" /\ mine'.self = q)
    BY <1>2, <2>2 DEF RelayInv, ReceiverInv
  <2>3. ASSUME at' = "er_free"
        PROVE  recv'[mine'.self] # "run"
    <3>1. mine.self \in Obj
      BY <1>0, <1>2, <2>3, OneThread
      DEF RelayInv, OwnerInv, BusyInv, KnowsItsLeg, Busy, Erasing, at, mine, TypeOK
    <3> QED BY <1>2, <2>3, <3>1 DEF RelayInv, ReceiverInv
  <2> QED BY <2>1, <2>2, <2>3 DEF ReceiverInv
<1>5. NotedInv'
  <2> SUFFICES ASSUME NEW c \in Cid, map'[c] # NULL, Established(c)'
               PROVE  Noted(c)'
    BY DEF NotedInv
  <2>1. Noted(c) /\ map'[c] = map[c] /\ map[c] \in Obj
    BY <1>0, <1>1 DEF RelayInv, DialogInv, NotedInv, Established, TypeOK
  <2> QED BY <1>2, <2>1 DEF Noted
<1>6. OutboundInv'
  BY <1>1, <1>3, OutboundStays DEF RelayInv, DialogInv
<1>7. CallInv'
  <2>1. at = "del_check" => mine.self \in Obj
    BY <1>0, OneThread DEF RelayInv, OwnerInv, BusyInv, KnowsItsLeg, at, mine, TypeOK
  <2>2. at = "del_term" /\ map[mine.cid] # NULL => map[mine.cid] \in Obj
    BY <1>0, OneThread DEF RelayInv, OwnerInv, BusyInv, KnowsItsLeg, at, mine, TypeOK
  <2>3. CallInv
    BY DEF RelayInv, DialogInv
  <2> QED BY <1>1, <1>2, <2>1, <2>2, <2>3 DEF CallInv, Established
<1> QED BY <1>4, <1>5, <1>6, <1>7 DEF DialogInv

-----------------------------------------------------------------------------
(* The application gives back a handle, or does nothing: the call is one the
   gateway has made. *)
LEMMA ReleaseCallbackRelay ==
  ASSUME Relay, RelayInv, ReleaseCallback
  PROVE  ReceiverInv' /\ DialogInv'
<1>0. "event" \in Thread /\ TypeOK
  BY OneThread DEF RelayInv, OwnerInv
<1>1. /\ at \in {"rsp_notify", "bye_notify"} /\ handle' \subseteq handle
      /\ UNCHANGED <<used, obj, map, recv, leg, next>>
  BY DEF ReleaseCallback, Delete, At, at, streams, stack
<1>2. \/ at' = "idle"
      \/ at' = "del_check" /\ mine'.self \in handle
  <2>1. CASE Finish("event")
    BY <1>0, <2>1, FinishMoves DEF at
  <2>2. ASSUME NEW p \in handle, Delete("event", p)
        PROVE  at' = "del_check" /\ mine'.self \in handle
    <3>1. p \in Obj /\ 0 \in Cid0 /\ Go("event", "del_check", Holding(p, 0))
      BY <1>0, <2>2 DEF Delete, TypeOK, Cid0
    <3> QED BY <1>0, <3>1, HoldingFields, GoMoves DEF at, mine, Label
  <2> QED BY <2>1, <2>2 DEF ReleaseCallback
<1>3. CallInv'
  <2>1. CASE at' = "idle"
    BY <2>1, ElsewhereCall DEF Calling, Erasing
  <2>2. CASE at' = "del_check" /\ mine'.self \in handle
    BY <1>1, <2>2 DEF CallInv, Erasing, RelayInv, DialogInv, OutboundInv
  <2> QED BY <1>2, <2>1, <2>2
<1> QED BY <1>1, <1>2, <1>3, QuietStep

(* GB28181MediaGate_DeleteStreamPuller reads the dialog of the instance the map
   has for the call. *)
LEMMA DeleteActiveRelay ==
  ASSUME Relay, RelayInv, DeleteActive("event")
  PROVE  ReceiverInv' /\ DialogInv'
<1>0. "event" \in Thread /\ TypeOK /\ CidInv
  BY OneThread DEF RelayInv, OwnerInv
<1>1. /\ at = "del_check" /\ UNCHANGED <<used, obj, map, recv, handle, leg, next>>
      /\ Go("event", "del_term", Deleting(mine.self))
  BY DEF DeleteActive, At, at, mine, streams, stack
<1>2. mine.self \in Obj /\ obj[mine.self].cid # 0 /\ obj[mine.self].cid \in Cid
  <2>1. mine.self \in used /\ obj[mine.self].cid # 0
    BY <1>0, <1>1 DEF RelayInv, OwnerInv, BusyInv, KnowsItsLeg, at, mine
  <2>2. mine.self \in Obj /\ obj[mine.self].cid \in Cid0
    BY <1>0, <2>1 DEF TypeOK, Instance
  <2> QED BY <2>1, <2>2 DEF Cid, Cid0
<1>3. at' = "del_term" /\ mine'.cid = obj[mine.self].cid /\ mine'.did = obj[mine.self].did
  BY <1>0, <1>1, <1>2, DeletingFields, GoMoves DEF at, mine, Label
<1>4. map[obj[mine.self].cid] # NULL => map[obj[mine.self].cid] = mine.self
  <2> SUFFICES ASSUME map[obj[mine.self].cid] # NULL
               PROVE  map[obj[mine.self].cid] = mine.self
    OBVIOUS
  <2>1. map[obj[mine.self].cid] \in Obj
    BY <1>0, <1>2 DEF TypeOK
  <2>2. obj[map[obj[mine.self].cid]].cid = obj[mine.self].cid
    BY <1>2 DEF RelayInv, OwnerInv, MapHasLiveInstances
  <2> QED BY <1>0, <1>2, <2>1, <2>2 DEF CidInv
<1>5. leg[obj[mine.self].cid].role = "out"
  BY <1>1 DEF RelayInv, DialogInv, CallInv
<1>6. CallInv'
  BY <1>1, <1>3, <1>4, <1>5 DEF CallInv, Erasing
<1> QED BY <1>1, <1>3, <1>6, QuietStep

(* SipUA_TerminateCall: the call is down, or was not up yet. *)
LEMMA DeleteTerminateRelay ==
  ASSUME Relay, RelayInv, DeleteTerminate("event")
  PROVE  ReceiverInv' /\ DialogInv'
<1>0. "event" \in Thread /\ TypeOK /\ mine \in Locals
  BY OneThread DEF RelayInv, OwnerInv, TypeOK, mine
<1>1. /\ at = "del_term" /\ UNCHANGED <<used, obj, map, recv, handle, next>>
      /\ leg' = (IF mine.did # 0 /\ leg[mine.cid].peer = "ok" THEN Ended(mine.cid) ELSE leg)
      /\ Go("event", "er_find", mine)
  BY DEF DeleteTerminate, At, at, mine, streams
<1>2. mine.cid \in Cid /\ mine.cid # 0 /\ leg[mine.cid].role = "out"
  BY <1>0, <1>1 DEF RelayInv, OwnerInv, BusyInv, KnowsItsLeg, at, mine, DialogInv, CallInv, Cid
<1>3. at' = "er_find" /\ mine' = mine
  BY <1>0, <1>1, GoesOn DEF Label
<1>4. /\ \A c \in Cid : c # mine.cid => leg'[c] = leg[c]
      /\ \A c \in Cid : leg'[c].role = leg[c].role
      /\ Established(mine.cid)' => leg' = leg
  <2>1. \A c \in Cid : c # mine.cid => leg'[c] = leg[c]
    BY <1>0, <1>1, <1>2, OtherLegs
  <2>2. \A c \in Cid : leg'[c].role = leg[c].role
    BY <1>0, <1>1, <1>2, RolesStay
  <2>3. ASSUME Established(mine.cid)'
        PROVE  leg' = leg
    BY <1>0, <1>1, <1>2, <1>3, <2>3, EndedIsEnded DEF Established
  <2> QED BY <2>1, <2>2, <2>3
<1>5. ReceiverInv'
  BY <1>1, <1>3, ReceiversStay DEF RelayInv
<1>6. \A c \in Cid : Established(c)' => Established(c)
  BY <1>2, <1>3, <1>4 DEF Established
<1>7. NotedInv'
  BY <1>1, <1>6, NotedStays DEF RelayInv, DialogInv, NotedInv
<1>8. CidsStay /\ OutboundInv'
  <2>1. CidsStay
    BY <1>1 DEF CidsStay
  <2> QED BY <1>1, <1>4, <2>1, OutboundStays DEF RelayInv, DialogInv
<1>9. map[mine.cid] # NULL => ~Established(mine.cid)'
  <2> SUFFICES ASSUME map[mine.cid] # NULL, Established(mine.cid)'
               PROVE  FALSE
    OBVIOUS
  <2>1. leg' = leg /\ Established(mine.cid)
    BY <1>2, <1>3, <1>4 DEF Established
  <2>2. obj[map[mine.cid]].did = mine.cid
    BY <1>1, <1>2, <2>1 DEF RelayInv, DialogInv, NotedInv, Noted
  <2>3. mine.did # 0
    BY <1>1, <1>2, <2>2 DEF RelayInv, DialogInv, CallInv
  <2>4. leg[mine.cid].peer = "ok"
    BY <1>2, <2>1 DEF Established
  <2>5. Ended(mine.cid) = leg /\ leg[mine.cid].ended
    BY <1>0, <1>1, <1>2, <2>1, <2>3, <2>4, EndedIsEnded
  <2> QED BY <2>1, <2>5 DEF Established
<1>10. CallInv'
  BY <1>1, <1>3, <1>9 DEF CallInv, Erasing
<1> QED BY <1>5, <1>7, <1>8, <1>10 DEF DialogInv

-----------------------------------------------------------------------------
(* The other side answers, refuses or hangs up.  A 200 OK is the only one of
   these that brings a call up; its handler notes the dialog next. *)
LEMMA LookupRelay ==
  ASSUME Relay, RelayInv, NEW c \in Cid, NEW l \in {"ok_did", "rsp_notify", "bye_auto"},
         NEW a \in {"ok", "refuse", "bye"}, leg' = Peer(c, a), Lookup(c, l), at = "idle",
         a = "ok" => l = "ok_did",
         UNCHANGED <<used, obj, map, recv, handle, next>>
  PROVE  ReceiverInv' /\ DialogInv'
<1>0. "event" \in Thread /\ TypeOK
  BY OneThread DEF RelayInv, OwnerInv
<1>1. /\ leg'[c].peer = a
      /\ \A d \in Cid : /\ d # c => leg'[d] = leg[d]
                        /\ leg'[d].role = leg[d].role
  BY <1>0, SetLeg, RolesStay
<1>2. /\ at' \in {"idle", l}
      /\ map[c] # NULL => at' = l /\ mine'.self = map[c] /\ mine'.cid = c
  <2>1. CASE map[c] = NULL
    BY <1>0, <2>1, FinishMoves DEF Lookup, at
  <2>2. CASE map[c] # NULL
    <3>1. map[c] \in Obj /\ c \in Cid0
      BY <1>0, <2>2 DEF TypeOK, Cid, Cid0
    <3>2. Go("event", l, Holding(map[c], c))
      BY <2>2 DEF Lookup
    <3> QED BY <1>0, <2>2, <3>1, <3>2, HoldingFields, GoMoves DEF at, mine, Label
  <2> QED BY <2>1, <2>2
<1>3. ReceiverInv'
  BY <1>2, ReceiversStay DEF RelayInv
<1>4. NotedInv'
  <2> SUFFICES ASSUME NEW d \in Cid, map'[d] # NULL, Established(d)'
               PROVE  Noted(d)'
    BY DEF NotedInv
  <2>1. CASE d = c /\ a = "ok"
    BY <1>2, <2>1 DEF Noted
  <2>2. CASE d = c /\ a # "ok"
    BY <1>1, <2>2 DEF Established
  <2>3. CASE d # c
    <3>1. Established(d)
      BY <1>1, <2>3 DEF Established
    <3> QED BY <3>1, NotedStays DEF RelayInv, DialogInv
  <2> QED BY <2>1, <2>2, <2>3
<1>5. OutboundInv'
  <2>1. CidsStay
    BY DEF CidsStay
  <2> QED BY <1>1, <2>1, OutboundStays DEF RelayInv, DialogInv
<1>6. CallInv'
  BY <1>2, ElsewhereCall DEF Calling, Erasing
<1> QED BY <1>3, <1>4, <1>5, <1>6 DEF DialogInv

(* The dialog of an answered call is noted before anything else can happen. *)
LEMMA AnswerSetDidRelay ==
  ASSUME Relay, RelayInv, AnswerSetDid
  PROVE  ReceiverInv' /\ DialogInv'
<1>0. "event" \in Thread /\ TypeOK /\ CidInv
  BY OneThread DEF RelayInv, OwnerInv
<1>1. /\ at = "ok_did" /\ obj' = setDID(mine.self, mine.cid)
      /\ UNCHANGED <<used, map, recv, handle, leg, next>>
  BY DEF AnswerSetDid, At, at, mine, stack
<1>2. at' = "idle"
  BY <1>0, FinishMoves DEF AnswerSetDid, at
<1>3. mine.self \in Obj /\ mine.cid \in Cid /\ obj[mine.self].cid = mine.cid /\ mine.cid \in Cid0
  BY <1>0, <1>1
  DEF RelayInv, OwnerInv, BusyInv, KnowsItsLeg, Busy, at, mine, TypeOK, Cid, Cid0
<1>4. /\ obj'[mine.self].did = mine.cid
      /\ \A q \in Obj : /\ obj'[q].cid = obj[q].cid
                        /\ obj'[q].working = obj[q].working
                        /\ obj'[q].posted = obj[q].posted
                        /\ q # mine.self => obj'[q] = obj[q]
  BY <1>0, <1>1, <1>3, SetDid
<1>5. CidsStay
  BY <1>1, <1>4 DEF CidsStay
<1>6. ReceiverInv'
  <2>1. used \subseteq Obj
    BY <1>0 DEF TypeOK
  <2> QED BY <1>1, <1>2, <1>4, <2>1, ReceiversStay DEF RelayInv
<1>7. NotedInv'
  <2> SUFFICES ASSUME NEW c \in Cid, map'[c] # NULL, Established(c)'
               PROVE  obj'[map'[c]].did = c
    BY DEF NotedInv, Noted
  <2>1. Noted(c) /\ map'[c] = map[c] /\ map[c] \in Obj /\ obj[map[c]].cid = c
    BY <1>0, <1>1
    DEF RelayInv, DialogInv, NotedInv, Established, TypeOK, OwnerInv, MapHasLiveInstances
  <2>2. CASE map[c] = mine.self
    BY <1>3, <1>4, <2>1, <2>2
  <2>3. CASE map[c] # mine.self
    BY <1>4, <2>1, <2>3 DEF Noted
  <2> QED BY <2>2, <2>3
<1>8. OutboundInv'
  BY <1>1, <1>5, OutboundStays DEF RelayInv, DialogInv
<1>9. CallInv'
  BY <1>2, ElsewhereCall DEF Calling, Erasing
<1> QED BY <1>6, <1>7, <1>8, <1>9 DEF DialogInv

(* After BYE the call is down when its instance is released. *)
LEMMA ByeAutoReleaseRelay ==
  ASSUME Relay, RelayInv, ByeAutoRelease
  PROVE  ReceiverInv' /\ DialogInv'
<1>0. "event" \in Thread /\ TypeOK /\ mine \in Locals
  BY OneThread DEF RelayInv, OwnerInv, TypeOK, mine
<1>1. /\ at = "bye_auto" /\ obj' = setAutoRelease(mine.self, TRUE)
      /\ UNCHANGED <<used, map, recv, handle, leg, next>>
      /\ Go("event", "er_find", WithRet(mine, "bye_notify"))
  BY DEF ByeAutoRelease, At, at, mine, stack
<1>2. at' = "er_find" /\ mine'.cid = mine.cid
  BY <1>0, <1>1, WithRetFields, GoMoves DEF at, mine, Label
<1>3. mine.self \in Obj /\ mine.cid \in Cid
  BY <1>0, <1>1 DEF RelayInv, OwnerInv, BusyInv, KnowsItsLeg, Busy, at, mine, TypeOK
<1>4. leg[mine.cid].peer = "bye"
  BY <1>0, <1>1 DEF RelayInv, OwnerInv, ReleaseInv, MayRelease, at, mine
<1>5. \A q \in Obj : /\ obj'[q].cid = obj[q].cid /\ obj'[q].did = obj[q].did
                     /\ obj'[q].working = obj[q].working
                     /\ obj'[q].posted = obj[q].posted
  BY <1>0, <1>1, <1>3, SetAutoRelease
<1>6. CidsStay
  BY <1>1, <1>5 DEF CidsStay
<1>7. used \subseteq Obj
  BY <1>0 DEF TypeOK
<1>8. ReceiverInv'
  BY <1>1, <1>2, <1>5, <1>7, ReceiversStay DEF RelayInv
<1>9. NotedInv'
  <2> SUFFICES ASSUME NEW c \in Cid, map'[c] # NULL, Established(c)'
               PROVE  Noted(c)'
    BY DEF NotedInv
  <2>1. Established(c)
    BY <1>1 DEF Established
  <2> QED BY <1>1, <1>5, <1>7, <2>1, NotedStays DEF RelayInv, DialogInv
<1>10. OutboundInv'
  BY <1>1, <1>6, OutboundStays DEF RelayInv, DialogInv
<1>11. CallInv'
  BY <1>1, <1>2, <1>4 DEF CallInv, Erasing, Established
<1> QED BY <1>8, <1>9, <1>10, <1>11 DEF DialogInv

-----------------------------------------------------------------------------
(* No instance, no leg and no call to begin with *)
LEMMA InitRelay == Init => ReceiverInv /\ DialogInv
<1> SUFFICES ASSUME Init
             PROVE  ReceiverInv /\ DialogInv
  OBVIOUS
<1>1. at = "idle"
  BY DEF Init, at, Thread
<1>2. ReceiverInv
  BY <1>1 DEF Init, ReceiverInv
<1>3. NotedInv /\ OutboundInv
  BY DEF Init, NotedInv, OutboundInv
<1>4. CallInv
  BY <1>1 DEF CallInv, Erasing
<1> QED BY <1>2, <1>3, <1>4 DEF DialogInv

(* What the event thread does with what it is told, and goes on with *)
LEMMA EventRelay ==
  ASSUME Relay, RelayInv, Events \/ EventHandler
  PROVE  ReceiverInv' /\ DialogInv'
<1>1. ASSUME NEW c \in Cid, Answer200OK(c) \/ AnswerRsp(c) \/ CallBye(c)
      PROVE  ReceiverInv' /\ DialogInv'
  <2>1. CASE Answer200OK(c)
    BY <2>1, LookupRelay DEF Answer200OK, At, at, streams
  <2>2. CASE AnswerRsp(c)
    BY <2>2, LookupRelay DEF AnswerRsp, At, at, streams
  <2>3. CASE CallBye(c)
    BY <2>3, LookupRelay DEF CallBye, At, at, streams
  <2> QED BY <1>1, <2>1, <2>2, <2>3
<1>2. CASE Events
  BY <1>1, <1>2, InboundRelay DEF Events
<1>3. CASE EventHandler
  BY <1>3, ReturningRelay, InviteAcceptedRelay, AnswerSetDidRelay, ByeAutoReleaseRelay,
     ReleaseCallbackRelay DEF EventHandler
<1> QED BY <1>2, <1>3

(* What it does for the application *)
LEMMA CallRelay ==
  ASSUME Relay, RelayInv, Create("event") \/ DeleteStreamPuller("event") \/ Erase("event")
  PROVE  ReceiverInv' /\ DialogInv'
<1>1. CASE Create("event")
  BY <1>1, ReturningRelay, CreateInitRelay, CreateInviteRelay, CreateInsertRelay DEF Create
<1>2. CASE DeleteStreamPuller("event")
  BY <1>2, ReturningRelay, DeleteActiveRelay, DeleteTerminateRelay DEF DeleteStreamPuller
<1>3. CASE Erase("event")
  BY <1>3, EraseRelay, EraseStopRelay, EraseWaitRelay DEF Erase
<1> QED BY <1>1, <1>2, <1>3

(* The invariant is inductive. *)
LEMMA NextRelay ==
  ASSUME Relay, RelayInv, [Next]_vars
  PROVE  RelayInv'
<1>1. OwnerInv'
  BY NextOwner DEF RelayInv
<1>2. CASE Events
  BY <1>1, <1>2, EventRelay DEF RelayInv
<1>3. ASSUME NEW t \in Thread, Step(t)
      PROVE  RelayInv'
  <2>1. EventHandler \/ Create("event") \/ DeleteStreamPuller("event") \/ Erase("event")
    BY <1>3, OneThread DEF Step
  <2> QED BY <1>1, <2>1, EventRelay, CallRelay DEF RelayInv
<1>4. ASSUME NEW p \in Obj, PullStreamEnds(p)
      PROVE  RelayInv'
  BY <1>1, <1>4, PullStreamEndsRelay DEF RelayInv
<1>5. CASE UNCHANGED vars
  <2>1. UNCHANGED <<used, obj, map, recv, handle, leg, pc, loc>>
    BY <1>5 DEF vars, streams, stack, control
  <2>2. ReceiverInv' /\ NotedInv' /\ OutboundInv' /\ CallInv'
    BY <2>1 DEF RelayInv, DialogInv, ReceiverInv, NotedInv, Noted, OutboundInv, CallInv,
       Established, at, mine
  <2> QED BY <1>1, <2>2 DEF RelayInv, DialogInv
<1> QED BY <1>2, <1>3, <1>4, <1>5, OneThread DEF Next

(* A gateway that is called from its callback only: who knows an instance, what
   its receiving thread has done, and what is known of its call. *)
THEOREM RelayCorrect == ASSUME Relay PROVE Spec => []RelayInv
<1>1. Init => RelayInv
  BY InitOwner, InitRelay DEF RelayInv
<1>2. RelayInv /\ [Next]_vars => RelayInv'
  BY NextRelay
<1> QED BY <1>1, <1>2, PTL DEF Spec

(* releaseStreamPuller never lets eraseStreamInstance free a puller while its
   receiving thread is in it. *)
THEOREM ReceiverEndsFirstCorrect == ASSUME Relay PROVE Spec => []ReceiverEndsFirst
<1>1. RelayInv => ReceiverEndsFirst
  BY OneThread DEF RelayInv, ReceiverInv, ReceiverEndsFirst, at, mine
<1> QED BY <1>1, RelayCorrect, PTL

(* When the event thread is at rest, every call that is up can be hung up. *)
THEOREM DialogCorrect == ASSUME Relay PROVE Spec => []AnsweredStreamHasDialog
<1>1. RelayInv => AnsweredStreamHasDialog
  BY DEF RelayInv, DialogInv, NotedInv, Noted, AnsweredStreamHasDialog, at
<1> QED BY <1>1, RelayCorrect, PTL

(* eraseStreamInstance forgets a stream only after its call has ended. *)
THEOREM ErasedCallIsDownCorrect == ASSUME Relay PROVE Spec => ErasedCallIsDown
<1> DEFINE Down == \A c \in Cid : map[c] # NULL /\ map'[c] = NULL => ~Established(c)
<1>1. ASSUME RelayInv, [Next]_vars
      PROVE  Down
  <2> SUFFICES ASSUME NEW c \in Cid, map[c] # NULL, map'[c] = NULL
               PROVE  ~Established(c)
    OBVIOUS
  <2>1. TypeOK
    BY <1>1 DEF RelayInv, OwnerInv
  <2>2. EraseErase("event")
    <3>1. ~InviteAccepted
      <4> SUFFICES ASSUME InviteAccepted
                   PROVE  FALSE
        OBVIOUS
      <4>1. /\ loc["event"].asked # NULL
            /\ map' = [map EXCEPT ![obj[loc["event"].asked].cid] = loc["event"].asked]
        BY <1>1, <2>1 DEF InviteAccepted, At, RelayInv, OwnerInv, AskedInv, Asking, TypeOK
      <4> QED BY <2>1, <4>1 DEF TypeOK
    <3>2. ~CreateInsert("event")
      <4> SUFFICES ASSUME CreateInsert("event")
                   PROVE  FALSE
        OBVIOUS
      <4>1. /\ loc["event"].self # NULL
            /\ map' = [map EXCEPT ![loc["event"].cid] = loc["event"].self]
        BY <1>1, <2>1 DEF CreateInsert, At, RelayInv, OwnerInv, EnterInv, Entering, TypeOK
      <4> QED BY <2>1, <4>1 DEF TypeOK
    <3>3. ~(Events \/ UNCHANGED vars \/ \E p \in Obj : PullStreamEnds(p))
      BY DEF Events, InviteDropped, InviteIncoming, Answer200OK, AnswerRsp, CallBye, vars,
         streams, PullStreamEnds
    <3>4. ~(EventHandler /\ ~InviteAccepted)
      BY DEF EventHandler, InviteCallback, InviteRefused, AnswerSetDid, ByeAutoRelease,
         ReleaseCallback, streams
    <3>5. ~(Create("event") /\ ~CreateInsert("event")) /\ ~DeleteStreamPuller("event")
      BY DEF Create, CreateNoPort, CreateInit, CreateInvite, CreateNotSent,
         DeleteStreamPuller, DeleteAutoReleased, DeleteActive, DeleteTerminate, streams
    <3>6. ~(Erase("event") /\ ~EraseErase("event"))
      BY DEF Erase, EraseFind, EraseStop, EraseWait, EraseFree, streams
    <3>7. Step("event")
      BY <1>1, <3>3, OneThread DEF Next
    <3> QED BY <3>1, <3>2, <3>4, <3>5, <3>6, <3>7 DEF Step
  <2>3. at = "er_erase" /\ c = mine.cid
    BY <2>1, <2>2 DEF EraseErase, At, at, mine, TypeOK
  <2> QED BY <1>1, <2>3 DEF RelayInv, DialogInv, CallInv, Erasing
<1>2. RelayInv /\ [Next]_vars => [Down]_vars
  BY <1>1
<1> QED BY <1>2, RelayCorrect, PTL DEF Spec, ErasedCallIsDown
=============================================================================
