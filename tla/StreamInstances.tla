--------------------------- MODULE StreamInstances ---------------------------
(***************************************************************************)
(* The streams of the media gateway (GB28181MediaGate.cpp): pullers, which *)
(* receive a camera's stream for the application in a thread of their own, *)
(* and pushers, which send one.  An instance lives on the heap, is known   *)
(* to the SIP event thread by the cid of its call leg and to the           *)
(* application by its address.                                             *)
(*                                                                         *)
(* The threads are the SIP event thread, one receiving thread per puller   *)
(* and, if Concurrent, a thread of the application that creates and        *)
(* deletes pullers.  Nothing here is protected by a mutex, so that an      *)
(* action ends wherever the code goes from one shared object to another.   *)
(* If Concurrent is FALSE the application calls the gateway from its       *)
(* callback only, like a relay that pulls a stream when it is asked for    *)
(* one and deletes the puller when it is told that a call has ended.       *)
(*                                                                         *)
(* Ports and the proxy are left out: each of the three attempts to open a  *)
(* port may fail.  A block is not given to two instances, and a read of a  *)
(* freed block that has no other effect than a wrong answer is a choice.   *)
(* A CANCEL is left out: no handler hears of one that is received, and a   *)
(* puller that is deleted after a provisional answer, for whose leg the    *)
(* code sends one, sends nothing here.  The peer, which may refuse or      *)
(* answer such a leg at any time, can do all it could after the CANCEL.    *)
(* Bounds: Obj is the number of instances created, MaxCid that of legs.    *)
(***************************************************************************)
EXTENDS Naturals

CONSTANTS
  Obj,         (* the blocks of CGB28181StreamInstance                       *)
  MaxCid,      (* bound: call legs the SIP stack opens                       *)
  Concurrent,  (* does the application call the gateway from its own thread? *)
  NULL

ASSUME StreamAssumption == /\ MaxCid \in Nat
                           /\ Concurrent \in BOOLEAN
                           /\ NULL \notin Obj

Cid    == 1 .. MaxCid
Cid0   == 0 .. MaxCid
Thread == IF Concurrent THEN {"event", "api"} ELSE {"event"}

VARIABLES
  live,    (* the allocated blocks                                           *)
  used,    (* the blocks that have been allocated at some time               *)
  obj,     (* the members of each instance                                   *)
  map,     (* g_mapGB28181StreamInstance                                     *)
  recv,    (* the receiving thread of each puller                            *)
  handle,  (* the puller handles the application has to delete               *)
  leg,     (* the SIP stack's view of the call legs                          *)
  next,    (* the next cid                                                   *)
  pc, loc  (* where each thread is, and its locals                           *)

streams == <<live, used, obj, map>>
stack   == <<leg, next>>
control == <<pc, loc>>
vars    == <<streams, recv, handle, stack, control>>

(* did is 0 until the dialog of the call is known; auto is m_bAutoRelease,
   working is m_bThreadWorking, posted counts m_semWaitExit *)
Instance == [kind : {"pusher", "puller"}, cid : Cid0, did : Cid0,
             auto : BOOLEAN, working : BOOLEAN, posted : {0, 1}]

(* answer: of the server to an incoming leg; ended: the server has sent BYE *)
Leg == [role : {"none", "in", "out"}, answered : BOOLEAN, ended : BOOLEAN,
        peer : {"wait", "ok", "refuse", "bye"}]

NoLeg   == [role |-> "none", answered |-> FALSE, ended |-> FALSE, peer |-> "wait"]
Inbound  == [NoLeg EXCEPT !.role = "in"]
Outbound == [NoLeg EXCEPT !.role = "out"]

(* CGB28181StreamInstance(), and what the two init functions set *)
Pusher(c) == [kind |-> "pusher", cid |-> c, did |-> 0, auto |-> FALSE,
              working |-> FALSE, posted |-> 0]
Puller    == [kind |-> "puller", cid |-> 0, did |-> 0, auto |-> FALSE,
              working |-> TRUE, posted |-> 0]

Label == {"idle", "inv_callback", "inv_return", "cr_init", "cr_invite", "cr_insert",
          "ok_did", "rsp_notify", "bye_auto", "bye_notify",
          "del_check", "del_term", "er_find", "er_stop", "er_wait", "er_free", "er_erase"}

(* self: the instance a function works on; asked: the pusher of the INVITE
   whose callback is running; ret: where a nested call returns to *)
Locals == [self : Obj \cup {NULL}, asked : Obj \cup {NULL},
           cid : Cid0, did : Cid0, ret : Label]

NoLocals == [self |-> NULL, asked |-> NULL, cid |-> 0, did |-> 0, ret |-> "idle"]

(* The locals of a function that works on instance p of leg c *)
Holding(p, c) == [self |-> p, asked |-> NULL, cid |-> c, did |-> 0, ret |-> "idle"]

(* Those of mediaGateHandleCallInviteIncoming, and of DeleteStreamPuller *)
Asked(p, c) == [self |-> NULL, asked |-> p, cid |-> c, did |-> 0, ret |-> "idle"]
Deleting(p) == [self |-> p, asked |-> NULL, cid |-> obj[p].cid, did |-> obj[p].did,
                ret |-> "idle"]

(* With another self, or cid; calling a function that returns to r *)
WithSelf(x, p) == [x EXCEPT !.self = p]
WithCid(x, c)  == [x EXCEPT !.cid = c]
WithRet(x, r)  == [x EXCEPT !.ret = r]

At(t, l) == t \in Thread /\ pc[t] = l

Go(t, l, x) == /\ pc' = [pc EXCEPT ![t] = l]
               /\ loc' = [loc EXCEPT ![t] = x]

Finish(t) == Go(t, "idle", NoLocals)

(* A nested call returns; only the INVITE it was called from goes on. *)
Return(t) ==
  IF loc[t].ret = "idle" THEN Finish(t) ELSE Go(t, loc[t].ret, WithRet(loc[t], "idle"))

setCID(p, c)         == [obj EXCEPT ![p].cid = c]
setDID(p, c)         == [obj EXCEPT ![p].did = c]
setAutoRelease(p, b) == [obj EXCEPT ![p].auto = b]
Working(p, b)        == [obj EXCEPT ![p].working = b]
Posted(p, n)         == [obj EXCEPT ![p].posted = n]

(* The other side of leg c sends a; this side answers, or hangs up. *)
Peer(c, a)  == [leg EXCEPT ![c].peer = a]
Answered(c) == [leg EXCEPT ![c].answered = TRUE]
Ended(c)    == [leg EXCEPT ![c].ended = TRUE]

Established(c) == /\ \/ leg[c].role = "out" /\ leg[c].peer = "ok"
                     \/ leg[c].role = "in" /\ leg[c].answered /\ leg[c].peer = "wait"
                  /\ ~leg[c].ended

-----------------------------------------------------------------------------
Init ==
  /\ live = {} /\ used = {}
  /\ obj = [p \in Obj |-> Puller]
  /\ map = [c \in Cid |-> NULL]
  /\ recv = [p \in Obj |-> "none"]
  /\ handle = {}
  /\ leg = [c \in Cid |-> NoLeg] /\ next = 1
  /\ pc = [t \in Thread |-> "idle"]
  /\ loc = [t \in Thread |-> NoLocals]

-----------------------------------------------------------------------------
(* INVITE: the gateway is asked for a stream *)

(* No "id" in the request, or no port for a pusher: the INVITE is dropped. *)
InviteDropped ==
  /\ At("event", "idle") /\ next \in Cid
  /\ leg' = [leg EXCEPT ![next] = Inbound]
  /\ next' = next + 1
  /\ UNCHANGED <<streams, recv, handle, control>>

InviteIncoming ==
  /\ At("event", "idle") /\ next \in Cid
  /\ \E p \in Obj \ used :
       /\ live' = live \cup {p} /\ used' = used \cup {p}
       /\ obj' = [obj EXCEPT ![p] = Pusher(next)]
       /\ Go("event", "inv_callback", Asked(p, next))
  /\ leg' = [leg EXCEPT ![next] = Inbound]
  /\ next' = next + 1
  /\ UNCHANGED <<map, recv, handle>>

(* MEDIA_GATE_MSG_CALL_INIT: the application may pull the stream it is asked
   for before it returns. *)
InviteCallback ==
  /\ At("event", "inv_callback")
  /\ \/ Go("event", "inv_return", loc["event"])
     \/ Go("event", "cr_init", WithRet(loc["event"], "inv_return"))
  /\ UNCHANGED <<streams, recv, handle, stack>>

InviteAccepted ==
  /\ At("event", "inv_return")
  /\ LET p == loc["event"].asked  c == obj[p].cid IN
       /\ map' = [map EXCEPT ![c] = p]
       /\ obj' = setDID(p, c)
       /\ leg' = Answered(c)
  /\ Finish("event")
  /\ UNCHANGED <<live, used, recv, handle, next>>

(* The application refuses: the pusher goes, the INVITE is not answered. *)
InviteRefused ==
  /\ At("event", "inv_return")
  /\ live' = live \ {loc["event"].asked}
  /\ Finish("event")
  /\ UNCHANGED <<used, obj, map, recv, handle, stack>>

-----------------------------------------------------------------------------
(* GB28181MediaGate_CreateStreamPuller *)

(* None of three ports could be opened. *)
CreateNoPort(t) ==
  /\ At(t, "cr_init")
  /\ Return(t)
  /\ UNCHANGED <<streams, recv, handle, stack>>

(* initStreamPuller has opened the sockets and started the thread. *)
CreateInit(t) ==
  /\ At(t, "cr_init")
  /\ \E p \in Obj \ used :
       /\ live' = live \cup {p} /\ used' = used \cup {p}
       /\ obj' = [obj EXCEPT ![p] = Puller]
       /\ recv' = [recv EXCEPT ![p] = "run"]
       /\ Go(t, "cr_invite", WithSelf(loc[t], p))
  /\ UNCHANGED <<map, handle, stack>>

CreateInvite(t) ==
  /\ At(t, "cr_invite") /\ next \in Cid
  /\ leg' = [leg EXCEPT ![next] = Outbound]
  /\ next' = next + 1
  /\ Go(t, "cr_insert", WithCid(loc[t], next))
  /\ UNCHANGED <<streams, recv, handle>>

(* The INVITE is not sent: the puller is deleted, but not released. *)
CreateNotSent(t) ==
  /\ At(t, "cr_invite")
  /\ live' = live \ {loc[t].self}
  /\ Return(t)
  /\ UNCHANGED <<used, obj, map, recv, handle, stack>>

CreateInsert(t) ==
  /\ At(t, "cr_insert")
  /\ obj' = setCID(loc[t].self, loc[t].cid)
  /\ map' = [map EXCEPT ![loc[t].cid] = loc[t].self]
  /\ handle' = handle \cup {loc[t].self}
  /\ Return(t)
  /\ UNCHANGED <<live, used, recv, stack>>

-----------------------------------------------------------------------------
(* eraseStreamInstance *)

EraseFind(t) ==
  /\ At(t, "er_find")
  /\ LET p == map[loc[t].cid] IN
       IF p = NULL THEN Return(t) ELSE Go(t, "er_stop", WithSelf(loc[t], p))
  /\ UNCHANGED <<streams, recv, handle, stack>>

(* releaseInstance asks a puller's thread to end, unless that was done. *)
EraseStop(t) ==
  /\ At(t, "er_stop")
  /\ LET p == loc[t].self IN
       IF obj[p].working
       THEN /\ obj' = Working(p, FALSE)
            /\ Go(t, "er_wait", loc[t])
       ELSE Go(t, "er_free", loc[t]) /\ UNCHANGED obj
  /\ UNCHANGED <<live, used, map, recv, handle, stack>>

(* Faulty variant: the thread is not waited for. *)
EraseNoWait(t) ==
  /\ At(t, "er_wait")
  /\ Go(t, "er_free", loc[t])
  /\ UNCHANGED <<streams, recv, handle, stack>>

(* sem_wait *)
EraseWait(t) ==
  /\ At(t, "er_wait") /\ obj[loc[t].self].posted = 1
  /\ obj' = Posted(loc[t].self, 0)
  /\ Go(t, "er_free", loc[t])
  /\ UNCHANGED <<live, used, map, recv, handle, stack>>

EraseFree(t) ==
  /\ At(t, "er_free")
  /\ live' = live \ {loc[t].self}
  /\ Go(t, "er_erase", loc[t])
  /\ UNCHANGED <<used, obj, map, recv, handle, stack>>

(* Faulty variant: the instance is deleted but stays in the map. *)
EraseKeep(t) ==
  /\ At(t, "er_erase")
  /\ Return(t)
  /\ UNCHANGED <<streams, recv, handle, stack>>

EraseErase(t) ==
  /\ At(t, "er_erase")
  /\ map' = [map EXCEPT ![loc[t].cid] = NULL]
  /\ Return(t)
  /\ UNCHANGED <<live, used, obj, recv, handle, stack>>

Erase(t) == \/ EraseFind(t) \/ EraseStop(t) \/ EraseWait(t)
            \/ EraseFree(t) \/ EraseErase(t)

-----------------------------------------------------------------------------
(* GB28181MediaGate_DeleteStreamPuller; the application calls it once for a
   handle. *)
Delete(t, p) ==
  /\ handle' = handle \ {p}
  /\ Go(t, "del_check", Holding(p, 0))

DeleteAutoReleased(t) ==
  /\ At(t, "del_check")
  /\ loc[t].self \in live => obj[loc[t].self].auto
  /\ Finish(t)
  /\ UNCHANGED <<streams, recv, handle, stack>>

DeleteActive(t) ==
  /\ At(t, "del_check")
  /\ LET p == loc[t].self IN
       /\ p \in live => ~obj[p].auto
       /\ Go(t, "del_term", Deleting(p))
  /\ UNCHANGED <<streams, recv, handle, stack>>

(* Faulty variant: the call is not hung up. *)
DeleteNoTerminate(t) ==
  /\ At(t, "del_term")
  /\ Go(t, "er_find", loc[t])
  /\ UNCHANGED <<streams, recv, handle, stack>>

(* SipUA_TerminateCall: BYE if the did is known.  Without one eXosip sends a
   CANCEL if there was a provisional answer and nothing if there was none; the
   leg stays as it is until the peer has answered. *)
DeleteTerminate(t) ==
  /\ At(t, "del_term")
  /\ LET c == loc[t].cid IN
       leg' = IF loc[t].did # 0 /\ leg[c].peer = "ok"
              THEN Ended(c) ELSE leg
  /\ Go(t, "er_find", loc[t])
  /\ UNCHANGED <<streams, recv, handle, next>>

-----------------------------------------------------------------------------
(* The answers to a puller's INVITE, and BYE *)

(* What a handler does once it has the instance of leg c, if there is one *)
Lookup(c, l) ==
  IF map[c] = NULL THEN Finish("event")
  ELSE Go("event", l, Holding(map[c], c))

Answer200OK(c) ==
  /\ At("event", "idle")
  /\ leg[c].role = "out" /\ leg[c].peer = "wait"
  /\ leg' = Peer(c, "ok")
  /\ Lookup(c, "ok_did")
  /\ UNCHANGED <<streams, recv, handle, next>>

(* Faulty variant: the dialog is not noted. *)
AnswerNoDid ==
  /\ At("event", "ok_did")
  /\ Finish("event")
  /\ UNCHANGED <<streams, recv, handle, stack>>

(* setDID and SipUA_SendAck *)
AnswerSetDid ==
  /\ At("event", "ok_did")
  /\ obj' = setDID(loc["event"].self, loc["event"].cid)
  /\ Finish("event")
  /\ UNCHANGED <<live, used, map, recv, handle, stack>>

(* Faulty variant: a refused call is released like one that was hung up. *)
AnswerRspReleases(c) ==
  /\ At("event", "idle")
  /\ leg[c].role = "out" /\ leg[c].peer = "wait"
  /\ leg' = Peer(c, "refuse")
  /\ Lookup(c, "bye_auto")
  /\ UNCHANGED <<streams, recv, handle, next>>

AnswerRsp(c) ==
  /\ At("event", "idle")
  /\ leg[c].role = "out" /\ leg[c].peer = "wait"
  /\ leg' = Peer(c, "refuse")
  /\ Lookup(c, "rsp_notify")
  /\ UNCHANGED <<streams, recv, handle, next>>

CallBye(c) ==
  /\ At("event", "idle")
  /\ Established(c)
  /\ leg' = Peer(c, "bye")
  /\ Lookup(c, "bye_auto")
  /\ UNCHANGED <<streams, recv, handle, next>>

ByeAutoRelease ==
  /\ At("event", "bye_auto")
  /\ obj' = setAutoRelease(loc["event"].self, TRUE)
  /\ Go("event", "er_find", WithRet(loc["event"], "bye_notify"))
  /\ UNCHANGED <<live, used, map, recv, handle, stack>>

(* MEDIA_GATE_MSG_CALL_RELEASE: the application may delete a puller, the one
   whose call has ended or the source of the pusher that is no longer asked
   for; or it does nothing now. *)
ReleaseCallback ==
  /\ At("event", "rsp_notify") \/ At("event", "bye_notify")
  /\ \/ \E p \in handle : Delete("event", p)
     \/ Finish("event") /\ UNCHANGED handle
  /\ UNCHANGED <<streams, recv, stack>>

-----------------------------------------------------------------------------
(* The application's own thread *)
ApiCreate ==
  /\ At("api", "idle")
  /\ Go("api", "cr_init", NoLocals)
  /\ UNCHANGED <<streams, recv, handle, stack>>

ApiDelete ==
  /\ At("api", "idle")
  /\ \E p \in handle : Delete("api", p)
  /\ UNCHANGED <<streams, recv, stack>>

(* Faulty variants: the loop is left without sem_post, or posts twice. *)
PullStreamEndsSilently(p) ==
  /\ recv[p] = "run"
  /\ recv' = [recv EXCEPT ![p] = "ended"]
  /\ UNCHANGED <<streams, handle, stack, control>>

PullStreamEndsTwice(p) ==
  /\ recv[p] = "run"
  /\ recv' = [recv EXCEPT ![p] = "ended"]
  /\ obj' = Posted(p, 2)
  /\ UNCHANGED <<live, used, map, handle, stack, control>>

(* The receiving thread sees the flag, or select fails; its loop over the
   packets changes nothing here.  In a freed block it sees anything. *)
PullStreamEnds(p) ==
  /\ recv[p] = "run"
  /\ recv' = [recv EXCEPT ![p] = "ended"]
  /\ obj' = Posted(p, 1)
  /\ UNCHANGED <<live, used, map, handle, stack, control>>

-----------------------------------------------------------------------------
Create(t) == \/ CreateNoPort(t) \/ CreateInit(t) \/ CreateInvite(t)
             \/ CreateNotSent(t) \/ CreateInsert(t)

DeleteStreamPuller(t) == DeleteAutoReleased(t) \/ DeleteActive(t) \/ DeleteTerminate(t)

Events == \/ InviteDropped \/ InviteIncoming
          \/ \E c \in Cid : Answer200OK(c) \/ AnswerRsp(c) \/ CallBye(c)

EventHandler == \/ InviteCallback \/ InviteAccepted \/ InviteRefused
                \/ AnswerSetDid \/ ByeAutoRelease \/ ReleaseCallback

(* A step of a call that a thread has begun *)
Step(t) == \/ t = "event" /\ EventHandler
           \/ Create(t) \/ DeleteStreamPuller(t) \/ Erase(t)

Next == \/ Events \/ ApiCreate \/ ApiDelete
        \/ \E t \in Thread : Step(t)
        \/ \E p \in Obj : PullStreamEnds(p)

Spec == Init /\ [][Next]_vars

(***************************************************************************)
(* Fairness.  A thread goes on with what it has begun, and a receiving     *)
(* thread looks at its flag every 50 ms (the timeout of select).  Nobody   *)
(* has to call the gateway.                                                *)
(***************************************************************************)
FairSpec ==
  /\ Spec
  /\ \A t \in Thread : WF_vars(Step(t))
  /\ \A p \in Obj : WF_vars(~obj[p].working /\ PullStreamEnds(p))

-----------------------------------------------------------------------------
(* Every variable stays in the values the code can give it. *)
TypeOK ==
  /\ live \subseteq used /\ used \subseteq Obj
  /\ obj \in [Obj -> Instance]
  /\ map \in [Cid -> Obj \cup {NULL}]
  /\ recv \in [Obj -> {"none", "run", "ended"}]
  /\ handle \subseteq Obj
  /\ leg \in [Cid -> Leg] /\ next \in 1 .. MaxCid + 1
  /\ pc \in [Thread -> Label] /\ loc \in [Thread -> Locals]

(* eraseStreamInstance frees a puller only after its receiving thread has left
   the object (the flag and the semaphore of releaseStreamPuller). *)
ReceiverEndsFirst ==
  \A t \in Thread : pc[t] = "er_free" => recv[loc[t].self] # "run"

(* What the event thread finds in the map is an instance of that call and is
   allocated, except while the instance is being erased. *)
MapHasLiveInstances ==
  \A c \in Cid : map[c] # NULL =>
    /\ obj[map[c]].cid = c
    /\ \/ map[c] \in live
       \/ \E t \in Thread : pc[t] = "er_erase" /\ loc[t].cid = c

(* A puller the application has a handle of goes only when the other side ends
   the call: the gateway does not free it of its own accord. *)
HandleOutlivesCall ==
  \A p \in handle : p \in live \/ leg[obj[p].cid].peer = "bye"

(* No call that is up loses its instance: a stream is forgotten only after its
   call was hung up by one side or the other, so that it never goes on being
   sent to nobody. *)
ErasedCallIsDown ==
  [][\A c \in Cid : map[c] # NULL /\ map'[c] = NULL => ~Established(c)]_vars

(* Every stream that is up can be hung up: when the event thread is at rest, the
   call of an instance in the map that was answered has its dialog noted. *)
AnsweredStreamHasDialog ==
  pc["event"] = "idle" =>
    \A c \in Cid : map[c] # NULL /\ Established(c) => obj[map[c]].did = c

(* Every call of the gateway returns: releasing a puller does not wait for ever
   for its thread. *)
CallsReturn == \A t \in Thread : pc[t] # "idle" ~> pc[t] = "idle"

(* A stream whose call was ended by the other side is given up. *)
ByeReleasesStream == \A c \in Cid : leg[c].peer = "bye" ~> map[c] = NULL

(* Every instance is released by one thread only. *)
ReleasedOnce ==
  \A t \in Thread :
    pc[t] \in {"er_stop", "er_wait", "er_free"} => loc[t].self \in live
=============================================================================
