------------------------------ MODULE SipServer ------------------------------
(***************************************************************************)
(* The call core of the GB28181 SIP server: the registrations, pending     *)
(* playback requests and call contexts of CCallManager, the handlers that  *)
(* the SIP event thread runs on them (SipServer.cpp) and the monitor timer *)
(* that runs beside it (CallManager.cpp).                                  *)
(*                                                                         *)
(* One action stands for the code between two points at which the other    *)
(* thread can be seen: a section under a mutex that takes no other mutex   *)
(* and is read nowhere without it is one action.  The code that reads or   *)
(* writes a call context without m_tLockCallContext is an action of its    *)
(* own.  m_tLockPlaybackCaller protects single-action sections only, so it *)
(* needs no variable.                                                      *)
(*                                                                         *)
(* Time is counted in monitor periods.  A time stamp is kept as its age    *)
(* (up to AgeCap), and `lag' is the age of the i64CurTime the timer read   *)
(* before it asked for a lock.  insertEndpoint reads the clock when it     *)
(* starts; the time it then waits in removeCallContextBySipId is not       *)
(* counted in the ages it stores.                                          *)
(*                                                                         *)
(* Bounds: a handler that opens a call leg or a context is started only    *)
(* while MaxCid and Slot leave room for it; MaxLag and AgeCap bound time.  *)
(***************************************************************************)
EXTENDS Integers, FiniteSets

CONSTANTS
  SipId,            (* user parts of SIP URIs: platforms, clouds, callers    *)
  Device,           (* national codes of cameras                             *)
  CallId,           (* Call-ID header values of REGISTER requests            *)
  Type,             (* endpoint types, of "GB_PLATFORM" and "DEVICECLOUD"    *)
  Slot,             (* heap blocks an SCallContext may occupy                *)
  MaxCid,           (* bound: call legs the SIP stack opens in a behaviour   *)
  Expires,          (* registration windows, in periods: negative when the   *)
                    (* header is missing (-1) or expires * 1000 overflows    *)
  MonitorKeepalive, (* m_iMonitorKeepalive, in periods                       *)
  PlaybackTimeout,  (* the 30 s of checkPlaybackCallerInfo, in periods       *)
  MaxLag,           (* bound: periods that pass while one monitor run waits  *)
  AgeCap,           (* bound: ages are not told apart beyond this one        *)
  NULL

ASSUME ConstantsAssumption ==
  /\ MaxCid \in Nat /\ MaxLag \in Nat /\ AgeCap \in Nat
  /\ MonitorKeepalive \in Nat /\ PlaybackTimeout \in Nat
  /\ Expires \subseteq Int
  /\ \A x \in Expires \cup {MonitorKeepalive, PlaybackTimeout} : x + MaxLag <= AgeCap
  /\ Type \subseteq {"GB_PLATFORM", "DEVICECLOUD"}
  /\ NULL \notin SipId \cup Slot \cup CallId
  /\ NULL \notin {"event", "timer"}

Cid    == 1 .. MaxCid
Cid0   == 0 .. MaxCid            \* 0: the memset value, no leg yet
Thread == {"event", "timer"}

VARIABLES
  endpoints,   (* m_mapSipEndpoints                                          *)
  calls,       (* m_lsCallContext: the blocks linked into the list           *)
  heap,        (* what a read of each block returns: zeroes if it is free,   *)
               (* see RmOne                                                  *)
  playback,    (* m_mapPlaybackCallerInfo                                    *)
  lockE,       (* owner of m_tLockSipEndpoint                                *)
  lockC,       (* owner of m_tLockCallContext                                *)
  pc,          (* where each thread is                                       *)
  victim,      (* removeCallContextBySipId: its argument, per thread         *)
  loc,         (* the locals of the handler the event thread is in           *)
  todo,        (* checkSipEndpointHeartbeat: endpoints it still has to visit *)
  lag,         (* age of the timer's i64CurTime                              *)
  leg,         (* the SIP stack's view of every call leg                     *)
  next,        (* the next cid the SIP stack gives out                       *)
  puller       (* the stream puller handleCatalogMsg opens on port 30000     *)

memory  == <<endpoints, calls, heap, playback>>
locks   == <<lockE, lockC>>
control == <<pc, victim, loc>>
timer   == <<todo, lag>>
stack   == <<leg, next>>
vars    == <<memory, locks, control, timer, stack, puller>>

Endpoint == [callid : CallId, type : Type, expires : Expires,
             keepalive : 0 .. AgeCap, register : 0 .. AgeCap,
             devices : SUBSET Device]

Context == [callerCid : Cid0, callerTid : Cid0, callerId : SipId \cup {NULL},
            calleeCid : Cid0, calleeDid : Cid0, calleeId : SipId \cup {NULL}]

(* memset(pCallCtx, 0, sizeof(SCallContext)) *)
ZeroContext == [callerCid |-> 0, callerTid |-> 0, callerId |-> NULL,
                calleeCid |-> 0, calleeDid |-> 0, calleeId |-> NULL]

PlaybackInfo == [cid : Cid, from : SipId, age : 0 .. AgeCap]

(* A null pointer is none of the records it may stand in for. *)
ASSUME NullAssumption == NULL \notin Endpoint \cup PlaybackInfo

(***************************************************************************)
(* A call leg in the SIP stack.  mine: what the server has sent on it      *)
(* (caller: the final answer; callee: the ACK).  ended: the server has     *)
(* sent BYE.  peer: what the other side has done.                          *)
(* origin: the caller leg a callee leg was opened for.                     *)
(***************************************************************************)
Leg == [role : {"none", "caller", "callee"}, mine : {"open", "ok", "fail"},
        ended : BOOLEAN, origin : Cid0,
        peer : {"wait", "ring", "ok", "refuse", "ack", "cancel", "bye"}]

NewLeg(role, mine, origin) ==
  [role |-> role, mine |-> mine, ended |-> FALSE, origin |-> origin, peer |-> "wait"]

NoLeg == NewLeg("none", "open", 0)

Registration == [id : SipId, callid : CallId, type : Type, expires : Expires]

Locals == [reg : Registration \cup {NULL}, cid : Cid0, from : SipId \cup {NULL},
           callee : SipId \cup {NULL}, calleeCid : Cid0,
           device : Device \cup {NULL}, record : BOOLEAN,
           ptr : Slot \cup {NULL}]

NoLocals == [reg |-> NULL, cid |-> 0, from |-> NULL, callee |-> NULL,
             calleeCid |-> 0, device |-> NULL, record |-> FALSE, ptr |-> NULL]

Label == {"idle", "rm_lock", "rm_loop",
          "reg_lock", "reg_insert", "reg_update", "logout_erase",
          "inv_query", "inv_new", "inv_fill", "inv_leg", "rec_remove",
          "ok_answer", "rsp_answer", "rsp_remove", "ack_send",
          "bye_term", "bye_remove",
          "hb_lock", "hb_check", "hb_erase", "pb_check"}

-----------------------------------------------------------------------------
(* Helpers *)

Registered(s) == endpoints[s] # NULL

Goto(t, l) == pc' = [pc EXCEPT ![t] = l]

(* The handler returns to the event loop. *)
Return == /\ Goto("event", "idle")
          /\ loc' = NoLocals

(* queryGb28181PlatformInfo: the platforms whose catalogue has the device;
   the code takes the first of them in the order of the map. *)
PlatformsOf(d) ==
  {s \in SipId : /\ Registered(s)
                 /\ endpoints[s].type = "GB_PLATFORM"
                 /\ d \in endpoints[s].devices}

(* The locals of a handler: of an INVITE on leg c; once it has called s; of an
   event on leg c for which it has found the context p. *)
Inviting(c, from, d, record) ==
  [NoLocals EXCEPT !.cid = c, !.from = from, !.device = d, !.record = record]
Calling(s, c) == [loc EXCEPT !.callee = s, !.calleeCid = c]
Holding(c, p) == [NoLocals EXCEPT !.cid = c, !.ptr = p]

(* A REGISTER that is handled as a logout *)
IsLogout(r) == r.type = "GB_PLATFORM" /\ r.expires = 0

NewContext(c, d) == [ZeroContext EXCEPT !.callerCid = c, !.calleeCid = d]
WithIds(x, from, callee) == [x EXCEPT !.callerId = from, !.calleeId = callee]

(* getCallContextByCallLeg, getCallContext *)
ByCaller(c) == {p \in calls : heap[p].callerCid = c}
ByCallee(c) == {p \in calls : heap[p].calleeCid = c}
ByCid(c)    == ByCaller(c) \cup ByCallee(c)

(* Faulty variant: the calls the endpoint was called in are forgotten. *)
BySipIdCallerOnly(s) == {p \in calls : heap[p].callerId = s}

BySipId(s)  == {p \in calls : s \in {heap[p].callerId, heap[p].calleeId}}

(***************************************************************************)
(* The SIP stack (eXosip), as the wrappers of SipUA.cpp use it.            *)
(***************************************************************************)
Opened(role, mine, origin) == [leg EXCEPT ![next] = NewLeg(role, mine, origin)]

(* An INVITE transaction of a caller that still waits for its answer. *)
Answerable(c) == /\ c \in Cid
                 /\ leg[c].role = "caller"
                 /\ leg[c].mine = "open"
                 /\ leg[c].peer = "wait"

AnswerCaller(l, c, answer) ==
  IF Answerable(c) THEN [l EXCEPT ![c].mine = answer] ELSE l

(* SipUA_TerminateCall on an incoming leg: 603 while the INVITE waits for an
   answer, BYE once it was answered 200. *)
TerminateCaller(l, c) ==
  IF c \notin Cid \/ l[c].role # "caller" THEN l
  ELSE IF l[c].mine = "open" /\ l[c].peer = "wait"
       THEN [l EXCEPT ![c].mine = "fail"]
  ELSE IF l[c].mine = "ok" /\ l[c].peer # "bye"
       THEN [l EXCEPT ![c].ended = TRUE]
  ELSE l

(* SipUA_TerminateCall on an outgoing leg: BYE if the did of its dialog is
   given; without a did CANCEL, and only after a provisional response --
   eXosip refuses the call otherwise and nothing is sent. *)
TerminateCallee(l, c, did) ==
  IF c \notin Cid THEN l
  ELSE IF did # 0
       THEN IF l[c].peer # "bye" THEN [l EXCEPT ![c].ended = TRUE] ELSE l
       ELSE IF l[c].peer = "ring" THEN [l EXCEPT ![c].mine = "fail"] ELSE l

(* Faulty variants: one of the two legs is not hung up. *)
TerminateCallerOnly(l, x) == TerminateCaller(l, x.callerCid)
TerminateCalleeOnly(l, x) == TerminateCallee(l, x.calleeCid, x.calleeDid)

Terminate(l, x) ==
  TerminateCallee(TerminateCaller(l, x.callerCid), x.calleeCid, x.calleeDid)

-----------------------------------------------------------------------------
Init ==
  /\ endpoints = [s \in SipId |-> NULL]
  /\ calls = {}
  /\ heap = [p \in Slot |-> ZeroContext]
  /\ playback = [d \in Device |-> NULL]
  /\ lockE = NULL /\ lockC = NULL
  /\ pc = [t \in Thread |-> "idle"]
  /\ victim = [t \in Thread |-> NULL]
  /\ loc = NoLocals
  /\ todo = {} /\ lag = 0
  /\ leg = [c \in Cid |-> NoLeg] /\ next = 1
  /\ puller = "none"

-----------------------------------------------------------------------------
(* removeCallContextBySipId, called by either thread *)

RmLock(t) ==
  /\ pc[t] = "rm_lock" /\ lockC = NULL
  /\ lockC' = t
  /\ Goto(t, "rm_loop")
  /\ UNCHANGED <<memory, lockE, victim, loc, timer, stack, puller>>

(* One turn of the loop: hang up both legs, free the context, unlink it.  A
   thread that still reads the freed block gets its old ids or the allocator's
   data; both legs have been hung up, so that whatever is sent with either has
   no effect, and the model lets it read zeroes. *)
RmOne(t) ==
  /\ pc[t] = "rm_loop"
  /\ \E p \in BySipId(victim[t]) :
       /\ leg' = Terminate(leg, heap[p])
       /\ calls' = calls \ {p}
       /\ heap' = [heap EXCEPT ![p] = ZeroContext]
  /\ UNCHANGED <<endpoints, playback, locks, control, timer, next, puller>>

(* Where the caller of removeCallContextBySipId goes on. *)
AfterRemoval(t) == IF t = "timer" THEN "hb_erase"
                   ELSE IF IsLogout(loc.reg) THEN "logout_erase" ELSE "reg_update"

(* Faulty variant: a return without pthread_mutex_unlock. *)
RmDoneStillLocked(t) ==
  /\ pc[t] = "rm_loop" /\ BySipId(victim[t]) = {}
  /\ Goto(t, AfterRemoval(t))
  /\ UNCHANGED <<memory, locks, victim, loc, timer, stack, puller>>

RmDone(t) ==
  /\ pc[t] = "rm_loop" /\ BySipId(victim[t]) = {}
  /\ lockC' = NULL
  /\ Goto(t, AfterRemoval(t))
  /\ UNCHANGED <<memory, lockE, victim, loc, timer, stack, puller>>

RemoveCallContextBySipId(t) == RmLock(t) \/ RmOne(t) \/ RmDone(t)

-----------------------------------------------------------------------------
(* REGISTER.  A request with neither a body nor credentials is answered 401
   and changes nothing, as does EXOSIP_REGISTRATION_REFRESHED. *)

RegisterNew(r) ==
  /\ pc["event"] = "idle"
  /\ loc' = [NoLocals EXCEPT !.reg = r]
  /\ IF IsLogout(r)
     THEN /\ Goto("event", "rm_lock")
          /\ victim' = [victim EXCEPT !["event"] = r.id]
     ELSE Goto("event", "reg_lock") /\ UNCHANGED victim
  /\ UNCHANGED <<memory, locks, timer, stack, puller>>

RegisterLock ==
  /\ pc["event"] = "reg_lock" /\ lockE = NULL
  /\ lockE' = "event"
  /\ Goto("event", "reg_insert")
  /\ UNCHANGED <<memory, lockC, victim, loc, timer, stack, puller>>

(* Faulty variant: the time of the registration is not stored. *)
StoredWithoutTime(r, devices) ==
  [callid |-> r.callid, type |-> r.type, expires |-> r.expires,
   keepalive |-> AgeCap + 1, register |-> AgeCap + 1, devices |-> devices]

Stored(r, devices) ==
  [callid |-> r.callid, type |-> r.type, expires |-> r.expires,
   keepalive |-> 0, register |-> 0, devices |-> devices]

(* insertEndpoint: a new endpoint, or the same registration refreshed *)
InsertEndpoint ==
  /\ pc["event"] = "reg_insert"
  /\ LET r == loc.reg  e == endpoints[r.id] IN
       /\ e # NULL => e.callid = r.callid
       /\ endpoints' = [endpoints EXCEPT ![r.id] =
                          Stored(r, IF e = NULL THEN {} ELSE e.devices)]
  /\ lockE' = NULL
  /\ Return
  /\ UNCHANGED <<calls, heap, playback, lockC, victim, timer, stack, puller>>

(* insertEndpoint: another Call-ID, the client has restarted *)
InsertEndpointRestarted ==
  /\ pc["event"] = "reg_insert"
  /\ Registered(loc.reg.id)
  /\ endpoints[loc.reg.id].callid # loc.reg.callid
  /\ victim' = [victim EXCEPT !["event"] = loc.reg.id]
  /\ Goto("event", "rm_lock")
  /\ UNCHANGED <<memory, locks, loc, timer, stack, puller>>

InsertEndpointUpdate ==
  /\ pc["event"] = "reg_update"
  /\ endpoints' = [endpoints EXCEPT ![loc.reg.id] = Stored(loc.reg, {})]
  /\ victim' = [victim EXCEPT !["event"] = NULL]
  /\ lockE' = NULL
  /\ Return
  /\ UNCHANGED <<calls, heap, playback, lockC, timer, stack, puller>>

(* Logout: removeEndpoint, a critical section of its own *)
RemoveEndpoint ==
  /\ pc["event"] = "logout_erase" /\ lockE = NULL
  /\ endpoints' = [endpoints EXCEPT ![loc.reg.id] = NULL]
  /\ victim' = [victim EXCEPT !["event"] = NULL]
  /\ Return
  /\ UNCHANGED <<calls, heap, playback, locks, timer, stack, puller>>

-----------------------------------------------------------------------------
(* MESSAGE *)

(* handleKeepaliveMsg; an unknown sender is answered 400 *)
KeepaliveMsg(s) ==
  /\ pc["event"] = "idle" /\ lockE = NULL
  /\ Registered(s)
  /\ endpoints' = [endpoints EXCEPT ![s].keepalive = 0]
  /\ UNCHANGED <<calls, heap, playback, locks, control, timer, stack, puller>>

(* handleCatalogMsg: the devices are added to their platform and a stream
   puller is opened on the fixed port 30000.  Only the first one gets the
   port; it is deleted without being stopped if its INVITE cannot be sent.
   Its call leg has no context: no handler finds it. *)
CatalogMsg(s, D) ==
  /\ pc["event"] = "idle" /\ lockE = NULL
  /\ Registered(s)
  /\ endpoints' = [endpoints EXCEPT ![s].devices = @ \cup D]
  /\ puller' \in IF puller = "none" THEN {"running", "deleted"} ELSE {puller}
  /\ UNCHANGED <<calls, heap, playback, locks, control, timer, stack>>

(* handleRecordInfoMsg: copy the pending playback INVITE and forward it *)
RecordInfoMsg(d) ==
  /\ pc["event"] = "idle"
  /\ playback[d] # NULL
  /\ next <= MaxCid /\ calls # Slot
  /\ loc' = Inviting(playback[d].cid, playback[d].from, d, TRUE)
  /\ Goto("event", "inv_query")
  /\ UNCHANGED <<memory, locks, victim, timer, stack, puller>>

(* Faulty variant: the forwarded INVITE stays pending. *)
RecordInfoKept ==
  /\ pc["event"] = "rec_remove"
  /\ Return
  /\ UNCHANGED <<memory, locks, victim, timer, stack, puller>>

(* removePlaybackCallerInfo *)
RecordInfoRemove ==
  /\ pc["event"] = "rec_remove"
  /\ playback' = [playback EXCEPT ![loc.device] = NULL]
  /\ Return
  /\ UNCHANGED <<endpoints, calls, heap, locks, victim, timer, stack, puller>>

-----------------------------------------------------------------------------
(* INVITE from a caller *)

(* s=Play *)
InviteRealPlay(from, d) ==
  /\ pc["event"] = "idle"
  /\ next < MaxCid /\ calls # Slot
  /\ leg' = Opened("caller", "open", 0) /\ next' = next + 1
  /\ loc' = Inviting(next, from, d, FALSE)
  /\ Goto("event", "inv_query")
  /\ UNCHANGED <<memory, locks, victim, timer, puller>>

(* s=Playback: the INVITE waits for the RecordInfo answer of the platform;
   insertPlaybackCallerInfo keeps the first INVITE for a device only.  Without
   a platform the caller is answered 404. *)
InvitePlayback(from, d) ==
  /\ pc["event"] = "idle" /\ lockE = NULL
  /\ next < MaxCid
  /\ next' = next + 1
  /\ IF PlatformsOf(d) # {}
     THEN /\ leg' = Opened("caller", "open", 0)
          /\ playback' = IF playback[d] # NULL THEN playback
                         ELSE [playback EXCEPT ![d] =
                                 [cid |-> next, from |-> from, age |-> 0]]
     ELSE /\ leg' = Opened("caller", "fail", 0)
          /\ UNCHANGED playback
  /\ UNCHANGED <<endpoints, calls, heap, locks, control, timer, puller>>

(* Any other s=: answered 400 *)
InviteOther ==
  /\ pc["event"] = "idle"
  /\ next < MaxCid
  /\ leg' = Opened("caller", "fail", 0)
  /\ next' = next + 1
  /\ UNCHANGED <<memory, locks, control, timer, puller>>

(* initInviteMsg *)

InviteEnd == IF loc.record THEN Goto("event", "rec_remove") /\ UNCHANGED loc
                           ELSE Return

(* No platform has the device: 404 *)
InviteNotFound ==
  /\ pc["event"] = "inv_query" /\ lockE = NULL
  /\ PlatformsOf(loc.device) = {}
  /\ leg' = AnswerCaller(leg, loc.cid, "fail")
  /\ InviteEnd
  /\ UNCHANGED <<memory, locks, victim, timer, next, puller>>

(* SipUA_InitInviteWidthSdpInfo fails: only logged *)
InviteNotSent ==
  /\ pc["event"] = "inv_query" /\ lockE = NULL
  /\ PlatformsOf(loc.device) # {}
  /\ InviteEnd
  /\ UNCHANGED <<memory, locks, victim, timer, stack, puller>>

(* Faulty variant: m_tLockSipEndpoint is released after the query. *)
InviteSentUnlocked ==
  /\ pc["event"] = "inv_query" /\ lockE = NULL
  /\ \E s \in PlatformsOf(loc.device) : loc' = Calling(s, next)
  /\ leg' = Opened("callee", "open", loc.cid) /\ next' = next + 1
  /\ Goto("event", "inv_new")
  /\ UNCHANGED <<memory, locks, victim, timer, puller>>

InviteSent ==
  /\ pc["event"] = "inv_query" /\ lockE = NULL
  /\ \E s \in PlatformsOf(loc.device) : loc' = Calling(s, next)
  /\ lockE' = "event"
  /\ leg' = Opened("callee", "open", loc.cid) /\ next' = next + 1
  /\ Goto("event", "inv_new")
  /\ UNCHANGED <<memory, lockC, victim, timer, puller>>

(* newCallContext, under m_tLockCallContext *)
NewCallContext ==
  /\ pc["event"] = "inv_new" /\ lockC = NULL
  /\ \E p \in Slot \ calls :
       /\ calls' = calls \cup {p}
       /\ heap' = [heap EXCEPT ![p] = NewContext(loc.cid, loc.calleeCid)]
       /\ loc' = [loc EXCEPT !.ptr = p]
  /\ Goto("event", "inv_fill")
  /\ UNCHANGED <<endpoints, playback, locks, victim, timer, stack, puller>>

(* The SIP ids, written through pCallCtx without m_tLockCallContext *)
FillCallContext ==
  /\ pc["event"] = "inv_fill"
  /\ heap' = [heap EXCEPT ![loc.ptr] = WithIds(@, loc.from, loc.callee)]
  /\ Goto("event", "inv_leg")
  /\ UNCHANGED <<endpoints, calls, playback, locks, victim, loc, timer, stack, puller>>

(* updateCallerCallLeg, and the release of m_tLockSipEndpoint *)
UpdateCallerCallLeg ==
  /\ pc["event"] = "inv_leg" /\ lockC = NULL
  /\ IF ByCaller(loc.cid) = {} THEN UNCHANGED heap
     ELSE \E p \in ByCaller(loc.cid) :
            heap' = [heap EXCEPT ![p].callerTid = loc.cid]
  /\ lockE' = NULL
  /\ InviteEnd
  /\ UNCHANGED <<endpoints, calls, playback, lockC, victim, timer, stack, puller>>

-----------------------------------------------------------------------------
(* The callee's answer *)

(* INVITE answered 200: without a context the answer is dropped *)
CallAnswer200OK(c) ==
  /\ pc["event"] = "idle" /\ lockC = NULL
  /\ leg[c].role = "callee" /\ leg[c].peer \in {"wait", "ring"}
  /\ leg' = [leg EXCEPT ![c].peer = "ok"]
  /\ IF ByCallee(c) = {} THEN UNCHANGED <<pc, loc, lockC>>
     ELSE /\ lockC' = "event"
          /\ Goto("event", "ok_answer")
          /\ \E p \in ByCallee(c) :
               loc' = Holding(c, p)
  /\ UNCHANGED <<memory, lockE, victim, timer, next, puller>>

(* The callee's did is kept only if the caller could be answered. *)
AnswerCaller200OK ==
  /\ pc["event"] = "ok_answer"
  /\ LET tid == heap[loc.ptr].callerTid IN
       /\ leg' = AnswerCaller(leg, tid, "ok")
       /\ heap' = IF Answerable(tid)
                  THEN [heap EXCEPT ![loc.ptr].calleeDid = loc.cid]
                  ELSE heap
  /\ lockC' = NULL
  /\ Return
  /\ UNCHANGED <<endpoints, calls, playback, lockE, victim, timer, next, puller>>

(* Any other final answer: the context is looked up without the lock *)
CallAnswerResponse(c) ==
  /\ pc["event"] = "idle"
  /\ leg[c].role = "callee" /\ leg[c].peer \in {"wait", "ring"}
  /\ leg' = [leg EXCEPT ![c].peer = "refuse"]
  /\ IF ByCallee(c) = {} THEN UNCHANGED <<pc, loc>>
     ELSE /\ Goto("event", "rsp_answer")
          /\ \E p \in ByCallee(c) :
               loc' = Holding(c, p)
  /\ UNCHANGED <<memory, locks, victim, timer, next, puller>>

AnswerCallerFailure ==
  /\ pc["event"] = "rsp_answer"
  /\ leg' = AnswerCaller(leg, heap[loc.ptr].callerTid, "fail")
  /\ Goto("event", "rsp_remove")
  /\ UNCHANGED <<memory, locks, victim, loc, timer, next, puller>>

(* removeCallContext compares addresses *)
RemoveCallContext(l) ==
  /\ pc["event"] = l /\ lockC = NULL
  /\ calls' = calls \ {loc.ptr}
  /\ heap' = [heap EXCEPT ![loc.ptr] = ZeroContext]
  /\ Return
  /\ UNCHANGED <<endpoints, playback, locks, victim, timer, stack, puller>>

-----------------------------------------------------------------------------
(* The caller's ACK: the context is looked up without the lock *)
CallAck(c) ==
  /\ pc["event"] = "idle"
  /\ leg[c].role = "caller" /\ leg[c].mine = "ok" /\ leg[c].peer = "wait"
  /\ leg' = [leg EXCEPT ![c].peer = "ack"]
  /\ IF ByCaller(c) = {} THEN UNCHANGED <<pc, loc>>
     ELSE /\ Goto("event", "ack_send")
          /\ \E p \in ByCaller(c) : loc' = Holding(c, p)
  /\ UNCHANGED <<memory, locks, victim, timer, next, puller>>

SendAck ==
  /\ pc["event"] = "ack_send"
  /\ LET did == heap[loc.ptr].calleeDid IN
       leg' = IF did # 0 /\ ~leg[did].ended /\ leg[did].peer = "ok"
              THEN [leg EXCEPT ![did].mine = "ok"] ELSE leg
  /\ Return
  /\ UNCHANGED <<memory, locks, victim, timer, next, puller>>

-----------------------------------------------------------------------------
(* BYE from either side *)
CallBye(c) ==
  /\ pc["event"] = "idle" /\ lockC = NULL
  /\ \/ leg[c].role = "caller" /\ leg[c].mine = "ok" /\ leg[c].peer \in {"wait", "ack"}
     \/ leg[c].role = "callee" /\ leg[c].peer = "ok"
  /\ leg' = [leg EXCEPT ![c].peer = "bye"]
  /\ IF ByCid(c) = {} THEN UNCHANGED <<pc, loc, lockC>>
     ELSE /\ lockC' = "event"
          /\ Goto("event", "bye_term")
          /\ \E p \in ByCid(c) : loc' = Holding(c, p)
  /\ UNCHANGED <<memory, lockE, victim, timer, next, puller>>

ByeTerminate ==
  /\ pc["event"] = "bye_term"
  /\ leg' = Terminate(leg, heap[loc.ptr])
  /\ lockC' = NULL
  /\ Goto("event", "bye_remove")
  /\ UNCHANGED <<memory, lockE, victim, loc, timer, next, puller>>

(* Events of the stack the event loop has no case for *)
Unhandled(c) ==
  /\ \/ /\ leg[c].role = "caller" /\ leg[c].mine = "open" /\ leg[c].peer = "wait"
        /\ leg' = [leg EXCEPT ![c].peer = "cancel"]
     \/ /\ leg[c].role = "callee" /\ leg[c].peer = "wait"
        /\ leg' = [leg EXCEPT ![c].peer = "ring"]
  /\ UNCHANGED <<memory, locks, control, timer, next, puller>>

-----------------------------------------------------------------------------
(* The monitor timer: monitorSipEndpointTimer, doMonitorSipEndpoint *)

MonitorStart ==
  /\ pc["timer"] = "idle"
  /\ lag' = 0
  /\ Goto("timer", "hb_lock")
  /\ UNCHANGED <<memory, locks, victim, loc, todo, stack, puller>>

HeartbeatLock ==
  /\ pc["timer"] = "hb_lock" /\ lockE = NULL
  /\ lockE' = "timer"
  /\ todo' = {s \in SipId : Registered(s)}
  /\ Goto("timer", "hb_check")
  /\ UNCHANGED <<memory, lockC, victim, loc, lag, stack, puller>>

(* Faulty variant: the operands are swapped. *)
GapSwapped(age) == lag - age

(* The age at the time i64CurTime was read; negative if it was set later. *)
Gap(age) == age - lag

Expired(e) == \/ Gap(e.keepalive) >= MonitorKeepalive
              \/ Gap(e.register) >= e.expires

HeartbeatKeep(s) ==
  /\ pc["timer"] = "hb_check" /\ s \in todo
  /\ ~Expired(endpoints[s])
  /\ todo' = todo \ {s}
  /\ UNCHANGED <<memory, locks, control, lag, stack, puller>>

HeartbeatLost(s) ==
  /\ pc["timer"] = "hb_check" /\ s \in todo
  /\ Expired(endpoints[s])
  /\ victim' = [victim EXCEPT !["timer"] = s]
  /\ Goto("timer", "rm_lock")
  /\ UNCHANGED <<memory, locks, loc, timer, stack, puller>>

HeartbeatErase ==
  /\ pc["timer"] = "hb_erase"
  /\ endpoints' = [endpoints EXCEPT ![victim["timer"]] = NULL]
  /\ todo' = todo \ {victim["timer"]}
  /\ victim' = [victim EXCEPT !["timer"] = NULL]
  /\ Goto("timer", "hb_check")
  /\ UNCHANGED <<calls, heap, playback, locks, loc, lag, stack, puller>>

HeartbeatUnlock ==
  /\ pc["timer"] = "hb_check" /\ todo = {}
  /\ lockE' = NULL
  /\ Goto("timer", "pb_check")
  /\ UNCHANGED <<memory, lockC, victim, loc, timer, stack, puller>>

(* checkPlaybackCallerInfo: the caller of a dropped INVITE is not answered *)
CheckPlaybackCallerInfo ==
  /\ pc["timer"] = "pb_check"
  /\ playback' = [d \in Device |->
       IF playback[d] # NULL /\ Gap(playback[d].age) >= PlaybackTimeout
       THEN NULL ELSE playback[d]]
  /\ Goto("timer", "idle")
  /\ lag' = 0
  /\ UNCHANGED <<endpoints, calls, heap, locks, victim, loc, todo, stack, puller>>

(* A monitor period passes. *)
Older(age) == IF age < AgeCap THEN age + 1 ELSE age

Tick ==
  /\ \/ pc["timer"] = "idle" /\ UNCHANGED lag
     \/ pc["timer"] # "idle" /\ lag < MaxLag /\ lag' = lag + 1
  /\ endpoints' = [s \in SipId |->
       IF endpoints[s] = NULL THEN NULL
       ELSE [endpoints[s] EXCEPT !.keepalive = Older(@), !.register = Older(@)]]
  /\ playback' = [d \in Device |->
       IF playback[d] = NULL THEN NULL ELSE [playback[d] EXCEPT !.age = Older(@)]]
  /\ UNCHANGED <<calls, heap, locks, control, todo, stack, puller>>

-----------------------------------------------------------------------------
(* What the event thread may pick up when it is idle *)
Dispatch ==
  \/ \E r \in Registration : RegisterNew(r)
  \/ \E s \in SipId : KeepaliveMsg(s) \/ \E D \in SUBSET Device : CatalogMsg(s, D)
  \/ \E d \in Device : RecordInfoMsg(d)
  \/ \E s \in SipId, d \in Device : InviteRealPlay(s, d) \/ InvitePlayback(s, d)
  \/ InviteOther
  \/ \E c \in Cid : \/ CallAnswer200OK(c) \/ CallAnswerResponse(c)
                    \/ CallAck(c) \/ CallBye(c)

(* The rest of the handlers *)
Handle ==
  \/ RegisterLock \/ InsertEndpoint \/ InsertEndpointRestarted
  \/ InsertEndpointUpdate \/ RemoveEndpoint
  \/ InviteNotFound \/ InviteNotSent \/ InviteSent
  \/ NewCallContext \/ FillCallContext \/ UpdateCallerCallLeg
  \/ RecordInfoRemove
  \/ AnswerCaller200OK \/ AnswerCallerFailure \/ SendAck \/ ByeTerminate
  \/ RemoveCallContext("rsp_remove") \/ RemoveCallContext("bye_remove")
  \/ RemoveCallContextBySipId("event")

Monitor ==
  \/ MonitorStart \/ HeartbeatLock
  \/ \E s \in SipId : HeartbeatKeep(s) \/ HeartbeatLost(s)
  \/ HeartbeatErase \/ HeartbeatUnlock \/ CheckPlaybackCallerInfo
  \/ RemoveCallContextBySipId("timer")

Next == \/ Dispatch \/ Handle \/ Monitor \/ Tick
        \/ \E c \in Cid : Unhandled(c)

Spec == Init /\ [][Next]_vars

(***************************************************************************)
(* Fairness.  Both threads run until the process exits and time passes.    *)
(* A thread that waits for a mutex gets it if it becomes free again and    *)
(* again: no holder waits for the network and glibc wakes a waiter on      *)
(* every unlock.  What the peers send is not fair.                         *)
(***************************************************************************)
FairSpec == Spec /\ SF_vars(Handle) /\ SF_vars(Monitor) /\ WF_vars(Tick)

-----------------------------------------------------------------------------
(* Every variable stays in the values the code can give it. *)
TypeOK ==
  /\ endpoints \in [SipId -> Endpoint \cup {NULL}]
  /\ calls \in SUBSET Slot
  /\ heap \in [Slot -> Context]
  /\ playback \in [Device -> PlaybackInfo \cup {NULL}]
  /\ lockE \in Thread \cup {NULL} /\ lockC \in Thread \cup {NULL}
  /\ pc \in [Thread -> Label]
  /\ victim \in [Thread -> SipId \cup {NULL}]
  /\ loc \in Locals
  /\ todo \in SUBSET SipId /\ lag \in 0 .. MaxLag
  /\ leg \in [Cid -> Leg] /\ next \in 1 .. MaxCid + 1
  /\ puller \in {"none", "running", "deleted"}

(* A context pointer that a handler uses while it holds one of the mutexes is
   not dangling: initInviteMsg (lines 1464-1480) fills a fresh context without
   m_tLockCallContext, and only m_tLockSipEndpoint keeps the timer, which frees
   contexts under the other mutex, away from it. *)
LockedUseIsSafe ==
  pc["event"] \in {"inv_fill", "inv_leg", "ok_answer", "bye_term"} => loc.ptr \in calls

(* Every context in the list has a registered callee: the code drops the calls
   of an endpoint before it drops the endpoint, in every path that drops one. *)
CalleeIsRegistered ==
  \A p \in calls : heap[p].calleeId # NULL => Registered(heap[p].calleeId)

(* A caller's INVITE is forwarded once: no two contexts share a caller leg,
   and no callee leg serves two contexts, so that the list lookups, which take
   the first match, cannot pick the wrong call. *)
OneContextPerLeg ==
  \A p, q \in calls : p # q =>
    {heap[p].callerCid, heap[p].calleeCid} \cap {heap[q].callerCid, heap[q].calleeCid} = {}

(* A caller that was answered 200 still has a callee behind it: there is a
   context that knows the callee's dialog, or the caller's leg was hung up.
   This is what lets the ACK and the BYE of the caller reach the callee. *)
AnsweredCallerIsBridged ==
  \A c \in Cid :
    leg[c].role = "caller" /\ leg[c].mine = "ok" /\ ~leg[c].ended /\ leg[c].peer # "bye"
      => \E p \in calls : heap[p].callerCid = c /\ heap[p].calleeDid # 0

(* No leg of a bridged call is left up alone: once the caller of an answered
   call is hung up by the server, so is the callee. *)
BridgedLegsEndTogether ==
  \A c \in Cid :
    leg[c].role = "callee" /\ leg[c].peer = "ok" /\ leg[c].mine = "ok" /\ ~leg[c].ended
      => \E p \in calls : heap[p].calleeCid = c

(* An endpoint that leaves, or restarts with another Call-ID, takes every call
   it is a party of with it (CallManager.h:120). *)
LeavesWithItsCalls ==
  [][\A s \in SipId :
       Registered(s) /\ (endpoints'[s] = NULL \/ endpoints'[s].callid # endpoints[s].callid)
         => \A p \in calls' : s \notin {heap'[p].callerId, heap'[p].calleeId}]_vars

(* The timer drops an endpoint only if it is overdue when it is dropped, and a
   pending playback INVITE only after its time, however long the timer waited
   for its locks since it read the clock. *)
TimerDropsOverdueOnly ==
  [][/\ \A s \in SipId :
          pc["timer"] = "hb_erase" /\ Registered(s) /\ endpoints'[s] = NULL
            => \/ endpoints[s].keepalive >= MonitorKeepalive
               \/ endpoints[s].register >= endpoints[s].expires
     /\ \A d \in Device :
          pc["timer"] = "pb_check" /\ playback[d] # NULL /\ playback'[d] = NULL
          /\ pc'["timer"] = "idle"
            => playback[d].age >= PlaybackTimeout]_vars

(***************************************************************************)
(* The abstract specification: an endpoint's registration is the Call-ID   *)
(* stored for it, and a context is a call from the moment it is filled in. *)
(***************************************************************************)
Filled == {p \in calls : heap[p].calleeId # NULL}

CallOf(p) == [callerCid |-> heap[p].callerCid, callerId |-> heap[p].callerId,
              calleeCid |-> heap[p].calleeCid, calleeId |-> heap[p].calleeId]

Registry == INSTANCE CallRegistry WITH
  registered <- [s \in SipId |-> IF endpoints[s] = NULL THEN NULL ELSE endpoints[s].callid],
  bridged <- {CallOf(p) : p \in Filled}

(* The two threads together behave like the registry of CallRegistry: the
   piecemeal removal of an endpoint's calls and of the endpoint, under two
   mutexes that the other thread may take in between, never shows. *)
ImplementsCallRegistry == Registry!Spec

(* Every SIP event is handled to the end, and every monitor run: no thread is
   stuck on a mutex for ever. *)
HandlersFinish == pc["event"] # "idle" ~> pc["event"] = "idle"
MonitorFinishes == pc["timer"] # "idle" ~> pc["timer"] = "idle"

(* An endpoint is heard of again and again, or it is dropped. *)
SilentIsDropped ==
  \A s \in SipId : []<>(~Registered(s) \/ endpoints[s].keepalive = 0)

(* A pending playback INVITE does not stay for ever. *)
PlaybackIsResolved ==
  \A d \in Device : playback[d] # NULL ~> playback[d] = NULL

(* A context that a handler uses is never one the timer has freed. *)
NoUseAfterFree ==
  pc["event"] \in {"rsp_answer", "ack_send"} => loc.ptr \in calls

(* A callee leg whose call was released does not stay up: when the server is at
   rest, an answered callee has a context or has been hung up. *)
ReleasedCalleeIsHungUp ==
  pc["event"] = "idle" /\ pc["timer"] = "idle" =>
    \A c \in Cid :
      leg[c].role = "callee" /\ leg[c].peer = "ok" /\ ~leg[c].ended => ByCallee(c) # {}
=============================================================================
