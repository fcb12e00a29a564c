--------------------------- MODULE SipServerProofs ---------------------------
(***************************************************************************)
(* Theorems about SipServer, for every value of its constants: what its    *)
(* variables hold, which thread holds which mutex, what the pointers and   *)
(* the arguments of the handlers refer to, and what follows for the calls  *)
(* and the endpoints.                                                      *)
(***************************************************************************)
EXTENDS SipServer, TLAPS

USE ConstantsAssumption

EventLabel == {"idle", "rm_lock", "rm_loop",
               "reg_lock", "reg_insert", "reg_update", "logout_erase",
               "inv_query", "inv_new", "inv_fill", "inv_leg", "rec_remove",
               "ok_answer", "rsp_answer", "rsp_remove", "ack_send",
               "bye_term", "bye_remove"}

TimerLabel == {"idle", "rm_lock", "rm_loop", "hb_lock", "hb_check", "hb_erase", "pb_check"}

InRegister == {"reg_lock", "reg_insert", "reg_update", "logout_erase", "rm_lock", "rm_loop"}

(* What TypeOK needs of the handlers' locals to be inductive. *)
LocalsOK ==
  /\ pc["event"] \in EventLabel /\ pc["timer"] \in TimerLabel
  /\ pc["event"] \in InRegister => loc.reg \in Registration
  /\ pc["event"] = "inv_query" => next \in Cid

TypeInv == TypeOK /\ LocalsOK

(* The server starts with empty tables and free mutexes, which are well typed. *)
LEMMA InitType == Init => TypeInv
  BY DEF Init, TypeInv, TypeOK, LocalsOK, NoLocals, Locals, NoLeg, NewLeg, Leg, ZeroContext,
         Context, Cid, Cid0, Thread, Label, EventLabel, TimerLabel, InRegister

(* The wrappers of the SIP stack keep the table of legs well formed. *)
LEMMA TerminateCallerType ==
  ASSUME NEW l \in [Cid -> Leg], NEW c
  PROVE  TerminateCaller(l, c) \in [Cid -> Leg]
<1>1. CASE c \in Cid
  <2>1. [l[c] EXCEPT !.mine = "fail"] \in Leg /\ [l[c] EXCEPT !.ended = TRUE] \in Leg
    BY <1>1 DEF Leg
  <2> QED BY <1>1, <2>1 DEF TerminateCaller
<1>2. CASE c \notin Cid
  BY <1>2 DEF TerminateCaller
<1> QED BY <1>1, <1>2

(* Hanging up a callee leg leaves a well-formed leg. *)
LEMMA TerminateCalleeType ==
  ASSUME NEW l \in [Cid -> Leg], NEW c, NEW did
  PROVE  TerminateCallee(l, c, did) \in [Cid -> Leg]
<1>1. CASE c \in Cid
  <2>1. [l[c] EXCEPT !.mine = "fail"] \in Leg /\ [l[c] EXCEPT !.ended = TRUE] \in Leg
    BY <1>1 DEF Leg
  <2> QED BY <1>1, <2>1 DEF TerminateCallee
<1>2. CASE c \notin Cid
  BY <1>2 DEF TerminateCallee
<1> QED BY <1>1, <1>2

(* So does hanging up both legs of a context. *)
LEMMA TerminateType ==
  ASSUME NEW l \in [Cid -> Leg], NEW x
  PROVE  Terminate(l, x) \in [Cid -> Leg]
BY TerminateCallerType, TerminateCalleeType DEF Terminate

(* So does answering the caller. *)
LEMMA AnswerCallerType ==
  ASSUME TypeOK, NEW c, NEW answer \in {"ok", "fail"}
  PROVE  AnswerCaller(leg, c, answer) \in [Cid -> Leg]
<1>1. CASE Answerable(c)
  <2>1. c \in Cid /\ [leg[c] EXCEPT !.mine = answer] \in Leg
    BY <1>1 DEF Answerable, TypeOK, Leg
  <2> QED BY <1>1, <2>1 DEF AnswerCaller, TypeOK
<1>2. CASE ~Answerable(c)
  BY <1>2 DEF AnswerCaller, TypeOK
<1> QED BY <1>1, <1>2

(* The locals of an idle event thread *)
LEMMA NoLocalsType == NoLocals \in Locals
BY DEF NoLocals, Locals, Cid0

(* A memset block is a context. *)
LEMMA ZeroContextType == ZeroContext \in Context
BY DEF ZeroContext, Context, Cid0

(* The locals of the handlers *)
LEMMA RegisteringType ==
  ASSUME NEW r \in Registration
  PROVE  [NoLocals EXCEPT !.reg = r] \in Locals /\ [NoLocals EXCEPT !.reg = r].reg = r
BY NoLocalsType DEF Locals

(* The locals of a handler that forwards an INVITE *)
LEMMA InvitingType ==
  ASSUME NEW c \in Cid0, NEW s \in SipId, NEW d \in Device
  PROVE
         /\ Inviting(c, s, d, TRUE) \in Locals
         /\ Inviting(c, s, d, TRUE).cid = c /\ Inviting(c, s, d, TRUE).from = s
         /\ Inviting(c, s, d, TRUE).device = d /\ Inviting(c, s, d, TRUE).record = TRUE
         /\ Inviting(c, s, d, FALSE) \in Locals
         /\ Inviting(c, s, d, FALSE).cid = c /\ Inviting(c, s, d, FALSE).from = s
         /\ Inviting(c, s, d, FALSE).device = d /\ Inviting(c, s, d, FALSE).record = FALSE
<1> DEFINE With(x, b) == [x EXCEPT !.cid = c, !.from = s, !.device = d, !.record = b]
<1>1. \A x \in Locals : /\ With(x, TRUE) \in Locals /\ With(x, TRUE).cid = c
                        /\ With(x, TRUE).from = s /\ With(x, TRUE).device = d
                        /\ With(x, TRUE).record = TRUE
  BY DEF Locals
<1>2. \A x \in Locals : /\ With(x, FALSE) \in Locals /\ With(x, FALSE).cid = c
                        /\ With(x, FALSE).from = s /\ With(x, FALSE).device = d
                        /\ With(x, FALSE).record = FALSE
  BY DEF Locals
<1> QED BY <1>1, <1>2, NoLocalsType DEF Inviting

(* The locals once it has called the platform it found *)
LEMMA CallingType ==
  ASSUME TypeOK, NEW s \in SipId, NEW c \in Cid0
  PROVE  /\ Calling(s, c) \in Locals
         /\ Calling(s, c).callee = s /\ Calling(s, c).calleeCid = c
         /\ Calling(s, c).cid = loc.cid /\ Calling(s, c).from = loc.from
         /\ Calling(s, c).device = loc.device /\ Calling(s, c).record = loc.record
<1>1. loc \in Locals
  BY DEF TypeOK
<1> QED BY <1>1 DEF Calling, Locals

(* The locals of a handler that has looked a context up *)
LEMMA HoldingType ==
  ASSUME NEW c \in Cid0, NEW p \in Slot
  PROVE  Holding(c, p) \in Locals /\ Holding(c, p).cid = c /\ Holding(c, p).ptr = p
BY NoLocalsType DEF Holding, Locals

(* A leg the stack opens is well formed. *)
LEMMA OpenedType ==
  ASSUME TypeOK, NEW role \in {"caller", "callee"}, NEW mine \in {"open", "fail"},
         NEW origin \in Cid0
  PROVE  Opened(role, mine, origin) \in [Cid -> Leg]
BY DEF Opened, TypeOK, NewLeg, Leg

(* removeCallContextBySipId *)
LEMMA RmType ==
  ASSUME TypeInv, NEW t \in Thread, RemoveCallContextBySipId(t)
  PROVE  TypeInv'
<1> USE DEF TypeInv, TypeOK, LocalsOK, memory, locks, control, timer, stack, Goto
<1>1. CASE RmLock(t)
  BY <1>1 DEF RmLock, Thread, Label, EventLabel, TimerLabel, InRegister
<1>2. CASE RmOne(t)
  <2>1. leg' \in [Cid -> Leg]
    BY <1>2, TerminateType DEF RmOne
  <2>2. heap' \in [Slot -> Context] /\ calls' \in SUBSET Slot
    BY <1>2, ZeroContextType DEF RmOne, BySipId
  <2>3. UNCHANGED <<endpoints, playback, lockE, lockC, pc, victim, loc, todo, lag, next, puller>>
    BY <1>2 DEF RmOne
  <2> QED BY <2>1, <2>2, <2>3
<1>3. CASE RmDone(t)
  BY <1>3 DEF RmDone, AfterRemoval, Thread, Label, EventLabel, TimerLabel, InRegister
<1> QED BY <1>1, <1>2, <1>3 DEF RemoveCallContextBySipId

(* REGISTER: storing, refreshing, restarting and logging out keep the types. *)
LEMMA RegType == ASSUME TypeInv,
   RegisterLock \/ InsertEndpoint \/ InsertEndpointRestarted \/ InsertEndpointUpdate \/ RemoveEndpoint
   PROVE TypeInv'
<1> USE DEF TypeInv, TypeOK, LocalsOK, memory, locks, control, timer, stack, Goto, Return
<1>1. CASE RegisterLock
  BY <1>1 DEF RegisterLock, Thread, Label, EventLabel, TimerLabel, InRegister
<1>2. CASE InsertEndpoint
  BY <1>2 DEF InsertEndpoint, Stored, Registration, Endpoint, NoLocals, Locals, Cid0, Thread, Label, EventLabel, TimerLabel, InRegister
<1>3. CASE InsertEndpointRestarted
  BY <1>3 DEF InsertEndpointRestarted, Registration, Thread, Label, EventLabel, TimerLabel, InRegister
<1>4. CASE InsertEndpointUpdate
  BY <1>4 DEF InsertEndpointUpdate, Stored, Registration, Endpoint, NoLocals, Locals, Cid0, Thread, Label, EventLabel, TimerLabel, InRegister
<1>5. CASE RemoveEndpoint
  BY <1>5 DEF RemoveEndpoint, Registration, Registered, NoLocals, Locals, Cid0, Thread, Label, EventLabel, TimerLabel, InRegister
<1>6. QED BY <1>1, <1>2, <1>3, <1>4, <1>5
(* What the event thread picks up *)
LEMMA DispatchType == ASSUME TypeInv, Dispatch PROVE TypeInv'
<1> USE NoLocalsType, ZeroContextType
<1> USE DEF TypeInv, TypeOK, LocalsOK, memory, locks, control, timer, stack, Goto, Thread, Label, EventLabel, TimerLabel, InRegister
<1>1. ASSUME NEW r \in Registration, RegisterNew(r) PROVE TypeInv'
  <2>1. r.id \in SipId
    BY DEF Registration
  <2> QED BY <1>1, <2>1, RegisteringType DEF RegisterNew
<1>2. ASSUME NEW s \in SipId, KeepaliveMsg(s) PROVE TypeInv'
  BY <1>2 DEF KeepaliveMsg, Registered, Endpoint
<1>3. ASSUME NEW s \in SipId, NEW D \in SUBSET Device, CatalogMsg(s, D) PROVE TypeInv'
  BY <1>3 DEF CatalogMsg, Registered, Endpoint
<1>4. ASSUME NEW d \in Device, RecordInfoMsg(d) PROVE TypeInv'
  <2>1. playback[d].cid \in Cid0 /\ playback[d].from \in SipId
    BY <1>4 DEF RecordInfoMsg, PlaybackInfo, Cid0, Cid
  <2>2. loc' \in Locals
    <3>1. Inviting(playback[d].cid, playback[d].from, d, TRUE) \in Locals
      BY <2>1, InvitingType
    <3> QED BY <1>4, <3>1 DEF RecordInfoMsg
  <2>3. next \in Cid
    BY <1>4 DEF RecordInfoMsg, Cid
  <2>4. /\ pc' = [pc EXCEPT !["event"] = "inv_query"]
        /\ UNCHANGED <<endpoints, calls, heap, playback, lockE, lockC, victim, todo, lag, leg, next, puller>>
    BY <1>4 DEF RecordInfoMsg
  <2> QED BY <2>2, <2>3, <2>4
<1>5. ASSUME NEW s \in SipId, NEW d \in Device, InviteRealPlay(s, d) PROVE TypeInv'
  <2>1. Opened("caller", "open", 0) \in [Cid -> Leg]
    BY OpenedType DEF Cid0
  <2>2. next \in Cid /\ next \in Cid0 /\ next + 1 \in Cid /\ next + 1 \in 1 .. MaxCid + 1
    BY <1>5 DEF InviteRealPlay, Cid, Cid0
  <2>3. loc' \in Locals
    BY <1>5, <2>2, InvitingType DEF InviteRealPlay
  <2> QED BY <1>5, <2>1, <2>2, <2>3 DEF InviteRealPlay
<1>6. ASSUME NEW s \in SipId, NEW d \in Device, InvitePlayback(s, d) PROVE TypeInv'
  <2>1. Opened("caller", "open", 0) \in [Cid -> Leg]
    BY OpenedType DEF Cid0
  <2>2. Opened("caller", "fail", 0) \in [Cid -> Leg]
    BY OpenedType DEF Cid0
  <2>3. next \in Cid /\ next + 1 \in 1 .. MaxCid + 1
    BY <1>6 DEF InvitePlayback, Cid
  <2>4. [cid |-> next, from |-> s, age |-> 0] \in PlaybackInfo
    BY <2>3 DEF PlaybackInfo
  <2> QED BY <1>6, <2>1, <2>2, <2>3, <2>4 DEF InvitePlayback
<1>7. CASE InviteOther
  <2>1. Opened("caller", "fail", 0) \in [Cid -> Leg]
    BY OpenedType DEF Cid0
  <2>2. next + 1 \in 1 .. MaxCid + 1
    BY <1>7 DEF InviteOther
  <2> QED BY <1>7, <2>1, <2>2 DEF InviteOther
<1>8. ASSUME NEW c \in Cid, CallAnswer200OK(c) \/ CallAnswerResponse(c) \/ CallAck(c) \/ CallBye(c)
      PROVE  TypeInv'
  <2>1. leg' \in [Cid -> Leg]
    <3>1. /\ [leg[c] EXCEPT !.peer = "ok"] \in Leg /\ [leg[c] EXCEPT !.peer = "refuse"] \in Leg
          /\ [leg[c] EXCEPT !.peer = "ack"] \in Leg /\ [leg[c] EXCEPT !.peer = "bye"] \in Leg
      BY DEF Leg
    <3> QED BY <1>8, <3>1 DEF CallAnswer200OK, CallAnswerResponse, CallAck, CallBye
  <2>2. loc' \in Locals
    <3>1. c \in Cid0 /\ ByCallee(c) \subseteq Slot /\ ByCaller(c) \subseteq Slot /\ ByCid(c) \subseteq Slot
      BY DEF Cid, Cid0, ByCallee, ByCaller, ByCid
    <3>3. CASE CallAnswer200OK(c)
      BY <3>1, HoldingType, <3>3 DEF CallAnswer200OK
    <3>4. CASE CallAnswerResponse(c)
      BY <3>1, HoldingType, <3>4 DEF CallAnswerResponse
    <3>5. CASE CallAck(c)
      BY <3>1, HoldingType, <3>5 DEF CallAck
    <3>6. CASE CallBye(c)
      BY <3>1, HoldingType, <3>6 DEF CallBye
    <3> QED BY <1>8, <3>3, <3>4, <3>5, <3>6
  <2>3. lockC' \in Thread \cup {NULL}
    BY <1>8 DEF CallAnswer200OK, CallAnswerResponse, CallAck, CallBye
  <2>4. /\ pc' \in [Thread -> Label]
        /\ pc'["event"] \in {"idle", "ok_answer", "rsp_answer", "ack_send", "bye_term"}
        /\ pc'["timer"] = pc["timer"]
    <3>1. CASE UNCHANGED pc
      BY <1>8, <3>1 DEF CallAnswer200OK, CallAnswerResponse, CallAck, CallBye
    <3>2. CASE \E l \in {"ok_answer", "rsp_answer", "ack_send", "bye_term"} :
                 pc' = [pc EXCEPT !["event"] = l]
      BY <3>2
    <3> QED BY <1>8, <3>1, <3>2 DEF CallAnswer200OK, CallAnswerResponse, CallAck, CallBye
  <2>5. UNCHANGED <<endpoints, calls, heap, playback, lockE, victim, todo, lag, next, puller>>
    BY <1>8 DEF CallAnswer200OK, CallAnswerResponse, CallAck, CallBye
  <2> QED BY <2>1, <2>2, <2>3, <2>4, <2>5
<1> QED BY <1>1, <1>2, <1>3, <1>4, <1>5, <1>6, <1>7, <1>8 DEF Dispatch

(* What is written into a context *)
LEMMA NewContextType ==
  ASSUME NEW c \in Cid0, NEW d \in Cid0
  PROVE  /\ NewContext(c, d) \in Context
         /\ NewContext(c, d).callerCid = c /\ NewContext(c, d).calleeCid = d
         /\ NewContext(c, d).callerId = NULL /\ NewContext(c, d).calleeId = NULL
<1>1. \A x \in Context : LET y == [x EXCEPT !.callerCid = c, !.calleeCid = d] IN
        /\ y \in Context /\ y.callerCid = c /\ y.calleeCid = d
        /\ y.callerId = x.callerId /\ y.calleeId = x.calleeId
  BY DEF Context
<1>2. ZeroContext.callerId = NULL /\ ZeroContext.calleeId = NULL
  BY DEF ZeroContext
<1> QED BY <1>1, <1>2, ZeroContextType DEF NewContext

(* initInviteMsg: the ids of both parties are written. *)
LEMMA WithIdsType ==
  ASSUME NEW x \in Context, NEW s \in SipId \cup {NULL}, NEW r \in SipId \cup {NULL}
  PROVE  /\ WithIds(x, s, r) \in Context
         /\ WithIds(x, s, r).callerId = s /\ WithIds(x, s, r).calleeId = r
         /\ WithIds(x, s, r).callerCid = x.callerCid /\ WithIds(x, s, r).calleeCid = x.calleeCid
BY DEF WithIds, Context

(* The did and tid that answers bring are written into a context. *)
LEMMA LegIdsType ==
  ASSUME NEW x \in Context, NEW c \in Cid0
  PROVE  [x EXCEPT !.calleeDid = c] \in Context /\ [x EXCEPT !.callerTid = c] \in Context
BY DEF Context

(* The rest of the handlers of calls *)
LEMMA HandleType == ASSUME TypeInv, Handle PROVE TypeInv'
<1> USE NoLocalsType, ZeroContextType
<1> USE DEF TypeInv, TypeOK, LocalsOK, memory, locks, control, timer, stack, Goto, Return, Thread, Label, EventLabel, TimerLabel, InRegister
<1>1. CASE RegisterLock \/ InsertEndpoint \/ InsertEndpointRestarted
           \/ InsertEndpointUpdate \/ RemoveEndpoint
  BY <1>1, RegType
<1>2. CASE RemoveCallContextBySipId("event")
  BY <1>2, RmType
<1>3. ASSUME NEW l \in {"rsp_remove", "bye_remove"}, RemoveCallContext(l) PROVE TypeInv'
  BY <1>3 DEF RemoveCallContext
<1>4. CASE InviteNotFound
  <2>1. AnswerCaller(leg, loc.cid, "fail") \in [Cid -> Leg]
    BY AnswerCallerType
  <2> QED BY <1>4, <2>1 DEF InviteNotFound, InviteEnd
<1>5. CASE InviteNotSent
  BY <1>5 DEF InviteNotSent, InviteEnd
<1>6. CASE InviteSent
  <2>1. Opened("callee", "open", loc.cid) \in [Cid -> Leg]
    BY OpenedType DEF Locals
  <2>2. next \in Cid /\ next \in Cid0 /\ next + 1 \in 1 .. MaxCid + 1
    BY <1>6 DEF InviteSent, Cid, Cid0
  <2>3. loc' \in Locals
    BY <1>6, <2>2, CallingType DEF InviteSent, PlatformsOf
  <2> QED BY <1>6, <2>1, <2>2, <2>3 DEF InviteSent
<1>7. CASE NewCallContext
  <2>1. NewContext(loc.cid, loc.calleeCid) \in Context
    BY NewContextType DEF Locals
  <2>2. \A q \in Slot : [loc EXCEPT !.ptr = q] \in Locals
    BY DEF Locals
  <2> QED BY <1>7, <2>1, <2>2 DEF NewCallContext
<1>8. CASE FillCallContext
  <2>1. \A q \in Slot : WithIds(heap[q], loc.from, loc.callee) \in Context
    <3>1. loc.from \in SipId \cup {NULL} /\ loc.callee \in SipId \cup {NULL}
      BY DEF Locals
    <3>2. \A q \in Slot : heap[q] \in Context
      OBVIOUS
    <3> HIDE DEF TypeInv, TypeOK, LocalsOK
    <3> QED BY <3>1, <3>2, WithIdsType
  <2>2. heap' \in [Slot -> Context]
    BY <1>8, <2>1 DEF FillCallContext
  <2> QED BY <1>8, <2>2 DEF FillCallContext
<1>9. CASE UpdateCallerCallLeg
  <2>1. \A q \in Slot : [heap[q] EXCEPT !.callerTid = loc.cid] \in Context
    BY LegIdsType DEF Locals
  <2>2. heap' \in [Slot -> Context]
    BY <1>9, <2>1 DEF UpdateCallerCallLeg, ByCaller
  <2>3. lockE' = NULL /\ UNCHANGED <<endpoints, calls, playback, lockC, victim, todo, lag, leg, next, puller>>
    BY <1>9 DEF UpdateCallerCallLeg
  <2>4. loc' \in Locals /\ \E l \in {"idle", "rec_remove"} : pc' = [pc EXCEPT !["event"] = l]
    BY <1>9 DEF UpdateCallerCallLeg, InviteEnd
  <2> QED BY <2>2, <2>3, <2>4
<1>10. CASE RecordInfoRemove
  BY <1>10 DEF RecordInfoRemove
<1>11. CASE AnswerCaller200OK
  <2>1. AnswerCaller(leg, heap[loc.ptr].callerTid, "ok") \in [Cid -> Leg]
    BY AnswerCallerType
  <2>2. \A q \in Slot : [heap[q] EXCEPT !.calleeDid = loc.cid] \in Context
    BY LegIdsType DEF Locals
  <2>3. heap' \in [Slot -> Context]
    BY <1>11, <2>2 DEF AnswerCaller200OK
  <2> QED BY <1>11, <2>1, <2>3 DEF AnswerCaller200OK
<1>12. CASE AnswerCallerFailure
  <2>1. AnswerCaller(leg, heap[loc.ptr].callerTid, "fail") \in [Cid -> Leg]
    BY AnswerCallerType
  <2> QED BY <1>12, <2>1 DEF AnswerCallerFailure
<1>13. CASE SendAck
  <2>1. \A c \in Cid : [leg[c] EXCEPT !.mine = "ok"] \in Leg
    BY DEF Leg
  <2>2. leg' \in [Cid -> Leg]
    BY <1>13, <2>1 DEF SendAck
  <2> QED BY <1>13, <2>2 DEF SendAck
<1>14. CASE ByeTerminate
  <2>1. leg' \in [Cid -> Leg]
    BY <1>14, TerminateType DEF ByeTerminate
  <2> QED BY <1>14, <2>1 DEF ByeTerminate
<1> QED
  BY <1>1, <1>2, <1>3, <1>4, <1>5, <1>6, <1>7, <1>8, <1>9, <1>10, <1>11, <1>12, <1>13, <1>14
  DEF Handle

(* The monitor timer, a passing period and the events without a handler *)
LEMMA MonitorType == ASSUME TypeInv, Monitor PROVE TypeInv'
<1> USE DEF TypeInv, TypeOK, LocalsOK, memory, locks, control, timer, stack, Goto, Thread, Label, EventLabel, TimerLabel, InRegister
<1>1. CASE MonitorStart
  BY <1>1 DEF MonitorStart
<1>2. CASE HeartbeatLock
  BY <1>2 DEF HeartbeatLock
<1>3. ASSUME NEW s \in SipId, HeartbeatKeep(s) \/ HeartbeatLost(s) PROVE TypeInv'
  BY <1>3 DEF HeartbeatKeep, HeartbeatLost
<1>4. CASE HeartbeatErase
  BY <1>4 DEF HeartbeatErase
<1>5. CASE HeartbeatUnlock
  BY <1>5 DEF HeartbeatUnlock
<1>6. CASE CheckPlaybackCallerInfo
  <2>1. playback' \in [Device -> PlaybackInfo \cup {NULL}]
    BY <1>6 DEF CheckPlaybackCallerInfo
  <2> QED BY <1>6, <2>1 DEF CheckPlaybackCallerInfo
<1>7. CASE RemoveCallContextBySipId("timer")
  BY <1>7, RmType
<1> QED BY <1>1, <1>2, <1>3, <1>4, <1>5, <1>6, <1>7 DEF Monitor

(* Ages stay below the cap. *)
LEMMA OlderType == ASSUME NEW age \in 0 .. AgeCap PROVE Older(age) \in 0 .. AgeCap
BY DEF Older

(* A passing period changes an endpoint's ages only. *)
LEMMA OlderEndpoint ==
  ASSUME NEW e \in Endpoint
  PROVE  /\ [e EXCEPT !.keepalive = Older(@), !.register = Older(@)] \in Endpoint
         /\ [e EXCEPT !.keepalive = Older(@), !.register = Older(@)].callid = e.callid
<1>1. e.keepalive \in 0 .. AgeCap /\ e.register \in 0 .. AgeCap
  BY DEF Endpoint
<1>2. \A a, b \in 0 .. AgeCap :
        /\ [e EXCEPT !.keepalive = a, !.register = b] \in Endpoint
        /\ [e EXCEPT !.keepalive = a, !.register = b].callid = e.callid
  BY DEF Endpoint
<1>3. Older(e.keepalive) \in 0 .. AgeCap /\ Older(e.register) \in 0 .. AgeCap
  BY <1>1, OlderType
<1> QED BY <1>2, <1>3

(* A passing period keeps the types. *)
LEMMA TickType == ASSUME TypeInv, Tick PROVE TypeInv'
<1> USE DEF TypeInv, TypeOK, LocalsOK, memory, locks, control, timer, stack
<1>1. endpoints' \in [SipId -> Endpoint \cup {NULL}]
  <2>1. \A s \in SipId : endpoints[s] # NULL =>
          [endpoints[s] EXCEPT !.keepalive = Older(@), !.register = Older(@)] \in Endpoint
    <3>1. \A s \in SipId : endpoints[s] # NULL => endpoints[s] \in Endpoint
      OBVIOUS
    <3> HIDE DEF TypeInv, TypeOK, LocalsOK, memory, locks, control, timer, stack
    <3> QED BY <3>1, OlderEndpoint
  <2>2. endpoints' = [s \in SipId |->
          IF endpoints[s] = NULL THEN NULL
          ELSE [endpoints[s] EXCEPT !.keepalive = Older(@), !.register = Older(@)]]
    BY DEF Tick
  <2> QED BY <2>1, <2>2
<1>2. playback' \in [Device -> PlaybackInfo \cup {NULL}]
  <2>1. \A d \in Device : playback[d] # NULL =>
          [playback[d] EXCEPT !.age = Older(playback[d].age)] \in PlaybackInfo
    BY OlderType DEF PlaybackInfo
  <2>2. playback' = [d \in Device |->
          IF playback[d] = NULL THEN NULL ELSE [playback[d] EXCEPT !.age = Older(@)]]
    BY DEF Tick
  <2> QED BY <2>1, <2>2
<1>3. lag' \in 0 .. MaxLag
  <2>1. lag' = lag \/ (lag < MaxLag /\ lag' = lag + 1)
    BY Zenon DEF Tick
  <2> QED BY <2>1
<1>4. UNCHANGED <<calls, heap, lockE, lockC, pc, victim, loc, todo, leg, next, puller>>
  BY DEF Tick
<1> QED BY <1>1, <1>2, <1>3, <1>4

(* So does an event of a peer that no handler gets. *)
LEMMA UnhandledType == ASSUME TypeInv, NEW c \in Cid, Unhandled(c) PROVE TypeInv'
<1> USE DEF TypeInv, TypeOK, LocalsOK, memory, locks, control, timer, stack
<1>1. [leg[c] EXCEPT !.peer = "cancel"] \in Leg /\ [leg[c] EXCEPT !.peer = "ring"] \in Leg
  BY DEF Leg
<1> QED BY <1>1 DEF Unhandled

(* Whatever the event thread and the monitor timer do, and in whatever order,
   the tables of CCallManager, the mutexes, the locals and the call legs keep
   the values the code can give them (TypeOK). *)
THEOREM TypeCorrect == Spec => []TypeOK
<1>1. Init => TypeInv
  BY InitType
<1>2. TypeInv /\ [Next]_vars => TypeInv'
  <2>1. ASSUME TypeInv, Next PROVE TypeInv'
    BY <2>1, DispatchType, HandleType, MonitorType, TickType, UnhandledType DEF Next
  <2>2. ASSUME TypeInv, UNCHANGED vars PROVE TypeInv'
    BY <2>2 DEF TypeInv, TypeOK, LocalsOK, vars, memory, locks, control, timer, stack
  <2> QED BY <2>1, <2>2
<1>3. TypeInv => TypeOK
  BY DEF TypeInv
<1> QED BY <1>1, <1>2, <1>3, PTL DEF Spec

(* The mutexes are held exactly where the code has them locked. *)
LockInv ==
  /\ lockE = "timer" <=> pc["timer"] \in {"hb_check", "rm_lock", "rm_loop", "hb_erase"}
  /\ lockE = "event" <=>
       \/ pc["event"] \in {"reg_insert", "reg_update", "inv_new", "inv_fill", "inv_leg"}
       \/ pc["event"] \in {"rm_lock", "rm_loop"} /\ ~IsLogout(loc.reg)
  /\ lockC = "timer" <=> pc["timer"] = "rm_loop"
  /\ lockC = "event" <=> pc["event"] \in {"rm_loop", "ok_answer", "bye_term"}
  /\ pc["event"] \in {"reg_lock", "reg_insert", "reg_update"} => ~IsLogout(loc.reg)

(* The endpoint a thread removes has no call left when it is erased or
   overwritten. *)
VictimInv ==
  /\ pc["timer"] \in {"rm_lock", "rm_loop", "hb_erase"} => victim["timer"] \in SipId
  /\ pc["event"] \in {"rm_lock", "rm_loop"} => victim["event"] = loc.reg.id
  /\ pc["timer"] = "hb_erase" => BySipId(victim["timer"]) = {}
  /\ pc["event"] \in {"reg_update", "logout_erase"} => BySipId(loc.reg.id) = {}

(* The callee an INVITE is forwarded to stays registered while
   m_tLockSipEndpoint is held. *)
CalleeInv ==
  pc["event"] \in {"inv_new", "inv_fill"} => loc.callee \in SipId /\ Registered(loc.callee)

SafeInv == /\ LockInv /\ VictimInv /\ CalleeInv
           /\ LockedUseIsSafe /\ CalleeIsRegistered

-----------------------------------------------------------------------------
USE ConstantsAssumption

(* Nobody holds a mutex and nothing is in use when the server starts. *)
LEMMA InitSafe == Init => SafeInv
BY DEF Init, SafeInv, LockInv, VictimInv, CalleeInv, LockedUseIsSafe, CalleeIsRegistered, Thread

(* What insertEndpoint stores is an endpoint with the request's Call-ID. *)
LEMMA StoredType ==
  ASSUME NEW r \in Registration, NEW D \in SUBSET Device
  PROVE  Stored(r, D) \in Endpoint /\ Stored(r, D).callid = r.callid
BY DEF Stored, Registration, Endpoint

(* What TypeInv says of the variables this proof is about *)
LEMMA Basics ==
  ASSUME TypeInv
  PROVE  /\ pc \in [Thread -> Label] /\ victim \in [Thread -> SipId \cup {NULL}]
         /\ pc["event"] \in EventLabel /\ pc["timer"] \in TimerLabel
         /\ calls \in SUBSET Slot /\ heap \in [Slot -> Context] /\ loc \in Locals
         /\ endpoints \in [SipId -> Endpoint \cup {NULL}]
         /\ pc["event"] \in InRegister => loc.reg \in Registration
         /\ NULL \notin SipId /\ NULL \notin Endpoint
BY NullAssumption DEF TypeInv, TypeOK, LocalsOK

(* insertEndpoint stores a record with the Call-ID of the request. *)
LEMMA InsertEndpointStores ==
  ASSUME TypeInv, InsertEndpoint
  PROVE  /\ loc.reg.id \in SipId
         /\ \E x \in Endpoint : /\ x.callid = loc.reg.callid
                              /\ endpoints' = [endpoints EXCEPT ![loc.reg.id] = x]
         /\ endpoints[loc.reg.id] # NULL => endpoints[loc.reg.id].callid = loc.reg.callid
<1> DEFINE e == endpoints[loc.reg.id]
           D == IF e = NULL THEN {} ELSE e.devices
<1>1. loc.reg \in Registration /\ loc.reg.id \in SipId
  BY Basics DEF InsertEndpoint, InRegister, Registration
<1>2. D \in SUBSET Device
  BY <1>1, Basics DEF Endpoint
<1>3. endpoints' = [endpoints EXCEPT ![loc.reg.id] = Stored(loc.reg, D)]
  BY DEF InsertEndpoint
<1>4. Stored(loc.reg, D) \in Endpoint /\ Stored(loc.reg, D).callid = loc.reg.callid
  BY <1>1, <1>2, StoredType
<1>5. e # NULL => e.callid = loc.reg.callid
  BY DEF InsertEndpoint
<1> QED BY <1>1, <1>3, <1>4, <1>5

(* What the event thread picks up *)
LEMMA DispatchSafe == ASSUME TypeInv, SafeInv, Dispatch PROVE SafeInv'
<1> USE Basics
<1> USE DEF SafeInv, LockInv, VictimInv, CalleeInv, LockedUseIsSafe, CalleeIsRegistered, memory,
            locks, control, timer, stack, Goto, Return, Thread, EventLabel, TimerLabel,
            Registered, BySipId, InRegister
<1>1. ASSUME NEW r \in Registration, RegisterNew(r) PROVE SafeInv'
  BY <1>1 DEF RegisterNew
<1>2. ASSUME NEW s \in SipId, KeepaliveMsg(s) PROVE SafeInv'
  BY <1>2, NullAssumption DEF KeepaliveMsg, Endpoint
<1>3. ASSUME NEW s \in SipId, NEW D \in SUBSET Device, CatalogMsg(s, D) PROVE SafeInv'
  BY <1>3, NullAssumption DEF CatalogMsg, Endpoint
<1>4. ASSUME NEW d \in Device, RecordInfoMsg(d) PROVE SafeInv'
  BY <1>4 DEF RecordInfoMsg
<1>5. ASSUME NEW s \in SipId, NEW d \in Device, InviteRealPlay(s, d) PROVE SafeInv'
  BY <1>5 DEF InviteRealPlay
<1>6. ASSUME NEW s \in SipId, NEW d \in Device, InvitePlayback(s, d) PROVE SafeInv'
  BY <1>6 DEF InvitePlayback
<1>7. CASE InviteOther
  BY <1>7 DEF InviteOther
<1>8. ASSUME NEW c \in Cid, CallAnswer200OK(c) PROVE SafeInv'
  <2>1. \A q \in calls : Holding(c, q).ptr = q
    <3>1. c \in Cid0 /\ \A q \in calls : q \in Slot
      BY DEF Cid, Cid0
    <3> QED BY <3>1, HoldingType
  <2> QED BY <1>8, <2>1 DEF CallAnswer200OK, ByCallee
<1>9. ASSUME NEW c \in Cid, CallAnswerResponse(c) PROVE SafeInv'
  BY <1>9 DEF CallAnswerResponse
<1>10. ASSUME NEW c \in Cid, CallAck(c) PROVE SafeInv'
  BY <1>10 DEF CallAck
<1>11. ASSUME NEW c \in Cid, CallBye(c) PROVE SafeInv'
  <2>1. \A q \in calls : Holding(c, q).ptr = q
    <3>1. c \in Cid0 /\ \A q \in calls : q \in Slot
      BY DEF Cid, Cid0
    <3> QED BY <3>1, HoldingType
  <2> QED BY <1>11, <2>1 DEF CallBye, ByCid, ByCaller, ByCallee
<1> QED
  BY <1>1, <1>2, <1>3, <1>4, <1>5, <1>6, <1>7, <1>8, <1>9, <1>10, <1>11 DEF Dispatch

(* removeCallContextBySipId *)
LEMMA RmSafe ==
  ASSUME TypeInv, SafeInv, NEW t \in Thread, RemoveCallContextBySipId(t)
  PROVE  SafeInv'
<1> USE Basics
<1> USE DEF SafeInv, LockInv, VictimInv, CalleeInv, LockedUseIsSafe, CalleeIsRegistered, memory,
            locks, control, timer, stack, Goto, Return, Thread, EventLabel, TimerLabel,
            Registered, BySipId, InRegister
<1>1. CASE RmLock(t)
  BY <1>1 DEF RmLock
<1>2. CASE RmOne(t)
  <2>1. calls' \subseteq calls /\ \A p \in calls' : heap'[p] = heap[p]
    BY <1>2 DEF RmOne
  <2>2. UNCHANGED <<endpoints, lockE, lockC, pc, victim, loc>> /\ pc[t] = "rm_loop"
    BY <1>2 DEF RmOne
  <2>3. LockedUseIsSafe'
    BY <2>2
  <2> QED BY <2>1, <2>2, <2>3
<1>3. CASE RmDone(t)
  BY <1>3 DEF RmDone, AfterRemoval
<1> QED BY <1>1, <1>2, <1>3 DEF RemoveCallContextBySipId

(* The rest of the handlers *)
LEMMA HandleSafe == ASSUME TypeInv, SafeInv, Handle PROVE SafeInv'
<1> USE Basics
<1> USE DEF SafeInv, LockInv, VictimInv, CalleeInv, LockedUseIsSafe, CalleeIsRegistered, memory,
            locks, control, timer, stack, Goto, Return, Thread, EventLabel, TimerLabel,
            Registered, BySipId, InRegister
<1>1. CASE RegisterLock
  BY <1>1 DEF RegisterLock
<1>2. CASE InsertEndpointRestarted
  BY <1>2 DEF InsertEndpointRestarted
<1>3. CASE InsertEndpoint
  <2>3. endpoints'[loc.reg.id] # NULL /\ \A s \in SipId : s # loc.reg.id => endpoints'[s] = endpoints[s]
    BY <1>3, InsertEndpointStores
  <2> QED BY <1>3, <2>3 DEF InsertEndpoint
<1>4. CASE InsertEndpointUpdate
  <2>2. Stored(loc.reg, {}) # NULL
    BY <1>4, StoredType, NullAssumption DEF InsertEndpointUpdate
  <2>3. endpoints'[loc.reg.id] # NULL /\ \A s \in SipId : s # loc.reg.id => endpoints'[s] = endpoints[s]
    BY <1>4, <2>2 DEF InsertEndpointUpdate, Registration
  <2> QED BY <1>4, <2>3 DEF InsertEndpointUpdate
<1>5. CASE RemoveEndpoint
  <2>1. \A p \in calls : heap[p].calleeId # loc.reg.id
    BY <1>5 DEF RemoveEndpoint
  <2> QED BY <1>5, <2>1 DEF RemoveEndpoint
<1>6. CASE InviteNotFound
  BY <1>6 DEF InviteNotFound, InviteEnd
<1>7. CASE InviteNotSent
  BY <1>7 DEF InviteNotSent, InviteEnd
<1>8. CASE InviteSent
  <2>1. next \in Cid0
    BY <1>8 DEF InviteSent, TypeInv, TypeOK, LocalsOK, Cid, Cid0
  <2>2. \A s \in SipId : Calling(s, next).callee = s
    BY <2>1, CallingType DEF TypeInv
  <2>3. loc'.callee \in PlatformsOf(loc.device)
    BY <1>8, <2>2 DEF InviteSent, PlatformsOf
  <2> QED BY <1>8, <2>3 DEF InviteSent, PlatformsOf
<1>9. CASE NewCallContext
  <2>1. NewContext(loc.cid, loc.calleeCid).callerId = NULL /\ NewContext(loc.cid, loc.calleeCid).calleeId = NULL
    BY NewContextType DEF Locals
  <2>2. PICK p \in Slot \ calls :
          /\ calls' = calls \cup {p}
          /\ heap' = [heap EXCEPT ![p] = NewContext(loc.cid, loc.calleeCid)]
          /\ loc' = [loc EXCEPT !.ptr = p]
    BY <1>9 DEF NewCallContext
  <2>3. /\ heap'[p].callerId = NULL /\ heap'[p].calleeId = NULL
        /\ \A q \in calls : heap'[q] = heap[q]
    BY <2>1, <2>2
  <2>4. loc'.ptr = p /\ loc'.callee = loc.callee /\ loc'.reg = loc.reg
    BY <2>2 DEF Locals
  <2>5. pc["event"] = "inv_new" /\ pc' = [pc EXCEPT !["event"] = "inv_fill"]
        /\ UNCHANGED <<endpoints, lockE, lockC, victim>>
    BY <1>9 DEF NewCallContext
  <2>6. LockInv' /\ CalleeInv' /\ LockedUseIsSafe'
    BY <2>2, <2>4, <2>5
  <2>7. VictimInv'
    BY <2>2, <2>3, <2>4, <2>5
  <2>8. CalleeIsRegistered'
    BY <2>2, <2>3, <2>5
  <2> QED BY <2>6, <2>7, <2>8
<1>10. CASE FillCallContext
  <2>1. loc.ptr \in calls /\ loc.callee \in SipId /\ Registered(loc.callee)
    BY <1>10 DEF FillCallContext
  <2>2. heap'[loc.ptr].callerId = loc.from /\ heap'[loc.ptr].calleeId = loc.callee
        /\ \A q \in calls : q # loc.ptr => heap'[q] = heap[q]
    <3>1. /\ loc.from \in SipId \cup {NULL} /\ loc.callee \in SipId \cup {NULL}
          /\ heap[loc.ptr] \in Context
      BY <2>1 DEF Locals
    <3>2. /\ WithIds(heap[loc.ptr], loc.from, loc.callee).callerId = loc.from
          /\ WithIds(heap[loc.ptr], loc.from, loc.callee).calleeId = loc.callee
      BY ONLY <3>1, WithIdsType
    <3> QED BY <1>10, <2>1, <3>2 DEF FillCallContext
  <2>3. pc["event"] = "inv_fill" /\ pc' = [pc EXCEPT !["event"] = "inv_leg"]
        /\ UNCHANGED <<endpoints, calls, lockE, lockC, victim, loc>>
    BY <1>10 DEF FillCallContext
  <2> QED BY <2>1, <2>2, <2>3
<1>11. CASE UpdateCallerCallLeg
  <2>1. \A q \in calls : heap'[q].callerId = heap[q].callerId /\ heap'[q].calleeId = heap[q].calleeId
    BY <1>11 DEF UpdateCallerCallLeg, ByCaller, Context
  <2>2. /\ pc["event"] = "inv_leg" /\ \E l \in {"idle", "rec_remove"} : pc' = [pc EXCEPT !["event"] = l]
        /\ lockE' = NULL /\ UNCHANGED <<endpoints, calls, lockC, victim>>
    BY <1>11 DEF UpdateCallerCallLeg, InviteEnd
  <2> QED BY <2>1, <2>2
<1>12. CASE RecordInfoRemove
  BY <1>12 DEF RecordInfoRemove
<1>13. CASE AnswerCaller200OK
  <2>1. \A q \in calls : heap'[q].callerId = heap[q].callerId /\ heap'[q].calleeId = heap[q].calleeId
    BY <1>13 DEF AnswerCaller200OK, Context
  <2>2. /\ pc["event"] = "ok_answer" /\ pc' = [pc EXCEPT !["event"] = "idle"]
        /\ lockC' = NULL /\ UNCHANGED <<endpoints, calls, lockE, victim>>
    BY <1>13 DEF AnswerCaller200OK
  <2> QED BY <2>1, <2>2
<1>14. CASE AnswerCallerFailure
  BY <1>14 DEF AnswerCallerFailure
<1>15. CASE SendAck
  BY <1>15 DEF SendAck
<1>16. CASE ByeTerminate
  BY <1>16 DEF ByeTerminate
<1>17. ASSUME NEW l \in {"rsp_remove", "bye_remove"}, RemoveCallContext(l) PROVE SafeInv'
  <2>1. calls' \subseteq calls /\ \A p \in calls' : heap'[p] = heap[p]
    BY <1>17 DEF RemoveCallContext
  <2> QED BY <1>17, <2>1 DEF RemoveCallContext
<1>18. CASE RemoveCallContextBySipId("event")
  BY <1>18, RmSafe
<1> QED
  BY <1>1, <1>2, <1>3, <1>4, <1>5, <1>6, <1>7, <1>8, <1>9, <1>10, <1>11, <1>12, <1>13, <1>14,
     <1>15, <1>16, <1>17, <1>18 DEF Handle

(* The monitor timer, a passing period and the events without a handler *)
LEMMA MonitorSafe == ASSUME TypeInv, SafeInv, Monitor PROVE SafeInv'
<1> USE Basics
<1> USE DEF SafeInv, LockInv, VictimInv, CalleeInv, LockedUseIsSafe, CalleeIsRegistered, memory,
            locks, control, timer, stack, Goto, Return, Thread, EventLabel, TimerLabel,
            Registered, BySipId, InRegister
<1>1. CASE MonitorStart
  BY <1>1 DEF MonitorStart
<1>2. CASE HeartbeatLock
  BY <1>2 DEF HeartbeatLock
<1>3. ASSUME NEW s \in SipId, HeartbeatKeep(s) PROVE SafeInv'
  BY <1>3 DEF HeartbeatKeep
<1>4. ASSUME NEW s \in SipId, HeartbeatLost(s) PROVE SafeInv'
  BY <1>4 DEF HeartbeatLost
<1>5. CASE HeartbeatErase
  <2>1. \A p \in calls : heap[p].calleeId # victim["timer"]
    BY <1>5 DEF HeartbeatErase
  <2> QED BY <1>5, <2>1 DEF HeartbeatErase
<1>6. CASE HeartbeatUnlock
  BY <1>6 DEF HeartbeatUnlock
<1>7. CASE CheckPlaybackCallerInfo
  <2>1. /\ pc["timer"] = "pb_check" /\ pc' = [pc EXCEPT !["timer"] = "idle"]
        /\ UNCHANGED <<endpoints, calls, heap, lockE, lockC, victim, loc>>
    BY <1>7 DEF CheckPlaybackCallerInfo
  <2> QED BY <2>1
<1>8. CASE RemoveCallContextBySipId("timer")
  BY <1>8, RmSafe
<1> QED BY <1>1, <1>2, <1>3, <1>4, <1>5, <1>6, <1>7, <1>8 DEF Monitor

(* A period that passes changes no registration and no Call-ID. *)
LEMMA TickFrame ==
  ASSUME TypeInv, Tick
  PROVE  /\ \A s \in SipId : (endpoints'[s] = NULL) <=> (endpoints[s] = NULL)
         /\ \A s \in SipId : endpoints[s] # NULL => endpoints'[s].callid = endpoints[s].callid
         /\ UNCHANGED <<calls, heap, lockE, lockC, pc, victim, loc>>
<1>1. UNCHANGED <<calls, heap, lockE, lockC, pc, victim, loc>>
  BY DEF Tick, locks, control
<1>2. \A s \in SipId : endpoints'[s] =
        IF endpoints[s] = NULL THEN NULL
        ELSE [endpoints[s] EXCEPT !.keepalive = Older(@), !.register = Older(@)]
  BY Zenon DEF Tick
<1>3. \A s \in SipId : endpoints[s] # NULL => endpoints[s] \in Endpoint
  BY Basics
<1> QED BY <1>1, <1>2, <1>3, OlderEndpoint, NullAssumption

(* Every step of either thread keeps the safety invariant. *)
LEMMA SafeInductive == TypeInv /\ SafeInv /\ [Next]_vars => SafeInv'
<1> USE Basics
<1> USE DEF SafeInv, LockInv, VictimInv, CalleeInv, LockedUseIsSafe, CalleeIsRegistered, memory,
            locks, control, timer, stack, Goto, Return, Thread, EventLabel, TimerLabel,
            Registered, BySipId, InRegister
<1>1. ASSUME TypeInv, SafeInv, Tick PROVE SafeInv'
  BY <1>1, TickFrame DEF Context
<1>2. ASSUME TypeInv, SafeInv, NEW c \in Cid, Unhandled(c) PROVE SafeInv'
  BY <1>2 DEF Unhandled
<1>3. ASSUME TypeInv, SafeInv, UNCHANGED vars PROVE SafeInv'
  BY <1>3 DEF vars
<1> HIDE DEF SafeInv
<1> QED BY <1>1, <1>2, <1>3, DispatchSafe, HandleSafe, MonitorSafe DEF Next

(* Every step keeps the type invariant (the step of TypeCorrect). *)
LEMMA TypeInductive == TypeInv /\ [Next]_vars => TypeInv'
<1>1. ASSUME TypeInv, Next PROVE TypeInv'
  BY <1>1, DispatchType, HandleType, MonitorType, TickType, UnhandledType DEF Next
<1>2. ASSUME TypeInv, UNCHANGED vars PROVE TypeInv'
  BY <1>2 DEF TypeInv, TypeOK, LocalsOK, vars, memory, locks, control, timer, stack
<1> QED BY <1>1, <1>2

(* Type and safety invariant hold together in every reachable state. *)
LEMMA Safe == Spec => [](TypeInv /\ SafeInv)
<1>1. Init => TypeInv /\ SafeInv
  BY InitType, InitSafe
<1>2. TypeInv /\ SafeInv /\ [Next]_vars => TypeInv' /\ SafeInv'
  BY TypeInductive, SafeInductive
<1> QED BY <1>1, <1>2, PTL DEF Spec

(* The actions that write the table of endpoints *)
LEMMA EndpointsFrame ==
  ASSUME [Next]_vars
  PROVE  \/ InsertEndpoint \/ InsertEndpointUpdate \/ RemoveEndpoint \/ HeartbeatErase \/ Tick
         \/ \E s \in SipId : KeepaliveMsg(s) \/ \E D \in SUBSET Device : CatalogMsg(s, D)
         \/ UNCHANGED endpoints
<1>1. CASE Dispatch
  BY <1>1 DEF Dispatch, RegisterNew, RecordInfoMsg, InviteRealPlay, InvitePlayback, InviteOther,
              CallAnswer200OK, CallAnswerResponse, CallAck, CallBye, memory
<1>2. ASSUME NEW t \in Thread, RemoveCallContextBySipId(t) PROVE UNCHANGED endpoints
  BY <1>2 DEF RemoveCallContextBySipId, RmLock, RmOne, RmDone, memory
<1>3. CASE Handle
  BY <1>2, <1>3 DEF Handle, RegisterLock, InsertEndpointRestarted, InviteNotFound, InviteNotSent,
     InviteSent, NewCallContext, FillCallContext, UpdateCallerCallLeg, RecordInfoRemove,
     AnswerCaller200OK, AnswerCallerFailure, SendAck, ByeTerminate, RemoveCallContext, memory, Thread
<1>4. CASE Monitor
  BY <1>2, <1>4 DEF Monitor, MonitorStart, HeartbeatLock, HeartbeatKeep, HeartbeatLost,
     HeartbeatUnlock, CheckPlaybackCallerInfo, memory, Thread
<1>5. ASSUME NEW c \in Cid, Unhandled(c) PROVE UNCHANGED endpoints
  BY <1>5 DEF Unhandled, memory
<1> QED BY <1>1, <1>3, <1>4, <1>5 DEF Next, vars, memory

(* initInviteMsg (SipServer.cpp:1464-1480) fills a context without
   m_tLockCallContext: it is still in the list. *)
THEOREM LockedUseIsSafeCorrect == Spec => []LockedUseIsSafe
<1>1. SafeInv => LockedUseIsSafe
  BY DEF SafeInv
<1> QED BY <1>1, Safe, PTL

(* Every path that drops an endpoint drops its calls first. *)
THEOREM CalleeIsRegisteredCorrect == Spec => []CalleeIsRegistered
<1>1. SafeInv => CalleeIsRegistered
  BY DEF SafeInv
<1> QED BY <1>1, Safe, PTL

(* An endpoint that is erased, or stored with another Call-ID, is not a party
   of any call, whatever the other thread does at that moment. *)
THEOREM LeavesWithItsCallsCorrect == Spec => LeavesWithItsCalls
<1> DEFINE Gone(s) == endpoints'[s] = NULL \/ endpoints'[s].callid # endpoints[s].callid
           Leaves == \A s \in SipId : Registered(s) /\ Gone(s)
                       => \A p \in calls' : s \notin {heap'[p].callerId, heap'[p].calleeId}
<1>1. TypeInv /\ SafeInv /\ [Next]_vars => Leaves
  <2> SUFFICES ASSUME TypeInv, SafeInv, [Next]_vars, NEW s \in SipId, Registered(s), Gone(s)
               PROVE  UNCHANGED <<calls, heap>> /\ BySipId(s) = {}
    BY DEF BySipId
  <2> USE Basics
  <2> USE DEF SafeInv, VictimInv, Registered, memory, InRegister
  <2>1. CASE InsertEndpoint
    BY <2>1, InsertEndpointStores
  <2>2. CASE InsertEndpointUpdate
    BY <2>2 DEF InsertEndpointUpdate
  <2>3. CASE RemoveEndpoint
    BY <2>3 DEF RemoveEndpoint
  <2>4. ASSUME NEW r \in SipId, KeepaliveMsg(r) \/ \E D \in SUBSET Device : CatalogMsg(r, D)
        PROVE  FALSE
    BY <2>4, NullAssumption DEF KeepaliveMsg, CatalogMsg, Endpoint
  <2>5. CASE HeartbeatErase
    BY <2>5 DEF HeartbeatErase
  <2>6. CASE Tick
    BY <2>6, TickFrame
  <2>7. CASE UNCHANGED endpoints
    BY <2>7
  <2> QED BY <2>1, <2>2, <2>3, <2>4, <2>5, <2>6, <2>7, EndpointsFrame
<1>2. Spec => [](TypeInv /\ SafeInv)
  BY Safe
<1> QED BY <1>1, <1>2, PTL DEF Spec, LeavesWithItsCalls

-----------------------------------------------------------------------------
(* The points at which the timer is removing an endpoint *)
Dropping == {"rm_lock", "rm_loop", "hb_erase"}

Overdue(e) == e.keepalive >= MonitorKeepalive \/ e.register >= e.expires

(* What it removes is overdue now, not only when it read the clock. *)
OverdueInv ==
  pc["timer"] \in Dropping /\ Registered(victim["timer"]) => Overdue(endpoints[victim["timer"]])

(* What is expired by the time the timer has read is overdue now. *)
LEMMA ExpiredOverdue ==
  ASSUME TypeInv, NEW e \in Endpoint, Expired(e)
  PROVE  Overdue(e)
<1>1. lag \in Nat /\ e.keepalive \in Nat /\ e.register \in Nat /\ e.expires \in Int
  BY DEF TypeInv, TypeOK, Endpoint
<1>2. MonitorKeepalive \in Nat
  OBVIOUS
<1> QED BY <1>1, <1>2 DEF Expired, Gap, Overdue

(* It stays overdue while time passes. *)
LEMMA OverdueStays ==
  ASSUME NEW e \in Endpoint, Overdue(e)
  PROVE  Overdue([e EXCEPT !.keepalive = Older(@), !.register = Older(@)])
<1>1. /\ e.keepalive \in Int /\ e.register \in Int /\ e.expires \in Int
      /\ e.keepalive <= AgeCap /\ e.register <= AgeCap
  <2>1. e.keepalive \in 0 .. AgeCap /\ e.register \in 0 .. AgeCap /\ e.expires \in Expires
    BY DEF Endpoint
  <2>2. AgeCap \in Nat /\ Expires \subseteq Int
    BY ConstantsAssumption
  <2>3. /\ e.keepalive \in Int /\ e.register \in Int
        /\ e.keepalive <= AgeCap /\ e.register <= AgeCap
    BY ONLY <2>1, <2>2
  <2>4. e.expires \in Int
    BY ONLY <2>1, <2>2
  <2> QED BY ONLY <2>3, <2>4
<1>2. Older(e.keepalive) >= e.keepalive /\ Older(e.register) >= e.register
      /\ Older(e.keepalive) \in Int /\ Older(e.register) \in Int
  BY <1>1 DEF Older
<1> DEFINE f == [e EXCEPT !.keepalive = Older(@), !.register = Older(@)]
<1>3. f.keepalive = Older(e.keepalive) /\ f.register = Older(e.register) /\ f.expires = e.expires
  BY DEF Endpoint
<1> HIDE DEF f
<1>4. Overdue(f)
  BY <1>1, <1>2, <1>3 DEF Overdue
<1> QED BY <1>4 DEF f

(* The timer picks what it removes in HeartbeatLost only. *)
LEMMA DroppingFrame ==
  ASSUME TypeInv, [Next]_vars
  PROVE  \/ \E s \in SipId : HeartbeatLost(s)
         \/ pc'["timer"] \notin Dropping
         \/ pc["timer"] \in Dropping /\ victim'["timer"] = victim["timer"]
<1> USE Basics
<1> USE DEF memory, locks, control, timer, stack, Goto, Return, Thread, Dropping
<1>1. CASE Dispatch
  <2>1. ASSUME NEW r \in Registration, RegisterNew(r)
        PROVE  pc'["timer"] = pc["timer"] /\ victim'["timer"] = victim["timer"]
    BY <2>1 DEF RegisterNew
  <2>2. ASSUME \/ \E s \in SipId : KeepaliveMsg(s) \/ \E D \in SUBSET Device : CatalogMsg(s, D)
               \/ \E d \in Device : RecordInfoMsg(d)
               \/ \E s \in SipId, d \in Device : InviteRealPlay(s, d) \/ InvitePlayback(s, d)
               \/ InviteOther
        PROVE  pc'["timer"] = pc["timer"] /\ victim'["timer"] = victim["timer"]
    BY <2>2 DEF KeepaliveMsg, CatalogMsg, RecordInfoMsg, InviteRealPlay, InvitePlayback, InviteOther
  <2>3. ASSUME \E c \in Cid : \/ CallAnswer200OK(c) \/ CallAnswerResponse(c)
                              \/ CallAck(c) \/ CallBye(c)
        PROVE  pc'["timer"] = pc["timer"] /\ victim'["timer"] = victim["timer"]
    BY <2>3 DEF CallAnswer200OK, CallAnswerResponse, CallAck, CallBye
  <2> QED BY <1>1, <2>1, <2>2, <2>3 DEF Dispatch
<1>2. ASSUME NEW t \in Thread, RemoveCallContextBySipId(t)
      PROVE  pc'["timer"] \notin Dropping
               \/ (pc["timer"] \in Dropping /\ victim'["timer"] = victim["timer"])
  BY <1>2 DEF RemoveCallContextBySipId, RmLock, RmOne, RmDone, AfterRemoval
<1>3. CASE Handle
  BY <1>2, <1>3 DEF Handle, RegisterLock, InsertEndpoint, InsertEndpointRestarted,
     InsertEndpointUpdate, RemoveEndpoint, InviteNotFound, InviteNotSent, InviteEnd,
     InviteSent, NewCallContext, FillCallContext, UpdateCallerCallLeg, RecordInfoRemove,
     AnswerCaller200OK, AnswerCallerFailure, SendAck, ByeTerminate, RemoveCallContext
<1>4. CASE Monitor
  BY <1>2, <1>4 DEF Monitor, MonitorStart, HeartbeatLock, HeartbeatKeep, HeartbeatErase,
     HeartbeatUnlock, CheckPlaybackCallerInfo
<1>5. CASE Tick \/ (\E c \in Cid : Unhandled(c)) \/ UNCHANGED vars
  BY <1>5 DEF Tick, Unhandled, vars
<1> QED BY <1>1, <1>3, <1>4, <1>5 DEF Next

(* Nobody else writes the endpoints while the timer removes one: it holds
   m_tLockSipEndpoint. *)
LEMMA DroppingAlone ==
  ASSUME TypeInv, SafeInv, [Next]_vars, pc["timer"] \in Dropping
  PROVE  HeartbeatErase \/ Tick \/ UNCHANGED endpoints
<1>1. lockE = "timer"
  BY DEF SafeInv, LockInv, Dropping
<1>2. ~InsertEndpoint /\ ~InsertEndpointUpdate
  BY <1>1 DEF SafeInv, LockInv, InsertEndpoint, InsertEndpointUpdate
<1>3. /\ ~RemoveEndpoint
      /\ \A s \in SipId : ~KeepaliveMsg(s) /\ \A D \in SUBSET Device : ~CatalogMsg(s, D)
  BY <1>1 DEF RemoveEndpoint, KeepaliveMsg, CatalogMsg
<1> QED BY <1>2, <1>3, EndpointsFrame

(* Every step keeps it. *)
LEMMA OverdueInductive == TypeInv /\ SafeInv /\ OverdueInv /\ [Next]_vars => OverdueInv'
<1> SUFFICES ASSUME TypeInv, SafeInv, OverdueInv, [Next]_vars,
                    pc'["timer"] \in Dropping, Registered(victim["timer"])'
             PROVE  Overdue(endpoints[victim["timer"]])'
  BY DEF OverdueInv
<1> USE Basics
<1>1. ASSUME NEW s \in SipId, HeartbeatLost(s)
      PROVE  Overdue(endpoints[victim["timer"]])'
  <2>1. victim'["timer"] = s /\ endpoints' = endpoints /\ Expired(endpoints[s])
    BY <1>1 DEF HeartbeatLost, memory, Thread
  <2>2. endpoints[s] \in Endpoint
    BY <2>1 DEF Registered
  <2>3. Overdue(endpoints[s])
    BY <2>1, <2>2, ExpiredOverdue
  <2> QED BY <2>1, <2>3 DEF Overdue
<1>2. CASE pc["timer"] \in Dropping /\ victim'["timer"] = victim["timer"]
  <2> DEFINE v == victim["timer"]
  <2>1. v \in SipId
    BY <1>2 DEF SafeInv, VictimInv, Dropping
  <2>2. CASE UNCHANGED endpoints
    BY <1>2, <2>2 DEF OverdueInv, Registered, Overdue
  <2>3. CASE HeartbeatErase
    BY <2>3 DEF HeartbeatErase, Goto, Thread, Dropping
  <2>4. CASE Tick
    <3>1. endpoints'[v] # NULL
      BY <1>2 DEF Registered
    <3>2. endpoints'[v] =
            IF endpoints[v] = NULL THEN NULL
            ELSE [endpoints[v] EXCEPT !.keepalive = Older(@), !.register = Older(@)]
      BY <2>1, <2>4, Zenon DEF Tick
    <3>3. endpoints[v] \in Endpoint /\ Overdue(endpoints[v])
      BY <1>2, <2>1, <3>1, <3>2 DEF OverdueInv, Registered
    <3>4. Overdue(endpoints'[v])
      BY <3>1, <3>2, <3>3, OverdueStays
    <3> QED BY <1>2, <3>4 DEF Overdue
  <2> QED BY <1>2, <2>2, <2>3, <2>4, DroppingAlone
<1> QED BY <1>1, <1>2, DroppingFrame

(* No other step of the timer leads from the check of the pending INVITEs to
   the end of the run. *)
LEMMA CheckOnly ==
  ASSUME TypeInv, [Next]_vars, pc["timer"] = "pb_check", pc'["timer"] = "idle"
  PROVE  CheckPlaybackCallerInfo
<1> USE Basics
<1> USE DEF memory, locks, control, timer, stack, Goto, Return, Thread
<1>1. CASE Dispatch
  BY <1>1 DEF Dispatch, RegisterNew, KeepaliveMsg, CatalogMsg, RecordInfoMsg, InviteRealPlay,
     InvitePlayback, InviteOther, CallAnswer200OK, CallAnswerResponse, CallAck, CallBye
<1>2. ASSUME NEW t \in Thread, RemoveCallContextBySipId(t) PROVE FALSE
  BY <1>2 DEF RemoveCallContextBySipId, RmLock, RmOne, RmDone, AfterRemoval
<1>3. CASE Handle
  BY <1>2, <1>3 DEF Handle, RegisterLock, InsertEndpoint, InsertEndpointRestarted,
     InsertEndpointUpdate, RemoveEndpoint, InviteNotFound, InviteNotSent, InviteEnd,
     InviteSent, NewCallContext, FillCallContext, UpdateCallerCallLeg, RecordInfoRemove,
     AnswerCaller200OK, AnswerCallerFailure, SendAck, ByeTerminate, RemoveCallContext
<1>4. CASE Monitor
  BY <1>2, <1>4 DEF Monitor, MonitorStart, HeartbeatLock, HeartbeatKeep, HeartbeatLost,
     HeartbeatErase, HeartbeatUnlock
<1>5. CASE Tick \/ (\E c \in Cid : Unhandled(c)) \/ UNCHANGED vars
  BY <1>5 DEF Tick, Unhandled, vars
<1> QED BY <1>1, <1>3, <1>4, <1>5 DEF Next

(* The timer waits for m_tLockCallContext between the look at the clock and the
   removal, and for m_tLockSipEndpoint before: what it drops is still overdue
   when it is dropped, however long the wait was. *)
THEOREM TimerDropsOverdueOnlyCorrect == Spec => TimerDropsOverdueOnly
<1> DEFINE Endpoints == \A s \in SipId :
             pc["timer"] = "hb_erase" /\ Registered(s) /\ endpoints'[s] = NULL
               => Overdue(endpoints[s])
           Playback == \A d \in Device :
             pc["timer"] = "pb_check" /\ playback[d] # NULL /\ playback'[d] = NULL
             /\ pc'["timer"] = "idle"
               => playback[d].age >= PlaybackTimeout
<1>1. ASSUME TypeInv, SafeInv, OverdueInv, [Next]_vars PROVE Endpoints
  <2> SUFFICES ASSUME NEW s \in SipId, pc["timer"] = "hb_erase", Registered(s), endpoints'[s] = NULL
               PROVE  Overdue(endpoints[s])
    OBVIOUS
  <2>1. CASE HeartbeatErase
    <3>1. \A r \in SipId : r # victim["timer"] => endpoints'[r] = endpoints[r]
      BY <1>1, <2>1, Basics DEF HeartbeatErase
    <3>2. victim["timer"] = s
      BY <3>1 DEF Registered
    <3> QED BY <1>1, <3>2 DEF OverdueInv, Dropping
  <2>2. CASE Tick
    BY <1>1, <2>2, TickFrame DEF Registered
  <2> QED BY <1>1, <2>1, <2>2, DroppingAlone DEF Dropping, Registered
<1>2. ASSUME TypeInv, [Next]_vars PROVE Playback
  <2> SUFFICES ASSUME NEW d \in Device, pc["timer"] = "pb_check", playback[d] # NULL,
                      playback'[d] = NULL, pc'["timer"] = "idle"
               PROVE  playback[d].age >= PlaybackTimeout
    OBVIOUS
  <2>1. CheckPlaybackCallerInfo
    BY <1>2, CheckOnly
  <2>2. Gap(playback[d].age) >= PlaybackTimeout
    BY <2>1 DEF CheckPlaybackCallerInfo
  <2>3. lag \in Nat /\ playback[d].age \in Nat /\ PlaybackTimeout \in Nat
    BY <1>2, ConstantsAssumption DEF TypeInv, TypeOK, PlaybackInfo
  <2> QED BY <2>2, <2>3 DEF Gap
<1>3. Init => OverdueInv
  BY DEF Init, OverdueInv, Dropping, Thread
<1>4. Spec => [](TypeInv /\ SafeInv)
  BY Safe
<1>5. TypeInv /\ SafeInv /\ OverdueInv /\ [Next]_vars => OverdueInv'
  BY OverdueInductive
<1>6. TypeInv /\ SafeInv /\ OverdueInv /\ [Next]_vars => Endpoints /\ Playback
  BY <1>1, <1>2
<1>7. Endpoints /\ Playback =>
        /\ \A s \in SipId :
             pc["timer"] = "hb_erase" /\ Registered(s) /\ endpoints'[s] = NULL
               => \/ endpoints[s].keepalive >= MonitorKeepalive
                  \/ endpoints[s].register >= endpoints[s].expires
        /\ Playback
  BY DEF Overdue
<1> QED BY <1>3, <1>4, <1>5, <1>6, <1>7, PTL DEF Spec, TimerDropsOverdueOnly
==============================================================================
