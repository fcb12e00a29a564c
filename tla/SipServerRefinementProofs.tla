---------------------- MODULE SipServerRefinementProofs ----------------------
(***************************************************************************)
(* No leg serves two calls, SipServer implements CallRegistry, and an      *)
(* answered caller and an acknowledged callee can count on a context that  *)
(* joins them, until both are hung up.                                     *)
(***************************************************************************)
EXTENDS SipServerProofs

(* The stack gives out fresh ids, and a context joins a leg that came in with
   one that went out. *)
LegInv ==
  /\ \A c \in Cid : c >= next => leg[c].role = "none"
  /\ \A p \in calls : /\ heap[p].callerCid \in Cid /\ leg[heap[p].callerCid].role = "caller"
                      /\ heap[p].calleeCid \in Cid /\ leg[heap[p].calleeCid].role = "callee"

(* A pending playback INVITE has no context before it is forwarded. *)
Forwarding(d) == /\ pc["event"] \in {"inv_fill", "inv_leg", "rec_remove"}
                 /\ loc.record /\ loc.device = d

PendingInv ==
  /\ \A d \in Device : playback[d] # NULL => leg[playback[d].cid].role = "caller"
  /\ \A d, e \in Device :
       d # e /\ playback[d] # NULL /\ playback[e] # NULL => playback[d].cid # playback[e].cid
  /\ \A d \in Device : playback[d] # NULL /\ ~Forwarding(d)
       => \A p \in calls : heap[p].callerCid # playback[d].cid

(* Neither has the INVITE that initInviteMsg is forwarding. *)
InviteInv ==
  /\ pc["event"] \in {"inv_query", "inv_new"} =>
       /\ loc.cid \in Cid /\ leg[loc.cid].role = "caller"
       /\ \A p \in calls : heap[p].callerCid # loc.cid
       /\ \A d \in Device : playback[d] # NULL /\ playback[d].cid = loc.cid
            => loc.record /\ loc.device = d
  /\ pc["event"] = "inv_new" =>
       /\ loc.calleeCid \in Cid /\ leg[loc.calleeCid].role = "callee"
       /\ \A p \in calls : heap[p].calleeCid # loc.calleeCid

(* The SIP ids of a context are written together. *)
IdsInv ==
  /\ pc["event"] \in {"inv_query", "inv_new", "inv_fill"} => loc.from \in SipId
  /\ pc["event"] = "inv_fill" => heap[loc.ptr].calleeId = NULL
  /\ \A p \in calls : heap[p].calleeId # NULL => heap[p].callerId \in SipId

CallInv == LegInv /\ PendingInv /\ InviteInv /\ IdsInv /\ OneContextPerLeg

-----------------------------------------------------------------------------
USE ConstantsAssumption

(* An empty server has no calls that could share a leg. *)
LEMMA InitCall == Init => CallInv
BY DEF Init, CallInv, LegInv, Forwarding, PendingInv, InviteInv, IdsInv, OneContextPerLeg,
       Thread, NoLeg, NewLeg

(* Hanging up and answering do not change whose leg it is. *)
LEMMA TerminateRole ==
  ASSUME NEW l \in [Cid -> Leg], NEW x, NEW c \in Cid
  PROVE  Terminate(l, x)[c].role = l[c].role
<1>1. \A d : TerminateCaller(l, d)[c].role = l[c].role
  BY DEF TerminateCaller, Leg
<1>2. ASSUME NEW m \in [Cid -> Leg], NEW d, NEW did
      PROVE  TerminateCallee(m, d, did)[c].role = m[c].role
  BY DEF TerminateCallee, Leg
<1> QED BY <1>1, <1>2, TerminateCallerType DEF Terminate

(* Answering a caller does not change whose leg it is. *)
LEMMA AnswerRole ==
  ASSUME TypeOK, NEW d, NEW answer, NEW c \in Cid
  PROVE  AnswerCaller(leg, d, answer)[c].role = leg[c].role
BY DEF AnswerCaller, Answerable, TypeOK, Leg

(* Opening a leg gives the new leg its role and no other. *)
LEMMA OpenedRole ==
  ASSUME TypeOK, NEW role, NEW mine, NEW origin, NEW c \in Cid
  PROVE  Opened(role, mine, origin)[c].role = IF c = next THEN role ELSE leg[c].role
BY DEF Opened, NewLeg, TypeOK

(* A step that opens no leg and no call: contexts keep their legs and parties,
   pending INVITEs may be forgotten. *)
Keeps ==
  /\ next' = next /\ \A c \in Cid : leg'[c].role = leg[c].role
  /\ calls' \subseteq calls
  /\ \A p \in calls' : /\ heap'[p].callerCid = heap[p].callerCid
                       /\ heap'[p].calleeCid = heap[p].calleeCid
                       /\ heap'[p].callerId = heap[p].callerId
                       /\ heap'[p].calleeId = heap[p].calleeId
  /\ \A d \in Device : playback'[d] # NULL
       => playback[d] # NULL /\ playback'[d].cid = playback[d].cid

InInvite == {"inv_query", "inv_new", "inv_fill", "inv_leg", "rec_remove"}

(* A pending playback request holds the leg of its caller. *)
LEMMA PlaybackCid ==
  ASSUME TypeInv, NEW d \in Device, playback[d] # NULL
  PROVE  playback[d].cid \in Cid /\ playback[d].cid \in Cid0 /\ playback[d].from \in SipId
BY DEF TypeInv, TypeOK, PlaybackInfo, Cid, Cid0

(* A step that leaves contexts, pending requests and the forwarding handler
   alone, or only removes from them, keeps the invariant. *)
LEMMA KeepsCall ==
  ASSUME TypeInv, CallInv, SafeInv', Keeps,
         \/ UNCHANGED loc /\ pc'["event"] = pc["event"]
         \/ pc["event"] \notin InInvite /\ pc'["event"] \notin InInvite
  PROVE  CallInv'
<1> USE DEF CallInv, Keeps
<1>1. LegInv'
  BY DEF LegInv
<1>2. OneContextPerLeg'
  BY DEF OneContextPerLeg
<1>3. PendingInv'
  <2>1. \A d \in Device : playback[d] # NULL => playback[d].cid \in Cid
    BY PlaybackCid
  <2>2. \A d \in Device : ~Forwarding(d)' => ~Forwarding(d)
    BY DEF Forwarding, InInvite
  <2> QED BY <2>1, <2>2 DEF PendingInv
<1>4. InviteInv'
  BY DEF InviteInv, InInvite
<1>5. IdsInv'
  BY DEF IdsInv, InInvite, SafeInv, LockedUseIsSafe
<1> QED BY <1>1, <1>2, <1>3, <1>4, <1>5

(* The locals of a handler that is about to forward an INVITE *)
LEMMA RecordInfoLocals ==
  ASSUME TypeInv, NEW d \in Device, RecordInfoMsg(d)
  PROVE  /\ loc'.cid = playback[d].cid /\ loc'.from = playback[d].from
         /\ loc'.device = d /\ loc'.record
         /\ playback[d].cid \in Cid /\ playback[d].from \in SipId
<1>1. playback[d] # NULL /\ loc' = Inviting(playback[d].cid, playback[d].from, d, TRUE)
  BY DEF RecordInfoMsg
<1>2. playback[d].cid \in Cid /\ playback[d].from \in SipId
  BY <1>1, PlaybackCid
<1> QED BY <1>1, <1>2 DEF Inviting, NoLocals

(* A real-time INVITE is forwarded for the leg it has just opened. *)
LEMMA RealPlayLocals ==
  ASSUME TypeInv, NEW s \in SipId, NEW d \in Device, InviteRealPlay(s, d)
  PROVE  next \in Cid /\ loc'.cid = next /\ loc'.from = s /\ ~loc'.record
<1>1. next \in Cid /\ next \in Cid0
  BY DEF InviteRealPlay, TypeInv, TypeOK, Cid, Cid0
<1>2. loc' = Inviting(next, s, d, FALSE)
  BY DEF InviteRealPlay
<1> QED BY <1>1, <1>2 DEF Inviting, NoLocals

(* What the event thread picks up *)
LEMMA DispatchCall == ASSUME TypeInv, SafeInv', CallInv, Dispatch PROVE CallInv'
<1> USE DEF memory, locks, control, timer, stack, Goto, Return, Thread
<1> USE Basics, KeepsCall
<1>1. ASSUME NEW r \in Registration, RegisterNew(r) PROVE CallInv'
  <2>1. Keeps
    BY <1>1 DEF RegisterNew, Keeps
  <2> QED BY <1>1, <2>1 DEF RegisterNew, InInvite
<1>2. ASSUME NEW s \in SipId, KeepaliveMsg(s) \/ \E D \in SUBSET Device : CatalogMsg(s, D)
      PROVE  CallInv'
  <2>1. Keeps
    BY <1>2 DEF KeepaliveMsg, CatalogMsg, Keeps
  <2> QED BY <1>2, <2>1 DEF KeepaliveMsg, CatalogMsg
<1>3. ASSUME NEW d \in Device, RecordInfoMsg(d) PROVE CallInv'
  <2>1. /\ loc'.cid = playback[d].cid /\ loc'.from = playback[d].from
        /\ loc'.device = d /\ loc'.record /\ playback[d].cid \in Cid /\ playback[d].from \in SipId
    BY <1>3, RecordInfoLocals
  <2>2. /\ pc["event"] = "idle" /\ pc'["event"] = "inv_query" /\ playback[d] # NULL
        /\ UNCHANGED <<calls, heap, playback, leg, next>>
    BY <1>3 DEF RecordInfoMsg
  <2>3. LegInv' /\ OneContextPerLeg' /\ InviteInv'
    <3>1. LegInv' /\ OneContextPerLeg'
      BY <2>2 DEF CallInv, LegInv, OneContextPerLeg
    <3>2. playback[d].cid \in Cid /\ leg[playback[d].cid].role = "caller"
      BY <2>1, <2>2 DEF CallInv, PendingInv
    <3>3. InviteInv'
      BY <2>1, <2>2, <3>2 DEF CallInv, PendingInv, InviteInv, Forwarding
    <3> QED BY <3>1, <3>3
  <2>4. PendingInv' /\ IdsInv'
    BY <2>1, <2>2 DEF CallInv, PendingInv, Forwarding, IdsInv
  <2> QED BY <2>3, <2>4 DEF CallInv
<1>4. ASSUME NEW s \in SipId, NEW d \in Device, InviteRealPlay(s, d) PROVE CallInv'
  <2>1. next \in Cid
    BY <1>4, RealPlayLocals
  <2>2. loc'.cid = next /\ loc'.from = s /\ ~loc'.record
    BY <1>4, RealPlayLocals
  <2>3. \A c \in Cid : leg'[c].role = IF c = next THEN "caller" ELSE leg[c].role
    BY <1>4, OpenedRole DEF InviteRealPlay, TypeInv
  <2>4. /\ pc["event"] = "idle" /\ pc'["event"] = "inv_query" /\ next' = next + 1
        /\ UNCHANGED <<calls, heap, playback>>
    BY <1>4 DEF InviteRealPlay
  <2>5. LegInv'
    BY <2>1, <2>3, <2>4 DEF CallInv, LegInv, Cid
  <2>6. PendingInv' /\ OneContextPerLeg' /\ IdsInv'
    BY <2>1, <2>2, <2>3, <2>4, PlaybackCid
    DEF CallInv, PendingInv, Forwarding, OneContextPerLeg, IdsInv
  <2>7. InviteInv'
    BY <2>1, <2>2, <2>3, <2>4, PlaybackCid DEF CallInv, LegInv, PendingInv, InviteInv, Cid
  <2> QED BY <2>5, <2>6, <2>7 DEF CallInv
<1>5. ASSUME NEW s \in SipId, NEW d \in Device, InvitePlayback(s, d) PROVE CallInv'
  <2>1. next \in Cid
    BY <1>5 DEF InvitePlayback, TypeInv, TypeOK, Cid
  <2>2. \A c \in Cid : leg'[c].role = IF c = next THEN "caller" ELSE leg[c].role
    BY <1>5, OpenedRole DEF InvitePlayback, TypeInv
  <2>3. \/ UNCHANGED playback
        \/ /\ playback[d] = NULL
           /\ playback' = [playback EXCEPT ![d] = [cid |-> next, from |-> s, age |-> 0]]
    BY <1>5 DEF InvitePlayback
  <2>4. /\ pc["event"] = "idle" /\ next' = next + 1
        /\ UNCHANGED <<pc, loc, calls, heap>>
    BY <1>5 DEF InvitePlayback
  <2>5. LegInv' /\ OneContextPerLeg' /\ IdsInv' /\ InviteInv'
    BY <2>1, <2>2, <2>4 DEF CallInv, LegInv, Cid, OneContextPerLeg, IdsInv, InviteInv
  <2>6. PendingInv'
    <3>1. CASE UNCHANGED playback
      BY <2>1, <2>2, <2>4, <3>1, PlaybackCid DEF CallInv, PendingInv, Forwarding
    <3>2. CASE /\ playback[d] = NULL
               /\ playback' = [playback EXCEPT ![d] = [cid |-> next, from |-> s, age |-> 0]]
      <4>1. playback'[d].cid = next /\ \A e \in Device : e # d => playback'[e] = playback[e]
        BY <3>2 DEF TypeInv, TypeOK
      <4>2. \A e \in Device : playback[e] # NULL => playback[e].cid # next
        BY <2>1, PlaybackCid DEF CallInv, LegInv, PendingInv, Cid
      <4>3. \A p \in calls : heap[p].callerCid # next
        BY <2>1 DEF CallInv, LegInv, Cid
      <4> QED BY <2>1, <2>2, <2>4, <4>1, <4>2, <4>3, PlaybackCid DEF CallInv, PendingInv, Forwarding
    <3> QED BY <2>3, <3>1, <3>2
  <2> QED BY <2>5, <2>6 DEF CallInv
<1>6. CASE InviteOther
  <2>1. next \in Cid
    BY <1>6 DEF InviteOther, TypeInv, TypeOK, Cid
  <2>2. \A c \in Cid : leg'[c].role = IF c = next THEN "caller" ELSE leg[c].role
    BY <1>6, OpenedRole DEF InviteOther, TypeInv
  <2>3. /\ pc["event"] = "idle" /\ next' = next + 1
        /\ UNCHANGED <<pc, loc, calls, heap, playback>>
    BY <1>6 DEF InviteOther
  <2>4. LegInv' /\ OneContextPerLeg' /\ IdsInv' /\ InviteInv'
    BY <2>1, <2>2, <2>3 DEF CallInv, LegInv, Cid, OneContextPerLeg, IdsInv, InviteInv
  <2>5. PendingInv'
    BY <2>1, <2>2, <2>3, PlaybackCid DEF CallInv, PendingInv, Forwarding
  <2> QED BY <2>4, <2>5 DEF CallInv
<1>7. ASSUME NEW c \in Cid, CallAnswer200OK(c) \/ CallAnswerResponse(c) \/ CallAck(c) \/ CallBye(c)
      PROVE  CallInv'
  <2>1. \A d \in Cid : leg'[d].role = leg[d].role
    BY <1>7 DEF CallAnswer200OK, CallAnswerResponse, CallAck, CallBye, TypeInv, TypeOK, Leg
  <2>2. UNCHANGED <<calls, heap, playback, next>>
    BY <1>7 DEF CallAnswer200OK, CallAnswerResponse, CallAck, CallBye
  <2>3. /\ pc["event"] = "idle"
        /\ pc'["event"] \in {"idle", "ok_answer", "rsp_answer", "ack_send", "bye_term"}
    <3>1. pc["event"] = "idle"
      BY <1>7 DEF CallAnswer200OK, CallAnswerResponse, CallAck, CallBye
    <3>2. \/ UNCHANGED pc
          \/ \E l \in {"ok_answer", "rsp_answer", "ack_send", "bye_term"} : pc' = [pc EXCEPT !["event"] = l]
      BY <1>7 DEF CallAnswer200OK, CallAnswerResponse, CallAck, CallBye
    <3> QED BY <3>1, <3>2
  <2>4. Keeps
    BY <2>1, <2>2 DEF Keeps
  <2> QED BY <2>3, <2>4 DEF InInvite
<1> QED BY <1>1, <1>2, <1>3, <1>4, <1>5, <1>6, <1>7 DEF Dispatch

(* Writing the SIP ids leaves the legs alone. *)
LEMMA WithIdsFields ==
  \A x \in Context, f \in SipId \cup {NULL}, g \in SipId \cup {NULL} :
    /\ WithIds(x, f, g).callerId = f /\ WithIds(x, f, g).calleeId = g
    /\ WithIds(x, f, g).callerCid = x.callerCid /\ WithIds(x, f, g).calleeCid = x.calleeCid
BY DEF WithIds, Context

(* initInviteMsg, which opens legs and fills contexts *)
LEMMA InviteCall ==
  ASSUME TypeInv, SafeInv, CallInv,
         InviteNotFound \/ InviteNotSent \/ InviteSent \/ NewCallContext
           \/ FillCallContext \/ UpdateCallerCallLeg \/ RecordInfoRemove
  PROVE  CallInv'
<1> USE DEF memory, locks, control, timer, stack, Goto, Thread
<1> USE Basics
<1>1. CASE InviteNotFound \/ InviteNotSent \/ UpdateCallerCallLeg
  <2>1. \A c \in Cid : leg'[c].role = leg[c].role
    BY <1>1, AnswerRole DEF InviteNotFound, InviteNotSent, UpdateCallerCallLeg, TypeInv
  <2>2. /\ UNCHANGED <<calls, playback, next>>
        /\ \A p \in calls : /\ heap'[p].callerCid = heap[p].callerCid
                            /\ heap'[p].calleeCid = heap[p].calleeCid
                            /\ heap'[p].callerId = heap[p].callerId
                            /\ heap'[p].calleeId = heap[p].calleeId
    BY <1>1 DEF InviteNotFound, InviteNotSent, UpdateCallerCallLeg, ByCaller, Context
  <2>3. /\ pc["event"] \in {"inv_query", "inv_leg"}
        /\ \/ loc.record /\ pc' = [pc EXCEPT !["event"] = "rec_remove"] /\ UNCHANGED loc
           \/ ~loc.record /\ pc' = [pc EXCEPT !["event"] = "idle"]
    BY <1>1 DEF InviteNotFound, InviteNotSent, UpdateCallerCallLeg, InviteEnd, Return
  <2>4. \A d \in Device : Forwarding(d) => Forwarding(d)'
    BY <2>3 DEF Forwarding
  <2>5. pc'["event"] \in {"rec_remove", "idle"}
    BY <2>3
  <2>6. LegInv' /\ OneContextPerLeg' /\ InviteInv' /\ IdsInv'
    BY <2>1, <2>2, <2>5 DEF CallInv, LegInv, OneContextPerLeg, InviteInv, IdsInv
  <2>7. PendingInv'
    BY <2>1, <2>2, <2>4, PlaybackCid DEF CallInv, PendingInv
  <2> QED BY <2>6, <2>7 DEF CallInv
<1>2. CASE InviteSent
  <2>1. next \in Cid /\ next \in Cid0
    BY <1>2 DEF InviteSent, TypeInv, LocalsOK, Cid, Cid0
  <2>2. /\ loc'.calleeCid = next /\ loc'.cid = loc.cid /\ loc'.from = loc.from
        /\ loc'.device = loc.device /\ loc'.record = loc.record
    BY <1>2, <2>1, CallingType DEF InviteSent, PlatformsOf, TypeInv
  <2>3. \A c \in Cid : leg'[c].role = IF c = next THEN "callee" ELSE leg[c].role
    BY <1>2, OpenedRole DEF InviteSent, TypeInv
  <2>4. /\ pc["event"] = "inv_query" /\ pc'["event"] = "inv_new" /\ next' = next + 1
        /\ UNCHANGED <<calls, heap, playback>>
    BY <1>2 DEF InviteSent
  <2>5. leg[next].role = "none"
    BY <2>1 DEF CallInv, LegInv, Cid
  <2>6. LegInv' /\ OneContextPerLeg' /\ IdsInv'
    BY <2>1, <2>2, <2>3, <2>4, <2>5 DEF CallInv, LegInv, Cid, OneContextPerLeg, IdsInv
  <2>7. InviteInv'
    BY <2>1, <2>2, <2>3, <2>4, <2>5 DEF CallInv, LegInv, InviteInv
  <2>8. PendingInv'
    BY <2>1, <2>3, <2>4, <2>5, PlaybackCid DEF CallInv, PendingInv, Forwarding
  <2> QED BY <2>6, <2>7, <2>8 DEF CallInv
<1>3. CASE NewCallContext
  <2>1. PICK p \in Slot \ calls :
          /\ calls' = calls \cup {p}
          /\ heap' = [heap EXCEPT ![p] = NewContext(loc.cid, loc.calleeCid)]
          /\ loc' = [loc EXCEPT !.ptr = p]
    BY <1>3 DEF NewCallContext
  <2>2. /\ heap'[p].callerCid = loc.cid /\ heap'[p].calleeCid = loc.calleeCid
        /\ heap'[p].calleeId = NULL /\ \A q \in calls : heap'[q] = heap[q]
    BY <2>1, NewContextType DEF Locals
  <2>3. /\ loc'.ptr = p /\ loc'.cid = loc.cid /\ loc'.from = loc.from
        /\ loc'.device = loc.device /\ loc'.record = loc.record
    BY <2>1 DEF Locals
  <2>4. /\ pc["event"] = "inv_new" /\ pc'["event"] = "inv_fill"
        /\ UNCHANGED <<playback, leg, next>>
    BY <1>3 DEF NewCallContext
  <2>5. /\ loc.cid \in Cid /\ leg[loc.cid].role = "caller"
        /\ loc.calleeCid \in Cid /\ leg[loc.calleeCid].role = "callee"
        /\ \A q \in calls : heap[q].callerCid # loc.cid /\ heap[q].calleeCid # loc.calleeCid
        /\ loc.from \in SipId
    BY <2>4 DEF CallInv, InviteInv, IdsInv
  <2>6. LegInv' /\ InviteInv' /\ IdsInv'
    <3>1. LegInv'
      BY <2>1, <2>2, <2>4, <2>5 DEF CallInv, LegInv
    <3>2. InviteInv'
      BY <2>1, <2>2, <2>3, <2>4, <2>5 DEF CallInv, InviteInv
    <3>3. IdsInv'
      BY <2>1, <2>2, <2>3, <2>4, <2>5 DEF CallInv, IdsInv
    <3> QED BY <3>1, <3>2, <3>3
  <2>7. OneContextPerLeg'
    BY <2>1, <2>2, <2>4, <2>5 DEF CallInv, LegInv, OneContextPerLeg
  <2>8. PendingInv'
    <3>1. \A d \in Device : playback[d] # NULL /\ playback[d].cid = loc.cid => Forwarding(d)'
      BY <2>3, <2>4 DEF CallInv, InviteInv, Forwarding
    <3>2. \A d \in Device : ~Forwarding(d)
      BY <2>4 DEF Forwarding
    <3> QED BY <2>1, <2>2, <2>4, <3>1, <3>2 DEF CallInv, PendingInv
  <2> QED BY <2>6, <2>7, <2>8 DEF CallInv
<1>4. CASE FillCallContext
  <2>1. loc.ptr \in calls /\ loc.from \in SipId /\ loc.callee \in SipId
    BY <1>4 DEF FillCallContext, SafeInv, LockedUseIsSafe, CalleeInv, CallInv, IdsInv
  <2>2. /\ heap'[loc.ptr].callerCid = heap[loc.ptr].callerCid
        /\ heap'[loc.ptr].calleeCid = heap[loc.ptr].calleeCid
        /\ heap'[loc.ptr].callerId = loc.from
        /\ \A q \in calls : q # loc.ptr => heap'[q] = heap[q]
    <3>1. /\ loc.from \in SipId \cup {NULL} /\ loc.callee \in SipId \cup {NULL}
          /\ heap[loc.ptr] \in Context
      BY <2>1
    <3>2. heap' = [heap EXCEPT ![loc.ptr] = WithIds(heap[loc.ptr], loc.from, loc.callee)]
      BY <1>4 DEF FillCallContext
    <3> QED BY <2>1, <3>1, <3>2, WithIdsFields
  <2>3. /\ pc["event"] = "inv_fill" /\ pc'["event"] = "inv_leg"
        /\ UNCHANGED <<calls, playback, loc, leg, next>>
    BY <1>4 DEF FillCallContext
  <2>4. LegInv' /\ OneContextPerLeg' /\ InviteInv' /\ IdsInv'
    BY <2>1, <2>2, <2>3 DEF CallInv, LegInv, OneContextPerLeg, InviteInv, IdsInv
  <2>5. PendingInv'
    BY <2>1, <2>2, <2>3 DEF CallInv, PendingInv, Forwarding
  <2> QED BY <2>4, <2>5 DEF CallInv
<1>5. CASE RecordInfoRemove
  <2>1. /\ pc["event"] = "rec_remove" /\ pc'["event"] = "idle"
        /\ UNCHANGED <<calls, heap, leg, next>>
    BY <1>5 DEF RecordInfoRemove, Return
  <2>2. \A d \in Device : playback'[d] # NULL => d # loc.device /\ playback'[d] = playback[d]
    BY <1>5 DEF RecordInfoRemove, TypeInv, TypeOK
  <2>3. LegInv' /\ OneContextPerLeg' /\ InviteInv' /\ IdsInv'
    BY <2>1 DEF CallInv, LegInv, OneContextPerLeg, InviteInv, IdsInv
  <2>4. PendingInv'
    BY <2>1, <2>2 DEF CallInv, PendingInv, Forwarding
  <2> QED BY <2>3, <2>4 DEF CallInv
<1> QED BY <1>1, <1>2, <1>3, <1>4, <1>5

(* removeCallContextBySipId hangs up and forgets calls. *)
LEMMA RmKeeps ==
  ASSUME TypeInv, NEW t \in Thread, RemoveCallContextBySipId(t)
  PROVE  /\ Keeps /\ UNCHANGED loc
         /\ t = "event" => pc["event"] \notin InInvite /\ pc'["event"] \notin InInvite
         /\ t = "timer" => pc'["event"] = pc["event"]
<1> USE DEF memory, locks, control, timer, stack, Goto, Thread
<1> USE Basics
<1>1. Keeps
  BY TerminateRole DEF RemoveCallContextBySipId, RmLock, RmOne, RmDone, Keeps, TypeInv, TypeOK
<1>2. UNCHANGED loc
  BY DEF RemoveCallContextBySipId, RmLock, RmOne, RmDone
<1>3. /\ pc[t] \in {"rm_lock", "rm_loop"}
      /\ \E l \in {"rm_loop", "hb_erase", "logout_erase", "reg_update"} : pc' = [pc EXCEPT ![t] = l]
  BY DEF RemoveCallContextBySipId, RmLock, RmOne, RmDone, AfterRemoval
<1> QED BY <1>1, <1>2, <1>3 DEF InInvite

(* The other handlers *)
LEMMA HandleCall == ASSUME TypeInv, SafeInv, SafeInv', CallInv, Handle PROVE CallInv'
<1> USE DEF memory, locks, control, timer, stack, Goto, Return, Thread
<1> USE Basics, KeepsCall
<1>1. ASSUME RegisterLock \/ InsertEndpoint \/ InsertEndpointRestarted \/ InsertEndpointUpdate
               \/ RemoveEndpoint
      PROVE  CallInv'
  <2>1. Keeps
    BY <1>1 DEF RegisterLock, InsertEndpoint, InsertEndpointRestarted, InsertEndpointUpdate,
                RemoveEndpoint, Keeps
  <2>2. /\ pc["event"] \in InRegister
        /\ \E l \in {"idle", "reg_insert", "rm_lock"} : pc' = [pc EXCEPT !["event"] = l]
    BY <1>1 DEF RegisterLock, InsertEndpoint, InsertEndpointRestarted, InsertEndpointUpdate,
                RemoveEndpoint, InRegister
  <2>3. pc["event"] \notin InInvite /\ pc'["event"] \notin InInvite
    BY <2>2 DEF InInvite, InRegister
  <2> QED BY <2>1, <2>3
<1>2. ASSUME AnswerCaller200OK \/ AnswerCallerFailure \/ SendAck \/ ByeTerminate
      PROVE  CallInv'
  <2>0. leg \in [Cid -> Leg]
    BY DEF TypeInv, TypeOK
  <2>1. ASSUME NEW c \in Cid PROVE leg'[c].role = leg[c].role
    <3>1. CASE AnswerCaller200OK \/ AnswerCallerFailure
      BY <3>1, AnswerRole DEF AnswerCaller200OK, AnswerCallerFailure, TypeInv
    <3>2. CASE SendAck
      <4>1. \A d : [leg EXCEPT ![d].mine = "ok"][c].role = leg[c].role
        BY <2>0 DEF Leg
      <4> QED BY <3>2, <4>1 DEF SendAck
    <3>3. CASE ByeTerminate
      BY <2>0, <3>3, TerminateRole DEF ByeTerminate
    <3> QED BY <1>2, <3>1, <3>2, <3>3
  <2>2. Keeps
    <3>1. CASE AnswerCaller200OK
      <4>1. /\ UNCHANGED <<calls, playback, next>>
            /\ heap' = [heap EXCEPT ![loc.ptr].calleeDid = loc.cid] \/ heap' = heap
        BY <3>1 DEF AnswerCaller200OK
      <4>2. heap \in [Slot -> Context] /\ calls \subseteq Slot
        BY DEF TypeInv, TypeOK
      <4>3. \A q \in calls : /\ heap'[q].callerCid = heap[q].callerCid
                             /\ heap'[q].calleeCid = heap[q].calleeCid
                             /\ heap'[q].callerId = heap[q].callerId
                             /\ heap'[q].calleeId = heap[q].calleeId
        BY <4>1, <4>2 DEF Context
      <4> QED BY <2>1, <4>1, <4>3 DEF Keeps
    <3>2. CASE AnswerCallerFailure \/ SendAck \/ ByeTerminate
      BY <2>1, <3>2 DEF AnswerCallerFailure, SendAck, ByeTerminate, Keeps
    <3> QED BY <1>2, <3>1, <3>2
  <2>3. /\ pc["event"] \in {"ok_answer", "rsp_answer", "ack_send", "bye_term"}
        /\ \E l \in {"idle", "rsp_remove", "bye_remove"} : pc' = [pc EXCEPT !["event"] = l]
    BY <1>2 DEF AnswerCaller200OK, AnswerCallerFailure, SendAck, ByeTerminate
  <2> QED BY <2>2, <2>3 DEF InInvite
<1>3. ASSUME NEW l \in {"rsp_remove", "bye_remove"}, RemoveCallContext(l) PROVE CallInv'
  <2>1. Keeps
    BY <1>3 DEF RemoveCallContext, Keeps
  <2> QED BY <1>3, <2>1 DEF RemoveCallContext, InInvite
<1>4. ASSUME RemoveCallContextBySipId("event") PROVE CallInv'
  BY <1>4, RmKeeps
<1>5. ASSUME \/ InviteNotFound \/ InviteNotSent \/ InviteSent \/ NewCallContext
             \/ FillCallContext \/ UpdateCallerCallLeg \/ RecordInfoRemove
      PROVE  CallInv'
  BY <1>5, InviteCall
<1> QED BY <1>1, <1>2, <1>3, <1>4, <1>5 DEF Handle

(* The timer, a passing period, and the events without a handler *)
LEMMA OthersCall ==
  ASSUME TypeInv, SafeInv', CallInv, Monitor \/ Tick \/ \E c \in Cid : Unhandled(c)
  PROVE  CallInv'
<1> USE DEF memory, locks, control, timer, stack, Goto, Thread
<1> USE Basics, KeepsCall
<1>1. CASE RemoveCallContextBySipId("timer")
  BY <1>1, RmKeeps
<1>2. CASE CheckPlaybackCallerInfo
  <2>1. \A d \in Device : playback'[d] # NULL => playback'[d] = playback[d]
    BY <1>2, Zenon DEF CheckPlaybackCallerInfo
  <2>2. UNCHANGED <<calls, heap, leg, next, loc>> /\ pc'["event"] = pc["event"]
    BY <1>2 DEF CheckPlaybackCallerInfo
  <2>3. Keeps
    BY <2>1, <2>2 DEF Keeps
  <2> QED BY <2>2, <2>3
<1>3. ASSUME \/ MonitorStart \/ HeartbeatLock
             \/ \E s \in SipId : HeartbeatKeep(s) \/ HeartbeatLost(s)
             \/ HeartbeatErase \/ HeartbeatUnlock
      PROVE  CallInv'
  <2>1. Keeps
    BY <1>3 DEF MonitorStart, HeartbeatLock, HeartbeatKeep, HeartbeatLost, HeartbeatErase,
                HeartbeatUnlock, Keeps
  <2>2. UNCHANGED loc /\ pc'["event"] = pc["event"]
    BY <1>3 DEF MonitorStart, HeartbeatLock, HeartbeatKeep, HeartbeatLost, HeartbeatErase,
                HeartbeatUnlock
  <2> QED BY <2>1, <2>2
<1>4. CASE Tick
  <2>1. UNCHANGED <<calls, heap, leg, next, loc, pc>>
    BY <1>4 DEF Tick
  <2>2. \A d \in Device : playback'[d] =
          IF playback[d] = NULL THEN NULL ELSE [playback[d] EXCEPT !.age = Older(@)]
    BY <1>4, Zenon DEF Tick
  <2>3. \A d \in Device : playback[d] # NULL => playback[d] \in PlaybackInfo
    BY DEF TypeInv, TypeOK
  <2>4. \A d \in Device : playback'[d] # NULL
          => playback[d] # NULL /\ playback'[d].cid = playback[d].cid
    BY <2>2, <2>3 DEF PlaybackInfo
  <2>5. Keeps
    BY <2>1, <2>4 DEF Keeps
  <2> QED BY <2>1, <2>5
<1>5. ASSUME NEW c \in Cid, Unhandled(c) PROVE CallInv'
  <2>1. \A d \in Cid : leg'[d].role = leg[d].role
    BY <1>5 DEF Unhandled, TypeInv, TypeOK, Leg
  <2>2. Keeps /\ UNCHANGED loc /\ pc'["event"] = pc["event"]
    BY <1>5, <2>1 DEF Unhandled, Keeps
  <2> QED BY <2>2
<1> QED BY <1>1, <1>2, <1>3, <1>4, <1>5 DEF Monitor

(* Every step of either thread keeps the invariant on calls. *)
LEMMA CallInductive == TypeInv /\ SafeInv /\ CallInv /\ [Next]_vars => CallInv'
<1> SUFFICES ASSUME TypeInv, SafeInv, CallInv, [Next]_vars PROVE CallInv'
  OBVIOUS
<1>1. SafeInv'
  BY SafeInductive
<1>2. CASE UNCHANGED vars
  BY <1>2 DEF vars, memory, locks, control, timer, stack, CallInv, LegInv, PendingInv,
              Forwarding, InviteInv, IdsInv, OneContextPerLeg
<1>3. CASE Next
  BY <1>1, <1>3, DispatchCall, HandleCall, OthersCall DEF Next
<1> QED BY <1>2, <1>3

(* The three invariants hold together in every reachable state. *)
LEMMA Called == Spec => [](TypeInv /\ SafeInv /\ CallInv)
<1>1. Init => CallInv
  BY InitCall
<1>2. TypeInv /\ SafeInv /\ CallInv /\ [Next]_vars => CallInv'
  BY CallInductive
<1>3. Spec => [](TypeInv /\ SafeInv)
  BY Safe
<1> QED BY <1>1, <1>2, <1>3, PTL DEF Spec

(* The list lookups take the first match (CallManager.cpp:148-197): at most one
   context has the leg of an event. *)
THEOREM OneContextPerLegCorrect == Spec => []OneContextPerLeg
<1>1. CallInv => OneContextPerLeg
  BY DEF CallInv
<1> QED BY <1>1, Called, PTL

-----------------------------------------------------------------------------
(* The refinement mapping *)
CallIds == [s \in SipId |-> IF endpoints[s] = NULL THEN NULL ELSE endpoints[s].callid]
Bridged == {CallOf(p) : p \in Filled}

(* Storing or erasing one endpoint changes one abstract registration. *)
LEMMA CallIdsUpdate ==
  ASSUME TypeInv, NEW s \in SipId, NEW x, endpoints' = [endpoints EXCEPT ![s] = x]
  PROVE  CallIds' = [CallIds EXCEPT ![s] = IF x = NULL THEN NULL ELSE x.callid]
BY Basics DEF CallIds

(* A step that keeps the Call-IDs does not change the abstract registrations. *)
LEMMA CallIdsSame ==
  ASSUME \A s \in SipId : (endpoints'[s] = NULL) <=> (endpoints[s] = NULL),
         \A s \in SipId : endpoints[s] # NULL => endpoints'[s].callid = endpoints[s].callid
  PROVE  CallIds' = CallIds
BY DEF CallIds

(* An endpoint without contexts has no abstract call. *)
LEMMA NoCallsOf ==
  ASSUME NEW s, BySipId(s) = {}
  PROVE  Registry!CallsOf(s) = {}
BY DEF BySipId, Registry!CallsOf, Registry!Parties, Filled, CallOf

(* A write of the table of endpoints is a Join, a Restart, a Leave, or none. *)
EndpointStep ==
  \/ CallIds' = CallIds
  \/ \E s \in SipId : \/ Registry!Leave(s)
                      \/ \E k \in CallId : Registry!Join(s, k) \/ Registry!Restart(s, k)

(* insertEndpoint is an abstract Join or Restart, or a refresh that stutters. *)
LEMMA StoreStep ==
  ASSUME TypeInv, NEW s \in SipId, NEW x \in Endpoint,
         endpoints' = [endpoints EXCEPT ![s] = x], UNCHANGED <<calls, heap>>,
         \/ endpoints[s] = NULL \/ endpoints[s].callid = x.callid \/ BySipId(s) = {}
  PROVE  EndpointStep
<1>1. CallIds' = [CallIds EXCEPT ![s] = x.callid]
  BY CallIdsUpdate, NullAssumption
<1>2. x.callid \in CallId /\ x.callid # NULL /\ Bridged' = Bridged
  BY DEF Endpoint, Bridged, Filled, CallOf
<1>3. CASE endpoints[s] = NULL
  <2>1. Registry!Join(s, x.callid)
    BY <1>1, <1>2, <1>3 DEF Registry!Join, CallIds, Bridged
  <2> QED BY <1>2, <2>1 DEF EndpointStep
<1>4. CASE endpoints[s] # NULL /\ endpoints[s].callid = x.callid
  BY <1>1, <1>4 DEF EndpointStep, CallIds
<1>5. CASE endpoints[s] # NULL /\ endpoints[s].callid # x.callid
  <2>1. endpoints[s].callid # NULL
    BY <1>5, Basics DEF Endpoint
  <2>2. Registry!CallsOf(s) = {}
    BY <1>5, NoCallsOf
  <2>3. Registry!Restart(s, x.callid)
    BY <1>1, <1>2, <1>5, <2>1, <2>2 DEF Registry!Restart, CallIds, Bridged
  <2> QED BY <1>2, <2>3 DEF EndpointStep
<1> QED BY <1>3, <1>4, <1>5

(* Erasing an endpoint without calls is an abstract Leave, or stutters. *)
LEMMA EraseStep ==
  ASSUME TypeInv, NEW s \in SipId, BySipId(s) = {},
         endpoints' = [endpoints EXCEPT ![s] = NULL], UNCHANGED <<calls, heap>>
  PROVE  EndpointStep
<1>1. CallIds' = [CallIds EXCEPT ![s] = NULL]
  BY CallIdsUpdate
<1>2. Bridged' = Bridged
  BY DEF Bridged, Filled, CallOf
<1>3. CASE endpoints[s] = NULL
  BY <1>1, <1>3 DEF EndpointStep, CallIds
<1>4. CASE endpoints[s] # NULL
  <2>1. endpoints[s].callid # NULL
    BY <1>4, Basics DEF Endpoint
  <2>2. Registry!Leave(s)
    BY <1>1, <1>2, <1>4, <2>1, NoCallsOf DEF Registry!Leave, CallIds, Bridged
  <2> QED BY <2>2 DEF EndpointStep
<1> QED BY <1>3, <1>4

(* Every step that touches the endpoints is a step of the abstract registry. *)
LEMMA EndpointsRefine ==
  ASSUME TypeInv, SafeInv, [Next]_vars
  PROVE  EndpointStep
<1> USE Basics
<1>1. CASE InsertEndpoint
  <2>1. UNCHANGED <<calls, heap>>
    BY <1>1 DEF InsertEndpoint
  <2> QED BY <1>1, <2>1, InsertEndpointStores, StoreStep
<1>2. CASE InsertEndpointUpdate
  <2>1. /\ loc.reg \in Registration /\ loc.reg.id \in SipId /\ BySipId(loc.reg.id) = {}
        /\ endpoints' = [endpoints EXCEPT ![loc.reg.id] = Stored(loc.reg, {})]
        /\ UNCHANGED <<calls, heap>>
    BY <1>2 DEF InsertEndpointUpdate, InRegister, Registration, SafeInv, VictimInv
  <2> QED BY <2>1, StoredType, StoreStep
<1>3. CASE RemoveEndpoint
  <2>1. /\ loc.reg.id \in SipId /\ BySipId(loc.reg.id) = {}
        /\ endpoints' = [endpoints EXCEPT ![loc.reg.id] = NULL]
        /\ UNCHANGED <<calls, heap>>
    BY <1>3 DEF RemoveEndpoint, InRegister, Registration, SafeInv, VictimInv
  <2> QED BY <2>1, EraseStep
<1>4. CASE HeartbeatErase
  <2>1. /\ victim["timer"] \in SipId /\ BySipId(victim["timer"]) = {}
        /\ endpoints' = [endpoints EXCEPT ![victim["timer"]] = NULL]
        /\ UNCHANGED <<calls, heap>>
    BY <1>4 DEF HeartbeatErase, SafeInv, VictimInv
  <2> QED BY <2>1, EraseStep
<1>5. ASSUME \/ Tick \/ UNCHANGED endpoints
             \/ \E s \in SipId : KeepaliveMsg(s) \/ \E D \in SUBSET Device : CatalogMsg(s, D)
      PROVE  EndpointStep
  <2>1. /\ \A s \in SipId : (endpoints'[s] = NULL) <=> (endpoints[s] = NULL)
        /\ \A s \in SipId : endpoints[s] # NULL => endpoints'[s].callid = endpoints[s].callid
    BY <1>5, TickFrame, NullAssumption DEF KeepaliveMsg, CatalogMsg, Registered, Endpoint
  <2> QED BY <2>1, CallIdsSame DEF EndpointStep
<1> QED BY <1>1, <1>2, <1>3, <1>4, <1>5, EndpointsFrame

(* A write of the list of contexts is a Connect, a HangUp, or none. *)
ContextStep ==
  \/ Bridged' = Bridged
  \/ \E call \in Registry!Call : Registry!Connect(call)
  \/ \E call \in Bridged : Registry!HangUp(call)

(* A context that leaves the list is hung up, if it was filled in. *)
LEMMA RemoveStep ==
  ASSUME CallInv, NEW p \in Slot, calls' = calls \ {p}, UNCHANGED endpoints,
         \A q \in calls' : heap'[q] = heap[q]
  PROVE  ContextStep
<1>1. CallIds' = CallIds
  BY DEF CallIds
<1>2. Filled' = Filled \ {p}
  BY DEF Filled
<1>3. \A q \in Filled' : CallOf(q)' = CallOf(q)
  BY DEF Filled, CallOf
<1>4. CASE p \in Filled
  <2>1. \A q \in Filled : q # p => CallOf(q) # CallOf(p)
    <3>1. \A q \in Filled : q # p => heap[q].callerCid # heap[p].callerCid
      BY <1>4 DEF CallInv, OneContextPerLeg, Filled
    <3> QED BY <3>1 DEF CallOf
  <2>2. Bridged' = Bridged \ {CallOf(p)}
    BY <1>2, <1>3, <1>4, <2>1 DEF Bridged
  <2>3. Registry!HangUp(CallOf(p)) /\ CallOf(p) \in Bridged
    BY <1>1, <1>4, <2>2 DEF Registry!HangUp, CallIds, Bridged
  <2> QED BY <2>3 DEF ContextStep
<1>5. CASE p \notin Filled
  <2>1. Bridged' = Bridged
    BY <1>2, <1>3, <1>5 DEF Bridged
  <2> QED BY <2>1 DEF ContextStep
<1> QED BY <1>4, <1>5

(* A step that neither fills in nor removes a context *)
LEMMA SameStep ==
  ASSUME Filled' = Filled,
         \A p \in Filled : /\ heap'[p].callerCid = heap[p].callerCid
                           /\ heap'[p].calleeCid = heap[p].calleeCid
                           /\ heap'[p].callerId = heap[p].callerId
                           /\ heap'[p].calleeId = heap[p].calleeId
  PROVE  ContextStep
<1>1. \A p \in Filled : CallOf(p)' = CallOf(p)
  BY DEF CallOf
<1> QED BY <1>1 DEF ContextStep, Bridged

(* initInviteMsg connects the call when it writes the SIP ids. *)
LEMMA FillStep ==
  ASSUME TypeInv, SafeInv, CallInv, FillCallContext
  PROVE  ContextStep
<1>1. PICK p \in Slot :
         /\ p = loc.ptr /\ p \in calls /\ loc.from \in SipId
            /\ loc.callee \in SipId /\ Registered(loc.callee) /\ heap[p].calleeId = NULL
  BY Basics DEF FillCallContext, SafeInv, LockedUseIsSafe, CalleeInv, CallInv, IdsInv
<1>2. /\ heap'[p].callerCid = heap[p].callerCid /\ heap'[p].calleeCid = heap[p].calleeCid
      /\ heap'[p].callerId = loc.from /\ heap'[p].calleeId = loc.callee
      /\ \A q \in calls : q # p => heap'[q] = heap[q]
  <2>1. heap' = [heap EXCEPT ![p] = WithIds(heap[p], loc.from, loc.callee)]
    BY <1>1 DEF FillCallContext
  <2> QED BY <1>1, <2>1, WithIdsFields, Basics
<1>3. calls' = calls /\ endpoints' = endpoints
  BY DEF FillCallContext
<1>4. heap[p].callerCid \in Cid /\ heap[p].calleeCid \in Cid
  BY <1>1 DEF CallInv, LegInv
<1> DEFINE call == [callerCid |-> heap[p].callerCid, callerId |-> loc.from,
                    calleeCid |-> heap[p].calleeCid, calleeId |-> loc.callee]
<1>5. call \in Registry!Call
  BY <1>1, <1>4 DEF Registry!Call, Cid
<1>6. loc.callee # NULL /\ Filled' = Filled \cup {p} /\ p \notin Filled
  BY <1>1, <1>2, <1>3, Basics DEF Filled
<1>7. CallOf(p)' = call /\ \A q \in Filled : CallOf(q)' = CallOf(q)
  BY <1>1, <1>2, <1>6 DEF CallOf, Filled
<1>8. Bridged' = Bridged \cup {call}
  BY <1>6, <1>7 DEF Bridged
<1>9. CallIds[loc.callee] # NULL /\ CallIds' = CallIds
  BY <1>1, <1>3, Basics DEF Registered, CallIds, Endpoint
<1>10. \A other \in Bridged : Registry!Legs(call) \cap Registry!Legs(other) = {}
  <2>1. ASSUME NEW q \in Filled PROVE Registry!Legs(call) \cap Registry!Legs(CallOf(q)) = {}
    <3>1. q # p /\ q \in calls
      BY <1>6 DEF Filled
    <3>2. {heap[p].callerCid, heap[p].calleeCid} \cap {heap[q].callerCid, heap[q].calleeCid} = {}
      BY <1>1, <3>1 DEF CallInv, OneContextPerLeg
    <3> QED BY <3>2 DEF Registry!Legs, CallOf
  <2> QED BY <2>1 DEF Bridged
<1>11. Registry!Connect(call)
  BY <1>8, <1>9, <1>10 DEF Registry!Connect, CallIds, Bridged
<1> QED BY <1>5, <1>11 DEF ContextStep

(* removeCallContextBySipId hangs up one abstract call per turn of its loop. *)
LEMMA RmStep ==
  ASSUME TypeInv, CallInv, NEW t \in Thread, RemoveCallContextBySipId(t)
  PROVE  ContextStep
<1>1. CASE RmOne(t)
  <2>1. PICK p \in BySipId(victim[t]) :
          calls' = calls \ {p} /\ heap' = [heap EXCEPT ![p] = ZeroContext]
    BY <1>1 DEF RmOne
  <2>2. p \in Slot /\ UNCHANGED endpoints /\ \A q \in calls' : heap'[q] = heap[q]
    BY <1>1, <2>1, Basics DEF RmOne, BySipId
  <2> QED BY <2>1, <2>2, RemoveStep
<1>2. CASE RmLock(t) \/ RmDone(t)
  <2>1. UNCHANGED <<calls, heap>>
    BY <1>2 DEF RmLock, RmDone, memory
  <2> QED BY <2>1, SameStep DEF Filled
<1> QED BY <1>1, <1>2 DEF RemoveCallContextBySipId

(* Every step that touches the contexts is a step of the abstract registry. *)
LEMMA ContextsRefine ==
  ASSUME TypeInv, SafeInv, CallInv, [Next]_vars
  PROVE  ContextStep
<1> USE Basics
<1>1. CASE NewCallContext
  <2>1. PICK p \in Slot \ calls :
          calls' = calls \cup {p} /\ heap' = [heap EXCEPT ![p] = NewContext(loc.cid, loc.calleeCid)]
    BY <1>1 DEF NewCallContext
  <2>2. heap'[p].calleeId = NULL /\ \A q \in calls : heap'[q] = heap[q]
    BY <2>1, NewContextType DEF Locals
  <2>3. Filled' = Filled /\ \A q \in Filled : heap'[q] = heap[q]
    BY <2>1, <2>2 DEF Filled
  <2> QED BY <2>3, SameStep
<1>2. CASE FillCallContext
  BY <1>2, FillStep
<1>3. CASE UpdateCallerCallLeg \/ AnswerCaller200OK
  <2>1. calls' = calls
        /\ \A p \in calls : /\ heap'[p].callerCid = heap[p].callerCid
                            /\ heap'[p].calleeCid = heap[p].calleeCid
                            /\ heap'[p].callerId = heap[p].callerId
                            /\ heap'[p].calleeId = heap[p].calleeId
    BY <1>3 DEF UpdateCallerCallLeg, AnswerCaller200OK, ByCaller, Context
  <2> QED BY <2>1, SameStep DEF Filled
<1>4. ASSUME NEW l \in {"rsp_remove", "bye_remove"}, RemoveCallContext(l) PROVE ContextStep
  <2>1. calls' = calls \ {loc.ptr} /\ UNCHANGED endpoints /\ \A q \in calls' : heap'[q] = heap[q]
    BY <1>4 DEF RemoveCallContext
  <2>2. CASE loc.ptr \in Slot
    BY <2>1, <2>2, RemoveStep
  <2>3. CASE loc.ptr \notin Slot
    BY <2>1, <2>3, SameStep DEF Filled
  <2> QED BY <2>2, <2>3
<1>5. ASSUME NEW t \in Thread, RemoveCallContextBySipId(t) PROVE ContextStep
  BY <1>5, RmStep
<1>6. ASSUME UNCHANGED <<calls, heap>> PROVE ContextStep
  BY <1>6, SameStep DEF Filled
<1>7. CASE Dispatch
  BY <1>6, <1>7 DEF Dispatch, RegisterNew, KeepaliveMsg, CatalogMsg, RecordInfoMsg,
     InviteRealPlay, InvitePlayback, InviteOther, CallAnswer200OK, CallAnswerResponse,
     CallAck, CallBye, memory
<1>8. CASE Handle
  BY <1>1, <1>2, <1>3, <1>4, <1>5, <1>6, <1>8
  DEF Handle, RegisterLock, InsertEndpoint, InsertEndpointRestarted, InsertEndpointUpdate,
      RemoveEndpoint, InviteNotFound, InviteNotSent, InviteSent, RecordInfoRemove,
      AnswerCallerFailure, SendAck, ByeTerminate, memory, Thread
<1>9. CASE Monitor
  BY <1>5, <1>6, <1>9 DEF Monitor, MonitorStart, HeartbeatLock, HeartbeatKeep, HeartbeatLost,
     HeartbeatErase, HeartbeatUnlock, CheckPlaybackCallerInfo, memory, Thread
<1>10. CASE Tick \/ \E c \in Cid : Unhandled(c)
  BY <1>6, <1>10 DEF Tick, Unhandled, memory
<1>11. CASE UNCHANGED vars
  BY <1>6, <1>11 DEF vars, memory
<1> QED BY <1>7, <1>8, <1>9, <1>10, <1>11 DEF Next

(* The table of endpoints and the list of contexts never change in one step. *)
LEMMA StepRefines ==
  ASSUME TypeInv, SafeInv, CallInv, [Next]_vars
  PROVE  [Registry!Next]_Registry!vars
<1>1. EndpointStep
  BY EndpointsRefine
<1>2. ContextStep
  BY ContextsRefine
<1>3. CASE CallIds' = CallIds /\ Bridged' = Bridged
  BY <1>3 DEF Registry!vars, CallIds, Bridged
<1>4. ASSUME \E s \in SipId : \/ Registry!Leave(s)
                              \/ \E k \in CallId : Registry!Join(s, k) \/ Registry!Restart(s, k)
      PROVE  Registry!Next
  BY <1>4 DEF Registry!Next
<1>5. ASSUME \/ \E call \in Registry!Call : Registry!Connect(call)
             \/ \E call \in Bridged : Registry!HangUp(call)
      PROVE  Registry!Next
  BY <1>5 DEF Registry!Next, Bridged
<1> QED BY <1>1, <1>2, <1>3, <1>4, <1>5 DEF EndpointStep, ContextStep

(* The two threads of the server, with their mutexes and the windows between
   their critical sections, implement the registry that CallManager.h describes:
   removeCallContextBySipId always completes before an endpoint goes. *)
THEOREM ImplementsCallRegistryCorrect == Spec => ImplementsCallRegistry
<1>1. Init => Registry!Init
  BY DEF Init, Registry!Init, Filled
<1>2. TypeInv /\ SafeInv /\ CallInv /\ [Next]_vars => [Registry!Next]_Registry!vars
  BY StepRefines
<1> QED BY <1>1, <1>2, Called, PTL DEF Spec, ImplementsCallRegistry, Registry!Spec

(* What is in no list reads as zeroes: a stale pointer shows no call. *)
FreedInv == \A p \in Slot \ calls : heap[p] = ZeroContext

(* The tid and the did a context keeps are those of its own two legs, and the
   did is there only once the callee has answered. *)
DialogInv ==
  \A p \in calls :
    /\ heap[p].callerTid \in {0, heap[p].callerCid}
    /\ heap[p].calleeDid \in {0, heap[p].calleeCid}
    /\ heap[p].calleeDid # 0 => leg[heap[p].calleeCid].peer \in {"ok", "bye"}

(* An answered caller, and a callee whose answer was acknowledged, that neither
   side has hung up *)
CallerUp(c) == /\ c \in Cid /\ leg[c].role = "caller" /\ leg[c].mine = "ok"
               /\ ~leg[c].ended /\ leg[c].peer # "bye"
CalleeUp(c) == /\ c \in Cid /\ leg[c].role = "callee" /\ leg[c].mine = "ok"
               /\ ~leg[c].ended /\ leg[c].peer = "ok"

(* Each of them has a context that knows the dialog with the callee. *)
UpInv ==
  /\ \A c \in Cid : CallerUp(c) => \E p \in calls : heap[p].callerCid = c /\ heap[p].calleeDid # 0
  /\ \A c \in Cid : CalleeUp(c) => \E p \in calls : heap[p].calleeDid = c
  /\ \A c \in Cid : leg[c].role = "callee" /\ leg[c].mine = "ok" => leg[c].peer \in {"ok", "bye"}

(* What a handler knows of the context it holds, though the timer may have
   freed it meanwhile *)
HolderInv ==
  /\ pc["event"] \in {"rsp_answer", "rsp_remove", "ack_send", "bye_remove"} => loc.ptr \in Slot
  /\ pc["event"] = "ok_answer" =>
       heap[loc.ptr].calleeCid = loc.cid /\ leg[loc.cid].peer \in {"ok", "bye"}
  /\ pc["event"] \in {"rsp_answer", "rsp_remove"} => heap[loc.ptr].calleeDid = 0
  /\ pc["event"] = "bye_remove" =>
       ~CallerUp(heap[loc.ptr].callerCid) /\ ~CalleeUp(heap[loc.ptr].calleeDid)

BridgeInv == FreedInv /\ DialogInv /\ UpInv /\ HolderInv

-----------------------------------------------------------------------------
USE ConstantsAssumption

(* No leg is up when the server starts. *)
LEMMA InitBridge == Init => BridgeInv
BY DEF Init, BridgeInv, FreedInv, DialogInv, UpInv, HolderInv, CallerUp, CalleeUp,
       Thread, NoLeg, NewLeg

(* A leg that is not answered now, and of which nothing is taken back *)
LegKept(a, b) ==
  /\ b.role = a.role
  /\ b.mine = "ok" => a.mine = "ok"
  /\ a.ended => b.ended
  /\ a.peer \in {"ok", "bye"} => b.peer \in {"ok", "bye"}
  /\ a.peer = "bye" => b.peer = "bye"

(* A step after which no leg is up that was not: the others are as before, or
   opened by it. *)
LegsKept ==
  \A c \in Cid : LegKept(leg[c], leg'[c]) \/ (leg[c].role = "none" /\ leg'[c].mine # "ok")

(* Opening a leg answers none. *)
LEMMA OpenedKept ==
  ASSUME TypeInv, CallInv, NEW role, NEW mine \in {"open", "fail"}, NEW origin,
         leg' = Opened(role, mine, origin)
  PROVE  LegsKept
BY DEF LegsKept, LegKept, Opened, NewLeg, TypeInv, TypeOK, CallInv, LegInv, Cid

(* Hanging up a leg answers none. *)
LEMMA TerminateKept ==
  ASSUME NEW l \in [Cid -> Leg], NEW x, NEW c \in Cid
  PROVE  LegKept(l[c], Terminate(l, x)[c])
<1>1. \A d : LegKept(l[c], TerminateCaller(l, d)[c])
  BY DEF TerminateCaller, Leg, LegKept
<1>2. ASSUME NEW m \in [Cid -> Leg], NEW d, NEW did
      PROVE  LegKept(m[c], TerminateCallee(m, d, did)[c])
  BY DEF TerminateCallee, Leg, LegKept
<1> QED BY <1>1, <1>2, TerminateCallerType DEF Terminate, LegKept

(* After it an answered caller is hung up, and so is an answered callee whose
   dialog the context knows. *)
LEMMA TerminateEnds ==
  ASSUME NEW l \in [Cid -> Leg], NEW x, NEW c \in Cid
  PROVE  /\ c = x.callerCid /\ l[c].role = "caller" /\ l[c].mine = "ok" /\ l[c].peer # "bye"
              => Terminate(l, x)[c].ended
         /\ c = x.calleeCid /\ x.calleeDid # 0 /\ Terminate(l, x)[c].peer # "bye"
              => Terminate(l, x)[c].ended
<1> DEFINE m == TerminateCaller(l, x.callerCid)
           n == TerminateCallee(m, x.calleeCid, x.calleeDid)
<1>1. m \in [Cid -> Leg] /\ n = Terminate(l, x)
  BY TerminateCallerType DEF Terminate
<1>2. c = x.callerCid /\ l[c].role = "caller" /\ l[c].mine = "ok" /\ l[c].peer # "bye" => m[c].ended
  BY DEF TerminateCaller, Leg
<1>3. m[c].ended => n[c].ended
  BY <1>1 DEF TerminateCallee, Leg
<1>4. c = x.calleeCid /\ x.calleeDid # 0 /\ n[c].peer # "bye" => n[c].ended
  BY <1>1 DEF TerminateCallee, Leg
<1> QED BY <1>1, <1>2, <1>3, <1>4

(* Refusing a caller answers none. *)
LEMMA RefusedKept ==
  ASSUME TypeInv, NEW d, leg' = AnswerCaller(leg, d, "fail")
  PROVE  LegsKept
BY DEF LegsKept, LegKept, AnswerCaller, Answerable, TypeInv, TypeOK, Leg

-----------------------------------------------------------------------------
(* The points at which a handler holds a context *)
InAnswer == {"ok_answer", "rsp_answer", "rsp_remove", "ack_send", "bye_remove"}

(* What is up was up before. *)
LEMMA UpBefore ==
  ASSUME TypeInv, LegsKept, NEW c
  PROVE  /\ CallerUp(c)' => CallerUp(c)
         /\ CalleeUp(c)' /\ (leg[c].mine = "ok" => leg[c].peer \in {"ok", "bye"}) => CalleeUp(c)
BY DEF CallerUp, CalleeUp, LegsKept, LegKept, TypeInv, TypeOK, Leg

(* With what UpInv says of an acknowledged callee *)
LEMMA UpOnlyBefore ==
  ASSUME TypeInv, UpInv, LegsKept, NEW c
  PROVE  (CallerUp(c)' => CallerUp(c)) /\ (CalleeUp(c)' => CalleeUp(c))
<1>1. CalleeUp(c)' => c \in Cid /\ leg[c].role = "callee"
  BY DEF CalleeUp, LegsKept, LegKept
<1> QED BY <1>1, UpBefore DEF UpInv

(* A step that answers nobody, and after which every context that knew a
   dialog with the callee is still there, keeps the legs joined. *)
LEMMA KeptUp ==
  ASSUME TypeInv, CallInv, UpInv, LegsKept,
         \A p \in calls : heap[p].calleeDid # 0 =>
           \/ /\ p \in calls' /\ heap'[p].callerCid = heap[p].callerCid
              /\ heap'[p].calleeDid = heap[p].calleeDid
           \/ \A c \in Cid : /\ c = heap[p].callerCid => ~CallerUp(c)'
                             /\ c = heap[p].calleeDid => ~CalleeUp(c)'
  PROVE  UpInv'
<1>1. \A c \in Cid : leg[c].role = "callee" /\ leg[c].mine = "ok" => leg[c].peer \in {"ok", "bye"}
  BY DEF UpInv
<1>2. \A c \in Cid : leg'[c].role = "callee" /\ leg'[c].mine = "ok" => leg'[c].peer \in {"ok", "bye"}
  BY <1>1 DEF LegsKept, LegKept
<1>3. ASSUME NEW c \in Cid, CallerUp(c)'
      PROVE  \E p \in calls' : heap'[p].callerCid = c /\ heap'[p].calleeDid # 0
  <2>1. PICK p \in calls : heap[p].callerCid = c /\ heap[p].calleeDid # 0
    BY <1>3, UpBefore DEF UpInv
  <2> QED BY <1>3, <2>1 DEF CallerUp
<1>4. ASSUME NEW c \in Cid, CalleeUp(c)'
      PROVE  \E p \in calls' : heap'[p].calleeDid = c
  <2>1. CalleeUp(c)
    BY <1>4, UpBefore DEF UpInv, CalleeUp, LegsKept, LegKept
  <2>2. PICK p \in calls : heap[p].calleeDid = c
    BY <2>1 DEF UpInv
  <2>3. heap[p].calleeDid # 0
    BY <2>2 DEF Cid
  <2> QED BY <1>4, <2>2, <2>3 DEF CalleeUp
<1> QED BY <1>2, <1>3, <1>4 DEF UpInv

(* A step that leaves the contexts alone, or opens one, and answers nobody *)
LEMMA KeptState ==
  ASSUME TypeInv, CallInv, FreedInv, DialogInv, UpInv, LegsKept,
         UNCHANGED <<calls, heap>>
  PROVE  FreedInv' /\ DialogInv' /\ UpInv'
<1>1. FreedInv'
  BY DEF FreedInv
<1>2. DialogInv'
  BY DEF DialogInv, CallInv, LegInv, LegsKept, LegKept
<1>3. UpInv'
  BY KeptUp
<1> QED BY <1>1, <1>2, <1>3

(* If it leaves the handler alone too, or ends it, what the handler knows stays. *)
LEMMA KeptBridge ==
  ASSUME TypeInv, SafeInv, CallInv, BridgeInv, LegsKept, UNCHANGED <<calls, heap>>,
         \/ UNCHANGED loc /\ pc'["event"] = pc["event"]
         \/ pc'["event"] \notin InAnswer
  PROVE  BridgeInv'
<1>1. FreedInv' /\ DialogInv' /\ UpInv'
  BY KeptState DEF BridgeInv
<1>2. CASE UNCHANGED loc /\ pc'["event"] = pc["event"] /\ pc["event"] \in InAnswer
  <2>1. heap' = heap /\ loc' = loc /\ pc'["event"] = pc["event"]
    BY <1>2
  <2>2. pc["event"] = "ok_answer" => leg'[loc.cid].peer \in {"ok", "bye"}
    <3>1. pc["event"] = "ok_answer" => loc.cid \in Cid /\ leg[loc.cid].role = "callee"
      BY DEF BridgeInv, HolderInv, SafeInv, LockedUseIsSafe, CallInv, LegInv
    <3> QED BY <3>1 DEF BridgeInv, HolderInv, LegsKept, LegKept
  <2>3. pc["event"] = "bye_remove" =>
          ~CallerUp(heap[loc.ptr].callerCid)' /\ ~CalleeUp(heap[loc.ptr].calleeDid)'
    <3>1. ASSUME NEW c \in Cid
          PROVE  (CallerUp(c)' => CallerUp(c)) /\ (CalleeUp(c)' => CalleeUp(c))
      BY UpOnlyBefore DEF BridgeInv
    <3>2. pc["event"] = "bye_remove" =>
            ~CallerUp(heap[loc.ptr].callerCid) /\ ~CalleeUp(heap[loc.ptr].calleeDid)
      BY DEF BridgeInv, HolderInv
    <3> QED BY <2>1, <3>1, <3>2 DEF CallerUp, CalleeUp
  <2>4. HolderInv'
    BY <2>1, <2>2, <2>3 DEF BridgeInv, HolderInv
  <2> QED BY <1>1, <2>4 DEF BridgeInv
<1>3. CASE pc'["event"] \notin InAnswer
  BY <1>1, <1>3 DEF BridgeInv, HolderInv, InAnswer
<1> QED BY <1>1, <1>2, <1>3

-----------------------------------------------------------------------------
(* A step that leaves the legs alone keeps every leg. *)
LEMMA SameLegs == ASSUME leg' = leg PROVE LegsKept
BY DEF LegsKept, LegKept

(* What the event thread picks up: a callee's answer shows that the context it
   finds does not know the callee's dialog yet. *)
LEMMA DispatchBridge ==
  ASSUME TypeInv, SafeInv, CallInv, BridgeInv, Dispatch
  PROVE  BridgeInv'
<1> USE DEF memory, locks, control, timer, stack, Goto, Thread
<1> USE Basics
<1>1. ASSUME NEW r \in Registration, RegisterNew(r) PROVE BridgeInv'
  BY <1>1, SameLegs, KeptBridge DEF RegisterNew, InAnswer
<1>2. ASSUME NEW s \in SipId, KeepaliveMsg(s) \/ \E D \in SUBSET Device : CatalogMsg(s, D)
      PROVE  BridgeInv'
  BY <1>2, SameLegs, KeptBridge DEF KeepaliveMsg, CatalogMsg
<1>3. ASSUME NEW d \in Device, RecordInfoMsg(d) PROVE BridgeInv'
  BY <1>3, SameLegs, KeptBridge DEF RecordInfoMsg, InAnswer
<1>4. ASSUME NEW s \in SipId, NEW d \in Device, InviteRealPlay(s, d) PROVE BridgeInv'
  <2>1. LegsKept
    BY <1>4, OpenedKept DEF InviteRealPlay
  <2> QED BY <1>4, <2>1, KeptBridge DEF InviteRealPlay, InAnswer
<1>5. ASSUME NEW s \in SipId, NEW d \in Device, InvitePlayback(s, d) PROVE BridgeInv'
  <2>1. LegsKept
    BY <1>5, OpenedKept DEF InvitePlayback
  <2> QED BY <1>5, <2>1, KeptBridge DEF InvitePlayback
<1>6. CASE InviteOther
  <2>1. LegsKept
    BY <1>6, OpenedKept DEF InviteOther
  <2> QED BY <1>6, <2>1, KeptBridge DEF InviteOther
<1>7. ASSUME NEW c \in Cid, CallAnswer200OK(c) PROVE BridgeInv'
  <2>1. LegsKept /\ leg'[c].peer = "ok" /\ UNCHANGED <<calls, heap>>
    BY <1>7 DEF CallAnswer200OK, LegsKept, LegKept, TypeInv, TypeOK, Leg
  <2>2. CASE ByCallee(c) = {}
    BY <1>7, <2>1, <2>2, KeptBridge DEF CallAnswer200OK
  <2>3. CASE ByCallee(c) # {}
    <3>1. PICK p \in ByCallee(c) : loc' = Holding(c, p)
      BY <1>7, <2>3 DEF CallAnswer200OK
    <3>2. loc'.cid = c /\ loc'.ptr = p /\ heap[p].calleeCid = c
      BY <3>1, HoldingType DEF ByCallee, Cid, Cid0
    <3>3. pc'["event"] = "ok_answer"
      BY <1>7, <2>3 DEF CallAnswer200OK
    <3> QED BY <2>1, <3>2, <3>3, KeptState DEF BridgeInv, HolderInv
  <2> QED BY <2>2, <2>3
<1>8. ASSUME NEW c \in Cid, CallAnswerResponse(c) PROVE BridgeInv'
  <2>1. LegsKept /\ UNCHANGED <<calls, heap>>
    BY <1>8 DEF CallAnswerResponse, LegsKept, LegKept, TypeInv, TypeOK, Leg
  <2>2. CASE ByCallee(c) = {}
    BY <1>8, <2>1, <2>2, KeptBridge DEF CallAnswerResponse
  <2>3. CASE ByCallee(c) # {}
    <3>1. PICK p \in ByCallee(c) : loc' = Holding(c, p)
      BY <1>8, <2>3 DEF CallAnswerResponse
    <3>2. loc'.ptr = p /\ heap[p].calleeCid = c /\ p \in calls /\ p \in Slot
      BY <3>1, HoldingType DEF ByCallee, Cid, Cid0
    <3>3. heap[p].calleeDid = 0
      BY <1>8, <3>2 DEF CallAnswerResponse, BridgeInv, DialogInv
    <3>4. pc'["event"] = "rsp_answer"
      BY <1>8, <2>3 DEF CallAnswerResponse
    <3> QED BY <2>1, <3>2, <3>3, <3>4, KeptState DEF BridgeInv, HolderInv
  <2> QED BY <2>2, <2>3
<1>9. ASSUME NEW c \in Cid, CallAck(c) PROVE BridgeInv'
  <2>1. LegsKept /\ UNCHANGED <<calls, heap>>
    BY <1>9 DEF CallAck, LegsKept, LegKept, TypeInv, TypeOK, Leg
  <2>2. CASE ByCaller(c) = {}
    BY <1>9, <2>1, <2>2, KeptBridge DEF CallAck
  <2>3. CASE ByCaller(c) # {}
    <3>1. PICK p \in ByCaller(c) : loc' = Holding(c, p)
      BY <1>9, <2>3 DEF CallAck
    <3>2. loc'.ptr \in Slot
      BY <3>1, HoldingType DEF ByCaller, Cid, Cid0
    <3>3. pc'["event"] = "ack_send"
      BY <1>9, <2>3 DEF CallAck
    <3> QED BY <2>1, <3>2, <3>3, KeptState DEF BridgeInv, HolderInv
  <2> QED BY <2>2, <2>3
<1>10. ASSUME NEW c \in Cid, CallBye(c) PROVE BridgeInv'
  <2>1. LegsKept /\ UNCHANGED <<calls, heap>>
    BY <1>10 DEF CallBye, LegsKept, LegKept, TypeInv, TypeOK, Leg
  <2>2. pc'["event"] \notin InAnswer
    BY <1>10 DEF CallBye, InAnswer
  <2> QED BY <2>1, <2>2, KeptBridge
<1> QED
  BY <1>1, <1>2, <1>3, <1>4, <1>5, <1>6, <1>7, <1>8, <1>9, <1>10 DEF Dispatch

(* Writing the contexts while no handler holds one *)
LEMMA ContextsKept ==
  ASSUME TypeInv, CallInv, BridgeInv, leg' = leg, calls \subseteq calls',
         \A p \in calls : /\ heap'[p].callerCid = heap[p].callerCid
                          /\ heap'[p].calleeCid = heap[p].calleeCid
                          /\ heap'[p].calleeDid = heap[p].calleeDid,
         \A p \in Slot \ calls' : heap'[p] = heap[p],
         \A p \in calls' : heap'[p].callerTid \in {0, heap'[p].callerCid},
         \A p \in calls' \ calls : heap'[p].calleeDid = 0,
         pc'["event"] \notin InAnswer
  PROVE  BridgeInv'
<1> USE DEF BridgeInv
<1>1. FreedInv'
  BY DEF FreedInv
<1>2. DialogInv'
  BY DEF DialogInv
<1>3. UpInv'
  BY SameLegs, KeptUp
<1>4. HolderInv'
  BY DEF HolderInv, InAnswer
<1> QED BY <1>1, <1>2, <1>3, <1>4

(* initInviteMsg: a new context knows no dialog. *)
LEMMA InviteBridge ==
  ASSUME TypeInv, SafeInv, CallInv, BridgeInv,
         InviteNotFound \/ InviteNotSent \/ InviteSent \/ NewCallContext
           \/ FillCallContext \/ UpdateCallerCallLeg \/ RecordInfoRemove
  PROVE  BridgeInv'
<1> USE DEF memory, locks, control, timer, stack, Goto, Return, Thread
<1> USE Basics
<1>1. CASE InviteNotFound
  <2>1. LegsKept /\ UNCHANGED <<calls, heap>>
    BY <1>1, RefusedKept DEF InviteNotFound
  <2> QED BY <1>1, <2>1, KeptBridge DEF InviteNotFound, InviteEnd, InAnswer
<1>2. CASE InviteNotSent
  BY <1>2, SameLegs, KeptBridge DEF InviteNotSent, InviteEnd, InAnswer
<1>3. CASE InviteSent
  <2>1. LegsKept /\ UNCHANGED <<calls, heap>>
    BY <1>3, OpenedKept DEF InviteSent
  <2> QED BY <1>3, <2>1, KeptBridge DEF InviteSent, InAnswer
<1>4. CASE NewCallContext
  <2>1. PICK p \in Slot \ calls :
          /\ calls' = calls \cup {p}
          /\ heap' = [heap EXCEPT ![p] = NewContext(loc.cid, loc.calleeCid)]
    BY <1>4 DEF NewCallContext
  <2>2. NewContext(loc.cid, loc.calleeCid).callerTid = 0 /\ NewContext(loc.cid, loc.calleeCid).calleeDid = 0
    BY DEF NewContext, ZeroContext
  <2>3. heap'[p].callerTid = 0 /\ heap'[p].calleeDid = 0 /\ \A q \in Slot : q # p => heap'[q] = heap[q]
    BY <2>1, <2>2
  <2>4. leg' = leg /\ pc'["event"] \notin InAnswer
    BY <1>4 DEF NewCallContext, InAnswer
  <2> QED BY <2>1, <2>3, <2>4, ContextsKept DEF BridgeInv, DialogInv
<1>5. CASE FillCallContext
  <2>1. loc.ptr \in calls /\ loc.from \in SipId \cup {NULL} /\ loc.callee \in SipId \cup {NULL}
    BY <1>5 DEF FillCallContext, SafeInv, LockedUseIsSafe, Locals
  <2>2. \A q \in Slot : /\ heap'[q].callerCid = heap[q].callerCid
                        /\ heap'[q].callerTid = heap[q].callerTid
                        /\ heap'[q].calleeCid = heap[q].calleeCid
                        /\ heap'[q].calleeDid = heap[q].calleeDid
                        /\ q # loc.ptr => heap'[q] = heap[q]
    BY <1>5, <2>1 DEF FillCallContext, WithIds, Context
  <2>3. leg' = leg /\ calls' = calls /\ pc'["event"] \notin InAnswer
    BY <1>5 DEF FillCallContext, InAnswer
  <2> QED BY <2>1, <2>2, <2>3, ContextsKept DEF BridgeInv, DialogInv
<1>6. CASE UpdateCallerCallLeg
  <2>1. leg' = leg /\ calls' = calls /\ pc'["event"] \notin InAnswer
    BY <1>6 DEF UpdateCallerCallLeg, InviteEnd, InAnswer
  <2>2. CASE UNCHANGED heap
    BY <2>1, <2>2, ContextsKept DEF BridgeInv, DialogInv
  <2>3. ASSUME NEW p \in ByCaller(loc.cid), heap' = [heap EXCEPT ![p].callerTid = loc.cid]
        PROVE  BridgeInv'
    <3>1. p \in calls /\ p \in Slot /\ heap[p].callerCid = loc.cid
      BY <2>3 DEF ByCaller
    <3>2. \A q \in Slot : /\ heap'[q].callerCid = heap[q].callerCid
                          /\ heap'[q].calleeCid = heap[q].calleeCid
                          /\ heap'[q].calleeDid = heap[q].calleeDid
                          /\ q # p => heap'[q] = heap[q]
      BY <2>3, <3>1 DEF Context
    <3>3. heap'[p].callerTid = heap'[p].callerCid
      BY <2>3, <3>1 DEF Context
    <3> QED BY <2>1, <3>1, <3>2, <3>3, ContextsKept DEF BridgeInv, DialogInv
  <2> QED BY <1>6, <2>2, <2>3 DEF UpdateCallerCallLeg
<1>7. CASE RecordInfoRemove
  BY <1>7, SameLegs, KeptBridge DEF RecordInfoRemove, InAnswer
<1> QED BY <1>1, <1>2, <1>3, <1>4, <1>5, <1>6, <1>7

(* Freeing a context of which no leg is up any more *)
LEMMA RemovedState ==
  ASSUME TypeInv, CallInv, BridgeInv, LegsKept, NEW p \in Slot,
         calls' = calls \ {p}, heap' = [heap EXCEPT ![p] = ZeroContext],
         p \in calls /\ heap[p].calleeDid # 0 =>
           \A c \in Cid : /\ c = heap[p].callerCid => ~CallerUp(c)'
                          /\ c = heap[p].calleeDid => ~CalleeUp(c)'
  PROVE  FreedInv' /\ DialogInv' /\ UpInv'
<1> USE DEF BridgeInv
<1>1. heap \in [Slot -> Context] /\ calls \in SUBSET Slot
  BY Basics
<1>2. FreedInv'
  BY <1>1 DEF FreedInv
<1>3. DialogInv'
  BY <1>1 DEF DialogInv, CallInv, LegInv, LegsKept, LegKept
<1>4. UpInv'
  BY <1>1, KeptUp
<1> QED BY <1>2, <1>3, <1>4

(* removeCallContextBySipId hangs up both legs of what it frees. *)
LEMMA RmBridge ==
  ASSUME TypeInv, SafeInv, CallInv, BridgeInv, NEW t \in Thread, RemoveCallContextBySipId(t)
  PROVE  BridgeInv'
<1> USE DEF memory, locks, control, timer, stack, Goto, Thread
<1> USE Basics
<1>1. CASE RmLock(t)
  <2>1. LegsKept /\ UNCHANGED <<calls, heap, loc>>
    BY <1>1, SameLegs DEF RmLock
  <2> QED BY <1>1, <2>1, KeptBridge DEF RmLock, InAnswer
<1>2. CASE RmDone(t)
  <2>1. LegsKept /\ UNCHANGED <<calls, heap, loc>>
    BY <1>2, SameLegs DEF RmDone
  <2> QED BY <1>2, <2>1, KeptBridge DEF RmDone, AfterRemoval, InAnswer
<1>3. CASE RmOne(t)
  <2>1. PICK p \in BySipId(victim[t]) :
          /\ leg' = Terminate(leg, heap[p])
          /\ calls' = calls \ {p} /\ heap' = [heap EXCEPT ![p] = ZeroContext]
    BY <1>3 DEF RmOne
  <2>2. p \in calls /\ p \in Slot /\ leg \in [Cid -> Leg]
    BY <2>1 DEF BySipId, TypeInv, TypeOK
  <2>3. LegsKept
    BY <2>1, <2>2, TerminateKept DEF LegsKept
  <2>4. heap[p].calleeDid # 0 => heap[p].calleeDid = heap[p].calleeCid
    BY <2>2 DEF BridgeInv, DialogInv
  <2>5. ASSUME heap[p].calleeDid # 0, NEW c \in Cid
        PROVE  /\ c = heap[p].callerCid => ~CallerUp(c)'
               /\ c = heap[p].calleeDid => ~CalleeUp(c)'
    <3>1. c = heap[p].callerCid /\ CallerUp(c)' => CallerUp(c)
      BY <2>3, UpBefore
    <3> QED BY <2>1, <2>2, <2>4, <2>5, <3>1, TerminateEnds DEF CallerUp, CalleeUp
  <2>6. FreedInv' /\ DialogInv' /\ UpInv'
    BY <2>1, <2>2, <2>3, <2>5, RemovedState
  <2>7. HolderInv'
    <3>1. UNCHANGED <<pc, loc, lockC>> /\ pc[t] = "rm_loop"
      BY <1>3 DEF RmOne
    <3>2. pc["event"] # "ok_answer"
      BY <3>1 DEF SafeInv, LockInv
    <3>3. ASSUME heap'[loc.ptr] = heap[loc.ptr] PROVE HolderInv'
      <4>1. pc["event"] = "bye_remove" =>
              /\ ~CallerUp(heap[loc.ptr].callerCid) /\ ~CalleeUp(heap[loc.ptr].calleeDid)
        BY DEF BridgeInv, HolderInv
      <4>2. ASSUME NEW c \in Cid
            PROVE  /\ CallerUp(c)' => CallerUp(c)
                   /\ CalleeUp(c)' => CalleeUp(c)
        BY <2>3, UpOnlyBefore DEF BridgeInv
      <4>3. pc["event"] = "bye_remove" =>
              /\ ~CallerUp(heap[loc.ptr].callerCid)' /\ ~CalleeUp(heap[loc.ptr].calleeDid)'
        <5>1. heap'[loc'.ptr] = heap[loc.ptr]
          BY <3>1, <3>3
        <5>2. ASSUME pc["event"] = "bye_remove", NEW c \in Cid
              PROVE  /\ c = heap[loc.ptr].callerCid => ~CallerUp(c)'
                     /\ c = heap[loc.ptr].calleeDid => ~CalleeUp(c)'
          BY <4>1, <4>2, <5>2
        <5>3. pc["event"] = "bye_remove" => ~CallerUp(heap[loc.ptr].callerCid)'
          BY <5>1, <5>2 DEF CallerUp
        <5>4. pc["event"] = "bye_remove" => ~CalleeUp(heap[loc.ptr].calleeDid)'
          BY <5>1, <5>2 DEF CalleeUp
        <5> QED BY <5>3, <5>4
      <4> QED BY <3>1, <3>2, <3>3, <4>3 DEF BridgeInv, HolderInv
    <3>4. CASE loc.ptr = p
      <4>1. heap'[loc.ptr] = ZeroContext
        BY <2>1, <2>2, <3>4
      <4>2. ZeroContext.callerCid = 0 /\ ZeroContext.calleeDid = 0 /\ 0 \notin Cid
        BY DEF ZeroContext, Cid
      <4> QED BY <2>2, <3>1, <3>2, <3>4, <4>1, <4>2 DEF HolderInv, CallerUp, CalleeUp
    <3> QED BY <2>1, <3>3, <3>4
  <2> QED BY <2>6, <2>7 DEF BridgeInv
<1> QED BY <1>1, <1>2, <1>3 DEF RemoveCallContextBySipId

(* The caller is answered 200 with the context that then knows the dialog. *)
LEMMA AnswerBridge ==
  ASSUME TypeInv, SafeInv, CallInv, BridgeInv, AnswerCaller200OK
  PROVE  BridgeInv'
<1> USE DEF Goto, Return, Thread
<1> USE Basics
<1> DEFINE p == loc.ptr
           tid == heap[p].callerTid
<1>1. /\ p \in calls /\ p \in Slot /\ calls' = calls /\ pc'["event"] \notin InAnswer
  BY DEF AnswerCaller200OK, SafeInv, LockedUseIsSafe, InAnswer
<1>2. CASE ~Answerable(tid)
  <2>1. leg' = leg /\ heap' = heap
    BY <1>2 DEF AnswerCaller200OK, AnswerCaller
  <2> QED BY <1>1, <2>1, SameLegs, KeptBridge
<1>3. CASE Answerable(tid)
  <2>1. tid \in Cid /\ tid = heap[p].callerCid /\ leg[tid].role = "caller"
    BY <1>1, <1>3 DEF Answerable, BridgeInv, DialogInv, Cid
  <2>2. loc.cid = heap[p].calleeCid /\ leg[loc.cid].peer \in {"ok", "bye"}
    BY DEF AnswerCaller200OK, BridgeInv, HolderInv
  <2>3. loc.cid \in Cid /\ leg[loc.cid].role = "callee" /\ loc.cid # tid /\ loc.cid # 0
    BY <1>1, <2>1, <2>2 DEF CallInv, LegInv, Cid
  <2>4. leg' = [leg EXCEPT ![tid].mine = "ok"]
    BY <1>3 DEF AnswerCaller200OK, AnswerCaller
  <2>5. \A c \in Cid : /\ c # tid => leg'[c] = leg[c]
                       /\ leg'[c].role = leg[c].role /\ leg'[c].peer = leg[c].peer
    BY <2>1, <2>4 DEF TypeInv, TypeOK, Leg
  <2>6. heap' = [heap EXCEPT ![p].calleeDid = loc.cid]
    BY <1>3 DEF AnswerCaller200OK
  <2>7. \A q \in Slot : /\ q # p => heap'[q] = heap[q]
                        /\ heap'[q].callerCid = heap[q].callerCid
                        /\ heap'[q].callerTid = heap[q].callerTid
                        /\ heap'[q].calleeCid = heap[q].calleeCid
    BY <1>1, <2>6 DEF Context
  <2>8. heap'[p].calleeDid = loc.cid
    BY <1>1, <2>6 DEF Context
  <2>9. FreedInv'
    BY <1>1, <2>7 DEF BridgeInv, FreedInv
  <2>10. DialogInv'
    <3>1. \A q \in calls : heap[q].calleeCid \in Cid
      BY DEF CallInv, LegInv
    <3> QED BY <1>1, <2>2, <2>3, <2>5, <2>7, <2>8, <3>1 DEF BridgeInv, DialogInv
  <2>11. UpInv'
    <3>1. ASSUME NEW c \in Cid, CallerUp(c)'
          PROVE  \E q \in calls' : heap'[q].callerCid = c /\ heap'[q].calleeDid # 0
      <4>1. CASE c = tid
        BY <1>1, <2>1, <2>3, <2>7, <2>8, <4>1
      <4>2. CASE c # tid
        <5>1. CallerUp(c)
          BY <2>5, <3>1, <4>2 DEF CallerUp
        <5>2. PICK q \in calls : heap[q].callerCid = c /\ heap[q].calleeDid # 0
          BY <5>1 DEF BridgeInv, UpInv
        <5> QED BY <1>1, <2>3, <2>7, <2>8, <5>2
      <4> QED BY <4>1, <4>2
    <3>2. ASSUME NEW c \in Cid, CalleeUp(c)'
          PROVE  \E q \in calls' : heap'[q].calleeDid = c
      <4>1. CalleeUp(c)
        BY <2>1, <2>5, <3>2 DEF CalleeUp
      <4>2. PICK q \in calls : heap[q].calleeDid = c
        BY <4>1 DEF BridgeInv, UpInv
      <4>3. q = p => c = loc.cid
        BY <2>2, <4>2 DEF BridgeInv, DialogInv, Cid
      <4> QED BY <1>1, <2>7, <2>8, <4>2, <4>3
    <3>3. \A c \in Cid : leg'[c].role = "callee" /\ leg'[c].mine = "ok" => leg'[c].peer \in {"ok", "bye"}
      BY <2>1, <2>5 DEF BridgeInv, UpInv
    <3> QED BY <3>1, <3>2, <3>3 DEF UpInv
  <2> QED BY <1>1, <2>9, <2>10, <2>11 DEF BridgeInv, HolderInv, InAnswer
<1> QED BY <1>2, <1>3

(* The callee is sent the ACK in the dialog the context knows. *)
LEMMA AckBridge ==
  ASSUME TypeInv, SafeInv, CallInv, BridgeInv, SendAck
  PROVE  BridgeInv'
<1> USE DEF Goto, Return, Thread
<1> USE Basics
<1> DEFINE p == loc.ptr
           did == heap[p].calleeDid
           sent == did # 0 /\ ~leg[did].ended /\ leg[did].peer = "ok"
<1>1. p \in Slot /\ UNCHANGED <<calls, heap>> /\ pc'["event"] \notin InAnswer
  BY DEF SendAck, BridgeInv, HolderInv, InAnswer, memory
<1>2. CASE ~sent
  <2>1. leg' = leg
    BY <1>2 DEF SendAck
  <2> QED BY <1>1, <2>1, SameLegs, KeptBridge
<1>3. CASE sent
  <2>1. p \in calls
    BY <1>1, <1>3 DEF BridgeInv, FreedInv, ZeroContext
  <2>2. did \in Cid /\ leg[did].role = "callee"
    BY <1>3, <2>1 DEF BridgeInv, DialogInv, CallInv, LegInv
  <2>3. leg' = [leg EXCEPT ![did].mine = "ok"]
    BY <1>3 DEF SendAck
  <2>4. \A c \in Cid : /\ c # did => leg'[c] = leg[c]
                       /\ leg'[c].role = leg[c].role /\ leg'[c].peer = leg[c].peer
    BY <2>2, <2>3 DEF TypeInv, TypeOK, Leg
  <2>5. FreedInv' /\ DialogInv'
    <3>1. \A q \in calls : heap[q].calleeCid \in Cid
      BY DEF CallInv, LegInv
    <3> QED BY <1>1, <2>4, <3>1 DEF BridgeInv, FreedInv, DialogInv
  <2>6. UpInv'
    <3>1. ASSUME NEW c \in Cid, CallerUp(c)'
          PROVE  \E q \in calls' : heap'[q].callerCid = c /\ heap'[q].calleeDid # 0
      <4>1. CallerUp(c)
        BY <2>2, <2>4, <3>1 DEF CallerUp
      <4> QED BY <1>1, <4>1 DEF BridgeInv, UpInv
    <3>2. ASSUME NEW c \in Cid, CalleeUp(c)'
          PROVE  \E q \in calls' : heap'[q].calleeDid = c
      <4>1. c # did => CalleeUp(c)
        BY <2>4, <3>2 DEF CalleeUp
      <4> QED BY <1>1, <2>1, <4>1 DEF BridgeInv, UpInv
    <3>3. \A c \in Cid : leg'[c].role = "callee" /\ leg'[c].mine = "ok" => leg'[c].peer \in {"ok", "bye"}
      BY <1>3, <2>2, <2>4 DEF BridgeInv, UpInv
    <3> QED BY <3>1, <3>2, <3>3 DEF UpInv
  <2> QED BY <1>1, <2>5, <2>6 DEF BridgeInv, HolderInv, InAnswer
<1> QED BY <1>2, <1>3

(* A BYE hangs up both legs before the context goes. *)
LEMMA ByeBridge ==
  ASSUME TypeInv, SafeInv, CallInv, BridgeInv, ByeTerminate
  PROVE  BridgeInv'
<1> USE DEF Goto, Thread
<1> USE Basics
<1> DEFINE p == loc.ptr
<1>1. /\ p \in calls /\ p \in Slot /\ UNCHANGED <<calls, heap, loc>>
      /\ pc'["event"] = "bye_remove" /\ leg' = Terminate(leg, heap[p])
  BY DEF ByeTerminate, SafeInv, LockedUseIsSafe, memory
<1>2. LegsKept /\ leg \in [Cid -> Leg]
  BY <1>1, TerminateKept DEF LegsKept, TypeInv, TypeOK
<1>3. FreedInv' /\ DialogInv' /\ UpInv'
  BY <1>1, <1>2, KeptState DEF BridgeInv
<1>4. ASSUME NEW c \in Cid
      PROVE  /\ c = heap[p].callerCid => ~CallerUp(c)'
             /\ c = heap[p].calleeDid => ~CalleeUp(c)'
  <2>1. c = heap[p].callerCid /\ CallerUp(c)' => CallerUp(c)
    BY <1>2, UpBefore
  <2>2. c = heap[p].calleeDid => c # 0 /\ c = heap[p].calleeCid
    BY <1>1 DEF BridgeInv, DialogInv, Cid
  <2> QED BY <1>1, <1>2, <2>1, <2>2, TerminateEnds DEF CallerUp, CalleeUp
<1>5. ~CallerUp(heap[p].callerCid)' /\ ~CalleeUp(heap[p].calleeDid)'
  BY <1>1, <1>4 DEF CallerUp, CalleeUp
<1> QED BY <1>1, <1>3, <1>5 DEF BridgeInv, HolderInv

(* removeCallContext after a refusal, when nobody was answered, and after a
   BYE, when both legs are down *)
LEMMA RemoveBridge ==
  ASSUME TypeInv, SafeInv, CallInv, BridgeInv,
         NEW l \in {"rsp_remove", "bye_remove"}, RemoveCallContext(l)
  PROVE  BridgeInv'
<1> USE DEF Goto, Return, Thread
<1> USE Basics
<1> DEFINE p == loc.ptr
<1>1. /\ leg' = leg /\ calls' = calls \ {p} /\ heap' = [heap EXCEPT ![p] = ZeroContext]
      /\ pc["event"] = l /\ pc'["event"] = "idle"
  BY DEF RemoveCallContext, stack
<1>2. p \in Slot
  BY <1>1 DEF BridgeInv, HolderInv
<1>3. ASSUME heap[p].calleeDid # 0, NEW c \in Cid
      PROVE  /\ c = heap[p].callerCid => ~CallerUp(c)'
             /\ c = heap[p].calleeDid => ~CalleeUp(c)'
  <2>1. ~CallerUp(heap[p].callerCid) /\ ~CalleeUp(heap[p].calleeDid)
    BY <1>1, <1>3 DEF BridgeInv, HolderInv
  <2> QED BY <1>1, <2>1 DEF CallerUp, CalleeUp
<1>4. FreedInv' /\ DialogInv' /\ UpInv'
  BY <1>1, <1>2, <1>3, SameLegs, RemovedState
<1> QED BY <1>1, <1>4 DEF BridgeInv, HolderInv

(* The rest of the handlers *)
LEMMA HandleBridge ==
  ASSUME TypeInv, SafeInv, CallInv, BridgeInv, Handle
  PROVE  BridgeInv'
<1>1. ASSUME RegisterLock \/ InsertEndpoint \/ InsertEndpointRestarted \/ InsertEndpointUpdate
               \/ RemoveEndpoint
      PROVE  BridgeInv'
  <2>1. LegsKept /\ UNCHANGED <<calls, heap>>
    BY <1>1, SameLegs DEF RegisterLock, InsertEndpoint, InsertEndpointRestarted,
       InsertEndpointUpdate, RemoveEndpoint, memory, stack
  <2>2. pc'["event"] \notin InAnswer
    BY <1>1, Basics DEF RegisterLock, InsertEndpoint, InsertEndpointRestarted,
       InsertEndpointUpdate, RemoveEndpoint, Goto, Return, InAnswer, Thread
  <2> QED BY <2>1, <2>2, KeptBridge
<1>2. CASE AnswerCallerFailure
  <2>1. LegsKept /\ UNCHANGED <<calls, heap, loc>>
    BY <1>2, RefusedKept DEF AnswerCallerFailure, memory
  <2>2. pc["event"] = "rsp_answer" /\ pc'["event"] = "rsp_remove"
    BY <1>2, Basics DEF AnswerCallerFailure, Goto, Thread
  <2>3. FreedInv' /\ DialogInv' /\ UpInv'
    BY <2>1, KeptState DEF BridgeInv
  <2> QED BY <2>1, <2>2, <2>3 DEF BridgeInv, HolderInv
<1> QED
  BY <1>1, <1>2, InviteBridge, AnswerBridge, AckBridge, ByeBridge, RemoveBridge, RmBridge
  DEF Handle, Thread

(* The monitor timer, a passing period and the events without a handler *)
LEMMA OthersBridge ==
  ASSUME TypeInv, SafeInv, CallInv, BridgeInv, Monitor \/ Tick \/ \E c \in Cid : Unhandled(c)
  PROVE  BridgeInv'
<1> USE DEF memory, control, stack, Goto, Thread
<1>1. ASSUME \/ MonitorStart \/ HeartbeatLock \/ HeartbeatErase \/ HeartbeatUnlock
             \/ CheckPlaybackCallerInfo \/ Tick
             \/ \E s \in SipId : HeartbeatKeep(s) \/ HeartbeatLost(s)
      PROVE  BridgeInv'
  <2>1. leg' = leg /\ UNCHANGED <<calls, heap, loc>> /\ pc'["event"] = pc["event"]
    BY <1>1, Basics DEF MonitorStart, HeartbeatLock, HeartbeatErase, HeartbeatUnlock,
       CheckPlaybackCallerInfo, Tick, HeartbeatKeep, HeartbeatLost
  <2> QED BY <2>1, SameLegs, KeptBridge
<1>2. ASSUME NEW c \in Cid, Unhandled(c) PROVE BridgeInv'
  <2>1. LegsKept /\ UNCHANGED <<calls, heap, loc, pc>>
    BY <1>2 DEF Unhandled, LegsKept, LegKept, TypeInv, TypeOK, Leg
  <2> QED BY <2>1, KeptBridge
<1> QED BY <1>1, <1>2, RmBridge DEF Monitor

(* Every step keeps the bridge invariant. *)
LEMMA BridgeInductive == TypeInv /\ SafeInv /\ CallInv /\ BridgeInv /\ [Next]_vars => BridgeInv'
<1> SUFFICES ASSUME TypeInv, SafeInv, CallInv, BridgeInv, [Next]_vars PROVE BridgeInv'
  OBVIOUS
<1>1. CASE UNCHANGED vars
  BY <1>1, SameLegs, KeptBridge DEF vars, memory, control, stack
<1> QED BY <1>1, DispatchBridge, HandleBridge, OthersBridge DEF Next

(* It holds in every reachable state. *)
LEMMA BridgedAlways == Spec => []BridgeInv
<1>1. Init => BridgeInv
  BY InitBridge
<1>2. Spec => [](TypeInv /\ SafeInv /\ CallInv)
  BY Called
<1>3. TypeInv /\ SafeInv /\ CallInv /\ BridgeInv /\ [Next]_vars => BridgeInv'
  BY BridgeInductive
<1> QED BY <1>1, <1>2, <1>3, PTL DEF Spec

(* A caller whose INVITE was answered 200 has a context that knows the callee's
   dialog until one side or the server hangs up: its ACK and its BYE have a
   callee to go to. *)
THEOREM AnsweredCallerIsBridgedCorrect == Spec => []AnsweredCallerIsBridged
<1>1. BridgeInv => AnsweredCallerIsBridged
  BY DEF BridgeInv, UpInv, CallerUp, AnsweredCallerIsBridged
<1> QED BY <1>1, BridgedAlways, PTL

(* A callee that was sent its ACK is never left without a context while its leg
   is up: whoever frees the context hangs it up first. *)
THEOREM BridgedLegsEndTogetherCorrect == Spec => []BridgedLegsEndTogether
<1>1. TypeInv /\ CallInv /\ BridgeInv => BridgedLegsEndTogether
  <2> SUFFICES ASSUME CallInv, BridgeInv, NEW c \in Cid, CalleeUp(c)
               PROVE  \E p \in calls : heap[p].calleeCid = c
    BY DEF BridgedLegsEndTogether, CalleeUp
  <2>1. PICK p \in calls : heap[p].calleeDid = c
    BY DEF BridgeInv, UpInv
  <2>2. heap[p].calleeCid = c
    BY <2>1 DEF BridgeInv, DialogInv, Cid
  <2> QED BY <2>2
<1> QED BY <1>1, Called, BridgedAlways, PTL
==============================================================================
