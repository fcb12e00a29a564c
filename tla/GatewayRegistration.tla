-------------------------- MODULE GatewayRegistration --------------------------
(***************************************************************************)
(* How a media gateway stays registered with the SIP server: the timer and *)
(* the event handlers of GB28181MediaGate.cpp, the registration eXosip     *)
(* keeps for them, the requests on their way, and the registrar of the     *)
(* server (CallManager.cpp), each with its ThreadTimer.                    *)
(*                                                                         *)
(* A request is what one SIP transaction makes of it: the server handles   *)
(* it at most once, and the gateway hears of one answer or, after          *)
(* TransactionTime, of none.  A fault is the loss of a request or of its   *)
(* answer with all retransmissions, a period that passes while something   *)
(* is on its way, or the end of the server; without one, what can be done  *)
(* in a period is done in it.                                              *)
(*                                                                         *)
(* Times are in periods of the timer (10 s) and kept as ages.              *)
(* Bounds: MaxFaults; `calm' counts the periods since the last fault up to *)
(* CalmCap; CallId is large enough that one is always free.                *)
(***************************************************************************)
EXTENDS ThreadTimer, Sequences, FiniteSets

CONSTANTS
  CallId,          (* Call-ID header values of REGISTER requests             *)
  KeepaliveGap,    (* 30 s between keepalives                                *)
  RegisterGap,     (* g_iExpires - 30, when the gateway's timer refreshes    *)
  TransactionTime, (* timer F, 32 s                                          *)
  RetryAge,        (* 120 s: eXosip repeats a REGISTER without a 2xx answer  *)
  RefreshAge,      (* 900 s or 9/10 of its period: eXosip refreshes it      *)
  FailLimit,       (* 3 failed keepalives                                    *)
  Expires,         (* g_iExpires, as the server sees it                      *)
  MonitorKeepalive,(* the server drops whom it has not heard of for so long  *)
  MaxFaults,
  RecoveryTime, CalmCap, (* the periods of the two promises at the end      *)
  NULL

ASSUME GatewayAssumption ==
  /\ {KeepaliveGap, RegisterGap, TransactionTime, RetryAge, RefreshAge, FailLimit,
      Expires, MonitorKeepalive} \subseteq Nat \ {0}
  /\ {MaxFaults, RecoveryTime, CalmCap} \subseteq Nat
  /\ Timer = {"gate", "server"}
  /\ NULL \notin CallId

(* The timer calls back in every period but one in Wrap; the server waits for  *)
(* longer than the gateway takes to send a keepalive and eXosip to refresh;    *)
(* and RecoveryTime and CalmCap are long enough for what has to be repeated:   *)
(* as many keepalives as it takes to give up a registration, or a refresh.     *)
TimesFit ==
  /\ Elapse = 1 /\ Wrap > 1
  /\ KeepaliveGap + 1 < MonitorKeepalive
  /\ RetryAge <= RefreshAge /\ RefreshAge + KeepaliveGap + 1 < Expires
  /\ TransactionTime + FailLimit * (KeepaliveGap + 1) + 3 <= RecoveryTime
  /\ RetryAge + KeepaliveGap + 3 <= RecoveryTime
  /\ RecoveryTime <= CalmCap
  /\ TransactionTime + RefreshAge + KeepaliveGap + 3 <= CalmCap

VARIABLES
  gate,      (* g_bRegisterSuccess, the ages of g_i64RegisterTime and of       *)
             (* g_i64LastKeepaliveTime, iMsgFailureCount, and whether the      *)
             (* timer thread is between building a REGISTER and sending it, or *)
             (* between refreshing one and noting the time                     *)
  reg,       (* the eXosip_reg_t: its Call-ID, how its last transaction went   *)
             (* and how long ago that was sent                                 *)
  requests,  (* the open transactions                                          *)
  events,    (* eXosip.j_events                                                *)
  event,     (* the event the event thread handles                             *)
  server,    (* whether it runs; the registration of the gateway, with the     *)
             (* ages of i64KeepaliveTime and i64RegisterTime                   *)
  faults, calm

gatewayVars == <<gate, reg, requests, events, event>>
vars == <<timerVars, gatewayVars, server, faults, calm>>

Event == {"success", "failure", "answered", "requestfailure"}

Gate == [registered : BOOLEAN, register : 0 .. RegisterGap, keepalive : 0 .. KeepaliveGap,
         failures : 0 .. FailLimit - 1, building : BOOLEAN, refreshing : BOOLEAN]

Reg == [callid : CallId, last : {"none", "open", "2xx", "no2xx"}, age : 0 .. RefreshAge + 1]

Request == [callid : CallId \cup {NULL},
            at : {"sent", "200", "400", "lost", "provisional"},
            age : 0 .. TransactionTime]

Endpoint == [callid : CallId, keepalive : 0 .. MonitorKeepalive, register : 0 .. Expires]

ASSUME NullAssumption == NULL \notin Reg \cup Endpoint \cup Event

TypeOK ==
  /\ TimerTypeOK
  /\ gate \in Gate /\ reg \in Reg \cup {NULL}
  /\ requests \subseteq Request
  /\ events \in Seq(Event) /\ event \in Event \cup {NULL}
  /\ server \in [up : BOOLEAN, endpoint : Endpoint \cup {NULL}]
  /\ faults \in 0 .. MaxFaults /\ calm \in 0 .. CalmCap

Init ==
  /\ TimerInit
  /\ gate = [registered |-> FALSE, register |-> RegisterGap, keepalive |-> KeepaliveGap,
             failures |-> 0, building |-> FALSE, refreshing |-> FALSE]
  /\ reg = NULL /\ requests = {} /\ events = <<>> /\ event = NULL
  /\ server = [up |-> FALSE, endpoint |-> NULL]
  /\ faults = 0 /\ calm = 0

AtMost(n, max) == IF n < max THEN n ELSE max

-----------------------------------------------------------------------------
(* The SIP stack. *)

(* eXosip_register_build_initial_register: a new registration, with a Call-ID
   of its own, takes the place of the one for the same address. *)
InUse == {r.callid : r \in requests}
           \cup (IF reg = NULL THEN {} ELSE {reg.callid})
           \cup (IF server.endpoint = NULL THEN {} ELSE {server.endpoint.callid})

BuildInitial == \E c \in CallId \ InUse :
                   reg' = [callid |-> c, last |-> "none", age |-> 0]

(* eXosip_register_send_register; a MESSAGE (NULL) has no registration. *)
Sent(callid) == [callid |-> callid, at |-> "sent", age |-> 0]

SendRegister == /\ reg' = [reg EXCEPT !.last = "open", !.age = 0]
                /\ requests' = requests \cup {Sent(reg.callid)}

MayRegister == reg # NULL /\ reg.last # "open"

(* eXosip_automatic_refresh *)
RefreshIsDue == /\ reg # NULL /\ reg.last \in {"2xx", "no2xx"}
                /\ \/ reg.age > RefreshAge
                   \/ reg.age > RetryAge /\ reg.last = "no2xx"

(* Whether this REGISTER is the last one of the registration: if not, nobody
   hears what became of it. *)
Current(r) == reg # NULL /\ r.callid = reg.callid

Report(e) == events' = Append(events, e)

(* cb_rcv2xx, cb_rcv4xx *)
Deliver(r) ==
  /\ r.at \in {"200", "400"}
  /\ requests' = requests \ {r}
  /\ IF r.callid = NULL
       THEN /\ Report(IF r.at = "200" THEN "answered" ELSE "requestfailure")
            /\ UNCHANGED reg
       ELSE IF Current(r)
              THEN Report("success") /\ reg' = [reg EXCEPT !.last = "2xx"]
              ELSE UNCHANGED <<events, reg>>
  /\ UNCHANGED <<timerVars, gate, event, server, faults, calm>>

(* Timer F ends the transaction.  cb_xixt_kill_transaction reports a request
   without any response; one that had a provisional response is forgotten. *)
TimeoutF(r) ==
  /\ r.age = TransactionTime
  /\ requests' = requests \ {r}
  /\ reg' = IF Current(r) THEN [reg EXCEPT !.last = "no2xx"] ELSE reg
  /\ IF r.callid = NULL
       THEN Report("requestfailure")
       ELSE IF Current(r) /\ r.at # "provisional"
              THEN Report("failure")
              ELSE UNCHANGED events
  /\ UNCHANGED <<timerVars, gate, event, server, faults, calm>>

-----------------------------------------------------------------------------
(* The gateway: the timer's callback. *)

Callback == at["gate"] = "call" /\ ~gate.building /\ ~gate.refreshing

(* mediaGateRegister, in two: what the callback builds is seen by the event
   thread before it is sent. *)
BuildRegister ==
  /\ Callback /\ ~gate.registered
  /\ BuildInitial
  /\ gate' = [gate EXCEPT !.building = TRUE]
  /\ UNCHANGED <<timerVars, requests, events, event, server, faults, calm>>

SendInitial ==
  /\ gate.building
  /\ Return("gate")
  /\ SendRegister
  /\ gate' = [gate EXCEPT !.building = FALSE]
  /\ UNCHANGED <<events, event, server, faults, calm>>

(* SipUA_RefreshRegister, which fails while a transaction is open; and if it
   did not, g_i64RegisterTime becomes a difference of times, which as a time is
   long past.  The answer may come before that, and what the event thread notes
   of it is then overwritten. *)
RefreshRegister ==
  /\ Callback /\ gate.registered /\ gate.register >= RegisterGap
  /\ IF MayRegister
       THEN /\ SendRegister /\ gate' = [gate EXCEPT !.refreshing = TRUE]
            /\ UNCHANGED timerVars
       ELSE Return("gate") /\ UNCHANGED <<reg, requests, gate>>
  /\ UNCHANGED <<events, event, server, faults, calm>>

NoteRefresh ==
  /\ gate.refreshing
  /\ Return("gate")
  /\ gate' = [gate EXCEPT !.register = RegisterGap, !.refreshing = FALSE]
  /\ UNCHANGED <<reg, requests, events, event, server, faults, calm>>

Keepalive ==
  /\ Callback /\ gate.registered /\ gate.register < RegisterGap
  /\ IF gate.keepalive >= KeepaliveGap
       THEN /\ gate' = [gate EXCEPT !.keepalive = 0]
            /\ requests' = requests \cup {Sent(NULL)}
       ELSE UNCHANGED <<gate, requests>>
  /\ Return("gate")
  /\ UNCHANGED <<reg, events, event, server, faults, calm>>

keepaliveMsgTimer == BuildRegister \/ SendInitial \/ RefreshRegister \/ NoteRefresh \/ Keepalive

-----------------------------------------------------------------------------
(* The gateway: the event thread. *)

(* threadEventLoop up to the switch: every event is an occasion to refresh. *)
NextEvent ==
  /\ event = NULL /\ events # <<>>
  /\ event' = Head(events) /\ events' = Tail(events)
  /\ IF RefreshIsDue THEN SendRegister ELSE UNCHANGED <<reg, requests>>
  /\ UNCHANGED <<timerVars, gate, server, faults, calm>>

Handle(e, g) ==
  /\ event = e /\ event' = NULL
  /\ gate' = g
  /\ UNCHANGED <<timerVars, reg, requests, events, server, faults, calm>>

mediaGateHandleRegisterSuccess ==
  Handle("success", [gate EXCEPT !.registered = TRUE, !.register = 0])

mediaGateHandleRegisterFailure ==
  Handle("failure", [gate EXCEPT !.registered = FALSE])

(* Faulty variants: the counter passes its limit; and nothing follows it. *)
MessageFailureOffByOne ==
  Handle("requestfailure",
         IF gate.failures + 1 > FailLimit
           THEN [gate EXCEPT !.failures = 0, !.registered = FALSE]
           ELSE [gate EXCEPT !.failures = @ + 1])

MessageFailureIgnored == Handle("requestfailure", gate)

(* Keepalives that failed are counted since the start, not in a row. *)
mediaGateHandleMessageFailure ==
  Handle("requestfailure",
         IF gate.failures + 1 >= FailLimit
           THEN [gate EXCEPT !.failures = 0, !.registered = FALSE]
           ELSE [gate EXCEPT !.failures = @ + 1])

MessageAnswered == Handle("answered", gate)

GB28181EventCB == \/ mediaGateHandleRegisterSuccess \/ mediaGateHandleRegisterFailure
                  \/ mediaGateHandleMessageFailure \/ MessageAnswered

-----------------------------------------------------------------------------
(* The server. *)

Answer(r, code, endpoint) ==
  /\ r.at = "sent" /\ server.up
  /\ requests' = (requests \ {r}) \cup {[r EXCEPT !.at = code]}
  /\ server' = [server EXCEPT !.endpoint = endpoint]
  /\ UNCHANGED <<timerVars, gate, reg, events, event, faults, calm>>

(* A REGISTER with a body is accepted; one with another Call-ID ends the calls
   of the endpoint. *)
insertEndpoint(r) ==
  r.callid # NULL /\ Answer(r, "200", [callid |-> r.callid, keepalive |-> 0, register |-> 0])

(* Faulty variant: the keepalive is answered and not noted. *)
KeepaliveNotNoted(r) ==
  /\ r.callid = NULL
  /\ Answer(r, IF server.endpoint = NULL THEN "400" ELSE "200", server.endpoint)

updateSipEndpointKeepalive(r) ==
  /\ r.callid = NULL
  /\ IF server.endpoint = NULL
       THEN Answer(r, "400", NULL)
       ELSE Answer(r, "200", [server.endpoint EXCEPT !.keepalive = 0])

Overdue == \/ server.endpoint.keepalive >= MonitorKeepalive
           \/ server.endpoint.register >= Expires

checkSipEndpointHeartbeat ==
  /\ Return("server")
  /\ server' = IF server.endpoint # NULL /\ Overdue
                 THEN [server EXCEPT !.endpoint = NULL] ELSE server
  /\ UNCHANGED <<gatewayVars, faults, calm>>

(* initCallManager; StopSipServer and releaseCallManager, which waits for the
   monitor; and the end of the process without them. *)
StartSipServer ==
  /\ ~server.up /\ Create("server")
  /\ server' = [up |-> TRUE, endpoint |-> NULL]
  /\ UNCHANGED <<gatewayVars, faults, calm>>

Fault == faults < MaxFaults /\ faults' = faults + 1 /\ calm' = 0

StopSipServer ==
  /\ Fault /\ server.up /\ Release("server")
  /\ server' = [server EXCEPT !.up = FALSE]
  /\ UNCHANGED gatewayVars

SipServerStopped == Released("server") /\ UNCHANGED <<gatewayVars, server, faults, calm>>

SipServerDies ==
  /\ Fault /\ server.up
  /\ server' = [up |-> FALSE, endpoint |-> NULL]
  /\ timer' = [timer EXCEPT !["server"] = Freed]
  /\ at' = [at EXCEPT !["server"] = "none"]
  /\ UNCHANGED <<tick, gatewayVars>>

-----------------------------------------------------------------------------
(* The network and time. *)

(* A request or its answer is lost for good; a proxy may have sent a
   provisional response before. *)
Lose(r) ==
  /\ Fault
  /\ \/ r.at \in {"sent", "200", "400"} /\ requests' = (requests \ {r}) \cup {[r EXCEPT !.at = "lost"]}
     \/ r.at = "sent" /\ r.callid # NULL
        /\ requests' = (requests \ {r}) \cup {[r EXCEPT !.at = "provisional"]}
  /\ UNCHANGED <<timerVars, gate, reg, events, event, server>>

Pending == \/ events # <<>> \/ event # NULL
           \/ \E r \in requests : r.at \in {"200", "400"} \cup (IF server.up THEN {"sent"} ELSE {})

Older(x, max) == AtMost(x + 1, max)

Period ==
  /\ Tick
  /\ \A r \in requests : r.age < TransactionTime
  /\ \/ Pending /\ Fault
     \/ /\ ~Pending /\ UNCHANGED faults
        /\ calm' = IF server.up /\ timer["gate"].live THEN Older(calm, CalmCap) ELSE 0
  /\ gate' = [gate EXCEPT !.register = Older(@, RegisterGap), !.keepalive = Older(@, KeepaliveGap)]
  /\ reg' = IF reg = NULL THEN NULL ELSE [reg EXCEPT !.age = Older(@, RefreshAge + 1)]
  /\ requests' = {[r EXCEPT !.age = @ + 1] : r \in requests}
  /\ server' = IF server.endpoint = NULL THEN server
               ELSE [server EXCEPT !.endpoint.keepalive = Older(@, MonitorKeepalive),
                                   !.endpoint.register = Older(@, Expires)]
  /\ UNCHANGED <<events, event>>

GB28181MediaGate_Init ==
  /\ at["gate"] = "none" /\ Create("gate")
  /\ UNCHANGED <<gatewayVars, server, faults, calm>>

TimerThread(h) == Advance(h) /\ UNCHANGED <<gatewayVars, server, faults, calm>>

Next ==
  \/ GB28181MediaGate_Init \/ keepaliveMsgTimer
  \/ NextEvent \/ GB28181EventCB
  \/ \E r \in requests : Deliver(r) \/ TimeoutF(r) \/ insertEndpoint(r)
                          \/ updateSipEndpointKeepalive(r) \/ Lose(r)
  \/ StartSipServer \/ StopSipServer \/ SipServerStopped \/ SipServerDies
  \/ checkSipEndpointHeartbeat
  \/ \E h \in Timer : TimerThread(h)
  \/ Period

Spec == Init /\ [][Next]_vars

-----------------------------------------------------------------------------
Registered == gate.registered /\ server.endpoint # NULL

(* Whatever was lost and however the server ended and came back:            *)
(* RecoveryTime periods after the last fault gateway and server both hold a  *)
(* registration.  The gateway learns that a new server does not know it only *)
(* from keepalives answered 400 (mediaGateHandleMessageFailure), and its own *)
(* notion of the registration's age is wrong after each refresh              *)
(* (g_i64RegisterTime = i64RegGap).                                          *)
RecoversInTime == calm >= RecoveryTime => Registered

(* After CalmCap periods, which include a refresh, the registration stays,   *)
(* and stays the same: no window of the server (checkSipEndpointHeartbeat)   *)
(* closes between two keepalives or two refreshes, and no REGISTER with      *)
(* another Call-ID comes, for which insertEndpoint would drop the calls of   *)
(* the gateway, although two threads register, each on its own clock: the    *)
(* timer and eXosip's refresh.                                               *)
CallsSurviveCalm ==
  [][calm = CalmCap /\ calm' = CalmCap
       => server.endpoint # NULL /\ server'.endpoint # NULL
          /\ server'.endpoint.callid = server.endpoint.callid]_vars

(* A gateway that has been registered for longer than any request lives only *)
(* refreshes, and insertEndpoint takes what comes for a refresh.  It does    *)
(* not: a gateway that tries until the server answers has several REGISTERs  *)
(* on their way, the server may have handled another one last than the one   *)
(* whose answer the gateway heard of, and then the first refresh is a        *)
(* restart to it that ends all calls.                                        *)
RefreshIsNoRestart ==
  [][\A r \in requests :
       /\ insertEndpoint(r) /\ server.endpoint # NULL
       /\ gate.registered /\ gate.register > TransactionTime
       => r.callid = server.endpoint.callid]_vars
=============================================================================
