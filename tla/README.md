# A specification of the GB28181 SIP server

GB28181 is the Chinese national standard for video surveillance over SIP.
The program under `src/GB28181` is a signalling server: camera platforms
register with it, report their catalogue of cameras and keep themselves alive;
callers send INVITE requests for a camera, and the server opens a second call
leg to the platform that has it and relays the session description, the
answers, the ACK and the BYE between the two legs. The sources also hold a
media gateway (the client side of the same protocol, with RTP receivers and
senders), a small web-style interface ("V3") to the server, and the vendored
libraries osip2/eXosip2, tinyxml and jsoncpp.

| module | what it is |
|---|---|
| `CallRegistry` | abstract specification: registrations, and the calls between registered endpoints |
| `SipServer` | the server: event thread, monitor timer, their mutexes, the call contexts and the SIP stack's call legs |
| `SipServerProofs`, `SipServerRefinementProofs` | its theorems: types and safety; that it implements `CallRegistry`, and what an answered call can count on |
| `StreamInstances` | the streams of the media gateway: event thread, application, receiving threads |
| `StreamInstancesProofs` | its theorems: types, who owns an instance, and what holds when the application calls from its callback only |
| `ThreadTimer` | a timer thread, its callback and its release |
| `GatewayRegistration` | how the gateway stays registered with the server: both timers, the SIP stack's registration, lost requests, a server that stops |
| `GatewayRegistrationProofs` | its theorems: types; no callback after the release |
| `StreamFrames` | a frame's way from a pusher over a lossy network to a puller |
| `StreamFramesProofs`, `StreamFramesDeliveryProofs` | its theorems: what multiplexer and header removal compute, types; that frames arrive whole, and undisturbed ones arrive whatever happens to the others |
| `Call` | abstract specification: what two programs hear of one call between them |
| `SipTransactions` | one call over UDP in the vendored stacks: transactions, dialogs, timers, a network that loses, repeats and delays |
| `SipTransactionsProofs`, `SipTransactionsAgreementProofs` | its theorems: types, one call at a time, and that it implements `Call`; that both sides agree in the end, and that an acknowledged call stays |
| `MCSipServer`, `MCStreamInstances`, `MCGatewayRegistration`, `MCStreamFrames`, `MCSipTransactions` | constants for TLC |

Every run is `tlc -config <run>.cfg <MC module>`, every proof `tlapm <module>`.

## 1. Inventory

| component | source | state | operations |
|---|---|---|---|
| Call manager | `CallManager.cpp`, `SipEndpointInfo.cpp` | registered endpoints with their devices, call contexts, pending playback INVITEs, three mutexes | insert/remove/query endpoint, keepalive, new/remove/lookup context, insert/take/remove playback INVITE, monitor timer |
| SIP server handlers | `SipServer.cpp` 307-918, 1426-1624 | none of its own | one handler per event of the SIP stack: REGISTER, MESSAGE (Keepalive, Catalog, RecordInfo), INVITE (Play, Playback), its answers, ACK, BYE |
| SIP user agent | `SipUA/SipUA.cpp`, eXosip2 | call legs (cid, did, tid), event queue | event loop, send INVITE, answer, ACK, terminate, message, register; SDP, Subject and header conversion |
| Registration client | `SipServer.cpp` 77-116, 607-672 | `g_bRegisterSuccess`, threads | register thread, heartbeat thread |
| V3 interface | `SipServer.cpp` 170-181, 921-1424 | port pool | stream start/stop, status, file list |
| Thread timer | `Common/ThreadTimer.cpp` | one thread and one semaphore per timer | create, elapse, release |
| Media gateway | `GB28181MediaGate.cpp` | registration state and times, map of stream instances | register/keepalive timer, INVITE, answer, ACK, BYE, create/delete puller and pusher |
| Stream puller | `GB28181StreamPuller.cpp` | socket, RTP session, thread, frame buffer | init, release, pull loop, RTP reassembly, PS header removal |
| Stream pusher | `GB28181StreamPusher.cpp` | RTP session, sequence | init, send frame in blocks, release |
| PS multiplexer | `psmux/psmux.cpp` | none (buffer) | PS/system/map/PES headers |
| RTCP | `RtcpPacket.cpp` | none | build sender report and SDES |
| Configuration | `ConfigSipServer.cpp`, `ConfigFile/` | settings | read ini |
| osip2 | `libosip2-3.5.0/src/osip2` (vendored) | four kinds of transactions with their timers, dialogs | find a transaction, handle a message or a timer, match a dialog; parser |
| eXosip2 | `libeXosip2-3.5.0/src` (vendored) | calls with their dialogs, registrations, the event queue | new request, answer, ACK, BYE, resend the 200 OK, answers out of transaction, release; register, refresh |
| tinyxml, jsoncpp, md5 | vendored | - | - |

How they interact. `SipUA.cpp` runs one event thread (`threadEventLoop`), which
takes events of eXosip one by one and calls `sipServerEventCB`, which calls one
handler and returns. `CCallManager` creates one `ThreadTimer`, whose thread
calls `doMonitorSipEndpoint` every 10 s. The two threads share the call
manager's three tables; `m_tLockSipEndpoint` protects the endpoints,
`m_tLockCallContext` the contexts, `m_tLockPlaybackCaller` the pending playback
INVITEs. `removeCallContextBySipId` takes the second inside the first.

What is hard. (1) The two threads: a context pointer used after a lookup, the
two critical sections of an endpoint's removal, nested mutexes. (2) Events that
arrive late or twice: an answer for a call that was released, RecordInfo twice,
a cancel that crosses the answer, a 200 OK still queued when the call is hung
up. (3) Time: a clock value read before a wait,
registrations without `Expires`, a playback request that times out while it is
being forwarded. (4) Partial failure: INVITE not sent, answer refused by the
stack, a leg without a dialog that has to be terminated. (5) In the gateway,
threads that outlive their objects and timers that race with registration. (6) In
the stacks, messages that come late, twice or not at all, when the transaction,
the dialog or the call they belong to may have gone.

Correctness, by component.
- Call manager: an endpoint that leaves takes its calls with it; a call's callee
  is registered; no leg is in two calls; no context is used after it was freed;
  nothing is dropped before its time, and what is silent is dropped.
- Handlers: an answered caller has an answered callee until both are hung up; a
  released call leaves no leg behind; each pending INVITE is forwarded once.
- Registration client, gateway: at most one thread per duty; the client
  registers again in time; a stream is released exactly once and after its
  threads have ended.
- Port pool: no port is given out twice and a failed start gives all back.
- SIP stacks: what both programs hear are the steps of one call; nobody is in two
  calls of one INVITE; an acknowledged call stays, both sides agree in the end, and
  everything ends that has to.
- Multiplexer and puller: what is pushed comes out as it was; damage on the way
  stays with the frame it happened to.

## 2. Plan

| step | modules | state |
|---|---|---|
| 1 | `CallRegistry`, `SipServer` and its proofs: what the program is for | done |
| 2 | `StreamInstances` and its proofs: life cycle of the gateway's streams | done |
| 3 | `StreamFrames` and its proofs: multiplexer, RTP blocks, reassembly | done |
| 4 | `ThreadTimer`, `GatewayRegistration` and its proofs: register, keepalive and failure handling of the gateway (`GB28181MediaGate.cpp` 84-164, 394-430), against the server's registrar | done |
| 5 | `Call`, `SipTransactions` and its proofs: the transactions and dialogs of the vendored stacks, on which every call of the program rests | done |
| 6 | `RegisterClient`: register and heartbeat threads of `SipServer.cpp` 77-116, 607-672, which multiply with each failure | open |
| 7 | `PortPool`: the V3 interface (`SipServer.cpp` 921-1424). The two searches for a port (1177, 1195) assign `bused = false` where they should compare, so that as it stands no request ever gets a port; the model has to show this first | open |
| 8 | `Sdp`: which lines of a session description survive the relay. `mediaInfo2String` writes the audio line from the video's record (`SipUA.cpp`, about line 475) | open |

Every safety property that a passing run checks is proved, those of
`SipTransactions` and `GatewayRegistration` that hold because of the values of the
times from assumptions that relate these times.

## 3. `SipServer`: the server

| variable | code |
|---|---|
| `endpoints` | `m_mapSipEndpoints`: Call-ID, type, `expires`, ages of `i64KeepaliveTime` and `i64RegisterTime`, device ids |
| `calls`, `heap` | `m_lsCallContext` and the blocks its elements point to |
| `playback` | `m_mapPlaybackCallerInfo` |
| `lockE`, `lockC` | owners of `m_tLockSipEndpoint`, `m_tLockCallContext` |
| `pc`, `victim`, `loc` | where each thread is, the argument of `removeCallContextBySipId`, the handler's locals |
| `todo`, `lag` | the timer's iteration and the age of its `i64CurTime` |
| `leg`, `next` | eXosip's call legs, and the next cid |
| `puller` | the stream puller `handleCatalogMsg` creates |

An action is the code between two points at which the other thread can be seen:
a critical section without another lock inside is one action, an access to a
context outside its mutex is an action of its own. `Dispatch` starts a handler,
`Handle` continues it, `Monitor` is the timer thread, `Tick` lets a period pass
and `Unhandled` is an event of a peer that no handler gets.

Abstractions. SDP, subject, ports and addresses are left out (nothing in the
tables depends on them); the device catalogue is a set of ids; eXosip is the
status of each leg, with the rules of `eXosip_call_terminate`,
`eXosip_call_send_answer` and `eXosip_call_send_ack` that decide whether
anything is sent. A freed block reads as zeroes; `NoUseAfterFree` is the
property that says it is never read. Times are ages in timer periods, not told
apart beyond `AgeCap`, which no window plus the age of the clock value exceeds.

`CallRegistry` is what the header promises, without threads: endpoints `Join`,
`Restart` and `Leave`, the latter two only without calls, and calls `Connect`
between two legs of their own and `HangUp`. The mapping takes a context as a
call from the moment its callee is filled in; what is in the list before that is
invisible to every lookup by SIP id.

## 4. `StreamInstances`: the streams of the gateway

| variable | code |
|---|---|
| `live`, `used` | the `CGB28181StreamInstance` blocks that are allocated, and that ever were |
| `obj` | their members: kind, `m_cid`, `m_did`, `m_bAutoRelease`, `m_bThreadWorking` and the count of `m_semWaitExit` |
| `map` | `g_mapGB28181StreamInstance` |
| `recv` | the receiving thread of each puller |
| `handle` | the `HMG` handles an application has got and not deleted |
| `leg`, `next` | eXosip's call legs |
| `pc`, `loc` | where the SIP event thread and the application's thread are, with their locals |

The handlers of `GB28181EventCB` and the two calls of the interface,
`GB28181MediaGate_CreateStreamPuller` and `..._DeleteStreamPuller`, are cut
wherever they go from one shared object to another: nothing here has a mutex.
`Create*`, `Delete*` and `Erase*` are run by either thread. The application may
call them from its event callback (`InviteCallback`, `ReleaseCallback`) or, if
`Concurrent`, from a thread of its own at any time. `releaseStreamPuller` is two
steps, clearing the flag and waiting for the semaphore, and `PullStreamEnds` is
the end of the receiving thread, because of the flag or because `select` failed.

Abstractions. One operation of `std::map` is one step (what two at once do to a
tree has no outcome to enumerate). Ports and the proxy are left out: each of the
three attempts may fail. The allocator does not give a block to a second
instance; where freed memory is read to decide something, the outcome is a
choice. SDP is left out, and so is CANCEL: one that is received reaches no
handler, and the one that `SipUA_TerminateCall` sends for a puller's leg with did 0
after a provisional answer (`eXcall_api.c:981-1003`) is not sent here. The peer
may refuse or answer such a leg at any time, with or without the CANCEL, so
this leaves it more, not less, to do.

## 5. `GatewayRegistration`: staying registered

| variable | code |
|---|---|
| `tick`, `timer`, `at` (`ThreadTimer`) | `Comm_GetTickCount`, `SThreadTimerParam`, where the timer's thread is |
| `gate` | `g_bRegisterSuccess`, the ages of `g_i64RegisterTime` and `g_i64LastKeepaliveTime`, `iMsgFailureCount`; whether the callback has built a REGISTER and not sent it, or sent a refresh and not noted its time |
| `reg` | the `eXosip_reg_t`: Call-ID, how its last transaction went, its age |
| `requests` | open REGISTER and keepalive transactions, with what the network did to them |
| `events`, `event` | eXosip's event queue, and the event being handled |
| `server` | whether it runs; its `CSipEndpointInfo` of the gateway |
| `faults`, `calm` | faults so far; periods since the last one (for the properties) |

`ThreadTimer` has no period of its own: `Tick` is possible when no thread has
anything left to do, as each looks at the clock every 50 ms and its callback
comes every 10 s. `GatewayRegistration` has two of them, `"gate"`, which
calls `keepaliveMsgTimer`, and `"server"`, which calls the monitor. The gateway
cannot be released without ending the process's SIP stack, so only the server's
timer is.

A REGISTER is built and sent in two steps, between which the event thread may run
`eXosip_automatic_refresh`. A transaction is taken as a whole here: one answer,
or none after `TransactionTime`. Without a fault what can be done in a period is
done in it, in any order; a period that ends while something is on its way is a
fault like a lost request. The error at `GB28181MediaGate.cpp:138`, where the
registration time becomes a difference, is an action of its own, `NoteRefresh`,
after `RefreshRegister` has sent: no lock keeps the event thread from noting the
answer (line 399) in between, and then the difference replaces the time of the
answer. After it the gateway takes its registration for long past and refreshes
again at each callback until an answer comes that is noted later.

## 6. `StreamFrames`: from pusher to puller

| definition | code |
|---|---|
| `h264PsMux`, `addPesHeader`, `PesPacket` | `psmux.cpp`: which headers precede which unit, PES packets of at most 65522 bytes, a 16-bit length that counts 13 bytes of its own header |
| `Blocks`, `inputFrameData` | the pusher's blocks of 1400 bytes |
| `Lose`, `Swap`, `Duplicate` | UDP; `Lose` is also a block that `sendOneBlock` gives up |
| `StartFrame`, `JoinPacket` | `handleRtpData` |
| `fillFrameBuff`, `cutPsHeader`, `CutCell` | the receive buffer of 1 MB and the removal of the headers |
| `buf`, `len` | `m_pPsData` as far as it was ever written, and `m_iPsDataLen` |

A header is one cell, and so is a piece of data; the receiver joins packets
without looking at the sequence number, so this is left out. The bytes behind
`len` are kept: the code never clears them and can read them. `sent`, `faults`
and `hurt` are history variables, for the properties. The sending of all blocks
of a unit is one action: the receiver cannot tell when a packet was put on the
wire, only when it arrives. Left out are a block boundary inside a header, the
pusher's own buffer of 512 KB, which is written without a look at its length, and
that `cutPsHeader` goes on 18 bytes before the end of a PES packet, since it does
not count the header (`GB28181StreamPuller.cpp:404`). In a frame without loss
these bytes hold no start code. In one with a loss they may hold the header of a
later packet, whose data is then in the frame twice: no property says anything
of the contents of such a frame.
The loops of the code are functions over the numbers of their turns: `Join` puts
parts one behind the other, and `cutPsHeader` lets `CutCell` look at one cell
after the other.

## 7. `SipTransactions`: a call in the SIP stacks

| variable | code |
|---|---|
| `ict`, `ist`, `nict`, `nist` | `osip_transaction_t` of the INVITE on either side and of each BYE: state, and the timers A/B/D, G/H/I, E/F/K, J (`osip_ict_t` and the like) |
| `cancel` | the client and the server transaction of the CANCEL |
| `caller`, `callee` | `eXosip_call_t` with its `eXosip_dialog_t`; `jd` is the state of `d_dialog`, `wait` and `count` are `d_timer` and `d_count`, `age` the time since `birth_time`; `heard` is what the events told the program above |
| `net` | the datagrams under way, with their age |
| `faults` | how many were lost, repeated or delayed |

`Receive` takes a datagram through `_eXosip_handle_incoming_message` to the
transaction it belongs to or to `eXosip_process_newrequest` and
`eXosip_process_response_out_of_transaction`, with what the transaction then
tells eXosip (`cb_rcv1xx`, `cb_rcv2xx_4invite`, `cb_rcv4xx`). `Program` is what a
program asks of its stack through `SipUA.cpp`: answer, refuse, acknowledge, hang
up. `Accept` queues the 200 OK, as `eXosip_call_send_answer` does; until eXosip's
thread sends it (`Send200`) a CANCEL or a BYE may be handled, and a hang-up of the
callee's program comes to nothing (section 10). `CallerCancels` is
`eXosip_call_terminate` after a provisional answer: eXosip, as UAS, sends 101 by
itself, so nearly every hang-up before the answer is a CANCEL. `RcvCancel` refuses
an INVITE that is not answered and does nothing to another, and the caller keeps its
dialog and takes whatever final answer comes. `Expire` is what eXosip's thread finds
to do: `Send200`, a timer of osip2 (the CANCEL's in `TimeoutCancel`), eXosip's own
for the 200 OK, and the release of a call. `Tick` lets time pass when nothing is due,
and counts what is still under way as delayed.

The callee's stack can take a copy of the INVITE for a new call, when the
transaction and the dialog of the first have gone: `callee` and `ist` have an
entry for each call it takes the INVITE for. `Call` is what programs may rely on:
`Ask` only while the callee is in no call, `Accept`, `Decline`, `Answered` only
after one was accepted, and an end on each side. The mapping is `heard`.

Abstractions. 100 and 101, sent together, are one message. What answers a BYE, 200
or 481, makes no difference to the side that sent it. An ACK and a BYE are matched
by Call-ID and the caller's tag alone, as in the code. The seconds a stack keeps a
call that has ended (`completed_time`) are left out; the 180 s are those of the
INVITE's transaction. Copies of the INVITE that arrive after `MaxCall` calls are
dropped. The caller's program cancels once. What a stack does with one message, with
the answers it gives itself, is one step, and so is a refusal; only the program's
200 OK waits in the queue. So a program that answers in the same turn in which
`eXosip_process_cancel` has queued its 487, but before the transaction has sent it,
is left out: its 200 OK would be dropped behind the 487. What a CANCEL is answered,
200 or 481, makes no difference, and `SipUA` does not pass on
`EXOSIP_CALL_CANCELLED`. Reliable transports, authentication and redirection are left
out. The server transaction of a BYE sent without a transaction is only kept if it ended a
call.

## 8. Runs

| run | instance | what it shows |
|---|---|---|
| `sipserver_calls` | 1 platform, 1 device, 2 Call-IDs, 2 contexts, 4 legs | with two overlapping calls, every leg has at most one context (`OneContextPerLeg`), an answered caller has an answered callee until it is hung up (`AnsweredCallerIsBridged`), and no answered callee stays without a context (`BridgedLegsEndTogether`) |
| `sipserver_registrations` | 2 platforms, 2 Call-IDs, 2 contexts, 3 legs | `TypeOK`; a context used under one of the two mutexes is in the list (`LockedUseIsSafe`); callees are registered (`CalleeIsRegistered`); who leaves takes his calls along (`LeavesWithItsCalls`); the refinement (`ImplementsCallRegistry`) |
| `sipserver_timers` | 1 platform, 2 legs, `Expires` in {-1, 0, 2}, windows of 1 and 2 periods, ages up to 3, a clock up to 1 period old, fairness | nothing is dropped in time (`TimerDropsOverdueOnly`), no thread is stuck (`HandlersFinish`, `MonitorFinishes`), the silent go (`SilentIsDropped`), no playback request waits for ever (`PlaybackIsResolved`) |
| `streams_relay` | 3 instances, 3 legs, calls from the callback only, fairness | `TypeOK`; a puller is freed after its thread (`ReceiverEndsFirst`); a stream that is up can be hung up (`AnsweredStreamHasDialog`) and is only forgotten when its call is down (`ErasedCallIsDown`); no call hangs (`CallsReturn`); BYE ends the stream (`ByeReleasesStream`) |
| `streams_threads` | 3 instances, 3 legs, an application thread | the map holds instances of their own leg that exist (`MapHasLiveInstances`); a handle dies only with its call (`HandleOutlivesCall`) |
| `frames_loss` | 4 units of 6 kinds, 2 faults, blocks of 6 cells, PES packets of 8, a receive buffer of 24 | `TypeOK` with the buffer's bound; without faults every frame arrives as it was (`FramesArriveWhole`); with faults every frame that was not hurt itself does (`UndisturbedFrameArrives`) |
| `gateway_registration` | 2 faults; in periods of 10 s: keepalive 2, failures 2, transaction 2, retry 5, eXosip's refresh 10, gateway's 12, expiry 14, monitor 5; a tick count that wraps at 4; 5 Call-IDs | `TypeOK`; a timer is freed after its thread (`ThreadHasTimer`); 11 periods after the last fault both sides hold a registration (`RecoversInTime`); after 17 it stays, and stays the same (`CallsSurviveCalm`) |
| `sip_transactions` | 2 calls of one INVITE, 2 faults, or 1 and a CANCEL; in ticks T1 1, T2 2, T4 1, 64*T1 6, 180 s 9, 200 OK resent after 1, 1, 2 and 2, a datagram under way for up to 2, fairness | `TypeOK`; the callee is in one call at a time (`OneLive`); a caller that acknowledged 5 ticks ago is not hung up for want of an ACK (`AckedCallSurvives`); when all is quiet both sides agree (`LegsAgree`), and it becomes quiet (`EverythingSettles`); the refinement (`ImplementsCall`) |
| `gateway_refresh` | the same as `gateway_registration`, without faults | violated: `RefreshIsNoRestart` |
| `sipserver_useafterfree` | 2 platforms, 1 context, 3 legs | violated: `NoUseAfterFree` |
| `sipserver_orphan` | 2 platforms, 1 context, 3 legs | violated: `ReleasedCalleeIsHungUp` |
| `streams_release` | 2 instances, 2 legs, an application thread | violated: `ReleasedOnce` |

Why the bounds are enough. Two contexts and four legs let two calls overlap,
each with a caller and a callee, through one platform; two platforms and two
Call-IDs let one restart while the other, or it, is in a call. Each kind of
interference between the two threads involves one endpoint and at most two
contexts, because both tables are searched for one SIP id or one leg at a time.
The timing constants are the smallest with which a window is open, is just
closed, and is long past while the clock value is stale; -1 is a registration
without `Expires`. Three instances and legs are a pushed stream, the pulled one
it is fed from, and one more that is created while another is erased. The frames
are chosen so that a unit fits one block, ends in a block of one cell, or needs
two PES packets, and that two pictures in one frame overrun the buffer. Only the
platform type is used in the passing runs of `SipServer`: the other one goes
through the same code, and the theorems hold for both.

The times of `gateway_registration` are in the order of the real ones (30 s, 32 s,
3 failures, 120 s, 900 s, and with `Expires` 3600: 3570 and 3600 s; the monitor
120 s), shortened so that each window is open, just closed and long past within
one calm stretch. `RecoveryTime` and `CalmCap` are the least that `TimesFit`
allows, which two theorems need and `MCGatewayRegistration` assumes, so that TLC
evaluates it. They are not tight: on this instance TLC finds no violation down to
8 and 15 periods, and one at 7 and 14. Two faults let a fault come while another is
being repaired, such as a server that dies again before the gateway has noticed,
and a Call-ID is always free with five.

In `sip_transactions` the real times are 0.5, 4, 5, 32 and 180 s and nine copies of
the 200 OK after 1, 1, 2, 4, ... s, about half a minute in all: shortened so that
the copies of the 200 OK last as long as 64*T1 and a call without an answer outlives
both. T4 is shorter than T2, unlike the real one: each tick of delay counts as a fault,
and with two of them a copy of an INVITE that was refused can then outlive the
transaction that refused it, as it can outlive a dialog that was hung up. Two faults
also let a message be lost whose repetition is lost too, or a copy arrive late while
another message is missing. `InTime` is tight for two faults: 4 fails. 180 s is the
least that `TimeAssumption` allows; `FewFaults`, which two theorems need, is assumed
in `MCSipTransactions`, so that TLC evaluates it. Two calls
are the least with which there is a second one. `Disturbed`, a constraint,
keeps the run to two faults without a CANCEL or one with it, which already lets a
CANCEL, its answer or what it crosses be lost, copied or late. It cuts nothing off
that has to happen: a datagram can always be received, which costs no fault. The
theorems are without it.

The streams, frames and transactions runs have `CHECK_DEADLOCK FALSE`: nobody has
to call or to push, legs, instances and units run out, and a call ends. `SipServer` never stops, as the
timer goes on.

Fairness. `SipServer`: both threads run until the process exits, and a thread
that waits for a mutex which becomes free again and again gets it in the end,
as no holder waits for the network (`SF` of `Handle` and `Monitor`); time
passes (`WF` of `Tick`). Peers are not fair: nothing has to arrive.
`StreamInstances`: a thread goes on with a call it has begun, as nothing in it
waits but for the receiving thread (`WF` of `Step`), and a receiving thread
whose flag was cleared leaves its loop, because its `select` has a timeout of
50 ms (`WF` of `PullStreamEnds`). Nobody has to call the gateway.
`SipTransactions`: eXosip's thread reads its socket, sends what is queued and looks at
the timers in each turn of its loop (`eXosip_execute`), a datagram that is not lost arrives, and time
passes: as long as any of these can go on, something does (`WF` of
`Receive \/ Expire \/ Tick`). The programs and the
network's faults are not fair: nobody has to answer or hang up.

## 9. Proofs

The theorems hold for all values of the constants that satisfy
`ConstantsAssumption` and `NullAssumption` (`SipServer`) or `StreamAssumption`
(`StreamInstances`) or `TimerAssumption`, `GatewayAssumption` and its own
`NullAssumption` (`GatewayRegistration`) or `TransactionAssumption` and `TimeAssumption`
(`SipTransactions`) or `FramesAssumption` (`StreamFrames`): bounds are natural numbers, no window plus
the age of the clock value exceeds `AgeCap`, `NULL` is none of the values it
stands in for, no unit, block or buffer is empty, and a PES length has room for
some data besides the header it counts.

`SipServer`
- `TypeCorrect` (`TypeOK`): by `TypeInv`, which adds `LocalsOK`, what the
  handler's locals hold at each point: a type alone does not say that the
  context pointer is one when it is used.
- `LockedUseIsSafeCorrect`, `CalleeIsRegisteredCorrect`,
  `LeavesWithItsCallsCorrect`: by `SafeInv`. `LockInv` says at which point which
  thread holds which mutex, so that a step of one thread excludes steps of the
  other; `VictimInv` that an endpoint about to be erased or restarted has no
  call left; `CalleeInv` that the callee of a call being set up stays
  registered.
- `OneContextPerLegCorrect`: by `CallInv`. `LegInv` says that cids are fresh and
  that a context joins a leg that came in with one that went out, `PendingInv`
  that a pending playback INVITE is in no context until it is forwarded,
  `InviteInv` that the legs a handler is about to put into a context are in no
  other, and `IdsInv` that the SIP ids of a context are written together.
- `ImplementsCallRegistryCorrect`: every step maps to a step of `CallRegistry`
  or changes nothing of it. The invariants above are what a removal in pieces
  needs: when the endpoint goes, its calls have gone (`VictimInv`); when a
  context is filled in, its legs are in no other call (`CallInv`) and its callee
  is registered (`CalleeInv`).
- `TimerDropsOverdueOnlyCorrect`: by `OverdueInv`, that the endpoint the timer is
  removing is overdue now and not only when it read the clock; nobody else can
  refresh it, because the timer holds `m_tLockSipEndpoint`.
- `AnsweredCallerIsBridgedCorrect` and `BridgedLegsEndTogetherCorrect`: by
  `BridgeInv`. `UpInv` is the two properties with the callee's dialog known to the
  context, which is what `SipUA_TerminateCall` needs to hang the callee up;
  `DialogInv` says that the tid and the did of a context are those of its own
  legs, and that the did is there only after the callee's 200 OK, so that a
  refusal never frees the context of an answered call; `FreedInv` and `HolderInv`
  what a handler that looked a context up without the mutex can still rely on
  when the timer frees it.

`GatewayRegistration`
- `ThreadHasTimerCorrect`: by `TimerInv`, that a timer which was told to stop is
  allocated until its semaphore was posted, and that this is the last thing its
  thread does. It holds for the server's timer although its process may die, and
  the callbacks change nothing of it.
- `TypeCorrect`: by `TypeInv`, which adds that a registration is there from the step
  that builds a REGISTER to the step that sends it, whatever the event thread
  hears in between; that the ages stay in their bounds rests on `TimerInv` only for
  the timers' own part.
- `RecoversInTimeCorrect` (`RecoversInTime`) and `CallsSurviveCalmCorrect`
  (`CallsSurviveCalm`): for any times, any number of faults and of Call-IDs, from
  `TimesFit`. It asks that the timer calls back in every period but the one in which
  the tick count wraps; that the server waits for longer than a keepalive takes and
  `Expires` is longer than eXosip's refresh, which is so for 3600 s but not for less
  than 16 minutes; and that the two bounds are long enough for what has to be repeated.
  With the real times these are 19 and 100 periods, about 3 and 17 minutes.
  - `StackInv` is what holds at any time: where the timer is between two calls
    (`ClockInv`), that whoever needs a registration finds one (`RegInv`), that a
    registration that waits for an answer has exactly one request of its own
    (`OpenInv`), that a lost request is at least as old as the calm (`StaleInv`), and so
    is a REGISTER that came to nothing (`SentInv`). So a transaction's time after the
    last fault nothing of the past is on its way.
  - From then on every period begins at rest and runs through a few stages
    (`AtStage`): a keepalive, its answer, its event, a REGISTER, its answer, its
    event, in any order with the timer and the monitor.
  - `AtPeace` says how far it has come. Either the registration is `Safe`: the ages at
    the server are bounded by those at the gateway (`Kept`), which are bounded as the
    next keepalive and the next refresh come in time, also past a wrap of the tick
    count. Or it is `Recovering`, and what is left to do still fits into
    `RecoveryTime`: the periods the timer skips, the keepalives until `FailLimit`
    refusals have been counted, the wait for eXosip's retry. The property alone says
    nothing before that time is over, when nothing can be repeated any more.
  - `Same` and `Old` are for the Call-ID: as long as the server holds another one than
    the gateway uses, the gateway's registration dates from before the calm, so its
    refresh comes before `CalmCap` and makes the two the same.

`SipTransactions`
- `TypeCorrect`: by itself; the number of resent 200 OKs is part of it.
- `OneLiveCorrect`: by `CallInv`. `CalleeInv` and `CallerInv` say how the state of a
  dialog and what the program has heard belong together, and when the INVITE's
  transaction may still report an answer; `AnswerInv` that a 200 OK under way is
  one of a call that was accepted. What a step does to this is one of a few
  events (`Heard`), which is shown action by action.
- `ImplementsCallCorrect`: each of these events is a step of `Call` or changes
  nothing of it. It holds for any number of faults, any timers and any number of calls.
- `LegsAgreeCorrect` (`LegsAgree`) and `AckedCallSurvivesCorrect`
  (`AckedCallSurvives`): for any number of calls, with `TimeAssumption` (T1 is at
  most T2, and nothing is under way for as long as 180 s less 64*T1) and from
  `FewFaults`: the faults do not reach as far as a sender goes on, that is 64*T1 for
  a BYE or a refusal and `Gap` for a 200 OK, nor as far as `InTime`. With T1 0.5 s,
  T2 4 s and nine copies of the 200 OK this allows seven faults, and `InTime` has
  to be longer than 4 s for each.
  - `Sound` is what both rest on: `CallInv`, and which timers of a transaction run
    (`TimerInv`, with `QueueTimers`, that none of a call runs out while its 200 OK is
    queued), how the state of a dialog belongs to what was sent and heard (`Shape`), and for each message under way that it was sent by one who had reason
    to (`MessageInv`). How a step changes it is one of a few moves of the caller, of a
    callee or of a BYE (`Moves`).
  - `LegsInv` adds why nothing stays behind. `Covered` charges each resending of a
    BYE or a refusal to a fault: while there is no answer a copy is under way, or
    64*T1 are far enough off for the faults that are left (`ByeInv`, `RefuseInv`).
    `OkInv` does so for the 200 OK of a caller that waits, in copies, the
    queued one included, instead of time, with `WaitInv`, what the count of the copies
    says of the wait. `InviteInv` bounds the age of the first call while an INVITE is under way, so that there
    is no second call before the caller has heard of the first (`FirstInv`), and
    the caller's dialog is that of the first call (`TagInv`); `EarlyBye` is what
    the exception in `LegsAgree` leaves to be shown of the rest. The property alone
    speaks of a quiet network, when it is too late to say why.
  - `SurvivesInv` is for the longest gap between two copies of the 200 OK: as long as
    the callee hears of no ACK, each such gap cost a fault since the caller
    acknowledged (`AckInv`), so that after `InTime` no callee is left that could hang
    up. `ByeTagInv` and `GoneInv` keep the caller's own BYE apart from the callee's.

`StreamInstances`
- `Ownership`: `OwnerInv` is inductive. It says for each point of each thread
  who knows an instance: a cid belongs to one instance (`CidInv`), a puller in
  the making is known to its creator alone (`EnterInv`), what a thread has
  looked up is of the leg it thinks (`BusyInv`), the pusher of an INVITE that is
  not accepted yet is known to its handler alone (`AskedInv`), and a release
  is the application's, whose handle is gone, or follows a BYE (`ReleaseInv`);
  `RetInv` is how calls nest. The two
  properties alone are not inductive: they say nothing of an instance between
  the lookup and its deletion, which is where the other thread interferes.
- `TypeCorrect`, `MapIsSound` (`MapHasLiveInstances`) and `HandleIsSafe`
  (`HandleOutlivesCall`) follow, with or without the application's thread.
- `ReceiverEndsFirstCorrect`, `DialogCorrect` (`AnsweredStreamHasDialog`) and
  `ErasedCallIsDownCorrect` are about an application that calls the gateway from
  its callback only (`Relay`, that is `~Concurrent`); `streams_release` shows
  what a second thread does to the release. They follow from `RelayInv`, which adds to
  `OwnerInv`: a receiving thread runs until its end was asked for and posts the
  semaphore only then (`ReceiverInv`); the dialog of a call that is up is noted
  with the 200 OK or in the very next step (`NotedInv`); and the call of a
  release is down already, because it was hung up by the other side or because
  the dialog that `GB28181MediaGate_DeleteStreamPuller` read was the right one
  (`OutboundInv`, `CallInv`).

`StreamFrames`
- `addPesHeader` and `cutPsHeader` are functions defined by recursion. `Recursion`
  shows that such a function exists, `Induction` that what each of its steps keeps
  holds at its end; both are stated for sets, as a theorem of the library that takes
  a predicate cannot be used. From them follow the lemmas the rest stands on: where
  each cell of a sequence lies in a joined one (`JoinCell`), that a PES length fits
  its 16 bits and tells what follows it (`PesPacketIs`), that cutting a packet gives its
  data and goes on behind it, and so for a unit and for a row of units (`CutsUnits`),
  and what each block of a unit is (`BlockIs`).
- `TypeCorrect` (`TypeOK`): by itself and `Sendable`, that no unit of another type was sent.
- `WholeFrames` (`FramesArriveWhole`): by `WholeIInv`. `NetInv` says that the blocks of
  unhurt units lie on the wire one behind the other, at `pos`, where what has already
  arrived counts below zero; `WholeInv` that the buffer holds what arrived of the
  frame that is open, and the application all frames before it. The property alone
  speaks of an empty wire and says nothing of a frame that is half there.
- `UndisturbedFrames` (`UndisturbedFrameArrives`): by `LocalIInv`. What a lost, moved or
  doubled packet does to the others is to shift them (`NetMoved`), and to add a block
  at most to what lies between two unhurt units (`LoadInv`). `FrameInv` says that each
  frame, as far as it came unharmed, is in the buffer from its first cell on, with room
  for all that can still come before the next opener (`Under`), or was delivered
  (`Over`). Without the count of the cells on the wire this is not inductive: a packet
  that comes twice may fill the buffer, and the frame in it is dropped.

Only model-checked: the liveness properties (fairness and `ENABLED` are out of
the prover's reach).

## 10. Disagreements between the code and its comments

- `sipserver_useafterfree`. `CallManager.h:110` asks for the lock while a
  context that was looked up is used. The handlers of a failure answer
  (`SipServer.cpp:841`) and of ACK (882) do not take it, and the timer can free
  the context in between.
- `sipserver_orphan`. `CallManager.h:120` says that every call of an endpoint
  that leaves is released. A callee that has not sent any answer yet, not even
  a provisional one, is not hung up (after a provisional answer eXosip sends a
  CANCEL, `eXcall_api.c:981-1003`); its later 200 OK finds no context.
- `streams_release`. Hanging up and a BYE at the same time release an instance
  twice (`GB28181StreamInstance.h:36`).
- `gateway_refresh`. Until an answer comes the gateway sends a new registration
  with a new Call-ID every 10 s, and eXosip retransmits each of them for 32 s. A
  server that becomes reachable may handle an older one last; it then takes the
  first refresh for a restart (`CallManager.cpp:318`, 323) and drops all calls of
  a gateway that has been registered all the time.

Seen on the way, without a run of their own: with an application thread the
200 OK can be handled before the new puller is in the map
(`GB28181MediaGate.cpp:745`), so that no dialog is noted and the stream cannot
be hung up; an INVITE the application refuses, or for which no port can be
opened, is never answered, against the comment at `GB28181MediaGate.h:42`; the
gateway deletes a puller on BYE before it tells the application, so that the flag
which should make a following delete harmless (`GB28181MediaGate.cpp:760`) is
read from freed memory; a puller whose INVITE cannot be sent is deleted while its
thread runs (739, against the comment at 237).

When the last, short packet of a frame is lost, the missing bytes are taken from
behind the received data (`GB28181StreamPuller.cpp:385`, against the comment at
334), left there by an earlier frame or never written; `frames_loss` shows that
the frames after it are not harmed.

In the stacks: the comment at `jcallback.c:803` has a BYE that overtakes the 200 OK
leave an empty dialog, so that the 200 OK is discarded. If no provisional answer
came first there is no dialog to be found: the BYE is answered 481, the 200 OK is
reported as an answer, and the caller stays in a call the callee has left
(`LegsAgree` leaves out the callee that hangs up before the ACK, `HungUpEarly`).
`osip_dialog_match_as_uas` (`osip_dialog.c:293`: both tags recognised is enough)
compares one tag only, so that the BYE an unwanted second call gets may end the
first one. That BYE is sent once, without a transaction: if it is lost too, which
takes two faults, the second call stays up at the callee. A callee that hangs up
while its 200 OK is still queued (`eXcall_api.c:942`) only queues a 603 behind it
(`eXcall_api.c:1016-1025`), which the transaction drops: no BYE is sent, and the call stays
up until the other side ends it.

## 11. Not modelled

Planned: the parts in steps 6 to 8 of the plan. Not planned: RTCP (one report
built out of its arguments), the configuration (read once; the values that
matter are constants), JSON statistics, character sets, the clock, `main`, and
the vendored parser, XML and JSON libraries. Of the vendored stacks,
re-INVITE, SUBSCRIBE, NOTIFY, PUBLISH, authentication, reliable transports and DNS
are left out; the program uses none of them for its calls, or cannot. `SipServer`
and `StreamInstances` are not composed with `SipTransactions`: they have eXosip's
call legs as far as the program sees them, and there an event reaches a handler
once, or never, which is what `Call` says of a leg.
