--------------------------------- MODULE Lme ---------------------------------
(***************************************************************************)
(* LmeSession (src/lme/mod.rs): the APF session the program keeps with the *)
(* ME's LME client to reach AMT's web server, with its callers             *)
(* (do_activate_ccm of src/main.rs, post_wsman of src/http.rs) and, as the *)
(* environment, the LME firmware at the other end.                         *)
(*                                                                         *)
(* The host is one thread that sends APF messages and runs three receive   *)
(* loops (handshake, channel open, response), each bounded by a number of  *)
(* attempts.  A host step is one pass of a loop: raw_recv, process_apf     *)
(* with the reply it sends, and the loop's exit conditions.  The ME moves  *)
(* between any two host steps.                                             *)
(*                                                                         *)
(* Target selects the transport: "uefi" drives HECI itself, grants the     *)
(* flow control credits and answers HBM disconnects; "windows" and "linux" *)
(* leave that to the MEI driver.                                           *)
(***************************************************************************)
EXTENDS Integers, Sequences

CONSTANTS
  Target,           \* "uefi", "windows" or "linux"
  HandshakeTries, OpenTries, RecvTries,   \* the loops' bounds: 40, 30, 100
  ChanMod,          \* our_channel counts modulo this (32)
  RxCap,            \* rx_buf, and the receive window advertised, in units
  BufCap,           \* the buffers of raw_recv and receive, in units
  AmtIds,           \* channel numbers the ME hands out (0 is one)
  Http, Other,      \* the ports the ME asks to forward
  InitScripts,      \* what the ME sends after the host's version
  Responses,        \* chunk sizes of the answers of AMT's web server
  Slow,             \* may the ME take longer than a timeout, to answer or
                    \* to make room for a message?
  MaxPosts,         \* bound: requests of one session
  MaxQueue          \* bound: the ME sends unasked below this many
                    \* unread messages of the host

ASSUME ParameterAssumption ==
  /\ Target \in {"uefi", "windows", "linux"}
  /\ {HandshakeTries, OpenTries, RecvTries} \subseteq Nat \ {0}
  /\ ChanMod \in Nat \ {0, 1}
  /\ RxCap \in Nat /\ BufCap \in Nat
  /\ AmtIds \subseteq Nat /\ 0 \in AmtIds
  /\ Slow \in BOOLEAN
  /\ MaxPosts \in Nat /\ MaxQueue \in Nat
  /\ Responses \subseteq Seq(Nat \ {0})

InitMessage ==
  [t : {"version", "service"}, a : {0}, b : {0}, c : {0}]
  \cup [t : {"forward"}, a : {Http, Other}, b : {0, 1}, c : {0}]

ASSUME ScriptAssumption == InitScripts \subseteq Seq(InitMessage)

VARIABLES
  (* LmeSession *)
  our, amt,         \* our_channel, amt_channel
  active,           \* channel_active
  pf,               \* port_forward_ok
  rx, rxLen,        \* what rx_buf holds, rx_len
  (* the program counter and locals of its methods *)
  pc,
  ctx,              \* whose handshake and open these are
  attempt, touts,   \* _attempt, timeout_count
  pvOk,             \* protocol_version_ok
  posts,            \* requests sent in this session
  (* the link *)
  up,               \* the ME is ready
  conn,             \* the LME client is connected, for the ME
  credit,           \* flow control credits the ME holds
  inbox,            \* client messages on their way to the host
  disc,             \* a disconnect is on its way to the host, after them
  toMe,             \* messages on their way to the ME
  orphans,          \* Windows: reads that timed out but are still pending
  starved,          \* a credit was given up on, on this connection
  lost,             \* what else never reached its reader on it
  (* the LME firmware *)
  script,           \* init messages still to send
  asked, granted,   \* ports it asked to forward, and those granted
  chan,             \* its channel
  req, resp, idx,   \* request being answered, chunks left, next chunk
  win               \* what the host's window still takes

session == <<our, amt, active, pf, rx, rxLen>>
control == <<pc, ctx, attempt, touts, pvOk, posts>>
link    == <<up, conn, credit, inbox, disc, toMe, orphans, starved, lost>>
me      == <<script, asked, granted, chan, req, resp, idx, win>>
vars    == <<session, control, link, me>>

-----------------------------------------------------------------------------
(* Messages.  Every record has the fields of all kinds.                    *)

Msg(t, a, b, c) == [t |-> t, a |-> a, b |-> b, c |-> c]

Pv            == Msg("version", 0, 0, 0)
Accept        == Msg("accept", 0, 0, 0)
Success(p)    == Msg("success", p, 0, 0)
Open(o)       == Msg("open", o, 0, 0)
Request(n, r) == Msg("data", n, r, 0)       \* channel, request
Adjust(n, s)  == Msg("adjust", n, s, 0)     \* channel, units
CloseMsg(n)   == Msg("close", n, 0, 0)
KeepReply     == Msg("keepalive_reply", 0, 0, 0)
DiscResp      == Msg("disconnect_resp", 0, 0, 0)

Service       == Msg("service", 0, 0, 0)
Forward(p, w) == Msg("forward", p, w, 0)    \* port, want_reply
Confirm(o, n) == Msg("confirm", o, n, 0)
Failure(o)    == Msg("failure", o, 0, 0)
Chunk(r, i, s) == Msg("data", r, i, s)      \* request, number, size
Keepalive     == Msg("keepalive", 0, 0, 0)

NoChan == [st |-> "none", peer |-> 0, id |-> 0]

(* The number of the host's next channel: 1 .. ChanMod - 1, round again.   *)
NextChannel == IF (our + 1) % ChanMod = 0 THEN 1 ELSE (our + 1) % ChanMod

(* raw_send.  It is refused at once by an ME that is not ready, or by the  *)
(* MEI driver if the client is not connected; and it may time out on an ME *)
(* that is up, after 5 s in wait_slots on UEFI or in WriteFile on Windows  *)
(* (never on Linux).                                                       *)
Refused == ~up \/ (Target # "uefi" /\ ~conn)

TimesOut == Slow /\ Target # "linux" /\ ~Refused

(* A grant is remembered, as the ME waits for it.                          *)
Rest == Msg("rest", 0, 0, 0)

Loses(m) ==
  /\ toMe' = toMe
  /\ lost' = lost \cup {IF m.t = "success" THEN m ELSE Rest}

Delivers(m) == toMe' = Append(toMe, m) /\ lost' = lost

(* It returns Ok.  On UEFI an earlier write that timed out may have left a *)
(* part of its message with the ME, which takes this one for the rest.     *)
Sent(m) ==
  /\ ~Refused
  /\ \/ Delivers(m)
     \/ Target = "uefi" /\ (lost # {} \/ starved) /\ Loses(m)

(* It returns Err.  On Windows the write is not cancelled, and may still   *)
(* be completed.                                                           *)
Unsent(m) ==
  \/ Refused /\ UNCHANGED <<toMe, lost>>
  \/ TimesOut /\ Loses(m)
  \/ TimesOut /\ Target = "windows" /\ Delivers(m)

(* Most of the session's sends ignore the result.                          *)
Put(m) == Sent(m) \/ Unsent(m)

-----------------------------------------------------------------------------
(* Connecting: heci.init or HeciContext::new, connect_client, the initial  *)
(* credit, and the first message of apf_handshake.                         *)

ResetSessionKeepsForward ==
  /\ our' = 0 /\ amt' = 0 /\ active' = FALSE /\ pf' = pf

ResetSession ==
  /\ our' = 0 /\ amt' = 0 /\ active' = FALSE /\ pf' = FALSE

ResetLink ==
  /\ inbox' = <<>> /\ disc' = FALSE /\ orphans' = 0
  /\ starved' = FALSE /\ lost' = {}
  /\ asked' = {} /\ granted' = {} /\ chan' = NoChan
  /\ script' = <<>> /\ req' = 0 /\ resp' = <<>> /\ idx' = 0 /\ win' = 0

(* LmeSession::init, and reconnect_lme in channel_open or reopen_channel.  *)
Starts == pc \in {"start", "reconnect"}

Fresh == IF pc = "start" THEN rx' = <<>> /\ rxLen' = 0 /\ posts' = 0
                         ELSE UNCHANGED <<rx, rxLen, posts>>

Connect ==
  /\ Starts
  /\ Fresh /\ ResetSession /\ ResetLink
  /\ up' = TRUE /\ conn' = TRUE /\ credit' = 1
  /\ toMe' = <<Pv>>
  /\ pc' = "handshake"
  /\ ctx' = IF pc = "start" THEN "init" ELSE ctx
  /\ attempt' = 0 /\ touts' = 0 /\ pvOk' = FALSE

ConnectFails ==
  /\ Starts
  /\ Fresh /\ ResetSession /\ ResetLink
  /\ up' \in BOOLEAN /\ conn' = FALSE /\ credit' = 0
  /\ toMe' = <<>>
  /\ pc' = "failed"
  /\ ctx' = IF pc = "start" THEN "init" ELSE ctx
  /\ UNCHANGED <<attempt, touts, pvOk>>

-----------------------------------------------------------------------------
(* raw_recv.                                                               *)

CreditKept == credit

CreditBack == IF conn THEN credit + 1 ELSE credit

(* One credit goes back; an error is ignored.  The drivers see to it       *)
(* themselves.                                                             *)
SendFlowControl ==
  \/ credit' = CreditBack /\ UNCHANGED starved
  \/ Target = "uefi" /\ TimesOut /\ starved' = TRUE /\ UNCHANGED credit

(* A client message for us: one credit goes back for it.                   *)
Received(m) ==
  /\ inbox # <<>> /\ orphans = 0
  /\ m = Head(inbox)
  /\ m.c <= BufCap
  /\ inbox' = Tail(inbox)
  /\ SendFlowControl
  /\ UNCHANGED <<up, conn, disc, orphans, me>>

(* HBM_CLIENT_DISCONNECT_REQ: it is answered and raw_recv aborts.          *)
Aborted ==
  /\ Target = "uefi"
  /\ inbox = <<>> /\ disc
  /\ disc' = FALSE
  /\ Put(DiscResp)
  /\ UNCHANGED <<up, conn, credit, inbox, orphans, starved, me>>

(* The MEI driver fails the read of a disconnected client.                 *)
ReadError ==
  /\ Target # "uefi"
  /\ inbox = <<>> /\ ~conn
  /\ UNCHANGED <<link, me>>

(* Is there anything the ME could still send or take?                      *)
CanAnswer ==
  /\ credit > 0
  /\ \/ script # <<>>
     \/ resp # <<>> /\ Head(resp) <= win
     \/ resp = <<>> /\ req # 0

Busy == up /\ conn /\ (toMe # <<>> \/ CanAnswer)

(* The read times out: after 5 s on UEFI, 10 s on Windows, where the read  *)
(* is abandoned but not cancelled; never on Linux.                         *)
TimedOut ==
  /\ Target # "linux"
  /\ inbox = <<>> /\ ~disc
  /\ Target = "windows" => conn
  /\ Slow \/ ~Busy
  /\ orphans' = IF Target = "windows" THEN orphans + 1 ELSE orphans
  /\ UNCHANGED <<up, conn, credit, inbox, disc, toMe, starved, lost, me>>

(* Windows: what arrives next completes the abandoned read, into a buffer  *)
(* that is gone.  Requests to forward and closes are remembered.           *)
OrphanRead ==
  /\ orphans > 0 /\ inbox # <<>>
  /\ orphans' = orphans - 1
  /\ inbox' = Tail(inbox)
  /\ credit' = CreditBack
  /\ lost' = lost \cup {m \in {Head(inbox)} : m.t \in {"forward", "close"}}
  /\ UNCHANGED <<session, control, up, conn, disc, toMe, starved, me>>

(* BufferTooSmall: the message is dropped, and no credit goes back.        *)
Oversize ==
  /\ Target = "uefi"
  /\ inbox # <<>> /\ Head(inbox).c > BufCap
  /\ inbox' = Tail(inbox)
  /\ UNCHANGED <<up, conn, credit, disc, toMe, orphans, starved, lost, me>>

RecvError == Aborted \/ ReadError \/ TimedOut \/ Oversize

-----------------------------------------------------------------------------
(* process_apf: the session state and the reply, by message type.          *)

FitsAlmost(m) == rxLen + m.c <= RxCap + 1

Fits(m) == rxLen + m.c <= RxCap

DeactivateLate == active' = active /\ amt' = 0

Deactivate == active' = FALSE /\ amt' = 0

NoReply == UNCHANGED <<toMe, lost>>

GrantHttpOnly(p) == IF p = Http THEN Put(Success(p)) ELSE NoReply

Grant(p) == Put(Success(p))

Process(m) ==
  \/ /\ m.t \in {"version", "failure", "adjust"}
     /\ NoReply /\ UNCHANGED session
  \/ /\ m.t = "confirm"
     /\ our' = m.a /\ amt' = m.b /\ active' = TRUE
     /\ NoReply /\ UNCHANGED <<pf, rx, rxLen>>
  \/ /\ m.t = "data" /\ Fits(m)
     /\ rx' = Append(rx, m) /\ rxLen' = rxLen + m.c
     /\ Put(Adjust(amt, m.c))
     /\ UNCHANGED <<our, amt, active, pf>>
  \/ /\ m.t = "data" /\ ~Fits(m)
     /\ NoReply /\ UNCHANGED session
  \/ /\ m.t = "close" /\ active
     /\ Put(CloseMsg(amt))
     /\ Deactivate
     /\ UNCHANGED <<our, pf, rx, rxLen>>
  \/ /\ m.t = "close" /\ ~active
     /\ amt' = 0
     /\ NoReply /\ UNCHANGED <<our, active, pf, rx, rxLen>>
  \/ /\ m.t = "service"
     /\ Put(Accept)
     /\ UNCHANGED session
  \/ /\ m.t = "forward"
     /\ IF m.b # 0 THEN Grant(m.a) ELSE NoReply
     /\ pf' = (pf \/ m.a = Http)
     /\ UNCHANGED <<our, amt, active, rx, rxLen>>
  \/ /\ m.t = "keepalive"
     /\ Put(KeepReply)
     /\ UNCHANGED session

(* apf_handshake, steps 2 to 4.  It ends once port 16992 is forwarded,     *)
(* after two silent reads in a row, or when its attempts are used up, and  *)
(* succeeds if the ME sent its version.                                    *)
LeaveHandshake == pc' = IF pvOk' THEN "tryopen" ELSE "failed"

StayForever == UNCHANGED <<pc, attempt>>

StayInHandshake == pc' = pc /\ attempt' = attempt + 1

HandshakeMessage(m) ==
  /\ pc = "handshake"
  /\ Received(m) /\ Process(m)
  /\ touts' = 0
  /\ pvOk' = (pvOk \/ m.t = "version")
  /\ IF pf' \/ attempt + 1 = HandshakeTries
     THEN LeaveHandshake /\ UNCHANGED attempt
     ELSE StayInHandshake
  /\ UNCHANGED <<ctx, posts>>

HandshakeSilence ==
  /\ pc = "handshake"
  /\ RecvError
  /\ touts' = touts + 1
  /\ UNCHANGED <<session, ctx, pvOk, posts>>
  /\ IF pf \/ (pvOk /\ touts' >= 2) \/ attempt + 1 = HandshakeTries
     THEN LeaveHandshake /\ UNCHANGED attempt
     ELSE StayInHandshake

(* try_channel_open, called by channel_open and reopen_channel.            *)
SendOpen ==
  /\ pc = "tryopen"
  /\ our' = NextChannel /\ amt' = 0
  /\ attempt' = 0
  /\ \/ Sent(Open(our')) /\ pc' = "open"
     \/ Unsent(Open(our')) /\ pc' = "failed"
  /\ UNCHANGED <<active, pf, rx, rxLen, ctx, touts, pvOk, posts, up, conn,
                 credit, inbox, disc, orphans, starved, me>>

OpenMessage(m) ==
  /\ pc = "open"
  /\ Received(m) /\ Process(m)
  /\ attempt' = attempt + 1
  /\ pc' = IF m.t = "confirm" THEN IF ctx = "reopen" THEN "send" ELSE "ready"
           ELSE IF m.t = "failure" \/ attempt' = OpenTries THEN "failed"
           ELSE "open"
  /\ UNCHANGED <<ctx, touts, pvOk, posts>>

(* channel_open answers a disconnect with one reconnect and a second try;  *)
(* any other error ends the session.                                       *)
OpenError ==
  /\ pc = "open"
  /\ \/ Aborted /\ ctx = "init" /\ pc' = "reconnect" /\ ctx' = "retry"
     \/ Aborted /\ ctx # "init" /\ pc' = "failed" /\ ctx' = ctx
     \/ (ReadError \/ TimedOut \/ Oversize) /\ pc' = "failed" /\ ctx' = ctx
  /\ UNCHANGED <<session, attempt, touts, pvOk, posts>>

-----------------------------------------------------------------------------
(* post_wsman: reopen the channel if it is not active, send, receive.      *)

Post ==
  /\ pc = "ready" /\ posts < MaxPosts
  /\ IF active THEN pc' = "send" /\ UNCHANGED ctx
     ELSE /\ pc' = IF Target = "uefi" THEN "reconnect" ELSE "tryopen"
          /\ ctx' = "reopen"
  /\ UNCHANGED <<session, attempt, touts, pvOk, posts, link, me>>

KeepRx == UNCHANGED <<rx, rxLen>>

ClearRx == rx' = <<>> /\ rxLen' = 0

Send ==
  /\ pc = "send"
  /\ posts' = posts + 1
  /\ \/ /\ Sent(Request(amt, posts'))
        /\ pc' = "response" /\ ClearRx /\ attempt' = 0
     \/ /\ Unsent(Request(amt, posts'))
        /\ pc' = "failed" /\ UNCHANGED <<rx, rxLen, attempt>>
  /\ UNCHANGED <<our, amt, active, pf, ctx, touts, pvOk, up, conn, credit,
                 inbox, disc, orphans, starved, me>>

(* receive: whatever ends it, bytes received make it a success.            *)
EndsOnData(m) == m.t \in {"close", "data"}

EndsResponse(m) == m.t = "close"

LeaveReceive == pc' = IF rxLen' > 0 THEN "ready" ELSE "failed"

ResponseMessage(m) ==
  /\ pc = "response"
  /\ Received(m) /\ Process(m)
  /\ attempt' = attempt + 1
  /\ IF EndsResponse(m) \/ attempt' = RecvTries
     THEN LeaveReceive
     ELSE pc' = pc
  /\ UNCHANGED <<ctx, touts, pvOk, posts>>

ResponseError ==
  /\ pc = "response"
  /\ RecvError
  /\ UNCHANGED <<session, ctx, attempt, touts, pvOk, posts>>
  /\ LeaveReceive

(* Windows and Linux: the length returned for an oversized message is the  *)
(* untruncated one, and slicing the buffer with it panics.                 *)
OversizePanics ==
  /\ Target # "uefi"
  /\ pc = "response"
  /\ inbox # <<>> /\ orphans = 0 /\ Head(inbox).c > BufCap
  /\ inbox' = Tail(inbox)
  /\ conn' = FALSE
  /\ pc' = "start"
  /\ UNCHANGED <<session, ctx, attempt, touts, pvOk, posts, up, credit, disc,
                 toMe, orphans, starved, lost, me>>

(* close: close_channel, then heci.close.  Only on Linux does that         *)
(* disconnect the client: on UEFI a pointer is forgotten until the next    *)
(* reset, on Windows the handle is left open.                              *)
Close ==
  /\ pc \in {"ready", "failed"}
  /\ IF active THEN Put(CloseMsg(amt)) ELSE NoReply
  /\ active' = FALSE
  /\ amt' = IF active THEN 0 ELSE amt
  /\ conn' = (conn /\ Target # "linux")
  /\ pc' = "start"
  /\ UNCHANGED <<our, pf, rx, rxLen, ctx, attempt, touts, pvOk, posts, up,
                 credit, inbox, disc, orphans, starved, me>>

-----------------------------------------------------------------------------
(* The LME firmware (external).                                            *)

Says(m) ==
  /\ up /\ conn /\ credit > 0
  /\ inbox' = Append(inbox, m)
  /\ credit' = credit - 1
  /\ UNCHANGED <<up, conn, disc, orphans, starved, lost>>

Takes(m) ==
  /\ up /\ toMe # <<>>
  /\ m = Head(toMe)
  /\ toMe' = Tail(toMe)

Quiet == UNCHANGED <<up, conn, credit, inbox, disc, orphans, starved, lost>>

(* The host's version starts the init sequence ...                         *)
MeVersion(m) ==
  /\ conn /\ m = Pv /\ Takes(m) /\ Quiet
  /\ script' \in InitScripts
  /\ UNCHANGED <<asked, granted, chan, req, resp, idx, win>>

(* ... which the ME sends as its credits allow.  A forward it wants no     *)
(* reply to is as good as granted.                                         *)
PortsIn(ms) == {m.a : m \in {n \in ms : n.t = "forward"}}

MeInit ==
  /\ script # <<>>
  /\ Says(Head(script))
  /\ script' = Tail(script)
  /\ asked' = asked \cup PortsIn({Head(script)})
  /\ granted' = granted \cup PortsIn({m \in {Head(script)} : m.b = 0})
  /\ UNCHANGED <<toMe, chan, req, resp, idx, win>>

MeGranted(m) ==
  /\ conn /\ m.t = "success" /\ Takes(m) /\ Quiet
  /\ granted' = granted \cup {m.a}
  /\ UNCHANGED <<script, asked, chan, req, resp, idx, win>>

(* CHANNEL_OPEN is confirmed, with the ME's own number, or refused.        *)
MeConfirm(m) ==
  /\ m.t = "open" /\ chan.st = "none"
  /\ Takes(m)
  /\ \E n \in AmtIds :
       /\ Says(Confirm(m.a, n))
       /\ chan' = [st |-> "open", peer |-> m.a, id |-> n]
  /\ win' = RxCap
  /\ UNCHANGED <<script, asked, granted, req, resp, idx>>

MeRefuse(m) ==
  /\ m.t = "open"
  /\ Takes(m) /\ Says(Failure(m.a))
  /\ UNCHANGED me

(* A request on the open channel is answered chunk by chunk within the     *)
(* window, then, as it says Connection: close, the channel is closed.      *)
Served(m) == m.t = "data" /\ chan.st = "open" /\ chan.id = m.a /\ req = 0

MeRequest(m) ==
  /\ conn /\ Served(m) /\ Takes(m) /\ Quiet
  /\ req' = m.b /\ idx' = 1
  /\ resp' \in Responses
  /\ UNCHANGED <<script, asked, granted, chan, win>>

MeRespond ==
  /\ req # 0 /\ resp # <<>> /\ Head(resp) <= win
  /\ Says(Chunk(req, idx, Head(resp)))
  /\ resp' = Tail(resp) /\ idx' = idx + 1 /\ win' = win - Head(resp)
  /\ UNCHANGED <<toMe, script, asked, granted, chan, req>>

MeClose ==
  /\ req # 0 /\ resp = <<>>
  /\ Says(CloseMsg(chan.peer))
  /\ chan' = [chan EXCEPT !.st = "closing"]
  /\ req' = 0
  /\ UNCHANGED <<toMe, script, asked, granted, resp, idx, win>>

MeAdjust(m) ==
  /\ conn /\ m.t = "adjust" /\ Takes(m) /\ Quiet
  /\ win' = IF chan.st # "none" /\ chan.id = m.a THEN win + m.b ELSE win
  /\ UNCHANGED <<script, asked, granted, chan, req, resp, idx>>

(* The host's CLOSE answers the ME's, or is answered by it.                *)
MeClosed(m) ==
  /\ conn /\ m.t = "close" /\ Takes(m)
  /\ IF chan.st = "open" /\ chan.id = m.a
     THEN Says(CloseMsg(chan.peer)) ELSE Quiet
  /\ chan' = IF chan.st # "none" /\ chan.id = m.a THEN NoChan ELSE chan
  /\ IF chan'.st = "none" THEN req' = 0 /\ resp' = <<>>
                          ELSE UNCHANGED <<req, resp>>
  /\ UNCHANGED <<script, asked, granted, idx, win>>

(* Replies without effect, requests that cannot be served, and anything    *)
(* sent to a client that is not connected.                                 *)
MeIgnores(m) ==
  /\ \/ ~conn
     \/ m.t \in {"accept", "keepalive_reply", "disconnect_resp"}
     \/ m.t = "data" /\ ~Served(m)
  /\ Takes(m) /\ Quiet
  /\ UNCHANGED me

MeReads ==
  \E m \in {toMe[i] : i \in 1 .. Len(toMe)} :
    \/ MeVersion(m) \/ MeGranted(m) \/ MeConfirm(m) \/ MeRefuse(m)
    \/ MeRequest(m) \/ MeAdjust(m) \/ MeClosed(m) \/ MeIgnores(m)

MeStep ==
  /\ MeReads \/ MeInit \/ MeRespond \/ MeClose
  /\ UNCHANGED <<session, control>>

(* Unasked: keepalives and window adjustments, at any time.                *)
MeNoise ==
  /\ Len(toMe) < MaxQueue
  /\ \E m \in {Keepalive, Adjust(0, 0)} : Says(m)
  /\ UNCHANGED <<toMe, me>>

(* The ME drops the client, and tells the host after what it has sent.     *)
MeDisconnect ==
  /\ up /\ conn
  /\ conn' = FALSE /\ credit' = 0
  /\ disc' = (Target = "uefi")
  /\ chan' = NoChan /\ script' = <<>> /\ req' = 0 /\ resp' = <<>>
  /\ UNCHANGED <<up, inbox, toMe, orphans, starved, lost, asked, granted, idx,
                 win>>

(* The ME goes down and takes everything in flight with it.                *)
MeDown ==
  /\ up
  /\ up' = FALSE /\ conn' = FALSE /\ credit' = 0
  /\ inbox' = <<>> /\ disc' = FALSE /\ toMe' = <<>>
  /\ chan' = NoChan /\ script' = <<>> /\ req' = 0 /\ resp' = <<>>
  /\ UNCHANGED <<orphans, starved, lost, asked, granted, idx, win>>

-----------------------------------------------------------------------------
Init ==
  /\ our = 0 /\ amt = 0 /\ active = FALSE /\ pf = FALSE
  /\ rx = <<>> /\ rxLen = 0
  /\ pc = "start" /\ ctx = "init" /\ attempt = 0 /\ touts = 0
  /\ pvOk = FALSE /\ posts = 0
  /\ up = TRUE /\ conn = FALSE /\ credit = 0
  /\ inbox = <<>> /\ disc = FALSE /\ toMe = <<>> /\ orphans = 0
  /\ starved = FALSE /\ lost = {}
  /\ script = <<>> /\ asked = {} /\ granted = {} /\ chan = NoChan
  /\ req = 0 /\ resp = <<>> /\ idx = 0 /\ win = 0

HostMessage ==
  \E m \in {inbox[i] : i \in 1 .. Len(inbox)} :
    HandshakeMessage(m) \/ OpenMessage(m) \/ ResponseMessage(m)

(* What the program does by itself once it has opened a session.           *)
Host ==
  \/ HostMessage
  \/ HandshakeSilence \/ OpenError \/ ResponseError \/ OversizePanics
  \/ SendOpen \/ Post \/ Send \/ Close
  \/ pc = "reconnect" /\ (Connect \/ ConnectFails)

Next ==
  \/ Host
  \/ pc = "start" /\ (Connect \/ ConnectFails)
  \/ OrphanRead
  \/ MeStep
  \/ (MeNoise \/ MeDisconnect \/ MeDown) /\ UNCHANGED <<session, control>>

Spec == Init /\ [][Next]_vars

(* The host's code runs until the user is back at the menu, the driver     *)
(* completes reads, and the ME answers what it can, as long as it is up.   *)
FairSpec ==
  Spec /\ WF_vars(Host) /\ WF_vars(OrphanRead) /\ WF_vars(MeStep)

(* Where receive never uses up its attempts on an open channel.            *)
Patience ==
  pc = "response" /\ pc' = "ready" /\ active' => attempt' < RecvTries

PatientSpec == Init /\ [][Next /\ Patience]_vars

-----------------------------------------------------------------------------
ResponsesFit == \A r \in Responses : \A i \in 1 .. Len(r) : r[i] <= BufCap

Ports    == {Http, Other}
Channels == 0 .. ChanMod - 1
Sizes    == IF ResponsesFit THEN 1 .. BufCap ELSE Nat \ {0}

ToHostMessage ==
  [t : {"version", "service", "keepalive", "adjust", "failure", "close"},
   a : Nat, b : Nat, c : {0}]
  \cup [t : {"forward"}, a : Ports, b : Nat, c : {0}]
  \cup [t : {"confirm"}, a : Channels, b : Nat, c : {0}]
  \cup [t : {"data"}, a : Nat, b : Nat, c : Sizes]

ToMeMessage ==
  [t : {"version", "accept", "adjust", "close", "data", "keepalive_reply",
        "disconnect_resp"}, a : Nat, b : Nat, c : {0}]
  \cup [t : {"success"}, a : Ports, b : Nat, c : {0}]
  \cup [t : {"open"}, a : Channels, b : Nat, c : {0}]

SessionOK ==
  /\ our \in Channels /\ amt \in Nat
  /\ active \in BOOLEAN /\ pf \in BOOLEAN
  /\ rx \in Seq(ToHostMessage) /\ rxLen \in 0 .. RxCap

ControlOK ==
  /\ pc \in {"start", "reconnect", "handshake", "tryopen", "open", "ready",
             "send", "response", "failed"}
  /\ ctx \in {"init", "retry", "reopen"}
  /\ attempt \in Nat /\ touts \in Nat
  /\ pvOk \in BOOLEAN /\ posts \in Nat

LinkOK ==
  /\ up \in BOOLEAN /\ conn \in BOOLEAN /\ (conn => up)
  /\ credit \in Nat
  /\ inbox \in Seq(ToHostMessage) /\ disc \in BOOLEAN
  /\ toMe \in Seq(ToMeMessage) /\ orphans \in Nat

LossesOK ==
  /\ starved \in BOOLEAN
  /\ lost \subseteq ToMeMessage \cup ToHostMessage \cup {Rest}

MeOK ==
  /\ script \in Seq(InitMessage)
  /\ asked \subseteq Ports /\ granted \subseteq Ports
  /\ chan \in [st : {"none", "open", "closing"}, peer : Channels, id : Nat]
  /\ req \in Nat /\ resp \in Seq(Sizes) /\ idx \in Nat /\ win \in Nat

(* The types of the variables: our_channel stays a 5-bit number, rx_buf    *)
(* never holds more than its size, and every message in flight is of a     *)
(* kind its receiver knows.                                                *)
TypeOK == SessionOK /\ ControlOK /\ LinkOK /\ LossesOK /\ MeOK

Inbox(t) == {inbox[i] : i \in {j \in 1 .. Len(inbox) : inbox[j].t = t}}

ToMe(t) == {toMe[i] : i \in {j \in 1 .. Len(toMe) : toMe[j].t = t}}

Lost(ts) == {m \in lost : m.t \in ts}

(* Flow control: the ME never holds two credits, a message in flight       *)
(* counted, and it never runs out of them as long as its messages fit the  *)
(* buffers and no write of a credit timed out, an error raw_recv ignores:  *)
(* each message raw_recv takes gives one credit back, whichever loop       *)
(* called it and however the message is processed.                         *)
CreditBalance ==
  conn => /\ credit + Len(inbox) <= 1
          /\ ResponsesFit /\ ~starved => credit + Len(inbox) = 1

(* channel_active says what the ME's side of the channel is: through       *)
(* opens, closes, reconnects, retries and messages that got lost both ends *)
(* agree on the channel and its two numbers; and the ME's end is open,     *)
(* unless its CLOSE is still on its way or an abandoned read swallowed it  *)
(* (windows.rs:271).                                                       *)
ChannelAgreement ==
  active /\ conn =>
    /\ chan.peer = our /\ chan.id = amt
    /\ \/ chan.st = "open"
       \/ chan.st = "closing" /\ CloseMsg(our) \in Inbox("close") \cup lost

(* No request to forward a port is lost, in whatever loop it arrives: it   *)
(* has not been read yet, or its REQUEST_SUCCESS is on its way or there,   *)
(* or the write of the one timed out, or an abandoned read took the other. *)
(* The ME resets the platform over a missing one (lme/mod.rs:172).         *)
ForwardsNotLost ==
  conn => asked \subseteq granted \cup {m.a : m \in Inbox("forward")}
                                 \cup {m.a : m \in ToMe("success")}
                                 \cup {m.a : m \in Lost({"forward", "success"})}

(* CHANNEL_OPEN goes out only after the ME's version and its request to    *)
(* forward port 16992 on this very connection, or after the two silent     *)
(* reads or the last attempt that make the handshake a degraded one.       *)
OpenAfterForward ==
  [][pc = "handshake" /\ pc' = "tryopen" =>
       /\ pvOk'
       /\ Http \in asked \/ touts' >= 2 \/ attempt + 1 = HandshakeTries]_vars

(* What receive collects is the answer to the last request, from its first *)
(* chunk on and without a gap.                                             *)
RxIsPrefix ==
  pc \in {"response", "ready"} =>
    \A i \in 1 .. Len(rx) : rx[i].a = posts /\ rx[i].b = i

(* receive reports success only for the whole answer, as long as the ME    *)
(* can go on with it: the connection stands, and its credit is not lost    *)
(* with a message that was too large.                                      *)
ResponseWhole ==
  [][pc = "response" /\ pc' = "ready" /\ conn /\ credit' + Len(inbox') > 0 =>
       req = 0 /\ Len(rx') = idx - 1]_vars

(* A request is never sent over a connection whose end the host has        *)
(* acknowledged (http.rs:303: "Re-open APF channel if not currently        *)
(* active").                                                               *)
SendOverLiveConnection ==
  [][pc = "send" /\ pc' = "response" => conn \/ disc]_vars

Loops == {"handshake", "open", "response"}

(* Each of the three receive loops ends, whatever the ME sends or does not *)
(* send.                                                                   *)
LoopsEnd == pc \in Loops ~> pc \notin Loops
=============================================================================
