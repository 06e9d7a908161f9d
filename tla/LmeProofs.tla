------------------------------ MODULE LmeProofs ------------------------------
(***************************************************************************)
(* For every target, every bound of the loops, every buffer size and every *)
(* behaviour of the ME: the types of Lme hold, the flow control credits    *)
(* stay in balance, CHANNEL_OPEN waits for the ME's request to forward the *)
(* web server's port, no forward request is lost and both ends agree on    *)
(* the channel, but for what a write that timed out or an abandoned read   *)
(* has lost.  On UEFI, with an ME within a timeout and answers that fit    *)
(* rx_buf, receive collects the answer to the last request, and returns    *)
(* with the whole of it.                                                   *)
(***************************************************************************)
EXTENDS Lme, SequenceTheorems, TLAPS

-----------------------------------------------------------------------------
(* Queues.                                                                 *)

LEMMA Queues ==
  ASSUME NEW S, NEW q \in Seq(S)
  PROVE  /\ Len(q) \in Nat
         /\ <<>> \in Seq(S)
         /\ q # <<>> => /\ Head(q) \in S /\ Tail(q) \in Seq(S)
                        /\ Len(Tail(q)) = Len(q) - 1
         /\ \A e \in S : Append(q, e) \in Seq(S) /\ Len(Append(q, e)) = Len(q) + 1
         /\ \A i \in 1 .. Len(q) : q[i] \in S
  BY EmptySeq, LenProperties, HeadTailProperties, AppendProperties, ElementOfSeq

LEMMA QueueOrder ==
  ASSUME NEW S, NEW q \in Seq(S)
  PROVE  /\ q # <<>> => /\ Len(q) >= 1 /\ Head(q) = q[1]
                        /\ \A i \in 1 .. Len(Tail(q)) : Tail(q)[i] = q[i + 1]
         /\ \A e \in S : /\ \A i \in 1 .. Len(q) : Append(q, e)[i] = q[i]
                        /\ Append(q, e)[Len(q) + 1] = e
  BY EmptySeq, LenProperties, HeadTailProperties, AppendProperties

LEMMA OneMessage ==
  ASSUME NEW S, NEW e \in S
  PROVE  <<e>> \in Seq(S)
  OBVIOUS

-----------------------------------------------------------------------------
(* Messages.                                                               *)

(* Chunk sizes are positive, and what the web server answers is made of    *)
(* them.                                                                   *)
LEMMA SizesAre ==
  /\ Sizes \subseteq Nat \ {0}
  /\ ResponsesFit => \A s \in Sizes : s <= BufCap
  /\ Responses \subseteq Seq(Sizes)
<1>1. BufCap \in Nat /\ Responses \subseteq Seq(Nat \ {0})
  BY ParameterAssumption
<1>2. CASE ~ResponsesFit
  BY <1>1, <1>2 DEF Sizes
<1>3. CASE ResponsesFit
  <2>1. Sizes = 1 .. BufCap
    BY <1>3 DEF Sizes
  <2>2. ASSUME NEW r \in Responses PROVE r \in Seq(Sizes)
    <3>1. Len(r) \in Nat /\ r \in [1 .. Len(r) -> Nat \ {0}]
      BY <1>1, LenProperties
    <3>2. \A i \in 1 .. Len(r) : r[i] \in 1 .. BufCap
      BY <1>1, <1>3, <3>1 DEF ResponsesFit
    <3>3. r \in [1 .. Len(r) -> Sizes]
      BY <2>1, <3>1, <3>2
    <3> QED BY <3>1, <3>3, SeqDef
  <2> QED BY <1>1, <2>1, <2>2
<1> QED BY <1>2, <1>3

(* What the fields of a message to the host may be.                        *)
LEMMA ToHostFields ==
  ASSUME NEW m \in ToHostMessage
  PROVE  /\ m.b \in Nat /\ m.c \in Nat
         /\ m.t = "data" => m.c \in Sizes
         /\ m.t # "data" => m.c = 0
         /\ m.t = "confirm" => m.a \in Channels
         /\ m.t = "forward" => m.a \in Ports
<1>1. Sizes \subseteq Nat
  BY SizesAre
<1>2. CASE m \in [t : {"data"}, a : Nat, b : Nat, c : Sizes]
  BY <1>1, <1>2
<1>3. CASE m \in [t : {"confirm"}, a : Channels, b : Nat, c : {0}]
  BY <1>3
<1>4. CASE m \in [t : {"forward"}, a : Ports, b : Nat, c : {0}]
  BY <1>4
<1>5. CASE m \in [t : {"version", "service", "keepalive", "adjust", "failure",
                      "close"}, a : Nat, b : Nat, c : {0}]
  BY <1>5
<1> QED BY <1>2, <1>3, <1>4, <1>5 DEF ToHostMessage

LEMMA ToMeFields ==
  ASSUME NEW m \in ToMeMessage
  PROVE  /\ m.b \in Nat
         /\ m.t = "open" => m.a \in Channels
         /\ m.t = "success" => m.a \in Ports
  BY DEF ToMeMessage

LEMMA ToMeMessages ==
  /\ {Pv, Accept, KeepReply, DiscResp} \subseteq ToMeMessage
  /\ \A p \in Ports : Success(p) \in ToMeMessage
  /\ \A o \in Channels : Open(o) \in ToMeMessage
  /\ \A n, r \in Nat : Request(n, r) \in ToMeMessage
  /\ \A n, s \in Nat : Adjust(n, s) \in ToMeMessage
  /\ \A n \in Nat : CloseMsg(n) \in ToMeMessage
  BY DEF ToMeMessage, Msg, Pv, Accept, KeepReply, DiscResp, Success, Open,
         Request, Adjust, CloseMsg

LEMMA ToHostMessages ==
  /\ {Keepalive, Adjust(0, 0)} \subseteq ToHostMessage
  /\ InitMessage \subseteq ToHostMessage
  /\ \A o \in Channels, n \in Nat : Confirm(o, n) \in ToHostMessage
  /\ \A o \in Channels : Failure(o) \in ToHostMessage
  /\ \A r, i \in Nat, s \in Sizes : Chunk(r, i, s) \in ToHostMessage
  /\ \A o \in Channels : CloseMsg(o) \in ToHostMessage
<1>1. Channels \subseteq Nat
  BY ParameterAssumption DEF Channels
<1> QED BY <1>1 DEF ToHostMessage, InitMessage, Ports, Msg, Keepalive, Adjust,
                   Confirm, Failure, Chunk, CloseMsg

(* The next channel number is one of the channels, and never zero.         *)
LEMMA NextChannelIs ==
  ASSUME our \in Channels
  PROVE  NextChannel \in Channels \ {0}
<1>1. ChanMod \in Nat \ {0, 1} /\ our \in Nat /\ our + 1 \in Nat
  BY ParameterAssumption DEF Channels
<1>2. (our + 1) % ChanMod \in 0 .. ChanMod - 1
  BY <1>1
<1> QED BY <1>1, <1>2 DEF NextChannel, Channels

-----------------------------------------------------------------------------
(* Type correctness: first the parts the actions are made of.              *)

(* What an action leaves alone keeps its type.                             *)
LEMMA SessionKept == SessionOK /\ UNCHANGED session => SessionOK'
  BY Zenon DEF SessionOK, session

LEMMA ControlKept == ControlOK /\ UNCHANGED control => ControlOK'
  BY Zenon DEF ControlOK, control

LEMMA MeKept == MeOK /\ UNCHANGED me => MeOK'
  BY Zenon DEF MeOK, me

LEMMA PutType ==
  ASSUME toMe \in Seq(ToMeMessage), NEW m \in ToMeMessage, Put(m)
  PROVE  toMe' \in Seq(ToMeMessage)
<1>1. toMe' = toMe \/ toMe' = Append(toMe, m)
  BY DEF Put, Sent, Unsent, Loses, Delivers
<1> QED BY <1>1, Queues

LEMMA ReceivedType ==
  ASSUME TypeOK, NEW m, Received(m), toMe' \in Seq(ToMeMessage)
  PROVE  m \in ToHostMessage /\ LinkOK' /\ MeOK'
<1>1. m \in ToHostMessage /\ inbox' \in Seq(ToHostMessage)
  BY Queues DEF TypeOK, LinkOK, Received
<1>2. credit' \in Nat
  BY DEF TypeOK, LinkOK, Received, SendFlowControl, CreditBack
<1>3. LinkOK'
  BY <1>1, <1>2 DEF TypeOK, LinkOK, Received
<1>4. MeOK'
  BY DEF TypeOK, MeOK, Received, me
<1> QED BY <1>1, <1>3, <1>4

LEMMA RecvErrorType ==
  ASSUME TypeOK, RecvError
  PROVE  LinkOK' /\ MeOK'
<1>1. MeOK'
  BY DEF TypeOK, MeOK, RecvError, Aborted, ReadError, TimedOut, Oversize, me
<1> USE DEF TypeOK, LinkOK
<1>2. CASE Aborted
  <2>1. toMe' \in Seq(ToMeMessage)
    BY <1>2, PutType, ToMeMessages DEF Aborted
  <2>2. /\ up' \in BOOLEAN /\ conn' \in BOOLEAN /\ (conn' => up')
        /\ disc' \in BOOLEAN
    BY <1>2, Zenon DEF Aborted
  <2>3. credit' \in Nat /\ inbox' \in Seq(ToHostMessage) /\ orphans' \in Nat
    BY <1>2 DEF Aborted
  <2> QED BY <1>1, <2>1, <2>2, <2>3
<1>3. CASE ReadError
  BY <1>1, <1>3, Zenon DEF ReadError, link
<1>4. CASE TimedOut
  <2>1. /\ up' \in BOOLEAN /\ conn' \in BOOLEAN /\ (conn' => up')
        /\ disc' \in BOOLEAN
    BY <1>4, Zenon DEF TimedOut
  <2>2. /\ credit' \in Nat /\ inbox' \in Seq(ToHostMessage)
        /\ orphans' \in Nat /\ toMe' \in Seq(ToMeMessage)
    BY <1>4 DEF TimedOut
  <2> QED BY <1>1, <2>1, <2>2
<1>5. CASE Oversize
  <2>1. inbox' \in Seq(ToHostMessage)
    BY <1>5, Queues DEF Oversize
  <2>2. /\ up' \in BOOLEAN /\ conn' \in BOOLEAN /\ (conn' => up')
        /\ disc' \in BOOLEAN
    BY <1>5, Zenon DEF Oversize
  <2>3. credit' \in Nat /\ toMe' \in Seq(ToMeMessage) /\ orphans' \in Nat
    BY <1>5 DEF Oversize
  <2> QED BY <1>1, <2>1, <2>2, <2>3
<1> QED BY <1>1, <1>2, <1>3, <1>4, <1>5 DEF RecvError

LEMMA ProcessType ==
  ASSUME TypeOK, NEW m \in ToHostMessage, Process(m)
  PROVE  SessionOK' /\ toMe' \in Seq(ToMeMessage)
<1> USE DEF Process, NoReply, session
<1>1. /\ toMe \in Seq(ToMeMessage) /\ SessionOK
      /\ amt \in Nat /\ rxLen \in Nat /\ rx \in Seq(ToHostMessage)
  BY ParameterAssumption DEF TypeOK, LinkOK, SessionOK
<1>2. m.b \in Nat /\ m.c \in Nat
  BY ToHostFields
<1>3. CASE m.t \in {"version", "failure", "adjust"}
  BY <1>1, <1>3 DEF SessionOK
<1>4. CASE m.t = "confirm"
  <2>1. m.a \in Channels
    BY <1>4, ToHostFields
  <2> QED BY <1>1, <1>2, <1>4, <2>1 DEF SessionOK
<1>5. CASE m.t = "data" /\ Fits(m)
  <2>1. rx' \in Seq(ToHostMessage)
    BY <1>1, <1>5, Queues
  <2>2. rxLen' \in 0 .. RxCap
    BY <1>1, <1>2, <1>5, ParameterAssumption DEF Fits
  <2>3. toMe' \in Seq(ToMeMessage)
    BY <1>1, <1>2, <1>5, PutType, ToMeMessages
  <2> QED BY <1>1, <1>5, <2>1, <2>2, <2>3 DEF SessionOK
<1>6. CASE m.t = "data" /\ ~Fits(m)
  BY <1>1, <1>6 DEF SessionOK
<1>7. CASE m.t = "close" /\ active
  <2>1. toMe' \in Seq(ToMeMessage)
    BY <1>1, <1>7, PutType, ToMeMessages
  <2>2. amt' = 0 /\ active' = FALSE /\ UNCHANGED <<our, pf, rx, rxLen>>
    BY <1>7, Zenon DEF Deactivate
  <2> QED BY <1>1, <2>1, <2>2 DEF SessionOK
<1>8. CASE m.t = "close" /\ ~active
  BY <1>1, <1>8 DEF SessionOK
<1>9. CASE m.t = "service"
  <2>1. toMe' \in Seq(ToMeMessage)
    BY <1>1, <1>9, PutType, ToMeMessages
  <2> QED BY <1>1, <1>9, <2>1 DEF SessionOK
<1>10. CASE m.t = "forward"
  <2>1. m.a \in Ports
    BY <1>10, ToHostFields
  <2>2. toMe' \in Seq(ToMeMessage)
    BY <1>1, <1>10, <2>1, PutType, ToMeMessages, Zenon DEF Grant
  <2>3. pf' \in BOOLEAN
    BY <1>1, <1>10, Zenon DEF SessionOK
  <2> QED BY <1>1, <1>10, <2>2, <2>3 DEF SessionOK
<1>11. CASE m.t = "keepalive"
  <2>1. toMe' \in Seq(ToMeMessage)
    BY <1>1, <1>11, PutType, ToMeMessages
  <2> QED BY <1>1, <1>11, <2>1 DEF SessionOK
<1> QED BY <1>3, <1>4, <1>5, <1>6, <1>7, <1>8, <1>9, <1>10, <1>11

-----------------------------------------------------------------------------
(* All types but those of the history of what got lost.                    *)
Typed == SessionOK /\ ControlOK /\ LinkOK /\ MeOK

(* Type correctness: the host's actions.                                   *)

LEMMA ConnectType ==
  ASSUME TypeOK, Connect \/ ConnectFails
  PROVE  Typed'
<1>1. \A S : <<>> \in Seq(S)
  BY EmptySeq
<1>2. 0 \in Channels /\ 0 \in 0 .. RxCap
  BY ParameterAssumption DEF Channels
<1>3. /\ Fresh /\ ResetSession /\ ResetLink
      /\ up' \in BOOLEAN /\ conn' \in BOOLEAN /\ (conn' => up')
  BY Zenon DEF Connect, ConnectFails
<1>4. rx' \in Seq(ToHostMessage) /\ rxLen' \in 0 .. RxCap /\ posts' \in Nat
  <2>1. CASE pc = "start"
    BY <1>1, <1>2, <1>3, <2>1 DEF Fresh
  <2>2. CASE pc # "start"
    BY <1>3, <2>2, Zenon DEF TypeOK, SessionOK, ControlOK, Fresh
  <2> QED BY <2>1, <2>2
<1>5. SessionOK'
  BY <1>2, <1>3, <1>4 DEF SessionOK, ResetSession
<1>6. <<Pv>> \in Seq(ToMeMessage)
  BY ToMeMessages, OneMessage
<1>7. toMe' \in Seq(ToMeMessage) /\ credit' \in Nat
  <2>1. CASE Connect
    BY <1>6, <2>1 DEF Connect
  <2>2. CASE ConnectFails
    BY <1>1, <2>2 DEF ConnectFails
  <2> QED BY <2>1, <2>2
<1>8. inbox' \in Seq(ToHostMessage) /\ disc' \in BOOLEAN /\ orphans' \in Nat
  BY <1>1, <1>3 DEF ResetLink
<1>9. LinkOK'
  BY <1>3, <1>7, <1>8 DEF LinkOK
<1>10. MeOK'
  BY <1>1, <1>2, <1>3 DEF MeOK, NoChan, ResetLink
<1>11. ControlOK'
  <2>1. CASE Connect
    BY <1>4, <2>1 DEF TypeOK, ControlOK, Connect
  <2>2. CASE ConnectFails
    <3>1. pvOk' \in BOOLEAN
      BY <2>2, Zenon DEF TypeOK, ControlOK, ConnectFails
    <3> QED BY <1>4, <2>2, <3>1 DEF TypeOK, ControlOK, ConnectFails
  <2> QED BY <2>1, <2>2
<1> QED BY <1>5, <1>9, <1>10, <1>11 DEF Typed

LEMMA MessageType ==
  ASSUME TypeOK, NEW m,
         HandshakeMessage(m) \/ OpenMessage(m) \/ ResponseMessage(m)
  PROVE  Typed'
<1>1. Received(m) /\ Process(m)
  BY DEF HandshakeMessage, OpenMessage, ResponseMessage
<1>2. m \in ToHostMessage
  BY <1>1, Queues DEF TypeOK, LinkOK, Received
<1>3. SessionOK' /\ toMe' \in Seq(ToMeMessage)
  BY <1>1, <1>2, ProcessType
<1>4. LinkOK' /\ MeOK'
  BY <1>1, <1>3, ReceivedType
<1>5. ControlOK'
  <2>1. CASE HandshakeMessage(m)
    <3>1. pvOk' \in BOOLEAN
      BY <2>1, Zenon DEF TypeOK, ControlOK, HandshakeMessage
    <3> QED BY <2>1, <3>1 DEF TypeOK, ControlOK, HandshakeMessage,
                              LeaveHandshake, StayInHandshake
  <2>2. CASE OpenMessage(m)
    BY <2>2 DEF TypeOK, ControlOK, OpenMessage
  <2>3. CASE ResponseMessage(m)
    BY <2>3 DEF TypeOK, ControlOK, ResponseMessage, LeaveReceive
  <2> QED BY <2>1, <2>2, <2>3
<1> QED BY <1>3, <1>4, <1>5 DEF Typed

LEMMA ErrorType ==
  TypeOK /\ (HandshakeSilence \/ OpenError \/ ResponseError) => Typed'
<1> SUFFICES ASSUME TypeOK, HandshakeSilence \/ OpenError \/ ResponseError
             PROVE  Typed'
  OBVIOUS
<1>1. RecvError /\ UNCHANGED session
  BY DEF HandshakeSilence, OpenError, ResponseError, RecvError
<1>2. LinkOK' /\ MeOK'
  BY <1>1, RecvErrorType
<1>3. SessionOK'
  BY <1>1 DEF TypeOK, SessionOK, session
<1>4. ControlOK'
  BY DEF TypeOK, ControlOK, HandshakeSilence, OpenError, ResponseError,
         LeaveHandshake, StayInHandshake, LeaveReceive
<1> QED BY <1>2, <1>3, <1>4 DEF Typed

(* A step that sends or takes nothing but changes toMe, or conn to FALSE.  *)
LEMMA LinkStep ==
  ASSUME LinkOK, UNCHANGED <<up, credit, inbox, disc, orphans>>,
         toMe' \in Seq(ToMeMessage), conn' = conn \/ conn' = FALSE
  PROVE  LinkOK'
<1>1. /\ up' \in BOOLEAN /\ conn' \in BOOLEAN /\ (conn' => up')
      /\ disc' \in BOOLEAN
  <2>1. up' = up /\ disc' = disc
    OBVIOUS
  <2>2. CASE conn' = conn
    <3>1. up' \in BOOLEAN /\ conn' \in BOOLEAN /\ disc' \in BOOLEAN
      BY <2>1, <2>2, SMT DEF LinkOK
    <3>2. conn' => up'
      BY <2>1, <2>2, SMT DEF LinkOK
    <3> QED BY <3>1, <3>2
  <2>3. CASE conn' = FALSE
    BY <2>1, <2>3, Zenon DEF LinkOK
  <2> QED BY <2>2, <2>3
<1>2. credit' \in Nat /\ inbox' \in Seq(ToHostMessage) /\ orphans' \in Nat
  BY DEF LinkOK
<1> QED BY <1>1, <1>2 DEF LinkOK

LEMMA SendOpenType == TypeOK /\ SendOpen => Typed'
<1> SUFFICES ASSUME TypeOK, SendOpen PROVE Typed'
  OBVIOUS
<1>1. our' \in Channels /\ amt' \in Nat
  BY NextChannelIs DEF TypeOK, SessionOK, SendOpen
<1>2. UNCHANGED <<active, pf, rx, rxLen>>
  BY DEF SendOpen
<1>3. SessionOK'
  BY <1>1, <1>2, Zenon DEF TypeOK, SessionOK
<1>4. toMe' \in Seq(ToMeMessage)
  BY <1>1, PutType, ToMeMessages DEF TypeOK, LinkOK, SendOpen, Put
<1>5. LinkOK'
  BY <1>4, LinkStep DEF TypeOK, SendOpen
<1>6. pvOk' \in BOOLEAN
  BY Zenon DEF TypeOK, ControlOK, SendOpen
<1>7. ControlOK'
  BY <1>6 DEF TypeOK, ControlOK, SendOpen
<1>8. MeOK'
  BY MeKept DEF TypeOK, SendOpen
<1> QED BY <1>3, <1>5, <1>7, <1>8 DEF Typed

LEMMA PostType == TypeOK /\ Post => Typed'
<1> SUFFICES ASSUME TypeOK, Post PROVE Typed'
  OBVIOUS
<1>1. SessionOK' /\ MeOK'
  BY SessionKept, MeKept DEF TypeOK, Post
<1>2. LinkOK'
  BY Zenon DEF TypeOK, LinkOK, link, Post
<1>3. pvOk' \in BOOLEAN
  BY Zenon DEF TypeOK, ControlOK, Post
<1>4. ControlOK'
  BY <1>3 DEF TypeOK, ControlOK, Post
<1> QED BY <1>1, <1>2, <1>4 DEF Typed

LEMMA SendType == TypeOK /\ Send => Typed'
<1> SUFFICES ASSUME TypeOK, Send PROVE Typed'
  OBVIOUS
<1>1. posts' \in Nat /\ amt \in Nat /\ toMe \in Seq(ToMeMessage)
  BY DEF TypeOK, ControlOK, SessionOK, LinkOK, Send
<1>2. toMe' \in Seq(ToMeMessage)
  BY <1>1, PutType, ToMeMessages DEF Send, Put
<1>3. LinkOK'
  BY <1>2, LinkStep DEF TypeOK, Send
<1>4. rx' \in Seq(ToHostMessage) /\ rxLen' \in 0 .. RxCap
  <2>1. <<>> \in Seq(ToHostMessage) /\ 0 \in 0 .. RxCap
    BY EmptySeq, ParameterAssumption
  <2> QED BY <2>1, Zenon DEF TypeOK, SessionOK, Send, ClearRx
<1>5. SessionOK'
  BY <1>4, Zenon DEF TypeOK, SessionOK, Send
<1>6. pvOk' \in BOOLEAN
  BY Zenon DEF TypeOK, ControlOK, Send
<1>7. ControlOK'
  BY <1>1, <1>6 DEF TypeOK, ControlOK, Send
<1>8. MeOK'
  BY MeKept DEF TypeOK, Send
<1> QED BY <1>3, <1>5, <1>7, <1>8 DEF Typed

LEMMA OversizePanicsType == TypeOK /\ OversizePanics => Typed'
<1> SUFFICES ASSUME TypeOK, OversizePanics PROVE Typed'
  OBVIOUS
<1>1. SessionOK' /\ MeOK'
  BY SessionKept, MeKept DEF TypeOK, OversizePanics
<1>2. inbox' \in Seq(ToHostMessage)
  BY Queues DEF TypeOK, LinkOK, OversizePanics
<1>3. /\ up' \in BOOLEAN /\ conn' \in BOOLEAN /\ (conn' => up')
      /\ disc' \in BOOLEAN
  BY Zenon DEF TypeOK, LinkOK, OversizePanics
<1>4. credit' \in Nat /\ toMe' \in Seq(ToMeMessage) /\ orphans' \in Nat
  BY DEF TypeOK, LinkOK, OversizePanics
<1>5. LinkOK'
  BY <1>2, <1>3, <1>4 DEF LinkOK
<1>6. pvOk' \in BOOLEAN
  BY Zenon DEF TypeOK, ControlOK, OversizePanics
<1>7. ControlOK'
  BY <1>6 DEF TypeOK, ControlOK, OversizePanics
<1> QED BY <1>1, <1>5, <1>7 DEF Typed

LEMMA CloseType == TypeOK /\ Close => Typed'
<1> SUFFICES ASSUME TypeOK, Close PROVE Typed'
  OBVIOUS
<1>1. amt \in Nat /\ toMe \in Seq(ToMeMessage)
  BY DEF TypeOK, SessionOK, LinkOK
<1>2. toMe' \in Seq(ToMeMessage) /\ amt' \in Nat
  <2>1. CASE active
    BY <1>1, <2>1, PutType, ToMeMessages DEF Close
  <2>2. CASE ~active
    BY <1>1, <2>2 DEF Close, NoReply
  <2> QED BY <2>1, <2>2
<1>3. conn' = conn \/ conn' = FALSE
  BY Zenon DEF TypeOK, LinkOK, Close
<1>4. LinkOK'
  BY <1>2, <1>3, LinkStep DEF TypeOK, Close
<1>5. active' \in BOOLEAN /\ UNCHANGED <<our, pf, rx, rxLen>>
  BY DEF Close
<1>6. SessionOK'
  BY <1>2, <1>5, Zenon DEF TypeOK, SessionOK
<1>7. pvOk' \in BOOLEAN
  BY Zenon DEF TypeOK, ControlOK, Close
<1>8. ControlOK'
  BY <1>7 DEF TypeOK, ControlOK, Close
<1>9. MeOK'
  BY MeKept DEF TypeOK, Close
<1> QED BY <1>4, <1>6, <1>8, <1>9 DEF Typed

(* The driver completes an abandoned read.                                 *)
LEMMA OrphanReadType == TypeOK /\ OrphanRead => Typed'
<1> SUFFICES ASSUME TypeOK, OrphanRead PROVE Typed'
  OBVIOUS
<1>1. SessionOK' /\ ControlOK' /\ MeOK'
  BY SessionKept, ControlKept, MeKept DEF TypeOK, OrphanRead
<1>2. inbox' \in Seq(ToHostMessage)
  BY Queues DEF TypeOK, LinkOK, OrphanRead
<1>3. /\ up' \in BOOLEAN /\ conn' \in BOOLEAN /\ (conn' => up')
      /\ disc' \in BOOLEAN
  BY Zenon DEF TypeOK, LinkOK, OrphanRead
<1>4. credit' \in Nat /\ toMe' \in Seq(ToMeMessage) /\ orphans' \in Nat
  BY DEF TypeOK, LinkOK, OrphanRead, CreditBack
<1> QED BY <1>1, <1>2, <1>3, <1>4 DEF LinkOK, Typed

-----------------------------------------------------------------------------
(* Type correctness: the ME's actions.                                     *)

LEMMA SaysType ==
  ASSUME LinkOK, NEW m \in ToHostMessage, Says(m), toMe' \in Seq(ToMeMessage)
  PROVE  LinkOK'
<1>1. inbox' \in Seq(ToHostMessage)
  BY Queues DEF LinkOK, Says
<1>2. credit' \in Nat /\ orphans' \in Nat
  BY DEF LinkOK, Says
<1>3. /\ up' \in BOOLEAN /\ conn' \in BOOLEAN /\ (conn' => up')
      /\ disc' \in BOOLEAN
  BY Zenon DEF LinkOK, Says
<1> QED BY <1>1, <1>2, <1>3 DEF LinkOK

LEMMA QuietType ==
  ASSUME LinkOK, Quiet, toMe' \in Seq(ToMeMessage)
  PROVE  LinkOK'
  BY LinkStep DEF Quiet

LEMMA TakesType ==
  ASSUME LinkOK, NEW m, Takes(m)
  PROVE  m \in ToMeMessage /\ toMe' \in Seq(ToMeMessage)
  BY Queues DEF LinkOK, Takes

LEMMA MeInitType == LinkOK /\ MeOK /\ MeInit => LinkOK' /\ MeOK'
<1> SUFFICES ASSUME LinkOK, MeOK, MeInit PROVE LinkOK' /\ MeOK'
  OBVIOUS
<1> DEFINE h == Head(script)
<1>1. script \in Seq(InitMessage) /\ script # <<>>
  BY DEF MeOK, MeInit
<1>2. h \in InitMessage /\ script' \in Seq(InitMessage)
  BY <1>1, Queues DEF MeInit
<1>3. LinkOK'
  BY <1>2, SaysType, ToHostMessages DEF MeInit, LinkOK
<1>4. h.t = "forward" => h.a \in Ports
  BY <1>2, ToHostMessages, ToHostFields
<1>5. asked' \subseteq Ports /\ granted' \subseteq Ports
  BY <1>4 DEF MeOK, MeInit, PortsIn
<1> QED BY <1>2, <1>3, <1>5 DEF MeOK, MeInit

LEMMA MeRespondType == LinkOK /\ MeOK /\ MeRespond => LinkOK' /\ MeOK'
<1> SUFFICES ASSUME LinkOK, MeOK, MeRespond PROVE LinkOK' /\ MeOK'
  OBVIOUS
<1>1. resp \in Seq(Sizes) /\ resp # <<>>
  BY DEF MeOK, MeRespond
<1>2. Head(resp) \in Sizes /\ Head(resp) \in Nat /\ resp' \in Seq(Sizes)
  BY <1>1, Queues, SizesAre DEF MeRespond
<1>3. req \in Nat /\ idx \in Nat /\ win \in Nat
  BY DEF MeOK
<1>4. Chunk(req, idx, Head(resp)) \in ToHostMessage
  BY <1>2, <1>3, ToHostMessages
<1>5. LinkOK'
  BY <1>4, SaysType DEF MeRespond, LinkOK
<1>6. idx' \in Nat /\ win' \in Nat
  BY <1>2, <1>3 DEF MeRespond
<1> QED BY <1>2, <1>5, <1>6 DEF MeOK, MeRespond

LEMMA MeCloseType == LinkOK /\ MeOK /\ MeClose => LinkOK' /\ MeOK'
<1> SUFFICES ASSUME LinkOK, MeOK, MeClose PROVE LinkOK' /\ MeOK'
  OBVIOUS
<1>1. CloseMsg(chan.peer) \in ToHostMessage
  BY ToHostMessages DEF MeOK
<1>2. LinkOK'
  BY <1>1, SaysType DEF MeClose, LinkOK
<1>3. chan' \in [st : {"none", "open", "closing"}, peer : Channels, id : Nat]
  BY DEF MeOK, MeClose
<1> QED BY <1>2, <1>3 DEF MeOK, MeClose

LEMMA MeConfirmType ==
  ASSUME LinkOK, MeOK, NEW m, MeConfirm(m)
  PROVE  LinkOK' /\ MeOK'
<1>1. m \in ToMeMessage /\ toMe' \in Seq(ToMeMessage)
  BY TakesType DEF MeConfirm
<1>2. m.a \in Channels
  BY <1>1, ToMeFields DEF MeConfirm
<1>3. PICK n \in AmtIds : /\ Says(Confirm(m.a, n))
                          /\ chan' = [st |-> "open", peer |-> m.a, id |-> n]
  BY Zenon DEF MeConfirm
<1>4. n \in Nat /\ RxCap \in Nat
  BY ParameterAssumption
<1>5. LinkOK'
  BY <1>1, <1>2, <1>3, <1>4, SaysType, ToHostMessages
<1> QED BY <1>2, <1>3, <1>4, <1>5 DEF MeOK, MeConfirm

LEMMA MeClosedType ==
  ASSUME LinkOK, MeOK, NEW m, MeClosed(m)
  PROVE  LinkOK' /\ MeOK'
<1>1. toMe' \in Seq(ToMeMessage)
  BY TakesType DEF MeClosed
<1>2. CloseMsg(chan.peer) \in ToHostMessage
  BY ToHostMessages DEF MeOK
<1>3. LinkOK'
  BY <1>1, <1>2, SaysType, QuietType DEF MeClosed
<1>4. NoChan \in [st : {"none", "open", "closing"}, peer : Channels, id : Nat]
  BY ParameterAssumption DEF NoChan, Channels
<1>5. chan' \in [st : {"none", "open", "closing"}, peer : Channels, id : Nat]
  BY <1>4 DEF MeOK, MeClosed
<1>6. req' \in Nat /\ resp' \in Seq(Sizes)
  <2>1. 0 \in Nat /\ <<>> \in Seq(Sizes)
    BY EmptySeq
  <2>2. CASE chan'.st = "none"
    BY <2>1, <2>2, Zenon DEF MeClosed
  <2>3. CASE chan'.st # "none"
    BY <2>3, Zenon DEF MeOK, MeClosed
  <2> QED BY <2>2, <2>3
<1> QED BY <1>3, <1>5, <1>6 DEF MeOK, MeClosed

LEMMA MeReadsType == LinkOK /\ MeOK /\ MeReads => LinkOK' /\ MeOK'
<1> SUFFICES ASSUME LinkOK, MeOK, MeReads PROVE LinkOK' /\ MeOK'
  OBVIOUS
<1>1. PICK m : \/ MeVersion(m) \/ MeGranted(m) \/ MeConfirm(m) \/ MeRefuse(m)
               \/ MeRequest(m) \/ MeAdjust(m) \/ MeClosed(m) \/ MeIgnores(m)
  BY Zenon DEF MeReads
<1>2. m \in ToMeMessage /\ toMe' \in Seq(ToMeMessage)
  BY <1>1, TakesType DEF MeVersion, MeGranted, MeConfirm, MeRefuse, MeRequest,
                         MeAdjust, MeClosed, MeIgnores
<1>3. CASE MeVersion(m)
  <2>1. LinkOK'
    BY <1>2, <1>3, QuietType DEF MeVersion
  <2>2. script' \in Seq(InitMessage)
    BY <1>3, ScriptAssumption DEF MeVersion
  <2> QED BY <1>3, <2>1, <2>2 DEF MeOK, MeVersion
<1>4. CASE MeGranted(m)
  <2>1. LinkOK'
    BY <1>2, <1>4, QuietType DEF MeGranted
  <2>2. granted' \subseteq Ports
    BY <1>2, <1>4, ToMeFields DEF MeOK, MeGranted
  <2> QED BY <1>4, <2>1, <2>2 DEF MeOK, MeGranted
<1>5. CASE MeConfirm(m)
  BY <1>5, MeConfirmType
<1>6. CASE MeRefuse(m)
  <2>1. Failure(m.a) \in ToHostMessage
    BY <1>2, <1>6, ToMeFields, ToHostMessages DEF MeRefuse
  <2> QED BY <1>2, <1>6, <2>1, SaysType, MeKept DEF MeRefuse
<1>7. CASE MeRequest(m)
  <2>1. LinkOK'
    BY <1>2, <1>7, QuietType DEF MeRequest
  <2>2. m.b \in Nat
    BY <1>2, ToMeFields
  <2>3. resp' \in Seq(Sizes)
    BY <1>7, SizesAre DEF MeRequest
  <2> QED BY <1>7, <2>1, <2>2, <2>3 DEF MeOK, MeRequest
<1>8. CASE MeAdjust(m)
  <2>1. LinkOK'
    BY <1>2, <1>8, QuietType DEF MeAdjust
  <2>2. m.b \in Nat
    BY <1>2, ToMeFields
  <2>3. win' \in Nat
    BY <1>8, <2>2 DEF MeOK, MeAdjust
  <2> QED BY <1>8, <2>1, <2>3 DEF MeOK, MeAdjust
<1>9. CASE MeClosed(m)
  BY <1>9, MeClosedType
<1>10. CASE MeIgnores(m)
  BY <1>2, <1>10, QuietType, MeKept DEF MeIgnores
<1> QED BY <1>1, <1>3, <1>4, <1>5, <1>6, <1>7, <1>8, <1>9, <1>10

LEMMA MeNoiseType == LinkOK /\ MeOK /\ MeNoise => LinkOK' /\ MeOK'
<1> SUFFICES ASSUME LinkOK, MeOK, MeNoise PROVE LinkOK' /\ MeOK'
  OBVIOUS
<1>1. PICK m \in {Keepalive, Adjust(0, 0)} : Says(m)
  BY Zenon DEF MeNoise
<1>2. LinkOK'
  BY <1>1, SaysType, ToHostMessages DEF MeNoise, LinkOK
<1> QED BY <1>2, MeKept DEF MeNoise

(* Losing the connection, or the ME itself.                                *)
LEMMA MeLostType ==
  LinkOK /\ MeOK /\ (MeDisconnect \/ MeDown) => LinkOK' /\ MeOK'
<1> SUFFICES ASSUME LinkOK, MeOK, MeDisconnect \/ MeDown PROVE LinkOK' /\ MeOK'
  OBVIOUS
<1>1. /\ \A S : <<>> \in Seq(S)
      /\ NoChan \in [st : {"none", "open", "closing"}, peer : Channels,
                     id : Nat]
  BY EmptySeq, ParameterAssumption DEF NoChan, Channels
<1>2. MeOK'
  <2>1. chan' = NoChan /\ script' = <<>> /\ req' = 0 /\ resp' = <<>>
    BY Zenon DEF MeDisconnect, MeDown
  <2>2. UNCHANGED <<asked, granted, idx, win>>
    BY DEF MeDisconnect, MeDown
  <2> QED BY <1>1, <2>1, <2>2 DEF MeOK
<1>3. /\ up' \in BOOLEAN /\ conn' \in BOOLEAN /\ (conn' => up')
      /\ disc' \in BOOLEAN
  BY Zenon DEF LinkOK, MeDisconnect, MeDown
<1>4. /\ inbox' \in Seq(ToHostMessage) /\ toMe' \in Seq(ToMeMessage)
      /\ credit' \in Nat /\ orphans' \in Nat
  <2>1. CASE MeDisconnect
    BY <2>1 DEF LinkOK, MeDisconnect
  <2>2. CASE MeDown
    <3>1. inbox' = <<>> /\ toMe' = <<>> /\ credit' = 0 /\ orphans' = orphans
      BY <2>2, Zenon DEF MeDown
    <3> QED BY <1>1, <3>1 DEF LinkOK
  <2> QED BY <2>1, <2>2
<1> QED BY <1>2, <1>3, <1>4 DEF LinkOK

-----------------------------------------------------------------------------
LEMMA InitType == Init => TypeOK
<1> SUFFICES ASSUME Init PROVE TypeOK
  OBVIOUS
<1>1. /\ \A S : <<>> \in Seq(S)
      /\ 0 \in Channels /\ 0 \in 0 .. RxCap
  BY EmptySeq, ParameterAssumption DEF Channels
<1> QED BY <1>1 DEF Init, TypeOK, SessionOK, ControlOK, LinkOK, LossesOK, MeOK,
                   NoChan

LEMMA NextTyped == TypeOK /\ [Next]_vars => Typed'
<1> SUFFICES ASSUME TypeOK, [Next]_vars PROVE Typed'
  OBVIOUS
<1>1. CASE HostMessage
  BY <1>1, MessageType, Zenon DEF HostMessage
<1>2. CASE HandshakeSilence \/ OpenError \/ ResponseError
  BY <1>2, ErrorType
<1>3. CASE OversizePanics
  BY <1>3, OversizePanicsType
<1>4. CASE SendOpen
  BY <1>4, SendOpenType
<1>5. CASE Post
  BY <1>5, PostType
<1>6. CASE Send
  BY <1>6, SendType
<1>7. CASE Close
  BY <1>7, CloseType
<1>8. CASE Connect \/ ConnectFails
  BY <1>8, ConnectType
<1>9. CASE OrphanRead
  BY <1>9, OrphanReadType
<1>10. CASE MeStep
  BY <1>10, SessionKept, ControlKept, MeReadsType, MeInitType, MeRespondType,
     MeCloseType DEF MeStep, TypeOK, Typed
<1>11. CASE (MeNoise \/ MeDisconnect \/ MeDown) /\ UNCHANGED <<session, control>>
  BY <1>11, SessionKept, ControlKept, MeNoiseType, MeLostType DEF TypeOK, Typed
<1>12. CASE UNCHANGED vars
  <2>1. UNCHANGED session /\ UNCHANGED control /\ UNCHANGED link /\ UNCHANGED me
    BY <1>12, Zenon DEF vars
  <2>2. LinkOK'
    BY <2>1, Zenon DEF TypeOK, LinkOK, link
  <2> QED BY <2>1, <2>2, SessionKept, ControlKept, MeKept DEF TypeOK, Typed
<1> QED BY <1>1, <1>2, <1>3, <1>4, <1>5, <1>6, <1>7, <1>8, <1>9, <1>10, <1>11,
           <1>12, Zenon DEF Next, Host

(* What never reached its reader is a message, or stands for one.          *)
LEMMA LossesKept == LossesOK /\ UNCHANGED <<starved, lost>> => LossesOK'
  BY Zenon DEF LossesOK

LEMMA PutLosses ==
  ASSUME LossesOK, NEW m \in ToMeMessage, Put(m)
  PROVE  lost' \subseteq ToMeMessage \cup ToHostMessage \cup {Rest}
<1>1. lost' = lost \/ lost' = lost \cup {m} \/ lost' = lost \cup {Rest}
  BY Zenon DEF Put, Sent, Unsent, Loses, Delivers
<1> QED BY <1>1 DEF LossesOK

LEMMA MessageLosses ==
  ASSUME TypeOK, NEW m, Received(m), Process(m)
  PROVE  LossesOK'
<1>1. m \in ToHostMessage
  BY Queues DEF TypeOK, LinkOK, Received
<1>2. amt \in Nat /\ m.c \in Nat /\ (m.t = "forward" => m.a \in Ports) /\ LossesOK
  BY <1>1, ToHostFields DEF TypeOK, SessionOK
<1>3. NoReply \/ \E e \in ToMeMessage : Put(e)
  BY <1>2, ToMeMessages, Zenon DEF Process, Grant
<1>4. lost' \subseteq ToMeMessage \cup ToHostMessage \cup {Rest}
  BY <1>2, <1>3, PutLosses, Zenon DEF NoReply, LossesOK
<1>5. starved' \in BOOLEAN
  BY <1>2, Zenon DEF Received, SendFlowControl, LossesOK
<1> QED BY <1>4, <1>5 DEF LossesOK

LEMMA NextLosses == TypeOK /\ [Next]_vars => LossesOK'
<1> SUFFICES ASSUME TypeOK, [Next]_vars PROVE LossesOK'
  OBVIOUS
<1>0. LossesOK
  BY DEF TypeOK
<1>1. ASSUME NEW e \in ToMeMessage, Put(e), starved' = starved PROVE LossesOK'
  BY <1>0, <1>1, PutLosses, Zenon DEF LossesOK
<1>2. CASE HostMessage
  BY <1>2, MessageLosses, Zenon DEF HostMessage, HandshakeMessage, OpenMessage,
     ResponseMessage
<1>3. CASE HandshakeSilence \/ OpenError \/ ResponseError
  <2>1. CASE Aborted
    BY <1>1, <2>1, ToMeMessages DEF Aborted
  <2>2. CASE ReadError \/ TimedOut \/ Oversize
    BY <1>0, <2>2, LossesKept DEF ReadError, TimedOut, Oversize, link
  <2> QED BY <1>3, <2>1, <2>2 DEF HandshakeSilence, OpenError, ResponseError, RecvError
<1>4. CASE OversizePanics \/ Post
  BY <1>0, <1>4, LossesKept DEF OversizePanics, Post, link
<1>5. CASE SendOpen
  <2>1. Open(our') \in ToMeMessage
    BY <1>5, NextChannelIs, ToMeMessages DEF TypeOK, SessionOK, SendOpen
  <2> QED BY <1>1, <1>5, <2>1 DEF SendOpen, Put
<1>6. CASE Send
  <2>1. Request(amt, posts') \in ToMeMessage
    BY <1>6, ToMeMessages DEF TypeOK, SessionOK, ControlOK, Send
  <2> QED BY <1>1, <1>6, <2>1 DEF Send, Put
<1>7. CASE Close
  <2>1. CloseMsg(amt) \in ToMeMessage
    BY ToMeMessages DEF TypeOK, SessionOK
  <2>2. starved' = starved /\ (Put(CloseMsg(amt)) \/ NoReply)
    BY <1>7 DEF Close
  <2> QED BY <1>0, <1>1, <2>1, <2>2, LossesKept DEF NoReply
<1>8. CASE Connect \/ ConnectFails
  <2>1. starved' = FALSE /\ lost' = {}
    BY <1>8, Zenon DEF Connect, ConnectFails, ResetLink
  <2> QED BY <2>1 DEF LossesOK
<1>9. CASE OrphanRead
  <2>1. Head(inbox) \in ToHostMessage
    BY <1>9, Queues DEF TypeOK, LinkOK, OrphanRead
  <2>2. lost' = lost \/ lost' = lost \cup {Head(inbox)}
    BY <1>9 DEF OrphanRead
  <2>3. lost' \subseteq ToMeMessage \cup ToHostMessage \cup {Rest}
    BY <1>0, <2>1, <2>2 DEF LossesOK
  <2>4. starved' \in BOOLEAN
    BY <1>0, <1>9, Zenon DEF OrphanRead, LossesOK
  <2> QED BY <2>3, <2>4 DEF LossesOK
<1>10. CASE MeStep \/ MeNoise \/ MeDisconnect \/ MeDown
  <2>1. UNCHANGED <<starved, lost>>
    BY <1>10 DEF MeStep, MeReads, MeInit, MeRespond, MeClose, MeVersion, MeGranted,
       MeConfirm, MeRefuse, MeRequest, MeAdjust, MeClosed, MeIgnores, MeNoise,
       MeDisconnect, MeDown, Says, Quiet
  <2> QED BY <1>0, <2>1, LossesKept
<1>11. CASE UNCHANGED vars
  BY <1>0, <1>11, LossesKept DEF vars, link
<1> QED BY <1>2, <1>3, <1>4, <1>5, <1>6, <1>7, <1>8, <1>9, <1>10, <1>11, Zenon
           DEF Next, Host

LEMMA NextType == TypeOK /\ [Next]_vars => TypeOK'
  BY NextTyped, NextLosses DEF TypeOK, Typed

(* The session keeps its types: our_channel stays a 5-bit number however   *)
(* often channels are opened (lme/mod.rs:411), rx_buf is never overrun     *)
(* (lme/mod.rs:284), and both ends only receive messages they know.        *)
THEOREM TypesHold == Spec => []TypeOK
<1>1. Init => TypeOK
  BY InitType
<1>2. TypeOK /\ [Next]_vars => TypeOK'
  BY NextType
<1> QED BY <1>1, <1>2, PTL DEF Spec

-----------------------------------------------------------------------------
(* Flow control.  Besides Connect, which starts with one credit, and the   *)
(* steps that end the connection or give up on a credit, every step keeps  *)
(* the sum of the credits the ME holds and the messages it has spent one   *)
(* on.                                                                     *)

LEMMA BalanceKept ==
  ASSUME CreditBalance, conn' => conn, starved' = starved,
         credit' + Len(inbox') = credit + Len(inbox)
  PROVE  CreditBalance'
  BY DEF CreditBalance

LEMMA ReceivedBalance ==
  ASSUME TypeOK, CreditBalance, NEW m, Received(m)
  PROVE  CreditBalance'
<1>1. /\ inbox \in Seq(ToHostMessage) /\ inbox # <<>> /\ inbox' = Tail(inbox)
      /\ credit \in Nat /\ conn' = conn
  BY DEF TypeOK, LinkOK, Received
<1>2. Len(inbox) \in Nat /\ Len(inbox') = Len(inbox) - 1
  BY <1>1, Queues
<1>3. \/ credit' = CreditBack /\ starved' = starved
      \/ credit' = credit /\ starved' = TRUE
  BY Zenon DEF Received, SendFlowControl
<1>4. CASE ~conn
  BY <1>1, <1>4 DEF CreditBalance
<1>5. CASE conn /\ credit' = CreditBack /\ starved' = starved
  BY <1>1, <1>2, <1>5, BalanceKept DEF CreditBack
<1>6. CASE credit' = credit /\ starved' = TRUE
  BY <1>1, <1>2, <1>6 DEF CreditBalance
<1> QED BY <1>3, <1>4, <1>5, <1>6

LEMMA RecvErrorBalance ==
  ASSUME TypeOK, CreditBalance, RecvError
  PROVE  CreditBalance'
<1>1. inbox \in Seq(ToHostMessage) /\ Len(inbox) \in Nat /\ credit \in Nat
  BY Queues DEF TypeOK, LinkOK
<1>2. CASE Aborted
  BY <1>2, BalanceKept DEF Aborted
<1>3. CASE ReadError
  BY <1>3, BalanceKept DEF ReadError, link
<1>4. CASE TimedOut
  BY <1>4, BalanceKept DEF TimedOut
<1>5. CASE Oversize
  <2>1. /\ inbox # <<>> /\ Head(inbox).c > BufCap
        /\ inbox' = Tail(inbox) /\ credit' = credit /\ conn' = conn
        /\ starved' = starved
    BY <1>5 DEF Oversize
  <2>2. Head(inbox) \in ToHostMessage /\ Len(inbox') = Len(inbox) - 1
    BY <1>1, <2>1, Queues
  <2>3. Head(inbox).c \in Nat /\ BufCap \in Nat
    BY <2>2, ToHostFields, ParameterAssumption
  <2>4. Head(inbox).c \in Sizes
    BY <2>1, <2>2, <2>3, ToHostFields
  <2>5. ~ResponsesFit
    BY <2>1, <2>3, <2>4, SizesAre
  <2> QED BY <1>1, <2>1, <2>2, <2>5 DEF CreditBalance
<1> QED BY <1>2, <1>3, <1>4, <1>5 DEF RecvError

LEMMA SaysBalance ==
  ASSUME TypeOK, CreditBalance, NEW m \in ToHostMessage, Says(m)
  PROVE  CreditBalance'
<1>1. /\ inbox \in Seq(ToHostMessage) /\ credit \in Nat
      /\ inbox' = Append(inbox, m) /\ credit' = credit - 1
      /\ conn' = conn /\ starved' = starved
  BY DEF TypeOK, LinkOK, Says
<1>2. Len(inbox) \in Nat /\ Len(inbox') = Len(inbox) + 1
  BY <1>1, Queues
<1> QED BY <1>1, <1>2, BalanceKept

(* Whatever the ME does with what it reads, it says at most one message.   *)
LEMMA MeStepBalance ==
  ASSUME TypeOK, CreditBalance, MeStep
  PROVE  CreditBalance'
<1>1. ASSUME Quiet PROVE CreditBalance'
  BY <1>1, BalanceKept DEF Quiet
<1>2. CASE MeInit
  <2>1. script \in Seq(InitMessage) /\ script # <<>> /\ Says(Head(script))
    BY <1>2 DEF TypeOK, MeOK, MeInit
  <2>2. Head(script) \in ToHostMessage
    BY <2>1, Queues, ToHostMessages
  <2> QED BY <2>1, <2>2, SaysBalance
<1>3. CASE MeRespond
  <2>1. /\ resp \in Seq(Sizes) /\ resp # <<>> /\ req \in Nat /\ idx \in Nat
        /\ Says(Chunk(req, idx, Head(resp)))
    BY <1>3 DEF TypeOK, MeOK, MeRespond
  <2>2. Head(resp) \in Sizes
    BY <2>1, Queues
  <2>3. Chunk(req, idx, Head(resp)) \in ToHostMessage
    BY <2>1, <2>2, ToHostMessages
  <2> QED BY <2>1, <2>3, SaysBalance
<1>4. CloseMsg(chan.peer) \in ToHostMessage
  BY ToHostMessages DEF TypeOK, MeOK
<1>5. CASE MeClose
  BY <1>4, <1>5, SaysBalance DEF MeClose
<1>6. CASE MeReads
  <2>1. PICK m : \/ MeVersion(m) \/ MeGranted(m) \/ MeConfirm(m) \/ MeRefuse(m)
                 \/ MeRequest(m) \/ MeAdjust(m) \/ MeClosed(m) \/ MeIgnores(m)
    BY <1>6, Zenon DEF MeReads
  <2>2. CASE MeVersion(m) \/ MeGranted(m) \/ MeRequest(m) \/ MeAdjust(m)
             \/ MeIgnores(m)
    BY <1>1, <2>2, Zenon DEF MeVersion, MeGranted, MeRequest, MeAdjust, MeIgnores
  <2>3. CASE MeConfirm(m)
    <3>1. m.a \in Channels
      BY <2>3, TakesType, ToMeFields DEF TypeOK, MeConfirm
    <3>2. PICK n \in AmtIds : Says(Confirm(m.a, n))
      BY <2>3, Zenon DEF MeConfirm
    <3>3. n \in Nat
      BY ParameterAssumption
    <3> QED BY <3>1, <3>2, <3>3, SaysBalance, ToHostMessages
  <2>4. CASE MeRefuse(m)
    <3>1. m.a \in Channels
      BY <2>4, TakesType, ToMeFields DEF TypeOK, MeRefuse
    <3> QED BY <2>4, <3>1, SaysBalance, ToHostMessages DEF MeRefuse
  <2>5. CASE MeClosed(m)
    BY <1>1, <1>4, <2>5, SaysBalance DEF MeClosed
  <2> QED BY <2>1, <2>2, <2>3, <2>4, <2>5
<1> QED BY <1>2, <1>3, <1>5, <1>6 DEF MeStep

LEMMA NextBalance == TypeOK /\ CreditBalance /\ [Next]_vars => CreditBalance'
<1> SUFFICES ASSUME TypeOK, CreditBalance, [Next]_vars PROVE CreditBalance'
  OBVIOUS
<1>1. ASSUME UNCHANGED <<conn, credit, inbox, starved>> PROVE CreditBalance'
  BY <1>1 DEF CreditBalance
<1>2. CASE HostMessage
  BY <1>2, ReceivedBalance, Zenon DEF HostMessage, HandshakeMessage, OpenMessage,
     ResponseMessage
<1>3. CASE HandshakeSilence \/ OpenError \/ ResponseError
  BY <1>3, RecvErrorBalance DEF HandshakeSilence, OpenError, ResponseError,
     RecvError
<1>4. CASE OversizePanics
  BY <1>4 DEF OversizePanics, CreditBalance
<1>5. CASE SendOpen \/ Send
  BY <1>1, <1>5 DEF SendOpen, Send
<1>6. CASE Post
  BY <1>1, <1>6 DEF Post, link
<1>7. CASE Close
  <2>1. (conn' => conn) /\ UNCHANGED <<credit, inbox, starved>>
    BY <1>7, Zenon DEF Close
  <2> QED BY <2>1 DEF CreditBalance
<1>8. CASE Connect
  BY <1>8, EmptySeq DEF Connect, ResetLink, CreditBalance
<1>9. CASE ConnectFails
  BY <1>9 DEF ConnectFails, CreditBalance
<1>10. CASE OrphanRead
  <2>1. /\ inbox \in Seq(ToHostMessage) /\ inbox # <<>> /\ inbox' = Tail(inbox)
        /\ credit \in Nat /\ credit' = CreditBack
        /\ conn' = conn /\ starved' = starved
    BY <1>10 DEF TypeOK, LinkOK, OrphanRead
  <2>2. Len(inbox) \in Nat /\ Len(inbox') = Len(inbox) - 1
    BY <2>1, Queues
  <2>3. CASE conn
    BY <2>1, <2>2, <2>3, BalanceKept DEF CreditBack
  <2>4. CASE ~conn
    BY <2>1, <2>4 DEF CreditBalance
  <2> QED BY <2>3, <2>4
<1>11. CASE MeStep
  BY <1>11, MeStepBalance
<1>12. CASE MeNoise
  BY <1>12, SaysBalance, ToHostMessages DEF MeNoise
<1>13. CASE MeDisconnect \/ MeDown
  BY <1>13 DEF MeDisconnect, MeDown, CreditBalance
<1>14. CASE UNCHANGED vars
  BY <1>1, <1>14 DEF vars, link
<1> QED BY <1>2, <1>3, <1>4, <1>5, <1>6, <1>7, <1>8, <1>9, <1>10, <1>11, <1>12,
           <1>13, <1>14, Zenon DEF Next, Host

(* Whatever loop reads a message, the ME never holds more than one credit, *)
(* a message in flight counted; and if its messages fit the program's      *)
(* buffers it never starves for one (lme/mod.rs:213, 219).                 *)
THEOREM CreditBalanceHolds == Spec => []CreditBalance
<1>1. Init => CreditBalance
  BY DEF Init, CreditBalance
<1>2. TypeOK /\ CreditBalance /\ [Next]_vars => CreditBalance'
  BY NextBalance
<1> QED BY <1>1, <1>2, TypesHold, PTL DEF Spec

-----------------------------------------------------------------------------
(* CHANNEL_OPEN waits for the forward.  port_forward_ok speaks of this     *)
(* connection: it is set only by a request the ME sent on it, and reset    *)
(* with the connection.                                                    *)
PfAsked ==
  /\ pf => Http \in asked
  /\ \A i \in 1 .. Len(inbox) : inbox[i].t = "forward" => inbox[i].a \in asked

LEMMA TailAsked ==
  ASSUME TypeOK, PfAsked, inbox # <<>>, inbox' = Tail(inbox), asked' = asked
  PROVE  /\ \A i \in 1 .. Len(inbox') :
               inbox'[i].t = "forward" => inbox'[i].a \in asked'
         /\ Head(inbox).t = "forward" => Head(inbox).a \in asked
<1>1. inbox \in Seq(ToHostMessage)
  BY DEF TypeOK, LinkOK
<1>2. /\ Len(inbox) \in Nat /\ Len(inbox) >= 1 /\ Head(inbox) = inbox[1]
      /\ Len(inbox') = Len(inbox) - 1
      /\ \A i \in 1 .. Len(inbox') : inbox'[i] = inbox[i + 1]
  BY <1>1, Queues, QueueOrder
<1>3. \A i \in 1 .. Len(inbox') : i + 1 \in 1 .. Len(inbox)
  BY <1>2
<1>4. 1 \in 1 .. Len(inbox)
  BY <1>2
<1> QED BY <1>2, <1>3, <1>4, Zenon DEF PfAsked

LEMMA SaysAsked ==
  ASSUME TypeOK, PfAsked, NEW m \in ToHostMessage, Says(m), pf' = pf,
         asked \subseteq asked', m.t = "forward" => m.a \in asked'
  PROVE  PfAsked'
<1>1. inbox \in Seq(ToHostMessage) /\ inbox' = Append(inbox, m)
  BY DEF TypeOK, LinkOK, Says
<1>2. /\ Len(inbox) \in Nat /\ Len(inbox') = Len(inbox) + 1
      /\ \A i \in 1 .. Len(inbox) : inbox'[i] = inbox[i]
      /\ inbox'[Len(inbox) + 1] = m
  BY <1>1, Queues, QueueOrder
<1>3. asked \subseteq asked' /\ (m.t = "forward" => m.a \in asked')
  OBVIOUS
<1>4. ASSUME NEW i \in 1 .. Len(inbox'), inbox'[i].t = "forward"
      PROVE  inbox'[i].a \in asked'
  <2>1. CASE i = Len(inbox) + 1
    BY <1>2, <1>3, <1>4, <2>1
  <2>2. CASE i # Len(inbox) + 1
    <3>1. i \in 1 .. Len(inbox)
      BY <1>2, <2>2
    <3> QED BY <1>2, <1>3, <1>4, <3>1 DEF PfAsked
  <2> QED BY <2>1, <2>2
<1> QED BY <1>3, <1>4 DEF PfAsked

LEMMA MeStepAsked ==
  ASSUME TypeOK, PfAsked, MeStep
  PROVE  PfAsked'
<1>0. pf' = pf
  BY DEF MeStep, session
<1>1. ASSUME Quiet, asked' = asked PROVE PfAsked'
  BY <1>0, <1>1, Zenon DEF Quiet, PfAsked
<1>2. CASE MeInit
  <2>1. script \in Seq(InitMessage) /\ script # <<>> /\ Says(Head(script))
    BY <1>2 DEF TypeOK, MeOK, MeInit
  <2>2. Head(script) \in ToHostMessage
    BY <2>1, Queues, ToHostMessages
  <2>3. asked \subseteq asked' /\ (Head(script).t = "forward" => Head(script).a \in asked')
    BY <1>2 DEF MeInit, PortsIn
  <2> QED BY <1>0, <2>1, <2>2, <2>3, SaysAsked
<1>3. CASE MeRespond
  <2>1. /\ resp \in Seq(Sizes) /\ resp # <<>> /\ req \in Nat /\ idx \in Nat
        /\ Says(Chunk(req, idx, Head(resp))) /\ asked' = asked
    BY <1>3 DEF TypeOK, MeOK, MeRespond
  <2>2. Head(resp) \in Sizes
    BY <2>1, Queues
  <2>3. Chunk(req, idx, Head(resp)) \in ToHostMessage
    BY <2>1, <2>2, ToHostMessages
  <2>4. Chunk(req, idx, Head(resp)).t # "forward"
    BY DEF Chunk, Msg
  <2> QED BY <1>0, <2>1, <2>3, <2>4, SaysAsked
<1>4. /\ CloseMsg(chan.peer) \in ToHostMessage
      /\ CloseMsg(chan.peer).t # "forward"
  BY ToHostMessages DEF TypeOK, MeOK, CloseMsg, Msg
<1>5. CASE MeClose
  BY <1>0, <1>4, <1>5, SaysAsked DEF MeClose
<1>6. CASE MeReads
  <2>1. PICK m : \/ MeVersion(m) \/ MeGranted(m) \/ MeConfirm(m) \/ MeRefuse(m)
                 \/ MeRequest(m) \/ MeAdjust(m) \/ MeClosed(m) \/ MeIgnores(m)
    BY <1>6, Zenon DEF MeReads
  <2>2. asked' = asked
    BY <2>1 DEF MeVersion, MeGranted, MeConfirm, MeRefuse, MeRequest, MeAdjust,
                MeClosed, MeIgnores, me
  <2>3. CASE MeVersion(m) \/ MeGranted(m) \/ MeRequest(m) \/ MeAdjust(m)
             \/ MeIgnores(m)
    BY <1>1, <2>2, <2>3, Zenon DEF MeVersion, MeGranted, MeRequest, MeAdjust,
       MeIgnores
  <2>4. CASE MeConfirm(m)
    <3>1. m.a \in Channels
      BY <2>4, TakesType, ToMeFields DEF TypeOK, MeConfirm
    <3>2. PICK n \in AmtIds : Says(Confirm(m.a, n))
      BY <2>4, Zenon DEF MeConfirm
    <3>3. n \in Nat
      BY ParameterAssumption
    <3>4. Confirm(m.a, n) \in ToHostMessage /\ Confirm(m.a, n).t # "forward"
      BY <3>1, <3>3, ToHostMessages DEF Confirm, Msg
    <3> QED BY <1>0, <2>2, <3>2, <3>4, SaysAsked
  <2>5. CASE MeRefuse(m)
    <3>1. m.a \in Channels
      BY <2>5, TakesType, ToMeFields DEF TypeOK, MeRefuse
    <3>2. Failure(m.a) \in ToHostMessage /\ Failure(m.a).t # "forward"
      BY <3>1, ToHostMessages DEF Failure, Msg
    <3> QED BY <1>0, <2>2, <2>5, <3>2, SaysAsked DEF MeRefuse
  <2>6. CASE MeClosed(m)
    BY <1>0, <1>1, <1>4, <2>2, <2>6, SaysAsked DEF MeClosed
  <2> QED BY <2>1, <2>3, <2>4, <2>5, <2>6
<1> QED BY <1>2, <1>3, <1>5, <1>6 DEF MeStep

LEMMA MessageAsked ==
  ASSUME TypeOK, PfAsked, NEW m, Received(m), Process(m)
  PROVE  PfAsked'
<1>1. inbox # <<>> /\ m = Head(inbox) /\ inbox' = Tail(inbox) /\ asked' = asked
  BY DEF Received, me
<1>2. pf' = pf \/ (m.t = "forward" /\ pf' = (pf \/ m.a = Http))
  BY DEF Process, session
<1>3. pf' => Http \in asked'
  BY <1>1, <1>2, TailAsked, Zenon DEF PfAsked
<1> QED BY <1>1, <1>3, TailAsked DEF PfAsked

LEMMA RecvErrorAsked ==
  ASSUME TypeOK, PfAsked, RecvError, pf' = pf
  PROVE  PfAsked'
<1>1. asked' = asked
  BY DEF RecvError, Aborted, ReadError, TimedOut, Oversize, me
<1>2. CASE Oversize
  <2>1. inbox # <<>> /\ inbox' = Tail(inbox)
    BY <1>2 DEF Oversize
  <2> QED BY <1>1, <2>1, TailAsked DEF PfAsked
<1>3. CASE Aborted \/ ReadError \/ TimedOut
  <2>1. inbox' = inbox
    BY <1>3 DEF Aborted, ReadError, TimedOut, link
  <2> QED BY <1>1, <2>1, Zenon DEF PfAsked
<1> QED BY <1>2, <1>3 DEF RecvError

LEMMA NextAsked == TypeOK /\ PfAsked /\ [Next]_vars => PfAsked'
<1> SUFFICES ASSUME TypeOK, PfAsked, [Next]_vars PROVE PfAsked'
  OBVIOUS
<1>1. ASSUME UNCHANGED <<pf, inbox, asked>> PROVE PfAsked'
  BY <1>1, Zenon DEF PfAsked
<1>2. ASSUME inbox # <<>>, inbox' = Tail(inbox), UNCHANGED <<pf, asked>>
      PROVE  PfAsked'
  BY <1>2, TailAsked DEF PfAsked
<1>3. CASE HostMessage
  BY <1>3, MessageAsked, Zenon DEF HostMessage, HandshakeMessage, OpenMessage,
     ResponseMessage
<1>4. CASE HandshakeSilence \/ OpenError \/ ResponseError
  BY <1>4, RecvErrorAsked DEF HandshakeSilence, OpenError, ResponseError,
     RecvError, session
<1>5. CASE OversizePanics
  BY <1>2, <1>5 DEF OversizePanics, session, me
<1>6. CASE SendOpen \/ Send \/ Close
  BY <1>1, <1>6 DEF SendOpen, Send, Close, me
<1>7. CASE Post
  BY <1>1, <1>7 DEF Post, session, link, me
<1>8. CASE Connect \/ ConnectFails
  <2>1. pf' = FALSE /\ inbox' = <<>>
    BY <1>8, Zenon DEF Connect, ConnectFails, ResetSession, ResetLink
  <2>2. Len(inbox') = 0
    BY <2>1, EmptySeq
  <2> QED BY <2>1, <2>2 DEF PfAsked
<1>9. CASE OrphanRead
  BY <1>2, <1>9 DEF OrphanRead, session, me
<1>10. CASE MeStep
  BY <1>10, MeStepAsked
<1>11. CASE MeNoise /\ UNCHANGED <<session, control>>
  <2>1. PICK m \in {Keepalive, Adjust(0, 0)} : Says(m)
    BY <1>11, Zenon DEF MeNoise
  <2>2. m \in ToHostMessage /\ m.t # "forward"
    BY ToHostMessages DEF Keepalive, Adjust, Msg
  <2>3. pf' = pf /\ asked' = asked
    BY <1>11 DEF MeNoise, session, me
  <2> QED BY <2>1, <2>2, <2>3, SaysAsked
<1>12. CASE MeDisconnect /\ UNCHANGED <<session, control>>
  BY <1>1, <1>12 DEF MeDisconnect, session
<1>13. CASE MeDown /\ UNCHANGED <<session, control>>
  <2>1. pf' = pf /\ asked' = asked /\ Len(inbox') = 0
    BY <1>13, EmptySeq DEF MeDown, session
  <2> QED BY <2>1 DEF PfAsked
<1>14. CASE UNCHANGED vars
  BY <1>1, <1>14 DEF vars, session, link, me
<1> QED BY <1>3, <1>4, <1>5, <1>6, <1>7, <1>8, <1>9, <1>10, <1>11, <1>12, <1>13,
           <1>14, Zenon DEF Next, Host

(* The handshake goes on to CHANNEL_OPEN only once the ME has asked, on    *)
(* this very connection, to forward port 16992, or when it gives up:       *)
(* after two silent reads in a row or the last attempt (lme/mod.rs:52-92). *)
(* A forward of an earlier connection never counts.                        *)
THEOREM OpenAfterForwardHolds == Spec => OpenAfterForward
<1>1. Init => PfAsked
  BY EmptySeq DEF Init, PfAsked
<1>2. TypeOK /\ PfAsked /\ [Next]_vars => PfAsked'
  BY NextAsked
<1>3. TypeOK /\ PfAsked /\ PfAsked' /\ [Next]_vars
        => [pc = "handshake" /\ pc' = "tryopen" =>
              /\ pvOk'
              /\ \/ Http \in asked
                 \/ touts' >= 2 \/ attempt + 1 = HandshakeTries]_vars
  <2> SUFFICES ASSUME TypeOK, PfAsked, PfAsked', [Next]_vars,
                      pc = "handshake", pc' = "tryopen"
               PROVE  /\ pvOk'
                      /\ \/ Http \in asked
                         \/ touts' >= 2 \/ attempt + 1 = HandshakeTries
    OBVIOUS
  <2>1. (\E m : HandshakeMessage(m)) \/ HandshakeSilence
    BY Zenon DEF Next, Host, HostMessage, OpenMessage, OpenError,
       ResponseMessage, ResponseError, OversizePanics, SendOpen, Post, Send,
       Close, OrphanRead, MeStep, control, vars, Connect, ConnectFails
  <2>2. CASE HandshakeSilence
    BY <2>2 DEF HandshakeSilence, LeaveHandshake, StayInHandshake, PfAsked
  <2>3. ASSUME NEW m, HandshakeMessage(m)
        PROVE  pvOk' /\ (Http \in asked \/ attempt + 1 = HandshakeTries)
    <3>1. asked' = asked
      BY <2>3 DEF HandshakeMessage, Received, me
    <3>2. pvOk' /\ (pf' \/ attempt + 1 = HandshakeTries)
      BY <2>3, Zenon DEF HandshakeMessage, LeaveHandshake, StayInHandshake
    <3> QED BY <3>1, <3>2 DEF PfAsked
  <2> QED BY <2>1, <2>2, <2>3
<1> QED BY <1>1, <1>2, <1>3, TypesHold, PTL DEF Spec, OpenAfterForward

-----------------------------------------------------------------------------
(* No forward request is lost, unless with a write that timed out or in an *)
(* abandoned read.                                                         *)

(* A forward request counts if the ME waits for its reply.                 *)
Is(m, t, p) == m.t = t /\ m.a = p /\ (t = "forward" => m.b # 0)

Has(q, t, p) == \E i \in 1 .. Len(q) : Is(q[i], t, p)

LEMMA HasAppend ==
  ASSUME NEW S, NEW q \in Seq(S), NEW e \in S, NEW t, NEW p,
         Has(q, t, p) \/ Is(e, t, p)
  PROVE  Has(Append(q, e), t, p)
<1>1. /\ Len(q) \in Nat /\ Len(Append(q, e)) = Len(q) + 1
      /\ \A i \in 1 .. Len(q) : Append(q, e)[i] = q[i]
      /\ Append(q, e)[Len(q) + 1] = e
  BY Queues, QueueOrder
<1>2. CASE Has(q, t, p)
  <2>1. PICK i \in 1 .. Len(q) : Is(q[i], t, p)
    BY <1>2 DEF Has
  <2>2. i \in 1 .. Len(Append(q, e))
    BY <1>1
  <2> QED BY <1>1, <2>1, <2>2 DEF Has
<1>3. CASE Is(e, t, p)
  <2>1. Len(q) + 1 \in 1 .. Len(Append(q, e))
    BY <1>1
  <2> QED BY <1>1, <1>3, <2>1 DEF Has
<1> QED BY <1>2, <1>3

LEMMA HasTail ==
  ASSUME NEW S, NEW q \in Seq(S), q # <<>>, NEW t, NEW p, Has(q, t, p)
  PROVE  Has(Tail(q), t, p) \/ Is(Head(q), t, p)
<1>1. /\ Len(q) \in Nat /\ Len(q) >= 1 /\ Head(q) = q[1]
      /\ Len(Tail(q)) = Len(q) - 1
      /\ \A i \in 1 .. Len(Tail(q)) : Tail(q)[i] = q[i + 1]
  BY Queues, QueueOrder
<1>2. PICK i \in 1 .. Len(q) : Is(q[i], t, p)
  BY DEF Has
<1>3. CASE i = 1
  BY <1>1, <1>2, <1>3
<1>4. CASE i # 1
  <2>1. i - 1 \in 1 .. Len(Tail(q)) /\ (i - 1) + 1 = i
    BY <1>1, <1>2, <1>4
  <2>2. Tail(q)[i - 1] = q[i]
    BY <1>1, <2>1
  <2> QED BY <1>2, <2>1, <2>2 DEF Has
<1> QED BY <1>3, <1>4

Gone(p) == \E m \in lost : m.t \in {"forward", "success"} /\ m.a = p

Waits(p) == \/ p \in granted
            \/ Has(inbox, "forward", p) \/ Has(toMe, "success", p)
            \/ Gone(p)

AllWait == conn => \A p \in asked : Waits(p)

LEMMA ForwardsNotLostIs == AllWait => ForwardsNotLost
<1>1. ASSUME NEW p, Has(inbox, "forward", p)
      PROVE  p \in {m.a : m \in Inbox("forward")}
  BY <1>1 DEF Inbox, Has, Is
<1>2. ASSUME NEW p, Has(toMe, "success", p)
      PROVE  p \in {m.a : m \in ToMe("success")}
  BY <1>2 DEF ToMe, Has, Is
<1>3. ASSUME NEW p, Gone(p)
      PROVE  p \in {m.a : m \in Lost({"forward", "success"})}
  BY <1>3 DEF Lost, Gone
<1> QED BY <1>1, <1>2, <1>3 DEF ForwardsNotLost, AllWait, Waits

(* A request that waits does so after any step that loses none.            *)
LEMMA StillWaits ==
  ASSUME AllWait, asked' = asked,
         conn' => /\ conn /\ granted \subseteq granted' /\ lost \subseteq lost'
                  /\ \A p : Has(inbox, "forward", p) =>
                         \/ Has(inbox', "forward", p) \/ Has(toMe', "success", p)
                         \/ Gone(p)' \/ p \in granted'
                  /\ \A p : Has(toMe, "success", p) =>
                         \/ Has(toMe', "success", p) \/ p \in granted'
  PROVE  AllWait'
<1>1. ASSUME conn', NEW p, Gone(p) PROVE Gone(p)'
  BY <1>1 DEF Gone
<1> QED BY <1>1, Zenon DEF AllWait, Waits

(* What becomes of a message put on the way to the ME.                     *)
LEMMA PutSends ==
  ASSUME NEW e, Put(e)
  PROVE  /\ toMe' = toMe \/ toMe' = Append(toMe, e)
         /\ lost \subseteq lost'
         /\ up /\ conn /\ e.t = "success" =>
               toMe' = Append(toMe, e) \/ (toMe' = toMe /\ e \in lost')
<1>1. \/ toMe' = toMe /\ lost' = lost /\ Refused
      \/ toMe' = Append(toMe, e) /\ lost' = lost
      \/ toMe' = toMe /\ lost' = lost \cup {IF e.t = "success" THEN e ELSE Rest}
  BY Zenon DEF Put, Sent, Unsent, Loses, Delivers
<1>2. up /\ conn => ~Refused
  BY Zenon DEF Refused
<1> QED BY <1>1, <1>2

(* What process_apf sends, and that a forward request is answered.         *)
LEMMA ProcessSends ==
  ASSUME TypeOK, NEW m \in ToHostMessage, Process(m)
  PROVE  /\ toMe' = toMe \/ \E e \in ToMeMessage : toMe' = Append(toMe, e)
         /\ lost \subseteq lost'
         /\ m.t = "forward" /\ m.b # 0 /\ conn =>
              \/ toMe' = Append(toMe, Success(m.a))
              \/ Success(m.a) \in lost'
<1> DEFINE Sends == /\ toMe' = toMe \/ \E d \in ToMeMessage : toMe' = Append(toMe, d)
                    /\ lost \subseteq lost'
<1>1. ASSUME NEW e \in ToMeMessage, Put(e) PROVE Sends
  BY <1>1, PutSends, Zenon
<1>2. ASSUME NoReply PROVE Sends
  BY <1>2 DEF NoReply
<1>3. amt \in Nat /\ m.c \in Nat
  BY ToHostFields DEF TypeOK, SessionOK
<1> HIDE DEF Sends
<1>4. CASE m.t # "forward"
  <2>1. NoReply \/ \E e \in ToMeMessage : Put(e)
    BY <1>3, <1>4, ToMeMessages, Zenon DEF Process
  <2>2. Sends
    BY <1>1, <1>2, <2>1
  <2> QED BY <1>4, <2>2 DEF Sends
<1>5. CASE m.t = "forward"
  <2>1. Success(m.a) \in ToMeMessage /\ Success(m.a).t = "success"
    BY <1>5, ToHostFields, ToMeMessages DEF Success, Msg
  <2>2. IF m.b # 0 THEN Put(Success(m.a)) ELSE NoReply
    BY <1>5 DEF Process, Grant
  <2>3. conn => up
    BY Zenon DEF TypeOK, LinkOK
  <2>4. Sends
    BY <1>1, <1>2, <2>1, <2>2
  <2>5. ASSUME m.b # 0, conn
        PROVE  toMe' = Append(toMe, Success(m.a)) \/ Success(m.a) \in lost'
    BY <2>1, <2>2, <2>3, <2>5, PutSends
  <2> QED BY <2>4, <2>5 DEF Sends
<1> QED BY <1>4, <1>5

LEMMA MessageWaits ==
  ASSUME TypeOK, AllWait, NEW m, Received(m), Process(m)
  PROVE  AllWait'
<1>1. /\ inbox \in Seq(ToHostMessage) /\ inbox # <<>> /\ m = Head(inbox)
      /\ inbox' = Tail(inbox) /\ toMe \in Seq(ToMeMessage)
      /\ conn' = conn /\ asked' = asked /\ granted' = granted
  BY DEF TypeOK, LinkOK, Received, me
<1>2. m \in ToHostMessage
  BY <1>1, Queues
<1>3. ASSUME NEW p, Has(toMe, "success", p) PROVE Has(toMe', "success", p)
  BY <1>1, <1>2, <1>3, ProcessSends, HasAppend
<1>4. ASSUME NEW p, conn, Has(inbox, "forward", p)
      PROVE  Has(inbox', "forward", p) \/ Has(toMe', "success", p) \/ Gone(p)'
  <2>1. CASE Is(m, "forward", p)
    <3>1. m.t = "forward" /\ m.a = p /\ m.b # 0
      BY <2>1 DEF Is
    <3>2. /\ toMe' = Append(toMe, Success(p)) \/ Success(p) \in lost'
          /\ Success(p) \in ToMeMessage
      BY <1>2, <1>4, <3>1, ProcessSends, ToHostFields, ToMeMessages
    <3>3. Is(Success(p), "success", p) /\ Success(p).t = "success" /\ Success(p).a = p
      BY DEF Success, Msg, Is
    <3> QED BY <1>1, <3>2, <3>3, HasAppend DEF Gone
  <2>2. CASE ~Is(m, "forward", p)
    BY <1>1, <1>4, <2>2, HasTail
  <2> QED BY <2>1, <2>2
<1>5. lost \subseteq lost'
  BY <1>2, ProcessSends
<1> QED BY <1>1, <1>3, <1>4, <1>5, StillWaits

(* A message put on the way to the ME.                                     *)
LEMMA PutWaits ==
  ASSUME TypeOK, AllWait, NEW e \in ToMeMessage,
         Put(e) \/ NoReply, UNCHANGED <<inbox, asked, granted>>, conn' => conn
  PROVE  AllWait'
<1>1. (toMe' = toMe \/ toMe' = Append(toMe, e)) /\ lost \subseteq lost'
  BY PutSends DEF NoReply
<1>2. ASSUME NEW p, Has(toMe, "success", p) PROVE Has(toMe', "success", p)
  BY <1>1, <1>2, HasAppend DEF TypeOK, LinkOK
<1> QED BY <1>1, <1>2, StillWaits

LEMMA RecvErrorWaits ==
  ASSUME TypeOK, AllWait, RecvError
  PROVE  AllWait'
<1>1. asked' = asked /\ granted' = granted /\ conn' = conn
  BY DEF RecvError, Aborted, ReadError, TimedOut, Oversize, me, link
<1>2. CASE Aborted
  BY <1>1, <1>2, PutWaits, ToMeMessages DEF Aborted
<1>3. CASE ReadError \/ TimedOut
  BY <1>1, <1>3, StillWaits DEF ReadError, TimedOut, link
<1>4. CASE Oversize
  <2>1. /\ inbox \in Seq(ToHostMessage) /\ inbox # <<>> /\ inbox' = Tail(inbox)
        /\ Head(inbox).c > BufCap /\ toMe' = toMe /\ lost' = lost
    BY <1>4 DEF TypeOK, LinkOK, Oversize
  <2>2. Head(inbox) \in ToHostMessage
    BY <2>1, Queues
  <2>3. Head(inbox).t # "forward"
    BY <2>1, <2>2, ToHostFields, ParameterAssumption
  <2>4. ASSUME NEW p, Has(inbox, "forward", p) PROVE Has(inbox', "forward", p)
    BY <2>1, <2>3, <2>4, HasTail DEF Is
  <2> QED BY <1>1, <2>1, <2>4, StillWaits
<1> QED BY <1>2, <1>3, <1>4 DEF RecvError

LEMMA SaysWaits ==
  ASSUME TypeOK, NEW m \in ToHostMessage, Says(m)
  PROVE  \A p : Has(inbox, "forward", p) \/ Is(m, "forward", p)
                 => Has(inbox', "forward", p)
<1>1. inbox \in Seq(ToHostMessage) /\ inbox' = Append(inbox, m)
  BY DEF TypeOK, LinkOK, Says
<1> QED BY <1>1, HasAppend

LEMMA TakesWaits ==
  ASSUME TypeOK, NEW m, Takes(m)
  PROVE  \A p : Has(toMe, "success", p) =>
                   Has(toMe', "success", p) \/ Is(m, "success", p)
<1>1. /\ toMe \in Seq(ToMeMessage) /\ toMe # <<>> /\ m = Head(toMe)
      /\ toMe' = Tail(toMe)
  BY DEF TypeOK, LinkOK, Takes
<1> QED BY <1>1, HasTail

LEMMA MeStepWaits ==
  ASSUME TypeOK, AllWait, MeStep
  PROVE  AllWait'
<1>1. CASE MeInit
  <2> DEFINE h == Head(script)
  <2>1. /\ script \in Seq(InitMessage) /\ script # <<>> /\ Says(h)
        /\ asked' = asked \cup PortsIn({h})
        /\ granted' = granted \cup PortsIn({e \in {h} : e.b = 0})
        /\ toMe' = toMe /\ lost' = lost /\ conn' = conn
    BY <1>1 DEF TypeOK, MeOK, MeInit, Says
  <2>2. h \in ToHostMessage
    BY <2>1, Queues, ToHostMessages
  <2>3. \A p : Has(inbox, "forward", p) \/ Is(h, "forward", p)
                 => Has(inbox', "forward", p)
    BY <2>1, <2>2, SaysWaits
  <2>4. granted \subseteq granted' /\ (h.t = "forward" /\ h.b = 0 => h.a \in granted')
    BY <2>1 DEF PortsIn
  <2>5. ASSUME conn', NEW p \in asked' PROVE Waits(p)'
    <3>1. CASE h.t = "forward" /\ p = h.a
      BY <2>3, <2>4, <3>1 DEF Waits, Is
    <3>2. CASE ~(h.t = "forward" /\ p = h.a)
      <4>1. conn /\ p \in asked
        BY <2>1, <2>5, <3>2 DEF PortsIn
      <4>2. Waits(p)
        BY <4>1 DEF AllWait
      <4>3. Gone(p) => Gone(p)'
        BY <2>1 DEF Gone
      <4> QED BY <2>1, <2>3, <2>4, <4>2, <4>3, Zenon DEF Waits
    <3> QED BY <3>1, <3>2
  <2> QED BY <2>5 DEF AllWait
<1>2. CASE MeRespond
  <2>1. /\ resp \in Seq(Sizes) /\ resp # <<>> /\ req \in Nat /\ idx \in Nat
        /\ Says(Chunk(req, idx, Head(resp)))
        /\ UNCHANGED <<asked, granted, toMe, lost, conn>>
    BY <1>2 DEF TypeOK, MeOK, MeRespond, Says
  <2>2. Head(resp) \in Sizes
    BY <2>1, Queues
  <2>3. Chunk(req, idx, Head(resp)) \in ToHostMessage
    BY <2>1, <2>2, ToHostMessages
  <2> QED BY <2>1, <2>3, SaysWaits, StillWaits
<1>3. CloseMsg(chan.peer) \in ToHostMessage
  BY ToHostMessages DEF TypeOK, MeOK
<1>4. CASE MeClose
  <2>1. UNCHANGED <<asked, granted, toMe, lost, conn>>
    BY <1>4 DEF MeClose, Says
  <2> QED BY <1>3, <1>4, <2>1, SaysWaits, StillWaits DEF MeClose
<1>5. CASE MeReads
  <2>1. PICK m : \/ MeVersion(m) \/ MeGranted(m) \/ MeConfirm(m) \/ MeRefuse(m)
                 \/ MeRequest(m) \/ MeAdjust(m) \/ MeClosed(m) \/ MeIgnores(m)
    BY <1>5, Zenon DEF MeReads
  <2>2. Takes(m) /\ asked' = asked /\ lost' = lost
    BY <2>1 DEF MeVersion, MeGranted, MeConfirm, MeRefuse, MeRequest, MeAdjust,
                MeClosed, MeIgnores, Says, Quiet, me
  <2>3. \A p : Has(toMe, "success", p) =>
                 Has(toMe', "success", p) \/ Is(m, "success", p)
    BY <2>2, TakesWaits
  <2>4. CASE MeGranted(m)
    <3>1. inbox' = inbox /\ conn' = conn /\ granted' = granted \cup {m.a}
      BY <2>4 DEF MeGranted, Quiet
    <3> QED BY <2>2, <2>3, <3>1, StillWaits DEF Is
  <2>5. CASE MeVersion(m) \/ MeRequest(m) \/ MeAdjust(m) \/ MeIgnores(m)
    <3>1. inbox' = inbox /\ conn' = conn /\ granted' = granted
      BY <2>5 DEF MeVersion, MeRequest, MeAdjust, MeIgnores, Quiet, me
    <3>2. conn => m.t # "success"
      BY <2>5 DEF MeVersion, MeRequest, MeAdjust, MeIgnores, Served, Pv, Msg
    <3> QED BY <2>2, <2>3, <3>1, <3>2, StillWaits DEF Is
  <2>6. CASE MeConfirm(m)
    <3>1. m.a \in Channels /\ m.t # "success" /\ granted' = granted
      BY <2>6, TakesType, ToMeFields DEF TypeOK, MeConfirm
    <3>2. PICK n \in AmtIds : Says(Confirm(m.a, n))
      BY <2>6, Zenon DEF MeConfirm
    <3>3. Confirm(m.a, n) \in ToHostMessage
      BY <3>1, ParameterAssumption, ToHostMessages
    <3>4. conn' = conn
      BY <3>2 DEF Says
    <3> QED BY <2>2, <2>3, <3>1, <3>2, <3>3, <3>4, SaysWaits, StillWaits DEF Is
  <2>7. CASE MeRefuse(m)
    <3>1. m.a \in Channels /\ m.t # "success" /\ granted' = granted
      BY <2>7, TakesType, ToMeFields DEF TypeOK, MeRefuse, me
    <3>2. Says(Failure(m.a)) /\ Failure(m.a) \in ToHostMessage
      BY <2>7, <3>1, ToHostMessages DEF MeRefuse
    <3>3. conn' = conn
      BY <3>2 DEF Says
    <3> QED BY <2>2, <2>3, <3>1, <3>2, <3>3, SaysWaits, StillWaits DEF Is
  <2>8. CASE MeClosed(m)
    <3>1. m.t # "success" /\ granted' = granted
      BY <2>8 DEF MeClosed
    <3>2. CASE Quiet
      BY <2>2, <2>3, <3>1, <3>2, StillWaits DEF Quiet, Is
    <3>3. CASE Says(CloseMsg(chan.peer))
      <4>1. conn' = conn
        BY <3>3 DEF Says
      <4> QED BY <1>3, <2>2, <2>3, <3>1, <3>3, <4>1, SaysWaits, StillWaits DEF Is
    <3> QED BY <2>8, <3>2, <3>3 DEF MeClosed
  <2> QED BY <2>1, <2>4, <2>5, <2>6, <2>7, <2>8
<1> QED BY <1>1, <1>2, <1>4, <1>5 DEF MeStep

LEMMA NextWaits == TypeOK /\ AllWait /\ [Next]_vars => AllWait'
<1> SUFFICES ASSUME TypeOK, AllWait, [Next]_vars PROVE AllWait'
  OBVIOUS
<1>1. CASE HostMessage
  BY <1>1, MessageWaits, Zenon DEF HostMessage, HandshakeMessage, OpenMessage,
     ResponseMessage
<1>2. CASE HandshakeSilence \/ OpenError \/ ResponseError
  BY <1>2, RecvErrorWaits DEF HandshakeSilence, OpenError, ResponseError, RecvError
<1>3. CASE OversizePanics
  BY <1>3 DEF OversizePanics, AllWait
<1>4. amt \in Nat /\ posts' \in Nat /\ (SendOpen => our' \in Channels)
  <2>1. posts' \in Nat
    BY NextType DEF TypeOK, ControlOK
  <2>2. SendOpen => our' \in Channels
    BY NextChannelIs DEF TypeOK, SessionOK, SendOpen
  <2> QED BY <2>1, <2>2 DEF TypeOK, SessionOK
<1>5. CASE SendOpen
  <2>1. Open(our') \in ToMeMessage
    BY <1>4, <1>5, ToMeMessages
  <2> QED BY <1>5, <2>1, PutWaits DEF SendOpen, Put, me
<1>6. CASE Send
  <2>1. Request(amt, posts') \in ToMeMessage
    BY <1>4, ToMeMessages
  <2> QED BY <1>6, <2>1, PutWaits DEF Send, Put, me
<1>7. CASE Close
  <2>1. CloseMsg(amt) \in ToMeMessage
    BY <1>4, ToMeMessages
  <2>2. (Put(CloseMsg(amt)) \/ NoReply) /\ (conn' => conn)
    BY <1>7, Zenon DEF Close
  <2> QED BY <1>7, <2>1, <2>2, PutWaits DEF Close, me
<1>8. CASE Post
  BY <1>8, StillWaits DEF Post, link, me
<1>9. CASE Connect \/ ConnectFails
  <2>1. asked' = {}
    BY <1>9, Zenon DEF Connect, ConnectFails, ResetLink
  <2> QED BY <2>1 DEF AllWait
<1>10. CASE OrphanRead
  <2> DEFINE h == Head(inbox)
  <2>1. /\ inbox \in Seq(ToHostMessage) /\ inbox # <<>> /\ inbox' = Tail(inbox)
        /\ lost' = lost \cup {m \in {h} : m.t \in {"forward", "close"}}
        /\ UNCHANGED <<asked, granted, toMe, conn>>
    BY <1>10 DEF TypeOK, LinkOK, OrphanRead, me
  <2>2. ASSUME NEW p, Has(inbox, "forward", p)
        PROVE  Has(inbox', "forward", p) \/ Gone(p)'
    <3>1. CASE Is(h, "forward", p)
      BY <2>1, <3>1 DEF Gone, Is
    <3>2. CASE ~Is(h, "forward", p)
      BY <2>1, <2>2, <3>2, HasTail
    <3> QED BY <3>1, <3>2
  <2> QED BY <2>1, <2>2, StillWaits
<1>11. CASE MeStep
  BY <1>11, MeStepWaits
<1>12. CASE MeNoise
  <2>1. PICK m \in {Keepalive, Adjust(0, 0)} : Says(m)
    BY <1>12, Zenon DEF MeNoise
  <2>2. m \in ToHostMessage
    BY ToHostMessages
  <2>3. UNCHANGED <<conn, toMe, lost, asked, granted>>
    BY <1>12, <2>1 DEF MeNoise, Says, me
  <2> QED BY <2>1, <2>2, <2>3, SaysWaits, StillWaits
<1>13. CASE MeDisconnect \/ MeDown
  BY <1>13 DEF MeDisconnect, MeDown, AllWait
<1>14. CASE UNCHANGED vars
  BY <1>14, StillWaits DEF vars, link, me
<1> QED BY <1>1, <1>2, <1>3, <1>5, <1>6, <1>7, <1>8, <1>9, <1>10, <1>11, <1>12,
           <1>13, <1>14, Zenon DEF Next, Host

(* Every port the ME asks to forward is granted, on every target: raw_recv's *)
(* three loops all leave the answer to process_apf, and none of them drops   *)
(* a forward request (lme/mod.rs:172, 334).  What is lost is lost with a     *)
(* write that timed out, or in one of Windows' abandoned reads.              *)
THEOREM ForwardsNotLostHolds == Spec => []ForwardsNotLost
<1>1. Init => AllWait
  BY DEF Init, AllWait
<1>2. TypeOK /\ AllWait /\ [Next]_vars => AllWait'
  BY NextWaits
<1>3. AllWait => ForwardsNotLost
  BY ForwardsNotLostIs
<1> QED BY <1>1, <1>2, <1>3, TypesHold, PTL DEF Spec

-----------------------------------------------------------------------------
(* Both ends agree on the channel.  At most one message is on its way to   *)
(* the host, as the ME holds one credit (Single); so what the host is      *)
(* about to read is Coming.  An open and its answer are on their way only  *)
(* while the host waits for the answer, or has given up and is about to    *)
(* close the session; then its channel is not active.                      *)

Holds(q, t) == \E i \in 1 .. Len(q) : q[i].t = t

Coming(t) == inbox # <<>> /\ Head(inbox).t = t

Single == Len(inbox) <= 1

(* Behind an open comes neither another one nor a close.                   *)
LastWords(q) ==
  \A i, j \in 1 .. Len(q) :
    i < j /\ q[i].t = "open" => q[j].t \notin {"open", "close"}

(* The loops before the channel is open run on an inactive channel.        *)
Shut ==
  /\ pc \in {"reconnect", "handshake", "tryopen", "open"} => ~active
  /\ pc = "start" /\ conn => ~active

Severed == disc => ~conn

Waiting == pc \in {"open", "failed"} /\ ~active

Awaited == pc # "start" /\ Coming("confirm") => Waiting

Live == conn /\ pc # "start"

OpenOut == Holds(toMe, "open") => Waiting

Confirmed ==
  Coming("confirm") =>
    /\ ~Holds(toMe, "open")
    /\ chan = [st |-> "open", peer |-> Head(inbox).a, id |-> Head(inbox).b]

(* No close is on its way on an open channel.                              *)
Quietly ==
  /\ active \/ chan.st = "open" => ~Holds(toMe, "close")
  /\ chan.st = "open" => ~Coming("close")

(* The ME's CLOSE is on its way, or an abandoned read has swallowed it.    *)
Closes == \/ Coming("close") /\ Head(inbox) = CloseMsg(our)
          \/ CloseMsg(our) \in lost

Agreed ==
  active =>
    \/ chan = [st |-> "open", peer |-> our, id |-> amt]
    \/ chan = [st |-> "closing", peer |-> our, id |-> amt] /\ Closes

TwoEnds == LastWords(toMe) /\ OpenOut /\ Confirmed /\ Quietly /\ Agreed

Ends == Single /\ Shut /\ Severed /\ Awaited /\ (Live => TwoEnds)

LEMMA HoldsAppend ==
  ASSUME NEW S, NEW q \in Seq(S), NEW e \in S, NEW t
  PROVE  Holds(Append(q, e), t) <=> Holds(q, t) \/ e.t = t
<1>1. /\ Len(q) \in Nat /\ Len(Append(q, e)) = Len(q) + 1
      /\ \A i \in 1 .. Len(q) : Append(q, e)[i] = q[i]
      /\ Append(q, e)[Len(q) + 1] = e
  BY Queues, QueueOrder
<1>2. ASSUME Holds(Append(q, e), t) PROVE Holds(q, t) \/ e.t = t
  <2>1. PICK i \in 1 .. Len(Append(q, e)) : Append(q, e)[i].t = t
    BY <1>2 DEF Holds
  <2>2. i \in 1 .. Len(q) \/ i = Len(q) + 1
    BY <1>1
  <2> QED BY <1>1, <2>1, <2>2 DEF Holds
<1>3. ASSUME Holds(q, t) PROVE Holds(Append(q, e), t)
  <2>1. PICK i \in 1 .. Len(q) : q[i].t = t
    BY <1>3 DEF Holds
  <2>2. i \in 1 .. Len(Append(q, e))
    BY <1>1
  <2> QED BY <1>1, <2>1, <2>2 DEF Holds
<1>4. ASSUME e.t = t PROVE Holds(Append(q, e), t)
  <2>1. Len(q) + 1 \in 1 .. Len(Append(q, e))
    BY <1>1
  <2> QED BY <1>1, <1>4, <2>1 DEF Holds
<1> QED BY <1>2, <1>3, <1>4

LEMMA HoldsTail ==
  ASSUME NEW S, NEW q \in Seq(S), q # <<>>
  PROVE  /\ Holds(q, Head(q).t)
         /\ \A t : Holds(Tail(q), t) => Holds(q, t)
<1>1. /\ Len(q) \in Nat /\ Len(q) >= 1 /\ Head(q) = q[1]
      /\ Len(Tail(q)) = Len(q) - 1
      /\ \A i \in 1 .. Len(Tail(q)) : Tail(q)[i] = q[i + 1]
  BY Queues, QueueOrder
<1>2. Holds(q, Head(q).t)
  BY <1>1 DEF Holds
<1>3. ASSUME NEW t, Holds(Tail(q), t) PROVE Holds(q, t)
  <2>1. PICK i \in 1 .. Len(Tail(q)) : Tail(q)[i].t = t
    BY <1>3 DEF Holds
  <2>2. i + 1 \in 1 .. Len(q) /\ Tail(q)[i] = q[i + 1]
    BY <1>1
  <2> QED BY <2>1, <2>2 DEF Holds
<1> QED BY <1>2, <1>3

LEMMA LastAppend ==
  ASSUME NEW S, NEW q \in Seq(S), NEW e \in S, LastWords(q),
         e.t \in {"open", "close"} => ~Holds(q, "open")
  PROVE  LastWords(Append(q, e))
<1>1. /\ Len(q) \in Nat /\ Len(Append(q, e)) = Len(q) + 1
      /\ \A i \in 1 .. Len(q) : Append(q, e)[i] = q[i]
      /\ Append(q, e)[Len(q) + 1] = e
  BY Queues, QueueOrder
<1>2. SUFFICES ASSUME NEW i \in 1 .. Len(Append(q, e)),
                      NEW j \in 1 .. Len(Append(q, e)),
                      i < j, Append(q, e)[i].t = "open"
               PROVE  Append(q, e)[j].t \notin {"open", "close"}
  BY DEF LastWords
<1>3. i \in 1 .. Len(q) /\ (j \in 1 .. Len(q) \/ j = Len(q) + 1)
  BY <1>1, <1>2
<1>4. q[i].t = "open"
  BY <1>1, <1>2, <1>3
<1>5. CASE j \in 1 .. Len(q)
  BY <1>1, <1>2, <1>3, <1>4, <1>5 DEF LastWords
<1>6. CASE j = Len(q) + 1
  BY <1>1, <1>3, <1>4, <1>6 DEF Holds
<1> QED BY <1>3, <1>5, <1>6

LEMMA LastTail ==
  ASSUME NEW S, NEW q \in Seq(S), q # <<>>, LastWords(q)
  PROVE  /\ LastWords(Tail(q))
         /\ Head(q).t = "open" =>
              ~Holds(Tail(q), "open") /\ ~Holds(Tail(q), "close")
<1>1. /\ Len(q) \in Nat /\ Len(q) >= 1 /\ Head(q) = q[1]
      /\ Len(Tail(q)) = Len(q) - 1
      /\ \A i \in 1 .. Len(Tail(q)) : Tail(q)[i] = q[i + 1]
  BY Queues, QueueOrder
<1>2. ASSUME NEW i \in 1 .. Len(Tail(q)), NEW j \in 1 .. Len(Tail(q)),
             i < j, Tail(q)[i].t = "open"
      PROVE  Tail(q)[j].t \notin {"open", "close"}
  <2>1. /\ i + 1 \in 1 .. Len(q) /\ j + 1 \in 1 .. Len(q) /\ i + 1 < j + 1
        /\ Tail(q)[i] = q[i + 1] /\ Tail(q)[j] = q[j + 1]
    BY <1>1, <1>2
  <2> QED BY <1>2, <2>1 DEF LastWords
<1>3. ASSUME Head(q).t = "open", NEW j \in 1 .. Len(Tail(q))
      PROVE  Tail(q)[j].t \notin {"open", "close"}
  <2>1. /\ 1 \in 1 .. Len(q) /\ j + 1 \in 1 .. Len(q) /\ 1 < j + 1
        /\ Tail(q)[j] = q[j + 1]
    BY <1>1
  <2> QED BY <1>1, <1>3, <2>1 DEF LastWords
<1>4. LastWords(Tail(q))
  BY <1>2 DEF LastWords
<1> QED BY <1>3, <1>4 DEF Holds

(* Says and Takes, Put and Received, in these terms.                       *)
LEMMA SaysComing ==
  ASSUME TypeOK, CreditBalance, NEW m \in ToHostMessage, Says(m)
  PROVE  /\ inbox = <<>> /\ Single'
         /\ \A t : Coming(t)' <=> m.t = t
         /\ Head(inbox') = m
         /\ UNCHANGED <<conn, disc>>
<1>1. /\ inbox \in Seq(ToHostMessage) /\ credit \in Nat /\ credit > 0
      /\ credit + Len(inbox) <= 1 /\ inbox' = Append(inbox, m)
      /\ UNCHANGED <<conn, disc>>
  BY DEF TypeOK, LinkOK, CreditBalance, Says
<1>2. Len(inbox) \in Nat
  BY <1>1, Queues
<1>3. Len(inbox) = 0
  BY <1>1, <1>2
<1>4. inbox = <<>>
  BY <1>1, <1>3, EmptySeq
<1>5. /\ inbox' \in Seq(ToHostMessage) /\ Len(inbox') = 1
      /\ inbox'[1] = m
  BY <1>1, <1>3, Queues, QueueOrder
<1>6. inbox' # <<>>
  BY <1>5, EmptySeq
<1>7. Head(inbox') = m
  BY <1>5, <1>6, QueueOrder
<1> QED BY <1>1, <1>4, <1>5, <1>6, <1>7 DEF Single, Coming

LEMMA Emptied ==
  ASSUME TypeOK, Single, inbox # <<>>, inbox' = Tail(inbox)
  PROVE  Single' /\ \A t : ~Coming(t)'
<1>1. inbox \in Seq(ToHostMessage) /\ Len(inbox) \in Nat /\ Len(inbox) <= 1
  BY Queues DEF TypeOK, LinkOK, Single
<1>2. /\ inbox' \in Seq(ToHostMessage) /\ Len(inbox') = Len(inbox) - 1
      /\ Len(inbox') \in Nat
  BY <1>1, Queues
<1>3. Len(inbox') = 0
  BY <1>1, <1>2
<1>4. inbox' = <<>>
  BY <1>2, <1>3, EmptySeq
<1> QED BY <1>3, <1>4 DEF Single, Coming

(* The ME takes a message, or sends one that says nothing of the channel.  *)
LEMMA PlainEnds ==
  ASSUME TypeOK, CreditBalance, Ends,
         UNCHANGED <<our, amt, active, pc, conn, disc, chan, lost>>,
         toMe' = toMe \/ (toMe # <<>> /\ toMe' = Tail(toMe)),
         \/ inbox' = inbox
         \/ \E m \in ToHostMessage : Says(m) /\ m.t \notin {"confirm", "close"}
  PROVE  Ends'
<1>1. toMe \in Seq(ToMeMessage)
  BY DEF TypeOK, LinkOK
<1>2. \A t : Holds(toMe', t) => Holds(toMe, t)
  BY <1>1, HoldsTail
<1>3. LastWords(toMe) => LastWords(toMe')
  BY <1>1, LastTail
<1>4. Shut' /\ Severed' /\ Live' = Live /\ Waiting' = Waiting
  BY DEF Ends, Shut, Severed, Live, Waiting
<1>5. CASE inbox' = inbox
  <2>1. Single' /\ \A t : Coming(t)' = Coming(t)
    BY <1>5 DEF Ends, Single, Coming
  <2>2. Awaited'
    BY <1>4, <2>1 DEF Ends, Awaited
  <2>3. TwoEnds => TwoEnds'
    BY <1>2, <1>3, <1>4, <1>5, <2>1
       DEF TwoEnds, OpenOut, Confirmed, Quietly, Agreed, Closes
  <2> QED BY <1>4, <2>1, <2>2, <2>3 DEF Ends
<1>6. ASSUME NEW m \in ToHostMessage, Says(m), m.t \notin {"confirm", "close"}
      PROVE  Ends'
  <2>1. inbox = <<>> /\ Single' /\ ~Coming("confirm")' /\ ~Coming("close")'
    BY <1>6, SaysComing
  <2>2. Awaited'
    BY <2>1 DEF Awaited
  <2>3. ~Coming("close")
    BY <2>1 DEF Coming
  <2>4. TwoEnds => TwoEnds'
    BY <1>2, <1>3, <1>4, <2>1, <2>3
       DEF TwoEnds, OpenOut, Confirmed, Quietly, Agreed, Closes
  <2> QED BY <1>4, <2>1, <2>2, <2>4 DEF Ends
<1> QED BY <1>5, <1>6

LEMMA ConfirmEnds ==
  ASSUME TypeOK, CreditBalance, Ends, NEW m, MeConfirm(m),
         UNCHANGED <<our, amt, active, pc>>
  PROVE  Ends'
<1>1. /\ toMe \in Seq(ToMeMessage) /\ toMe # <<>> /\ m = Head(toMe)
      /\ toMe' = Tail(toMe) /\ m.t = "open"
  BY DEF TypeOK, LinkOK, MeConfirm, Takes
<1>2. PICK n \in AmtIds :
        /\ Says(Confirm(m.a, n))
        /\ chan' = [st |-> "open", peer |-> m.a, id |-> n]
  BY Zenon DEF MeConfirm
<1>3. Confirm(m.a, n) \in ToHostMessage
  <2>1. m.a \in Channels
    BY TakesType, ToMeFields DEF TypeOK, MeConfirm
  <2> QED BY <2>1, ParameterAssumption, ToHostMessages
<1>4. /\ Confirm(m.a, n).t = "confirm" /\ Confirm(m.a, n).a = m.a
      /\ Confirm(m.a, n).b = n
  BY DEF Confirm, Msg
<1>5. /\ inbox = <<>> /\ Single' /\ ~Coming("close")' /\ Coming("confirm")'
      /\ Head(inbox') = Confirm(m.a, n) /\ UNCHANGED <<conn, disc>>
  BY <1>2, <1>3, <1>4, SaysComing
<1>6. Shut' /\ Severed' /\ Live' = Live /\ Waiting' = Waiting
  BY <1>5 DEF Ends, Shut, Severed, Live, Waiting
<1>7. conn /\ Holds(toMe, "open")
  BY <1>1, <1>2, HoldsTail DEF Says
<1>8. Awaited'
  BY <1>6, <1>7 DEF Ends, Awaited, Live, TwoEnds, OpenOut
<1>9. ASSUME TwoEnds PROVE TwoEnds'
  <2>1. /\ LastWords(toMe') /\ ~Holds(toMe', "open") /\ ~Holds(toMe', "close")
    BY <1>1, <1>9, LastTail DEF TwoEnds
  <2>2. ~active
    BY <1>7, <1>9 DEF TwoEnds, OpenOut, Waiting
  <2>3. Confirmed'
    BY <1>2, <1>4, <1>5, <2>1 DEF Confirmed
  <2> QED BY <1>5, <2>1, <2>2, <2>3 DEF TwoEnds, OpenOut, Quietly, Agreed
<1> QED BY <1>5, <1>6, <1>8, <1>9 DEF Ends

LEMMA CloseEnds ==
  ASSUME TypeOK, CreditBalance, Ends, MeClose,
         UNCHANGED <<our, amt, active, pc>>
  PROVE  Ends'
<1>1. /\ chan \in [st : {"none", "open", "closing"}, peer : Channels, id : Nat]
      /\ chan' = [chan EXCEPT !.st = "closing"] /\ Says(CloseMsg(chan.peer))
      /\ toMe' = toMe
  BY DEF TypeOK, MeOK, MeClose
<1>2. CloseMsg(chan.peer) \in ToHostMessage /\ CloseMsg(chan.peer).t = "close"
  BY <1>1, ToHostMessages DEF CloseMsg, Msg
<1>3. /\ inbox = <<>> /\ Single' /\ Coming("close")' /\ ~Coming("confirm")'
      /\ Head(inbox') = CloseMsg(chan.peer)
      /\ UNCHANGED <<conn, disc, lost>>
  BY <1>1, <1>2, SaysComing DEF Says
<1>4. Shut' /\ Severed' /\ Live' = Live /\ Waiting' = Waiting
  BY <1>3 DEF Ends, Shut, Severed, Live, Waiting
<1>5. Awaited'
  BY <1>3 DEF Awaited
<1>6. ASSUME TwoEnds PROVE TwoEnds'
  <2>1. ~Coming("close")
    BY <1>3 DEF Coming
  <2>2. active => chan.peer = our /\ chan.id = amt
    BY <1>6 DEF TwoEnds, Agreed
  <2>3. active => chan' = [st |-> "closing", peer |-> our, id |-> amt]
    BY <1>1, <2>2
  <2>4. active => Closes'
    BY <1>3, <2>2 DEF Closes
  <2>5. Agreed'
    BY <2>3, <2>4 DEF Agreed
  <2>6. chan'.st = "closing"
    BY <1>1
  <2> QED BY <1>1, <1>3, <1>4, <1>6, <2>5, <2>6
             DEF TwoEnds, OpenOut, Confirmed, Quietly
<1> QED BY <1>3, <1>4, <1>5, <1>6 DEF Ends

LEMMA ClosedEnds ==
  ASSUME TypeOK, CreditBalance, Ends, NEW m, MeClosed(m),
         UNCHANGED <<our, amt, active, pc>>
  PROVE  Ends'
<1>1. /\ toMe \in Seq(ToMeMessage) /\ toMe # <<>> /\ m = Head(toMe)
      /\ toMe' = Tail(toMe) /\ m.t = "close"
  BY DEF TypeOK, LinkOK, MeClosed, Takes
<1>2. Holds(toMe, "close") /\ \A t : Holds(toMe', t) => Holds(toMe, t)
  BY <1>1, HoldsTail
<1>3. chan' = NoChan \/ chan' = chan
  BY DEF MeClosed
<1>4. CASE ~Live
  <2>1. conn /\ pc = "start" /\ pc' = pc
    BY <1>4 DEF MeClosed, Live
  <2>2. CloseMsg(chan.peer) \in ToHostMessage
    BY ToHostMessages DEF TypeOK, MeOK
  <2>3. Single' /\ UNCHANGED <<conn, disc>>
    <3>1. CASE Says(CloseMsg(chan.peer))
      BY <2>2, <3>1, SaysComing
    <3>2. CASE Quiet
      BY <3>2 DEF Quiet, Ends, Single
    <3> QED BY <3>1, <3>2 DEF MeClosed
  <2> QED BY <2>1, <2>3 DEF Ends, Shut, Severed, Awaited, Live
<1>5. CASE Live
  <2>1. ~active /\ chan.st # "open"
    BY <1>2, <1>5 DEF Ends, TwoEnds, Quietly
  <2>2. UNCHANGED <<inbox, conn, disc>>
    BY <2>1 DEF MeClosed, Quiet
  <2>3. /\ Single' /\ Shut' /\ Severed' /\ Waiting' = Waiting
        /\ \A t : Coming(t)' = Coming(t)
    BY <2>2 DEF Ends, Single, Shut, Severed, Waiting, Coming
  <2>4. Awaited'
    BY <2>3 DEF Ends, Awaited
  <2>5. LastWords(toMe') /\ OpenOut'
    BY <1>1, <1>2, <1>5, <2>3, LastTail DEF Ends, TwoEnds, OpenOut
  <2>6. ~Coming("confirm")
    BY <1>5, <2>1 DEF Ends, TwoEnds, Confirmed
  <2>7. chan'.st # "open"
    BY <1>3, <2>1 DEF NoChan
  <2> QED BY <2>1, <2>3, <2>4, <2>5, <2>6, <2>7
             DEF Ends, TwoEnds, Confirmed, Quietly, Agreed
<1> QED BY <1>4, <1>5

LEMMA MeStepEnds ==
  ASSUME TypeOK, CreditBalance, Ends, MeStep
  PROVE  Ends'
<1>1. UNCHANGED <<our, amt, active, pc>>
  BY DEF MeStep, session, control
<1>2. CASE MeInit
  <2>1. /\ script \in Seq(InitMessage) /\ script # <<>> /\ Says(Head(script))
        /\ UNCHANGED <<toMe, chan, conn, disc, lost>>
    BY <1>2 DEF TypeOK, MeOK, MeInit, Says
  <2>2. Head(script) \in InitMessage
    BY <2>1, Queues
  <2>3. Head(script) \in ToHostMessage
    BY <2>2, ToHostMessages
  <2>4. Head(script).t \notin {"confirm", "close"}
    BY <2>2 DEF InitMessage
  <2> QED BY <1>1, <2>1, <2>3, <2>4, PlainEnds
<1>3. CASE MeRespond
  <2>1. /\ resp \in Seq(Sizes) /\ resp # <<>> /\ req \in Nat /\ idx \in Nat
        /\ Says(Chunk(req, idx, Head(resp)))
        /\ UNCHANGED <<toMe, chan, conn, disc, lost>>
    BY <1>3 DEF TypeOK, MeOK, MeRespond, Says
  <2>2. Head(resp) \in Sizes
    BY <2>1, Queues
  <2>3. /\ Chunk(req, idx, Head(resp)) \in ToHostMessage
        /\ Chunk(req, idx, Head(resp)).t = "data"
    BY <2>1, <2>2, ToHostMessages DEF Chunk, Msg
  <2> QED BY <1>1, <2>1, <2>3, PlainEnds
<1>4. CASE MeClose
  BY <1>1, <1>4, CloseEnds
<1>5. CASE MeReads
  <2>1. PICK m : \/ MeVersion(m) \/ MeGranted(m) \/ MeConfirm(m) \/ MeRefuse(m)
                 \/ MeRequest(m) \/ MeAdjust(m) \/ MeClosed(m) \/ MeIgnores(m)
    BY <1>5, Zenon DEF MeReads
  <2>2. CASE \/ MeVersion(m) \/ MeGranted(m) \/ MeRequest(m) \/ MeAdjust(m)
             \/ MeIgnores(m)
    <3>1. /\ toMe # <<>> /\ toMe' = Tail(toMe)
          /\ UNCHANGED <<inbox, chan, conn, disc, lost>>
      BY <2>2 DEF MeVersion, MeGranted, MeRequest, MeAdjust, MeIgnores, Takes,
                  Quiet, me
    <3> QED BY <1>1, <3>1, PlainEnds
  <2>3. CASE MeConfirm(m)
    BY <1>1, <2>3, ConfirmEnds
  <2>4. CASE MeRefuse(m)
    <3>1. /\ toMe # <<>> /\ toMe' = Tail(toMe) /\ Says(Failure(m.a))
          /\ UNCHANGED <<chan, conn, disc, lost>> /\ m.a \in Channels
      BY <2>4, TakesType, ToMeFields DEF TypeOK, MeRefuse, Takes, Says, me
    <3>2. Failure(m.a) \in ToHostMessage /\ Failure(m.a).t = "failure"
      BY <3>1, ToHostMessages DEF Failure, Msg
    <3> QED BY <1>1, <3>1, <3>2, PlainEnds
  <2>5. CASE MeClosed(m)
    BY <1>1, <2>5, ClosedEnds
  <2> QED BY <2>1, <2>2, <2>3, <2>4, <2>5
<1> QED BY <1>2, <1>3, <1>4, <1>5 DEF MeStep

(* What process_apf makes of a message, as far as the channel goes.        *)
LEMMA ProcessChannel ==
  ASSUME NEW m, Process(m)
  PROVE  /\ m.t = "confirm" =>
              our' = m.a /\ amt' = m.b /\ active' = TRUE /\ toMe' = toMe
         /\ m.t = "close" => active' = FALSE
         /\ m.t \notin {"confirm", "close"} => UNCHANGED <<our, amt, active>>
<1>1. CASE m.t \in {"version", "failure", "adjust"}
  BY <1>1 DEF Process, session
<1>2. CASE m.t = "confirm"
  BY <1>2 DEF Process, NoReply
<1>3. CASE m.t = "data"
  BY <1>3 DEF Process, session
<1>4. CASE m.t = "close"
  BY <1>4 DEF Process, Deactivate
<1>5. CASE m.t \in {"service", "keepalive"}
  BY <1>5 DEF Process, session
<1>6. CASE m.t = "forward"
  BY <1>6 DEF Process
<1> QED BY <1>1, <1>2, <1>3, <1>4, <1>5, <1>6 DEF Process

(* It never opens a channel, and closes the active one only, when told to. *)
LEMMA ProcessReplies ==
  ASSUME TypeOK, NEW m \in ToHostMessage, Process(m)
  PROVE  \/ toMe' = toMe
         \/ \E e \in ToMeMessage :
              /\ toMe' = Append(toMe, e) /\ e.t # "open"
              /\ e.t = "close" => m.t = "close" /\ active
<1>1. ASSUME NEW e \in ToMeMessage, Put(e)
      PROVE  toMe' = toMe \/ toMe' = Append(toMe, e)
  BY <1>1, PutSends
<1>2. amt \in Nat /\ m.c \in Nat
  BY ToHostFields DEF TypeOK, SessionOK
<1>3. /\ Accept \in ToMeMessage /\ Accept.t = "accept"
      /\ KeepReply \in ToMeMessage /\ KeepReply.t = "keepalive_reply"
      /\ CloseMsg(amt) \in ToMeMessage /\ CloseMsg(amt).t = "close"
      /\ Adjust(amt, m.c) \in ToMeMessage /\ Adjust(amt, m.c).t = "adjust"
  BY <1>2, ToMeMessages DEF Accept, KeepReply, CloseMsg, Adjust, Msg
<1>4. CASE m.t \in {"version", "failure", "adjust", "confirm"}
  BY <1>4 DEF Process, NoReply
<1>5. CASE m.t = "data"
  BY <1>1, <1>3, <1>5 DEF Process, NoReply
<1>6. CASE m.t = "close"
  BY <1>1, <1>3, <1>6 DEF Process, NoReply
<1>7. CASE m.t = "service"
  BY <1>1, <1>3, <1>7 DEF Process
<1>8. CASE m.t = "forward"
  <2>1. Success(m.a) \in ToMeMessage /\ Success(m.a).t = "success"
    BY <1>8, ToHostFields, ToMeMessages DEF Success, Msg
  <2> QED BY <1>1, <1>8, <2>1 DEF Process, Grant, NoReply
<1>9. CASE m.t = "keepalive"
  BY <1>1, <1>3, <1>9 DEF Process
<1> QED BY <1>4, <1>5, <1>6, <1>7, <1>8, <1>9 DEF ToHostMessage

(* Where a loop goes on after a message.                                   *)
Onward(m) ==
  \/ pc = "handshake" /\ pc' \in {"handshake", "tryopen", "failed"}
  \/ pc = "open" /\ m.t = "confirm" /\ pc' \in {"send", "ready"}
  \/ pc = "open" /\ m.t # "confirm" /\ pc' \in {"open", "failed"}
  \/ pc = "response" /\ pc' \in {"response", "ready", "failed"}

LEMMA MessageGoesOn ==
  ASSUME HostMessage
  PROVE  \E m : Received(m) /\ Process(m) /\ Onward(m)
<1>1. PICK m : HandshakeMessage(m) \/ OpenMessage(m) \/ ResponseMessage(m)
  BY Zenon DEF HostMessage
<1>2. Received(m) /\ Process(m)
  BY <1>1, Zenon DEF HandshakeMessage, OpenMessage, ResponseMessage
<1>3. Onward(m)
  BY <1>1 DEF HandshakeMessage, OpenMessage, ResponseMessage, Onward,
     LeaveHandshake, StayInHandshake, LeaveReceive
<1> QED BY <1>2, <1>3

LEMMA MessageEnds ==
  ASSUME TypeOK, Ends, HostMessage
  PROVE  Ends'
<1>1. PICK m : Received(m) /\ Process(m) /\ Onward(m)
  BY MessageGoesOn
<1>2. /\ inbox \in Seq(ToHostMessage) /\ inbox # <<>> /\ m = Head(inbox)
      /\ inbox' = Tail(inbox) /\ toMe \in Seq(ToMeMessage)
      /\ UNCHANGED <<conn, disc, chan>>
  BY <1>1 DEF TypeOK, LinkOK, Received, me
<1>3. m \in ToHostMessage /\ Coming(m.t)
  BY <1>2, Queues DEF Coming
<1>4. /\ Single' /\ \A t : ~Coming(t)'
      /\ lost \subseteq lost'
  BY <1>1, <1>2, <1>3, Emptied, ProcessSends DEF Ends
<1>5. pc # "start" /\ pc' # "start" /\ pc' # "reconnect"
  BY <1>1 DEF Onward
<1>6. m.t = "confirm" => pc = "open" /\ ~active
  BY <1>1, <1>3, <1>5 DEF Ends, Awaited, Waiting, Onward
<1>7. CASE m.t = "confirm"
  <2>1. /\ our' = m.a /\ amt' = m.b /\ active' /\ toMe' = toMe
        /\ pc' \in {"send", "ready"}
    BY <1>1, <1>6, <1>7, ProcessChannel DEF Onward
  <2>2. Shut' /\ Severed' /\ Awaited' /\ Live' = Live
    BY <1>2, <1>4, <1>5, <2>1 DEF Ends, Shut, Severed, Awaited, Live
  <2>3. ASSUME TwoEnds PROVE TwoEnds'
    <3>1. /\ ~Holds(toMe, "open")
          /\ chan = [st |-> "open", peer |-> our', id |-> amt']
      BY <1>2, <1>3, <1>7, <2>1, <2>3 DEF TwoEnds, Confirmed
    <3>2. ~Holds(toMe, "close")
      BY <2>3, <3>1 DEF TwoEnds, Quietly
    <3> QED BY <1>2, <1>4, <2>1, <2>3, <3>1, <3>2
               DEF TwoEnds, OpenOut, Confirmed, Quietly, Agreed
  <2> QED BY <1>4, <2>2, <2>3 DEF Ends
<1>8. CASE m.t # "confirm"
  <2>1. /\ active' => active /\ our' = our /\ amt' = amt /\ m.t # "close"
        /\ Waiting => Waiting'
    <3>1. active' => active /\ our' = our /\ amt' = amt /\ m.t # "close"
      BY <1>1, <1>8, ProcessChannel
    <3> QED BY <1>1, <1>8, <3>1 DEF Waiting, Onward
  <2>2. Shut' /\ Severed' /\ Awaited' /\ Live' = Live
    BY <1>1, <1>2, <1>4, <1>5, <2>1 DEF Ends, Shut, Severed, Awaited, Live, Onward
  <2>3. ASSUME TwoEnds PROVE TwoEnds'
    <3>1. \/ toMe' = toMe
          \/ \E e \in ToMeMessage :
               /\ toMe' = Append(toMe, e) /\ e.t # "open"
               /\ e.t = "close" => m.t = "close" /\ active
      BY <1>1, <1>3, ProcessReplies
    <3>2. /\ Holds(toMe', "open") => Holds(toMe, "open")
          /\ Holds(toMe', "close") =>
               Holds(toMe, "close") \/ (m.t = "close" /\ active)
      <4>1. ASSUME NEW e \in ToMeMessage, toMe' = Append(toMe, e), NEW t
            PROVE  Holds(toMe', t) <=> Holds(toMe, t) \/ e.t = t
        BY <1>2, <4>1, HoldsAppend
      <4> QED BY <3>1, <4>1
    <3>3. OpenOut'
      BY <2>1, <2>3, <3>2 DEF TwoEnds, OpenOut
    <3>4. LastWords(toMe')
      BY <1>2, <2>3, <3>1, LastAppend DEF TwoEnds, OpenOut, Waiting
    <3>5. Quietly'
      <4>1. m.t = "close" => chan.st # "open"
        BY <1>3, <2>3 DEF TwoEnds, Quietly
      <4> QED BY <1>2, <1>4, <2>1, <2>3, <3>2, <4>1 DEF TwoEnds, Quietly
    <3>6. Agreed'
      BY <1>2, <1>4, <2>1, <2>3 DEF TwoEnds, Agreed, Closes, Coming
    <3> QED BY <1>4, <3>3, <3>4, <3>5, <3>6 DEF TwoEnds, Confirmed
  <2> QED BY <1>4, <2>2, <2>3 DEF Ends
<1> QED BY <1>7, <1>8

(* The read fails: what was in front of the host stays, but for a message  *)
(* that was too large, which is no confirmation and no close.              *)
LEMMA SilenceEnds ==
  ASSUME TypeOK, Ends, RecvError, UNCHANGED session,
         \/ pc = "handshake" /\ pc' \in {"handshake", "tryopen", "failed"}
         \/ pc = "open" /\ pc' = "failed"
         \/ pc = "open" /\ pc' = "reconnect" /\ Aborted
         \/ pc = "response" /\ pc' \in {"ready", "failed"}
  PROVE  Ends'
<1>1. /\ pc # "start" /\ pc' # "start"
      /\ UNCHANGED <<our, amt, active, conn, chan>>
  BY DEF RecvError, Aborted, ReadError, TimedOut, Oversize, link, me, session
<1>2. CASE Oversize
  <2>1. /\ inbox \in Seq(ToHostMessage) /\ inbox # <<>> /\ inbox' = Tail(inbox)
        /\ Head(inbox).c > BufCap /\ UNCHANGED <<toMe, disc, lost>>
    BY <1>2 DEF TypeOK, LinkOK, Oversize
  <2>2. Head(inbox) \in ToHostMessage
    BY <2>1, Queues
  <2>3. ~Coming("close")
    BY <2>1, <2>2, ToHostFields, ParameterAssumption DEF Coming
  <2>4. Single' /\ ~Coming("close")' /\ ~Coming("confirm")'
    BY <2>1, Emptied DEF Ends
  <2>5. ~Aborted
    BY <2>1 DEF Aborted
  <2>6. /\ Waiting => Waiting'
        /\ Shut' /\ Severed' /\ Awaited' /\ Live' = Live
    BY <1>1, <2>1, <2>4, <2>5 DEF Ends, Waiting, Shut, Severed, Awaited, Live
  <2>7. TwoEnds => TwoEnds'
    BY <1>1, <2>1, <2>3, <2>4, <2>6
       DEF TwoEnds, OpenOut, Confirmed, Quietly, Agreed, Closes
  <2> QED BY <2>4, <2>6, <2>7 DEF Ends
<1>3. CASE ReadError \/ TimedOut
  <2>1. UNCHANGED <<inbox, toMe, disc, lost>>
    BY <1>3 DEF ReadError, TimedOut, link
  <2>2. Single' /\ \A t : Coming(t)' = Coming(t)
    BY <2>1 DEF Ends, Single, Coming
  <2>3. CASE Aborted
    <3>1. inbox = <<>> /\ ~conn
      BY <2>3 DEF Aborted, Ends, Severed
    <3> QED BY <1>1, <2>1, <2>2, <3>1
               DEF Ends, Shut, Severed, Awaited, Live, Coming
  <2>4. CASE ~Aborted
    <3>1. /\ Waiting => Waiting'
          /\ Shut' /\ Severed' /\ Live' = Live
      BY <1>1, <2>1, <2>4 DEF Ends, Waiting, Shut, Severed, Live
    <3>2. Awaited'
      BY <1>1, <2>2, <3>1 DEF Ends, Awaited
    <3>3. TwoEnds => TwoEnds'
      BY <1>1, <2>1, <2>2, <3>1
         DEF TwoEnds, OpenOut, Confirmed, Quietly, Agreed, Closes
    <3> QED BY <2>2, <3>1, <3>2, <3>3 DEF Ends
  <2> QED BY <2>3, <2>4
<1>4. CASE Aborted
  <2>1. inbox = <<>> /\ inbox' = inbox /\ ~conn /\ disc' = FALSE
    BY <1>4 DEF Aborted, Ends, Severed
  <2> QED BY <1>1, <2>1 DEF Ends, Single, Shut, Severed, Awaited, Live, Coming
<1> QED BY <1>2, <1>3, <1>4 DEF RecvError

LEMMA OpenEnds ==
  ASSUME TypeOK, Ends, SendOpen
  PROVE  Ends'
<1>1. /\ toMe \in Seq(ToMeMessage) /\ pc = "tryopen" /\ pc' \in {"open", "failed"}
      /\ toMe' = toMe \/ toMe' = Append(toMe, Open(our'))
      /\ UNCHANGED <<active, inbox, conn, disc, chan>>
  <2>1. Put(Open(our'))
    BY Zenon DEF SendOpen, Put
  <2> QED BY <2>1, PutSends DEF TypeOK, LinkOK, SendOpen, me
<1>2. Open(our') \in ToMeMessage /\ Open(our').t = "open"
  <2>1. our' \in Channels
    BY NextChannelIs DEF TypeOK, SessionOK, SendOpen
  <2> QED BY <2>1, ToMeMessages DEF Open, Msg
<1>3. ~active /\ ~active' /\ Waiting' /\ Live' = Live /\ (conn => Live)
  BY <1>1 DEF Ends, Shut, Waiting, Live
<1>4. ~Coming("confirm") /\ \A t : Coming(t)' = Coming(t)
  BY <1>1 DEF Ends, Awaited, Waiting, Coming
<1>5. Single' /\ Shut' /\ Severed' /\ Awaited'
  BY <1>1, <1>3, <1>4 DEF Ends, Single, Shut, Severed, Awaited
<1>6. ASSUME TwoEnds PROVE TwoEnds'
  <2>1. ~Holds(toMe, "open")
    BY <1>1, <1>6 DEF TwoEnds, OpenOut, Waiting
  <2>2. LastWords(toMe')
    BY <1>1, <1>2, <1>6, <2>1, LastAppend DEF TwoEnds
  <2>3. Holds(toMe', "close") => Holds(toMe, "close")
    BY <1>1, <1>2, HoldsAppend
  <2> QED BY <1>1, <1>3, <1>4, <1>6, <2>2, <2>3
             DEF TwoEnds, OpenOut, Confirmed, Quietly, Agreed
<1> QED BY <1>3, <1>5, <1>6 DEF Ends

LEMMA SendEnds ==
  ASSUME TypeOK, Ends, Send
  PROVE  Ends'
<1>1. /\ toMe \in Seq(ToMeMessage) /\ pc = "send" /\ pc' \in {"response", "failed"}
      /\ toMe' = toMe \/ toMe' = Append(toMe, Request(amt, posts'))
      /\ UNCHANGED <<our, amt, active, inbox, conn, disc, chan>>
      /\ lost \subseteq lost'
  <2>1. Put(Request(amt, posts'))
    BY Zenon DEF Send, Put
  <2> QED BY <2>1, PutSends DEF TypeOK, LinkOK, Send, me
<1>2. Request(amt, posts') \in ToMeMessage /\ Request(amt, posts').t = "data"
  <2>1. amt \in Nat /\ posts' \in Nat
    BY DEF TypeOK, SessionOK, ControlOK, Send
  <2> QED BY <2>1, ToMeMessages DEF Request, Msg
<1>3. \A t : Coming(t)' = Coming(t)
  BY <1>1 DEF Coming
<1>4. ~Coming("confirm") /\ Single' /\ Shut' /\ Severed' /\ Awaited' /\ Live' = Live
  BY <1>1, <1>3 DEF Ends, Single, Shut, Severed, Awaited, Waiting, Live
<1>5. ASSUME TwoEnds PROVE TwoEnds'
  <2>1. ~Holds(toMe, "open") /\ LastWords(toMe')
    BY <1>1, <1>2, <1>5, LastAppend DEF TwoEnds, OpenOut, Waiting
  <2>2. /\ Holds(toMe', "close") => Holds(toMe, "close")
        /\ Holds(toMe', "open") => Holds(toMe, "open")
    BY <1>1, <1>2, HoldsAppend
  <2> QED BY <1>1, <1>3, <1>4, <1>5, <2>1, <2>2
             DEF TwoEnds, OpenOut, Confirmed, Quietly, Agreed, Closes
<1> QED BY <1>4, <1>5 DEF Ends

LEMMA ConnectEnds ==
  ASSUME Ends, Connect \/ ConnectFails
  PROVE  Ends'
<1>1. /\ inbox' = <<>> /\ disc' = FALSE /\ active' = FALSE /\ chan' = NoChan
      /\ pc' \in {"handshake", "failed"}
  BY DEF Connect, ConnectFails, ResetSession, ResetLink
<1>2. conn' => toMe' = <<Pv>>
  BY DEF Connect, ConnectFails
<1>3. Single' /\ Shut' /\ Severed' /\ Awaited' /\ \A t : ~Coming(t)'
  BY <1>1 DEF Single, Shut, Severed, Awaited, Coming
<1>4. ASSUME Live' PROVE TwoEnds'
  <2>1. toMe' = <<Pv>> /\ Pv.t = "version"
    BY <1>2, <1>4 DEF Live, Pv, Msg
  <2>2. \A t : Holds(toMe', t) => t = "version"
    BY <2>1 DEF Holds
  <2>3. LastWords(toMe')
    BY <2>1 DEF LastWords
  <2> QED BY <1>1, <1>3, <2>2, <2>3
             DEF TwoEnds, OpenOut, Confirmed, Quietly, Agreed, NoChan
<1> QED BY <1>3, <1>4 DEF Ends

(* An abandoned read takes a confirmation only once the host has given up  *)
(* on it.                                                                  *)
LEMMA OrphanEnds ==
  ASSUME TypeOK, Ends, OrphanRead
  PROVE  Ends'
<1>1. /\ inbox # <<>> /\ inbox' = Tail(inbox)
      /\ lost' = lost \cup {m \in {Head(inbox)} : m.t \in {"forward", "close"}}
      /\ UNCHANGED <<our, amt, active, pc, conn, disc, chan, toMe>>
  BY DEF OrphanRead, session, control, me
<1>2. Single' /\ \A t : ~Coming(t)'
  BY <1>1, Emptied DEF Ends
<1>3. Shut' /\ Severed' /\ Awaited' /\ Live' = Live /\ Waiting' = Waiting
  BY <1>1, <1>2 DEF Ends, Shut, Severed, Awaited, Live, Waiting
<1>4. Closes => Closes'
  BY <1>1 DEF Closes, Coming
<1>5. TwoEnds => TwoEnds'
  BY <1>1, <1>2, <1>3, <1>4 DEF TwoEnds, OpenOut, Confirmed, Quietly, Agreed
<1> QED BY <1>2, <1>3, <1>5 DEF Ends

LEMMA NextEnds == TypeOK /\ CreditBalance /\ Ends /\ [Next]_vars => Ends'
<1> SUFFICES ASSUME TypeOK, CreditBalance, Ends, [Next]_vars PROVE Ends'
  OBVIOUS
<1>1. CASE HostMessage
  BY <1>1, MessageEnds
<1>2. CASE HandshakeSilence \/ OpenError \/ ResponseError
  <2>1. RecvError /\ UNCHANGED session
    BY <1>2 DEF HandshakeSilence, OpenError, ResponseError, RecvError
  <2>2. \/ pc = "handshake" /\ pc' \in {"handshake", "tryopen", "failed"}
        \/ pc = "open" /\ pc' = "failed"
        \/ pc = "open" /\ pc' = "reconnect" /\ Aborted
        \/ pc = "response" /\ pc' \in {"ready", "failed"}
    BY <1>2 DEF HandshakeSilence, OpenError, ResponseError, LeaveHandshake,
                StayInHandshake, LeaveReceive
  <2> QED BY <2>1, <2>2, SilenceEnds
<1>3. CASE OversizePanics
  <2>1. /\ inbox # <<>> /\ inbox' = Tail(inbox) /\ conn' = FALSE /\ pc' = "start"
    BY <1>3 DEF OversizePanics
  <2>2. Single'
    BY <2>1, Emptied DEF Ends
  <2> QED BY <2>1, <2>2 DEF Ends, Shut, Severed, Awaited, Live
<1>4. CASE SendOpen
  BY <1>4, OpenEnds
<1>5. CASE Send
  BY <1>5, SendEnds
<1>6. CASE Close
  <2>1. /\ pc' = "start" /\ active' = FALSE /\ (conn' => conn)
        /\ UNCHANGED <<inbox, disc>>
    BY <1>6, Zenon DEF Close
  <2> QED BY <2>1 DEF Ends, Single, Shut, Severed, Awaited, Live
<1>7. CASE Post
  <2>1. /\ pc = "ready" /\ pc' \in {"send", "reconnect", "tryopen"}
        /\ active => pc' = "send"
        /\ UNCHANGED <<our, amt, active, inbox, conn, disc, toMe, chan, lost>>
    BY <1>7 DEF Post, session, link, me
  <2>2. \A t : Coming(t)' = Coming(t)
    BY <2>1 DEF Coming
  <2>3. ~Coming("confirm") /\ Single' /\ Shut' /\ Severed' /\ Awaited' /\ Live' = Live
    BY <2>1, <2>2 DEF Ends, Single, Shut, Severed, Awaited, Waiting, Live
  <2>4. TwoEnds => TwoEnds'
    BY <2>1, <2>2, <2>3
       DEF TwoEnds, OpenOut, Waiting, Confirmed, Quietly, Agreed, Closes
  <2> QED BY <2>3, <2>4 DEF Ends
<1>8. CASE Connect \/ ConnectFails
  BY <1>8, ConnectEnds
<1>9. CASE OrphanRead
  BY <1>9, OrphanEnds
<1>10. CASE MeStep
  BY <1>10, MeStepEnds
<1>11. CASE MeNoise /\ UNCHANGED <<session, control>>
  <2>1. PICK m \in {Keepalive, Adjust(0, 0)} : Says(m)
    BY <1>11, Zenon DEF MeNoise
  <2>2. m \in ToHostMessage /\ m.t \notin {"confirm", "close"}
    BY ToHostMessages DEF Keepalive, Adjust, Msg
  <2>3. UNCHANGED <<our, amt, active, pc, conn, disc, chan, toMe, lost>>
    BY <1>11, <2>1 DEF MeNoise, Says, me, session, control
  <2> QED BY <2>1, <2>2, <2>3, PlainEnds
<1>12. CASE (MeDisconnect \/ MeDown) /\ UNCHANGED <<session, control>>
  <2>1. /\ conn' = FALSE /\ UNCHANGED <<active, pc>>
        /\ inbox' = inbox \/ inbox' = <<>>
    BY <1>12 DEF MeDisconnect, MeDown, session, control
  <2>2. Single' /\ (Coming("confirm")' => Coming("confirm"))
    BY <2>1 DEF Ends, Single, Coming
  <2> QED BY <2>1, <2>2 DEF Ends, Shut, Severed, Awaited, Waiting, Live
<1>13. CASE UNCHANGED vars
  BY <1>13, PlainEnds DEF vars, session, control, link, me
<1> QED BY <1>1, <1>2, <1>3, <1>4, <1>5, <1>6, <1>7, <1>8, <1>9, <1>10, <1>11,
           <1>12, <1>13, Zenon DEF Next, Host

(* channel_active is true to the ME: while it is set, both ends have the   *)
(* same two numbers and the ME's end is open, until its CLOSE is on its    *)
(* way (lme/mod.rs: process_apf's CHANNEL_OPEN_CONFIRMATION and            *)
(* CHANNEL_CLOSE) or an abandoned read has swallowed it (windows.rs:271).  *)
THEOREM ChannelAgreementHolds == Spec => []ChannelAgreement
<1>1. Init => Ends
  <2> SUFFICES ASSUME Init PROVE Ends
    OBVIOUS
  <2>1. /\ inbox = <<>> /\ pc = "start" /\ active = FALSE /\ conn = FALSE
        /\ disc = FALSE
    BY DEF Init
  <2> QED BY <2>1 DEF Ends, Single, Shut, Severed, Awaited, Live
<1>2. TypeOK /\ CreditBalance /\ Ends /\ [Next]_vars => Ends'
  BY NextEnds
<1>3. TypeOK /\ Ends => ChannelAgreement
  <2> SUFFICES ASSUME TypeOK, Ends, active, conn
               PROVE  /\ chan.peer = our /\ chan.id = amt
                      /\ \/ chan.st = "open"
                         \/ /\ chan.st = "closing"
                            /\ CloseMsg(our) \in Inbox("close") \cup lost
    BY DEF ChannelAgreement
  <2>1. Agreed
    BY DEF Ends, Shut, Live, TwoEnds
  <2>2. ASSUME Closes PROVE CloseMsg(our) \in Inbox("close") \cup lost
    <3> SUFFICES ASSUME Coming("close"), Head(inbox) = CloseMsg(our)
                 PROVE  CloseMsg(our) \in Inbox("close")
      BY <2>2 DEF Closes
    <3>1. Len(inbox) \in Nat /\ Len(inbox) >= 1 /\ inbox[1] = CloseMsg(our)
      BY Queues, QueueOrder DEF TypeOK, LinkOK, Coming
    <3>2. inbox[1].t = "close"
      BY <3>1 DEF CloseMsg, Msg
    <3> QED BY <3>1, <3>2 DEF Inbox
  <2> QED BY <2>1, <2>2 DEF Agreed
<1> QED BY <1>1, <1>2, <1>3, TypesHold, CreditBalanceHolds, PTL DEF Spec

-----------------------------------------------------------------------------
(* What receive collects: the answer to the last request, whole.  Under    *)
(* the conditions it is checked with: UEFI, an ME that is not late, and    *)
(* answers that fit rx_buf.  (An answer with a chunk larger than the loop's*)
(* buffer fits if what is before that chunk does: the chunk takes the      *)
(* ME's credit with it.)                                                   *)

Room(n, s) ==
  \E f \in [0 .. Len(s) -> Int] :
    /\ f[0] = n
    /\ \A i \in 1 .. Len(s) : /\ f[i] = f[i - 1] + s[i]
                              /\ s[i] <= BufCap => f[i] <= RxCap
                              /\ s[i] <= RxCap

AnswersFit == \A r \in Responses : Room(0, r)

OnTime == Target = "uefi" /\ ~Slow /\ AnswersFit

(* Then no write times out, and no read is abandoned.                      *)
Intact == orphans = 0 /\ lost = {} /\ ~starved

LEMMA PutIntact ==
  ASSUME OnTime, Intact, NEW e, Put(e)
  PROVE  lost' = lost /\ (toMe' = toMe \/ toMe' = Append(toMe, e))
  BY Zenon DEF Put, Sent, Unsent, TimesOut, Loses, Delivers, OnTime, Intact

LEMMA SentIntact ==
  ASSUME OnTime, Intact, NEW e, Sent(e) \/ (Put(e) /\ up)
  PROVE  toMe' = Append(toMe, e)
  BY Zenon DEF Put, Sent, Unsent, Refused, TimesOut, Loses, Delivers, OnTime, Intact

LEMMA NextIntact ==
  ASSUME OnTime, Intact, [Next]_vars
  PROVE  Intact'
<1>1. ASSUME UNCHANGED <<orphans, lost, starved>> PROVE Intact'
  BY <1>1 DEF Intact
<1>2. ASSUME NEW e, Put(e) \/ NoReply, UNCHANGED <<orphans, starved>> PROVE Intact'
  BY <1>2, PutIntact DEF Intact, NoReply
<1>3. CASE HostMessage
  <2>1. PICK m : Received(m) /\ Process(m)
    BY <1>3, Zenon DEF HostMessage, HandshakeMessage, OpenMessage, ResponseMessage
  <2>2. UNCHANGED <<orphans, starved>>
    BY <2>1, Zenon DEF Received, SendFlowControl, TimesOut, OnTime
  <2>3. \E e : Put(e) \/ NoReply
    BY <2>1, Zenon DEF Process, Grant
  <2> QED BY <1>2, <2>2, <2>3
<1>4. CASE HandshakeSilence \/ OpenError \/ ResponseError
  <2>1. CASE Aborted
    BY <1>2, <2>1 DEF Aborted
  <2>2. CASE ReadError \/ TimedOut \/ Oversize
    BY <1>1, <2>2 DEF ReadError, TimedOut, Oversize, link, OnTime
  <2> QED BY <1>4, <2>1, <2>2 DEF HandshakeSilence, OpenError, ResponseError, RecvError
<1>5. CASE OversizePanics \/ Post
  BY <1>1, <1>5 DEF OversizePanics, Post, link
<1>6. CASE SendOpen
  BY <1>2, <1>6 DEF SendOpen, Put
<1>7. CASE Send
  BY <1>2, <1>7 DEF Send, Put
<1>8. CASE Close
  BY <1>2, <1>8 DEF Close
<1>9. CASE Connect \/ ConnectFails
  BY <1>9 DEF Connect, ConnectFails, ResetLink, Intact
<1>10. CASE OrphanRead
  BY <1>10 DEF OrphanRead, Intact
<1>11. CASE MeStep \/ MeNoise \/ MeDisconnect \/ MeDown
  BY <1>1, <1>11 DEF MeStep, MeReads, MeInit, MeRespond, MeClose, MeVersion, MeGranted,
     MeConfirm, MeRefuse, MeRequest, MeAdjust, MeClosed, MeIgnores, MeNoise,
     MeDisconnect, MeDown, Says, Quiet
<1>12. CASE UNCHANGED vars
  BY <1>1, <1>12 DEF vars, link
<1> QED BY <1>3, <1>4, <1>5, <1>6, <1>7, <1>8, <1>9, <1>10, <1>11, <1>12, Zenon
           DEF Next, Host

(* What the message m gives back of the window of the channel c, and that  *)
(* n and what the messages in q give back is the whole window.             *)
Gives(c, m) == IF m.t = "adjust" /\ m.a = c THEN m.b ELSE 0

Window(c, n, q) ==
  \E f \in [0 .. Len(q) -> Int] :
    /\ f[0] = n /\ f[Len(q)] = RxCap
    /\ \A i \in 1 .. Len(q) : f[i] = f[i - 1] + Gives(c, q[i])

(* m is the one request in q.                                              *)
Lone(q, m) ==
  /\ Holds(q, "data")
  /\ \A i \in 1 .. Len(q) : q[i].t = "data" => q[i] = m
  /\ \A i, j \in 1 .. Len(q) : q[i].t = "data" /\ q[j].t = "data" => i = j

(* The ME is connected and has not lost its credit.                        *)
Healthy == Live /\ credit + Len(inbox) = 1

Resting == pc \notin {"response", "failed", "start"}

Prefix == \A i \in 1 .. Len(rx) : rx[i].a = posts /\ rx[i].b = i

InFlight == IF Coming("data") THEN Head(inbox).c ELSE 0

Used == pc \in {"send", "response"} => active

Unused ==
  pc \in {"reconnect", "handshake", "tryopen", "open"} /\ ctx # "reopen"
    => rx = <<>>

Collected == pc \in {"response", "ready"} => Prefix

NoData == Resting => ~Coming("data")

(* The chunk in front of the host is the next one, and fits.               *)
NextUp ==
  pc = "response" /\ Coming("data") =>
    /\ Head(inbox).a = posts /\ Head(inbox).b = Len(rx) + 1
    /\ Head(inbox).c <= BufCap => rxLen + Head(inbox).c <= RxCap

(* Outside of receive the ME has no request to answer, and the channel is  *)
(* as it was opened, or closed.                                            *)
Unspent == ~Holds(toMe, "adjust") /\ (chan.st = "open" => win = RxCap)

Idle ==
  /\ req = 0 /\ ~Holds(toMe, "data")
  /\ active => ~Coming("close")
  /\ active \/ pc \in {"handshake", "tryopen", "open"} => Unspent

(* The request is on its way, is being answered, or has been.              *)
Asking ==
  /\ req = 0 /\ posts # 0 /\ rx = <<>> /\ rxLen = 0
  /\ Lone(toMe, Request(amt, posts)) /\ ~Holds(toMe, "adjust") /\ win = RxCap
  /\ ~Coming("data") /\ ~Coming("close")

Answering ==
  /\ req = posts /\ posts # 0
  /\ ~Holds(toMe, "data") /\ ~Coming("close")
  /\ idx = Len(rx) + (IF Coming("data") THEN 2 ELSE 1)
  /\ Room(rxLen + InFlight, resp)
  /\ Window(chan.id, win + InFlight, toMe)

Closing ==
  /\ req = 0 /\ Coming("close") /\ idx = Len(rx) + 1 /\ ~Holds(toMe, "data")

Serving == pc = "response" => Asking \/ Answering \/ Closing

Course ==
  /\ Used /\ Unused /\ Collected /\ NoData /\ NextUp
  /\ Healthy => (Resting => Idle) /\ Serving

LEMMA RoomTail ==
  ASSUME NEW n \in Nat, NEW s \in Seq(Sizes), s # <<>>, Room(n, s)
  PROVE  /\ Head(s) <= RxCap /\ (Head(s) <= BufCap => n + Head(s) <= RxCap)
         /\ Room(n + Head(s), Tail(s))
<1>1. /\ Len(s) \in Nat /\ Len(s) >= 1 /\ Head(s) = s[1] /\ s[1] \in Nat
      /\ Len(Tail(s)) = Len(s) - 1
      /\ \A i \in 1 .. Len(Tail(s)) : Tail(s)[i] = s[i + 1]
  <2>1. /\ Len(s) \in Nat /\ Len(s) >= 1 /\ Head(s) = s[1] /\ Head(s) \in Sizes
        /\ Len(Tail(s)) = Len(s) - 1
        /\ \A i \in 1 .. Len(Tail(s)) : Tail(s)[i] = s[i + 1]
    BY Queues, QueueOrder
  <2> QED BY <2>1, SizesAre
<1>2. PICK f \in [0 .. Len(s) -> Int] :
        /\ f[0] = n
        /\ \A i \in 1 .. Len(s) : /\ f[i] = f[i - 1] + s[i]
                                  /\ s[i] <= BufCap => f[i] <= RxCap
                                  /\ s[i] <= RxCap
  BY DEF Room
<1>3. 1 \in 1 .. Len(s) /\ f[1] = n + Head(s)
  BY <1>1, <1>2
<1>4. Head(s) <= RxCap /\ (Head(s) <= BufCap => n + Head(s) <= RxCap)
  BY <1>1, <1>2, <1>3
<1> DEFINE g == [i \in 0 .. Len(Tail(s)) |-> f[i + 1]]
<1>5. g \in [0 .. Len(Tail(s)) -> Int] /\ g[0] = n + Head(s)
  BY <1>1, <1>3
<1>6. ASSUME NEW i \in 1 .. Len(Tail(s))
      PROVE  /\ g[i] = g[i - 1] + Tail(s)[i]
             /\ Tail(s)[i] <= BufCap => g[i] <= RxCap
             /\ Tail(s)[i] <= RxCap
  <2>1. /\ i + 1 \in 1 .. Len(s) /\ (i + 1) - 1 = i /\ Tail(s)[i] = s[i + 1]
        /\ i \in 0 .. Len(Tail(s)) /\ i - 1 \in 0 .. Len(Tail(s))
    BY <1>1
  <2>2. g[i] = f[i + 1] /\ g[i - 1] = f[i]
    BY <2>1
  <2> QED BY <1>2, <2>1, <2>2
<1> HIDE DEF g
<1>7. Room(n + Head(s), Tail(s))
  BY <1>5, <1>6 DEF Room
<1> QED BY <1>4, <1>7

LEMMA GivesType ==
  ASSUME NEW m \in ToMeMessage, NEW c
  PROVE  Gives(c, m) \in Nat /\ (m.t # "adjust" => Gives(c, m) = 0)
  BY ToMeFields DEF Gives

LEMMA WindowEmpty ==
  ASSUME NEW c, NEW n, Window(c, n, <<>>)
  PROVE  n = RxCap
  BY DEF Window

LEMMA WindowFull ==
  ASSUME NEW q \in Seq(ToMeMessage), NEW c, ~Holds(q, "adjust")
  PROVE  Window(c, RxCap, q)
<1>1. Len(q) \in Nat /\ RxCap \in Int
  BY Queues, ParameterAssumption
<1> DEFINE g == [i \in 0 .. Len(q) |-> RxCap]
<1>2. g \in [0 .. Len(q) -> Int] /\ g[0] = RxCap /\ g[Len(q)] = RxCap
  BY <1>1
<1>3. ASSUME NEW i \in 1 .. Len(q) PROVE g[i] = g[i - 1] + Gives(c, q[i])
  <2>1. Gives(c, q[i]) = 0
    BY DEF Gives, Holds
  <2>2. i \in 0 .. Len(q) /\ i - 1 \in 0 .. Len(q)
    BY <1>1
  <2> QED BY <1>1, <2>1, <2>2
<1> HIDE DEF g
<1> QED BY <1>2, <1>3 DEF Window

LEMMA WindowTail ==
  ASSUME NEW q \in Seq(ToMeMessage), q # <<>>, NEW c, NEW n \in Int, Window(c, n, q)
  PROVE  Window(c, n + Gives(c, Head(q)), Tail(q))
<1>1. /\ Len(q) \in Nat /\ Len(q) >= 1 /\ Head(q) = q[1]
      /\ Len(Tail(q)) = Len(q) - 1
      /\ \A i \in 1 .. Len(Tail(q)) : Tail(q)[i] = q[i + 1]
  BY Queues, QueueOrder
<1>2. PICK f \in [0 .. Len(q) -> Int] :
        /\ f[0] = n /\ f[Len(q)] = RxCap
        /\ \A i \in 1 .. Len(q) : f[i] = f[i - 1] + Gives(c, q[i])
  BY DEF Window
<1>3. f[1] = n + Gives(c, Head(q))
  BY <1>1, <1>2
<1> DEFINE g == [i \in 0 .. Len(Tail(q)) |-> f[i + 1]]
<1>4. /\ g \in [0 .. Len(Tail(q)) -> Int] /\ g[0] = n + Gives(c, Head(q))
      /\ g[Len(Tail(q))] = RxCap
  BY <1>1, <1>2, <1>3
<1>5. ASSUME NEW i \in 1 .. Len(Tail(q))
      PROVE  g[i] = g[i - 1] + Gives(c, Tail(q)[i])
  <2>1. /\ i + 1 \in 1 .. Len(q) /\ (i + 1) - 1 = i /\ Tail(q)[i] = q[i + 1]
        /\ i \in 0 .. Len(Tail(q)) /\ i - 1 \in 0 .. Len(Tail(q))
    BY <1>1
  <2>2. g[i] = f[i + 1] /\ g[i - 1] = f[i]
    BY <2>1
  <2> QED BY <1>2, <2>1, <2>2
<1> HIDE DEF g
<1> QED BY <1>4, <1>5 DEF Window

LEMMA WindowAppend ==
  ASSUME NEW q \in Seq(ToMeMessage), NEW e \in ToMeMessage, NEW c, NEW n \in Int,
         Window(c, n + Gives(c, e), q)
  PROVE  Window(c, n, Append(q, e))
<1> DEFINE d == Gives(c, e)
           l == Len(q)
           a == Append(q, e)
<1>1. /\ l \in Nat /\ Len(a) = l + 1 /\ a[l + 1] = e
      /\ \A i \in 1 .. l : a[i] = q[i]
  BY Queues, QueueOrder
<1>2. d \in Int /\ RxCap \in Int
  BY GivesType, ParameterAssumption
<1>3. PICK f \in [0 .. l -> Int] :
        /\ f[0] = n + d /\ f[l] = RxCap
        /\ \A i \in 1 .. l : f[i] = f[i - 1] + Gives(c, q[i])
  BY DEF Window
<1> HIDE DEF d, l, a
<1> DEFINE g == [i \in 0 .. l + 1 |-> IF i = l + 1 THEN RxCap ELSE f[i] - d]
<1>4. g \in [0 .. l + 1 -> Int] /\ g[0] = n /\ g[l + 1] = RxCap
  BY <1>1, <1>2, <1>3
<1>5. ASSUME NEW i \in 1 .. l + 1 PROVE g[i] = g[i - 1] + Gives(c, a[i])
  <2>1. CASE i = l + 1
    <3>1. g[i] = RxCap /\ g[i - 1] = RxCap - d
      BY <1>1, <1>3, <2>1
    <3>2. Gives(c, a[i]) = d
      BY <1>1, <2>1 DEF d
    <3> QED BY <1>2, <3>1, <3>2
  <2>2. CASE i # l + 1
    <3>1. i \in 1 .. l /\ i \in 0 .. l /\ i - 1 \in 0 .. l
      BY <1>1, <2>2
    <3>2. g[i] = f[i] - d /\ g[i - 1] = f[i - 1] - d /\ a[i] = q[i]
      BY <1>1, <2>2, <3>1
    <3>3. f[i] \in Int /\ f[i - 1] \in Int /\ f[i] = f[i - 1] + Gives(c, q[i])
      BY <1>3, <3>1
    <3>4. Gives(c, q[i]) \in Int
      BY <3>1, Queues, GivesType DEF l
    <3> HIDE DEF g
    <3> QED BY <1>2, <3>2, <3>3, <3>4
  <2> QED BY <2>1, <2>2
<1> HIDE DEF g
<1>6. Window(c, n, a)
  BY <1>1, <1>4, <1>5 DEF Window
<1> QED BY <1>6 DEF a

LEMMA LoneTail ==
  ASSUME NEW q \in Seq(ToMeMessage), q # <<>>, NEW m, Lone(q, m)
  PROVE  IF Head(q).t = "data" THEN Head(q) = m /\ ~Holds(Tail(q), "data")
                               ELSE Lone(Tail(q), m)
<1>1. /\ Len(q) \in Nat /\ Len(q) >= 1 /\ Head(q) = q[1]
      /\ Len(Tail(q)) = Len(q) - 1
      /\ \A i \in 1 .. Len(Tail(q)) : Tail(q)[i] = q[i + 1]
  BY Queues, QueueOrder
<1>2. \A i \in 1 .. Len(Tail(q)) : i + 1 \in 1 .. Len(q) /\ Tail(q)[i] = q[i + 1]
  BY <1>1
<1>3. CASE Head(q).t = "data"
  <2>1. Head(q) = m
    BY <1>1, <1>3 DEF Lone
  <2>2. ASSUME NEW i \in 1 .. Len(Tail(q)), Tail(q)[i].t = "data" PROVE FALSE
    <3>1. i + 1 \in 1 .. Len(q) /\ 1 \in 1 .. Len(q) /\ i + 1 # 1 /\ q[i + 1].t = "data"
      BY <1>1, <1>2, <2>2
    <3> QED BY <1>1, <1>3, <3>1 DEF Lone
  <2> QED BY <1>3, <2>1, <2>2 DEF Holds
<1>4. CASE Head(q).t # "data"
  <2>1. PICK i \in 1 .. Len(q) : q[i].t = "data"
    BY DEF Lone, Holds
  <2>2. i # 1
    BY <1>1, <1>4, <2>1
  <2>3. i - 1 \in 1 .. Len(Tail(q)) /\ Tail(q)[i - 1] = q[i]
    BY <1>1, <2>1, <2>2
  <2>4. Holds(Tail(q), "data")
    BY <2>1, <2>3 DEF Holds
  <2>5. ASSUME NEW j \in 1 .. Len(Tail(q)), Tail(q)[j].t = "data"
        PROVE  Tail(q)[j] = m
    BY <1>2, <2>5 DEF Lone
  <2>6. ASSUME NEW j \in 1 .. Len(Tail(q)), NEW k \in 1 .. Len(Tail(q)),
               Tail(q)[j].t = "data", Tail(q)[k].t = "data"
        PROVE  j = k
    <3>1. j + 1 = k + 1
      BY <1>2, <2>6 DEF Lone
    <3> QED BY <3>1
  <2>7. Lone(Tail(q), m)
    BY <2>4, <2>5, <2>6 DEF Lone
  <2> QED BY <1>4, <2>7
<1> QED BY <1>3, <1>4

LEMMA LoneAppend ==
  ASSUME NEW q \in Seq(ToMeMessage), NEW e \in ToMeMessage
  PROVE  /\ \A m : Lone(q, m) /\ e.t # "data" => Lone(Append(q, e), m)
         /\ ~Holds(q, "data") /\ e.t = "data" => Lone(Append(q, e), e)
<1>1. /\ Len(q) \in Nat /\ Len(Append(q, e)) = Len(q) + 1
      /\ Append(q, e)[Len(q) + 1] = e
      /\ \A i \in 1 .. Len(q) : Append(q, e)[i] = q[i]
  BY Queues, QueueOrder
<1>2. ASSUME NEW i \in 1 .. Len(Append(q, e))
      PROVE  i = Len(q) + 1 \/ (i \in 1 .. Len(q) /\ Append(q, e)[i] = q[i])
  BY <1>1
<1>3. ASSUME NEW m, Lone(q, m), e.t # "data" PROVE Lone(Append(q, e), m)
  <2>1. Holds(Append(q, e), "data")
    BY <1>3, HoldsAppend DEF Lone
  <2>2. ASSUME NEW i \in 1 .. Len(Append(q, e)), Append(q, e)[i].t = "data"
        PROVE  i \in 1 .. Len(q) /\ Append(q, e)[i] = q[i]
    BY <1>1, <1>2, <1>3, <2>2
  <2> QED BY <1>3, <2>1, <2>2 DEF Lone
<1>4. ASSUME ~Holds(q, "data"), e.t = "data" PROVE Lone(Append(q, e), e)
  <2>1. Holds(Append(q, e), "data")
    BY <1>4, HoldsAppend
  <2>2. ASSUME NEW i \in 1 .. Len(Append(q, e)), Append(q, e)[i].t = "data"
        PROVE  i = Len(q) + 1
    BY <1>2, <1>4, <2>2 DEF Holds
  <2> QED BY <1>1, <2>1, <2>2 DEF Lone
<1> QED BY <1>3, <1>4

LEMMA HoldsHead ==
  ASSUME NEW S, NEW q \in Seq(S), q # <<>>, NEW t, Holds(q, t)
  PROVE  Holds(Tail(q), t) \/ Head(q).t = t
<1>1. /\ Len(q) \in Nat /\ Len(q) >= 1 /\ Head(q) = q[1]
      /\ Len(Tail(q)) = Len(q) - 1
      /\ \A i \in 1 .. Len(Tail(q)) : Tail(q)[i] = q[i + 1]
  BY Queues, QueueOrder
<1>2. PICK i \in 1 .. Len(q) : q[i].t = t
  BY DEF Holds
<1>3. CASE i = 1
  BY <1>1, <1>2, <1>3
<1>4. CASE i # 1
  <2>1. i - 1 \in 1 .. Len(Tail(q)) /\ Tail(q)[i - 1] = q[i]
    BY <1>1, <1>2, <1>4
  <2> QED BY <1>2, <2>1 DEF Holds
<1> QED BY <1>3, <1>4

(* A step of the ME leaves alone what is about the host only.              *)
LEMMA HostKept ==
  ASSUME Course, UNCHANGED <<session, control>>
  PROVE  Used' /\ Unused' /\ Collected' /\ Resting' = Resting /\ Prefix' = Prefix
  BY DEF Course, Used, Unused, Collected, Resting, Prefix, session, control

LEMMA SaysHealthy ==
  ASSUME TypeOK, CreditBalance, NEW m \in ToHostMessage, Says(m), pc' = pc
  PROVE  /\ pc # "start" => Healthy
         /\ inbox = <<>> /\ \A t : ~Coming(t)
         /\ \A t : Coming(t)' <=> m.t = t
         /\ Head(inbox') = m
<1>1. /\ inbox = <<>> /\ \A t : Coming(t)' <=> m.t = t
      /\ Head(inbox') = m
  BY SaysComing
<1>2. conn /\ credit \in Nat /\ credit > 0 /\ credit + Len(inbox) <= 1
  BY DEF TypeOK, LinkOK, CreditBalance, Says
<1>3. Len(inbox) = 0
  BY <1>1, EmptySeq
<1> QED BY <1>1, <1>2, <1>3 DEF Healthy, Live, Coming

(* The ME takes a message that is no request, or sends one that says       *)
(* nothing of the answer.                                                  *)
LEMMA PlainCourse ==
  ASSUME TypeOK, CreditBalance, Ends, Course,
         UNCHANGED <<session, control, conn, chan, req, resp, idx>>,
         \/ toMe' = toMe /\ win' = win
         \/ /\ toMe # <<>> /\ toMe' = Tail(toMe)
            /\ Healthy => Head(toMe).t # "data"
            /\ Head(toMe).t # "adjust" => win' = win
            /\ chan.st # "none" => win' = win + Gives(chan.id, Head(toMe)),
         \/ UNCHANGED <<inbox, credit>>
         \/ \E m \in ToHostMessage : Says(m) /\ m.t \notin {"data", "close"}
  PROVE  Course'
<1>1. /\ UNCHANGED <<our, amt, active, rx, rxLen, pc, posts>>
      /\ toMe \in Seq(ToMeMessage) /\ win \in Nat
  BY DEF session, control, TypeOK, LinkOK, MeOK
<1>2. Used' /\ Unused' /\ Collected' /\ Resting' = Resting
  BY HostKept
<1>3. /\ Healthy' => Healthy
      /\ Coming("data")' <=> Coming("data")
      /\ Coming("close")' <=> Coming("close")
      /\ Coming("data") => Head(inbox') = Head(inbox)
      /\ InFlight' = InFlight
  <2>1. CASE UNCHANGED <<inbox, credit>>
    BY <1>1, <2>1 DEF Healthy, Live, Coming, InFlight
  <2>2. ASSUME NEW m \in ToHostMessage, Says(m), m.t \notin {"data", "close"}
        PROVE  /\ Healthy' => Healthy
               /\ Coming("data")' <=> Coming("data")
               /\ Coming("close")' <=> Coming("close")
               /\ Coming("data") => Head(inbox') = Head(inbox)
               /\ InFlight' = InFlight
    <3>1. /\ pc # "start" => Healthy
          /\ ~Coming("data") /\ ~Coming("data")'
          /\ ~Coming("close") /\ ~Coming("close")'
      BY <1>1, <2>2, SaysHealthy
    <3> QED BY <1>1, <3>1 DEF Healthy, Live, InFlight
  <2> QED BY <2>1, <2>2
<1>4. NoData' /\ NextUp'
  BY <1>1, <1>2, <1>3 DEF Course, NoData, NextUp
<1>5. /\ \A t : Holds(toMe', t) => Holds(toMe, t)
      /\ Healthy => (Holds(toMe, "data") => Holds(toMe', "data"))
      /\ ~Holds(toMe, "adjust") => win' = win
  <2>1. CASE toMe' = toMe /\ win' = win
    BY <2>1
  <2>2. CASE /\ toMe # <<>> /\ toMe' = Tail(toMe)
             /\ Healthy => Head(toMe).t # "data"
             /\ Head(toMe).t # "adjust" => win' = win
    BY <1>1, <2>2, HoldsTail, HoldsHead
  <2> QED BY <2>1, <2>2
<1>6. Idle => Idle'
  BY <1>1, <1>3, <1>5 DEF Idle, Unspent
<1>7. Asking /\ Healthy => Asking'
  <2>1. SUFFICES ASSUME Asking, Healthy PROVE Asking'
    OBVIOUS
  <2>2. Lone(toMe', Request(amt, posts))
    BY <1>1, <2>1, LoneTail DEF Asking
  <2> QED BY <1>1, <1>3, <1>5, <2>1, <2>2 DEF Asking, Request
<1>8. Answering /\ Healthy /\ pc = "response" => Answering'
  <2>1. SUFFICES ASSUME Answering, Healthy, pc = "response" PROVE Answering'
    OBVIOUS
  <2>2. chan.st # "none"
    BY <2>1 DEF Course, Used, Ends, TwoEnds, Agreed, Healthy
  <2>3. InFlight \in Nat
    <3>1. Coming("data") => Head(inbox) \in ToHostMessage
      BY Queues DEF TypeOK, LinkOK, Coming
    <3> QED BY <3>1, ToHostFields DEF InFlight
  <2>4. Window(chan.id, win' + InFlight, toMe')
    <3>1. CASE toMe' = toMe /\ win' = win
      BY <2>1, <3>1 DEF Answering
    <3>2. CASE toMe # <<>> /\ toMe' = Tail(toMe)
               /\ win' = win + Gives(chan.id, Head(toMe))
      <4>1. Gives(chan.id, Head(toMe)) \in Nat
        BY <1>1, <3>2, Queues, GivesType
      <4>2. win' + InFlight = (win + InFlight) + Gives(chan.id, Head(toMe))
        BY <1>1, <2>3, <3>2, <4>1
      <4>3. win + InFlight \in Int
        BY <1>1, <2>3
      <4> QED BY <1>1, <2>1, <3>2, <4>2, <4>3, WindowTail DEF Answering
    <3> QED BY <2>2, <3>1, <3>2
  <2>5. Room(rxLen' + InFlight', resp') /\ Window(chan'.id, win' + InFlight', toMe')
    BY <1>1, <1>3, <2>1, <2>4 DEF Answering
  <2>6. /\ req' = posts' /\ posts' # 0 /\ ~Holds(toMe', "data") /\ ~Coming("close")'
        /\ idx' = Len(rx') + (IF Coming("data")' THEN 2 ELSE 1)
    BY <1>1, <1>3, <1>5, <2>1 DEF Answering
  <2> QED BY <2>5, <2>6 DEF Answering
<1>9. Closing => Closing'
  BY <1>1, <1>3, <1>5 DEF Closing
<1> QED BY <1>1, <1>2, <1>3, <1>4, <1>6, <1>7, <1>8, <1>9 DEF Course, Serving

(* Without a healthy ME, little is said of it.                             *)
LEMMA IdleCourse ==
  ASSUME Course, UNCHANGED <<session, control, inbox>>, ~Healthy'
  PROVE  Course'
<1>1. Used' /\ Unused' /\ Collected' /\ Resting' = Resting
  BY HostKept
<1>2. NoData' /\ NextUp'
  BY <1>1 DEF Course, NoData, NextUp, Coming, session, control
<1> QED BY <1>1, <1>2 DEF Course

LEMMA RequestCourse ==
  ASSUME TypeOK, CreditBalance, Ends, Course, OnTime, NEW m, MeRequest(m),
         UNCHANGED <<session, control>>
  PROVE  Course'
<1>1. /\ toMe \in Seq(ToMeMessage) /\ toMe # <<>> /\ m = Head(toMe)
      /\ toMe' = Tail(toMe) /\ m.t = "data" /\ req' = m.b /\ idx' = 1
      /\ resp' \in Responses /\ UNCHANGED <<inbox, conn, credit, chan, win>>
      /\ UNCHANGED <<amt, active, rx, rxLen, pc, posts>>
  BY DEF TypeOK, LinkOK, MeRequest, Takes, Served, Quiet, session, control
<1>2. CASE ~Healthy
  BY <1>1, <1>2, IdleCourse DEF Healthy, Live
<1>3. CASE Healthy
  <2>1. /\ Holds(toMe, "data") /\ \A t : Coming(t)' = Coming(t)
        /\ \A t : Holds(toMe', t) => Holds(toMe, t)
    BY <1>1, HoldsTail DEF Coming
  <2>2. Used' /\ Unused' /\ Collected' /\ Resting' = Resting
    BY HostKept
  <2>3. NoData' /\ NextUp'
    BY <1>1, <2>1, <2>2 DEF Course, NoData, NextUp
  <2>4. ~Resting
    BY <1>3, <2>1 DEF Course, Idle
  <2>5. ASSUME pc = "response" PROVE Answering'
    <3>1. Asking
      BY <1>3, <2>1, <2>5 DEF Course, Serving, Answering, Closing
    <3>2. m = Request(amt, posts) /\ ~Holds(toMe', "data")
      BY <1>1, <3>1, LoneTail DEF Asking
    <3>3. req' = posts' /\ posts' # 0 /\ ~Coming("data")' /\ ~Coming("close")'
      BY <1>1, <2>1, <3>1, <3>2 DEF Asking, Request, Msg
    <3>4. /\ rx' = <<>> /\ rxLen' = 0 /\ win' = RxCap /\ InFlight' = 0
          /\ ~Holds(toMe', "adjust")
      BY <1>1, <2>1, <3>1, <3>3 DEF Asking, InFlight
    <3>5. idx' = Len(rx') + 1
      BY <1>1, <3>4
    <3>6. Room(0, resp')
      BY <1>1 DEF OnTime, AnswersFit
    <3>7. Window(chan'.id, RxCap, toMe')
      <4>1. toMe' \in Seq(ToMeMessage)
        BY <1>1, Queues
      <4> QED BY <3>4, <4>1, WindowFull
    <3>8. rxLen' + InFlight' = 0 /\ win' + InFlight' = RxCap
      BY <3>4, ParameterAssumption
    <3> QED BY <3>2, <3>3, <3>5, <3>6, <3>7, <3>8 DEF Answering
  <2> QED BY <1>1, <2>2, <2>3, <2>4, <2>5 DEF Course, Serving
<1> QED BY <1>2, <1>3

LEMMA RespondCourse ==
  ASSUME TypeOK, CreditBalance, Ends, Course, MeRespond, UNCHANGED <<session, control>>
  PROVE  Course'
<1> DEFINE h == Head(resp)
           m == Chunk(req, idx, h)
<1>1. /\ resp \in Seq(Sizes) /\ resp # <<>> /\ req \in Nat /\ req # 0 /\ idx \in Nat
      /\ Says(m) /\ resp' = Tail(resp) /\ idx' = idx + 1 /\ win' = win - h
      /\ win \in Nat /\ rxLen \in Nat
      /\ UNCHANGED <<toMe, chan, req, conn, amt, active, rx, rxLen, pc, posts>>
  BY DEF TypeOK, SessionOK, MeOK, MeRespond, Says, session, control
<1>2. h \in Sizes /\ h \in Nat
  BY <1>1, Queues, SizesAre
<1>3. m \in ToHostMessage /\ m.t = "data" /\ m.a = req /\ m.b = idx /\ m.c = h
  BY <1>1, <1>2, ToHostMessages DEF Chunk, Msg
<1> HIDE DEF m
<1>4. /\ pc # "start" => Healthy
      /\ \A t : ~Coming(t)
      /\ \A t : Coming(t)' <=> m.t = t
      /\ Head(inbox') = m
  BY <1>1, <1>3, SaysHealthy
<1>5. Used' /\ Unused' /\ Collected' /\ Resting' = Resting
  BY HostKept
<1>6. ~Resting
  BY <1>1, <1>4 DEF Course, Idle, Resting
<1>7. ASSUME pc = "response" PROVE Answering' /\ NextUp'
  <2>1. Answering
    BY <1>1, <1>4, <1>7 DEF Course, Serving, Asking, Closing
  <2>2. InFlight = 0 /\ InFlight' = h
    BY <1>3, <1>4 DEF InFlight
  <2>3. rxLen + InFlight = rxLen /\ win + InFlight = win /\ win' + InFlight' = win
    BY <1>1, <1>2, <2>2
  <2>4. (h <= BufCap => rxLen + h <= RxCap) /\ Room(rxLen + h, Tail(resp))
    BY <1>1, <2>1, <2>3, RoomTail DEF Answering
  <2>5. idx = Len(rx) + 1 /\ Len(rx) \in Nat
    BY <1>4, <2>1, Queues DEF Answering, TypeOK, SessionOK
  <2>6. NextUp'
    BY <1>1, <1>3, <1>4, <2>1, <2>4, <2>5 DEF NextUp, Answering
  <2>7. Room(rxLen' + InFlight', resp') /\ Window(chan'.id, win' + InFlight', toMe')
    BY <1>1, <2>1, <2>2, <2>3, <2>4 DEF Answering
  <2>8. /\ req' = posts' /\ posts' # 0 /\ ~Holds(toMe', "data") /\ ~Coming("close")'
        /\ Coming("data")'
    BY <1>1, <1>3, <1>4, <2>1 DEF Answering
  <2>9. idx' = Len(rx') + 2
    BY <1>1, <2>5
  <2> QED BY <2>6, <2>7, <2>8, <2>9 DEF Answering
<1> QED BY <1>1, <1>5, <1>6, <1>7 DEF Course, Serving, NoData, NextUp

LEMMA CloseCourse ==
  ASSUME TypeOK, CreditBalance, Ends, Course, MeClose, UNCHANGED <<session, control>>
  PROVE  Course'
<1>1. /\ req # 0 /\ req' = 0 /\ Says(CloseMsg(chan.peer))
      /\ UNCHANGED <<toMe, idx, rx, pc>>
  BY DEF MeClose, session, control
<1>2. CloseMsg(chan.peer) \in ToHostMessage /\ CloseMsg(chan.peer).t = "close"
  BY ToHostMessages DEF TypeOK, MeOK, CloseMsg, Msg
<1>3. /\ pc # "start" => Healthy
      /\ \A t : ~Coming(t)
      /\ Coming("close")' /\ ~Coming("data")'
  BY <1>1, <1>2, SaysHealthy
<1>4. Used' /\ Unused' /\ Collected' /\ Resting' = Resting
  BY HostKept
<1>5. ~Resting
  BY <1>1, <1>3 DEF Course, Idle, Resting
<1>6. ASSUME pc = "response" PROVE Closing'
  <2>1. Answering
    BY <1>1, <1>3, <1>6 DEF Course, Serving, Asking, Closing
  <2> QED BY <1>1, <1>3, <2>1 DEF Answering, Closing
<1> QED BY <1>1, <1>3, <1>4, <1>5, <1>6 DEF Course, Serving, NoData, NextUp

LEMMA ConfirmCourse ==
  ASSUME TypeOK, CreditBalance, Ends, Course, NEW m, MeConfirm(m),
         UNCHANGED <<session, control>>
  PROVE  Course'
<1>1. /\ toMe \in Seq(ToMeMessage) /\ toMe # <<>> /\ m = Head(toMe)
      /\ toMe' = Tail(toMe) /\ m.t = "open" /\ win' = RxCap
      /\ UNCHANGED <<req, active, pc>>
  BY DEF TypeOK, LinkOK, MeConfirm, Takes, session, control
<1>2. PICK n \in AmtIds : Says(Confirm(m.a, n))
  BY Zenon DEF MeConfirm
<1>3. Confirm(m.a, n) \in ToHostMessage /\ Confirm(m.a, n).t = "confirm"
  <2>1. m.a \in Channels
    BY TakesType, ToMeFields DEF TypeOK, MeConfirm
  <2> QED BY <2>1, ParameterAssumption, ToHostMessages DEF Confirm, Msg
<1>4. /\ pc # "start" => Healthy
      /\ ~Coming("data")' /\ ~Coming("close")'
  BY <1>1, <1>2, <1>3, SaysHealthy
<1>5. Used' /\ Unused' /\ Collected' /\ Resting' = Resting
  BY HostKept
<1>6. Holds(toMe, "open") /\ \A t : Holds(toMe', t) => Holds(toMe, t)
  BY <1>1, HoldsTail
<1>7. pc # "start" => pc \in {"open", "failed"} /\ ~active
  BY <1>4, <1>6 DEF Ends, TwoEnds, OpenOut, Waiting, Healthy
<1>8. ASSUME Resting PROVE Idle'
  <2>1. pc = "open" /\ Idle
    BY <1>4, <1>7, <1>8 DEF Course, Resting
  <2> QED BY <1>1, <1>4, <1>6, <2>1 DEF Idle, Unspent
<1> QED BY <1>1, <1>4, <1>5, <1>7, <1>8 DEF Course, Serving, NoData, NextUp, Resting

LEMMA ClosedCourse ==
  ASSUME TypeOK, CreditBalance, Ends, Course, NEW m, MeClosed(m),
         UNCHANGED <<session, control>>
  PROVE  Course'
<1>1. /\ toMe \in Seq(ToMeMessage) /\ toMe # <<>> /\ m = Head(toMe)
      /\ toMe' = Tail(toMe) /\ m.t = "close" /\ conn
      /\ UNCHANGED <<active, pc>>
  BY DEF TypeOK, LinkOK, MeClosed, Takes, session, control
<1>2. Holds(toMe, "close") /\ \A t : Holds(toMe', t) => Holds(toMe, t)
  BY <1>1, HoldsTail
<1>3. Used' /\ Unused' /\ Collected' /\ Resting' = Resting
  BY HostKept
<1>4. CASE pc = "start"
  BY <1>1, <1>3, <1>4 DEF Course, NoData, NextUp, Resting, Healthy, Live
<1>5. CASE pc # "start"
  <2>1. ~active /\ chan.st # "open"
    BY <1>1, <1>2, <1>5 DEF Ends, TwoEnds, Quietly, Live
  <2>2. UNCHANGED <<inbox, conn, credit>>
    BY <2>1 DEF MeClosed, Quiet
  <2>3. /\ Healthy' <=> Healthy
        /\ \A t : Coming(t)' = Coming(t)
    BY <1>1, <2>2 DEF Healthy, Live, Coming
  <2>4. NoData' /\ NextUp'
    BY <1>3, <2>2, <2>3 DEF Course, NoData, NextUp, session, control
  <2>5. chan'.st # "open" /\ (req = 0 => req' = 0)
    BY <2>1 DEF MeClosed, NoChan
  <2>6. Idle => Idle'
    BY <1>1, <1>2, <2>1, <2>3, <2>5 DEF Idle, Unspent
  <2>7. pc # "response"
    BY <2>1 DEF Course, Used
  <2> QED BY <1>1, <1>3, <2>3, <2>4, <2>6, <2>7 DEF Course, Serving
<1> QED BY <1>4, <1>5

LEMMA MeStepCourse ==
  ASSUME TypeOK, CreditBalance, Intact, Ends, Course, OnTime, MeStep
  PROVE  Course'
<1>1. UNCHANGED <<session, control>>
  BY DEF MeStep
<1>2. CASE MeInit
  <2>1. /\ script \in Seq(InitMessage) /\ script # <<>> /\ Says(Head(script))
        /\ UNCHANGED <<toMe, win, conn, chan, req, resp, idx>>
    BY <1>2 DEF TypeOK, MeOK, MeInit, Says
  <2>2. Head(script) \in InitMessage
    BY <2>1, Queues
  <2>3. Head(script) \in ToHostMessage
    BY <2>2, ToHostMessages
  <2>4. Head(script).t \notin {"data", "close"}
    BY <2>2 DEF InitMessage
  <2> QED BY <1>1, <2>1, <2>3, <2>4, PlainCourse
<1>3. CASE MeRespond
  BY <1>1, <1>3, RespondCourse
<1>4. CASE MeClose
  BY <1>1, <1>4, CloseCourse
<1>5. CASE MeReads
  <2>1. PICK m : \/ MeVersion(m) \/ MeGranted(m) \/ MeConfirm(m) \/ MeRefuse(m)
                 \/ MeRequest(m) \/ MeAdjust(m) \/ MeClosed(m) \/ MeIgnores(m)
    BY <1>5, Zenon DEF MeReads
  <2>2. CASE MeVersion(m) \/ MeGranted(m)
    <3>1. /\ toMe # <<>> /\ toMe' = Tail(toMe) /\ m = Head(toMe)
          /\ m.t \in {"version", "success"}
          /\ UNCHANGED <<inbox, credit, win, conn, chan, req, resp, idx>>
      BY <2>2 DEF MeVersion, MeGranted, Takes, Quiet, Pv, Msg
    <3>2. win' = win + Gives(chan.id, m)
      BY <3>1 DEF Gives, TypeOK, MeOK
    <3> QED BY <1>1, <3>1, <3>2, PlainCourse
  <2>3. CASE MeConfirm(m)
    BY <1>1, <2>3, ConfirmCourse
  <2>4. CASE MeRefuse(m)
    <3>1. /\ toMe # <<>> /\ toMe' = Tail(toMe) /\ m = Head(toMe) /\ m.t = "open"
          /\ Says(Failure(m.a)) /\ m.a \in Channels
          /\ UNCHANGED <<win, conn, chan, req, resp, idx>>
      BY <2>4, TakesType, ToMeFields DEF TypeOK, MeRefuse, Takes, Says, me
    <3>2. Failure(m.a) \in ToHostMessage /\ Failure(m.a).t = "failure"
      BY <3>1, ToHostMessages DEF Failure, Msg
    <3>3. win' = win + Gives(chan.id, m)
      BY <3>1 DEF Gives, TypeOK, MeOK
    <3> QED BY <1>1, <3>1, <3>2, <3>3, PlainCourse
  <2>5. CASE MeRequest(m)
    BY <1>1, <2>5, RequestCourse
  <2>6. CASE MeAdjust(m)
    <3>1. /\ toMe # <<>> /\ toMe' = Tail(toMe) /\ m = Head(toMe) /\ m.t = "adjust"
          /\ UNCHANGED <<inbox, credit, conn, chan, req, resp, idx>>
          /\ win' = IF chan.st # "none" /\ chan.id = m.a THEN win + m.b ELSE win
      BY <2>6 DEF MeAdjust, Takes, Quiet
    <3>2. chan.st # "none" => win' = win + Gives(chan.id, m)
      BY <3>1 DEF Gives, TypeOK, MeOK
    <3> QED BY <1>1, <3>1, <3>2, PlainCourse
  <2>7. CASE MeClosed(m)
    BY <1>1, <2>7, ClosedCourse
  <2>8. CASE MeIgnores(m)
    <3>1. /\ toMe \in Seq(ToMeMessage) /\ toMe # <<>> /\ toMe' = Tail(toMe)
          /\ m = Head(toMe)
          /\ UNCHANGED <<inbox, credit, win, conn, chan, req, resp, idx>>
      BY <2>8 DEF TypeOK, LinkOK, MeIgnores, Takes, Quiet, me
    <3>2. CASE ~conn
      BY <1>1, <3>1, <3>2, IdleCourse DEF Healthy, Live
    <3>3. CASE pc \in {"failed", "start"}
      BY <1>1, <3>1, <3>3 DEF Course, Used, Unused, Collected, NoData, NextUp,
                              Resting, Serving, session, control
    <3>4. CASE m.t \in {"accept", "keepalive_reply", "disconnect_resp"}
      <4>1. win' = win + Gives(chan.id, m)
        BY <3>1, <3>4 DEF Gives, TypeOK, MeOK
      <4> QED BY <1>1, <3>1, <3>4, <4>1, PlainCourse
    <3>5. CASE m.t = "data" /\ ~Served(m) /\ pc \notin {"failed", "start"}
      <4>1. Holds(toMe, "data")
        BY <3>1, <3>5, HoldsTail
      <4>2. ~Healthy
        <5> SUFFICES ASSUME Healthy PROVE FALSE
          OBVIOUS
        <5>1. pc = "response" /\ Asking
          BY <3>5, <4>1 DEF Course, Idle, Resting, Serving, Answering, Closing
        <5>2. m = Request(amt, posts)
          BY <3>1, <3>5, <5>1, LoneTail DEF Asking
        <5>3. chan = [st |-> "open", peer |-> our, id |-> amt]
          BY <5>1 DEF Course, Used, Ends, TwoEnds, Agreed, Closes, Intact, Healthy, Asking
        <5> QED BY <3>5, <5>1, <5>2, <5>3 DEF Served, Asking, Request, Msg
      <4> QED BY <1>1, <3>1, <4>2, IdleCourse DEF Healthy, Live, control
    <3> QED BY <2>8, <3>2, <3>3, <3>4, <3>5 DEF MeIgnores
  <2> QED BY <2>1, <2>2, <2>3, <2>4, <2>5, <2>6, <2>7, <2>8
<1> QED BY <1>2, <1>3, <1>4, <1>5 DEF MeStep

(* process_apf on data, and on anything else.                              *)
LEMMA ProcessData ==
  ASSUME NEW m, Process(m)
  PROVE  /\ m.t # "data" => UNCHANGED <<rx, rxLen>>
         /\ m.t = "data" /\ Fits(m) =>
              /\ rx' = Append(rx, m) /\ rxLen' = rxLen + m.c
              /\ Put(Adjust(amt, m.c))
         /\ m.t = "data" /\ ~Fits(m) => UNCHANGED <<rx, rxLen, toMe>>
<1> USE DEF NoReply
<1>1. CASE m.t \in {"version", "failure", "adjust", "confirm", "service", "keepalive"}
  BY <1>1 DEF Process, session
<1>2. CASE m.t \in {"close", "forward"}
  BY <1>2 DEF Process
<1>3. CASE m.t = "data"
  BY <1>3 DEF Process, session
<1> QED BY <1>1, <1>2, <1>3 DEF Process

LEMMA ProcessOther ==
  ASSUME TypeOK, NEW m \in ToHostMessage, Process(m), m.t # "data"
  PROVE  \/ toMe' = toMe
         \/ \E e \in ToMeMessage :
              toMe' = Append(toMe, e) /\ e.t \notin {"open", "data", "adjust"}
<1>1. ASSUME NEW e \in ToMeMessage, Put(e)
      PROVE  toMe' = toMe \/ toMe' = Append(toMe, e)
  BY <1>1, PutSends
<1>2. amt \in Nat
  BY DEF TypeOK, SessionOK
<1>3. /\ Accept \in ToMeMessage /\ Accept.t = "accept"
      /\ KeepReply \in ToMeMessage /\ KeepReply.t = "keepalive_reply"
      /\ CloseMsg(amt) \in ToMeMessage /\ CloseMsg(amt).t = "close"
  BY <1>2, ToMeMessages DEF Accept, KeepReply, CloseMsg, Msg
<1>4. CASE m.t \in {"version", "failure", "adjust", "confirm"}
  BY <1>4 DEF Process, NoReply
<1>5. CASE m.t = "close"
  BY <1>1, <1>3, <1>5 DEF Process, NoReply
<1>6. CASE m.t = "service"
  BY <1>1, <1>3, <1>6 DEF Process, NoReply
<1>7. CASE m.t = "forward"
  <2>1. Success(m.a) \in ToMeMessage /\ Success(m.a).t = "success"
    BY <1>7, ToHostFields, ToMeMessages DEF Success, Msg
  <2> QED BY <1>1, <1>7, <2>1 DEF Process, Grant, NoReply
<1>8. CASE m.t = "keepalive"
  BY <1>1, <1>3, <1>8 DEF Process
<1> QED BY <1>4, <1>5, <1>6, <1>7, <1>8 DEF ToHostMessage

(* How the loops go on, with what they leave alone.                        *)
LEMMA LoopGoesOn ==
  ASSUME HostMessage
  PROVE  \E m :
           /\ Received(m) /\ Process(m) /\ Onward(m) /\ UNCHANGED <<ctx, posts>>
           /\ pc = "open" /\ pc' = "ready" => ctx # "reopen"
           /\ pc = "response" /\ pc' # "response" => m.t = "close" \/ attempt' = RecvTries
           /\ pc = "response" /\ m.t = "close" => pc' # "response"
<1>1. PICK m : HandshakeMessage(m) \/ OpenMessage(m) \/ ResponseMessage(m)
  BY Zenon DEF HostMessage
<1>2. Received(m) /\ Process(m) /\ UNCHANGED <<ctx, posts>>
  BY <1>1, Zenon DEF HandshakeMessage, OpenMessage, ResponseMessage
<1>3. Onward(m)
  BY <1>1 DEF HandshakeMessage, OpenMessage, ResponseMessage, Onward,
     LeaveHandshake, StayInHandshake, LeaveReceive
<1>4. pc = "open" /\ pc' = "ready" => ctx # "reopen"
  BY <1>1 DEF HandshakeMessage, OpenMessage, ResponseMessage
<1>5. /\ pc = "response" /\ pc' # "response" => m.t = "close" \/ attempt' = RecvTries
      /\ pc = "response" /\ m.t = "close" => pc' # "response"
  BY <1>1 DEF HandshakeMessage, OpenMessage, ResponseMessage, EndsResponse,
     LeaveReceive
<1> QED BY <1>2, <1>3, <1>4, <1>5

(* A chunk: the ME has sent one more, and gets its window back.            *)
LEMMA ChunkAnswers ==
  ASSUME TypeOK, Intact, Ends, Course, OnTime, Healthy, pc = "response",
         NEW m \in ToHostMessage, m.t = "data", m = Head(inbox), inbox # <<>>,
         m.c <= BufCap, Process(m), \A t : ~Coming(t)',
         UNCHANGED <<chan, req, resp, idx, win, posts>>
  PROVE  Answering' /\ Prefix'
<1>1. Coming("data") /\ Answering /\ active
  BY DEF Coming, Course, Used, Serving, Asking, Closing
<1>2. /\ m.c \in Nat /\ rxLen \in Nat /\ win \in Nat /\ amt \in Nat
      /\ rx \in Seq(ToHostMessage) /\ toMe \in Seq(ToMeMessage)
  BY ToHostFields DEF TypeOK, SessionOK, LinkOK, MeOK
<1>3. /\ Fits(m) /\ m.a = posts /\ m.b = Len(rx) + 1
  BY <1>1 DEF Course, NextUp, Fits
<1>4. chan.id = amt
  BY <1>1 DEF Ends, TwoEnds, Agreed, Healthy, Answering
<1>5. /\ rx' = Append(rx, m) /\ rxLen' = rxLen + m.c
      /\ toMe' = Append(toMe, Adjust(amt, m.c))
  <2>1. rx' = Append(rx, m) /\ rxLen' = rxLen + m.c /\ Put(Adjust(amt, m.c))
    BY <1>3, ProcessData
  <2>2. up
    BY DEF Healthy, Live, TypeOK, LinkOK
  <2> QED BY <2>1, <2>2, SentIntact
<1>6. /\ Adjust(amt, m.c) \in ToMeMessage /\ Adjust(amt, m.c).t = "adjust"
      /\ Gives(chan.id, Adjust(amt, m.c)) = m.c
  BY <1>2, <1>4, ToMeMessages DEF Adjust, Msg, Gives
<1>7. InFlight = m.c /\ InFlight' = 0
  BY <1>1 DEF InFlight
<1>8. Room(rxLen' + InFlight', resp')
  <2>1. rxLen' + InFlight' = rxLen + InFlight
    BY <1>2, <1>5, <1>7
  <2> QED BY <1>1, <2>1 DEF Answering
<1>9. Window(chan'.id, win' + InFlight', toMe')
  <2>1. win + InFlight = win + Gives(chan.id, Adjust(amt, m.c)) /\ win' + InFlight' = win
    BY <1>2, <1>6, <1>7
  <2>2. Window(chan.id, win + Gives(chan.id, Adjust(amt, m.c)), toMe)
    BY <1>1, <2>1 DEF Answering
  <2>3. win \in Int
    BY <1>2
  <2> QED BY <1>2, <1>5, <1>6, <2>1, <2>2, <2>3, WindowAppend
<1>10. ~Holds(toMe', "data")
  BY <1>1, <1>2, <1>5, <1>6, HoldsAppend DEF Answering
<1>11. Len(rx) \in Nat /\ Len(rx') = Len(rx) + 1
  BY <1>2, <1>5, Queues
<1>12. idx' = Len(rx') + 1
  BY <1>1, <1>11 DEF Answering
<1>13. Prefix'
  <2> SUFFICES ASSUME NEW i \in 1 .. Len(rx') PROVE rx'[i].a = posts /\ rx'[i].b = i
    BY DEF Prefix
  <2>1. rx'[Len(rx) + 1] = m /\ \A j \in 1 .. Len(rx) : rx'[j] = rx[j]
    BY <1>2, <1>5, QueueOrder
  <2>2. Prefix
    BY DEF Course, Collected
  <2>3. i \in 1 .. Len(rx) \/ i = Len(rx) + 1
    BY <1>11
  <2> QED BY <1>3, <2>1, <2>2, <2>3 DEF Prefix
<1> QED BY <1>1, <1>8, <1>9, <1>10, <1>12, <1>13 DEF Answering

(* Any other message but a close.                                          *)
LEMMA OtherAnswers ==
  ASSUME TypeOK, Course, Healthy, pc = "response",
         NEW m \in ToHostMessage, m.t \notin {"data", "close", "confirm"},
         m = Head(inbox), inbox # <<>>, Process(m), \A t : ~Coming(t)',
         UNCHANGED <<chan, req, resp, idx, win, posts>>
  PROVE  Asking' \/ Answering'
<1>1. UNCHANGED <<amt, rx, rxLen>>
  BY ProcessChannel, ProcessData
<1>2. ~Coming("data") /\ ~Coming("close")
  BY DEF Coming
<1>3. toMe \in Seq(ToMeMessage) /\ win \in Nat
  BY DEF TypeOK, LinkOK, MeOK
<1>4. CASE toMe' = toMe
  BY <1>1, <1>2, <1>4 DEF Course, Serving, Asking, Answering, Closing, InFlight
<1>5. ASSUME NEW e \in ToMeMessage, toMe' = Append(toMe, e),
             e.t \notin {"open", "data", "adjust"}
      PROVE  Asking' \/ Answering'
  <2>1. Holds(toMe', "adjust") => Holds(toMe, "adjust")
    BY <1>3, <1>5, HoldsAppend
  <2>2. Holds(toMe', "data") => Holds(toMe, "data")
    BY <1>3, <1>5, HoldsAppend
  <2>3. CASE Asking
    <3>1. Lone(toMe', Request(amt, posts))
      BY <1>3, <1>5, <2>3, LoneAppend DEF Asking
    <3> QED BY <1>1, <2>1, <2>3, <3>1 DEF Asking, Request
  <2>4. CASE Answering
    <3>1. InFlight = 0 /\ InFlight' = 0
      BY <1>2 DEF InFlight
    <3>2. win \in Int /\ win + 0 = win /\ Gives(chan.id, e) = 0
      BY <1>3, <1>5, GivesType
    <3>3. Window(chan.id, win + Gives(chan.id, e), toMe)
      BY <2>4, <3>1, <3>2 DEF Answering
    <3>4. Window(chan.id, win, toMe')
      BY <1>3, <1>5, <3>2, <3>3, WindowAppend
    <3> QED BY <1>1, <1>2, <2>2, <2>4, <3>1, <3>2, <3>4 DEF Answering
  <2> QED BY <1>2, <2>3, <2>4 DEF Course, Serving, Closing
<1> QED BY <1>4, <1>5, ProcessOther

LEMMA MessageCourse ==
  ASSUME TypeOK, CreditBalance, Intact, Ends, Course, OnTime, Patience, HostMessage
  PROVE  Course'
<1>1. PICK m :
        /\ Received(m) /\ Process(m) /\ Onward(m) /\ UNCHANGED <<ctx, posts>>
        /\ pc = "open" /\ pc' = "ready" => ctx # "reopen"
        /\ pc = "response" /\ pc' # "response" => m.t = "close" \/ attempt' = RecvTries
        /\ pc = "response" /\ m.t = "close" => pc' # "response"
  BY LoopGoesOn
<1>2. /\ inbox \in Seq(ToHostMessage) /\ inbox # <<>> /\ m = Head(inbox)
      /\ inbox' = Tail(inbox) /\ toMe \in Seq(ToMeMessage) /\ m.c <= BufCap
      /\ UNCHANGED <<conn, disc, chan, req, resp, idx, win>>
  BY <1>1 DEF TypeOK, LinkOK, Received, me
<1>3. m \in ToHostMessage /\ Coming(m.t)
  BY <1>2, Queues DEF Coming
<1>4. \A t : ~Coming(t)'
  BY <1>2, Emptied DEF Ends
<1>5. pc \in {"handshake", "open", "response"}
  BY <1>1 DEF Onward
<1>6. /\ pc \in {"handshake", "open"} => m.t # "data"
      /\ m.t = "confirm" => pc = "open"
  BY <1>1, <1>3, <1>5 DEF Course, NoData, Resting, Ends, Awaited, Waiting, Onward
<1>7. /\ m.t # "data" => UNCHANGED <<rx, rxLen>>
      /\ m.t = "confirm" => active'
      /\ m.t = "close" => ~active'
      /\ m.t \notin {"confirm", "close"} => active' = active
  BY <1>1, ProcessChannel, ProcessData
<1>8. pc = "response" /\ pc' \in {"response", "ready"} =>
        IF pc' = "ready" THEN m.t = "close" ELSE m.t # "close"
  <2> SUFFICES ASSUME pc = "response", pc' = "ready", m.t # "close" PROVE FALSE
    BY <1>1
  <2>1. attempt' = RecvTries
    BY <1>1
  <2>2. m.t \notin {"confirm", "close"} /\ active
    BY <1>6 DEF Course, Used
  <2>3. active'
    BY <1>7, <2>2
  <2> QED BY <2>1, <2>3, ParameterAssumption DEF Patience
<1>9. Used'
  BY <1>1, <1>5, <1>6, <1>7, <1>8 DEF Course, Used, Onward
<1>10. Unused'
  BY <1>1, <1>6, <1>7 DEF Course, Unused, Onward
<1>11. ~Healthy => ~Healthy'
  <2>1. Len(inbox) \in Nat /\ Len(inbox) >= 1 /\ credit \in Nat
    BY <1>2, Queues, QueueOrder DEF TypeOK, LinkOK
  <2>2. conn => credit + Len(inbox) = 1
    BY <2>1 DEF CreditBalance
  <2> QED BY <1>2, <1>5, <2>2 DEF Healthy, Live
<1>12. Collected'
  <2>1. CASE pc = "open" /\ pc' = "ready"
    BY <1>1, <1>6, <1>7, <2>1 DEF Course, Unused, Collected, Prefix
  <2>2. CASE pc = "response" /\ m.t # "data"
    BY <1>1, <1>7, <2>2 DEF Course, Collected, Prefix
  <2>3. CASE pc = "response" /\ m.t = "data"
    <3>1. Fits(m) /\ m.a = posts /\ m.b = Len(rx) + 1 /\ Prefix
      BY <1>2, <1>3, <2>3 DEF Course, NextUp, Collected, Fits
    <3>2. rx' = Append(rx, m) /\ rx \in Seq(ToHostMessage)
      BY <1>1, <2>3, <3>1, ProcessData DEF TypeOK, SessionOK
    <3>3. /\ Len(rx) \in Nat /\ Len(rx') = Len(rx) + 1 /\ rx'[Len(rx) + 1] = m
          /\ \A j \in 1 .. Len(rx) : rx'[j] = rx[j]
      BY <1>3, <3>2, Queues, QueueOrder
    <3>4. Prefix'
      <4> SUFFICES ASSUME NEW i \in 1 .. Len(rx')
                   PROVE  rx'[i].a = posts /\ rx'[i].b = i
        BY <1>1 DEF Prefix
      <4>1. i \in 1 .. Len(rx) \/ i = Len(rx) + 1
        BY <3>3
      <4> QED BY <3>1, <3>3, <4>1 DEF Prefix
    <3> QED BY <3>4 DEF Collected
  <2>4. CASE pc' \notin {"response", "ready"}
    BY <2>4 DEF Collected
  <2> QED BY <1>1, <2>1, <2>2, <2>3, <2>4 DEF Onward
<1>13. NoData' /\ NextUp'
  BY <1>4 DEF NoData, NextUp
<1>14. m.t # "data" => /\ Holds(toMe', "data") => Holds(toMe, "data")
                       /\ Holds(toMe', "adjust") => Holds(toMe, "adjust")
  <2> SUFFICES ASSUME m.t # "data"
               PROVE  /\ Holds(toMe', "data") => Holds(toMe, "data")
                      /\ Holds(toMe', "adjust") => Holds(toMe, "adjust")
    OBVIOUS
  <2>1. ASSUME NEW e \in ToMeMessage, toMe' = Append(toMe, e), NEW t
        PROVE  Holds(toMe', t) <=> Holds(toMe, t) \/ e.t = t
    BY <1>2, <2>1, HoldsAppend
  <2> QED BY <1>1, <1>3, <2>1, ProcessOther
<1>15. ASSUME Healthy, Resting' PROVE Idle'
  <2>1. CASE pc \in {"handshake", "open"}
    <3>1. Idle /\ Unspent
      BY <1>15, <2>1 DEF Course, Resting, Idle
    <3> QED BY <1>2, <1>4, <1>6, <1>14, <2>1, <3>1 DEF Idle, Unspent
  <2>2. CASE pc = "response"
    <3>1. pc' = "ready" /\ m.t = "close"
      BY <1>1, <1>8, <1>15, <2>2 DEF Resting, Onward
    <3>2. Closing
      BY <1>2, <1>3, <1>15, <2>2, <3>1 DEF Course, Serving, Asking, Answering
    <3> QED BY <1>2, <1>4, <1>7, <1>14, <3>1, <3>2 DEF Idle, Closing
  <2> QED BY <1>5, <2>1, <2>2
<1>16. ASSUME Healthy, pc' = "response" PROVE Asking' \/ Answering'
  <2>1. pc = "response" /\ m.t \notin {"close", "confirm"}
    BY <1>1, <1>6, <1>8, <1>16 DEF Onward
  <2>2. CASE m.t = "data"
    BY <1>1, <1>2, <1>3, <1>4, <1>16, <2>1, <2>2, ChunkAnswers
  <2>3. CASE m.t # "data"
    BY <1>1, <1>2, <1>3, <1>4, <1>16, <2>1, <2>3, OtherAnswers
  <2> QED BY <2>2, <2>3
<1> QED BY <1>9, <1>10, <1>11, <1>12, <1>13, <1>15, <1>16 DEF Course, Serving

(* While the ME is healthy and has not finished its answer, it can go on.  *)
LEMMA ServingIsBusy ==
  ASSUME TypeOK, Course, Healthy, pc = "response", inbox = <<>>
  PROVE  Busy
<1>1. /\ up /\ conn /\ credit > 0
  <2>1. credit + 0 = 1 /\ credit \in Nat
    BY EmptySeq DEF Healthy, TypeOK, LinkOK
  <2> QED BY <2>1 DEF Healthy, Live, TypeOK, LinkOK
<1> SUFFICES ASSUME toMe = <<>> PROVE CanAnswer
  BY <1>1 DEF Busy
<1>2. ~Holds(toMe, "data") /\ \A t : ~Coming(t)
  BY EmptySeq DEF Holds, Coming
<1>3. Answering /\ req # 0
  BY <1>2 DEF Course, Serving, Asking, Answering, Closing, Lone
<1>4. /\ InFlight = 0 /\ win \in Nat /\ rxLen \in Nat /\ resp \in Seq(Sizes)
  BY <1>2 DEF InFlight, TypeOK, SessionOK, MeOK
<1>5. win = RxCap
  <2>1. win + 0 = win /\ Window(chan.id, win + 0, <<>>)
    BY <1>3, <1>4 DEF Answering
  <2> QED BY <2>1, WindowEmpty
<1>6. CASE resp = <<>>
  BY <1>1, <1>3, <1>6 DEF CanAnswer
<1>7. CASE resp # <<>>
  <2>1. rxLen + 0 = rxLen /\ Room(rxLen + 0, resp)
    BY <1>3, <1>4 DEF Answering
  <2>2. Head(resp) <= RxCap
    BY <1>4, <1>7, <2>1, RoomTail
  <2> QED BY <1>1, <1>5, <1>7, <2>2 DEF CanAnswer
<1> QED BY <1>6, <1>7

LEMMA SilenceCourse ==
  ASSUME TypeOK, CreditBalance, Ends, Course, OnTime, RecvError,
         UNCHANGED <<session, posts>>,
         \/ pc = "handshake" /\ pc' \in {"handshake", "tryopen", "failed"} /\ ctx' = ctx
         \/ pc = "open" /\ pc' = "failed"
         \/ pc = "open" /\ pc' = "reconnect" /\ Aborted /\ ctx = "init"
         \/ pc = "response" /\ pc' \in {"ready", "failed"}
  PROVE  Course'
<1>1. /\ pc # "start" /\ UNCHANGED <<active, rx, rxLen, conn, chan, req, win>>
  BY DEF RecvError, Aborted, ReadError, TimedOut, Oversize, link, me, session
<1>2. Used' /\ Unused' /\ Collected'
  BY <1>1 DEF Course, Used, Unused, Collected, Prefix
<1>3. pc' # "response"
  OBVIOUS
<1>4. CASE Oversize
  <2>1. /\ inbox \in Seq(ToHostMessage) /\ inbox # <<>> /\ inbox' = Tail(inbox)
        /\ credit' = credit /\ credit \in Nat
    BY <1>4 DEF TypeOK, LinkOK, Oversize
  <2>2. \A t : ~Coming(t)'
    BY <2>1, Emptied DEF Ends
  <2>3. ~Healthy'
    <3>1. /\ Len(inbox) \in Nat /\ Len(inbox) >= 1 /\ Len(inbox') = Len(inbox) - 1
      BY <2>1, Queues, QueueOrder
    <3>2. conn => credit + Len(inbox) <= 1
      BY DEF CreditBalance
    <3> QED BY <1>1, <2>1, <3>1, <3>2 DEF Healthy, Live
  <2> QED BY <1>2, <2>2, <2>3 DEF Course, NoData, NextUp
<1>5. CASE Aborted
  <2>1. inbox' = <<>> /\ ~conn
    BY <1>5 DEF Aborted, Ends, Severed
  <2> QED BY <1>1, <1>2, <2>1 DEF Course, NoData, NextUp, Healthy, Live, Coming
<1>6. CASE TimedOut
  <2>1. inbox = <<>> /\ UNCHANGED <<inbox, credit, toMe>> /\ ~Busy /\ ~Aborted
    BY <1>6 DEF TimedOut, Aborted, OnTime
  <2>2. \A t : ~Coming(t)'
    BY <2>1 DEF Coming
  <2>3. ASSUME Healthy' PROVE Resting' => Idle'
    <3>1. Healthy
      BY <1>1, <2>1, <2>3 DEF Healthy, Live
    <3>2. pc # "response"
      BY <2>1, <3>1, ServingIsBusy
    <3>3. Resting' => pc = "handshake" /\ pc' \in {"handshake", "tryopen"}
      BY <2>1, <3>2 DEF Resting
    <3>4. pc = "handshake" => Idle /\ Unspent
      BY <3>1 DEF Course, Resting, Idle
    <3> QED BY <1>1, <2>1, <2>2, <3>3, <3>4 DEF Idle, Unspent
  <2> QED BY <1>2, <1>3, <2>2, <2>3 DEF Course, NoData, NextUp, Serving
<1> QED BY <1>4, <1>5, <1>6 DEF RecvError, ReadError, OnTime

LEMMA OpenCourse ==
  ASSUME TypeOK, Course, SendOpen
  PROVE  Course'
<1>1. /\ toMe \in Seq(ToMeMessage) /\ pc = "tryopen" /\ pc' \in {"open", "failed"}
      /\ toMe' = toMe \/ toMe' = Append(toMe, Open(our'))
      /\ UNCHANGED <<active, rx, rxLen, ctx, inbox, conn, credit, chan, req, win>>
  <2>1. Put(Open(our'))
    BY Zenon DEF SendOpen, Put
  <2> QED BY <2>1, PutSends DEF TypeOK, LinkOK, SendOpen, me
<1>2. Open(our') \in ToMeMessage /\ Open(our').t = "open"
  <2>1. our' \in Channels
    BY NextChannelIs DEF TypeOK, SessionOK, SendOpen
  <2> QED BY <2>1, ToMeMessages DEF Open, Msg
<1>3. \A t : Coming(t)' = Coming(t)
  BY <1>1 DEF Coming
<1>4. Used' /\ Unused' /\ Collected' /\ NoData' /\ NextUp' /\ Serving'
  BY <1>1, <1>3 DEF Course, Used, Unused, Collected, NoData, Resting, NextUp, Serving
<1>5. ASSUME Healthy', Resting' PROVE Idle'
  <2>1. Idle /\ Unspent
    BY <1>1, <1>5 DEF Course, Resting, Healthy, Live, Idle
  <2>2. \A t : t # "open" => (Holds(toMe', t) <=> Holds(toMe, t))
    <3>1. CASE toMe' = Append(toMe, Open(our'))
      BY <1>1, <1>2, <3>1, HoldsAppend
    <3> QED BY <1>1, <3>1
  <2>3. (~Holds(toMe, "data"))' /\ (~Holds(toMe, "adjust"))'
    BY <2>1, <2>2 DEF Idle, Unspent
  <2> QED BY <1>1, <1>3, <2>1, <2>3 DEF Idle, Unspent
<1> QED BY <1>4, <1>5 DEF Course

LEMMA SendCourse ==
  ASSUME TypeOK, Intact, Ends, Course, OnTime, Send
  PROVE  Course'
<1>1. /\ pc = "send" /\ pc' \in {"response", "failed"} /\ posts' = posts + 1
      /\ UNCHANGED <<amt, active, ctx, inbox, conn, credit, chan, req, win>>
      /\ pc' = "response" =>
           rx' = <<>> /\ rxLen' = 0 /\ toMe' = Append(toMe, Request(amt, posts'))
  BY SentIntact DEF Send, ClearRx, me
<1>2. /\ toMe \in Seq(ToMeMessage) /\ posts' \in Nat /\ posts' # 0 /\ amt \in Nat
  BY <1>1 DEF TypeOK, LinkOK, SessionOK, ControlOK
<1>3. Request(amt, posts') \in ToMeMessage /\ Request(amt, posts').t = "data"
  BY <1>2, ToMeMessages DEF Request, Msg
<1>4. active /\ \A t : Coming(t)' = Coming(t)
  BY <1>1 DEF Course, Used, Coming
<1>5. ~Coming("data") /\ ~Coming("data")'
  BY <1>1, <1>4 DEF Course, NoData, Resting
<1>6. Used' /\ Unused' /\ NoData' /\ NextUp' /\ ~Resting'
  BY <1>1, <1>4, <1>5 DEF Used, Unused, NoData, NextUp, Resting
<1>7. Collected'
  <2> SUFFICES ASSUME pc' = "response" PROVE Prefix'
    BY <1>1 DEF Collected
  <2>1. rx' = <<>> /\ Len(rx') = 0
    BY <1>1, EmptySeq
  <2> QED BY <2>1 DEF Prefix
<1>8. ASSUME Healthy', pc' = "response" PROVE Asking'
  <2>1. Healthy /\ Live
    BY <1>1, <1>8 DEF Healthy, Live
  <2>2. Idle /\ Unspent /\ ~Coming("close")
    BY <1>1, <1>4, <2>1 DEF Course, Resting, Idle
  <2>3. chan.st = "open"
    BY <1>4, <2>1, <2>2 DEF Ends, TwoEnds, Agreed, Closes, Intact
  <2>4. Lone(toMe', Request(amt, posts'))
    BY <1>1, <1>2, <1>3, <1>8, <2>2, LoneAppend DEF Idle
  <2>5. ~Holds(toMe', "adjust")
    BY <1>1, <1>2, <1>3, <1>8, <2>2, HoldsAppend DEF Unspent
  <2>6. req' = 0 /\ win' = RxCap
    BY <1>1, <2>2, <2>3 DEF Idle, Unspent
  <2>7. Lone(toMe, Request(amt, posts))' /\ (~Holds(toMe, "adjust"))'
    BY <1>1, <2>4, <2>5 DEF Request, Msg
  <2> QED BY <1>1, <1>2, <1>4, <1>5, <1>8, <2>2, <2>6, <2>7 DEF Asking
<1> QED BY <1>6, <1>7, <1>8 DEF Course, Serving

LEMMA ConnectCourse ==
  ASSUME Course, Starts, Connect \/ ConnectFails
  PROVE  Course'
<1>1. /\ inbox' = <<>> /\ active' = FALSE /\ chan' = NoChan /\ req' = 0
      /\ pc' \in {"handshake", "failed"}
  BY DEF Connect, ConnectFails, ResetSession, ResetLink
<1>2. /\ pc = "start" => rx' = <<>>
      /\ pc = "reconnect" => UNCHANGED <<rx, ctx>>
  BY DEF Connect, ConnectFails, Fresh
<1>3. \A t : ~Coming(t)'
  BY <1>1 DEF Coming
<1>4. Used' /\ Unused' /\ Collected' /\ NoData' /\ NextUp' /\ Serving'
  BY <1>1, <1>2, <1>3 DEF Course, Starts, Used, Unused, Collected, NoData, NextUp, Serving
<1>5. ASSUME Healthy' PROVE Idle'
  <2>1. toMe' = <<Pv>> /\ Pv.t = "version"
    BY <1>5 DEF Healthy, Live, Connect, ConnectFails, Pv, Msg
  <2>2. \A t : Holds(toMe', t) => t = "version"
    BY <2>1 DEF Holds
  <2>3. (~Holds(toMe, "data"))' /\ (~Holds(toMe, "adjust"))'
    BY <2>2
  <2> QED BY <1>1, <1>3, <2>3 DEF Idle, Unspent, NoChan
<1> QED BY <1>4, <1>5 DEF Course

LEMMA NextCourse ==
  ASSUME TypeOK, CreditBalance, Intact, Ends, Course, OnTime, [Next]_vars,
         [Patience]_vars
  PROVE  Course'
<1>1. CASE UNCHANGED vars
  BY <1>1 DEF Course, Used, Unused, Collected, NoData, NextUp, Healthy, Live, Resting,
     Idle, Unspent, Serving, Asking, Answering, Closing, Prefix, InFlight, Coming,
     vars, session, control, link, me
<1>2. CASE HostMessage
  <2>1. inbox \in Seq(ToHostMessage) /\ inbox # <<>> /\ inbox' = Tail(inbox)
    BY <1>2, LoopGoesOn DEF TypeOK, LinkOK, Received
  <2>2. Len(inbox') # Len(inbox)
    BY <2>1, Queues
  <2>3. Patience
    BY <2>2 DEF vars, link
  <2> QED BY <1>2, <2>3, MessageCourse
<1>3. CASE HandshakeSilence \/ OpenError \/ ResponseError
  <2>1. RecvError /\ UNCHANGED <<session, posts>>
    BY <1>3 DEF HandshakeSilence, OpenError, ResponseError, RecvError
  <2>2. \/ pc = "handshake" /\ pc' \in {"handshake", "tryopen", "failed"} /\ ctx' = ctx
        \/ pc = "open" /\ pc' = "failed"
        \/ pc = "open" /\ pc' = "reconnect" /\ Aborted /\ ctx = "init"
        \/ pc = "response" /\ pc' \in {"ready", "failed"}
    BY <1>3 DEF HandshakeSilence, OpenError, ResponseError, LeaveHandshake,
       StayInHandshake, LeaveReceive
  <2> QED BY <2>1, <2>2, SilenceCourse
<1>4. CASE OversizePanics
  BY <1>4 DEF OversizePanics, OnTime
<1>5. CASE SendOpen
  BY <1>5, OpenCourse
<1>6. CASE Post
  <2>1. /\ pc = "ready"
        /\ \/ pc' = "send" /\ active
           \/ pc' = "reconnect" /\ ctx' = "reopen"
        /\ UNCHANGED <<active, rx, rxLen, inbox, conn, credit, toMe, chan, req, win>>
    BY <1>6 DEF Post, OnTime, session, link, me
  <2>2. Used' /\ Unused' /\ Collected' /\ NextUp' /\ Serving'
    BY <2>1 DEF Used, Unused, Collected, NextUp, Serving
  <2>3. Resting /\ \A t : Coming(t)' = Coming(t)
    BY <2>1 DEF Resting, Coming
  <2>4. NoData'
    BY <2>3 DEF Course, NoData
  <2>5. ASSUME Healthy' PROVE Idle'
    <3>1. Idle /\ (active => Unspent)
      BY <2>1, <2>3, <2>5 DEF Course, Healthy, Live, Idle
    <3>2. Unspent' = Unspent
      BY <2>1 DEF Unspent
    <3> QED BY <2>1, <2>3, <3>1, <3>2 DEF Idle
  <2> QED BY <2>2, <2>4, <2>5 DEF Course
<1>7. CASE Send
  BY <1>7, SendCourse
<1>8. CASE Close
  BY <1>8 DEF Close, Course, Used, Unused, Collected, NoData, Resting, NextUp, Healthy, Live
<1>9. CASE (pc = "reconnect" \/ pc = "start") /\ (Connect \/ ConnectFails)
  BY <1>9, ConnectCourse DEF Starts
<1>10. CASE OrphanRead
  BY <1>10 DEF OrphanRead, Intact
<1>11. CASE MeStep
  BY <1>11, MeStepCourse
<1>12. CASE MeNoise /\ UNCHANGED <<session, control>>
  <2>1. PICK m \in {Keepalive, Adjust(0, 0)} : Says(m)
    BY <1>12 DEF MeNoise
  <2>2. m \in ToHostMessage /\ m.t \notin {"data", "close"}
    BY ToHostMessages DEF Keepalive, Adjust, Msg
  <2>3. UNCHANGED <<conn, chan, req, resp, idx, toMe, win>>
    BY <1>12, <2>1 DEF MeNoise, Says, me
  <2> QED BY <1>12, <2>1, <2>2, <2>3, PlainCourse
<1>13. CASE MeDisconnect /\ UNCHANGED <<session, control>>
  <2>1. inbox' = inbox /\ ~Healthy'
    BY <1>13 DEF MeDisconnect, Healthy, Live
  <2> QED BY <1>13, <2>1, IdleCourse
<1>14. CASE MeDown /\ UNCHANGED <<session, control>>
  <2>1. inbox' = <<>> /\ ~Healthy'
    BY <1>14 DEF MeDown, Healthy, Live
  <2>2. Used' /\ Unused' /\ Collected'
    BY <1>14, HostKept
  <2> QED BY <2>1, <2>2 DEF Course, NoData, NextUp, Coming
<1> QED BY <1>1, <1>2, <1>3, <1>4, <1>5, <1>6, <1>7, <1>8, <1>9, <1>10, <1>11,
           <1>12, <1>13, <1>14 DEF Next, Host

LEMMA CourseStarts == Init => Intact /\ Ends /\ Course
<1> SUFFICES ASSUME Init PROVE Intact /\ Ends /\ Course
  OBVIOUS
<1>1. /\ inbox = <<>> /\ pc = "start" /\ active = FALSE /\ conn = FALSE
      /\ disc = FALSE
  BY DEF Init
<1>2. Intact
  BY DEF Init, Intact
<1> QED BY <1>1, <1>2 DEF Ends, Single, Shut, Severed, Awaited, Live, Course, Used,
   Unused, Collected, NoData, Resting, NextUp, Healthy

LEMMA PatientSteps ==
  [Next /\ Patience]_vars => [Next]_vars /\ [Patience]_vars
  OBVIOUS

LEMMA CourseHolds ==
  OnTime => (PatientSpec => [](TypeOK /\ CreditBalance /\ Intact /\ Ends /\ Course))
<1> SUFFICES ASSUME OnTime
             PROVE  PatientSpec => [](TypeOK /\ CreditBalance /\ Intact /\ Ends /\ Course)
  OBVIOUS
<1>1. TypeOK /\ CreditBalance /\ Intact /\ Ends /\ Course /\ [Next]_vars
        /\ [Patience]_vars => Intact' /\ Ends' /\ Course'
  BY NextIntact, NextEnds, NextCourse
<1> QED BY <1>1, CourseStarts, PatientSteps, TypesHold, CreditBalanceHolds, PTL
           DEF Spec, PatientSpec

(* While receive runs and after it, rx_buf holds the chunks of the answer  *)
(* to the last request, from the first on and in order (lme/mod.rs:        *)
(* receive, process_apf's CHANNEL_DATA), over every reopened channel and   *)
(* reconnect of a session.  The ME must not be late, answer more than      *)
(* rx_buf takes, or use up receive's attempts with other messages: or else *)
(* a chunk is dropped, or what is left of an answer arrives in the next.   *)
THEOREM RxIsPrefixHolds == OnTime => (PatientSpec => []RxIsPrefix)
<1>1. Course => RxIsPrefix
  BY DEF Course, Collected, Prefix, RxIsPrefix
<1> QED BY <1>1, CourseHolds, PTL

LEMMA Returning ==
  ASSUME Ends, OnTime, [Next]_vars, pc = "response", pc' = "ready"
  PROVE  HostMessage \/ ResponseError
<1>1. pc' # pc
  OBVIOUS
<1>2. ~UNCHANGED vars /\ ~UNCHANGED control
  BY <1>1 DEF vars, control
<1>3. Host \/ Connect \/ ConnectFails
  BY <1>2 DEF Next, OrphanRead, MeStep
<1>4. ~Connect /\ ~ConnectFails
  BY DEF Connect, ConnectFails, Starts
<1>5. ~HandshakeSilence /\ ~OpenError /\ ~SendOpen /\ ~Post /\ ~Send /\ ~Close
  BY DEF HandshakeSilence, OpenError, SendOpen, Post, Send, Close
<1>6. ~OversizePanics
  BY DEF OversizePanics, OnTime
<1> QED BY <1>3, <1>4, <1>5, <1>6 DEF Host

(* receive returns from a connection that stands, and whose credit is not  *)
(* lost, only when the ME has sent all of its answer and all of it is in   *)
(* rx_buf: under the same conditions as RxIsPrefixHolds.                   *)
THEOREM ResponseWholeHolds == OnTime => (PatientSpec => ResponseWhole)
<1> SUFFICES ASSUME OnTime PROVE PatientSpec => ResponseWhole
  OBVIOUS
<1> DEFINE Returns == /\ pc = "response" /\ pc' = "ready"
                      /\ conn /\ credit' + Len(inbox') > 0
           Whole == req = 0 /\ Len(rx') = idx - 1
<1>1. ASSUME TypeOK, CreditBalance, Ends, Course, OnTime, [Next]_vars, [Patience]_vars,
             Returns
      PROVE  Whole
  <2>1. /\ inbox \in Seq(ToHostMessage) /\ rx \in Seq(ToHostMessage) /\ idx \in Nat
        /\ credit \in Nat
    BY <1>1 DEF TypeOK, LinkOK, SessionOK, MeOK
  <2>2. HostMessage \/ ResponseError
    BY <1>1, Returning
  <2>3. CASE HostMessage
    <3>1. PICK m :
            /\ Received(m) /\ Process(m)
            /\ pc = "response" /\ pc' # "response" => m.t = "close" \/ attempt' = RecvTries
      BY <2>3, LoopGoesOn
    <3>2. inbox # <<>> /\ m = Head(inbox) /\ inbox' = Tail(inbox)
      BY <3>1 DEF Received
    <3>3. Healthy
      <4>1. Len(inbox) \in Nat /\ Len(inbox) >= 1
        BY <2>1, <3>2, Queues, QueueOrder
      <4>2. conn /\ credit + Len(inbox) <= 1
        BY <1>1 DEF CreditBalance
      <4> QED BY <1>1, <2>1, <4>1, <4>2 DEF Healthy, Live
    <3>4. m.t = "close"
      <4> SUFFICES ASSUME m.t # "close" PROVE FALSE
        OBVIOUS
      <4>1. attempt' = RecvTries
        BY <1>1, <3>1
      <4>2. active /\ m.t # "confirm"
        BY <1>1, <3>2 DEF Course, Used, Ends, Awaited, Waiting, Coming
      <4>3. active'
        BY <3>1, <4>2, ProcessChannel
      <4>4. Len(inbox') # Len(inbox)
        BY <2>1, <3>2, Queues
      <4>5. Patience
        BY <1>1, <4>4 DEF vars, link
      <4> QED BY <1>1, <4>1, <4>3, <4>5, ParameterAssumption DEF Patience
    <3>5. Closing
      BY <1>1, <3>2, <3>3, <3>4 DEF Course, Serving, Asking, Answering, Coming
    <3>6. rx' = rx
      BY <3>1, <3>4, ProcessData
    <3>7. Len(rx) \in Nat
      BY <2>1, Queues
    <3> QED BY <2>1, <3>5, <3>6, <3>7 DEF Closing
  <2>4. CASE ResponseError
    <3>1. Aborted \/ TimedOut \/ Oversize
      BY <1>1, <2>4 DEF ResponseError, RecvError, ReadError, OnTime
    <3>2. ~Aborted
      BY <1>1 DEF Ends, Severed, Aborted
    <3>3. ~Oversize
      <4> SUFFICES ASSUME Oversize PROVE FALSE
        OBVIOUS
      <4>1. inbox # <<>> /\ inbox' = Tail(inbox) /\ credit' = credit
        BY DEF Oversize
      <4>2. Len(inbox) \in Nat /\ Len(inbox) >= 1 /\ Len(inbox') = Len(inbox) - 1
        BY <2>1, <4>1, Queues, QueueOrder
      <4>3. credit + Len(inbox) <= 1
        BY <1>1 DEF CreditBalance
      <4> QED BY <1>1, <2>1, <4>1, <4>2, <4>3
    <3>4. /\ inbox = <<>> /\ UNCHANGED <<inbox, credit>> /\ ~Busy
      BY <1>1, <3>1, <3>2, <3>3 DEF TimedOut, OnTime
    <3>5. Len(inbox) = 0 /\ credit <= 1
      BY <1>1, <2>1, <3>4, EmptySeq DEF CreditBalance
    <3>6. Healthy
      BY <1>1, <2>1, <3>4, <3>5 DEF Healthy, Live
    <3> QED BY <1>1, <3>4, <3>6, ServingIsBusy
  <2> QED BY <2>2, <2>3, <2>4
<1>2. TypeOK /\ CreditBalance /\ Ends /\ Course /\ [Next]_vars /\ [Patience]_vars
        => [pc = "response" /\ pc' = "ready" /\ conn /\ credit' + Len(inbox') > 0
              => req = 0 /\ Len(rx') = idx - 1]_vars
  BY <1>1
<1> QED BY <1>2, CourseHolds, PatientSteps, PTL DEF PatientSpec, ResponseWhole
=============================================================================
