------------------------------ MODULE HbmConnect ------------------------------
(***************************************************************************)
(* Initializing the HECI interface and connecting to a client of the ME:   *)
(* HeciContext::init with reset and wait_me_ready, and connect_client_impl *)
(* (src/heci/mod.rs) over the host bus messages of src/heci/hbm.rs.        *)
(*                                                                         *)
(* The host writes a request and takes the next message as its reply, for  *)
(* the version, for the list of clients, for each client's properties and  *)
(* for the connection.  Only a message's command byte is compared.  The ME *)
(* answers at its own pace, refuses, goes down, and may notice the reset   *)
(* long after the host has seen it ready: what an earlier connection left  *)
(* on the way may then still be read in this one.                          *)
(***************************************************************************)
EXTENDS Integers, Sequences

CONSTANTS
  Last,      \* the last address a client can have (255)
  Listed,    \* addresses of the ME's clients
  Uuid,      \* the UUID of the client at an address
  MaxLen,    \* the longest message of the client at an address
  HostAddr,  \* host address connect_amthi and connect_client use for a UUID
  Cap        \* messages the buffers hold in one direction

Targets == DOMAIN HostAddr

ASSUME ConnectAssumption ==
  /\ Last \in Nat /\ Cap \in Nat \ {0}
  /\ Listed \subseteq 1 .. Last
  /\ MaxLen \in [1 .. Last -> Nat]
  /\ HostAddr \in [Targets -> Nat \ {0}]

VARIABLES
  meAddr, hostAddr, maxMsgLen,  \* the HeciContext
  rst,        \* the host asserts its reset bit
  hpc,        \* "reset", "write" or "read" an exchange, or "idle"
  step,       \* the exchange
  target,     \* the UUID to connect to
  valid,      \* addresses of the enumeration
  addr,       \* the address whose properties are asked for
  outcome,    \* what the last connect returned
  toMe,       \* messages the ME has not processed
  inbox,      \* messages of the ME the host has not read
  up,         \* ME_RDY
  resetting,  \* the ME has not yet noticed the host's reset
  granted,    \* history: the connection the ME made for this attempt
  hiccup      \* history: something failed or was late in this attempt

ctx  == <<meAddr, hostAddr, maxMsgLen>>
ctl  == <<hpc, step, target, valid, addr, outcome>>
chan == <<toMe, inbox>>
me   == <<up, resetting>>
vars == <<ctx, ctl, chan, me, rst, granted, hiccup>>

NoLink == [me |-> 0, host |-> 0]

Init ==
  /\ meAddr = 0 /\ hostAddr = 0 /\ maxMsgLen = 0
  /\ rst = FALSE
  /\ hpc = "idle" /\ step = "version" /\ target \in Targets
  /\ valid = {} /\ addr = 0 /\ outcome = "none"
  /\ toMe = <<>> /\ inbox = <<>>
  /\ up = TRUE /\ resetting = FALSE
  /\ granted = NoLink /\ hiccup = FALSE

-----------------------------------------------------------------------------
(* The ME (external).                                                      *)

Message(cmd, a, ok) == [cmd |-> cmd, me |-> a, ok |-> ok, fresh |-> TRUE]

(* The replies to a request, and to a client's message.  A connection is   *)
(* granted together with the first flow control credit.                    *)
Replies(m) ==
  CASE m.cmd = "connect" ->
         {<<Message("connect", m.me, TRUE), Message("credit", m.me, TRUE)>>,
          <<Message("connect", m.me, FALSE)>>}
    [] m.cmd = "client" -> {<<Message("other", m.me, TRUE)>>}
    [] OTHER -> {<<Message(m.cmd, m.me, TRUE)>>, <<Message(m.cmd, m.me, FALSE)>>}

(* The ME attends to a reset before it serves anything else.               *)
Serve ==
  /\ up /\ ~rst /\ ~resetting /\ toMe # <<>>
  /\ toMe' = Tail(toMe)
  /\ \E r \in Replies(Head(toMe)) :
       /\ Len(inbox) + Len(r) <= Cap
       /\ inbox' = inbox \o [i \in 1 .. Len(r) |->
                               [r[i] EXCEPT !.fresh = Head(toMe).fresh]]
       /\ hiccup' = (hiccup \/ ~r[1].ok)
       /\ granted' = IF Head(toMe).cmd = "connect" /\ r[1].ok /\ Head(toMe).fresh
                     THEN [me |-> Head(toMe).me, host |-> Head(toMe).host]
                     ELSE granted
  /\ UNCHANGED <<ctx, ctl, me, rst>>

(* The ME leaves a request without an answer.                              *)
Ignore ==
  /\ up /\ toMe # <<>>
  /\ toMe' = Tail(toMe)
  /\ hiccup' = TRUE
  /\ UNCHANGED <<ctx, ctl, inbox, me, rst, granted>>

(* A message nobody asked for: a disconnect request, an old credit.        *)
Unasked ==
  /\ up /\ ~rst /\ ~resetting /\ Len(inbox) < Cap
  /\ inbox' = Append(inbox, Message("other", 0, TRUE))
  /\ hiccup' = TRUE
  /\ UNCHANGED <<ctx, ctl, toMe, me, rst, granted>>

(* The ME resets its side, on the host's reset or on its own, and drops    *)
(* all that was on the way.                                                *)
MeReset ==
  /\ resetting \/ up
  /\ resetting' = FALSE
  /\ up' = FALSE
  /\ toMe' = <<>> /\ inbox' = <<>>
  /\ hiccup' = (hiccup \/ ~resetting \/ hpc # "reset")
  /\ UNCHANGED <<ctx, ctl, rst, granted>>

MeUp ==
  /\ ~up
  /\ up' = TRUE
  /\ UNCHANGED <<ctx, ctl, chan, resetting, rst, granted, hiccup>>

-----------------------------------------------------------------------------
(* The host.                                                               *)

Old(q) == [i \in 1 .. Len(q) |-> [q[i] EXCEPT !.fresh = FALSE]]

(* init: the addresses are forgotten and the reset asserted.               *)
Open(t) ==
  /\ hpc = "idle"
  /\ hpc' = "reset" /\ target' = t /\ outcome' = "none"
  /\ meAddr' = 0 /\ hostAddr' = 0
  /\ rst' = TRUE /\ resetting' = TRUE
  /\ toMe' = Old(toMe) /\ inbox' = Old(inbox)
  /\ granted' = NoLink /\ hiccup' = FALSE
  /\ UNCHANGED <<maxMsgLen, step, valid, addr, up>>

Go(s, where) == step' = s /\ hpc' = where /\ UNCHANGED outcome

End(o) == hpc' = "idle" /\ outcome' = o /\ UNCHANGED step

(* wait_me_ready sees the ME ready, perhaps before the ME has noticed the  *)
(* reset, and the reset is released.                                       *)
ResetDone ==
  /\ hpc = "reset" /\ up
  /\ rst' = FALSE
  /\ hiccup' = (hiccup \/ resetting)
  /\ Go("version", "write")
  /\ UNCHANGED <<ctx, target, valid, addr, chan, me, granted>>

(* Or it does not, and the reset stays asserted.  The operations of the    *)
(* menu go on to connect_amthi all the same, an LME session gives up.      *)
ResetTimeout ==
  /\ hpc = "reset" /\ ~up
  /\ hiccup' = TRUE
  /\ Go("version", "write") \/ End("failed")
  /\ UNCHANGED <<ctx, target, valid, addr, chan, me, rst, granted>>

Request ==
  [cmd |-> step, me |-> IF step = "prop" THEN addr ELSE meAddr,
   host |-> hostAddr, fresh |-> TRUE]

Write ==
  /\ hpc = "write" /\ up /\ Len(toMe) < Cap
  /\ toMe' = Append(toMe, Request)
  /\ hpc' = "read"
  /\ UNCHANGED <<ctx, step, target, valid, addr, outcome, inbox, me, rst,
                 granted, hiccup>>

AfterExclusive(a, set) == {b \in set : b > a /\ b < Last}

(* The loop over the 255 addresses goes to the next one listed.            *)
After(a, set) == {b \in set : b > a /\ b <= Last}

AskNext(a, set) ==
  IF After(a, set) = {}
  THEN End("notFound") /\ UNCHANGED addr
  ELSE \E b \in After(a, set) :
         /\ \A c \in After(a, set) : b <= c
         /\ addr' = b /\ Go("prop", "write")

(* A failed write of a property request is passed over, any other ends it. *)
WriteFails ==
  /\ hpc = "write"
  /\ hiccup' = TRUE
  /\ IF step = "prop" THEN AskNext(addr, valid)
     ELSE End("failed") /\ UNCHANGED addr
  /\ UNCHANGED <<ctx, target, valid, chan, me, rst, granted>>

ReadTimeoutAsksAgain ==
  /\ hpc = "read" /\ inbox = <<>>
  /\ hiccup' = TRUE
  /\ IF step = "prop" THEN Go("prop", "write") /\ UNCHANGED addr
     ELSE End(IF step = "credit" THEN "ok" ELSE "failed") /\ UNCHANGED addr
  /\ UNCHANGED <<ctx, target, valid, chan, me, rst, granted>>

ReadTimeout ==
  /\ hpc = "read" /\ inbox = <<>>
  /\ hiccup' = TRUE
  /\ IF step = "prop" THEN AskNext(addr, valid)
     ELSE End(IF step = "credit" THEN "ok" ELSE "failed") /\ UNCHANGED addr
  /\ UNCHANGED <<ctx, target, valid, chan, me, rst, granted>>

(* The next message, and whether it has the command byte of the reply and  *)
(* reports no failure.                                                     *)
Reading(s) ==
  /\ hpc = "read" /\ step = s /\ inbox # <<>>
  /\ inbox' = Tail(inbox)
  /\ UNCHANGED <<toMe, target, me, rst, granted, hiccup>>

GoodAnyVersion ==
  Head(inbox).ok /\ (step \in {"version", "enum"} \/ Head(inbox).cmd = step)

Good == Head(inbox).cmd = step /\ Head(inbox).ok

ReadVersion ==
  /\ Reading("version")
  /\ IF Good THEN Go("enum", "write") ELSE End("failed")
  /\ UNCHANGED <<ctx, valid, addr>>

ReadEnum ==
  /\ Reading("enum")
  /\ IF Good THEN valid' = Listed /\ AskNext(0, Listed)
     ELSE End("failed") /\ UNCHANGED <<valid, addr>>
  /\ UNCHANGED ctx

ReadPropByRequest ==
  /\ Reading("prop")
  /\ IF Good /\ Uuid[Head(inbox).me] = target
     THEN /\ meAddr' = addr
          /\ maxMsgLen' = MaxLen[Head(inbox).me]
          /\ hostAddr' = HostAddr[target]
          /\ Go("connect", "write")
          /\ UNCHANGED addr
     ELSE AskNext(addr, valid) /\ UNCHANGED ctx
  /\ UNCHANGED valid

(* The address and the message length are those of the reply.              *)
ReadProp ==
  /\ Reading("prop")
  /\ IF Good /\ Uuid[Head(inbox).me] = target
     THEN /\ meAddr' = Head(inbox).me
          /\ maxMsgLen' = MaxLen[Head(inbox).me]
          /\ hostAddr' = HostAddr[target]
          /\ Go("connect", "write")
          /\ UNCHANGED addr
     ELSE AskNext(addr, valid) /\ UNCHANGED ctx
  /\ UNCHANGED valid

ReadConnect ==
  /\ Reading("connect")
  /\ IF Good THEN Go("credit", "read") ELSE End("failed")
  /\ UNCHANGED <<ctx, valid, addr>>

(* Any message is taken for the initial flow control.                      *)
ReadCredit ==
  /\ Reading("credit")
  /\ End("ok")
  /\ UNCHANGED <<ctx, valid, addr>>

(* A connected program sends to its client before it opens another one.    *)
UseClient ==
  /\ hpc = "idle" /\ outcome = "ok" /\ up /\ Len(toMe) < Cap
  /\ toMe' = Append(toMe, [cmd |-> "client", me |-> meAddr, host |-> hostAddr,
                           fresh |-> TRUE])
  /\ UNCHANGED <<ctx, ctl, inbox, me, rst, granted, hiccup>>

-----------------------------------------------------------------------------
Host ==
  \/ ResetDone \/ ResetTimeout \/ Write \/ WriteFails \/ ReadTimeout
  \/ ReadVersion \/ ReadEnum \/ ReadProp \/ ReadConnect \/ ReadCredit

Next ==
  \/ \E t \in Targets : Open(t)
  \/ Host \/ UseClient
  \/ Serve \/ Ignore \/ Unasked \/ MeReset \/ MeUp

Spec == Init /\ [][Next]_vars

FairSpec == Spec /\ WF_vars(Host)

-----------------------------------------------------------------------------
Steps == {"version", "enum", "prop", "connect", "credit"}

Requests == [cmd : Steps \cup {"client"}, me : 0 .. Last, host : Nat,
             fresh : BOOLEAN]
Answers  == [cmd : Steps \cup {"other"}, me : 0 .. Last, ok : BOOLEAN,
             fresh : BOOLEAN]

(* The types of the variables.                                             *)
TypeOK ==
  /\ meAddr \in 0 .. Last /\ hostAddr \in Nat /\ maxMsgLen \in Nat
  /\ rst \in BOOLEAN /\ up \in BOOLEAN /\ resetting \in BOOLEAN
  /\ hpc \in {"idle", "reset", "write", "read"} /\ step \in Steps
  /\ target \in Targets
  /\ valid \subseteq Listed /\ addr \in 0 .. Last
  /\ step = "prop" => addr \in Listed
  /\ outcome \in {"none", "ok", "failed", "notFound"}
  /\ toMe \in Seq(Requests) /\ inbox \in Seq(Answers)
  /\ granted \in [me : 0 .. Last, host : Nat]
  /\ hiccup \in BOOLEAN

(* A connect that returns Ok is one the ME granted in this attempt, to the *)
(* client with the UUID asked for, at the addresses and with the message   *)
(* length the context holds, whatever was left on the way by the           *)
(* connections before, late, refused or lost.                              *)
OkIsConnected ==
  outcome = "ok" =>
    /\ granted = [me |-> meAddr, host |-> hostAddr]
    /\ meAddr \in Listed /\ Uuid[meAddr] = target
    /\ hostAddr = HostAddr[target]
    /\ maxMsgLen = MaxLen[meAddr]

(* After Ok nothing of an earlier connection is on the way: no request     *)
(* that would still be carried out, no answer that would be taken for the  *)
(* answer to a new one.  The calls over the connection count on it.        *)
OkLeavesNothingOld ==
  outcome = "ok" =>
    /\ \A i \in 1 .. Len(toMe) : toMe[i].fresh
    /\ \A i \in 1 .. Len(inbox) : inbox[i].fresh

(* A client the ME lists is found, up to the last address, unless          *)
(* something went wrong in this attempt.                                   *)
NotFoundIsAbsent ==
  outcome = "notFound" /\ ~hiccup => \A a \in Listed : Uuid[a] # target

(* init and connect return, whatever the ME does.                          *)
ConnectReturns == (hpc # "idle") ~> (hpc = "idle")
=============================================================================
