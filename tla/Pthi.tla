--------------------------------- MODULE Pthi ---------------------------------
(***************************************************************************)
(* The operations of the menu (src/main.rs) over the AMT host interface    *)
(* client: every PTHI command is a send and a receive on the AMTHI         *)
(* connection (pthi_call and the commands of src/amt.rs, over              *)
(* HeciContext::send and receive of src/heci/mod.rs), and the operations   *)
(* decide what to do next from the answers.                                *)
(*                                                                         *)
(* pthi_call takes the next message of the client as the answer.  Nothing  *)
(* but the order of the messages ties an answer to its command, so a       *)
(* command that was given up on may be answered in the place of a later    *)
(* one, until the interface is initialized again.                          *)
(***************************************************************************)
EXTENDS Integers, Sequences

CONSTANTS
  Attempts,   \* attempts of do_amt_info at GetCodeVersions (30)
  Suffixes,   \* DNS suffixes the user enters, by their length
  Slow,       \* the ME may answer after the host has given up
  Cap         \* messages the HECI buffers hold in one direction

ASSUME PthiAssumption ==
  /\ Attempts \in Nat \ {0}
  /\ Suffixes \subseteq Nat
  /\ Slow \in BOOLEAN
  /\ Cap \in Nat \ {0}

VARIABLES
  link,      \* the AMTHI HeciContext: "amthi", "failed" re-init, "closed"
  at,        \* where the program is
  tries,     \* attempts at GetCodeVersions, position in InfoScript
  entered,   \* the DNS suffix read from the user
  cmd,       \* the PTHI command being called
  cpc,       \* where the host is in pthi_call
  res,       \* what pthi_call returned
  toMe,      \* commands the ME has not processed
  inbox,     \* messages of the ME the host has not read
  meLink,    \* the ME's side of the connection
  mode, dns, \* the ME's control mode and stored DNS suffix
  shown,     \* the result the current operation has shown
  late       \* history: a command was given up on since the last re-init

op    == <<at, tries, entered, shown>>
call  == <<cmd, cpc, res>>
chan  == <<toMe, inbox, meLink>>
amt   == <<mode, dns>>
vars  == <<link, op, call, chan, amt, late>>

-----------------------------------------------------------------------------
(* Control modes, and what GetControlMode makes of a dword that is none.   *)
Pre == 0
Ccm == 1
Acm == 2
Junk == 3

Cmds == {"mode", "prov", "uuid", "lsa", "versions", "setdns", "getdns",
         "lan", "unprov"}

(* The size of the response buffer of a command: receive refuses a longer  *)
(* message, and one of more than its own 2048 bytes.                       *)
BufLen(c) ==
  CASE c \in {"mode", "prov"}   -> 20
    [] c \in {"uuid", "setdns"} -> 32
    [] c \in {"lan", "unprov"}  -> 64
    [] c = "lsa"      -> 256
    [] c = "getdns"   -> 1100
    [] c = "versions" -> 2048

(* The shortest response a command reads its result from.                  *)
MinLen(c) == CASE c = "lsa" -> 82 [] c = "lan" -> 28 [] OTHER -> 16

(* The commands of do_amt_info after GetCodeVersions.                      *)
InfoScript == <<"mode", "prov", "uuid", "getdns", "lan", "lan", "lsa">>

Nothing == [ok |-> FALSE, of |-> "none", word |-> 0]

NoResult == [op |-> "none", ok |-> FALSE, sure |-> FALSE]

-----------------------------------------------------------------------------
(* The ME (external).  A reply is long enough for its command's result,    *)
(* an AMT error, or too short to be a response; only the first comes with  *)
(* an effect.                                                              *)

Fc == [kind |-> "fc", of |-> "none", status |-> 0, len |-> 8, word |-> 0]

Disconnect == [Fc EXCEPT !.kind = "disconnect"]

FullLen(c) ==
  CASE c = "uuid" -> 32 [] c = "lsa" -> 82 [] c = "versions" -> 129
    [] c = "setdns" -> 16 [] c = "getdns" -> 18 + dns [] c = "lan" -> 36
    [] OTHER -> 20

(* The dword after the response header: zero if the reply ends before it.  *)
Word(c) ==
  CASE c = "mode" -> mode
    [] c = "prov" -> IF mode = Pre THEN Pre ELSE Acm
    [] c = "setdns" -> 0
    [] c = "unprov" -> 0
    [] c = "getdns" -> IF dns = 0 THEN 0 ELSE Junk
    [] OTHER -> Junk

Reply(c, status, len, word) ==
  [kind |-> "reply", of |-> c, status |-> status, len |-> len, word |-> word]

Answers(c) ==
  {Reply(c, 0, FullLen(c), Word(c)), Reply(c, 1, 16, 0), Reply(c, 0, 12, 0)}

Init ==
  /\ link = "amthi"
  /\ at = "menu" /\ tries = 0 /\ entered = 0 /\ shown = NoResult
  /\ cmd = "mode" /\ cpc = "send" /\ res = Nothing
  /\ toMe = <<>> /\ inbox = <<>> /\ meLink = TRUE
  /\ mode \in {Pre, Ccm, Acm} /\ dns = 0
  /\ late = FALSE

(* The ME processes a command: it returns a flow control credit and        *)
(* answers, in either order.                                               *)
Serve ==
  /\ meLink /\ toMe # <<>> /\ Len(inbox) + 2 <= Cap
  /\ toMe' = Tail(toMe)
  /\ \E r \in Answers(Head(toMe).cmd) :
       /\ inbox' \in {inbox \o <<Fc, r>>, inbox \o <<r, Fc>>}
       /\ LET done == r.status = 0 /\ r.len >= 16 IN
            /\ mode' = IF done /\ r.of = "unprov" THEN Pre ELSE mode
            /\ dns' = IF done /\ r.of = "setdns" THEN Head(toMe).arg ELSE dns
  /\ UNCHANGED <<link, op, call, meLink, late>>

(* The ME drops the client connection, with what it has not processed.     *)
MeDisconnect ==
  /\ meLink /\ Len(inbox) < Cap
  /\ meLink' = FALSE
  /\ toMe' = <<>>
  /\ inbox' = Append(inbox, Disconnect)
  /\ UNCHANGED <<link, op, call, amt, late>>

-----------------------------------------------------------------------------
(* pthi_call.                                                              *)

Return(r) == cpc' = "done" /\ res' = r

Request == [cmd |-> cmd, arg |-> entered]

(* send: the command, then the flow control credit for the answer.         *)
Send ==
  /\ cpc = "send" /\ link = "amthi" /\ Len(toMe) < Cap
  /\ cpc' = "recv"
  /\ toMe' = IF meLink THEN Append(toMe, Request) ELSE toMe
  /\ UNCHANGED <<link, op, cmd, res, inbox, meLink, amt, late>>

(* Either write times out; the command may be with the ME all the same.    *)
SendFails ==
  /\ cpc = "send"
  /\ Return(Nothing)
  /\ \/ UNCHANGED <<toMe, late>>
     \/ /\ link = "amthi" /\ meLink /\ Len(toMe) < Cap
        /\ toMe' = Append(toMe, Request)
        /\ late' = TRUE
  /\ UNCHANGED <<link, op, cmd, inbox, meLink, amt>>

(* receive skips flow control and disconnect requests ...                  *)
SkipHbm ==
  /\ cpc = "recv" /\ inbox # <<>> /\ Head(inbox).kind # "reply"
  /\ inbox' = Tail(inbox)
  /\ UNCHANGED <<link, op, call, toMe, meLink, amt, late>>

(* ... and returns the first message of the client that fits the buffer.   *)
AcceptAnyStatus(m) ==
  IF m.len <= BufLen(cmd) /\ m.len >= MinLen(cmd)
  THEN [ok |-> TRUE, of |-> m.of, word |-> m.word]
  ELSE Nothing

Accept(m) ==
  IF m.len <= BufLen(cmd) /\ m.len >= MinLen(cmd) /\ m.status = 0
  THEN [ok |-> TRUE, of |-> m.of, word |-> m.word]
  ELSE Nothing

ReceiveFirst ==
  /\ cpc = "recv" /\ inbox # <<>>
  /\ inbox' = Tail(inbox)
  /\ Return(Accept(Head(inbox)))
  /\ UNCHANGED <<link, op, cmd, toMe, meLink, amt, late>>

Receive ==
  /\ cpc = "recv" /\ inbox # <<>> /\ Head(inbox).kind = "reply"
  /\ inbox' = Tail(inbox)
  /\ Return(Accept(Head(inbox)))
  /\ UNCHANGED <<link, op, cmd, toMe, meLink, amt, late>>

ReceiveTimeout ==
  /\ cpc = "recv" /\ inbox = <<>>
  /\ Slow \/ toMe = <<>>
  /\ Return(Nothing)
  /\ late' = (late \/ toMe # <<>>)
  /\ UNCHANGED <<link, op, cmd, chan, amt>>

-----------------------------------------------------------------------------
(* The operations.  "at" names the call or the key the program waits for.  *)

Done(place) == at = place /\ cpc = "done"

Begin(place, c) == at' = place /\ cmd' = c /\ cpc' = "send" /\ res' = Nothing

Await(place) == at' = place /\ cpc' = "idle" /\ UNCHANGED <<cmd, res>>

(* Back to app_main, which reads the control mode for its first line.      *)
ToMenu == Begin("menu", "mode")

(* heci.init and connect_amthi, whose results are ignored: both sides      *)
(* start over, or the context is left without a connection.                *)
ConnectOnly ==
  /\ link' \in {"amthi", "failed"}
  /\ meLink' = (link' = "amthi")
  /\ UNCHANGED <<toMe, inbox>>
  /\ late' = FALSE

Reinit ==
  /\ link' \in {"amthi", "failed"}
  /\ meLink' = (link' = "amthi")
  /\ toMe' = <<>> /\ inbox' = <<>>
  /\ late' = FALSE

NoReinit == UNCHANGED <<link, meLink, toMe, inbox, late>>

Menu ==
  /\ Done("menu")
  /\ Await("key")
  /\ shown' = NoResult /\ tries' = 0 /\ entered' = 0
  /\ UNCHANGED <<link, chan, amt, late>>

Key ==
  /\ at = "key"
  /\ \/ Begin("versions", "versions") /\ tries' = 1 /\ UNCHANGED link
     \/ Begin("deact", "mode") /\ UNCHANGED <<tries, link>>
     \/ Begin("act", "mode") /\ UNCHANGED <<tries, link>>
     \/ Begin("dnsOld", "getdns") /\ UNCHANGED <<tries, link>>
     \/ ToMenu /\ UNCHANGED <<tries, link>>
     \/ Await("quit") /\ link' = "closed" /\ UNCHANGED tries
  /\ UNCHANGED <<entered, shown, chan, amt, late>>

(* do_amt_info: GetCodeVersions with a re-init after every failure ...     *)
RetryForever ==
  /\ Done("versions") /\ ~res.ok
  /\ Reinit
  /\ Begin("versions", "versions")
  /\ UNCHANGED <<tries, entered, shown, amt>>

Retry ==
  /\ Done("versions") /\ ~res.ok
  /\ Reinit
  /\ IF tries < Attempts
     THEN Begin("versions", "versions") /\ tries' = tries + 1
     ELSE Begin("info", InfoScript[1]) /\ tries' = 1
  /\ UNCHANGED <<entered, shown, amt>>

VersionsRead ==
  /\ Done("versions") /\ res.ok
  /\ Begin("info", InfoScript[1]) /\ tries' = 1
  /\ UNCHANGED <<link, entered, shown, chan, amt, late>>

(* ... then the rest, each of which may fail.                              *)
Info ==
  /\ Done("info")
  /\ IF tries < Len(InfoScript)
     THEN Begin("info", InfoScript[tries + 1]) /\ tries' = tries + 1
     ELSE ToMenu /\ UNCHANGED tries
  /\ UNCHANGED <<link, entered, shown, chan, amt, late>>

(* do_deactivate.                                                          *)
DeactivatableUnlessPre == res.ok /\ res.word # Pre

Deactivatable == res.ok /\ res.word \notin {Pre, Acm}

Deactivate ==
  /\ Done("deact")
  /\ IF Deactivatable THEN Await("confirm") ELSE ToMenu
  /\ UNCHANGED <<link, tries, entered, shown, chan, amt, late>>

Confirm ==
  /\ at = "confirm"
  /\ Begin("unprov", "unprov") \/ ToMenu
  /\ UNCHANGED <<link, tries, entered, shown, chan, amt, late>>

Show(o) == shown' = [op |-> o, ok |-> res.ok, sure |-> ~late]

Unprovisioned ==
  /\ Done("unprov")
  /\ Reinit
  /\ Show("unprov")
  /\ IF res.ok THEN Begin("newMode", "mode") ELSE ToMenu
  /\ UNCHANGED <<tries, entered, amt>>

(* The mode read back after deactivation or activation is shown only.      *)
NewMode ==
  /\ Done("newMode")
  /\ ToMenu
  /\ UNCHANGED <<link, tries, entered, shown, chan, amt, late>>

(* do_set_dns_suffix.                                                      *)
DnsOld ==
  /\ Done("dnsOld")
  /\ Await("line")
  /\ UNCHANGED <<link, tries, entered, shown, chan, amt, late>>

Line ==
  /\ at = "line"
  /\ entered' \in Suffixes
  /\ Begin("setdns", "setdns")
  /\ UNCHANGED <<link, tries, shown, chan, amt, late>>

DnsSet ==
  /\ Done("setdns")
  /\ Show("setdns")
  /\ IF res.ok THEN Begin("dnsNew", "getdns") ELSE ToMenu
  /\ UNCHANGED <<link, tries, entered, chan, amt, late>>

DnsNew ==
  /\ Done("dnsNew")
  /\ ToMenu
  /\ UNCHANGED <<link, tries, entered, shown, chan, amt, late>>

(* do_activate_ccm up to the tunnel ...                                    *)
ActivatableUnlessAcm == res.ok /\ res.word # Acm

Activatable == res.ok /\ res.word = Pre

Activate ==
  /\ Done("act")
  /\ IF Activatable THEN Begin("lsa", "lsa") ELSE ToMenu
  /\ UNCHANGED <<link, tries, entered, shown, chan, amt, late>>

(* ... LmeSession::init closes the AMTHI context and resets the interface  *)
(* for its own ...                                                         *)
OpenTunnel ==
  /\ Done("lsa")
  /\ IF res.ok
     THEN /\ Await("tunnel")
          /\ link' = "closed"
          /\ toMe' = <<>> /\ inbox' = <<>> /\ meLink' = FALSE
     ELSE ToMenu /\ UNCHANGED <<link, chan>>
  /\ UNCHANGED <<tries, entered, shown, amt, late>>

(* ... which fails to open, or runs the activation; every way out of it    *)
(* initializes the AMTHI context again.                                    *)
TunnelFailsClosed ==
  /\ at = "tunnel"
  /\ NoReinit
  /\ ToMenu
  /\ UNCHANGED <<tries, entered, shown, amt>>

TunnelFails ==
  /\ at = "tunnel"
  /\ Reinit
  /\ ToMenu
  /\ UNCHANGED <<tries, entered, shown, amt>>

Activated ==
  /\ at = "tunnel"
  /\ Reinit
  /\ mode' \in {mode, Ccm}
  /\ \/ Begin("newMode", "mode")
     \/ ToMenu
  /\ UNCHANGED <<tries, entered, shown, dns>>

Quit == at = "quit" /\ UNCHANGED vars

-----------------------------------------------------------------------------
PthiCall ==
  Send \/ SendFails \/ SkipHbm \/ Receive \/ ReceiveTimeout

Program ==
  \/ Menu \/ Retry \/ VersionsRead \/ Info
  \/ Deactivate \/ Unprovisioned \/ NewMode
  \/ DnsOld \/ DnsSet \/ DnsNew
  \/ Activate \/ OpenTunnel \/ TunnelFails \/ Activated

User == Key \/ Confirm \/ Line

Next == PthiCall \/ Program \/ User \/ Serve \/ MeDisconnect \/ Quit

Spec == Init /\ [][Next]_vars

(* The program's code runs until it returns or waits for a key.  Nothing   *)
(* is assumed of the user, nor of the ME.                                  *)
FairSpec == Spec /\ WF_vars(PthiCall \/ Program)

-----------------------------------------------------------------------------
(* The program and the ME as HostInterface sees them.                      *)
Outcome(r) == [ok |-> r.ok, word |-> r.word]

Phase ==
  IF late THEN "lost"
  ELSE IF cpc = "idle" THEN "idle"
  ELSE IF cpc = "done" THEN "returned" ELSE "called"

Replies == {i \in 1 .. Len(inbox) : inbox[i].kind = "reply"}

Underway == IF late THEN {} ELSE {Outcome(Accept(inbox[i])) : i \in Replies}

Returned == IF cpc = "done" /\ ~late THEN Outcome(res) ELSE Outcome(Nothing)

KeyPlaces == {"key", "confirm", "line", "tunnel", "quit"}

CallOf(place) ==
  CASE place \in {"menu", "deact", "act", "newMode"} -> {"mode"}
    [] place \in {"dnsOld", "dnsNew"} -> {"getdns"}
    [] place = "info" -> {InfoScript[i] : i \in 1 .. Len(InfoScript)}
    [] OTHER -> {place}

CallPlaces == {"menu", "deact", "act", "newMode", "dnsOld", "dnsNew", "info",
               "versions", "unprov", "setdns", "lsa"}

Message == [kind : {"fc", "disconnect", "reply"}, of : Cmds \cup {"none"},
            status : Nat, len : Nat, word : {Pre, Ccm, Acm, Junk}]

PlaceOK ==
  /\ \/ at \in KeyPlaces /\ cpc = "idle"
     \/ at \in CallPlaces /\ cpc \in {"send", "recv", "done"}
        /\ cmd \in CallOf(at)
  /\ at = "info" => tries \in 1 .. Len(InfoScript)

(* The types of the variables; the program waits either for a key or for   *)
(* the call of the place it is at.                                         *)
TypeOK ==
  /\ PlaceOK
  /\ link \in {"amthi", "failed", "closed"}
  /\ cmd \in Cmds
  /\ tries \in Nat /\ entered \in Nat
  /\ res \in [ok : BOOLEAN, of : Cmds \cup {"none"},
              word : {Pre, Ccm, Acm, Junk}]
  /\ toMe \in Seq([cmd : Cmds, arg : Nat])
  /\ inbox \in Seq(Message)
  /\ meLink \in BOOLEAN
  /\ mode \in {Pre, Ccm, Acm} /\ dns \in Nat
  /\ shown \in [op : {"none", "unprov", "setdns"}, ok : BOOLEAN,
                sure : BOOLEAN]
  /\ late \in BOOLEAN

(* As long as no command was given up on, the only command or reply on the *)
(* way is the one of the call in progress, and there is none between       *)
(* calls: flow control and disconnect messages between them do not shift   *)
(* the answers.                                                            *)
InStep ==
  ~late =>
    /\ \A i \in 1 .. Len(toMe) :
         i = 1 /\ toMe[i].cmd = cmd /\ cpc = "recv"
    /\ \A i \in 1 .. Len(inbox) :
         inbox[i].kind = "reply" =>
           /\ inbox[i].of = cmd /\ cpc = "recv" /\ toMe = <<>>
           /\ \A j \in 1 .. Len(inbox) : inbox[j].kind = "reply" => j = i

(* The answer a call returns is the answer to its own command, unless a    *)
(* command was given up on before.                                         *)
OwnAnswer == cpc = "done" /\ res.ok /\ ~late => res.of = cmd

(* src/amt.rs:52, "Send a PTHI command and receive the response.": the     *)
(* same, with nothing excepted.                                            *)
ResponseAnswersCall == cpc = "done" /\ res.ok => res.of = cmd

(* A result that is shown as SUCCESS is one: the device is deactivated, or *)
(* has the DNS suffix that was entered.                                    *)
SuccessIsTrue ==
  shown.ok /\ shown.sure =>
    /\ shown.op = "unprov" => mode = Pre
    /\ shown.op = "setdns" => dns = entered

(* A device in admin control mode stays there, whatever the user chooses,  *)
(* and activation starts from pre-provisioning only.                       *)
AcmStays == [][mode = Acm /\ ~late => mode' = Acm]_vars

ActivatesFromPre == at = "tunnel" /\ ~late => mode = Pre

(* No PTHI command is called through a closed context, whose registers are *)
(* at the null address: every way out of the LME session initializes it.   *)
NoCallWhenClosed == cpc # "idle" => link # "closed"

(* What pthi_call promises, in one specification: every command takes      *)
(* effect at one instant between its call and its return, its answer tells *)
(* that effect, and a failure means there was none, unless a command was   *)
(* given up on since the interface was initialized.                        *)
Device == INSTANCE HostInterface WITH
  Commands <- Cmds, phase <- Phase, command <- cmd, argument <- entered,
  answers <- Underway, result <- Returned

CommandsAtomic == Device!Spec

(* Every operation comes to an end or to a question to the user, whatever  *)
(* the ME answers and even if it never does.                               *)
OperationEnds == (at \notin KeyPlaces) ~> (at \in KeyPlaces)
=============================================================================
