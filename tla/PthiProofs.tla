------------------------------ MODULE PthiProofs ------------------------------
(***************************************************************************)
(* Proofs about Pthi, for every number of attempts, every set of suffixes  *)
(* and every size of the buffers.  The invariant says what the program and *)
(* the ME know of each other while no command has been given up on: what   *)
(* is on the way is the current call's, a control mode that was read is    *)
(* the device's, and a command answered with success has had its effect.   *)
(***************************************************************************)
EXTENDS Pthi, TLAPS

(* A response pthi_call would accept, up to the size of its buffer.        *)
Good(m) == m.kind = "reply" /\ m.status = 0 /\ m.len >= 16

(* The effect of a command that was answered with success.                 *)
Effect(c, word) ==
  /\ c = "mode" => word = mode
  /\ c = "unprov" => mode = Pre
  /\ c = "setdns" => dns = entered

Answered ==
  ~late =>
    /\ \A i \in 1 .. Len(inbox) :
         Good(inbox[i]) => Effect(inbox[i].of, inbox[i].word)
    /\ cpc = "done" /\ res.ok => res.of = cmd /\ Effect(res.of, res.word)
    /\ \A i \in 1 .. Len(toMe) : toMe[i].arg = entered

(* What the program concluded from the control mode stays true until it    *)
(* acts on it.                                                             *)
ModeKnown ==
  ~late =>
    /\ at = "confirm" => mode = Ccm
    /\ at = "unprov" => mode # Acm
    /\ at \in {"lsa", "tunnel"} => mode = Pre

(* After a success nothing on the way can undo it.                         *)
ShownHolds ==
  shown.ok /\ shown.sure =>
    /\ shown.op = "unprov" => mode = Pre
    /\ shown.op = "setdns" => dns = entered
    /\ at \in {"newMode", "dnsNew", "menu"}
    /\ \A i \in 1 .. Len(toMe) : toMe[i].cmd \in {"mode", "getdns"}

Closed == link = "closed" => at \in {"tunnel", "quit"}

Inv == TypeOK /\ InStep /\ Answered /\ ModeKnown /\ ShownHolds /\ Closed

USE DEF Pre, Ccm, Acm, Junk

-----------------------------------------------------------------------------
LEMMA ScriptCmds ==
  /\ Len(InfoScript) = 7
  /\ \A i \in 1 .. 7 : InfoScript[i] \in
       {"mode", "prov", "uuid", "getdns", "lan", "lsa"}
  BY DEF InfoScript

LEMMA CallCmds ==
  /\ \A p \in CallPlaces : \A c \in CallOf(p) : c \in Cmds
  /\ CallOf("menu") = {"mode"} /\ CallOf("deact") = {"mode"}
  /\ CallOf("act") = {"mode"} /\ CallOf("newMode") = {"mode"}
  /\ CallOf("dnsOld") = {"getdns"} /\ CallOf("dnsNew") = {"getdns"}
  /\ CallOf("versions") = {"versions"} /\ CallOf("unprov") = {"unprov"}
  /\ CallOf("setdns") = {"setdns"} /\ CallOf("lsa") = {"lsa"}
  /\ \A i \in 1 .. 7 : InfoScript[i] \in CallOf("info")
  /\ CallOf("info") \subseteq {"mode", "prov", "uuid", "getdns", "lan", "lsa"}
<1>1. /\ CallOf("menu") = {"mode"} /\ CallOf("deact") = {"mode"}
      /\ CallOf("act") = {"mode"} /\ CallOf("newMode") = {"mode"}
      /\ CallOf("dnsOld") = {"getdns"} /\ CallOf("dnsNew") = {"getdns"}
      /\ CallOf("versions") = {"versions"} /\ CallOf("unprov") = {"unprov"}
      /\ CallOf("setdns") = {"setdns"} /\ CallOf("lsa") = {"lsa"}
  BY DEF CallOf
<1>2. CallOf("info") = {InfoScript[i] : i \in 1 .. 7}
  BY ScriptCmds DEF CallOf
<1>3. /\ \A i \in 1 .. 7 : InfoScript[i] \in CallOf("info")
      /\ CallOf("info")
           \subseteq {"mode", "prov", "uuid", "getdns", "lan", "lsa"}
  BY <1>2, ScriptCmds
<1>4. \A p \in CallPlaces : \A c \in CallOf(p) : c \in Cmds
  BY <1>1, <1>3 DEF CallPlaces, Cmds
<1>5. QED
  BY <1>1, <1>3, <1>4

(* Only do_deactivate calls Unprovision.                                   *)
LEMMA UnprovAt ==
  ASSUME PlaceOK, cmd = "unprov", cpc # "idle"
  PROVE  at = "unprov"
<1>1. at \in CallPlaces /\ cmd \in CallOf(at)
  BY DEF PlaceOK
<1>2. QED
  BY <1>1, CallCmds DEF CallPlaces

LEMMA InitInv == Init => Inv
<1> SUFFICES ASSUME Init PROVE Inv
  OBVIOUS
<1>1. TypeOK
  <2>1. PlaceOK
    BY CallCmds DEF Init, PlaceOK, CallPlaces
  <2>2. toMe \in Seq([cmd : Cmds, arg : Nat]) /\ inbox \in Seq(Message)
    BY DEF Init
  <2>3. QED
    BY <2>1, <2>2 DEF Init, TypeOK, Cmds, Nothing, NoResult
<1>2. InStep /\ Answered
  BY DEF Init, InStep, Answered, Nothing
<1>3. ModeKnown /\ ShownHolds /\ Closed
  BY DEF Init, ModeKnown, ShownHolds, Closed, NoResult
<1>4. QED
  BY <1>1, <1>2, <1>3 DEF Inv

(* Sequences: the rest of one, and one with two more elements.             *)
LEMMA RestIsSeq ==
  ASSUME NEW S, NEW s \in Seq(S), s # <<>>
  PROVE  /\ Len(s) \in Nat \ {0} /\ Head(s) = s[1] /\ s[1] \in S
         /\ Tail(s) \in Seq(S) /\ Len(Tail(s)) = Len(s) - 1
         /\ \A i \in 1 .. Len(Tail(s)) : Tail(s)[i] = s[i + 1]
  OBVIOUS

LEMMA TwoMore ==
  ASSUME NEW S, NEW s \in Seq(S), NEW a \in S, NEW b \in S,
         NEW t, t = s \o <<a, b>>
  PROVE  /\ t \in Seq(S) /\ Len(t) = Len(s) + 2
         /\ \A i \in 1 .. Len(t) :
              \/ i \in 1 .. Len(s) /\ t[i] = s[i]
              \/ i = Len(s) + 1 /\ t[i] = a
              \/ i = Len(s) + 2 /\ t[i] = b
  OBVIOUS

(* What the ME may answer has the types of a message.                      *)
LEMMA AnswerTypes ==
  ASSUME TypeOK, NEW c \in Cmds, NEW r \in Answers(c)
  PROVE  /\ r \in Message /\ r.kind = "reply" /\ r.of = c
         /\ Good(r) => r.word = Word(c)
<1>1. FullLen(c) \in Nat
  BY DEF FullLen, TypeOK, Cmds
<1>2. Word(c) \in {Pre, Ccm, Acm, Junk}
  BY DEF Word, TypeOK, Cmds
<1>3. CASE r = Reply(c, 0, FullLen(c), Word(c))
  BY <1>1, <1>2, <1>3 DEF Reply, Message, Good
<1>4. CASE r = Reply(c, 1, 16, 0)
  BY <1>4 DEF Reply, Message, Good
<1>5. CASE r = Reply(c, 0, 12, 0)
  BY <1>5 DEF Reply, Message, Good
<1>6. QED
  BY <1>3, <1>4, <1>5 DEF Answers

-----------------------------------------------------------------------------
(* The steps of the ME.                                                    *)

LEMMA ServeInv == ASSUME Inv, Serve PROVE Inv'
<1> DEFINE q == Head(toMe)
<1>1. /\ meLink /\ toMe # <<>> /\ toMe' = Tail(toMe)
      /\ UNCHANGED <<link, op, call, meLink, late>>
  BY DEF Serve
<1>2. PICK r \in Answers(q.cmd) :
        /\ inbox' \in {inbox \o <<Fc, r>>, inbox \o <<r, Fc>>}
        /\ mode' = IF r.status = 0 /\ r.len >= 16 /\ r.of = "unprov"
                   THEN Pre ELSE mode
        /\ dns' = IF r.status = 0 /\ r.len >= 16 /\ r.of = "setdns"
                  THEN q.arg ELSE dns
  BY DEF Serve
<1>3. /\ toMe \in Seq([cmd : Cmds, arg : Nat]) /\ inbox \in Seq(Message)
      /\ Len(toMe) \in Nat \ {0} /\ q = toMe[1]
      /\ q.cmd \in Cmds /\ q.arg \in Nat
      /\ toMe' \in Seq([cmd : Cmds, arg : Nat])
      /\ Len(toMe') = Len(toMe) - 1
      /\ \A i \in 1 .. Len(toMe') : toMe'[i] = toMe[i + 1]
      /\ Len(inbox) \in Nat
  <2>1. toMe \in Seq([cmd : Cmds, arg : Nat]) /\ inbox \in Seq(Message)
    BY DEF Inv, TypeOK
  <2>2. /\ Len(toMe) \in Nat \ {0} /\ q = toMe[1]
        /\ toMe[1] \in [cmd : Cmds, arg : Nat]
        /\ toMe' \in Seq([cmd : Cmds, arg : Nat])
        /\ Len(toMe') = Len(toMe) - 1
        /\ \A i \in 1 .. Len(toMe') : toMe'[i] = toMe[i + 1]
    BY <1>1, <2>1, RestIsSeq
  <2>3. QED
    BY <2>1, <2>2
<1> HIDE DEF q
<1>4. /\ r \in Message /\ r.kind = "reply" /\ r.of = q.cmd
      /\ Good(r) => r.word = Word(q.cmd)
  BY <1>3, AnswerTypes DEF Inv
<1>5. Fc \in Message /\ Fc.kind = "fc"
  BY DEF Fc, Message
<1>6. /\ inbox' \in Seq(Message) /\ Len(inbox') = Len(inbox) + 2
      /\ \E k \in {Len(inbox) + 1, Len(inbox) + 2} :
           \A i \in 1 .. Len(inbox') :
             \/ i \in 1 .. Len(inbox) /\ inbox'[i] = inbox[i]
             \/ i # k /\ inbox'[i] = Fc
             \/ i = k /\ inbox'[i] = r
  <2>1. CASE inbox' = inbox \o <<Fc, r>>
    <3>1. /\ inbox' \in Seq(Message) /\ Len(inbox') = Len(inbox) + 2
          /\ \A i \in 1 .. Len(inbox') :
               \/ i \in 1 .. Len(inbox) /\ inbox'[i] = inbox[i]
               \/ i = Len(inbox) + 1 /\ inbox'[i] = Fc
               \/ i = Len(inbox) + 2 /\ inbox'[i] = r
      <4>1. inbox \in Seq(Message) /\ r \in Message /\ Fc \in Message
        BY <1>3, <1>4, <1>5
      <4>2. QED
        BY <2>1, <4>1, TwoMore
    <3>2. QED
      BY <3>1, <1>3
  <2>2. CASE inbox' = inbox \o <<r, Fc>>
    <3>1. /\ inbox' \in Seq(Message) /\ Len(inbox') = Len(inbox) + 2
          /\ \A i \in 1 .. Len(inbox') :
               \/ i \in 1 .. Len(inbox) /\ inbox'[i] = inbox[i]
               \/ i = Len(inbox) + 1 /\ inbox'[i] = r
               \/ i = Len(inbox) + 2 /\ inbox'[i] = Fc
      <4>1. inbox \in Seq(Message) /\ r \in Message /\ Fc \in Message
        BY <1>3, <1>4, <1>5
      <4>2. QED
        BY <2>2, <4>1, TwoMore
    <3>2. QED
      BY <3>1, <1>3
  <2>3. QED
    BY <1>2, <2>1, <2>2
<1>7. /\ mode' \in {Pre, Ccm, Acm} /\ dns' \in Nat
      /\ mode' # mode => q.cmd = "unprov" /\ mode' = Pre
      /\ dns' # dns => q.cmd = "setdns" /\ dns' = q.arg
      /\ Good(r) /\ q.cmd = "unprov" => mode' = Pre
      /\ Good(r) /\ q.cmd = "setdns" => dns' = q.arg
  BY <1>2, <1>3, <1>4 DEF Inv, TypeOK, Good
<1>8. Good(r) => (q.cmd = "mode" => r.word = mode')
  BY <1>4, <1>7, <1>3 DEF Word
<1>9. UNCHANGED <<link, at, tries, entered, shown, cmd, cpc, res, meLink, late>>
  BY <1>1 DEF op, call
<1>10. TypeOK'
  <2>1. PlaceOK'
    BY <1>9 DEF Inv, TypeOK, PlaceOK
  <2>2. QED
    BY <2>1, <1>3, <1>6, <1>7, <1>9 DEF Inv, TypeOK
<1>11. ASSUME ~late
       PROVE  /\ Len(toMe) = 1 /\ q.cmd = cmd /\ cpc = "recv"
              /\ q.arg = entered
              /\ \A i \in 1 .. Len(inbox) : inbox[i].kind # "reply"
  BY <1>3, <1>11 DEF Inv, InStep, Answered
<1>12. InStep'
  <2> SUFFICES ASSUME ~late PROVE InStep'
    BY <1>9 DEF InStep
  <2>1. Len(toMe') = 0 /\ toMe' = <<>>
    BY <1>3, <1>11
  <2>2. PICK k \in {Len(inbox) + 1, Len(inbox) + 2} :
           \A i \in 1 .. Len(inbox') :
             \/ i \in 1 .. Len(inbox) /\ inbox'[i] = inbox[i]
             \/ i # k /\ inbox'[i] = Fc
             \/ i = k /\ inbox'[i] = r
    BY <1>6
  <2>3. \A i \in 1 .. Len(inbox') :
          inbox'[i].kind = "reply" => i = k /\ inbox'[i] = r
    BY <1>5, <1>11, <2>2
  <2>4. QED
    BY <1>4, <1>9, <1>11, <2>1, <2>2, <2>3 DEF InStep
<1>13. Answered'
  <2> SUFFICES ASSUME ~late PROVE Answered'
    BY <1>9 DEF Answered
  <2>1. \A i \in 1 .. Len(inbox') :
          Good(inbox'[i]) => inbox'[i] = r
    BY <1>5, <1>6, <1>11 DEF Good
  <2>2. Good(r) => Effect(r.of, r.word)'
    BY <1>4, <1>7, <1>8, <1>9, <1>11 DEF Effect
  <2>3. Len(toMe') = 0
    BY <1>3, <1>11
  <2>4. ~(cpc' = "done")
    BY <1>9, <1>11
  <2>5. (\A i \in 1 .. Len(inbox) :
           Good(inbox[i]) => Effect(inbox[i].of, inbox[i].word))'
    BY <2>1, <2>2 DEF Effect
  <2>6. QED
    BY <2>3, <2>4, <2>5 DEF Answered
<1>14. ModeKnown'
  <2> SUFFICES ASSUME ~late PROVE ModeKnown'
    BY <1>9 DEF ModeKnown
  <2>1. CASE mode' = mode
    BY <2>1, <1>9 DEF Inv, ModeKnown
  <2>2. CASE mode' # mode
    <3>1. mode' = Pre /\ cmd = "unprov" /\ cpc = "recv"
      BY <2>2, <1>7, <1>11
    <3>2. at = "unprov"
      BY <3>1, UnprovAt DEF Inv, TypeOK
    <3>3. QED
      BY <3>1, <3>2, <1>9 DEF ModeKnown
  <2>3. QED
    BY <2>1, <2>2
<1>15. ShownHolds'
  <2> SUFFICES ASSUME shown.ok, shown.sure PROVE ShownHolds'
    BY <1>9 DEF ShownHolds
  <2>1. q.cmd \in {"mode", "getdns"}
    BY <1>3 DEF Inv, ShownHolds
  <2>2. mode' = mode /\ dns' = dns
    BY <2>1, <1>7
  <2>3. \A i \in 1 .. Len(toMe') : toMe'[i].cmd \in {"mode", "getdns"}
    <3> SUFFICES ASSUME NEW i \in 1 .. Len(toMe')
                 PROVE  toMe'[i].cmd \in {"mode", "getdns"}
      OBVIOUS
    <3>1. i + 1 \in 1 .. Len(toMe) /\ toMe'[i] = toMe[i + 1]
      BY <1>3
    <3>2. QED
      BY <3>1 DEF Inv, ShownHolds
  <2>4. QED
    BY <2>2, <2>3, <1>9 DEF Inv, ShownHolds
<1>16. Closed'
  BY <1>9 DEF Inv, Closed
<1>17. QED
  BY <1>10, <1>12, <1>13, <1>14, <1>15, <1>16 DEF Inv

LEMMA MeDisconnectInv == ASSUME Inv, MeDisconnect PROVE Inv'
<1>1. /\ meLink' = FALSE /\ toMe' = <<>>
      /\ inbox' = Append(inbox, Disconnect)
      /\ UNCHANGED <<link, at, tries, entered, shown, cmd, cpc, res, mode,
                     dns, late>>
  BY DEF MeDisconnect, op, call, amt
<1>2. Disconnect \in Message /\ Disconnect.kind = "disconnect"
  BY DEF Disconnect, Fc, Message
<1>3. inbox \in Seq(Message)
  BY DEF Inv, TypeOK
<1> HIDE DEF Disconnect
<1>4. /\ inbox' \in Seq(Message) /\ Len(inbox') = Len(inbox) + 1
      /\ \A i \in 1 .. Len(inbox) : inbox'[i] = inbox[i]
      /\ inbox'[Len(inbox) + 1].kind = "disconnect"
  BY <1>1, <1>2, <1>3
<1>5. /\ toMe' \in Seq([cmd : Cmds, arg : Nat]) /\ Len(toMe') = 0
  BY <1>1
<1>6. TypeOK'
  <2>1. PlaceOK'
    BY <1>1 DEF Inv, TypeOK, PlaceOK
  <2>2. toMe' \in Seq([cmd : Cmds, arg : Nat]) /\ inbox' \in Seq(Message)
    BY <1>4, <1>5
  <2>3. /\ meLink' \in BOOLEAN
        /\ UNCHANGED <<link, tries, entered, shown, cmd, res, mode, dns, late>>
    BY <1>1
  <2>4. QED
    BY <2>1, <2>2, <2>3 DEF Inv, TypeOK
<1>7. \A i \in 1 .. Len(inbox') :
        inbox'[i].kind = "reply" =>
          i \in 1 .. Len(inbox) /\ inbox'[i] = inbox[i]
  BY <1>3, <1>4
<1>8. InStep'
  BY <1>1, <1>3, <1>4, <1>5, <1>7 DEF Inv, InStep
<1>9. Answered'
  BY <1>1, <1>5, <1>7 DEF Inv, Answered, Good, Effect
<1>10. ModeKnown' /\ ShownHolds' /\ Closed'
  BY <1>1, <1>5 DEF Inv, ModeKnown, ShownHolds, Closed
<1>11. QED
  BY <1>6, <1>8, <1>9, <1>10 DEF Inv

-----------------------------------------------------------------------------
(* The steps of pthi_call.                                                 *)

LEMMA SendInv == ASSUME Inv, Send PROVE Inv'
<1>1. /\ cpc = "send" /\ cpc' = "recv"
      /\ toMe' = Append(toMe, Request) \/ toMe' = toMe
      /\ UNCHANGED <<link, at, tries, entered, shown, cmd, res, inbox, meLink,
                     mode, dns, late>>
  BY DEF Send, op, amt
<1>2. Request = [cmd |-> cmd, arg |-> entered]
      /\ Request \in [cmd : Cmds, arg : Nat]
  BY DEF Request, Inv, TypeOK
<1>3. toMe \in Seq([cmd : Cmds, arg : Nat])
  BY DEF Inv, TypeOK
<1> HIDE DEF Request
<1>4. /\ toMe' \in Seq([cmd : Cmds, arg : Nat])
      /\ \A i \in 1 .. Len(toMe') :
           \/ i \in 1 .. Len(toMe) /\ toMe'[i] = toMe[i]
           \/ i = Len(toMe) + 1 /\ toMe'[i] = Request
  <2>1. CASE toMe' = toMe
    BY <2>1, <1>3
  <2>2. CASE toMe' = Append(toMe, Request)
    BY <2>2, <1>2, <1>3
  <2>3. QED
    BY <1>1, <2>1, <2>2
<1>5. TypeOK'
  <2>1. PlaceOK'
    BY <1>1, CallCmds DEF Inv, TypeOK, PlaceOK, KeyPlaces
  <2>2. QED
    BY <2>1, <1>1, <1>4 DEF Inv, TypeOK
<1>6. InStep' /\ Answered'
  <2> SUFFICES ASSUME ~late PROVE InStep' /\ Answered'
    BY <1>1 DEF InStep, Answered
  <2>1. Len(toMe) = 0 /\ \A i \in 1 .. Len(inbox) : inbox[i].kind # "reply"
    BY <1>1, <1>3 DEF Inv, InStep
  <2>2. \A i \in 1 .. Len(toMe') :
          i = 1 /\ toMe'[i].cmd = cmd /\ toMe'[i].arg = entered
    BY <1>2, <1>3, <1>4, <2>1
  <2>3. InStep'
    BY <1>1, <2>1, <2>2 DEF InStep
  <2>4. Answered'
    BY <1>1, <2>1, <2>2 DEF Answered, Good
  <2>5. QED
    BY <2>3, <2>4
<1>7. ModeKnown' /\ Closed'
  BY <1>1 DEF Inv, ModeKnown, Closed
<1>8. ShownHolds'
  <2> SUFFICES ASSUME shown.ok, shown.sure PROVE ShownHolds'
    BY <1>1 DEF ShownHolds
  <2>1. cmd \in {"mode", "getdns"}
    BY <1>1, CallCmds DEF Inv, ShownHolds, TypeOK, PlaceOK, KeyPlaces
  <2>2. \A i \in 1 .. Len(toMe') : toMe'[i].cmd \in {"mode", "getdns"}
    BY <1>2, <1>4, <2>1 DEF Inv, ShownHolds
  <2>3. QED
    BY <1>1, <2>2 DEF Inv, ShownHolds
<1>9. QED
  BY <1>5, <1>6, <1>7, <1>8 DEF Inv

LEMMA SendFailsInv == ASSUME Inv, SendFails PROVE Inv'
<1>1. /\ cpc = "send" /\ cpc' = "done" /\ res' = Nothing
      /\ \/ UNCHANGED <<toMe, late>>
         \/ toMe' = Append(toMe, Request) /\ late' = TRUE
      /\ UNCHANGED <<link, at, tries, entered, shown, cmd, inbox, meLink,
                     mode, dns>>
  BY DEF SendFails, Return, op, amt
<1>2. Request = [cmd |-> cmd, arg |-> entered]
      /\ Request \in [cmd : Cmds, arg : Nat]
  BY DEF Request, Inv, TypeOK
<1>3. toMe \in Seq([cmd : Cmds, arg : Nat])
  BY DEF Inv, TypeOK
<1> HIDE DEF Request
<1>4. /\ toMe' \in Seq([cmd : Cmds, arg : Nat])
      /\ \A i \in 1 .. Len(toMe') :
           \/ i \in 1 .. Len(toMe) /\ toMe'[i] = toMe[i]
           \/ i = Len(toMe) + 1 /\ toMe'[i] = Request
  <2>1. CASE toMe' = toMe
    BY <2>1, <1>3
  <2>2. CASE toMe' = Append(toMe, Request)
    BY <2>2, <1>2, <1>3
  <2>3. QED
    BY <1>1, <2>1, <2>2
<1>5. TypeOK'
  <2>1. PlaceOK'
    BY <1>1, CallCmds DEF Inv, TypeOK, PlaceOK, KeyPlaces
  <2>2. late' \in BOOLEAN
    BY <1>1 DEF Inv, TypeOK
  <2>3. QED
    BY <2>1, <2>2, <1>1, <1>4 DEF Inv, TypeOK, Nothing
<1>6. InStep' /\ Answered'
  <2> SUFFICES ASSUME ~late' PROVE InStep' /\ Answered'
    BY DEF InStep, Answered
  <2>1. ~late /\ toMe' = toMe
    BY <1>1
  <2>2. Len(toMe) = 0 /\ \A i \in 1 .. Len(inbox) : inbox[i].kind # "reply"
    BY <1>1, <1>3, <2>1 DEF Inv, InStep
  <2>3. InStep'
    BY <1>1, <2>1, <2>2 DEF InStep
  <2>4. Answered'
    BY <1>1, <2>1, <2>2 DEF Answered, Good, Nothing
  <2>5. QED
    BY <2>3, <2>4
<1>7. ModeKnown' /\ Closed'
  BY <1>1 DEF Inv, ModeKnown, Closed
<1>8. ShownHolds'
  <2> SUFFICES ASSUME shown.ok, shown.sure PROVE ShownHolds'
    BY <1>1 DEF ShownHolds
  <2>1. cmd \in {"mode", "getdns"}
    BY <1>1, CallCmds DEF Inv, ShownHolds, TypeOK, PlaceOK, KeyPlaces
  <2>2. \A i \in 1 .. Len(toMe') : toMe'[i].cmd \in {"mode", "getdns"}
    BY <1>2, <1>4, <2>1 DEF Inv, ShownHolds
  <2>3. QED
    BY <1>1, <2>2 DEF Inv, ShownHolds
<1>9. QED
  BY <1>5, <1>6, <1>7, <1>8 DEF Inv

(* A message taken from the inbox leaves the rest in their order.          *)
LEMMA InboxRest ==
  ASSUME TypeOK, inbox # <<>>, inbox' = Tail(inbox)
  PROVE  /\ Len(inbox) \in Nat \ {0} /\ Head(inbox) = inbox[1]
         /\ inbox[1] \in Message
         /\ inbox' \in Seq(Message)
         /\ \A i \in 1 .. Len(inbox') :
              i + 1 \in 2 .. Len(inbox) /\ inbox'[i] = inbox[i + 1]
<1>1. inbox \in Seq(Message)
  BY DEF TypeOK
<1>2. /\ Len(inbox) \in Nat \ {0} /\ Head(inbox) = inbox[1]
      /\ inbox[1] \in Message
      /\ inbox' \in Seq(Message) /\ Len(inbox') = Len(inbox) - 1
      /\ \A i \in 1 .. Len(inbox') : inbox'[i] = inbox[i + 1]
  BY <1>1, RestIsSeq
<1>3. \A i \in 1 .. Len(inbox') : i + 1 \in 2 .. Len(inbox)
  BY <1>2
<1>4. QED
  BY <1>2, <1>3

LEMMA SkipHbmInv == ASSUME Inv, SkipHbm PROVE Inv'
<1>1. /\ cpc = "recv" /\ inbox # <<>> /\ inbox' = Tail(inbox)
      /\ UNCHANGED <<link, at, tries, entered, shown, cmd, cpc, res, toMe,
                     meLink, mode, dns, late>>
  BY DEF SkipHbm, op, call, amt
<1>2. /\ Len(inbox) \in Nat \ {0}
      /\ inbox' \in Seq(Message)
      /\ \A i \in 1 .. Len(inbox') :
           i + 1 \in 2 .. Len(inbox) /\ inbox'[i] = inbox[i + 1]
  BY <1>1, InboxRest DEF Inv
<1>3. TypeOK'
  <2>1. PlaceOK'
    BY <1>1 DEF Inv, TypeOK, PlaceOK
  <2>2. QED
    BY <2>1, <1>1, <1>2 DEF Inv, TypeOK
<1>4. \A i \in 1 .. Len(inbox') :
        i + 1 \in 1 .. Len(inbox) /\ inbox'[i] = inbox[i + 1]
  BY <1>2
<1>5. InStep'
  <2> SUFFICES ASSUME ~late PROVE InStep'
    BY <1>1 DEF InStep
  <2>1. ASSUME NEW i \in 1 .. Len(inbox'), inbox'[i].kind = "reply"
        PROVE  /\ inbox'[i].of = cmd /\ toMe = <<>>
               /\ \A j \in 1 .. Len(inbox') : inbox'[j].kind = "reply" => j = i
    <3>1. /\ inbox[i + 1].of = cmd /\ toMe = <<>>
          /\ \A j \in 1 .. Len(inbox) : inbox[j].kind = "reply" => j = i + 1
      BY <1>4, <2>1 DEF Inv, InStep
    <3>2. \A j \in 1 .. Len(inbox') : inbox'[j].kind = "reply" => j + 1 = i + 1
      BY <1>4, <3>1
    <3>3. QED
      BY <3>1, <3>2, <1>4
  <2>2. QED
    BY <1>1, <2>1 DEF Inv, InStep
<1>6. Answered'
  BY <1>1, <1>4 DEF Inv, Answered, Good, Effect
<1>7. ModeKnown' /\ ShownHolds' /\ Closed'
  BY <1>1 DEF Inv, ModeKnown, ShownHolds, Closed
<1>8. QED
  BY <1>3, <1>5, <1>6, <1>7 DEF Inv

LEMMA ReceiveInv == ASSUME Inv, Receive PROVE Inv'
<1> DEFINE m == Head(inbox)
<1>1. /\ cpc = "recv" /\ cpc' = "done" /\ inbox # <<>> /\ m.kind = "reply"
      /\ inbox' = Tail(inbox) /\ res' = Accept(m)
      /\ UNCHANGED <<link, at, tries, entered, shown, cmd, toMe,
                     meLink, mode, dns, late>>
  BY DEF Receive, Return, op, amt
<1>2. /\ Len(inbox) \in Nat \ {0} /\ m = inbox[1] /\ m \in Message
      /\ inbox' \in Seq(Message)
      /\ \A i \in 1 .. Len(inbox') :
           i + 1 \in 2 .. Len(inbox) /\ inbox'[i] = inbox[i + 1]
  BY <1>1, InboxRest DEF Inv
<1> HIDE DEF m
<1>3. MinLen(cmd) \in Nat /\ MinLen(cmd) >= 16
  BY DEF MinLen
<1>4. \/ res' = Nothing
      \/ Good(m) /\ res' = [ok |-> TRUE, of |-> m.of, word |-> m.word]
  BY <1>1, <1>2, <1>3 DEF Accept, Good, Message
<1>5. TypeOK'
  <2>1. PlaceOK'
    BY <1>1, CallCmds DEF Inv, TypeOK, PlaceOK, KeyPlaces
  <2>2. res' \in [ok : BOOLEAN, of : Cmds \cup {"none"},
                  word : {Pre, Ccm, Acm, Junk}]
    <3>1. m.of \in Cmds \cup {"none"} /\ m.word \in {Pre, Ccm, Acm, Junk}
      BY <1>2 DEF Message
    <3>2. CASE res' = Nothing
      BY <3>2 DEF Nothing
    <3>3. CASE res' = [ok |-> TRUE, of |-> m.of, word |-> m.word]
      BY <3>1, <3>3
    <3>4. QED
      BY <1>4, <3>2, <3>3
  <2>3. QED
    BY <2>1, <2>2, <1>1, <1>2 DEF Inv, TypeOK
<1>6. InStep' /\ Answered'
  <2> SUFFICES ASSUME ~late PROVE InStep' /\ Answered'
    BY <1>1 DEF InStep, Answered
  <2>1. /\ m.of = cmd /\ toMe = <<>>
        /\ \A j \in 1 .. Len(inbox) : inbox[j].kind = "reply" => j = 1
        /\ Good(m) => Effect(m.of, m.word)
    BY <1>1, <1>2 DEF Inv, InStep, Answered
  <2>2. \A i \in 1 .. Len(inbox') : inbox'[i].kind # "reply"
    BY <1>2, <2>1
  <2>3. Len(toMe) = 0
    BY <2>1
  <2>4. res'.ok => res'.of = cmd /\ Effect(res'.of, res'.word)
    BY <1>4, <2>1 DEF Nothing
  <2>5. InStep'
    BY <1>1, <2>2, <2>3 DEF InStep
  <2>6. Answered'
    BY <1>1, <2>2, <2>3, <2>4 DEF Answered, Good, Effect
  <2>7. QED
    BY <2>5, <2>6
<1>7. ModeKnown' /\ ShownHolds' /\ Closed'
  BY <1>1 DEF Inv, ModeKnown, ShownHolds, Closed
<1>8. QED
  BY <1>5, <1>6, <1>7 DEF Inv

LEMMA ReceiveTimeoutInv == ASSUME Inv, ReceiveTimeout PROVE Inv'
<1>1. /\ cpc = "recv" /\ cpc' = "done" /\ inbox = <<>> /\ res' = Nothing
      /\ late' = (late \/ toMe # <<>>)
      /\ UNCHANGED <<link, at, tries, entered, shown, cmd, toMe, inbox,
                     meLink, mode, dns>>
  BY DEF ReceiveTimeout, Return, op, chan, amt
<1>2. TypeOK'
  <2>1. PlaceOK'
    BY <1>1, CallCmds DEF Inv, TypeOK, PlaceOK, KeyPlaces
  <2>2. late' \in BOOLEAN
    BY <1>1
  <2>3. QED
    BY <2>1, <2>2, <1>1 DEF Inv, TypeOK, Nothing
<1>3. InStep' /\ Answered'
  <2> SUFFICES ASSUME ~late' PROVE InStep' /\ Answered'
    BY DEF InStep, Answered
  <2>1. toMe = <<>> /\ Len(toMe) = 0 /\ Len(inbox) = 0
    BY <1>1
  <2>2. QED
    BY <1>1, <2>1 DEF InStep, Answered, Nothing
<1>4. ModeKnown' /\ ShownHolds' /\ Closed'
  BY <1>1 DEF Inv, ModeKnown, ShownHolds, Closed
<1>5. QED
  BY <1>2, <1>3, <1>4 DEF Inv

-----------------------------------------------------------------------------
(* The steps of the program.  Between two calls nothing is on the way,     *)
(* unless a command was given up on.                                       *)

LEMMA BetweenCalls ==
  ASSUME Inv, cpc # "recv", ~late
  PROVE  /\ toMe = <<>> /\ Len(toMe) = 0
         /\ \A i \in 1 .. Len(inbox) : inbox[i].kind # "reply"
<1>1. toMe \in Seq([cmd : Cmds, arg : Nat])
  BY DEF Inv, TypeOK
<1>2. \A i \in 1 .. Len(toMe) : FALSE
  BY DEF Inv, InStep
<1>3. QED
  BY <1>1, <1>2 DEF Inv, InStep

LEMMA QuietStep ==
  ASSUME Inv, cpc # "recv", cpc' \in {"send", "idle"},
         \/ UNCHANGED <<toMe, inbox, late>>
         \/ toMe' = <<>> /\ inbox' = <<>>
  PROVE  InStep' /\ Answered'
<1>1. CASE toMe' = <<>> /\ inbox' = <<>>
  <2>1. Len(toMe') = 0 /\ Len(inbox') = 0
    BY <1>1
  <2>2. QED
    BY <2>1 DEF InStep, Answered
<1>2. CASE UNCHANGED <<toMe, inbox, late>> /\ late
  BY <1>2 DEF InStep, Answered
<1>3. CASE UNCHANGED <<toMe, inbox, late>> /\ ~late
  <2>1. Len(toMe') = 0 /\ \A i \in 1 .. Len(inbox') : inbox'[i].kind # "reply"
    BY <1>3, BetweenCalls
  <2>2. QED
    BY <2>1 DEF InStep, Answered, Good
<1>4. QED
  BY <1>1, <1>2, <1>3

(* The place, the call and the answer are in order after a step that      *)
(* starts a call or waits for a key.                                       *)
Placed ==
  /\ PlaceOK' /\ cpc' \in {"send", "idle"} /\ cmd' \in Cmds
  /\ res' \in [ok : BOOLEAN, of : Cmds \cup {"none"},
               word : {Pre, Ccm, Acm, Junk}]

LEMMA BeginPlaced ==
  ASSUME NEW p \in CallPlaces, p # "info", NEW c \in CallOf(p), Begin(p, c)
  PROVE  Placed /\ at' = p /\ cpc' = "send"
<1>1. at' = p /\ cmd' = c /\ cpc' = "send" /\ res' = Nothing
  BY DEF Begin
<1>2. PlaceOK'
  BY <1>1 DEF PlaceOK
<1>3. QED
  BY <1>1, <1>2, CallCmds DEF Nothing, Placed

LEMMA BeginInfo ==
  ASSUME NEW i \in 1 .. 7, Begin("info", InfoScript[i]), tries' = i
  PROVE  Placed /\ at' = "info"
<1>1. at' = "info" /\ cmd' = InfoScript[i] /\ cpc' = "send" /\ res' = Nothing
  BY DEF Begin
<1>2. PlaceOK'
  BY <1>1, ScriptCmds, CallCmds DEF PlaceOK, CallPlaces
<1>3. cmd' \in Cmds
  BY <1>1, ScriptCmds DEF Cmds
<1>4. QED
  BY <1>1, <1>2, <1>3 DEF Nothing, Placed

LEMMA AwaitPlaced ==
  ASSUME Inv, NEW p \in KeyPlaces, Await(p)
  PROVE  Placed /\ at' = p /\ cpc' = "idle"
<1>1. at' = p /\ cpc' = "idle" /\ cmd' = cmd /\ res' = res
  BY DEF Await
<1>2. PlaceOK'
  BY <1>1 DEF PlaceOK, KeyPlaces
<1>3. QED
  BY <1>1, <1>2 DEF Inv, TypeOK, Placed

LEMMA ToMenuPlaced ==
  ASSUME ToMenu
  PROVE  Placed /\ at' = "menu"
<1>1. "menu" \in CallPlaces /\ "mode" \in CallOf("menu")
      /\ Begin("menu", "mode")
  BY CallCmds DEF ToMenu, CallPlaces
<1>2. QED
  BY <1>1, BeginPlaced

(* A step of the program that sends and receives nothing.                  *)
Kept == UNCHANGED <<link, entered, shown, toMe, inbox, meLink, mode, dns, late>>

LEMMA KeptStep ==
  ASSUME Inv, Kept, Placed, tries' \in Nat, cpc # "recv", link # "closed",
         ModeKnown', at' = "menu" \/ at \notin {"newMode", "dnsNew", "menu"}
  PROVE  Inv'
<1>1. TypeOK'
  BY DEF Inv, TypeOK, Kept, Placed
<1>2. InStep' /\ Answered'
  BY QuietStep DEF Kept, Placed
<1>3. Closed'
  BY DEF Closed, Kept
<1>4. ShownHolds'
  BY DEF Inv, ShownHolds, Kept
<1>5. QED
  BY <1>1, <1>2, <1>3, <1>4 DEF Inv

(* Most of them conclude nothing from a control mode.                      *)
LEMMA PlainStep ==
  ASSUME Inv, Kept, Placed, tries' \in Nat, cpc # "recv", link # "closed",
         at' \notin {"confirm", "unprov", "lsa", "tunnel"},
         at' = "menu" \/ at \notin {"newMode", "dnsNew", "menu"}
  PROVE  Inv'
<1>1. ModeKnown'
  BY DEF ModeKnown
<1>2. QED
  BY <1>1, KeptStep

(* A step that initializes the interface again.                            *)
LEMMA ReinitStep ==
  ASSUME Inv, Reinit, Placed, tries' \in Nat, entered' = entered,
         cpc # "recv", mode' \in {Pre, Ccm, Acm}, dns' = dns,
         shown' \in [op : {"none", "unprov", "setdns"}, ok : BOOLEAN,
                     sure : BOOLEAN],
         ModeKnown', ShownHolds'
  PROVE  Inv'
<1>1. /\ link' \in {"amthi", "failed"} /\ link' # "closed"
      /\ meLink' \in BOOLEAN /\ toMe' = <<>> /\ inbox' = <<>>
      /\ late' = FALSE
  BY DEF Reinit
<1>2. TypeOK'
  <2>1. toMe' \in Seq([cmd : Cmds, arg : Nat]) /\ inbox' \in Seq(Message)
    BY <1>1
  <2>2. QED
    BY <1>1, <2>1 DEF Inv, TypeOK, Placed
<1>3. InStep' /\ Answered'
  BY <1>1, QuietStep DEF Placed
<1>4. Closed'
  BY <1>1 DEF Closed
<1>5. QED
  BY <1>2, <1>3, <1>4 DEF Inv

LEMMA MenuInv == ASSUME Inv, Menu PROVE Inv'
<1>1. /\ cpc = "done" /\ Await("key") /\ shown' = NoResult
      /\ tries' = 0 /\ entered' = 0
      /\ UNCHANGED <<link, toMe, inbox, meLink, mode, dns, late>>
      /\ at = "menu"
  BY DEF Menu, Done, chan, amt
<1>2. Placed /\ at' = "key" /\ cpc' = "idle"
  BY <1>1, AwaitPlaced DEF KeyPlaces
<1>3. TypeOK'
  BY <1>1, <1>2 DEF Inv, TypeOK, NoResult, Placed
<1>4. InStep' /\ Answered'
  BY <1>1, <1>2, QuietStep
<1>5. ModeKnown' /\ ShownHolds' /\ Closed'
  BY <1>1, <1>2 DEF Inv, ModeKnown, ShownHolds, Closed, NoResult
<1>6. QED
  BY <1>3, <1>4, <1>5 DEF Inv

LEMMA KeyInv == ASSUME Inv, Key PROVE Inv'
<1>1. /\ at = "key" /\ cpc = "idle" /\ link # "closed" /\ tries \in Nat
      /\ UNCHANGED <<entered, shown, toMe, inbox, meLink, mode, dns, late>>
  BY DEF Key, chan, amt, Inv, TypeOK, PlaceOK, Closed, CallPlaces
<1>2. ASSUME UNCHANGED link PROVE Kept
  BY <1>1, <1>2 DEF Kept
<1>3. CASE Begin("versions", "versions") /\ tries' = 1 /\ UNCHANGED link
  <2>1. Placed /\ at' = "versions" /\ tries' \in Nat
    BY <1>3, BeginPlaced, CallCmds DEF CallPlaces
  <2>2. QED
    BY <1>1, <1>2, <1>3, <2>1, PlainStep
<1>4. CASE Begin("deact", "mode") /\ UNCHANGED <<tries, link>>
  <2>1. Placed /\ at' = "deact" /\ tries' \in Nat
    BY <1>1, <1>4, BeginPlaced, CallCmds DEF CallPlaces
  <2>2. QED
    BY <1>1, <1>2, <1>4, <2>1, PlainStep
<1>5. CASE Begin("act", "mode") /\ UNCHANGED <<tries, link>>
  <2>1. Placed /\ at' = "act" /\ tries' \in Nat
    BY <1>1, <1>5, BeginPlaced, CallCmds DEF CallPlaces
  <2>2. QED
    BY <1>1, <1>2, <1>5, <2>1, PlainStep
<1>6. CASE Begin("dnsOld", "getdns") /\ UNCHANGED <<tries, link>>
  <2>1. Placed /\ at' = "dnsOld" /\ tries' \in Nat
    BY <1>1, <1>6, BeginPlaced, CallCmds DEF CallPlaces
  <2>2. QED
    BY <1>1, <1>2, <1>6, <2>1, PlainStep
<1>7. CASE ToMenu /\ UNCHANGED <<tries, link>>
  <2>1. Placed /\ at' = "menu" /\ tries' \in Nat
    BY <1>1, <1>7, ToMenuPlaced
  <2>2. QED
    BY <1>1, <1>2, <1>7, <2>1, PlainStep
<1>8. CASE Await("quit") /\ link' = "closed" /\ UNCHANGED tries
  <2>1. Placed /\ at' = "quit" /\ cpc' = "idle"
    BY <1>8, AwaitPlaced DEF KeyPlaces
  <2>2. TypeOK'
    BY <1>1, <1>8, <2>1 DEF Inv, TypeOK, Placed
  <2>3. InStep' /\ Answered'
    BY <1>1, <2>1, QuietStep
  <2>4. ModeKnown' /\ ShownHolds' /\ Closed'
    BY <1>1, <1>8, <2>1 DEF Inv, ModeKnown, ShownHolds, Closed
  <2>5. QED
    BY <2>2, <2>3, <2>4 DEF Inv
<1>9. QED
  BY <1>3, <1>4, <1>5, <1>6, <1>7, <1>8 DEF Key

(* Nothing that is still shown was shown before do_amt_info or a tunnel.   *)
LEMMA ShownElsewhere ==
  ASSUME Inv, at \notin {"newMode", "dnsNew", "menu"}, shown' = shown
  PROVE  ShownHolds'
  BY DEF Inv, ShownHolds

LEMMA RetryInv == ASSUME Inv, Retry PROVE Inv'
<1>1. /\ at = "versions" /\ cpc # "recv" /\ Reinit
      /\ entered' = entered /\ mode' \in {Pre, Ccm, Acm} /\ dns' = dns
      /\ shown' = shown
      /\ shown' \in [op : {"none", "unprov", "setdns"}, ok : BOOLEAN,
                     sure : BOOLEAN]
      /\ tries \in Nat
  BY DEF Retry, Done, amt, Inv, TypeOK
<1>2. ShownHolds'
  BY <1>1, ShownElsewhere
<1>3. Placed /\ at' \in {"versions", "info"} /\ tries' \in Nat
  <2>1. CASE Begin("versions", "versions") /\ tries' = tries + 1
    BY <1>1, <2>1, BeginPlaced, CallCmds DEF CallPlaces
  <2>2. CASE Begin("info", InfoScript[1]) /\ tries' = 1
    BY <2>2, BeginInfo
  <2>3. QED
    BY <2>1, <2>2 DEF Retry
<1>4. ModeKnown'
  BY <1>3 DEF ModeKnown
<1>5. QED
  BY <1>1, <1>2, <1>3, <1>4, ReinitStep

(* The steps that read an answer and send and receive nothing keep all but *)
(* the place and the call.                                                 *)
LEMMA VersionsReadInv == ASSUME Inv, VersionsRead PROVE Inv'
<1>1. /\ at = "versions" /\ cpc # "recv" /\ tries' = 1 /\ tries' \in Nat
      /\ Begin("info", InfoScript[1]) /\ link # "closed"
  BY DEF VersionsRead, Done, Inv, Closed
<1>2. Kept
  BY DEF VersionsRead, Kept, chan, amt
<1>3. Placed /\ at' = "info"
  BY <1>1, BeginInfo
<1>4. QED
  BY <1>1, <1>2, <1>3, PlainStep

LEMMA InfoInv == ASSUME Inv, Info PROVE Inv'
<1>1. at = "info" /\ cpc # "recv" /\ link # "closed" /\ tries \in 1 .. 7
  BY ScriptCmds DEF Info, Done, Inv, Closed, TypeOK, PlaceOK
<1>2. Kept
  BY DEF Info, Kept, chan, amt
<1>3. Placed /\ at' \in {"info", "menu"} /\ tries' \in Nat
  <2>1. CASE tries < 7
    <3>1. /\ Begin("info", InfoScript[tries + 1]) /\ tries' = tries + 1
          /\ tries + 1 \in 1 .. 7
      BY <1>1, <2>1, ScriptCmds DEF Info
    <3>2. QED
      BY <3>1, BeginInfo
  <2>2. CASE ~(tries < 7)
    BY <1>1, <2>2, ScriptCmds, ToMenuPlaced DEF Info
  <2>3. QED
    BY <2>1, <2>2
<1>4. QED
  BY <1>1, <1>2, <1>3, PlainStep

LEMMA DeactivateInv == ASSUME Inv, Deactivate PROVE Inv'
<1>1. /\ at = "deact" /\ cpc = "done" /\ link # "closed" /\ tries' \in Nat
      /\ cmd = "mode"
  BY CallCmds DEF Deactivate, Done, Inv, Closed, TypeOK, PlaceOK, KeyPlaces
<1>2. Kept
  BY DEF Deactivate, Kept, chan, amt
<1>3. CASE ~Deactivatable
  <2>1. Placed /\ at' = "menu"
    BY <1>3, ToMenuPlaced DEF Deactivate
  <2>2. QED
    BY <1>1, <1>2, <2>1, PlainStep
<1>4. CASE Deactivatable
  <2>1. Placed /\ at' = "confirm"
    BY <1>4, AwaitPlaced DEF Deactivate, KeyPlaces
  <2>2. ModeKnown'
    <3> SUFFICES ASSUME ~late PROVE ModeKnown'
      BY <1>2 DEF Kept, ModeKnown
    <3>1. res.word = mode /\ mode \in {Pre, Ccm, Acm}
      BY <1>1, <1>4 DEF Deactivatable, Inv, Answered, Effect, TypeOK
    <3>2. mode' = Ccm
      BY <1>2, <1>4, <3>1 DEF Deactivatable, Kept
    <3>3. QED
      BY <2>1, <3>2 DEF ModeKnown
  <2>3. QED
    BY <1>1, <1>2, <2>1, <2>2, KeptStep
<1>5. QED
  BY <1>3, <1>4

LEMMA ConfirmInv == ASSUME Inv, Confirm PROVE Inv'
<1>1. /\ at = "confirm" /\ cpc # "recv" /\ link # "closed" /\ tries' \in Nat
  BY DEF Confirm, Inv, Closed, TypeOK, PlaceOK, CallPlaces
<1>2. Kept
  BY DEF Confirm, Kept, chan, amt
<1>3. CASE ToMenu
  <2>1. Placed /\ at' = "menu"
    BY <1>3, ToMenuPlaced
  <2>2. QED
    BY <1>1, <1>2, <2>1, PlainStep
<1>4. CASE Begin("unprov", "unprov")
  <2>1. Placed /\ at' = "unprov"
    BY <1>4, BeginPlaced, CallCmds DEF CallPlaces
  <2>2. ModeKnown'
    BY <1>1, <1>2, <2>1 DEF Inv, ModeKnown, Kept
  <2>3. QED
    BY <1>1, <1>2, <2>1, <2>2, KeptStep
<1>5. QED
  BY <1>3, <1>4 DEF Confirm

LEMMA UnprovisionedInv == ASSUME Inv, Unprovisioned PROVE Inv'
<1>1. /\ at = "unprov" /\ cpc = "done" /\ cpc # "recv" /\ cmd = "unprov"
      /\ Reinit /\ tries' \in Nat /\ entered' = entered
      /\ mode' = mode /\ dns' = dns /\ mode' \in {Pre, Ccm, Acm}
      /\ shown' = [op |-> "unprov", ok |-> res.ok, sure |-> ~late]
  BY CallCmds DEF Unprovisioned, Done, Show, amt, Inv, TypeOK, PlaceOK,
                  KeyPlaces
<1>2. shown' \in [op : {"none", "unprov", "setdns"}, ok : BOOLEAN,
                  sure : BOOLEAN]
  BY <1>1 DEF Inv, TypeOK
<1>3. Placed /\ at' = IF res.ok THEN "newMode" ELSE "menu"
  <2>1. CASE res.ok
    <3>1. Begin("newMode", "mode")
      BY <2>1 DEF Unprovisioned
    <3>2. Placed /\ at' = "newMode"
      BY <3>1, BeginPlaced, CallCmds DEF CallPlaces
    <3>3. QED
      BY <2>1, <3>2
  <2>2. CASE ~res.ok
    BY <2>2, ToMenuPlaced DEF Unprovisioned
  <2>3. QED
    BY <2>1, <2>2
<1>4. ModeKnown'
  BY <1>3 DEF ModeKnown
<1>5. ShownHolds'
  <2> SUFFICES ASSUME res.ok, ~late PROVE ShownHolds'
    BY <1>1 DEF ShownHolds
  <2>1. mode = Pre
    BY <1>1 DEF Inv, Answered, Effect
  <2>2. toMe' = <<>>
    BY <1>1 DEF Reinit
  <2>3. QED
    BY <1>1, <1>3, <2>1, <2>2 DEF ShownHolds
<1>6. QED
  BY <1>1, <1>2, <1>3, <1>4, <1>5, ReinitStep

LEMMA NewModeInv == ASSUME Inv, NewMode PROVE Inv'
<1>1. at = "newMode" /\ cpc # "recv" /\ link # "closed" /\ tries' \in Nat
  BY DEF NewMode, Done, Inv, Closed, TypeOK
<1>2. Kept
  BY DEF NewMode, Kept, chan, amt
<1>3. Placed /\ at' = "menu"
  BY ToMenuPlaced DEF NewMode
<1>4. QED
  BY <1>1, <1>2, <1>3, PlainStep

LEMMA DnsOldInv == ASSUME Inv, DnsOld PROVE Inv'
<1>1. at = "dnsOld" /\ cpc # "recv" /\ link # "closed" /\ tries' \in Nat
  BY DEF DnsOld, Done, Inv, Closed, TypeOK
<1>2. Kept
  BY DEF DnsOld, Kept, chan, amt
<1>3. Placed /\ at' = "line"
  BY AwaitPlaced DEF DnsOld, KeyPlaces
<1>4. QED
  BY <1>1, <1>2, <1>3, PlainStep

LEMMA DnsNewInv == ASSUME Inv, DnsNew PROVE Inv'
<1>1. at = "dnsNew" /\ cpc # "recv" /\ link # "closed" /\ tries' \in Nat
  BY DEF DnsNew, Done, Inv, Closed, TypeOK
<1>2. Kept
  BY DEF DnsNew, Kept, chan, amt
<1>3. Placed /\ at' = "menu"
  BY ToMenuPlaced DEF DnsNew
<1>4. QED
  BY <1>1, <1>2, <1>3, PlainStep

LEMMA LineInv == ASSUME Inv, Line PROVE Inv'
<1>1. /\ at = "line" /\ cpc # "recv" /\ link # "closed" /\ entered' \in Suffixes
      /\ Begin("setdns", "setdns")
      /\ UNCHANGED <<link, tries, shown, toMe, inbox, meLink, mode, dns, late>>
  BY DEF Line, Inv, Closed, TypeOK, PlaceOK, CallPlaces, chan, amt
<1>2. Placed /\ at' = "setdns" /\ cpc' = "send"
  BY <1>1, BeginPlaced, CallCmds DEF CallPlaces
<1>3. TypeOK'
  BY <1>1, <1>2, PthiAssumption DEF Inv, TypeOK, Placed
<1>4. InStep' /\ Answered'
  BY <1>1, <1>2, QuietStep
<1>5. ModeKnown' /\ ShownHolds' /\ Closed'
  BY <1>1, <1>2 DEF Inv, ModeKnown, ShownHolds, Closed
<1>6. QED
  BY <1>3, <1>4, <1>5 DEF Inv

LEMMA DnsSetInv == ASSUME Inv, DnsSet PROVE Inv'
<1>1. /\ at = "setdns" /\ cpc = "done" /\ cpc # "recv" /\ cmd = "setdns"
      /\ link # "closed" /\ tries' \in Nat
      /\ shown' = [op |-> "setdns", ok |-> res.ok, sure |-> ~late]
      /\ UNCHANGED <<link, entered, toMe, inbox, meLink, mode, dns, late>>
  BY CallCmds DEF DnsSet, Done, Show, chan, amt, Inv, TypeOK, PlaceOK,
                  KeyPlaces, Closed
<1>2. Placed /\ at' = IF res.ok THEN "dnsNew" ELSE "menu"
  <2>1. CASE res.ok
    <3>1. Begin("dnsNew", "getdns")
      BY <2>1 DEF DnsSet
    <3>2. Placed /\ at' = "dnsNew"
      BY <3>1, BeginPlaced, CallCmds DEF CallPlaces
    <3>3. QED
      BY <2>1, <3>2
  <2>2. CASE ~res.ok
    BY <2>2, ToMenuPlaced DEF DnsSet
  <2>3. QED
    BY <2>1, <2>2
<1>3. TypeOK'
  <2>1. shown' \in [op : {"none", "unprov", "setdns"}, ok : BOOLEAN,
                    sure : BOOLEAN]
    BY <1>1 DEF Inv, TypeOK
  <2>2. QED
    BY <1>1, <1>2, <2>1 DEF Inv, TypeOK, Placed
<1>4. InStep' /\ Answered'
  BY <1>1, <1>2, QuietStep DEF Placed
<1>5. ModeKnown' /\ Closed'
  BY <1>1, <1>2 DEF ModeKnown, Closed
<1>6. ShownHolds'
  <2> SUFFICES ASSUME res.ok, ~late PROVE ShownHolds'
    BY <1>1 DEF ShownHolds
  <2>1. dns = entered
    BY <1>1 DEF Inv, Answered, Effect
  <2>2. Len(toMe') = 0
    BY <1>1, BetweenCalls
  <2>3. QED
    BY <1>1, <1>2, <2>1, <2>2 DEF ShownHolds
<1>7. QED
  BY <1>3, <1>4, <1>5, <1>6 DEF Inv

LEMMA ActivateInv == ASSUME Inv, Activate PROVE Inv'
<1>1. /\ at = "act" /\ cpc = "done" /\ link # "closed" /\ tries' \in Nat
      /\ cmd = "mode"
  BY CallCmds DEF Activate, Done, Inv, Closed, TypeOK, PlaceOK, KeyPlaces
<1>2. Kept
  BY DEF Activate, Kept, chan, amt
<1>3. CASE ~Activatable
  <2>1. Placed /\ at' = "menu"
    BY <1>3, ToMenuPlaced DEF Activate
  <2>2. QED
    BY <1>1, <1>2, <2>1, PlainStep
<1>4. CASE Activatable
  <2>1. Placed /\ at' = "lsa"
    BY <1>4, BeginPlaced, CallCmds DEF Activate, CallPlaces
  <2>2. ModeKnown'
    <3> SUFFICES ASSUME ~late PROVE ModeKnown'
      BY <1>2 DEF Kept, ModeKnown
    <3>1. mode = Pre
      BY <1>1, <1>4 DEF Activatable, Inv, Answered, Effect
    <3>2. QED
      BY <1>2, <2>1, <3>1 DEF ModeKnown, Kept
  <2>3. QED
    BY <1>1, <1>2, <2>1, <2>2, KeptStep
<1>5. QED
  BY <1>3, <1>4

LEMMA OpenTunnelInv == ASSUME Inv, OpenTunnel PROVE Inv'
<1>1. /\ at = "lsa" /\ cpc = "done" /\ link # "closed" /\ tries' \in Nat
      /\ UNCHANGED <<entered, shown, mode, dns, late>>
  BY DEF OpenTunnel, Done, amt, Inv, TypeOK, Closed
<1>2. CASE ~res.ok
  <2>1. Kept
    BY <1>1, <1>2 DEF OpenTunnel, Kept, chan
  <2>2. Placed /\ at' = "menu"
    BY <1>2, ToMenuPlaced DEF OpenTunnel
  <2>3. QED
    BY <1>1, <2>1, <2>2, PlainStep
<1>3. CASE res.ok
  <2>1. /\ Await("tunnel") /\ link' = "closed"
        /\ toMe' = <<>> /\ inbox' = <<>> /\ meLink' = FALSE
    BY <1>3 DEF OpenTunnel
  <2>2. Placed /\ at' = "tunnel" /\ cpc' = "idle"
    BY <2>1, AwaitPlaced DEF KeyPlaces
  <2>3. TypeOK'
    <3>1. toMe' \in Seq([cmd : Cmds, arg : Nat]) /\ inbox' \in Seq(Message)
      BY <2>1
    <3>2. QED
      BY <1>1, <2>1, <2>2, <3>1 DEF Inv, TypeOK, Placed
  <2>4. InStep' /\ Answered'
    BY <1>1, <2>1, <2>2, QuietStep
  <2>5. ModeKnown' /\ ShownHolds' /\ Closed'
    BY <1>1, <2>2 DEF Inv, ModeKnown, ShownHolds, Closed
  <2>6. QED
    BY <2>3, <2>4, <2>5 DEF Inv
<1>4. QED
  BY <1>2, <1>3

LEMMA TunnelFailsInv == ASSUME Inv, TunnelFails PROVE Inv'
<1>1. /\ at = "tunnel" /\ cpc # "recv" /\ Reinit
      /\ entered' = entered /\ mode' \in {Pre, Ccm, Acm} /\ dns' = dns
      /\ shown' = shown
      /\ shown' \in [op : {"none", "unprov", "setdns"}, ok : BOOLEAN,
                     sure : BOOLEAN]
      /\ tries' \in Nat
  BY DEF TunnelFails, amt, Inv, TypeOK, PlaceOK, CallPlaces
<1>2. ShownHolds'
  BY <1>1, ShownElsewhere
<1>3. Placed /\ at' = "menu"
  BY ToMenuPlaced DEF TunnelFails
<1>4. ModeKnown'
  BY <1>3 DEF ModeKnown
<1>5. QED
  BY <1>1, <1>2, <1>3, <1>4, ReinitStep

LEMMA ActivatedInv == ASSUME Inv, Activated PROVE Inv'
<1>1. /\ at = "tunnel" /\ cpc # "recv" /\ Reinit
      /\ entered' = entered /\ mode' \in {Pre, Ccm, Acm} /\ dns' = dns
      /\ shown' = shown
      /\ shown' \in [op : {"none", "unprov", "setdns"}, ok : BOOLEAN,
                     sure : BOOLEAN]
      /\ tries' \in Nat
  BY DEF Activated, Inv, TypeOK, PlaceOK, CallPlaces
<1>2. ShownHolds'
  BY <1>1, ShownElsewhere
<1>3. Placed /\ at' \in {"newMode", "menu"}
  <2>1. CASE Begin("newMode", "mode")
    BY <2>1, BeginPlaced, CallCmds DEF CallPlaces
  <2>2. CASE ToMenu
    BY <2>2, ToMenuPlaced
  <2>3. QED
    BY <2>1, <2>2 DEF Activated
<1>4. ModeKnown'
  BY <1>3 DEF ModeKnown
<1>5. QED
  BY <1>1, <1>2, <1>3, <1>4, ReinitStep

-----------------------------------------------------------------------------
LEMMA ProgramInv == ASSUME Inv, Program PROVE Inv'
  BY MenuInv, RetryInv, VersionsReadInv, InfoInv, DeactivateInv,
     UnprovisionedInv, NewModeInv, DnsOldInv, DnsSetInv, DnsNewInv,
     ActivateInv, OpenTunnelInv, TunnelFailsInv, ActivatedInv DEF Program

LEMMA CallInv == ASSUME Inv, PthiCall PROVE Inv'
  BY SendInv, SendFailsInv, SkipHbmInv, ReceiveInv, ReceiveTimeoutInv
     DEF PthiCall

LEMMA StutterInv == ASSUME Inv, UNCHANGED vars PROVE Inv'
<1>1. /\ link' = link /\ at' = at /\ tries' = tries /\ entered' = entered
      /\ shown' = shown /\ cmd' = cmd /\ cpc' = cpc /\ res' = res
      /\ toMe' = toMe /\ inbox' = inbox /\ meLink' = meLink
      /\ mode' = mode /\ dns' = dns /\ late' = late
  BY DEF vars, op, call, chan, amt
<1>2. TypeOK'
  <2>1. PlaceOK'
    BY <1>1 DEF Inv, TypeOK, PlaceOK
  <2>2. QED
    BY <1>1, <2>1 DEF Inv, TypeOK
<1>3. InStep' /\ Answered'
  BY <1>1 DEF Inv, InStep, Answered, Good, Effect
<1>4. ModeKnown' /\ ShownHolds' /\ Closed'
  BY <1>1 DEF Inv, ModeKnown, ShownHolds, Closed
<1>5. QED
  BY <1>2, <1>3, <1>4 DEF Inv

LEMMA NextInv == ASSUME Inv, [Next]_vars PROVE Inv'
  BY CallInv, ProgramInv, KeyInv, ConfirmInv, LineInv, ServeInv,
     MeDisconnectInv, StutterInv DEF Next, User, Quit

LEMMA AlwaysInv == Spec => []Inv
<1>1. Init => Inv
  BY InitInv
<1>2. Inv /\ [Next]_vars => Inv'
  BY NextInv
<1>3. QED
  BY <1>1, <1>2, PTL DEF Spec

-----------------------------------------------------------------------------
(* The variables keep their types, and the program waits for a key or for  *)
(* the call of the place it is at (src/main.rs).                           *)
THEOREM TypesHold == Spec => []TypeOK
<1>1. Inv => TypeOK
  BY DEF Inv
<1>2. QED
  BY <1>1, AlwaysInv, PTL

(* Until a command is given up on, nothing but the current call's command  *)
(* or its reply is on the way (src/amt.rs, pthi_call).                     *)
THEOREM InStepHolds == Spec => []InStep
<1>1. Inv => InStep
  BY DEF Inv
<1>2. QED
  BY <1>1, AlwaysInv, PTL

(* Until a command is given up on, pthi_call returns the answer to its own *)
(* command, although it compares no command number (src/amt.rs:76).        *)
THEOREM OwnAnswerHolds == Spec => []OwnAnswer
<1>1. Inv => OwnAnswer
  BY DEF Inv, Answered, OwnAnswer
<1>2. QED
  BY <1>1, AlwaysInv, PTL

(* What do_deactivate and do_set_dns_suffix report as a success is the     *)
(* state of the device as long as it is shown (src/main.rs).               *)
THEOREM SuccessIsTrueHolds == Spec => []SuccessIsTrue
<1>1. Inv => SuccessIsTrue
  BY DEF Inv, ShownHolds, SuccessIsTrue
<1>2. QED
  BY <1>1, AlwaysInv, PTL

(* do_activate_ccm opens the tunnel of a pre-provisioned device only       *)
(* (src/main.rs).                                                          *)
THEOREM ActivatesFromPreHolds == Spec => []ActivatesFromPre
<1>1. Inv => ActivatesFromPre
  BY DEF Inv, ModeKnown, ActivatesFromPre
<1>2. QED
  BY <1>1, AlwaysInv, PTL

(* No command is called through the context the LME session has closed     *)
(* (src/main.rs, the exits of do_activate_ccm).                            *)
THEOREM NoCallWhenClosedHolds == Spec => []NoCallWhenClosed
<1>1. Inv => NoCallWhenClosed
  BY DEF Inv, TypeOK, PlaceOK, Closed, NoCallWhenClosed, CallPlaces
<1>2. QED
  BY <1>1, AlwaysInv, PTL

(* A device in admin control mode leaves it at no step of the program or   *)
(* of the ME (do_deactivate and do_activate_ccm of src/main.rs).           *)
LEMMA ServeKeepsAcm == ASSUME Inv, Serve, mode = Acm, ~late PROVE mode' = Acm
<1>1. PICK r \in Answers(Head(toMe).cmd) :
        mode' = IF r.status = 0 /\ r.len >= 16 /\ r.of = "unprov"
                THEN Pre ELSE mode
  BY DEF Serve
<1>2. /\ toMe \in Seq([cmd : Cmds, arg : Nat]) /\ toMe # <<>>
  BY DEF Serve, Inv, TypeOK
<1>3. /\ Len(toMe) \in Nat \ {0} /\ Head(toMe) = toMe[1]
      /\ toMe[1] \in [cmd : Cmds, arg : Nat]
  BY <1>2, RestIsSeq
<1>4. Head(toMe).cmd = cmd /\ cpc = "recv" /\ cmd \in Cmds
  BY <1>3 DEF Inv, InStep, TypeOK
<1>5. r.of = cmd
  BY <1>4, AnswerTypes DEF Inv
<1>6. cmd # "unprov"
  BY <1>4, UnprovAt DEF Inv, TypeOK, ModeKnown
<1>7. QED
  BY <1>1, <1>5, <1>6

THEOREM AcmStaysHolds == Spec => AcmStays
<1>1. Inv /\ [Next]_vars => (mode = Acm /\ ~late => mode' = Acm)
  <2> SUFFICES ASSUME Inv, [Next]_vars, mode = Acm, ~late PROVE mode' = Acm
    OBVIOUS
  <2>1. CASE Serve
    BY <2>1, ServeKeepsAcm
  <2>2. CASE Activated
    BY <2>2 DEF Activated, Inv, ModeKnown
  <2>3. CASE PthiCall
    BY <2>3 DEF PthiCall, Send, SendFails, SkipHbm, Receive, ReceiveTimeout, amt
  <2>4. CASE Program /\ ~Activated
    BY <2>4 DEF Program, Menu, Retry, VersionsRead, Info, Deactivate,
       Unprovisioned, NewMode, DnsOld, DnsSet, DnsNew, Activate, OpenTunnel,
       TunnelFails, amt
  <2>5. CASE User
    BY <2>5 DEF User, Key, Confirm, Line, amt
  <2>6. CASE MeDisconnect
    BY <2>6 DEF MeDisconnect, amt
  <2>7. CASE Quit \/ UNCHANGED vars
    BY <2>7 DEF Quit, vars, amt
  <2>8. QED
    BY <2>1, <2>2, <2>3, <2>4, <2>5, <2>6, <2>7 DEF Next
<1>2. QED
  BY <1>1, AlwaysInv, PTL DEF AcmStays, Spec

-----------------------------------------------------------------------------
(* Pthi implements HostInterface.  Between two calls nothing is under way, *)
(* and a step of an operation begins a call or waits for a key.            *)

LEMMA NoneUnderway ==
  ASSUME Inv, cpc # "recv" \/ toMe # <<>>
  PROVE  Underway = {}
<1>1. CASE late
  BY <1>1 DEF Underway
<1>2. CASE ~late
  <2>1. \A i \in 1 .. Len(inbox) : inbox[i].kind # "reply"
    BY <1>2 DEF Inv, InStep
  <2>2. QED
    BY <2>1 DEF Underway, Replies
<1>3. QED
  BY <1>1, <1>2

LEMMA NoneUnderwayNext ==
  ASSUME Inv', cpc' # "recv"
  PROVE  Underway' = {}
<1>1. CASE late'
  BY <1>1 DEF Underway
<1>2. CASE ~late'
  <2>1. \A i \in 1 .. Len(inbox') : inbox'[i].kind # "reply"
    BY <1>2 DEF Inv, InStep
  <2>2. QED
    BY <2>1 DEF Underway, Replies
<1>3. QED
  BY <1>1, <1>2

LEMMA OperationShape ==
  ASSUME Inv, Inv', Program \/ User
  PROVE  /\ cpc \in {"idle", "done"} /\ cpc' \in {"idle", "send"}
         /\ cmd' \in Cmds /\ dns' = dns
         /\ cpc' = "idle" => cmd' = cmd
         /\ cpc = "idle" /\ cpc' = "idle" => entered' = entered
         /\ late' => late
         /\ \/ mode' = mode
            \/ /\ cpc = "idle" /\ cpc' = "send" /\ mode' = Ccm
               /\ late \/ mode = Pre
<1> USE DEF Done, Begin, Await, ToMenu, Reinit, NoReinit, chan, amt
<1>1. cmd' \in Cmds
  BY DEF Inv, TypeOK
<1>2. at \in KeyPlaces => cpc = "idle"
  BY DEF Inv, TypeOK, PlaceOK, KeyPlaces, CallPlaces
<1>3. CASE Menu \/ VersionsRead \/ Info \/ Deactivate \/ NewMode \/ DnsOld
           \/ DnsSet \/ DnsNew \/ Activate
  BY <1>1, <1>3 DEF Menu, VersionsRead, Info, Deactivate, NewMode, DnsOld,
     DnsSet, DnsNew, Activate
<1>4. CASE Retry \/ Unprovisioned \/ OpenTunnel \/ TunnelFails
  BY <1>1, <1>2, <1>4 DEF Retry, Unprovisioned, OpenTunnel, TunnelFails,
     KeyPlaces
<1>5. CASE Activated
  BY <1>1, <1>2, <1>5 DEF Activated, KeyPlaces, Inv, ModeKnown
<1>6. CASE User
  BY <1>1, <1>2, <1>6 DEF User, Key, Confirm, Line, KeyPlaces
<1>7. QED
  BY <1>3, <1>4, <1>5, <1>6 DEF Program

LEMMA OperationRefines ==
  ASSUME Inv, Inv', Program \/ User, ~late
  PROVE  Device!Next \/ UNCHANGED Device!vars
<1>1. /\ cpc \in {"idle", "done"} /\ cpc' \in {"idle", "send"}
      /\ cmd' \in Cmds /\ dns' = dns
      /\ cpc' = "idle" => cmd' = cmd
      /\ cpc = "idle" /\ cpc' = "idle" => entered' = entered
      /\ ~late'
      /\ mode' = mode \/ (cpc = "idle" /\ cpc' = "send" /\ mode' = Ccm
                          /\ mode = Pre)
  BY OperationShape
<1>2. Underway = {} /\ Underway' = {}
  BY <1>1, NoneUnderway, NoneUnderwayNext
<1>3. /\ Phase = IF cpc = "idle" THEN "idle" ELSE "returned"
      /\ Phase' = IF cpc' = "idle" THEN "idle" ELSE "called"
  BY <1>1 DEF Phase
<1>4. Returned' = Device!Failed /\ (cpc = "idle" => Returned = Device!Failed)
  BY <1>1 DEF Returned, Outcome, Nothing, Device!Failed
<1>5. CASE mode' # mode
  <2>1. Device!ActivateCcm
    BY <1>1, <1>2, <1>3, <1>4, <1>5 DEF Device!ActivateCcm
  <2>2. QED
    BY <2>1 DEF Device!Next
<1>6. CASE mode' = mode /\ cpc' = "send"
  <2>1. Device!Call(cmd')
    BY <1>1, <1>2, <1>3, <1>4, <1>6 DEF Device!Call
  <2>2. QED
    BY <2>1, <1>1 DEF Device!Next
<1>7. CASE mode' = mode /\ cpc = "done" /\ cpc' = "idle"
  <2>1. Device!Rest
    BY <1>1, <1>2, <1>3, <1>4, <1>7 DEF Device!Rest
  <2>2. QED
    BY <2>1 DEF Device!Next
<1>8. CASE mode' = mode /\ cpc = "idle" /\ cpc' = "idle"
  BY <1>1, <1>2, <1>3, <1>4, <1>8 DEF Device!vars
<1>9. QED
  BY <1>1, <1>5, <1>6, <1>7, <1>8

(* While the connection is lost anything may happen up to the next one.    *)
LEMMA LostRefines ==
  ASSUME Inv, Inv', [Next]_vars, late
  PROVE  Device!Next
<1>1. ~late' => cpc' \in {"idle", "send"}
  <2>1. CASE Program \/ User
    BY <2>1, OperationShape
  <2>2. CASE PthiCall \/ Serve \/ MeDisconnect \/ Quit \/ UNCHANGED vars
    BY <2>2 DEF PthiCall, Send, SendFails, SkipHbm, Receive, ReceiveTimeout,
       Serve, MeDisconnect, Quit, vars
  <2>3. QED
    BY <2>1, <2>2 DEF Next
<1>2. Underway' = {}
  <2>1. CASE late'
    BY <2>1 DEF Underway
  <2>2. CASE ~late'
    BY <1>1, <2>2, NoneUnderwayNext
  <2>3. QED
    BY <2>1, <2>2
<1>3. Phase = "lost" /\ Phase' \in {"lost", "idle", "called"}
  BY <1>1 DEF Phase
<1>4. Returned' = Device!Failed
  BY <1>1 DEF Returned, Outcome, Nothing, Device!Failed
<1>5. Device!Lost
  BY <1>2, <1>3, <1>4 DEF Device!Lost
<1>6. QED
  BY <1>5 DEF Device!Next

LEMMA SendRefines ==
  ASSUME Inv, Inv', Send \/ SendFails, ~late
  PROVE  Device!Next \/ UNCHANGED Device!vars
<1>1. /\ cpc = "send" /\ inbox' = inbox
      /\ UNCHANGED <<cmd, entered, mode, dns>>
      /\ \/ cpc' = "recv" /\ ~late'
         \/ cpc' = "done" /\ res' = Nothing
  BY DEF Send, SendFails, Return, op, amt
<1>2. Phase = "called" /\ Underway = {} /\ Returned = Device!Failed
      /\ Returned' = Device!Failed
  <2>1. Underway = {}
    BY <1>1, NoneUnderway
  <2>2. Outcome(Nothing) = Device!Failed
    BY DEF Outcome, Nothing, Device!Failed
  <2>3. Phase = "called" /\ Returned = Outcome(Nothing)
    BY <1>1 DEF Phase, Returned
  <2>4. Returned' = Outcome(Nothing)
    BY <1>1 DEF Returned, Outcome, Nothing
  <2>5. QED
    BY <2>1, <2>2, <2>3, <2>4
<1>3. CASE late'
  <2>1. Phase' = "lost"
    BY <1>3 DEF Phase
  <2>2. Device!GiveUp
    BY <1>1, <1>2, <2>1 DEF Device!GiveUp
  <2>3. QED
    BY <2>2 DEF Device!Next
<1>4. CASE ~late' /\ cpc' = "done"
  <2>1. Phase' = "returned" /\ Underway' = {}
    BY <1>4, NoneUnderwayNext DEF Phase
  <2>2. Device!Fail
    BY <1>1, <1>2, <2>1 DEF Device!Fail
  <2>3. QED
    BY <2>2 DEF Device!Next
<1>5. CASE ~late' /\ cpc' = "recv"
  <2>1. Phase' = "called"
    BY <1>5 DEF Phase
  <2>2. Underway' = {}
    <3>1. \A i \in 1 .. Len(inbox') : inbox'[i].kind # "reply"
      BY <1>1, BetweenCalls
    <3>2. QED
      BY <3>1 DEF Underway, Replies
  <2>3. QED
    BY <1>1, <1>2, <2>1, <2>2 DEF Device!vars
<1>6. QED
  BY <1>1, <1>3, <1>4, <1>5

LEMMA TimeoutRefines ==
  ASSUME Inv, Inv', ReceiveTimeout, ~late
  PROVE  Device!Next
<1>1. /\ cpc = "recv" /\ cpc' = "done" /\ inbox = <<>> /\ res' = Nothing
      /\ UNCHANGED <<cmd, entered, mode, dns>>
  BY DEF ReceiveTimeout, Return, op, chan, amt
<1>2. Underway = {}
  <2>1. Len(inbox) = 0
    BY <1>1
  <2>2. QED
    BY <2>1 DEF Underway, Replies
<1>3. Phase = "called" /\ Underway' = {} /\ Returned = Device!Failed
      /\ Returned' = Device!Failed
  BY <1>1, NoneUnderwayNext
     DEF Phase, Returned, Outcome, Nothing, Device!Failed
<1>4. CASE late'
  <2>1. Phase' = "lost"
    BY <1>4 DEF Phase
  <2>2. Device!GiveUp
    BY <1>1, <1>3, <2>1 DEF Device!GiveUp
  <2>3. QED
    BY <2>2 DEF Device!Next
<1>5. CASE ~late'
  <2>1. Phase' = "returned"
    BY <1>1, <1>5 DEF Phase
  <2>2. Device!Fail
    BY <1>1, <1>2, <1>3, <2>1 DEF Device!Fail
  <2>3. QED
    BY <2>2 DEF Device!Next
<1>6. QED
  BY <1>4, <1>5

LEMMA SkipRefines ==
  ASSUME Inv, Inv', SkipHbm, ~late
  PROVE  UNCHANGED Device!vars
<1>1. /\ cpc = "recv" /\ inbox # <<>> /\ inbox' = Tail(inbox)
      /\ Head(inbox).kind # "reply"
      /\ UNCHANGED <<cpc, cmd, entered, res, mode, dns, late>>
  BY DEF SkipHbm, op, call, amt
<1>2. /\ inbox \in Seq(Message) /\ Len(inbox) \in Nat \ {0}
      /\ Head(inbox) = inbox[1] /\ Len(inbox') = Len(inbox) - 1
      /\ \A i \in 1 .. Len(inbox') : inbox'[i] = inbox[i + 1]
  BY <1>1, RestIsSeq DEF Inv, TypeOK
<1>3. Underway' = Underway
  <2>1. ASSUME NEW o, o \in Underway PROVE o \in Underway'
    <3>1. PICK i \in 1 .. Len(inbox) :
            inbox[i].kind = "reply" /\ o = Outcome(Accept(inbox[i]))
      BY <2>1 DEF Underway, Replies
    <3>2. i # 1
      BY <1>1, <1>2, <3>1
    <3>3. i - 1 \in 1 .. Len(inbox') /\ inbox'[i - 1] = inbox[i]
      BY <1>2, <3>2
    <3>4. o = Outcome(Accept(inbox[i - 1]))'
      BY <1>1, <3>1, <3>3 DEF Accept, Outcome
    <3>5. QED
      BY <1>1, <3>1, <3>3, <3>4 DEF Underway, Replies
  <2>2. ASSUME NEW o, o \in Underway' PROVE o \in Underway
    <3>1. PICK i \in 1 .. Len(inbox') :
            inbox'[i].kind = "reply" /\ o = Outcome(Accept(inbox[i]))'
      BY <2>2 DEF Underway, Replies
    <3>2. i + 1 \in 1 .. Len(inbox) /\ inbox'[i] = inbox[i + 1]
      BY <1>2
    <3>3. o = Outcome(Accept(inbox[i + 1]))
      BY <1>1, <3>1, <3>2 DEF Accept, Outcome
    <3>4. QED
      BY <1>1, <3>1, <3>2, <3>3 DEF Underway, Replies
  <2>3. QED
    BY <2>1, <2>2
<1>4. QED
  BY <1>1, <1>3 DEF Device!vars, Phase, Returned

LEMMA ReceiveRefines ==
  ASSUME Inv, Inv', Receive, ~late
  PROVE  Device!Next
<1>1. /\ cpc = "recv" /\ cpc' = "done" /\ inbox # <<>>
      /\ Head(inbox).kind = "reply" /\ res' = Accept(Head(inbox))
      /\ UNCHANGED <<cmd, entered, mode, dns, late>>
  BY DEF Receive, Return, op, amt
<1>2. /\ inbox \in Seq(Message) /\ Len(inbox) \in Nat \ {0}
      /\ Head(inbox) = inbox[1]
  BY <1>1, RestIsSeq DEF Inv, TypeOK
<1>3. 1 \in Replies /\ \A i \in Replies : i = 1
  BY <1>1, <1>2 DEF Replies, Inv, InStep
<1>4. Underway = {Outcome(res')}
  BY <1>1, <1>2, <1>3 DEF Underway
<1>5. Returned' = Outcome(res')
  BY <1>1 DEF Returned, Outcome
<1>6. Phase = "called" /\ Phase' = "returned" /\ Underway' = {}
  BY <1>1, NoneUnderwayNext DEF Phase
<1>7. Device!Return
  BY <1>1, <1>4, <1>5, <1>6 DEF Device!Return
<1>8. QED
  BY <1>7 DEF Device!Next

LEMMA DisconnectRefines ==
  ASSUME Inv, MeDisconnect, ~late
  PROVE  UNCHANGED Device!vars
<1>1. /\ inbox' = Append(inbox, Disconnect)
      /\ UNCHANGED <<cpc, cmd, entered, res, mode, dns, late>>
  BY DEF MeDisconnect, op, call, amt
<1>2. /\ Len(inbox) \in Nat /\ Len(inbox') = Len(inbox) + 1
      /\ \A i \in 1 .. Len(inbox) : inbox'[i] = inbox[i]
      /\ inbox'[Len(inbox) + 1] = Disconnect
  BY <1>1 DEF Inv, TypeOK
<1>3. Disconnect.kind # "reply"
  BY DEF Disconnect, Fc
<1>4. Replies' = Replies
  BY <1>2, <1>3 DEF Replies
<1>5. \A i \in Replies : Outcome(Accept(inbox[i]))' = Outcome(Accept(inbox[i]))
  BY <1>1, <1>2 DEF Replies, Accept, Outcome
<1>6. Underway' = Underway
  BY <1>1, <1>4, <1>5 DEF Underway
<1>7. QED
  BY <1>1, <1>6 DEF Device!vars, Phase, Returned

(* An answer the ME gives is accepted exactly when it has had its effect,  *)
(* for the two commands that have one.                                     *)
LEMMA AnswerOutcome ==
  ASSUME TypeOK, NEW r \in Answers(cmd)
  PROVE  \/ /\ Good(r)
            /\ Outcome(Accept(r)) = [ok |-> TRUE, word |-> Word(cmd)]
         \/ /\ Good(r) => cmd \notin {"unprov", "setdns"}
            /\ Outcome(Accept(r)) = Outcome(Nothing)
<1>1. /\ r.status = 0 => r.len >= 16 \/ Accept(r) = Nothing
      /\ r.status # 0 => Accept(r) = Nothing
  BY AnswerTypes DEF Accept, MinLen, Message, TypeOK
<1>2. CASE Accept(r) = Nothing
  <2>1. ASSUME cmd \in {"unprov", "setdns"} PROVE ~Good(r)
    <3>1. CASE r = Reply(cmd, 0, FullLen(cmd), Word(cmd))
      BY <1>2, <2>1, <3>1
         DEF Reply, FullLen, Accept, Nothing, BufLen, MinLen
    <3>2. CASE r = Reply(cmd, 1, 16, 0) \/ r = Reply(cmd, 0, 12, 0)
      BY <3>2 DEF Reply, Good
    <3>3. QED
      BY <3>1, <3>2 DEF Answers
  <2>2. QED
    BY <1>2, <2>1
<1>3. CASE Accept(r) # Nothing
  <2>1. Good(r) /\ r.word = Word(cmd)
    BY <1>1, <1>3, AnswerTypes DEF Good, TypeOK, Accept
  <2>2. Accept(r) = [ok |-> TRUE, of |-> r.of, word |-> r.word]
    BY <1>3 DEF Accept
  <2>3. QED
    BY <2>1, <2>2 DEF Outcome
<1>4. QED
  BY <1>2, <1>3

(* The ME processes a command: the instant at which it takes effect.       *)
LEMMA ServeRefines ==
  ASSUME Inv, Inv', Serve, ~late
  PROVE  Device!Next
<1>1. /\ toMe # <<>> /\ UNCHANGED <<cmd, cpc, entered, res, late>>
      /\ toMe \in Seq([cmd : Cmds, arg : Nat])
  BY DEF Serve, op, call, Inv, TypeOK
<1>2. /\ Head(toMe) = toMe[1] /\ 1 \in 1 .. Len(toMe)
  BY <1>1, RestIsSeq
<1>3. Head(toMe).cmd = cmd /\ Head(toMe).arg = entered /\ cpc = "recv"
  BY <1>2 DEF Inv, InStep, Answered
<1>4. PICK r \in Answers(cmd) :
        /\ inbox' \in {inbox \o <<Fc, r>>, inbox \o <<r, Fc>>}
        /\ mode' = IF r.status = 0 /\ r.len >= 16 /\ r.of = "unprov"
                   THEN Pre ELSE mode
        /\ dns' = IF r.status = 0 /\ r.len >= 16 /\ r.of = "setdns"
                  THEN entered ELSE dns
  BY <1>3 DEF Serve
<1>5. r \in Message /\ r.kind = "reply" /\ r.of = cmd /\ cmd \in Cmds
  BY <1>4, AnswerTypes DEF Inv, TypeOK
<1>6. \A i \in 1 .. Len(inbox) : inbox[i].kind # "reply"
  BY <1>1 DEF Inv, InStep
<1>7. \E k \in Replies' : inbox'[k] = r /\ \A j \in Replies' : j = k
  <2>1. PICK k \in {Len(inbox) + 1, Len(inbox) + 2} :
          inbox'[k] = r /\ k \in 1 .. Len(inbox')
    <3>1. inbox \in Seq(Message) /\ Fc \in Message
      BY DEF Inv, TypeOK, Fc, Message
    <3>2. QED
      BY <1>4, <1>5, <3>1
  <2>2. k \in Replies'
    BY <1>5, <2>1 DEF Replies
  <2>3. \A j \in Replies' : j = k
    BY <1>1, <1>5, <2>1, <2>2 DEF Replies, Inv, InStep
  <2>4. QED
    BY <2>1, <2>2, <2>3
<1>8. Underway' = {Outcome(Accept(r))}
  BY <1>1, <1>7 DEF Underway, Accept, Outcome
<1>9. Phase = "called" /\ Phase' = "called" /\ Underway = {}
      /\ Returned' = Returned
  BY <1>1, <1>3, NoneUnderway DEF Phase, Returned, Outcome, Nothing
<1>10. CASE Good(r) /\ Outcome(Accept(r)) = [ok |-> TRUE, word |-> Word(cmd)]
  <2>1. Word(cmd) \in {Pre, Ccm, Acm, Junk} /\ (cmd = "mode" => Word(cmd) = mode)
    BY <1>5 DEF Word, Inv, TypeOK, Cmds
  <2>2. /\ mode' = IF cmd = "unprov" THEN Pre ELSE mode
        /\ dns' = IF cmd = "setdns" THEN entered ELSE dns
    BY <1>4, <1>5, <1>10 DEF Good
  <2>3. Device!CarryOut
    BY <1>1, <1>8, <1>9, <1>10, <2>1, <2>2 DEF Device!CarryOut
  <2>4. QED
    BY <2>3 DEF Device!Next
<1>11. CASE /\ Good(r) => cmd \notin {"unprov", "setdns"}
            /\ Outcome(Accept(r)) = Outcome(Nothing)
  <2>1. mode' = mode /\ dns' = dns
    BY <1>4, <1>5, <1>11 DEF Good
  <2>2. Outcome(Nothing) = Device!Failed
    BY DEF Outcome, Nothing, Device!Failed
  <2>3. Device!Refuse
    BY <1>1, <1>8, <1>9, <1>11, <2>1, <2>2 DEF Device!Refuse
  <2>4. QED
    BY <2>3 DEF Device!Next
<1>12. QED
  BY <1>4, <1>10, <1>11, AnswerOutcome DEF Inv

LEMMA StepRefines ==
  ASSUME Inv, Inv', [Next]_vars
  PROVE  Device!Next \/ UNCHANGED Device!vars
<1>1. CASE late
  BY <1>1, LostRefines
<1>2. CASE ~late
  <2>1. CASE Program \/ User
    BY <1>2, <2>1, OperationRefines
  <2>2. CASE PthiCall
    BY <1>2, <2>2, SendRefines, SkipRefines, ReceiveRefines, TimeoutRefines
       DEF PthiCall
  <2>3. CASE Serve \/ MeDisconnect
    BY <1>2, <2>3, ServeRefines, DisconnectRefines
  <2>4. CASE Quit \/ UNCHANGED vars
    <3>1. UNCHANGED <<cmd, cpc, entered, res, late, inbox, mode, dns>>
      BY <2>4 DEF Quit, vars, op, call, chan, amt
    <3>2. Underway' = Underway
      BY <3>1 DEF Underway, Replies, Accept, Outcome
    <3>3. QED
      BY <3>1, <3>2 DEF Device!vars, Phase, Returned
  <2>5. QED
    BY <2>1, <2>2, <2>3, <2>4 DEF Next
<1>3. QED
  BY <1>1, <1>2

LEMMA InitRefines == Init => Device!Init
<1> SUFFICES ASSUME Init PROVE Device!Init
  OBVIOUS
<1>1. Underway = {}
  BY DEF Init, Underway, Replies
<1>2. Phase = "called" /\ Returned = Device!Failed
  BY DEF Init, Phase, Returned, Outcome, Nothing, Device!Failed
<1>3. QED
  BY <1>1, <1>2 DEF Init, Device!Init, Cmds

(* The operations' calls of the host interface are atomic commands on the  *)
(* device (pthi_call of src/amt.rs over send and receive of                *)
(* src/heci/mod.rs), until a command is given up on.                       *)
THEOREM CommandsAtomicHolds == Spec => CommandsAtomic
<1>1. Init => Device!Init
  BY InitRefines
<1>2. Inv /\ Inv' /\ [Next]_vars => [Device!Next]_(Device!vars)
  BY StepRefines
<1>3. QED
  BY <1>1, <1>2, AlwaysInv, PTL DEF Spec, CommandsAtomic, Device!Spec
=============================================================================
