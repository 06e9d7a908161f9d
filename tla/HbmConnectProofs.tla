--------------------------- MODULE HbmConnectProofs ---------------------------
(***************************************************************************)
(* Proofs about HbmConnect: a connect that returns Ok is the ME's, nothing *)
(* older than it is left on the way, and a client that is not found is     *)
(* none of the ME's, if nothing went wrong.                                *)
(*                                                                         *)
(* The command bytes alone carry the argument.  An attempt writes its      *)
(* requests one after the other, so that what it leaves unread contains    *)
(* a reply to the version request or one to the enumeration, never both    *)
(* (Exchange).  While the ME has not noticed the reset it answers nothing, *)
(* and the host gets no further than the enumeration on leftovers.  Past   *)
(* it the reset was noticed and all that is on the way is of this attempt. *)
(***************************************************************************)
EXTENDS HbmConnect, TLAPS

Busy == hpc \in {"write", "read"}

(* What the two sequences of messages hold.                                *)
Has(q, c) == \E i \in 1 .. Len(q) : q[i].cmd = c

Once(q, c) ==
  \A i, j \in 1 .. Len(q) : q[i].cmd = c /\ q[j].cmd = c => i = j

AllFresh(q) == \A i \in 1 .. Len(q) : q[i].fresh

(* Properties are asked for and reported of listed addresses only.         *)
Proper(q) == \A i \in 1 .. Len(q) : q[i].cmd = "prop" => q[i].me \in Listed

Connects(q) == \E i \in 1 .. Len(q) : q[i].cmd = "connect" /\ q[i].fresh

Grants(q) ==
  \E i \in 1 .. Len(q) : q[i].cmd = "connect" /\ q[i].fresh /\ q[i].ok

AsksFor(q, a, h) ==
  \A i \in 1 .. Len(q) :
    q[i].cmd = "connect" /\ q[i].fresh => q[i].me = a /\ q[i].host = h

-----------------------------------------------------------------------------
Props == Proper(toMe) /\ Proper(inbox)

(* An attempt has no outcome before it ends.                               *)
Ended == hpc # "idle" => outcome = "none"

(* How far an attempt gets before the ME has noticed its reset.            *)
Resets ==
  /\ hpc = "reset" => rst
  /\ hpc = "reset" /\ ~resetting => toMe = <<>> /\ inbox = <<>>
  /\ resetting /\ Busy => step \in {"version", "enum"}
  /\ outcome = "ok" => ~resetting

(* A version reply or an enumeration, never both; and one version reply.   *)
Exchange ==
  /\ resetting => ~Has(inbox, "version") \/ ~Has(inbox, "enum")
  /\ resetting /\ Busy /\ step = "enum" => ~Has(inbox, "enum")
  /\ ~resetting /\ step = "version" =>
       /\ ~Has(toMe, "enum") /\ ~Has(inbox, "enum")
       /\ Once(toMe, "version") /\ Once(inbox, "version")
       /\ ~Has(toMe, "version") \/ ~Has(inbox, "version")
       /\ hpc = "write" => ~Has(toMe, "version") /\ ~Has(inbox, "version")
  /\ ~resetting /\ step # "version" =>
       ~Has(toMe, "version") /\ ~Has(inbox, "version")

(* Once the reset is noticed, all that is on the way is of this attempt.   *)
Fresh == ~resetting => AllFresh(toMe) /\ AllFresh(inbox)

(* A connect request of this attempt is the one for the addresses held.    *)
Link == [me |-> meAddr, host |-> hostAddr]

Early ==
  \/ hpc = "reset"
  \/ Busy /\ step \in {"version", "enum", "prop"}
  \/ hpc = "write" /\ step = "connect"

Links ==
  /\ Early => ~Connects(toMe) /\ ~Connects(inbox)
  /\ AsksFor(toMe, meAddr, hostAddr)
  /\ Grants(inbox) \/ (Busy /\ step = "credit") \/ outcome = "ok" =>
       granted = Link

(* The client held is the one that was looked for.                         *)
Found ==
  (Busy /\ step \in {"connect", "credit"}) \/ outcome = "ok" =>
    /\ meAddr \in Listed /\ Uuid[meAddr] = target
    /\ hostAddr = HostAddr[target]
    /\ maxMsgLen = MaxLen[meAddr]

(* As long as nothing went wrong, the only message on the way is the       *)
(* request or the reply of the exchange under way, and the clients at      *)
(* lower addresses are not the one looked for.                             *)
Asked ==
  /\ Len(toMe) = 1 /\ inbox = <<>>
  /\ toMe[1].cmd = step /\ (step = "prop" => toMe[1].me = addr)

Answered ==
  /\ toMe = <<>> /\ Len(inbox) = 1
  /\ inbox[1].cmd = step /\ inbox[1].ok /\ (step = "prop" => inbox[1].me = addr)

Missed(a) == \A b \in Listed : b < a => Uuid[b] # target

Searching == ~hiccup /\ Busy /\ step \in {"version", "enum", "prop"}

Undisturbed ==
  Searching =>
    /\ ~resetting
    /\ hpc = "write" => toMe = <<>> /\ inbox = <<>>
    /\ hpc = "read" => Asked \/ Answered
    /\ step = "prop" => valid = Listed /\ Missed(addr)

Inv == /\ TypeOK /\ Props /\ Ended /\ Resets
       /\ Exchange /\ Fresh /\ Links /\ Found
       /\ Undisturbed /\ NotFoundIsAbsent

-----------------------------------------------------------------------------
(* Sequences.                                                              *)
LEMMA TailItems ==
  ASSUME NEW S, NEW q \in Seq(S), q # <<>>
  PROVE  /\ Tail(q) \in Seq(S) /\ Head(q) \in S /\ Head(q) = q[1]
         /\ Len(q) \in Nat /\ Len(q) > 0 /\ Len(Tail(q)) = Len(q) - 1
         /\ \A i \in 1 .. Len(Tail(q)) :
              i + 1 \in 1 .. Len(q) /\ Tail(q)[i] = q[i + 1]
  OBVIOUS

LEMMA ConcatItems ==
  ASSUME NEW S, NEW p \in Seq(S), NEW q \in Seq(S)
  PROVE  /\ p \o q \in Seq(S) /\ Len(p \o q) = Len(p) + Len(q)
         /\ \A i \in 1 .. Len(p) : (p \o q)[i] = p[i]
         /\ \A i \in 1 .. Len(q) : (p \o q)[Len(p) + i] = q[i]
  OBVIOUS

LEMMA AppendItems ==
  ASSUME NEW S, NEW q \in Seq(S), NEW x \in S
  PROVE  /\ Append(q, x) \in Seq(S)
         /\ Len(Append(q, x)) = Len(q) + 1 /\ Len(q) \in Nat
         /\ \A i \in 1 .. Len(q) : Append(q, x)[i] = q[i]
         /\ Append(q, x)[Len(q) + 1] = x
         /\ \A i \in 1 .. Len(q) + 1 : i \in 1 .. Len(q) \/ i = Len(q) + 1
  OBVIOUS

LEMMA NoItems ==
  ASSUME NEW S, NEW q \in Seq(S)
  PROVE  Len(q) \in Nat /\ (q = <<>>) = (Len(q) = 0)
  OBVIOUS

(* All items of t are items of q.                                          *)
Within(t, q) == \A i \in 1 .. Len(t) : \E j \in 1 .. Len(q) : t[i] = q[j]

LEMMA LessHolds ==
  ASSUME NEW t, NEW q, Within(t, q)
  PROVE  /\ \A c : Has(t, c) => Has(q, c)
         /\ AllFresh(q) => AllFresh(t)
         /\ Proper(q) => Proper(t)
         /\ Connects(t) => Connects(q)
         /\ Grants(t) => Grants(q)
         /\ \A a, h : AsksFor(q, a, h) => AsksFor(t, a, h)
  BY DEF Within, Has, AllFresh, Proper, Connects, Grants, AsksFor

LEMMA NothingHolds ==
  ASSUME NEW q, Len(q) = 0
  PROVE  /\ \A c : ~Has(q, c) /\ Once(q, c)
         /\ AllFresh(q) /\ Proper(q) /\ ~Connects(q) /\ ~Grants(q)
         /\ \A a, h : AsksFor(q, a, h)
  BY DEF Has, Once, AllFresh, Proper, Connects, Grants, AsksFor

LEMMA EmptyHolds ==
  /\ \A c : ~Has(<<>>, c) /\ Once(<<>>, c)
  /\ AllFresh(<<>>) /\ Proper(<<>>) /\ ~Connects(<<>>) /\ ~Grants(<<>>)
  /\ \A a, h : AsksFor(<<>>, a, h)
<1>1. Len(<<>>) = 0
  OBVIOUS
<1> QED
  BY <1>1, NothingHolds

(* The first message of q is taken.                                        *)
LEMMA Removed ==
  ASSUME NEW S, NEW q \in Seq(S), q # <<>>
  PROVE  /\ Within(Tail(q), q)
         /\ \A c : Once(q, c) =>
              Once(Tail(q), c) /\ (q[1].cmd = c => ~Has(Tail(q), c))
         /\ \A c : q[1].cmd = c => Has(q, c)
         /\ q[1].cmd = "connect" /\ q[1].fresh => Connects(q)
         /\ q[1].cmd = "connect" /\ q[1].fresh /\ q[1].ok => Grants(q)
         /\ AllFresh(q) => q[1].fresh
         /\ Proper(q) /\ q[1].cmd = "prop" => q[1].me \in Listed
<1> DEFINE t == Tail(q)
<1>1. /\ Len(q) \in Nat /\ Len(q) > 0 /\ Len(t) = Len(q) - 1
      /\ \A i \in 1 .. Len(t) : i + 1 \in 1 .. Len(q) /\ t[i] = q[i + 1]
  BY TailItems
<1>2. 1 \in 1 .. Len(q)
  BY <1>1
<1> HIDE DEF t
<1>3. Within(t, q)
  BY <1>1 DEF Within
<1>4. ASSUME NEW c, Once(q, c)
      PROVE  Once(t, c) /\ (q[1].cmd = c => ~Has(t, c))
  <2>1. ASSUME NEW i \in 1 .. Len(t), NEW j \in 1 .. Len(t),
               t[i].cmd = c, t[j].cmd = c
        PROVE  i = j
    <3>1. i + 1 = j + 1
      BY <1>1, <1>4, <2>1 DEF Once
    <3> QED
      BY <3>1
  <2>2. ASSUME NEW i \in 1 .. Len(t), t[i].cmd = c, q[1].cmd = c
        PROVE  FALSE
    <3>1. i + 1 = 1
      BY <1>1, <1>2, <1>4, <2>2 DEF Once
    <3> QED
      BY <1>1, <3>1
  <2> QED
    BY <2>1, <2>2 DEF Once, Has
<1>5. /\ \A c : q[1].cmd = c => Has(q, c)
      /\ q[1].cmd = "connect" /\ q[1].fresh => Connects(q)
      /\ q[1].cmd = "connect" /\ q[1].fresh /\ q[1].ok => Grants(q)
      /\ AllFresh(q) => q[1].fresh
      /\ Proper(q) /\ q[1].cmd = "prop" => q[1].me \in Listed
  BY <1>2 DEF Has, Connects, Grants, AllFresh, Proper
<1> QED
  BY <1>3, <1>4, <1>5 DEF t

(* The message x comes last.                                               *)
LEMMA Added ==
  ASSUME NEW S, NEW q \in Seq(S), NEW x \in S
  PROVE  LET t == Append(q, x) IN
         /\ t \in Seq(S)
         /\ \A c : Has(t, c) => Has(q, c) \/ x.cmd = c
         /\ \A c : Once(q, c) /\ (~Has(q, c) \/ x.cmd # c) => Once(t, c)
         /\ AllFresh(q) /\ x.fresh => AllFresh(t)
         /\ Proper(q) /\ (x.cmd = "prop" => x.me \in Listed) => Proper(t)
         /\ Connects(t) => Connects(q) \/ (x.cmd = "connect" /\ x.fresh)
         /\ Grants(t) => Grants(q) \/ (x.cmd = "connect" /\ x.fresh /\ x.ok)
         /\ \A a, h :
              /\ AsksFor(q, a, h)
              /\ x.cmd = "connect" /\ x.fresh => x.me = a /\ x.host = h
              => AsksFor(t, a, h)
         /\ q = <<>> => Len(t) = 1 /\ t[1] = x
<1> DEFINE t == Append(q, x)
<1>1. /\ t \in Seq(S) /\ Len(t) = Len(q) + 1 /\ Len(q) \in Nat
      /\ \A i \in 1 .. Len(q) : t[i] = q[i]
      /\ t[Len(q) + 1] = x
  BY AppendItems
<1>2. \A i \in 1 .. Len(t) : i \in 1 .. Len(q) \/ i = Len(q) + 1
  BY <1>1, AppendItems
<1> HIDE DEF t
<1>3. \A i \in 1 .. Len(t) : (i \in 1 .. Len(q) /\ t[i] = q[i]) \/ t[i] = x
  BY <1>1, <1>2
<1>4. \A c : Has(t, c) => Has(q, c) \/ x.cmd = c
  BY <1>3 DEF Has
<1>5. ASSUME NEW c, Once(q, c), ~Has(q, c) \/ x.cmd # c
      PROVE  Once(t, c)
  BY <1>1, <1>2, <1>5 DEF Once, Has
<1>6. /\ AllFresh(q) /\ x.fresh => AllFresh(t)
      /\ Proper(q) /\ (x.cmd = "prop" => x.me \in Listed) => Proper(t)
  BY <1>3 DEF AllFresh, Proper
<1>7. /\ Connects(t) => Connects(q) \/ (x.cmd = "connect" /\ x.fresh)
      /\ Grants(t) => Grants(q) \/ (x.cmd = "connect" /\ x.fresh /\ x.ok)
  BY <1>3 DEF Connects, Grants
<1>8. \A a, h :
        /\ AsksFor(q, a, h)
        /\ x.cmd = "connect" /\ x.fresh => x.me = a /\ x.host = h
        => AsksFor(t, a, h)
  BY <1>3 DEF AsksFor
<1>9. q = <<>> => Len(t) = 1 /\ t[1] = x
  <2>1. q = <<>> => Len(q) = 0
    BY NoItems
  <2> QED
    BY <1>1, <2>1
<1> QED
  BY <1>1, <1>4, <1>5, <1>6, <1>7, <1>8, <1>9 DEF t

(* What an earlier attempt left on the way.                                *)
LEMMA OldItems ==
  ASSUME NEW q, q \in Seq(Requests) \/ q \in Seq(Answers)
  PROVE  /\ q \in Seq(Requests) => Old(q) \in Seq(Requests)
         /\ q \in Seq(Answers) => Old(q) \in Seq(Answers)
         /\ \A c : Has(Old(q), c) => Has(q, c)
         /\ Proper(q) => Proper(Old(q))
         /\ ~Connects(Old(q)) /\ ~Grants(Old(q))
         /\ \A a, h : AsksFor(Old(q), a, h)
<1>1. /\ Len(Old(q)) = Len(q)
      /\ \A i \in 1 .. Len(q) :
           q[i] \in Requests \cup Answers /\ Old(q)[i] = [q[i] EXCEPT !.fresh = FALSE]
  BY DEF Old
<1>2. \A m \in Requests \cup Answers : LET o == [m EXCEPT !.fresh = FALSE] IN
        /\ o.cmd = m.cmd /\ o.me = m.me /\ ~o.fresh
        /\ m \in Requests => o \in Requests
        /\ m \in Answers => o \in Answers
  BY DEF Requests, Answers
<1>3. q \in Seq(Requests) => Old(q) \in Seq(Requests)
  BY <1>2 DEF Old
<1>4. q \in Seq(Answers) => Old(q) \in Seq(Answers)
  BY <1>2 DEF Old
<1>5. \A i \in 1 .. Len(q) :
        /\ Old(q)[i].cmd = q[i].cmd /\ Old(q)[i].me = q[i].me
        /\ ~Old(q)[i].fresh
  BY <1>1, <1>2
<1>6. \A c : Has(Old(q), c) => Has(q, c)
  BY <1>1, <1>5 DEF Has
<1>7. Proper(q) => Proper(Old(q))
  BY <1>1, <1>5 DEF Proper
<1>8. /\ ~Connects(Old(q)) /\ ~Grants(Old(q))
      /\ \A a, h : AsksFor(Old(q), a, h)
  BY <1>1, <1>5 DEF Connects, Grants, AsksFor
<1> QED
  BY <1>3, <1>4, <1>6, <1>7, <1>8

LEMMA OpenKeeps == Inv /\ (\E t \in Targets : Open(t)) => Inv'
<1> SUFFICES ASSUME Inv, NEW t \in Targets, Open(t) PROVE Inv'
  OBVIOUS
<1>0. /\ hpc = "idle" /\ hpc' = "reset" /\ target' = t /\ outcome' = "none"
      /\ meAddr' = 0 /\ hostAddr' = 0 /\ rst' = TRUE /\ resetting' = TRUE
      /\ toMe' = Old(toMe) /\ inbox' = Old(inbox)
      /\ granted' = NoLink /\ hiccup' = FALSE
      /\ UNCHANGED <<maxMsgLen, step, valid, addr, up>>
  BY DEF Open
<1>a. /\ toMe' \in Seq(Requests) /\ inbox' \in Seq(Answers)
      /\ \A c : Has(inbox', c) => Has(inbox, c)
      /\ Proper(toMe) => Proper(toMe')
      /\ Proper(inbox) => Proper(inbox')
      /\ ~Connects(toMe') /\ ~Connects(inbox') /\ ~Grants(inbox')
      /\ \A a, h : AsksFor(toMe', a, h)
  BY <1>0, OldItems DEF Inv, TypeOK
<1>1. TypeOK'
  <2>1. meAddr' \in 0 .. Last /\ hostAddr' \in Nat /\ target' \in Targets
    BY <1>0, ConnectAssumption
  <2>2. granted' \in [me : 0 .. Last, host : Nat]
    BY <1>0, ConnectAssumption DEF NoLink
  <2> QED
    BY <1>0, <1>a, <2>1, <2>2 DEF Inv, TypeOK
<1>2. Props' /\ Ended' /\ Resets' /\ Fresh' /\ Links' /\ Found'
  BY <1>0, <1>a DEF Inv, Props, Ended, Resets, Fresh, Links, Found, Busy
<1>3. ~Has(inbox, "version") \/ ~Has(inbox, "enum")
  BY <1>0 DEF Inv, Exchange
<1>4. Exchange'
  BY <1>0, <1>a, <1>3 DEF Exchange, Busy
<1>5. Undisturbed' /\ NotFoundIsAbsent'
  BY <1>0 DEF Undisturbed, Searching, Busy, NotFoundIsAbsent
<1> QED
  BY <1>1, <1>2, <1>4, <1>5 DEF Inv

(* The addresses the loop passes over.                                     *)
LEMMA NextAsked ==
  ASSUME NEW a \in 0 .. Last, NEW set \in SUBSET Listed, AskNext(a, set)
  PROVE  \/ /\ hpc' = "idle" /\ outcome' = "notFound" /\ step' = step
            /\ addr' = addr /\ \A b \in set : b <= a
         \/ /\ hpc' = "write" /\ outcome' = outcome /\ step' = "prop"
            /\ addr' \in set /\ \A b \in set : b < addr' => b <= a
<1>1. \A b \in set : b \in Int /\ b <= Last
  BY ConnectAssumption
<1>2. a \in Int
  BY ConnectAssumption
<1>3. \A b \in set : b \in After(a, set) \/ b <= a
  BY <1>1, <1>2 DEF After
<1>4. CASE After(a, set) = {}
  BY <1>3, <1>4 DEF AskNext, End
<1>5. CASE After(a, set) # {}
  <2>1. PICK b \in After(a, set) :
          /\ \A c \in After(a, set) : b <= c
          /\ addr' = b /\ Go("prop", "write")
    BY <1>5 DEF AskNext
  <2>2. b \in set
    BY DEF After
  <2>3. \A c \in set : c < b => c <= a
    BY <2>1, <2>2, <1>1, <1>3
  <2> QED
    BY <2>1, <2>2, <2>3 DEF Go
<1> QED
  BY <1>4, <1>5

LEMMA AllMissed ==
  ASSUME NEW a \in Nat, NEW b \in Nat, Missed(a),
         \A c \in Listed : c < b => c <= a,
         a \in Listed => Uuid[a] # target
  PROVE  Missed(b)
<1>1. \A c \in Listed : c \in Int
  BY ConnectAssumption
<1>2. \A c \in Listed : c <= a => c < a \/ c = a
  BY <1>1
<1> QED
  BY <1>2 DEF Missed

LEMMA ResetDoneKeeps == Inv /\ ResetDone => Inv'
<1> SUFFICES ASSUME Inv, ResetDone PROVE Inv'
  OBVIOUS
<1>0. /\ hpc = "reset" /\ hpc' = "write" /\ step' = "version" /\ rst' = FALSE
      /\ hiccup' = (hiccup \/ resetting)
      /\ UNCHANGED <<meAddr, hostAddr, maxMsgLen, outcome, target, valid, addr,
                     toMe, inbox, up, resetting, granted>>
  BY DEF ResetDone, Go, ctx, chan, me
<1>1. TypeOK'
  <2>1. hiccup' \in BOOLEAN /\ rst' \in BOOLEAN
    BY <1>0
  <2> QED
    BY <1>0, <2>1 DEF Inv, TypeOK, Steps
<1>2. Props' /\ Ended' /\ Resets' /\ Fresh' /\ Links' /\ Found'
  BY <1>0 DEF Inv, Props, Ended, Resets, Fresh, Links, Link, Early, Found, Busy
<1>3. ~resetting => toMe = <<>> /\ inbox = <<>>
  BY <1>0 DEF Inv, Resets
<1>4. Exchange'
  BY <1>0, <1>3, EmptyHolds DEF Inv, Exchange, Busy
<1>5. Undisturbed' /\ NotFoundIsAbsent'
  BY <1>0, <1>3 DEF Inv, Ended, Undisturbed, Searching, NotFoundIsAbsent
<1> QED
  BY <1>1, <1>2, <1>4, <1>5 DEF Inv

LEMMA ResetTimeoutKeeps == Inv /\ ResetTimeout => Inv'
<1> SUFFICES ASSUME Inv, ResetTimeout PROVE Inv'
  OBVIOUS
<1>0. /\ hpc = "reset" /\ hiccup' = TRUE
      /\ UNCHANGED <<meAddr, hostAddr, maxMsgLen, target, valid, addr,
                     toMe, inbox, up, resetting, rst, granted>>
      /\ \/ hpc' = "write" /\ step' = "version" /\ outcome' = outcome
         \/ hpc' = "idle" /\ step' = step /\ outcome' = "failed"
  BY DEF ResetTimeout, Go, End, ctx, chan, me
<1>1. TypeOK'
  BY <1>0 DEF Inv, TypeOK, Steps
<1>2. Props' /\ Ended' /\ Resets' /\ Fresh' /\ Links' /\ Found'
  BY <1>0 DEF Inv, Props, Ended, Resets, Fresh, Links, Link, Early, Found, Busy
<1>3. ~resetting => toMe = <<>> /\ inbox = <<>>
  BY <1>0 DEF Inv, Resets
<1>4. Exchange'
  BY <1>0, <1>3, EmptyHolds DEF Inv, Exchange, Busy
<1>5. Undisturbed' /\ NotFoundIsAbsent'
  BY <1>0 DEF Undisturbed, Searching, NotFoundIsAbsent
<1> QED
  BY <1>1, <1>2, <1>4, <1>5 DEF Inv

(* An exchange that fails or goes on to the next address.                  *)
LEMMA GivesUp ==
  ASSUME Inv, Busy, UNCHANGED <<ctx, target, valid, chan, me, rst, granted>>,
         hiccup' = TRUE,
         \/ step = "prop" /\ AskNext(addr, valid)
         \/ /\ step # "prop" /\ hpc' = "idle" /\ step' = step /\ addr' = addr
            /\ \/ outcome' = "failed"
               \/ step = "credit" /\ outcome' = "ok"
  PROVE  Inv'
<1>0. UNCHANGED <<meAddr, hostAddr, maxMsgLen, target, valid,
                  toMe, inbox, up, resetting, rst, granted>>
  BY DEF ctx, chan, me
<1>1. \/ hpc' = "write" /\ step = "prop" /\ step' = "prop" /\ outcome' = outcome
      \/ /\ hpc' = "idle" /\ step' = step
         /\ \/ outcome' \in {"failed", "notFound"}
            \/ step = "credit" /\ outcome' = "ok"
  BY NextAsked DEF Inv, TypeOK
<1>2. addr' \in 0 .. Last /\ (step' = "prop" => addr' \in Listed)
  <2>1. addr' = addr \/ addr' \in Listed
    BY NextAsked DEF Inv, TypeOK
  <2>2. step' = "prop" => addr' \in Listed
    BY NextAsked DEF Inv, TypeOK
  <2>3. Listed \subseteq 0 .. Last
    BY ConnectAssumption
  <2> QED
    BY <2>1, <2>2, <2>3 DEF Inv, TypeOK
<1>3. TypeOK'
  BY <1>0, <1>1, <1>2 DEF Inv, TypeOK
<1>4. Props' /\ Ended' /\ Fresh' /\ Links' /\ Found'
  BY <1>0, <1>1 DEF Inv, Props, Ended, Fresh, Links, Link, Early, Found, Busy
<1>5. Resets' /\ Exchange'
  BY <1>0, <1>1 DEF Inv, Ended, Resets, Exchange, Busy
<1>6. Undisturbed' /\ NotFoundIsAbsent'
  BY DEF Undisturbed, Searching, NotFoundIsAbsent
<1> QED
  BY <1>3, <1>4, <1>5, <1>6 DEF Inv

LEMMA WriteFailsKeeps == Inv /\ WriteFails => Inv'
  BY GivesUp DEF WriteFails, End, Busy

LEMMA ReadTimeoutKeeps == Inv /\ ReadTimeout => Inv'
  BY GivesUp DEF ReadTimeout, End, Busy

LEMMA WriteKeeps == Inv /\ Write => Inv'
<1> SUFFICES ASSUME Inv, Write PROVE Inv'
  OBVIOUS
<1> DEFINE m == Request
<1>0. /\ hpc = "write" /\ hpc' = "read" /\ toMe' = Append(toMe, m)
      /\ UNCHANGED <<meAddr, hostAddr, maxMsgLen, step, target, valid, addr,
                     outcome, inbox, up, resetting, rst, granted, hiccup>>
  BY DEF Write, ctx, me
<1>m. /\ m.cmd = step /\ m.fresh
      /\ step = "prop" => m.me = addr
      /\ step # "prop" => m.me = meAddr
      /\ m.host = hostAddr
  BY DEF Request
<1>t. m \in Requests /\ toMe \in Seq(Requests)
  BY DEF Inv, TypeOK, Request, Requests
<1> HIDE DEF m
<1>a. /\ toMe' \in Seq(Requests)
      /\ \A c : Has(toMe', c) => Has(toMe, c) \/ step = c
      /\ \A c : Once(toMe, c) /\ (~Has(toMe, c) \/ step # c) => Once(toMe', c)
      /\ AllFresh(toMe) => AllFresh(toMe')
      /\ Proper(toMe) /\ (step = "prop" => m.me \in Listed) => Proper(toMe')
      /\ Connects(toMe') => Connects(toMe) \/ step = "connect"
      /\ \A a, h : /\ AsksFor(toMe, a, h)
                   /\ step = "connect" => m.me = a /\ m.host = h
                   => AsksFor(toMe', a, h)
      /\ toMe = <<>> => Len(toMe') = 1 /\ toMe'[1] = m
  BY <1>0, <1>m, <1>t, Added
<1>1. TypeOK'
  BY <1>0, <1>a DEF Inv, TypeOK
<1>2. Props'
  BY <1>0, <1>m, <1>a DEF Inv, TypeOK, Props
<1>3. Ended' /\ Resets' /\ Fresh' /\ Found'
  BY <1>0, <1>a DEF Inv, Ended, Resets, Fresh, Found, Busy
<1>4. Links'
  BY <1>0, <1>m, <1>a DEF Inv, Links, Link, Early, Busy
<1>5. Exchange'
  BY <1>0, <1>a DEF Inv, Exchange, Busy
<1>6. Undisturbed' /\ NotFoundIsAbsent'
  <2>1. Searching' => Searching
    BY <1>0 DEF Searching, Busy
  <2>2. Searching => toMe = <<>> /\ inbox = <<>>
    BY <1>0 DEF Inv, Undisturbed
  <2>3. Searching => Asked'
    BY <1>0, <1>m, <1>a, <2>2 DEF Asked
  <2> QED
    BY <1>0, <2>1, <2>3 DEF Inv, Undisturbed, Missed, NotFoundIsAbsent
<1> QED
  BY <1>1, <1>2, <1>3, <1>4, <1>5, <1>6 DEF Inv

(* The next message is read.                                               *)
LEMMA AfterRead ==
  ASSUME Inv, NEW s, Reading(s)
  PROVE  /\ hpc = "read" /\ step = s
         /\ UNCHANGED <<toMe, target, up, resetting, rst, granted, hiccup>>
         /\ inbox' \in Seq(Answers) /\ Head(inbox) = inbox[1]
         /\ inbox[1] \in Answers
         /\ \A c : Has(inbox', c) => Has(inbox, c)
         /\ \A c : Once(inbox, c) =>
              Once(inbox', c) /\ (inbox[1].cmd = c => ~Has(inbox', c))
         /\ Has(inbox, inbox[1].cmd)
         /\ Connects(inbox') => Connects(inbox)
         /\ Grants(inbox') => Grants(inbox)
         /\ inbox[1].cmd = "connect" /\ inbox[1].fresh /\ inbox[1].ok =>
              Grants(inbox)
         /\ inbox[1].cmd = "prop" => inbox[1].me \in Listed
         /\ ~resetting => inbox[1].fresh
         /\ Props' /\ Fresh'
<1>1. /\ inbox # <<>> /\ inbox' = Tail(inbox) /\ hpc = "read" /\ step = s
      /\ UNCHANGED <<toMe, target, up, resetting, rst, granted, hiccup>>
  BY DEF Reading, me
<1>2. /\ inbox \in Seq(Answers) /\ Proper(inbox) /\ Proper(toMe)
      /\ ~resetting => AllFresh(inbox) /\ AllFresh(toMe)
  BY DEF Inv, TypeOK, Props, Fresh
<1>3. /\ inbox' \in Seq(Answers) /\ Head(inbox) = inbox[1]
      /\ inbox[1] \in Answers
  BY <1>1, <1>2, TailItems
<1>4. /\ Within(inbox', inbox)
      /\ \A c : Once(inbox, c) =>
           Once(inbox', c) /\ (inbox[1].cmd = c => ~Has(inbox', c))
      /\ \A c : inbox[1].cmd = c => Has(inbox, c)
      /\ inbox[1].cmd = "connect" /\ inbox[1].fresh /\ inbox[1].ok =>
           Grants(inbox)
      /\ AllFresh(inbox) => inbox[1].fresh
      /\ inbox[1].cmd = "prop" => inbox[1].me \in Listed
  BY <1>1, <1>2, Removed
<1>5. /\ \A c : Has(inbox', c) => Has(inbox, c)
      /\ AllFresh(inbox) => AllFresh(inbox')
      /\ Proper(inbox')
      /\ Connects(inbox') => Connects(inbox)
      /\ Grants(inbox') => Grants(inbox)
  BY <1>2, <1>4, LessHolds
<1> QED
  BY <1>1, <1>2, <1>3, <1>4, <1>5 DEF Props, Fresh

(* As long as nothing went wrong it is the reply, and the only message.    *)
LEMMA ReplyRead ==
  ASSUME Inv, NEW s, Reading(s), Searching
  PROVE  /\ ~resetting /\ toMe = <<>> /\ inbox' = <<>>
         /\ inbox[1].cmd = step /\ inbox[1].ok
         /\ step = "prop" =>
              valid = Listed /\ Missed(addr) /\ inbox[1].me = addr
<1>1. hpc = "read" /\ inbox # <<>> /\ inbox' = Tail(inbox)
  BY DEF Reading
<1>2. /\ Asked \/ Answered
      /\ ~resetting /\ (step = "prop" => valid = Listed /\ Missed(addr))
  BY <1>1 DEF Inv, Undisturbed
<1>3. Answered
  BY <1>1, <1>2 DEF Asked
<1>4. inbox' = <<>>
  <2>1. inbox \in Seq(Answers)
    BY DEF Inv, TypeOK
  <2>2. Tail(inbox) \in Seq(Answers) /\ Len(Tail(inbox)) = Len(inbox) - 1
    BY <2>1, <1>1, TailItems
  <2>3. Len(Tail(inbox)) = 0
    BY <2>2, <1>3 DEF Answered
  <2> QED
    BY <2>2, <2>3, <1>1, NoItems
<1> QED
  BY <1>2, <1>3, <1>4 DEF Answered

LEMMA NoConnects ==
  ASSUME NEW q, ~Connects(q)
  PROVE  ~Grants(q) /\ \A a, h : AsksFor(q, a, h)
  BY DEF Connects, Grants, AsksFor

LEMMA ReadVersionKeeps == Inv /\ ReadVersion => Inv'
<1> SUFFICES ASSUME Inv, ReadVersion PROVE Inv'
  OBVIOUS
<1>0. /\ Reading("version")
      /\ UNCHANGED <<meAddr, hostAddr, maxMsgLen, valid, addr>>
      /\ \/ Good /\ step' = "enum" /\ hpc' = "write" /\ outcome' = outcome
         \/ step' = step /\ hpc' = "idle" /\ outcome' = "failed"
  BY DEF ReadVersion, Go, End, ctx
<1>a. /\ hpc = "read" /\ step = "version"
      /\ UNCHANGED <<toMe, target, up, resetting, rst, granted, hiccup>>
      /\ inbox' \in Seq(Answers) /\ Head(inbox) = inbox[1]
      /\ \A c : Has(inbox', c) => Has(inbox, c)
      /\ \A c : Once(inbox, c) =>
           Once(inbox', c) /\ (inbox[1].cmd = c => ~Has(inbox', c))
      /\ Has(inbox, inbox[1].cmd)
      /\ Connects(inbox') => Connects(inbox)
      /\ Grants(inbox') => Grants(inbox)
      /\ Props' /\ Fresh'
  BY <1>0, AfterRead
<1>1. TypeOK'
  BY <1>0, <1>a DEF Inv, TypeOK, Steps
<1>2. Ended' /\ Resets' /\ Found'
  BY <1>0, <1>a DEF Inv, Ended, Resets, Found, Busy
<1>3. Links'
  BY <1>0, <1>a DEF Inv, Links, Link, Early, Busy
<1>4. Exchange'
  <2>1. Good => Has(inbox, "version") /\ inbox[1].cmd = "version"
    BY <1>a DEF Good
  <2> QED
    BY <1>0, <1>a, <2>1 DEF Inv, Exchange, Busy
<1>5. Undisturbed' /\ NotFoundIsAbsent'
  <2>1. Searching' => Searching /\ step' # "prop"
    BY <1>0, <1>a DEF Searching, Busy
  <2>2. Searching => ~resetting /\ toMe = <<>> /\ inbox' = <<>>
    BY <1>0, ReplyRead
  <2> QED
    BY <1>0, <1>a, <2>1, <2>2 DEF Inv, Ended, Undisturbed, Searching, NotFoundIsAbsent
<1> QED
  BY <1>a, <1>1, <1>2, <1>3, <1>4, <1>5 DEF Inv

(* The reply read is not the last of the search, or it is and the client   *)
(* is not there.                                                           *)
LEMMA SearchGoesOn ==
  ASSUME Inv, NEW s \in {"enum", "prop"}, Reading(s), ~resetting,
         UNCHANGED ctx, NEW a \in 0 .. Last, valid' \in SUBSET Listed,
         AskNext(a, valid'),
         Searching => /\ valid' = Listed /\ Missed(a)
                      /\ a \in Listed => Uuid[a] # target
  PROVE  Inv'
<1>0. UNCHANGED <<meAddr, hostAddr, maxMsgLen>>
  BY DEF ctx
<1>a. /\ hpc = "read" /\ step = s
      /\ UNCHANGED <<toMe, target, up, resetting, rst, granted, hiccup>>
      /\ inbox' \in Seq(Answers)
      /\ \A c : Has(inbox', c) => Has(inbox, c)
      /\ Connects(inbox') => Connects(inbox)
      /\ Grants(inbox') => Grants(inbox)
      /\ Props' /\ Fresh'
  BY AfterRead
<1>b. \/ /\ hpc' = "idle" /\ outcome' = "notFound" /\ step' = step
         /\ addr' = addr /\ \A b \in valid' : b <= a
      \/ /\ hpc' = "write" /\ outcome' = outcome /\ step' = "prop"
         /\ addr' \in valid' /\ \A b \in valid' : b < addr' => b <= a
  BY NextAsked
<1>c. Listed \subseteq 0 .. Last /\ Listed \subseteq Nat /\ a \in Nat
  BY ConnectAssumption
<1>1. TypeOK'
  <2>1. addr' \in 0 .. Last /\ (step' = "prop" => addr' \in Listed)
    BY <1>a, <1>b, <1>c DEF Inv, TypeOK
  <2> QED
    BY <1>0, <1>a, <1>b, <2>1 DEF Inv, TypeOK, Steps
<1>2. Ended' /\ Resets' /\ Found'
  BY <1>0, <1>a, <1>b DEF Inv, Ended, Resets, Found, Busy
<1>3. Links'
  BY <1>0, <1>a, <1>b DEF Inv, Links, Link, Early, Busy
<1>4. Exchange'
  BY <1>a, <1>b DEF Inv, Exchange, Busy
<1>s. Searching = ~hiccup
  BY <1>a DEF Searching, Busy
<1>5. Undisturbed'
  <2> SUFFICES ASSUME Searching' PROVE Undisturbed'
    BY DEF Undisturbed
  <2>1. Searching /\ hpc' = "write"
    BY <1>a, <1>b, <1>s DEF Searching, Busy
  <2>2. toMe' = <<>> /\ inbox' = <<>>
    BY <1>a, <2>1, ReplyRead
  <2>3. valid' = Listed /\ addr' \in Nat /\ Missed(a)
        /\ (\A c \in Listed : c < addr' => c <= a)
        /\ (a \in Listed => Uuid[a] # target)
    BY <2>1, <1>b, <1>c
  <2>4. \A b \in Listed : b < addr' => Uuid[b] # target
    BY <2>3, <1>c, AllMissed DEF Missed
  <2> QED
    BY <1>a, <2>1, <2>2, <2>3, <2>4 DEF Undisturbed, Missed
<1>6. NotFoundIsAbsent'
  <2> SUFFICES ASSUME outcome' = "notFound", ~hiccup', NEW b \in Listed
               PROVE  Uuid[b] # target
    BY <1>a DEF NotFoundIsAbsent
  <2>1. Searching /\ outcome = "none"
    BY <1>a, <1>s DEF Inv, Ended
  <2>2. b <= a
    BY <2>1, <1>b
  <2>3. b < a \/ b = a
    BY <2>2, <1>c
  <2> QED
    BY <2>1, <2>3 DEF Missed
<1> QED
  BY <1>a, <1>1, <1>2, <1>3, <1>4, <1>5, <1>6 DEF Inv

(* A reading that fails ends the attempt.                                  *)
LEMMA ReadFails ==
  ASSUME Inv, NEW s \in {"enum", "connect"}, Reading(s), End("failed"),
         UNCHANGED <<ctx, valid, addr>>
  PROVE  Inv'
<1>0. /\ hpc' = "idle" /\ outcome' = "failed" /\ step' = step
      /\ UNCHANGED <<meAddr, hostAddr, maxMsgLen, valid, addr>>
  BY DEF End, ctx
<1>a. /\ hpc = "read" /\ step = s
      /\ UNCHANGED <<toMe, target, up, resetting, rst, granted, hiccup>>
      /\ inbox' \in Seq(Answers)
      /\ \A c : Has(inbox', c) => Has(inbox, c)
      /\ Grants(inbox') => Grants(inbox)
      /\ Props' /\ Fresh'
  BY AfterRead
<1>1. TypeOK'
  BY <1>0, <1>a DEF Inv, TypeOK
<1>2. Ended' /\ Resets' /\ Found' /\ Links' /\ Exchange'
  BY <1>0, <1>a DEF Inv, Ended, Resets, Found, Links, Link, Early, Exchange, Busy
<1>3. Undisturbed' /\ NotFoundIsAbsent'
  BY <1>0 DEF Undisturbed, Searching, Busy, NotFoundIsAbsent
<1> QED
  BY <1>a, <1>1, <1>2, <1>3 DEF Inv

LEMMA ReadEnumKeeps == Inv /\ ReadEnum => Inv'
<1> SUFFICES ASSUME Inv, ReadEnum PROVE Inv'
  OBVIOUS
<1>1. Reading("enum") /\ UNCHANGED ctx
  BY DEF ReadEnum
<1>2. CASE Good
  <2>1. valid' = Listed /\ AskNext(0, valid')
    BY <1>2 DEF ReadEnum
  <2>2. /\ hpc = "read" /\ step = "enum"
        /\ Head(inbox) = inbox[1] /\ Has(inbox, inbox[1].cmd)
    BY <1>1, AfterRead
  <2>3. ~resetting
    BY <2>2, <1>2 DEF Good, Inv, Exchange, Busy
  <2>4. 0 \in 0 .. Last /\ Missed(0) /\ 0 \notin Listed
    BY ConnectAssumption DEF Missed
  <2> QED
    BY <1>1, <2>1, <2>3, <2>4, SearchGoesOn
<1>3. CASE ~Good
  <2>1. End("failed") /\ UNCHANGED <<valid, addr>>
    BY <1>3 DEF ReadEnum
  <2> QED
    BY <1>1, <2>1, ReadFails
<1> QED
  BY <1>2, <1>3

LEMMA ReadPropKeeps == Inv /\ ReadProp => Inv'
<1> SUFFICES ASSUME Inv, ReadProp PROVE Inv'
  OBVIOUS
<1> DEFINE Match == Good /\ Uuid[Head(inbox).me] = target
<1>0. Reading("prop") /\ valid' = valid
  BY DEF ReadProp
<1>a. /\ hpc = "read" /\ step = "prop"
      /\ UNCHANGED <<toMe, target, up, resetting, rst, granted, hiccup>>
      /\ inbox' \in Seq(Answers) /\ Head(inbox) = inbox[1]
      /\ inbox[1] \in Answers
      /\ \A c : Has(inbox', c) => Has(inbox, c)
      /\ Connects(inbox') => Connects(inbox)
      /\ inbox[1].cmd = "prop" => inbox[1].me \in Listed
      /\ Props' /\ Fresh'
  BY <1>0, AfterRead
<1>b. ~resetting
  BY <1>a DEF Inv, Resets, Busy
<1>1. CASE Match
  <2>1. /\ meAddr' = inbox[1].me /\ maxMsgLen' = MaxLen[inbox[1].me]
        /\ hostAddr' = HostAddr[target] /\ step' = "connect" /\ hpc' = "write"
        /\ UNCHANGED <<outcome, addr, valid>>
    BY <1>1, <1>a DEF ReadProp, Go
  <2>2. inbox[1].me \in Listed /\ Uuid[inbox[1].me] = target
    BY <1>1, <1>a DEF Good
  <2>3. meAddr' \in 0 .. Last /\ maxMsgLen' \in Nat /\ hostAddr' \in Nat
    <3>1. inbox[1].me \in 1 .. Last
      BY <2>2, ConnectAssumption
    <3>2. MaxLen[inbox[1].me] \in Nat
      BY <3>1, ConnectAssumption
    <3>3. target \in Targets
      BY DEF Inv, TypeOK
    <3>4. HostAddr[target] \in Nat
      BY <3>3, ConnectAssumption
    <3> QED
      BY <2>1, <3>1, <3>2, <3>4
  <2>4. TypeOK'
    BY <1>a, <2>1, <2>3 DEF Inv, TypeOK, Steps
  <2>5. ~Connects(toMe') /\ ~Connects(inbox')
    BY <1>a DEF Inv, Links, Early, Busy
  <2>6. ~Grants(inbox') /\ \A c, h : AsksFor(toMe', c, h)
    BY <2>5, NoConnects
  <2>7. Links'
    BY <1>a, <2>1, <2>5, <2>6 DEF Inv, Ended, Links, Early, Busy
  <2>8. Ended' /\ Resets' /\ Found' /\ Exchange'
    BY <1>a, <1>b, <2>1, <2>2 DEF Inv, Ended, Resets, Found, Exchange, Busy
  <2>9. Undisturbed' /\ NotFoundIsAbsent'
    BY <1>a, <2>1 DEF Inv, Ended, Undisturbed, Searching, NotFoundIsAbsent
  <2> QED
    BY <1>a, <2>4, <2>7, <2>8, <2>9 DEF Inv
<1>2. CASE ~Match
  <2>1. AskNext(addr, valid') /\ UNCHANGED ctx
    BY <1>0, <1>2 DEF ReadProp
  <2>2. addr \in 0 .. Last /\ valid' \in SUBSET Listed
    BY <1>0 DEF Inv, TypeOK
  <2>3. Searching => /\ valid' = Listed /\ Missed(addr)
                     /\ addr \in Listed => Uuid[addr] # target
    <3> SUFFICES ASSUME Searching
                 PROVE  valid' = Listed /\ Missed(addr) /\ Uuid[addr] # target
      OBVIOUS
    <3>1. /\ inbox[1].cmd = step /\ inbox[1].ok /\ inbox[1].me = addr
          /\ valid = Listed /\ Missed(addr)
      BY <1>0, <1>a, ReplyRead
    <3> QED
      BY <3>1, <1>0, <1>a, <1>2 DEF Good
  <2> QED
    BY <1>0, <1>b, <2>1, <2>2, <2>3, SearchGoesOn
<1> QED
  BY <1>1, <1>2

LEMMA ReadConnectKeeps == Inv /\ ReadConnect => Inv'
<1> SUFFICES ASSUME Inv, ReadConnect PROVE Inv'
  OBVIOUS
<1>0. Reading("connect") /\ UNCHANGED <<ctx, valid, addr>>
  BY DEF ReadConnect
<1>1. CASE ~Good
  BY <1>0, <1>1, ReadFails DEF ReadConnect
<1>2. CASE Good
  <2>0. /\ step' = "credit" /\ hpc' = "read"
        /\ UNCHANGED <<meAddr, hostAddr, maxMsgLen, valid, addr, outcome>>
    BY <1>0, <1>2 DEF ReadConnect, Go, ctx
  <2>a. /\ hpc = "read" /\ step = "connect"
        /\ UNCHANGED <<toMe, target, up, resetting, rst, granted, hiccup>>
        /\ inbox' \in Seq(Answers) /\ Head(inbox) = inbox[1]
        /\ \A c : Has(inbox', c) => Has(inbox, c)
        /\ inbox[1].cmd = "connect" /\ inbox[1].fresh /\ inbox[1].ok =>
             Grants(inbox)
        /\ ~resetting => inbox[1].fresh
        /\ Props' /\ Fresh'
    BY <1>0, AfterRead
  <2>b. ~resetting
    BY <2>a DEF Inv, Resets, Busy
  <2>1. granted = Link
    BY <2>a, <2>b, <1>2 DEF Good, Inv, Links
  <2>2. TypeOK'
    BY <2>0, <2>a DEF Inv, TypeOK, Steps
  <2>3. Links'
    BY <2>0, <2>1, <2>a DEF Inv, Links, Link, Early, Busy
  <2>4. Ended' /\ Resets' /\ Found' /\ Exchange'
    BY <2>0, <2>a, <2>b DEF Inv, Ended, Resets, Found, Exchange, Busy
  <2>5. Undisturbed' /\ NotFoundIsAbsent'
    BY <2>0, <2>a DEF Inv, Ended, Undisturbed, Searching, NotFoundIsAbsent
  <2> QED
    BY <2>a, <2>2, <2>3, <2>4, <2>5 DEF Inv
<1> QED
  BY <1>1, <1>2

LEMMA ReadCreditKeeps == Inv /\ ReadCredit => Inv'
<1> SUFFICES ASSUME Inv, ReadCredit PROVE Inv'
  OBVIOUS
<1>0. /\ Reading("credit") /\ hpc' = "idle" /\ outcome' = "ok" /\ step' = step
      /\ UNCHANGED <<meAddr, hostAddr, maxMsgLen, valid, addr>>
  BY DEF ReadCredit, End, ctx
<1>a. /\ hpc = "read" /\ step = "credit"
      /\ UNCHANGED <<toMe, target, up, resetting, rst, granted, hiccup>>
      /\ inbox' \in Seq(Answers)
      /\ \A c : Has(inbox', c) => Has(inbox, c)
      /\ Props' /\ Fresh'
  BY <1>0, AfterRead
<1>b. ~resetting
  BY <1>a DEF Inv, Resets, Busy
<1>1. TypeOK'
  BY <1>0, <1>a DEF Inv, TypeOK
<1>2. Links'
  BY <1>0, <1>a DEF Inv, Links, Link, Early, Busy
<1>3. Ended' /\ Resets' /\ Found' /\ Exchange'
  BY <1>0, <1>a, <1>b DEF Inv, Ended, Resets, Found, Exchange, Busy
<1>4. Undisturbed' /\ NotFoundIsAbsent'
  BY <1>0 DEF Undisturbed, Searching, Busy, NotFoundIsAbsent
<1> QED
  BY <1>a, <1>1, <1>2, <1>3, <1>4 DEF Inv

LEMMA UseClientKeeps == Inv /\ UseClient => Inv'
<1> SUFFICES ASSUME Inv, UseClient PROVE Inv'
  OBVIOUS
<1> DEFINE m == [cmd |-> "client", me |-> meAddr, host |-> hostAddr,
                 fresh |-> TRUE]
<1>0. /\ hpc = "idle" /\ outcome = "ok" /\ toMe' = Append(toMe, m)
      /\ UNCHANGED <<meAddr, hostAddr, maxMsgLen, hpc, step, target, valid, addr,
                     outcome, inbox, up, resetting, rst, granted, hiccup>>
  BY DEF UseClient, ctx, ctl, me
<1>m. m.cmd = "client" /\ m.fresh /\ m \in Requests /\ toMe \in Seq(Requests)
  BY DEF Inv, TypeOK, Requests
<1> HIDE DEF m
<1>a. /\ toMe' \in Seq(Requests)
      /\ \A c : Has(toMe', c) => Has(toMe, c) \/ m.cmd = c
      /\ \A c : Once(toMe, c) /\ (~Has(toMe, c) \/ m.cmd # c) => Once(toMe', c)
      /\ AllFresh(toMe) => AllFresh(toMe')
      /\ Proper(toMe) => Proper(toMe')
      /\ \A b, h : AsksFor(toMe, b, h) => AsksFor(toMe', b, h)
  BY <1>0, <1>m, Added
<1>1. TypeOK'
  BY <1>0, <1>a DEF Inv, TypeOK
<1>2. Props' /\ Ended' /\ Resets' /\ Fresh' /\ Found'
  BY <1>0, <1>a DEF Inv, Props, Ended, Resets, Fresh, Found, Busy
<1>3. Links'
  BY <1>0, <1>a DEF Inv, Links, Link, Early, Busy
<1>4. Exchange'
  BY <1>0, <1>a, <1>m DEF Inv, Exchange, Busy
<1>5. Undisturbed' /\ NotFoundIsAbsent'
  BY <1>0 DEF Undisturbed, Searching, Busy, NotFoundIsAbsent
<1> QED
  BY <1>1, <1>2, <1>3, <1>4, <1>5 DEF Inv

LEMMA IgnoreKeeps == Inv /\ Ignore => Inv'
<1> SUFFICES ASSUME Inv, Ignore PROVE Inv'
  OBVIOUS
<1>0. /\ toMe # <<>> /\ toMe' = Tail(toMe) /\ hiccup' = TRUE
      /\ UNCHANGED <<meAddr, hostAddr, maxMsgLen, hpc, step, target, valid, addr,
                     outcome, inbox, up, resetting, rst, granted>>
  BY DEF Ignore, ctx, ctl, me
<1>a. /\ toMe' \in Seq(Requests)
      /\ \A c : Once(toMe, c) => Once(toMe', c)
      /\ Within(toMe', toMe)
  BY <1>0, TailItems, Removed DEF Inv, TypeOK
<1>b. /\ \A c : Has(toMe', c) => Has(toMe, c)
      /\ AllFresh(toMe) => AllFresh(toMe')
      /\ Proper(toMe) => Proper(toMe')
      /\ Connects(toMe') => Connects(toMe)
      /\ \A b, h : AsksFor(toMe, b, h) => AsksFor(toMe', b, h)
  BY <1>a, LessHolds
<1>c. hpc = "reset" /\ ~resetting => FALSE
  BY <1>0 DEF Inv, Resets
<1>1. TypeOK'
  BY <1>0, <1>a DEF Inv, TypeOK
<1>2. Props' /\ Ended' /\ Resets' /\ Fresh' /\ Found'
  BY <1>0, <1>b, <1>c DEF Inv, Props, Ended, Resets, Fresh, Found, Busy
<1>3. Links'
  BY <1>0, <1>b DEF Inv, Links, Link, Early, Busy
<1>4. Exchange'
  BY <1>0, <1>a, <1>b DEF Inv, Exchange, Busy
<1>5. Undisturbed' /\ NotFoundIsAbsent'
  BY <1>0 DEF Undisturbed, Searching, NotFoundIsAbsent
<1> QED
  BY <1>1, <1>2, <1>3, <1>4, <1>5 DEF Inv

LEMMA UnaskedKeeps == Inv /\ Unasked => Inv'
<1> SUFFICES ASSUME Inv, Unasked PROVE Inv'
  OBVIOUS
<1> DEFINE m == Message("other", 0, TRUE)
<1>0. /\ ~rst /\ ~resetting /\ inbox' = Append(inbox, m) /\ hiccup' = TRUE
      /\ UNCHANGED <<meAddr, hostAddr, maxMsgLen, hpc, step, target, valid, addr,
                     outcome, toMe, up, resetting, rst, granted>>
  BY DEF Unasked, ctx, ctl, me
<1>m. m.cmd = "other" /\ m.fresh /\ m \in Answers /\ inbox \in Seq(Answers)
  BY ConnectAssumption DEF Inv, TypeOK, Answers, Message
<1> HIDE DEF m
<1>a. /\ inbox' \in Seq(Answers)
      /\ \A c : Has(inbox', c) => Has(inbox, c) \/ m.cmd = c
      /\ \A c : Once(inbox, c) /\ (~Has(inbox, c) \/ m.cmd # c) => Once(inbox', c)
      /\ AllFresh(inbox) => AllFresh(inbox')
      /\ Proper(inbox) => Proper(inbox')
      /\ Connects(inbox') => Connects(inbox)
      /\ Grants(inbox') => Grants(inbox)
  BY <1>0, <1>m, Added
<1>c. hpc # "reset"
  BY <1>0 DEF Inv, Resets
<1>1. TypeOK'
  BY <1>0, <1>a DEF Inv, TypeOK
<1>2. Props' /\ Ended' /\ Resets' /\ Fresh' /\ Found'
  BY <1>0, <1>a, <1>c DEF Inv, Props, Ended, Resets, Fresh, Found, Busy
<1>3. Links'
  BY <1>0, <1>a DEF Inv, Links, Link, Early, Busy
<1>4. Exchange'
  BY <1>0, <1>a, <1>m DEF Inv, Exchange, Busy
<1>5. Undisturbed' /\ NotFoundIsAbsent'
  BY <1>0 DEF Undisturbed, Searching, NotFoundIsAbsent
<1> QED
  BY <1>1, <1>2, <1>3, <1>4, <1>5 DEF Inv

LEMMA MeResetKeeps == Inv /\ MeReset => Inv'
<1> SUFFICES ASSUME Inv, MeReset PROVE Inv'
  OBVIOUS
<1>0. /\ resetting' = FALSE /\ up' = FALSE /\ toMe' = <<>> /\ inbox' = <<>>
      /\ hiccup' = (hiccup \/ ~resetting \/ hpc # "reset")
      /\ UNCHANGED <<meAddr, hostAddr, maxMsgLen, hpc, step, target, valid, addr,
                     outcome, rst, granted>>
  BY DEF MeReset, ctx, ctl
<1>1. TypeOK'
  <2>1. toMe' \in Seq(Requests) /\ inbox' \in Seq(Answers)
    BY <1>0
  <2>2. hiccup' \in BOOLEAN /\ up' \in BOOLEAN /\ resetting' \in BOOLEAN
    BY <1>0
  <2> QED
    BY <1>0, <2>1, <2>2 DEF Inv, TypeOK
<1>2. Props' /\ Ended' /\ Resets' /\ Fresh' /\ Found'
  BY <1>0, EmptyHolds DEF Inv, Props, Ended, Resets, Fresh, Found, Busy
<1>3. Links' /\ Exchange'
  BY <1>0, EmptyHolds DEF Inv, Links, Link, Early, Exchange, Busy
<1>4. Undisturbed' /\ NotFoundIsAbsent'
  BY <1>0 DEF Inv, Undisturbed, Searching, Busy, NotFoundIsAbsent
<1> QED
  BY <1>1, <1>2, <1>3, <1>4 DEF Inv

LEMMA MeUpKeeps == Inv /\ MeUp => Inv'
<1> SUFFICES ASSUME Inv, MeUp PROVE Inv'
  OBVIOUS
<1>0. /\ up' = TRUE
      /\ UNCHANGED <<meAddr, hostAddr, maxMsgLen, hpc, step, target, valid, addr,
                     outcome, toMe, inbox, resetting, rst, granted, hiccup>>
  BY DEF MeUp, ctx, ctl, chan
<1>1. TypeOK'
  BY <1>0 DEF Inv, TypeOK
<1>2. Props' /\ Ended' /\ Resets' /\ Fresh' /\ Found' /\ Links' /\ Exchange'
  BY <1>0 DEF Inv, Props, Ended, Resets, Fresh, Found, Links, Link, Early,
              Exchange, Busy
<1>3. Undisturbed' /\ NotFoundIsAbsent'
  BY <1>0 DEF Inv, Undisturbed, Searching, Busy, Asked, Answered, Missed,
              NotFoundIsAbsent
<1> QED
  BY <1>1, <1>2, <1>3 DEF Inv

(* A reply of one message or of two comes last.                            *)
LEMMA OneMore ==
  ASSUME NEW S, NEW q \in Seq(S), NEW n \in Seq(S), Len(n) = 1
  PROVE  n[1] \in S /\ q \o n = Append(q, n[1])
<1>1. n[1] \in S /\ 1 \in 1 .. Len(n)
  OBVIOUS
<1> DEFINE u == Append(q, n[1])
           v == q \o n
<1>2. /\ u \in Seq(S) /\ Len(u) = Len(q) + 1 /\ Len(q) \in Nat
      /\ \A i \in 1 .. Len(q) : u[i] = q[i]
      /\ u[Len(q) + 1] = n[1]
      /\ \A i \in 1 .. Len(q) + 1 : i \in 1 .. Len(q) \/ i = Len(q) + 1
  BY <1>1, AppendItems
<1>3. /\ v \in Seq(S) /\ Len(v) = Len(q) + Len(n)
      /\ \A i \in 1 .. Len(q) : v[i] = q[i]
      /\ \A i \in 1 .. Len(n) : v[Len(q) + i] = n[i]
  BY ConcatItems
<1> HIDE DEF u, v
<1>4. \A i \in 1 .. Len(v) : u[i] = v[i]
  BY <1>1, <1>2, <1>3
<1>5. u = v
  BY <1>2, <1>3, <1>4
<1> QED
  BY <1>1, <1>5 DEF u, v

LEMMA TwoMore ==
  ASSUME NEW S, NEW q \in Seq(S), NEW n \in Seq(S), Len(n) = 2
  PROVE  n[1] \in S /\ n[2] \in S /\ q \o n = Append(Append(q, n[1]), n[2])
<1>1. n[1] \in S /\ n[2] \in S
  OBVIOUS
<1> DEFINE t == Append(q, n[1])
<1>2. /\ t \in Seq(S) /\ Len(t) = Len(q) + 1 /\ Len(q) \in Nat
      /\ \A i \in 1 .. Len(q) : t[i] = q[i]
      /\ t[Len(q) + 1] = n[1]
  BY <1>1, AppendItems
<1> HIDE DEF t
<1> DEFINE u == Append(t, n[2])
<1>3. /\ u \in Seq(S) /\ Len(u) = Len(t) + 1
      /\ \A i \in 1 .. Len(t) : u[i] = t[i]
      /\ u[Len(t) + 1] = n[2]
  BY <1>1, <1>2, AppendItems
<1> HIDE DEF u
<1> DEFINE v == q \o n
<1>4. /\ v \in Seq(S) /\ Len(v) = Len(q) + 2
      /\ \A i \in 1 .. Len(q) : v[i] = q[i]
      /\ v[Len(q) + 1] = n[1] /\ v[Len(q) + 2] = n[2]
  <2>1. /\ v \in Seq(S) /\ Len(v) = Len(q) + Len(n)
        /\ \A i \in 1 .. Len(q) : v[i] = q[i]
        /\ \A i \in 1 .. Len(n) : v[Len(q) + i] = n[i]
    BY ConcatItems
  <2> HIDE DEF v
  <2>2. 1 \in 1 .. Len(n) /\ 2 \in 1 .. Len(n)
    OBVIOUS
  <2> QED
    BY <2>1, <2>2
<1> HIDE DEF v
<1>5. Len(u) = Len(v) /\ \A i \in 1 .. Len(v) : u[i] = v[i]
  <2>1. \A i \in 1 .. Len(v) :
          i \in 1 .. Len(q) \/ i = Len(q) + 1 \/ i = Len(q) + 2
    BY <1>2, <1>4
  <2>2. Len(u) = Len(q) + 2 /\ u[Len(q) + 2] = n[2]
    BY <1>2, <1>3
  <2>3. \A i \in 1 .. Len(q) : i \in 1 .. Len(t)
    BY <1>2
  <2>4. Len(q) + 1 \in 1 .. Len(t)
    BY <1>2
  <2> QED
    BY <2>1, <2>2, <2>3, <2>4, <1>2, <1>3, <1>4
<1>6. u = v
  BY <1>3, <1>4, <1>5
<1> QED
  BY <1>1, <1>6 DEF t, u, v

LEMMA MessageIs ==
  ASSUME NEW c \in Steps \cup {"other"}, NEW a \in 0 .. Last, NEW ok \in BOOLEAN
  PROVE  /\ Message(c, a, ok) \in Answers
         /\ Message(c, a, ok).cmd = c /\ Message(c, a, ok).me = a
  BY DEF Message, Answers

(* The messages of a reply, each as fresh as its request.                  *)
As(x, f) == [x EXCEPT !.fresh = f]

Aged(r, f) == [i \in 1 .. Len(r) |-> As(r[i], f)]

LEMMA AsItem ==
  ASSUME NEW x \in Answers, NEW f \in BOOLEAN
  PROVE  /\ As(x, f) \in Answers /\ As(x, f).cmd = x.cmd /\ As(x, f).me = x.me
         /\ As(x, f).ok = x.ok /\ As(x, f).fresh = f
  BY DEF As, Answers

LEMMA AgedItems ==
  ASSUME NEW r \in Seq(Answers), NEW f \in BOOLEAN
  PROVE  /\ Aged(r, f) \in Seq(Answers) /\ Len(Aged(r, f)) = Len(r)
         /\ \A i \in 1 .. Len(r) :
              /\ Aged(r, f)[i].cmd = r[i].cmd /\ Aged(r, f)[i].me = r[i].me
              /\ Aged(r, f)[i].ok = r[i].ok /\ Aged(r, f)[i].fresh = f
<1>1. \A i \in 1 .. Len(r) : r[i] \in Answers
  OBVIOUS
<1>2. Len(Aged(r, f)) = Len(r)
  BY DEF Aged
<1>3. \A i \in 1 .. Len(r) : Aged(r, f)[i] = As(r[i], f)
  BY DEF Aged
<1>4. \A i \in 1 .. Len(r) : As(r[i], f) \in Answers
  BY <1>1, AsItem
<1>5. Aged(r, f) \in Seq(Answers)
  BY <1>4 DEF Aged
<1> QED
  BY <1>1, <1>2, <1>3, <1>5, AsItem

LEMMA RepliesAre ==
  ASSUME NEW m \in Requests, NEW r \in Replies(m)
  PROVE  /\ r \in Seq(Answers)
         /\ \/ Len(r) = 1
            \/ Len(r) = 2 /\ m.cmd = "connect" /\ r[2].cmd = "credit"
         /\ \/ r[1].cmd = m.cmd /\ r[1].me = m.me
            \/ r[1].cmd = "other" /\ m.cmd = "client"
<1>0. m.cmd \in Steps \cup {"client"} /\ m.me \in 0 .. Last
  BY DEF Requests
<1>1. CASE r = <<Message("connect", m.me, TRUE), Message("credit", m.me, TRUE)>>
           /\ m.cmd = "connect"
  <2> DEFINE x == Message("connect", m.me, TRUE)
             y == Message("credit", m.me, TRUE)
  <2>1. /\ x \in Answers /\ x.cmd = "connect" /\ x.me = m.me
        /\ y \in Answers /\ y.cmd = "credit"
    BY <1>0, MessageIs DEF Steps
  <2>2. r = <<x, y>>
    BY <1>1
  <2> HIDE DEF x, y
  <2>3. r \in Seq(Answers) /\ Len(r) = 2 /\ r[1] = x /\ r[2] = y
    BY <2>1, <2>2
  <2> QED
    BY <1>1, <2>1, <2>3
<1>2. ASSUME NEW c \in Steps \cup {"other"}, NEW ok \in BOOLEAN,
             r = <<Message(c, m.me, ok)>>,
             c = m.cmd \/ (c = "other" /\ m.cmd = "client")
      PROVE  /\ r \in Seq(Answers) /\ Len(r) = 1
             /\ \/ r[1].cmd = m.cmd /\ r[1].me = m.me
                \/ r[1].cmd = "other" /\ m.cmd = "client"
  <2> DEFINE x == Message(c, m.me, ok)
  <2>1. x \in Answers /\ x.cmd = c /\ x.me = m.me
    BY <1>0, MessageIs
  <2>2. r = <<x>>
    BY <1>2
  <2> HIDE DEF x
  <2>3. r \in Seq(Answers) /\ Len(r) = 1 /\ r[1] = x
    BY <2>1, <2>2
  <2> QED
    BY <1>2, <2>1, <2>3
<1>3. CASE m.cmd = "connect"
  <2>1. \/ r = <<Message("connect", m.me, TRUE), Message("credit", m.me, TRUE)>>
        \/ r = <<Message("connect", m.me, FALSE)>>
    BY <1>3 DEF Replies
  <2>2. "connect" \in Steps
    BY DEF Steps
  <2> QED
    BY <1>1, <1>2, <1>3, <2>1, <2>2
<1>4. CASE m.cmd = "client"
  <2>1. r = <<Message("other", m.me, TRUE)>>
    BY <1>4 DEF Replies
  <2> QED
    BY <1>2, <1>4, <2>1
<1>5. CASE m.cmd # "connect" /\ m.cmd # "client"
  <2>1. PICK ok \in BOOLEAN : r = <<Message(m.cmd, m.me, ok)>>
    BY <1>5 DEF Replies
  <2>2. m.cmd \in Steps
    BY <1>0, <1>5
  <2> QED
    BY <1>2, <2>1, <2>2
<1> QED
  BY <1>3, <1>4, <1>5

(* What Serve does to the messages: the oldest request goes, its reply     *)
(* comes last and is as fresh as the request was.                          *)
LEMMA ServeItems ==
  ASSUME Inv, Serve
  PROVE  \E m \in Requests, x \in Answers :
           /\ toMe # <<>> /\ m = toMe[1] /\ toMe' = Tail(toMe) /\ ~resetting
           /\ \/ x.cmd = m.cmd /\ x.me = m.me
              \/ x.cmd = "other" /\ m.cmd = "client"
           /\ x.fresh = m.fresh
           /\ \/ inbox' = Append(inbox, x)
              \/ /\ m.cmd = "connect"
                 /\ \E y \in Answers :
                      /\ y.cmd = "credit" /\ y.fresh = m.fresh
                      /\ inbox' = Append(Append(inbox, x), y)
           /\ hiccup' = (hiccup \/ ~x.ok)
           /\ granted' = IF m.cmd = "connect" /\ x.ok /\ m.fresh
                         THEN [me |-> m.me, host |-> m.host] ELSE granted
<1> DEFINE m == Head(toMe)
<1>1. toMe \in Seq(Requests) /\ inbox \in Seq(Answers)
  BY DEF Inv, TypeOK
<1>2. toMe # <<>> /\ toMe' = Tail(toMe) /\ ~resetting
  BY DEF Serve
<1>3. m \in Requests /\ m = toMe[1]
  BY <1>1, <1>2, TailItems
<1>4. m.fresh \in BOOLEAN
  BY <1>3 DEF Requests
<1> HIDE DEF m
<1>5. PICK r \in Replies(m) :
        /\ inbox' = inbox \o Aged(r, m.fresh)
        /\ hiccup' = (hiccup \/ ~r[1].ok)
        /\ granted' = IF m.cmd = "connect" /\ r[1].ok /\ m.fresh
                      THEN [me |-> m.me, host |-> m.host] ELSE granted
  BY DEF Serve, m, Aged, As
<1>6. /\ r \in Seq(Answers)
      /\ \/ Len(r) = 1
         \/ Len(r) = 2 /\ m.cmd = "connect" /\ r[2].cmd = "credit"
      /\ \/ r[1].cmd = m.cmd /\ r[1].me = m.me
         \/ r[1].cmd = "other" /\ m.cmd = "client"
  BY <1>3, <1>5, RepliesAre
<1> DEFINE n == Aged(r, m.fresh)
<1>7. /\ n \in Seq(Answers) /\ Len(n) = Len(r)
      /\ \A i \in 1 .. Len(r) :
           /\ n[i].cmd = r[i].cmd /\ n[i].me = r[i].me
           /\ n[i].ok = r[i].ok /\ n[i].fresh = m.fresh
  BY <1>4, <1>6, AgedItems
<1>8. inbox' = inbox \o n
  BY <1>5
<1> HIDE DEF n
<1>9. /\ 1 \in 1 .. Len(r) /\ (Len(r) = 2 => 2 \in 1 .. Len(r))
  BY <1>6
<1>10. /\ n[1].cmd = r[1].cmd /\ n[1].me = r[1].me
       /\ n[1].ok = r[1].ok /\ n[1].fresh = m.fresh
       /\ Len(r) = 2 => n[2].cmd = r[2].cmd /\ n[2].fresh = m.fresh
  BY <1>7, <1>9
<1>11. /\ n[1] \in Answers
       /\ \/ inbox' = Append(inbox, n[1])
          \/ /\ m.cmd = "connect"
             /\ \E y \in Answers :
                  /\ y.cmd = "credit" /\ y.fresh = m.fresh
                  /\ inbox' = Append(Append(inbox, n[1]), y)
  <2>1. CASE Len(r) = 1
    BY <2>1, <1>1, <1>7, <1>8, OneMore
  <2>2. CASE Len(r) = 2 /\ m.cmd = "connect" /\ r[2].cmd = "credit"
    <3>1. /\ n[1] \in Answers /\ n[2] \in Answers
          /\ inbox' = Append(Append(inbox, n[1]), n[2])
      BY <2>2, <1>1, <1>7, <1>8, TwoMore
    <3> QED
      BY <2>2, <3>1, <1>10
  <2> QED
    BY <2>1, <2>2, <1>6
<1>12. /\ \/ n[1].cmd = m.cmd /\ n[1].me = m.me
          \/ n[1].cmd = "other" /\ m.cmd = "client"
       /\ hiccup' = (hiccup \/ ~n[1].ok)
       /\ granted' = IF m.cmd = "connect" /\ n[1].ok /\ m.fresh
                     THEN [me |-> m.me, host |-> m.host] ELSE granted
  BY <1>5, <1>6, <1>10
<1> QED
  BY <1>2, <1>3, <1>10, <1>11, <1>12

LEMMA ServeKeeps == Inv /\ Serve => Inv'
<1> SUFFICES ASSUME Inv, Serve PROVE Inv'
  OBVIOUS
<1>b. /\ hiccup' \in BOOLEAN
      /\ UNCHANGED <<meAddr, hostAddr, maxMsgLen, hpc, step, target, valid, addr,
                     outcome, up, resetting, rst>>
  BY DEF Serve, ctx, ctl, me, Inv, TypeOK
<1>1. PICK m \in Requests, x \in Answers :
        /\ toMe # <<>> /\ m = toMe[1] /\ toMe' = Tail(toMe) /\ ~resetting
        /\ \/ x.cmd = m.cmd /\ x.me = m.me
           \/ x.cmd = "other" /\ m.cmd = "client"
        /\ x.fresh = m.fresh
        /\ \/ inbox' = Append(inbox, x)
           \/ /\ m.cmd = "connect"
              /\ \E y \in Answers :
                   /\ y.cmd = "credit" /\ y.fresh = m.fresh
                   /\ inbox' = Append(Append(inbox, x), y)
        /\ hiccup' = (hiccup \/ ~x.ok)
        /\ granted' = IF m.cmd = "connect" /\ x.ok /\ m.fresh
                      THEN [me |-> m.me, host |-> m.host] ELSE granted
  BY ServeItems
<1>t. toMe \in Seq(Requests) /\ inbox \in Seq(Answers)
  BY DEF Inv, TypeOK
<1>p. /\ AllFresh(toMe) /\ AllFresh(inbox) /\ Proper(toMe) /\ Proper(inbox)
      /\ AsksFor(toMe, meAddr, hostAddr)
  BY <1>1 DEF Inv, Fresh, Props, Links
<1>2. /\ toMe' \in Seq(Requests) /\ Within(toMe', toMe)
      /\ \A c : Once(toMe, c) =>
           Once(toMe', c) /\ (m.cmd = c => ~Has(toMe', c))
      /\ Has(toMe, m.cmd)
      /\ m.cmd = "connect" => Connects(toMe)
      /\ m.cmd = "prop" => m.me \in Listed
      /\ m.fresh
  BY <1>1, <1>t, <1>p, TailItems, Removed
<1>3. /\ \A c : Has(toMe', c) => Has(toMe, c)
      /\ AllFresh(toMe') /\ Proper(toMe')
      /\ Connects(toMe') => Connects(toMe)
      /\ AsksFor(toMe', meAddr, hostAddr)
  BY <1>2, <1>p, LessHolds
<1>4. m.cmd = "connect" => m.me = meAddr /\ m.host = hostAddr
  <2>1. 1 \in 1 .. Len(toMe)
    BY <1>1, <1>t, TailItems
  <2> QED
    BY <2>1, <1>1, <1>2, <1>p DEF AsksFor
<1>5. x.fresh /\ (x.cmd = "prop" => x.me \in Listed)
  BY <1>1, <1>2
<1> DEFINE t == Append(inbox, x)
<1>6. /\ t \in Seq(Answers)
      /\ \A c : Has(t, c) => Has(inbox, c) \/ x.cmd = c
      /\ \A c : Once(inbox, c) /\ (~Has(inbox, c) \/ x.cmd # c) => Once(t, c)
      /\ AllFresh(t) /\ Proper(t)
      /\ Connects(t) => Connects(inbox) \/ x.cmd = "connect"
      /\ Grants(t) => Grants(inbox) \/ (x.cmd = "connect" /\ x.ok)
  BY <1>5, <1>t, <1>p, Added
<1> HIDE DEF t
<1>7. /\ inbox' \in Seq(Answers)
      /\ \A c : Has(inbox', c) => Has(inbox, c) \/ x.cmd = c \/ c = "credit"
      /\ \A c : /\ Once(inbox, c) /\ c # "credit"
                /\ ~Has(inbox, c) \/ x.cmd # c
                => Once(inbox', c)
      /\ AllFresh(inbox') /\ Proper(inbox')
      /\ Connects(inbox') => Connects(inbox) \/ x.cmd = "connect"
      /\ Grants(inbox') => Grants(inbox) \/ (x.cmd = "connect" /\ x.ok)
  <2>1. CASE inbox' = Append(inbox, x)
    BY <2>1, <1>6 DEF t
  <2>2. ASSUME NEW y \in Answers, y.cmd = "credit", y.fresh,
               inbox' = Append(Append(inbox, x), y)
        PROVE  /\ inbox' \in Seq(Answers)
               /\ \A c : Has(inbox', c) => Has(t, c) \/ c = "credit"
               /\ \A c : Once(t, c) /\ c # "credit" => Once(inbox', c)
               /\ AllFresh(inbox') /\ Proper(inbox')
               /\ Connects(inbox') => Connects(t)
               /\ Grants(inbox') => Grants(t)
    <3>1. inbox' = Append(t, y)
      BY <2>2 DEF t
    <3> QED
      BY <2>2, <3>1, <1>6, Added
  <2> QED
    BY <2>1, <2>2, <1>1, <1>2, <1>6
<1>8. TypeOK'
  <2>1. granted' \in [me : 0 .. Last, host : Nat]
    BY <1>1 DEF Inv, TypeOK, Requests
  <2> QED
    BY <1>2, <1>7, <1>b, <2>1 DEF Inv, TypeOK
<1>9. Props' /\ Ended' /\ Fresh' /\ Found'
  BY <1>3, <1>7, <1>b DEF Inv, Props, Ended, Fresh, Found, Busy
<1>10. Resets'
  BY <1>1, <1>b DEF Inv, Resets, Busy
<1>11. Links'
  <2>1. m.cmd = "connect" => ~Early /\ [me |-> m.me, host |-> m.host] = Link
    BY <1>2, <1>4 DEF Inv, Links, Link
  <2>2. Early' = Early /\ Link' = Link
    BY <1>b DEF Early, Link, Busy
  <2>3. x.cmd = "connect" => m.cmd = "connect"
    BY <1>1
  <2>4. granted = Link => granted' = Link
    BY <1>1, <2>1
  <2>5. m.cmd = "connect" /\ x.ok => granted' = Link
    BY <1>1, <1>2, <2>1
  <2>6. Grants(inbox') => granted' = Link
    BY <1>7, <2>3, <2>4, <2>5 DEF Inv, Links
  <2>7. (Busy /\ step = "credit") \/ outcome = "ok" => granted' = Link
    BY <2>4 DEF Inv, Links
  <2>8. Early => ~Connects(toMe') /\ ~Connects(inbox')
    BY <1>3, <1>7, <2>1, <2>3 DEF Inv, Links
  <2> QED
    BY <1>3, <1>b, <2>2, <2>6, <2>7, <2>8 DEF Links, Busy
<1>12. Exchange'
  <2>1. \A c \in {"version", "enum"} : x.cmd = c => m.cmd = c
    BY <1>1
  <2>2. CASE step = "version"
    <3>1. /\ ~Has(toMe, "enum") /\ ~Has(inbox, "enum")
          /\ Once(toMe, "version") /\ Once(inbox, "version")
          /\ ~Has(toMe, "version") \/ ~Has(inbox, "version")
          /\ hpc = "write" => ~Has(toMe, "version") /\ ~Has(inbox, "version")
      BY <1>1, <2>2 DEF Inv, Exchange
    <3>2. ~Has(toMe', "enum") /\ ~Has(inbox', "enum")
      BY <1>2, <1>3, <1>7, <2>1, <3>1
    <3>3. /\ Once(toMe', "version") /\ Once(inbox', "version")
          /\ ~Has(toMe', "version") \/ ~Has(inbox', "version")
          /\ hpc = "write" => ~Has(toMe', "version") /\ ~Has(inbox', "version")
      BY <1>2, <1>3, <1>7, <2>1, <3>1
    <3> QED
      BY <1>1, <1>b, <2>2, <3>2, <3>3 DEF Exchange
  <2>3. CASE step # "version"
    BY <1>1, <1>2, <1>3, <1>7, <1>b, <2>1, <2>3 DEF Inv, Exchange
  <2> QED
    BY <2>2, <2>3
<1>13. Undisturbed'
  <2> SUFFICES ASSUME Searching' PROVE Undisturbed'
    BY DEF Undisturbed
  <2>1. Searching /\ x.ok
    BY <1>1, <1>b DEF Searching, Busy
  <2>2. /\ ~resetting /\ hpc = "read" /\ Asked
        /\ step = "prop" => valid = Listed /\ Missed(addr)
    BY <1>1, <2>1 DEF Inv, Undisturbed, Searching, Busy, Answered
  <2>3. m.cmd = step /\ (step = "prop" => m.me = addr) /\ inbox = <<>>
    BY <2>2, <1>1 DEF Asked
  <2>4. step \in {"version", "enum", "prop"}
    BY <2>1 DEF Searching
  <2>5. x.cmd = step /\ (step = "prop" => x.me = addr)
        /\ inbox' = Append(inbox, x)
    BY <2>3, <2>4, <1>1
  <2>6. Len(inbox') = 1 /\ inbox'[1] = x
    BY <2>3, <2>5, <1>t, Added
  <2>7. toMe' = <<>>
    <3>1. Tail(toMe) \in Seq(Requests) /\ Len(Tail(toMe)) = Len(toMe) - 1
      BY <1>1, <1>t, TailItems
    <3>2. Len(Tail(toMe)) = 0
      BY <3>1, <2>2 DEF Asked
    <3> QED
      BY <3>1, <3>2, <1>1, NoItems
  <2>8. Answered'
    BY <1>b, <2>1, <2>5, <2>6, <2>7 DEF Answered
  <2> QED
    BY <1>b, <2>2, <2>8 DEF Undisturbed, Missed
<1>14. NotFoundIsAbsent'
  BY <1>1, <1>b DEF Inv, NotFoundIsAbsent
<1> QED
  BY <1>8, <1>9, <1>10, <1>11, <1>12, <1>13, <1>14 DEF Inv

-----------------------------------------------------------------------------
LEMMA Stutter == Inv /\ UNCHANGED vars => Inv'
<1> SUFFICES ASSUME Inv, UNCHANGED vars PROVE Inv'
  OBVIOUS
<1>0. UNCHANGED <<meAddr, hostAddr, maxMsgLen, hpc, step, target, valid, addr,
                  outcome, toMe, inbox, up, resetting, rst, granted, hiccup>>
  BY DEF vars, ctx, ctl, chan, me
<1>1. TypeOK'
  BY <1>0 DEF Inv, TypeOK
<1>2. Props' /\ Ended' /\ Resets' /\ Fresh' /\ Found' /\ Links' /\ Exchange'
  BY <1>0 DEF Inv, Props, Ended, Resets, Fresh, Found, Links, Link, Early,
              Exchange, Busy
<1>3. Undisturbed' /\ NotFoundIsAbsent'
  BY <1>0 DEF Inv, Undisturbed, Searching, Busy, Asked, Answered, Missed,
              NotFoundIsAbsent
<1> QED
  BY <1>1, <1>2, <1>3 DEF Inv

LEMMA StepKeeps == Inv /\ [Next]_vars => Inv'
<1>1. Inv /\ Next => Inv'
  BY OpenKeeps, ResetDoneKeeps, ResetTimeoutKeeps, WriteKeeps, WriteFailsKeeps,
     ReadTimeoutKeeps, ReadVersionKeeps, ReadEnumKeeps, ReadPropKeeps,
     ReadConnectKeeps, ReadCreditKeeps, UseClientKeeps, ServeKeeps, IgnoreKeeps,
     UnaskedKeeps, MeResetKeeps, MeUpKeeps
  DEF Next, Host
<1> QED
  BY <1>1, Stutter

LEMMA InitHolds == Init => Inv
<1> SUFFICES ASSUME Init PROVE Inv
  OBVIOUS
<1>1. TypeOK
  <2>1. /\ meAddr \in 0 .. Last /\ hostAddr \in Nat /\ maxMsgLen \in Nat
        /\ addr \in 0 .. Last /\ granted \in [me : 0 .. Last, host : Nat]
    BY ConnectAssumption DEF Init, NoLink
  <2>2. toMe \in Seq(Requests) /\ inbox \in Seq(Answers)
    BY DEF Init
  <2> QED
    BY <2>1, <2>2 DEF Init, TypeOK, Steps
<1>2. /\ toMe = <<>> /\ inbox = <<>> /\ hpc = "idle" /\ outcome = "none"
      /\ resetting = FALSE /\ step = "version"
  BY DEF Init
<1>3. Props /\ Fresh /\ Links /\ Exchange
  BY <1>2, EmptyHolds DEF Props, Fresh, Links, Early, Exchange, Busy
<1>4. Ended /\ Resets /\ Found /\ Undisturbed /\ NotFoundIsAbsent
  BY <1>2 DEF Ended, Resets, Found, Undisturbed, Searching, Busy, NotFoundIsAbsent
<1> QED
  BY <1>1, <1>3, <1>4 DEF Inv

THEOREM AlwaysInv == Spec => []Inv
<1>1. Init => Inv
  BY InitHolds
<1>2. Inv /\ [Next]_vars => Inv'
  BY StepKeeps
<1> QED
  BY <1>1, <1>2, PTL DEF Spec

-----------------------------------------------------------------------------
(* The types hold: the address a property is asked for is a listed one,    *)
(* and the addresses held are addresses.                                   *)
THEOREM TypesHold == Spec => []TypeOK
<1>1. Inv => TypeOK
  BY DEF Inv
<1> QED
  BY <1>1, AlwaysInv, PTL

(* connect_client_impl returns Ok only for a connection the ME made for    *)
(* this attempt with the client that was asked for, for every number of    *)
(* clients, every buffer and every delay of the ME.                        *)
THEOREM OkIsConnectedHolds == Spec => []OkIsConnected
<1>1. Inv => OkIsConnected
  BY DEF Inv, Links, Link, Found, OkIsConnected
<1> QED
  BY <1>1, AlwaysInv, PTL

(* Nothing of an earlier connection is on the way after Ok.                *)
THEOREM OkLeavesNothingOldHolds == Spec => []OkLeavesNothingOld
<1>1. Inv => OkLeavesNothingOld
  BY DEF Inv, Resets, Fresh, AllFresh, OkLeavesNothingOld
<1> QED
  BY <1>1, AlwaysInv, PTL

(* connect_client_impl says that a client is not there, all of its         *)
(* exchanges answered, only if none of the clients the ME lists has the    *)
(* UUID: the loop over the addresses passes none over, and no reply is     *)
(* taken for that of another address.                                      *)
THEOREM NotFoundIsAbsentHolds == Spec => []NotFoundIsAbsent
<1>1. Inv => NotFoundIsAbsent
  BY DEF Inv
<1> QED
  BY <1>1, AlwaysInv, PTL
=============================================================================
