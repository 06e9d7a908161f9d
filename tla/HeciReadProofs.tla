---------------------------- MODULE HeciReadProofs ----------------------------
(***************************************************************************)
(* Proofs about HeciRead: read_msg never writes beyond its caller's        *)
(* buffer, and what it returns is one piece of one message, for every      *)
(* depth of the circular buffer, every way the ME cuts its messages into   *)
(* fragments, and every length of the caller's buffer.                     *)
(*                                                                         *)
(* What the ME has written and the host not read is a chain of dwords,     *)
(* each of which belongs right after the one before it (Chained).  The     *)
(* host takes whole fragments off it, whatever becomes of the message they *)
(* are of, and so it reads a header where the ME wrote one (Aligned), and  *)
(* goes on where it stopped (Current).  The length is compared once, at    *)
(* the header (Fits); the payload dwords are copied without looking again. *)
(*                                                                         *)
(* All of that but the bound (Bounds) is lost once the host reads a dword  *)
(* before the ME wrote it, and comes back with a reset (Safe).             *)
(*                                                                         *)
(* While nobody is late and every message fits, more holds (Turns): a      *)
(* message the ME has begun fits what is left of it into the buffer        *)
(* (Roomy), the host's wait for the next fragment starts anew with each    *)
(* (Prompt), and what the host reads is the message after the last one it  *)
(* returned, from its first byte on (InTurn).                              *)
(***************************************************************************)
EXTENDS HeciRead, SequenceTheorems, TLAPS

(* Where a fragment begins, and where the next one has to.                 *)
Begin(p) == <<p.msg, p.from>>

End(p) == IF p.complete THEN <<p.msg + 1, 0>> ELSE <<p.msg, p.from + p.len>>

(* Where the ME's next fragment will begin.                                *)
MePlace == IF off = MsgLen THEN <<Len(log) + 1, 0>> ELSE <<Len(log), off>>

(* p is the place of a dword in the messages of lg.                        *)
Valid(p, lg) ==
  /\ p \in Place
  /\ p.msg \in 1 .. Len(lg) /\ p.len # 0
  /\ p.from + p.len <= lg[p.msg].len
  /\ p.complete = (p.from + p.len = lg[p.msg].len)
  /\ p.word <= Words(p.len)

(* p is the dword the ME writes after q.                                   *)
Follows(q, p) ==
  IF q.word < Words(q.len) THEN p = [q EXCEPT !.word = q.word + 1]
  ELSE p.word = 0 /\ Begin(p) = End(q)

(* q is the last dword of its fragment, and the next one begins at place.  *)
Ends(q, place) == q.word = Words(q.len) /\ End(q) = place

Chained(s, lg, place) ==
  /\ \A i \in 1 .. Len(s) : Valid(s[i], lg)
  /\ \A i \in 1 .. Len(s) - 1 : Follows(s[i], s[i + 1])
  /\ s # <<>> => Ends(s[Len(s)], place)

(* The dwords s come after q.                                              *)
After(q, s, place) == IF s = <<>> THEN Ends(q, place) ELSE Follows(q, s[1])

Before(b, p) == b[1] < p[1] \/ (b[1] = p[1] /\ b[2] < p[2])

(* All that was returned is before p.                                      *)
Floor(t, p) ==
  t # <<>> => Before(t[Len(t)].bytes[Len(t[Len(t)].bytes)], p)

(* s begins with a header, behind all that was returned.                   *)
Starts(s, t, place) ==
  IF s = <<>> THEN Floor(t, place) ELSE s[1].word = 0 /\ Floor(t, Begin(s[1]))

(* The bytes b were read up to the w-th dword of the fragment h.           *)
Collects(b, h, w, t) ==
  /\ b = <<>> => w = 0 /\ Floor(t, Begin(h))
  /\ b # <<>> =>
       /\ \A i \in 2 .. Len(b) : b[i] = <<b[1][1], b[1][2] + i - 1>>
       /\ b[1][1] = h.msg
       /\ b[1][2] + Len(b) = h.from + Least(4 * w, h.len)
       /\ Floor(t, b[1])

Piece(r, lg) ==
  /\ r.bytes # <<>>
  /\ \A i \in 2 .. Len(r.bytes) :
       r.bytes[i] = <<r.bytes[1][1], r.bytes[1][2] + i - 1>>
  /\ r.bytes[1][1] \in 1 .. Len(lg)
  /\ r.addr = lg[r.bytes[1][1]].addr

Pieces(t, lg) ==
  /\ \A k \in 1 .. Len(t) : Piece(t[k], lg)
  /\ \A k \in 2 .. Len(t) :
       Before(t[k - 1].bytes[Len(t[k - 1].bytes)], t[k].bytes[1])

-----------------------------------------------------------------------------
(* What the ME has written or is writing and the host has not read.        *)
Stream == queue \o todo

MeInv ==
  /\ off <= MsgLen
  /\ down => queue = <<>> /\ todo = <<>>
  /\ Chained(Stream, log, MePlace)

(* A read begins, or begins next ...                                       *)
Resting == hpc = "idle" \/ (hpc \in {"poll", "header"} /\ first)

Aligned ==
  Resting => /\ down \/ Starts(Stream, taken, MePlace)
             /\ hpc # "idle" => buf = <<>>

(* ... or is under way.                                                    *)
Reading ==
  \/ hpc \in {"payload", "drain"}
  \/ hpc \in {"poll", "header"} /\ ~first

Current ==
  Reading =>
    /\ ~first /\ Valid(hdr, log) /\ hdr.word = 0 /\ word <= Words(hdr.len)
    /\ down \/ After([hdr EXCEPT !.word = word], Stream, MePlace)
    /\ Floor(taken, End(hdr))
    /\ hpc \in {"poll", "header"} => word = Words(hdr.len) /\ ~hdr.complete

Collected ==
  Reading /\ hpc # "drain" =>
    addr = log[hdr.msg].addr /\ Collects(buf, hdr, word, taken)

(* What is left of the fragment fits what is left of the buffer.           *)
Fits ==
  hpc = "payload" /\ MoreWords => Len(buf) + Length(hdr) - 4 * word <= size

Inv ==
  /\ TypeOK /\ Fits /\ ~ahead
  /\ MeInv /\ Aligned /\ Current /\ Collected /\ Pieces(taken, log)

-----------------------------------------------------------------------------
(* Sequences.                                                              *)
LEMMA LastItem ==
  ASSUME NEW S, NEW q \in Seq(S), q # <<>>
  PROVE  Len(q) \in 1 .. Len(q) /\ q[Len(q)] \in S
<1>1. Len(q) \in 1 .. Len(q)
  OBVIOUS
<1> QED
  BY <1>1

LEMMA Items ==
  ASSUME NEW S, NEW n \in Nat, NEW f \in [1 .. n -> S]
  PROVE  f \in Seq(S) /\ Len(f) = n
  OBVIOUS

LEMMA TailItems ==
  ASSUME NEW S, NEW q \in Seq(S), q # <<>>
  PROVE  /\ Head(q) = q[1] /\ q[1] \in S
         /\ Tail(q) \in Seq(S) /\ Len(Tail(q)) = Len(q) - 1
         /\ \A i \in 1 .. Len(q) - 1 : Tail(q)[i] = q[i + 1]
  OBVIOUS

LEMMA ConcatItems ==
  ASSUME NEW S, NEW q \in Seq(S), NEW t \in Seq(S)
  PROVE  /\ q \o t \in Seq(S) /\ Len(q \o t) = Len(q) + Len(t)
         /\ \A i \in 1 .. Len(q) : (q \o t)[i] = q[i]
         /\ \A i \in 1 .. Len(t) : (q \o t)[Len(q) + i] = t[i]
  OBVIOUS

LEMMA AppendItems ==
  ASSUME NEW S, NEW q \in Seq(S), NEW e \in S
  PROVE  /\ Append(q, e) \in Seq(S) /\ Len(Append(q, e)) = Len(q) + 1
         /\ \A i \in 1 .. Len(q) : Append(q, e)[i] = q[i]
         /\ Append(q, e)[Len(q) + 1] = e
         /\ Append(q, e) # <<>>
  OBVIOUS

LEMMA SameItems ==
  ASSUME NEW S, NEW q \in Seq(S), NEW t \in Seq(S), Len(q) = Len(t),
         \A i \in 1 .. Len(q) : q[i] = t[i]
  PROVE  q = t
  BY SeqEqual

LEMMA NoItems ==
  ASSUME NEW S, NEW q \in Seq(S)
  PROVE  /\ Len(q) \in Nat /\ (q = <<>>) = (Len(q) = 0)
         /\ q # <<>> => Len(q) >= 1
  OBVIOUS

(* What is taken off the front of the buffer is taken off the stream.      *)
LEMMA Pop ==
  ASSUME NEW S, NEW q \in Seq(S), NEW t \in Seq(S), q # <<>>
  PROVE  /\ q \o t # <<>> /\ (q \o t)[1] = Head(q)
         /\ Tail(q) \o t = Tail(q \o t)
<1>1. /\ Len(q) >= 1 /\ Len(q \o t) = Len(q) + Len(t) /\ q \o t \in Seq(S)
      /\ Len(q) \in Nat /\ Len(t) \in Nat
  BY NoItems, ConcatItems
<1>2. q \o t # <<>>
  BY <1>1
<1>3. (q \o t)[1] = Head(q)
  BY <1>1, ConcatItems, TailItems
<1>4. Len(Tail(q) \o t) = Len(Tail(q \o t))
  BY <1>1, <1>2, ConcatItems, TailItems
<1>5. ASSUME NEW i \in 1 .. Len(Tail(q) \o t)
      PROVE  (Tail(q) \o t)[i] = Tail(q \o t)[i]
  <2>1. Tail(q) \in Seq(S) /\ Len(Tail(q)) = Len(q) - 1
    BY TailItems
  <2>2. i \in 1 .. Len(q) + Len(t) - 1
    BY <1>1, <2>1, ConcatItems
  <2>3. Tail(q \o t)[i] = (q \o t)[i + 1]
    BY <1>1, <1>2, <2>2, TailItems
  <2>4. CASE i <= Len(q) - 1
    <3>1. i \in 1 .. Len(Tail(q)) /\ i \in 1 .. Len(q) - 1
          /\ i + 1 \in 1 .. Len(q)
      BY <1>1, <2>1, <2>2, <2>4
    <3>2. (Tail(q) \o t)[i] = Tail(q)[i]
      BY <2>1, <3>1, ConcatItems
    <3>3. Tail(q)[i] = q[i + 1]
      BY <3>1, TailItems
    <3>4. (q \o t)[i + 1] = q[i + 1]
      BY <3>1, ConcatItems
    <3> QED
      BY <2>3, <3>2, <3>3, <3>4
  <2>5. CASE i > Len(q) - 1
    <3> DEFINE j == i - (Len(q) - 1)
    <3>1. j \in 1 .. Len(t) /\ Len(Tail(q)) + j = i /\ Len(q) + j = i + 1
      BY <1>1, <2>1, <2>2, <2>5
    <3> HIDE DEF j
    <3>2. (Tail(q) \o t)[Len(Tail(q)) + j] = t[j]
      BY <2>1, <3>1, ConcatItems
    <3>3. (q \o t)[Len(q) + j] = t[j]
      BY <3>1, ConcatItems
    <3> QED
      BY <2>3, <3>1, <3>2, <3>3
  <2> QED
    BY <1>1, <2>2, <2>4, <2>5
<1>6. Tail(q) \o t \in Seq(S) /\ Tail(q \o t) \in Seq(S)
  BY <1>1, <1>2, TailItems, ConcatItems
<1> QED
  BY <1>2, <1>3, <1>4, <1>5, <1>6, SameItems

(* A dword written leaves the stream as it is.                             *)
LEMMA Push ==
  ASSUME NEW S, NEW q \in Seq(S), NEW t \in Seq(S), t # <<>>
  PROVE  Append(q, Head(t)) \o Tail(t) = q \o t
<1>1. /\ Head(t) = t[1] /\ Head(t) \in S /\ Tail(t) \in Seq(S)
      /\ Len(Tail(t)) = Len(t) - 1
  BY TailItems
<1>2. /\ Append(q, Head(t)) \in Seq(S) /\ Len(Append(q, Head(t))) = Len(q) + 1
      /\ Append(q, Head(t))[Len(q) + 1] = Head(t)
      /\ \A i \in 1 .. Len(q) : Append(q, Head(t))[i] = q[i]
  BY <1>1, AppendItems
<1> DEFINE a == Append(q, Head(t))
           u == Tail(t)
<1>3. /\ a \o u \in Seq(S) /\ q \o t \in Seq(S)
      /\ Len(a \o u) = Len(q) + Len(t) /\ Len(q \o t) = Len(q) + Len(t)
  BY <1>1, <1>2, ConcatItems
<1>4. Len(q) \in Nat /\ Len(t) \in Nat /\ Len(t) >= 1
  BY NoItems
<1>5. /\ \A i \in 1 .. Len(a) : (a \o u)[i] = a[i]
      /\ \A i \in 1 .. Len(u) : (a \o u)[Len(a) + i] = u[i]
  BY <1>1, <1>2, ConcatItems
<1>6. /\ \A i \in 1 .. Len(q) : (q \o t)[i] = q[i]
      /\ \A i \in 1 .. Len(t) : (q \o t)[Len(q) + i] = t[i]
  BY ConcatItems
<1>7. ASSUME NEW i \in 1 .. Len(a \o u) PROVE (a \o u)[i] = (q \o t)[i]
  <2>1. i \in 1 .. Len(q) + Len(t)
    BY <1>3
  <2>2. CASE i <= Len(q)
    BY <1>2, <1>4, <1>5, <1>6, <2>1, <2>2
  <2>3. CASE i = Len(q) + 1
    <3>1. i \in 1 .. Len(a) /\ 1 \in 1 .. Len(t)
      BY <1>2, <1>4, <2>3
    <3> QED
      BY <1>1, <1>2, <1>5, <1>6, <2>3, <3>1
  <2>4. CASE i > Len(q) + 1
    <3> DEFINE j == i - (Len(q) + 1)
    <3>1. /\ j \in 1 .. Len(t) - 1 /\ j \in 1 .. Len(u) /\ j + 1 \in 1 .. Len(t)
          /\ Len(a) + j = i /\ Len(q) + (j + 1) = i
      BY <1>1, <1>2, <1>4, <2>1, <2>4
    <3> HIDE DEF j, a, u
    <3>2. (a \o u)[i] = u[j]
      BY <1>5, <3>1
    <3>3. (q \o t)[i] = t[j + 1]
      BY <1>6, <3>1
    <3>4. u[j] = t[j + 1]
      BY <3>1, TailItems DEF u
    <3> QED
      BY <3>2, <3>3, <3>4
  <2> QED
    BY <1>4, <2>1, <2>2, <2>3, <2>4
<1> HIDE DEF a, u
<1>8. a \o u = q \o t
  BY <1>3, <1>7, SameItems
<1> QED
  BY <1>8 DEF a, u

-----------------------------------------------------------------------------
(* Fragments and their places.                                             *)
LEMMA WordsNat ==
  \A n \in Nat : /\ Words(n) \in Nat /\ 4 * Words(n) >= n /\ 4 * Words(n) <= n + 3
                 /\ n # 0 => Words(n) # 0
  BY DEF Words

(* One more dword brings no more than what is left of the fragment.        *)
LEMMA WordBytes ==
  ASSUME NEW n \in Nat, NEW w \in Nat, w < Words(n)
  PROVE  /\ Least(n - 4 * w, 4) \in 1 .. 4
         /\ Least(n - 4 * w, 4) <= n - 4 * w
         /\ w + 1 < Words(n) => Least(n - 4 * w, 4) = 4
         /\ Least(4 * w, n) = 4 * w
         /\ Least(4 * (w + 1), n) = 4 * w + Least(n - 4 * w, 4)
  BY DEF Words, Least

LEMMA HeaderPlace ==
  ASSUME NEW p \in Place, p.word = 0
  PROVE  [p EXCEPT !.word = 0] = p
  BY DEF Place

LEMMA WordPlace ==
  ASSUME NEW p \in Place, NEW w \in Nat
  PROVE  LET q == [p EXCEPT !.word = w] IN
           /\ q \in Place /\ q.msg = p.msg /\ q.from = p.from /\ q.len = p.len
           /\ q.complete = p.complete /\ q.word = w
           /\ p.word = w => q = p
           /\ Begin(q) = Begin(p) /\ End(q) = End(p)
  BY DEF Place, Begin, End

LEMMA PlaceTypes ==
  ASSUME NEW p \in Place
  PROVE  /\ p.msg \in Nat /\ p.from \in Nat /\ p.len \in Nat /\ p.word \in Nat
         /\ p.complete \in BOOLEAN
         /\ Begin(p) \in Byte /\ End(p) \in Byte
<1>1. /\ p.msg \in Nat /\ p.from \in Nat /\ p.len \in Nat /\ p.word \in Nat
      /\ p.complete \in BOOLEAN
  BY DEF Place
<1>2. p.msg + 1 \in Nat /\ p.from + p.len \in Nat /\ 0 \in Nat
  BY <1>1
<1> QED
  BY <1>1, <1>2 DEF Begin, End, Byte

LEMMA BeforeTrans ==
  ASSUME NEW a \in Byte, NEW b \in Byte, NEW c \in Byte, Before(a, b), Before(b, c)
  PROVE  Before(a, c)
<1>1. /\ a[1] \in Nat /\ a[2] \in Nat /\ b[1] \in Nat /\ b[2] \in Nat
      /\ c[1] \in Nat /\ c[2] \in Nat
  BY DEF Byte
<1> QED
  BY <1>1 DEF Before

LEMMA BeginBeforeEnd ==
  ASSUME NEW lg, NEW p, Valid(p, lg)
  PROVE  Before(Begin(p), End(p))
<1>1. /\ p.msg \in Nat /\ p.from \in Nat /\ p.len \in Nat /\ p.len # 0
  BY PlaceTypes DEF Valid
<1>2. CASE p.complete
  BY <1>1, <1>2 DEF Begin, End, Before
<1>3. CASE ~p.complete
  BY <1>1, <1>3 DEF Begin, End, Before
<1> QED
  BY <1>2, <1>3

Returns == [addr : Addrs \cup {{}}, bytes : Seq(Byte)]

LEMMA LastOfAll ==
  ASSUME NEW t \in Seq(Returns), NEW lg, Pieces(t, lg), t # <<>>
  PROVE  t[Len(t)].bytes[Len(t[Len(t)].bytes)] \in Byte
<1>1. Len(t) \in 1 .. Len(t) /\ t[Len(t)] \in Returns
  BY LastItem
<1>2. t[Len(t)].bytes \in Seq(Byte) /\ t[Len(t)].bytes # <<>>
  BY <1>1 DEF Pieces, Piece, Returns
<1> HIDE DEF Byte
<1> QED
  BY <1>2, LastItem

LEMMA FloorUp ==
  ASSUME NEW t \in Seq(Returns), NEW lg, Pieces(t, lg),
         NEW p \in Byte, NEW q \in Byte, Floor(t, p), Before(p, q)
  PROVE  Floor(t, q)
<1> SUFFICES ASSUME t # <<>>
             PROVE  Before(t[Len(t)].bytes[Len(t[Len(t)].bytes)], q)
  BY DEF Floor
<1>1. Before(t[Len(t)].bytes[Len(t[Len(t)].bytes)], p)
  BY DEF Floor
<1>2. t[Len(t)].bytes[Len(t[Len(t)].bytes)] \in Byte
  BY LastOfAll
<1> QED
  BY <1>1, <1>2, BeforeTrans

(* The rest of the stream, when its first dword is read.                   *)
LEMMA ChainTail ==
  ASSUME NEW lg, NEW place, NEW s \in Seq(Place), s # <<>>, Chained(s, lg, place)
  PROVE  /\ Valid(s[1], lg) /\ Chained(Tail(s), lg, place)
         /\ After(s[1], Tail(s), place)
<1> DEFINE u == Tail(s)
<1>1. /\ u \in Seq(Place) /\ Len(u) = Len(s) - 1 /\ Len(s) >= 1 /\ Len(s) \in Nat
      /\ \A i \in 1 .. Len(s) - 1 : u[i] = s[i + 1]
  BY TailItems, NoItems
<1> HIDE DEF u
<1>2. Valid(s[1], lg)
  BY <1>1 DEF Chained
<1>3. \A i \in 1 .. Len(u) : Valid(u[i], lg)
  BY <1>1 DEF Chained
<1>4. ASSUME NEW i \in 1 .. Len(u) - 1 PROVE Follows(u[i], u[i + 1])
  <2>1. i + 1 \in 1 .. Len(s) - 1 /\ i \in 1 .. Len(s) - 1
    BY <1>1
  <2>2. u[i] = s[i + 1] /\ u[i + 1] = s[(i + 1) + 1]
    BY <1>1, <2>1
  <2> QED
    BY <2>1, <2>2 DEF Chained
<1>5. u # <<>> => u[Len(u)] = s[Len(s)] /\ u[1] = s[1 + 1] /\ 1 \in 1 .. Len(s) - 1
  <2> SUFFICES ASSUME u # <<>>
               PROVE  u[Len(u)] = s[Len(s)] /\ u[1] = s[1 + 1]
                      /\ 1 \in 1 .. Len(s) - 1
    OBVIOUS
  <2>1. Len(u) >= 1
    BY <1>1, NoItems
  <2>2. Len(u) \in 1 .. Len(s) - 1 /\ 1 \in 1 .. Len(s) - 1 /\ Len(u) + 1 = Len(s)
    BY <1>1, <2>1
  <2> QED
    BY <1>1, <2>2
<1>6. Chained(u, lg, place)
  BY <1>3, <1>4, <1>5 DEF Chained
<1>7. After(s[1], u, place)
  <2>1. CASE u = <<>>
    <3>1. Len(s) = 1
      BY <1>1, <2>1
    <3> QED
      BY <2>1, <3>1 DEF After, Chained
  <2>2. CASE u # <<>>
    BY <1>5, <2>2 DEF After, Chained
  <2> QED
    BY <2>1, <2>2
<1> QED
  BY <1>2, <1>6, <1>7 DEF u

(* The stream goes on where the ME stood.                                  *)
LEMMA ChainConcat ==
  ASSUME NEW lg, NEW p1, NEW p2, NEW q \in Seq(Place), NEW t \in Seq(Place),
         Chained(q, lg, p1), Chained(t, lg, p2), t # <<>>,
         t[1].word = 0, Begin(t[1]) = p1
  PROVE  Chained(q \o t, lg, p2)
<1> DEFINE s == q \o t
<1>1. /\ Len(q) \in Nat /\ Len(t) \in Nat /\ Len(t) >= 1
      /\ s \in Seq(Place) /\ Len(s) = Len(q) + Len(t)
      /\ \A i \in 1 .. Len(q) : s[i] = q[i]
      /\ \A i \in 1 .. Len(t) : s[Len(q) + i] = t[i]
  BY ConcatItems, NoItems
<1> HIDE DEF s
<1>2. ASSUME NEW i \in 1 .. Len(s) PROVE Valid(s[i], lg)
  <2>1. CASE i <= Len(q)
    BY <1>1, <2>1 DEF Chained
  <2>2. CASE i > Len(q)
    <3>1. i - Len(q) \in 1 .. Len(t) /\ Len(q) + (i - Len(q)) = i
      BY <1>1, <2>2
    <3>2. s[i] = t[i - Len(q)]
      BY <1>1, <3>1
    <3> QED
      BY <3>1, <3>2 DEF Chained
  <2> QED
    BY <1>1, <2>1, <2>2
<1>3. ASSUME NEW i \in 1 .. Len(s) - 1 PROVE Follows(s[i], s[i + 1])
  <2>1. CASE i < Len(q)
    <3>1. i \in 1 .. Len(q) /\ i + 1 \in 1 .. Len(q) /\ i \in 1 .. Len(q) - 1
      BY <1>1, <2>1
    <3>2. s[i] = q[i] /\ s[i + 1] = q[i + 1]
      BY <1>1, <3>1
    <3> QED
      BY <3>1, <3>2 DEF Chained
  <2>2. CASE i = Len(q)
    <3>1. i \in 1 .. Len(q) /\ 1 \in 1 .. Len(t) /\ q # <<>>
      BY <1>1, <2>2
    <3>2. s[i] = q[Len(q)] /\ s[i + 1] = t[1]
      BY <1>1, <2>2, <3>1
    <3>3. q[Len(q)].word = Words(q[Len(q)].len) /\ End(q[Len(q)]) = p1
      BY <3>1 DEF Chained, Ends
    <3>4. q[Len(q)] \in Place
      BY <3>1, <2>2
    <3>5. ~(q[Len(q)].word < Words(q[Len(q)].len))
      BY <3>3, <3>4, PlaceTypes
    <3> QED
      BY <3>2, <3>3, <3>5 DEF Follows
  <2>3. CASE i > Len(q)
    <3> DEFINE j == i - Len(q)
    <3>1. /\ j \in 1 .. Len(t) /\ j + 1 \in 1 .. Len(t) /\ j \in 1 .. Len(t) - 1
          /\ Len(q) + j = i /\ Len(q) + (j + 1) = i + 1
      BY <1>1, <2>3
    <3> HIDE DEF j
    <3>2. s[i] = t[j] /\ s[i + 1] = t[j + 1]
      BY <1>1, <3>1
    <3> QED
      BY <3>1, <3>2 DEF Chained
  <2> QED
    BY <1>1, <2>1, <2>2, <2>3
<1>4. s[Len(s)] = t[Len(t)] /\ s # <<>>
  <2>1. Len(t) \in 1 .. Len(t) /\ Len(s) # 0
    BY <1>1
  <2> QED
    BY <1>1, <2>1
<1>5. Chained(s, lg, p2)
  BY <1>2, <1>3, <1>4 DEF Chained
<1> QED
  BY <1>5 DEF s

(* A message more, or a new one begun, leaves every place what it is.      *)
LEMMA ValidStays ==
  ASSUME NEW lg, NEW lg2, Len(lg) \in Nat, Len(lg2) \in Nat, Len(lg) <= Len(lg2),
         \A m \in 1 .. Len(lg) : lg2[m] = lg[m]
  PROVE  /\ \A p : Valid(p, lg) => Valid(p, lg2) /\ lg2[p.msg] = lg[p.msg]
         /\ \A s, place : Chained(s, lg, place) => Chained(s, lg2, place)
         /\ \A t : Pieces(t, lg) => Pieces(t, lg2)
<1>1. \A p : Valid(p, lg) => Valid(p, lg2) /\ lg2[p.msg] = lg[p.msg]
  BY DEF Valid
<1>2. \A s, place : Chained(s, lg, place) => Chained(s, lg2, place)
  BY <1>1 DEF Chained
<1>3. \A r : Piece(r, lg) => Piece(r, lg2)
  BY DEF Piece
<1>4. \A t : Pieces(t, lg) => Pieces(t, lg2)
  BY <1>3 DEF Pieces
<1> QED
  BY <1>1, <1>2, <1>4

(* The bytes of the next dword are the next bytes of the message.          *)
LEMMA NextBytes ==
  ASSUME NEW h \in Place, NEW w \in Nat, w < Words(h.len),
         NEW d, d = [h EXCEPT !.word = w + 1]
  PROVE  LET k == Least(h.len - 4 * w, 4)
             piece == SubSeq(Bytes(d), 1, k) IN
           /\ piece \in Seq(Byte) /\ Len(piece) = k
           /\ \A i \in 1 .. k : piece[i] = <<h.msg, h.from + 4 * w + i - 1>>
<1> DEFINE k == Least(h.len - 4 * w, 4)
<1>1. /\ h.msg \in Nat /\ h.from \in Nat /\ h.len \in Nat
      /\ d.msg = h.msg /\ d.from = h.from /\ d.len = h.len /\ d.word = w + 1
  <2>1. w + 1 \in Nat
    OBVIOUS
  <2> QED
    BY <2>1, PlaceTypes, WordPlace
<1>2. k \in 1 .. 4 /\ k <= h.len - 4 * w
  BY <1>1, WordBytes
<1> HIDE DEF k
<1>3. \A b \in 1 .. 4 : h.from + 4 * w + b - 1 \in Nat
  BY <1>1
<1>4. Bytes(d) = [b \in 1 .. 4 |-> IF 4 * w + b <= h.len
                                   THEN <<h.msg, h.from + 4 * w + b - 1>>
                                   ELSE Pad]
  <2>1. d.word > 0 /\ d.word - 1 = w
    BY <1>1
  <2> QED
    BY <1>1, <2>1 DEF Bytes
<1>5. Bytes(d) \in [1 .. 4 -> Byte]
  <2>1. Pad \in Byte
    BY DEF Pad, Byte
  <2>2. \A b \in 1 .. 4 : <<h.msg, h.from + 4 * w + b - 1>> \in Byte
    BY <1>1, <1>3 DEF Byte
  <2> QED
    BY <1>4, <2>1, <2>2
<1>6. Bytes(d) \in Seq(Byte) /\ Len(Bytes(d)) = 4
  BY <1>5, Items
<1> DEFINE s == Bytes(d)
<1> HIDE DEF s
<1>7. s \in Seq(Byte) /\ Len(s) = 4
  BY <1>6 DEF s
<1>8. /\ SubSeq(s, 1, k) \in Seq(Byte) /\ Len(SubSeq(s, 1, k)) = k
      /\ \A i \in 1 .. k : SubSeq(s, 1, k)[i] = s[i]
  <2>1. \A i \in 1 .. k : s[i] \in Byte
    <3>1. \A i \in 1 .. k : i \in 1 .. Len(s)
      BY <1>2, <1>7
    <3> QED
      BY <1>7, <3>1, ElementOfSeq
  <2>2. 1 <= k /\ k \in Int /\ k - 1 + 1 = k /\ \A i \in 1 .. k : 1 + i - 1 = i
    BY <1>2
  <2> QED
    BY <2>1, <2>2, SubSeqProperties
<1>9. \A i \in 1 .. k : s[i] = <<h.msg, h.from + 4 * w + i - 1>>
  <2>1. \A i \in 1 .. k : i \in 1 .. 4 /\ 4 * w + i <= h.len
    BY <1>1, <1>2
  <2> QED
    BY <1>4, <2>1 DEF s
<1> QED
  BY <1>8, <1>9 DEF s, k

(* s are bytes of one message one after the other; all of p are, from      *)
(* byte o of message m.                                                    *)
Unbroken(s) == \A i \in 2 .. Len(s) : s[i] = <<s[1][1], s[1][2] + i - 1>>

RunsFrom(p, m, o) == \A i \in 1 .. Len(p) : p[i] = <<m, o + i - 1>>

Reaches(b, m, o) == Unbroken(b) /\ b[1][1] = m /\ b[1][2] + Len(b) = o

LEMMA Joins ==
  ASSUME NEW b \in Seq(Byte), NEW p \in Seq(Byte), NEW m \in Nat, NEW o \in Nat,
         p # <<>>, RunsFrom(p, m, o), b # <<>> => Reaches(b, m, o),
         NEW c, c = b \o p
  PROVE  /\ c \in Seq(Byte) /\ c # <<>> /\ Reaches(c, m, o + Len(p))
         /\ c[1] = IF b = <<>> THEN <<m, o>> ELSE b[1]
<1>0. /\ \A i \in 1 .. Len(p) : p[i] = <<m, o + i - 1>>
      /\ b # <<>> =>
           /\ \A i \in 2 .. Len(b) : b[i] = <<b[1][1], b[1][2] + i - 1>>
           /\ b[1][1] = m /\ b[1][2] + Len(b) = o
  BY DEF RunsFrom, Reaches, Unbroken
<1>1. /\ c \in Seq(Byte) /\ Len(c) = Len(b) + Len(p)
      /\ \A i \in 1 .. Len(b) : c[i] = b[i]
      /\ \A i \in 1 .. Len(p) : c[Len(b) + i] = p[i]
  BY ConcatItems
<1>2. /\ Len(b) \in Nat /\ Len(p) \in Nat /\ Len(p) >= 1
      /\ (b = <<>>) = (Len(b) = 0)
  BY NoItems
<1>3. c # <<>>
  BY <1>1, <1>2, NoItems
<1>4. CASE b = <<>>
  <2>1. Len(b) = 0
    BY <1>2, <1>4
  <2>2. \A i \in 1 .. Len(p) : c[i] = <<m, o + i - 1>>
    BY <1>0, <1>1, <1>2, <2>1
  <2>3. 1 \in 1 .. Len(p) /\ o + 1 - 1 = o /\ Len(c) = Len(p)
    BY <1>1, <1>2, <2>1
  <2>4. c[1] = <<m, o>>
    BY <2>2, <2>3
  <2>5. \A i \in 2 .. Len(c) : i \in 1 .. Len(p)
    BY <1>2, <2>3
  <2>6. c[1][1] = m /\ c[1][2] = o
    BY <2>4
  <2>7. \A i \in 2 .. Len(c) : c[i] = <<m, o + i - 1>>
    BY <2>2, <2>5
  <2> QED
    BY <1>1, <1>3, <1>4, <2>3, <2>4, <2>6, <2>7 DEF Reaches, Unbroken
<1>5. CASE b # <<>>
  <2> DEFINE n == Len(b)
             y == b[1][2]
             l == Len(p)
  <2>1. b[1] \in Byte
    <3> HIDE DEF Byte
    <3> QED
      BY <1>5, TailItems
  <2>2. y \in Nat /\ n \in Nat /\ n >= 1 /\ y + n = o
    BY <1>0, <1>2, <1>5, <2>1 DEF Byte
  <2>3. c[1] = b[1]
    BY <1>1, <2>2
  <2>4. ASSUME NEW i \in 2 .. Len(c) PROVE c[i] = <<m, y + i - 1>>
    <3> HIDE DEF n, y
    <3>1. Len(c) = n + Len(p) /\ i \in 2 .. n + Len(p)
      BY <1>1 DEF n
    <3>2. CASE i <= n
      <4>1. i \in 2 .. Len(b) /\ i \in 1 .. Len(b)
        BY <1>2, <3>1, <3>2 DEF n
      <4> QED
        BY <1>0, <1>1, <1>5, <4>1 DEF y
    <3>3. CASE i > n
      <4> DEFINE j == i - n
      <4>1. j \in 1 .. Len(p) /\ n + j = i /\ o + j - 1 = y + i - 1
        BY <1>2, <2>2, <3>1, <3>3
      <4> HIDE DEF j
      <4>2. c[i] = p[j]
        BY <1>1, <4>1 DEF n
      <4> QED
        BY <1>0, <4>1, <4>2
    <3> QED
      BY <1>2, <2>2, <3>1, <3>2, <3>3
  <2>5. y + (n + l) = o + l
    <3>1. y \in Nat /\ n \in Nat /\ l \in Nat /\ y + n = o /\ o \in Nat
      BY <1>2, <2>2
    <3> HIDE DEF n, y, l
    <3> QED
      BY <3>1
  <2>6. c[1][1] = m /\ c[1][2] = y
    BY <1>0, <1>5, <2>3
  <2> HIDE DEF y
  <2> QED
    BY <1>1, <1>3, <1>5, <2>3, <2>4, <2>5, <2>6 DEF Reaches, Unbroken
<1> QED
  BY <1>4, <1>5

LEMMA CollectsMore ==
  ASSUME NEW t, NEW h \in Place, NEW w \in Nat, w < Words(h.len),
         NEW b \in Seq(Byte), Collects(b, h, w, t),
         NEW d, d = [h EXCEPT !.word = w + 1]
  PROVE  Collects(b \o SubSeq(Bytes(d), 1, Least(h.len - 4 * w, 4)), h, w + 1, t)
<1> DEFINE k == Least(h.len - 4 * w, 4)
           piece == SubSeq(Bytes(d), 1, k)
           o == h.from + 4 * w
           c == b \o piece
<1>1. /\ piece \in Seq(Byte) /\ Len(piece) = k
      /\ \A i \in 1 .. k : piece[i] = <<h.msg, o + i - 1>>
  BY NextBytes
<1>2. h.msg \in Nat /\ h.from \in Nat /\ h.len \in Nat /\ o \in Nat
  BY PlaceTypes
<1>3. k \in 1 .. 4 /\ Least(4 * w, h.len) = 4 * w
      /\ Least(4 * (w + 1), h.len) = 4 * w + k
  BY <1>2, WordBytes
<1>4. o + k = h.from + Least(4 * (w + 1), h.len)
  BY <1>2, <1>3
<1>5. /\ b = <<>> => w = 0 /\ Floor(t, Begin(h))
      /\ b # <<>> => Reaches(b, h.msg, o) /\ Floor(t, b[1])
  BY <1>3 DEF Collects, Reaches, Unbroken
<1>6. b = <<>> => <<h.msg, o>> = Begin(h)
  BY <1>2, <1>5 DEF Begin
<1>7. c = b \o piece
  OBVIOUS
<1> HIDE DEF k, piece, o, c
<1>8. piece # <<>> /\ RunsFrom(piece, h.msg, o)
  BY <1>1, <1>3, NoItems DEF RunsFrom
<1>9. /\ c # <<>> /\ Reaches(c, h.msg, o + Len(piece))
      /\ c[1] = IF b = <<>> THEN <<h.msg, o>> ELSE b[1]
  <2>1. b \in Seq(Byte) /\ piece \in Seq(Byte) /\ h.msg \in Nat /\ o \in Nat
    BY <1>1, <1>2
  <2>2. piece # <<>> /\ RunsFrom(piece, h.msg, o)
    BY <1>8
  <2>3. b # <<>> => Reaches(b, h.msg, o)
    BY <1>5
  <2>4. c # <<>>
    BY <2>1, <2>2, <2>3, <1>7, Joins
  <2>5. Reaches(c, h.msg, o + Len(piece))
    BY <2>1, <2>2, <2>3, <1>7, Joins
  <2> QED
    BY <2>1, <2>2, <2>3, <2>4, <2>5, <1>7, Joins
<1>10. Floor(t, c[1])
  BY <1>5, <1>6, <1>9
<1>11. Collects(c, h, w + 1, t)
  BY <1>1, <1>4, <1>9, <1>10 DEF Collects, Reaches, Unbroken
<1> QED
  BY <1>11 DEF c, k, piece

LEMMA LeastAll ==
  \A n \in Nat : Least(4 * Words(n), n) = n /\ Least(4 * 0, n) = 0
  BY DEF Words, Least

(* A fragment read goes on in the next one of the message.                 *)
LEMMA CollectsNext ==
  ASSUME NEW t, NEW h \in Place, NEW g \in Place, NEW b \in Seq(Byte), b # <<>>,
         Collects(b, h, Words(h.len), t), ~h.complete, Begin(g) = End(h)
  PROVE  Collects(b, g, 0, t) /\ g.msg = h.msg
<1>1. h.len \in Nat /\ h.from \in Nat /\ g.len \in Nat /\ g.from \in Nat
  BY PlaceTypes
<1>2. Least(4 * Words(h.len), h.len) = h.len /\ Least(4 * 0, g.len) = 0
  BY <1>1, LeastAll
<1>3. g.msg = h.msg /\ g.from = h.from + h.len
  BY DEF Begin, End
<1>4. g.from + 0 = h.from + h.len
  BY <1>1, <1>3
<1> QED
  BY <1>2, <1>3, <1>4 DEF Collects

(* What is returned when a fragment has been read.                         *)
LEMMA TakePiece ==
  ASSUME NEW lg, NEW t \in Seq(Returns), Pieces(t, lg),
         NEW h, Valid(h, lg), NEW b \in Seq(Byte), b # <<>>,
         Collects(b, h, Words(h.len), t),
         NEW a, a = lg[h.msg].addr, a \in Addrs \cup {{}}
  PROVE  LET u == Append(t, [addr |-> a, bytes |-> b]) IN
           /\ u \in Seq(Returns) /\ Pieces(u, lg) /\ Floor(u, End(h))
<1> DEFINE r == [addr |-> a, bytes |-> b]
           u == Append(t, r)
<1>1. r \in Returns
  BY DEF Returns
<1>2. h \in Place /\ h.msg \in 1 .. Len(lg) /\ h.len # 0
  BY DEF Valid
<1>3. h.len \in Nat /\ h.from \in Nat /\ h.msg \in Nat
  BY <1>2, PlaceTypes
<1>4. /\ \A i \in 2 .. Len(b) : b[i] = <<b[1][1], b[1][2] + i - 1>>
      /\ b[1][1] = h.msg
      /\ b[1][2] + Len(b) = h.from + h.len
      /\ Floor(t, b[1])
  <2>1. Least(4 * Words(h.len), h.len) = h.len
    BY <1>3, LeastAll
  <2> QED
    BY <2>1 DEF Collects
<1>5. Piece(r, lg)
  BY <1>2, <1>4 DEF Piece
<1> HIDE DEF r
<1>6. /\ u \in Seq(Returns) /\ Len(u) = Len(t) + 1 /\ Len(t) \in Nat
      /\ \A i \in 1 .. Len(t) : u[i] = t[i]
      /\ u[Len(t) + 1] = r /\ u # <<>>
  BY <1>1, AppendItems, NoItems
<1> HIDE DEF u
<1>7. ASSUME NEW k \in 1 .. Len(u) PROVE Piece(u[k], lg)
  <2>1. CASE k <= Len(t)
    BY <1>6, <2>1 DEF Pieces
  <2>2. CASE k = Len(t) + 1
    BY <1>5, <1>6, <2>2
  <2> QED
    BY <1>6, <2>1, <2>2
<1>8. ASSUME NEW k \in 2 .. Len(u)
      PROVE  Before(u[k - 1].bytes[Len(u[k - 1].bytes)], u[k].bytes[1])
  <2>1. CASE k <= Len(t)
    <3>1. k \in 2 .. Len(t) /\ k \in 1 .. Len(t) /\ k - 1 \in 1 .. Len(t)
      BY <1>6, <2>1
    <3> QED
      BY <1>6, <3>1 DEF Pieces
  <2>2. CASE k = Len(t) + 1
    <3>1. k - 1 = Len(t) /\ Len(t) \in 1 .. Len(t) /\ t # <<>>
      BY <1>6, <2>2
    <3>2. u[k - 1] = t[Len(t)] /\ u[k] = r
      BY <1>6, <2>2, <3>1
    <3>3. u[k].bytes = b
      BY <3>2 DEF r
    <3> QED
      BY <1>4, <3>1, <3>2, <3>3 DEF Floor
  <2> QED
    BY <1>6, <2>1, <2>2
<1>9. Floor(u, End(h))
  <2>1. u[Len(u)].bytes = b
    BY <1>6 DEF r
  <2>2. Len(b) \in Nat /\ Len(b) >= 1 /\ b[1] \in Byte
    <3> HIDE DEF Byte
    <3> QED
      BY NoItems, TailItems
  <2>3. b[1][2] \in Nat
    BY <2>2 DEF Byte
  <2>4. b[Len(b)][1] = h.msg /\ b[Len(b)][2] = h.from + h.len - 1
    <3> DEFINE n == Len(b)
               y == b[1][2]
    <3>0. n \in Nat /\ n >= 1 /\ y \in Nat /\ y + n = h.from + h.len
      BY <1>4, <2>2, <2>3
    <3> HIDE DEF n, y
    <3>1. CASE n = 1
      <4>1. y = h.from + h.len - 1
        BY <1>3, <3>0, <3>1
      <4> QED
        BY <1>4, <3>1, <4>1 DEF n, y
    <3>2. CASE n # 1
      <4>1. n \in 2 .. n /\ y + n - 1 = h.from + h.len - 1
        BY <1>3, <3>0, <3>2
      <4>2. b[n] = <<b[1][1], y + n - 1>>
        BY <1>4, <4>1 DEF n, y
      <4> QED
        BY <1>4, <4>1, <4>2 DEF n
    <3> QED
      BY <3>1, <3>2
  <2>5. Before(b[Len(b)], End(h))
    <3>1. CASE h.complete
      BY <1>3, <2>4, <3>1 DEF Before, End
    <3>2. CASE ~h.complete
      BY <1>3, <2>4, <3>2 DEF Before, End
    <3> QED
      BY <3>1, <3>2
  <2> QED
    BY <2>1, <2>5 DEF Floor
<1> QED
  BY <1>6, <1>7, <1>8, <1>9 DEF Pieces, u, r

-----------------------------------------------------------------------------
(* The two ends of the stream.                                             *)
LEMMA LogItems ==
  ASSUME TypeOK
  PROVE  /\ Len(log) \in Nat
         /\ \A m \in 1 .. Len(log) : /\ log[m].addr \in Addrs
                                     /\ log[m].len \in Nat /\ log[m].len # 0
<1> DEFINE E == [addr : Addrs, len : Lengths]
<1>1. log \in Seq(E)
  BY DEF TypeOK
<1> HIDE DEF E
<1>2. Len(log) \in Nat /\ \A m \in 1 .. Len(log) : log[m] \in E
  BY <1>1, ElementOfSeq, NoItems
<1>3. \A n \in Lengths : n \in Nat /\ n # 0
  BY ReadAssumption
<1> QED
  BY <1>2, <1>3 DEF E

LEMMA Typed ==
  ASSUME TypeOK
  PROVE  /\ Stream \in Seq(Place) /\ taken \in Seq(Returns)
         /\ MsgLen \in Nat /\ MePlace \in Byte
         /\ log # <<>> => Len(log) \in 1 .. Len(log)
<1>1. Stream \in Seq(Place)
  <2>1. queue \in Seq(Place) /\ todo \in Seq(Place)
    BY DEF TypeOK
  <2> QED
    BY <2>1, ConcatItems DEF Stream
<1>2. taken \in Seq(Returns)
  BY DEF TypeOK, Returns
<1>3. log # <<>> => Len(log) \in 1 .. Len(log)
  <2>1. log \in Seq([addr : Addrs, len : Lengths])
    BY DEF TypeOK
  <2> QED
    BY <2>1, LastItem
<1>4. MsgLen \in Nat
  BY <1>3, LogItems DEF MsgLen
<1>5. MePlace \in Byte
  BY LogItems DEF TypeOK, MePlace, Byte
<1> QED
  BY <1>1, <1>2, <1>3, <1>4, <1>5

(* A fragment is a chain of its own, from where the ME stood to where it   *)
(* stands next.                                                            *)
LEMMA FragmentChain ==
  ASSUME TypeOK, off < MsgLen, NEW f \in Nat, f # 0, off + f <= MsgLen
  PROVE  LET u == Dwords(f) IN
           /\ u \in Seq(Place) /\ u # <<>> /\ u[1].word = 0
           /\ Begin(u[1]) = <<Len(log), off>>
           /\ Chained(u, log, IF off + f = MsgLen THEN <<Len(log) + 1, 0>>
                              ELSE <<Len(log), off + f>>)
<1> DEFINE u == Dwords(f)
           w == Words(f)
           l == Len(log)
           done == off + f = MsgLen
           place == IF done THEN <<l + 1, 0>> ELSE <<l, off + f>>
           at(i) == [msg |-> l, from |-> off, len |-> f, complete |-> done, word |-> i - 1]
<1>1. w \in Nat /\ w # 0
  BY WordsNat
<1>2. /\ off \in Nat /\ MsgLen \in Nat /\ l \in 1 .. l /\ l \in Nat
      /\ MsgLen = log[l].len /\ done \in BOOLEAN
  <2>1. off \in Nat /\ MsgLen \in Nat
    BY Typed DEF TypeOK
  <2>2. log # <<>>
    BY <2>1 DEF MsgLen
  <2> QED
    BY <2>1, <2>2, Typed, LogItems DEF MsgLen
<1>3. u = [i \in 1 .. w + 1 |-> at(i)]
  BY DEF Dwords
<1> HIDE DEF w, l, done, u
<1>4. ASSUME NEW i \in 1 .. w + 1
      PROVE  /\ at(i) \in Place /\ Begin(at(i)) = <<l, off>>
             /\ Valid(at(i), log) /\ End(at(i)) = place
  <2>1. i - 1 \in Nat /\ i - 1 <= w
    BY <1>1
  <2>2. at(i) \in Place
    BY <1>2, <2>1 DEF Place
  <2>3. Valid(at(i), log)
    <3>1. /\ at(i).msg = l /\ at(i).from = off /\ at(i).len = f
          /\ at(i).word = i - 1
      OBVIOUS
    <3>2. at(i).complete = done
      OBVIOUS
    <3>3. done = (off + f = log[l].len) /\ off + f <= log[l].len
      BY <1>2 DEF done
    <3> HIDE DEF at
    <3>4. at(i).complete = (at(i).from + at(i).len = log[at(i).msg].len)
      BY <3>1, <3>2, <3>3
    <3>5. /\ at(i).msg \in 1 .. Len(log) /\ at(i).len # 0
          /\ at(i).from + at(i).len <= log[at(i).msg].len
          /\ at(i).word <= Words(at(i).len)
      BY <1>2, <2>1, <3>1, <3>3 DEF w, l
    <3> QED
      BY <2>2, <3>4, <3>5, Zenon DEF Valid
  <2>4. Begin(at(i)) = <<l, off>> /\ End(at(i)) = place
    BY DEF Begin, End
  <2> QED
    BY <2>2, <2>3, <2>4
<1>5. u \in Seq(Place) /\ Len(u) = w + 1 /\ \A i \in 1 .. w + 1 : u[i] = at(i)
  <2>1. u \in [1 .. w + 1 -> Place]
    BY <1>3, <1>4
  <2>2. w + 1 \in Nat
    BY <1>1
  <2> QED
    BY <1>3, <2>1, <2>2, Items
<1>6. 1 \in 1 .. w + 1 /\ w + 1 \in 1 .. w + 1 /\ u # <<>>
  BY <1>1, <1>5, NoItems
<1>7. u[1].word = 0 /\ Begin(u[1]) = <<l, off>>
  BY <1>4, <1>5, <1>6
<1>8. ASSUME NEW i \in 1 .. Len(u) - 1 PROVE Follows(u[i], u[i + 1])
  <2>1. i \in 1 .. w + 1 /\ i + 1 \in 1 .. w + 1 /\ i - 1 < w /\ i + 1 - 1 = i - 1 + 1
    BY <1>1, <1>5
  <2>2. u[i] = at(i) /\ u[i + 1] = at(i + 1)
    BY <1>5, <2>1
  <2>3. at(i).word < Words(at(i).len)
    BY <2>1 DEF w
  <2>4. at(i + 1) = [at(i) EXCEPT !.word = at(i).word + 1]
    BY <2>1
  <2> HIDE DEF at
  <2> QED
    BY <2>2, <2>3, <2>4 DEF Follows
<1>9. Ends(u[Len(u)], place)
  <2>1. u[Len(u)] = at(w + 1) /\ w + 1 - 1 = w
    BY <1>1, <1>5, <1>6
  <2>2. at(w + 1).word = Words(at(w + 1).len)
    <3>1. at(w + 1).word = w /\ at(w + 1).len = f
      BY <1>1
    <3> HIDE DEF at
    <3> QED
      BY <3>1 DEF w
  <2> HIDE DEF at
  <2> QED
    BY <1>4, <1>6, <2>1, <2>2 DEF Ends
<1>10. Chained(u, log, place)
  BY <1>4, <1>5, <1>8, <1>9 DEF Chained
<1> QED
  BY <1>5, <1>6, <1>7, <1>10 DEF u, l, done

-----------------------------------------------------------------------------
(* The types and the bound hold wherever the dwords read come from.        *)
Bounds == TypeOK /\ Fits

LEMMA DwordBytes ==
  ASSUME NEW d \in Place, NEW k \in 1 .. 4
  PROVE  LET piece == SubSeq(Bytes(d), 1, k) IN
           piece \in Seq(Byte) /\ Len(piece) = k
<1>1. d.msg \in Nat /\ d.from \in Nat /\ d.word \in Nat
  BY PlaceTypes
<1>2. Bytes(d) \in [1 .. 4 -> Byte]
  <2>1. Pad \in Byte
    BY DEF Pad, Byte
  <2>2. ASSUME NEW b \in 1 .. 4, d.word > 0
        PROVE  <<d.msg, d.from + 4 * (d.word - 1) + b - 1>> \in Byte
    <3>1. d.from + 4 * (d.word - 1) + b - 1 \in Nat
      BY <1>1, <2>2
    <3> QED
      BY <1>1, <3>1 DEF Byte
  <2> QED
    BY <2>1, <2>2 DEF Bytes
<1> DEFINE s == Bytes(d)
<1> HIDE DEF s
<1>3. s \in Seq(Byte) /\ Len(s) = 4
  BY <1>2, Items DEF s
<1>4. \A i \in 1 .. k : s[i] \in Byte
  <2>1. \A i \in 1 .. k : i \in 1 .. Len(s)
    BY <1>3
  <2> QED
    BY <1>3, <2>1, ElementOfSeq
<1>5. 1 <= k /\ k \in Int /\ k - 1 + 1 = k /\ \A i \in 1 .. k : 1 + i - 1 = i
  OBVIOUS
<1>6. SubSeq(s, 1, k) \in Seq(Byte) /\ Len(SubSeq(s, 1, k)) = k
  BY <1>4, <1>5, SubSeqProperties
<1> QED
  BY <1>6 DEF s

LEMMA FetchTypes ==
  ASSUME TypeOK, Fetch
  PROVE  queue' \in Seq(Place) /\ ahead' \in BOOLEAN
<1>1. queue \in Seq(Place) /\ ahead \in BOOLEAN
  BY DEF TypeOK
<1>2. CASE Astray
  BY <1>1, <1>2 DEF Fetch
<1>3. CASE ~Astray
  <2>1. queue # <<>> /\ queue' = Tail(queue) /\ ahead' = FALSE
    BY <1>3 DEF Fetch, Astray
  <2> QED
    BY <1>1, <2>1, TailItems
<1> QED
  BY <1>2, <1>3

LEMMA LengthNat ==
  ASSUME NEW p \in Place
  PROVE  Length(p) \in Nat
  BY PlaceTypes DEF Length

LEMMA WindowTypes ==
  ASSUME TypeOK, NEW d \in Window
  PROVE  d \in Place /\ Length(d) \in Nat /\ Addr(d) \in Addrs \cup {{}}
<1>1. d \in Place
  <2>1. CASE Astray
    BY <2>1, StrayAssumption DEF Window, Place
  <2>2. CASE ~Astray
    <3>1. queue \in Seq(Place) /\ queue # <<>> /\ d = Head(queue)
      BY <2>2 DEF TypeOK, Window, Astray
    <3> QED
      BY <3>1, TailItems
  <2> QED
    BY <2>1, <2>2
<1>2. Addr(d) \in Addrs \cup {{}}
  BY LogItems DEF Addr
<1> QED
  BY <1>1, <1>2, LengthNat

LEMMA FitsSame ==
  ASSUME Fits, UNCHANGED <<hpc, size, buf, hdr, word>>
  PROVE  Fits'
  BY DEF Fits, MoreWords, Length

LEMMA ReadHeaderBounds ==
  ASSUME Bounds, NEW d \in Window, ReadHeader(d)
  PROVE  Bounds'
<1>1. /\ hdr' = d /\ word' = 0 /\ first' = FALSE
      /\ addr' = IF first THEN Addr(d) ELSE addr
      /\ hpc = "header"
      /\ hpc' = IF Len(buf) + Length(d) > size THEN "drain" ELSE "payload"
      /\ UNCHANGED <<irq, todo, off, awake, down, size, elapsed, buf, log, taken,
                     slow, dropped>>
  BY DEF ReadHeader, meVars
<1>2. queue' \in Seq(Place) /\ ahead' \in BOOLEAN
  BY FetchTypes DEF Bounds, ReadHeader
<1>3. d \in Place /\ Length(d) \in Nat /\ Addr(d) \in Addrs \cup {{}}
  BY WindowTypes DEF Bounds
<1>4. /\ buf \in Seq(Byte) /\ size \in Nat /\ addr \in Addrs \cup {{}}
      /\ hpc # "idle" => Len(buf) <= size
  BY DEF Bounds, TypeOK
<1>5. Len(buf) \in Nat
  BY <1>4, NoItems
<1>6. addr' \in Addrs \cup {{}}
  BY <1>1, <1>3, <1>4
<1>7. hpc' \in {"drain", "payload"} /\ first' \in BOOLEAN /\ word' \in Nat
  BY <1>1
<1>8. TypeOK'
  BY <1>1, <1>2, <1>3, <1>4, <1>6, <1>7 DEF Bounds, TypeOK
<1>9. Fits'
  <2>1. hpc' = "payload" => Len(buf) + Length(d) - 4 * 0 <= size
    BY <1>1, <1>3, <1>4, <1>5
  <2>2. Length(hdr') = Length(d)
    BY <1>1
  <2> QED
    BY <1>1, <2>1, <2>2 DEF Fits, Length
<1> QED
  BY <1>8, <1>9 DEF Bounds

LEMMA ReadWordBounds ==
  ASSUME Bounds, NEW d \in Window, ReadWord(d)
  PROVE  Bounds'
<1> DEFINE n == Length(hdr)
           k == Least(n - 4 * word, 4)
           piece == SubSeq(Bytes(d), 1, k)
<1>1. /\ hpc = "payload" /\ MoreWords /\ word' = word + 1
      /\ buf' = buf \o piece
      /\ UNCHANGED <<irq, todo, off, awake, down, hpc, size, elapsed, first, addr,
                     hdr, log, taken, slow, dropped>>
  BY DEF ReadWord, meVars
<1>2. queue' \in Seq(Place) /\ ahead' \in BOOLEAN
  BY FetchTypes DEF Bounds, ReadWord
<1>3. /\ buf \in Seq(Byte) /\ size \in Nat /\ word \in Nat /\ hdr \in Place
      /\ n \in Nat /\ d \in Place
  BY WindowTypes, LengthNat DEF Bounds, TypeOK
<1>4. Len(buf) \in Nat
  BY <1>3, NoItems
<1>5. word < Words(n) /\ Words(n) \in Nat
  BY <1>1, <1>3, WordsNat DEF MoreWords
<1>6. Len(buf) + n - 4 * word <= size
  BY <1>1 DEF Bounds, Fits
<1>7. (MoreWords' => word + 1 < Words(n)) /\ Length(hdr') = n
  BY <1>1 DEF MoreWords, Length
<1> HIDE DEF n
<1>8. /\ k \in 1 .. 4 /\ k <= n - 4 * word
      /\ word + 1 < Words(n) => k = 4
  BY <1>3, <1>5, WordBytes
<1>9. piece \in Seq(Byte) /\ Len(piece) = k
  BY <1>3, <1>8, DwordBytes
<1> HIDE DEF k, piece
<1>10. buf' \in Seq(Byte) /\ Len(buf') = Len(buf) + k
  BY <1>1, <1>3, <1>9, ConcatItems
<1>11. Len(buf') <= size /\ word' \in Nat
  BY <1>1, <1>3, <1>4, <1>6, <1>8, <1>10
<1>12. TypeOK'
  BY <1>1, <1>2, <1>3, <1>10, <1>11 DEF Bounds, TypeOK
<1>13. Fits'
  <2>1. word + 1 < Words(n) => Len(buf') + n - 4 * (word + 1) <= size
    BY <1>3, <1>4, <1>5, <1>6, <1>8, <1>10
  <2> QED
    BY <1>1, <1>7, <2>1 DEF Fits
<1> QED
  BY <1>12, <1>13 DEF Bounds

LEMMA TakeTypes ==
  ASSUME TypeOK, Take
  PROVE  taken' \in Seq(Returns)
<1>1. taken \in Seq(Returns) /\ [addr |-> addr, bytes |-> buf] \in Returns
  BY Typed DEF TypeOK, Returns
<1> QED
  BY <1>1, AppendItems DEF Take

LEMMA ReadMsgBounds ==
  Bounds /\ ReadMsg => Bounds'
<1> SUFFICES ASSUME Bounds, ReadMsg
             PROVE  Bounds'
  OBVIOUS
<1>1. TypeOK /\ Fits /\ taken \in Seq(Returns)
  BY Typed DEF Bounds
<1>2. ASSUME PollEmpty PROVE Bounds'
  <2>1. elapsed' \in 0 .. Polls
    BY <1>1, <1>2, ReadAssumption DEF TypeOK, PollEmpty
  <2>2. slow' \in BOOLEAN
    BY <1>1, <1>2 DEF TypeOK, PollEmpty
  <2>3. TypeOK'
    BY <1>1, <1>2, <2>1, <2>2 DEF TypeOK, PollEmpty, meVars, result
  <2>4. Fits'
    BY <1>1, <1>2, FitsSame DEF PollEmpty, result
  <2> QED
    BY <2>3, <2>4 DEF Bounds
<1>3. ASSUME PollFound PROVE Bounds'
  <2>1. hpc = "poll" /\ hpc' = "header"
    BY <1>3 DEF PollFound
  <2>2. TypeOK'
    BY <1>1, <1>3, <2>1 DEF TypeOK, PollFound, meVars, result, faults
  <2> QED
    BY <2>1, <2>2 DEF Bounds, Fits
<1>4. ASSUME Timeout PROVE Bounds'
  <2>1. taken' \in Seq(Returns)
    BY <1>1, <1>4, TakeTypes DEF Timeout
  <2>2. TypeOK' /\ hpc' = "idle"
    BY <1>1, <1>4, <2>1 DEF TypeOK, Returns, Timeout, meVars, result, faults
  <2> QED
    BY <2>2 DEF Bounds, Fits
<1>5. ASSUME DrainWord PROVE Bounds'
  <2>1. queue' \in Seq(Place) /\ ahead' \in BOOLEAN
    BY <1>1, <1>5, FetchTypes DEF DrainWord
  <2>2. word' \in Nat
    BY <1>1, <1>5 DEF DrainWord, TypeOK
  <2>3. TypeOK' /\ hpc' = "drain"
    BY <1>1, <1>5, <2>1, <2>2 DEF TypeOK, DrainWord, meVars, result
  <2> QED
    BY <2>3 DEF Bounds, Fits
<1>6. ASSUME EndFragment PROVE Bounds'
  <2>1. taken' \in Seq(Returns)
    BY <1>1, <1>6, TakeTypes DEF EndFragment, NextFragment
  <2>2. elapsed' \in 0 .. Polls /\ irq' \in BOOLEAN
    <3>1. 0 \in 0 .. Polls
      BY ReadAssumption
    <3> QED
      BY <1>6, <3>1 DEF EndFragment, NextFragment
  <2>3. hpc = "payload" /\ hpc' \in {"idle", "poll"}
    BY <1>6 DEF EndFragment, NextFragment
  <2>4. TypeOK'
    BY <1>1, <1>6, <2>1, <2>2, <2>3
       DEF TypeOK, Returns, EndFragment, NextFragment, meVars, result, faults
  <2> QED
    BY <2>3, <2>4 DEF Bounds, Fits
<1>7. ASSUME EndDrain PROVE Bounds'
  <2>1. TypeOK' /\ hpc' = "idle"
    BY <1>1, <1>7 DEF TypeOK, EndDrain, meVars, result
  <2> QED
    BY <2>1 DEF Bounds, Fits
<1> QED
  BY <1>2, <1>3, <1>4, <1>5, <1>6, <1>7, ReadHeaderBounds, ReadWordBounds DEF ReadMsg

LEMMA MeBounds ==
  Bounds /\ ME => Bounds'
<1> SUFFICES ASSUME Bounds, ME
             PROVE  Bounds'
  OBVIOUS
<1>1. TypeOK /\ Fits
  BY DEF Bounds
<1>2. ASSUME NEW a \in Addrs, NEW n \in Lengths, MeBegin(a, n) PROVE Bounds'
  <2> DEFINE E == [addr : Addrs, len : Lengths]
             e == [addr |-> a, len |-> n]
  <2>1. log' = Append(log, e) /\ log \in Seq(E) /\ e \in E /\ off' = 0
    BY <1>1, <1>2 DEF MeBegin, TypeOK
  <2> HIDE DEF E, e
  <2>2. log' \in Seq(E) /\ off' \in Nat
    BY <2>1, AppendItems
  <2>3. TypeOK'
    BY <1>1, <1>2, <2>2 DEF TypeOK, MeBegin, host, result, faults, E
  <2>4. Fits'
    BY <1>1, <1>2, FitsSame DEF MeBegin, host, result
  <2> QED
    BY <2>3, <2>4 DEF Bounds
<1>3. ASSUME NEW n \in Frags, MeFragment(n) PROVE Bounds'
  <2> DEFINE f == Fragment(n)
             u == Dwords(f)
  <2>1. todo' = u /\ off' = off + f /\ off < MsgLen
    BY <1>3 DEF MeFragment
  <2>2. off \in Nat /\ MsgLen \in Nat /\ n \in Nat /\ n # 0
    BY <1>1, Typed, ReadAssumption DEF TypeOK
  <2>3. f \in Nat /\ f # 0 /\ off + f <= MsgLen
    BY <2>1, <2>2 DEF Fragment, Least
  <2> HIDE DEF f
  <2>4. u \in Seq(Place)
    BY <1>1, <2>1, <2>3, FragmentChain
  <2>5. off' \in Nat
    BY <2>1, <2>2, <2>3
  <2> HIDE DEF u
  <2>6. TypeOK'
    BY <1>1, <1>3, <2>1, <2>4, <2>5 DEF TypeOK, MeFragment, host, result, faults
  <2>7. Fits'
    BY <1>1, <1>3, FitsSame DEF MeFragment, host, result
  <2> QED
    BY <2>6, <2>7 DEF Bounds
<1>4. ASSUME MeWrite PROVE Bounds'
  <2>1. queue \in Seq(Place) /\ todo \in Seq(Place) /\ todo # <<>>
    BY <1>1, <1>4 DEF TypeOK, MeWrite
  <2>2. Head(todo) \in Place /\ todo' \in Seq(Place)
    BY <1>4, <2>1, TailItems DEF MeWrite
  <2>3. queue' \in Seq(Place)
    BY <1>4, <2>1, <2>2, AppendItems DEF MeWrite
  <2>4. TypeOK'
    BY <1>1, <1>4, <2>2, <2>3 DEF TypeOK, MeWrite, host, result, faults
  <2>5. Fits'
    BY <1>1, <1>4, FitsSame DEF MeWrite, host, result
  <2> QED
    BY <2>4, <2>5 DEF Bounds
<1>5. ASSUME MeWait PROVE Bounds'
  <2>1. TypeOK'
    BY <1>1, <1>5 DEF TypeOK, MeWait, host, result, faults
  <2>2. Fits'
    BY <1>1, <1>5, FitsSame DEF MeWait, host, result
  <2> QED
    BY <2>1, <2>2 DEF Bounds
<1>6. ASSUME MeWake PROVE Bounds'
  <2>1. TypeOK'
    BY <1>1, <1>6 DEF TypeOK, MeWake, host, result, faults
  <2>2. Fits'
    BY <1>1, <1>6, FitsSame DEF MeWake, host, result
  <2> QED
    BY <2>1, <2>2 DEF Bounds
<1>7. ASSUME MeDown PROVE Bounds'
  <2>1. queue' \in Seq(Place) /\ todo' \in Seq(Place) /\ down' \in BOOLEAN
    BY <1>7 DEF MeDown
  <2>2. TypeOK'
    BY <1>1, <1>7, <2>1 DEF TypeOK, MeDown, host, result, faults
  <2>3. Fits'
    BY <1>1, <1>7, FitsSame DEF MeDown, host, result
  <2> QED
    BY <2>2, <2>3 DEF Bounds
<1> QED
  BY <1>2, <1>3, <1>4, <1>5, <1>6, <1>7 DEF ME

LEMMA ResetTypes ==
  Bounds /\ Reset => Bounds'
<1> SUFFICES ASSUME Bounds, Reset
             PROVE  Bounds'
  OBVIOUS
<1>1. /\ queue' \in Seq(Place) /\ todo' \in Seq(Place)
      /\ log' \in Seq([addr : Addrs, len : Lengths])
      /\ taken' \in Seq([addr : Addrs \cup {{}}, bytes : Seq(Byte)])
  BY DEF Reset
<1>2. irq' \in BOOLEAN /\ awake' \in BOOLEAN /\ down' \in BOOLEAN
  BY DEF Reset
<1>3. slow' \in BOOLEAN /\ dropped' \in BOOLEAN /\ ahead' \in BOOLEAN
  BY DEF Reset
<1>4. off' \in Nat
  BY DEF Reset
<1>5. UNCHANGED host
  BY DEF Reset
<1>6. TypeOK'
  BY <1>1, <1>2, <1>3, <1>4, <1>5 DEF Bounds, TypeOK, host, result
<1>7. Fits'
  BY <1>5, FitsSame DEF Bounds, host, result
<1> QED
  BY <1>6, <1>7 DEF Bounds

LEMMA StepBounds ==
  Bounds /\ [Next]_vars => Bounds'
<1> SUFFICES ASSUME Bounds, [Next]_vars
             PROVE  Bounds'
  OBVIOUS
<1>1. TypeOK /\ Fits
  BY DEF Bounds
<1>2. ASSUME NEW n \in Sizes, StartRead(n) PROVE Bounds'
  <2>1. n \in Nat /\ 0 \in 0 .. Polls
    BY ReadAssumption
  <2>2. /\ hpc' = "poll" /\ size' = n /\ elapsed' = 0 /\ first' = TRUE
        /\ buf' = <<>>
    BY <1>2 DEF StartRead
  <2>3. buf' \in Seq(Byte) /\ Len(buf') <= size'
    BY <2>1, <2>2
  <2>4. TypeOK'
    BY <1>1, <1>2, <2>1, <2>2, <2>3 DEF TypeOK, StartRead, meVars, faults
  <2> QED
    BY <2>2, <2>4 DEF Bounds, Fits
<1>3. ASSUME Notify PROVE Bounds'
  <2>1. TypeOK'
    BY <1>1, <1>3 DEF TypeOK, Notify, meVars, host, result, faults
  <2>2. Fits'
    BY <1>1, <1>3, FitsSame DEF Notify, host, result
  <2> QED
    BY <2>1, <2>2 DEF Bounds
<1>4. ASSUME UNCHANGED vars PROVE Bounds'
  <2>1. UNCHANGED <<queue, irq, todo, off, awake, down, hpc, size, elapsed, first,
                    addr, buf, hdr, word, log, taken, slow, dropped, ahead>>
    BY <1>4 DEF vars, meVars, host, result, faults
  <2>2. TypeOK'
    BY <1>1, <2>1 DEF TypeOK
  <2>3. Fits'
    BY <1>1, <2>1, FitsSame
  <2> QED
    BY <2>2, <2>3 DEF Bounds
<1> QED
  BY <1>2, <1>3, <1>4, ReadMsgBounds, MeBounds, ResetTypes DEF Next

-----------------------------------------------------------------------------
(* A step that leaves the types and the bound, and after which the host    *)
(* still reads what the ME wrote.                                          *)
Steady == TypeOK' /\ Fits' /\ ~ahead'

(* What is read then is the dword on top of the buffer.                    *)
LEMMA Fetched ==
  ASSUME NEW d, d \in Window, Fetch, ~ahead'
  PROVE  queue # <<>> /\ d = Head(queue) /\ queue' = Tail(queue)
<1>1. ~Astray
  BY DEF Fetch
<1>2. queue # <<>>
  BY <1>1 DEF Astray
<1>3. d = Head(queue)
  BY <1>1 DEF Window
<1>4. queue' = Tail(queue)
  BY <1>1 DEF Fetch
<1> QED
  BY <1>2, <1>3, <1>4

(* The dword on top of the buffer.                                         *)
LEMMA Front ==
  ASSUME Inv, queue # <<>>
  PROVE  LET p == Head(queue) IN
           /\ ~down /\ Stream # <<>> /\ Stream[1] = p
           /\ Tail(queue) \in Seq(Place) /\ Tail(queue) \o todo = Tail(Stream)
           /\ p \in Place /\ Valid(p, log)
           /\ Chained(Tail(Stream), log, MePlace)
           /\ After(p, Tail(Stream), MePlace)
<1>1. queue \in Seq(Place) /\ todo \in Seq(Place) /\ Stream \in Seq(Place)
  BY Typed DEF Inv, TypeOK
<1>2. ~down /\ Chained(Stream, log, MePlace)
  BY DEF Inv, MeInv
<1>3. /\ Stream # <<>> /\ Stream[1] = Head(queue)
      /\ Tail(queue) \o todo = Tail(Stream)
  BY <1>1, Pop DEF Stream
<1>4. Tail(queue) \in Seq(Place) /\ Head(queue) \in Place
  BY <1>1, TailItems
<1>5. /\ Valid(Stream[1], log) /\ Chained(Tail(Stream), log, MePlace)
      /\ After(Stream[1], Tail(Stream), MePlace)
  BY <1>1, <1>2, <1>3, ChainTail
<1> QED
  BY <1>2, <1>3, <1>4, <1>5

(* After the last dword of a fragment comes a header.                      *)
LEMMA AfterEnds ==
  ASSUME NEW p \in Place, NEW s, NEW place, NEW t,
         After([p EXCEPT !.word = Words(p.len)], s, place)
  PROVE  /\ s # <<>> => s[1].word = 0 /\ Begin(s[1]) = End(p)
         /\ Floor(t, End(p)) => Starts(s, t, place)
<1> DEFINE q == [p EXCEPT !.word = Words(p.len)]
<1>1. p.len \in Nat /\ Words(p.len) \in Nat
  BY PlaceTypes, WordsNat
<1>2. q.word = Words(p.len) /\ q.len = p.len /\ End(q) = End(p)
  BY <1>1, WordPlace
<1>3. ~(q.word < Words(q.len))
  BY <1>1, <1>2
<1>4. After(q, s, place)
  OBVIOUS
<1> HIDE DEF q
<1>5. CASE s = <<>>
  BY <1>2, <1>4, <1>5 DEF After, Ends, Starts
<1>6. CASE s # <<>>
  BY <1>2, <1>3, <1>4, <1>6 DEF After, Follows, Starts
<1> QED
  BY <1>5, <1>6

(* The ME's next fragment comes where the stream ends.                     *)
LEMMA StreamGrows ==
  ASSUME NEW q \in Seq(Place), NEW u \in Seq(Place), u # <<>>, NEW place,
         NEW place2, NEW t, u[1].word = 0, Begin(u[1]) = place
  PROVE  /\ Starts(q, t, place) => Starts(q \o u, t, place2)
         /\ \A p \in Place : After(p, q, place) => After(p, q \o u, place2)
<1> DEFINE s == q \o u
<1>1. /\ s \in Seq(Place) /\ Len(s) = Len(q) + Len(u)
      /\ \A i \in 1 .. Len(q) : s[i] = q[i]
      /\ \A i \in 1 .. Len(u) : s[Len(q) + i] = u[i]
  BY ConcatItems
<1> HIDE DEF s
<1>2. /\ Len(q) \in Nat /\ Len(u) \in Nat /\ Len(u) >= 1
      /\ (q = <<>>) = (Len(q) = 0)
  BY NoItems
<1>3. s # <<>>
  BY <1>1, <1>2, NoItems
<1>4. CASE q = <<>>
  <2>1. Len(q) + 1 = 1 /\ 1 \in 1 .. Len(u)
    BY <1>2, <1>4
  <2>2. s[1] = u[1]
    BY <1>1, <2>1
  <2>3. Starts(q, t, place) => Starts(s, t, place2)
    BY <1>3, <1>4, <2>2 DEF Starts
  <2>4. ASSUME NEW p \in Place, After(p, q, place) PROVE After(p, s, place2)
    <3>1. p.word = Words(p.len) /\ End(p) = place
      BY <1>4, <2>4 DEF After, Ends
    <3>2. p.word \in Nat
      BY PlaceTypes
    <3>3. ~(p.word < Words(p.len))
      BY <3>1, <3>2
    <3> QED
      BY <1>3, <2>2, <3>1, <3>3 DEF After, Follows
  <2> QED
    BY <2>3, <2>4 DEF s
<1>5. CASE q # <<>>
  <2>1. 1 \in 1 .. Len(q)
    BY <1>2, <1>5
  <2>2. s[1] = q[1]
    BY <1>1, <2>1
  <2>3. Starts(q, t, place) => Starts(s, t, place2)
    BY <1>3, <1>5, <2>2 DEF Starts
  <2>4. \A p : After(p, q, place) => After(p, s, place2)
    BY <1>3, <1>5, <2>2 DEF After
  <2> QED
    BY <2>3, <2>4 DEF s
<1> QED
  BY <1>4, <1>5

(* The fragment under way, and that something of it was read at its end.   *)
LEMMA UnderWay ==
  ASSUME Inv, Reading
  PROVE  /\ hdr \in Place /\ Valid(hdr, log) /\ Length(hdr) = hdr.len
         /\ Complete(hdr) = hdr.complete
         /\ hdr.len \in Nat /\ Words(hdr.len) \in Nat /\ Words(hdr.len) # 0
         /\ word \in Nat /\ word <= Words(hdr.len)
         /\ log[hdr.msg].addr \in Addrs
         /\ Floor(taken, End(hdr))
         /\ word = Words(hdr.len) =>
              /\ down \/ Starts(Stream, taken, MePlace)
              /\ down \/ After([hdr EXCEPT !.word = Words(hdr.len)], Stream, MePlace)
              /\ hpc # "drain" => buf # <<>>
<1>1. TypeOK /\ Current /\ Collected
  BY DEF Inv
<1>2. /\ Valid(hdr, log) /\ hdr.word = 0 /\ word <= Words(hdr.len)
      /\ down \/ After([hdr EXCEPT !.word = word], Stream, MePlace)
      /\ Floor(taken, End(hdr))
  BY <1>1 DEF Current
<1>3. hdr \in Place /\ word \in Nat
  BY <1>1 DEF TypeOK
<1>4. hdr.len \in Nat /\ hdr.len # 0 /\ hdr.complete \in BOOLEAN
  BY <1>2, <1>3, PlaceTypes DEF Valid
<1>5. Words(hdr.len) \in Nat /\ Words(hdr.len) # 0
  BY <1>4, WordsNat
<1>6. log[hdr.msg].addr \in Addrs
  BY <1>1, <1>2, LogItems DEF Valid
<1>7. Length(hdr) = hdr.len
  BY <1>2 DEF Length
<1>8. Complete(hdr) = hdr.complete
  BY <1>2, <1>4 DEF Complete
<1>9. ASSUME word = Words(hdr.len)
      PROVE  /\ down \/ Starts(Stream, taken, MePlace)
             /\ down \/ After([hdr EXCEPT !.word = Words(hdr.len)], Stream, MePlace)
             /\ hpc # "drain" => buf # <<>>
  <2>1. down \/ After([hdr EXCEPT !.word = Words(hdr.len)], Stream, MePlace)
    BY <1>2, <1>9
  <2>2. down \/ Starts(Stream, taken, MePlace)
    BY <1>2, <1>3, <2>1, AfterEnds
  <2>3. hpc # "drain" => buf # <<>>
    BY <1>1, <1>5, <1>9 DEF Collected, Collects
  <2> QED
    BY <2>1, <2>2, <2>3
<1> QED
  BY <1>2, <1>3, <1>4, <1>5, <1>6, <1>7, <1>8, <1>9

-----------------------------------------------------------------------------
(* The invariant holds at the beginning and after a reset.                 *)
LEMMA EmptyInv ==
  ASSUME NEW place
  PROVE  /\ Chained(<<>> \o <<>>, <<>>, place) /\ Chained(<<>>, <<>>, place)
         /\ Starts(<<>> \o <<>>, <<>>, place) /\ Pieces(<<>>, <<>>)
<1>1. <<>> \o <<>> = <<>>
  OBVIOUS
<1>2. Chained(<<>>, <<>>, place) /\ Starts(<<>>, <<>>, place) /\ Pieces(<<>>, <<>>)
  BY DEF Chained, Starts, Floor, Pieces
<1> QED
  BY <1>1, <1>2

LEMMA InitInv == Init => Inv
<1> SUFFICES ASSUME Init
             PROVE  Inv
  OBVIOUS
<1>1. TypeOK
  <2>1. hdr \in Place
    BY DEF Init, Place
  <2>2. /\ queue \in Seq(Place) /\ todo \in Seq(Place) /\ buf \in Seq(Byte)
        /\ log \in Seq([addr : Addrs, len : Lengths])
        /\ taken \in Seq([addr : Addrs \cup {{}}, bytes : Seq(Byte)])
    BY DEF Init
  <2>3. elapsed \in 0 .. Polls
    BY ReadAssumption DEF Init
  <2>4. irq \in BOOLEAN /\ awake \in BOOLEAN /\ down \in BOOLEAN
        /\ first \in BOOLEAN
    BY DEF Init
  <2>5. slow \in BOOLEAN /\ dropped \in BOOLEAN /\ ahead \in BOOLEAN
    BY DEF Init
  <2>6. off \in Nat /\ size \in Nat /\ word \in Nat /\ addr \in Addrs \cup {{}}
        /\ hpc = "idle"
    BY DEF Init
  <2> QED
    BY <2>1, <2>2, <2>3, <2>4, <2>5, <2>6 DEF TypeOK
<1>2. MeInv
  BY EmptyInv DEF Init, MeInv, Stream, MsgLen
<1>3. Aligned
  BY EmptyInv DEF Init, Aligned, Stream
<1>4. Pieces(taken, log)
  BY EmptyInv DEF Init
<1>5. Current /\ Collected /\ Fits /\ ~ahead
  BY DEF Init, Current, Collected, Fits, Reading
<1> QED
  BY <1>1, <1>2, <1>3, <1>4, <1>5 DEF Inv

LEMMA ResetInv == Steady /\ Reset => Inv'
<1> SUFFICES ASSUME Steady, Reset
             PROVE  Inv'
  OBVIOUS
<1>1. TypeOK' /\ Fits' /\ ~ahead'
  BY DEF Steady
<1>2. MeInv'
  BY EmptyInv DEF Reset, MeInv, Stream, MsgLen
<1>3. Aligned'
  BY EmptyInv DEF Reset, Aligned, Stream, host, result
<1>4. Pieces(taken, log)'
  BY EmptyInv DEF Reset
<1>5. Current' /\ Collected'
  BY DEF Reset, Current, Collected, Reading, host, result
<1> QED
  BY <1>1, <1>2, <1>3, <1>4, <1>5 DEF Inv

(* What the invariant is about stays as it is.                             *)
LEMMA Same ==
  ASSUME Inv, Steady, Stream' = Stream, down' => queue' = <<>> /\ todo' = <<>>,
         UNCHANGED <<off, down, hpc, first, addr, buf, hdr, word, log, taken>>
  PROVE  Inv'
<1>1. MePlace' = MePlace /\ MsgLen' = MsgLen
  BY DEF MePlace, MsgLen
<1>2. MeInv'
  BY <1>1 DEF Inv, MeInv
<1>3. Aligned'
  BY <1>1 DEF Inv, Aligned, Resting
<1>4. Current' /\ Collected'
  BY <1>1 DEF Inv, Current, Collected, Reading
<1>5. Pieces(taken, log)'
  BY DEF Inv
<1> QED
  BY <1>2, <1>3, <1>4, <1>5 DEF Inv, Steady

LEMMA QuietInv ==
  Inv /\ Steady /\ (PollEmpty \/ MeWait \/ MeWake \/ MeWrite \/ Notify) => Inv'
<1> SUFFICES ASSUME Inv, Steady
             PROVE  PollEmpty \/ MeWait \/ MeWake \/ MeWrite \/ Notify => Inv'
  OBVIOUS
<1>1. TypeOK /\ (down => queue = <<>> /\ todo = <<>>)
  BY DEF Inv, MeInv
<1>2. ASSUME PollEmpty PROVE Inv'
  BY <1>1, <1>2, Same DEF PollEmpty, meVars, result, Stream
<1>3. ASSUME MeWait PROVE Inv'
  BY <1>1, <1>3, Same DEF MeWait, host, result, Stream
<1>4. ASSUME MeWake PROVE Inv'
  BY <1>1, <1>4, Same DEF MeWake, host, result, Stream
<1>5. ASSUME MeWrite PROVE Inv'
  <2>1. queue \in Seq(Place) /\ todo \in Seq(Place) /\ todo # <<>>
    BY <1>1, <1>5 DEF TypeOK, MeWrite
  <2>2. Stream' = Stream
    BY <1>5, <2>1, Push DEF MeWrite, Stream
  <2> QED
    BY <1>1, <1>5, <2>2, Same DEF MeWrite, host, result
<1>6. ASSUME Notify PROVE Inv'
  BY <1>1, <1>6, Same DEF Notify, meVars, host, result, Stream
<1> QED
  BY <1>2, <1>3, <1>4, <1>5, <1>6

-----------------------------------------------------------------------------
(* The ME goes on.                                                         *)
LEMMA MeDownInv == Inv /\ Steady /\ MeDown => Inv'
<1> SUFFICES ASSUME Inv, Steady, MeDown
             PROVE  Inv'
  OBVIOUS
<1>1. /\ queue' = <<>> /\ todo' = <<>> /\ down' = TRUE
      /\ UNCHANGED <<irq, off, awake, hpc, size, elapsed, first, addr, buf, hdr,
                     word, log, taken, slow, dropped, ahead>>
  BY DEF MeDown, host, result, faults
<1>2. TypeOK' /\ Fits' /\ ~ahead'
  BY DEF Steady
<1>3. Stream' = <<>>
  BY <1>1 DEF Stream
<1>4. MeInv'
  <2>1. MsgLen' = MsgLen
    BY <1>1 DEF MsgLen
  <2> QED
    BY <1>1, <1>3, <2>1 DEF Inv, MeInv, Chained
<1>5. Aligned' /\ Current'
  BY <1>1 DEF Inv, Aligned, Resting, Current, Reading
<1>6. Collected' /\ Pieces(taken, log)'
  BY <1>1 DEF Inv, Collected, Reading
<1> QED
  BY <1>2, <1>4, <1>5, <1>6 DEF Inv

LEMMA MeBeginInv ==
  ASSUME Inv, Steady, NEW a \in Addrs, NEW n \in Lengths, MeBegin(a, n)
  PROVE  Inv'
<1> DEFINE E == [addr : Addrs, len : Lengths]
           e == [addr |-> a, len |-> n]
<1>1. /\ log' = Append(log, e) /\ off' = 0 /\ off = MsgLen
      /\ UNCHANGED <<queue, irq, todo, awake, down, hpc, size, elapsed, first,
                     addr, buf, hdr, word, taken, slow, dropped, ahead>>
  BY DEF MeBegin, host, result, faults
<1>2. TypeOK /\ log \in Seq(E) /\ e \in E
  BY DEF Inv, TypeOK
<1>3. n \in Nat /\ n # 0 /\ e.len = n
  BY ReadAssumption
<1> HIDE DEF E, e
<1>4. /\ log' \in Seq(E) /\ Len(log') = Len(log) + 1 /\ log' # <<>>
      /\ \A m \in 1 .. Len(log) : log'[m] = log[m]
      /\ log'[Len(log) + 1] = e /\ Len(log) \in Nat
  BY <1>1, <1>2, AppendItems, NoItems
<1>5. TypeOK' /\ Fits' /\ ~ahead'
  BY DEF Steady
<1>6. Stream' = Stream
  BY <1>1 DEF Stream
<1>7. MsgLen' = n
  BY <1>3, <1>4 DEF MsgLen
<1>8. MePlace' = MePlace
  BY <1>1, <1>3, <1>4, <1>7 DEF MePlace
<1>9. /\ \A p : Valid(p, log) => Valid(p, log') /\ log'[p.msg] = log[p.msg]
      /\ \A s, place : Chained(s, log, place) => Chained(s, log', place)
      /\ \A t : Pieces(t, log) => Pieces(t, log')
  <2>1. Len(log') \in Nat /\ Len(log) <= Len(log')
    BY <1>4
  <2> QED
    BY <1>4, <2>1, ValidStays
<1>10. MeInv'
  BY <1>1, <1>3, <1>6, <1>7, <1>8, <1>9 DEF Inv, MeInv
<1>11. Aligned'
  BY <1>1, <1>6, <1>8 DEF Inv, Aligned, Resting
<1>12. Current'
  BY <1>1, <1>6, <1>8, <1>9 DEF Inv, Current, Reading
<1>13. Collected'
  BY <1>1, <1>9 DEF Inv, Collected, Current, Reading
<1>14. Pieces(taken, log)'
  BY <1>1, <1>9 DEF Inv
<1> QED
  BY <1>5, <1>10, <1>11, <1>12, <1>13, <1>14 DEF Inv

LEMMA MeFragmentInv ==
  ASSUME Inv, Steady, NEW n \in Frags, MeFragment(n)
  PROVE  Inv'
<1> DEFINE f == Fragment(n)
           u == Dwords(f)
           place == IF off + f = MsgLen THEN <<Len(log) + 1, 0>>
                    ELSE <<Len(log), off + f>>
<1>1. /\ todo' = u /\ off' = off + f /\ todo = <<>> /\ off < MsgLen /\ ~down
      /\ UNCHANGED <<queue, irq, awake, down, hpc, size, elapsed, first, addr, buf,
                     hdr, word, log, taken, slow, dropped, ahead>>
  BY DEF MeFragment, host, result, faults
<1>2. TypeOK /\ off \in Nat /\ MsgLen \in Nat
  BY Typed DEF Inv, TypeOK
<1>3. f \in Nat /\ f # 0 /\ off + f <= MsgLen
  <2>1. n \in Nat /\ n # 0
    BY ReadAssumption
  <2> QED
    BY <1>1, <1>2, <2>1 DEF Fragment, Least
<1> HIDE DEF f
<1>4. /\ u \in Seq(Place) /\ u # <<>> /\ u[1].word = 0
      /\ Begin(u[1]) = MePlace /\ Chained(u, log, place)
  <2>1. MePlace = <<Len(log), off>>
    BY <1>1, <1>2 DEF MePlace
  <2> QED
    BY <1>1, <1>2, <1>3, <2>1, FragmentChain
<1>5. MsgLen' = MsgLen /\ MePlace' = place
  BY <1>1 DEF MePlace, MsgLen
<1> HIDE DEF u, place
<1>6. queue \in Seq(Place) /\ Stream = queue /\ Stream' = queue \o u
  <2>1. queue \in Seq(Place)
    BY <1>2 DEF TypeOK
  <2>2. queue \o <<>> = queue
    BY <2>1
  <2> QED
    BY <1>1, <2>1, <2>2 DEF Stream
<1>7. TypeOK' /\ Fits' /\ ~ahead'
  BY DEF Steady
<1>8. /\ \A t : Starts(queue, t, MePlace) => Starts(queue \o u, t, place)
      /\ \A p \in Place : After(p, queue, MePlace) => After(p, queue \o u, place)
  BY <1>4, <1>6, StreamGrows
<1>9. MeInv'
  <2>1. Chained(queue, log, MePlace)
    BY <1>6 DEF Inv, MeInv
  <2>2. Chained(queue \o u, log, place)
    BY <1>4, <1>6, <2>1, ChainConcat
  <2> QED
    BY <1>1, <1>3, <1>5, <1>6, <2>2 DEF Inv, MeInv
<1>10. Aligned'
  BY <1>1, <1>5, <1>6, <1>8 DEF Inv, Aligned, Resting
<1>11. Current'
  <2>1. [hdr EXCEPT !.word = word] \in Place
    BY <1>2, WordPlace DEF TypeOK
  <2> QED
    BY <1>1, <1>5, <1>6, <1>8, <2>1 DEF Inv, Current, Reading
<1>12. Collected' /\ Pieces(taken, log)'
  BY <1>1 DEF Inv, Collected, Reading
<1> QED
  BY <1>7, <1>9, <1>10, <1>11, <1>12 DEF Inv

-----------------------------------------------------------------------------
(* read_msg.                                                               *)
LEMMA StartReadInv ==
  ASSUME Inv, Steady, NEW n \in Sizes, StartRead(n)
  PROVE  Inv'
<1>1. /\ hpc = "idle" /\ hpc' = "poll" /\ size' = n /\ elapsed' = 0
      /\ first' = TRUE /\ buf' = <<>>
      /\ UNCHANGED <<queue, irq, todo, off, awake, down, addr, hdr, word, log,
                     taken, slow, dropped, ahead>>
  BY DEF StartRead, meVars, faults
<1>2. Stream' = Stream /\ MsgLen' = MsgLen /\ MePlace' = MePlace
  BY <1>1 DEF Stream, MsgLen, MePlace
<1>3. TypeOK' /\ Fits' /\ ~ahead'
  BY DEF Steady
<1>4. MeInv'
  BY <1>1, <1>2 DEF Inv, MeInv
<1>5. Aligned'
  BY <1>1, <1>2 DEF Inv, Aligned, Resting
<1>6. Current' /\ Collected'
  BY <1>1 DEF Current, Collected, Reading
<1>7. Pieces(taken, log)'
  BY <1>1 DEF Inv
<1> QED
  BY <1>3, <1>4, <1>5, <1>6, <1>7 DEF Inv

(* What was read of a message when the wait for its next fragment is over, *)
(* or when its last one has been read.                                     *)
LEMMA TakeKeeps ==
  ASSUME Inv, Reading, hpc # "drain", word = Words(hdr.len), Take
  PROVE  /\ taken' \in Seq(Returns) /\ Pieces(taken', log)
         /\ down \/ Starts(Stream, taken', MePlace)
<1>1. /\ hdr \in Place /\ Valid(hdr, log) /\ log[hdr.msg].addr \in Addrs
      /\ buf # <<>>
      /\ down \/ After([hdr EXCEPT !.word = Words(hdr.len)], Stream, MePlace)
  BY UnderWay
<1>2. TypeOK /\ Pieces(taken, log) /\ buf \in Seq(Byte) /\ addr \in Addrs \cup {{}}
  BY DEF Inv, TypeOK
<1>3. taken \in Seq(Returns)
  BY <1>2, Typed
<1>4. addr = log[hdr.msg].addr /\ Collects(buf, hdr, Words(hdr.len), taken)
  BY DEF Inv, Collected
<1>5. taken' = Append(taken, [addr |-> addr, bytes |-> buf])
  BY DEF Take, Inv
<1>6. taken' \in Seq(Returns) /\ Pieces(taken', log) /\ Floor(taken', End(hdr))
  BY <1>1, <1>2, <1>3, <1>4, <1>5, TakePiece
<1>7. down \/ Starts(Stream, taken', MePlace)
  BY <1>1, <1>6, AfterEnds
<1> QED
  BY <1>6, <1>7

LEMMA PollFoundInv == Inv /\ Steady /\ PollFound => Inv'
<1> SUFFICES ASSUME Inv, Steady, PollFound
             PROVE  Inv'
  OBVIOUS
<1>1. /\ hpc = "poll" /\ hpc' = "header"
      /\ UNCHANGED <<queue, irq, todo, off, awake, down, size, elapsed, first, addr,
                     buf, hdr, word, log, taken, slow, dropped, ahead>>
  BY DEF PollFound, meVars, result, faults
<1>2. Stream' = Stream /\ MsgLen' = MsgLen /\ MePlace' = MePlace
  BY <1>1 DEF Stream, MsgLen, MePlace
<1>3. TypeOK' /\ Fits' /\ ~ahead'
  BY DEF Steady
<1>4. MeInv' /\ Pieces(taken, log)'
  BY <1>1, <1>2 DEF Inv, MeInv
<1>5. Aligned' /\ Current'
  BY <1>1, <1>2 DEF Inv, Aligned, Resting, Current, Reading
<1>6. Collected'
  BY <1>1 DEF Inv, Collected, Reading
<1> QED
  BY <1>3, <1>4, <1>5, <1>6 DEF Inv

LEMMA TimeoutInv == Inv /\ Steady /\ Timeout => Inv'
<1> SUFFICES ASSUME Inv, Steady, Timeout
             PROVE  Inv'
  OBVIOUS
<1>1. /\ hpc = "poll" /\ hpc' = "idle"
      /\ IF buf # <<>> THEN Take ELSE taken' = taken
      /\ UNCHANGED <<queue, irq, todo, off, awake, down, size, elapsed, first, addr,
                     buf, hdr, word, log, slow, dropped, ahead>>
  BY DEF Timeout, meVars, result, faults
<1>2. Stream' = Stream /\ MsgLen' = MsgLen /\ MePlace' = MePlace
  BY <1>1 DEF Stream, MsgLen, MePlace
<1>3. TypeOK /\ Pieces(taken, log) /\ taken \in Seq(Returns)
  BY Typed DEF Inv
<1>4. /\ taken' \in Seq(Returns) /\ Pieces(taken', log)
      /\ down \/ Starts(Stream, taken', MePlace)
  <2>1. CASE first
    <3>1. Resting
      BY <1>1, <2>1 DEF Resting
    <3>2. buf = <<>> /\ (down \/ Starts(Stream, taken, MePlace))
      BY <1>1, <3>1 DEF Inv, Aligned
    <3> QED
      BY <1>1, <1>3, <3>2
  <2>2. CASE ~first
    <3>1. Reading
      BY <1>1, <2>2 DEF Reading
    <3>2. word = Words(hdr.len)
      BY <1>1, <3>1 DEF Inv, Current
    <3>3. buf # <<>>
      BY <1>1, <3>1, <3>2, UnderWay
    <3> QED
      BY <1>1, <3>1, <3>2, <3>3, TakeKeeps
  <2> QED
    BY <1>3, <2>1, <2>2 DEF TypeOK
<1>5. TypeOK' /\ Fits' /\ ~ahead'
  BY DEF Steady
<1>6. MeInv'
  BY <1>1, <1>2 DEF Inv, MeInv
<1>7. Aligned' /\ Pieces(taken, log)'
  BY <1>1, <1>2, <1>4 DEF Aligned
<1>8. Current' /\ Collected'
  BY <1>1 DEF Current, Collected, Reading
<1> QED
  BY <1>5, <1>6, <1>7, <1>8 DEF Inv

LEMMA ReadHeaderInv ==
  ASSUME Inv, Steady, NEW d \in Window, ReadHeader(d)
  PROVE  Inv'
<1> DEFINE p == Head(queue)
<1>0. queue # <<>> /\ d = p /\ queue' = Tail(queue)
  BY Fetched DEF ReadHeader, Steady
<1>1. /\ hpc = "header" /\ queue # <<>> /\ queue' = Tail(queue) /\ hdr' = p
      /\ word' = 0 /\ first' = FALSE
      /\ addr' = IF first THEN Addr(p) ELSE addr
      /\ hpc' = IF Len(buf) + Length(p) > size THEN "drain" ELSE "payload"
      /\ UNCHANGED <<irq, todo, off, awake, down, size, elapsed, buf, log, taken,
                     slow, dropped>>
  BY <1>0 DEF ReadHeader, meVars
<1>2. TypeOK /\ Pieces(taken, log) /\ taken \in Seq(Returns) /\ MePlace \in Byte
  BY Typed DEF Inv
<1>3. /\ ~down /\ Stream # <<>> /\ Stream[1] = p
      /\ queue' \in Seq(Place) /\ Stream' = Tail(Stream)
      /\ p \in Place /\ Valid(p, log)
      /\ Chained(Tail(Stream), log, MePlace)
      /\ After(p, Tail(Stream), MePlace)
  BY <1>1, Front DEF Stream
<1> HIDE DEF p
<1>4. MsgLen' = MsgLen /\ MePlace' = MePlace
  BY <1>1 DEF MsgLen, MePlace
<1>5. /\ p.word = 0 /\ Floor(taken, Begin(p)) /\ addr' = log[p.msg].addr
      /\ Collects(buf, p, 0, taken)
  <2>1. CASE first
    <3>1. Resting
      BY <1>1, <2>1 DEF Resting
    <3>2. buf = <<>> /\ Starts(Stream, taken, MePlace)
      BY <1>1, <1>3, <3>1 DEF Inv, Aligned
    <3>3. p.word = 0 /\ Floor(taken, Begin(p))
      BY <1>3, <3>2 DEF Starts
    <3>4. addr' = log[p.msg].addr
      BY <1>1, <1>3, <2>1, <3>3 DEF Addr, Valid
    <3>5. Collects(buf, p, 0, taken)
      BY <3>2, <3>3 DEF Collects
    <3> QED
      BY <3>3, <3>4, <3>5
  <2>2. CASE ~first
    <3>1. Reading
      BY <1>1, <2>2 DEF Reading
    <3>2. word = Words(hdr.len) /\ ~hdr.complete
      BY <1>1, <3>1 DEF Inv, Current
    <3>3. /\ hdr \in Place /\ Floor(taken, End(hdr)) /\ buf # <<>>
          /\ After([hdr EXCEPT !.word = Words(hdr.len)], Stream, MePlace)
      BY <1>1, <1>3, <3>1, <3>2, UnderWay
    <3>4. p.word = 0 /\ Begin(p) = End(hdr)
      BY <1>3, <3>3, AfterEnds
    <3>5. /\ addr = log[hdr.msg].addr
          /\ Collects(buf, hdr, Words(hdr.len), taken)
      BY <1>1, <3>1, <3>2 DEF Inv, Collected
    <3>6. buf \in Seq(Byte)
      BY <1>2 DEF TypeOK
    <3>7. Collects(buf, p, 0, taken) /\ p.msg = hdr.msg
      <4>1. p \in Place /\ hdr \in Place /\ buf # <<>> /\ ~hdr.complete
        BY <1>3, <3>2, <3>3
      <4>2. Collects(buf, hdr, Words(hdr.len), taken) /\ Begin(p) = End(hdr)
        BY <3>4, <3>5
      <4>3. Collects(buf, p, 0, taken)
        BY <3>6, <4>1, <4>2, CollectsNext
      <4>4. p.msg = hdr.msg
        BY <3>6, <4>1, <4>2, CollectsNext
      <4> QED
        BY <4>3, <4>4
    <3>8. addr' = log[p.msg].addr
      BY <1>1, <2>2, <3>5, <3>7
    <3> QED
      BY <3>3, <3>4, <3>7, <3>8
  <2> QED
    BY <1>2, <2>1, <2>2 DEF TypeOK
<1>6. p.len \in Nat /\ Length(p) = p.len /\ Words(p.len) \in Nat
  BY <1>3, <1>5, PlaceTypes, WordsNat DEF Length
<1>7. TypeOK' /\ Fits' /\ ~ahead'
  BY DEF Steady
<1>8. MeInv'
  BY <1>1, <1>3, <1>4 DEF Inv, MeInv
<1>9. Aligned'
  BY <1>1 DEF Aligned, Resting
<1>10. Current'
  <2>1. [p EXCEPT !.word = 0] = p
    <3>1. p \in Place /\ p.word = 0
      BY <1>3, <1>5
    <3> QED
      BY <3>1, HeaderPlace
  <2>2. Before(Begin(p), End(p)) /\ Begin(p) \in Byte /\ End(p) \in Byte
    BY <1>3, BeginBeforeEnd, PlaceTypes
  <2>3. Floor(taken, End(p))
    BY <1>2, <1>5, <2>2, FloorUp
  <2> QED
    BY <1>1, <1>3, <1>4, <1>5, <1>6, <2>1, <2>3 DEF Current
<1>11. Collected'
  BY <1>1, <1>5 DEF Collected
<1>12. Pieces(taken, log)'
  BY <1>1, <1>2
<1> QED
  BY <1>7, <1>8, <1>9, <1>10, <1>11, <1>12 DEF Inv

(* The next payload dword is on top of the buffer.                         *)
LEMMA NextWord ==
  ASSUME Inv, hpc \in {"payload", "drain"}, MoreWords, queue # <<>>,
         queue' = Tail(queue), word' = word + 1,
         UNCHANGED <<todo, off, down, hpc, first, hdr, log, taken>>
  PROVE  /\ queue' \in Seq(Place) /\ word' \in Nat
         /\ hdr \in Place /\ word \in Nat /\ word < Words(hdr.len)
         /\ Length(hdr) = hdr.len
         /\ Head(queue) = [hdr EXCEPT !.word = word + 1]
         /\ MeInv' /\ Aligned' /\ Current'
<1> DEFINE p == Head(queue)
           q == [hdr EXCEPT !.word = word]
<1>1. Reading
  BY DEF Reading
<1>2. /\ hdr \in Place /\ Length(hdr) = hdr.len /\ word \in Nat
      /\ Words(hdr.len) \in Nat /\ Floor(taken, End(hdr))
      /\ Valid(hdr, log)
  BY <1>1, UnderWay
<1>3. word < Words(hdr.len) /\ word + 1 <= Words(hdr.len) /\ word + 1 \in Nat
  BY <1>2 DEF MoreWords
<1>4. /\ ~down /\ Stream # <<>> /\ Stream[1] = p
      /\ Tail(queue) \in Seq(Place) /\ Tail(queue) \o todo = Tail(Stream)
      /\ Chained(Tail(Stream), log, MePlace)
      /\ After(p, Tail(Stream), MePlace)
  BY Front
<1>5. Stream' = Tail(Stream) /\ MsgLen' = MsgLen /\ MePlace' = MePlace
  BY <1>4 DEF Stream, MsgLen, MePlace
<1>6. q \in Place /\ q.word = word /\ q.len = hdr.len
  BY <1>2, WordPlace
<1>7. After(q, Stream, MePlace) /\ ~first /\ hdr.word = 0
  BY <1>1, <1>4 DEF Inv, Current
<1>8. [q EXCEPT !.word = word + 1] = [hdr EXCEPT !.word = word + 1]
  OBVIOUS
<1> HIDE DEF p, q
<1>9. p = [hdr EXCEPT !.word = word + 1]
  BY <1>3, <1>4, <1>6, <1>7, <1>8 DEF After, Follows
<1>10. MeInv'
  BY <1>4, <1>5 DEF Inv, MeInv
<1>11. Aligned'
  BY DEF Aligned, Resting
<1>12. Current'
  BY <1>2, <1>3, <1>4, <1>5, <1>7, <1>9 DEF Current
<1> QED
  BY <1>2, <1>3, <1>4, <1>9, <1>10, <1>11, <1>12 DEF p

LEMMA ReadWordInv ==
  ASSUME Inv, Steady, NEW d \in Window, ReadWord(d)
  PROVE  Inv'
<1> DEFINE k == Least(hdr.len - 4 * word, 4)
           piece == SubSeq(Bytes(Head(queue)), 1, k)
<1>0. queue # <<>> /\ d = Head(queue) /\ queue' = Tail(queue)
  BY Fetched DEF ReadWord, Steady
<1>1. /\ hpc = "payload" /\ MoreWords /\ queue # <<>> /\ queue' = Tail(queue)
      /\ word' = word + 1
      /\ buf' = buf \o SubSeq(Bytes(Head(queue)), 1, Least(Length(hdr) - 4 * word, 4))
      /\ UNCHANGED <<irq, todo, off, awake, down, hpc, size, elapsed, first, addr,
                     hdr, log, taken, slow, dropped>>
  BY <1>0 DEF ReadWord, meVars
<1>2. /\ queue' \in Seq(Place) /\ word' \in Nat
      /\ hdr \in Place /\ word \in Nat /\ word < Words(hdr.len)
      /\ Length(hdr) = hdr.len
      /\ Head(queue) = [hdr EXCEPT !.word = word + 1]
      /\ MeInv' /\ Aligned' /\ Current'
  BY <1>1, NextWord
<1>3. buf' = buf \o piece
  BY <1>1, <1>2
<1>4. buf \in Seq(Byte)
  BY DEF Inv, TypeOK
<1>5. Reading
  BY <1>1 DEF Reading
<1>6. Collected'
  <2>1. addr = log[hdr.msg].addr /\ Collects(buf, hdr, word, taken)
    BY <1>1, <1>5 DEF Inv, Collected
  <2>2. Collects(buf', hdr, word + 1, taken)
    BY <1>2, <1>3, <1>4, <2>1, CollectsMore
  <2> QED
    BY <1>1, <2>1, <2>2 DEF Collected
<1>7. Pieces(taken, log)'
  BY <1>1 DEF Inv
<1> QED
  BY <1>2, <1>6, <1>7 DEF Inv, Steady

LEMMA DrainWordInv == Inv /\ Steady /\ DrainWord => Inv'
<1> SUFFICES ASSUME Inv, Steady, DrainWord
             PROVE  Inv'
  OBVIOUS
<1>0. queue # <<>> /\ queue' = Tail(queue)
  <2>1. PICK d \in Window : TRUE
    BY StrayAssumption DEF Window
  <2> QED
    BY <2>1, Fetched DEF DrainWord, Steady
<1>1. /\ hpc = "drain" /\ MoreWords /\ queue # <<>> /\ queue' = Tail(queue)
      /\ word' = word + 1
      /\ UNCHANGED <<irq, todo, off, awake, down, hpc, size, elapsed, first, addr,
                     buf, hdr, log, taken, slow, dropped>>
  BY <1>0 DEF DrainWord, meVars, result
<1>2. queue' \in Seq(Place) /\ word' \in Nat /\ MeInv' /\ Aligned' /\ Current'
  BY <1>1, NextWord
<1>3. TypeOK' /\ Fits' /\ ~ahead'
  BY DEF Steady
<1>4. Collected' /\ Pieces(taken, log)'
  BY <1>1 DEF Inv, Collected, Reading
<1> QED
  BY <1>2, <1>3, <1>4 DEF Inv

(* The host is done with a fragment, whatever it returns of it.            *)
LEMMA EndOfFragment ==
  ASSUME Inv, hpc \in {"payload", "drain"}, ~MoreWords
  PROVE  Reading /\ word = Words(hdr.len) /\ Length(hdr) = hdr.len
<1>1. Reading
  BY DEF Reading
<1>2. /\ Length(hdr) = hdr.len /\ word \in Nat /\ Words(hdr.len) \in Nat
      /\ word <= Words(hdr.len)
  BY <1>1, UnderWay
<1> QED
  BY <1>1, <1>2 DEF MoreWords

LEMMA EndDrainInv == Inv /\ Steady /\ EndDrain => Inv'
<1> SUFFICES ASSUME Inv, Steady, EndDrain
             PROVE  Inv'
  OBVIOUS
<1>1. /\ hpc = "drain" /\ ~MoreWords /\ hpc' = "idle" /\ dropped' = TRUE
      /\ UNCHANGED <<queue, irq, todo, off, awake, down, size, elapsed, first, addr,
                     buf, hdr, word, log, taken, slow, ahead>>
  BY DEF EndDrain, meVars, result
<1>2. Stream' = Stream /\ MsgLen' = MsgLen /\ MePlace' = MePlace
  BY <1>1 DEF Stream, MsgLen, MePlace
<1>3. down \/ Starts(Stream, taken, MePlace)
  BY <1>1, EndOfFragment, UnderWay
<1>4. TypeOK' /\ Fits' /\ ~ahead'
  BY DEF Steady
<1>5. MeInv'
  BY <1>1, <1>2 DEF Inv, MeInv
<1>6. Aligned'
  BY <1>1, <1>2, <1>3 DEF Aligned
<1>7. Current' /\ Collected'
  BY <1>1 DEF Current, Collected, Reading
<1>8. Pieces(taken, log)'
  BY <1>1 DEF Inv
<1> QED
  BY <1>4, <1>5, <1>6, <1>7, <1>8 DEF Inv

LEMMA EndFragmentInv == Inv /\ Steady /\ EndFragment => Inv'
<1> SUFFICES ASSUME Inv, Steady, EndFragment
             PROVE  Inv'
  OBVIOUS
<1>1. /\ hpc = "payload" /\ ~MoreWords /\ irq' = TRUE /\ elapsed' = 0
      /\ IF Complete(hdr) THEN hpc' = "idle" /\ Take
         ELSE hpc' = "poll" /\ taken' = taken
      /\ UNCHANGED <<queue, todo, off, awake, down, size, first, addr, buf, hdr,
                     word, log, slow, dropped, ahead>>
  BY DEF EndFragment, NextFragment, meVars, result, faults
<1>2. Stream' = Stream /\ MsgLen' = MsgLen /\ MePlace' = MePlace
  BY <1>1 DEF Stream, MsgLen, MePlace
<1>3. Reading /\ word = Words(hdr.len)
  BY <1>1, EndOfFragment
<1>4. Complete(hdr) = hdr.complete
  BY <1>3, UnderWay
<1>5. MeInv /\ TypeOK' /\ Fits' /\ ~ahead'
  BY DEF Inv, Steady
<1>6. CASE Complete(hdr)
  <2>1. hpc' = "idle" /\ Take
    BY <1>1, <1>6
  <2>2. /\ taken' \in Seq(Returns) /\ Pieces(taken', log)
        /\ down \/ Starts(Stream, taken', MePlace)
    BY <1>1, <1>3, <2>1, TakeKeeps
  <2>3. MeInv' /\ Aligned' /\ Pieces(taken, log)'
    BY <1>1, <1>2, <1>5, <2>1, <2>2 DEF MeInv, Aligned
  <2>4. Current' /\ Collected'
    BY <2>1 DEF Current, Collected, Reading
  <2> QED
    BY <1>5, <2>3, <2>4 DEF Inv
<1>7. CASE ~Complete(hdr)
  <2>1. hpc' = "poll" /\ taken' = taken
    BY <1>1, <1>7
  <2>2. MeInv'
    BY <1>1, <1>2, <1>5 DEF MeInv
  <2>3. ~first
    BY <1>3 DEF Inv, Current
  <2>4. Aligned'
    BY <1>1, <2>1, <2>3 DEF Aligned, Resting
  <2>5. Current'
    BY <1>1, <1>2, <1>3, <1>4, <1>7, <2>1 DEF Inv, Current
  <2>6. Collected'
    BY <1>1, <1>3, <2>1 DEF Inv, Collected
  <2>7. Pieces(taken, log)'
    BY <1>1, <2>1 DEF Inv
  <2> QED
    BY <1>5, <2>2, <2>4, <2>5, <2>6, <2>7 DEF Inv
<1> QED
  BY <1>6, <1>7

-----------------------------------------------------------------------------
(* A step that reads ahead only loses the order, never the bound.          *)
Safe == Bounds /\ (~ahead => Inv)

LEMMA StepKeeps == Inv /\ Steady /\ [Next]_vars => Inv'
<1> SUFFICES ASSUME Inv, Steady, [Next]_vars
             PROVE  Inv'
  OBVIOUS
<1>1. ASSUME NEW n \in Sizes, StartRead(n) PROVE Inv'
  BY <1>1, StartReadInv
<1>2. CASE ReadMsg
  BY <1>2, QuietInv, PollFoundInv, TimeoutInv, ReadHeaderInv, ReadWordInv,
     DrainWordInv, EndFragmentInv, EndDrainInv DEF ReadMsg
<1>3. CASE ME
  BY <1>3, MeBeginInv, MeFragmentInv, MeDownInv, QuietInv DEF ME
<1>4. CASE Notify
  BY <1>4, QuietInv
<1>5. CASE Reset
  BY <1>5, ResetInv
<1>6. CASE UNCHANGED vars
  <2>1. UNCHANGED <<queue, irq, todo, off, awake, down, hpc, size, elapsed, first,
                    addr, buf, hdr, word, log, taken, slow, dropped, ahead>>
    BY <1>6 DEF vars, meVars, host, result, faults
  <2>2. Stream' = Stream /\ (down' => queue' = <<>> /\ todo' = <<>>)
    BY <2>1 DEF Inv, MeInv, Stream
  <2> QED
    BY <2>1, <2>2, Same
<1> QED
  BY <1>1, <1>2, <1>3, <1>4, <1>5, <1>6 DEF Next

(* Only a reset puts an end to it.                                         *)
LEMMA AheadStays ==
  ASSUME TypeOK, ahead, [Next]_vars, ~Reset
  PROVE  ahead'
<1>1. CASE UNCHANGED vars
  BY <1>1 DEF vars, faults
<1>2. ASSUME NEW n \in Sizes, StartRead(n) PROVE ahead'
  BY <1>2 DEF StartRead, faults
<1>3. ASSUME NEW d \in Window, ReadHeader(d) \/ ReadWord(d) PROVE ahead'
  BY <1>3 DEF ReadHeader, ReadWord, Fetch, Astray
<1>4. CASE PollEmpty \/ PollFound \/ Timeout \/ DrainWord \/ EndFragment \/ EndDrain
  BY <1>4 DEF PollEmpty, PollFound, Timeout, DrainWord, Fetch, Astray, EndFragment,
     NextFragment, EndDrain, faults
<1>5. CASE Notify
  BY <1>5 DEF Notify, faults
<1>6. ~ME
  BY DEF ME
<1> QED
  BY <1>1, <1>2, <1>3, <1>4, <1>5, <1>6 DEF Next, ReadMsg

LEMMA StepSafe == Safe /\ [Next]_vars => Safe'
<1> SUFFICES ASSUME Safe, [Next]_vars
             PROVE  Safe'
  OBVIOUS
<1>1. Bounds'
  BY StepBounds DEF Safe
<1>2. ASSUME ~ahead' PROVE Inv'
  <2>1. Steady
    BY <1>1, <1>2 DEF Steady, Bounds
  <2>2. CASE Reset
    BY <2>1, <2>2, ResetInv
  <2>3. CASE ~Reset
    <3>1. ~ahead
      BY <1>2, <2>3, AheadStays DEF Safe, Bounds
    <3> QED
      BY <2>1, <3>1, StepKeeps DEF Safe
  <2> QED
    BY <2>2, <2>3
<1> QED
  BY <1>1, <1>2 DEF Safe

LEMMA InitSafe == Init => Safe
  BY InitInv DEF Safe, Inv, Bounds

LEMMA SafeHolds == Spec => []Safe
<1>1. Init => Safe
  BY InitSafe
<1>2. Safe /\ [Next]_vars => Safe'
  BY StepSafe
<1> QED
  BY <1>1, <1>2, PTL DEF Spec

(* The variables have their types, and what read_msg reads fits its        *)
(* caller's buffer, also when it is not what the ME wrote.                 *)
THEOREM TypesHold == Spec => []TypeOK
<1>1. Safe => TypeOK
  BY DEF Safe, Bounds
<1> QED
  BY <1>1, SafeHolds, PTL

(* What read_msg returns is one unbroken piece of one message, never of    *)
(* two and never with a hole, and each message returned lies behind the    *)
(* one before it: also after a timeout between two fragments, a message    *)
(* that was too long for its caller's buffer, and a reset of the ME.  It   *)
(* holds until the host reads a payload dword before the ME wrote it, from *)
(* where on the code returns whatever the register does.                   *)
THEOREM OnePieceHolds == Spec => []OnePiece
<1>1. ASSUME Inv PROVE OnePiece
  <2>1. Pieces(taken, log) /\ taken \in Seq(Returns)
    BY <1>1, Typed DEF Inv
  <2>2. Len(taken) \in Nat
    BY <2>1, NoItems
  <2>3. ASSUME NEW k \in 1 .. Len(taken), k > 1
        PROVE  \/ LastByte(k - 1)[1] < taken[k].bytes[1][1]
               \/ /\ LastByte(k - 1)[1] = taken[k].bytes[1][1]
                  /\ LastByte(k - 1)[2] < taken[k].bytes[1][2]
    <3>1. k \in 2 .. Len(taken)
      BY <2>2, <2>3
    <3>2. Before(LastByte(k - 1), taken[k].bytes[1])
      BY <2>1, <3>1 DEF Pieces, LastByte
    <3> QED
      BY <3>2 DEF Before
  <2>4. \A k \in 1 .. Len(taken) : Piece(taken[k], log)
    BY <2>1 DEF Pieces
  <2> QED
    BY <2>3, <2>4 DEF OnePiece, Piece
<1>2. Safe => OnePiece
  BY <1>1 DEF Safe, OnePiece
<1> QED
  BY <1>2, SafeHolds, PTL

-----------------------------------------------------------------------------
(* Whole messages in order.  As long as nothing is late or too long the    *)
(* only thing that could cut a message is the timeout between two of its   *)
(* fragments.  There the ME always has something to write: the fragment    *)
(* before left room for another one (Roomy), and its acknowledgement is an *)
(* interrupt still raised or already taken (Prompt).                       *)

(* Where what comes next begins.                                           *)
Ahead(s, place) == IF s = <<>> THEN place ELSE Begin(s[1])

Fitting(l) == \E n \in Frags : 1 + Words(Least(n, l)) <= Depth

Roomy == off # 0 => Fitting(MsgLen - off)

Between == hpc = "poll" /\ ~first /\ ~down

Prompt ==
  Between => /\ ~slow => elapsed = 0
             /\ Stream = <<>> => irq \/ awake

Smooth == ~slow /\ ~dropped /\ ~down

WholeUpTo(t, lg) ==
  /\ Len(t) <= Len(lg)
  /\ \A n \in 1 .. Len(t) :
       /\ t[n].addr = lg[n].addr
       /\ t[n].bytes = [b \in 1 .. lg[n].len |-> <<n, b - 1>>]

(* The bytes read are the first ones of their message.                     *)
Opens(b, h) == IF b = <<>> THEN h.from = 0 ELSE b[1] = <<h.msg, 0>>

InTurn ==
  Smooth =>
    /\ WholeUpTo(taken, log)
    /\ Resting => Ahead(Stream, MePlace) = <<Len(taken) + 1, 0>>
    /\ Reading => hdr.msg = Len(taken) + 1
    /\ Reading /\ hpc # "drain" => Opens(buf, hdr)


(* What is left of a message gets no longer.                               *)
LEMMA LeftFits ==
  ASSUME NEW l \in Nat, NEW n \in Frags, NEW q \in Nat,
         q + 1 + Words(Least(n, l)) <= Depth
  PROVE  Fitting(l - Least(n, l))
<1> DEFINE f == Least(n, l)
           g == Least(n, l - f)
<1>1. n \in Nat /\ n # 0 /\ Depth \in Nat
  BY ReadAssumption
<1>2. f \in Nat /\ g \in Nat /\ g <= f
  BY <1>1 DEF Least
<1> HIDE DEF f, g
<1>3. Words(f) \in Nat /\ Words(g) \in Nat /\ Words(g) <= Words(f)
  BY <1>2 DEF Words
<1>4. q + 1 + Words(f) <= Depth
  BY DEF f
<1>5. 1 + Words(g) <= Depth
  BY <1>1, <1>3, <1>4
<1> QED
  BY <1>5 DEF Fitting, f, g

LEMMA RoomyStays ==
  ASSUME Roomy, UNCHANGED <<off, log>>
  PROVE  Roomy'
  BY DEF Roomy, MsgLen

(* Between two fragments, with nothing on the way, the ME can go on.       *)
LEMMA MidMessage ==
  ASSUME Inv, Roomy, Between, Stream = <<>>
  PROVE  /\ off < MsgLen /\ todo = <<>> /\ queue = <<>>
         /\ \E n \in Frags : Room(Fragment(n))
<1>1. Reading /\ ~down
  BY DEF Reading, Between
<1>2. word = Words(hdr.len) /\ ~hdr.complete
  BY <1>1 DEF Inv, Current, Between
<1>3. /\ hdr \in Place /\ Valid(hdr, log)
      /\ After([hdr EXCEPT !.word = Words(hdr.len)], Stream, MePlace)
  BY <1>1, <1>2, UnderWay
<1>4. End(hdr) = MePlace
  <2> DEFINE q == [hdr EXCEPT !.word = Words(hdr.len)]
  <2>1. hdr.len \in Nat /\ Words(hdr.len) \in Nat
    BY <1>3, PlaceTypes, WordsNat
  <2>2. End(q) = End(hdr)
    BY <1>3, <2>1, WordPlace
  <2>3. After(q, Stream, MePlace)
    BY <1>3
  <2> HIDE DEF q
  <2> QED
    BY <2>2, <2>3 DEF After, Ends
<1>5. /\ hdr.msg \in Nat /\ hdr.from \in Nat /\ hdr.len \in Nat /\ hdr.len # 0
      /\ hdr.msg \in 1 .. Len(log)
  BY <1>3, PlaceTypes DEF Valid
<1>6. End(hdr) = <<hdr.msg, hdr.from + hdr.len>>
  BY <1>2 DEF End
<1>7. /\ off \in Nat /\ MsgLen \in Nat /\ off <= MsgLen /\ Len(log) \in Nat
      /\ queue \in Seq(Place) /\ todo \in Seq(Place)
  BY Typed, LogItems DEF Inv, MeInv, TypeOK
<1>8. off # MsgLen
  <2>1. off = MsgLen => MePlace = <<Len(log) + 1, 0>>
    BY DEF MePlace
  <2>2. off = MsgLen => hdr.msg = Len(log) + 1
    BY <1>4, <1>6, <2>1
  <2> QED
    BY <1>5, <1>7, <2>2
<1>9. off = hdr.from + hdr.len
  BY <1>4, <1>6, <1>8 DEF MePlace
<1>10. off # 0
  BY <1>5, <1>9
<1>11. queue = <<>> /\ todo = <<>>
  <2>1. Len(Stream) = Len(queue) + Len(todo) /\ Len(Stream) = 0
    BY <1>7, ConcatItems DEF Stream
  <2>2. Len(queue) \in Nat /\ Len(todo) \in Nat
    BY <1>7, NoItems
  <2>3. Len(queue) = 0 /\ Len(todo) = 0
    BY <2>1, <2>2
  <2> QED
    BY <1>7, <2>3, NoItems
<1>12. PICK n \in Frags : 1 + Words(Least(n, MsgLen - off)) <= Depth
  BY <1>10 DEF Roomy, Fitting
<1>13. Room(Fragment(n))
  <2> DEFINE f == Least(n, MsgLen - off)
  <2>1. n \in Nat
    BY ReadAssumption
  <2>2. f \in Nat
    BY <1>7, <2>1 DEF Least
  <2>3. 1 + Words(f) <= Depth
    BY <1>12
  <2>4. Fragment(n) = f
    BY DEF Fragment
  <2> HIDE DEF f
  <2>5. Words(f) \in Nat
    BY <2>2, WordsNat
  <2>6. Len(queue) = 0
    BY <1>11
  <2> QED
    BY <2>3, <2>4, <2>5, <2>6 DEF Room
<1>14. off < MsgLen
  BY <1>7, <1>8
<1> QED
  BY <1>11, <1>13, <1>14

(* What is on the way goes on where it did.                                *)
LEMMA TurnStays ==
  ASSUME InTurn, Smooth' => Smooth, WholeUpTo(taken, log) => WholeUpTo(taken, log'),
         Smooth' /\ Resting' => Ahead(Stream', MePlace') = Ahead(Stream, MePlace),
         UNCHANGED <<hpc, first, buf, hdr, taken>>
  PROVE  InTurn'
<1>1. Resting' = Resting /\ Reading' = Reading
  BY DEF Resting, Reading
<1> QED
  BY <1>1 DEF InTurn

Turns == Roomy /\ Prompt /\ InTurn

LEMMA QuietTurns ==
  ASSUME Inv, Turns, MeWait \/ MeWake \/ MeWrite \/ Notify
  PROVE  Turns'
<1>1. UNCHANGED <<off, down, hpc, size, elapsed, first, addr, buf, hdr, word, log,
                  taken, slow, dropped, ahead>>
  BY DEF MeWait, MeWake, MeWrite, Notify, meVars, host, result, faults
<1>2. Stream' = Stream
  <2>1. CASE MeWrite
    <3>1. queue \in Seq(Place) /\ todo \in Seq(Place) /\ todo # <<>>
      BY <2>1 DEF Inv, TypeOK, MeWrite
    <3> QED
      BY <2>1, <3>1, Push DEF MeWrite, Stream
  <2>2. CASE ~MeWrite
    BY <2>2 DEF MeWait, MeWake, Notify, meVars, Stream
  <2> QED
    BY <2>1, <2>2
<1>3. MePlace' = MePlace
  BY <1>1 DEF MePlace, MsgLen
<1>4. Roomy'
  BY <1>1, RoomyStays DEF Turns
<1>5. Prompt'
  <2> SUFFICES ASSUME Between', Stream = <<>> PROVE irq' \/ awake'
    BY <1>1, <1>2 DEF Turns, Prompt, Between
  <2>1. Between /\ (irq \/ awake)
    BY <1>1 DEF Turns, Prompt, Between
  <2>2. /\ ~MeWait
    <3>1. PICK n \in Frags : Room(Fragment(n))
      BY <2>1, MidMessage DEF Turns
    <3> QED
      BY <3>1 DEF MeWait
  <2> QED
    BY <2>1, <2>2 DEF MeWake, MeWrite, Notify
<1>6. InTurn'
  BY <1>1, <1>2, <1>3, TurnStays DEF Turns, Smooth
<1> QED
  BY <1>4, <1>5, <1>6 DEF Turns

LEMMA PollEmptyTurns ==
  ASSUME Inv, Turns, PollEmpty
  PROVE  Turns'
<1>1. /\ queue = <<>> /\ slow' = (slow \/ MeReady)
      /\ UNCHANGED <<queue, irq, todo, off, awake, down, hpc, size, first, addr, buf,
                     hdr, word, log, taken, dropped, ahead>>
  BY DEF PollEmpty, Astray, Inv, meVars, result
<1>2. Stream' = Stream /\ MePlace' = MePlace
  BY <1>1 DEF Stream, MePlace, MsgLen
<1>3. Roomy'
  BY <1>1, RoomyStays DEF Turns
<1>4. Prompt'
  <2> SUFFICES ASSUME Between PROVE MeReady /\ (Stream = <<>> => irq \/ awake)
    BY <1>1, <1>2 DEF Prompt, Between
  <2>1. Stream = <<>> => irq \/ awake
    BY DEF Turns, Prompt
  <2>2. CASE todo # <<>>
    BY <2>1, <2>2 DEF MeReady
  <2>3. CASE todo = <<>>
    <3>1. Stream = <<>>
      BY <1>1, <2>3 DEF Stream
    <3>2. off < MsgLen /\ \E n \in Frags : Room(Fragment(n))
      BY <3>1, MidMessage DEF Turns
    <3>3. ~down
      BY DEF Between
    <3> QED
      BY <2>1, <3>1, <3>2, <3>3 DEF MeReady
  <2> QED
    BY <2>2, <2>3
<1>5. InTurn'
  <2>1. Smooth' => Smooth
    BY <1>1 DEF Smooth
  <2> QED
    BY <1>1, <1>2, <2>1, TurnStays DEF Turns
<1> QED
  BY <1>3, <1>4, <1>5 DEF Turns

LEMMA PollFoundTurns ==
  ASSUME Turns, PollFound
  PROVE  Turns'
<1>1. /\ hpc = "poll" /\ hpc' = "header"
      /\ UNCHANGED <<queue, todo, off, down, first, buf, hdr, log, taken, slow,
                     dropped>>
  BY DEF PollFound, meVars, result, faults
<1>2. Stream' = Stream /\ MePlace' = MePlace
  BY <1>1 DEF Stream, MePlace, MsgLen
<1>3. Roomy' /\ Prompt'
  BY <1>1, RoomyStays DEF Turns, Prompt, Between
<1>4. Resting' = Resting /\ Reading' = Reading
  BY <1>1 DEF Resting, Reading
<1>5. InTurn'
  BY <1>1, <1>2, <1>4 DEF Turns, InTurn, Smooth
<1> QED
  BY <1>3, <1>5 DEF Turns

LEMMA MeDownTurns ==
  ASSUME Turns, MeDown
  PROVE  Turns'
<1>1. down' = TRUE /\ UNCHANGED <<off, log>>
  BY DEF MeDown
<1>2. Roomy'
  BY <1>1, RoomyStays DEF Turns
<1> QED
  BY <1>1, <1>2 DEF Turns, Prompt, Between, InTurn, Smooth

LEMMA MeBeginTurns ==
  ASSUME Inv, Turns, NEW a \in Addrs, NEW n \in Lengths, MeBegin(a, n)
  PROVE  Turns'
<1> DEFINE E == [addr : Addrs, len : Lengths]
           e == [addr |-> a, len |-> n]
<1>1. /\ log' = Append(log, e) /\ off' = 0 /\ off = MsgLen
      /\ UNCHANGED <<queue, irq, todo, awake, down, hpc, size, elapsed, first,
                     addr, buf, hdr, word, taken, slow, dropped, ahead>>
  BY DEF MeBegin, host, result, faults
<1>2. log \in Seq(E) /\ e \in E
  BY DEF Inv, TypeOK
<1>3. n \in Nat /\ n # 0 /\ e.len = n
  BY ReadAssumption
<1> HIDE DEF E, e
<1>4. /\ Len(log') = Len(log) + 1 /\ log' # <<>>
      /\ \A m \in 1 .. Len(log) : log'[m] = log[m]
      /\ log'[Len(log) + 1] = e /\ Len(log) \in Nat
  BY <1>1, <1>2, AppendItems, NoItems
<1>5. MsgLen' = n
  BY <1>3, <1>4 DEF MsgLen
<1>6. MePlace' = MePlace
  BY <1>1, <1>3, <1>4, <1>5 DEF MePlace
<1>7. Stream' = Stream
  BY <1>1 DEF Stream
<1>8. WholeUpTo(taken, log) => WholeUpTo(taken, log')
  <2> SUFFICES ASSUME WholeUpTo(taken, log) PROVE WholeUpTo(taken, log')
    OBVIOUS
  <2>1. Len(taken) \in Nat /\ Len(taken) <= Len(log)
    BY Typed, NoItems DEF WholeUpTo, Inv
  <2>2. Len(taken) <= Len(log')
    BY <1>4, <2>1
  <2>3. \A m \in 1 .. Len(taken) : log'[m] = log[m]
    BY <1>4, <2>1
  <2> QED
    BY <2>2, <2>3 DEF WholeUpTo
<1>9. InTurn'
  BY <1>1, <1>6, <1>7, <1>8, TurnStays DEF Turns, Smooth
<1> QED
  BY <1>1, <1>7, <1>9 DEF Turns, Roomy, Prompt, Between

LEMMA MeFragmentTurns ==
  ASSUME Inv, Turns, NEW n \in Frags, MeFragment(n)
  PROVE  Turns'
<1> DEFINE f == Fragment(n)
           u == Dwords(f)
<1>1. /\ todo' = u /\ off' = off + f /\ todo = <<>> /\ off < MsgLen
      /\ awake /\ Room(f)
      /\ UNCHANGED <<queue, irq, awake, down, hpc, size, elapsed, first, addr, buf,
                     hdr, word, log, taken, slow, dropped, ahead>>
  BY DEF MeFragment, host, result, faults
<1>2. /\ off \in Nat /\ MsgLen \in Nat /\ TypeOK /\ n \in Nat /\ n # 0
      /\ queue \in Seq(Place) /\ Len(queue) \in Nat
  BY Typed, NoItems, ReadAssumption DEF Inv, TypeOK
<1>3. f = Least(n, MsgLen - off) /\ MsgLen - off \in Nat
  BY <1>1, <1>2 DEF Fragment
<1>4. f \in Nat /\ f # 0 /\ off + f <= MsgLen
  BY <1>1, <1>2, <1>3 DEF Least
<1>5. Roomy'
  <2>1. Len(queue) + 1 + Words(Least(n, MsgLen - off)) <= Depth
    BY <1>1, <1>3 DEF Room
  <2>2. Fitting((MsgLen - off) - Least(n, MsgLen - off))
    BY <1>2, <1>3, <2>1, LeftFits
  <2>3. Fitting((MsgLen - off) - f)
    BY <1>3, <2>2
  <2> HIDE DEF f
  <2>4. (MsgLen - off) - f = MsgLen - off'
    BY <1>1, <1>2, <1>4
  <2>5. MsgLen' = MsgLen
    BY <1>1 DEF MsgLen
  <2> QED
    BY <2>3, <2>4, <2>5 DEF Roomy
<1> HIDE DEF f
<1>6. u \in Seq(Place) /\ u # <<>> /\ Begin(u[1]) = MePlace
  <2>1. MePlace = <<Len(log), off>>
    BY <1>1, <1>2 DEF MePlace
  <2> QED
    BY <1>1, <1>2, <1>4, <2>1, FragmentChain
<1> HIDE DEF u
<1>7. Stream = queue /\ Stream' = queue \o u
  <2>1. queue \o <<>> = queue
    BY <1>2
  <2> QED
    BY <1>1, <2>1 DEF Stream
<1>8. Ahead(Stream', MePlace') = Ahead(Stream, MePlace)
  <2> DEFINE s == queue \o u
  <2>1. /\ Len(s) = Len(queue) + Len(u) /\ s \in Seq(Place)
        /\ \A i \in 1 .. Len(queue) : s[i] = queue[i]
        /\ \A i \in 1 .. Len(u) : s[Len(queue) + i] = u[i]
    BY <1>2, <1>6, ConcatItems
  <2>2. Len(u) \in Nat /\ Len(u) >= 1
    BY <1>6, NoItems
  <2> HIDE DEF s
  <2>3. s # <<>>
    BY <1>2, <2>1, <2>2, NoItems
  <2>4. CASE queue = <<>>
    <3>1. Len(queue) + 1 = 1 /\ 1 \in 1 .. Len(u)
      BY <2>2, <2>4
    <3>2. s[1] = u[1]
      BY <2>1, <3>1
    <3> QED
      BY <1>6, <1>7, <2>3, <2>4, <3>2 DEF Ahead, s
  <2>5. CASE queue # <<>>
    <3>1. 1 \in 1 .. Len(queue)
      BY <1>2, <2>5, NoItems
    <3>2. s[1] = queue[1]
      BY <2>1, <3>1
    <3> QED
      BY <1>7, <2>3, <2>5, <3>2 DEF Ahead, s
  <2> QED
    BY <2>4, <2>5
<1>9. InTurn'
  <2>1. Smooth' => Smooth
    BY <1>1 DEF Smooth
  <2> QED
    BY <1>1, <1>8, <2>1, TurnStays DEF Turns
<1>10. Prompt'
  BY <1>1 DEF Turns, Prompt, Between
<1> QED
  BY <1>5, <1>9, <1>10 DEF Turns

LEMMA StartReadTurns ==
  ASSUME Turns, NEW n \in Sizes, StartRead(n)
  PROVE  Turns'
<1>1. /\ hpc = "idle" /\ hpc' = "poll" /\ first' = TRUE
      /\ UNCHANGED <<queue, todo, off, down, log, taken, slow, dropped, ahead>>
  BY DEF StartRead, meVars, faults
<1>2. Stream' = Stream /\ MePlace' = MePlace
  BY <1>1 DEF Stream, MePlace, MsgLen
<1>3. Resting /\ ~Reading'
  BY <1>1 DEF Resting, Reading
<1>4. Roomy' /\ Prompt'
  BY <1>1, RoomyStays DEF Turns, Prompt, Between
<1>5. InTurn'
  BY <1>1, <1>2, <1>3 DEF Turns, InTurn, Smooth
<1> QED
  BY <1>4, <1>5 DEF Turns

(* A wait that is over has read nothing, or the ME was slow.               *)
LEMMA TimeoutTurns ==
  ASSUME Inv, Turns, Timeout
  PROVE  Turns'
<1>1. /\ hpc = "poll" /\ hpc' = "idle" /\ elapsed = Polls
      /\ IF buf # <<>> THEN Take ELSE taken' = taken
      /\ UNCHANGED <<queue, todo, off, down, first, buf, hdr, log, slow, dropped,
                     ahead>>
  BY DEF Timeout, meVars, result, faults
<1>2. Stream' = Stream /\ MePlace' = MePlace
  BY <1>1 DEF Stream, MePlace, MsgLen
<1>3. Roomy' /\ Prompt'
  BY <1>1, RoomyStays DEF Turns, Prompt, Between
<1>4. ~Reading'
  BY <1>1 DEF Reading
<1>5. CASE first
  <2>1. Resting
    BY <1>1, <1>5 DEF Resting
  <2>2. buf = <<>>
    BY <1>1, <2>1 DEF Inv, Aligned
  <2> QED
    BY <1>1, <1>2, <1>3, <1>4, <2>1, <2>2 DEF Turns, InTurn, Smooth
<1>6. CASE ~first
  <2>1. Polls # 0
    BY ReadAssumption
  <2>2. ~Smooth
    BY <1>1, <1>6, <2>1 DEF Turns, Prompt, Between, Smooth
  <2> QED
    BY <1>1, <1>3, <2>2 DEF Turns, InTurn, Smooth
<1> QED
  BY <1>5, <1>6

LEMMA ReadHeaderTurns ==
  ASSUME Inv, Turns, ~ahead', NEW d \in Window, ReadHeader(d)
  PROVE  Turns'
<1> DEFINE p == Head(queue)
<1>0. queue # <<>> /\ d = p
  BY Fetched DEF ReadHeader
<1>1. /\ hpc = "header" /\ queue # <<>> /\ hdr' = p
      /\ first' = FALSE /\ hpc' \in {"drain", "payload"}
      /\ UNCHANGED <<off, down, buf, log, taken, slow, dropped>>
  BY <1>0 DEF ReadHeader, meVars
<1>2. Stream # <<>> /\ Stream[1] = p /\ ~down
  BY <1>1, Front
<1> HIDE DEF p
<1>3. Roomy' /\ Prompt'
  BY <1>1, RoomyStays DEF Turns, Prompt, Between
<1>4. Reading' /\ ~Resting'
  BY <1>1 DEF Reading, Resting
<1>5. ASSUME Smooth
      PROVE  p.msg = Len(taken) + 1 /\ Opens(buf, p)
  <2>1. CASE first
    <3>1. Resting
      BY <1>1, <2>1 DEF Resting
    <3>2. buf = <<>>
      BY <1>1, <3>1 DEF Inv, Aligned
    <3>3. Begin(p) = <<Len(taken) + 1, 0>>
      BY <1>2, <1>5, <3>1 DEF Turns, InTurn, Ahead
    <3> QED
      BY <3>2, <3>3 DEF Begin, Opens
  <2>2. CASE ~first
    <3>1. Reading /\ hpc # "drain"
      BY <1>1, <2>2 DEF Reading
    <3>2. word = Words(hdr.len) /\ ~hdr.complete
      BY <1>1, <3>1 DEF Inv, Current
    <3>3. /\ hdr \in Place /\ buf # <<>>
          /\ After([hdr EXCEPT !.word = Words(hdr.len)], Stream, MePlace)
      BY <1>2, <3>1, <3>2, UnderWay
    <3>4. Begin(p) = End(hdr)
      BY <1>2, <3>3, AfterEnds
    <3>5. p.msg = hdr.msg
      BY <3>2, <3>4 DEF Begin, End
    <3>6. hdr.msg = Len(taken) + 1 /\ buf[1] = <<hdr.msg, 0>>
      BY <1>5, <3>1, <3>3 DEF Turns, InTurn, Opens
    <3> QED
      BY <3>3, <3>5, <3>6 DEF Opens
  <2> QED
    BY <2>1, <2>2
<1>6. InTurn'
  BY <1>1, <1>4, <1>5 DEF Turns, InTurn, Smooth
<1> QED
  BY <1>3, <1>6 DEF Turns

LEMMA ReadWordTurns ==
  ASSUME Inv, Turns, ~ahead', NEW d \in Window, ReadWord(d)
  PROVE  Turns'
<1> DEFINE p == Head(queue)
           k == Least(hdr.len - 4 * word, 4)
           piece == SubSeq(Bytes(p), 1, k)
<1>0. queue # <<>> /\ d = p /\ queue' = Tail(queue)
  BY Fetched DEF ReadWord
<1>1. /\ hpc = "payload" /\ MoreWords /\ queue # <<>> /\ queue' = Tail(queue)
      /\ word' = word + 1
      /\ buf' = buf \o SubSeq(Bytes(Head(queue)), 1, Least(Length(hdr) - 4 * word, 4))
      /\ UNCHANGED <<todo, off, down, hpc, first, addr, hdr, log, taken, slow,
                     dropped>>
  BY <1>0 DEF ReadWord, meVars
<1>2. /\ hdr \in Place /\ word \in Nat /\ word < Words(hdr.len)
      /\ Length(hdr) = hdr.len
      /\ p = [hdr EXCEPT !.word = word + 1]
  BY <1>1, NextWord
<1>3. /\ piece \in Seq(Byte) /\ Len(piece) = k
      /\ \A i \in 1 .. k : piece[i] = <<hdr.msg, hdr.from + 4 * word + i - 1>>
  BY <1>2, NextBytes
<1>4. buf' = buf \o piece /\ buf \in Seq(Byte)
  BY <1>1, <1>2 DEF Inv, TypeOK
<1>5. k \in 1 .. 4 /\ hdr.from \in Nat
  BY <1>2, PlaceTypes, WordBytes
<1> HIDE DEF p, k, piece
<1>6. /\ Len(buf') = Len(buf) + Len(piece) /\ buf' \in Seq(Byte)
      /\ \A i \in 1 .. Len(buf) : buf'[i] = buf[i]
      /\ \A i \in 1 .. Len(piece) : buf'[Len(buf) + i] = piece[i]
  <2>1. /\ buf \o piece \in Seq(Byte) /\ Len(buf \o piece) = Len(buf) + Len(piece)
        /\ \A i \in 1 .. Len(buf) : (buf \o piece)[i] = buf[i]
        /\ \A i \in 1 .. Len(piece) : (buf \o piece)[Len(buf) + i] = piece[i]
    <3> DEFINE S == Byte
    <3>1. buf \in Seq(S) /\ piece \in Seq(S)
      BY <1>3, <1>4
    <3> HIDE DEF S
    <3>2. /\ buf \o piece \in Seq(S) /\ Len(buf \o piece) = Len(buf) + Len(piece)
          /\ \A i \in 1 .. Len(buf) : (buf \o piece)[i] = buf[i]
          /\ \A i \in 1 .. Len(piece) : (buf \o piece)[Len(buf) + i] = piece[i]
      BY <3>1, ConcatItems
    <3> QED
      BY <3>2 DEF S
  <2> QED
    BY <1>4, <2>1
<1>7. Reading /\ Reading' /\ ~Resting' /\ hpc # "drain"
  BY <1>1 DEF Reading, Resting
<1>8. Collects(buf, hdr, word, taken)
  BY <1>7 DEF Inv, Collected
<1>9. Len(buf) \in Nat /\ (buf = <<>>) = (Len(buf) = 0) /\ buf' # <<>>
  BY <1>3, <1>4, <1>5, <1>6, NoItems
<1>10. Opens(buf, hdr) => Opens(buf', hdr)
  <2>1. CASE buf = <<>>
    <3>1. word = 0
      BY <1>8, <2>1 DEF Collects
    <3>2. 1 \in 1 .. Len(piece) /\ Len(buf) + 1 = 1
      BY <1>3, <1>5, <1>9, <2>1
    <3>3. buf'[1] = piece[1]
      BY <1>6, <3>2
    <3>4. piece[1] = <<hdr.msg, hdr.from + 4 * word + 1 - 1>>
      BY <1>3, <1>5
    <3>5. hdr.from + 4 * word + 1 - 1 = hdr.from
      BY <1>5, <3>1
    <3> QED
      BY <1>9, <2>1, <3>3, <3>4, <3>5 DEF Opens
  <2>2. CASE buf # <<>>
    <3>1. 1 \in 1 .. Len(buf)
      BY <1>9, <2>2
    <3>2. buf'[1] = buf[1]
      BY <1>6, <3>1
    <3> QED
      BY <1>9, <2>2, <3>2 DEF Opens
  <2> QED
    BY <2>1, <2>2
<1>11. InTurn'
  BY <1>1, <1>7, <1>10 DEF Turns, InTurn, Smooth
<1>12. Roomy' /\ Prompt'
  BY <1>1, RoomyStays DEF Turns, Prompt, Between
<1> QED
  BY <1>11, <1>12 DEF Turns

LEMMA DrainTurns ==
  ASSUME Turns, DrainWord \/ EndDrain
  PROVE  Turns'
<1>1. /\ UNCHANGED <<off, down, hdr, buf, first, log, taken, slow>>
      /\ hpc = "drain"
  BY DEF DrainWord, EndDrain, meVars, result
<1>2. hpc' # "poll"
  BY DEF DrainWord, EndDrain
<1>3. Roomy' /\ Prompt'
  BY <1>1, <1>2, RoomyStays DEF Turns, Prompt, Between
<1>4. CASE DrainWord
  <2>1. hpc = "drain" /\ hpc' = "drain" /\ dropped' = dropped
    BY <1>4 DEF DrainWord
  <2> QED
    BY <1>1, <1>3, <2>1 DEF Turns, InTurn, Smooth, Reading, Resting
<1>5. CASE EndDrain
  <2>1. dropped'
    BY <1>5 DEF EndDrain
  <2> QED
    BY <1>3, <2>1 DEF Turns, InTurn, Smooth
<1> QED
  BY <1>4, <1>5

(* The bytes of the last fragment's end make the message.                  *)
LEMMA WholeMessage ==
  ASSUME NEW t, NEW h \in Place, NEW b \in Seq(Byte), b # <<>>, NEW len \in Nat,
         Collects(b, h, Words(h.len), t), Opens(b, h), h.from + h.len = len
  PROVE  b = [i \in 1 .. len |-> <<h.msg, i - 1>>]
<1>1. h.len \in Nat /\ h.from \in Nat /\ h.msg \in Nat
  BY PlaceTypes
<1>2. Least(4 * Words(h.len), h.len) = h.len
  BY <1>1, LeastAll
<1>3. b[1] = <<h.msg, 0>>
  BY DEF Opens
<1>4. /\ \A i \in 2 .. Len(b) : b[i] = <<b[1][1], b[1][2] + i - 1>>
      /\ b[1][2] + Len(b) = h.from + h.len
  BY <1>2 DEF Collects
<1>5. Len(b) \in Nat
  BY NoItems
<1>6. Len(b) = len
  BY <1>3, <1>4, <1>5
<1> DEFINE w == [i \in 1 .. len |-> <<h.msg, i - 1>>]
<1>7. w \in Seq(Byte) /\ Len(w) = len
  <2>1. \A i \in 1 .. len : <<h.msg, i - 1>> \in Byte
    BY <1>1 DEF Byte
  <2>2. w \in [1 .. len -> Byte]
    BY <2>1
  <2> HIDE DEF w, Byte
  <2> QED
    BY <2>2, Items
<1>8. ASSUME NEW i \in 1 .. Len(b) PROVE b[i] = w[i]
  <2>1. w[i] = <<h.msg, i - 1>>
    BY <1>6
  <2>2. CASE i = 1
    BY <1>3, <2>1, <2>2
  <2>3. CASE i # 1
    <3>1. i \in 2 .. Len(b)
      BY <1>5, <2>3
    <3>2. b[i] = <<h.msg, 0 + i - 1>>
      BY <1>3, <1>4, <3>1
    <3>3. 0 + i - 1 = i - 1
      BY <1>5
    <3> QED
      BY <2>1, <3>2, <3>3
  <2> QED
    BY <2>2, <2>3
<1> HIDE DEF w, Byte
<1>9. b = w
  BY <1>6, <1>7, <1>8, SameItems
<1> QED
  BY <1>9 DEF w

LEMMA EndFragmentTurns ==
  ASSUME Inv, Turns, EndFragment
  PROVE  Turns'
<1>1. /\ hpc = "payload" /\ ~MoreWords /\ irq' = TRUE /\ elapsed' = 0
      /\ IF Complete(hdr) THEN hpc' = "idle" /\ Take
         ELSE hpc' = "poll" /\ taken' = taken
      /\ UNCHANGED <<queue, todo, off, awake, down, first, addr, buf, hdr,
                     word, log, slow, dropped, ahead>>
  BY DEF EndFragment, NextFragment, meVars, result, faults
<1>2. Stream' = Stream /\ MePlace' = MePlace
  BY <1>1 DEF Stream, MePlace, MsgLen
<1>3. Reading /\ word = Words(hdr.len) /\ hpc # "drain"
  BY <1>1, EndOfFragment
<1>4. Roomy' /\ Prompt'
  BY <1>1, RoomyStays DEF Turns, Prompt, Between
<1>5. CASE ~Complete(hdr)
  <2>1. hpc' = "poll" /\ taken' = taken /\ ~first
    BY <1>1, <1>3, <1>5 DEF Inv, Current
  <2>2. Reading' /\ ~Resting'
    BY <1>1, <2>1 DEF Reading, Resting
  <2>3. InTurn'
    BY <1>1, <1>3, <2>1, <2>2 DEF Turns, InTurn, Smooth
  <2> QED
    BY <1>4, <2>3 DEF Turns
<1>6. CASE Complete(hdr)
  <2> SUFFICES ASSUME Smooth' PROVE InTurn'
    BY <1>4 DEF Turns, InTurn
  <2>0. Smooth
    BY <1>1 DEF Smooth
  <2>1. hpc' = "idle" /\ ~Reading' /\ taken' = Append(taken, [addr |-> addr, bytes |-> buf])
    BY <1>1, <1>6 DEF Take, Reading, Inv
  <2>2. /\ hdr \in Place /\ Valid(hdr, log) /\ hdr.complete /\ buf # <<>>
        /\ After([hdr EXCEPT !.word = Words(hdr.len)], Stream, MePlace)
    BY <1>3, <1>6, <2>0, UnderWay DEF Smooth
  <2>3. addr = log[hdr.msg].addr /\ Collects(buf, hdr, Words(hdr.len), taken)
    BY <1>3 DEF Inv, Collected
  <2>4. /\ WholeUpTo(taken, log) /\ hdr.msg = Len(taken) + 1 /\ Opens(buf, hdr)
    BY <1>3, <2>0 DEF Turns, InTurn
  <2>5. /\ hdr.msg \in 1 .. Len(log) /\ hdr.from + hdr.len = log[hdr.msg].len
        /\ log[hdr.msg].len \in Nat
    BY <2>2, LogItems DEF Inv, Valid
  <2>6. buf \in Seq(Byte) /\ taken \in Seq(Returns)
    BY Typed DEF Inv, TypeOK
  <2>7. buf = [i \in 1 .. log[hdr.msg].len |-> <<hdr.msg, i - 1>>]
    BY <2>2, <2>3, <2>4, <2>5, <2>6, WholeMessage
  <2> DEFINE r == [addr |-> addr, bytes |-> buf]
  <2>8. r \in Returns /\ r.addr = addr /\ r.bytes = buf
    BY <2>6 DEF Inv, TypeOK, Returns
  <2>9. taken' = Append(taken, r)
    BY <2>1
  <2> HIDE DEF r
  <2>10. /\ Len(taken') = Len(taken) + 1 /\ Len(taken) \in Nat
         /\ \A i \in 1 .. Len(taken) : taken'[i] = taken[i]
         /\ taken'[Len(taken) + 1] = r
    BY <2>6, <2>8, <2>9, AppendItems, NoItems
  <2>11. WholeUpTo(taken', log)
    <3>1. Len(taken') <= Len(log)
      BY <2>4, <2>5, <2>10
    <3>2. ASSUME NEW n \in 1 .. Len(taken')
          PROVE  /\ taken'[n].addr = log[n].addr
                 /\ taken'[n].bytes = [b \in 1 .. log[n].len |-> <<n, b - 1>>]
      <4>1. CASE n <= Len(taken)
        BY <2>4, <2>10, <4>1 DEF WholeUpTo
      <4>2. CASE n = Len(taken) + 1
        <5>1. n = hdr.msg /\ taken'[n] = r
          BY <2>4, <2>10, <4>2
        <5> QED
          BY <5>1, <2>3, <2>7, <2>8
      <4> QED
        BY <2>10, <4>1, <4>2
    <3> QED
      BY <3>1, <3>2 DEF WholeUpTo
  <2>12. Ahead(Stream, MePlace) = End(hdr)
    <3> DEFINE q == [hdr EXCEPT !.word = Words(hdr.len)]
    <3>1. hdr.len \in Nat /\ Words(hdr.len) \in Nat
      BY <2>2, PlaceTypes, WordsNat
    <3>2. End(q) = End(hdr)
      BY <2>2, <3>1, WordPlace
    <3>3. After(q, Stream, MePlace)
      BY <2>2
    <3> HIDE DEF q
    <3>4. CASE Stream = <<>>
      BY <3>2, <3>3, <3>4 DEF After, Ends, Ahead
    <3>5. CASE Stream # <<>>
      BY <2>2, <3>5, AfterEnds DEF Ahead
    <3> QED
      BY <3>4, <3>5
  <2>13. End(hdr) = <<Len(taken') + 1, 0>>
    BY <2>2, <2>4, <2>10 DEF End
  <2> QED
    BY <1>1, <1>2, <2>1, <2>11, <2>12, <2>13 DEF InTurn
<1> QED
  BY <1>5, <1>6

LEMMA EmptyTurns ==
  ASSUME NEW s, s = <<>> \o <<>>
  PROVE  s = <<>> /\ WholeUpTo(<<>>, <<>>) /\ Ahead(s, <<1, 0>>) = <<1, 0>>
         /\ Len(<<>>) + 1 = 1
<1>1. s = <<>> /\ Len(<<>>) = 0
  OBVIOUS
<1> QED
  BY <1>1 DEF WholeUpTo, Ahead

LEMMA ResetTurns ==
  ASSUME Reset
  PROVE  Turns'
<1>1. /\ hpc = "idle" /\ hpc' = hpc /\ off' = 0 /\ log' = <<>> /\ taken' = <<>>
      /\ queue' = <<>> /\ todo' = <<>>
  BY DEF Reset, host
<1>2. Stream' = <<>> \o <<>> /\ MsgLen' = 0
  BY <1>1 DEF Stream, MsgLen
<1>3. MePlace' = <<1, 0>>
  BY <1>1, <1>2, EmptyTurns DEF MePlace
<1>4. InTurn'
  BY <1>1, <1>2, <1>3, EmptyTurns DEF InTurn, Reading
<1> QED
  BY <1>1, <1>4 DEF Turns, Roomy, Prompt, Between

LEMMA InitTurns ==
  ASSUME Init
  PROVE  Turns
<1>1. /\ hpc = "idle" /\ off = 0 /\ log = <<>> /\ taken = <<>>
      /\ queue = <<>> /\ todo = <<>>
  BY DEF Init
<1>2. Stream = <<>> \o <<>> /\ MsgLen = 0
  BY <1>1 DEF Stream, MsgLen
<1>3. MePlace = <<1, 0>>
  BY <1>1, <1>2, EmptyTurns DEF MePlace
<1>4. InTurn
  BY <1>1, <1>2, <1>3, EmptyTurns DEF InTurn, Reading
<1> QED
  BY <1>1, <1>4 DEF Turns, Roomy, Prompt, Between

LEMMA StepTurns == Inv /\ Turns /\ ~ahead' /\ [Next]_vars => Turns'
<1> SUFFICES ASSUME Inv, Turns, ~ahead', [Next]_vars
             PROVE  Turns'
  OBVIOUS
<1>1. ASSUME NEW n \in Sizes, StartRead(n) PROVE Turns'
  BY <1>1, StartReadTurns
<1>2. CASE ReadMsg
  BY <1>2, PollEmptyTurns, PollFoundTurns, TimeoutTurns, ReadHeaderTurns, ReadWordTurns, DrainTurns,
     EndFragmentTurns DEF ReadMsg
<1>3. CASE ME
  BY <1>3, MeBeginTurns, MeFragmentTurns, MeDownTurns, QuietTurns DEF ME
<1>4. CASE Notify
  BY <1>4, QuietTurns
<1>5. CASE Reset
  BY <1>5, ResetTurns
<1>6. CASE UNCHANGED vars
  <2>1. UNCHANGED <<queue, irq, todo, off, awake, down, hpc, elapsed, first, buf, hdr,
                    log, taken, slow, dropped, ahead>>
    BY <1>6 DEF vars, meVars, host, result, faults
  <2>2. Stream' = Stream /\ MePlace' = MePlace /\ (Smooth' => Smooth)
    BY <2>1 DEF Stream, MePlace, MsgLen, Smooth
  <2>3. Roomy' /\ Prompt'
    BY <2>1, <2>2, RoomyStays DEF Turns, Prompt, Between
  <2>4. InTurn'
    BY <2>1, <2>2, TurnStays DEF Turns
  <2> QED
    BY <2>3, <2>4 DEF Turns
<1> QED
  BY <1>1, <1>2, <1>3, <1>4, <1>5, <1>6 DEF Next

(* As long as every message fits its caller's buffer, the ME stays up,     *)
(* lets no poll pass while it could write and writes a fragment's dwords   *)
(* before the host reads them, read_msg returns the ME's messages whole    *)
(* and in order, however it cuts them and however shallow the buffer is:   *)
(* the acknowledgement of a fragment always reaches an ME that waits for   *)
(* room, and no wait between two fragments runs out.                       *)
THEOREM WholeInOrderHolds == Spec => []WholeInOrder
<1> DEFINE J == Safe /\ (~ahead => Turns)
<1>1. Init => J
  BY InitSafe, InitTurns
<1>2. J /\ [Next]_vars => J'
  <2> SUFFICES ASSUME J, [Next]_vars
               PROVE  J'
    OBVIOUS
  <2>1. Safe'
    BY StepSafe
  <2>2. ASSUME ~ahead' PROVE Turns'
    <3>1. CASE Reset
      BY <3>1, ResetTurns
    <3>2. CASE ~Reset
      <4>1. ~ahead
        BY <2>2, <3>2, AheadStays DEF Safe, Bounds
      <4> QED
        BY <2>2, <4>1, StepTurns DEF Safe
    <3> QED
      BY <3>1, <3>2
  <2> QED
    BY <2>1, <2>2
<1>3. J => WholeInOrder
  BY DEF Turns, InTurn, Smooth, WholeUpTo, WholeInOrder
<1> HIDE DEF J
<1> QED
  BY <1>1, <1>2, <1>3, PTL DEF Spec
=============================================================================
