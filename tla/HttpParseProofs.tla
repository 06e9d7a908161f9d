---------------------------- MODULE HttpParseProofs ----------------------------
(***************************************************************************)
(* Proofs about HttpParse, for every sequence of bytes, every base and     *)
(* every length of the buffer.                                             *)
(*                                                                         *)
(* TypesHold: parse_response takes no slice beyond what was received and   *)
(* writes none beyond HttpResponse.body.  src may pass the end of what was *)
(* received: it advances by the announced size.  It is compared before     *)
(* every use, and only behind a size that is read or a line end that is    *)
(* there does the code rely on it.                                         *)
(*                                                                         *)
(* BodyIsWhatCameHolds: the body that is returned is what came of it.  The *)
(* invariant, Course, says where the parser stands on the wire, byte by    *)
(* byte.  For that the proof has to know what the wire holds: Power and    *)
(* Tails are recursive functions and Width and After choose a value, so    *)
(* each comes with the lemma that the definition has a value and that it   *)
(* is the one meant.  They rest on Induction, which is about a set of      *)
(* numbers and follows from the order of finite sets.                      *)
(***************************************************************************)
EXTENDS HttpParse, FiniteSetTheorems, SequenceTheorems, WellFoundedInduction, TLAPS

LEMMA InitTypes == Init => TypeOK
<1> SUFFICES ASSUME Init PROVE TypeOK
  OBVIOUS
<1>1. Len(sent) \in Nat
  BY ParseAssumption DEF Init, Bodies
<1>2. raw \in Seq(Nat) /\ chunked \in BOOLEAN /\ declared \in Nat
  BY <1>1 DEF Init, Received
<1>3. body \in Seq(Nat) /\ Len(body) <= MaxBody - 1
  BY ParseAssumption DEF Init
<1> QED
  BY <1>2, <1>3 DEF Init, TypeOK

(* A piece of what was received, no longer than asked for.                 *)
LEMMA PieceIs ==
  ASSUME NEW s \in Seq(Nat), NEW p \in Nat, NEW k \in Nat, p + k <= Len(s)
  PROVE  /\ SubSeq(s, p + 1, p + k) \in Seq(Nat) /\ Len(SubSeq(s, p + 1, p + k)) = k
         /\ \A i \in 1 .. k : SubSeq(s, p + 1, p + k)[i] = s[p + i]
  OBVIOUS

LEMMA FindBodyTypes == TypeOK /\ FindBody => TypeOK'
<1> SUFFICES ASSUME TypeOK, FindBody PROVE TypeOK'
  OBVIOUS
<1>1. Len(EmptyLine) = 4
  BY DEF EmptyLine
<1>2. \A p \in Found : p \in Nat /\ p + 4 <= Len(raw)
  BY <1>1 DEF Found, Places, TypeOK
<1>3. src' \in Nat /\ src' <= Len(raw)
  BY <1>1, <1>2 DEF FindBody, TypeOK
<1> QED
  BY <1>3 DEF FindBody, TypeOK, input, size

LEMMA CopyPlainTypes == TypeOK /\ CopyPlain => TypeOK'
<1> SUFFICES ASSUME TypeOK, CopyPlain PROVE TypeOK'
  OBVIOUS
<1> DEFINE n == Least(Announced(Len(raw) - src), MaxBody - 1)
<1>1. raw \in Seq(Nat) /\ src \in Nat /\ src <= Len(raw) /\ declared \in Nat
  BY DEF CopyPlain, TypeOK
<1>2. n \in Nat /\ src + n <= Len(raw) /\ n <= MaxBody - 1
  BY <1>1, ParseAssumption DEF Least, Announced
<1>3. body' = SubSeq(raw, src + 1, src + n)
  BY DEF CopyPlain
<1> HIDE DEF n
<1>4. body' \in Seq(Nat) /\ Len(body') <= MaxBody - 1
  BY <1>1, <1>2, <1>3, PieceIs
<1>5. pc' = "done" /\ UNCHANGED <<raw, chunked, declared, src, chunkSize, hasDigits>>
  BY DEF CopyPlain, input, size
<1>6. chunked' \in BOOLEAN /\ hasDigits' \in BOOLEAN
  BY <1>5 DEF TypeOK
<1> QED
  BY <1>4, <1>5, <1>6 DEF TypeOK

LEMMA NextChunkTypes == TypeOK /\ NextChunk => TypeOK'
<1> SUFFICES ASSUME TypeOK, NextChunk PROVE TypeOK'
  OBVIOUS
<1>1. /\ UNCHANGED <<raw, chunked, declared, src, body>>
      /\ chunkSize' = 0 /\ hasDigits' = FALSE
      /\ pc' \in {"size", "done"} /\ (pc' = "size" => src < Len(raw))
  BY DEF NextChunk, More, input
<1>2. chunked' \in BOOLEAN /\ hasDigits' \in BOOLEAN
  BY <1>1 DEF TypeOK
<1>3. src \in Nat /\ Len(raw) \in Nat
  BY DEF TypeOK
<1> QED
  BY <1>1, <1>2, <1>3 DEF TypeOK

LEMMA ReadDigitTypes == TypeOK /\ ReadDigit => TypeOK'
<1> SUFFICES ASSUME TypeOK, ReadDigit PROVE TypeOK'
  OBVIOUS
<1>1. /\ raw \in Seq(Nat) /\ src \in Nat /\ src < Len(raw) /\ raw[src + 1] \in Nat
  BY DEF ReadDigit, AtDigit, More, TypeOK
<1>2. Base * chunkSize \in Nat
  BY ParseAssumption DEF TypeOK
<1>3. chunkSize' \in Nat
  BY <1>1, <1>2 DEF ReadDigit
<1> QED
  BY <1>1, <1>3 DEF ReadDigit, TypeOK, input

LEMMA SkippedBound ==
  ASSUME NEW p \in Nat
  PROVE  /\ Skipped(p) \in Nat
         /\ TypeOK /\ p <= Len(raw) => Skipped(p) <= Len(raw)
  BY DEF Skipped, TypeOK

LEMMA EndSizeTypes == TypeOK /\ EndSize => TypeOK'
<1> SUFFICES ASSUME TypeOK, EndSize PROVE TypeOK'
  OBVIOUS
<1>1. src \in Nat /\ src <= Len(raw)
  BY DEF EndSize, TypeOK
<1>2. src' \in Nat /\ src' <= Len(raw)
  BY <1>1, SkippedBound DEF EndSize
<1> QED
  BY <1>2 DEF EndSize, TypeOK, input, size

LEMMA CopyChunkTypes == TypeOK /\ CopyChunk => TypeOK'
<1> SUFFICES ASSUME TypeOK, CopyChunk PROVE TypeOK'
  OBVIOUS
<1>1. /\ raw \in Seq(Nat) /\ src \in Nat /\ src <= Len(raw)
      /\ chunkSize \in Nat /\ body \in Seq(Nat) /\ Len(body) <= MaxBody - 1
  BY DEF CopyChunk, TypeOK
<1>2. /\ CopyLength \in Nat /\ src + CopyLength <= Len(raw)
      /\ Len(body) + CopyLength <= MaxBody - 1
  BY <1>1, ParseAssumption DEF CopyLength, Least
<1>3. body' = body \o SubSeq(raw, src + 1, src + CopyLength)
  BY DEF CopyChunk
<1>4. body' \in Seq(Nat) /\ Len(body') <= MaxBody - 1
  BY <1>1, <1>2, <1>3, PieceIs
<1>5. src' \in Nat
  <2>1. src + chunkSize \in Nat
    BY <1>1
  <2> QED
    BY <2>1, SkippedBound DEF CopyChunk
<1> QED
  BY <1>4, <1>5 DEF CopyChunk, TypeOK, input, size

(* Every slice of parse_response is within its array.                      *)
THEOREM TypesHold == Spec => []TypeOK
<1>1. TypeOK /\ [Next]_vars => TypeOK'
  <2>1. TypeOK /\ Next => TypeOK'
    BY FindBodyTypes, CopyPlainTypes, NextChunkTypes, ReadDigitTypes, EndSizeTypes,
       CopyChunkTypes
    DEF Next, Parse, Returned, TypeOK, vars, input, size
  <2>2. TypeOK /\ UNCHANGED vars => TypeOK'
    BY DEF TypeOK, vars, input, size
  <2> QED
    BY <2>1, <2>2
<1> QED
  BY <1>1, InitTypes, PTL DEF Spec

-----------------------------------------------------------------------------
(* Induction, for a set of numbers: the sets 0 .. n are well-founded.      *)
LEMMA Induction ==
  ASSUME NEW S, 0 \in S, \A n \in Nat : n \in S => n + 1 \in S
  PROVE  Nat \subseteq S
<1> DEFINE T == {U \in FiniteSubsetsOf(Nat) : \E n \in Nat \ S : U = 0 .. n}
<1> SUFFICES ASSUME NEW n \in Nat, n \notin S PROVE FALSE
  OBVIOUS
<1>1. ASSUME NEW k \in Nat PROVE (0 .. k) \in FiniteSubsetsOf(Nat)
  <2>1. IsFiniteSet(0 .. k)
    BY FS_Interval
  <2> QED BY <2>1 DEF FiniteSubsetsOf
<1>2. T \subseteq FiniteSubsetsOf(Nat) /\ T # {}
  BY <1>1
<1>3. PICK U \in T : \A V \in T : ~(<<V, U>> \in StrictSubsetOrdering(Nat))
  <2> HIDE DEF T
  <2> QED BY <1>2, FS_StrictSubsetOrderingWellFounded, WFMin
<1>4. PICK m \in Nat \ S : U = 0 .. m
  OBVIOUS
<1>5. m - 1 \in Nat \ S
  <2>1. m # 0
    BY <1>4
  <2>2. m - 1 \in Nat /\ (m - 1) + 1 = m
    BY <1>4, <2>1
  <2> QED BY <1>4, <2>2
<1>6. (0 .. (m - 1)) \in T
  BY <1>1, <1>5
<1>7. <<0 .. (m - 1), 0 .. m>> \in StrictSubsetOrdering(Nat)
  <2>1. /\ 0 .. (m - 1) \subseteq Nat /\ 0 .. m \subseteq Nat
        /\ 0 .. (m - 1) \subseteq 0 .. m /\ m \in 0 .. m /\ m \notin 0 .. (m - 1)
    BY <1>4, <1>5
  <2> QED BY <2>1 DEF StrictSubsetOrdering
<1> QED BY <1>3, <1>4, <1>6, <1>7

-----------------------------------------------------------------------------
(* The digits of a size.                                                   *)

(* The powers of the base up to the m-th, which Power continues.           *)
Powers(m) ==
  {g \in [0 .. m -> Nat] : g[0] = 1 /\ \A k \in 1 .. m : g[k] = Base * g[k - 1]}

LEMMA PowersExist == \A m \in Nat : Powers(m) # {}
<1> DEFINE S == {m \in Nat : Powers(m) # {}}
<1>1. 0 \in S
  <2>1. [k \in 0 .. 0 |-> 1] \in Powers(0)
    BY DEF Powers
  <2> QED BY <2>1
<1>2. ASSUME NEW m \in Nat, m \in S PROVE m + 1 \in S
  <2>1. PICK g \in Powers(m) : TRUE
    BY <1>2
  <2> DEFINE h == [k \in 0 .. m + 1 |-> IF k = m + 1 THEN Base * g[m] ELSE g[k]]
  <2>2. g \in [0 .. m -> Nat] /\ g[0] = 1 /\ Base * g[m] \in Nat
    BY ParseAssumption DEF Powers
  <2>3. h \in [0 .. m + 1 -> Nat] /\ h[0] = 1
    BY <2>2
  <2>4. ASSUME NEW k \in 1 .. m + 1 PROVE h[k] = Base * h[k - 1]
    <3>1. CASE k = m + 1
      BY <3>1
    <3>2. CASE k # m + 1
      <4>1. k \in 1 .. m /\ k \in 0 .. m + 1 /\ k - 1 \in 0 .. m + 1 /\ k - 1 # m + 1
        BY <3>2
      <4>2. h[k] = g[k] /\ h[k - 1] = g[k - 1] /\ g[k] = Base * g[k - 1]
        BY <3>2, <4>1 DEF Powers
      <4> QED BY <4>2
    <3> QED BY <3>1, <3>2
  <2> HIDE DEF h
  <2>5. h \in Powers(m + 1)
    BY <2>3, <2>4 DEF Powers
  <2> QED BY <2>5
<1> HIDE DEF S
<1>3. Nat \subseteq S
  BY <1>1, <1>2, Induction
<1> QED BY <1>3 DEF S

LEMMA PowersAgree ==
  ASSUME NEW m \in Nat, NEW n \in Nat, m <= n, NEW g \in Powers(m), NEW h \in Powers(n)
  PROVE  g[m] = h[m]
<1> DEFINE S == {k \in Nat : k <= m => g[k] = h[k]}
<1>1. 0 \in S
  BY DEF Powers
<1>2. ASSUME NEW k \in Nat, k \in S PROVE k + 1 \in S
  <2> SUFFICES ASSUME k + 1 <= m PROVE g[k + 1] = h[k + 1]
    OBVIOUS
  <2>1. k + 1 \in 1 .. m /\ k + 1 \in 1 .. n /\ (k + 1) - 1 = k /\ g[k] = h[k]
    BY <1>2
  <2>2. g[k + 1] = Base * g[k] /\ h[k + 1] = Base * h[k]
    BY <2>1 DEF Powers
  <2> QED BY <2>1, <2>2
<1> HIDE DEF S
<1>3. Nat \subseteq S
  BY <1>1, <1>2, Induction
<1> QED BY <1>3 DEF S

LEMMA PowerIs ==
  /\ Power[0] = 1
  /\ \A k \in Nat : Power[k] \in Nat \ {0} /\ Power[k + 1] = Base * Power[k]
<1> DEFINE P(f) == f = [k \in Nat |-> IF k = 0 THEN 1 ELSE Base * f[k - 1]]
           f == [k \in Nat |-> (CHOOSE g : g \in Powers(k))[k]]
<1>1. \A k \in Nat : (CHOOSE g : g \in Powers(k)) \in Powers(k)
  BY PowersExist
<1>2. ASSUME NEW k \in Nat PROVE f[k] = IF k = 0 THEN 1 ELSE Base * f[k - 1]
  <2> DEFINE g == CHOOSE g : g \in Powers(k)
             h == CHOOSE h : h \in Powers(k - 1)
  <2>1. g \in Powers(k) /\ f[k] = g[k]
    BY <1>1
  <2>2. CASE k = 0
    BY <2>1, <2>2 DEF Powers
  <2>3. CASE k # 0
    <3>1. k - 1 \in Nat /\ k - 1 <= k /\ k \in 1 .. k
      BY <2>3
    <3>2. h \in Powers(k - 1) /\ f[k - 1] = h[k - 1]
      BY <1>1, <3>1
    <3> HIDE DEF g, h, f
    <3>3. h[k - 1] = g[k - 1]
      BY <2>1, <3>1, <3>2, PowersAgree
    <3>4. g[k] = Base * g[k - 1]
      BY <2>1, <3>1 DEF Powers
    <3> QED BY <2>1, <2>3, <3>2, <3>3, <3>4
  <2> QED BY <2>2, <2>3
<1>3. P(f)
  <2>1. f = [k \in Nat |-> f[k]]
    OBVIOUS
  <2> HIDE DEF f
  <2> QED BY <1>2, <2>1
<1>4. P(Power)
  <2> HIDE DEF f
  <2> QED BY <1>3, Zenon DEF Power
<1>5. Power[0] = 1 /\ \A k \in Nat : Power[k + 1] = Base * Power[k]
  <2>1. ASSUME NEW k \in Nat
        PROVE  Power[k] = IF k = 0 THEN 1 ELSE Base * Power[k - 1]
    BY <1>4
  <2>2. ASSUME NEW k \in Nat PROVE Power[k + 1] = Base * Power[k]
    <3>1. k + 1 \in Nat /\ k + 1 # 0 /\ (k + 1) - 1 = k
      OBVIOUS
    <3>2. Power[k + 1] = IF k + 1 = 0 THEN 1 ELSE Base * Power[(k + 1) - 1]
      BY <2>1, <3>1
    <3> QED BY <3>1, <3>2
  <2> QED BY <2>1, <2>2
<1> DEFINE S == {k \in Nat : Power[k] \in Nat \ {0}}
<1>6. 0 \in S
  BY <1>5
<1>7. ASSUME NEW k \in Nat, k \in S PROVE k + 1 \in S
  <2>1. Power[k] \in Nat \ {0} /\ Power[k + 1] = Base * Power[k]
    BY <1>5, <1>7
  <2>2. ASSUME NEW x \in Nat \ {0} PROVE Base * x \in Nat \ {0}
    BY ParseAssumption
  <2> QED BY <2>1, <2>2
<1> HIDE DEF S
<1>8. Nat \subseteq S
  BY <1>6, <1>7, Induction
<1> QED BY <1>5, <1>8 DEF S

(* Every size has a width, and its digits fit in it.                       *)
LEMMA WidthIs ==
  ASSUME NEW n \in Nat \ {0}
  PROVE  /\ Width(n) \in Nat \ {0}
         /\ Power[Width(n) - 1] <= n /\ n < Power[Width(n)]
<1> DEFINE Fits(k, m) == Power[k - 1] <= m /\ m < Power[k]
           S == {m \in Nat : m = 0 \/ \E k \in 1 .. m : Fits(k, m)}
<1>1. 0 \in S
  OBVIOUS
<1>2. ASSUME NEW m \in Nat, m \in S PROVE m + 1 \in S
  <2>1. CASE m = 0
    <3>1. Power[0] = 1 /\ Power[1] = Base
      <4>1. Power[0] = 1 /\ Power[0 + 1] = Base * Power[0] /\ 0 + 1 = 1
        BY PowerIs
      <4> QED BY <4>1, ParseAssumption
    <3>2. Fits(1, 1)
      BY <3>1, ParseAssumption
    <3> QED BY <2>1, <3>2
  <2>2. CASE m # 0
    <3>1. PICK k \in 1 .. m : Fits(k, m)
      BY <1>2, <2>2
    <3>2. /\ k \in Nat /\ k - 1 \in Nat /\ (k + 1) - 1 = k
          /\ Power[k] \in Nat /\ Power[k - 1] \in Nat
          /\ Power[k + 1] = Base * Power[k]
      BY PowerIs
    <3>3. CASE m + 1 < Power[k]
      <4>1. Fits(k, m + 1)
        BY <3>1, <3>2, <3>3
      <4> HIDE DEF Fits
      <4> QED BY <4>1
    <3>4. CASE ~(m + 1 < Power[k])
      <4>1. Power[k] = m + 1
        BY <3>1, <3>2, <3>4
      <4>2. m + 1 < Base * (m + 1)
        BY ParseAssumption
      <4>3. Fits(k + 1, m + 1)
        BY <3>2, <4>1, <4>2
      <4>4. k + 1 \in 1 .. m + 1
        OBVIOUS
      <4> HIDE DEF Fits
      <4> QED BY <4>3, <4>4
    <3> QED BY <3>3, <3>4
  <2> QED BY <2>1, <2>2
<1> HIDE DEF S
<1>3. Nat \subseteq S
  BY <1>1, <1>2, Induction
<1>4. \E k \in 1 .. n : Fits(k, n)
  BY <1>3 DEF S
<1>5. Width(n) \in 1 .. n /\ Fits(Width(n), n)
  BY <1>4, Zenon DEF Width
<1>6. \A w \in 1 .. n : w \in Nat \ {0}
  OBVIOUS
<1>7. Width(n) \in Nat \ {0}
  BY <1>5, <1>6
<1> QED BY <1>5, <1>7

(* Division with remainder, and that it is the only one.                   *)
LEMMA Division ==
  ASSUME NEW n \in Nat, NEW q \in Nat \ {0}
  PROVE  /\ n \div q \in Nat /\ n % q \in Nat /\ n % q < q
         /\ n = q * (n \div q) + (n % q)
  OBVIOUS

LEMMA Quotient ==
  ASSUME NEW n \in Nat, NEW q \in Nat \ {0}, NEW x \in Nat, NEW r \in Nat,
         r < q, n = q * x + r
  PROVE  n \div q = x
<1> DEFINE y == n \div q
           s == n % q
<1>1. y \in Nat /\ s \in Nat /\ s < q /\ n = q * y + s
  BY Division
<1> HIDE DEF y, s
<1>2. ASSUME NEW u \in Nat, NEW v \in Nat, u < v PROVE q * u + q <= q * v
  <2>1. u + 1 <= v
    BY <1>2
  <2>2. q * (u + 1) <= q * v
    BY <2>1
  <2> QED BY <2>2
<1>3. q * x \in Nat /\ q * y \in Nat
  BY <1>1
<1>4. ~(x < y) /\ ~(y < x)
  BY <1>1, <1>2, <1>3
<1>5. y = x
  BY <1>1, <1>4
<1> QED BY <1>5 DEF y

(* ReadDigit: with the next digit, the number of the digits before it is   *)
(* the number of the digits up to it.                                      *)
LEMMA NextDigit ==
  ASSUME NEW n \in Nat, NEW q \in Nat \ {0}
  PROVE  Base * (n \div (Base * q)) + ((n \div q) % Base) = n \div q
<1> DEFINE a == n \div q
           r == n % q
           c == a \div Base
           d == a % Base
<1>1. a \in Nat /\ r \in Nat /\ r < q /\ n = q * a + r
  BY Division
<1>2. c \in Nat /\ d \in Nat /\ d < Base /\ a = Base * c + d
  BY <1>1, Division, ParseAssumption
<1> HIDE DEF a, r, c, d
<1>3. Base * q \in Nat \ {0} /\ q * d + r \in Nat
  BY <1>1, <1>2, ParseAssumption
<1>4. q * d + r < Base * q
  <2>1. d + 1 <= Base
    BY <1>2, ParseAssumption
  <2>2. q * (d + 1) <= q * Base
    BY <1>2, <2>1, ParseAssumption
  <2>3. q * (d + 1) = q * d + q /\ q * Base = Base * q
    BY <1>2, ParseAssumption
  <2> QED BY <1>1, <1>2, <1>3, <2>2, <2>3, ParseAssumption
<1>5. n = (Base * q) * c + (q * d + r)
  BY <1>1, <1>2, ParseAssumption
<1>6. n \div (Base * q) = c
  BY <1>2, <1>3, <1>4, <1>5, Quotient
<1>7. Base * (n \div (Base * q)) + d = a
  BY <1>2, <1>6
<1> QED BY <1>7, Zenon DEF a, d

-----------------------------------------------------------------------------
(* What is on the wire.                                                    *)

Item == [byte : Nat, part : {"header", "size", "data", "end"}]

LEMMA MarkedIs ==
  ASSUME NEW s \in Seq(Nat), NEW part \in {"header", "size", "data", "end"}
  PROVE  /\ Marked(s, part) \in Seq(Item) /\ Len(Marked(s, part)) = Len(s)
         /\ \A i \in 1 .. Len(s) : Marked(s, part)[i] = [byte |-> s[i], part |-> part]
<1>1. Len(s) \in Nat /\ \A i \in 1 .. Len(s) : s[i] \in Nat
  BY LenProperties, ElementOfSeq
<1>2. \A i \in 1 .. Len(s) : [byte |-> s[i], part |-> part] \in Item
  BY <1>1 DEF Item
<1>3. Marked(s, part) \in [1 .. Len(s) -> Item]
  BY <1>2 DEF Marked
<1>4. Marked(s, part) \in Seq(Item) /\ Len(Marked(s, part)) = Len(s)
  BY <1>1, <1>3
<1> QED BY <1>4 DEF Marked

LEMMA LineEnds ==
  /\ CR \in Nat /\ LF \in Nat /\ Text \in Nat /\ CR # LF /\ CR # Text
  /\ ~(CR < Base) /\ ~(LF < Base) /\ 0 < Base
  BY ParseAssumption DEF CR, LF, Text

LEMMA DigitsAre ==
  ASSUME NEW n \in Nat \ {0}
  PROVE  /\ Digits(n) \in Seq(Nat) /\ Len(Digits(n)) = Width(n)
         /\ \A i \in 1 .. Width(n) :
              Digits(n)[i] = (n \div Power[Width(n) - i]) % Base /\ Digits(n)[i] < Base
<1> DEFINE w == Width(n)
<1>1. w \in Nat
  BY WidthIs
<1> HIDE DEF w
<1>2. ASSUME NEW i \in 1 .. w
      PROVE  /\ (n \div Power[w - i]) % Base \in Nat
             /\ (n \div Power[w - i]) % Base < Base
  <2>1. w - i \in Nat
    BY <1>1
  <2>2. Power[w - i] \in Nat \ {0}
    BY <2>1, PowerIs
  <2>3. n \div Power[w - i] \in Nat
    BY <2>2, Division
  <2> QED BY <2>3, Division, ParseAssumption
<1>3. Digits(n) = [i \in 1 .. w |-> (n \div Power[w - i]) % Base]
  BY DEF Digits, w
<1>4. Digits(n) \in [1 .. w -> Nat]
  BY <1>2, <1>3
<1>5. Digits(n) \in Seq(Nat) /\ Len(Digits(n)) = w
  BY <1>1, <1>4
<1>6. \A i \in 1 .. w : Digits(n)[i] = (n \div Power[w - i]) % Base /\ Digits(n)[i] < Base
  BY <1>2, <1>3
<1> QED BY <1>5, <1>6 DEF w

(* A chunk, byte by byte.                                                  *)
LEMMA ChunkIs ==
  ASSUME NEW data \in Seq(Nat), data # <<>>
  PROVE  LET n == Len(data)
             w == Width(n)
             c == Chunk(data)
         IN  /\ n \in Nat \ {0} /\ w \in Nat \ {0}
             /\ c \in Seq(Item) /\ Len(c) = w + n + 4
             /\ \A i \in 1 .. w :
                  c[i] = [byte |-> (n \div Power[w - i]) % Base, part |-> "size"]
                  /\ c[i].byte < Base
             /\ c[w + 1] = [byte |-> CR, part |-> "size"]
             /\ c[w + 2] = [byte |-> LF, part |-> "size"]
             /\ \A i \in 1 .. n : c[w + 2 + i] = [byte |-> data[i], part |-> "data"]
             /\ c[w + n + 3] = [byte |-> CR, part |-> "end"]
             /\ c[w + n + 4] = [byte |-> LF, part |-> "end"]
<1> DEFINE n == Len(data)
           w == Width(n)
           d == Digits(n)
           e == <<CR, LF>>
           c1 == Marked(d \o e, "size")
           c2 == Marked(data, "data")
           c3 == Marked(e, "end")
           c == Chunk(data)
<1>1. n \in Nat \ {0}
  BY EmptySeq
<1>2. w \in Nat \ {0}
  BY <1>1, WidthIs
<1>3. /\ d \in Seq(Nat) /\ Len(d) = w
      /\ \A i \in 1 .. w : d[i] = (n \div Power[w - i]) % Base /\ d[i] < Base
  BY <1>1, DigitsAre
<1>4. e \in Seq(Nat) /\ Len(e) = 2 /\ e[1] = CR /\ e[2] = LF
  BY LineEnds
<1>5. c = (c1 \o c2) \o c3
  BY DEF Chunk
<1> HIDE DEF n, w, d, e, c1, c2, c3, c
<1>6. /\ d \o e \in Seq(Nat) /\ Len(d \o e) = w + 2
      /\ \A i \in 1 .. w : (d \o e)[i] = d[i]
      /\ (d \o e)[w + 1] = CR /\ (d \o e)[w + 2] = LF
  <2>1. /\ d \o e \in Seq(Nat) /\ Len(d \o e) = w + 2
        /\ \A i \in 1 .. w : (d \o e)[i] = d[i]
        /\ \A i \in 1 .. 2 : (d \o e)[w + i] = e[i]
    <3>0. d \in Seq(Nat) /\ e \in Seq(Nat)
      BY <1>3, <1>4
    <3>1. d \in Seq(Nat) /\ e \in Seq(Nat) /\ Len(d) = w /\ Len(e) = 2
      BY <1>3, <1>4
    <3>2. /\ d \o e \in Seq(Nat) /\ Len(d \o e) = Len(d) + Len(e)
          /\ \A i \in 1 .. Len(d) : (d \o e)[i] = d[i]
          /\ \A i \in 1 .. Len(e) : (d \o e)[Len(d) + i] = e[i]
      BY <3>0
    <3> QED BY <3>1, <3>2
  <2>2. 1 \in 1 .. 2 /\ 2 \in 1 .. 2
    OBVIOUS
  <2> QED BY <1>4, <2>1, <2>2
<1>7. /\ c1 \in Seq(Item) /\ Len(c1) = w + 2
      /\ \A i \in 1 .. w + 2 : c1[i] = [byte |-> (d \o e)[i], part |-> "size"]
  BY <1>6, MarkedIs DEF c1
<1>8. /\ c2 \in Seq(Item) /\ Len(c2) = n
      /\ \A i \in 1 .. n : c2[i] = [byte |-> data[i], part |-> "data"]
  BY MarkedIs DEF c2, n
<1>9. /\ c3 \in Seq(Item) /\ Len(c3) = 2
      /\ c3[1] = [byte |-> CR, part |-> "end"] /\ c3[2] = [byte |-> LF, part |-> "end"]
  BY <1>4, MarkedIs DEF c3
<1>10. /\ c1 \o c2 \in Seq(Item) /\ Len(c1 \o c2) = (w + 2) + n
       /\ \A i \in 1 .. w + 2 : (c1 \o c2)[i] = c1[i]
       /\ \A i \in 1 .. n : (c1 \o c2)[(w + 2) + i] = c2[i]
  <2>1. c1 \in Seq(Item) /\ c2 \in Seq(Item)
    BY <1>7, <1>8
  <2>2. /\ c1 \o c2 \in Seq(Item) /\ Len(c1 \o c2) = Len(c1) + Len(c2)
        /\ \A i \in 1 .. Len(c1) : (c1 \o c2)[i] = c1[i]
        /\ \A i \in 1 .. Len(c2) : (c1 \o c2)[Len(c1) + i] = c2[i]
    BY <2>1
  <2> QED BY <1>7, <1>8, <2>2
<1>11. /\ c \in Seq(Item) /\ Len(c) = ((w + 2) + n) + 2
       /\ \A i \in 1 .. (w + 2) + n : c[i] = (c1 \o c2)[i]
       /\ \A i \in 1 .. 2 : c[((w + 2) + n) + i] = c3[i]
  <2> DEFINE g == c1 \o c2
  <2>1. /\ g \in Seq(Item) /\ c3 \in Seq(Item) /\ Len(g) = (w + 2) + n /\ Len(c3) = 2
        /\ c = g \o c3
    BY <1>5, <1>9, <1>10
  <2>0. g \in Seq(Item) /\ c3 \in Seq(Item)
    BY <2>1
  <2> HIDE DEF g
  <2>2. /\ g \o c3 \in Seq(Item) /\ Len(g \o c3) = Len(g) + Len(c3)
        /\ \A i \in 1 .. Len(g) : (g \o c3)[i] = g[i]
        /\ \A i \in 1 .. Len(c3) : (g \o c3)[Len(g) + i] = c3[i]
    BY <2>0
  <2> QED BY <2>1, <2>2 DEF g
<1>12. ASSUME NEW i \in 1 .. w + 2 PROVE c[i] = [byte |-> (d \o e)[i], part |-> "size"]
  <2>1. i \in 1 .. (w + 2) + n
    BY <1>1, <1>2
  <2> QED BY <1>7, <1>10, <1>11, <2>1
<1>13. ASSUME NEW i \in 1 .. n
       PROVE  c[w + 2 + i] = [byte |-> data[i], part |-> "data"]
  <2>1. (w + 2) + i \in 1 .. (w + 2) + n
    BY <1>1, <1>2
  <2> QED BY <1>8, <1>10, <1>11, <2>1
<1>14. c[w + n + 3] = c3[1] /\ c[w + n + 4] = c3[2]
  <2>1. /\ w + n + 3 = ((w + 2) + n) + 1 /\ w + n + 4 = ((w + 2) + n) + 2
        /\ 1 \in 1 .. 2 /\ 2 \in 1 .. 2
    BY <1>1, <1>2
  <2> QED BY <1>11, <2>1
<1>15. ASSUME NEW i \in 1 .. w
       PROVE  /\ c[i] = [byte |-> (n \div Power[w - i]) % Base, part |-> "size"]
              /\ c[i].byte < Base
  <2>1. i \in 1 .. w + 2
    BY <1>2
  <2>2. /\ d[i] = (n \div Power[w - i]) % Base /\ d[i] < Base /\ (d \o e)[i] = d[i]
    BY <1>3, <1>6
  <2>3. c[i] = [byte |-> d[i], part |-> "size"]
    BY <1>12, <2>1, <2>2
  <2> QED BY <2>2, <2>3
<1>16. c[w + 1] = [byte |-> CR, part |-> "size"] /\ c[w + 2] = [byte |-> LF, part |-> "size"]
  <2>1. w + 1 \in 1 .. w + 2 /\ w + 2 \in 1 .. w + 2
    BY <1>2
  <2> QED BY <1>6, <1>12, <2>1
<1>17. Len(c) = w + n + 4
  BY <1>1, <1>2, <1>11
<1> QED BY <1>1, <1>2, <1>9, <1>11, <1>13, <1>14, <1>15, <1>16, <1>17 DEF n, w, c

-----------------------------------------------------------------------------
(* The chunks of a body.                                                   *)

Positions(cuts) == {0} \cup cuts

LEMMA CutsAre ==
  ASSUME NEW b \in Seq(Nat), NEW cuts \in Cuts(b)
  PROVE  /\ Positions(cuts) \subseteq 0 .. Len(b) /\ Len(b) \in Positions(cuts)
         /\ 0 \in Positions(cuts) /\ cuts \subseteq 1 .. Len(b)
         /\ Len(b) \in Nat /\ (Len(b) # 0 => Len(b) \in cuts)
<1>1. Len(b) \in Nat
  BY LenProperties
<1>2. PICK c \in SUBSET (1 .. Len(b) - 1) : cuts = c \cup ({Len(b)} \ {0})
  BY DEF Cuts
<1>3. ASSUME NEW x \in cuts PROVE x \in 1 .. Len(b)
  <2>1. x \in 1 .. Len(b) - 1 \/ (x = Len(b) /\ x # 0)
    BY <1>2
  <2> QED BY <1>1, <2>1
<1>4. ASSUME NEW x \in Positions(cuts) PROVE x \in 0 .. Len(b)
  BY <1>1, <1>3 DEF Positions
<1>5. Len(b) # 0 => Len(b) \in cuts
  BY <1>2
<1> QED BY <1>1, <1>3, <1>4, <1>5 DEF Positions

(* The least cut behind a position.                                        *)
LEMMA AfterIs ==
  ASSUME NEW b \in Seq(Nat), NEW cuts \in Cuts(b), NEW p \in Positions(cuts), p # Len(b)
  PROVE  /\ After(cuts, p) \in Positions(cuts) /\ After(cuts, p) \in Nat
         /\ p < After(cuts, p) /\ After(cuts, p) <= Len(b)
<1> DEFINE Behind(q) == q \in cuts /\ q > p
           Next1(q) == Behind(q) /\ \A r \in cuts : r > p => q <= r
           S == {k \in Nat : (\E q \in 0 .. k : Behind(q)) => \E q \in cuts : Next1(q)}
<1>1. /\ cuts \subseteq 1 .. Len(b) /\ Len(b) \in Nat /\ p \in 0 .. Len(b)
      /\ Len(b) # 0 => Len(b) \in cuts
  BY CutsAre
<1>2. 0 \in S
  BY <1>1
<1>3. ASSUME NEW k \in Nat, k \in S PROVE k + 1 \in S
  <2> SUFFICES ASSUME NEW q \in 0 .. k + 1, Behind(q) PROVE \E r \in cuts : Next1(r)
    OBVIOUS
  <2>1. CASE \E r \in 0 .. k : Behind(r)
    BY <1>3, <2>1
  <2>2. CASE ~\E r \in 0 .. k : Behind(r)
    <3>1. \A r \in cuts : r > p => k + 1 <= r
      BY <1>1, <2>2
    <3>2. q = k + 1
      BY <2>2
    <3>3. Next1(q)
      BY <3>1, <3>2
    <3> QED BY <3>3
  <2> QED BY <2>1, <2>2
<1> HIDE DEF S
<1>4. Nat \subseteq S
  BY <1>2, <1>3, Induction
<1>5. Len(b) \in 0 .. Len(b) /\ Behind(Len(b))
  BY <1>1
<1>6. \E q \in cuts : Next1(q)
  BY <1>1, <1>4, <1>5 DEF S
<1>7. After(cuts, p) \in cuts /\ After(cuts, p) > p
  BY <1>6, Zenon DEF After
<1>8. \A q \in cuts : q \in Nat /\ q <= Len(b) /\ q \in Positions(cuts)
  BY <1>1 DEF Positions
<1>9. \A q \in cuts : q > p => p < q
  BY <1>1
<1> QED BY <1>7, <1>8, <1>9, Zenon

LastChunk == Marked(<<0, CR, LF, CR, LF>>, "end")

NextOne(b, cuts, p) == Chunk(SubSeq(b, p + 1, After(cuts, p)))

LEMMA LastChunkIs ==
  /\ LastChunk \in Seq(Item) /\ Len(LastChunk) = 5
  /\ \A i \in 1 .. 5 : LastChunk[i].part = "end"
  /\ LastChunk[1].byte = 0 /\ LastChunk[2].byte = CR
<1> DEFINE s == <<0, CR, LF, CR, LF>>
<1>1. s \in Seq(Nat) /\ Len(s) = 5 /\ s[1] = 0 /\ s[2] = CR
  BY LineEnds
<1> HIDE DEF s
<1>2. /\ LastChunk \in Seq(Item) /\ Len(LastChunk) = 5
      /\ \A i \in 1 .. 5 : LastChunk[i] = [byte |-> s[i], part |-> "end"]
  BY <1>1, MarkedIs DEF LastChunk, s
<1> QED BY <1>1, <1>2

LEMMA NextOneIs ==
  ASSUME NEW b \in Seq(Nat), NEW cuts \in Cuts(b), NEW p \in Positions(cuts), p # Len(b)
  PROVE  LET q == After(cuts, p)
             n == q - p
             w == Width(n)
             c == NextOne(b, cuts, p)
         IN  /\ n \in Nat \ {0} /\ w \in Nat \ {0}
             /\ c \in Seq(Item) /\ Len(c) = w + n + 4
             /\ \A i \in 1 .. w :
                  c[i] = [byte |-> (n \div Power[w - i]) % Base, part |-> "size"]
                  /\ c[i].byte < Base
             /\ c[w + 1] = [byte |-> CR, part |-> "size"]
             /\ c[w + 2] = [byte |-> LF, part |-> "size"]
             /\ \A i \in 1 .. n : c[w + 2 + i] = [byte |-> b[p + i], part |-> "data"]
             /\ c[w + n + 3] = [byte |-> CR, part |-> "end"]
             /\ c[w + n + 4] = [byte |-> LF, part |-> "end"]
<1> DEFINE q == After(cuts, p)
           data == SubSeq(b, p + 1, q)
<1>1. q \in Nat /\ p \in Nat /\ p < q /\ q <= Len(b) /\ Len(b) \in Nat
  BY AfterIs, CutsAre
<1> HIDE DEF q
<1>2. /\ data \in Seq(Nat) /\ Len(data) = q - p
      /\ \A i \in 1 .. q - p : data[i] = b[p + i]
  <2>1. \A i \in p + 1 .. q : b[i] \in Nat
    BY <1>1, ElementOfSeq
  <2>2. /\ data \in Seq(Nat) /\ Len(data) = IF p + 1 <= q THEN q - (p + 1) + 1 ELSE 0
        /\ \A i \in 1 .. q - (p + 1) + 1 : data[i] = b[(p + 1) + i - 1]
    BY <1>1, <2>1, SubSeqProperties
  <2>3. q - (p + 1) + 1 = q - p /\ p + 1 <= q
    BY <1>1
  <2>4. \A i \in 1 .. q - p : (p + 1) + i - 1 = p + i
    BY <1>1
  <2> HIDE DEF data
  <2> QED BY <2>2, <2>3, <2>4
<1> HIDE DEF data
<1>3. data # <<>>
  BY <1>1, <1>2, EmptySeq
<1>4. NextOne(b, cuts, p) = Chunk(data)
  BY DEF NextOne, data, q
<1> DEFINE n == q - p
           w == Width(n)
           c == Chunk(data)
<1>5. /\ n \in Nat \ {0} /\ w \in Nat \ {0}
      /\ c \in Seq(Item) /\ Len(c) = w + n + 4
      /\ \A i \in 1 .. w :
           c[i] = [byte |-> (n \div Power[w - i]) % Base, part |-> "size"]
           /\ c[i].byte < Base
      /\ c[w + 1] = [byte |-> CR, part |-> "size"]
      /\ c[w + 2] = [byte |-> LF, part |-> "size"]
      /\ \A i \in 1 .. n : c[w + 2 + i] = [byte |-> data[i], part |-> "data"]
      /\ c[w + n + 3] = [byte |-> CR, part |-> "end"]
      /\ c[w + n + 4] = [byte |-> LF, part |-> "end"]
  BY <1>2, <1>3, ChunkIs
<1>6. \A i \in 1 .. n : data[i] = b[p + i]
  BY <1>2
<1> HIDE DEF n, w, c
<1>7. \A i \in 1 .. n : c[w + 2 + i] = [byte |-> b[p + i], part |-> "data"]
  BY <1>5, <1>6
<1> QED BY <1>4, <1>5, <1>7 DEF n, w, c, q

(* The chunks of which the rest of the body consists.                      *)
LEMMA TailsAre ==
  ASSUME NEW b \in Seq(Nat), NEW cuts \in Cuts(b)
  PROVE  /\ Tails(b, cuts)[Len(b)] = LastChunk
         /\ \A p \in Positions(cuts) :
              /\ Tails(b, cuts)[p] \in Seq(Item)
              /\ p # Len(b) => Tails(b, cuts)[p]
                                 = NextOne(b, cuts, p) \o Tails(b, cuts)[After(cuts, p)]
<1> DEFINE P == Positions(cuts)
           l == Len(b)
           Step(f, p) == IF p = l THEN LastChunk
                         ELSE NextOne(b, cuts, p) \o f[After(cuts, p)]
           Upto(f, k) == \A p \in P : l - p <= k => f[p] = Step(f, p)
           S == {k \in Nat : \E f \in [P -> Seq(Item)] : Upto(f, k)}
<1>1. P \subseteq 0 .. l /\ l \in P /\ l \in Nat
  BY CutsAre
<1>2. ASSUME NEW p \in P, p # l
      PROVE  /\ NextOne(b, cuts, p) \in Seq(Item) /\ After(cuts, p) \in P
             /\ l - After(cuts, p) < l - p
             /\ l - p \in Int /\ l - After(cuts, p) \in Int
  <2> DEFINE q == After(cuts, p)
  <2>1. NextOne(b, cuts, p) \in Seq(Item)
    BY <1>2, NextOneIs
  <2>2. q \in P /\ q \in Nat /\ p < q
    BY <1>2, AfterIs
  <2>3. p \in Nat
    BY <1>1
  <2> HIDE DEF q, P, l
  <2>4. l - q < l - p /\ l - p \in Int /\ l - q \in Int
    BY <1>1, <2>2, <2>3
  <2> QED BY <2>1, <2>2, <2>4 DEF q
<1>3. ASSUME NEW f \in [P -> Seq(Item)], NEW p \in P PROVE Step(f, p) \in Seq(Item)
  <2>1. CASE p = l
    BY <2>1, LastChunkIs
  <2>2. CASE p # l
    BY <1>2, <2>2
  <2> QED BY <2>1, <2>2
<1> HIDE DEF P, l
<1>4. 0 \in S
  <2> DEFINE f == [p \in P |-> LastChunk]
  <2>1. f \in [P -> Seq(Item)]
    BY LastChunkIs
  <2>2. Upto(f, 0)
    BY <1>1
  <2> HIDE DEF f, Upto
  <2> QED BY <2>1, <2>2
<1>5. ASSUME NEW k \in Nat, k \in S PROVE k + 1 \in S
  <2>1. PICK f \in [P -> Seq(Item)] : Upto(f, k)
    BY <1>5
  <2> DEFINE g == [p \in P |-> IF l - p <= k THEN f[p] ELSE Step(f, p)]
  <2>2. g \in [P -> Seq(Item)]
    BY <1>3
  <2>3. ASSUME NEW p \in P, l - p <= k + 1 PROVE g[p] = Step(g, p)
    <3>1. g[p] = Step(f, p)
      BY <2>1
    <3>2. p # l => g[After(cuts, p)] = f[After(cuts, p)]
      <4> SUFFICES ASSUME p # l PROVE g[After(cuts, p)] = f[After(cuts, p)]
        OBVIOUS
      <4>1. After(cuts, p) \in P /\ l - After(cuts, p) < l - p /\ l - p \in Int
            /\ l - After(cuts, p) \in Int
        BY <1>2
      <4>2. l - After(cuts, p) <= k
        BY <2>3, <4>1
      <4> QED BY <4>1, <4>2
    <3> HIDE DEF g
    <3> QED BY <3>1, <3>2
  <2> HIDE DEF g, Step
  <2> QED BY <2>2, <2>3
<1> HIDE DEF S
<1>6. Nat \subseteq S
  BY <1>4, <1>5, Induction
<1>7. PICK f \in [P -> Seq(Item)] : Upto(f, l)
  BY <1>1, <1>6 DEF S
<1>8. f = [p \in P |-> Step(f, p)]
  <2>1. \A p \in P : l - p <= l
    BY <1>1
  <2> HIDE DEF Step
  <2> QED BY <1>7, <2>1
<1>9. Tails(b, cuts) = [p \in P |-> Step(Tails(b, cuts), p)]
  BY <1>8, Zenon DEF Tails, P, l, Positions, NextOne, LastChunk
<1> DEFINE F == Tails(b, cuts)
<1>10. \A p \in P : F[p] = Step(F, p)
  <2> HIDE DEF Step, F
  <2> QED BY <1>9 DEF F
<1> DEFINE T == {k \in Nat : \A p \in P : l - p <= k => F[p] \in Seq(Item)}
<1> HIDE DEF F
<1>11. 0 \in T
  <2>1. F[l] = LastChunk
    BY <1>1, <1>10
  <2> QED BY <1>1, <2>1, LastChunkIs
<1>12. ASSUME NEW k \in Nat, k \in T PROVE k + 1 \in T
  <2> SUFFICES ASSUME NEW p \in P, l - p <= k + 1 PROVE F[p] \in Seq(Item)
    OBVIOUS
  <2>1. CASE p = l
    BY <1>10, <2>1, LastChunkIs
  <2>2. CASE p # l
    <3>1. After(cuts, p) \in P /\ l - After(cuts, p) < l - p /\ l - p \in Int
          /\ l - After(cuts, p) \in Int
      BY <1>2, <2>2
    <3>2. F[After(cuts, p)] \in Seq(Item)
      BY <1>12, <3>1
    <3>3. F[p] = NextOne(b, cuts, p) \o F[After(cuts, p)]
      BY <1>10, <2>2
    <3> QED BY <1>2, <2>2, <3>2, <3>3
  <2> QED BY <2>1, <2>2
<1> HIDE DEF T
<1>13. Nat \subseteq T
  BY <1>11, <1>12, Induction
<1>14. ASSUME NEW p \in P PROVE F[p] \in Seq(Item)
  <2>1. l \in T /\ l - p <= l
    BY <1>1, <1>13
  <2> QED BY <2>1 DEF T
<1> QED BY <1>1, <1>10, <1>14 DEF P, l, F

-----------------------------------------------------------------------------
(* What came of a body.                                                    *)

DataIn(W, k) == {i \in 1 .. k : W[i].part = "data"}

Count(W, k) == Cardinality(DataIn(W, k))

LEMMA CountIs ==
  ASSUME NEW W, NEW k \in Nat, NEW l \in Nat, k <= l
  PROVE  /\ Count(W, k) \in Nat /\ Count(W, k) <= Count(W, l)
         /\ (\A i \in k + 1 .. l : W[i].part # "data") => Count(W, l) = Count(W, k)
         /\ (\A i \in k + 1 .. l : W[i].part = "data") => Count(W, l) = Count(W, k) + (l - k)
<1> DEFINE D == DataIn(W, k)
           E == DataIn(W, l)
<1>1. IsFiniteSet(1 .. k) /\ IsFiniteSet(1 .. l)
  BY FS_Interval
<1>2. D \subseteq 1 .. k /\ E \subseteq 1 .. l /\ D \subseteq E
  BY DEF DataIn
<1>3. IsFiniteSet(D) /\ IsFiniteSet(E)
  BY <1>1, <1>2, FS_Subset
<1>4. Cardinality(D) \in Nat /\ Cardinality(D) <= Cardinality(E)
  BY <1>2, <1>3, FS_CardinalityType, FS_Subset
<1>5. ASSUME \A i \in k + 1 .. l : W[i].part # "data" PROVE D = E
  <2>1. ASSUME NEW i \in E PROVE i \in D
    <3>1. i \in 1 .. l /\ W[i].part = "data"
      BY DEF DataIn
    <3>2. i \in 1 .. k
      BY <1>5, <3>1
    <3> QED BY <3>1, <3>2 DEF DataIn
  <2> QED BY <1>2, <2>1
<1>6. ASSUME \A i \in k + 1 .. l : W[i].part = "data"
      PROVE  Cardinality(E) = Cardinality(D) + (l - k)
  <2> DEFINE I == k + 1 .. l
  <2>1. E = D \cup I
    <3>1. ASSUME NEW i PROVE i \in E <=> i \in D \cup I
      BY <1>6 DEF DataIn
    <3> QED BY <3>1
  <2>2. D \cap I = {}
    BY <1>2
  <2>3. IsFiniteSet(I) /\ Cardinality(I) = l - k
    <3>1. /\ IsFiniteSet(I)
          /\ Cardinality(I) = IF k + 1 > l THEN 0 ELSE l - (k + 1) + 1
      BY FS_Interval
    <3> QED BY <3>1
  <2> HIDE DEF D, E, I
  <2>4. Cardinality(D \cup I) = Cardinality(D) + Cardinality(I) - Cardinality(D \cap I)
    BY <1>3, <2>3, FS_Union
  <2>5. Cardinality(D \cap I) = 0
    BY <2>2, FS_EmptySet
  <2> QED BY <1>4, <2>1, <2>3, <2>4, <2>5
<1> QED BY <1>4, <1>5, <1>6 DEF Count

(* s is what of W is left behind the first a items.                        *)
Rest(W, a, s) ==
  /\ a + Len(s) = Len(W)
  /\ \A i \in 1 .. Len(s) : W[a + i] = s[i]

LEMMA RestConcat ==
  ASSUME NEW W, NEW a \in Nat, NEW s \in Seq(Item), NEW t \in Seq(Item), Rest(W, a, s \o t)
  PROVE  /\ a + Len(s) <= Len(W) /\ \A i \in 1 .. Len(s) : W[a + i] = s[i]
         /\ Rest(W, a + Len(s), t)
<1> DEFINE m == Len(s)
           k == Len(t)
           u == s \o t
<1>1. m \in Nat /\ k \in Nat
  BY LenProperties
<1>2. /\ Len(u) = m + k /\ \A i \in 1 .. m : u[i] = s[i]
      /\ \A i \in 1 .. k : u[m + i] = t[i]
  OBVIOUS
<1> HIDE DEF m, k, u
<1>3. a + (m + k) = Len(W) /\ \A i \in 1 .. m + k : W[a + i] = u[i]
  BY <1>2 DEF Rest, u
<1>4. a + m <= Len(W) /\ (a + m) + k = Len(W)
  BY <1>1, <1>3
<1>5. ASSUME NEW i \in 1 .. m PROVE W[a + i] = s[i]
  <2>1. i \in 1 .. m + k
    BY <1>1
  <2> QED BY <1>2, <1>3, <2>1
<1>6. ASSUME NEW i \in 1 .. k PROVE W[(a + m) + i] = t[i]
  <2>1. m + i \in 1 .. m + k /\ a + (m + i) = (a + m) + i
    BY <1>1
  <2> QED BY <1>2, <1>3, <2>1
<1> QED BY <1>4, <1>5, <1>6 DEF Rest, m, k

(* A chunk begins behind the first a bytes of the wire, and the body was   *)
(* sent up to p.                                                           *)
Begins(b, cuts, W, a, p) ==
  /\ p \in Positions(cuts) /\ a \in Nat \ {0} /\ a <= Len(W)
  /\ W[a].part \notin {"size", "data"} /\ Count(W, a) = p
  /\ Rest(W, a, Tails(b, cuts)[p])

(* Behind the body only the chunk of size zero is left.                    *)
LEMMA BeginsLast ==
  ASSUME NEW b \in Seq(Nat), NEW cuts \in Cuts(b), NEW W \in Seq(Item), NEW a,
         Begins(b, cuts, W, a, Len(b))
  PROVE  /\ W[a + 1].byte = 0 /\ W[a + 2].byte = CR
         /\ a \in Nat /\ Len(W) = a + 5
         /\ \A k \in a .. a + 5 : W[k].part # "size" /\ Count(W, k) = Len(b)
<1>1. /\ a \in Nat /\ a # 0 /\ a + 5 = Len(W) /\ W[a].part # "size"
      /\ Count(W, a) = Len(b)
      /\ \A i \in 1 .. 5 : W[a + i] = LastChunk[i]
  BY TailsAre, LastChunkIs DEF Begins, Rest
<1>2. \A i \in 1 .. 5 : W[a + i].part = "end"
  BY <1>1, LastChunkIs
<1>3. ASSUME NEW k \in a + 1 .. a + 5 PROVE W[k].part = "end"
  <2>1. k - a \in 1 .. 5 /\ a + (k - a) = k
    BY <1>1
  <2> QED BY <1>2, <2>1
<1>4. ASSUME NEW k \in a .. a + 5 PROVE W[k].part # "size" /\ Count(W, k) = Len(b)
  <2>1. k \in Nat /\ a <= k /\ (k = a \/ k \in a + 1 .. a + 5)
    BY <1>1
  <2>2. \A i \in a + 1 .. k : W[i].part # "data"
    BY <1>1, <1>3
  <2> QED BY <1>1, <1>3, <2>1, <2>2, CountIs
<1>5. 1 \in 1 .. 5 /\ 2 \in 1 .. 5
  OBVIOUS
<1> QED BY <1>1, <1>4, <1>5, LastChunkIs

(* Before that, the wire holds a whole chunk and another beginning.        *)
LEMMA BeginsOne ==
  ASSUME NEW b \in Seq(Nat), NEW cuts \in Cuts(b), NEW W \in Seq(Item), NEW a, NEW p,
         Begins(b, cuts, W, a, p), p # Len(b)
  PROVE  LET q == After(cuts, p)
             n == q - p
             w == Width(n)
         IN  /\ a \in Nat /\ p \in Nat /\ q \in Nat /\ p < q /\ q <= Len(b)
             /\ n \in Nat \ {0} /\ w \in Nat \ {0} /\ a + w + n + 4 <= Len(W)
             /\ \A i \in 1 .. w : /\ W[a + i].byte = (n \div Power[w - i]) % Base
                                  /\ W[a + i].byte < Base
             /\ W[a + w + 1].byte = CR /\ W[a + w + 2].byte = LF
             /\ \A i \in 1 .. n : W[a + w + 2 + i].byte = b[p + i]
             /\ W[a + w + n + 3].byte = CR /\ W[a + w + n + 4].byte = LF
             /\ \A k \in a .. a + w : ~(W[k].part = "size" /\ W[k].byte = CR)
             /\ W[a + w + 1].part = "size"
             /\ \A k \in a + w + 2 .. a + w + n + 4 : ~(W[k].part = "size" /\ W[k].byte = CR)
             /\ \A k \in a .. a + w + 2 : Count(W, k) = p
             /\ \A k \in 0 .. n : Count(W, a + w + 2 + k) = p + k
             /\ Count(W, a + w + n + 3) = q
             /\ Begins(b, cuts, W, a + w + n + 4, q)
<1> DEFINE q == After(cuts, p)
           n == q - p
           w == Width(n)
           c == NextOne(b, cuts, p)
           t == Tails(b, cuts)[q]
<1>1. /\ p \in Positions(cuts) /\ a \in Nat \ {0} /\ W[a].part # "size"
      /\ W[a].part # "data" /\ Count(W, a) = p
      /\ Rest(W, a, Tails(b, cuts)[p])
  BY DEF Begins
<1>2. q \in Positions(cuts) /\ q \in Nat /\ p < q /\ q <= Len(b) /\ p \in Nat
  BY <1>1, AfterIs, CutsAre
<1>3. /\ n \in Nat \ {0} /\ w \in Nat \ {0}
      /\ c \in Seq(Item) /\ Len(c) = w + n + 4
      /\ \A i \in 1 .. w : /\ c[i].byte = (n \div Power[w - i]) % Base /\ c[i].byte < Base
                           /\ c[i].part = "size"
      /\ c[w + 1].byte = CR /\ c[w + 1].part = "size"
      /\ c[w + 2].byte = LF /\ c[w + 2].part = "size"
      /\ \A i \in 1 .. n : c[w + 2 + i].byte = b[p + i] /\ c[w + 2 + i].part = "data"
      /\ c[w + n + 3].byte = CR /\ c[w + n + 3].part = "end"
      /\ c[w + n + 4].byte = LF /\ c[w + n + 4].part = "end"
  <2>1. /\ n \in Nat \ {0} /\ w \in Nat \ {0}
        /\ c \in Seq(Item) /\ Len(c) = w + n + 4
        /\ \A i \in 1 .. w :
             c[i] = [byte |-> (n \div Power[w - i]) % Base, part |-> "size"]
             /\ c[i].byte < Base
        /\ c[w + 1] = [byte |-> CR, part |-> "size"]
        /\ c[w + 2] = [byte |-> LF, part |-> "size"]
        /\ \A i \in 1 .. n : c[w + 2 + i] = [byte |-> b[p + i], part |-> "data"]
        /\ c[w + n + 3] = [byte |-> CR, part |-> "end"]
        /\ c[w + n + 4] = [byte |-> LF, part |-> "end"]
    BY <1>1, NextOneIs
  <2> HIDE DEF q, n, w, c
  <2>2. ASSUME NEW i \in 1 .. w
        PROVE  /\ c[i].byte = (n \div Power[w - i]) % Base /\ c[i].byte < Base
               /\ c[i].part = "size"
    <3> DEFINE x == (n \div Power[w - i]) % Base
    <3>1. c[i] = [byte |-> x, part |-> "size"] /\ c[i].byte < Base
      BY <2>1
    <3> HIDE DEF x
    <3>2. c[i].byte = x /\ c[i].part = "size"
      BY <3>1
    <3> QED BY <3>1, <3>2 DEF x
  <2>3. ASSUME NEW i \in 1 .. n
        PROVE  c[w + 2 + i].byte = b[p + i] /\ c[w + 2 + i].part = "data"
    <3>1. c[w + 2 + i] = [byte |-> b[p + i], part |-> "data"]
      BY <2>1
    <3> QED BY <3>1
  <2>4. /\ c[w + 1].byte = CR /\ c[w + 1].part = "size"
        /\ c[w + 2].byte = LF /\ c[w + 2].part = "size"
        /\ c[w + n + 3].byte = CR /\ c[w + n + 3].part = "end"
        /\ c[w + n + 4].byte = LF /\ c[w + n + 4].part = "end"
    <3>1. /\ c[w + 1] = [byte |-> CR, part |-> "size"]
          /\ c[w + 2] = [byte |-> LF, part |-> "size"]
          /\ c[w + n + 3] = [byte |-> CR, part |-> "end"]
          /\ c[w + n + 4] = [byte |-> LF, part |-> "end"]
      BY <2>1
    <3> QED BY <3>1
  <2>5. n \in Nat \ {0} /\ w \in Nat \ {0} /\ c \in Seq(Item) /\ Len(c) = w + n + 4
    BY <2>1
  <2> QED BY <2>2, <2>3, <2>4, <2>5
<1>4. t \in Seq(Item) /\ Tails(b, cuts)[p] = c \o t
  BY <1>1, <1>2, TailsAre
<1> HIDE DEF q, n, w, c, t
<1>5. /\ a + (w + n + 4) <= Len(W) /\ \A i \in 1 .. w + n + 4 : W[a + i] = c[i]
      /\ Rest(W, a + (w + n + 4), t)
  <2>1. Rest(W, a, c \o t)
    BY <1>1, <1>4
  <2>2. /\ a + Len(c) <= Len(W) /\ \A i \in 1 .. Len(c) : W[a + i] = c[i]
        /\ Rest(W, a + Len(c), t)
    BY <1>1, <1>3, <1>4, <2>1, RestConcat
  <2> QED BY <1>3, <2>2
<1> DEFINE d == a + w + 2
<1>6. a \in Nat /\ n \in Nat /\ w \in Nat /\ d \in Nat /\ p \in Nat
  BY <1>1, <1>2, <1>3
<1>7. ASSUME NEW i \in 1 .. w
      PROVE  /\ W[a + i].byte = (n \div Power[w - i]) % Base /\ W[a + i].byte < Base
             /\ W[a + i].part = "size"
  <2>1. i \in 1 .. w + n + 4
    BY <1>6
  <2> QED BY <1>3, <1>5, <2>1
<1>8. /\ W[a + w + 1].byte = CR /\ W[a + w + 1].part = "size"
      /\ W[a + w + 2].byte = LF /\ W[a + w + 2].part = "size"
  <2>1. /\ w + 1 \in 1 .. w + n + 4 /\ w + 2 \in 1 .. w + n + 4
        /\ a + (w + 1) = a + w + 1 /\ a + (w + 2) = a + w + 2
    BY <1>6
  <2> QED BY <1>3, <1>5, <2>1
<1>9. ASSUME NEW i \in 1 .. n
      PROVE  W[d + i].byte = b[p + i] /\ W[d + i].part = "data"
  <2>1. w + 2 + i \in 1 .. w + n + 4 /\ a + (w + 2 + i) = d + i
    BY <1>6
  <2>2. W[a + (w + 2 + i)] = c[w + 2 + i]
    BY <1>5, <2>1
  <2>3. W[d + i] = c[w + 2 + i]
    BY <2>1, <2>2
  <2>4. c[w + 2 + i].byte = b[p + i] /\ c[w + 2 + i].part = "data"
    BY <1>3
  <2> QED BY <2>3, <2>4
<1>10. /\ W[d + n + 1].byte = CR /\ W[d + n + 1].part = "end"
       /\ W[d + n + 2].byte = LF /\ W[d + n + 2].part = "end"
  <2>1. /\ w + n + 3 \in 1 .. w + n + 4 /\ w + n + 4 \in 1 .. w + n + 4
        /\ a + (w + n + 3) = d + n + 1 /\ a + (w + n + 4) = d + n + 2
    BY <1>6
  <2> QED BY <1>3, <1>5, <2>1
<1>11. ASSUME NEW k \in a .. a + w PROVE ~(W[k].part = "size" /\ W[k].byte = CR)
  <2>1. k = a \/ (k - a \in 1 .. w /\ a + (k - a) = k)
    BY <1>6
  <2> QED BY <1>1, <1>7, <2>1, LineEnds
<1>12. ASSUME NEW k \in d .. d + n + 2 PROVE ~(W[k].part = "size" /\ W[k].byte = CR)
  <2>1. \/ k = d \/ k = d + n + 1 \/ k = d + n + 2
        \/ k - d \in 1 .. n /\ d + (k - d) = k
    BY <1>6
  <2> QED BY <1>8, <1>9, <1>10, <2>1, LineEnds
<1>13. ASSUME NEW k \in a .. d PROVE Count(W, k) = p
  <2>1. ASSUME NEW i \in a + 1 .. k PROVE W[i].part # "data"
    <3>1. \/ i - a \in 1 .. w /\ a + (i - a) = i
          \/ i = a + w + 1 \/ i = a + w + 2
      BY <1>6
    <3> QED BY <1>7, <1>8, <3>1
  <2>2. k \in Nat /\ a <= k
    BY <1>6
  <2> QED BY <1>1, <1>6, <2>1, <2>2, CountIs
<1>14. ASSUME NEW k \in 0 .. n PROVE Count(W, d + k) = p + k
  <2>1. Count(W, d) = p
    <3>1. d \in a .. d
      BY <1>6
    <3> QED BY <1>13, <3>1
  <2>2. ASSUME NEW i \in d + 1 .. d + k PROVE W[i].part = "data"
    <3>1. i - d \in 1 .. n /\ d + (i - d) = i
      BY <1>6
    <3> QED BY <1>9, <3>1
  <2>3. d + k \in Nat /\ d <= d + k /\ (d + k) - d = k
    BY <1>6
  <2> HIDE DEF d
  <2>4. d \in Nat
    BY <1>6
  <2>5. Count(W, d + k) = Count(W, d) + ((d + k) - d)
    BY <2>2, <2>3, <2>4, CountIs
  <2> QED BY <2>1, <2>3, <2>5
<1>15. ASSUME NEW k \in d + n .. d + n + 2 PROVE Count(W, k) = q
  <2>1. Count(W, d + n) = p + n
    <3>1. n \in 0 .. n
      BY <1>6
    <3> QED BY <1>14, <3>1
  <2>2. p + n = q
    BY <1>2 DEF n
  <2>3. ASSUME NEW i \in d + n + 1 .. k PROVE W[i].part # "data"
    <3>1. i = d + n + 1 \/ i = d + n + 2
      BY <1>6
    <3> QED BY <1>10, <3>1
  <2>4. d + n \in Nat /\ k \in Nat /\ d + n <= k
    BY <1>6
  <2> HIDE DEF d
  <2> QED BY <2>1, <2>2, <2>3, <2>4, CountIs
<1>16. Begins(b, cuts, W, d + n + 2, q)
  <2>1. /\ d + n + 2 = a + (w + n + 4) /\ d + n + 2 \in Nat \ {0}
        /\ d + n + 2 \in d + n .. d + n + 2
    BY <1>6
  <2> QED BY <1>2, <1>5, <1>10, <1>15, <2>1 DEF Begins, t
<1>17. Count(W, d + n + 1) = q
  <2>1. d + n + 1 \in d + n .. d + n + 2
    BY <1>6
  <2> QED BY <1>15, <2>1
<1>18. /\ d + n + 2 = a + w + n + 4 /\ d + n + 1 = a + w + n + 3 /\ d = a + w + 2
       /\ a + (w + n + 4) = a + w + n + 4
  BY <1>6
<1> HIDE DEF d
<1>19. /\ \A k \in a + w + 2 .. a + w + n + 4 : ~(W[k].part = "size" /\ W[k].byte = CR)
       /\ \A k \in a .. a + w + 2 : Count(W, k) = p
       /\ \A k \in 0 .. n : Count(W, a + w + 2 + k) = p + k
       /\ \A i \in 1 .. n : W[a + w + 2 + i].byte = b[p + i]
  BY <1>9, <1>12, <1>13, <1>14, <1>18
<1>20. /\ a + w + n + 4 <= Len(W) /\ W[a + w + n + 3].byte = CR /\ W[a + w + n + 4].byte = LF
       /\ Count(W, a + w + n + 3) = q /\ Begins(b, cuts, W, a + w + n + 4, q)
  BY <1>5, <1>10, <1>16, <1>17, <1>18
<1> QED BY <1>2, <1>3, <1>6, <1>7, <1>8, <1>11, <1>19, <1>20 DEF q, n, w

-----------------------------------------------------------------------------
(* What the parser has to return, and where it is when it has done so.     *)

Room == MaxBody - 1

(* The right-hand side of BodyIsWhatCame.                                  *)
All ==
  SubSeq(sent, 1, Least(came, Room))
    \o (IF torn /\ came < Room THEN <<CR>> ELSE <<>>)

LEMMA PrefixIs ==
  ASSUME NEW s \in Seq(Nat), NEW k \in Nat, k <= Len(s)
  PROVE  /\ SubSeq(s, 1, k) \in Seq(Nat) /\ Len(SubSeq(s, 1, k)) = k
         /\ \A i \in 1 .. k : SubSeq(s, 1, k)[i] = s[i]
  OBVIOUS

LEMMA SameSequence ==
  ASSUME NEW s \in Seq(Nat), NEW t \in Seq(Nat), Len(s) = Len(t),
         \A i \in 1 .. Len(s) : s[i] = t[i]
  PROVE  s = t
  OBVIOUS

LEMMA NothingAdded == ASSUME NEW s \in Seq(Nat) PROVE s \o <<>> = s
  OBVIOUS

LEMMA SamePiece ==
  ASSUME NEW s \in Seq(Nat), NEW r \in Seq(Nat), NEW k \in Nat, NEW m \in Nat,
         k <= Len(s), m + k <= Len(r), \A i \in 1 .. k : r[m + i] = s[i]
  PROVE  SubSeq(r, m + 1, m + k) = SubSeq(s, 1, k)
<1> DEFINE x == SubSeq(s, 1, k)
           y == SubSeq(r, m + 1, m + k)
<1>1. x \in Seq(Nat) /\ Len(x) = k /\ \A i \in 1 .. k : x[i] = s[i]
  BY PrefixIs
<1>2. y \in Seq(Nat) /\ Len(y) = k /\ \A i \in 1 .. k : y[i] = r[m + i]
  BY PieceIs
<1> HIDE DEF x, y
<1>3. y = x
  BY <1>1, <1>2, SameSequence
<1> QED BY <1>3 DEF x, y

(* A further piece of the body is copied.                                  *)
Continues(s, p, r, m, k) ==
  /\ s \in Seq(Nat) /\ r \in Seq(Nat) /\ p \in Nat /\ k \in Nat /\ m \in Nat
  /\ p + k <= Len(s) /\ m + k <= Len(r) /\ \A i \in 1 .. k : r[m + i] = s[p + i]

Joined(s, p, r, m, k) ==
  SubSeq(s, 1, p) \o SubSeq(r, m + 1, m + k) = SubSeq(s, 1, p + k)

LEMMA Extended ==
  ASSUME NEW s, NEW p, NEW r, NEW m, NEW k, Continues(s, p, r, m, k)
  PROVE  Joined(s, p, r, m, k)
<1> DEFINE x == SubSeq(s, 1, p)
           y == SubSeq(r, m + 1, m + k)
           z == SubSeq(s, 1, p + k)
<1>a. /\ s \in Seq(Nat) /\ r \in Seq(Nat) /\ p \in Nat /\ k \in Nat /\ m \in Nat
      /\ p + k <= Len(s) /\ m + k <= Len(r)
  BY DEF Continues
<1>b. \A i \in 1 .. k : r[m + i] = s[p + i]
  BY DEF Continues
<1>0. Len(s) \in Nat /\ p <= Len(s) /\ p + k \in Nat
  BY <1>a, LenProperties
<1>1. x \in Seq(Nat) /\ Len(x) = p /\ \A i \in 1 .. p : x[i] = s[i]
  BY <1>0, <1>a, PrefixIs
<1>2. y \in Seq(Nat) /\ Len(y) = k /\ \A i \in 1 .. k : y[i] = r[m + i]
  BY <1>a, PieceIs
<1>3. z \in Seq(Nat) /\ Len(z) = p + k /\ \A i \in 1 .. p + k : z[i] = s[i]
  BY <1>0, <1>a, PrefixIs
<1> HIDE DEF x, y, z
<1>4. x \in Seq(Nat) /\ y \in Seq(Nat)
  BY <1>1, <1>2
<1>5. /\ x \o y \in Seq(Nat) /\ Len(x \o y) = Len(x) + Len(y)
      /\ \A i \in 1 .. Len(x) : (x \o y)[i] = x[i]
      /\ \A i \in 1 .. Len(y) : (x \o y)[Len(x) + i] = y[i]
  BY <1>4
<1>6. ASSUME NEW i \in 1 .. p + k PROVE (x \o y)[i] = z[i]
  <2>1. CASE i \in 1 .. p
    BY <1>1, <1>3, <1>5, <2>1
  <2>2. CASE i \notin 1 .. p
    <3>1. i - p \in 1 .. k /\ p + (i - p) = i
      BY <1>a, <2>2
    <3>2. (x \o y)[p + (i - p)] = y[i - p] /\ y[i - p] = r[m + (i - p)]
      BY <1>1, <1>2, <1>5, <3>1
    <3>3. r[m + (i - p)] = s[p + (i - p)]
      BY <1>b, <3>1
    <3> QED BY <1>3, <3>1, <3>2, <3>3
  <2> QED BY <2>1, <2>2
<1>7. x \o y = z
  BY <1>1, <1>2, <1>3, <1>5, <1>6, SameSequence
<1> QED BY <1>7 DEF x, y, z, Joined

(* What has to be returned, by what came of the body.                      *)
LEMMA AllIs ==
  ASSUME NEW p \in Nat, sent \in Seq(Nat), p <= Len(sent), came \in Nat
  PROVE  /\ came = p /\ p <= Room /\ ~torn => All = SubSeq(sent, 1, p)
         /\ p = Room /\ p <= came => All = SubSeq(sent, 1, p)
         /\ came = p /\ p < Room /\ torn => All = SubSeq(sent, 1, p) \o <<CR>>
<1> DEFINE x == SubSeq(sent, 1, p)
<1>1. x \in Seq(Nat) /\ x \o <<>> = x
  <2>1. x \in Seq(Nat)
    BY PrefixIs
  <2> HIDE DEF x
  <2> QED BY <2>1, NothingAdded
<1>2. Room \in Nat
  BY ParseAssumption DEF Room
<1>3. ASSUME came = p, p <= Room, ~torn PROVE All = x
  <2>1. Least(came, Room) = p
    BY <1>2, <1>3 DEF Least
  <2> QED BY <1>1, <1>3, <2>1 DEF All
<1>4. ASSUME p = Room, p <= came PROVE All = x
  <2>1. Least(came, Room) = p /\ ~(came < Room)
    BY <1>2, <1>4 DEF Least
  <2> QED BY <1>1, <2>1 DEF All
<1>5. ASSUME came = p, p < Room, torn PROVE All = x \o <<CR>>
  <2>1. Least(came, Room) = p
    BY <1>2, <1>5 DEF Least
  <2> QED BY <1>5, <2>1 DEF All
<1> QED BY <1>3, <1>4, <1>5

(* The response on the wire is W, and raw is what came of it.              *)
Carried(cuts, W) ==
  /\ sent \in Seq(Nat) /\ declared \in {0, Len(sent)}
  /\ chunked => cuts \in Cuts(sent)
  /\ W \in Seq(Item) /\ Len(W) >= 5 /\ \A i \in 1 .. 5 : W[i] = Header[i]
  /\ Rest(W, 5, IF chunked THEN Tails(sent, cuts)[0] ELSE Marked(sent, "data"))
  /\ Len(raw) <= Len(W) /\ \A i \in 1 .. Len(raw) : raw[i] = W[i].byte
  /\ came = Count(W, Len(raw))
  /\ torn <=> Len(raw) > 0 /\ W[Len(raw)].part = "size" /\ W[Len(raw)].byte = CR

(* The parser stands before a chunk, and has all of the body before it.    *)
AtChunk(cuts, W, a, p) ==
  /\ Begins(sent, cuts, W, a, p) /\ a <= Len(raw)
  /\ p <= Room /\ body = SubSeq(sent, 1, p)

(* Nothing can be added any more.                                          *)
Stuck == body = All /\ (src >= Len(raw) \/ Len(body) >= Room \/ ~AtDigit)

(* Some digits of the size are read.                                       *)
InSize(cuts, W, a, p) ==
  LET n == After(cuts, p) - p
      w == Width(n)
  IN  /\ AtChunk(cuts, W, a, p) /\ p < Room /\ a < Len(raw)
      /\ \/ p = Len(sent) /\ chunkSize = 0 /\ src \in {a, a + 1}
         \/ /\ p # Len(sent)
            /\ \E i \in 0 .. w :
                 /\ src = a + i /\ src <= Len(raw)
                 /\ chunkSize = n \div Power[w - i]
                 /\ hasDigits <=> i > 0
                 /\ i > 0 => chunkSize > 0

(* The size is read, unless the response broke off in it.                  *)
BehindSize(cuts, W, a, p) ==
  LET n == After(cuts, p) - p
      w == Width(n)
  IN  /\ AtChunk(cuts, W, a, p) /\ p < Room /\ p # Len(sent) /\ chunkSize > 0
      /\ \/ src = Len(raw) /\ src <= a + w
         \/ src = a + w /\ Len(raw) = a + w + 1 /\ chunkSize = n
         \/ src = a + w + 2 /\ src <= Len(raw) /\ chunkSize = n

(* Where the parser is, by pc.                                             *)
Place(cuts, W) ==
  /\ pc = "header" => body = <<>>
  /\ pc = "plain" => ~chunked /\ body = <<>> /\ src = Least(Len(raw), 5)
  /\ pc \in {"chunk", "size", "copy"} => chunked
  /\ pc = "chunk" => Stuck \/ \E p : AtChunk(cuts, W, src, p)
  /\ pc = "size" => \/ Stuck /\ src < Len(raw) /\ ~AtDigit /\ ~hasDigits
                    \/ \E a, p : InSize(cuts, W, a, p)
  /\ pc = "copy" => \E a, p : BehindSize(cuts, W, a, p)
  /\ pc = "done" => body = All

LEMMA HeaderIs ==
  /\ Len(Header) = 5 /\ Header \in Seq(Item)
  /\ \A i \in 1 .. 5 : Header[i].part = "header"
  /\ Header[1].byte = Text /\ Header[2].byte = CR /\ Header[3].byte = LF
  /\ Header[4].byte = CR /\ Header[5].byte = LF
<1> DEFINE s == <<Text, CR, LF, CR, LF>>
<1>1. /\ s \in Seq(Nat) /\ Len(s) = 5 /\ s[1] = Text /\ s[2] = CR /\ s[3] = LF
      /\ s[4] = CR /\ s[5] = LF
  BY LineEnds
<1> HIDE DEF s
<1>2. /\ Header \in Seq(Item) /\ Len(Header) = 5
      /\ \A i \in 1 .. 5 : Header[i] = [byte |-> s[i], part |-> "header"]
  BY <1>1, MarkedIs DEF Header, s
<1> QED BY <1>1, <1>2

(* The header holds nothing of the body.                                   *)
LEMMA InHeader ==
  ASSUME NEW cuts, NEW W, TypeOK, Carried(cuts, W)
  PROVE  /\ Len(raw) \in Nat /\ came \in Nat
         /\ \A i \in 1 .. 5 : W[i].part = "header" /\ Count(W, i) = 0
         /\ Count(W, 0) = 0
         /\ W[1].byte = Text /\ W[2].byte = CR /\ W[3].byte = LF
         /\ W[4].byte = CR /\ W[5].byte = LF
         /\ Len(raw) <= 5 => came = 0 /\ ~torn
<1>1. Len(raw) \in Nat
  BY DEF TypeOK
<1>2. \A i \in 1 .. 5 : W[i] = Header[i]
  BY DEF Carried
<1>3. \A i \in 1 .. 5 : W[i].part = "header"
  BY <1>2, HeaderIs
<1>4. /\ W[1].byte = Text /\ W[2].byte = CR /\ W[3].byte = LF
      /\ W[4].byte = CR /\ W[5].byte = LF
  <2>1. 1 \in 1 .. 5 /\ 2 \in 1 .. 5 /\ 3 \in 1 .. 5 /\ 4 \in 1 .. 5 /\ 5 \in 1 .. 5
    OBVIOUS
  <2> QED BY <1>2, <2>1, HeaderIs
<1>5. Count(W, 0) = 0
  <2>1. DataIn(W, 0) = {}
    BY DEF DataIn
  <2> QED BY <2>1, FS_EmptySet DEF Count
<1>6. ASSUME NEW i \in 0 .. 5 PROVE Count(W, i) = 0
  <2>1. \A j \in 0 + 1 .. i : W[j].part # "data"
    BY <1>3
  <2>2. i \in Nat /\ 0 <= i
    OBVIOUS
  <2> QED BY <1>5, <2>1, <2>2, CountIs
<1>7. came \in Nat
  <2>1. Count(W, Len(raw)) \in Nat
    BY <1>1, CountIs
  <2> QED BY <2>1 DEF Carried
<1>8. ASSUME Len(raw) <= 5 PROVE came = 0 /\ ~torn
  <2> DEFINE l == Len(raw)
  <2>1. came = Count(W, l) /\ (torn => l > 0 /\ W[l].part = "size")
    BY DEF Carried
  <2>2. l \in Nat /\ l <= 5
    BY <1>1, <1>8
  <2> HIDE DEF l
  <2>3. l \in 0 .. 5 /\ (l > 0 => l \in 1 .. 5)
    BY <2>2
  <2> QED BY <1>3, <1>6, <2>1, <2>3
<1> QED BY <1>1, <1>3, <1>4, <1>5, <1>6, <1>7, <1>8

LEMMA NoPrefix == ASSUME NEW s \in Seq(Nat) PROVE SubSeq(s, 1, 0) = <<>>
<1>1. Len(s) \in Nat /\ 0 <= Len(s)
  BY LenProperties
<1>2. SubSeq(s, 1, 0) \in Seq(Nat) /\ Len(SubSeq(s, 1, 0)) = 0
  BY <1>1, PrefixIs
<1> QED BY <1>2, EmptySeq

LEMMA FourBytes ==
  ASSUME NEW s \in Seq(Nat), NEW p \in Nat, p + 4 <= Len(s)
  PROVE  SubSeq(s, p + 1, p + 4) = EmptyLine
           <=> s[p + 1] = CR /\ s[p + 2] = LF /\ s[p + 3] = CR /\ s[p + 4] = LF
<1> DEFINE x == SubSeq(s, p + 1, p + 4)
<1>1. x \in Seq(Nat) /\ Len(x) = 4 /\ \A i \in 1 .. 4 : x[i] = s[p + i]
  BY PieceIs
<1>2. /\ EmptyLine \in Seq(Nat) /\ Len(EmptyLine) = 4
      /\ EmptyLine[1] = CR /\ EmptyLine[2] = LF /\ EmptyLine[3] = CR /\ EmptyLine[4] = LF
  BY LineEnds DEF EmptyLine
<1> HIDE DEF x
<1>3. x[1] = s[p + 1] /\ x[2] = s[p + 2] /\ x[3] = s[p + 3] /\ x[4] = s[p + 4]
  <2>1. 1 \in 1 .. 4 /\ 2 \in 1 .. 4 /\ 3 \in 1 .. 4 /\ 4 \in 1 .. 4
    OBVIOUS
  <2> QED BY <1>1, <2>1
<1>4. ASSUME x[1] = CR, x[2] = LF, x[3] = CR, x[4] = LF PROVE x = EmptyLine
  <2>1. \A i \in 1 .. 4 : i = 1 \/ i = 2 \/ i = 3 \/ i = 4
    OBVIOUS
  <2>2. \A i \in 1 .. 4 : x[i] = EmptyLine[i]
    BY <1>2, <1>4, <2>1
  <2> QED BY <1>1, <1>2, <2>2, SameSequence
<1> QED BY <1>2, <1>3, <1>4 DEF x

(* The first empty line that is found is the one that ends the header.     *)
LEMMA FoundIs ==
  ASSUME NEW cuts, NEW W, TypeOK, Carried(cuts, W)
  PROVE  /\ Len(raw) < 5 => Found = {}
         /\ Len(raw) >= 5 => 1 \in Found /\ \A p \in Found : p \in Nat /\ 1 <= p
<1> DEFINE l == Len(raw)
<1>1. raw \in Seq(Nat) /\ l \in Nat /\ \A i \in 1 .. l : raw[i] = W[i].byte
  BY InHeader DEF TypeOK, Carried
<1>2. /\ W[1].byte = Text /\ W[2].byte = CR /\ W[3].byte = LF
      /\ W[4].byte = CR /\ W[5].byte = LF
  BY InHeader
<1>3. \A p : p \in Found <=> p \in 0 .. l - 4 /\ SubSeq(raw, p + 1, p + 4) = EmptyLine
  <2>1. Len(EmptyLine) = 4
    BY DEF EmptyLine
  <2> QED BY <2>1 DEF Found, Places
<1>4. 0 \notin Found
  <2> SUFFICES ASSUME 0 \in Found PROVE FALSE
    OBVIOUS
  <2>1. 0 + 4 <= l /\ SubSeq(raw, 0 + 1, 0 + 4) = EmptyLine /\ 0 \in Nat
    <3>1. 0 \in 0 .. l - 4 /\ SubSeq(raw, 0 + 1, 0 + 4) = EmptyLine
      BY <1>3, Zenon
    <3> HIDE DEF l
    <3>2. 0 + 4 <= l
      BY <1>1, <3>1
    <3> QED BY <3>1, <3>2
  <2>2. raw[0 + 1] = CR
    BY <1>1, <2>1, FourBytes
  <2>3. 1 \in 1 .. l /\ 0 + 1 = 1
    <3> HIDE DEF l
    <3> QED BY <1>1, <2>1
  <2> QED BY <1>1, <1>2, <2>2, <2>3, LineEnds
<1>5. ASSUME NEW p \in Found PROVE p \in Nat /\ 1 <= p /\ p + 4 <= l
  <2> HIDE DEF l
  <2>1. p \in 0 .. l - 4 /\ p # 0
    BY <1>3, <1>4
  <2> QED BY <1>1, <2>1
<1>6. ASSUME l >= 5 PROVE 1 \in Found
  <2>1. /\ 1 + 4 <= l /\ 1 \in 0 .. l - 4
        /\ 2 \in 1 .. l /\ 3 \in 1 .. l /\ 4 \in 1 .. l /\ 5 \in 1 .. l
    <3> HIDE DEF l
    <3> QED BY <1>1, <1>6
  <2>2. raw[2] = CR /\ raw[3] = LF /\ raw[4] = CR /\ raw[5] = LF
    BY <1>1, <1>2, <2>1
  <2>3. raw[1 + 1] = CR /\ raw[1 + 2] = LF /\ raw[1 + 3] = CR /\ raw[1 + 4] = LF
    <3>1. 1 + 1 = 2 /\ 1 + 2 = 3 /\ 1 + 3 = 4 /\ 1 + 4 = 5
      OBVIOUS
    <3> QED BY <2>2, <3>1
  <2>4. SubSeq(raw, 1 + 1, 1 + 4) = EmptyLine
    BY <1>1, <2>1, <2>3, FourBytes
  <2> QED BY <1>3, <2>1, <2>4
<1>7. ASSUME l < 5 PROVE Found = {}
  <2> SUFFICES ASSUME NEW p \in Found PROVE FALSE
    OBVIOUS
  <2> HIDE DEF l
  <2> QED BY <1>1, <1>5, <1>7
<1> QED BY <1>5, <1>6, <1>7 DEF l

(* The first chunk begins behind the header.                               *)
LEMMA FirstChunk ==
  ASSUME NEW cuts, NEW W, TypeOK, Carried(cuts, W), chunked
  PROVE  Begins(sent, cuts, W, 5, 0)
<1>1. 0 \in Positions(cuts)
  BY DEF Positions
<1>2. 5 \in 1 .. 5 /\ 5 \in Nat \ {0}
  OBVIOUS
<1>3. W[5].part = "header" /\ Count(W, 5) = 0
  BY <1>2, InHeader
<1>4. 5 <= Len(W)
  <2>1. Len(W) \in Nat /\ Len(W) >= 5
    BY DEF Carried
  <2> QED BY <2>1
<1>5. Rest(W, 5, Tails(sent, cuts)[0])
  BY DEF Carried
<1> QED BY <1>1, <1>2, <1>3, <1>4, <1>5 DEF Begins

(* What is received does not change.                                       *)
LEMMA InputKept ==
  ASSUME NEW cuts, NEW W, UNCHANGED input, Carried(cuts, W)
  PROVE  Carried(cuts, W)' /\ All' = All
<1>1. UNCHANGED <<sent, chunked, declared, raw, came, torn>>
  BY DEF input
<1>2. Carried(cuts, W)'
  BY <1>1 DEF Carried, CR
<1>3. All' = All
  BY <1>1 DEF All, Room, CR, Least
<1> QED BY <1>2, <1>3

LEMMA FindBodyPlace ==
  ASSUME NEW cuts, NEW W, TypeOK, Carried(cuts, W), Place(cuts, W), FindBody
  PROVE  Place(cuts, W)'
<1>1. /\ UNCHANGED input /\ UNCHANGED <<sent, chunked, raw, body>> /\ body = <<>>
      /\ pc' = IF chunked THEN "chunk" ELSE "plain"
  BY DEF FindBody, Place, input
<1> DEFINE l == Len(raw)
<1>2. l \in Nat
  BY InHeader
<1>3. src' = IF l < 5 THEN l ELSE 5
  <2>1. Len(EmptyLine) = 4
    BY DEF EmptyLine
  <2>2. CASE l < 5
    BY <2>2, FoundIs DEF FindBody
  <2>3. CASE ~(l < 5)
    <3>1. l >= 5
      <4> HIDE DEF l
      <4> QED BY <1>2, <2>3
    <3>2. 1 \in Found /\ \A p \in Found : p \in Nat /\ 1 <= p
      BY <3>1, FoundIs
    <3>3. PICK p \in Found : (\A q \in Found : p <= q) /\ src' = p + 4
      BY <2>1, <3>2 DEF FindBody
    <3>4. p = 1
      BY <3>2, <3>3
    <3> QED BY <2>3, <3>3, <3>4
  <2> QED BY <2>2, <2>3
<1> HIDE DEF l
<1>4. CASE ~chunked
  <2>1. src' = Least(l, 5)
    BY <1>2, <1>3 DEF Least
  <2> QED BY <1>1, <1>4, <2>1 DEF Place, l, Least
<1>5. CASE chunked
  <2>0. sent \in Seq(Nat) /\ came \in Nat /\ 0 <= Len(sent) /\ Room \in Nat
    BY InHeader, LenProperties, ParseAssumption DEF Carried, Room
  <2>1. SubSeq(sent, 1, 0) = <<>>
    BY <2>0, NoPrefix
  <2>2. CASE l < 5
    <3>1. came = 0 /\ ~torn
      <4>1. l <= 5
        BY <1>2, <2>2
      <4> QED BY <4>1, InHeader DEF l
    <3>2. All = <<>>
      <4>1. 0 \in Nat /\ 0 <= Room
        BY <2>0
      <4> QED BY <2>0, <2>1, <3>1, <4>1, AllIs
    <3>3. body' = All' /\ src' >= Len(raw')
      <4>1. l >= l
        BY <1>2
      <4>2. src' = l
        BY <1>3, <2>2
      <4> QED BY <1>1, <3>2, <4>1, <4>2, InputKept DEF l
    <3> QED BY <1>1, <1>5, <3>3 DEF Place, Stuck
  <2>3. CASE ~(l < 5)
    <3>1. src' = 5 /\ 5 <= l
      BY <1>2, <1>3, <2>3
    <3>2. Begins(sent, cuts, W, 5, 0)
      BY <1>5, FirstChunk
    <3>3. AtChunk(cuts, W, src, 0)'
      BY <1>1, <2>0, <2>1, <3>1, <3>2 DEF AtChunk, Room, l
    <3> QED BY <1>1, <1>5, <3>3 DEF Place
  <2> QED BY <2>2, <2>3
<1> QED BY <1>4, <1>5

LEMMA CopyPlainPlace ==
  ASSUME NEW cuts, NEW W, TypeOK, Carried(cuts, W), Place(cuts, W), CopyPlain
  PROVE  Place(cuts, W)'
<1> DEFINE l == Len(raw)
           L == Len(sent)
           k == Least(Announced(l - src), Room)
<1>1. /\ UNCHANGED input /\ pc' = "done" /\ ~chunked /\ src = Least(l, 5)
      /\ body' = SubSeq(raw, src + 1, src + k)
  BY DEF CopyPlain, Place, Room
<1>2. /\ l \in Nat /\ L \in Nat /\ raw \in Seq(Nat) /\ sent \in Seq(Nat)
      /\ declared \in {0, L} /\ Room \in Nat /\ came \in Nat
  <2>1. raw \in Seq(Nat) /\ sent \in Seq(Nat) /\ declared \in {0, L}
    BY DEF TypeOK, Carried
  <2>2. l \in Nat /\ came \in Nat
    BY InHeader
  <2>3. L \in Nat
    BY <2>1, LenProperties
  <2>4. Room \in Nat
    BY ParseAssumption DEF Room
  <2> QED BY <2>1, <2>2, <2>3, <2>4
<1> HIDE DEF l, L, k
<1>3. body' = All
  <2>1. CASE l <= 5
    <3>1. src = l /\ l - src = 0
      BY <1>1, <1>2, <2>1 DEF Least
    <3>2. k = 0
      BY <1>2, <3>1 DEF k, Announced, Least
    <3>3. body' = <<>>
      <4>1. l + 0 <= Len(raw) /\ 0 \in Nat
        BY <1>2 DEF l
      <4>2. SubSeq(raw, l + 1, l + 0) \in Seq(Nat) /\ Len(SubSeq(raw, l + 1, l + 0)) = 0
        BY <1>2, <4>1, PieceIs
      <4>3. SubSeq(raw, l + 1, l + 0) = <<>>
        BY <4>2, EmptySeq
      <4> QED BY <1>1, <3>1, <3>2, <4>3
    <3>4. came = 0 /\ ~torn
      BY <2>1, InHeader DEF l
    <3>5. All = SubSeq(sent, 1, 0)
      <4>1. 0 \in Nat /\ 0 <= Room /\ 0 <= Len(sent)
        BY <1>2 DEF L
      <4> QED BY <1>2, <3>4, <4>1, AllIs
    <3> QED BY <1>2, <3>3, <3>5, NoPrefix
  <2>2. CASE ~(l <= 5)
    <3> DEFINE m == l - 5
    <3>1. src = 5 /\ m \in Nat /\ 5 + m = l
      BY <1>1, <1>2, <2>2 DEF Least
    <3>2. /\ 5 + L = Len(W)
          /\ \A i \in 1 .. L : W[5 + i].byte = sent[i] /\ W[5 + i].part = "data"
      <4>1. /\ Len(Marked(sent, "data")) = L
            /\ \A i \in 1 .. L : Marked(sent, "data")[i] = [byte |-> sent[i], part |-> "data"]
        BY <1>2, MarkedIs DEF L
      <4>2. 5 + L = Len(W) /\ \A i \in 1 .. L : W[5 + i] = Marked(sent, "data")[i]
        BY <1>1, <4>1 DEF Carried, Rest
      <4>3. ASSUME NEW i \in 1 .. L PROVE W[5 + i].byte = sent[i] /\ W[5 + i].part = "data"
        <5>1. W[5 + i] = [byte |-> sent[i], part |-> "data"]
          BY <4>1, <4>2
        <5> QED BY <5>1
      <4> QED BY <4>2, <4>3
    <3>3. m <= L
      <4>1. l <= Len(W)
        BY DEF Carried, l
      <4> QED BY <1>2, <3>1, <3>2, <4>1
    <3> HIDE DEF m
    <3>4. Announced(l - src) = m
      <4>1. l - src = m
        BY <1>2, <3>1
      <4>2. Announced(m) = m
        BY <1>2, <3>1, <3>3 DEF Announced, Least
      <4> QED BY <4>1, <4>2
    <3>5. came = m /\ ~torn
      <4>1. ASSUME NEW i \in 5 + 1 .. l PROVE W[i].part = "data"
        <5>1. i - 5 \in 1 .. L /\ 5 + (i - 5) = i
          BY <1>2, <3>1, <3>3
        <5> QED BY <3>2, <5>1
      <4>2. 5 <= l /\ 5 \in Nat /\ 5 \in 1 .. 5 /\ l \in 5 + 1 .. l /\ l - 5 = m
        BY <1>2, <2>2, <3>1
      <4>3. Count(W, 5) = 0
        BY <4>2, InHeader
      <4>4. Count(W, l) = Count(W, 5) + (l - 5)
        BY <1>2, <4>1, <4>2, CountIs
      <4>5. came = Count(W, l) /\ (torn => W[l].part = "size")
        BY DEF Carried, l
      <4>6. ~torn
        BY <4>1, <4>2, <4>5
      <4> QED BY <3>1, <4>2, <4>3, <4>4, <4>5, <4>6
    <3>6. k \in Nat /\ k <= m /\ k <= L /\ k = Least(m, Room) /\ 5 + k <= l
      BY <1>2, <3>1, <3>3, <3>4 DEF k, Least
    <3>7. body' = SubSeq(sent, 1, k)
      <4>1. ASSUME NEW i \in 1 .. k PROVE raw[5 + i] = sent[i]
        <5>1. 5 + i \in 1 .. l /\ i \in 1 .. L
          BY <1>2, <3>6
        <5>2. raw[5 + i] = W[5 + i].byte
          BY <5>1 DEF Carried, l
        <5> QED BY <3>2, <5>1, <5>2
      <4>2. 5 \in Nat /\ k <= Len(sent) /\ 5 + k <= Len(raw)
        BY <3>6 DEF L, l
      <4>3. SubSeq(raw, 5 + 1, 5 + k) = SubSeq(sent, 1, k)
        <5>1. sent \in Seq(Nat) /\ raw \in Seq(Nat) /\ k \in Nat
          BY <1>2, <3>6
        <5> QED BY <4>1, <4>2, <5>1, SamePiece, Zenon
      <4> QED BY <1>1, <3>1, <4>3
    <3>8. All = SubSeq(sent, 1, k)
      <4>1. (k = came /\ k <= Room) \/ (k = Room /\ k <= came)
        BY <1>2, <3>1, <3>5, <3>6 DEF Least
      <4>2. k <= Len(sent)
        BY <3>6 DEF L
      <4> QED BY <1>2, <3>5, <3>6, <4>1, <4>2, AllIs
    <3> QED BY <3>7, <3>8
  <2> QED BY <2>1, <2>2
<1>4. body' = All'
  BY <1>1, <1>3, InputKept
<1> QED BY <1>1, <1>4 DEF Place

(* Where the parser has all of the body before a chunk, and what else came *)
(* of the response holds no more of it, or there is no room for more.      *)
LEMMA AtChunkIs ==
  ASSUME NEW cuts, NEW W, NEW a, NEW p, TypeOK, Carried(cuts, W), chunked,
         AtChunk(cuts, W, a, p)
  PROVE  /\ sent \in Seq(Nat) /\ raw \in Seq(Nat) /\ Len(raw) \in Nat /\ came \in Nat
         /\ cuts \in Cuts(sent) /\ W \in Seq(Item) /\ Room \in Nat
         /\ p \in Nat /\ p <= Len(sent) /\ a \in Nat /\ a > 0 /\ a <= Len(raw)
         /\ Len(body) = p /\ W[a].part # "size"
         /\ Count(W, a) = p /\ p <= came
         /\ Begins(sent, cuts, W, a, p)
         /\ p = Room => body = All
         /\ came = p /\ ~torn => body = All
<1>1. /\ sent \in Seq(Nat) /\ raw \in Seq(Nat) /\ Len(raw) \in Nat /\ came \in Nat
      /\ cuts \in Cuts(sent) /\ W \in Seq(Item)
  BY InHeader DEF TypeOK, Carried
<1>2. /\ p \in Positions(cuts) /\ a \in Nat \ {0} /\ W[a].part # "size" /\ Count(W, a) = p
      /\ a <= Len(raw) /\ body = SubSeq(sent, 1, p) /\ p <= Room
      /\ Begins(sent, cuts, W, a, p)
  BY DEF AtChunk, Begins
<1>3. p \in Nat /\ p <= Len(sent)
  <2>1. p \in 0 .. Len(sent) /\ Len(sent) \in Nat
    BY <1>1, <1>2, CutsAre
  <2> QED BY <2>1
<1>4. Len(body) = p
  BY <1>1, <1>2, <1>3, PrefixIs
<1>5. p <= came
  <2>1. Count(W, a) <= Count(W, Len(raw))
    BY <1>1, <1>2, CountIs
  <2> QED BY <1>2, <2>1 DEF Carried
<1>6. Room \in Nat /\ a > 0
  BY <1>2, ParseAssumption DEF Room
<1>7. (p = Room => body = All) /\ (came = p /\ ~torn => body = All)
  BY <1>1, <1>2, <1>3, <1>5, AllIs
<1> QED BY <1>1, <1>2, <1>3, <1>4, <1>5, <1>6, <1>7

LEMMA NextChunkPlace ==
  ASSUME NEW cuts, NEW W, TypeOK, Carried(cuts, W), Place(cuts, W), NextChunk
  PROVE  Place(cuts, W)'
<1> DEFINE l == Len(raw)
<1>1. /\ UNCHANGED input /\ UNCHANGED <<sent, chunked, raw, src, body>>
      /\ chunkSize' = 0 /\ hasDigits' = FALSE /\ chunked
      /\ pc' = IF src < l /\ Len(body) < Room THEN "size" ELSE "done"
      /\ Stuck \/ \E p : AtChunk(cuts, W, src, p)
  BY DEF NextChunk, Place, More, input, Room
<1>2. src \in Nat /\ l \in Nat /\ Room \in Nat /\ Len(body) \in Nat
  BY InHeader, ParseAssumption DEF TypeOK, Room
<1>3. All' = All
  BY <1>1, InputKept
<1>4. CASE Stuck
  <2>1. body = All
    BY <1>4 DEF Stuck
  <2>2. CASE pc' = "done"
    BY <1>1, <1>3, <2>1, <2>2 DEF Place
  <2>3. CASE pc' = "size"
    <3>1. src < l /\ Len(body) < Room
      BY <1>1, <2>3
    <3>2. ~AtDigit
      <4> HIDE DEF l
      <4>1. src >= l \/ Len(body) >= Room \/ ~AtDigit
        BY <1>4 DEF Stuck, l
      <4>2. ~(src >= l) /\ ~(Len(body) >= Room)
        BY <1>2, <3>1
      <4> QED BY <4>1, <4>2
    <3>3. Stuck' /\ (src < Len(raw))' /\ (~AtDigit)' /\ ~hasDigits'
      <4>1. (~AtDigit)'
        BY <1>1, <3>2 DEF AtDigit, More
      <4> QED BY <1>1, <1>3, <2>1, <3>1, <4>1 DEF Stuck
    <3> QED BY <1>1, <2>3, <3>3 DEF Place
  <2> QED BY <1>1, <2>2, <2>3
<1>5. ASSUME NEW p, AtChunk(cuts, W, src, p) PROVE Place(cuts, W)'
  <2>1. /\ sent \in Seq(Nat) /\ cuts \in Cuts(sent) /\ W \in Seq(Item)
        /\ p \in Nat /\ p <= Len(sent) /\ src <= l /\ src > 0
        /\ Len(body) = p /\ W[src].part # "size" /\ p <= Room /\ Count(W, src) = p
        /\ Begins(sent, cuts, W, src, p)
        /\ p = Room => body = All
        /\ came = p /\ ~torn => body = All
    BY <1>1, <1>5, AtChunkIs DEF AtChunk
  <2>2. CASE pc' = "done"
    <3>1. src = l \/ p = Room
      <4> HIDE DEF l
      <4>1. ~(src < l) \/ ~(p < Room)
        BY <1>1, <2>1, <2>2
      <4> QED BY <1>2, <2>1, <4>1
    <3>2. src = l => came = p /\ ~torn
      BY <2>1 DEF Carried
    <3>3. body' = All'
      BY <1>1, <1>3, <2>1, <3>1, <3>2
    <3> QED BY <2>2, <3>3 DEF Place
  <2>3. CASE pc' = "size"
    <3>1. src < l /\ p < Room
      BY <1>1, <2>1, <2>3
    <3>2. AtChunk(cuts, W, src, p)'
      BY <1>1, <1>5 DEF AtChunk, Room
    <3>3. CASE p = Len(sent)
      <4>1. InSize(cuts, W, src, p)'
        BY <1>1, <3>1, <3>2, <3>3 DEF InSize, Room
      <4> QED BY <1>1, <2>3, <4>1 DEF Place
    <3>4. CASE p # Len(sent)
      <4> DEFINE n == After(cuts, p) - p
                 w == Width(n)
      <4>1. n \in Nat \ {0} /\ w \in Nat \ {0}
        BY <2>1, <3>4, BeginsOne
      <4>2. n \div Power[w] = 0
        <5>1. Power[w] \in Nat \ {0} /\ n < Power[w]
          BY <4>1, PowerIs, WidthIs
        <5> DEFINE q == Power[w]
        <5> HIDE DEF n, q
        <5>2. q \in Nat \ {0} /\ n < q /\ n \in Nat /\ 0 \in Nat /\ n = q * 0 + n
          BY <4>1, <5>1 DEF q
        <5>3. n \div q = 0
          BY <5>2, Quotient
        <5> QED BY <5>3 DEF q
      <4>3. 0 \in 0 .. w /\ src + 0 = src /\ w - 0 = w /\ ~(0 > 0) /\ src <= l
        <5> HIDE DEF n, w, l
        <5> QED BY <1>2, <2>1, <4>1
      <4> HIDE DEF n, w
      <4>4. \E i \in 0 .. w :
              /\ src = src + i /\ src <= l
              /\ 0 = n \div Power[w - i]
              /\ FALSE <=> i > 0
              /\ i > 0 => 0 > 0
        BY <4>2, <4>3
      <4>5. InSize(cuts, W, src, p)'
        BY <1>1, <3>1, <3>2, <3>4, <4>4 DEF InSize, Room, n, w
      <4> QED BY <1>1, <2>3, <4>5 DEF Place
    <3> QED BY <3>3, <3>4
  <2> QED BY <1>1, <2>2, <2>3
<1> QED BY <1>1, <1>4, <1>5

(* What there is of the chunk the parser stands before.                    *)
LEMMA ChunkHere ==
  ASSUME NEW cuts, NEW W, NEW a, NEW p, TypeOK, Carried(cuts, W), chunked,
         AtChunk(cuts, W, a, p), p # Len(sent)
  PROVE  LET q == After(cuts, p)
             n == q - p
             w == Width(n)
             l == Len(raw)
         IN  /\ n \in Nat \ {0} /\ w \in Nat \ {0} /\ p + n = q /\ q \in Nat /\ q <= Len(sent)
             /\ \A i \in 1 .. w : a + i <= l =>
                  raw[a + i] = (n \div Power[w - i]) % Base /\ raw[a + i] < Base
             /\ a + w + 1 <= l => raw[a + w + 1] = CR
             /\ a + w + 2 <= l => raw[a + w + 2] = LF
             /\ \A i \in 1 .. n : a + w + 2 + i <= l => raw[a + w + 2 + i] = sent[p + i]
             /\ a + w + n + 3 <= l => raw[a + w + n + 3] = CR
             /\ a + w + n + 4 <= l => raw[a + w + n + 4] = LF
             /\ l \in a .. a + w => came = p /\ ~torn
             /\ l = a + w + 1 => came = p /\ torn
             /\ \A k \in 0 .. n : /\ l = a + w + 2 + k => came = p + k /\ ~torn
                                  /\ a + w + 2 + k <= l => p + k <= came
             /\ l = a + w + n + 3 => came = q /\ ~torn
             /\ a + w + n + 4 <= l => Begins(sent, cuts, W, a + w + n + 4, q)
<1> DEFINE q == After(cuts, p)
           n == q - p
           w == Width(n)
           l == Len(raw)
<1>1. /\ sent \in Seq(Nat) /\ cuts \in Cuts(sent) /\ W \in Seq(Item)
      /\ Begins(sent, cuts, W, a, p) /\ l \in Nat /\ a > 0
  BY AtChunkIs
<1>2. /\ a \in Nat /\ p \in Nat /\ q \in Nat /\ p < q /\ q <= Len(sent)
      /\ n \in Nat \ {0} /\ w \in Nat \ {0}
  BY <1>1, BeginsOne, Zenon
<1>3. /\ \A i \in 1 .. w : /\ W[a + i].byte = (n \div Power[w - i]) % Base
                           /\ W[a + i].byte < Base
      /\ W[a + w + 1].byte = CR /\ W[a + w + 2].byte = LF
      /\ \A i \in 1 .. n : W[a + w + 2 + i].byte = sent[p + i]
      /\ W[a + w + n + 3].byte = CR /\ W[a + w + n + 4].byte = LF
  <2>1. \A i \in 1 .. w : /\ W[a + i].byte = (n \div Power[w - i]) % Base
                          /\ W[a + i].byte < Base
    BY <1>1, BeginsOne
  <2>2. W[a + w + 1].byte = CR /\ W[a + w + 2].byte = LF
    BY <1>1, BeginsOne
  <2>3. \A i \in 1 .. n : W[a + w + 2 + i].byte = sent[p + i]
    BY <1>1, BeginsOne
  <2>4. W[a + w + n + 3].byte = CR /\ W[a + w + n + 4].byte = LF
    BY <1>1, BeginsOne
  <2> HIDE DEF q, n, w, l
  <2> QED BY <2>1, <2>2, <2>3, <2>4
<1>4. /\ \A k \in a .. a + w : ~(W[k].part = "size" /\ W[k].byte = CR)
      /\ W[a + w + 1].part = "size"
      /\ \A k \in a + w + 2 .. a + w + n + 4 : ~(W[k].part = "size" /\ W[k].byte = CR)
  BY <1>1, BeginsOne
<1>5. /\ \A k \in a .. a + w + 2 : Count(W, k) = p
      /\ \A k \in 0 .. n : Count(W, a + w + 2 + k) = p + k
      /\ Count(W, a + w + n + 3) = q
      /\ Begins(sent, cuts, W, a + w + n + 4, q)
  BY <1>1, BeginsOne
<1>6. p + n = q
  BY <1>2
<1> HIDE DEF q, n, w, l
<1>7. /\ \A i \in 1 .. l : raw[i] = W[i].byte
      /\ came = Count(W, l)
      /\ torn <=> l > 0 /\ W[l].part = "size" /\ W[l].byte = CR
  BY DEF Carried, l
<1>8. ASSUME NEW i \in Nat, i > 0, a + i <= l PROVE raw[a + i] = W[a + i].byte
  <2>1. a + i \in 1 .. l
    BY <1>1, <1>2, <1>8
  <2> QED BY <1>7, <2>1
<1>9. ASSUME NEW i \in 1 .. w, a + i <= l
      PROVE  raw[a + i] = (n \div Power[w - i]) % Base /\ raw[a + i] < Base
  <2>1. i \in Nat /\ i > 0
    BY <1>2
  <2>2. raw[a + i] = W[a + i].byte
    BY <1>8, <1>9, <2>1
  <2> QED BY <1>3, <2>2
<1>10. /\ a + w + 1 <= l => raw[a + w + 1] = CR
       /\ a + w + 2 <= l => raw[a + w + 2] = LF
       /\ a + w + n + 3 <= l => raw[a + w + n + 3] = CR
       /\ a + w + n + 4 <= l => raw[a + w + n + 4] = LF
  <2>1. /\ a + w + 1 <= l => a + w + 1 \in 1 .. l
        /\ a + w + 2 <= l => a + w + 2 \in 1 .. l
        /\ a + w + n + 3 <= l => a + w + n + 3 \in 1 .. l
        /\ a + w + n + 4 <= l => a + w + n + 4 \in 1 .. l
    BY <1>1, <1>2
  <2> QED BY <1>3, <1>7, <2>1
<1>11. ASSUME NEW i \in 1 .. n, a + w + 2 + i <= l
       PROVE  raw[a + w + 2 + i] = sent[p + i]
  <2>1. a + w + 2 + i \in 1 .. l
    BY <1>1, <1>2, <1>11
  <2>2. raw[a + w + 2 + i] = W[a + w + 2 + i].byte
    BY <1>7, <2>1
  <2> QED BY <1>3, <2>2
<1>12. l \in a .. a + w => came = p /\ ~torn
  <2> SUFFICES ASSUME l \in a .. a + w PROVE came = p /\ ~torn
    OBVIOUS
  <2>1. l \in a .. a + w + 2
    BY <1>2
  <2>2. came = p
    BY <1>5, <1>7, <2>1
  <2> QED BY <1>4, <1>7, <2>2
<1>13. l = a + w + 1 => came = p /\ torn
  <2> SUFFICES ASSUME l = a + w + 1 PROVE came = p /\ torn
    OBVIOUS
  <2>1. l \in a .. a + w + 2 /\ l > 0
    BY <1>2
  <2>2. came = p
    BY <1>5, <1>7, <2>1
  <2>3. W[l].part = "size" /\ W[l].byte = CR
    BY <1>3, <1>4
  <2> QED BY <1>7, <2>1, <2>2, <2>3
<1>14. ASSUME NEW k \in 0 .. n, l = a + w + 2 + k PROVE came = p + k /\ ~torn
  <2>1. l \in a + w + 2 .. a + w + n + 4
    BY <1>2, <1>14
  <2>2. came = p + k
    BY <1>5, <1>7, <1>14
  <2> QED BY <1>4, <1>7, <2>1, <2>2
<1>15. ASSUME NEW k \in 0 .. n, a + w + 2 + k <= l PROVE p + k <= came
  <2> DEFINE m == a + w + 2 + k
  <2>1. m \in Nat /\ m <= l
    BY <1>2, <1>15
  <2>2. Count(W, m) = p + k
    BY <1>5
  <2> HIDE DEF m
  <2>3. Count(W, m) <= Count(W, l)
    BY <1>1, <2>1, CountIs
  <2> QED BY <1>7, <2>2, <2>3
<1>16. l = a + w + n + 3 => came = q /\ ~torn
  <2> SUFFICES ASSUME l = a + w + n + 3 PROVE came = q /\ ~torn
    OBVIOUS
  <2>1. l \in a + w + 2 .. a + w + n + 4
    BY <1>2
  <2>2. came = q
    BY <1>5, <1>7
  <2> QED BY <1>4, <1>7, <2>1, <2>2
<1>17. /\ \A i \in 1 .. w : a + i <= l =>
            raw[a + i] = (n \div Power[w - i]) % Base /\ raw[a + i] < Base
       /\ \A i \in 1 .. n : a + w + 2 + i <= l => raw[a + w + 2 + i] = sent[p + i]
       /\ \A k \in 0 .. n : /\ l = a + w + 2 + k => came = p + k /\ ~torn
                            /\ a + w + 2 + k <= l => p + k <= came
  BY <1>9, <1>11, <1>14, <1>15
<1> QED BY <1>2, <1>5, <1>6, <1>10, <1>12, <1>13, <1>16, <1>17, Zenon DEF q, n, w, l

(* The last chunk has size zero.                                           *)
LEMMA LastHere ==
  ASSUME NEW cuts, NEW W, NEW a, NEW p, TypeOK, Carried(cuts, W), chunked,
         AtChunk(cuts, W, a, p), p = Len(sent)
  PROVE  /\ a + 1 <= Len(raw) => raw[a + 1] = 0
         /\ a + 2 <= Len(raw) => raw[a + 2] = CR
         /\ body = All
<1> DEFINE l == Len(raw)
<1>1. /\ sent \in Seq(Nat) /\ cuts \in Cuts(sent) /\ W \in Seq(Item)
      /\ Begins(sent, cuts, W, a, Len(sent)) /\ l \in Nat /\ a \in Nat /\ a <= l
      /\ came = p /\ ~torn => body = All
  BY AtChunkIs
<1>2. /\ W[a + 1].byte = 0 /\ W[a + 2].byte = CR /\ Len(W) = a + 5
      /\ \A k \in a .. a + 5 : W[k].part # "size" /\ Count(W, k) = p
  <2>1. /\ W[a + 1].byte = 0 /\ W[a + 2].byte = CR /\ Len(W) = a + 5
        /\ \A k \in a .. a + 5 : W[k].part # "size" /\ Count(W, k) = Len(sent)
    <3>1. /\ sent \in Seq(Nat) /\ cuts \in Cuts(sent) /\ W \in Seq(Item)
          /\ Begins(sent, cuts, W, a, Len(sent))
      BY <1>1
    <3> QED BY <3>1, BeginsLast
  <2> QED BY <2>1
<1>3. /\ \A i \in 1 .. l : raw[i] = W[i].byte
      /\ came = Count(W, l) /\ l <= Len(W)
      /\ torn => W[l].part = "size"
  BY DEF Carried
<1> HIDE DEF l
<1>4. /\ a + 1 <= l => a + 1 \in 1 .. l
      /\ a + 2 <= l => a + 2 \in 1 .. l
      /\ l \in a .. a + 5
  BY <1>1, <1>2, <1>3
<1>5. came = p /\ ~torn
  BY <1>2, <1>3, <1>4
<1>6. /\ a + 1 <= l => raw[a + 1] = 0
      /\ a + 2 <= l => raw[a + 2] = CR
  BY <1>2, <1>3, <1>4
<1> QED BY <1>1, <1>5, <1>6 DEF l

LEMMA ReadDigitPlace ==
  ASSUME NEW cuts, NEW W, TypeOK, Carried(cuts, W), Place(cuts, W), ReadDigit
  PROVE  Place(cuts, W)'
<1>1. /\ UNCHANGED input /\ UNCHANGED <<sent, chunked, raw, pc, body>>
      /\ pc = "size" /\ chunked /\ hasDigits' = TRUE /\ src' = src + 1
      /\ chunkSize' = Base * chunkSize + raw[src + 1]
      /\ src < Len(raw) /\ raw[src + 1] < Base /\ AtDigit
  BY DEF ReadDigit, Place, AtDigit, More, input
<1>2. src \in Nat /\ chunkSize \in Nat /\ Base \in Nat /\ Len(raw) \in Nat
  BY InHeader, ParseAssumption DEF TypeOK
<1>3. PICK a, p : InSize(cuts, W, a, p)
  BY <1>1 DEF Place
<1>4. AtChunk(cuts, W, a, p) /\ p < Room /\ a < Len(raw)
  BY <1>3 DEF InSize
<1>5. a \in Nat /\ p \in Nat
  BY <1>1, <1>4, AtChunkIs
<1>6. AtChunk(cuts, W, a, p)'
  BY <1>1, <1>4 DEF AtChunk, Room
<1>7. InSize(cuts, W, a, p)'
  <2>1. CASE p = Len(sent)
    <3>1. /\ chunkSize = 0 /\ src \in {a, a + 1}
          /\ a + 1 <= Len(raw) => raw[a + 1] = 0
          /\ a + 2 <= Len(raw) => raw[a + 2] = CR
      BY <1>1, <1>3, <1>4, <2>1, LastHere DEF InSize
    <3> DEFINE l == Len(raw)
    <3> HIDE DEF l
    <3>2. src # a + 1
      <4> SUFFICES ASSUME src = a + 1 PROVE FALSE
        OBVIOUS
      <4>1. src + 1 = a + 2
        BY <1>5
      <4>2. a + 2 <= Len(raw)
        BY <1>1, <1>2, <1>5, <4>1
      <4> QED BY <1>1, <3>1, <4>1, <4>2, LineEnds
    <3>3. src = a /\ a + 1 <= Len(raw)
      BY <1>1, <1>2, <1>5, <3>1, <3>2
    <3>4. chunkSize' = 0 /\ src' = a + 1
      <4>1. Base * 0 + 0 = 0
        BY <1>2
      <4> QED BY <1>1, <3>1, <3>3, <4>1
    <3> QED BY <1>1, <1>4, <1>6, <2>1, <3>4 DEF InSize, Room
  <2>2. CASE p # Len(sent)
    <3> DEFINE n == After(cuts, p) - p
               w == Width(n)
               l == Len(raw)
    <3>1. /\ n \in Nat \ {0} /\ w \in Nat \ {0}
          /\ \A i \in 1 .. w : a + i <= l =>
               raw[a + i] = (n \div Power[w - i]) % Base /\ raw[a + i] < Base
          /\ a + w + 1 <= l => raw[a + w + 1] = CR
      BY <1>1, <1>4, <2>2, ChunkHere
    <3>2. PICK i \in 0 .. w :
            /\ src = a + i /\ src <= l /\ chunkSize = n \div Power[w - i]
            /\ i > 0 => chunkSize > 0
      BY <1>3, <2>2 DEF InSize
    <3>3. Power[w - 1] <= n
      BY <3>1, WidthIs
    <3> HIDE DEF n, w, l
    <3>4. l \in Nat /\ src < l
      BY <1>1, <1>2 DEF l
    <3>5. i # w
      <4> SUFFICES ASSUME i = w PROVE FALSE
        OBVIOUS
      <4>1. src + 1 = a + w + 1 /\ a + w + 1 <= l
        BY <1>5, <3>1, <3>2, <3>4
      <4>2. raw[src + 1] = CR
        BY <3>1, <4>1
      <4> QED BY <1>1, <4>2, LineEnds
    <3> DEFINE j == i + 1
               q == Power[w - j]
    <3>6. /\ j \in 1 .. w /\ j \in 0 .. w /\ src + 1 = a + j /\ a + j <= l
          /\ w - j \in Nat /\ (w - j) + 1 = w - i /\ j > 0 /\ i \in Nat
      BY <1>2, <1>5, <3>1, <3>2, <3>4, <3>5
    <3>7. q \in Nat \ {0} /\ Power[w - i] = Base * q
      <4> HIDE DEF j
      <4>1. Power[(w - j) + 1] = Base * Power[w - j] /\ Power[w - j] \in Nat \ {0}
        BY <3>6, PowerIs
      <4> QED BY <3>6, <4>1
    <3>8. raw[src + 1] = (n \div q) % Base
      <4> HIDE DEF j
      <4>1. raw[a + j] = (n \div Power[w - j]) % Base
        BY <3>1, <3>6
      <4> QED BY <3>6, <4>1
    <3>9. chunkSize' = n \div q
      <4>1. Base * (n \div (Base * q)) + ((n \div q) % Base) = n \div q
        BY <3>1, <3>7, NextDigit
      <4>2. chunkSize = n \div (Base * q)
        BY <3>2, <3>7
      <4> HIDE DEF q
      <4> QED BY <1>1, <3>8, <4>1, <4>2
    <3>10. chunkSize' > 0
      <4>1. CASE i > 0
        <5> DEFINE x == raw[src + 1]
        <5>1. x \in Nat
          <6>1. n \div q \in Nat
            BY <3>1, <3>7, Division
          <6> HIDE DEF q
          <6> QED BY <3>8, <6>1, Division, ParseAssumption
        <5>2. chunkSize > 0 /\ chunkSize' = Base * chunkSize + x
          BY <1>1, <3>2, <4>1
        <5> HIDE DEF x
        <5>3. Base * chunkSize > 0
          BY <1>2, <5>2, ParseAssumption
        <5> QED BY <1>2, <5>1, <5>2, <5>3
      <4>2. CASE ~(i > 0)
        <5>1. j = 1
          BY <3>6, <4>2
        <5>2. q <= n
          BY <3>3, <5>1
        <5> DEFINE x == n \div q
                   r == n % q
        <5>3. x \in Nat /\ r \in Nat /\ r < q /\ n = q * x + r
          BY <3>1, <3>7, Division
        <5>4. chunkSize' = x
          BY <3>9
        <5> HIDE DEF x, r, q
        <5>5. x # 0
          BY <3>7, <5>2, <5>3
        <5> QED BY <5>3, <5>4, <5>5
      <4> QED BY <4>1, <4>2
    <3> HIDE DEF j
    <3>11. /\ src' = a + j /\ src' <= l
           /\ chunkSize' = n \div Power[w - j]
           /\ hasDigits' <=> j > 0
           /\ j > 0 => chunkSize' > 0
      BY <1>1, <3>6, <3>9, <3>10
    <3> QED BY <1>1, <1>4, <1>6, <2>2, <3>6, <3>11 DEF InSize, Room, n, w, l
  <2> QED BY <2>1, <2>2
<1> QED BY <1>1, <1>7 DEF Place

LEMMA EndSizePlace ==
  ASSUME NEW cuts, NEW W, TypeOK, Carried(cuts, W), Place(cuts, W), EndSize
  PROVE  Place(cuts, W)'
<1>1. /\ UNCHANGED input /\ UNCHANGED <<sent, chunked, raw, chunkSize, hasDigits, body>>
      /\ pc = "size" /\ chunked /\ ~AtDigit
      /\ ~hasDigits \/ chunkSize = 0 => pc' = "done"
      /\ ~(~hasDigits \/ chunkSize = 0) => pc' = "copy" /\ src' = Skipped(src)
  BY DEF EndSize, Place, input, size
<1>2. src \in Nat /\ chunkSize \in Nat /\ Len(raw) \in Nat
  BY InHeader DEF TypeOK
<1>3. All' = All
  BY <1>1, InputKept
<1>4. ASSUME body = All, ~hasDigits \/ chunkSize = 0 PROVE Place(cuts, W)'
  BY <1>1, <1>3, <1>4 DEF Place
<1>5. CASE Stuck /\ ~hasDigits
  BY <1>4, <1>5 DEF Stuck
<1>6. ASSUME NEW a, NEW p, InSize(cuts, W, a, p) PROVE Place(cuts, W)'
  <2>1. AtChunk(cuts, W, a, p) /\ p < Room /\ a < Len(raw)
    BY <1>6 DEF InSize
  <2>2. a \in Nat /\ p \in Nat
    BY <1>1, <2>1, AtChunkIs
  <2>3. CASE p = Len(sent)
    <3>1. chunkSize = 0 /\ body = All
      BY <1>1, <1>6, <2>1, <2>3, LastHere DEF InSize
    <3> QED BY <1>4, <3>1
  <2>4. CASE p # Len(sent)
    <3> DEFINE n == After(cuts, p) - p
               w == Width(n)
               l == Len(raw)
    <3>1. /\ n \in Nat \ {0} /\ w \in Nat \ {0}
          /\ \A i \in 1 .. w : a + i <= l => raw[a + i] < Base
          /\ a + w + 1 <= l => raw[a + w + 1] = CR
          /\ a + w + 2 <= l => raw[a + w + 2] = LF
      BY <1>1, <2>1, <2>4, ChunkHere
    <3>2. PICK i \in 0 .. w :
            /\ src = a + i /\ src <= l /\ chunkSize = n \div Power[w - i]
            /\ hasDigits <=> i > 0
            /\ i > 0 => chunkSize > 0
      BY <1>6, <2>4 DEF InSize
    <3> HIDE DEF n, w, l
    <3>3. l \in Nat /\ a < l
      BY <1>2, <2>1 DEF l
    <3>4. src < l => ~(raw[src + 1] < Base)
      BY <1>1 DEF AtDigit, More, l
    <3>5. i # w => src = l
      <4> SUFFICES ASSUME i # w, src < l PROVE FALSE
        BY <1>2, <3>2, <3>3
      <4>1. i + 1 \in 1 .. w /\ a + (i + 1) = src + 1 /\ src + 1 <= l
        BY <1>2, <2>2, <3>1, <3>2, <3>3
      <4>2. raw[a + (i + 1)] < Base
        BY <3>1, <4>1
      <4> QED BY <3>4, <4>1, <4>2
    <3>6. i > 0
      <4> SUFFICES ASSUME i = 0 PROVE FALSE
        BY <3>1, <3>2
      <4>1. i # w /\ src = a
        BY <2>2, <3>1, <3>2
      <4> QED BY <2>2, <3>3, <3>5, <4>1
    <3>7. hasDigits /\ chunkSize > 0
      BY <3>2, <3>6
    <3>8. pc' = "copy" /\ src' = Skipped(src)
      BY <1>1, <1>2, <3>7
    <3>9. Skipped(src) = IF src + 1 < l /\ raw[src + 1] = CR /\ raw[src + 2] = LF
                         THEN src + 2 ELSE src
      BY DEF Skipped, l
    <3>10. \/ src' = l /\ src' <= a + w
           \/ src' = a + w /\ l = a + w + 1 /\ chunkSize = n
           \/ src' = a + w + 2 /\ src' <= l /\ chunkSize = n
      <4>1. CASE src = l
        <5>1. src' = src
          BY <1>2, <3>3, <3>8, <3>9, <4>1
        <5>2. src <= a + w
          BY <1>2, <2>2, <3>1, <3>2
        <5> QED BY <4>1, <5>1, <5>2
      <4>2. CASE src # l
        <5>1. i = w /\ src = a + w /\ src < l
          BY <1>2, <3>2, <3>3, <3>5, <4>2
        <5>2. chunkSize = n
          <6>1. w - i = 0
            BY <3>1, <5>1
          <6>2. chunkSize = n \div 1
            BY <3>2, <6>1, PowerIs
          <6>3. n \div 1 = n
            <7>1. n \in Nat /\ 1 \in Nat \ {0} /\ 0 \in Nat /\ 0 < 1 /\ n = 1 * n + 0
              BY <3>1
            <7> QED BY <7>1, Quotient
          <6> QED BY <6>2, <6>3
        <5>3. CASE l = a + w + 1
          <6>1. ~(src + 1 < l)
            BY <2>2, <3>1, <5>1, <5>3
          <6>2. src' = a + w
            BY <3>8, <3>9, <5>1, <6>1
          <6> QED BY <5>2, <5>3, <6>2
        <5>4. CASE l # a + w + 1
          <6>1. /\ a + w + 2 <= l /\ a + w + 1 <= l /\ src + 1 < l
                /\ src + 1 = a + w + 1 /\ src + 2 = a + w + 2
            BY <2>2, <3>1, <3>3, <5>1, <5>4
          <6>2. raw[src + 1] = CR /\ raw[src + 2] = LF
            BY <3>1, <6>1
          <6>3. src' = a + w + 2
            BY <3>8, <3>9, <6>1, <6>2
          <6> QED BY <5>2, <6>1, <6>3
        <5> QED BY <5>3, <5>4
      <4> QED BY <4>1, <4>2
    <3>11. AtChunk(cuts, W, a, p)'
      BY <1>1, <2>1 DEF AtChunk, Room
    <3>12. BehindSize(cuts, W, a, p)'
      BY <1>1, <2>1, <2>4, <3>7, <3>10, <3>11 DEF BehindSize, Room, n, w, l
    <3> QED BY <1>1, <3>8, <3>12 DEF Place
  <2> QED BY <2>3, <2>4
<1> QED BY <1>1, <1>5, <1>6 DEF Place

LEMMA CopyChunkPlace ==
  ASSUME NEW cuts, NEW W, TypeOK, Carried(cuts, W), Place(cuts, W), CopyChunk
  PROVE  Place(cuts, W)'
<1> DEFINE l == Len(raw)
           k == CopyLength
<1>1. /\ UNCHANGED input /\ UNCHANGED <<sent, chunked, raw>>
      /\ pc = "copy" /\ pc' = "chunk" /\ chunked /\ src' = Skipped(src + chunkSize)
      /\ body' = body \o SubSeq(raw, src + 1, src + k)
  BY DEF CopyChunk, Place, input
<1>2. /\ src \in Nat /\ chunkSize \in Nat /\ l \in Nat /\ raw \in Seq(Nat)
      /\ body \in Seq(Nat) /\ src <= l
  BY <1>1, InHeader DEF TypeOK
<1>3. PICK a, p : BehindSize(cuts, W, a, p)
  BY <1>1 DEF Place
<1> DEFINE q == After(cuts, p)
           n == q - p
           w == Width(n)
<1>4. /\ AtChunk(cuts, W, a, p) /\ p < Room /\ p # Len(sent) /\ chunkSize > 0
      /\ \/ src = l /\ src <= a + w
         \/ src = a + w /\ l = a + w + 1 /\ chunkSize = n
         \/ src = a + w + 2 /\ src <= l /\ chunkSize = n
  BY <1>3 DEF BehindSize
<1>5. /\ sent \in Seq(Nat) /\ came \in Nat /\ p \in Nat /\ p <= Len(sent)
      /\ a \in Nat /\ a <= l /\ Len(body) = p /\ Room \in Nat
      /\ came = p /\ ~torn => body = All
      /\ body = SubSeq(sent, 1, p)
  BY <1>1, <1>4, AtChunkIs DEF AtChunk
<1>6. /\ n \in Nat \ {0} /\ w \in Nat \ {0} /\ p + n = q /\ q \in Nat /\ q <= Len(sent)
      /\ a + w + 1 <= l => raw[a + w + 1] = CR
      /\ \A i \in 1 .. n : a + w + 2 + i <= l => raw[a + w + 2 + i] = sent[p + i]
      /\ a + w + n + 3 <= l => raw[a + w + n + 3] = CR
      /\ a + w + n + 4 <= l => raw[a + w + n + 4] = LF
  BY <1>1, <1>4, ChunkHere
<1>7. /\ l \in a .. a + w => came = p /\ ~torn
      /\ l = a + w + 1 => came = p /\ torn
      /\ \A i \in 0 .. n : /\ l = a + w + 2 + i => came = p + i /\ ~torn
                           /\ a + w + 2 + i <= l => p + i <= came
      /\ l = a + w + n + 3 => came = q /\ ~torn
      /\ a + w + n + 4 <= l => Begins(sent, cuts, W, a + w + n + 4, q)
  BY <1>1, <1>4, ChunkHere
<1>8. /\ k = Least(Least(chunkSize, l - src), Room - p)
      /\ src' = IF (src + chunkSize) + 1 < l /\ raw[(src + chunkSize) + 1] = CR
                   /\ raw[(src + chunkSize) + 2] = LF
                THEN (src + chunkSize) + 2 ELSE src + chunkSize
  BY <1>1, <1>5 DEF CopyLength, Room, Skipped
<1> HIDE DEF l, k, q, n, w
<1>9. src' \in Nat /\ src' >= src + chunkSize
  BY <1>2, <1>8
<1>10. ASSUME body' = All, src' >= l \/ Len(body') >= Room \/ ~(src' < l /\ raw[src' + 1] < Base)
       PROVE  Place(cuts, W)'
  <2>1. All' = All
    BY <1>1, InputKept
  <2>2. Stuck'
    BY <1>1, <1>10, <2>1 DEF Stuck, AtDigit, More, Room, l
  <2> QED BY <1>1, <2>2 DEF Place
<1>11. CASE src = l /\ src <= a + w
  <2>1. k = 0
    <3>1. l - src = 0 /\ Room - p \in Nat
      BY <1>2, <1>4, <1>5, <1>11
    <3> QED BY <1>2, <1>8, <3>1 DEF Least
  <2>2. body' = body
    <3>1. src + 0 <= Len(raw) /\ 0 \in Nat
      BY <1>2 DEF l
    <3>2. SubSeq(raw, src + 1, src + 0) \in Seq(Nat) /\ Len(SubSeq(raw, src + 1, src + 0)) = 0
      BY <1>2, <3>1, PieceIs
    <3>3. SubSeq(raw, src + 1, src + 0) = <<>>
      BY <3>2, EmptySeq
    <3> QED BY <1>1, <1>2, <2>1, <3>3, NothingAdded
  <2>3. body = All
    <3>1. l \in a .. a + w
      BY <1>2, <1>5, <1>11
    <3> QED BY <1>5, <1>7, <3>1
  <2>4. src' >= l
    BY <1>2, <1>8, <1>11
  <2> QED BY <1>10, <2>2, <2>3, <2>4
<1>12. CASE src = a + w /\ l = a + w + 1 /\ chunkSize = n
  <2>1. k = 1
    <3>1. l - src = 1 /\ Room - p \in Nat \ {0}
      BY <1>2, <1>4, <1>5, <1>6, <1>12
    <3>2. ASSUME NEW x \in Nat \ {0}, NEW y \in Nat \ {0} PROVE Least(Least(x, 1), y) = 1
      BY DEF Least
    <3>3. Least(Least(n, 1), Room - p) = 1
      BY <1>6, <3>1, <3>2
    <3> QED BY <1>8, <1>12, <3>1, <3>3
  <2>2. SubSeq(raw, src + 1, src + 1) = <<CR>>
    <3> DEFINE x == SubSeq(raw, src + 1, src + 1)
    <3>1. src + 1 <= Len(raw) /\ 1 \in Nat /\ src + 1 = a + w + 1 /\ a + w + 1 <= l
      BY <1>2, <1>5, <1>6, <1>12 DEF l
    <3>2. x \in Seq(Nat) /\ Len(x) = 1 /\ \A i \in 1 .. 1 : x[i] = raw[src + i]
      BY <1>2, <3>1, PieceIs
    <3>3. raw[src + 1] = CR
      BY <1>6, <3>1
    <3> HIDE DEF x
    <3>4. x[1] = CR
      BY <3>2, <3>3
    <3>5. <<CR>> \in Seq(Nat) /\ Len(<<CR>>) = 1 /\ <<CR>>[1] = CR
      BY LineEnds
    <3>6. x = <<CR>>
      BY <3>2, <3>4, <3>5, SameSequence
    <3> QED BY <3>6 DEF x
  <2>3. body' = All
    <3>1. came = p /\ torn
      BY <1>7, <1>12
    <3>2. All = SubSeq(sent, 1, p) \o <<CR>>
      BY <1>4, <1>5, <3>1, AllIs
    <3> QED BY <1>1, <1>5, <2>1, <2>2, <3>2
  <2>4. src' >= l
    BY <1>2, <1>5, <1>6, <1>8, <1>12
  <2> QED BY <1>10, <2>3, <2>4
<1>13. CASE src = a + w + 2 /\ src <= l /\ chunkSize = n
  <2>1. /\ k \in Nat /\ k <= n /\ src + k <= l /\ p + k <= Room /\ p + k <= q
        /\ k = n \/ src + k = l \/ p + k = Room
    BY <1>2, <1>4, <1>5, <1>6, <1>8, <1>13 DEF Least
  <2>2. body' = SubSeq(sent, 1, p + k) /\ Len(body') = p + k /\ p + k \in Nat
        /\ p + k <= Len(sent)
    <3>1. ASSUME NEW i \in 1 .. k PROVE raw[src + i] = sent[p + i]
      <4>1. i \in 1 .. n /\ src + i = a + w + 2 + i /\ a + w + 2 + i <= l
        BY <1>2, <1>5, <1>6, <1>13, <2>1
      <4> QED BY <1>6, <4>1
    <3>2. p + k <= Len(sent) /\ src + k <= Len(raw) /\ p + k \in Nat
      <4>1. Len(sent) \in Nat
        BY <1>5, LenProperties
      <4> QED BY <1>5, <1>6, <2>1, <4>1 DEF l
    <3>3. sent \in Seq(Nat) /\ raw \in Seq(Nat) /\ p \in Nat /\ k \in Nat /\ src \in Nat
      BY <1>2, <1>5, <2>1
    <3>4. SubSeq(sent, 1, p) \o SubSeq(raw, src + 1, src + k) = SubSeq(sent, 1, p + k)
      <4>1. Continues(sent, p, raw, src, k)
        BY <3>1, <3>2, <3>3 DEF Continues
      <4>2. Joined(sent, p, raw, src, k)
        BY <4>1, Extended
      <4> QED BY <4>2, Zenon DEF Joined
    <3>5. Len(SubSeq(sent, 1, p + k)) = p + k
      BY <3>2, <3>3, PrefixIs
    <3> QED BY <1>1, <1>5, <3>2, <3>4, <3>5
  <2>3. ASSUME (came = p + k /\ ~torn) \/ p + k = Room PROVE body' = All
    <3>1. p + k <= came
      <4>1. k \in 0 .. n /\ a + w + 2 + k <= l
        BY <1>5, <1>6, <1>13, <2>1
      <4> QED BY <1>7, <4>1
    <3> QED BY <1>5, <2>1, <2>2, <2>3, <3>1, AllIs
  <2>4. CASE p + k = Room
    <3>1. Len(body') >= Room
      BY <1>5, <2>2, <2>4
    <3> QED BY <1>10, <2>3, <2>4, <3>1
  <2>5. CASE src + k = l
    <3>1. k \in 0 .. n /\ l = a + w + 2 + k
      BY <1>5, <1>6, <1>13, <2>1, <2>5
    <3>2. came = p + k /\ ~torn
      BY <1>7, <3>1
    <3>3. src' >= l
      BY <1>2, <1>6, <1>9, <1>13, <2>1, <2>5
    <3> QED BY <1>10, <2>3, <3>2, <3>3
  <2>6. CASE k = n /\ src + k # l
    <3>1. p + k = q /\ src + chunkSize = a + w + n + 2
      BY <1>5, <1>6, <1>13, <2>6
    <3>2. CASE l = a + w + n + 3
      <4>1. came = p + k /\ ~torn
        BY <1>7, <3>1, <3>2
      <4>2. src' = a + w + n + 2 /\ src' + 1 = a + w + n + 3 /\ a + w + n + 3 <= l
        BY <1>2, <1>5, <1>6, <1>8, <3>1, <3>2
      <4>3. raw[src' + 1] = CR
        BY <1>6, <4>2
      <4> QED BY <1>10, <2>3, <4>1, <4>3, LineEnds
    <3>3. CASE l # a + w + n + 3
      <4>1. /\ a + w + n + 4 <= l /\ a + w + n + 3 <= l
            /\ (src + chunkSize) + 1 = a + w + n + 3
            /\ (src + chunkSize) + 2 = a + w + n + 4
            /\ (src + chunkSize) + 1 < l
        BY <1>2, <1>5, <1>6, <1>13, <2>1, <2>6, <3>1, <3>3
      <4>2. src' = a + w + n + 4
        BY <1>6, <1>8, <4>1
      <4>3. Begins(sent, cuts, W, src', q)
        BY <1>7, <4>1, <4>2
      <4>4. q <= Room /\ body' = SubSeq(sent, 1, q)
        BY <2>1, <2>2, <3>1
      <4>5. AtChunk(cuts, W, src, q)'
        BY <1>1, <4>1, <4>2, <4>3, <4>4 DEF AtChunk, Room, l
      <4> QED BY <1>1, <4>5 DEF Place
    <3> QED BY <3>2, <3>3
  <2> QED BY <2>1, <2>4, <2>5, <2>6
<1> QED BY <1>4, <1>11, <1>12, <1>13

-----------------------------------------------------------------------------

(* What is received is the beginning of some response with this body, and  *)
(* the parser stands where it should on it.                                *)
Course == \E cuts, W : Carried(cuts, W) /\ Place(cuts, W)

LEMMA InitCourse == Init => Course
<1> SUFFICES ASSUME Init PROVE Course
  OBVIOUS
<1>1. /\ sent \in Seq(Nat) /\ declared \in {0, Len(sent)} /\ chunked \in BOOLEAN
      /\ pc = "header" /\ body = <<>>
  <2>1. sent \in Bodies
    BY DEF Init
  <2>2. PICK m \in 0 .. MaxLen : sent \in [1 .. m -> Bytes]
    BY <2>1 DEF Bodies
  <2>3. m \in Nat /\ sent \in [1 .. m -> Nat]
    <3>1. m \in Nat
      BY ParseAssumption
    <3>2. \A i \in 1 .. m : sent[i] \in Nat
      BY <2>2, ParseAssumption
    <3>3. sent = [i \in 1 .. m |-> sent[i]]
      BY <2>2
    <3> QED BY <3>1, <3>2, <3>3
  <2>4. sent \in Seq(Nat)
    BY <2>3
  <2> QED BY <2>4 DEF Init
<1>2. PICK cuts \in IF chunked THEN Cuts(sent) ELSE {{}} :
        \E n \in 0 .. Len(Response(sent, cuts)) : Received(Response(sent, cuts), n)
  BY DEF Init
<1>3. chunked => cuts \in Cuts(sent)
  BY <1>2
<1> DEFINE t == IF chunked THEN Tails(sent, cuts)[0] ELSE Marked(sent, "data")
           W == Response(sent, cuts)
<1>4. t \in Seq(Item)
  <2>1. CASE chunked
    <3>1. 0 \in Positions(cuts)
      BY DEF Positions
    <3>2. Tails(sent, cuts)[0] \in Seq(Item)
      BY <1>1, <1>3, <2>1, <3>1, TailsAre
    <3> QED BY <2>1, <3>2
  <2>2. CASE ~chunked
    BY <1>1, <2>2, MarkedIs
  <2> QED BY <2>1, <2>2
<1>5. W = Header \o t
  BY DEF Response, Chunks
<1> HIDE DEF t, W
<1>6. /\ W \in Seq(Item) /\ Len(W) = 5 + Len(t) /\ Len(t) \in Nat
      /\ \A i \in 1 .. 5 : W[i] = Header[i]
      /\ \A i \in 1 .. Len(t) : W[5 + i] = t[i]
  <2>1. Header \in Seq(Item) /\ Len(Header) = 5
    BY HeaderIs
  <2> DEFINE h == Header
  <2>2. h \in Seq(Item)
    BY <2>1
  <2> HIDE DEF h
  <2>3. /\ h \o t \in Seq(Item) /\ Len(h \o t) = Len(h) + Len(t) /\ Len(t) \in Nat
        /\ \A i \in 1 .. Len(h) : (h \o t)[i] = h[i]
        /\ \A i \in 1 .. Len(t) : (h \o t)[Len(h) + i] = t[i]
    BY <1>4, <2>2
  <2>4. Len(h) = 5 /\ W = h \o t
    BY <1>5, <2>1 DEF h
  <2>5. W \in Seq(Item) /\ Len(W) = 5 + Len(t) /\ Len(t) \in Nat
    BY <2>3, <2>4
  <2>6. /\ \A i \in 1 .. 5 : W[i] = h[i]
        /\ \A i \in 1 .. Len(t) : W[5 + i] = t[i]
    BY <2>3, <2>4
  <2> QED BY <2>5, <2>6 DEF h
<1>7. PICK n \in 0 .. Len(W) : Received(W, n)
  BY <1>2 DEF W
<1>8. /\ raw = [i \in 1 .. n |-> W[i].byte] /\ raw \in Seq(Nat)
      /\ came = Count(W, n)
      /\ torn = (n > 0 /\ W[n].part = "size" /\ W[n].byte = CR)
  BY <1>7 DEF Received, Count, DataIn
<1>9. Len(raw) = n /\ n <= Len(W)
  <2>1. n \in Nat /\ n <= Len(W)
    BY <1>6, <1>7
  <2>2. DOMAIN raw = 1 .. n
    BY <1>8
  <2>3. Len(raw) \in Nat /\ DOMAIN raw = 1 .. Len(raw)
    BY <1>8, LenProperties
  <2> QED BY <2>1, <2>2, <2>3
<1>10. \A i \in 1 .. Len(raw) : raw[i] = W[i].byte
  BY <1>8, <1>9
<1>11. Rest(W, 5, t) /\ Len(W) >= 5
  BY <1>6 DEF Rest
<1>12. torn <=> Len(raw) > 0 /\ W[Len(raw)].part = "size" /\ W[Len(raw)].byte = CR
  BY <1>8, <1>9, Zenon
<1>13. Carried(cuts, W)
  <2>1. came = Count(W, Len(raw)) /\ Len(raw) <= Len(W)
    BY <1>8, <1>9
  <2> QED BY <1>1, <1>3, <1>6, <1>10, <1>11, <1>12, <2>1, Zenon DEF Carried, t
<1>14. Place(cuts, W)
  BY <1>1 DEF Place
<1> QED BY <1>13, <1>14 DEF Course

LEMMA CourseKept == TypeOK /\ Course /\ [Next]_vars => Course'
<1> SUFFICES ASSUME TypeOK, Course, [Next]_vars PROVE Course'
  OBVIOUS
<1>1. PICK cuts, W : Carried(cuts, W) /\ Place(cuts, W)
  BY DEF Course
<1>2. UNCHANGED input
  BY DEF Next, Parse, Returned, FindBody, CopyPlain, NextChunk, ReadDigit, EndSize,
     CopyChunk, vars
<1>3. Carried(cuts, W)'
  BY <1>1, <1>2, InputKept
<1>4. Place(cuts, W)'
  <2>1. CASE FindBody
    BY <1>1, <2>1, FindBodyPlace
  <2>2. CASE CopyPlain
    BY <1>1, <2>2, CopyPlainPlace
  <2>3. CASE NextChunk
    BY <1>1, <2>3, NextChunkPlace
  <2>4. CASE ReadDigit
    BY <1>1, <2>4, ReadDigitPlace
  <2>5. CASE EndSize
    BY <1>1, <2>5, EndSizePlace
  <2>6. CASE CopyChunk
    BY <1>1, <2>6, CopyChunkPlace
  <2>7. CASE UNCHANGED vars
    <3>1. UNCHANGED <<sent, chunked, declared, raw, came, torn>>
          /\ UNCHANGED <<pc, src, chunkSize, hasDigits, body>>
      BY <2>7 DEF vars, input, size
    <3>2. All' = All /\ (Stuck <=> Stuck') /\ (AtDigit <=> AtDigit')
      BY <3>1 DEF All, Stuck, AtDigit, More, Room, Least, CR
    <3>3. \A a, p : (AtChunk(cuts, W, a, p) <=> AtChunk(cuts, W, a, p)')
      BY <3>1 DEF AtChunk, Room
    <3>4. \A a, p : (InSize(cuts, W, a, p) <=> InSize(cuts, W, a, p)')
      BY <3>1, <3>3 DEF InSize, Room
    <3>5. \A a, p : (BehindSize(cuts, W, a, p) <=> BehindSize(cuts, W, a, p)')
      BY <3>1, <3>3 DEF BehindSize, Room
    <3>6. AtChunk(cuts, W, src, 0)' <=> AtChunk(cuts, W, src, 0)
      BY <3>1 DEF AtChunk, Room
    <3> QED BY <1>1, <3>1, <3>2, <3>4, <3>5 DEF Place, AtChunk, Room, Least
  <2> QED BY <2>1, <2>2, <2>3, <2>4, <2>5, <2>6, <2>7 DEF Next, Parse, Returned
<1> QED BY <1>3, <1>4 DEF Course

(* parse_response returns all that came of the body that was sent, as far  *)
(* as the buffer holds it, wherever the response broke off and whatever    *)
(* bytes the body consists of.                                             *)
THEOREM BodyIsWhatCameHolds == Spec => []BodyIsWhatCame
<1>1. Course => BodyIsWhatCame
  BY DEF Course, Place, All, Room, BodyIsWhatCame
<1>2. Spec => []Course
  <2> QED BY TypesHold, InitCourse, CourseKept, PTL DEF Spec
<1> QED BY <1>1, <1>2, PTL
=============================================================================
