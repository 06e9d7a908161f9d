--------------------------- MODULE LogBufferProofs ---------------------------
(***************************************************************************)
(* Proofs about LogBuffer, for every size of the buffer, of the space kept *)
(* for the marker and of the marker, and for every sequence of writes,     *)
(* flushes and restarts.  TruncationShown and LogIsPrefix need each other: *)
(* together with the types they are inductive.                             *)
(***************************************************************************)
EXTENDS LogBuffer, TLAPS

USE DEF Least, Most

(* A function over 1 .. k is a sequence of length k.                       *)
LEMMA RunIsSeq ==
  ASSUME NEW S, NEW k \in Nat, NEW e \in [1 .. k -> S]
  PROVE  e \in Seq(S) /\ Len(e) = k
  OBVIOUS

(* The bytes of a string go after what the buffer holds.                   *)
LEMMA WithBytesAppends ==
  ASSUME TypeOK, NEW k \in Nat
  PROVE  /\ WithBytes(k) \in Seq(Bytes)
         /\ Len(WithBytes(k)) = Len(log) + k
         /\ \A i \in 1 .. Len(log) : WithBytes(k)[i] = log[i]
         /\ \A i \in 1 .. k :
              WithBytes(k)[Len(log) + i] = Byte(run, total + i)
<1> DEFINE e == [i \in 1 .. k |-> Byte(run, total + i)]
<1>1. e \in [1 .. k -> Bytes]
  BY DEF TypeOK, Byte, Bytes
<1>2. e \in Seq(Bytes) /\ Len(e) = k
  BY <1>1, RunIsSeq
<1>3. log \in Seq(Bytes)
  BY DEF TypeOK
<1>4. \A i \in 1 .. k : e[i] = Byte(run, total + i)
  OBVIOUS
<1> HIDE DEF e
<1>5. /\ log \o e \in Seq(Bytes)
      /\ Len(log \o e) = Len(log) + k
      /\ \A i \in 1 .. Len(log) : (log \o e)[i] = log[i]
      /\ \A i \in 1 .. k : (log \o e)[Len(log) + i] = e[i]
  <2>1. log \in Seq(Bytes) /\ e \in Seq(Bytes)
    BY <1>2, <1>3
  <2>2. /\ log \o e \in Seq(Bytes)
        /\ Len(log \o e) = Len(log) + Len(e)
        /\ \A i \in 1 .. Len(log) : (log \o e)[i] = log[i]
        /\ \A i \in 1 .. Len(e) : (log \o e)[Len(log) + i] = e[i]
    BY <2>1
  <2>3. QED
    BY <2>2, <1>2, <1>3
<1>6. WithBytes(k) = log \o e
  BY DEF WithBytes, e
<1>7. QED
  BY <1>4, <1>5, <1>6

(* The marker goes after it too, cut off at the end of the buffer.         *)
LEMMA StampedAppends ==
  ASSUME NEW l \in Seq(Bytes), Len(l) <= Size
  PROVE  /\ Stamped(l) \in Seq(Bytes)
         /\ Len(Stamped(l)) = Len(l) + Least(MarkerLen, Size - Len(l))
         /\ \A i \in 1 .. Len(l) : Stamped(l)[i] = l[i]
         /\ \A i \in 1 .. Least(MarkerLen, Size - Len(l)) :
              Stamped(l)[Len(l) + i] = Mark(i)
<1> DEFINE k == Least(MarkerLen, Size - Len(l))
           e == [i \in 1 .. k |-> Mark(i)]
<1>1. k \in Nat
  BY LogAssumption
<1> HIDE DEF k
<1>2. e \in [1 .. k -> Bytes]
  BY <1>1 DEF Mark, Bytes
<1>3. e \in Seq(Bytes) /\ Len(e) = k
  BY <1>1, <1>2, RunIsSeq
<1>4. \A i \in 1 .. k : e[i] = Mark(i)
  OBVIOUS
<1>5. Stamped(l) = l \o e
  BY DEF Stamped, k
<1> HIDE DEF e
<1>6. /\ l \o e \in Seq(Bytes)
      /\ Len(l \o e) = Len(l) + k
      /\ \A i \in 1 .. Len(l) : (l \o e)[i] = l[i]
      /\ \A i \in 1 .. k : (l \o e)[Len(l) + i] = e[i]
  <2>1. l \in Seq(Bytes) /\ e \in Seq(Bytes)
    BY <1>3
  <2>2. /\ l \o e \in Seq(Bytes)
        /\ Len(l \o e) = Len(l) + Len(e)
        /\ \A i \in 1 .. Len(l) : (l \o e)[i] = l[i]
        /\ \A i \in 1 .. Len(e) : (l \o e)[Len(l) + i] = e[i]
    BY <2>1
  <2>3. QED
    BY <2>2, <1>3
<1>7. QED
  BY <1>4, <1>5, <1>6 DEF k

-----------------------------------------------------------------------------
Inv == TypeOK /\ LogIsPrefix /\ TruncationShown

LEMMA LimitType == Limit \in Nat /\ Limit + TailLen = Size /\ MarkerLen \in Nat
  BY LogAssumption DEF Limit

LEMMA InitInv == Init => Inv
<1> SUFFICES ASSUME Init PROVE Inv
  OBVIOUS
<1>1. TypeOK
  BY LogAssumption DEF Init, TypeOK
<1>2. LogIsPrefix /\ TruncationShown
  BY LimitType DEF Init, LogIsPrefix, TruncationShown
<1>3. QED
  BY <1>1, <1>2 DEF Inv

(* One call of write_str, in the three cases a string meets: it fits, it   *)
(* is the first that does not, or the log was truncated before it.         *)
LEMMA WriteStrInv ==
  ASSUME Inv, NEW n \in Lengths, WriteStr(n)
  PROVE  Inv'
<1> DEFINE c == Copied(n)
           kept == WithBytes(c)
<1>0. /\ n \in Nat /\ Len(log) \in Nat /\ total \in Nat
      /\ total' = total + n /\ run' = run /\ run \in Nat
      /\ file' = file /\ flushed' = flushed
  BY LogAssumption DEF Inv, TypeOK, WriteStr
<1>1. c \in 0 .. n /\ (Len(log) >= Limit => c = 0)
      /\ (Len(log) < Limit => c = Least(n, Limit - Len(log)))
  BY <1>0, LimitType DEF Copied, Room
<1> HIDE DEF c
<1>2. /\ kept \in Seq(Bytes) /\ Len(kept) = Len(log) + c
      /\ \A i \in 1 .. Len(log) : kept[i] = log[i]
      /\ \A i \in 1 .. c : kept[Len(log) + i] = Byte(run, total + i)
  <2>1. TypeOK /\ c \in Nat
    BY <1>0, <1>1 DEF Inv
  <2>2. QED
    BY <2>1, WithBytesAppends, Zenon
<1>3. Len(kept) <= Size
  BY <1>0, <1>1, <1>2, LimitType, LogAssumption DEF Inv, TypeOK
<1>4. log' = IF c < n THEN Stamped(kept) ELSE kept
  BY <1>0, <1>1 DEF WriteStr, c
<1> HIDE DEF kept
<1>5. /\ Stamped(kept) \in Seq(Bytes)
      /\ Len(Stamped(kept)) = Len(kept) + Least(MarkerLen, Size - Len(kept))
      /\ \A i \in 1 .. Len(kept) : Stamped(kept)[i] = kept[i]
      /\ \A i \in 1 .. Least(MarkerLen, Size - Len(kept)) :
           Stamped(kept)[Len(kept) + i] = Mark(i)
  BY <1>2, <1>3, StampedAppends
<1>6. /\ log' \in Seq(Bytes) /\ Len(log') <= Size
      /\ Len(log') >= Len(kept)
      /\ \A i \in 1 .. Len(kept) : log'[i] = kept[i]
  BY <1>2, <1>3, <1>4, <1>5, LimitType, LogAssumption
<1>7. TypeOK'
  BY <1>0, <1>6 DEF Inv, TypeOK
<1>8. CASE total <= Limit /\ total + n <= Limit
  <2>1. Len(log) = total /\ c = n /\ log' = kept
    BY <1>0, <1>1, <1>4, <1>8, LimitType DEF Inv, TruncationShown
  <2>2. \A i \in 1 .. total : log[i] = Byte(run, i)
    BY <1>0, <1>8, LimitType DEF Inv, LogIsPrefix
  <2>3. \A i \in 1 .. total + n : kept[i] = Byte(run, i)
    <3> SUFFICES ASSUME NEW i \in 1 .. total + n PROVE kept[i] = Byte(run, i)
      OBVIOUS
    <3>1. CASE i <= total
      BY <3>1, <1>0, <1>2, <2>1, <2>2
    <3>2. CASE i > total
      <4>1. i - total \in 1 .. c /\ total + (i - total) = i
        BY <3>2, <1>0, <2>1
      <4>2. kept[Len(log) + (i - total)] = Byte(run, total + (i - total))
        BY <4>1, <1>2
      <4>3. QED
        BY <4>1, <4>2, <2>1
    <3>3. QED
      BY <3>1, <3>2, <1>0
  <2>4. LogIsPrefix' /\ TruncationShown'
    BY <1>0, <1>2, <1>8, <2>1, <2>3, LimitType
    DEF LogIsPrefix, TruncationShown, Limit
  <2>5. QED
    BY <1>7, <2>4 DEF Inv
<1>9. CASE total <= Limit /\ total + n > Limit
  <2>1. Len(log) = total /\ c = Limit - total /\ c < n
        /\ Len(kept) = Limit /\ log' = Stamped(kept)
    BY <1>0, <1>1, <1>2, <1>4, <1>9, LimitType DEF Inv, TruncationShown
  <2>2. \A i \in 1 .. total : log[i] = Byte(run, i)
    BY <1>0, <1>9, LimitType DEF Inv, LogIsPrefix
  <2>3. \A i \in 1 .. Limit : log'[i] = Byte(run, i)
    <3> SUFFICES ASSUME NEW i \in 1 .. Limit PROVE kept[i] = Byte(run, i)
      BY <1>6, <2>1
    <3>1. CASE i <= total
      BY <3>1, <1>0, <1>2, <2>1, <2>2, LimitType
    <3>2. CASE i > total
      <4>1. i - total \in 1 .. c /\ total + (i - total) = i
        BY <3>2, <1>0, <2>1, LimitType
      <4>2. kept[Len(log) + (i - total)] = Byte(run, total + (i - total))
        BY <4>1, <1>2
      <4>3. QED
        BY <4>1, <4>2, <2>1
    <3>3. QED
      BY <3>1, <3>2, <1>0, LimitType
  <2>4. Least(MarkerLen, Size - Len(kept)) = MarkerLen
    BY <2>1, LimitType, LogAssumption
  <2>5. /\ Len(log') = Limit + MarkerLen
        /\ \A i \in 1 .. MarkerLen : log'[Limit + i] = Mark(i)
    BY <1>5, <2>1, <2>4
  <2>6. LogIsPrefix' /\ TruncationShown'
    BY <1>0, <1>9, <2>3, <2>5, LimitType
    DEF LogIsPrefix, TruncationShown, Limit
  <2>7. QED
    BY <1>7, <2>6 DEF Inv
<1>10. CASE total > Limit
  <2>1. /\ Len(log) >= Limit + MarkerLen /\ c = 0 /\ Len(kept) = Len(log)
        /\ \A i \in 1 .. MarkerLen : log[Limit + i] = Mark(i)
        /\ \A i \in 1 .. Limit : log[i] = Byte(run, i)
    BY <1>0, <1>1, <1>2, <1>10, LimitType
    DEF Inv, TruncationShown, LogIsPrefix
  <2>2. \A i \in 1 .. Len(log) : log'[i] = log[i]
    BY <1>2, <1>6, <2>1
  <2>3. \A i \in 1 .. MarkerLen : Limit + i \in 1 .. Len(log)
    BY <1>0, <2>1, LimitType
  <2>4. \A i \in 1 .. Limit : i \in 1 .. Len(log)
    BY <1>0, <2>1, LimitType
  <2>5. /\ Len(log') >= Limit + MarkerLen
        /\ \A i \in 1 .. MarkerLen : log'[Limit + i] = Mark(i)
        /\ \A i \in 1 .. Limit : log'[i] = Byte(run, i)
    BY <1>0, <1>6, <2>1, <2>2, <2>3, <2>4, LimitType
  <2>6. LogIsPrefix' /\ TruncationShown'
    BY <1>0, <1>10, <2>5, LimitType
    DEF LogIsPrefix, TruncationShown, Limit
  <2>7. QED
    BY <1>7, <2>6 DEF Inv
<1>11. QED
  BY <1>8, <1>9, <1>10, <1>0, LimitType

(* A flush writes the file, and nothing the program reads.                 *)
LEMMA OverwrittenAt ==
  ASSUME TypeOK, NEW k \in 0 .. Len(log)
  PROVE  /\ Overwritten(k) \in Seq(Bytes)
         /\ Len(Overwritten(k)) >= k
         /\ Len(Overwritten(k)) >= Len(file)
         /\ \A i \in 1 .. k : Overwritten(k)[i] = log[i]
         /\ \A i \in k + 1 .. Len(file) : Overwritten(k)[i] = file[i]
<1> DEFINE a == SubSeq(log, 1, k)
           b == SubSeq(file, k + 1, Len(file))
<1>1. log \in Seq(Bytes) /\ file \in Seq(Bytes) /\ k \in Nat
      /\ Len(log) \in Nat /\ Len(file) \in Nat
  BY DEF TypeOK
<1>2. /\ a \in Seq(Bytes) /\ Len(a) = k
      /\ \A i \in 1 .. k : a[i] = log[i]
  BY <1>1
<1>3. /\ b \in Seq(Bytes)
      /\ Len(b) = IF k < Len(file) THEN Len(file) - k ELSE 0
      /\ \A i \in 1 .. Len(b) : b[i] = file[k + i]
  BY <1>1
<1>4. Overwritten(k) = a \o b
  BY DEF Overwritten
<1> HIDE DEF a, b
<1>5. /\ a \o b \in Seq(Bytes)
      /\ Len(a \o b) = k + Len(b)
      /\ \A i \in 1 .. k : (a \o b)[i] = a[i]
      /\ \A i \in 1 .. Len(b) : (a \o b)[k + i] = b[i]
  <2>1. a \in Seq(Bytes) /\ b \in Seq(Bytes)
    BY <1>2, <1>3
  <2>2. /\ a \o b \in Seq(Bytes)
        /\ Len(a \o b) = Len(a) + Len(b)
        /\ \A i \in 1 .. Len(a) : (a \o b)[i] = a[i]
        /\ \A i \in 1 .. Len(b) : (a \o b)[Len(a) + i] = b[i]
    BY <2>1
  <2>3. QED
    BY <2>2, <1>2, <1>3
<1>6. \A i \in k + 1 .. Len(file) : (a \o b)[i] = file[i]
  <2> SUFFICES ASSUME NEW i \in k + 1 .. Len(file)
               PROVE  (a \o b)[i] = file[i]
    OBVIOUS
  <2>1. i - k \in 1 .. Len(b) /\ k + (i - k) = i
    BY <1>1, <1>3
  <2>2. QED
    BY <2>1, <1>3, <1>5
<1>7. QED
  BY <1>1, <1>2, <1>3, <1>4, <1>5, <1>6

LEMMA FlushLogInv ==
  ASSUME Inv, NEW k \in 0 .. Len(log), FlushLog(k)
  PROVE  Inv'
<1>1. TypeOK'
  BY OverwrittenAt DEF Inv, TypeOK, FlushLog
<1>2. LogIsPrefix' /\ TruncationShown'
  BY DEF Inv, LogIsPrefix, TruncationShown, FlushLog
<1>3. QED
  BY <1>1, <1>2 DEF Inv

LEMMA RestartInv == ASSUME Inv, Restart PROVE Inv'
<1>1. TypeOK'
  BY LogAssumption DEF Inv, TypeOK, Restart
<1>2. LogIsPrefix' /\ TruncationShown'
  BY LimitType DEF LogIsPrefix, TruncationShown, Restart, Limit
<1>3. QED
  BY <1>1, <1>2 DEF Inv

LEMMA NextInv == Inv /\ [Next]_vars => Inv'
<1> SUFFICES ASSUME Inv, [Next]_vars PROVE Inv'
  OBVIOUS
<1>1. ASSUME NEW n \in Lengths, WriteStr(n) PROVE Inv'
  BY <1>1, WriteStrInv
<1>2. ASSUME NEW k \in 0 .. Len(log), FlushLog(k) PROVE Inv'
  BY <1>2, FlushLogInv
<1>3. CASE Restart
  BY <1>3, RestartInv
<1>4. CASE UNCHANGED vars
  BY <1>4 DEF Inv, TypeOK, LogIsPrefix, TruncationShown, vars
<1>5. QED
  BY <1>1, <1>2, <1>3, <1>4 DEF Next

LEMMA AlwaysInv == Spec => []Inv
  BY InitInv, NextInv, PTL DEF Spec

(* The buffer's index never passes its end, whatever is written.           *)
THEOREM TypesHold == Spec => []TypeOK
<1>1. Inv => TypeOK
  BY DEF Inv
<1>2. QED
  BY <1>1, AlwaysInv, PTL

(* The log is the beginning of what the program wrote, up to the limit.    *)
THEOREM LogIsPrefixHolds == Spec => []LogIsPrefix
<1>1. Inv => LogIsPrefix
  BY DEF Inv
<1>2. QED
  BY <1>1, AlwaysInv, PTL

(* A log that lost bytes carries the whole marker right after the last     *)
(* byte kept: it fits, however the strings are cut.                        *)
THEOREM TruncationShownHolds == Spec => []TruncationShown
<1>1. Inv => TruncationShown
  BY DEF Inv
<1>2. QED
  BY <1>1, AlwaysInv, PTL

-----------------------------------------------------------------------------
(* What is in the file stays there: the log only grows, and a flush writes *)
(* the same bytes to the same places.                                      *)

LEMMA WriteStrGrows ==
  ASSUME Inv, NEW n \in Lengths, WriteStr(n)
  PROVE  Len(log') >= Len(log) /\ \A i \in 1 .. Len(log) : log'[i] = log[i]
<1> DEFINE c == Copied(n)
           kept == WithBytes(c)
<1>1. n \in Nat /\ Len(log) \in Nat /\ c \in 0 .. n
      /\ (Len(log) >= Limit => c = 0)
      /\ (Len(log) < Limit => c = Least(n, Limit - Len(log)))
  BY LogAssumption, LimitType DEF Inv, TypeOK, Copied, Room
<1>2. log' = IF c < n THEN Stamped(kept) ELSE kept
  BY <1>1 DEF WriteStr
<1> HIDE DEF c
<1>3. /\ kept \in Seq(Bytes) /\ Len(kept) = Len(log) + c
      /\ \A i \in 1 .. Len(log) : kept[i] = log[i]
  <2>1. TypeOK /\ c \in Nat
    BY <1>1 DEF Inv
  <2>2. QED
    BY <2>1, WithBytesAppends, Zenon
<1>4. Len(kept) <= Size
  BY <1>1, <1>3, LimitType, LogAssumption DEF Inv, TypeOK
<1> HIDE DEF kept
<1>5. /\ Len(Stamped(kept)) = Len(kept) + Least(MarkerLen, Size - Len(kept))
      /\ \A i \in 1 .. Len(kept) : Stamped(kept)[i] = kept[i]
  BY <1>3, <1>4, StampedAppends
<1>6. Least(MarkerLen, Size - Len(kept)) \in Nat
  BY <1>1, <1>3, <1>4, LogAssumption
<1>7. \A i \in 1 .. Len(log) : i \in 1 .. Len(kept)
  BY <1>1, <1>3
<1>8. CASE c < n
  BY <1>8, <1>1, <1>2, <1>3, <1>5, <1>6, <1>7
<1>9. CASE ~(c < n)
  BY <1>9, <1>1, <1>2, <1>3
<1>10. QED
  BY <1>8, <1>9

(* Bytes of this run's log that are in the file stay there, at their       *)
(* place, through every later write and flush.                             *)
THEOREM FlushedStaysHolds == Spec => []FlushedStays
<1>1. Init => FlushedStays
  BY DEF Init, FlushedStays
<1>2. Inv /\ FlushedStays /\ [Next]_vars => FlushedStays'
  <2> SUFFICES ASSUME Inv, FlushedStays, [Next]_vars PROVE FlushedStays'
    OBVIOUS
  <2>0. Len(log) \in Nat /\ Len(file) \in Nat /\ flushed \in Nat
    BY DEF Inv, TypeOK
  <2>1. ASSUME NEW n \in Lengths, WriteStr(n) PROVE FlushedStays'
    <3>1. file' = file /\ flushed' = flushed
      BY <2>1 DEF WriteStr
    <3>2. Len(log') >= Len(log) /\ \A i \in 1 .. Len(log) : log'[i] = log[i]
      BY <2>1, WriteStrGrows
    <3>3. \A i \in 1 .. flushed : i \in 1 .. Len(log) /\ file[i] = log[i]
      BY <2>0 DEF FlushedStays
    <3>4. flushed <= Len(log') /\ flushed <= Len(file)
      <4>1. Len(log') \in Nat
        BY <2>1, WriteStrInv DEF Inv, TypeOK
      <4>2. QED
        BY <2>0, <3>2, <4>1 DEF FlushedStays
    <3>5. QED
      BY <3>1, <3>2, <3>3, <3>4 DEF FlushedStays
  <2>2. ASSUME NEW k \in 0 .. Len(log), FlushLog(k) PROVE FlushedStays'
    <3>1. log' = log /\ file' = Overwritten(k) /\ flushed' = Most(flushed, k)
      BY <2>2 DEF FlushLog
    <3>2. /\ Overwritten(k) \in Seq(Bytes)
          /\ Len(Overwritten(k)) >= k /\ Len(Overwritten(k)) >= Len(file)
          /\ \A i \in 1 .. k : Overwritten(k)[i] = log[i]
          /\ \A i \in k + 1 .. Len(file) : Overwritten(k)[i] = file[i]
      BY OverwrittenAt DEF Inv
    <3>3. ASSUME NEW i \in 1 .. Most(flushed, k)
          PROVE  Overwritten(k)[i] = log[i]
      <4>1. CASE i <= k
        BY <4>1, <3>2, <2>0
      <4>2. CASE i > k
        BY <4>2, <3>2, <3>3, <2>0 DEF FlushedStays
      <4>3. QED
        BY <4>1, <4>2, <2>0
    <3>4. Most(flushed, k) <= Len(log)
          /\ Most(flushed, k) <= Len(Overwritten(k))
      BY <3>2, <2>0 DEF FlushedStays
    <3>5. QED
      BY <3>1, <3>3, <3>4 DEF FlushedStays
  <2>3. CASE Restart
    BY <2>3, <2>0 DEF Restart, FlushedStays
  <2>4. CASE UNCHANGED vars
    BY <2>4 DEF FlushedStays, vars
  <2>5. QED
    BY <2>1, <2>2, <2>3, <2>4 DEF Next
<1>3. QED
  BY <1>1, <1>2, AlwaysInv, PTL DEF Spec
=============================================================================
