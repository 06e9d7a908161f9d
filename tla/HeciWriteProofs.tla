--------------------------- MODULE HeciWriteProofs ---------------------------
(***************************************************************************)
(* For every depth, pointer width and message set: the types of HeciWrite  *)
(* hold, the host never overruns the circular buffer, and the ME           *)
(* reassembles exactly what the host wrote.                                *)
(*                                                                         *)
(* The first argument: wait_slots computes the free slots exactly, because *)
(* the depth divides the range of the pointers; from that read on only the *)
(* host adds dwords, so what it computed stays a lower bound of what is    *)
(* free; and a fragment needs no more than that, its header included.      *)
(*                                                                         *)
(* The second argument rests on the first.  The dwords between the two     *)
(* pointers lead, one after the other, from where the ME is in the stream  *)
(* of messages to where the host is (Pipeline).  A push adds a dword at    *)
(* the host's end, and overwrites none of the others; a pop takes one away *)
(* at the ME's end; and a write_msg that gives up leaves the host between  *)
(* two messages, unless it had begun one.                                  *)
(***************************************************************************)
EXTENDS HeciWrite, SequenceTheorems, TLAPS

-----------------------------------------------------------------------------
(* Arithmetic of the pointers.                                             *)

(* The remainder is a remainder.                                           *)
LEMMA DivMod ==
  ASSUME NEW d \in Nat \ {0}, NEW x \in Int
  PROVE  /\ x \div d \in Int
         /\ x % d \in 0 .. d - 1
         /\ x = d * (x \div d) + (x % d)
  BY SMT

(* ... and the only one.                                                   *)
LEMMA UniqueRemainder ==
  ASSUME NEW d \in Nat \ {0}, NEW q \in Int, NEW r \in 0 .. d - 1
  PROVE  (d * q + r) % d = r
<1> DEFINE x == d * q + r
           k == q - (x \div d)
<1>1. x \in Int
  BY SMT
<1>2. x % d \in 0 .. d - 1 /\ x \div d \in Int /\ x = d * (x \div d) + (x % d)
  BY <1>1, DivMod
<1>3. d * k = (x % d) - r
  BY <1>2, SMT
<1>4. k \in Int /\ d * k < d /\ d * k > -d
  BY <1>2, <1>3
<1> HIDE DEF x, k
<1>5. ~(k >= 1)
  <2> SUFFICES ASSUME k >= 1 PROVE FALSE
    OBVIOUS
  <2>1. d * k >= d
    BY <1>4, SMT
  <2> QED BY <2>1, <1>4
<1>6. ~(k <= -1)
  <2> SUFFICES ASSUME k <= -1 PROVE FALSE
    OBVIOUS
  <2>1. d * k <= -d
    BY <1>4, SMT
  <2> QED BY <2>1, <1>4
<1>7. k = 0
  BY <1>4, <1>5, <1>6
<1> QED BY <1>2, <1>3, <1>7 DEF x

(* Advancing a pointer wraps it at PtrMod.                                 *)
LEMMA AdvanceValue ==
  ASSUME NEW p \in 0 .. PtrMod - 1
  PROVE  Advance(p) = IF p + 1 = PtrMod THEN 0 ELSE p + 1
<1>1. PtrMod \in Nat \ {0}
  BY RingAssumption
<1>2. CASE p + 1 = PtrMod
  <2>1. (PtrMod * 1 + 0) % PtrMod = 0
    BY <1>1, UniqueRemainder
  <2> QED BY <2>1, <1>1, <1>2 DEF Advance
<1>3. CASE p + 1 # PtrMod
  <2>1. (PtrMod * 0 + (p + 1)) % PtrMod = p + 1
    BY <1>1, <1>3, UniqueRemainder
  <2> QED BY <2>1, <1>1, <1>3 DEF Advance
<1> QED BY <1>2, <1>3

(* The distance from r to w, going round at PtrMod.                        *)
LEMMA DistanceValue ==
  ASSUME NEW w \in 0 .. PtrMod - 1, NEW r \in 0 .. PtrMod - 1
  PROVE  (w - r) % PtrMod = IF w >= r THEN w - r ELSE w - r + PtrMod
<1>1. PtrMod \in Nat \ {0}
  BY RingAssumption
<1>2. CASE w >= r
  <2>1. (PtrMod * 0 + (w - r)) % PtrMod = w - r
    BY <1>1, <1>2, UniqueRemainder
  <2> QED BY <2>1, <1>1, <1>2
<1>3. CASE w < r
  <2>1. (PtrMod * (-1) + (w - r + PtrMod)) % PtrMod = w - r + PtrMod
    BY <1>1, <1>3, UniqueRemainder
  <2>2. PtrMod * (-1) + (w - r + PtrMod) = w - r
    BY <1>1
  <2> QED BY <2>1, <2>2, <1>1, <1>3
<1> QED BY <1>2, <1>3

(* filled_slots is exact while the buffer is not full: neither the u32     *)
(* subtraction nor the reduction modulo the depth loses anything, because  *)
(* the depth divides the pointers' range and that divides the word's.      *)
LEMMA FilledSlotsExact ==
  ASSUME NEW w \in 0 .. PtrMod - 1, NEW r \in 0 .. PtrMod - 1,
         (w - r) % PtrMod < Depth
  PROVE  FilledSlots(w, r) = (w - r) % PtrMod
<1> DEFINE n == (w - r) % PtrMod
           a == PtrMod \div Depth
           b == WordMod \div PtrMod
<1>1. /\ Depth \in Nat \ {0} /\ PtrMod \in Nat \ {0} /\ WordMod \in Nat \ {0}
      /\ PtrMod % Depth = 0 /\ WordMod % PtrMod = 0
  BY RingAssumption
<1>2. a \in Int /\ PtrMod = Depth * a
  <2>1. a \in Int /\ PtrMod = Depth * a + (PtrMod % Depth)
    BY <1>1, DivMod
  <2> QED BY <2>1, <1>1
<1>3. b \in Int /\ WordMod = PtrMod * b
  <2>1. b \in Int /\ WordMod = PtrMod * b + (WordMod % PtrMod)
    BY <1>1, DivMod
  <2> QED BY <2>1, <1>1
<1>4. b >= 1
  <2> SUFFICES ASSUME b <= 0 PROVE FALSE
    BY <1>3
  <2>1. PtrMod * b <= 0
    BY <1>1, <1>3, SMT
  <2> QED BY <2>1, <1>1, <1>3
<1>5. WordMod >= PtrMod
  <2>1. PtrMod * b >= PtrMod
    BY <1>1, <1>3, <1>4, SMT
  <2> QED BY <2>1, <1>3
<1>6. n \in 0 .. Depth - 1 /\ n = IF w >= r THEN w - r ELSE w - r + PtrMod
  <2>1. n \in 0 .. PtrMod - 1
    BY <1>1, DivMod
  <2> QED BY <2>1, <1>1, DistanceValue
<1> HIDE DEF n, a, b
<1>7. CASE w >= r
  <2>1. (WordMod * 0 + n) % WordMod = n
    BY <1>1, <1>5, <1>6, <1>7, UniqueRemainder
  <2>2. (Depth * 0 + n) % Depth = n
    BY <1>1, <1>6, UniqueRemainder
  <2>3. (w - r) % WordMod = n
    BY <2>1, <1>1, <1>6, <1>7
  <2>4. n % Depth = n
    BY <2>2, <1>1, <1>6
  <2> QED BY <2>3, <2>4 DEF FilledSlots, n
<1>8. CASE w < r
  <2> DEFINE m == w - r + WordMod
             c == a * b - a
  <2>1. m \in 0 .. WordMod - 1
    BY <1>1, <1>5, <1>8
  <2>2. (WordMod * (-1) + m) % WordMod = m
    BY <2>1, <1>1, UniqueRemainder
  <2>3. WordMod * (-1) + m = w - r
    BY <1>1
  <2>4. (w - r) % WordMod = m
    BY <2>2, <2>3
  <2>5. m = Depth * c + n
    <3>1. m = n + WordMod - PtrMod
      BY <1>1, <1>6, <1>8
    <3>2. WordMod = Depth * (a * b)
      BY <1>1, <1>2, <1>3, SMT
    <3>3. Depth * (a * b - a) = Depth * (a * b) - Depth * a
      BY <1>1, <1>2, <1>3, SMT
    <3> QED BY <3>1, <3>2, <3>3, <1>1, <1>2, <1>6
  <2>6. c \in Int
    BY <1>2, <1>3
  <2> HIDE DEF m, c
  <2>7. (Depth * c + n) % Depth = n
    BY <2>6, <1>1, <1>6, UniqueRemainder
  <2> QED BY <2>4, <2>5, <2>7 DEF FilledSlots, n
<1> QED BY <1>7, <1>8

-----------------------------------------------------------------------------
(* The inductive invariant.                                                *)

(* The free slots the host computed are still free, and what is left of    *)
(* the current fragment fits them.                                         *)
SlotsReserved ==
  /\ hpc # "idle" => sent < msg.len
  /\ hpc \in {"csr", "header"} => Pending + empty < Depth
  /\ hpc = "csr" => elapsed < Polls
  /\ hpc = "header" => empty >= 2
  /\ hpc = "payload" => /\ frag >= 1 /\ sent + frag <= msg.len
                        /\ word <= Words(frag)
                        /\ Pending + Words(frag) - word < Depth

Inv == TypeOK /\ NoOverrun /\ SlotsReserved

(* The constants the buffer is made of, and its depth within the pointers. *)
LEMMA Sizes ==
  /\ Depth \in Nat \ {0} /\ PtrMod \in Nat \ {0} /\ Depth <= PtrMod
  /\ Polls \in Nat \ {0} /\ Lengths \subseteq Nat \ {0} /\ LenMod \in Nat \ {0}
<1>1. /\ Depth \in Nat \ {0} /\ PtrMod \in Nat \ {0} /\ PtrMod % Depth = 0
      /\ Polls \in Nat \ {0} /\ Lengths \subseteq Nat \ {0}
  BY RingAssumption, MessageAssumption
<1>2. Depth <= PtrMod
  <2> SUFFICES ASSUME PtrMod < Depth PROVE FALSE
    BY <1>1
  <2>1. (Depth * 0 + PtrMod) % Depth = PtrMod
    BY <1>1, UniqueRemainder
  <2> QED BY <2>1, <1>1
<1>3. LenMod \in Nat \ {0}
  BY HeaderAssumption
<1> QED BY <1>1, <1>2, <1>3

(* A dword pushed adds one, a dword popped takes one away.                 *)
LEMMA PushCounts ==
  ASSUME wp \in 0 .. PtrMod - 1, rp \in 0 .. PtrMod - 1,
         Pending + 1 < Depth, wp' = Advance(wp), rp' = rp
  PROVE  /\ wp' \in 0 .. PtrMod - 1
         /\ Pending' = Pending + 1
<1>1. wp' = IF wp + 1 = PtrMod THEN 0 ELSE wp + 1
  BY AdvanceValue
<1>2. wp' \in 0 .. PtrMod - 1 /\ rp' \in 0 .. PtrMod - 1
  BY <1>1, Sizes
<1>3. Pending = IF wp >= rp THEN wp - rp ELSE wp - rp + PtrMod
  BY DistanceValue DEF Pending
<1>4. Pending' = IF wp' >= rp' THEN wp' - rp' ELSE wp' - rp' + PtrMod
  BY <1>2, DistanceValue DEF Pending
<1> QED BY <1>1, <1>2, <1>3, <1>4, Sizes

LEMMA PopCounts ==
  ASSUME wp \in 0 .. PtrMod - 1, rp \in 0 .. PtrMod - 1,
         wp # rp, rp' = Advance(rp), wp' = wp
  PROVE  /\ rp' \in 0 .. PtrMod - 1
         /\ Pending' = Pending - 1
<1>1. rp' = IF rp + 1 = PtrMod THEN 0 ELSE rp + 1
  BY AdvanceValue
<1>2. rp' \in 0 .. PtrMod - 1 /\ wp' \in 0 .. PtrMod - 1
  BY <1>1, Sizes
<1>3. Pending = IF wp >= rp THEN wp - rp ELSE wp - rp + PtrMod
  BY DistanceValue DEF Pending
<1>4. Pending' = IF wp' >= rp' THEN wp' - rp' ELSE wp' - rp' + PtrMod
  BY <1>2, DistanceValue DEF Pending
<1> QED BY <1>1, <1>2, <1>3, <1>4, Sizes

(* The count is a natural number within the pointers' range.               *)
LEMMA PendingIsNat ==
  ASSUME wp \in 0 .. PtrMod - 1, rp \in 0 .. PtrMod - 1
  PROVE  Pending \in 0 .. PtrMod - 1
  BY Sizes, DistanceValue DEF Pending

(* A dword of the payload is a dword.                                      *)
LEMMA PayloadIsDword ==
  ASSUME TypeOK, hpc = "payload", word < Words(frag)
  PROVE  Data(PayloadWord(word)) \in Dword
<1> DEFINE n == Least(frag - 4 * word, 4)
<1>1. frag \in Nat /\ word \in Nat /\ sent \in Nat /\ Len(log) \in Nat
  BY LenProperties DEF TypeOK
<1>2. n \in Nat
  BY <1>1, SMT DEF Least, Words
<1>3. PayloadWord(word) \in [1 .. n -> Byte]
  BY <1>1, <1>2 DEF PayloadWord, Byte
<1>4. PayloadWord(word) \in Seq(Byte)
  BY <1>2, <1>3, SeqDef
<1> QED BY <1>4 DEF Data, Dword

(* A header is a dword.                                                    *)
LEMMA HeaderIsDword ==
  ASSUME NEW a \in Addrs, NEW n \in Nat, NEW c \in BOOLEAN
  PROVE  Header(a, n, c) \in Dword
<1>1. n % LenMod \in Nat
  BY Sizes, DivMod
<1> QED BY <1>1, EmptySeq DEF Header, Dword

-----------------------------------------------------------------------------
(* The invariant holds initially.                                          *)
LEMMA InitInv == Init => Inv
<1> SUFFICES ASSUME Init PROVE Inv
  OBVIOUS
<1>1. Data(<<>>) \in Dword
  BY EmptySeq DEF Data, Dword
<1>2. Pending = 0
  BY Sizes, DistanceValue DEF Init, Pending
<1>3. \A S : <<>> \in Seq(S)
  BY EmptySeq
<1>4. /\ me \in [awake : BOOLEAN, left : Nat, complete : BOOLEAN,
                addr : Addrs \cup {{}}, bytes : Seq(Byte)]
      /\ log \in Seq([addr : Addrs, len : Lengths])
      /\ delivered \in Seq([addr : Addrs \cup {{}}, bytes : Seq(Byte)])
  BY <1>3 DEF Init, NoReader
<1>5. ring \in [0 .. Depth - 1 -> Dword]
  BY <1>1 DEF Init
<1>6. /\ wp \in 0 .. PtrMod - 1 /\ rp \in 0 .. PtrMod - 1
      /\ elapsed \in 0 .. Polls /\ empty \in 0 .. Depth - 1
      /\ sent \in Nat /\ frag \in Nat /\ word \in Nat
  BY Sizes DEF Init
<1>7. TypeOK
  BY <1>4, <1>5, <1>6, Zenon DEF Init, TypeOK
<1> QED BY <1>2, <1>7, Sizes DEF Init, Inv, NoOverrun, SlotsReserved

(* The host's checks: what wait_slots computes is what is free.            *)
LEMMA ReadHostCsrInv == Inv /\ ReadHostCsr => Inv'
<1> SUFFICES ASSUME Inv, ReadHostCsr PROVE Inv'
  OBVIOUS
<1> USE DEF Inv, ReadHostCsr, hw, history
<1>1. Pending \in 0 .. Depth - 1 /\ Pending' = Pending
  <2>1. Pending \in 0 .. PtrMod - 1
    BY PendingIsNat DEF TypeOK
  <2>2. Pending' = Pending
    BY DEF Pending
  <2> QED BY <2>1, <2>2, Sizes DEF NoOverrun
<1>2. empty' = Depth - Pending - 1
  BY FilledSlotsExact DEF TypeOK, NoOverrun, EmptySlots, Pending
<1>3. TypeOK'
  BY <1>1, <1>2, Sizes DEF TypeOK
<1> QED BY <1>1, <1>2, <1>3, Sizes DEF NoOverrun, SlotsReserved

(* A header starts a fragment that fits what is free.                      *)
LEMMA WriteHeaderInv == Inv /\ WriteHeader => Inv'
<1> SUFFICES ASSUME Inv, WriteHeader PROVE Inv'
  OBVIOUS
<1> USE DEF Inv, WriteHeader, Push
<1>1. /\ wp \in 0 .. PtrMod - 1 /\ rp \in 0 .. PtrMod - 1
      /\ msg.len \in Nat /\ msg.addr \in Addrs /\ sent \in Nat /\ empty \in Nat
      /\ hpc = "header" /\ hpc' = "payload" /\ Pending \in Nat
      /\ sent < msg.len /\ empty >= 2 /\ Pending + empty < Depth
  <2>1. /\ wp \in 0 .. PtrMod - 1 /\ rp \in 0 .. PtrMod - 1
        /\ msg.addr \in Addrs /\ msg.len \in Lengths
        /\ sent \in Nat /\ empty \in Nat
    BY DEF TypeOK
  <2>2. Pending \in Nat
    BY <2>1, PendingIsNat, Sizes
  <2> QED BY <2>1, <2>2, Sizes DEF SlotsReserved
<1>2. /\ frag' \in Nat /\ frag' >= 1 /\ sent + frag' <= msg.len
      /\ Words(frag') <= empty - 1 /\ Words(frag') \in Nat
  <2> DEFINE n == FragLen
  <2>1. n \in Nat /\ n >= 1 /\ sent + n <= msg.len /\ n <= (empty - 1) * 4
    <3> HIDE DEF Inv, WriteHeader
    <3> QED BY <1>1 DEF FragLen, MaxPayload, Least
  <2>2. frag' = n
    OBVIOUS
  <2> HIDE DEF n, Inv, WriteHeader
  <2>3. (n + 3) \div 4 <= empty - 1 /\ (n + 3) \div 4 \in Nat
    BY <2>1, <1>1
  <2> QED BY <2>1, <2>2, <2>3 DEF Words
<1>3. wp' \in 0 .. PtrMod - 1 /\ Pending' = Pending + 1
  BY <1>1, PushCounts, Sizes
<1>4. ring' \in [0 .. Depth - 1 -> Dword]
  <2>1. FragLen \in Nat /\ IsLast(FragLen) \in BOOLEAN
    BY <1>2 DEF IsLast
  <2> QED BY <2>1, <1>1, HeaderIsDword DEF TypeOK
<1>5. log' \in Seq([addr : Addrs, len : Lengths])
  BY AppendProperties DEF TypeOK
<1>6. TypeOK'
  BY <1>2, <1>3, <1>4, <1>5 DEF TypeOK
<1>7. word' = 0 /\ sent' = sent /\ msg' = msg
  OBVIOUS
<1>8. SlotsReserved'
  BY <1>1, <1>2, <1>3, <1>7, Sizes DEF SlotsReserved, Words
<1> QED BY <1>1, <1>3, <1>6, <1>8, Sizes DEF NoOverrun

(* Every payload dword takes a reserved slot.                              *)
LEMMA WriteWordInv == Inv /\ WriteWord => Inv'
<1> SUFFICES ASSUME Inv, WriteWord PROVE Inv'
  OBVIOUS
<1> USE DEF Inv, WriteWord, Push, history
<1>1. /\ wp \in 0 .. PtrMod - 1 /\ rp \in 0 .. PtrMod - 1
      /\ frag \in Nat /\ word \in Nat /\ Words(frag) \in Nat
      /\ hpc = "payload" /\ word < Words(frag) /\ Pending \in Nat
      /\ Pending + Words(frag) - word < Depth
  BY Sizes, PendingIsNat DEF TypeOK, SlotsReserved, Words
<1>2. wp' \in 0 .. PtrMod - 1 /\ Pending' = Pending + 1
  BY <1>1, PushCounts, Sizes
<1>3. ring' \in [0 .. Depth - 1 -> Dword]
  BY PayloadIsDword, <1>1 DEF TypeOK
<1>4. TypeOK'
  BY <1>1, <1>2, <1>3 DEF TypeOK
<1>5. Words(frag)' = Words(frag) /\ word' = word + 1
  BY DEF Words
<1>6. SlotsReserved'
  BY <1>1, <1>2, <1>5, Sizes DEF SlotsReserved
<1> QED BY <1>1, <1>2, <1>4, <1>6, Sizes DEF NoOverrun

(* The end of a fragment: the message is through, or more of it is left.   *)
LEMMA EndFragmentInv == Inv /\ EndFragment => Inv'
<1> SUFFICES ASSUME Inv, EndFragment PROVE Inv'
  OBVIOUS
<1> USE DEF Inv, EndFragment, history
<1>1. Pending' = Pending
  BY DEF Pending
<1>2. sent \in Nat /\ frag \in Nat /\ msg.len \in Nat /\ sent + frag <= msg.len
  BY Sizes DEF TypeOK, SlotsReserved
<1>3. TypeOK'
  BY <1>2, Sizes DEF TypeOK
<1> QED BY <1>1, <1>2, <1>3, Sizes DEF NoOverrun, SlotsReserved, IsLast

(* The ME takes a dword out: what the host reserved is still there.        *)
LEMMA MePopInv ==
  ASSUME Inv, MePop, me' \in [awake : BOOLEAN, left : Nat, complete : BOOLEAN,
                              addr : Addrs \cup {{}}, bytes : Seq(Byte)],
         delivered' \in Seq([addr : Addrs \cup {{}}, bytes : Seq(Byte)])
  PROVE  Inv'
<1> USE DEF Inv, MePop, hostCtl
<1>1. /\ wp \in 0 .. PtrMod - 1 /\ rp \in 0 .. PtrMod - 1
      /\ Pending \in Nat
  BY Sizes, PendingIsNat DEF TypeOK
<1>2. rp' \in 0 .. PtrMod - 1 /\ Pending' = Pending - 1
  BY <1>1, PopCounts
<1>3. TypeOK'
  BY <1>2 DEF TypeOK
<1>4. /\ empty \in Nat /\ word \in Nat /\ frag \in Nat /\ Words(frag) \in Nat
      /\ Words(frag)' = Words(frag)
  BY DEF TypeOK, Words
<1>5. Pending' < Depth
  BY <1>1, <1>2, Sizes DEF NoOverrun
<1>6. hpc \in {"csr", "header"} => Pending' + empty < Depth
  BY <1>1, <1>2, <1>4, Sizes DEF SlotsReserved
<1>7. hpc = "payload" => Pending' + Words(frag) - word < Depth
  BY <1>1, <1>2, <1>4, Sizes DEF SlotsReserved
<1>8. SlotsReserved'
  BY <1>4, <1>6, <1>7 DEF SlotsReserved
<1> QED BY <1>3, <1>5, <1>8 DEF NoOverrun

LEMMA MeReadHeaderInv == Inv /\ MeReadHeader => Inv'
<1> SUFFICES ASSUME Inv, MeReadHeader PROVE Inv'
  OBVIOUS
<1>1. ring[rp % Depth] \in Dword
  BY Sizes, DivMod DEF Inv, TypeOK
<1>2. me' \in [awake : BOOLEAN, left : Nat, complete : BOOLEAN,
               addr : Addrs \cup {{}}, bytes : Seq(Byte)]
  BY <1>1 DEF Inv, TypeOK, MeReadHeader, Dword
<1> QED BY <1>2, MePopInv DEF MeReadHeader, Inv, TypeOK

LEMMA MeReadWordInv == Inv /\ MeReadWord => Inv'
<1> SUFFICES ASSUME Inv, MeReadWord PROVE Inv'
  OBVIOUS
<1> DEFINE bytes == me.bytes \o ring[rp % Depth].bytes
           left  == me.left - Least(me.left, 4)
           done  == left = 0 /\ me.complete
<1>1. ring[rp % Depth] \in Dword
  BY Sizes, DivMod DEF Inv, TypeOK
<1>2. bytes \in Seq(Byte)
  BY <1>1, ConcatProperties DEF Inv, TypeOK, Dword
<1>3. left \in Nat
  BY DEF Inv, TypeOK, Least
<1>4. /\ me' = [me EXCEPT !.left = left, !.bytes = IF done THEN <<>> ELSE bytes]
      /\ delivered' = IF done
                      THEN Append(delivered, [addr |-> me.addr, bytes |-> bytes])
                      ELSE delivered
  BY DEF MeReadWord
<1> HIDE DEF bytes, left, done
<1>5. me' \in [awake : BOOLEAN, left : Nat, complete : BOOLEAN,
               addr : Addrs \cup {{}}, bytes : Seq(Byte)]
  BY <1>2, <1>3, <1>4, EmptySeq DEF Inv, TypeOK
<1>6. delivered' \in Seq([addr : Addrs \cup {{}}, bytes : Seq(Byte)])
  BY <1>2, <1>4, AppendProperties DEF Inv, TypeOK
<1> QED BY <1>5, <1>6, MePopInv DEF MeReadWord

(* The steps that move neither pointer nor fragment.                       *)
LEMMA ControlInv ==
  ASSUME Inv, UNCHANGED <<wp, rp>>, TypeOK',
         hpc' \in {"csr", "header", "payload"} => UNCHANGED <<msg, sent, empty,
                                                      frag, word, elapsed>>,
         hpc' = "csr" => hpc = "csr",
         hpc' = "header" => hpc = "header" \/ (hpc = "csr" /\ empty >= 2),
         hpc' = "payload" => hpc = "payload",
         hpc' = "wait" => sent' < msg'.len
  PROVE  Inv'
<1>1. Pending' = Pending
  BY DEF Pending
<1>2. NoOverrun'
  BY <1>1 DEF Inv, NoOverrun
<1>3. (Words(frag)' = Words(frag)) \/ hpc' \in {"idle", "wait"}
  BY DEF TypeOK, Words
<1>4. SlotsReserved'
  BY <1>1, <1>3 DEF Inv, SlotsReserved, TypeOK
<1> QED BY <1>2, <1>4 DEF Inv

LEMMA HostControlInv ==
  Inv /\ ((\E a \in Addrs, n \in Lengths : StartWrite(a, n))
            \/ SlotsFree \/ SlotsBusy \/ WriteFails) => Inv'
<1> SUFFICES ASSUME Inv,
                    (\E a \in Addrs, n \in Lengths : StartWrite(a, n))
                      \/ SlotsFree \/ SlotsBusy \/ WriteFails
             PROVE  Inv'
  OBVIOUS
<1>1. ASSUME NEW a \in Addrs, NEW n \in Lengths, StartWrite(a, n) PROVE Inv'
  <2> USE DEF StartWrite, hw, history
  <2>1. TypeOK'
    BY <1>1, Sizes DEF Inv, TypeOK
  <2>2. hpc' = "wait" /\ sent' < msg'.len /\ UNCHANGED <<wp, rp>>
    BY <1>1, Sizes DEF Inv, TypeOK
  <2> QED BY <2>1, <2>2, ControlInv
<1>2. CASE SlotsFree
  <2> USE DEF SlotsFree, hw, hostCtl, history
  <2>1. TypeOK'
    BY <1>2 DEF Inv, TypeOK
  <2> QED BY <1>2, <2>1, ControlInv
<1>3. CASE SlotsBusy
  <2> USE DEF SlotsBusy, hw, history
  <2>1. TypeOK'
    <3>1. elapsed \in 0 .. Polls /\ elapsed < Polls
      BY <1>3 DEF Inv, TypeOK, SlotsReserved
    <3>2. elapsed' \in 0 .. Polls
      BY <1>3, <3>1, Sizes
    <3>3. hpc' \in {"idle", "wait", "csr", "header", "payload"}
      BY <1>3
    <3> QED
      BY <1>3, <3>2, <3>3 DEF Inv, TypeOK
  <2>2. sent' < msg'.len
    BY <1>3 DEF Inv, SlotsReserved
  <2> QED BY <1>3, <2>1, <2>2, ControlInv
<1>4. CASE WriteFails
  <2> USE DEF WriteFails, hw, hostCtl
  <2>1. torn' \in BOOLEAN
    BY <1>4, Zenon DEF Inv, TypeOK
  <2>2. TypeOK'
    BY <1>4, <2>1 DEF Inv, TypeOK
  <2> QED BY <1>4, <2>2, ControlInv
<1> QED BY <1>1, <1>2, <1>3, <1>4

LEMMA ResetInv == Inv /\ Reset => Inv'
<1> SUFFICES ASSUME Inv, Reset PROVE Inv'
  OBVIOUS
<1> USE DEF Reset, hostCtl
<1>1. wp' \in 0 .. PtrMod - 1 /\ rp' \in 0 .. PtrMod - 1 /\ Pending' = 0
  BY Sizes, DistanceValue DEF Pending
<1>2. \A S : <<>> \in Seq(S)
  BY EmptySeq
<1>3. /\ me' \in [awake : BOOLEAN, left : Nat, complete : BOOLEAN,
                  addr : Addrs \cup {{}}, bytes : Seq(Byte)]
      /\ log' \in Seq([addr : Addrs, len : Lengths])
      /\ delivered' \in Seq([addr : Addrs \cup {{}}, bytes : Seq(Byte)])
  BY <1>2 DEF NoReader
<1>4. TypeOK'
  BY <1>1, <1>3 DEF Inv, TypeOK
<1> QED BY <1>1, <1>4, Sizes DEF Inv, NoOverrun, SlotsReserved

LEMMA MeControlInv == Inv /\ (MeWake \/ MeSleep \/ MeDown) => Inv'
<1> SUFFICES ASSUME Inv, MeWake \/ MeSleep \/ MeDown PROVE Inv'
  OBVIOUS
<1> USE DEF MeWake, MeSleep, MeDown, hw, hostCtl, history
<1>1. TypeOK'
  BY DEF Inv, TypeOK
<1>2. UNCHANGED <<wp, rp, hpc, msg, sent, empty, frag, word, elapsed>>
  OBVIOUS
<1>3. hpc = "wait" => sent' < msg'.len
  BY <1>2 DEF Inv, SlotsReserved
<1> QED BY <1>1, <1>2, <1>3, ControlInv

(* Every step of the host and of the ME keeps the invariant.               *)
LEMMA NextInv == Inv /\ [Next]_vars => Inv'
<1> SUFFICES ASSUME Inv, [Next]_vars PROVE Inv'
  OBVIOUS
<1>1. CASE Host
  BY <1>1, ReadHostCsrInv, HostControlInv, WriteHeaderInv, WriteWordInv,
     EndFragmentInv DEF Host
<1>2. CASE ME
  BY <1>2, MeControlInv, MeReadHeaderInv, MeReadWordInv DEF ME
<1>3. CASE UNCHANGED vars
  <2> USE <1>3 DEF vars, hw, hostCtl, history
  <2>1. TypeOK'
    BY DEF Inv, TypeOK
  <2>2. UNCHANGED <<wp, rp, hpc, msg, sent, empty, frag, word, elapsed>>
    OBVIOUS
  <2>3. hpc = "wait" => sent' < msg'.len
    BY <2>2 DEF Inv, SlotsReserved
  <2> QED BY <2>1, <2>2, <2>3, ControlInv
<1> QED BY <1>1, <1>2, <1>3, HostControlInv, ResetInv, MeControlInv DEF Next

LEMMA InvHolds == Spec => []Inv
  BY InitInv, NextInv, PTL DEF Spec

-----------------------------------------------------------------------------
(* In every state the variables have their types: in particular the        *)
(* pointers stay in their 8-bit field and a length never goes negative.    *)
THEOREM TypesHold == Spec => []TypeOK
<1>1. Inv => TypeOK
  BY DEF Inv
<1> QED BY <1>1, InvHolds, PTL

(* Whatever the depth of the buffer, the lengths of the messages and the   *)
(* pace of the ME, write_msg never fills the buffer's last slot, so it     *)
(* never overwrites a dword the ME has not read.                           *)
THEOREM NoOverrunHolds == Spec => []NoOverrun
<1>1. Inv => NoOverrun
  BY DEF Inv
<1> QED BY <1>1, InvHolds, PTL

(* A fragment's length stays below the modulus of the header's field.      *)
LEMMA FragLenBound ==
  ASSUME Inv, hpc = "header"
  PROVE  FragLen \in 0 .. LenMod - 1
<1>1. /\ msg.len \in Lengths /\ sent \in Nat /\ empty \in 0 .. Depth - 1
      /\ wp \in 0 .. PtrMod - 1 /\ rp \in 0 .. PtrMod - 1
  BY DEF Inv, TypeOK
<1>2. msg.len \in Nat /\ empty \in Nat /\ Pending \in Nat
  <2>1. msg.len \in Nat
    BY <1>1, Sizes
  <2>2. empty \in Nat
    BY <1>1, Sizes
  <2>3. Pending \in 0 .. PtrMod - 1
    BY <1>1, PendingIsNat
  <2> QED BY <2>1, <2>2, <2>3, Sizes
<1>3. sent < msg.len /\ empty >= 2 /\ Pending + empty < Depth
  BY DEF Inv, SlotsReserved
<1>4. FragLen \in Nat /\ FragLen <= (empty - 1) * 4
  BY <1>1, <1>2, <1>3 DEF FragLen, MaxPayload, Least
<1>5. LenMod \in Nat /\ Depth \in Nat /\ 4 * (Depth - 2) < LenMod
  BY HeaderAssumption, RingAssumption
<1> QED BY <1>2, <1>3, <1>4, <1>5

(* No fragment's length is truncated by the header's length field: the     *)
(* length the ME reads in a header is the length the host put there.       *)
THEOREM LengthFits ==
  Spec => [][WriteHeader => FragLen % LenMod = FragLen]_vars
<1>1. ASSUME Inv, WriteHeader PROVE FragLen % LenMod = FragLen
  <2>1. hpc = "header"
    BY <1>1 DEF WriteHeader
  <2>2. FragLen \in 0 .. LenMod - 1
    BY <1>1, <2>1, FragLenBound
  <2> DEFINE n == FragLen
  <2> HIDE DEF n
  <2>3. n \in 0 .. LenMod - 1
    BY <2>2 DEF n
  <2>4. (LenMod * 0 + n) % LenMod = n
    BY <2>3, Sizes, UniqueRemainder
  <2>5. LenMod * 0 + n = n
    BY <2>3, Sizes
  <2> QED BY <2>4, <2>5 DEF n
<1>2. Inv => [WriteHeader => FragLen % LenMod = FragLen]_vars
  BY <1>1
<1> QED BY <1>2, InvHolds, PTL

-----------------------------------------------------------------------------
(* The stream of dwords.  A cursor is a place between two dwords: at bytes *)
(* of the message have been passed, and left bytes of the fragment follow. *)

At(n, a, l) == [msg |-> n, at |-> a, left |-> l]

Cursor == [msg : Nat \ {0}, at : Nat, left : Nat]

(* Behind the last byte of a message the next one begins.                  *)
Past(lg, n, a, l) == IF l = 0 /\ a = lg[n].len THEN At(n + 1, 0, 0) ELSE At(n, a, l)

(* n bytes of the k-th message from its byte a on.                         *)
Bytes(k, a, n) == [b \in 1 .. n |-> <<k, a + b - 1>>]

(* In the messages lg, the dword d leads from the cursor c to e.           *)
Heads(lg, c, d, e) ==
  /\ d.len # 0 /\ d.addr = lg[c.msg].addr
  /\ c.at + d.len <= lg[c.msg].len
  /\ d.complete = (c.at + d.len = lg[c.msg].len)
  /\ e = At(c.msg, c.at, d.len)

Carries(lg, c, d, e) ==
  LET n == Least(c.left, 4) IN
    /\ c.at + c.left <= lg[c.msg].len
    /\ d.bytes = Bytes(c.msg, c.at, n)
    /\ e = Past(lg, c.msg, c.at + n, c.left - n)

Leads(lg, c, d, e) ==
  /\ c.msg \in 1 .. Len(lg)
  /\ IF c.left = 0 THEN Heads(lg, c, d, e) ELSE Carries(lg, c, d, e)

(* Where the ME is in the stream, and where the host is.                   *)
MeCursor == At(Len(delivered) + 1, Len(me.bytes), me.left)

HostCursor ==
  IF hpc = "payload"
  THEN IF word < Words(frag) THEN At(Len(log), sent + 4 * word, frag - 4 * word)
       ELSE Past(log, Len(log), sent + frag, 0)
  ELSE IF hpc # "idle" /\ sent > 0 THEN At(Len(log), sent, 0)
  ELSE At(Len(log) + 1, 0, 0)

Slot(r, i) == (r + i - 1) % Depth

(* What the ME keeps of the message it reads.                              *)
Kept ==
  /\ me.bytes = Bytes(Len(delivered) + 1, 0, Len(me.bytes))
  /\ me.left # 0 =>
       /\ Len(delivered) < Len(log)
       /\ me.addr = log[Len(delivered) + 1].addr
       /\ me.complete = (Len(me.bytes) + me.left = log[Len(delivered) + 1].len)

(* The host writes the last message of the log.                            *)
Current ==
  hpc = "payload" \/ (hpc # "idle" /\ sent > 0) => log # <<>> /\ log[Len(log)] = msg

(* What the ME delivered is what the host wrote.                           *)
Delivered(t, lg) ==
  /\ Len(t) <= Len(lg)
  /\ \A n \in 1 .. Len(t) : t[n].addr = lg[n].addr /\ t[n].bytes = Bytes(n, 0, lg[n].len)

(* cs are the cursors between the n dwords from slot r of the ring f on.   *)
Runs(cs, lg, f, r, n) ==
  /\ cs \in [0 .. n -> Cursor]
  /\ \A i \in 1 .. n : Leads(lg, cs[i - 1], f[Slot(r, i)], cs[i])

(* One cursor less in front, and one more at the end.                      *)
Shorter(cs, n) == [i \in 0 .. n - 1 |-> cs[i + 1]]

Longer(cs, n, e) == [i \in 0 .. n + 1 |-> IF i = n + 1 THEN e ELSE cs[i]]

(* The ring g is f with the dword d behind the n dwords from slot r on.    *)
Grown(f, g, r, n, d) ==
  /\ g[Slot(r, n + 1)] = d
  /\ \A i \in 1 .. n : g[Slot(r, i)] = f[Slot(r, i)]

(* The dwords in the buffer lead from where the ME is to where the host is. *)
Pipeline ==
  \E cs : /\ Runs(cs, log, ring, rp, Pending)
          /\ cs[0] = MeCursor /\ cs[Pending] = HostCursor

Whole == Pipeline /\ Kept /\ Current /\ Delivered(delivered, log)

-----------------------------------------------------------------------------
(* The slots of the ring.                                                  *)

(* Once round the pointers is several times round the ring.                *)
LEMMA RoundTrip ==
  ASSUME NEW x \in Int
  PROVE  (x + PtrMod) % Depth = x % Depth
<1> DEFINE a == PtrMod \div Depth
           q == x \div Depth
           s == x % Depth
<1>1. Depth \in Nat \ {0} /\ PtrMod \in Nat \ {0} /\ PtrMod % Depth = 0
  BY RingAssumption
<1>2. a \in Int /\ PtrMod = Depth * a
  <2>1. a \in Int /\ PtrMod = Depth * a + (PtrMod % Depth)
    BY <1>1, DivMod
  <2> QED BY <2>1, <1>1
<1>3. q \in Int /\ s \in 0 .. Depth - 1 /\ x = Depth * q + s
  BY <1>1, DivMod
<1> HIDE DEF a, q, s
<1>4. x + PtrMod = Depth * (q + a) + s
  BY <1>1, <1>2, <1>3, SMT
<1>5. (Depth * (q + a) + s) % Depth = s
  BY <1>1, <1>2, <1>3, UniqueRemainder
<1> QED BY <1>4, <1>5 DEF s

(* Fewer dwords than the ring is deep are in different slots.              *)
LEMMA SlotsDiffer ==
  ASSUME NEW x \in Int, NEW y \in Int, x < y, y - x < Depth
  PROVE  x % Depth # y % Depth
<1> DEFINE p == x \div Depth
           q == y \div Depth
<1>1. Depth \in Nat \ {0}
  BY RingAssumption
<1>2. /\ p \in Int /\ x % Depth \in 0 .. Depth - 1 /\ x = Depth * p + (x % Depth)
      /\ q \in Int /\ y % Depth \in 0 .. Depth - 1 /\ y = Depth * q + (y % Depth)
  BY <1>1, DivMod
<1> HIDE DEF p, q
<1> SUFFICES ASSUME x % Depth = y % Depth PROVE FALSE
  OBVIOUS
<1>3. y - x = Depth * (q - p)
  <2>1. Depth * (q - p) = Depth * q - Depth * p
    BY <1>1, <1>2, SMT
  <2>2. Depth * q \in Int /\ Depth * p \in Int
    BY <1>1, <1>2
  <2> QED BY <1>2, <2>1, <2>2
<1>4. q - p >= 1
  <2> SUFFICES ASSUME q - p <= 0 PROVE FALSE
    BY <1>2
  <2>1. Depth * (q - p) <= 0
    BY <1>1, <1>2, SMT
  <2> QED BY <1>3, <2>1
<1>5. Depth * (q - p) >= Depth
  BY <1>1, <1>2, <1>4, SMT
<1> QED BY <1>1, <1>3, <1>5

LEMMA SlotInRing ==
  ASSUME NEW r \in Int, NEW i \in Int
  PROVE  Slot(r, i) \in 0 .. Depth - 1
  BY Sizes, DivMod DEF Slot

(* The host's next dword goes behind those that are pending.               *)
LEMMA NextSlot ==
  ASSUME wp \in 0 .. PtrMod - 1, rp \in 0 .. PtrMod - 1
  PROVE  Slot(rp, Pending + 1) = wp % Depth
<1>1. Pending = IF wp >= rp THEN wp - rp ELSE wp - rp + PtrMod
  BY DistanceValue DEF Pending
<1>2. PtrMod \in Nat /\ wp \in Int /\ rp \in Int
  BY Sizes
<1>3. CASE wp >= rp
  <2>1. rp + (Pending + 1) - 1 = wp
    BY <1>1, <1>2, <1>3
  <2> QED BY <2>1 DEF Slot
<1>4. CASE wp < rp
  <2>1. rp + (Pending + 1) - 1 = wp + PtrMod
    BY <1>1, <1>2, <1>4
  <2> QED BY <2>1, <1>2, RoundTrip DEF Slot
<1> QED BY <1>2, <1>3, <1>4

(* ... and leaves those where they are.                                    *)
LEMMA OtherSlots ==
  ASSUME NEW r \in Int, NEW n \in Nat, n < Depth, NEW i \in 1 .. n
  PROVE  Slot(r, i) # Slot(r, n + 1)
<1>1. r + i - 1 \in Int /\ r + (n + 1) - 1 \in Int /\ r + i - 1 < r + (n + 1) - 1
      /\ (r + (n + 1) - 1) - (r + i - 1) < Depth
  BY Sizes
<1> QED BY <1>1, SlotsDiffer DEF Slot

(* The ME's read pointer takes the first of them away.                     *)
LEMMA PoppedSlots ==
  ASSUME NEW r \in 0 .. PtrMod - 1, NEW i \in Nat
  PROVE  Slot(Advance(r), i) = Slot(r, i + 1)
<1>1. Advance(r) = IF r + 1 = PtrMod THEN 0 ELSE r + 1
  BY AdvanceValue
<1>2. PtrMod \in Nat
  BY Sizes
<1>3. CASE r + 1 = PtrMod
  <2>1. r + (i + 1) - 1 = (Advance(r) + i - 1) + PtrMod /\ Advance(r) + i - 1 \in Int
    BY <1>1, <1>2, <1>3
  <2> QED BY <2>1, RoundTrip DEF Slot
<1>4. CASE r + 1 # PtrMod
  <2>1. r + (i + 1) - 1 = Advance(r) + i - 1
    BY <1>1, <1>2, <1>4
  <2> QED BY <2>1 DEF Slot
<1> QED BY <1>3, <1>4

-----------------------------------------------------------------------------
(* The stream.                                                             *)

LEMMA CursorFields ==
  ASSUME NEW n, NEW a, NEW l
  PROVE  /\ At(n, a, l).msg = n /\ At(n, a, l).at = a /\ At(n, a, l).left = l
         /\ n \in Nat \ {0} /\ a \in Nat /\ l \in Nat => At(n, a, l) \in Cursor
  BY DEF At, Cursor

LEMMA PastIsCursor ==
  ASSUME NEW lg, NEW n \in Nat \ {0}, NEW a \in Nat, NEW l \in Nat
  PROVE  Past(lg, n, a, l) \in Cursor
  BY CursorFields DEF Past

(* A longer log changes nothing of the messages that are in it.            *)
LEMMA LogGrows ==
  ASSUME NEW S, NEW lg \in Seq(S), NEW m \in S, NEW c, NEW d, NEW e,
         Leads(lg, c, d, e)
  PROVE  Leads(Append(lg, m), c, d, e)
<1> DEFINE g == Append(lg, m)
<1>1. Len(g) = Len(lg) + 1 /\ \A i \in 1 .. Len(lg) : g[i] = lg[i]
  BY AppendProperties
<1>2. Len(lg) \in Nat
  BY LenProperties
<1>3. c.msg \in 1 .. Len(lg) /\ c.msg \in 1 .. Len(g) /\ g[c.msg] = lg[c.msg]
  BY <1>1, <1>2 DEF Leads
<1> HIDE DEF g
<1>4. Leads(g, c, d, e)
  BY <1>3 DEF Leads, Heads, Carries, Past
<1> QED BY <1>4 DEF g

(* A dword pushed behind the others.                                       *)
LEMMA Pushed ==
  ASSUME NEW cs, NEW lg, NEW f, NEW g, NEW d, NEW r \in Int, NEW n \in Nat,
         NEW e \in Cursor, Runs(cs, lg, f, r, n), Leads(lg, cs[n], d, e),
         Grown(f, g, r, n, d)
  PROVE  /\ Runs(Longer(cs, n, e), lg, g, r, n + 1)
         /\ Longer(cs, n, e)[0] = cs[0] /\ Longer(cs, n, e)[n + 1] = e
<1> DEFINE es == Longer(cs, n, e)
<1>1. es \in [0 .. n + 1 -> Cursor]
  BY DEF Runs, Longer
<1>2. /\ es[n + 1] = e
      /\ \A i \in 0 .. n : es[i] = cs[i]
  BY DEF Longer
<1> HIDE DEF es
<1>3. ASSUME NEW i \in 1 .. n + 1 PROVE Leads(lg, es[i - 1], g[Slot(r, i)], es[i])
  <2>1. CASE i = n + 1
    <3>1. i - 1 = n /\ n \in 0 .. n
      BY <2>1
    <3> QED BY <2>1, <3>1, <1>2 DEF Grown
  <2>2. CASE i # n + 1
    <3>1. i \in 1 .. n /\ i - 1 \in 0 .. n /\ i \in 0 .. n
      BY <2>2
    <3> QED BY <3>1, <1>2 DEF Runs, Grown
  <2> QED BY <2>1, <2>2
<1>4. Runs(es, lg, g, r, n + 1)
  BY <1>1, <1>3 DEF Runs
<1>5. es[0] = cs[0]
  BY <1>2
<1> QED BY <1>2, <1>4, <1>5 DEF es

(* The first dword popped.                                                 *)
LEMMA Popped ==
  ASSUME NEW cs, NEW lg, NEW f, NEW r \in 0 .. PtrMod - 1, NEW n \in Nat \ {0},
         Runs(cs, lg, f, r, n)
  PROVE  /\ Runs(Shorter(cs, n), lg, f, Advance(r), n - 1)
         /\ Shorter(cs, n)[0] = cs[1] /\ Shorter(cs, n)[n - 1] = cs[n]
<1> DEFINE es == Shorter(cs, n)
<1>1. es \in [0 .. n - 1 -> Cursor]
  BY DEF Runs, Shorter
<1>2. \A i \in 0 .. n - 1 : es[i] = cs[i + 1]
  BY DEF Shorter
<1> HIDE DEF es
<1>3. ASSUME NEW i \in 1 .. n - 1
      PROVE  Leads(lg, es[i - 1], f[Slot(Advance(r), i)], es[i])
  <2>1. es[i - 1] = cs[i] /\ es[i] = cs[i + 1]
    BY <1>2
  <2>2. Slot(Advance(r), i) = Slot(r, i + 1)
    BY PoppedSlots
  <2>3. Leads(lg, cs[(i + 1) - 1], f[Slot(r, i + 1)], cs[i + 1])
    BY DEF Runs
  <2> QED BY <2>1, <2>2, <2>3
<1>4. Runs(es, lg, f, Advance(r), n - 1)
  BY <1>1, <1>3 DEF Runs
<1>5. es[0] = cs[1] /\ es[n - 1] = cs[n]
  BY <1>2
<1> QED BY <1>4, <1>5 DEF es

-----------------------------------------------------------------------------
(* The steps.                                                              *)

Intact == ~torn => Whole

LEMMA Typed ==
  ASSUME Inv
  PROVE  /\ wp \in 0 .. PtrMod - 1 /\ rp \in 0 .. PtrMod - 1 /\ rp \in Int
         /\ Pending \in Nat /\ Pending < Depth
         /\ sent \in Nat /\ frag \in Nat /\ word \in Nat
         /\ msg \in [addr : Addrs, len : Lengths] /\ msg.len \in Nat
         /\ log \in Seq([addr : Addrs, len : Lengths]) /\ Len(log) \in Nat
         /\ Len(delivered) \in Nat /\ Len(me.bytes) \in Nat /\ me.left \in Nat
         /\ ring \in [0 .. Depth - 1 -> Dword]
<1>1. /\ wp \in 0 .. PtrMod - 1 /\ rp \in 0 .. PtrMod - 1
      /\ sent \in Nat /\ frag \in Nat /\ word \in Nat
      /\ msg \in [addr : Addrs, len : Lengths]
      /\ ring \in [0 .. Depth - 1 -> Dword]
      /\ log \in Seq([addr : Addrs, len : Lengths])
  BY DEF Inv, TypeOK
<1>2. me.bytes \in Seq(Byte) /\ me.left \in Nat
  BY DEF Inv, TypeOK
<1>3. delivered \in Seq([addr : Addrs \cup {{}}, bytes : Seq(Byte)])
  BY DEF Inv, TypeOK
<1>4. Len(log) \in Nat /\ Len(delivered) \in Nat /\ Len(me.bytes) \in Nat
  BY <1>1, <1>2, <1>3, LenProperties
<1>5. Pending \in Nat /\ Pending < Depth /\ rp \in Int
  BY <1>1, PendingIsNat, Sizes DEF Inv, NoOverrun
<1>6. msg.len \in Nat
  BY <1>1, Sizes
<1> QED BY <1>1, <1>2, <1>4, <1>5, <1>6

(* The steps that move no dword.                                           *)
LEMMA StillWhole ==
  ASSUME Whole, UNCHANGED <<ring, wp, rp, log, delivered>>,
         UNCHANGED <<me.bytes, me.left, me.addr, me.complete>>,
         HostCursor' = HostCursor, Current'
  PROVE  Whole'
<1>1. Pending' = Pending /\ MeCursor' = MeCursor
  BY DEF Pending, MeCursor
<1>2. Pipeline'
  BY <1>1 DEF Whole, Pipeline
<1>3. Kept' /\ Delivered(delivered, log)'
  BY DEF Whole, Kept, Delivered
<1> QED BY <1>2, <1>3 DEF Whole

LEMMA StartWriteWhole ==
  ASSUME Whole, NEW a \in Addrs, NEW n \in Lengths, StartWrite(a, n)
  PROVE  Whole'
<1>1. /\ UNCHANGED <<ring, wp, rp, log, delivered, me>>
      /\ hpc = "idle" /\ hpc' = "wait" /\ sent' = 0
  BY DEF StartWrite, hw, history
<1>2. HostCursor' = HostCursor /\ Current'
  BY <1>1 DEF HostCursor, Current
<1> QED BY <1>1, <1>2, StillWhole

LEMMA WaitWhole ==
  ASSUME Whole, ReadHostCsr \/ SlotsFree \/ SlotsBusy
  PROVE  Whole'
<1>1. /\ UNCHANGED <<ring, wp, rp, log, delivered, me, sent, msg>>
      /\ hpc \in {"wait", "csr", "header"} /\ hpc' \in {"wait", "csr", "header"}
  BY DEF ReadHostCsr, SlotsFree, SlotsBusy, hw, hostCtl, history
<1>2. HostCursor' = HostCursor /\ Current'
  BY <1>1 DEF HostCursor, Current, Whole
<1> QED BY <1>1, <1>2, StillWhole

(* A write_msg that gives up before its first fragment leaves nothing.     *)
LEMMA WriteFailsWhole ==
  ASSUME Inv, Intact, WriteFails
  PROVE  Intact'
<1> SUFFICES ASSUME ~torn' PROVE Whole'
  BY DEF Intact
<1>1. /\ UNCHANGED <<ring, wp, rp, log, delivered, me>>
      /\ hpc \in {"wait", "csr"} /\ hpc' = "idle"
      /\ torn' = (torn \/ sent > 0)
  BY DEF WriteFails, hw, hostCtl
<1>2. ~torn /\ ~(sent > 0)
  BY <1>1, Zenon
<1>3. HostCursor' = HostCursor /\ Current'
  BY <1>1, <1>2 DEF HostCursor, Current
<1> QED BY <1>1, <1>2, <1>3, StillWhole DEF Intact

LEMMA MeControlWhole ==
  ASSUME Inv, Whole, MeWake \/ MeSleep \/ MeDown
  PROVE  Whole'
<1>1. /\ UNCHANGED <<ring, wp, rp, log, delivered, hpc, msg, sent, frag, word>>
      /\ \E b \in BOOLEAN : me' = [me EXCEPT !.awake = b]
  BY DEF MeWake, MeSleep, MeDown, hw, hostCtl, history
<1>2. UNCHANGED <<me.bytes, me.left, me.addr, me.complete>>
  BY <1>1 DEF Inv, TypeOK
<1>3. HostCursor' = HostCursor /\ Current'
  BY <1>1 DEF HostCursor, Current, Words, Past, Whole
<1> QED BY <1>1, <1>2, <1>3, StillWhole

(* The end of a fragment moves nothing: the host was behind its last word. *)
LEMMA EndFragmentWhole ==
  ASSUME Inv, Whole, EndFragment
  PROVE  Whole'
<1>1. /\ UNCHANGED <<ring, wp, rp, log, delivered, me, msg>>
      /\ hpc = "payload" /\ word = Words(frag) /\ sent' = sent + frag
      /\ hpc' = IF IsLast(frag) THEN "idle" ELSE "wait"
  BY DEF EndFragment, history
<1>2. /\ sent \in Nat /\ frag \in Nat /\ msg.len \in Nat /\ word \in Nat
      /\ frag >= 1 /\ sent + frag <= msg.len
  BY <1>1, Typed DEF Inv, SlotsReserved
<1>3. log # <<>> /\ log[Len(log)] = msg
  BY <1>1 DEF Whole, Current
<1>4. HostCursor = IF sent + frag = msg.len THEN At(Len(log) + 1, 0, 0)
                   ELSE At(Len(log), sent + frag, 0)
  BY <1>1, <1>2, <1>3 DEF HostCursor, Past
<1>5. CASE sent + frag = msg.len
  <2>1. hpc' = "idle"
    BY <1>1, <1>2, <1>5 DEF IsLast
  <2>2. HostCursor' = HostCursor /\ Current'
    BY <1>1, <1>4, <1>5, <2>1 DEF HostCursor, Current
  <2> QED BY <1>1, <2>2, StillWhole
<1>6. CASE sent + frag # msg.len
  <2>1. hpc' = "wait" /\ sent' > 0
    BY <1>1, <1>2, <1>6 DEF IsLast
  <2>2. HostCursor' = HostCursor
    BY <1>1, <1>4, <1>6, <2>1 DEF HostCursor
  <2>3. Current'
    BY <1>1, <1>3 DEF Current
  <2> QED BY <1>1, <2>2, <2>3, StillWhole
<1> QED BY <1>5, <1>6

(* Nothing is written and nothing read.                                    *)
LEMMA StartOver ==
  ASSUME wp = 0, rp = 0, me = NoReader, log = <<>>, delivered = <<>>,
         hpc = "idle"
  PROVE  Whole
<1> DEFINE cs == [i \in 0 .. 0 |-> At(1, 0, 0)]
<1>1. Pending = 0
  BY Sizes, DistanceValue DEF Pending
<1>2. Len(log) = 0 /\ Len(delivered) = 0 /\ Len(me.bytes) = 0 /\ me.left = 0
  BY DEF NoReader
<1>3. MeCursor = At(1, 0, 0) /\ HostCursor = At(1, 0, 0)
  BY <1>2 DEF MeCursor, HostCursor
<1>4. At(1, 0, 0) \in Cursor
  BY CursorFields
<1>5. cs \in [0 .. 0 -> Cursor] /\ cs[0] = At(1, 0, 0)
  BY <1>4
<1> HIDE DEF cs
<1>6. Runs(cs, log, ring, rp, 0)
  BY <1>5 DEF Runs
<1>7. Pipeline
  BY <1>1, <1>3, <1>5, <1>6 DEF Pipeline
<1>8. me.bytes = Bytes(Len(delivered) + 1, 0, Len(me.bytes))
  BY <1>2 DEF Bytes, NoReader
<1>9. Kept /\ Current
  BY <1>2, <1>8 DEF Kept, Current
<1>10. Delivered(delivered, log)
  BY <1>2 DEF Delivered
<1> QED BY <1>7, <1>9, <1>10 DEF Whole

LEMMA ResetWhole ==
  ASSUME Reset
  PROVE  Whole'
<1>1. /\ wp' = 0 /\ rp' = 0 /\ me' = NoReader /\ log' = <<>> /\ delivered' = <<>>
      /\ hpc' = "idle"
  BY DEF Reset, hostCtl
<1>2. (wp = 0 /\ rp = 0 /\ me = NoReader /\ log = <<>> /\ delivered = <<>>
        /\ hpc = "idle" => Whole)'
  BY StartOver, PTL
<1> QED BY <1>1, <1>2

(* A push adds its dword behind those that are pending.                    *)
LEMMA PushRing ==
  ASSUME Inv, NEW d, Push(d)
  PROVE  Grown(ring, ring', rp, Pending, d)
<1>1. /\ rp \in Int /\ Pending \in Nat /\ Pending < Depth
      /\ ring \in [0 .. Depth - 1 -> Dword]
  BY Typed
<1>2. ring' = [ring EXCEPT ![Slot(rp, Pending + 1)] = d]
  BY NextSlot, Typed DEF Push
<1>3. \A i : i \in Int => Slot(rp, i) \in DOMAIN ring
  BY <1>1, SlotInRing
<1>4. \A i \in 1 .. Pending : Slot(rp, i) # Slot(rp, Pending + 1)
  BY <1>1, OtherSlots
<1>5. Slot(rp, Pending + 1) \in DOMAIN ring
  <2>1. Pending + 1 \in Int
    BY <1>1
  <2> QED BY <2>1, <1>3
<1>6. \A i \in 1 .. Pending : Slot(rp, i) \in DOMAIN ring
  <2>1. \A i \in 1 .. Pending : i \in Int
    BY <1>1
  <2> QED BY <2>1, <1>3
<1> QED BY <1>1, <1>2, <1>4, <1>5, <1>6 DEF Grown

(* The host pushes the dword that leads to where it is next.               *)
LEMMA PushWhole ==
  ASSUME Inv, NEW lg, NEW d, NEW cs, NEW e \in Cursor,
         Runs(cs, lg, ring, rp, Pending), cs[0] = MeCursor,
         Leads(lg, cs[Pending], d, e), HostCursor' = e,
         Push(d), Pending + 1 < Depth, log' = lg, UNCHANGED <<rp, me, delivered>>
  PROVE  Pipeline'
<1>1. Pending' = Pending + 1
  BY PushCounts, Typed DEF Push
<1>2. Grown(ring, ring', rp, Pending, d)
  BY PushRing
<1>3. rp \in Int /\ Pending \in Nat
  BY Typed
<1> DEFINE es == Longer(cs, Pending, e)
<1>4. /\ Runs(es, lg, ring', rp, Pending + 1)
      /\ es[0] = cs[0] /\ es[Pending + 1] = e
  BY <1>2, <1>3, Pushed
<1>5. MeCursor' = MeCursor
  BY DEF MeCursor
<1>6. UNCHANGED rp
  OBVIOUS
<1> HIDE DEF es
<1>7. Runs(es, log', ring', rp', Pending') /\ es[0] = MeCursor' /\ es[Pending'] = HostCursor'
  BY <1>1, <1>4, <1>5, <1>6
<1> QED BY <1>7 DEF Pipeline

(* The length of a fragment passes through the header's field.             *)
LEMMA HeaderFields ==
  ASSUME Inv, hpc = "header"
  PROVE  /\ FragLen \in Nat \ {0} /\ sent + FragLen <= msg.len
         /\ Header(msg.addr, FragLen, IsLast(FragLen)).len = FragLen
         /\ Header(msg.addr, FragLen, IsLast(FragLen)).addr = msg.addr
         /\ Header(msg.addr, FragLen, IsLast(FragLen)).complete = IsLast(FragLen)
<1> DEFINE n == FragLen
<1>1. n \in 0 .. LenMod - 1
  BY FragLenBound
<1>2. /\ sent \in Nat /\ msg.len \in Nat /\ sent < msg.len
      /\ empty \in Nat /\ empty >= 2
  BY Typed, Sizes DEF Inv, TypeOK, SlotsReserved
<1>3. n \in Nat \ {0} /\ sent + n <= msg.len
  BY <1>2 DEF FragLen, MaxPayload, Least
<1> HIDE DEF n
<1>4. n % LenMod = n
  <2>1. (LenMod * 0 + n) % LenMod = n
    BY <1>1, Sizes, UniqueRemainder
  <2>2. LenMod * 0 + n = n
    BY <1>1, Sizes
  <2> QED BY <2>1, <2>2
<1>5. /\ Header(msg.addr, n, IsLast(n)).len = n
      /\ Header(msg.addr, n, IsLast(n)).addr = msg.addr
      /\ Header(msg.addr, n, IsLast(n)).complete = IsLast(n)
  BY <1>4 DEF Header
<1> QED BY <1>3, <1>5 DEF n

LEMMA WriteHeaderWhole ==
  ASSUME Inv, Whole, WriteHeader
  PROVE  Whole'
<1> DEFINE n == FragLen
           d == Header(msg.addr, n, IsLast(n))
           k == Len(log')
<1>1. /\ hpc = "header" /\ hpc' = "payload" /\ word' = 0 /\ frag' = n /\ Push(d)
      /\ log' = IF sent = 0 THEN Append(log, msg) ELSE log
      /\ UNCHANGED <<rp, me, delivered, sent, msg>>
  BY DEF WriteHeader
<1>2. /\ n \in Nat \ {0} /\ sent + n <= msg.len
      /\ d.len = n /\ d.addr = msg.addr /\ d.complete = IsLast(n)
  BY <1>1, HeaderFields
<1> HIDE DEF n, d
<1>3. /\ sent \in Nat /\ msg.len \in Nat /\ Len(log) \in Nat /\ Pending \in Nat
      /\ log \in Seq([addr : Addrs, len : Lengths]) /\ msg \in [addr : Addrs, len : Lengths]
  BY Typed
<1>4. Pending + 1 < Depth
  <2>1. empty \in Nat /\ empty >= 2 /\ Pending + empty < Depth
    BY <1>1, Sizes DEF Inv, TypeOK, SlotsReserved
  <2> QED BY <2>1, <1>3, Sizes
<1>5. /\ k = IF sent = 0 THEN Len(log) + 1 ELSE Len(log)
      /\ \A i \in 1 .. Len(log) : log'[i] = log[i]
      /\ k \in 1 .. Len(log') /\ log'[k] = msg
  <2>1. CASE sent = 0
    BY <1>1, <1>3, <2>1, AppendProperties
  <2>2. CASE sent # 0
    <3>1. log # <<>> /\ log[Len(log)] = msg
      BY <1>1, <1>3, <2>2 DEF Whole, Current
    <3>2. Len(log) >= 1
      BY <3>1, <1>3, EmptySeq
    <3> QED BY <1>1, <1>3, <2>2, <3>1, <3>2
  <2> QED BY <2>1, <2>2
<1> HIDE DEF k
<1>6. HostCursor = At(k, sent, 0)
  BY <1>1, <1>3, <1>5 DEF HostCursor
<1>7. HostCursor' = At(k, sent, n)
  <2>1. 0 < Words(n)
    BY <1>2 DEF Words
  <2>2. sent' + 4 * word' = sent /\ frag' - 4 * word' = n
    BY <1>1, <1>2, <1>3
  <2> QED BY <1>1, <2>1, <2>2 DEF HostCursor, k
<1>8. Leads(log', HostCursor, d, HostCursor')
  <2>1. At(k, sent, 0).msg = k /\ At(k, sent, 0).at = sent /\ At(k, sent, 0).left = 0
    BY CursorFields
  <2>2. IsLast(n) = (sent + n = msg.len)
    BY <1>2, <1>3 DEF IsLast
  <2>3. Heads(log', At(k, sent, 0), d, At(k, sent, n))
    BY <1>2, <1>5, <2>1, <2>2 DEF Heads
  <2> QED BY <1>5, <1>6, <1>7, <2>1, <2>3 DEF Leads
<1>9. HostCursor' \in Cursor
  BY <1>2, <1>3, <1>5, <1>7, CursorFields
<1>10. PICK cs : /\ Runs(cs, log, ring, rp, Pending)
                 /\ cs[0] = MeCursor /\ cs[Pending] = HostCursor
  BY DEF Whole, Pipeline
<1>11. Runs(cs, log', ring, rp, Pending)
  <2>1. CASE sent = 0
    <3>1. \A i \in 1 .. Pending :
             Leads(Append(log, msg), cs[i - 1], ring[Slot(rp, i)], cs[i])
      BY <1>3, <1>10, LogGrows DEF Runs
    <3> QED BY <1>1, <1>10, <2>1, <3>1 DEF Runs
  <2>2. CASE sent # 0
    BY <1>1, <1>10, <2>2
  <2> QED BY <2>1, <2>2
<1>12. Pipeline'
  BY <1>1, <1>4, <1>8, <1>9, <1>10, <1>11, PushWhole
<1>13. Len(delivered) <= Len(log) /\ Len(log) <= Len(log') /\ Len(log') \in Nat
       /\ Len(delivered) \in Nat
  BY <1>3, <1>5, Typed DEF Whole, Delivered, k
<1>14. Kept'
  <2>1. me.left # 0 => /\ Len(delivered) < Len(log')
                       /\ log'[Len(delivered) + 1] = log[Len(delivered) + 1]
    BY <1>3, <1>5, <1>13 DEF Whole, Kept
  <2> QED BY <1>1, <2>1 DEF Whole, Kept
<1>15. Delivered(delivered, log)'
  BY <1>1, <1>3, <1>5, <1>13 DEF Whole, Delivered
<1>16. Current'
  <2>1. log' # <<>>
    BY <1>5, EmptySeq DEF k
  <2> QED BY <1>1, <1>5, <2>1 DEF Current, k
<1> QED BY <1>12, <1>14, <1>15, <1>16 DEF Whole

LEMMA WriteWordWhole ==
  ASSUME Inv, Whole, WriteWord
  PROVE  Whole'
<1> DEFINE d == Data(PayloadWord(word))
           k == Len(log)
           n == Least(frag - 4 * word, 4)
           c == At(k, sent + 4 * word, frag - 4 * word)
           e == Past(log, k, sent + 4 * word + n, frag - 4 * word - n)
<1>1. /\ hpc = "payload" /\ hpc' = "payload" /\ word < Words(frag) /\ word' = word + 1
      /\ Push(d) /\ UNCHANGED <<rp, me, delivered, log, sent, msg, frag>>
  BY DEF WriteWord, history
<1>2. /\ sent \in Nat /\ frag \in Nat /\ word \in Nat /\ msg.len \in Nat
      /\ k \in Nat /\ Pending \in Nat /\ log \in Seq([addr : Addrs, len : Lengths])
  BY Typed
<1>3. sent + frag <= msg.len /\ Pending + 1 < Depth
  <2>1. /\ sent + frag <= msg.len /\ Pending + Words(frag) - word < Depth
    BY <1>1 DEF Inv, SlotsReserved
  <2>2. Words(frag) \in Nat
    BY <1>2 DEF Words
  <2> QED BY <1>1, <1>2, <2>1, <2>2, Sizes
<1>4. log # <<>> /\ log[k] = msg /\ k \in 1 .. Len(log)
  <2>1. log # <<>> /\ log[k] = msg
    BY <1>1 DEF Whole, Current
  <2> QED BY <1>2, <2>1, EmptySeq
<1>5. /\ frag - 4 * word \in Nat \ {0} /\ n \in 1 .. 4 /\ frag - 4 * word - n \in Nat
      /\ (frag - 4 * word - n = 0) = ~(word + 1 < Words(frag))
      /\ word + 1 < Words(frag) => n = 4
  BY <1>1, <1>2 DEF Words, Least
<1>6. d.bytes = Bytes(k, sent + 4 * word, n)
  BY DEF Data, PayloadWord, Bytes
<1> HIDE DEF n, d
<1>7. HostCursor = c
  BY <1>1 DEF HostCursor
<1>8. HostCursor' = e
  <2>1. CASE word + 1 < Words(frag)
    <3>1. /\ sent' + 4 * word' = sent + 4 * word + n
          /\ frag' - 4 * word' = frag - 4 * word - n /\ frag - 4 * word - n # 0
      BY <1>1, <1>2, <1>5, <2>1
    <3>2. HostCursor' = At(Len(log), sent' + 4 * word', frag' - 4 * word')
      BY <1>1, <2>1 DEF HostCursor, Words
    <3> QED BY <3>1, <3>2 DEF Past
  <2>2. CASE ~(word + 1 < Words(frag))
    <3>1. sent + 4 * word + n = sent + frag /\ frag - 4 * word - n = 0
      BY <1>2, <1>5, <2>2
    <3>2. HostCursor' = Past(log, Len(log), sent + frag, 0)
      BY <1>1, <2>2 DEF HostCursor, Words, Past
    <3> QED BY <3>1, <3>2
  <2> QED BY <2>1, <2>2
<1>9. Leads(log, c, d, e)
  <2>1. /\ c.msg = k /\ c.at = sent + 4 * word /\ c.left = frag - 4 * word
    BY CursorFields
  <2>2. Least(c.left, 4) = n
    BY <2>1 DEF n
  <2>3. c.at + c.left <= log[c.msg].len
    BY <1>2, <1>3, <1>4, <2>1
  <2> HIDE DEF c, e
  <2>4. Carries(log, c, d, e)
    BY <1>6, <2>1, <2>2, <2>3 DEF Carries, e
  <2> QED BY <1>4, <1>5, <2>1, <2>4 DEF Leads
<1>10. e \in Cursor
  BY <1>2, <1>4, <1>5, PastIsCursor
<1> HIDE DEF c, e
<1>11. Pipeline'
  BY <1>1, <1>3, <1>7, <1>8, <1>9, <1>10, PushWhole DEF Whole, Pipeline
<1>12. Kept' /\ Delivered(delivered, log)' /\ Current'
  BY <1>1 DEF Whole, Kept, Delivered, Current
<1> QED BY <1>11, <1>12 DEF Whole

(* The ME takes the dword that leads on from where it is.                  *)
LEMMA FirstDword ==
  ASSUME Inv, wp # rp, NEW cs, Runs(cs, log, ring, rp, Pending), cs[0] = MeCursor
  PROVE  /\ Pending \in Nat \ {0}
         /\ Leads(log, MeCursor, ring[rp % Depth], cs[1]) /\ cs[1] \in Cursor
<1>1. wp \in 0 .. PtrMod - 1 /\ rp \in 0 .. PtrMod - 1 /\ Pending \in Nat
  BY Typed
<1>2. Pending # 0
  BY <1>1, DistanceValue, Sizes DEF Pending
<1>3. 1 \in 1 .. Pending /\ 1 \in 0 .. Pending
  BY <1>1, <1>2
<1>4. Slot(rp, 1) = rp % Depth
  <2>1. rp + 1 - 1 = rp
    BY <1>1
  <2> QED BY <2>1 DEF Slot
<1>5. Leads(log, cs[1 - 1], ring[Slot(rp, 1)], cs[1]) /\ cs[1] \in Cursor
  BY <1>3 DEF Runs
<1> QED BY <1>1, <1>2, <1>4, <1>5

LEMMA PopWhole ==
  ASSUME Inv, MePop, NEW cs, Runs(cs, log, ring, rp, Pending),
         Pending \in Nat \ {0}, cs[Pending] = HostCursor, MeCursor' = cs[1]
  PROVE  Pipeline'
<1>1. /\ UNCHANGED <<ring, wp, hpc, sent, frag, word, log>> /\ wp # rp
      /\ rp' = Advance(rp)
  BY DEF MePop, hostCtl
<1>2. Pending' = Pending - 1 /\ rp \in 0 .. PtrMod - 1
  BY <1>1, PopCounts, Typed
<1> DEFINE es == Shorter(cs, Pending)
<1>3. /\ Runs(es, log, ring, Advance(rp), Pending - 1)
      /\ es[0] = cs[1] /\ es[Pending - 1] = cs[Pending]
  BY <1>2, Popped
<1> HIDE DEF es
<1>4. HostCursor' = HostCursor
  BY <1>1 DEF HostCursor, Words, Past
<1>5. Runs(es, log', ring', rp', Pending') /\ es[0] = MeCursor' /\ es[Pending'] = HostCursor'
  BY <1>1, <1>2, <1>3, <1>4
<1> QED BY <1>5 DEF Pipeline

LEMMA MeReadHeaderWhole ==
  ASSUME Inv, Whole, MeReadHeader
  PROVE  Whole'
<1> DEFINE d == ring[rp % Depth]
           n == Len(delivered) + 1
           a == Len(me.bytes)
<1>1. /\ MePop /\ wp # rp /\ me.left = 0
      /\ UNCHANGED <<delivered, log, hpc, sent, msg>>
      /\ me' = [me EXCEPT !.left = d.len, !.complete = d.complete, !.addr = d.addr]
  BY DEF MeReadHeader, MePop, hostCtl
<1>2. PICK cs : /\ Runs(cs, log, ring, rp, Pending)
                /\ cs[0] = MeCursor /\ cs[Pending] = HostCursor
  BY DEF Whole, Pipeline
<1>3. /\ Pending \in Nat \ {0} /\ Leads(log, MeCursor, d, cs[1])
  BY <1>1, <1>2, FirstDword
<1>4. MeCursor.msg = n /\ MeCursor.at = a /\ MeCursor.left = 0
  BY <1>1, CursorFields DEF MeCursor
<1>5. /\ n \in 1 .. Len(log) /\ d.len # 0 /\ d.addr = log[n].addr
      /\ d.complete = (a + d.len = log[n].len) /\ cs[1] = At(n, a, d.len)
  BY <1>3, <1>4 DEF Leads, Heads
<1>6. /\ me'.left = d.len /\ me'.complete = d.complete /\ me'.addr = d.addr
      /\ me'.bytes = me.bytes
  BY <1>1 DEF Inv, TypeOK
<1> HIDE DEF d
<1>7. MeCursor' = cs[1]
  BY <1>1, <1>5, <1>6 DEF MeCursor
<1>8. Pipeline'
  BY <1>1, <1>2, <1>3, <1>7, PopWhole
<1>9. Kept'
  <2>1. Len(delivered) < Len(log)
    BY <1>5, Typed
  <2> QED BY <1>1, <1>5, <1>6, <2>1 DEF Whole, Kept
<1>10. Current' /\ Delivered(delivered, log)'
  BY <1>1 DEF Whole, Current, Delivered
<1> QED BY <1>8, <1>9, <1>10 DEF Whole

LEMMA Items ==
  ASSUME NEW S, NEW n \in Nat, NEW f \in [1 .. n -> S]
  PROVE  f \in Seq(S) /\ Len(f) = n
  OBVIOUS

LEMMA BytesLength ==
  ASSUME NEW k, NEW a, NEW n \in Nat
  PROVE  Len(Bytes(k, a, n)) = n
  BY DEF Bytes

(* A stretch of a message, and the one behind it.                          *)
LEMMA JoinedBytes ==
  ASSUME NEW k \in Nat, NEW a \in Nat, NEW n \in Nat
  PROVE  Bytes(k, 0, a) \o Bytes(k, a, n) = Bytes(k, 0, a + n)
<1> DEFINE q == Bytes(k, 0, a)
           t == Bytes(k, a, n)
           u == Bytes(k, 0, a + n)
<1>1. q \in [1 .. a -> Nat \X Int] /\ t \in [1 .. n -> Nat \X Int]
      /\ u \in [1 .. a + n -> Nat \X Int] /\ a + n \in Nat
  BY DEF Bytes
<1>2. /\ \A i \in 1 .. a : q[i] = <<k, 0 + i - 1>>
      /\ \A i \in 1 .. n : t[i] = <<k, a + i - 1>>
      /\ \A i \in 1 .. a + n : u[i] = <<k, 0 + i - 1>>
  BY DEF Bytes
<1> HIDE DEF q, t, u
<1>3. /\ q \in Seq(Nat \X Int) /\ Len(q) = a /\ t \in Seq(Nat \X Int) /\ Len(t) = n
      /\ u \in Seq(Nat \X Int) /\ Len(u) = a + n
  BY <1>1, Items
<1> DEFINE w == q \o t
<1>4. /\ w \in Seq(Nat \X Int) /\ Len(w) = a + n
      /\ \A i \in 1 .. a + n : w[i] = IF i <= a THEN q[i] ELSE t[i - a]
  BY <1>3, ConcatProperties
<1> HIDE DEF w
<1>5. ASSUME NEW i \in 1 .. a + n PROVE w[i] = u[i]
  <2>1. u[i] = <<k, 0 + i - 1>> /\ w[i] = IF i <= a THEN q[i] ELSE t[i - a]
    BY <1>2, <1>4
  <2>2. CASE i <= a
    <3>1. i \in 1 .. a
      BY <2>2
    <3> QED BY <1>2, <2>1, <2>2, <3>1
  <2>3. CASE i > a
    <3>1. i - a \in 1 .. n /\ a + (i - a) - 1 = 0 + i - 1 /\ ~(i <= a)
      BY <2>3
    <3>2. t[i - a] = <<k, a + (i - a) - 1>>
      BY <1>2, <3>1
    <3> QED BY <2>1, <3>1, <3>2
  <2>4. i <= a \/ i > a
    OBVIOUS
  <2> QED BY <2>2, <2>3, <2>4
<1>6. w = u
  BY <1>3, <1>4, <1>5, SeqEqual
<1> QED BY <1>3, <1>6 DEF q, t, u, w

LEMMA FourAtMost ==
  ASSUME NEW x \in Nat \ {0}
  PROVE  Least(x, 4) \in 1 .. 4 /\ x - Least(x, 4) \in Nat
  BY DEF Least

LEMMA MeReadWordWhole ==
  ASSUME Inv, Whole, MeReadWord
  PROVE  Whole'
<1> DEFINE d     == ring[rp % Depth]
           k     == Len(delivered) + 1
           a     == Len(me.bytes)
           n     == Least(me.left, 4)
           bytes == me.bytes \o d.bytes
           left  == me.left - n
           done  == left = 0 /\ me.complete
<1>1. /\ MePop /\ wp # rp /\ me.left > 0
      /\ UNCHANGED <<log, hpc, sent, msg>>
      /\ me' = [me EXCEPT !.left = left, !.bytes = IF done THEN <<>> ELSE bytes]
      /\ delivered' = IF done THEN Append(delivered, [addr |-> me.addr, bytes |-> bytes])
                      ELSE delivered
  BY DEF MeReadWord, MePop, hostCtl
<1>2. PICK cs : /\ Runs(cs, log, ring, rp, Pending)
                /\ cs[0] = MeCursor /\ cs[Pending] = HostCursor
  BY DEF Whole, Pipeline
<1>3. /\ Pending \in Nat \ {0} /\ Leads(log, MeCursor, d, cs[1])
  BY <1>1, <1>2, FirstDword
<1>4. MeCursor.msg = k /\ MeCursor.at = a /\ MeCursor.left = me.left
  BY CursorFields DEF MeCursor
<1>5. /\ a \in Nat /\ k \in Nat \ {0} /\ me.left \in Nat \ {0} /\ n \in 1 .. 4 /\ left \in Nat
      /\ Len(delivered) \in Nat /\ Len(log) \in Nat
  <2>1. /\ a \in Nat /\ me.left \in Nat \ {0}
        /\ Len(delivered) \in Nat /\ Len(log) \in Nat
    BY <1>1, Typed
  <2>2. n \in 1 .. 4 /\ left \in Nat
    BY <2>1, FourAtMost
  <2> QED BY <2>1, <2>2
<1>6. /\ k \in 1 .. Len(log) /\ a + me.left <= log[k].len
      /\ d.bytes = Bytes(k, a, n) /\ cs[1] = Past(log, k, a + n, left)
  BY <1>3, <1>4, <1>5 DEF Leads, Carries
<1>7. /\ me'.left = left /\ me'.bytes = (IF done THEN <<>> ELSE bytes)
      /\ me'.complete = me.complete /\ me'.addr = me.addr
  BY <1>1 DEF Inv, TypeOK
<1>8. /\ me.bytes = Bytes(k, 0, a) /\ me.addr = log[k].addr
      /\ me.complete = (a + me.left = log[k].len)
  BY <1>1 DEF Whole, Kept
<1> HIDE DEF d
<1>9. bytes = Bytes(k, 0, a + n) /\ Len(bytes) = a + n
  <2>1. Bytes(k, 0, a) \o Bytes(k, a, n) = Bytes(k, 0, a + n)
        /\ Len(Bytes(k, 0, a + n)) = a + n
    <3> HIDE DEF k, a, n
    <3>1. k \in Nat /\ a \in Nat /\ n \in Nat /\ a + n \in Nat /\ 0 \in Nat
      BY <1>5
    <3>2. Bytes(k, 0, a) \o Bytes(k, a, n) = Bytes(k, 0, a + n)
      BY <3>1, JoinedBytes
    <3>3. Len(Bytes(k, 0, a + n)) = a + n
      BY <3>1, BytesLength
    <3> QED BY <3>2, <3>3
  <2>2. bytes = Bytes(k, 0, a) \o Bytes(k, a, n)
    BY <1>6, <1>8
  <2> QED BY <2>1, <2>2
<1>10. a + n + left = a + me.left /\ a + n \in Nat
  <2> HIDE DEF a, n
  <2> QED BY <1>5
<1>11. delivered \in Seq([addr : Addrs \cup {{}}, bytes : Seq(Byte)])
       /\ bytes \in Seq(Byte) /\ me.addr \in Addrs \cup {{}}
  <2>1. rp % Depth \in 0 .. Depth - 1
    BY Sizes, DivMod, Typed
  <2>2. ring \in [0 .. Depth - 1 -> Dword]
    BY Typed
  <2>3. d \in Dword
    BY <2>1, <2>2 DEF d
  <2>4. d.bytes \in Seq(Byte) /\ me.bytes \in Seq(Byte)
    BY <2>3 DEF Dword, Inv, TypeOK
  <2>5. bytes \in Seq(Byte)
    BY <2>4, ConcatProperties
  <2>6. /\ delivered \in Seq([addr : Addrs \cup {{}}, bytes : Seq(Byte)])
        /\ me.addr \in Addrs \cup {{}}
    BY DEF Inv, TypeOK
  <2> QED BY <2>5, <2>6
<1> HIDE DEF k, a, n, bytes, left
<1>12. done = (left = 0 /\ a + n = log[k].len)
  <2>1. left = 0 => (me.complete = (a + n = log[k].len))
    BY <1>5, <1>8, <1>10
  <2> QED BY <2>1 DEF done
<1> HIDE DEF done
<1>13. CASE done
  <2> DEFINE m == [addr |-> me.addr, bytes |-> bytes]
  <2>1. /\ delivered' = Append(delivered, m) /\ me'.bytes = <<>> /\ me'.left = 0
        /\ a + n = log[k].len /\ left = 0
    BY <1>1, <1>7, <1>12, <1>13
  <2>2. m \in [addr : Addrs \cup {{}}, bytes : Seq(Byte)]
        /\ m.addr = log[k].addr /\ m.bytes = Bytes(k, 0, log[k].len)
    BY <1>8, <1>9, <1>11, <2>1
  <2> HIDE DEF m
  <2>3. /\ Len(delivered') = k
        /\ \A i \in 1 .. Len(delivered) : delivered'[i] = delivered[i]
        /\ delivered'[k] = m
    BY <1>5, <1>11, <2>1, <2>2, AppendProperties DEF k
  <2>4. Len(me'.bytes) = 0
    BY <2>1
  <2>5. MeCursor' = At(k + 1, 0, 0)
    BY <2>1, <2>3, <2>4 DEF MeCursor
  <2>6. MeCursor' = cs[1]
    BY <1>6, <2>1, <2>5 DEF Past
  <2>7. Pipeline'
    BY <1>1, <1>2, <1>3, <2>6, PopWhole
  <2>8. me'.bytes = Bytes(Len(delivered') + 1, 0, Len(me'.bytes))
    BY <2>1, <2>4 DEF Bytes
  <2>9. Kept'
    BY <2>1, <2>8 DEF Kept
  <2>10. Delivered(delivered', log')
    <3>1. Len(delivered') <= Len(log')
      BY <1>1, <1>5, <1>6, <2>3
    <3>2. ASSUME NEW i \in 1 .. Len(delivered')
          PROVE  /\ delivered'[i].addr = log'[i].addr
                 /\ delivered'[i].bytes = Bytes(i, 0, log'[i].len)
      <4>1. CASE i = k
        BY <1>1, <2>2, <2>3, <4>1
      <4>2. CASE i # k
        <5>1. i \in 1 .. Len(delivered)
          BY <1>5, <2>3, <4>2 DEF k
        <5> QED BY <1>1, <2>3, <5>1 DEF Whole, Delivered
      <4> QED BY <4>1, <4>2
    <3> QED BY <3>1, <3>2 DEF Delivered
  <2>11. Current'
    BY <1>1 DEF Whole, Current
  <2> QED BY <2>7, <2>9, <2>10, <2>11 DEF Whole
<1>14. CASE ~done
  <2>1. delivered' = delivered /\ me'.bytes = bytes /\ me'.left = left
    BY <1>1, <1>7, <1>14
  <2>2. MeCursor' = At(k, a + n, left)
    BY <1>9, <2>1 DEF MeCursor, k
  <2>3. MeCursor' = cs[1]
    BY <1>6, <1>12, <1>14, <2>2 DEF Past
  <2>4. Pipeline'
    BY <1>1, <1>2, <1>3, <2>3, PopWhole
  <2>5. Kept'
    <3>1. me'.bytes = Bytes(Len(delivered') + 1, 0, Len(me'.bytes))
      BY <1>9, <2>1 DEF k
    <3>2. Len(delivered') < Len(log')
      BY <1>1, <1>5, <1>6, <2>1 DEF k
    <3>3. /\ me'.addr = log'[Len(delivered') + 1].addr
          /\ me'.complete = (Len(me'.bytes) + me'.left = log'[Len(delivered') + 1].len)
      <4>1. Len(me'.bytes) + me'.left = a + me.left
        BY <1>9, <1>10, <2>1
      <4> QED BY <1>1, <1>7, <1>8, <2>1, <4>1 DEF k
    <3> QED BY <3>1, <3>2, <3>3 DEF Kept
  <2>6. Current' /\ Delivered(delivered, log)'
    BY <1>1, <2>1 DEF Whole, Current, Delivered
  <2> QED BY <2>4, <2>5, <2>6 DEF Whole
<1> QED BY <1>13, <1>14

LEMMA NextIntact == Inv /\ Intact /\ [Next]_vars => Intact'
<1> SUFFICES ASSUME Inv, Intact, [Next]_vars PROVE Intact'
  OBVIOUS
<1>1. CASE WriteFails
  BY <1>1, WriteFailsWhole
<1>2. CASE Reset
  BY <1>2, ResetWhole DEF Intact
<1>3. CASE UNCHANGED vars
  <2>1. UNCHANGED <<ring, wp, rp, log, delivered, hpc, msg, sent, frag, word, me, torn>>
    BY <1>3 DEF vars, hw, hostCtl, history
  <2>2. HostCursor' = HostCursor /\ (Whole => Current')
    BY <2>1 DEF HostCursor, Current, Words, Past, Whole
  <2> QED BY <2>1, <2>2, StillWhole DEF Intact
<1>4. ASSUME Whole,
             \/ \E a \in Addrs, n \in Lengths : StartWrite(a, n)
             \/ ReadHostCsr \/ SlotsFree \/ SlotsBusy
             \/ WriteHeader \/ WriteWord \/ EndFragment
             \/ MeWake \/ MeSleep \/ MeDown \/ MeReadHeader \/ MeReadWord
      PROVE  Whole'
  BY <1>4, StartWriteWhole, WaitWhole, WriteHeaderWhole, WriteWordWhole,
     EndFragmentWhole, MeControlWhole, MeReadHeaderWhole, MeReadWordWhole
<1>5. \/ WriteFails \/ Reset \/ UNCHANGED vars
      \/ torn' = torn
         /\ (\/ \E a \in Addrs, n \in Lengths : StartWrite(a, n)
             \/ ReadHostCsr \/ SlotsFree \/ SlotsBusy
             \/ WriteHeader \/ WriteWord \/ EndFragment
             \/ MeWake \/ MeSleep \/ MeDown \/ MeReadHeader \/ MeReadWord)
  <2>1. \A a \in Addrs, n \in Lengths : StartWrite(a, n) => torn' = torn
    BY DEF StartWrite, history
  <2>2. ReadHostCsr \/ SlotsFree \/ SlotsBusy \/ WriteHeader \/ WriteWord \/ EndFragment
          => torn' = torn
    BY DEF ReadHostCsr, SlotsFree, SlotsBusy, WriteHeader, WriteWord, EndFragment, history
  <2>3. MeWake \/ MeSleep \/ MeDown \/ MeReadHeader \/ MeReadWord => torn' = torn
    BY DEF MeWake, MeSleep, MeDown, MeReadHeader, MeReadWord, MePop, history
  <2> QED BY <2>1, <2>2, <2>3 DEF Next, Host, ME
<1> QED BY <1>1, <1>2, <1>3, <1>4, <1>5, Zenon DEF Intact

(* For every depth of the buffer, every width of its pointers and every    *)
(* length of message, and however the ME's reading falls between the       *)
(* host's dwords: the ME reassembles exactly the messages write_msg wrote, *)
(* in their order, unless a write_msg gave up between two fragments.       *)
THEOREM IntactDeliveryHolds == Spec => []IntactDelivery
<1>1. Init => Inv /\ Intact
  BY InitInv, StartOver DEF Init, Intact
<1>2. Inv /\ Intact /\ [Next]_vars => (Inv /\ Intact)'
  BY NextInv, NextIntact
<1>3. Intact => IntactDelivery
  <2>1. \A n, l : Bytes(n, 0, l) = [b \in 1 .. l |-> <<n, b - 1>>]
    BY DEF Bytes
  <2> QED BY <2>1 DEF Intact, Whole, Delivered, IntactDelivery
<1> QED BY <1>1, <1>2, <1>3, PTL DEF Spec
=============================================================================
