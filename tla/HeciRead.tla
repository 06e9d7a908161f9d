------------------------------- MODULE HeciRead -------------------------------
(***************************************************************************)
(* The ME-to-host half of the HECI hardware interface, as the UEFI build   *)
(* drives it: HeciContext::read_msg (src/heci/mod.rs).                     *)
(*                                                                         *)
(* The ME puts a message into its circular buffer as fragments of a header *)
(* dword and payload dwords, when there is room, waits for the host's      *)
(* interrupt when there is none, and may go down at any moment.  The host  *)
(* polls until the buffer is not empty, reads a header and then, blindly,  *)
(* the dwords the header promises and puts the fragments together up to    *)
(* one marked complete.                                                    *)
(*                                                                         *)
(* Pointers are left out: the host compares them for equality only, and    *)
(* they count twice as far as the buffer is deep, so that it sees whether  *)
(* the buffer is empty.                                                    *)
(***************************************************************************)
EXTENDS Integers, Sequences

CONSTANTS
  Depth,     \* dwords in the circular buffer
  Polls,     \* polls of one wait (HECI_TIMEOUT_US / HECI_POLL_US)
  Addrs,     \* (ME address, host address) pairs messages come from
  Lengths,   \* lengths in bytes of the ME's messages
  Frags,     \* lengths in bytes of the fragments the ME makes of them
  Sizes,     \* lengths in bytes of the callers' buffers
  Strays,    \* dwords a read of the empty buffer may return
  MaxMsgs    \* bound: messages the ME begins between two resets

ASSUME ReadAssumption ==
  /\ Depth \in Nat /\ Polls \in Nat \ {0} /\ MaxMsgs \in Nat
  /\ Lengths \subseteq Nat \ {0} /\ Frags \subseteq Nat \ {0}
  /\ Sizes \subseteq Nat

(* A dword may be read as a header and as a payload: that is what a stray  *)
(* one is for.  One that reads as a header of neither bytes nor completion *)
(* is left out, as the ME's own are: for ever repeated, it would keep      *)
(* read_msg going for ever.                                                *)
ASSUME StrayAssumption ==
  /\ Strays # {}
  /\ Strays \subseteq [msg : {0}, from : Nat, len : Nat, complete : BOOLEAN,
                       word : {0}]
  /\ \A d \in Strays : d.len # 0 \/ d.complete

VARIABLES
  queue,     \* dwords in the circular buffer
  irq,       \* interrupt raised by the host, not yet taken by the ME
  todo,      \* dwords of the fragment the ME is writing
  off,       \* bytes of the last message of log the ME made fragments of
  awake,     \* the ME is not waiting for the host's interrupt
  down,      \* the ME went down: it writes nothing until the next reset
  hpc,       \* where the host is in read_msg
  size,      \* length of the caller's buffer
  elapsed,   \* polls made by the current wait
  first,     \* no fragment of this message read yet
  addr, buf, \* addresses and bytes read so far
  hdr, word, \* header of the current fragment, dwords of it read
  log,       \* messages the ME began since the last reset
  taken,     \* messages read_msg returned since the last reset, or until it
             \* went astray
  slow,      \* a poll found nothing although the ME had something to write
  dropped,   \* a message did not fit its caller's buffer
  ahead      \* the host read a dword the ME had not written: from there on,
             \* nobody can say what its reads return

meVars  == <<todo, off, awake, down>>
result  == <<addr, buf>>
host    == <<hpc, size, elapsed, first, result, hdr, word>>
faults  == <<slow, dropped, ahead>>
vars    == <<queue, irq, meVars, host, log, taken, faults>>

-----------------------------------------------------------------------------
(* A dword is its place in what the ME says: message, first byte, length   *)
(* and completion of its fragment, and its number in it, 0 for the header. *)
(* Byte b of the n-th message is the pair <<n, b>>; Pad fills up the last  *)
(* dword of a fragment.  Nothing of the place is visible to the host but   *)
(* the fields and bytes below.                                             *)

Least(a, b) == IF a < b THEN a ELSE b

Words(n) == (n + 3) \div 4

Addr(d)     == IF d.word = 0 /\ d.msg \in 1 .. Len(log) THEN log[d.msg].addr
               ELSE {}
Length(d)   == IF d.word = 0 THEN d.len ELSE 0
Complete(d) == d.word = 0 /\ d.complete

Pad == <<0, 0>>

Bytes(d) ==
  [b \in 1 .. 4 |-> IF d.word > 0 /\ 4 * (d.word - 1) + b <= d.len
                    THEN <<d.msg, d.from + 4 * (d.word - 1) + b - 1>>
                    ELSE Pad]

(* A read of the window.  The buffer's read pointer moves with it, filled  *)
(* or empty, and read_msg looks at the pointers before a header only: once *)
(* it has read a dword that was not there, the pointers have crossed and   *)
(* any of its reads until the next reset may return anything.              *)
Astray == ahead \/ queue = <<>>

Window == IF Astray THEN Strays ELSE {Head(queue)}

Fetch ==
  /\ ahead' = Astray
  /\ queue' = IF Astray THEN queue ELSE Tail(queue)

MsgLen == IF log = <<>> THEN 0 ELSE log[Len(log)].len

(* A fragment of the next n bytes of the ME's message.                     *)
Dwords(n) ==
  [i \in 1 .. Words(n) + 1 |->
     [msg |-> Len(log), from |-> off, len |-> n, complete |-> off + n = MsgLen,
      word |-> i - 1]]

Init ==
  /\ queue = <<>> /\ irq = FALSE
  /\ todo = <<>> /\ off = 0 /\ awake = TRUE /\ down = FALSE
  /\ hpc = "idle" /\ size = 0 /\ elapsed = 0 /\ first = TRUE
  /\ addr \in Addrs /\ buf = <<>>
  /\ hdr = [msg |-> 0, from |-> 0, len |-> 0, complete |-> FALSE, word |-> 0]
  /\ word = 0
  /\ log = <<>> /\ taken = <<>>
  /\ slow = FALSE /\ dropped = FALSE /\ ahead = FALSE

-----------------------------------------------------------------------------
(* The ME (external).                                                      *)

MeBegin(a, n) ==
  /\ ~down /\ todo = <<>> /\ off = MsgLen /\ Len(log) < MaxMsgs
  /\ log' = Append(log, [addr |-> a, len |-> n])
  /\ off' = 0
  /\ UNCHANGED <<queue, irq, todo, awake, down, host, taken, faults>>

Fragment(n) == Least(n, MsgLen - off)

Room(n) == Len(queue) + 1 + Words(n) <= Depth

MeFragment(n) ==
  /\ ~down /\ awake /\ todo = <<>> /\ off < MsgLen /\ Room(Fragment(n))
  /\ todo' = Dwords(Fragment(n))
  /\ off' = off + Fragment(n)
  /\ UNCHANGED <<queue, irq, awake, down, host, log, taken, faults>>

MeWrite ==
  /\ todo # <<>>
  /\ queue' = Append(queue, Head(todo))
  /\ todo' = Tail(todo)
  /\ UNCHANGED <<irq, off, awake, down, host, log, taken, faults>>

MeWait ==
  /\ ~down /\ awake /\ todo = <<>> /\ off < MsgLen
  /\ \A n \in Frags : ~Room(Fragment(n))
  /\ awake' = FALSE
  /\ UNCHANGED <<queue, irq, todo, off, down, host, log, taken, faults>>

MeWake ==
  /\ irq
  /\ irq' = FALSE
  /\ awake' = TRUE
  /\ UNCHANGED <<queue, todo, off, down, host, log, taken, faults>>

(* With what the buffer held; a fragment it was writing stays unfinished.  *)
MeDown ==
  /\ ~down
  /\ down' = TRUE
  /\ queue' = <<>> /\ todo' = <<>>
  /\ UNCHANGED <<irq, off, awake, host, log, taken, faults>>

(* The ME is about to write a dword.                                       *)
MeReady ==
  \/ todo # <<>>
  \/ ~down /\ off < MsgLen /\ (irq \/ awake) /\ \E n \in Frags : Room(Fragment(n))

-----------------------------------------------------------------------------
(* The host: read_msg.                                                     *)

StartRead(n) ==
  /\ hpc = "idle"
  /\ hpc' = "poll" /\ size' = n /\ elapsed' = 0
  /\ first' = TRUE /\ buf' = <<>>
  /\ UNCHANGED <<queue, irq, meVars, addr, hdr, word, log, taken, faults>>

PollEmptyForever ==
  /\ hpc = "poll" /\ elapsed < Polls /\ Astray
  /\ slow' = (slow \/ MeReady)
  /\ UNCHANGED <<queue, irq, meVars, host, log, taken, dropped, ahead>>

PollEmpty ==
  /\ hpc = "poll" /\ elapsed < Polls /\ Astray
  /\ elapsed' = elapsed + 1
  /\ slow' = (slow \/ MeReady)
  /\ UNCHANGED <<queue, irq, meVars, hpc, size, first, result, hdr, word, log,
                 taken, dropped, ahead>>

(* What read_msg returns with Ok: recorded as long as it can be told whose *)
(* bytes they are.                                                         *)
Take == taken' = IF ahead THEN taken
                 ELSE Append(taken, [addr |-> addr, bytes |-> buf])

(* The wait is over: an error, or whatever has been read so far.           *)
Timeout ==
  /\ hpc = "poll" /\ elapsed = Polls
  /\ hpc' = "idle"
  /\ IF buf # <<>> THEN Take ELSE UNCHANGED taken
  /\ UNCHANGED <<queue, irq, meVars, size, elapsed, first, result, hdr, word,
                 log, faults>>

(* The pointers differ: there is a header to read, unless the ME goes down *)
(* before it is read.                                                      *)
PollFound ==
  /\ hpc = "poll" /\ elapsed < Polls /\ (ahead \/ queue # <<>>)
  /\ hpc' = "header"
  /\ UNCHANGED <<queue, irq, meVars, size, elapsed, first, result, hdr, word, log,
                 taken, faults>>

ReadHeaderUnsummed(d) ==
  /\ hpc = "header"
  /\ Fetch
  /\ hdr' = d
  /\ word' = 0
  /\ addr' = IF first THEN Addr(d) ELSE addr
  /\ first' = FALSE
  /\ hpc' = IF Length(d) > size THEN "drain" ELSE "payload"
  /\ UNCHANGED <<irq, meVars, size, elapsed, buf, log, taken, slow, dropped>>

ReadHeader(d) ==
  /\ hpc = "header"
  /\ Fetch
  /\ hdr' = d
  /\ word' = 0
  /\ addr' = IF first THEN Addr(d) ELSE addr
  /\ first' = FALSE
  /\ hpc' = IF Len(buf) + Length(d) > size THEN "drain" ELSE "payload"
  /\ UNCHANGED <<irq, meVars, size, elapsed, buf, log, taken, slow, dropped>>

MoreWords == word < Words(Length(hdr))

ReadWordPadded(d) ==
  /\ hpc = "payload" /\ MoreWords
  /\ Fetch
  /\ buf' = buf \o Bytes(d)
  /\ word' = word + 1
  /\ UNCHANGED <<irq, meVars, hpc, size, elapsed, first, addr, hdr, log, taken,
                 slow, dropped>>

(* A payload dword, of which the bytes up to the fragment's length count.  *)
ReadWord(d) ==
  /\ hpc = "payload" /\ MoreWords
  /\ Fetch
  /\ buf' = buf \o SubSeq(Bytes(d), 1, Least(Length(hdr) - 4 * word, 4))
  /\ word' = word + 1
  /\ UNCHANGED <<irq, meVars, hpc, size, elapsed, first, addr, hdr, log, taken,
                 slow, dropped>>

DrainWord ==
  /\ hpc = "drain" /\ MoreWords
  /\ Fetch
  /\ word' = word + 1
  /\ UNCHANGED <<irq, meVars, hpc, size, elapsed, first, result, hdr, log, taken,
                 slow, dropped>>

NextFragment ==
  /\ hpc = "payload" /\ ~MoreWords
  /\ IF Complete(hdr) THEN hpc' = "idle" /\ Take
     ELSE hpc' = "poll" /\ UNCHANGED taken
  /\ elapsed' = 0
  /\ UNCHANGED <<queue, meVars, size, first, result, hdr, word, log, faults>>

EndFragmentSilently == NextFragment /\ UNCHANGED irq

(* The fragment is acknowledged; the message ends or goes on.              *)
EndFragment == NextFragment /\ irq' = TRUE

(* BufferTooSmall: without the acknowledgement, and with whatever other    *)
(* fragments the message has still to come.                                *)
EndDrain ==
  /\ hpc = "drain" /\ ~MoreWords
  /\ hpc' = "idle"
  /\ dropped' = TRUE
  /\ UNCHANGED <<queue, irq, meVars, size, elapsed, first, result, hdr, word, log,
                 taken, slow, ahead>>

-----------------------------------------------------------------------------
(* Between two reads: a write notifies the ME, a reset empties the buffer  *)
(* and both sides start over.                                              *)

Notify ==
  /\ hpc = "idle"
  /\ irq' = TRUE
  /\ UNCHANGED <<queue, meVars, host, log, taken, faults>>

Reset ==
  /\ hpc = "idle"
  /\ queue' = <<>> /\ irq' = FALSE
  /\ todo' = <<>> /\ off' = 0 /\ awake' = TRUE /\ down' = FALSE
  /\ log' = <<>> /\ taken' = <<>>
  /\ slow' = FALSE /\ dropped' = FALSE /\ ahead' = FALSE
  /\ UNCHANGED host

ReadMsg ==
  \/ PollEmpty \/ PollFound \/ Timeout \/ DrainWord \/ EndFragment \/ EndDrain
  \/ \E d \in Window : ReadHeader(d) \/ ReadWord(d)

(* Once the host is astray, what the ME does makes no difference to it     *)
(* until the next reset.                                                   *)
ME ==
  /\ ~ahead
  /\ \/ \E a \in Addrs, n \in Lengths : MeBegin(a, n)
     \/ \E n \in Frags : MeFragment(n)
     \/ MeWrite \/ MeWait \/ MeWake \/ MeDown

Next ==
  \/ \E n \in Sizes : StartRead(n)
  \/ ReadMsg \/ ME \/ Notify \/ Reset

Spec == Init /\ [][Next]_vars

(* The host's code runs until it returns.  Nothing is assumed of the ME.   *)
FairSpec == Spec /\ WF_vars(ReadMsg)

-----------------------------------------------------------------------------
Byte  == Nat \X Nat
Place == [msg : Nat, from : Nat, len : Nat, complete : BOOLEAN, word : Nat]

(* The types of the variables; what is read never exceeds the caller's     *)
(* buffer, whatever the fragments' lengths and whatever the window held.   *)
TypeOK ==
  /\ queue \in Seq(Place) /\ todo \in Seq(Place)
  /\ irq \in BOOLEAN /\ awake \in BOOLEAN /\ down \in BOOLEAN
  /\ off \in Nat
  /\ hpc \in {"idle", "poll", "header", "payload", "drain"}
  /\ size \in Nat /\ elapsed \in 0 .. Polls /\ first \in BOOLEAN
  /\ addr \in Addrs \cup {{}} /\ buf \in Seq(Byte)
  /\ hpc # "idle" => Len(buf) <= size
  /\ hdr \in Place /\ word \in Nat
  /\ log \in Seq([addr : Addrs, len : Lengths])
  /\ taken \in Seq([addr : Addrs \cup {{}}, bytes : Seq(Byte)])
  /\ slow \in BOOLEAN /\ dropped \in BOOLEAN /\ ahead \in BOOLEAN

(* Whatever timed out or did not fit, what read_msg returns is one         *)
(* unbroken piece of one message, with that message's addresses, and no    *)
(* byte is returned twice or after a later one: as long as no payload      *)
(* dword was read before the ME wrote it, where the code would return      *)
(* whatever the window held.                                               *)
LastByte(k) == taken[k].bytes[Len(taken[k].bytes)]

OnePiece ==
  ~ahead =>
    \A k \in 1 .. Len(taken) :
      LET bytes == taken[k].bytes IN
        /\ bytes # <<>>
        /\ \A i \in 2 .. Len(bytes) :
             bytes[i] = <<bytes[1][1], bytes[1][2] + i - 1>>
        /\ taken[k].addr = log[bytes[1][1]].addr
        /\ k > 1 =>
             \/ LastByte(k - 1)[1] < bytes[1][1]
             \/ /\ LastByte(k - 1)[1] = bytes[1][1]
                /\ LastByte(k - 1)[2] < bytes[1][2]

(* The messages returned are the ME's messages, whole and in order, as     *)
(* long as every message fits its caller's buffer, the ME stays up, lets   *)
(* no poll pass while it has something to write and has a fragment's       *)
(* dwords written before the host reads them: the acknowledgement of each  *)
(* fragment is enough for it to go on.                                     *)
WholeInOrder ==
  ~slow /\ ~dropped /\ ~down /\ ~ahead =>
    /\ Len(taken) <= Len(log)
    /\ \A n \in 1 .. Len(taken) :
         /\ taken[n].addr = log[n].addr
         /\ taken[n].bytes = [b \in 1 .. log[n].len |-> <<n, b - 1>>]

(* read_msg returns, whether the ME is silent, stops between two fragments *)
(* or goes on writing.                                                     *)
ReadReturns == (hpc # "idle") ~> (hpc = "idle")
=============================================================================
