------------------------------ MODULE HeciWrite ------------------------------
(***************************************************************************)
(* The host-to-ME half of the HECI hardware interface, as the UEFI build   *)
(* drives it: HeciContext::write_msg with wait_slots, notify_me and reset  *)
(* (src/heci/mod.rs) over the register layout of src/heci/regs.rs.         *)
(*                                                                         *)
(* The host writes a message as one or more fragments into a circular      *)
(* buffer of Depth dwords: a header dword, then the payload dwords.  It    *)
(* polls the buffer's pointers before each fragment and writes blindly     *)
(* after that, while the ME empties the buffer at its own pace.  The ME    *)
(* may also go down at any moment; then only a reset of the interface      *)
(* brings it back.                                                         *)
(***************************************************************************)
EXTENDS Integers, Sequences

CONSTANTS
  Depth,     \* dwords in the circular buffer (the CBD field of H_CSR)
  PtrMod,    \* the pointers count modulo this (8-bit fields: 256)
  WordMod,   \* modulus of the host's u32 arithmetic (2^32)
  LenMod,    \* modulus of the header's length field (9 bits: 512)
  Polls,     \* polls of one wait_slots (HECI_TIMEOUT_US / HECI_POLL_US)
  Addrs,     \* (ME address, host address) pairs messages are written to
  Lengths,   \* lengths in bytes of the messages the callers write
  MaxMsgs    \* bound: messages written between two resets

(* The buffer depth is a power of two, as are the pointer and word sizes.  *)
ASSUME RingAssumption ==
  /\ Depth \in Nat \ {0}
  /\ PtrMod \in Nat \ {0} /\ PtrMod % Depth = 0
  /\ WordMod \in Nat \ {0} /\ WordMod % PtrMod = 0

(* The longest fragment fits the header's length field: with 9 bits this   *)
(* is Depth <= 129, and an 8-bit power of two is at most 128.              *)
ASSUME HeaderAssumption == LenMod \in Nat \ {0} /\ 4 * (Depth - 2) < LenMod

ASSUME MessageAssumption ==
  /\ Polls \in Nat \ {0}
  /\ Lengths \subseteq Nat \ {0}
  /\ MaxMsgs \in Nat

VARIABLES
  ring,       \* the circular buffer's dwords
  wp, rp,     \* write and read pointer, as H_CSR shows them
  ready,      \* CSR_RDY of the ME
  irq,        \* interrupt raised by the host, not yet taken by the ME
  hpc,        \* where the host is in write_msg
  msg,        \* the message being written
  sent,       \* bytes of it that earlier fragments took
  elapsed,    \* polls made by the current wait_slots
  empty,      \* free slots computed from the last H_CSR read
  frag, word, \* length of the current fragment, payload dwords written
  me,         \* the ME's reader
  log,        \* messages whose writing began since the last reset
  delivered,  \* messages the ME has reassembled since the last reset
  torn        \* a write_msg gave up after its first fragment

hw      == <<ring, wp, rp, ready, irq>>
hostCtl == <<msg, sent, elapsed, empty, frag, word>>
history == <<log, delivered, torn>>
vars    == <<hw, hpc, hostCtl, me, history>>

-----------------------------------------------------------------------------
(* Dwords.  Byte b of the n-th message is the pair <<n, b>>.               *)

Least(a, b) == IF a < b THEN a ELSE b

Header(addr, len, complete) ==
  [kind |-> "header", addr |-> addr, len |-> len % LenMod,
   complete |-> complete, bytes |-> <<>>]

Data(bytes) ==
  [kind |-> "data", addr |-> {}, len |-> 0, complete |-> FALSE,
   bytes |-> bytes]

Words(n) == (n + 3) \div 4

(* Dword i of the current fragment.                                        *)
PayloadWordNoBase(i) ==
  [b \in 1 .. Least(frag - 4 * i, 4) |-> <<Len(log), 4 * i + b - 1>>]

PayloadWord(i) ==
  [b \in 1 .. Least(frag - 4 * i, 4) |-> <<Len(log), sent + 4 * i + b - 1>>]

(* regs.rs: the filled slots, and what wait_slots makes of them.           *)
FilledSlotsUnreduced(w, r) == (w - r) % WordMod

FilledSlots(w, r) == ((w - r) % WordMod) % Depth

EmptySlots(w, r) == Depth - FilledSlots(w, r) - 1

(* One slot of the free ones is for the header.                            *)
MaxPayloadNoHeader == empty * 4

MaxPayload == (empty - 1) * 4

FragLen == Least(msg.len - sent, MaxPayload)

IsLast(n) == sent + n >= msg.len

Advance(p) == (p + 1) % PtrMod

(* A write to H_CB_WW: the hardware stores the dword and moves on.         *)
Push(d) ==
  /\ ring' = [ring EXCEPT ![wp % Depth] = d]
  /\ wp' = Advance(wp)

-----------------------------------------------------------------------------
(* The host: write_msg.                                                    *)

NoReader == [awake |-> FALSE, left |-> 0, complete |-> FALSE,
             addr |-> {}, bytes |-> <<>>]

Init ==
  /\ ring = [i \in 0 .. Depth - 1 |-> Data(<<>>)]
  /\ wp = 0 /\ rp = 0
  /\ ready = TRUE
  /\ irq = FALSE
  /\ hpc = "idle"
  /\ msg \in [addr : Addrs, len : Lengths]
  /\ sent = 0 /\ elapsed = 0 /\ empty = 0 /\ frag = 0 /\ word = 0
  /\ me = NoReader
  /\ log = <<>> /\ delivered = <<>> /\ torn = FALSE

StartWrite(a, n) ==
  /\ hpc = "idle"
  /\ Len(log) < MaxMsgs
  /\ hpc' = "wait"
  /\ msg' = [addr |-> a, len |-> n]
  /\ sent' = 0
  /\ elapsed' = 0
  /\ UNCHANGED <<hw, empty, frag, word, me, history>>

(* wait_slots reads H_CSR first ...                                        *)
ReadHostCsr ==
  /\ hpc = "wait"
  /\ elapsed < Polls
  /\ hpc' = "csr"
  /\ empty' = EmptySlots(wp, rp)
  /\ UNCHANGED <<hw, msg, sent, elapsed, frag, word, me, history>>

(* ... then ME_CSR_HA, and compares.                                       *)
SlotsFree ==
  /\ hpc = "csr"
  /\ ready
  /\ empty >= 2
  /\ hpc' = "header"
  /\ UNCHANGED <<hw, hostCtl, me, history>>

SlotsBusyForever ==
  /\ hpc = "csr"
  /\ ready
  /\ empty < 2
  /\ hpc' = "wait"
  /\ UNCHANGED <<hw, hostCtl, me, history>>

SlotsBusy ==
  /\ hpc = "csr"
  /\ ready
  /\ empty < 2
  /\ hpc' = "wait"
  /\ elapsed' = elapsed + 1
  /\ UNCHANGED <<hw, msg, sent, empty, frag, word, me, history>>

(* wait_slots returned 0: write_msg returns Err(Timeout), whatever it has  *)
(* already put into the buffer.                                            *)
WriteFails ==
  /\ \/ hpc = "csr" /\ ~ready
     \/ hpc = "wait" /\ elapsed = Polls
  /\ hpc' = "idle"
  /\ torn' = (torn \/ sent > 0)
  /\ UNCHANGED <<hw, hostCtl, me, log, delivered>>

WriteHeader ==
  /\ hpc = "header"
  /\ frag' = FragLen
  /\ Push(Header(msg.addr, FragLen, IsLast(FragLen)))
  /\ hpc' = "payload"
  /\ word' = 0
  /\ log' = IF sent = 0 THEN Append(log, msg) ELSE log
  /\ UNCHANGED <<rp, ready, irq, msg, sent, elapsed, empty, me,
                 delivered, torn>>

WriteWord ==
  /\ hpc = "payload"
  /\ word < Words(frag)
  /\ Push(Data(PayloadWord(word)))
  /\ word' = word + 1
  /\ UNCHANGED <<rp, ready, irq, hpc, msg, sent, elapsed, empty, frag, me,
                 history>>

(* The end of a fragment without its notify_me.                            *)
EndFragmentSilently ==
  /\ hpc = "payload"
  /\ word = Words(frag)
  /\ sent' = sent + frag
  /\ elapsed' = 0
  /\ hpc' = IF IsLast(frag) THEN "idle" ELSE "wait"
  /\ UNCHANGED <<ring, wp, rp, ready, irq, msg, empty, frag, word, me,
                 history>>

(* notify_me, then the next fragment or Ok.                                *)
EndFragment ==
  /\ hpc = "payload"
  /\ word = Words(frag)
  /\ irq' = TRUE
  /\ sent' = sent + frag
  /\ elapsed' = 0
  /\ hpc' = IF IsLast(frag) THEN "idle" ELSE "wait"
  /\ UNCHANGED <<ring, wp, rp, ready, msg, empty, frag, word, me, history>>

(* reset(): both sides start over with an empty buffer, or the ME does not *)
(* come back in time.                                                      *)
Reset ==
  /\ hpc = "idle"
  /\ wp' = 0 /\ rp' = 0
  /\ ready' \in BOOLEAN
  /\ irq' = FALSE
  /\ me' = NoReader
  /\ log' = <<>> /\ delivered' = <<>> /\ torn' = FALSE
  /\ UNCHANGED <<ring, hpc, hostCtl>>

-----------------------------------------------------------------------------
(* The ME (external): it wakes up on the host's interrupt, empties the     *)
(* buffer dword by dword and reassembles the fragments.                    *)

MeWake ==
  /\ ready /\ irq
  /\ irq' = FALSE
  /\ me' = [me EXCEPT !.awake = TRUE]
  /\ UNCHANGED <<ring, wp, rp, ready, hpc, hostCtl, history>>

MeSleep ==
  /\ ready /\ me.awake /\ wp = rp
  /\ me' = [me EXCEPT !.awake = FALSE]
  /\ UNCHANGED <<hw, hpc, hostCtl, history>>

MePop ==
  /\ ready /\ me.awake /\ wp # rp
  /\ rp' = Advance(rp)
  /\ UNCHANGED <<ring, wp, ready, irq, hpc, hostCtl, log, torn>>

MeReadHeader ==
  /\ MePop
  /\ me.left = 0
  /\ LET d == ring[rp % Depth] IN
       me' = [me EXCEPT !.left = d.len, !.complete = d.complete,
                        !.addr = d.addr]
  /\ UNCHANGED delivered

MeReadWord ==
  /\ MePop
  /\ me.left > 0
  /\ LET bytes == me.bytes \o ring[rp % Depth].bytes
         left  == me.left - Least(me.left, 4)
         done  == left = 0 /\ me.complete
     IN  /\ me' = [me EXCEPT !.left = left,
                             !.bytes = IF done THEN <<>> ELSE bytes]
         /\ delivered' = IF done
                         THEN Append(delivered,
                                     [addr |-> me.addr, bytes |-> bytes])
                         ELSE delivered

MeDown ==
  /\ ready
  /\ ready' = FALSE
  /\ me' = [me EXCEPT !.awake = FALSE]
  /\ UNCHANGED <<ring, wp, rp, irq, hpc, hostCtl, history>>

-----------------------------------------------------------------------------
Host ==
  \/ ReadHostCsr \/ SlotsFree \/ SlotsBusy \/ WriteFails
  \/ WriteHeader \/ WriteWord \/ EndFragment

ME == MeWake \/ MeSleep \/ MeReadHeader \/ MeReadWord

Next ==
  \/ \E a \in Addrs, n \in Lengths : StartWrite(a, n)
  \/ Host
  \/ Reset
  \/ ME
  \/ MeDown

Spec == Init /\ [][Next]_vars

(* The host's code runs until it returns.  Nothing is assumed of the ME.   *)
FairSpec == Spec /\ WF_vars(Host)

-----------------------------------------------------------------------------
Pending == (wp - rp) % PtrMod

Byte  == Nat \X Nat
Dword == [kind : {"header", "data"}, addr : Addrs \cup {{}}, len : Nat,
          complete : BOOLEAN, bytes : Seq(Byte)]

(* The types of the variables.  The free slots wait_slots computes from    *)
(* the two pointers are between none and all but the last, also after a    *)
(* pointer wrapped: depth - filled - 1 never underflows.                   *)
TypeOK ==
  /\ ring \in [0 .. Depth - 1 -> Dword]
  /\ wp \in 0 .. PtrMod - 1 /\ rp \in 0 .. PtrMod - 1
  /\ ready \in BOOLEAN /\ irq \in BOOLEAN
  /\ hpc \in {"idle", "wait", "csr", "header", "payload"}
  /\ msg \in [addr : Addrs, len : Lengths]
  /\ sent \in Nat /\ elapsed \in 0 .. Polls /\ empty \in 0 .. Depth - 1
  /\ frag \in Nat /\ word \in Nat
  /\ me \in [awake : BOOLEAN, left : Nat, complete : BOOLEAN,
             addr : Addrs \cup {{}}, bytes : Seq(Byte)]
  /\ log \in Seq([addr : Addrs, len : Lengths])
  /\ delivered \in Seq([addr : Addrs \cup {{}}, bytes : Seq(Byte)])
  /\ torn \in BOOLEAN

(* The host never fills the buffer's last slot.  filled_slots reduces the  *)
(* pointer difference modulo the depth, so a full buffer would read as an  *)
(* empty one and the next fragment would overwrite dwords the ME has not   *)
(* read: the free slots checked before a fragment must cover its header    *)
(* and every payload dword, while the ME moves the read pointer.           *)
NoOverrun == Pending < Depth

(* What the ME reassembles is what the host wrote, message by message and  *)
(* byte by byte, as long as no write_msg gave up between two fragments.    *)
IntactDelivery ==
  ~torn =>
    /\ Len(delivered) <= Len(log)
    /\ \A n \in 1 .. Len(delivered) :
         /\ delivered[n].addr = log[n].addr
         /\ delivered[n].bytes = [b \in 1 .. log[n].len |-> <<n, b - 1>>]

(* write_msg returns: a silent ME, a full buffer or an ME that went down   *)
(* end it with a timeout, never with an endless poll.                      *)
WriteReturns == (hpc # "idle") ~> (hpc = "idle")

(* A message write_msg has accepted reaches an ME that serves its          *)
(* interrupts (the premise) without another call of the host: every        *)
(* fragment is announced by notify_me.                                     *)
Written(n) == n < Len(log) \/ (n = Len(log) /\ hpc = "idle")

AcceptedIsDelivered ==
  WF_vars(ME) =>
    \A n \in 1 .. MaxMsgs :
      (Written(n) /\ ~torn /\ ready)
        ~> (Len(delivered) >= n \/ ~ready \/ Len(log) < n)
=============================================================================
