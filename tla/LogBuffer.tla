------------------------------ MODULE LogBuffer ------------------------------
(***************************************************************************)
(* The debug log of the UEFI build (src/main.rs): LogWriter::write_str     *)
(* appends to the static LOG_BUF, and flush_log writes what it holds to    *)
(* \debug.log on the boot volume.  The file outlives the program: a later  *)
(* run of it, after a crash or a quit, finds the file of the earlier one.  *)
(***************************************************************************)
EXTENDS Integers, Sequences

CONSTANTS
  Size,       \* LOG_BUF_SIZE
  TailLen,    \* TAIL, the space kept for the marker
  MarkerLen,  \* length of LOG_TRUNC_MARKER
  Lengths,    \* lengths of the strings the program logs
  MaxBytes,   \* bound: bytes logged in one run
  MaxRuns     \* bound: runs of the program

ASSUME LogAssumption ==
  /\ Size \in Nat /\ TailLen \in Nat /\ MarkerLen \in Nat
  /\ MarkerLen <= TailLen /\ TailLen < Size
  /\ Lengths \subseteq Nat
  /\ MaxBytes \in Nat
  /\ MaxRuns \in Nat \ {0}

VARIABLES
  log,      \* LOG_BUF[..LOG_POS]
  total,    \* history: bytes handed to write_str in this run
  run,      \* history: runs of the program
  file,     \* \debug.log on the boot volume
  flushed   \* history: bytes of this run's log the file has received

vars == <<log, total, run, file, flushed>>

Least(a, b) == IF a < b THEN a ELSE b
Most(a, b)  == IF a < b THEN b ELSE a

(* Byte i of what run r logs; byte i of the marker.                        *)
Byte(r, i) == [run |-> r, at |-> i]
Mark(i)    == [run |-> 0, at |-> i]

-----------------------------------------------------------------------------
LimitWithoutTail == Size

Limit == Size - TailLen

Room == Most(Limit - Len(log), 0)

(* The bytes of an n-byte string that find room below the limit.           *)
CopiedOrNone(n) == IF n <= Room THEN n ELSE 0

Copied(n) == Least(n, Room)

WithBytes(k) == log \o [i \in 1 .. k |-> Byte(run, total + i)]

(* The first byte beyond the limit is replaced by the marker, cut off at   *)
(* the end of the buffer, and ends the loop.                               *)
Stamped(l) ==
  l \o [i \in 1 .. Least(MarkerLen, Size - Len(l)) |-> Mark(i)]

Init ==
  /\ log = <<>> /\ total = 0 /\ run = 1
  /\ file = <<>> /\ flushed = 0

WriteStr(n) ==
  /\ total + n <= MaxBytes
  /\ total' = total + n
  /\ log' = IF Copied(n) < n THEN Stamped(WithBytes(Copied(n)))
                             ELSE WithBytes(n)
  /\ UNCHANGED <<run, file, flushed>>

(* A write of the first k bytes of the log at the start of the file.       *)
Appended(k) == file \o SubSeq(log, 1, k)

Overwritten(k) ==
  SubSeq(log, 1, k) \o SubSeq(file, k + 1, Len(file))

(* flush_log: nothing for an empty log, and nothing when the volume or the *)
(* file cannot be opened (k = 0); a write that fails, or a crash during    *)
(* it, leaves a part.  The result of the write is ignored.                 *)
FlushLog(k) ==
  /\ log # <<>>
  /\ file' = Overwritten(k)
  /\ flushed' = Most(flushed, k)
  /\ UNCHANGED <<log, total, run>>

(* A crash, a reset or a quit, and the next start of the program.          *)
Restart ==
  /\ run < MaxRuns
  /\ run' = run + 1
  /\ log' = <<>> /\ total' = 0 /\ flushed' = 0
  /\ UNCHANGED file

Next ==
  \/ \E n \in Lengths : WriteStr(n)
  \/ \E k \in 0 .. Len(log) : FlushLog(k)
  \/ Restart

Spec == Init /\ [][Next]_vars

-----------------------------------------------------------------------------
Bytes == [run : Nat, at : Nat]

(* The types of the variables; LOG_POS never passes the buffer's end.      *)
TypeOK ==
  /\ log \in Seq(Bytes) /\ Len(log) <= Size
  /\ total \in Nat /\ run \in Nat /\ flushed \in Nat
  /\ file \in Seq(Bytes)

(* What is in the buffer below the limit is the beginning of what the      *)
(* program logged, without a gap, and it is all of it up to the limit: a   *)
(* string that does not fit is cut, not dropped, whatever was logged       *)
(* before it.                                                              *)
LogIsPrefix ==
  /\ Len(log) >= Least(total, Limit)
  /\ \A i \in 1 .. Least(total, Limit) : log[i] = Byte(run, i)

(* A log that lost bytes says so, with the whole marker right after the    *)
(* last byte kept; a log without losses holds no marker.                   *)
TruncationShown ==
  /\ total > Limit =>
       /\ Len(log) >= Limit + MarkerLen
       /\ \A i \in 1 .. MarkerLen : log[Limit + i] = Mark(i)
  /\ total <= Limit => Len(log) = total

(* Once bytes of this run's log are in the file, later flushes leave them  *)
(* there, at their place, even a flush that fails or crashes half way.     *)
FlushedStays ==
  /\ flushed <= Len(log) /\ flushed <= Len(file)
  /\ \A i \in 1 .. flushed : file[i] = log[i]
=============================================================================
