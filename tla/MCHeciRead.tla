------------------------------ MODULE MCHeciRead ------------------------------
(***************************************************************************)
(* Model values for HeciRead: a buffer of four dwords and a message of ten *)
(* bytes, which the ME sends in two or three fragments of eight, four or   *)
(* two bytes: one of two fits the buffer at a time.  A caller's buffer of  *)
(* eight bytes is too small for it, at its second or third fragment.  A    *)
(* dword read before it was written may read as a header that goes on for  *)
(* ever or as one that fits no or only the larger buffer.                  *)
(***************************************************************************)
EXTENDS HeciRead

CONSTANTS hbm, client

MCAddrs   == {hbm, client}
MCLengths == {3, 10}
MCFrags   == {4, 8}
MCSizes   == {8, 12}

Stray(n, c) == [msg |-> 0, from |-> 0, len |-> n, complete |-> c, word |-> 0]

MCStrays  == {Stray(4, FALSE), Stray(10, TRUE)}
=============================================================================
