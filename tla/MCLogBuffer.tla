----------------------------- MODULE MCLogBuffer -----------------------------
(***************************************************************************)
(* Model values for LogBuffer: eight bytes, four of them kept for a marker *)
(* of three, as 32 are kept for one of 19, so that a second marker finds   *)
(* room for its beginning only; strings that end below, at and beyond the  *)
(* limit.                                                                  *)
(***************************************************************************)
EXTENDS LogBuffer

MCLengths == {1, 3}
=============================================================================
