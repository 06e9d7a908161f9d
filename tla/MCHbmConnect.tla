----------------------------- MODULE MCHbmConnect -----------------------------
(***************************************************************************)
(* Model values for HbmConnect: clients at the first and at the last       *)
(* address, and one UUID nobody has.                                       *)
(***************************************************************************)
EXTENDS HbmConnect

CONSTANTS amthi, lme, absent, none

MCListed   == {1, 3}
MCUuid     == <<lme, none, amthi>>
MCMaxLen   == <<4, 0, 8>>
MCHostAddr == [t \in {amthi, lme, absent} |-> IF t = amthi THEN 1 ELSE 2]
=============================================================================
