----------------------------- MODULE MCHeciWrite -----------------------------
(***************************************************************************)
(* Model values for HeciWrite: a buffer of four dwords, so that one        *)
(* fragment carries at most eight bytes, pointers that wrap after eight    *)
(* dwords and a length field that holds eight and no more.                 *)
(***************************************************************************)
EXTENDS HeciWrite

CONSTANTS hbm, client

MCAddrs   == {hbm, client}
MCLengths == {3, 13}
=============================================================================
