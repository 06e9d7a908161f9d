-------------------------------- MODULE MCPthi --------------------------------
(***************************************************************************)
(* Model values for Pthi: an empty and a two-character DNS suffix.  The    *)
(* response to GetDNSSuffix with the latter is exactly as long as the      *)
(* response to GetControlMode.                                             *)
(***************************************************************************)
EXTENDS Pthi

MCSuffixes == {0, 2}
=============================================================================
