----------------------------- MODULE MCActivation -----------------------------
(***************************************************************************)
(* Model values for Activation: one return value of a refused Setup.       *)
(***************************************************************************)
EXTENDS Activation

MCRefusals == {16}
=============================================================================
