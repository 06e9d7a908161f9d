----------------------------- MODULE MCHttpParse -----------------------------
(***************************************************************************)
(* Model values for HttpParse: sizes in base two, so that a chunk of two   *)
(* bytes already has a size of two digits; bodies of digits and line ends, *)
(* up to one byte more than the buffer holds.                              *)
(***************************************************************************)
EXTENDS HttpParse

MCBytes == {0, 1, CR, LF}
=============================================================================
