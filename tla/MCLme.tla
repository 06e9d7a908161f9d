-------------------------------- MODULE MCLme --------------------------------
(***************************************************************************)
(* Model values for Lme: two of our channel numbers, a receive buffer of   *)
(* three units, and init sequences with and without what the host waits    *)
(* for.                                                                    *)
(***************************************************************************)
EXTENDS Lme

CONSTANTS http, other

(* The regular sequence, its other order with a forward that wants no      *)
(* reply, one that never asks for port 16992, one that is silent.          *)
Regular  == <<Pv, Service, Forward(other, 1), Forward(http, 1)>>
Reversed == <<Pv, Forward(http, 0), Forward(other, 1)>>
Degraded == <<Pv, Forward(other, 1)>>

(* The regular sequence without the service request, for the run in which  *)
(* writes time out as well.                                                *)
Short    == <<Pv, Forward(other, 1), Forward(http, 1)>>

MCShortScripts == {Short, Reversed, Degraded, <<>>}
MCAllScripts  == {Regular, Reversed, Degraded, <<>>}
MCGoodScripts == {Regular, Reversed}
MCAmtIds      == {0, 1}

(* Answers of one chunk and of two, and one that is larger than rx_buf.    *)
MCSmall == {<<1>>, <<2, 1>>}
MCLarge == {<<2, 2>>}
(* With a chunk larger than the receive loop's buffer.                     *)
MCOversize == {<<2, 1>>, <<1, 3>>}
=============================================================================
