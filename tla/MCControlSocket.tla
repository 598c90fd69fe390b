--------------------------- MODULE MCControlSocket ---------------------------
(***************************************************************************)
(* Values for TLC: one repeating timer, longer than the polls are apart.   *)
(***************************************************************************)
EXTENDS ControlSocket, TLC

CONSTANT map

MCInterval == map :> 3
MCDelays == {-1, 1}
=============================================================================
