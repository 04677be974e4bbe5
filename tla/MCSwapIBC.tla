------------------------------ MODULE MCSwapIBC ------------------------------
(***************************************************************************)
(* Instances of SwapIBC for TLC.                                           *)
(***************************************************************************)
EXTENDS SwapIBC

CONSTANTS p1, g

=============================================================================
