------------------------------ MODULE MCNrf5Gatts ------------------------------
(* The port's two bearers, each with room for the library's two sends. *)
EXTENDS Nrf5Gatts, TLC

BearerSymmetry == Permutations(Bearers)
==============================================================================
