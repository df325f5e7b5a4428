----------------------------- MODULE MCZephyrGatts -----------------------------
(* The port's two bearers, each with room for the library's two sends. *)
EXTENDS ZephyrGatts
==============================================================================
