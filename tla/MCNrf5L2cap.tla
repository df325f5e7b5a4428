------------------------------ MODULE MCNrf5L2cap ------------------------------
(* The port's two buffers each way; memory for one leak of each kind. *)
EXTENDS Nrf5L2cap
==============================================================================
