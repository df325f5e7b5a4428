---------------------------- MODULE MCNrf5Advertising ----------------------------
(* Three sets, of which the last can be connected to. *)
EXTENDS Nrf5Advertising

LastConnectable  == {SetsCount - 1}
==============================================================================
