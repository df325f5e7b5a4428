---------------------------- MODULE MCUartTransport ----------------------------
(* Two exchanges and two events at a buffer that can overflow. *)
EXTENDS UartTransport
==============================================================================
