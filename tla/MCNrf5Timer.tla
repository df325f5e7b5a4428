------------------------------ MODULE MCNrf5Timer ------------------------------
(* One event besides the timer's, at a queue of two entries; an RTC that   *)
(* wraps at 5, looked at every 2; a word that cannot hold the product for  *)
(* the longest timeout, as on the device.                                  *)
EXTENDS Nrf5Timer
==============================================================================
