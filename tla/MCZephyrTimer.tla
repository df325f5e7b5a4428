---------------------------- MODULE MCZephyrTimer ----------------------------
(* Two other threads, nested locking, two events, one of them the timer's. *)
EXTENDS ZephyrTimer
==============================================================================
