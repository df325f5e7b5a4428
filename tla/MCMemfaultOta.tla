---------------------------- MODULE MCMemfaultOta ----------------------------
(***************************************************************************)
(* Two chunks in flight, images of three chunks, and three downloads, so   *)
(* that a download may fail with chunks queued and two more may follow it. *)
(***************************************************************************)
EXTENDS MemfaultOta
==============================================================================
