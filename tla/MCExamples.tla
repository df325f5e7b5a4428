------------------------------- MODULE MCExamples -------------------------------
(* Two send operations and chunks of two bytes, with buffers that end      *)
(* within a chunk and with one; the user gives three commands.             *)
EXTENDS Examples
==================================================================================
