-------------------------------- MODULE Requests --------------------------------
(***************************************************************************)
(* The library, as the example applications meet it: a connection that is  *)
(* initiated and terminated, and one request with the send operations it   *)
(* was given (blecon.h, blecon_request.h).  The library is shipped without *)
(* source; this module takes of it what the headers say.  All callbacks    *)
(* run on main, but for the Bluetooth host's, which run as a link comes    *)
(* up and goes down.                                                       *)
(***************************************************************************)
EXTENDS Integers, Sequences

VARIABLES
    link,      (* the connection, from the attempt to its end                *)
    request,   (* how far the request has come                               *)
    ops,       (* the send operations the library holds, the oldest first    *)
    got,       (* the bytes the hotspot has of the request, ...              *)
    complete   (* ... and whether it has its end                             *)

requestVars == <<request, ops, got, complete>>
libVars == <<link, requestVars>>

LinkState == {"down", "initiated", "linked", "up", "ending", "lost"}
RequestState == {"clean", "submitted", "answered", "failed"}

LibInit ==
    /\ link = "down"
    /\ request = "clean"
    /\ ops = <<>>
    /\ got = 0
    /\ complete = FALSE

(* blecon_connection_initiate; on a connection there is it does nothing. *)
Initiate == link' = IF link = "down" THEN "initiated" ELSE link

(* blecon_connection_terminate. *)
Terminate == link' = IF link \in {"initiated", "linked", "up"} THEN "ending" ELSE link

(* blecon_is_connected. *)
IsConnected == link \in {"up", "ending", "lost"}

(* The request is left with the operations held, as state. *)
Leave(held, state) ==
    /\ ops' = held
    /\ request' = state
    /\ got' = 0
    /\ complete' = FALSE

(* The link comes up, and on_connection is called after it. *)
LinkUp    == link = "initiated" /\ link' = "linked"
Connected == link = "linked" /\ link' = "up"

(* The link ends, and on_disconnection is called after it, which fails the *)
(* request that was under way.                                             *)
LinkDown == link \in {"linked", "up", "ending"} /\ link' = "lost"

Disconnected ==
    /\ link = "lost"
    /\ link' = "down"
    /\ request' = IF request \in {"submitted", "answered"} THEN "failed" ELSE request
    /\ UNCHANGED <<ops, got, complete>>

(* The oldest operation o is sent, or fails with the request; on_data_sent *)
(* is called, with the operation back in the application's hands.          *)
DataSent(o) ==
    /\ request = "submitted" /\ link = "up"
    /\ ops # <<>> /\ o = Head(ops)

DataFailed(o) ==
    /\ request = "failed"
    /\ ops # <<>> /\ o = Head(ops)
    /\ ops' = Tail(ops)
    /\ UNCHANGED <<link, request, got, complete>>

(* The response to a complete request. *)
DataReceived ==
    /\ request = "submitted" /\ link = "up" /\ complete
    /\ request' = "answered"
    /\ UNCHANGED <<link, ops, got, complete>>

(* on_closed, when all was sent and received, or after a failure.          *)
Closed(oneway) ==
    /\ \/ request = "submitted" /\ complete /\ oneway
       \/ request = "answered"
       \/ request = "failed" /\ ops = <<>>
    /\ request' = "clean"
    /\ Terminate
    /\ UNCHANGED <<ops, got, complete>>
==================================================================================
