------------------------------ MODULE LargeRequest ------------------------------
(***************************************************************************)
(* The large-request examples, of both ports: a buffer is uploaded in      *)
(* chunks by a few send operations, each of which is used again as soon as *)
(* the library gives it back.                                              *)
(***************************************************************************)
EXTENDS Requests

CONSTANTS OpCount,    (* CONCURRENT_SEND_OPS_COUNT                           *)
          ChunkSize   (* the 4096 bytes of a chunk                           *)

ASSUME UploadAssumption == OpCount \in Nat \ {0} /\ ChunkSize \in Nat \ {0}

VARIABLES size,      (* the bytes of _outgoing_data_buffer                   *)
          pos,       (* _outgoing_data_buffer_pos                            *)
          busy,      (* _send_ops[].busy                                     *)
          refused    (* history: the library has once refused an operation   *)

largeVars == <<size, pos, busy, refused>>

OpIds == 0 .. OpCount - 1

LargeInit(sizes) ==
    /\ size \in sizes
    /\ pos = 0
    /\ busy = [p \in OpIds |-> FALSE]
    /\ refused = FALSE

------------------------------------------------------------------------------

Free(b) == {p \in OpIds : ~ b[p]}

(* take is the first n free operations of b, each with a byte to send when *)
(* the next byte is at.                                                    *)
Takers(b, at, n, take) ==
    /\ \A i, j \in 1 .. n : i < j => take[i] < take[j]
    /\ \A p \in Free(b), i \in 1 .. n : p < take[i] => \E j \in 1 .. n : p = take[j]
    /\ \A k \in 1 .. n : at + (k - 1) * ChunkSize < size

MarkedBusy(b, n, take) == [p \in OpIds |-> b[p] \/ \E k \in 1 .. n : take[k] = p]

(* Fault: the end of the buffer is looked for beyond it. *)
ChunkEndsLate(p, from) ==
    LET to == IF from + ChunkSize > size THEN size ELSE from + ChunkSize
    IN  [op |-> p, from |-> from, to |-> to, finished |-> from + ChunkSize > size]

(* The chunk that starts at from, for operation p. *)
Chunk(p, from) ==
    LET to == IF from + ChunkSize > size THEN size ELSE from + ChunkSize
    IN  [op |-> p, from |-> from, to |-> to, finished |-> to >= size]

(* example_send_data, with operations b busy and the next byte at: free    *)
(* operations queue a chunk each while there are both.  When nothing is    *)
(* left, the first free one is marked busy all the same.                   *)
QueuesAll(b, at, n, take) ==
    /\ Takers(b, at, n, take)
    /\ at + n * ChunkSize >= size \/ \A p \in Free(b) : MarkedBusy(b, n, take)[p]
    /\ pos' = IF at + n * ChunkSize > size THEN size ELSE at + n * ChunkSize
    /\ busy' = IF n > 0 THEN MarkedBusy(b, n, take)
               ELSE [p \in OpIds |-> b[p] \/ \A q \in Free(b) : p <= q]

(* The library takes the chunks, after the operations it has held.         *)
ChunksQueued(b, at, held) ==
    /\ \E n \in 0 .. OpCount : \E take \in [1 .. n -> Free(b)] :
         /\ QueuesAll(b, at, n, take)
         /\ ops' = held \o [k \in 1 .. n |-> Chunk(take[k], at + (k - 1) * ChunkSize)]
    /\ UNCHANGED refused

(* The same when the library refuses the last chunk: the request is        *)
(* cleaned up, with every operation it held.                               *)
ChunkRefused(b, at) ==
    /\ \E n \in 1 .. OpCount : \E take \in [1 .. n -> Free(b)] :
         /\ Takers(b, at, n, take)
         /\ pos' = at + (n - 1) * ChunkSize
         /\ busy' = MarkedBusy(b, n, take)
    /\ ops' = <<>>
    /\ refused' = TRUE

NoneBusy == [p \in OpIds |-> FALSE]

(* The library takes the chunks and refuses the receive operation: the     *)
(* request is cleaned up, the position and the flags stay.                 *)
ReceiveRefused ==
    /\ \E n \in 0 .. OpCount : \E take \in [1 .. n -> Free(NoneBusy)] :
          QueuesAll(NoneBusy, 0, n, take)
    /\ ops' = <<>>
    /\ refused' = TRUE

(* send_data: the request is cleaned up and sent anew; it is submitted     *)
(* whatever became of its chunks, unless receiving is refused.             *)
SendData ==
    /\ got' = 0 /\ complete' = FALSE
    /\ \/ ChunksQueued(NoneBusy, 0, <<>>) /\ request' = "submitted"
       \/ ChunkRefused(NoneBusy, 0) /\ request' \in {"submitted", "clean"}
       \/ ReceiveRefused /\ request' = "clean"
    /\ UNCHANGED size

LargeOnConnection ==
    /\ Connected
    /\ SendData

(* cmd_blecon_connection_initiate_event; request_from_irq on nRF5. *)
LargeInitiateCommand ==
    /\ Initiate
    /\ UNCHANGED <<requestVars, largeVars>>

(* cmd_blecon_send_data_event: at once when connected. *)
LargeSendCommand ==
    \/ IsConnected /\ SendData /\ UNCHANGED link
    \/ ~ IsConnected /\ Initiate /\ UNCHANGED <<requestVars, largeVars>>

(* Fault: the operation is not marked free. *)
LargeOnDataSentBusy(o) ==
    /\ DataSent(o)
    /\ got' = o.to /\ complete' = o.finished
    /\ UNCHANGED <<link, size, request>>
    /\ ChunksQueued(busy, pos, Tail(ops))

(* example_request_on_data_sent: the operation is free for the next chunk. *)
LargeOnDataSent(o) ==
    /\ DataSent(o)
    /\ got' = o.to /\ complete' = o.finished
    /\ UNCHANGED <<link, size>>
    /\ LET b == [busy EXCEPT ![o.op] = FALSE]
       IN  \/ ChunksQueued(b, pos, Tail(ops)) /\ UNCHANGED request
           \/ ChunkRefused(b, pos) /\ request' = "clean"

LargeOnDataFailed(o) ==
    /\ DataFailed(o)
    /\ busy' = [busy EXCEPT ![o.op] = FALSE]
    /\ UNCHANGED <<size, pos, refused>>

(* example_request_on_closed ends the connection. *)
LargeOnClosed == Closed(TRUE) /\ UNCHANGED largeVars

LargeNext ==
    \/ LargeOnConnection
    \/ \E o \in {ops[i] : i \in DOMAIN ops} : LargeOnDataSent(o) \/ LargeOnDataFailed(o)
    \/ LargeOnClosed
    \/ (LinkUp \/ LinkDown) /\ UNCHANGED <<requestVars, largeVars>>
    \/ Disconnected /\ UNCHANGED largeVars

------------------------------------------------------------------------------

(* What the hotspot has and what the library holds of the buffer are its   *)
(* bytes from the first on, without a gap and in chunks that fit; the      *)
(* chunk with the last byte, and no other, ends the request; and no        *)
(* operation is lent to the library twice.                                 *)
UploadWhole ==
    /\ complete => got = size
    /\ ops # <<>> =>
          /\ request = "submitted" => ops[1].from = got
          /\ ops[Len(ops)].to = pos
    /\ \A i \in DOMAIN ops :
          /\ i > 1 => ops[i].from = ops[i - 1].to
          /\ ops[i].to - ops[i].from \in 1 .. ChunkSize
          /\ ops[i].finished <=> ops[i].to = size
          /\ busy[ops[i].op]
          /\ \A j \in DOMAIN ops : ops[i].op = ops[j].op => i = j
==================================================================================
