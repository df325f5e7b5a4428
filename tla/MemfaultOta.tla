------------------------------ MODULE MemfaultOta ------------------------------
(***************************************************************************)
(* Firmware updates of the Zephyr port (blecon_zephyr_memfault_ota.c).     *)
(* Main, which the DFU thread never preempts, receives the chunks of an    *)
(* image and queues them as operations; the DFU thread writes them to      *)
(* flash, queues an event for each and then runs the event loop's callback *)
(* itself, so main may run between any two of its steps.  The library's    *)
(* download client is external: it asks for as many chunks as it has       *)
(* receive operations, counts those the port holds, and the count is read  *)
(* and written back in two steps when a chunk is freed.                    *)
(***************************************************************************)
EXTENDS Naturals, Sequences

CONSTANTS Chunks,                \* of an image, the last one marked done
          MAX_CHUNKS_IN_FLIGHT,
          MaxDownloads           \* bounds the downloads told apart

ASSUME OtaAssumption == Chunks \in Nat \ {0} /\ MAX_CHUNKS_IN_FLIGHT \in Nat \ {0}
                        /\ MaxDownloads \in Nat

VARIABLES downloading_update,
          checking,        \* the update check waits for its answer
          client,          \* the download client
          ops, events,     \* dfu_target_ops, dfu_target_events
          dfu,             \* where the DFU thread is, with what it holds
          flash,           \* the chunks in the secondary image slot
          boot,            \* the slot's contents when the upgrade was requested
          device           \* the image that runs; mcuboot's mark of it; setting up

mainVars == <<checking, client>>
vars == <<downloading_update, checking, client, ops, events, dfu, flash, boot, device>>

Chunk == [dl : 1 .. MaxDownloads, part : 1 .. Chunks]
Reset == [dl |-> 0, part |-> 0]

(* In flash there is also the image the device was made with, download 0. *)
Stored == [dl : 0 .. MaxDownloads, part : 1 .. Chunks]

Image(dl) == [i \in 1 .. Chunks |-> [dl |-> dl, part |-> i]]
Done(chunk) == chunk.part = Chunks

Factory == Image(0)

(* The chunks the port holds: to be written, written, or about to be freed. *)
Held == SelectSeq(ops, LAMBDA op : op # Reset) \o events
        \o (IF dfu.pc \in {"free", "store"} THEN <<dfu.chunk>> ELSE <<>>)

TypeOK ==
    /\ {downloading_update, checking} \subseteq BOOLEAN
    /\ client \in [dl : 0 .. MaxDownloads, next : 1 .. Chunks + 1, downloading : BOOLEAN,
                   chunks_in_use : Nat, receive_ops : Nat]
    /\ ops \in Seq(Chunk \union {Reset})
    /\ events \in Seq(Chunk)
    /\ dfu \in [pc : {"get", "process", "ask", "complete", "upgrade", "reboot", "halted"}]
               \union [pc : {"free"}, chunk : Chunk]
               \union [pc : {"store"}, chunk : Chunk, count : Nat \ {0}]
    /\ flash \in Seq(Stored)
    /\ boot \in Seq(Stored)
    /\ device \in [image : Seq(Stored), confirmed : BOOLEAN, starting : BOOLEAN]

Idle == [pc |-> "get"]

Init ==
    /\ downloading_update = FALSE
    /\ checking = TRUE
    /\ client = [dl |-> 0, next |-> 1, downloading |-> FALSE, chunks_in_use |-> 0,
                 receive_ops |-> 0]
    /\ ops = <<>>
    /\ events = <<>>
    /\ dfu = Idle
    /\ flash = <<>>
    /\ boot = <<>>
    /\ device = [image |-> Factory, confirmed |-> TRUE, starting |-> TRUE]

Running == dfu.pc \notin {"reboot", "halted"}

(* Main has entered the event loop. *)
InLoop == Running /\ ~ device.starting

------------------------------------------------------------------------------
(* Main. *)

(* Fault: an image that is not confirmed is left as it is. *)
ConfirmCurrentImageNot ==
    /\ Running
    /\ device.starting
    /\ device' = [device EXCEPT !.starting = FALSE]
    /\ UNCHANGED <<downloading_update, mainVars, ops, events, dfu, flash, boot>>

(* The application confirms the image before it enters the loop. *)
ConfirmCurrentImage ==
    /\ Running
    /\ device.starting
    /\ device' = [device EXCEPT !.starting = FALSE, !.confirmed = TRUE]
    /\ UNCHANGED <<downloading_update, mainVars, ops, events, dfu, flash, boot>>

CheckForUpdate ==
    /\ InLoop
    /\ ~ downloading_update
    /\ checking' = TRUE
    /\ UNCHANGED <<downloading_update, client, ops, events, dfu, flash, boot, device>>

(* No update, or memfault_ota_client_on_error. *)
NoUpdate ==
    /\ InLoop
    /\ checking
    /\ checking' = FALSE
    /\ UNCHANGED <<downloading_update, client, ops, events, dfu, flash, boot, device>>

(* Fault: the flash context is not reset. *)
OnStatusUpdateNoReset ==
    /\ InLoop
    /\ checking
    /\ checking' = FALSE
    /\ client.dl < MaxDownloads
    /\ downloading_update' = TRUE
    /\ client' = [dl |-> client.dl + 1, next |-> 1, downloading |-> TRUE,
                  chunks_in_use |-> 0, receive_ops |-> MAX_CHUNKS_IN_FLIGHT]
    /\ UNCHANGED <<ops, events, dfu, flash, boot, device>>

(* An update: the client starts anew and the flash is reset after what is  *)
(* queued.                                                                 *)
OnStatusUpdate ==
    /\ InLoop
    /\ checking
    /\ checking' = FALSE
    /\ client.dl < MaxDownloads
    /\ IF downloading_update
       THEN UNCHANGED <<downloading_update, client, ops>>
       ELSE /\ downloading_update' = TRUE
            /\ client' = [dl |-> client.dl + 1, next |-> 1, downloading |-> TRUE,
                          chunks_in_use |-> 0, receive_ops |-> MAX_CHUNKS_IN_FLIGHT]
            /\ ops' = Append(ops, Reset)
    /\ UNCHANGED <<events, dfu, flash, boot, device>>

(* A chunk; the request closes right after the last. *)
OnNewChunk ==
    /\ InLoop
    /\ client.downloading
    /\ client.receive_ops > 0
    /\ LET chunk == [dl |-> client.dl, part |-> client.next] IN
          /\ client' = [client EXCEPT !.next = @ + 1, !.chunks_in_use = @ + 1,
                                      !.receive_ops = @ - 1,
                                      !.downloading = ~ Done(chunk)]
          /\ ops' = Append(ops, chunk)
    /\ UNCHANGED <<downloading_update, checking, events, dfu, flash, boot, device>>

(* Fault: an update whose download failed is never over. *)
OnErrorStays ==
    /\ InLoop
    /\ client.downloading
    /\ client' = [client EXCEPT !.downloading = FALSE]
    /\ UNCHANGED <<downloading_update, checking, ops, events, dfu, flash, boot, device>>

(* The download fails; what is queued of it stays queued. *)
OnError ==
    /\ InLoop
    /\ client.downloading
    /\ client' = [client EXCEPT !.downloading = FALSE]
    /\ downloading_update' = FALSE
    /\ UNCHANGED <<checking, ops, events, dfu, flash, boot, device>>

------------------------------------------------------------------------------
(* The DFU thread: dfu_thread_fn. *)

Execute ==
    /\ dfu.pc = "get"
    /\ ops # <<>>
    /\ ops' = Tail(ops)
    /\ IF Head(ops) = Reset
       THEN flash' = <<>> /\ UNCHANGED events
       ELSE flash' = Append(flash, Head(ops)) /\ events' = Append(events, Head(ops))
    /\ dfu' = [pc |-> "process"]
    /\ UNCHANGED <<downloading_update, mainVars, boot, device>>

(* process_dfu_target_events, called from the thread. *)
ProcessEvents ==
    /\ dfu.pc = "process"
    /\ IF events = <<>>
       THEN dfu' = Idle /\ UNCHANGED events
       ELSE /\ dfu' = [pc |-> "free", chunk |-> Head(events)]
            /\ events' = Tail(events)
    /\ UNCHANGED <<downloading_update, mainVars, ops, flash, boot, device>>

(* blecon_download_client_free_chunk reads the count; zero is fatal. *)
FreeLoad ==
    /\ dfu.pc = "free"
    /\ dfu' = IF client.chunks_in_use = 0 THEN [pc |-> "halted"]
              ELSE [pc |-> "store", chunk |-> dfu.chunk, count |-> client.chunks_in_use]
    /\ UNCHANGED <<downloading_update, mainVars, ops, events, flash, boot, device>>

(* ... then writes it back, and asks for another chunk. *)
FreeStore ==
    /\ dfu.pc = "store"
    /\ client' = [client EXCEPT !.chunks_in_use = dfu.count - 1,
                                !.receive_ops = IF client.downloading THEN @ + 1 ELSE @]
    /\ dfu' = IF Done(dfu.chunk) THEN [pc |-> "ask"] ELSE [pc |-> "process"]
    /\ UNCHANGED <<downloading_update, checking, ops, events, flash, boot, device>>

(* The last chunk is written: the update is over, unless the client has    *)
(* more to download.                                                       *)
Finish ==
    /\ dfu.pc = "ask"
    /\ IF client.downloading
       THEN dfu' = [pc |-> "process"] /\ UNCHANGED downloading_update
       ELSE dfu' = [pc |-> "complete"] /\ downloading_update' = FALSE
    /\ UNCHANGED <<mainVars, ops, events, flash, boot, device>>

(* on_ota_complete installs, unless an update has begun in the meantime. *)
InstallAndReboot ==
    /\ dfu.pc = "complete"
    /\ dfu' = [pc |-> IF downloading_update THEN "process" ELSE "upgrade"]
    /\ UNCHANGED <<downloading_update, mainVars, ops, events, flash, boot, device>>

RequestUpgrade ==
    /\ dfu.pc = "upgrade"
    /\ boot' = flash
    /\ dfu' = [pc |-> "reboot"]
    /\ UNCHANGED <<downloading_update, mainVars, ops, events, flash, device>>

(* The boot loader swaps the slots for an upgrade, which is a trial, and   *)
(* swaps them back if the trial was not confirmed.                         *)
Swap(onTrial) ==
    /\ flash' = device.image
    /\ device' = [image |-> flash, confirmed |-> ~ onTrial, starting |-> TRUE]

(* A reboot, a crash or a loss of power: only the flash survives.          *)
Restart ==
    /\ downloading_update' = FALSE
    /\ checking' = TRUE
    /\ client' = [client EXCEPT !.next = 1, !.downloading = FALSE, !.chunks_in_use = 0,
                                !.receive_ops = 0]
    /\ ops' = <<>>
    /\ events' = <<>>
    /\ dfu' = Idle
    /\ boot' = <<>>
    /\ \/ boot # <<>> /\ Swap(TRUE)
       \/ boot = <<>> /\ ~ device.confirmed /\ Swap(FALSE)
       \/ /\ boot = <<>> /\ device.confirmed
          /\ device' = [device EXCEPT !.starting = TRUE]
          /\ UNCHANGED flash

Main == ConfirmCurrentImage \/ CheckForUpdate \/ NoUpdate \/ OnStatusUpdate \/ OnNewChunk \/ OnError
DfuThread == Execute \/ ProcessEvents \/ FreeLoad \/ FreeStore \/ Finish
             \/ InstallAndReboot \/ RequestUpgrade

Next == Main \/ DfuThread \/ Restart

Spec == Init /\ [][Next]_vars

(* The DFU thread runs whenever main waits; a download gets its chunks or  *)
(* fails.                                                                  *)
FairSpec == Spec /\ WF_vars(DfuThread) /\ WF_vars(OnNewChunk \/ OnError)

------------------------------------------------------------------------------
(* Properties. *)

(* What is marked for upgrade, what runs, and what an image on trial would *)
(* be swapped back for, is all the chunks of one download (or of the image *)
(* the device was made with), each once and in order, whatever failed      *)
(* downloads and restarts left in the queue and in the flash before it; a  *)
(* download never overwrites the image to swap back                        *)
(* (blecon_zephyr_memfault_ota_install_and_reboot, _confirm_current_image).*)
WholeImage ==
    /\ boot # <<>> => \E dl \in 1 .. MaxDownloads : boot = Image(dl)
    /\ \E dl \in 0 .. MaxDownloads : device.image = Image(dl)
    /\ ~ device.confirmed => \E dl \in 0 .. MaxDownloads : flash = Image(dl)

(* An update ends: it is installed, fails, or the program stops; it never  *)
(* stays "downloading" and refuses every later check for an update         *)
(* (blecon_zephyr_memfault_ota_check_for_update's guard).                  *)
UpdateEnds == downloading_update ~> (~ downloading_update \/ ~ Running)

------------------------------------------------------------------------------
(* What the code says and does not keep. *)

(* The client's count is the number of chunks of its download that the     *)
(* port holds: callbacks of events run in the main loop                    *)
(* (blecon_event_loop.h), where nothing comes between a count read and the *)
(* count written.                                                          *)
ChunksCounted ==
    Running /\ dfu.pc # "store" =>
        client.chunks_in_use = Len(SelectSeq(Held, LAMBDA chunk : chunk.dl = client.dl))

(* A chunk freed is always one the client has counted: its fatal error for *)
(* a count of zero (blecon_download_client_free_chunk) is never reached.   *)
FreeIsCounted == dfu.pc # "halted"

(* An update that is complete is installed, not refused as one that still  *)
(* downloads (on_ota_complete).                                            *)
CompleteIsInstalled == dfu.pc = "complete" => ~ downloading_update
==============================================================================
