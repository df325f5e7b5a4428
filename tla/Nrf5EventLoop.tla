----------------------------- MODULE Nrf5EventLoop -----------------------------
(***************************************************************************)
(* The event loop of the nRF5 port (blecon_nrf5_event_loop.c): signals are *)
(* entries of the SDK's scheduler queue, put there by main and by the      *)
(* interrupts that preempt it, and main runs them one by one.  The queue   *)
(* also carries the SoftDevice's requests to fetch its events; these must  *)
(* not be lost (an error is fatal), while a signal that finds the queue    *)
(* full is dropped and nobody looks at the error.                          *)
(***************************************************************************)
EXTENDS Naturals, FiniteSets, Sequences, SequencesExt

CONSTANTS MaxEvents,   (* BLECON_NRF5_EVENT_LOOP_MAX_EVENTS                  *)
          QueueSize    (* SCHED_QUEUE_SIZE                                   *)

ASSUME SizeAssumption == {MaxEvents, QueueSize} \subseteq Nat \ {0}

Events     == 0 .. MaxEvents - 1
SoftDevice == MaxEvents
NoEvent    == MaxEvents + 1

VARIABLES
    eventCount,  (* event_count                                              *)
    queue,       (* the scheduler's queue                                    *)
    running,     (* the entry main runs; it keeps its place in the queue     *)
    failed,      (* the SoftDevice found the queue full                      *)
    owed,        (* history: the events signalled and not called since,      *)
    dropped      (* and those of them whose only signals were dropped        *)

vars == <<eventCount, queue, running, failed, owed, dropped>>

TypeOK ==
    /\ eventCount \in 0 .. MaxEvents
    /\ queue \in Seq(0 .. SoftDevice)
    /\ Len(queue) <= QueueSize
    /\ running \in 0 .. NoEvent
    /\ failed \in BOOLEAN
    /\ owed \subseteq Events
    /\ dropped \subseteq Events

Init ==
    /\ eventCount = 0
    /\ queue = <<>>
    /\ running = NoEvent
    /\ failed = FALSE
    /\ owed = {}
    /\ dropped = {}

(* The calls of an event that main still has to make. *)
Pending(e) == Cardinality({i \in 1 .. Len(queue) : queue[i] = e})
                - (IF running = e THEN 1 ELSE 0)

------------------------------------------------------------------------------

(* Components register on main, before it runs the loop or in a callback.  *)
RegisterEvent ==
    /\ eventCount < MaxEvents
    /\ eventCount' = eventCount + 1
    /\ UNCHANGED <<queue, running, failed, owed, dropped>>

(* signal, on main or in an interrupt; the scheduler's error is ignored. *)
Signal(e) ==
    /\ e < eventCount
    /\ owed' = owed \union {e}
    /\ IF Len(queue) < QueueSize
       THEN queue' = Append(queue, e) /\ dropped' = dropped \ {e}
       ELSE /\ dropped' = IF Pending(e) = 0 THEN dropped \union {e} ELSE dropped
            /\ UNCHANGED queue
    /\ UNCHANGED <<eventCount, running, failed>>

(* The SoftDevice has events: its interrupt asks main to fetch them. *)
SoftDeviceInterrupt ==
    /\ IF Len(queue) < QueueSize
       THEN queue' = Append(queue, SoftDevice) /\ UNCHANGED failed
       ELSE failed' = TRUE /\ UNCHANGED queue
    /\ UNCHANGED <<eventCount, running, owed, dropped>>

(* app_sched_execute runs the oldest entry: signal_handler and the event's *)
(* callback, or the SoftDevice's observers.                                *)
RunEntry ==
    /\ running = NoEvent
    /\ queue # <<>>
    /\ running' = Head(queue)
    /\ owed' = owed \ {Head(queue)}
    /\ dropped' = dropped \ {Head(queue)}
    /\ UNCHANGED <<eventCount, queue, failed>>

(* Fault: after a callback main goes to sleep with a queue it takes to be  *)
(* empty.                                                                  *)
ReturnResets ==
    /\ running # NoEvent
    /\ running' = NoEvent
    /\ queue' = <<>>
    /\ UNCHANGED <<eventCount, failed, owed, dropped>>

(* Fault: the entry keeps its place in the queue. *)
ReturnKeeps ==
    /\ running # NoEvent
    /\ running' = NoEvent
    /\ UNCHANGED <<eventCount, queue, failed, owed, dropped>>

Return ==
    /\ running # NoEvent
    /\ running' = NoEvent
    /\ queue' = Tail(queue)
    /\ UNCHANGED <<eventCount, failed, owed, dropped>>

LoopStep == RunEntry \/ Return

Next ==
    /\ ~ failed
    /\ \/ RegisterEvent
       \/ \E e \in Events : Signal(e)
       \/ SoftDeviceInterrupt
       \/ LoopStep

Spec == Init /\ [][Next]_vars

(* Main runs, and an interrupt wakes it. *)
FairSpec == Spec /\ WF_vars(~ failed /\ LoopStep)

------------------------------------------------------------------------------

Lossy == INSTANCE EventDelivery
    WITH owed <- owed \ dropped, pending <- [e \in Events |-> Pending(e)],
         running <- IF running = SoftDevice THEN NoEvent ELSE running

Delivery == INSTANCE EventDelivery
    WITH pending <- [e \in Events |-> Pending(e)],
         running <- IF running = SoftDevice THEN NoEvent ELSE running

(* But for the signals dropped at a full queue the loop delivers as        *)
(* blecon_event_loop.h promises: none lost, none invented, one at a time.  *)
ImplementsLossyDelivery == Lossy!Spec

(* A signal that was not dropped is answered: no entry is passed over.     *)
SignalsAnswered ==
    \A e \in Events : (e \in owed /\ e \notin dropped) ~> (e \notin owed \/ failed)

(* The promise itself: "should raise blecon_event_on_raised() in the main  *)
(* loop".                                                                  *)
ImplementsDelivery == Delivery!Spec
==============================================================================
