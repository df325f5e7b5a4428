------------------------------ MODULE EventLoop ------------------------------
(***************************************************************************)
(* The event loop of the Zephyr port (blecon_zephyr_event_loop.c): one     *)
(* main thread that waits on a k_event, clears what it saw and runs the    *)
(* callbacks under a recursive k_mutex; any thread or interrupt handler    *)
(* may post; Bluetooth threads take the same mutex around their calls into *)
(* the library.                                                            *)
(***************************************************************************)
EXTENDS Naturals

CONSTANTS Threads,     (* the threads other than main that take the lock   *)
          Main,        (* the thread that runs the loop                    *)
          Nobody,      (* the owner of a free mutex                        *)
          MaxEvents,   (* BLECON_ZEPHYR_EVENT_LOOP_MAX_EVENTS              *)
          MaxDepth     (* bound on nested locking by one thread            *)

ASSUME ThreadAssumption ==
    /\ Main \notin Threads
    /\ Nobody \notin Threads \union {Main}
ASSUME BoundAssumption ==
    /\ MaxEvents \in Nat \ {0}
    /\ MaxDepth \in Nat \ {0}

Lockers == Threads \union {Main}
Events  == 0 .. MaxEvents - 1

(* BLECON_EVENT_BREAK: bit 31, which is the id of no event. *)
Break   == MaxEvents
NoEvent == MaxEvents + 1
Bits    == Events \union {Break}

VARIABLES
    zEvent,      (* the bits posted to the k_event and not cleared         *)
    eventsCount, (* events_count: events 0 .. eventsCount - 1 exist        *)
    owner,       (* k_mutex.owner                                          *)
    lockCount,   (* k_mutex.lock_count                                     *)
    depth,       (* for each thread, the locks it took and did not undo    *)
    pc,          (* where run() is                                         *)
    mask,        (* its local event_mask                                   *)
    events,      (* its local events                                       *)
    p,           (* its local p                                            *)
    owed         (* history: the events signalled and not called since     *)

mutex == <<owner, lockCount, depth>>
local == <<pc, mask, events, p>>
vars  == <<zEvent, eventsCount, mutex, local, owed>>

TypeOK ==
    /\ zEvent \subseteq Bits
    /\ eventsCount \in 0 .. MaxEvents
    /\ owner \in Lockers \union {Nobody}
    /\ lockCount \in Nat
    /\ depth \in [Lockers -> Nat]
    /\ pc \in {"stopped", "mask", "wait", "clear", "lock", "locked",
               "callback", "unlock", "check"}
    /\ mask \subseteq Bits
    /\ events \subseteq Bits
    /\ p \in 0 .. MaxEvents
    /\ owed \subseteq Events

Init ==
    /\ zEvent = {}
    /\ eventsCount = 0
    /\ owner = Nobody
    /\ lockCount = 0
    /\ depth = [t \in Lockers |-> 0]
    /\ pc = "stopped"
    /\ mask = {}
    /\ events = {}
    /\ p = 0
    /\ owed = {}

------------------------------------------------------------------------------
(* The mutex: free, or taken again by its owner. *)

Acquire(t) ==
    /\ owner \in {Nobody, t}
    /\ owner' = t
    /\ lockCount' = lockCount + 1
    /\ depth' = [depth EXCEPT ![t] = @ + 1]

Release(t) ==
    /\ owner = t
    /\ lockCount' = lockCount - 1
    /\ owner' = IF lockCount = 1 THEN Nobody ELSE owner
    /\ depth' = [depth EXCEPT ![t] = @ - 1]

(* A thread enters the library: blecon_event_loop_lock. *)
Lock(t) ==
    /\ depth[t] < MaxDepth
    /\ t = Main => pc \in {"stopped", "callback"}
    /\ Acquire(t)
    /\ UNCHANGED <<zEvent, eventsCount, local, owed>>

(* ... and leaves it.  Main keeps the lock run() took around its callback. *)
Unlock(t) ==
    /\ depth[t] > (IF t = Main /\ pc = "callback" THEN 1 ELSE 0)
    /\ t = Main => pc \in {"stopped", "callback"}
    /\ Release(t)
    /\ UNCHANGED <<zEvent, eventsCount, local, owed>>

------------------------------------------------------------------------------
(* Callers, in any thread or interrupt handler: one k_event_post each. *)

Signal(e) ==
    /\ e < eventsCount
    /\ zEvent' = zEvent \union {e}
    /\ owed' = owed \union {e}
    /\ UNCHANGED <<eventsCount, mutex, local>>

BreakLoop ==
    /\ zEvent' = zEvent \union {Break}
    /\ UNCHANGED <<eventsCount, mutex, local, owed>>

(* Components register on the main thread, before run() or in a callback.  *)
(* A seventeenth event stops the program at the assertion.                 *)
RegisterEvent ==
    /\ pc \in {"stopped", "callback"}
    /\ eventsCount < MaxEvents
    /\ eventsCount' = eventsCount + 1
    /\ UNCHANGED <<zEvent, mutex, local, owed>>

------------------------------------------------------------------------------
(* run(), one action per point where another context can come in between. *)

Run ==
    /\ pc = "stopped"
    /\ depth[Main] = 0
    /\ pc' = "mask"
    /\ UNCHANGED <<zEvent, eventsCount, mutex, mask, events, p, owed>>

(* Fault: the mask leaves the newest event out. *)
ComputeShortMask ==
    /\ pc = "mask"
    /\ mask' = {Break} \union {e \in Events : e + 1 < eventsCount}
    /\ pc' = "wait"
    /\ UNCHANGED <<zEvent, eventsCount, mutex, events, p, owed>>

ComputeMask ==
    /\ pc = "mask"
    /\ mask' = {Break} \union {e \in Events : e < eventsCount}
    /\ pc' = "wait"
    /\ UNCHANGED <<zEvent, eventsCount, mutex, events, p, owed>>

(* k_event_wait without reset: returns the posted bits of the mask. *)
Wait ==
    /\ pc = "wait"
    /\ zEvent \intersect mask # {}
    /\ events' = zEvent \intersect mask
    /\ pc' = "clear"
    /\ UNCHANGED <<zEvent, eventsCount, mutex, mask, p, owed>>

(* Fault: all the bits waited for are cleared, not only those returned. *)
ClearMask ==
    /\ pc = "clear"
    /\ zEvent' = zEvent \ mask
    /\ p' = 0
    /\ pc' = "lock"
    /\ UNCHANGED <<eventsCount, mutex, mask, events, owed>>

(* Fault: the bits are expected to be cleared by the wait. *)
ClearNothing ==
    /\ pc = "clear"
    /\ p' = 0
    /\ pc' = "lock"
    /\ UNCHANGED <<zEvent, eventsCount, mutex, mask, events, owed>>

(* k_event_set_masked(0, events), and p = 0. *)
Clear ==
    /\ pc = "clear"
    /\ zEvent' = zEvent \ events
    /\ p' = 0
    /\ pc' = "lock"
    /\ UNCHANGED <<eventsCount, mutex, mask, events, owed>>

(* Fault: the walk does not take the lock around an event. *)
LoopNoLock ==
    /\ pc = "lock"
    /\ p < eventsCount
    /\ pc' = "locked"
    /\ UNCHANGED <<zEvent, eventsCount, mutex, mask, events, p, owed>>

LoopLock ==
    /\ pc = "lock"
    /\ p < eventsCount
    /\ Acquire(Main)
    /\ pc' = "locked"
    /\ UNCHANGED <<zEvent, eventsCount, mask, events, p, owed>>

(* blecon_event_on_raised *)
OnRaised ==
    /\ pc = "locked"
    /\ p \in events
    /\ pc' = "callback"
    /\ owed' = owed \ {p}
    /\ UNCHANGED <<zEvent, eventsCount, mutex, mask, events, p>>

NotRaised ==
    /\ pc = "locked"
    /\ p \notin events
    /\ pc' = "unlock"
    /\ UNCHANGED <<zEvent, eventsCount, mutex, mask, events, p, owed>>

CallbackReturns ==
    /\ pc = "callback"
    /\ depth[Main] = 1
    /\ pc' = "unlock"
    /\ UNCHANGED <<zEvent, eventsCount, mutex, mask, events, p, owed>>

LoopUnlock ==
    /\ pc = "unlock"
    /\ Release(Main)
    /\ p' = p + 1
    /\ pc' = "lock"
    /\ UNCHANGED <<zEvent, eventsCount, mask, events, owed>>

LoopDone ==
    /\ pc = "lock"
    /\ p >= eventsCount
    /\ pc' = "check"
    /\ UNCHANGED <<zEvent, eventsCount, mutex, mask, events, p, owed>>

(* Fault: the posted bits are looked at again instead of those returned. *)
CheckPostedBreak ==
    /\ pc = "check"
    /\ pc' = IF Break \in zEvent THEN "stopped" ELSE "mask"
    /\ UNCHANGED <<zEvent, eventsCount, mutex, mask, events, p, owed>>

CheckBreak ==
    /\ pc = "check"
    /\ pc' = IF Break \in events THEN "stopped" ELSE "mask"
    /\ UNCHANGED <<zEvent, eventsCount, mutex, mask, events, p, owed>>

LoopStep ==
    \/ ComputeMask \/ Wait \/ Clear \/ LoopLock \/ OnRaised \/ NotRaised
    \/ CallbackReturns \/ LoopUnlock \/ LoopDone \/ CheckBreak

Next ==
    \/ \E t \in Lockers : Lock(t) \/ Unlock(t)
    \/ \E e \in Events : Signal(e)
    \/ BreakLoop
    \/ RegisterEvent
    \/ Run
    \/ LoopStep

Spec == Init /\ [][Next]_vars

(* The loop's thread is scheduled; threads and callbacks leave the library *)
(* again; the loop's k_mutex_lock is served although other threads compete *)
(* (a released k_mutex is handed to a waiter).                             *)
Fairness ==
    /\ WF_vars(LoopStep)
    /\ SF_vars(LoopLock)
    /\ SF_vars(CallbackReturns)
    /\ \A t \in Lockers : WF_vars(Unlock(t))
    /\ \A t \in Threads : SF_vars(depth[t] = 1 /\ Unlock(t))

FairSpec == Spec /\ Fairness

------------------------------------------------------------------------------
(* The calls the loop still has to make: a bit that is posted, and one in  *)
(* the local snapshot whose turn has not come.  Between Wait and Clear the *)
(* bits of the snapshot are still posted and count once.                   *)

InSnapshot(e) ==
    /\ e \in events
    /\ \/ pc \in {"lock", "locked"} /\ e >= p
       \/ pc \in {"callback", "unlock"} /\ e > p

Pending(e) == (IF e \in zEvent THEN 1 ELSE 0) + (IF InSnapshot(e) THEN 1 ELSE 0)

Running == IF pc = "callback" THEN p ELSE NoEvent

Delivery == INSTANCE EventDelivery
    WITH pending <- [e \in Events |-> Pending(e)], running <- Running

(* The loop implements the delivery promised in blecon_event_loop.h: no    *)
(* call is dropped between the wait, the clear and the walk over the       *)
(* snapshot, none is invented, and callbacks do not overlap.               *)
ImplementsDelivery == Delivery!Spec

(* An event that was signalled and not called since is still posted or     *)
(* still ahead in the snapshot run() walks over.                           *)
NoSignalLost == \A e \in owed : Pending(e) > 0

(* Code under the lock is alone, and the mutex knows how often its owner   *)
(* took it: no bearer callback runs while the loop runs an event callback. *)
MutualExclusion ==
    /\ \A t \in Lockers : depth[t] > 0 => owner = t
    /\ pc \in {"locked", "callback", "unlock"} => owner = Main
    /\ lockCount = (IF owner = Nobody THEN 0 ELSE depth[owner])

(* A signalled event is called back by the main loop, or the loop was      *)
(* broken out of.                                                          *)
SignalsAnswered == \A e \in Events : e \in owed ~> (e \notin owed \/ pc = "stopped")

(* A break request makes a running loop return.                            *)
BreakReturns == (Break \in zEvent /\ pc # "stopped") ~> pc = "stopped"
==============================================================================
