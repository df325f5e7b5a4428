--------------------------- MODULE EventLoopProofs ---------------------------
(***************************************************************************)
(* Proofs about the Zephyr event loop: types, mutual exclusion, and that   *)
(* no signal is lost, first as an invariant and then as an implementation  *)
(* of EventDelivery, for any number of threads, events and nested locks;   *)
(* and about the timer that signals it.                                    *)
(***************************************************************************)
EXTENDS ZephyrTimer, TLAPS

(* The owner of the mutex holds it, and nobody else does. *)
OwnerInv ==
    /\ \A t \in Lockers : depth[t] > 0 => owner = t
    /\ owner # Nobody => depth[owner] > 0
    /\ lockCount = (IF owner = Nobody THEN 0 ELSE depth[owner])

(* Around a callback the loop owns the mutex. *)
LoopLockInv == pc \in {"locked", "callback", "unlock"} => owner = Main

(* What run() waits for, and what it took, are events that exist. *)
SnapshotInv ==
    /\ pc = "wait" => \A e \in mask : e = Break \/ e < eventsCount
    /\ pc \in {"clear", "lock", "locked", "callback", "unlock"} =>
           \A e \in events : e = Break \/ e < eventsCount
    /\ pc = "clear" => events \subseteq zEvent
    /\ pc \in {"locked", "callback", "unlock"} => p < eventsCount

IInv == TypeOK /\ OwnerInv /\ LoopLockInv /\ SnapshotInv /\ NoSignalLost

------------------------------------------------------------------------------

(* Taking the mutex keeps its bookkeeping. *)
LEMMA AcquireKeepsOwner ==
    ASSUME TypeOK, OwnerInv, NEW t \in Lockers, Acquire(t)
    PROVE  /\ owner' \in Lockers \union {Nobody}
           /\ lockCount' \in Nat
           /\ depth' \in [Lockers -> Nat]
           /\ OwnerInv'
           /\ owner' = t
BY ThreadAssumption DEF TypeOK, OwnerInv, Acquire, Lockers

(* Giving the mutex back keeps its bookkeeping; it stays with an owner who *)
(* took it more than once.                                                 *)
LEMMA ReleaseKeepsOwner ==
    ASSUME TypeOK, OwnerInv, NEW t \in Lockers, Release(t)
    PROVE  /\ owner' \in Lockers \union {Nobody}
           /\ lockCount' \in Nat
           /\ depth' \in [Lockers -> Nat]
           /\ OwnerInv'
           /\ owner = t
           /\ depth[t] > 1 => owner' = t
BY ThreadAssumption DEF TypeOK, OwnerInv, Release, Lockers

LEMMA InitIInv == Init => IInv
BY ThreadAssumption, BoundAssumption
   DEF Init, IInv, TypeOK, OwnerInv, LoopLockInv, SnapshotInv, NoSignalLost,
       Lockers, Events, Bits

LEMMA StepIInv == IInv /\ [Next]_vars => IInv'
<1> SUFFICES ASSUME IInv, [Next]_vars PROVE IInv'
  OBVIOUS
<1> USE ThreadAssumption, BoundAssumption
<1> USE DEF IInv, Lockers
<1>1. ASSUME NEW t \in Lockers, Lock(t) PROVE IInv'
  <2>1. /\ owner' \in Lockers \union {Nobody} /\ lockCount' \in Nat
        /\ depth' \in [Lockers -> Nat] /\ OwnerInv' /\ owner' = t
    BY <1>1, AcquireKeepsOwner DEF Lock
  <2>2. TypeOK' BY <1>1, <2>1 DEF Lock, TypeOK, local
  <2>3. LoopLockInv' BY <1>1, <2>1 DEF Lock, LoopLockInv, local, Acquire
  <2>4. SnapshotInv' /\ NoSignalLost'
    BY <1>1 DEF Lock, SnapshotInv, NoSignalLost, Pending, InSnapshot, local
  <2> QED BY <2>1, <2>2, <2>3, <2>4
<1>2. ASSUME NEW t \in Lockers, Unlock(t) PROVE IInv'
  <2>1. /\ owner' \in Lockers \union {Nobody} /\ lockCount' \in Nat
        /\ depth' \in [Lockers -> Nat] /\ OwnerInv' /\ owner = t
        /\ depth[t] > 1 => owner' = t
    BY <1>2, ReleaseKeepsOwner DEF Unlock
  <2>2. TypeOK' BY <1>2, <2>1 DEF Unlock, TypeOK, local
  <2>3. LoopLockInv' BY <1>2, <2>1 DEF Unlock, LoopLockInv, local, Release
  <2>4. SnapshotInv' /\ NoSignalLost'
    BY <1>2 DEF Unlock, SnapshotInv, NoSignalLost, Pending, InSnapshot, local
  <2> QED BY <2>1, <2>2, <2>3, <2>4
<1>3. ASSUME NEW e \in Events, Signal(e) PROVE IInv'
  BY <1>3 DEF Signal, TypeOK, OwnerInv, LoopLockInv, SnapshotInv, NoSignalLost,
     Pending, InSnapshot, mutex, local, Bits
<1>4. CASE BreakLoop
  BY <1>4 DEF BreakLoop, TypeOK, OwnerInv, LoopLockInv, SnapshotInv,
     NoSignalLost, Pending, InSnapshot, mutex, local, Bits
<1>5. CASE RegisterEvent
  <2>1. TypeOK' /\ OwnerInv' /\ LoopLockInv'
    BY <1>5 DEF RegisterEvent, TypeOK, OwnerInv, LoopLockInv, mutex, local
  <2>2. SnapshotInv'
    BY <1>5 DEF RegisterEvent, TypeOK, SnapshotInv, Bits, Events, Break, local
  <2>3. NoSignalLost'
    BY <1>5 DEF RegisterEvent, NoSignalLost, Pending, InSnapshot, local
  <2> QED BY <2>1, <2>2, <2>3
<1>6. CASE Run
  BY <1>6 DEF Run, TypeOK, OwnerInv, LoopLockInv, SnapshotInv, NoSignalLost,
     Pending, InSnapshot, mutex
<1>7. CASE ComputeMask
  BY <1>7 DEF ComputeMask, TypeOK, OwnerInv, LoopLockInv, SnapshotInv,
     NoSignalLost, Pending, InSnapshot, mutex, Bits, Events
<1>8. CASE Wait
  BY <1>8 DEF Wait, TypeOK, OwnerInv, LoopLockInv, SnapshotInv,
     NoSignalLost, Pending, InSnapshot, mutex
<1>9. CASE Clear
  <2>1. TypeOK' /\ OwnerInv' /\ LoopLockInv' /\ SnapshotInv'
    BY <1>9 DEF Clear, TypeOK, OwnerInv, LoopLockInv, SnapshotInv, mutex
  <2>2. NoSignalLost'
    BY <1>9 DEF Clear, TypeOK, NoSignalLost, Pending, InSnapshot, Events
  <2> QED BY <2>1, <2>2
<1>10. CASE LoopLock
  <2>1. /\ owner' \in Lockers \union {Nobody} /\ lockCount' \in Nat
        /\ depth' \in [Lockers -> Nat] /\ OwnerInv' /\ owner' = Main
    BY <1>10, AcquireKeepsOwner DEF LoopLock
  <2>2. TypeOK' /\ LoopLockInv' /\ SnapshotInv'
    BY <1>10, <2>1 DEF LoopLock, TypeOK, LoopLockInv, SnapshotInv
  <2>3. NoSignalLost'
    BY <1>10 DEF LoopLock, NoSignalLost, Pending, InSnapshot
  <2> QED BY <2>1, <2>2, <2>3
<1>11. CASE OnRaised
  <2>1. TypeOK' /\ OwnerInv' /\ LoopLockInv' /\ SnapshotInv'
    BY <1>11 DEF OnRaised, TypeOK, OwnerInv, LoopLockInv, SnapshotInv, mutex
  <2>2. NoSignalLost'
    BY <1>11 DEF OnRaised, TypeOK, NoSignalLost, Pending, InSnapshot, Events
  <2> QED BY <2>1, <2>2
<1>12. CASE NotRaised
  <2>1. TypeOK' /\ OwnerInv' /\ LoopLockInv' /\ SnapshotInv'
    BY <1>12 DEF NotRaised, TypeOK, OwnerInv, LoopLockInv, SnapshotInv, mutex
  <2>2. NoSignalLost'
    BY <1>12 DEF NotRaised, TypeOK, NoSignalLost, Pending, InSnapshot, Events
  <2> QED BY <2>1, <2>2
<1>13. CASE CallbackReturns
  BY <1>13 DEF CallbackReturns, TypeOK, OwnerInv, LoopLockInv, SnapshotInv,
     NoSignalLost, Pending, InSnapshot, mutex
<1>14. CASE LoopUnlock
  <2>1. /\ owner' \in Lockers \union {Nobody} /\ lockCount' \in Nat
        /\ depth' \in [Lockers -> Nat] /\ OwnerInv'
    BY <1>14, ReleaseKeepsOwner DEF LoopUnlock
  <2>2. TypeOK' /\ LoopLockInv' /\ SnapshotInv'
    BY <1>14, <2>1 DEF LoopUnlock, TypeOK, LoopLockInv, SnapshotInv
  <2>3. NoSignalLost'
    BY <1>14 DEF LoopUnlock, TypeOK, NoSignalLost, Pending, InSnapshot, Events
  <2> QED BY <2>1, <2>2, <2>3
<1>15. CASE LoopDone
  <2>1. TypeOK' /\ OwnerInv' /\ LoopLockInv' /\ SnapshotInv'
    BY <1>15 DEF LoopDone, TypeOK, OwnerInv, LoopLockInv, SnapshotInv, mutex
  <2>2. \A e \in owed : ~ InSnapshot(e)
    BY <1>15 DEF LoopDone, TypeOK, SnapshotInv, InSnapshot, Events, Break
  <2>3. NoSignalLost'
    BY <1>15, <2>2 DEF LoopDone, NoSignalLost, Pending, InSnapshot
  <2> QED BY <2>1, <2>3
<1>16. CASE CheckBreak
  BY <1>16 DEF CheckBreak, TypeOK, OwnerInv, LoopLockInv, SnapshotInv,
     NoSignalLost, Pending, InSnapshot, mutex
<1>17. CASE UNCHANGED vars
  BY <1>17 DEF vars, TypeOK, OwnerInv, LoopLockInv, SnapshotInv, NoSignalLost,
     Pending, InSnapshot, mutex, local
<1> QED
  BY <1>1, <1>2, <1>3, <1>4, <1>5, <1>6, <1>7, <1>8, <1>9, <1>10, <1>11,
     <1>12, <1>13, <1>14, <1>15, <1>16, <1>17 DEF Next, LoopStep

LEMMA Invariance == Spec => []IInv
BY InitIInv, StepIInv, PTL DEF Spec

------------------------------------------------------------------------------

(* The loop's state keeps its types whatever the threads do. *)
THEOREM TypeCorrect == Spec => []TypeOK
<1>1. IInv => TypeOK BY DEF IInv
<1> QED BY <1>1, Invariance, PTL

(* The mutex of the event loop excludes: bearer callbacks on Bluetooth     *)
(* threads and event callbacks on main never run at the same time, for any *)
(* number of threads and any nesting.                                      *)
THEOREM Exclusion == Spec => []MutualExclusion
<1>1. IInv => MutualExclusion
  BY DEF IInv, OwnerInv, LoopLockInv, MutualExclusion
<1> QED BY <1>1, Invariance, PTL

(* No signal given to a registered event is lost between the wait, the     *)
(* clear and the walk over the snapshot.                                   *)
THEOREM SignalsKept == Spec => []NoSignalLost
<1>1. IInv => NoSignalLost BY DEF IInv
<1> QED BY <1>1, Invariance, PTL

------------------------------------------------------------------------------
(* The refinement.  Pending is written as a function for the provers. *)

pendingBar == [e \in Events |-> Pending(e)]

LEMMA BreakIsNoEvent == Break \notin Events /\ NoEvent \notin Events
BY BoundAssumption DEF Break, NoEvent, Events

LEMMA InitDelivers == Init => Delivery!Init
BY DEF Init, Delivery!Init, Pending, InSnapshot, Running

LEMMA StepDelivers == IInv /\ IInv' /\ [Next]_vars => [Delivery!Next]_(Delivery!vars)
<1> SUFFICES ASSUME IInv, IInv', [Next]_vars
             PROVE  [Delivery!Next]_(Delivery!vars)
  OBVIOUS
<1> USE BoundAssumption DEF IInv
<1> DEFINE Stutters == owed' = owed /\ pendingBar' = pendingBar /\ Running' = Running
<1>1. ASSUME Stutters PROVE UNCHANGED Delivery!vars
  BY <1>1 DEF Delivery!vars, pendingBar
<1>2. ASSUME NEW t \in Lockers, Lock(t) \/ Unlock(t) PROVE Stutters
  BY <1>2 DEF Lock, Unlock, local, pendingBar, Pending, InSnapshot, Running
<1>3. ASSUME NEW e \in Events, Signal(e) PROVE Delivery!Signal(e)
  <2>1. owed' = owed \union {e} /\ Running' = Running
    BY <1>3 DEF Signal, local, Running
  <2>2. \A f \in Events : InSnapshot(f)' = InSnapshot(f)
    BY <1>3 DEF Signal, local, InSnapshot
  <2>3. CASE e \in zEvent
    <3>1. pendingBar' = pendingBar
      BY <1>3, <2>2, <2>3 DEF Signal, pendingBar, Pending
    <3>2. pendingBar[e] > 0
      BY <2>3 DEF pendingBar, Pending
    <3> QED BY <2>1, <3>1, <3>2 DEF Delivery!Signal, pendingBar
  <2>4. CASE e \notin zEvent
    <3>1. pendingBar' = [pendingBar EXCEPT ![e] = @ + 1]
      <4>1. \A f \in Events :
              Pending(f)' = IF f = e THEN Pending(f) + 1 ELSE Pending(f)
        BY <1>3, <2>2, <2>4 DEF Signal, Pending
      <4> QED BY <4>1 DEF pendingBar
    <3> QED BY <2>1, <3>1 DEF Delivery!Signal, pendingBar
  <2> QED BY <2>3, <2>4
<1>4. CASE BreakLoop
  <2>1. Stutters
    BY <1>4, BreakIsNoEvent
       DEF BreakLoop, local, pendingBar, Pending, InSnapshot, Running
  <2> QED BY <1>1, <2>1
<1>5. ASSUME RegisterEvent \/ Run \/ ComputeMask PROVE Stutters
  BY <1>5 DEF RegisterEvent, Run, ComputeMask, local, pendingBar, Pending,
     InSnapshot, Running
<1>6. ASSUME Wait PROVE Stutters
  BY <1>6 DEF Wait, pendingBar, Pending, InSnapshot, Running
<1>7. ASSUME Clear PROVE Stutters
  BY <1>7 DEF Clear, TypeOK, SnapshotInv, pendingBar, Pending, InSnapshot,
     Running, Events
<1>8. ASSUME LoopLock PROVE Stutters
  BY <1>8 DEF LoopLock, pendingBar, Pending, InSnapshot, Running
<1>9. ASSUME OnRaised PROVE Delivery!Raise(p)
  <2>1. p \in Events /\ Running = NoEvent /\ Running' = p /\ owed' = owed \ {p}
    BY <1>9 DEF OnRaised, TypeOK, SnapshotInv, Running, Events
  <2>2. pendingBar[p] > 0
    BY <1>9, <2>1 DEF OnRaised, TypeOK, pendingBar, Pending, InSnapshot, Events
  <2>3. \A f \in Events : InSnapshot(f)' <=> (InSnapshot(f) /\ f # p)
    BY <1>9, <2>1 DEF OnRaised, InSnapshot, Events
  <2>4. InSnapshot(p) BY <1>9, <2>1 DEF OnRaised, InSnapshot, Events
  <2>5. pendingBar' = [pendingBar EXCEPT ![p] = @ - 1]
    <3>1. \A f \in Events :
            Pending(f)' = IF f = p THEN Pending(f) - 1 ELSE Pending(f)
      BY <1>9, <2>3, <2>4 DEF OnRaised, Pending
    <3> QED BY <3>1 DEF pendingBar
  <2> QED BY <2>1, <2>2, <2>5 DEF Delivery!Raise, pendingBar
<1>10. ASSUME NotRaised PROVE Stutters
  BY <1>10 DEF NotRaised, TypeOK, pendingBar, Pending, InSnapshot, Running, Events
<1>11. ASSUME CallbackReturns PROVE Delivery!Return
  <2>1. Running # NoEvent /\ Running' = NoEvent /\ owed' = owed
    BY <1>11 DEF CallbackReturns, TypeOK, Running, NoEvent
  <2>2. pendingBar' = pendingBar
    BY <1>11 DEF CallbackReturns, pendingBar, Pending, InSnapshot
  <2> QED BY <2>1, <2>2 DEF Delivery!Return, pendingBar
<1>12. ASSUME LoopUnlock PROVE Stutters
  BY <1>12 DEF LoopUnlock, TypeOK, pendingBar, Pending, InSnapshot, Running, Events
<1>13. ASSUME LoopDone PROVE Stutters
  BY <1>13 DEF LoopDone, TypeOK, SnapshotInv, pendingBar, Pending, InSnapshot,
     Running, Events, Break
<1>14. ASSUME CheckBreak PROVE Stutters
  BY <1>14 DEF CheckBreak, pendingBar, Pending, InSnapshot, Running
<1>15. CASE UNCHANGED vars
  <2>1. Stutters
    BY <1>15 DEF vars, local, pendingBar, Pending, InSnapshot, Running
  <2> QED BY <1>1, <2>1
<1>16. CASE OnRaised
  BY <1>9, <1>16 DEF Delivery!Next, OnRaised, TypeOK, SnapshotInv, Events
<1> QED
  BY <1>1, <1>2, <1>3, <1>4, <1>5, <1>6, <1>7, <1>8, <1>10, <1>11, <1>12,
     <1>13, <1>14, <1>15, <1>16 DEF Next, LoopStep, Delivery!Next

(* The Zephyr event loop delivers events as blecon_event_loop.h promises:  *)
(* every one of its behaviours is one of EventDelivery.                    *)
THEOREM Delivers == Spec => ImplementsDelivery
<1>1. Spec => Delivery!Init /\ [][Delivery!Next]_(Delivery!vars)
  BY InitDelivers, StepDelivers, Invariance, PTL DEF Spec
<1> QED BY <1>1 DEF ImplementsDelivery, Delivery!Spec

------------------------------------------------------------------------------
(* The timer is one more user of the loop, so what is proved of the loop   *)
(* holds of it, and from that no expiry is lost.                           *)

(* Beside the loop's invariant: an unanswered expiry is an owed signal. *)
ExpiryOwed == expired => TimerEvent \in owed

LEMMA TimerEventIsEvent == TimerEvent \in Events
BY BoundAssumption DEF TimerEvent, Events

(* A step of the timer is a step of the loop, or none. *)
LEMMA StepIsLoopStep == [TimerNext]_timerVars => [Next]_vars
<1> SUFFICES ASSUME [TimerNext]_timerVars PROVE [Next]_vars
  OBVIOUS
<1>1. CASE LoopNext BY <1>1 DEF LoopNext
<1>2. CASE \E t \in Lockers : SetTimeout(t) \/ CancelTimeout(t)
  BY <1>2 DEF SetTimeout, CancelTimeout
<1>3. CASE OnTimeout
  BY <1>3, TimerEventIsEvent DEF OnTimeout, Next
<1>4. CASE UNCHANGED timerVars
  BY <1>4 DEF timerVars
<1> QED BY <1>1, <1>2, <1>3, <1>4 DEF TimerNext

LEMMA ImplementsLoop == TimerSpec => Spec
<1>1. TimerInit => Init BY DEF TimerInit
<1> QED BY <1>1, StepIsLoopStep, PTL DEF TimerSpec, Spec

(* Only the start of a callback takes an event out of owed. *)
LEMMA OwedUntilRaised ==
    ASSUME Next, NEW e \in owed, e \notin owed'
    PROVE  OnRaised /\ p = e
BY DEF Next, LoopStep, Lock, Unlock, Signal, BreakLoop, RegisterEvent, Run,
       ComputeMask, Wait, Clear, LoopLock, OnRaised, NotRaised,
       CallbackReturns, LoopUnlock, LoopDone, CheckBreak

LEMMA StepExpiryOwed == ExpiryOwed /\ [TimerNext]_timerVars => ExpiryOwed'
<1> SUFFICES ASSUME ExpiryOwed, [TimerNext]_timerVars, expired'
             PROVE  TimerEvent \in owed'
  BY DEF ExpiryOwed
<1>1. CASE LoopNext
  <2>1. TimerEvent \in owed /\ ~ (OnRaised /\ p = TimerEvent)
    BY <1>1 DEF LoopNext, ExpiryOwed
  <2> QED BY <1>1, <2>1, OwedUntilRaised DEF LoopNext
<1>2. CASE \E t \in Lockers : SetTimeout(t) \/ CancelTimeout(t)
  BY <1>2 DEF SetTimeout, CancelTimeout, ExpiryOwed, vars
<1>3. CASE OnTimeout
  BY <1>3 DEF OnTimeout, Signal
<1>4. CASE UNCHANGED timerVars
  BY <1>4 DEF timerVars, vars, ExpiryOwed
<1> QED BY <1>1, <1>2, <1>3, <1>4 DEF TimerNext

------------------------------------------------------------------------------

(* An expiry of the k_timer that no callback has answered is posted or     *)
(* ahead in run()'s snapshot, wherever the interrupt found the loop and    *)
(* however many threads hold or wait for its lock.                         *)
THEOREM ExpiryKept == TimerSpec => []ExpiryPending
<1>1. TimerInit => ExpiryOwed BY DEF TimerInit, ExpiryOwed
<1>2. TimerSpec => []ExpiryOwed
  BY <1>1, StepExpiryOwed, PTL DEF TimerSpec
<1>3. TimerSpec => []NoSignalLost
  BY ImplementsLoop, SignalsKept, PTL
<1>4. ExpiryOwed /\ NoSignalLost => ExpiryPending
  BY DEF ExpiryOwed, NoSignalLost, ExpiryPending
<1> QED BY <1>2, <1>3, <1>4, PTL
==============================================================================
