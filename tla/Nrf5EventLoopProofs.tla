--------------------------- MODULE Nrf5EventLoopProofs ---------------------------
(***************************************************************************)
(* The nRF5 event loop delivers as blecon_event_loop.h promises, but for   *)
(* the signals dropped at a full queue: a refinement of EventDelivery, for *)
(* any number of events and a scheduler's queue of any size.  And proofs   *)
(* about the timer.                                                        *)
(***************************************************************************)
EXTENDS Nrf5Timer, FiniteSetTheorems, FunctionTheorems, TLAPS

Entries == 0 .. SoftDevice

(* The places of an entry in a queue.                                      *)
Places(q, e) == {i \in 1 .. Len(q) : q[i] = e}

(* The entry that runs is still the queue's first.                         *)
HeadInv == running # NoEvent => queue # <<>> /\ queue[1] = running

(* What is owed a call and was not dropped has an entry waiting.           *)
OwedInv == \A e \in owed \ dropped : Pending(e) > 0

IInv == TypeOK /\ HeadInv /\ OwedInv

------------------------------------------------------------------------------
(* Entries of a queue, counted. *)

LEMMA PlacesCounted ==
    \A q \in Seq(Entries) : \A e \in Entries :
        IsFiniteSet(Places(q, e)) /\ Cardinality(Places(q, e)) \in Nat
<1> TAKE q \in Seq(Entries)
<1> TAKE e \in Entries
<1>1. IsFiniteSet(1 .. Len(q)) BY FS_Interval
<1>2. Places(q, e) \in SUBSET (1 .. Len(q)) BY DEF Places
<1> QED BY <1>1, <1>2, FS_Subset, FS_CardinalityType

(* An entry put at the end is one more. *)
LEMMA AppendCounts ==
    \A q \in Seq(Entries) : \A x, e \in Entries :
        Cardinality(Places(Append(q, x), e))
            = IF x = e THEN Cardinality(Places(q, e)) + 1 ELSE Cardinality(Places(q, e))
<1> TAKE q \in Seq(Entries)
<1> TAKE x, e \in Entries
<1> DEFINE n == Len(q) + 1
<1>1. /\ Len(q) \in Nat /\ Len(Append(q, x)) = n /\ Append(q, x)[n] = x
      /\ \A i \in 1 .. Len(q) : Append(q, x)[i] = q[i]
  OBVIOUS
<1>2. IsFiniteSet(Places(q, e)) BY PlacesCounted
<1>3. CASE x = e
  <2>1. Places(Append(q, x), e) = Places(q, e) \union {n} /\ n \notin Places(q, e)
    BY <1>1, <1>3 DEF Places
  <2> QED BY <1>2, <1>3, <2>1, FS_AddElement
<1>4. CASE x # e
  <2>1. Places(Append(q, x), e) = Places(q, e)
    BY <1>1, <1>4 DEF Places
  <2> QED BY <1>4, <2>1
<1> QED BY <1>3, <1>4

(* The first entry taken away is one less. *)
LEMMA TailCounts ==
    \A q \in Seq(Entries) : \A e \in Entries : q # <<>> =>
        Cardinality(Places(Tail(q), e))
            = IF q[1] = e THEN Cardinality(Places(q, e)) - 1 ELSE Cardinality(Places(q, e))
<1> TAKE q \in Seq(Entries)
<1> TAKE e \in Entries
<1> HAVE q # <<>>
<1> DEFINE rest == Places(q, e) \ {1}
<1> DEFINE shift == [i \in Places(Tail(q), e) |-> i + 1]
<1>1. /\ Len(q) \in Nat \ {0} /\ Len(Tail(q)) = Len(q) - 1
      /\ \A i \in 1 .. Len(q) - 1 : Tail(q)[i] = q[i + 1]
      /\ Tail(q) \in Seq(Entries)
  OBVIOUS
<1>2. IsFiniteSet(Places(q, e)) /\ IsFiniteSet(Places(Tail(q), e))
  BY <1>1, PlacesCounted
<1>3. shift \in Bijection(Places(Tail(q), e), rest)
  <2>1. shift \in [Places(Tail(q), e) -> rest]
    <3>1. \A i \in Places(Tail(q), e) : i + 1 \in rest
      BY <1>1 DEF Places
    <3> QED BY <3>1
  <2>2. \A i, j \in Places(Tail(q), e) : shift[i] = shift[j] => i = j
    BY DEF Places
  <2>3. \A t \in rest : \E i \in Places(Tail(q), e) : shift[i] = t
    <3>1. \A t \in rest : t - 1 \in Places(Tail(q), e) /\ (t - 1) + 1 = t
      BY <1>1 DEF Places
    <3> QED BY <3>1
  <2> QED BY <2>1, <2>2, <2>3, Fun_IsBij
<1>4. Cardinality(rest) = Cardinality(Places(Tail(q), e))
  BY <1>2, <1>3, FS_Bijection, Fun_ExistsBij
<1>5. Cardinality(rest)
        = IF 1 \in Places(q, e) THEN Cardinality(Places(q, e)) - 1 ELSE Cardinality(Places(q, e))
  BY <1>2, FS_RemoveElement
<1>6. 1 \in Places(q, e) <=> q[1] = e BY <1>1 DEF Places
<1> QED BY <1>4, <1>5, <1>6

------------------------------------------------------------------------------

LEMMA EventsAreEntries ==
    /\ Events \subseteq Entries /\ SoftDevice \in Entries
    /\ SoftDevice \notin Events /\ NoEvent \notin Entries
    /\ Entries = Events \union {SoftDevice}
BY SizeAssumption DEF Events, Entries, SoftDevice, NoEvent

(* An event's calls to come: its entries, but for the one that runs.       *)
LEMMA PendingIs ==
    ASSUME TypeOK, HeadInv, NEW e \in Events
    PROVE  /\ Pending(e) = Cardinality(Places(queue, e)) - (IF running = e THEN 1 ELSE 0)
           /\ Pending(e) \in Nat
<1>1. queue \in Seq(Entries) /\ e \in Entries
  BY EventsAreEntries DEF TypeOK, Entries
<1>2. IsFiniteSet(Places(queue, e)) /\ Cardinality(Places(queue, e)) \in Nat
  BY <1>1, PlacesCounted
<1>3. Pending(e) = Cardinality(Places(queue, e)) - (IF running = e THEN 1 ELSE 0)
  BY DEF Pending, Places
<1>4. running = e => Cardinality(Places(queue, e)) > 0
  <2> SUFFICES ASSUME running = e PROVE Cardinality(Places(queue, e)) > 0
    OBVIOUS
  <2>1. e # NoEvent BY EventsAreEntries
  <2>2. queue # <<>> /\ queue[1] = e BY <2>1 DEF HeadInv
  <2>3. Len(queue) \in Nat \ {0} BY <1>1, <2>2
  <2>4. 1 \in Places(queue, e) BY <2>2, <2>3 DEF Places
  <2> QED BY <1>2, <2>4, FS_EmptySet
<1> QED BY <1>2, <1>3, <1>4

------------------------------------------------------------------------------
(* The inductive invariant, with what each step does to the calls to come. *)

LEMMA InitIInv == Init => IInv
<1> SUFFICES ASSUME Init PROVE IInv
  OBVIOUS
<1>1. <<>> \in Seq(0 .. SoftDevice) /\ Len(<<>>) = 0 OBVIOUS
<1>2. TypeOK
  <2>1. 0 \in 0 .. MaxEvents /\ NoEvent \in 0 .. NoEvent /\ 0 <= QueueSize
    BY SizeAssumption DEF NoEvent
  <2>2. queue \in Seq(0 .. SoftDevice) /\ Len(queue) <= QueueSize
    BY <1>1, <2>1 DEF Init
  <2>3. owed \subseteq Events /\ dropped \subseteq Events /\ failed \in BOOLEAN
    BY DEF Init
  <2> QED BY <2>1, <2>2, <2>3 DEF Init, TypeOK
<1>3. HeadInv /\ OwedInv BY DEF Init, HeadInv, OwedInv
<1> QED BY <1>2, <1>3 DEF IInv

LEMMA StepTypes == TypeOK /\ HeadInv /\ [Next]_vars => TypeOK' /\ HeadInv'
<1> SUFFICES ASSUME TypeOK, HeadInv, [Next]_vars PROVE TypeOK' /\ HeadInv'
  OBVIOUS
<1> USE SizeAssumption, EventsAreEntries
<1>0. /\ queue \in Seq(Entries) /\ Len(queue) \in Nat
      /\ SoftDevice \in Nat /\ NoEvent = SoftDevice + 1 /\ QueueSize \in Nat
  BY DEF TypeOK, Entries, SoftDevice, NoEvent
<1>1. ASSUME NEW x \in Entries, Len(queue) < QueueSize, queue' = Append(queue, x),
             UNCHANGED running
      PROVE  queue' \in Seq(Entries) /\ Len(queue') <= QueueSize /\ HeadInv'
  <2>1. queue' \in Seq(Entries) /\ Len(queue') = Len(queue) + 1 BY <1>0, <1>1
  <2>2. running # NoEvent => queue' # <<>> /\ queue'[1] = running
    BY <1>0, <1>1, <2>1 DEF HeadInv
  <2> QED BY <1>0, <1>1, <2>1, <2>2 DEF HeadInv
<1>2. CASE RegisterEvent
  BY <1>2 DEF RegisterEvent, TypeOK, HeadInv
<1>3. ASSUME NEW e \in Events, Signal(e) PROVE TypeOK' /\ HeadInv'
  <2>1. owed' \subseteq Events /\ dropped' \subseteq Events
    BY <1>3 DEF Signal, TypeOK
  <2>2. CASE Len(queue) < QueueSize
    <3>1. queue' = Append(queue, e) /\ UNCHANGED <<eventCount, running, failed>>
      BY <1>3, <2>2 DEF Signal
    <3>2. queue' \in Seq(Entries) /\ Len(queue') <= QueueSize /\ HeadInv'
      BY <1>1, <2>2, <3>1
    <3> QED BY <2>1, <3>1, <3>2 DEF TypeOK, Entries
  <2>3. CASE ~ (Len(queue) < QueueSize)
    <3>1. UNCHANGED <<eventCount, queue, running, failed>>
      BY <1>3, <2>3 DEF Signal
    <3> QED BY <2>1, <3>1 DEF TypeOK, HeadInv
  <2> QED BY <2>2, <2>3
<1>4. CASE SoftDeviceInterrupt
  <2>1. CASE Len(queue) < QueueSize
    <3>1. queue' = Append(queue, SoftDevice)
          /\ UNCHANGED <<eventCount, running, failed, owed, dropped>>
      BY <1>4, <2>1 DEF SoftDeviceInterrupt
    <3>2. queue' \in Seq(Entries) /\ Len(queue') <= QueueSize /\ HeadInv'
      BY <1>1, <2>1, <3>1
    <3> QED BY <3>1, <3>2 DEF TypeOK, Entries
  <2>2. CASE ~ (Len(queue) < QueueSize)
    BY <1>4, <2>2 DEF SoftDeviceInterrupt, TypeOK, HeadInv
  <2> QED BY <2>1, <2>2
<1>5. CASE RunEntry
  <2>1. Head(queue) = queue[1] /\ queue[1] \in Entries /\ queue # <<>>
    BY <1>0, <1>5 DEF RunEntry
  <2>2. running' = queue[1] /\ UNCHANGED <<eventCount, queue, failed>>
        /\ owed' \subseteq Events /\ dropped' \subseteq Events
    BY <1>5, <2>1 DEF RunEntry, TypeOK
  <2> QED BY <1>0, <2>1, <2>2 DEF TypeOK, HeadInv, Entries
<1>6. CASE Return
  <2>1. queue # <<>> BY <1>6 DEF Return, HeadInv
  <2>2. /\ running' = NoEvent /\ queue' = Tail(queue)
        /\ UNCHANGED <<eventCount, failed, owed, dropped>>
    BY <1>6 DEF Return
  <2>3. queue' \in Seq(Entries) /\ Len(queue') = Len(queue) - 1
    BY <1>0, <2>1, <2>2
  <2> QED BY <1>0, <2>2, <2>3 DEF TypeOK, HeadInv, Entries
<1>7. CASE UNCHANGED vars
  BY <1>7 DEF vars, TypeOK, HeadInv
<1> QED BY <1>2, <1>3, <1>4, <1>5, <1>6, <1>7 DEF Next, LoopStep

(* A queue that stays, or grows by one entry, under a running entry that   *)
(* stays.                                                                  *)
LEMMA SamePending ==
    ASSUME UNCHANGED <<queue, running>>, NEW f \in Events
    PROVE  Pending(f)' = Pending(f)
BY DEF Pending

LEMMA PutPending ==
    ASSUME TypeOK, HeadInv, NEW x \in Entries, queue' = Append(queue, x),
           UNCHANGED running, NEW f \in Events
    PROVE  Pending(f)' = IF x = f THEN Pending(f) + 1 ELSE Pending(f)
<1>1. queue \in Seq(Entries) /\ f \in Entries
  BY EventsAreEntries DEF TypeOK, Entries
<1>2. Cardinality(Places(queue', f))
        = IF x = f THEN Cardinality(Places(queue, f)) + 1 ELSE Cardinality(Places(queue, f))
  BY <1>1, AppendCounts
<1>3. Pending(f)' = Cardinality(Places(queue', f)) - (IF running' = f THEN 1 ELSE 0)
  BY DEF Pending, Places
<1>4. Cardinality(Places(queue, f)) \in Nat BY <1>1, PlacesCounted
<1> QED BY <1>2, <1>3, <1>4, PendingIs

LEMMA RunPending ==
    ASSUME TypeOK, HeadInv, RunEntry, NEW f \in Events
    PROVE  /\ queue # <<>> /\ queue[1] \in Entries /\ running' = queue[1]
           /\ owed' = owed \ {queue[1]} /\ dropped' = dropped \ {queue[1]}
           /\ Pending(f)' = IF queue[1] = f THEN Pending(f) - 1 ELSE Pending(f)
           /\ queue[1] = f => Pending(f) > 0
<1>1. queue \in Seq(Entries) /\ f \in Entries /\ queue # <<>>
  BY EventsAreEntries DEF TypeOK, Entries, RunEntry
<1>2. Head(queue) = queue[1] /\ queue[1] \in Entries /\ Len(queue) \in Nat \ {0}
  BY <1>1
<1>3. /\ running = NoEvent /\ running' = queue[1] /\ queue' = queue
      /\ owed' = owed \ {queue[1]} /\ dropped' = dropped \ {queue[1]}
  BY <1>2 DEF RunEntry
<1>4. Pending(f)' = Cardinality(Places(queue, f)) - (IF queue[1] = f THEN 1 ELSE 0)
  BY <1>3 DEF Pending, Places
<1>5. Cardinality(Places(queue, f)) \in Nat /\ IsFiniteSet(Places(queue, f))
  BY <1>1, PlacesCounted
<1>6. running # f BY <1>3, EventsAreEntries
<1>7. queue[1] = f => 1 \in Places(queue, f) BY <1>2 DEF Places
<1>8. queue[1] = f => Cardinality(Places(queue, f)) > 0 BY <1>5, <1>7, FS_EmptySet
<1>9. Pending(f) = Cardinality(Places(queue, f)) BY <1>5, <1>6, PendingIs
<1> QED BY <1>1, <1>2, <1>3, <1>4, <1>5, <1>8, <1>9

LEMMA ReturnPending ==
    ASSUME TypeOK, HeadInv, Return, NEW f \in Events
    PROVE  Pending(f)' = Pending(f)
<1>1. /\ queue \in Seq(Entries) /\ f \in Entries /\ queue # <<>> /\ queue[1] = running
      /\ queue' = Tail(queue) /\ running' = NoEvent
  BY EventsAreEntries DEF TypeOK, Entries, Return, HeadInv
<1>2. Cardinality(Places(queue', f))
        = IF running = f THEN Cardinality(Places(queue, f)) - 1
          ELSE Cardinality(Places(queue, f))
  BY <1>1, TailCounts
<1>3. NoEvent # f BY EventsAreEntries
<1>4. Pending(f)' = Cardinality(Places(queue', f)) - (IF running' = f THEN 1 ELSE 0)
  BY DEF Pending, Places
<1>5. Cardinality(Places(queue, f)) \in Nat BY <1>1, PlacesCounted
<1> QED BY <1>1, <1>2, <1>3, <1>4, <1>5, PendingIs

LEMMA StepIInv == IInv /\ [Next]_vars => IInv'
<1> SUFFICES ASSUME IInv, [Next]_vars PROVE IInv'
  OBVIOUS
<1>0. TypeOK /\ HeadInv /\ OwedInv BY DEF IInv
<1>1. TypeOK' /\ HeadInv' BY <1>0, StepTypes
<1>2. \A f \in Events : Pending(f) \in Nat BY <1>0, PendingIs
<1>3. owed \subseteq Events BY <1>0 DEF TypeOK
<1>4. CASE RegisterEvent
  <2>1. UNCHANGED <<queue, running, owed, dropped>> BY <1>4 DEF RegisterEvent
  <2>2. \A f \in Events : Pending(f)' = Pending(f) BY <2>1, SamePending
  <2> QED BY <1>0, <1>1, <1>3, <2>1, <2>2 DEF IInv, OwedInv
<1>5. ASSUME NEW e \in Events, Signal(e) PROVE IInv'
  <2>1. CASE Len(queue) < QueueSize
    <3>1. /\ queue' = Append(queue, e) /\ UNCHANGED running
          /\ owed' = owed \union {e} /\ dropped' = dropped \ {e}
      BY <1>5, <2>1 DEF Signal
    <3>2. e \in Entries BY EventsAreEntries
    <3>3. \A f \in Events : Pending(f)' = IF e = f THEN Pending(f) + 1 ELSE Pending(f)
      BY <1>0, <3>1, <3>2, PutPending
    <3> QED BY <1>0, <1>1, <1>2, <1>3, <3>1, <3>3 DEF IInv, OwedInv
  <2>2. CASE ~ (Len(queue) < QueueSize)
    <3>1. /\ UNCHANGED <<queue, running>> /\ owed' = owed \union {e}
          /\ dropped' = IF Pending(e) = 0 THEN dropped \union {e} ELSE dropped
      BY <1>5, <2>2 DEF Signal
    <3>2. \A f \in Events : Pending(f)' = Pending(f) BY <3>1, SamePending
    <3> QED BY <1>0, <1>1, <1>2, <1>3, <3>1, <3>2 DEF IInv, OwedInv
  <2> QED BY <2>1, <2>2
<1>6. CASE SoftDeviceInterrupt
  <2>1. UNCHANGED <<running, owed, dropped>>
        /\ (queue' = Append(queue, SoftDevice) \/ UNCHANGED queue)
    BY <1>6 DEF SoftDeviceInterrupt
  <2>2. \A f \in Events : Pending(f)' = Pending(f)
    <3>1. CASE queue' = Append(queue, SoftDevice)
      BY <1>0, <2>1, <3>1, PutPending, EventsAreEntries
    <3>2. CASE UNCHANGED queue
      BY <2>1, <3>2, SamePending
    <3> QED BY <2>1, <3>1, <3>2
  <2> QED BY <1>0, <1>1, <1>3, <2>1, <2>2 DEF IInv, OwedInv
<1>7. CASE RunEntry
  <2>1. \A f \in Events :
          /\ owed' = owed \ {queue[1]} /\ dropped' = dropped \ {queue[1]}
          /\ Pending(f)' = IF queue[1] = f THEN Pending(f) - 1 ELSE Pending(f)
    BY <1>0, <1>7, RunPending
  <2> QED BY <1>0, <1>1, <1>3, <2>1 DEF IInv, OwedInv, TypeOK
<1>8. CASE Return
  <2>1. UNCHANGED <<owed, dropped>> BY <1>8 DEF Return
  <2>2. \A f \in Events : Pending(f)' = Pending(f) BY <1>0, <1>8, ReturnPending
  <2> QED BY <1>0, <1>1, <1>3, <2>1, <2>2 DEF IInv, OwedInv
<1>9. CASE UNCHANGED vars
  <2>1. UNCHANGED <<queue, running, owed, dropped>> BY <1>9 DEF vars
  <2>2. \A f \in Events : Pending(f)' = Pending(f) BY <2>1, SamePending
  <2> QED BY <1>0, <1>1, <1>3, <2>1, <2>2 DEF IInv, OwedInv
<1> QED BY <1>4, <1>5, <1>6, <1>7, <1>8, <1>9 DEF Next, LoopStep

(* The inductive invariant holds of every behaviour.                       *)
LEMMA Inductive == Spec => []IInv
BY InitIInv, StepIInv, PTL DEF Spec

------------------------------------------------------------------------------
(* Every step is one of EventDelivery, or a stutter. *)

owedBar == owed \ dropped
pendingBar == [e \in Events |-> Pending(e)]
runningBar == IF running = SoftDevice THEN NoEvent ELSE running

LEMMA InitDelivers == Init => Lossy!Init
<1> SUFFICES ASSUME Init PROVE Lossy!Init
  OBVIOUS
<1>1. \A e \in Events : Pending(e) = 0
  <2> TAKE e \in Events
  <2>1. queue = <<>> /\ running = NoEvent BY DEF Init
  <2>2. {i \in 1 .. Len(queue) : queue[i] = e} = {} BY <2>1
  <2>3. e # NoEvent BY EventsAreEntries
  <2> QED BY <2>1, <2>2, <2>3, FS_EmptySet DEF Pending
<1>2. (IF running = SoftDevice THEN NoEvent ELSE running) = NoEvent /\ owed \ dropped = {}
  BY DEF Init
<1> QED BY <1>1, <1>2 DEF Lossy!Init

LEMMA StepDelivers == IInv /\ [Next]_vars => [Lossy!Next]_(Lossy!vars)
<1> SUFFICES ASSUME IInv, [Next]_vars PROVE [Lossy!Next]_(Lossy!vars)
  OBVIOUS
<1> DEFINE Stutters == owedBar' = owedBar /\ pendingBar' = pendingBar
                       /\ runningBar' = runningBar
<1>0. TypeOK /\ HeadInv /\ OwedInv BY DEF IInv
<1>1. ASSUME Stutters PROVE UNCHANGED Lossy!vars
  BY <1>1 DEF Lossy!vars, owedBar, pendingBar, runningBar
<1>2. \A f \in Events : Pending(f) \in Nat BY <1>0, PendingIs
<1>3. owed \subseteq Events /\ dropped \subseteq Events BY <1>0 DEF TypeOK
<1>4. CASE RegisterEvent
  <2>1. UNCHANGED <<queue, running, owed, dropped>> BY <1>4 DEF RegisterEvent
  <2> QED BY <1>1, <2>1, SamePending DEF owedBar, pendingBar, runningBar
<1>5. ASSUME NEW e \in Events, Signal(e) PROVE Lossy!Signal(e) \/ Stutters
  <2>1. CASE Len(queue) < QueueSize
    <3>1. /\ queue' = Append(queue, e) /\ UNCHANGED running
          /\ owed' = owed \union {e} /\ dropped' = dropped \ {e}
      BY <1>5, <2>1 DEF Signal
    <3>2. e \in Entries BY EventsAreEntries
    <3>3. \A f \in Events : Pending(f)' = IF e = f THEN Pending(f) + 1 ELSE Pending(f)
      BY <1>0, <3>1, <3>2, PutPending
    <3>4. pendingBar' = [pendingBar EXCEPT ![e] = @ + 1]
      BY <3>3 DEF pendingBar
    <3>5. owedBar' = owedBar \union {e} BY <3>1 DEF owedBar
    <3> QED BY <3>1, <3>4, <3>5 DEF Lossy!Signal, owedBar, pendingBar
  <2>2. CASE ~ (Len(queue) < QueueSize)
    <3>1. /\ UNCHANGED <<queue, running>> /\ owed' = owed \union {e}
          /\ dropped' = IF Pending(e) = 0 THEN dropped \union {e} ELSE dropped
      BY <1>5, <2>2 DEF Signal
    <3>2. pendingBar' = pendingBar /\ runningBar' = runningBar
      BY <3>1, SamePending DEF pendingBar, runningBar
    <3>3. CASE Pending(e) = 0 \/ e \in dropped
      <4>1. e \notin owedBar
        BY <1>0, <1>2, <3>3 DEF OwedInv, owedBar
      <4>2. owedBar' = owedBar BY <3>1, <3>3, <4>1 DEF owedBar
      <4> QED BY <3>2, <4>2
    <3>4. CASE Pending(e) # 0 /\ e \notin dropped
      <4>1. Pending(e) > 0 BY <1>2, <3>4
      <4>2. owedBar' = owedBar \union {e} BY <3>1, <3>4 DEF owedBar
      <4> QED BY <3>1, <3>2, <4>1, <4>2 DEF Lossy!Signal, owedBar, pendingBar
    <3> QED BY <3>3, <3>4
  <2> QED BY <2>1, <2>2
<1>6. CASE SoftDeviceInterrupt
  <2>1. UNCHANGED <<running, owed, dropped>>
        /\ (queue' = Append(queue, SoftDevice) \/ UNCHANGED queue)
    BY <1>6 DEF SoftDeviceInterrupt
  <2>2. \A f \in Events : Pending(f)' = Pending(f)
    <3>1. CASE queue' = Append(queue, SoftDevice)
      BY <1>0, <2>1, <3>1, PutPending, EventsAreEntries
    <3>2. CASE UNCHANGED queue
      BY <2>1, <3>2, SamePending
    <3> QED BY <2>1, <3>1, <3>2
  <2> QED BY <1>1, <2>1, <2>2 DEF owedBar, pendingBar, runningBar
<1>7. CASE RunEntry
  <2>1. ASSUME NEW f \in Events
        PROVE  /\ queue[1] \in Entries /\ running' = queue[1]
               /\ owed' = owed \ {queue[1]} /\ dropped' = dropped \ {queue[1]}
               /\ Pending(f)' = IF queue[1] = f THEN Pending(f) - 1 ELSE Pending(f)
               /\ queue[1] = f => Pending(f) > 0
    BY <1>0, <1>7, RunPending
  <2>2. running = NoEvent BY <1>7 DEF RunEntry
  <2>3. 0 \in Events /\ NoEvent # SoftDevice
    BY SizeAssumption DEF Events, NoEvent, SoftDevice
  <2>4. /\ queue[1] \in Entries /\ running' = queue[1]
        /\ owed' = owed \ {queue[1]} /\ dropped' = dropped \ {queue[1]}
    BY <2>1, <2>3
  <2>5. owedBar' = owedBar \ {queue[1]} BY <2>4 DEF owedBar
  <2>6. CASE queue[1] = SoftDevice
    <3>1. owedBar' = owedBar
      BY <1>3, <2>5, <2>6, EventsAreEntries DEF owedBar
    <3>2. pendingBar' = pendingBar
      BY <2>1, <2>6, EventsAreEntries DEF pendingBar
    <3>3. runningBar' = runningBar BY <2>2, <2>3, <2>4, <2>6 DEF runningBar
    <3> QED BY <1>1, <3>1, <3>2, <3>3
  <2>7. CASE queue[1] # SoftDevice
    <3>1. queue[1] \in Events BY <2>4, <2>7, EventsAreEntries
    <3>2. pendingBar' = [pendingBar EXCEPT ![queue[1]] = @ - 1]
      BY <2>1 DEF pendingBar
    <3>3. pendingBar[queue[1]] > 0 BY <2>1, <3>1 DEF pendingBar
    <3>4. runningBar = NoEvent /\ runningBar' = queue[1]
      BY <2>2, <2>3, <2>4, <2>7 DEF runningBar
    <3>5. Lossy!Raise(queue[1])
      BY <2>5, <3>2, <3>3, <3>4 DEF Lossy!Raise, owedBar, pendingBar, runningBar
    <3> QED BY <3>1, <3>5 DEF Lossy!Next
  <2> QED BY <2>6, <2>7
<1>8. CASE Return
  <2>1. UNCHANGED <<owed, dropped>> /\ running # NoEvent /\ running' = NoEvent
    BY <1>8 DEF Return
  <2>2. owedBar' = owedBar /\ pendingBar' = pendingBar
    BY <1>0, <1>8, <2>1, ReturnPending DEF owedBar, pendingBar
  <2>3. runningBar' = NoEvent BY <2>1 DEF runningBar
  <2>4. CASE running = SoftDevice
    <3>1. runningBar = NoEvent BY <2>4 DEF runningBar
    <3> QED BY <1>1, <2>2, <2>3, <3>1
  <2>5. CASE running # SoftDevice
    <3>1. runningBar # NoEvent BY <2>1, <2>5 DEF runningBar
    <3>2. Lossy!Return
      BY <2>2, <2>3, <3>1 DEF Lossy!Return, owedBar, pendingBar, runningBar
    <3> QED BY <3>2 DEF Lossy!Next
  <2> QED BY <2>4, <2>5
<1>9. CASE UNCHANGED vars
  <2>1. UNCHANGED <<queue, running, owed, dropped>> BY <1>9 DEF vars
  <2> QED BY <1>1, <2>1, SamePending DEF owedBar, pendingBar, runningBar
<1>10. ASSUME NEW e \in Events, Signal(e) PROVE [Lossy!Next]_(Lossy!vars)
  BY <1>1, <1>5, <1>10 DEF Lossy!Next
<1> QED BY <1>4, <1>6, <1>7, <1>8, <1>9, <1>10 DEF Next, LoopStep

(* But for the signals dropped at a full queue the nRF5 loop delivers as   *)
(* blecon_event_loop.h promises: every one of its behaviours is one of     *)
(* EventDelivery, for any number of events and any queue size              *)
(* (blecon_nrf5_event_loop_signal, blecon_nrf5_signal_handler).            *)
THEOREM DeliversLossy == Spec => ImplementsLossyDelivery
<1>1. Spec => Lossy!Init /\ [][Lossy!Next]_(Lossy!vars)
  BY InitDelivers, StepDelivers, Inductive, PTL DEF Spec
<1> QED BY <1>1 DEF ImplementsLossyDelivery, Lossy!Spec

------------------------------------------------------------------------------
(* The timer: its clock is never behind, for an RTC of any width; and what *)
(* its 32-bit arithmetic does to every timeout, with the device's numbers. *)

(* Differences of a counter that wraps. *)

LEMMA Multiples ==
    ASSUME NEW M \in Nat \ {0}, NEW k \in Int
    PROVE  M * k \in Int /\ (k >= 2 => M * k >= 2 * M) /\ (k <= -1 => M * k <= -M)
OBVIOUS

(* The difference of two readings is the time between them, if the counter *)
(* has not gone round since the first.                                     *)
LEMMA DiffIsElapsed ==
    ASSUME NEW x \in Nat, NEW y \in Nat, x >= y, x - y < Modulus
    PROVE  Diff(x % Modulus, y % Modulus) = x - y
<1> DEFINE qx == x \div Modulus
<1> DEFINE rx == x % Modulus
<1> DEFINE qy == y \div Modulus
<1> DEFINE ry == y % Modulus
<1>0. Modulus \in Nat \ {0} BY ClockAssumption DEF Modulus
<1>1. x = Modulus * qx + rx /\ rx \in 0 .. Modulus - 1 /\ qx \in Nat BY <1>0
<1>2. y = Modulus * qy + ry /\ ry \in 0 .. Modulus - 1 /\ qy \in Nat BY <1>0
<1> SUFFICES (rx - ry + Modulus) % Modulus = x - y BY DEF Diff
<1> HIDE DEF qx, rx, qy, ry
<1>3. Modulus * (qx - qy) = (x - y) - (rx - ry) BY <1>0, <1>1, <1>2
<1>4. qx - qy \in {0, 1} BY <1>0, <1>1, <1>2, <1>3, Multiples
<1>5. CASE qx = qy
  <2>1. rx - ry = x - y BY <1>0, <1>1, <1>2, <1>5
  <2>2. (x - y + Modulus) % Modulus = x - y BY <1>0
  <2> QED BY <2>1, <2>2
<1>6. CASE qx = qy + 1
  <2>1. rx - ry + Modulus = x - y BY <1>0, <1>1, <1>2, <1>3, <1>6
  <2>2. (x - y) % Modulus = x - y BY <1>0
  <2> QED BY <2>1, <2>2
<1> QED BY <1>1, <1>2, <1>4, <1>5, <1>6

LEMMA DiffIsNat ==
    ASSUME NEW x \in 0 .. MaxCount, NEW y \in 0 .. MaxCount
    PROVE  Diff(x, y) \in 0 .. MaxCount
BY ClockAssumption DEF Diff, Modulus

------------------------------------------------------------------------------
(* The clock's invariant.  synced and read are the times at which offset   *)
(* and main's count were read from the RTC.                                *)

SyncedAt(synced) ==
    /\ offset = synced % Modulus
    /\ synced <= now
    /\ monitorAt <= synced + MonitorPeriod + Latency
    /\ at \in {"idle", "counted", "compared"} => ticks >= synced

(* What main has in hand reaches the time it read. *)
ReadAt(read) ==
    /\ count = read % Modulus
    /\ read <= now
    /\ now - read <= Latency
    /\ at = "compared" => ticks + change >= read
    /\ at = "loaded" => change >= read
    /\ at = "stored" => ticks >= read

ClockTypeOK ==
    /\ {now, ticks, monitorAt, change} \subseteq Nat
    /\ {offset, count} \subseteq 0 .. MaxCount
    /\ at \in {"idle", "counted", "compared", "loaded", "stored"}

ClockInv ==
    /\ ClockTypeOK
    /\ now <= monitorAt + Latency
    /\ monitorAt <= now + MonitorPeriod
    /\ \E synced \in Nat : SyncedAt(synced)
    /\ at # "idle" => \E read \in Nat : ReadAt(read)

(* The repeated timer leaves no time for the counter to go round unseen.   *)
LEMMA PeriodFits ==
    /\ MonitorPeriod \in Nat /\ Latency \in Nat
    /\ MonitorPeriod + 2 * Latency < Modulus
    /\ Modulus \in Nat \ {0} /\ MaxCount \in Nat
BY ClockAssumption DEF MonitorPeriod, Modulus

LEMMA ReadingInRange == now \in Nat => Rtc \in 0 .. MaxCount
BY ClockAssumption DEF Rtc, Modulus

LEMMA InitClock == TimerInit => ClockInv
<1> SUFFICES ASSUME TimerInit PROVE ClockInv
  OBVIOUS
<1>1. ClockTypeOK
  BY PeriodFits, ClockAssumption DEF TimerInit, ClockTypeOK
<1>2. SyncedAt(0)
  BY PeriodFits DEF TimerInit, SyncedAt
<1> QED
  BY <1>1, <1>2, PeriodFits DEF TimerInit, ClockInv

LEMMA StepClock == ClockInv /\ [TimerNext]_timerVars => ClockInv'
<1> SUFFICES ASSUME ClockInv, [TimerNext]_timerVars PROVE ClockInv'
  OBVIOUS
<1>t. ClockTypeOK BY DEF ClockInv
<1>s. PICK synced \in Nat : SyncedAt(synced) BY DEF ClockInv
<1>b. now <= monitorAt + Latency /\ monitorAt <= now + MonitorPeriod
  BY DEF ClockInv
<1>e. Diff(Rtc, offset) = now - synced
  <2>1. now - synced < Modulus
    BY <1>t, <1>s, <1>b, PeriodFits DEF SyncedAt, ClockTypeOK
  <2> QED BY <1>t, <1>s, <2>1, DiffIsElapsed DEF SyncedAt, ClockTypeOK, Rtc
<1>r. ASSUME at # "idle" PROVE \E read \in Nat : ReadAt(read)
  BY <1>r DEF ClockInv
<1>1. CASE UNCHANGED clock
  <2>1. ClockTypeOK' BY <1>1, <1>t DEF clock, ClockTypeOK
  <2>2. SyncedAt(synced)' BY <1>1, <1>s DEF clock, SyncedAt
  <2>3. ASSUME NEW read \in Nat, ReadAt(read) PROVE ReadAt(read)'
    BY <1>1, <2>3 DEF clock, ReadAt
  <2> QED BY <1>1, <1>b, <1>r, <2>1, <2>2, <2>3 DEF ClockInv, clock
<1>2. CASE UpdateCount
  <2>1. ClockTypeOK' BY <1>2, <1>t, ReadingInRange DEF UpdateCount, ClockTypeOK
  <2>2. SyncedAt(synced)'
    BY <1>2, <1>s DEF UpdateCount, InLibrary, SyncedAt
  <2>3. ReadAt(now)'
    BY <1>2, <1>t, PeriodFits DEF UpdateCount, ReadAt, ClockTypeOK, Rtc
  <2> QED BY <1>2, <1>t, <1>b, <2>1, <2>2, <2>3 DEF UpdateCount, ClockInv, ClockTypeOK
<1>3. CASE UpdateDiff
  <2>1. PICK read \in Nat : ReadAt(read) BY <1>3, <1>r DEF UpdateDiff
  <2>2. Diff(count, offset) \in Nat
    BY <1>t, DiffIsNat DEF ClockTypeOK
  <2>3. ClockTypeOK' BY <1>3, <1>t, <2>2 DEF UpdateDiff, ClockTypeOK
  <2>4. SyncedAt(synced)' BY <1>3, <1>s DEF UpdateDiff, SyncedAt
  <2>5. ticks + Diff(count, offset) >= read
    <3>1. ticks >= synced BY <1>3, <1>s DEF UpdateDiff, SyncedAt
    <3>2. CASE synced <= read
      <4>1. read - synced < Modulus
        BY <1>t, <1>s, <1>b, <2>1, PeriodFits DEF SyncedAt, ReadAt, ClockTypeOK
      <4>2. Diff(count, offset) = read - synced
        BY <1>s, <2>1, <3>2, <4>1, DiffIsElapsed DEF SyncedAt, ReadAt
      <4> QED BY <1>t, <3>1, <4>2 DEF ClockTypeOK
    <3>3. CASE synced > read
      BY <1>t, <2>2, <3>1, <3>3 DEF ClockTypeOK
    <3> QED BY <3>2, <3>3
  <2>6. ReadAt(read)' BY <1>3, <2>1, <2>5 DEF UpdateDiff, ReadAt
  <2> QED BY <1>3, <1>b, <2>3, <2>4, <2>6 DEF UpdateDiff, ClockInv
<1>4. CASE UpdateLoad
  <2>1. PICK read \in Nat : ReadAt(read) BY <1>4, <1>r DEF UpdateLoad
  <2>2. ClockTypeOK' BY <1>4, <1>t DEF UpdateLoad, ClockTypeOK
  <2>3. SyncedAt(synced)' BY <1>4, <1>s DEF UpdateLoad, SyncedAt
  <2>4. ReadAt(read)' BY <1>4, <2>1 DEF UpdateLoad, ReadAt
  <2> QED BY <1>4, <1>b, <2>2, <2>3, <2>4 DEF UpdateLoad, ClockInv
<1>5. CASE UpdateStore
  <2>1. PICK read \in Nat : ReadAt(read) BY <1>5, <1>r DEF UpdateStore
  <2>2. ClockTypeOK' BY <1>5, <1>t DEF UpdateStore, ClockTypeOK
  <2>3. SyncedAt(synced)' BY <1>5, <1>s DEF UpdateStore, SyncedAt
  <2>4. ReadAt(read)' BY <1>5, <2>1 DEF UpdateStore, ReadAt
  <2> QED BY <1>5, <1>b, <2>2, <2>3, <2>4 DEF UpdateStore, ClockInv
<1>6. CASE UpdateOffset
  <2>1. PICK read \in Nat : ReadAt(read) BY <1>6, <1>r DEF UpdateOffset
  <2>2. ClockTypeOK' BY <1>6, <1>t, PeriodFits DEF UpdateOffset, ClockTypeOK
  <2>3. monitorAt <= read + MonitorPeriod + Latency
    BY <1>t, <1>b, <2>1, PeriodFits DEF ReadAt, ClockTypeOK
  <2>4. SyncedAt(read)' BY <1>6, <2>1, <2>3 DEF UpdateOffset, SyncedAt, ReadAt
  <2> QED BY <1>6, <1>b, <2>2, <2>4 DEF UpdateOffset, ClockInv
<1>7. CASE MonitorInterrupt
  <2>1. ticks' = ticks + (now - synced) /\ now >= synced
    BY <1>7, <1>s, <1>e DEF MonitorInterrupt, SyncedAt
  <2>2. ClockTypeOK'
    <3>1. ticks' \in Nat BY <1>t, <2>1 DEF ClockTypeOK
    <3>2. offset' \in 0 .. MaxCount
      BY <1>7, <1>t, ReadingInRange DEF MonitorInterrupt, ClockTypeOK
    <3>3. monitorAt' \in Nat
      BY <1>7, <1>t, PeriodFits DEF MonitorInterrupt, ClockTypeOK
    <3> QED BY <1>7, <1>t, <3>1, <3>2, <3>3 DEF MonitorInterrupt, ClockTypeOK
  <2>3. SyncedAt(now)'
    BY <1>7, <1>t, <1>s, <1>b, <2>1, PeriodFits
       DEF MonitorInterrupt, SyncedAt, ClockTypeOK, Rtc
  <2>4. ASSUME NEW read \in Nat, ReadAt(read) PROVE ReadAt(read)'
    BY <1>7, <1>t, <1>s, <2>1, <2>4 DEF MonitorInterrupt, ReadAt, ClockTypeOK
  <2>5. now' <= monitorAt' + Latency /\ monitorAt' <= now' + MonitorPeriod
    <3>1. now' = now /\ monitorAt' = monitorAt + MonitorPeriod /\ now >= monitorAt
      BY <1>7 DEF MonitorInterrupt
    <3>2. now \in Nat /\ monitorAt \in Nat BY <1>t DEF ClockTypeOK
    <3> QED BY <1>b, <3>1, <3>2, PeriodFits
  <2>6. at' = at BY <1>7 DEF MonitorInterrupt
  <2>7. now' \in Nat BY <2>2 DEF ClockTypeOK
  <2>8. (\E read \in Nat : ReadAt(read)) => (\E read \in Nat : ReadAt(read))'
    BY <2>4
  <2>9. (\E s \in Nat : SyncedAt(s))' BY <2>3, <2>7
  <2> QED BY <1>r, <2>2, <2>5, <2>6, <2>8, <2>9 DEF ClockInv
<1>8. CASE Tick
  <2>1. ClockTypeOK' BY <1>8, <1>t DEF Tick, ClockTypeOK
  <2>2. SyncedAt(synced)' BY <1>8, <1>t, <1>s DEF Tick, SyncedAt, ClockTypeOK
  <2>3. ASSUME NEW read \in Nat, ReadAt(read), at # "idle" PROVE ReadAt(read)'
    <3>1. now - read < Modulus
      BY <1>t, <2>3, PeriodFits DEF ReadAt, ClockTypeOK
    <3>2. Diff(Rtc, count) = now - read
      BY <1>t, <2>3, <3>1, DiffIsElapsed DEF ReadAt, ClockTypeOK, Rtc
    <3> QED BY <1>8, <1>t, <2>3, <3>2, PeriodFits DEF Tick, ReadAt, ClockTypeOK
  <2>4. now' <= monitorAt' + Latency /\ monitorAt' <= now' + MonitorPeriod
    BY <1>8, <1>t, <1>b, PeriodFits DEF Tick, ClockTypeOK
  <2>5. at' = at BY <1>8 DEF Tick
  <2> QED BY <1>r, <2>1, <2>2, <2>3, <2>4, <2>5 DEF ClockInv
<1> QED
  BY <1>1, <1>2, <1>3, <1>4, <1>5, <1>6, <1>7, <1>8
     DEF TimerNext, LoopNext, SetTimeout, CancelTimeout, OnTimeout, timerVars

(* The monotonic clock is never behind, for a counter of any width, any    *)
(* delay of main and its interrupt up to a quarter of a wrap, and wherever *)
(* the interrupt finds main in its own update.                             *)
THEOREM ClockNeverSlow == TimerSpec => []NeverSlow
<1>1. ClockInv => NeverSlow
  <2> SUFFICES ASSUME ClockInv, at = "idle"
               PROVE  ticks + Diff(Rtc, offset) >= now
    BY DEF NeverSlow
  <2>1. PICK synced \in Nat : SyncedAt(synced) BY DEF ClockInv
  <2>2. now - synced < Modulus
    BY <2>1, PeriodFits DEF ClockInv, SyncedAt, ClockTypeOK
  <2>3. Diff(Rtc, offset) = now - synced
    BY <2>1, <2>2, DiffIsElapsed DEF ClockInv, SyncedAt, ClockTypeOK, Rtc
  <2> QED BY <2>1, <2>3 DEF ClockInv, ClockTypeOK, SyncedAt
<1>2. TimerSpec => []ClockInv
  BY InitClock, StepClock, PTL DEF TimerSpec
<1> QED BY <1>1, <1>2, PTL

------------------------------------------------------------------------------
(* Timeouts: the timer takes each, for any numbers of the device's kind.   *)

LEMMA DivisionBounds ==
    ASSUME NEW x \in Nat, NEW n \in Nat \ {0}
    PROVE  x \div n \in Nat /\ n * (x \div n) <= x
BY SMT

LEMMA RemainderBound ==
    ASSUME NEW x \in Nat, NEW n \in Nat \ {0}
    PROVE  x % n \in Nat /\ x % n <= x
<1>1. x % n \in Nat /\ x = n * (x \div n) + (x % n) BY SMT
<1>2. x \div n \in Nat BY DivisionBounds
<1> DEFINE q == x \div n
           m == x % n
<1>3. m \in Nat /\ x = n * q + m /\ q \in Nat BY <1>1, <1>2
<1> HIDE DEF q, m
<1>4. n * q \in Nat BY <1>3, SMT
<1>5. m <= x BY <1>3, <1>4, SMT
<1> QED BY <1>3, <1>5 DEF m

LEMMA SmallerFactor ==
    ASSUME NEW n \in Nat \ {0}, NEW x \in Nat, NEW y \in Nat, n * x < n * (y + 1)
    PROVE  x <= y
<1> SUFFICES ASSUME x > y PROVE FALSE OBVIOUS
<1>1. n * (x - (y + 1)) \in Nat BY SMT
<1>2. n * (x - (y + 1)) = n * x - n * (y + 1) BY SMT
<1> QED BY <1>1, <1>2, SMT

(* A timeout not beyond the longest is no more than MaxCount ticks, in     *)
(* whatever word the product in LongestTimeout is computed.                *)
LEMMA TimeoutsFit ==
    ASSUME NEW ms \in Timeouts PROVE ToTicks(ms) \in MinTicks .. MaxCount
<1> DEFINE T == Thousand
           F == Frequency
           w == (T * MaxCount) % WordSize
           half == T \div 2
           rounded == (ms * F + half) \div T
<1>1. /\ T \in Nat \ {0} /\ F \in Nat \ {0} /\ WordSize \in Nat \ {0} /\ ms \in Nat
      /\ MaxCount \in Nat /\ MinTicks \in Nat /\ MinTicks <= MaxCount
  BY ClockAssumption
<1>2. w \in Nat /\ w <= T * MaxCount
  <2>1. T * MaxCount \in Nat BY <1>1, SMT
  <2> HIDE DEF T
  <2> QED BY <1>1, <2>1, RemainderBound
<1>3. half \in Nat /\ half < T BY <1>1, SMT
<1>4. ms * F + half \in Nat
  <2>1. ms * F \in Nat BY <1>1, SMT
  <2> HIDE DEF F, half
  <2> QED BY <1>3, <2>1
<1>5. rounded \in Nat /\ T * rounded <= ms * F + half
  <2> DEFINE x == ms * F + half
  <2> HIDE DEF x
  <2>1. x \in Nat BY <1>4 DEF x
  <2>2. x \div T \in Nat /\ T * (x \div T) <= x BY <1>1, <2>1, DivisionBounds
  <2> QED BY <2>2 DEF x
<1>6. CASE ms > LongestTimeout
  <2>1. ToTicks(ms) = IF MaxCount < MinTicks THEN MinTicks ELSE MaxCount
    BY <1>6, Zenon DEF ToTicks
  <2> QED BY <1>1, <2>1
<1>7. CASE ~ (ms > LongestTimeout)
  <2>1. ToTicks(ms) = IF rounded < MinTicks THEN MinTicks ELSE rounded
    BY <1>7, Zenon DEF ToTicks
  <2>2. LongestTimeout = w \div F - 1 BY DEF LongestTimeout
  <2> HIDE DEF w
  <2>3. w \div F \in Nat /\ F * (w \div F) <= w BY <1>1, <1>2, DivisionBounds
  <2> DEFINE longest == w \div F
  <2>4. longest \in Nat /\ F * longest <= w /\ ms <= longest - 1
    BY <1>1, <1>7, <2>2, <2>3
  <2> HIDE DEF longest, rounded, half, F, T
  <2>5. ms * F <= w
    <3>1. F * (longest - ms) \in Nat BY <1>1, <2>4, SMT
    <3>2. F * (longest - ms) = F * longest - ms * F BY <1>1, <2>4, SMT
    <3>3. ms * F \in Nat /\ F * longest \in Nat BY <1>1, <2>4, SMT
    <3> QED BY <1>2, <2>4, <3>1, <3>2, <3>3
  <2>6. T * rounded < T * MaxCount + T
    <3>1. ms * F \in Nat /\ T * MaxCount \in Nat /\ T * rounded \in Nat
      BY <1>1, <1>5, SMT
    <3> QED BY <1>1, <1>2, <1>3, <1>5, <2>5, <3>1
  <2>7. T * MaxCount + T = T * (MaxCount + 1) BY <1>1, SMT
  <2>8. rounded <= MaxCount BY <1>1, <1>5, <2>6, <2>7, SmallerFactor
  <2> QED BY <1>1, <1>5, <2>1, <2>8
<1> QED BY <1>6, <1>7

TimerInv == TypeOK /\ HeadInv /\ ClockInv /\ armed \in BOOLEAN /\ refused = FALSE

LEMMA StepTimer == TimerInv /\ [TimerNext]_timerVars => TimerInv'
<1> SUFFICES ASSUME TimerInv, [TimerNext]_timerVars PROVE TimerInv'
  OBVIOUS
<1>1. ClockInv' BY StepClock DEF TimerInv
<1>2. TypeOK' /\ HeadInv'
  <2>1. [Next]_vars
    <3>1. ASSUME ~ failed, OnTimeout PROVE Next
      <4>1. Signal(TimerEvent) /\ TimerEvent < eventCount
        BY <3>1 DEF OnTimeout, Signal
      <4>2. TimerEvent \in Events
        BY <4>1, SizeAssumption DEF Events, TimerEvent, TimerInv, TypeOK
      <4> QED BY <3>1, <4>1, <4>2 DEF Next
    <3> QED
      BY <3>1 DEF TimerNext, LoopNext, SetTimeout, CancelTimeout, UpdateCount, UpdateDiff,
                  UpdateLoad, UpdateStore, UpdateOffset, MonitorInterrupt, Tick, timerVars
  <2> QED BY <2>1, StepTypes DEF TimerInv
<1>3. armed' \in BOOLEAN /\ refused' = FALSE
  <2>1. ASSUME NEW ms \in Timeouts, SetTimeout(ms)
        PROVE  armed' \in BOOLEAN /\ refused' = FALSE
    BY <2>1, TimeoutsFit DEF SetTimeout, TimerInv
  <2> QED
    BY <2>1 DEF TimerNext, LoopNext, CancelTimeout, OnTimeout, UpdateCount, UpdateDiff,
                UpdateLoad, UpdateStore, UpdateOffset, MonitorInterrupt, Tick,
                timerVars, timer, TimerInv
<1> QED BY <1>1, <1>2, <1>3 DEF TimerInv

(* app_timer_start takes every timeout the library asks for: the assertion *)
(* in blecon_timer_set_timeout holds, for any counter, word and frequency, *)
(* although the bound on long timeouts is computed in a word it overflows. *)
THEOREM TimeoutsTaken == TimerSpec => []TimerTypeOK
<1>1. TimerInit => TimerInv
  BY InitIInv, InitClock DEF TimerInit, TimerInv, IInv
<1>2. TimerInv => TimerTypeOK
  BY DEF TimerInv, TimerTypeOK, ClockInv, ClockTypeOK
<1> QED BY <1>1, <1>2, StepTimer, PTL DEF TimerSpec

------------------------------------------------------------------------------
(* The device: a 24-bit counter, 32-bit words, prescaler 1 (sdk_config.h). *)

Device ==
    /\ MaxCount = 16777215 /\ WordSize = 4294967296
    /\ Thousand = 1000 /\ Frequency = 16384 /\ MinTicks = 5

(* Above this many milliseconds every timeout is made the longest. *)
Threshold == 237566

LEMMA Quotients ==
    ASSUME NEW x \in Nat
    PROVE  /\ x \div 1000 \in Nat
           /\ 1000 * (x \div 1000) <= x
           /\ x < 1000 * (x \div 1000) + 1000
BY SMT

LEMMA DeviceThreshold == Device => LongestTimeout = Threshold
<1>1. (1000 * 16777215) % 4294967296 = 3892313112 BY SMT
<1>2. 3892313112 \div 16384 - 1 = 237566 BY SMT
<1> QED BY <1>1, <1>2, SMT DEF Device, LongestTimeout, Threshold

LEMMA DeviceRounding ==
    ASSUME Device, NEW ms \in Nat, ms <= Threshold
    PROVE  \E rounded \in Nat :
             /\ rounded <= 4000000
             /\ ToTicks(ms) = IF rounded < 5 THEN 5 ELSE rounded
             /\ 1000 * rounded <= ms * 16384 + 500
             /\ ms * 16384 - 500 < 1000 * rounded
<1> DEFINE x == ms * 16384 + 500
<1> DEFINE rounded == x \div 1000
<1>1. x \in Nat /\ x <= 4000000000 BY SMT DEF Threshold
<1>2. 1000 \div 2 = 500 BY SMT
<1>3. ToTicks(ms) = IF rounded < 5 THEN 5 ELSE rounded
  BY <1>2, DeviceThreshold, SMT DEF Device, ToTicks, Threshold
<1>4. /\ rounded \in Nat /\ 1000 * rounded <= x
      /\ x < 1000 * rounded + 1000
  <2> HIDE DEF x
  <2> QED BY <1>1, Quotients, SMT
<1>5. rounded <= 4000000
  <2> HIDE DEF x, rounded
  <2> QED BY <1>1, <1>4, SMT
<1>6. 1000 * rounded <= ms * 16384 + 500 /\ ms * 16384 - 500 < 1000 * rounded
  <2> HIDE DEF rounded
  <2> QED BY <1>4, SMT
<1> QED BY <1>3, <1>4, <1>5, <1>6, SMT

LEMMA DeviceNumbers ==
    Device => MaxCount = 16777215 /\ MaxCount \in Nat /\ MinTicks = 5 /\ Frequency = 16384 /\ Thousand = 1000
BY SMT DEF Device

LEMMA BeyondThreshold ==
    ASSUME Device, NEW ms \in Nat, ms > Threshold
    PROVE  ToTicks(ms) = MaxCount
<1>1. ms > LongestTimeout BY DeviceThreshold
<1>2. ToTicks(ms) = IF MaxCount < MinTicks THEN MinTicks ELSE MaxCount
  BY <1>1, Zenon DEF ToTicks
<1> QED BY <1>2, DeviceNumbers, SMT

(* On the device the app timer takes every timeout.                        *)
THEOREM EveryTimeoutTaken ==
    ASSUME Device, NEW ms \in Nat
    PROVE  ToTicks(ms) \in Nat /\ MinTicks <= ToTicks(ms) /\ ToTicks(ms) <= MaxCount
<1>1. MaxCount = 16777215 /\ MinTicks = 5 BY DeviceNumbers, SMT
<1>2. CASE ms <= Threshold
  <2>1. PICK rounded \in Nat :
          rounded <= 4000000 /\ ToTicks(ms) = IF rounded < 5 THEN 5 ELSE rounded
    BY <1>2, DeviceRounding, SMT
  <2> QED BY <1>1, <2>1, SMT
<1>3. CASE ms > Threshold
  BY <1>1, <1>3, BeyondThreshold, SMT
<1> QED BY <1>2, <1>3, SMT DEF Threshold

(* Up to the threshold a timeout is kept to half a tick, or the minimum of *)
(* five ticks: it is never early by more.                                  *)
THEOREM ShortTimeoutsKept ==
    ASSUME Device, NEW ms \in Nat, ms <= Threshold
    PROVE  /\ ms * 16384 - 500 < 1000 * ToTicks(ms)
           /\ ToTicks(ms) = 5 \/ 1000 * ToTicks(ms) <= ms * 16384 + 500
<1>1. ms * 16384 \in Nat BY SMT
<1>2. PICK rounded \in Nat :
        /\ ToTicks(ms) = IF rounded < 5 THEN 5 ELSE rounded
        /\ 1000 * rounded <= ms * 16384 + 500
        /\ ms * 16384 - 500 < 1000 * rounded
  BY DeviceRounding, SMT
<1> QED BY <1>1, <1>2, SMT

(* Beyond, although the counter could count up to 1023 s, every timeout is *)
(* made the longest, for the product of the bound wraps around.            *)
THEOREM LongTimeoutsLengthened ==
    ASSUME Device, NEW ms \in Nat, ms > Threshold, ms <= 1023000
    PROVE  ToTicks(ms) = MaxCount /\ ms * Frequency < MaxCount * Thousand
<1>1. ms * 16384 < 16777215 * 1000 BY SMT
<1> QED BY <1>1, BeyondThreshold, DeviceNumbers, SMT
===============================================================================
