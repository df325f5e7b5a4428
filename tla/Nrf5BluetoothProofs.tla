-------------------------- MODULE Nrf5BluetoothProofs --------------------------
(***************************************************************************)
(* Proofs about Bluetooth on nRF5.                                         *)
(*                                                                         *)
(* Advertising and scanning: the count of advertising sets, silence after  *)
(* the last stop, and the scan that goes on, for any number of sets the    *)
(* port allows, any of which can be connected to, and any number of the    *)
(* SoftDevice's events not yet handled.                                    *)
(*                                                                         *)
(* The L2CAP server: what the SoftDevice works on stays in the queues, no  *)
(* buffer of a working channel is lost track of, and a taken cid has its   *)
(* channel, for any number of buffers, credits and events not yet handled. *)
(*                                                                         *)
(* The GATT server: every send of an open bearer is answered, and bearers  *)
(* are open only while subscribed, for any number of bearers.              *)
(***************************************************************************)
EXTENDS Nrf5Advertising, Nrf5L2cap, Nrf5Gatts,
        FiniteSetTheorems, FunctionTheorems, SequenceTheorems, TLAPS

Advertising == {s \in Sets : isAdvertising[s]}

(* Main starts the handle only while there are sets to advertise.          *)
SilentInv ==
    /\ setsAdvertising = 0 => air = NoSet /\ ~ timer
    /\ pc = "adv_start" => setsAdvertising > 0

(* A scan goes on from the SoftDevice's start of it, before the flag says  *)
(* so, to the flag's end.                                                  *)
ScanInv ==
    (isScanning \/ pc = "scan_start") /\ pc # "scan_stop" =>
        \/ scanner = "on"
        \/ scanner = "paused" /\ \E i \in 1 .. Len(reports) : reports[i] = "report"

IInv == CountMatches /\ SilentInv /\ ScanInv

------------------------------------------------------------------------------

(* The rotation turns to a set, if one advertises.                         *)
LEMMA TurnsToASet ==
    ASSUME NEW n \in Sets, NEW adv \in [Sets -> BOOLEAN], \E s \in Sets : adv[s]
    PROVE  NextSet(n, adv) \in Sets
<1> DEFINE First(k) == /\ adv[(n + k) % SetsCount]
                       /\ \A j \in 1 .. k - 1 : ~ adv[(n + j) % SetsCount]
<1>1. \E k \in 1 .. SetsCount : First(k)
  <2>1. CASE SetsCount = 1
    <3>1. n = 0 /\ adv[0] /\ (n + 1) % SetsCount = 0 BY <2>1 DEF Sets
    <3> QED BY <2>1, <3>1
  <2>2. CASE SetsCount = 2
    <3>1. n \in {0, 1} /\ (adv[0] \/ adv[1]) BY <2>2 DEF Sets
    <3>2. (0 + 1) % 2 = 1 /\ (0 + 2) % 2 = 0 /\ (1 + 1) % 2 = 0 /\ (1 + 2) % 2 = 1
      OBVIOUS
    <3>3. First(1) \/ (~ adv[(n + 1) % 2] /\ adv[(n + 2) % 2])
      BY <2>2, <3>1, <3>2
    <3> QED BY <2>2, <3>3
  <2>3. CASE SetsCount = 3
    <3>1. n \in {0, 1, 2} /\ (adv[0] \/ adv[1] \/ adv[2]) BY <2>3 DEF Sets
    <3>2. /\ (0 + 1) % 3 = 1 /\ (0 + 2) % 3 = 2 /\ (0 + 3) % 3 = 0
          /\ (1 + 1) % 3 = 2 /\ (1 + 2) % 3 = 0 /\ (1 + 3) % 3 = 1
          /\ (2 + 1) % 3 = 0 /\ (2 + 2) % 3 = 1 /\ (2 + 3) % 3 = 2
      OBVIOUS
    <3>3. \/ adv[(n + 1) % 3]
          \/ ~ adv[(n + 1) % 3] /\ adv[(n + 2) % 3]
          \/ ~ adv[(n + 1) % 3] /\ ~ adv[(n + 2) % 3] /\ adv[(n + 3) % 3]
      BY <3>1, <3>2
    <3>4. First(1) \/ First(2) \/ First(3) BY <2>3, <3>3
    <3> QED BY <2>3, <3>4
  <2> QED BY <2>1, <2>2, <2>3, SetsAssumption
<1> DEFINE step == CHOOSE k \in 1 .. SetsCount : First(k)
<1>2. step \in 1 .. SetsCount BY <1>1
<1>3. NextSet(n, adv) = (n + step) % SetsCount BY DEF NextSet
<1>4. SetsCount \in Nat \ {0} /\ n + step \in Nat
  BY <1>2, SetsAssumption DEF Sets
<1> HIDE DEF step
<1> QED BY <1>3, <1>4 DEF Sets

(* What preparing the handle leaves behind, whether it fails or not.       *)
LEMMA Prepared ==
    ASSUME TypeOK, NEW n \in Sets, NEW adv \in [Sets -> BOOLEAN], Prepare(n, adv)
    PROVE  /\ setCurrent' \in Sets /\ setNext' \in Sets
           /\ isScanning => scanner' = "on"
           /\ ~ isScanning => scanner' = scanner
           /\ CannotPrepare(adv) \in {Nothing, "address", "rotation"}
<1>1. CannotPrepare(adv) = Nothing => \E s \in Sets : adv[s]
  BY DEF CannotPrepare, Nothing
<1>2. CannotPrepare(adv) = Nothing => NextSet(n, adv) \in Sets
  BY <1>1, TurnsToASet
<1>3. CannotPrepare(adv) \in {Nothing, "address", "rotation"}
  BY DEF CannotPrepare
<1> QED BY <1>2, <1>3 DEF Prepare

LEMMA Restarted ==
    ASSUME TypeOK, NEW n \in Sets, NEW adv \in [Sets -> BOOLEAN], Restart(n, adv)
    PROVE  /\ setCurrent' \in Sets /\ setNext' \in Sets
           /\ isScanning => scanner' = "on"
           /\ ~ isScanning => scanner' = scanner
           /\ air' \in {n, NoSet}
           /\ failed' \in {Nothing, "address", "rotation", "conn_count"}
<1>1. Prepare(n, adv) BY DEF Restart
<1> QED BY <1>1, Prepared DEF Restart, CannotAdvertise

LEMMA AdvertisingCounted == Cardinality(Advertising) \in Nat
<1>1. IsFiniteSet(Sets) BY FS_Interval, SetsAssumption DEF Sets
<1>2. Advertising \in SUBSET Sets BY DEF Advertising
<1> QED BY <1>1, <1>2, FS_Subset, FS_CardinalityType

(* A set's flag, raised or cleared, counts for one.                        *)
LEMMA FlagCounts ==
    ASSUME NEW s \in Sets, isAdvertising \in [Sets -> BOOLEAN], NEW b \in BOOLEAN,
           isAdvertising' = [isAdvertising EXCEPT ![s] = b], isAdvertising[s] # b
    PROVE  /\ isAdvertising' \in [Sets -> BOOLEAN]
           /\ Cardinality(Advertising) \in 0 .. SetsCount
           /\ Cardinality(Advertising') \in 0 .. SetsCount
           /\ Cardinality(Advertising') = Cardinality(Advertising) + (IF b THEN 1 ELSE 0)
                                          - (IF b THEN 0 ELSE 1)
<1>1. IsFiniteSet(Sets) /\ Cardinality(Sets) = SetsCount
  BY FS_Interval, SetsAssumption DEF Sets
<1>2. /\ Advertising \in SUBSET Sets /\ Advertising' \in SUBSET Sets
      /\ isAdvertising' \in [Sets -> BOOLEAN]
  BY DEF Advertising
<1>3. /\ IsFiniteSet(Advertising) /\ Cardinality(Advertising) <= SetsCount
      /\ IsFiniteSet(Advertising') /\ Cardinality(Advertising') <= SetsCount
  BY <1>1, <1>2, FS_Subset
<1>4. Cardinality(Advertising) \in Nat /\ Cardinality(Advertising') \in Nat
  BY <1>3, FS_CardinalityType
<1>5. SetsCount \in Nat BY SetsAssumption
<1>6. CASE b = TRUE
  <2>1. Advertising' = Advertising \union {s} /\ s \notin Advertising
    BY <1>6 DEF Advertising
  <2>2. Cardinality(Advertising') = Cardinality(Advertising) + 1
    BY <1>3, <2>1, FS_AddElement
  <2> QED BY <1>2, <1>3, <1>4, <1>5, <1>6, <2>2
<1>7. CASE b = FALSE
  <2>1. Advertising' = Advertising \ {s} /\ s \in Advertising
    BY <1>7 DEF Advertising
  <2>2. Cardinality(Advertising') = Cardinality(Advertising) - 1
    BY <1>3, <2>1, FS_RemoveElement
  <2> QED BY <1>2, <1>3, <1>4, <1>5, <1>7, <2>2
<1> QED BY <1>6, <1>7

Waiting == \E i \in 1 .. Len(reports) : reports[i] = "report"

Events == {"terminated", "connected", "report"}

(* An event of the SoftDevice joins the others.                            *)
LEMMA Reported ==
    ASSUME TypeOK, NEW event \in Events, Report(event)
    PROVE  /\ reports' \in Seq(Events) /\ Len(reports') <= MaxReports
           /\ Waiting => Waiting'
           /\ event = "report" => Waiting'
<1>1. reports \in Seq(Events) /\ Len(reports) < MaxReports /\ reports' = Append(reports, event)
  BY DEF TypeOK, Events, Report
<1>2. /\ reports' \in Seq(Events) /\ Len(reports') = Len(reports) + 1
      /\ reports'[Len(reports) + 1] = event
      /\ \A i \in 1 .. Len(reports) : reports'[i] = reports[i]
  BY <1>1
<1> QED BY <1>1, <1>2, SetsAssumption DEF Waiting

(* One that main handles leaves them; a report stays while others go.      *)
LEMMA Handled ==
    ASSUME TypeOK, NEW event \in Events, Handle(event)
    PROVE  /\ pc = "idle"
           /\ reports' \in Seq(Events) /\ Len(reports') <= MaxReports
           /\ event # "report" /\ Waiting => Waiting'
<1>1. /\ reports \in Seq(Events) /\ reports # <<>> /\ Len(reports) <= MaxReports
      /\ Head(reports) = event /\ reports' = Tail(reports) /\ pc = "idle"
  BY DEF TypeOK, Events, Handle
<1>2. /\ reports[1] = event /\ reports' \in Seq(Events)
      /\ Len(reports) \in Nat \ {0} /\ Len(reports') = Len(reports) - 1
      /\ \A i \in 1 .. Len(reports') : reports'[i] = reports[i + 1]
  BY <1>1
<1>3. event # "report" /\ Waiting => Waiting'
  <2> SUFFICES ASSUME event # "report", NEW i \in 1 .. Len(reports), reports[i] = "report"
               PROVE  Waiting'
    BY DEF Waiting
  <2>1. i - 1 \in 1 .. Len(reports') /\ reports'[i - 1] = "report"
    BY <1>2
  <2> QED BY <2>1 DEF Waiting
<1> QED BY <1>1, <1>2, <1>3, SetsAssumption

(* A step that leaves flags and count alone.                               *)
LEMMA SameCount ==
    ASSUME CountMatches, TypeOK', UNCHANGED <<isAdvertising, setsAdvertising>>,
           pc = "set_stop" <=> pc' = "set_stop"
    PROVE  CountMatches'
BY DEF CountMatches

LEMMA InitIInv == Init => IInv
<1> SUFFICES ASSUME Init PROVE IInv
  OBVIOUS
<1> USE SetsAssumption
<1>1. TypeOK
  <2>1. 0 \in Sets BY DEF Sets
  <2>2. <<>> \in Seq({"terminated", "connected", "report"}) /\ Len(<<>>) = 0 OBVIOUS
  <2> QED BY <2>1, <2>2 DEF Init, TypeOK
<1>2. {s \in Sets : isAdvertising[s]} = {} BY DEF Init
<1>3. CountMatches BY <1>1, <1>2, FS_EmptySet DEF Init, CountMatches
<1>4. SilentInv /\ ScanInv BY DEF Init, SilentInv, ScanInv
<1> QED BY <1>3, <1>4 DEF IInv

(* Sets started and stopped: the count changes with the flag, or after it. *)
LEMMA StartFirstKeeps ==
    ASSUME IInv, NEW s \in Sets, SetStartFirst(s) PROVE IInv'
<1> USE SetsAssumption
<1>1. /\ isAdvertising' = [isAdvertising EXCEPT ![s] = TRUE] /\ ~ isAdvertising[s]
      /\ setsAdvertising = 0 /\ setsAdvertising' = 1 /\ timer' = TRUE
      /\ Restart(0, isAdvertising') /\ pc = "idle"
      /\ UNCHANGED <<isScanning, link, connSet, reports, pc>>
  BY DEF SetStartFirst, linkVars
<1>2. TypeOK /\ setsAdvertising = Cardinality(Advertising) /\ 0 \in Sets
  BY <1>1, AdvertisingCounted DEF IInv, CountMatches, Advertising, TypeOK, Sets
<1>3. isAdvertising' \in [Sets -> BOOLEAN] /\ Cardinality(Advertising') = 1
  <2>1. isAdvertising \in [Sets -> BOOLEAN] /\ isAdvertising[s] # TRUE
    BY <1>1, <1>2 DEF TypeOK
  <2>2. /\ isAdvertising' \in [Sets -> BOOLEAN]
        /\ Cardinality(Advertising') = Cardinality(Advertising) + 1 - 0
    BY <1>1, <2>1, FlagCounts
  <2> QED BY <1>1, <1>2, <2>2
<1>4. /\ setCurrent' \in Sets /\ setNext' \in Sets
      /\ isScanning => scanner' = "on"
      /\ ~ isScanning => scanner' = scanner
      /\ air' \in {0, NoSet}
      /\ failed' \in {Nothing, "address", "rotation", "conn_count"}
  BY <1>1, <1>2, <1>3, Restarted
<1>5. TypeOK'
  BY <1>1, <1>2, <1>3, <1>4 DEF TypeOK
<1>6. CountMatches' BY <1>1, <1>3, <1>5 DEF CountMatches, Advertising
<1>7. SilentInv' BY <1>1 DEF SilentInv
<1>8. ScanInv' BY <1>1, <1>4 DEF ScanInv
<1> QED BY <1>6, <1>7, <1>8 DEF IInv

LEMMA StartMoreKeeps ==
    ASSUME IInv, NEW s \in Sets, SetStartMore(s) PROVE IInv'
<1> USE SetsAssumption
<1>1. /\ isAdvertising' = [isAdvertising EXCEPT ![s] = TRUE] /\ ~ isAdvertising[s]
      /\ setsAdvertising > 0 /\ setsAdvertising' = setsAdvertising + 1 /\ pc = "idle"
      /\ UNCHANGED <<setCurrent, setNext, timer, air, isScanning, scanner, link, connSet,
                     reports, pc, failed>>
  BY DEF SetStartMore, linkVars, scanVars
<1>2. TypeOK /\ setsAdvertising = Cardinality(Advertising)
  BY <1>1, AdvertisingCounted DEF IInv, CountMatches, Advertising, TypeOK, Sets
<1>3. /\ isAdvertising' \in [Sets -> BOOLEAN]
      /\ Cardinality(Advertising') = Cardinality(Advertising) + 1
      /\ Cardinality(Advertising') \in 0 .. SetsCount
  <2>1. isAdvertising \in [Sets -> BOOLEAN] /\ isAdvertising[s] # TRUE
    BY <1>1, <1>2 DEF TypeOK
  <2>2. /\ isAdvertising' \in [Sets -> BOOLEAN]
        /\ Cardinality(Advertising) \in 0 .. SetsCount
        /\ Cardinality(Advertising') \in 0 .. SetsCount
        /\ Cardinality(Advertising') = Cardinality(Advertising) + 1 - 0
    BY <1>1, <2>1, FlagCounts
  <2> QED BY <2>2
<1>4. TypeOK' BY <1>1, <1>2, <1>3 DEF TypeOK
<1>5. CountMatches' BY <1>1, <1>2, <1>3, <1>4 DEF CountMatches, Advertising
<1>6. SilentInv' /\ ScanInv' BY <1>1, <1>2 DEF IInv, SilentInv, ScanInv, TypeOK
<1> QED BY <1>5, <1>6 DEF IInv

LEMMA StopKeeps ==
    ASSUME IInv, NEW s \in Sets, SetStop(s) PROVE IInv'
<1> USE SetsAssumption
<1>1. /\ isAdvertising' = [isAdvertising EXCEPT ![s] = FALSE] /\ isAdvertising[s]
      /\ pc \in {"idle", "connected"} /\ pc' = "set_stop"
      /\ UNCHANGED <<setsAdvertising, setCurrent, setNext, timer, air, isScanning, scanner,
                     link, connSet, reports, failed>>
  BY DEF SetStop, linkVars, scanVars
<1>2. TypeOK /\ setsAdvertising = Cardinality(Advertising)
  BY <1>1, AdvertisingCounted DEF IInv, CountMatches, Advertising, TypeOK, Sets
<1>3. /\ isAdvertising' \in [Sets -> BOOLEAN]
      /\ Cardinality(Advertising') = Cardinality(Advertising) - 1
  <2>1. isAdvertising \in [Sets -> BOOLEAN] /\ isAdvertising[s] # FALSE
    BY <1>1, <1>2 DEF TypeOK
  <2>2. /\ isAdvertising' \in [Sets -> BOOLEAN]
        /\ Cardinality(Advertising) \in 0 .. SetsCount
        /\ Cardinality(Advertising') = Cardinality(Advertising) + 0 - 1
    BY <1>1, <2>1, FlagCounts
  <2> QED BY <2>2
<1>4. TypeOK' BY <1>1, <1>2, <1>3 DEF TypeOK
<1>5. CountMatches'
  <2>1. setsAdvertising \in Nat BY <1>2 DEF TypeOK
  <2>2. setsAdvertising' = Cardinality(Advertising') + 1 BY <1>1, <1>2, <1>3, <2>1
  <2> QED BY <1>1, <1>4, <2>2 DEF CountMatches, Advertising
<1>6. SilentInv' /\ ScanInv' BY <1>1 DEF IInv, SilentInv, ScanInv
<1> QED BY <1>5, <1>6 DEF IInv

LEMMA StoppedKeeps ==
    ASSUME IInv, SetStopped PROVE IInv'
<1> USE SetsAssumption
<1>1. /\ pc = "set_stop" /\ setsAdvertising' = setsAdvertising - 1 /\ timer' = FALSE
      /\ pc' \in {"connected", "idle"}
      /\ IF setsAdvertising' > 0
         THEN Restart(setNext, isAdvertising)
         ELSE air' = NoSet /\ UNCHANGED <<setCurrent, setNext, scanner, failed>>
      /\ UNCHANGED <<isAdvertising, isScanning, link, connSet, reports>>
  BY DEF SetStopped, linkVars
<1>2. /\ TypeOK /\ setsAdvertising = Cardinality(Advertising) + 1
      /\ isAdvertising \in [Sets -> BOOLEAN] /\ setNext \in Sets
  BY <1>1 DEF IInv, CountMatches, Advertising, TypeOK
<1>3. Cardinality(Advertising) \in Nat BY AdvertisingCounted
<1>4. setsAdvertising' = Cardinality(Advertising') /\ setsAdvertising' \in 0 .. SetsCount
  BY <1>1, <1>2, <1>3 DEF TypeOK, Advertising
<1>5. /\ setCurrent' \in Sets /\ setNext' \in Sets
      /\ air' \in Sets \union {NoSet}
      /\ \/ scanner' = scanner
         \/ isScanning /\ scanner' = "on"
      /\ failed' \in {"adv_start", Nothing, "address", "rotation", "conn_count", "scan_start"}
  BY <1>1, <1>2, Restarted DEF TypeOK
<1>6. TypeOK' BY <1>1, <1>2, <1>4, <1>5 DEF TypeOK
<1>7. CountMatches' BY <1>1, <1>4, <1>6 DEF CountMatches, Advertising
<1>8. SilentInv' BY <1>1, <1>4 DEF SilentInv
<1>9. ScanInv' BY <1>1, <1>5 DEF IInv, ScanInv
<1> QED BY <1>7, <1>8, <1>9 DEF IInv

LEMMA StepIInv == IInv /\ [Next]_vars => IInv'
<1> SUFFICES ASSUME IInv, [Next]_vars PROVE IInv'
  OBVIOUS
<1> USE SetsAssumption
<1>0. TypeOK /\ CountMatches /\ SilentInv /\ ScanInv BY DEF IInv, CountMatches
<1>1. ASSUME NEW s \in Sets, SetStartFirst(s) \/ SetStartMore(s) \/ SetStop(s)
      PROVE  IInv'
  BY <1>1, StartFirstKeeps, StartMoreKeeps, StopKeeps
<1>2. CASE SetStopped BY <1>2, StoppedKeeps
<1>3. CASE ScanFlag
  <2>1. /\ pc \in {"scan_start", "scan_stop"} /\ isScanning' = (pc = "scan_start")
        /\ pc' = "idle"
        /\ UNCHANGED <<isAdvertising, setsAdvertising, setCurrent, setNext, timer, air,
                       scanner, link, connSet, reports, failed>>
    BY <1>3 DEF ScanFlag, advVars, linkVars
  <2>2. isScanning' \in BOOLEAN BY <2>1
  <2>3. TypeOK' BY <1>0, <2>1, <2>2 DEF TypeOK
  <2>4. CountMatches' BY <1>0, <2>1, <2>3, SameCount
  <2>5. SilentInv' BY <1>0, <2>1 DEF SilentInv
  <2>6. ScanInv' BY <1>0, <2>1 DEF ScanInv
  <2> QED BY <2>4, <2>5, <2>6 DEF IInv
<1>4. CASE AdvStart
  <2>1. /\ pc = "adv_start" /\ pc' = "idle"
        /\ air' \in {setCurrent, air}
        /\ failed' \in {"adv_start", "conn_count", Nothing}
        /\ UNCHANGED <<isAdvertising, setsAdvertising, setCurrent, setNext, timer,
                       isScanning, scanner, link, connSet, reports>>
    BY <1>4 DEF AdvStart, CannotAdvertise, scanVars, linkVars
  <2>2. TypeOK' BY <1>0, <2>1 DEF TypeOK
  <2>3. CountMatches' BY <1>0, <2>1, <2>2, SameCount
  <2>4. SilentInv' BY <1>0, <2>1 DEF SilentInv, TypeOK
  <2>5. ScanInv' BY <1>0, <2>1 DEF ScanInv
  <2> QED BY <2>3, <2>4, <2>5 DEF IInv
<1>5. CASE OnTerminated
  <2>1. /\ Handle("terminated")
        /\ UNCHANGED <<isAdvertising, setsAdvertising, timer, isScanning, link, connSet>>
        /\ \/ /\ setsAdvertising > 0 /\ air' = NoSet /\ Prepare(setNext, isAdvertising)
              /\ failed' = CannotPrepare(isAdvertising) /\ pc' \in {"adv_start", "idle"}
           \/ UNCHANGED <<air, setCurrent, setNext, scanner, failed, pc>>
    BY <1>5 DEF OnTerminated, linkVars
  <2>2. /\ pc = "idle" /\ Waiting => Waiting'
        /\ reports' \in Seq(Events) /\ Len(reports') <= MaxReports
    BY <1>0, <2>1, Handled DEF Events
  <2>3. pc = "idle" BY <2>1 DEF Handle
  <2>4. isAdvertising \in [Sets -> BOOLEAN] /\ setNext \in Sets BY <1>0 DEF TypeOK
  <2>5. /\ setCurrent' \in Sets /\ setNext' \in Sets /\ air' \in Sets \union {NoSet}
        /\ failed' \in {"adv_start", Nothing, "address", "rotation", "conn_count", "scan_start"}
        /\ \/ scanner' = scanner
           \/ isScanning /\ scanner' = "on"
        /\ pc' \in {"adv_start", "idle"}
    BY <1>0, <2>1, <2>3, <2>4, Prepared DEF TypeOK
  <2>6. TypeOK' BY <1>0, <2>1, <2>2, <2>5 DEF TypeOK, Events
  <2>7. CountMatches' BY <1>0, <2>1, <2>3, <2>5, <2>6, SameCount
  <2>8. SilentInv' BY <1>0, <2>1, <2>3 DEF SilentInv
  <2>9. ScanInv' BY <1>0, <2>1, <2>2, <2>3, <2>5 DEF ScanInv, Waiting
  <2> QED BY <2>7, <2>8, <2>9 DEF IInv
<1>6. CASE OnConnected
  <2>1. /\ Handle("connected") /\ connSet' = setCurrent /\ pc' \in {"connected", "idle"}
        /\ UNCHANGED <<isAdvertising, setsAdvertising, setCurrent, setNext, timer, air,
                       isScanning, scanner, link, failed>>
    BY <1>6 DEF OnConnected, advVars, scanVars
  <2>2. /\ pc = "idle" /\ (Waiting => Waiting')
        /\ reports' \in Seq(Events) /\ Len(reports') <= MaxReports
    BY <1>0, <2>1, Handled DEF Events
  <2>3. TypeOK' BY <1>0, <2>1, <2>2 DEF TypeOK, Events
  <2>4. CountMatches' BY <1>0, <2>1, <2>2, <2>3, SameCount
  <2>5. SilentInv' BY <1>0, <2>1 DEF SilentInv
  <2>6. ScanInv' BY <1>0, <2>1, <2>2 DEF ScanInv, Waiting
  <2> QED BY <2>4, <2>5, <2>6 DEF IInv
<1>7. CASE OnAdvReport
  <2>1. /\ Handle("report") /\ scanner' = IF scanner = "paused" THEN "on" ELSE scanner
        /\ UNCHANGED <<isAdvertising, setsAdvertising, setCurrent, setNext, timer, air,
                       isScanning, link, connSet, pc, failed>>
    BY <1>7 DEF OnAdvReport, advVars, linkVars
  <2>2. reports' \in Seq(Events) /\ Len(reports') <= MaxReports
    BY <1>0, <2>1, Handled DEF Events
  <2>3. TypeOK' BY <1>0, <2>1, <2>2 DEF TypeOK, Events
  <2>4. CountMatches' BY <1>0, <2>1, <2>3, SameCount
  <2>5. SilentInv' BY <1>0, <2>1 DEF SilentInv
  <2>6. ScanInv' BY <1>0, <2>1 DEF ScanInv
  <2> QED BY <2>4, <2>5, <2>6 DEF IInv
<1>8. CASE ScanStart \/ ScanStop
  <2>1. /\ pc = "idle"
        /\ \/ pc' = "scan_start" /\ scanner' = "on" /\ UNCHANGED failed
           \/ ~ isScanning /\ failed' = "scan_start" /\ UNCHANGED <<scanner, pc>>
           \/ pc' = "scan_stop" /\ scanner' = "off" /\ UNCHANGED failed
        /\ UNCHANGED <<isAdvertising, setsAdvertising, setCurrent, setNext, timer, air,
                       isScanning, link, connSet, reports>>
    BY <1>8 DEF ScanStart, ScanStop, advVars, linkVars
  <2>2. TypeOK' BY <1>0, <2>1 DEF TypeOK
  <2>3. CountMatches' BY <1>0, <2>1, <2>2, SameCount
  <2>4. SilentInv' BY <1>0, <2>1 DEF SilentInv
  <2>5. ScanInv' BY <1>0, <2>1 DEF ScanInv
  <2> QED BY <2>3, <2>4, <2>5 DEF IInv
<1>9. CASE Rotate
  <2>1. /\ setsAdvertising > 0 /\ setNext = 0 /\ Restart(0, isAdvertising)
        /\ UNCHANGED <<isAdvertising, setsAdvertising, timer, isScanning, link, connSet,
                       reports, pc>>
    BY <1>9 DEF Rotate, linkVars
  <2>2. isAdvertising \in [Sets -> BOOLEAN] /\ 0 \in Sets BY <1>0 DEF TypeOK, Sets
  <2>3. /\ setCurrent' \in Sets /\ setNext' \in Sets
        /\ isScanning => scanner' = "on"
        /\ ~ isScanning => scanner' = scanner
        /\ air' \in {0, NoSet}
        /\ failed' \in {Nothing, "address", "rotation", "conn_count"}
    BY <1>0, <2>1, <2>2, Restarted
  <2>4. TypeOK' BY <1>0, <2>1, <2>2, <2>3 DEF TypeOK
  <2>5. CountMatches' BY <1>0, <2>1, <2>4, SameCount
  <2>6. SilentInv' BY <1>0, <2>1 DEF SilentInv
  <2>7. ScanInv' BY <1>0, <2>1, <2>3 DEF ScanInv
  <2> QED BY <2>5, <2>6, <2>7 DEF IInv
<1>10. CASE AdvEnds \/ PeerConnects
  <2>1. /\ Report("terminated") \/ Report("connected")
        /\ air' = NoSet /\ link' \in Sets \union {NoSet}
        /\ UNCHANGED <<isAdvertising, setsAdvertising, setCurrent, setNext, timer,
                       isScanning, scanner, connSet, pc, failed>>
    BY <1>0, <1>10 DEF AdvEnds, PeerConnects, scanVars, linkVars, TypeOK
  <2>2. /\ Waiting => Waiting'
        /\ reports' \in Seq(Events) /\ Len(reports') <= MaxReports
    BY <1>0, <2>1, Reported DEF Events
  <2>3. TypeOK' BY <1>0, <2>1, <2>2 DEF TypeOK, Events
  <2>4. CountMatches' BY <1>0, <2>1, <2>3, SameCount
  <2>5. SilentInv' BY <1>0, <2>1 DEF SilentInv
  <2>6. ScanInv' BY <1>0, <2>1, <2>2 DEF ScanInv, Waiting
  <2> QED BY <2>4, <2>5, <2>6 DEF IInv
<1>11. CASE AdvReport
  <2>1. /\ scanner = "on" /\ scanner' = "paused" /\ Report("report")
        /\ UNCHANGED <<isAdvertising, setsAdvertising, setCurrent, setNext, timer, air,
                       isScanning, link, connSet, pc, failed>>
    BY <1>11 DEF AdvReport, advVars, linkVars
  <2>2. Waiting' /\ reports' \in Seq(Events) /\ Len(reports') <= MaxReports
    BY <1>0, <2>1, Reported DEF Events
  <2>3. TypeOK' BY <1>0, <2>1, <2>2 DEF TypeOK, Events
  <2>4. CountMatches' BY <1>0, <2>1, <2>3, SameCount
  <2>5. SilentInv' BY <1>0, <2>1 DEF SilentInv
  <2>6. ScanInv' BY <2>1, <2>2 DEF ScanInv, Waiting
  <2> QED BY <2>4, <2>5, <2>6 DEF IInv
<1>12. CASE OnDisconnected
  <2>1. /\ link' = NoSet /\ connSet' = NoSet
        /\ UNCHANGED <<isAdvertising, setsAdvertising, setCurrent, setNext, timer, air,
                       isScanning, scanner, reports, pc, failed>>
    BY <1>12 DEF OnDisconnected, advVars, scanVars
  <2>2. TypeOK' BY <1>0, <2>1 DEF TypeOK
  <2>3. CountMatches' BY <1>0, <2>1, <2>2, SameCount
  <2>4. SilentInv' /\ ScanInv' BY <1>0, <2>1 DEF SilentInv, ScanInv
  <2> QED BY <2>3, <2>4 DEF IInv
<1>13. CASE UNCHANGED vars
  <2>1. UNCHANGED <<isAdvertising, setsAdvertising, setCurrent, setNext, timer, air,
                    isScanning, scanner, link, connSet, reports, pc, failed>>
    BY <1>13 DEF vars, advVars, scanVars, linkVars
  <2>2. TypeOK' BY <1>0, <2>1 DEF TypeOK
  <2>3. CountMatches' BY <1>0, <2>1, <2>2, SameCount
  <2>4. SilentInv' /\ ScanInv' BY <1>0, <2>1 DEF SilentInv, ScanInv
  <2> QED BY <2>3, <2>4 DEF IInv
<1> QED
  BY <1>1, <1>2, <1>3, <1>4, <1>5, <1>6, <1>7, <1>8, <1>9, <1>10, <1>11, <1>12, <1>13
     DEF Next, MainStep, HandleStep

LEMMA Inductive == Spec => []IInv
BY InitIInv, StepIInv, PTL DEF Spec

(* The count of advertising sets follows their flags, whatever the order   *)
(* of starts, stops, connections and rotations (set_start, set_stop).      *)
THEOREM CountFollowsFlags == Spec => []CountMatches
<1>1. IInv => CountMatches BY DEF IInv
<1> QED BY Inductive, <1>1, PTL

(* After the last set_stop nothing is on the air and the timer is off:     *)
(* neither a pending event nor the interrupt starts the handle again.      *)
THEOREM StopIsSilent == Spec => []SilentWhenStopped
<1>1. IInv => SilentWhenStopped BY DEF IInv, SilentInv, SilentWhenStopped
<1> QED BY Inductive, <1>1, PTL

(* A scan that was asked for goes on, or a report it was paused for is     *)
(* still to be handled, however often addresses are set in between         *)
(* (advertising_start, ble_evt_handler).                                   *)
THEOREM ScanKept == Spec => []ScanGoesOn
<1>1. IInv => ScanGoesOn BY DEF IInv, ScanInv, ScanGoesOn
<1> QED BY Inductive, <1>1, PTL

------------------------------------------------------------------------------
(* The L2CAP server, for any number of buffers, credits and events not yet *)
(* handled, and both ways a link may end.                                  *)

(* What comes of a link is handled before the next: its end is the last    *)
(* event, and nothing is left when the handle is invalid.                  *)
LinkInv ==
    /\ ~ handle => sdLink = "none" /\ events = <<>>
    /\ sdLink # "none" => handle /\ \A i \in 1 .. Len(events) : events[i][1] # "disconnected"
    /\ sdLink = "none" => chan = "none"
    /\ handle /\ sdLink = "none" => events # <<>> /\ events[Len(events)][1] = "disconnected"
    /\ \A i \in 1 .. Len(events) : events[i][1] = "disconnected" => i = Len(events)

(* A channel that is set up or open has its cid, and no end to be handled. *)
ChannelInv ==
    /\ chan = "requested" => events # <<>> /\ events[Len(events)][1] = "request"
    /\ chan = "setup" => events = <<>>
    /\ chan \in {"setup", "open", "releasing"} =>
          /\ cid
          /\ \A i \in 1 .. Len(events) :
                events[i][1] \notin {"request", "refused", "released", "disconnected"}
    /\ chan \in {"none", "requested"} => sdTx = <<>> /\ sdRx = <<>>

(* The order of the events: a channel's set-up first, its end, the next    *)
(* channel's request, the end of the link.  Those of a channel find its    *)
(* cid valid.                                                              *)
EventInv ==
    \A i \in 1 .. Len(events) :
        /\ events[i][1] = "request" =>
              /\ \A j \in 1 .. Len(events) : j > i => events[j][1] = "disconnected"
              /\ sdLink # "none" => chan = "requested"
        /\ events[i][1] \in {"refused", "released"} =>
              \A j \in 1 .. Len(events) : j > i => events[j][1] \in {"request", "disconnected"}
        /\ events[i][1] \in {"setup", "refused"} => i = 1 /\ ~ open
        /\ events[i][1] = "setup" => \A j \in 1 .. Len(events) : events[j][1] # "credit"
        /\ events[i][1] \notin {"request", "disconnected"} => cid

OpenInv ==
    /\ open => cid /\ chan # "setup"
    /\ chan = "open" /\ ~ open => events # <<>> /\ events[1][1] = "setup"
    /\ ~ open => sdTx = <<>> /\ \A i \in 1 .. Len(events) : events[i][1] # "tx"

(* The next k of the queue q are done with; s is behind them in q.         *)
Behind(q, s, k) ==
    /\ k + Len(s) <= Len(q)
    /\ \A i \in 1 .. Len(s) : \E j \in 1 .. Len(q) : j >= k + i /\ q[j] = s[i]

HeldInv ==
    /\ Behind(txBufs, sdTx, WaitingEvents("tx"))
    /\ Behind(rxBufs, sdRx, WaitingEvents("rx"))

(* No credit is counted twice.                                             *)
CreditInv ==
    credits + WaitingEvents("tx") + Len(sdTx) + WaitingEvents("credit") <= MaxCredits

Order == LinkInv /\ ChannelInv /\ EventInv /\ OpenInv

(* A cid that is taken has its channel, or the end of it is to be handled. *)
TakenInv ==
    cid => \/ chan \in {"setup", "open", "releasing"}
           \/ \E i \in 1 .. Len(events) :
                 events[i][1] \in {"refused", "released", "disconnected"}

(* The port's own queue of an open channel is full.                        *)
RxFilled == open /\ chan = "open" => Len(rxBufs) >= RxBufMax

(* The queues, the credits and what the SoftDevice holds of them.          *)
Stock ==
    /\ L2capTypeOK
    /\ HeldInv /\ CreditInv /\ SendsAccounted /\ RxFilled
    /\ failure \notin {"tx_empty", "rx_empty"}

L2capInv == Order /\ TakenInv /\ Stock

------------------------------------------------------------------------------
(* Events, counted.                                                        *)

Count(q, type) == Cardinality({i \in 1 .. Len(q) : q[i][1] = type})

LEMMA CountIsNat ==
    \A q \in Seq(Event) : \A type :
        IsFiniteSet({i \in 1 .. Len(q) : q[i][1] = type}) /\ Count(q, type) \in Nat
<1> TAKE q \in Seq(Event)
<1> TAKE type
<1>1. IsFiniteSet(1 .. Len(q)) BY FS_Interval
<1>2. {i \in 1 .. Len(q) : q[i][1] = type} \in SUBSET (1 .. Len(q)) OBVIOUS
<1> QED BY <1>1, <1>2, FS_Subset, FS_CardinalityType DEF Count

LEMMA CountOfNone ==
    \A q \in Seq(Event) : \A type :
        Count(q, type) = 0 <=> \A i \in 1 .. Len(q) : q[i][1] # type
<1> TAKE q \in Seq(Event)
<1> TAKE type
<1> DEFINE P == {i \in 1 .. Len(q) : q[i][1] = type}
<1>1. IsFiniteSet(P) BY CountIsNat
<1>2. Cardinality(P) = 0 <=> P = {} BY <1>1, FS_EmptySet
<1> QED BY <1>2 DEF Count

LEMMA CountAppended ==
    \A q \in Seq(Event) : \A x \in Event : \A type :
        Count(Append(q, x), type) = Count(q, type) + (IF x[1] = type THEN 1 ELSE 0)
<1> TAKE q \in Seq(Event)
<1> TAKE x \in Event
<1> TAKE type
<1> DEFINE n == Len(q) + 1
<1> DEFINE P == {i \in 1 .. Len(q) : q[i][1] = type}
<1> DEFINE R == {i \in 1 .. Len(Append(q, x)) : Append(q, x)[i][1] = type}
<1>1. /\ Len(q) \in Nat /\ Len(Append(q, x)) = n /\ Append(q, x)[n] = x
      /\ \A i \in 1 .. Len(q) : Append(q, x)[i] = q[i]
  OBVIOUS
<1>2. IsFiniteSet(P) /\ Cardinality(P) \in Nat BY CountIsNat DEF Count
<1>c. Count(q, type) = Cardinality(P) /\ Count(Append(q, x), type) = Cardinality(R) BY DEF Count
<1>3. CASE x[1] = type
  <2>1. R = P \union {n} /\ n \notin P BY <1>1, <1>3
  <2> HIDE DEF P, R
  <2>2. Cardinality(R) = Cardinality(P) + 1 BY <1>2, <2>1, FS_AddElement
  <2> QED BY <1>c, <1>3, <2>2
<1>4. CASE x[1] # type
  <2>1. R = P BY <1>1, <1>4
  <2> HIDE DEF P, R
  <2> QED BY <1>2, <1>c, <1>4, <2>1
<1> QED BY <1>3, <1>4

LEMMA CountShortened ==
    \A q \in Seq(Event) : \A type : q # <<>> =>
        Count(Tail(q), type) = Count(q, type) - (IF q[1][1] = type THEN 1 ELSE 0)
<1> TAKE q \in Seq(Event)
<1> TAKE type
<1> HAVE q # <<>>
<1> DEFINE P == {i \in 1 .. Len(q) : q[i][1] = type}
<1> DEFINE R == {i \in 1 .. Len(Tail(q)) : Tail(q)[i][1] = type}
<1> DEFINE rest == P \ {1}
<1> DEFINE shift == [i \in R |-> i + 1]
<1>1. /\ Len(q) \in Nat \ {0} /\ Len(Tail(q)) = Len(q) - 1
      /\ \A i \in 1 .. Len(q) - 1 : Tail(q)[i] = q[i + 1]
      /\ Tail(q) \in Seq(Event)
  OBVIOUS
<1>2. IsFiniteSet(P) /\ IsFiniteSet(R) /\ Cardinality(P) \in Nat
  BY <1>1, CountIsNat DEF Count
<1>c. Count(q, type) = Cardinality(P) /\ Count(Tail(q), type) = Cardinality(R) BY DEF Count
<1>3. shift \in Bijection(R, rest)
  <2>1. shift \in [R -> rest]
    <3>1. \A i \in R : i + 1 \in rest BY <1>1
    <3> QED BY <3>1
  <2>2. \A i, j \in R : shift[i] = shift[j] => i = j OBVIOUS
  <2>3. \A t \in rest : \E i \in R : shift[i] = t
    <3>1. \A t \in rest : t - 1 \in R /\ (t - 1) + 1 = t BY <1>1
    <3> QED BY <3>1
  <2> QED BY <2>1, <2>2, <2>3, Fun_IsBij
<1>4. Cardinality(rest) = Cardinality(R)
  <2>1. ExistsBijection(R, rest) BY <1>3 DEF ExistsBijection
  <2>2. IsFiniteSet(rest) BY <1>2, FS_Subset
  <2> QED BY <1>2, <2>1, <2>2, FS_Bijection
<1>5. CASE q[1][1] = type
  <2>1. 1 \in P BY <1>1, <1>5
  <2>2. Cardinality(rest) = Cardinality(P) - 1 BY <1>2, <2>1, FS_RemoveElement
  <2> HIDE DEF P, R, rest
  <2> QED BY <1>c, <1>4, <1>5, <2>2
<1>6. CASE q[1][1] # type
  <2>1. rest = P BY <1>6
  <2> HIDE DEF P, R, rest
  <2> QED BY <1>2, <1>c, <1>4, <1>6, <2>1
<1> QED BY <1>5, <1>6

LEMMA WaitingIsCount == \A type : WaitingEvents(type) = Count(events, type)
BY DEF WaitingEvents, Count

(* An event x is queued. *)
LEMMA Emitted ==
    ASSUME events \in Seq(Event), NEW x \in Event, Emit(<<x>>)
    PROVE  /\ events' \in Seq(Event) /\ Len(events') = Len(events) + 1
           /\ Len(events') <= MaxEvents
           /\ events'[Len(events) + 1] = x
           /\ \A i \in 1 .. Len(events) : events'[i] = events[i]
           /\ \A type : WaitingEvents(type)' =
                 WaitingEvents(type) + (IF x[1] = type THEN 1 ELSE 0)
<1>1. events' = Append(events, x) /\ Len(events) + 1 <= MaxEvents BY DEF Emit
<1>2. \A type : WaitingEvents(type)' = Count(events', type) BY DEF WaitingEvents, Count
<1>3. \A type : Count(events', type) = Count(events, type) + (IF x[1] = type THEN 1 ELSE 0)
  BY <1>1, CountAppended
<1> QED BY <1>1, <1>2, <1>3, WaitingIsCount

(* Both x and then y are queued. *)
LEMMA EmittedTwo ==
    ASSUME events \in Seq(Event), NEW x \in Event, NEW y \in Event, Emit(<<x, y>>)
    PROVE  /\ events' \in Seq(Event) /\ Len(events') = Len(events) + 2
           /\ Len(events') <= MaxEvents
           /\ events'[Len(events) + 1] = x /\ events'[Len(events) + 2] = y
           /\ \A i \in 1 .. Len(events) : events'[i] = events[i]
           /\ \A type : WaitingEvents(type)' = WaitingEvents(type)
                 + (IF x[1] = type THEN 1 ELSE 0) + (IF y[1] = type THEN 1 ELSE 0)
<1>1. events' = Append(Append(events, x), y) /\ Len(events) + 2 <= MaxEvents BY DEF Emit
<1>2. \A type : WaitingEvents(type)' = Count(events', type) BY DEF WaitingEvents, Count
<1>3. ASSUME NEW type
      PROVE  Count(events', type) = Count(events, type)
                 + (IF x[1] = type THEN 1 ELSE 0) + (IF y[1] = type THEN 1 ELSE 0)
  <2> DEFINE q == Append(events, x)
  <2>1. q \in Seq(Event) /\ events' = Append(q, y) BY <1>1
  <2>2. Count(q, type) = Count(events, type) + (IF x[1] = type THEN 1 ELSE 0)
    BY CountAppended
  <2> HIDE DEF q
  <2>3. Count(events', type) = Count(q, type) + (IF y[1] = type THEN 1 ELSE 0)
    BY <2>1, CountAppended
  <2> QED BY <2>2, <2>3
<1>4. /\ events' \in Seq(Event) /\ Len(events') = Len(events) + 2
      /\ events'[Len(events) + 1] = x /\ events'[Len(events) + 2] = y
      /\ \A i \in 1 .. Len(events) : events'[i] = events[i]
  BY <1>1
<1> QED BY <1>1, <1>2, <1>3, <1>4, WaitingIsCount

(* Main takes the first event. *)
LEMMA Taken ==
    ASSUME events \in Seq(Event), events # <<>>, events' = Tail(events)
    PROVE  /\ events' \in Seq(Event) /\ Len(events) \in Nat \ {0}
           /\ Len(events') = Len(events) - 1
           /\ events[1] \in Event /\ Head(events) = events[1]
           /\ \A i \in 1 .. Len(events') : events'[i] = events[i + 1] /\ i + 1 \in 1 .. Len(events)
           /\ (events' = <<>>) <=> (Len(events) = 1)
           /\ Len(events) > 1 => /\ events'[Len(events')] = events[Len(events)]
                                 /\ events'[1] = events[2]
           /\ \A type : WaitingEvents(type)' =
                 WaitingEvents(type) - (IF events[1][1] = type THEN 1 ELSE 0)
<1>1. \A type : WaitingEvents(type)' = Count(events', type) BY DEF WaitingEvents, Count
<1>2. \A type : Count(events', type) = Count(events, type) - (IF events[1][1] = type THEN 1 ELSE 0)
  BY CountShortened
<1>3. /\ Len(events) \in Nat \ {0} /\ Len(events') = Len(events) - 1
      /\ events[1] \in Event /\ Head(events) = events[1] /\ events' \in Seq(Event)
      /\ \A i \in 1 .. Len(events') : events'[i] = events[i + 1] /\ i + 1 \in 1 .. Len(events)
  OBVIOUS
<1>4. /\ (events' = <<>>) <=> (Len(events) = 1)
      /\ Len(events) > 1 => 1 \in 1 .. Len(events') /\ Len(events') \in 1 .. Len(events')
  BY <1>3
<1>5. Len(events) > 1 => /\ events'[Len(events')] = events[Len(events)]
                         /\ events'[1] = events[2]
  BY <1>3, <1>4
<1> QED BY <1>1, <1>2, <1>3, <1>4, <1>5, WaitingIsCount

LEMMA WaitingIsNat ==
    ASSUME events \in Seq(Event)
    PROVE  \A type : /\ WaitingEvents(type) \in Nat
                     /\ WaitingEvents(type) = 0 <=>
                           \A i \in 1 .. Len(events) : events[i][1] # type
BY CountIsNat, CountOfNone, WaitingIsCount

------------------------------------------------------------------------------
(* Queues and what is behind in them.                                      *)

LEMMA BehindAll ==
    ASSUME NEW q \in Seq(Buffers), NEW s \in Seq(Buffers), NEW k \in Nat, Behind(q, s, k)
    PROVE  ToSet(s) \subseteq ToSet(q)
BY DEF Behind, ToSet

LEMMA BehindPop ==
    ASSUME NEW q \in Seq(Buffers), NEW s \in Seq(Buffers), NEW k \in Nat, k > 0, Behind(q, s, k)
    PROVE  /\ q # <<>> /\ Tail(q) \in Seq(Buffers) /\ Len(Tail(q)) = Len(q) - 1
           /\ Behind(Tail(q), s, k - 1)
<1>1. /\ Len(q) > 0 /\ Len(q) \in Nat /\ Len(s) \in Nat BY DEF Behind
<1>2. /\ q # <<>> /\ Tail(q) \in Seq(Buffers) /\ Len(Tail(q)) = Len(q) - 1
      /\ \A j \in 1 .. Len(q) - 1 : Tail(q)[j] = q[j + 1]
  BY <1>1
<1>3. ASSUME NEW i \in 1 .. Len(s)
      PROVE  \E j \in 1 .. Len(Tail(q)) : j >= (k - 1) + i /\ Tail(q)[j] = s[i]
  <2>1. PICK j \in 1 .. Len(q) : j >= k + i /\ q[j] = s[i] BY DEF Behind
  <2>2. j - 1 \in 1 .. Len(Tail(q)) /\ Tail(q)[j - 1] = q[j] /\ j - 1 >= (k - 1) + i
    BY <1>1, <1>2, <2>1
  <2> QED BY <2>1, <2>2
<1>4. (k - 1) + Len(s) <= Len(Tail(q)) BY <1>1, <1>2 DEF Behind
<1> QED BY <1>2, <1>3, <1>4 DEF Behind

LEMMA BehindDone ==
    ASSUME NEW q \in Seq(Buffers), NEW s \in Seq(Buffers), NEW k \in Nat, s # <<>>, Behind(q, s, k)
    PROVE  /\ Tail(s) \in Seq(Buffers) /\ Len(Tail(s)) = Len(s) - 1 /\ Len(s) \in Nat \ {0}
           /\ Behind(q, Tail(s), k + 1)
<1>1. /\ Len(s) \in Nat \ {0} /\ Tail(s) \in Seq(Buffers) /\ Len(Tail(s)) = Len(s) - 1
      /\ \A i \in 1 .. Len(s) - 1 : Tail(s)[i] = s[i + 1]
      /\ Len(q) \in Nat
  OBVIOUS
<1>2. ASSUME NEW i \in 1 .. Len(Tail(s))
      PROVE  \E j \in 1 .. Len(q) : j >= (k + 1) + i /\ q[j] = Tail(s)[i]
  <2>1. i + 1 \in 1 .. Len(s) /\ Tail(s)[i] = s[i + 1] BY <1>1
  <2>2. PICK j \in 1 .. Len(q) : j >= k + (i + 1) /\ q[j] = s[i + 1] BY <2>1 DEF Behind
  <2> QED BY <2>1, <2>2
<1>3. (k + 1) + Len(Tail(s)) <= Len(q) BY <1>1 DEF Behind
<1> QED BY <1>1, <1>2, <1>3 DEF Behind

LEMMA BehindGone ==
    ASSUME NEW q \in Seq(Buffers), NEW s \in Seq(Buffers), NEW k \in Nat, Behind(q, s, k)
    PROVE  Behind(q, <<>>, k)
<1>1. Len(q) \in Nat /\ Len(s) \in Nat /\ Len(<<>>) = 0 OBVIOUS
<1> QED BY <1>1 DEF Behind

(* Buffers put at the end, of which the first are held. *)
LEMMA BehindMore ==
    ASSUME NEW q \in Seq(Buffers), NEW s \in Seq(Buffers), NEW k \in Nat, Behind(q, s, k),
           NEW a \in Seq(Buffers), NEW h \in Seq(Buffers), Len(h) <= Len(a),
           \A i \in 1 .. Len(h) : h[i] = a[i]
    PROVE  Behind(q \o a, s \o h, k)
<1>1. /\ {Len(q), Len(s), Len(a), Len(h)} \subseteq Nat
      /\ Len(q \o a) = Len(q) + Len(a) /\ Len(s \o h) = Len(s) + Len(h)
  OBVIOUS
<1>2. k + Len(s) <= Len(q) BY DEF Behind
<1>3. k + Len(s \o h) <= Len(q \o a) BY <1>1, <1>2
<1>4. ASSUME NEW i \in 1 .. Len(s \o h)
      PROVE  \E j \in 1 .. Len(q \o a) : j >= k + i /\ (q \o a)[j] = (s \o h)[i]
  <2>1. CASE i <= Len(s)
    <3>1. i \in 1 .. Len(s) /\ (s \o h)[i] = s[i] BY <1>1, <2>1
    <3>2. PICK j \in 1 .. Len(q) : j >= k + i /\ q[j] = s[i] BY <3>1 DEF Behind
    <3>3. j \in 1 .. Len(q \o a) /\ (q \o a)[j] = q[j] BY <1>1
    <3> QED BY <3>1, <3>2, <3>3
  <2>2. CASE i > Len(s)
    <3> DEFINE m == i - Len(s)
    <3>1. m \in 1 .. Len(h) /\ m \in 1 .. Len(a) BY <1>1, <2>2
    <3>2. (s \o h)[i] = h[m] BY <1>1, <2>2
    <3>3. Len(q) + m \in 1 .. Len(q \o a) /\ Len(q) + m >= k + i BY <1>1, <1>2, <3>1
    <3>4. (q \o a)[Len(q) + m] = a[m] BY <1>1, <3>1
    <3> QED BY <3>1, <3>2, <3>3, <3>4
  <2> QED BY <1>1, <2>1, <2>2
<1> QED BY <1>3, <1>4 DEF Behind

------------------------------------------------------------------------------
(* What handing over does, whatever it is called with: sent of the buffers *)
(* of q leave it, and the SoftDevice accepts as many of them.              *)
HandsOver(q, n, sent, accepted) ==
    /\ sent <= n /\ sent <= Len(q) /\ accepted <= sent
    /\ pendingTx' \in Seq(Buffers) /\ Len(pendingTx') = Len(q) - sent
    /\ credits' = n - sent
    /\ txBufs' \in Seq(Buffers) /\ sdTx' \in Seq(Buffers)
    /\ Len(sdTx') = Len(sdTx) + accepted /\ Len(sdTx') <= TxBufMax
    /\ \A k \in Nat : Behind(txBufs, sdTx, k) => Behind(txBufs', sdTx', k)
    /\ chan # "open" => sdTx' = sdTx
    /\ closing' \in BOOLEAN /\ (~ closing' => accepted = sent)
    /\ \/ chan' = chan
       \/ chan = "open" /\ chan' = "releasing"
    /\ \/ sdLink' = sdLink
       \/ sdLink = "up" /\ sdLink' = "ending"
    /\ sdRx' = sdRx

LEMMA HandedOver ==
    ASSUME L2capTypeOK, NEW q \in Seq(Buffers), NEW n \in Nat,
           \/ TrySendOrClose(q, n, TRUE)
           \/ TrySendOrClose(q, n, FALSE)
           \/ TrySendOrClose(q, n, closing)
    PROVE  \E sent, accepted \in Nat : HandsOver(q, n, sent, accepted)
<1> DEFINE sent     == Smaller(Len(q), n)
<1> DEFINE accepted == IF chan = "open" THEN Smaller(sent, TxBufMax - Len(sdTx)) ELSE 0
<1>0. /\ txBufs \in Seq(Buffers) /\ sdTx \in Seq(Buffers)
      /\ Len(sdTx) \in Nat /\ Len(sdTx) <= TxBufMax /\ Len(q) \in Nat /\ TxBufMax \in Nat
  BY BufferAssumption DEF L2capTypeOK
<1>1. sent \in Nat /\ sent <= n /\ sent <= Len(q) BY <1>0 DEF Smaller
<1>2. accepted \in Nat /\ accepted <= sent /\ Len(sdTx) + accepted <= TxBufMax
  BY <1>0, <1>1 DEF Smaller
<1>3. /\ pendingTx' = SubSeq(q, sent + 1, Len(q)) /\ credits' = n - sent
      /\ txBufs' = txBufs \o SubSeq(q, 1, sent)
      /\ sdTx' = sdTx \o SubSeq(q, 1, accepted)
      /\ accepted < sent => closing'
      /\ closing' \in BOOLEAN
      /\ sdRx' = sdRx
  BY DEF TrySendOrClose, L2capTypeOK
<1>4. /\ chan' = chan \/ (chan = "open" /\ chan' = "releasing")
      /\ sdLink' = sdLink \/ (sdLink = "up" /\ sdLink' = "ending")
  BY DEF TrySendOrClose
<1>5. chan # "open" => accepted = 0 OBVIOUS
<1> HIDE DEF sent, accepted
<1>6. /\ SubSeq(q, sent + 1, Len(q)) \in Seq(Buffers)
      /\ Len(SubSeq(q, sent + 1, Len(q))) = Len(q) - sent
  BY <1>0, <1>1
<1>7. /\ SubSeq(q, 1, sent) \in Seq(Buffers) /\ Len(SubSeq(q, 1, sent)) = sent
      /\ \A i \in 1 .. sent : SubSeq(q, 1, sent)[i] = q[i]
  BY <1>0, <1>1
<1>8. /\ SubSeq(q, 1, accepted) \in Seq(Buffers) /\ Len(SubSeq(q, 1, accepted)) = accepted
      /\ \A i \in 1 .. accepted : SubSeq(q, 1, accepted)[i] = q[i]
  BY <1>0, <1>1, <1>2
<1>9. ASSUME NEW k \in Nat, Behind(txBufs, sdTx, k) PROVE Behind(txBufs', sdTx', k)
  <2> DEFINE a == SubSeq(q, 1, sent)
  <2> DEFINE h == SubSeq(q, 1, accepted)
  <2>1. a \in Seq(Buffers) /\ h \in Seq(Buffers) /\ Len(h) <= Len(a)
    BY <1>2, <1>7, <1>8
  <2>2. \A i \in 1 .. Len(h) : h[i] = a[i] BY <1>1, <1>2, <1>7, <1>8
  <2>3. txBufs' = txBufs \o a /\ sdTx' = sdTx \o h BY <1>3
  <2> HIDE DEF a, h
  <2> QED BY <1>0, <1>9, <2>1, <2>2, <2>3, BehindMore
<1>10. /\ txBufs' \in Seq(Buffers) /\ sdTx' \in Seq(Buffers)
       /\ Len(sdTx') = Len(sdTx) + accepted
  BY <1>0, <1>3, <1>7, <1>8
<1>11. chan # "open" => sdTx' = sdTx
  <2> SUFFICES ASSUME chan # "open" PROVE sdTx' = sdTx
    OBVIOUS
  <2>1. SubSeq(q, 1, accepted) = <<>> BY <1>5, <1>8
  <2>2. sdTx' = sdTx \o <<>> BY <1>3, <2>1
  <2> QED BY <1>0, <2>2
<1>12. ~ closing' => accepted = sent BY <1>1, <1>2, <1>3
<1> QED BY <1>1, <1>2, <1>3, <1>4, <1>6, <1>9, <1>10, <1>11, <1>12 DEF HandsOver

------------------------------------------------------------------------------
(* The order of events is kept by every step.                              *)

(* Steps of main that leave the session alone and take at most an event of *)
(* an open channel.                                                        *)
LEMMA OrderQuiet ==
    ASSUME events \in Seq(Event), Order,
           UNCHANGED <<handle, cid, open>>,
           chan' = chan \/ (chan = "open" /\ chan' = "releasing"),
           sdLink' = sdLink \/ (sdLink = "up" /\ sdLink' = "ending"),
           chan # "open" => UNCHANGED <<sdTx, sdRx>>,
           ~ open => UNCHANGED sdTx,
           \/ events' = events
           \/ /\ events # <<>> /\ events' = Tail(events)
              /\ events[1][1] \in {"credit", "tx", "rx"} \/ (events[1][1] = "setup" /\ chan # "open")
    PROVE  Order'
<1>0. LinkInv /\ ChannelInv /\ EventInv /\ OpenInv BY DEF Order
<1>1. CASE events' = events
  <2>1. LinkInv' BY <1>0, <1>1 DEF LinkInv
  <2>2. ChannelInv' BY <1>0, <1>1 DEF ChannelInv
  <2>3. EventInv' BY <1>0, <1>1 DEF EventInv, LinkInv
  <2>4. OpenInv' BY <1>0, <1>1 DEF OpenInv
  <2> QED BY <2>1, <2>2, <2>3, <2>4 DEF Order
<1>2. CASE /\ events # <<>> /\ events' = Tail(events)
           /\ events[1][1] \in {"credit", "tx", "rx"} \/ (events[1][1] = "setup" /\ chan # "open")
  <2>1. /\ Len(events) \in Nat \ {0} /\ Len(events') = Len(events) - 1
        /\ \A i \in 1 .. Len(events') : events'[i] = events[i + 1] /\ i + 1 \in 1 .. Len(events)
        /\ (events' = <<>>) <=> (Len(events) = 1)
        /\ Len(events) > 1 => /\ events'[Len(events')] = events[Len(events)]
                              /\ events'[1] = events[2]
        /\ events # <<>>
    BY <1>2, Taken
  <2>2. /\ events[1][1] \in {"credit", "tx", "rx"} \/ (events[1][1] = "setup" /\ chan # "open")
        /\ events[1][1] \notin {"request", "disconnected"}
    BY <1>2
  <2>3. LinkInv'
    <3>1. handle BY <1>0, <2>1 DEF LinkInv
    <3>2. \A i \in 1 .. Len(events') :
              /\ sdLink # "none" => events'[i][1] # "disconnected"
              /\ events'[i][1] = "disconnected" => i = Len(events')
      BY <1>0, <2>1 DEF LinkInv
    <3>3. sdLink = "none" =>
              Len(events) > 1 /\ events'[Len(events')][1] = "disconnected"
      BY <1>0, <2>1, <2>2, <3>1 DEF LinkInv
    <3>4. sdLink' = "none" => sdLink = "none" /\ chan' = "none"
      BY <1>0 DEF LinkInv
    <3>5. sdLink' # "none" => sdLink # "none" OBVIOUS
    <3> QED BY <2>1, <3>1, <3>2, <3>3, <3>4, <3>5 DEF LinkInv
  <2>4. ChannelInv'
    <3>1. chan' = "requested" => events' # <<>> /\ events'[Len(events')][1] = "request"
      BY <1>0, <2>1, <2>2 DEF ChannelInv
    <3>2. chan' # "setup" BY <1>0, <2>1 DEF ChannelInv
    <3>3. chan' \in {"open", "releasing"} =>
              /\ cid'
              /\ \A i \in 1 .. Len(events') :
                    events'[i][1] \notin {"request", "refused", "released", "disconnected"}
      BY <1>0, <2>1 DEF ChannelInv
    <3>4. chan' \in {"none", "requested"} => sdTx' = <<>> /\ sdRx' = <<>>
      BY <1>0 DEF ChannelInv
    <3> QED BY <3>1, <3>2, <3>3, <3>4 DEF ChannelInv
  <2>5. EventInv'
    <3> SUFFICES ASSUME NEW i \in 1 .. Len(events')
                 PROVE  /\ events'[i][1] = "request" =>
                              /\ \A j \in 1 .. Len(events') : j > i => events'[j][1] = "disconnected"
                              /\ sdLink' # "none" => chan' = "requested"
                        /\ events'[i][1] \in {"refused", "released"} =>
                              \A j \in 1 .. Len(events') :
                                  j > i => events'[j][1] \in {"request", "disconnected"}
                        /\ events'[i][1] \in {"setup", "refused"} => i = 1 /\ ~ open'
                        /\ events'[i][1] = "setup" =>
                              \A j \in 1 .. Len(events') : events'[j][1] # "credit"
                        /\ events'[i][1] \notin {"request", "disconnected"} => cid'
      BY DEF EventInv
    <3>1. i + 1 \in 1 .. Len(events) /\ events'[i] = events[i + 1] /\ i + 1 # 1 BY <2>1
    <3>2. \A j \in 1 .. Len(events') :
             j > i => j + 1 \in 1 .. Len(events) /\ j + 1 > i + 1 /\ events'[j] = events[j + 1]
      BY <2>1
    <3>3. events[i + 1][1] = "request" => (sdLink # "none" => chan = "requested")
      BY <1>0, <3>1 DEF EventInv
    <3>4. events[i + 1][1] = "request" =>
             \A j \in 1 .. Len(events') : j > i => events'[j][1] = "disconnected"
      BY <1>0, <3>1, <3>2 DEF EventInv
    <3>5. events[i + 1][1] \in {"refused", "released"} =>
             \A j \in 1 .. Len(events') : j > i => events'[j][1] \in {"request", "disconnected"}
      BY <1>0, <3>1, <3>2 DEF EventInv
    <3>6. /\ events[i + 1][1] \notin {"setup", "refused"}
          /\ events[i + 1][1] \notin {"request", "disconnected"} => cid'
      BY <1>0, <3>1 DEF EventInv
    <3>7. events[i + 1][1] = "request" => (sdLink' # "none" => chan' = "requested")
      BY <3>3
    <3> QED BY <3>1, <3>4, <3>5, <3>6, <3>7
  <2>6. OpenInv'
    <3>1. chan = "open" /\ ~ open => FALSE
      BY <1>0, <2>1, <2>2 DEF OpenInv
    <3>2. ~ open => \A i \in 1 .. Len(events') : events'[i][1] # "tx"
      BY <1>0, <2>1 DEF OpenInv
    <3> QED BY <1>0, <3>1, <3>2 DEF OpenInv
  <2> QED BY <2>3, <2>4, <2>5, <2>6 DEF Order
<1> QED BY <1>1, <1>2

LEMMA OrderSending ==
    ASSUME L2capTypeOK, Order, Send \/ Close \/ OnCredits
    PROVE  Order'
<1>0. LinkInv /\ ChannelInv /\ EventInv /\ OpenInv BY DEF Order
<1>e. events \in Seq(Event) BY DEF L2capTypeOK
<1>1. /\ UNCHANGED <<handle, cid, open>>
      /\ chan' = chan \/ (chan = "open" /\ chan' = "releasing")
      /\ sdLink' = sdLink \/ (sdLink = "up" /\ sdLink' = "ending")
      /\ sdRx' = sdRx
  BY DEF Send, Close, OnCredits, TrySendOrClose
<1>2. chan # "open" => sdTx' = sdTx
  <2>1. /\ pendingTx \in Seq(Buffers) /\ credits \in Nat /\ credits + 1 \in Nat
        /\ closing \in BOOLEAN
        /\ \A b \in Buffers : Append(pendingTx, b) \in Seq(Buffers)
    BY BufferAssumption DEF L2capTypeOK
  <2>2. CASE Send BY <2>1, <2>2, HandedOver DEF Send, Free, HandsOver
  <2>3. CASE Close BY <2>1, <2>3, HandedOver DEF Close, HandsOver
  <2>4. CASE OnCredits BY <2>1, <2>4, HandedOver DEF OnCredits, HandsOver
  <2> QED BY <2>2, <2>3, <2>4
<1>3. \/ events' = events /\ open
      \/ /\ events # <<>> /\ events[1][1] = "credit" /\ events' = Tail(events)
  <2>1. CASE Send BY <2>1 DEF Send
  <2>2. CASE Close BY <2>2 DEF Close
  <2>3. CASE OnCredits BY <1>e, <2>3, Taken DEF OnCredits, HandleEvent
  <2> QED BY <2>1, <2>2, <2>3
<1>4. ~ open => sdTx' = sdTx
  <2>1. ASSUME ~ open, chan = "open" PROVE events[1][1] = "setup"
    BY <1>0, <2>1 DEF OpenInv
  <2> QED BY <1>2, <1>3, <2>1
<1> QED BY <1>e, <1>1, <1>2, <1>3, <1>4, OrderQuiet

LEMMA OrderHandled ==
    ASSUME L2capTypeOK, Order, OnTx \/ OnRx \/ OnSetup
    PROVE  Order'
<1>0. LinkInv /\ ChannelInv /\ EventInv /\ OpenInv BY DEF Order
<1>e. events \in Seq(Event) BY DEF L2capTypeOK
<1>1. CASE OnTx
  <2>1. events # <<>> /\ events[1][1] = "tx" /\ events' = Tail(events)
    BY <1>e, <1>1, Taken DEF OnTx, HandleEvent
  <2> QED BY <1>e, <1>1, <2>1, OrderQuiet DEF OnTx, sdVars
<1>2. CASE OnRx
  <2>1. events # <<>> /\ events[1][1] = "rx" /\ events' = Tail(events)
    BY <1>e, <1>2, Taken DEF OnRx, HandleEvent
  <2>2. chan # "open" => sdRx' = sdRx
    BY <1>2 DEF OnRx, RxSetup, ReceiveUpTo
  <2> QED BY <1>e, <1>2, <2>1, <2>2, OrderQuiet DEF OnRx
<1>3. CASE OnSetup
  <2>1. events # <<>> /\ events[1][1] = "setup" /\ events' = Tail(events)
    BY <1>e, <1>3, Taken DEF OnSetup, HandleEvent
  <2>2. CASE chan # "open"
    <3>1. UNCHANGED <<handle, cid, open, chan, sdLink, sdTx, sdRx>>
      BY <1>3, <2>2 DEF OnSetup
    <3> QED BY <1>e, <2>1, <2>2, <3>1, OrderQuiet
  <2>3. CASE chan = "open"
    <3>1. UNCHANGED <<handle, cid, chan, sdLink, sdTx>> /\ open' = TRUE /\ cid
      BY <1>3, <2>3 DEF OnSetup
    <3>2. /\ Len(events) \in Nat \ {0} /\ Len(events') = Len(events) - 1
          /\ \A i \in 1 .. Len(events') : events'[i] = events[i + 1] /\ i + 1 \in 1 .. Len(events)
      BY <1>e, <2>1, Taken
    <3>3. sdLink # "none" /\ handle BY <1>0, <2>3 DEF LinkInv
    <3>4. \A i \in 1 .. Len(events') :
              events'[i][1] \notin {"request", "refused", "released", "disconnected", "setup"}
      BY <1>0, <2>3, <3>2 DEF ChannelInv, EventInv
    <3>5. LinkInv' BY <3>1, <3>3, <3>4 DEF LinkInv
    <3>6. ChannelInv' BY <2>3, <3>1, <3>4 DEF ChannelInv
    <3>7. EventInv' BY <3>1, <3>4 DEF EventInv
    <3>8. OpenInv' BY <2>3, <3>1 DEF OpenInv
    <3> QED BY <3>5, <3>6, <3>7, <3>8 DEF Order
  <2> QED BY <2>2, <2>3
<1> QED BY <1>1, <1>2, <1>3

(* The request is the last event of its link. *)
LEMMA OrderRequested ==
    ASSUME L2capTypeOK, Order, OnSetupRequest
    PROVE  Order'
<1>0. LinkInv /\ ChannelInv /\ EventInv /\ OpenInv BY DEF Order
<1>e. events \in Seq(Event) BY DEF L2capTypeOK
<1>1. /\ events # <<>> /\ events[1][1] = "request" /\ events' = Tail(events)
      /\ ~ cid /\ cid' = TRUE /\ UNCHANGED <<open, handle, sdLink, sdTx>>
      /\ \/ chan = "requested" /\ chan' = "setup"
         \/ chan # "requested" /\ UNCHANGED <<chan, sdRx>>
  BY <1>e, Taken DEF OnSetupRequest, HandleEvent
<1>2. /\ Len(events) \in Nat \ {0} /\ Len(events') = Len(events) - 1
      /\ \A i \in 1 .. Len(events') : events'[i] = events[i + 1] /\ i + 1 \in 1 .. Len(events)
      /\ (events' = <<>>) <=> (Len(events) = 1)
      /\ Len(events) > 1 => events'[Len(events')] = events[Len(events)]
  BY <1>e, <1>1, Taken
<1>3. ASSUME NEW i \in 1 .. Len(events')
      PROVE  events'[i][1] = "disconnected" /\ i = Len(events')
  <2>1. 1 \in 1 .. Len(events) /\ i + 1 \in 1 .. Len(events) /\ i + 1 > 1
        /\ events'[i] = events[i + 1]
    BY <1>2
  <2>2. events[i + 1][1] = "disconnected" BY <1>0, <1>1, <2>1 DEF EventInv
  <2>3. i + 1 = Len(events) BY <1>0, <2>1, <2>2 DEF LinkInv
  <2> QED BY <1>2, <2>1, <2>2, <2>3
<1>4. ~ open /\ sdTx = <<>> /\ handle
  BY <1>0, <1>1 DEF OpenInv, LinkInv
<1>5. sdLink # "none" => events' = <<>> /\ chan = "requested"
  <2> SUFFICES ASSUME sdLink # "none" PROVE events' = <<>> /\ chan = "requested"
    OBVIOUS
  <2>1. chan = "requested" BY <1>0, <1>1, <1>2 DEF EventInv
  <2>2. \A i \in 1 .. Len(events) : events[i][1] # "disconnected" BY <1>0 DEF LinkInv
  <2>3. \A i \in 1 .. Len(events') : FALSE BY <1>2, <1>3, <2>2
  <2> QED BY <1>2, <2>1, <2>3
<1>6. sdLink = "none" => /\ chan = "none" /\ chan' = "none"
                         /\ events' # <<>> /\ events'[Len(events')][1] = "disconnected"
  <2> SUFFICES ASSUME sdLink = "none"
               PROVE  /\ chan = "none" /\ chan' = "none"
                      /\ events' # <<>> /\ events'[Len(events')][1] = "disconnected"
    OBVIOUS
  <2>1. chan = "none" /\ events[Len(events)][1] = "disconnected"
    BY <1>0, <1>4 DEF LinkInv
  <2>2. Len(events) # 1 BY <1>1, <2>1
  <2> QED BY <1>1, <1>2, <2>1, <2>2
<1>7. LinkInv' BY <1>1, <1>3, <1>4, <1>5, <1>6 DEF LinkInv
<1>8. ChannelInv'
  <2>1. CASE sdLink # "none"
    <3>1. chan' = "setup" /\ Len(events') = 0 /\ events' = <<>> BY <1>1, <1>5, <2>1
    <3>2. \A i \in 1 .. Len(events') : FALSE BY <3>1
    <3> QED BY <1>1, <3>1, <3>2 DEF ChannelInv
  <2>2. CASE sdLink = "none"
    <3>1. chan' = "none" /\ chan = "none" /\ UNCHANGED <<sdTx, sdRx>> BY <1>1, <1>6, <2>2
    <3> QED BY <1>0, <3>1 DEF ChannelInv
  <2> QED BY <2>1, <2>2
<1>9. EventInv' BY <1>3 DEF EventInv
<1>10. OpenInv' BY <1>1, <1>3, <1>4, <1>5, <1>6 DEF OpenInv
<1> QED BY <1>7, <1>8, <1>9, <1>10 DEF Order

(* The end of a channel, or of its attempt, is the last word about it. *)
LEMMA OrderEnded ==
    ASSUME L2capTypeOK, Order, OnSetupRefused \/ OnReleased
    PROVE  Order'
<1>0. LinkInv /\ ChannelInv /\ EventInv /\ OpenInv BY DEF Order
<1>e. events \in Seq(Event) BY DEF L2capTypeOK
<1>1. /\ events # <<>> /\ events[1][1] \in {"refused", "released"} /\ events' = Tail(events)
      /\ cid' = FALSE /\ (events[1][1] = "released" => open' = FALSE)
      /\ (events[1][1] = "refused" => open' = open)
      /\ UNCHANGED <<handle, sdLink, chan, sdTx, sdRx>>
  BY <1>e, Taken DEF OnSetupRefused, OnReleased, HandleEvent, sdVars
<1>2. /\ Len(events) \in Nat \ {0} /\ Len(events') = Len(events) - 1
      /\ \A i \in 1 .. Len(events') : events'[i] = events[i + 1] /\ i + 1 \in 1 .. Len(events)
      /\ (events' = <<>>) <=> (Len(events) = 1)
      /\ Len(events) > 1 => events'[Len(events')] = events[Len(events)]
  BY <1>e, <1>1, Taken
<1>3. \A i \in 1 .. Len(events') : events'[i][1] \in {"request", "disconnected"}
  BY <1>0, <1>1, <1>2 DEF EventInv
<1>4. ~ open' BY <1>0, <1>1, <1>2 DEF EventInv
<1>5. chan \in {"none", "requested"}
  <2>1. chan \notin {"setup", "open", "releasing"} BY <1>0, <1>1, <1>2 DEF ChannelInv
  <2> QED BY <2>1 DEF L2capTypeOK
<1>6. sdTx' = <<>> /\ sdRx' = <<>> BY <1>0, <1>1, <1>5 DEF ChannelInv
<1>7. LinkInv'
  <2>1. \A i \in 1 .. Len(events') :
            /\ sdLink # "none" => events'[i][1] # "disconnected"
            /\ events'[i][1] = "disconnected" => i = Len(events')
    BY <1>0, <1>2 DEF LinkInv
  <2>2. ASSUME sdLink = "none"
        PROVE  events' # <<>> /\ events'[Len(events')][1] = "disconnected"
    <3>1. events[Len(events)][1] = "disconnected" BY <1>0, <1>1, <2>2 DEF LinkInv
    <3>2. Len(events) # 1 BY <1>1, <3>1
    <3> QED BY <1>2, <3>1, <3>2
  <2> QED BY <1>0, <1>1, <2>1, <2>2 DEF LinkInv
<1>8. ChannelInv'
  <2>1. chan = "requested" => events' # <<>> /\ events'[Len(events')][1] = "request"
    BY <1>0, <1>1, <1>2 DEF ChannelInv
  <2> QED BY <1>1, <1>5, <1>6, <2>1 DEF ChannelInv
<1>9. EventInv'
  <2> SUFFICES ASSUME NEW i \in 1 .. Len(events'), events'[i][1] = "request"
               PROVE  /\ \A j \in 1 .. Len(events') : j > i => events'[j][1] = "disconnected"
                      /\ sdLink # "none" => chan = "requested"
    BY <1>1, <1>3 DEF EventInv
  <2>1. events[i + 1][1] = "request" /\ i + 1 \in 1 .. Len(events) BY <1>2
  <2>2. \A j \in 1 .. Len(events') :
           j > i => j + 1 \in 1 .. Len(events) /\ j + 1 > i + 1 /\ events'[j] = events[j + 1]
    BY <1>2
  <2> QED BY <1>0, <2>1, <2>2 DEF EventInv
<1>10. OpenInv' BY <1>1, <1>3, <1>4, <1>5, <1>6 DEF OpenInv
<1> QED BY <1>7, <1>8, <1>9, <1>10 DEF Order

LEMMA OrderGone ==
    ASSUME L2capTypeOK, Order, OnLinkGone
    PROVE  Order' /\ events' = <<>> /\ sdTx = <<>> /\ sdRx = <<>> /\ chan = "none"
<1>0. LinkInv /\ ChannelInv /\ EventInv /\ OpenInv BY DEF Order
<1>e. events \in Seq(Event) BY DEF L2capTypeOK
<1>1. /\ events # <<>> /\ events[1][1] = "disconnected" /\ events' = Tail(events)
      /\ handle' = FALSE /\ cid' = FALSE /\ open' = FALSE
      /\ UNCHANGED <<sdLink, chan, sdTx, sdRx>>
  BY <1>e, Taken DEF OnLinkGone, HandleEvent, sdVars
<1>2. Len(events) \in Nat \ {0} /\ ((events' = <<>>) <=> (Len(events) = 1))
  BY <1>e, <1>1, Taken
<1>3. events' = <<>> BY <1>0, <1>1, <1>2 DEF LinkInv
<1>4. sdLink = "none" /\ chan = "none" BY <1>0, <1>1, <1>2 DEF LinkInv
<1>5. sdTx = <<>> /\ sdRx = <<>> BY <1>0, <1>4 DEF ChannelInv
<1>6. Len(events') = 0 BY <1>3
<1>7. LinkInv' /\ ChannelInv' /\ EventInv' /\ OpenInv'
  BY <1>1, <1>3, <1>4, <1>5, <1>6 DEF LinkInv, ChannelInv, EventInv, OpenInv
<1> QED BY <1>3, <1>4, <1>5, <1>7 DEF Order

(* An event of a channel finds its cid valid: none is ever ignored. *)
LEMMA NoneIgnored == L2capTypeOK /\ Order => ~ Ignored
<1> SUFFICES ASSUME L2capTypeOK, Order, Ignored PROVE FALSE
  OBVIOUS
<1>1. /\ events # <<>> /\ events[1][1] \notin {"request", "disconnected"} /\ ~ cid
      /\ Len(events) \in Nat \ {0}
  BY Taken DEF Ignored, L2capTypeOK
<1> QED BY <1>1 DEF Order, EventInv

(* What the SoftDevice reports of an open channel.                         *)
LEMMA OrderReported ==
    ASSUME L2capTypeOK, Order, Transmitted \/ Received \/ PeerGivesCredit
    PROVE  Order'
<1>0. LinkInv /\ ChannelInv /\ EventInv /\ OpenInv BY DEF Order
<1>e. events \in Seq(Event) BY DEF L2capTypeOK
<1>1. PICK x \in Event :
        /\ Emit(<<x>>)
        /\ x[1] \in {"tx", "rx", "credit"}
        /\ x[1] = "tx" => sdTx # <<>>
        /\ x[1] = "credit" => \A i \in 1 .. Len(events) : events[i][1] # "setup"
  <2>1. CASE Transmitted
    <3>1. <<"tx", 0>> \in Event BY DEF Event
    <3> QED BY <2>1, <3>1 DEF Transmitted
  <2>2. CASE Received
    <3>1. Head(sdRx) \in Buffers BY <2>2 DEF Received, L2capTypeOK
    <3>2. <<"rx", Head(sdRx)>> \in Event BY <3>1 DEF Event
    <3> QED BY <2>2, <3>2 DEF Received
  <2>3. CASE PeerGivesCredit
    <3>1. <<"credit", 0>> \in Event BY DEF Event
    <3> QED BY <2>3, <3>1 DEF PeerGivesCredit
  <2> QED BY <2>1, <2>2, <2>3
<1>2. /\ UNCHANGED <<handle, sdLink, cid, open, chan>> /\ chan = "open"
      /\ sdTx = <<>> => sdTx' = <<>>
  BY DEF Transmitted, Received, PeerGivesCredit, portVars, sdVars
<1>3. /\ Len(events) \in Nat /\ Len(events') = Len(events) + 1
      /\ events'[Len(events) + 1] = x
      /\ \A i \in 1 .. Len(events) : events'[i] = events[i]
  BY <1>e, <1>1, Emitted
<1>4. \A i \in 1 .. Len(events') :
          \/ i \in 1 .. Len(events) /\ events'[i] = events[i]
          \/ i = Len(events) + 1 /\ events'[i][1] \in {"tx", "rx", "credit"}
  BY <1>1, <1>3
<1>5. sdLink # "none" /\ cid /\ handle BY <1>0, <1>2 DEF LinkInv, ChannelInv
<1>6. open \/ (events # <<>> /\ events[1][1] = "setup" /\ 1 \in 1 .. Len(events))
  BY <1>0, <1>2, <1>3 DEF OpenInv
<1>7. open => \A i \in 1 .. Len(events) : events[i][1] # "setup" BY <1>0 DEF EventInv
<1>8. LinkInv' BY <1>0, <1>2, <1>4, <1>5 DEF LinkInv
<1>9. ChannelInv' BY <1>0, <1>2, <1>4 DEF ChannelInv
<1>10. EventInv'
  <2>1. \A i \in 1 .. Len(events') :
          /\ events'[i][1] \notin {"request", "refused", "released", "disconnected"}
          /\ events'[i][1] = "setup" => i = 1 /\ ~ open
    BY <1>0, <1>2, <1>4 DEF ChannelInv, EventInv
  <2>2. ASSUME NEW i \in 1 .. Len(events'), events'[i][1] = "setup", NEW j \in 1 .. Len(events')
        PROVE  events'[j][1] # "credit"
    <3>1. i \in 1 .. Len(events) /\ events[i][1] = "setup" BY <1>4, <2>2
    <3>2. CASE j \in 1 .. Len(events) /\ events'[j] = events[j]
      BY <1>0, <3>1, <3>2 DEF EventInv
    <3>3. CASE j = Len(events) + 1 BY <1>1, <1>3, <3>1, <3>3
    <3> QED BY <1>4, <3>2, <3>3
  <2> QED BY <1>2, <1>5, <2>1, <2>2 DEF EventInv
<1>11. OpenInv'
  <2>1. ~ open => x[1] # "tx" BY <1>0, <1>1 DEF OpenInv
  <2>2. ~ open => \A i \in 1 .. Len(events') : events'[i][1] # "tx"
    BY <1>0, <1>3, <1>4, <2>1 DEF OpenInv
  <2>3. ~ open => events' # <<>> /\ events'[1][1] = "setup" BY <1>3, <1>6
  <2> QED BY <1>0, <1>2, <2>2, <2>3 DEF OpenInv
<1> QED BY <1>8, <1>9, <1>10, <1>11 DEF Order

LEMMA OrderConnected ==
    ASSUME L2capTypeOK, Order, LinkUp
    PROVE  Order'
<1>0. LinkInv /\ ChannelInv /\ EventInv /\ OpenInv BY DEF Order
<1>1. /\ UNCHANGED <<cid, open, chan, sdTx, sdRx, events>> /\ sdLink' = "up" /\ handle' = TRUE
      /\ events = <<>> /\ chan = "none"
  BY <1>0 DEF LinkUp, portVars, LinkInv
<1>2. \A i \in 1 .. Len(events') : FALSE BY <1>1
<1> QED BY <1>0, <1>1, <1>2 DEF Order, LinkInv, ChannelInv, EventInv, OpenInv

(* A request, a set-up and the two ends of a channel, each the next thing  *)
(* told.                                                                   *)
LEMMA OrderChannel ==
    ASSUME L2capTypeOK, Order, PeerRequests \/ ChannelSetUp \/ Released
    PROVE  Order'
<1>0. LinkInv /\ ChannelInv /\ EventInv /\ OpenInv BY DEF Order
<1>e. events \in Seq(Event) BY DEF L2capTypeOK
<1>1. PICK x \in Event :
        /\ Emit(<<x>>)
        /\ \/ x[1] = "request" /\ chan = "none" /\ chan' = "requested" /\ UNCHANGED <<sdTx, sdRx>>
           \/ x[1] = "setup" /\ chan = "setup" /\ chan' = "open" /\ UNCHANGED <<sdTx, sdRx>>
           \/ x[1] = "refused" /\ chan = "setup" /\ chan' = "none" /\ sdTx' = <<>> /\ sdRx' = <<>>
           \/ /\ x[1] = "released" /\ chan \in {"open", "releasing"}
              /\ chan' = "none" /\ sdTx' = <<>> /\ sdRx' = <<>>
  <2>1. CASE PeerRequests
    <3>1. <<"request", 0>> \in Event BY DEF Event
    <3> QED BY <2>1, <3>1 DEF PeerRequests
  <2>2. CASE ChannelSetUp
    <3>1. <<"refused", 0>> \in Event /\ \A n \in 0 .. MaxCredits : <<"setup", n>> \in Event
      BY DEF Event
    <3> QED BY <2>2, <3>1 DEF ChannelSetUp, ChannelEnds
  <2>3. CASE Released
    <3>1. <<"released", 0>> \in Event BY DEF Event
    <3> QED BY <2>3, <3>1 DEF Released, ChannelEnds
  <2> QED BY <2>1, <2>2, <2>3
<1>2. /\ UNCHANGED <<handle, sdLink, cid, open>> /\ sdLink # "none" /\ handle
  BY <1>0 DEF PeerRequests, ChannelSetUp, Released, portVars, LinkInv
<1>3. /\ Len(events) \in Nat /\ Len(events') = Len(events) + 1
      /\ events'[Len(events) + 1] = x
      /\ \A i \in 1 .. Len(events) : events'[i] = events[i]
  BY <1>e, <1>1, Emitted
<1>4. \A i \in 1 .. Len(events') :
          \/ i \in 1 .. Len(events) /\ i < Len(events) + 1 /\ events'[i] = events[i]
          \/ i = Len(events) + 1 /\ events'[i] = x
  BY <1>3
<1>5. events' # <<>> /\ events'[Len(events')] = x BY <1>3
<1>6. \A i \in 1 .. Len(events) : events[i][1] \notin {"disconnected", "request"}
  <2>1. \A i \in 1 .. Len(events) : events[i][1] # "disconnected" BY <1>0, <1>2 DEF LinkInv
  <2>2. chan # "requested" BY <1>1
  <2>3. \A i \in 1 .. Len(events) : events[i][1] # "request"
    BY <1>0, <1>2, <2>2 DEF EventInv
  <2> QED BY <2>1, <2>3
<1>7. chan = "setup" => events = <<>> /\ Len(events) = 0 /\ cid /\ ~ open /\ sdTx = <<>>
  BY <1>0 DEF ChannelInv, OpenInv
<1>8. LinkInv' BY <1>1, <1>2, <1>4, <1>5, <1>6 DEF LinkInv
<1>9. ChannelInv'
  <2>1. CASE x[1] = "setup"
    <3>1. \A i \in 1 .. Len(events') : events'[i][1] = "setup" BY <1>1, <1>4, <1>7, <2>1
    <3> QED BY <1>1, <1>2, <1>7, <2>1, <3>1 DEF ChannelInv
  <2>2. CASE x[1] # "setup" BY <1>0, <1>1, <1>5, <2>2 DEF ChannelInv
  <2> QED BY <2>1, <2>2
<1>10. EventInv'
  <2>1. CASE chan = "setup"
    <3>1. \A i \in 1 .. Len(events') : i = 1 /\ events'[i] = x BY <1>3, <1>4, <1>7, <2>1
    <3> QED BY <1>1, <1>2, <1>7, <2>1, <3>1 DEF EventInv
  <2>2. CASE chan # "setup"
    <3> SUFFICES ASSUME NEW i \in 1 .. Len(events')
                 PROVE  /\ events'[i][1] = "request" =>
                              /\ \A j \in 1 .. Len(events') : j > i => events'[j][1] = "disconnected"
                              /\ sdLink' # "none" => chan' = "requested"
                        /\ events'[i][1] \in {"refused", "released"} =>
                              \A j \in 1 .. Len(events') :
                                  j > i => events'[j][1] \in {"request", "disconnected"}
                        /\ events'[i][1] \in {"setup", "refused"} => i = 1 /\ ~ open'
                        /\ events'[i][1] = "setup" =>
                              \A j \in 1 .. Len(events') : events'[j][1] # "credit"
                        /\ events'[i][1] \notin {"request", "disconnected"} => cid'
      BY DEF EventInv
    <3>1. x[1] \in {"request", "released"} BY <1>1, <2>2
    <3>2. CASE i = Len(events) + 1
      <4>1. ~ \E j \in 1 .. Len(events') : j > i BY <1>3, <3>2
      <4>2. x[1] = "released" => cid BY <1>0, <1>1, <2>2 DEF ChannelInv
      <4> QED BY <1>1, <1>2, <1>3, <3>1, <3>2, <4>1, <4>2
    <3>3. CASE i \in 1 .. Len(events) /\ events'[i] = events[i]
      <4>1. events[i][1] \in {"refused", "released"} => x[1] = "request"
        BY <1>0, <1>1, <2>2, <3>3 DEF ChannelInv
      <4>2. events'[i][1] \in {"refused", "released"} =>
                \A j \in 1 .. Len(events') :
                    j > i => events'[j][1] \in {"request", "disconnected"}
        BY <1>0, <1>4, <3>3, <4>1 DEF EventInv
      <4>3. events'[i][1] = "setup" => \A j \in 1 .. Len(events') : events'[j][1] # "credit"
        BY <1>0, <1>4, <3>1, <3>3 DEF EventInv
      <4>4. events'[i][1] # "request" BY <1>6, <3>3
      <4>5. /\ events'[i][1] \in {"setup", "refused"} => i = 1 /\ ~ open
            /\ events'[i][1] \notin {"request", "disconnected"} => cid
        BY <1>0, <3>3 DEF EventInv
      <4> QED BY <1>2, <4>2, <4>3, <4>4, <4>5
    <3> QED BY <1>4, <3>2, <3>3
  <2> QED BY <2>1, <2>2
<1>11. OpenInv'
  <2>1. \A i \in 1 .. Len(events') : events'[i][1] = "tx" => open
    BY <1>0, <1>1, <1>4 DEF OpenInv
  <2>2. ~ open => sdTx' = <<>> BY <1>0, <1>1 DEF OpenInv
  <2>3. chan' = "open" => events'[1][1] = "setup" BY <1>1, <1>3, <1>7
  <2>4. open => cid BY <1>0 DEF OpenInv
  <2> QED BY <1>1, <1>2, <1>5, <2>1, <2>2, <2>3, <2>4 DEF OpenInv
<1> QED BY <1>8, <1>9, <1>10, <1>11 DEF Order

LEMMA OrderLost ==
    ASSUME L2capTypeOK, Order, LinkEnds
    PROVE  Order'
<1>0. LinkInv /\ ChannelInv /\ EventInv /\ OpenInv BY DEF Order
<1>e. events \in Seq(Event) BY DEF L2capTypeOK
<1>1. /\ UNCHANGED <<handle, cid, open>> /\ sdLink # "none" /\ sdLink' = "none" /\ handle
      /\ chan' = "none" /\ sdTx' = <<>> /\ sdRx' = <<>>
  BY <1>0 DEF LinkEnds, ChannelEnds, portVars, LinkInv
<1>2. <<"released", 0>> \in Event /\ <<"disconnected", 0>> \in Event BY DEF Event
<1>3. /\ Len(events) \in Nat /\ Len(events') \in Nat /\ Len(events') > Len(events)
      /\ events'[Len(events')][1] = "disconnected"
      /\ \A i \in 1 .. Len(events) : events'[i] = events[i]
      /\ \A i \in 1 .. Len(events') :
            \/ i \in 1 .. Len(events)
            \/ i = Len(events')
            \/ /\ i > Len(events) /\ i = Len(events') - 1
               /\ events'[i][1] = "released" /\ chan \in {"open", "releasing"}
  <2>1. CASE Emit(<< <<"disconnected", 0>> >>) BY <1>e, <1>2, <2>1, Emitted
  <2>2. CASE chan \in {"open", "releasing"} /\ Emit(<< <<"released", 0>>, <<"disconnected", 0>> >>)
    <3>1. PICK x \in Event, y \in Event :
             Emit(<<x, y>>) /\ x[1] = "released" /\ y[1] = "disconnected"
      BY <1>2, <2>2
    <3>2. /\ Len(events) \in Nat /\ Len(events') = Len(events) + 2
          /\ events'[Len(events) + 1] = x
          /\ events'[Len(events) + 2] = y
          /\ \A i \in 1 .. Len(events) : events'[i] = events[i]
      BY <1>e, <3>1, EmittedTwo
    <3> QED BY <2>2, <3>1, <3>2
  <2> QED BY <2>1, <2>2 DEF LinkEnds
<1>4. \A i \in 1 .. Len(events) : events[i][1] # "disconnected" BY <1>0, <1>1 DEF LinkInv
<1>5. LinkInv' BY <1>1, <1>3, <1>4 DEF LinkInv
<1>6. ChannelInv' BY <1>1 DEF ChannelInv
<1>7. EventInv'
  <2> SUFFICES ASSUME NEW i \in 1 .. Len(events')
               PROVE  /\ events'[i][1] = "request" =>
                            \A j \in 1 .. Len(events') : j > i => events'[j][1] = "disconnected"
                      /\ events'[i][1] \in {"refused", "released"} =>
                            \A j \in 1 .. Len(events') :
                                j > i => events'[j][1] \in {"request", "disconnected"}
                      /\ events'[i][1] \in {"setup", "refused"} => i = 1 /\ ~ open'
                      /\ events'[i][1] = "setup" =>
                            \A j \in 1 .. Len(events') : events'[j][1] # "credit"
                      /\ events'[i][1] \notin {"request", "disconnected"} => cid'
    BY <1>1 DEF EventInv
  <2>1. CASE i = Len(events')
    <3>1. ~ \E j \in 1 .. Len(events') : j > i BY <1>3, <2>1
    <3> QED BY <1>3, <2>1, <3>1
  <2>2. CASE i > Len(events) /\ i = Len(events') - 1 /\ events'[i][1] = "released"
                /\ chan \in {"open", "releasing"}
    <3>1. \A j \in 1 .. Len(events') : j > i => j = Len(events') BY <1>3, <2>2
    <3>2. cid BY <1>0, <2>2 DEF ChannelInv
    <3> QED BY <1>1, <1>3, <2>2, <3>1, <3>2
  <2>3. CASE i \in 1 .. Len(events)
    <3>1. events'[i] = events[i] BY <1>3, <2>3
    <3>2. events[i][1] \in {"request", "refused", "released"} =>
             chan \notin {"setup", "open", "releasing"}
      BY <1>0, <2>3 DEF ChannelInv
    <3>3. \A j \in 1 .. Len(events') : j > i =>
              \/ j \in 1 .. Len(events) /\ events'[j] = events[j]
              \/ events'[j][1] = "disconnected"
              \/ events'[j][1] = "released" /\ chan \in {"open", "releasing"}
      BY <1>3
    <3>4. events[i][1] = "request" =>
              \A j \in 1 .. Len(events') : j > i => events'[j][1] = "disconnected"
      BY <1>0, <2>3, <3>2, <3>3 DEF EventInv
    <3>5. events[i][1] \in {"refused", "released"} =>
              \A j \in 1 .. Len(events') : j > i => events'[j][1] \in {"request", "disconnected"}
      BY <1>0, <2>3, <3>2, <3>3 DEF EventInv
    <3>6. /\ events[i][1] \in {"setup", "refused"} => i = 1 /\ ~ open
          /\ events[i][1] \notin {"request", "disconnected"} => cid
      BY <1>0, <2>3 DEF EventInv
    <3>7. events[i][1] = "setup" => \A j \in 1 .. Len(events') : events'[j][1] # "credit"
      <4>1. events[i][1] = "setup" => \A j \in 1 .. Len(events) : events[j][1] # "credit"
        BY <1>0, <2>3 DEF EventInv
      <4> QED BY <1>3, <4>1
    <3> QED BY <1>1, <3>1, <3>4, <3>5, <3>6, <3>7
  <2> QED BY <1>3, <2>1, <2>2, <2>3
<1>8. OpenInv'
  <2>1. \A i \in 1 .. Len(events') : events'[i][1] = "tx" => open
    BY <1>0, <1>3 DEF OpenInv
  <2>2. open => cid BY <1>0 DEF OpenInv
  <2> QED BY <1>1, <2>1, <2>2 DEF OpenInv
<1> QED BY <1>5, <1>6, <1>7, <1>8 DEF Order

----------------------------------------------------
(* Queues and credits are kept by every step.                              *)

(* What is counted and held now. *)
LEMMA StockNow ==
    ASSUME Stock
    PROVE  /\ events \in Seq(Event)
           /\ {pendingTx, txBufs, rxBufs, sdTx, sdRx} \subseteq Seq(Buffers)
           /\ {Len(pendingTx), Len(txBufs), Len(rxBufs), Len(sdTx), Len(sdRx)} \subseteq Nat
           /\ {credits, unsent, MaxCredits, MaxUnsent, TxBufMax, RxBufMax} \subseteq Nat
           /\ \A type : WaitingEvents(type) \in Nat
           /\ Behind(txBufs, sdTx, WaitingEvents("tx"))
           /\ Behind(rxBufs, sdRx, WaitingEvents("rx"))
           /\ WaitingEvents("tx") + Len(sdTx) <= Len(txBufs)
           /\ WaitingEvents("rx") + Len(sdRx) <= Len(rxBufs)
           /\ credits + WaitingEvents("tx") + Len(sdTx) + WaitingEvents("credit") <= MaxCredits
<1>1. events \in Seq(Event) BY DEF Stock, L2capTypeOK
<1>2. {pendingTx, txBufs, rxBufs, sdTx, sdRx} \subseteq Seq(Buffers)
  BY DEF Stock, L2capTypeOK
<1>3. {credits, unsent, MaxCredits, MaxUnsent, TxBufMax, RxBufMax} \subseteq Nat
  BY BufferAssumption DEF Stock, L2capTypeOK
<1>4. \A type : WaitingEvents(type) \in Nat BY <1>1, WaitingIsNat
<1>5. {Len(pendingTx), Len(txBufs), Len(rxBufs), Len(sdTx), Len(sdRx)} \subseteq Nat BY <1>2
<1>6. /\ Behind(txBufs, sdTx, WaitingEvents("tx"))
      /\ Behind(rxBufs, sdRx, WaitingEvents("rx"))
  BY DEF Stock, HeldInv
<1>7. /\ WaitingEvents("tx") + Len(sdTx) <= Len(txBufs)
      /\ WaitingEvents("rx") + Len(sdRx) <= Len(rxBufs)
  BY <1>6 DEF Behind
<1>8. credits + WaitingEvents("tx") + Len(sdTx) + WaitingEvents("credit") <= MaxCredits
  BY DEF Stock, CreditInv
<1> QED BY <1>1, <1>2, <1>3, <1>4, <1>5, <1>6, <1>7, <1>8

(* Main takes an event, or none: what is left waiting. *)
LEMMA TakenCounts ==
    ASSUME L2capTypeOK, NEW type, HandleEvent(type)
    PROVE  /\ events' \in Seq(Event) /\ Len(events') <= MaxEvents
           /\ events # <<>> /\ events[1] \in Event /\ events[1][1] = type
           /\ events' = Tail(events)
           /\ \A other : WaitingEvents(other)' =
                 WaitingEvents(other) - (IF other = type THEN 1 ELSE 0)
           /\ WaitingEvents(type) \in Nat /\ WaitingEvents(type) > 0
<1>1. events \in Seq(Event) /\ events # <<>> /\ events' = Tail(events)
  BY DEF HandleEvent, L2capTypeOK
<1>2. events[1][1] = type BY <1>1, Taken DEF HandleEvent
<1>3. Len(events) <= MaxEvents /\ MaxEvents \in Nat BY BufferAssumption DEF L2capTypeOK
<1>4. /\ events' \in Seq(Event) /\ Len(events) \in Nat \ {0} /\ Len(events') = Len(events) - 1
      /\ events[1] \in Event
      /\ \A other : WaitingEvents(other)' =
            WaitingEvents(other) - (IF events[1][1] = other THEN 1 ELSE 0)
  BY <1>1, Taken
<1>5. WaitingEvents(type) \in Nat /\ WaitingEvents(type) # 0
  BY <1>1, <1>2, <1>4, WaitingIsNat
<1> QED BY <1>1, <1>2, <1>3, <1>4, <1>5

LEMMA UncountedIfSame ==
    events' = events => \A type : WaitingEvents(type)' = WaitingEvents(type)
BY DEF WaitingEvents

(* Whatever is handed over, with the credits there are. *)
LEMMA StockHandedOver ==
    ASSUME L2capInv, NEW q \in Seq(Buffers), NEW n \in Nat,
           \/ TrySendOrClose(q, n, TRUE)
           \/ TrySendOrClose(q, n, closing),
           UNCHANGED <<handle, cid, open, rxBufs>>,
           events' \in Seq(Event), Len(events') <= MaxEvents,
           WaitingEvents("tx")' = WaitingEvents("tx"),
           WaitingEvents("rx")' = WaitingEvents("rx"),
           n + WaitingEvents("credit")' = credits + WaitingEvents("credit"),
           unsent' \in 0 .. MaxUnsent,
           ~ closing' => unsent' + Len(pendingTx) = unsent + Len(q)
    PROVE  Stock'
<1>0. Stock /\ L2capTypeOK BY DEF L2capInv, Stock
<1>1. /\ Behind(txBufs, sdTx, WaitingEvents("tx"))
      /\ Behind(rxBufs, sdRx, WaitingEvents("rx"))
      /\ credits + WaitingEvents("tx") + Len(sdTx) + WaitingEvents("credit") <= MaxCredits
      /\ credits \in Nat /\ unsent \in Nat /\ MaxCredits \in Nat
      /\ Len(pendingTx) \in Nat /\ Len(sdTx) \in Nat /\ Len(q) \in Nat /\ unsent' \in Nat
      /\ WaitingEvents("tx") \in Nat /\ WaitingEvents("rx") \in Nat
      /\ WaitingEvents("credit") \in Nat
  BY <1>0, StockNow
<1>2. WaitingEvents("credit")' \in Nat BY CountIsNat DEF WaitingEvents, Count
<1>3. PICK sent, accepted \in Nat : HandsOver(q, n, sent, accepted) BY <1>0, HandedOver
<1>4. /\ Len(pendingTx') \in Nat /\ Len(sdTx') \in Nat /\ credits' \in Nat
      /\ credits' + Len(sdTx') <= n + Len(sdTx)
      /\ accepted = sent => Len(pendingTx') + Len(sdTx') = Len(q) + Len(sdTx)
  <2>1. /\ sent <= n /\ sent <= Len(q) /\ accepted <= sent
        /\ Len(pendingTx') = Len(q) - sent /\ credits' = n - sent
        /\ Len(sdTx') = Len(sdTx) + accepted
    BY <1>3 DEF HandsOver
  <2>2. Len(pendingTx') \in Nat /\ Len(sdTx') \in Nat /\ credits' \in Nat BY <1>1, <2>1
  <2> QED BY <1>1, <2>1, <2>2, SMTT(60)
<1>5. credits' + WaitingEvents("tx")' + Len(sdTx') + WaitingEvents("credit")' <= MaxCredits
  <2>1. n + Len(sdTx) + WaitingEvents("tx") + WaitingEvents("credit")'
           = credits + WaitingEvents("tx") + Len(sdTx) + WaitingEvents("credit")
    BY <1>1, <1>2, SMTT(60)
  <2>2. credits' + WaitingEvents("tx") + Len(sdTx') + WaitingEvents("credit")'
           <= n + Len(sdTx) + WaitingEvents("tx") + WaitingEvents("credit")'
    BY <1>1, <1>2, <1>4, SMTT(60)
  <2> QED BY <1>1, <1>2, <1>4, <2>1, <2>2, SMTT(60)
<1>6. credits' \in 0 .. MaxCredits
  <2>1. WaitingEvents("tx")' \in Nat BY <1>1
  <2> QED BY <1>1, <1>2, <1>4, <1>5, <2>1, SMTT(60)
<1>7. CreditInv' BY <1>5 DEF CreditInv
<1>8. HeldInv' BY <1>1, <1>3 DEF HeldInv, HandsOver
<1>12. failure' \in {NoFailure, "tx_refused"} BY DEF TrySendOrClose, IfGone
<1>9. L2capTypeOK'
  <2>1. /\ sdLink' \in {"none", "up", "ending"}
        /\ chan' \in {"none", "requested", "setup", "open", "releasing"}
        /\ Len(sdRx') <= RxBufMax /\ rxBufs' \in Seq(Buffers) /\ sdRx' \in Seq(Buffers)
        /\ {handle', cid', open', closing'} \subseteq BOOLEAN
        /\ failure' \in {NoFailure, "tx_refused"}
    BY <1>0, <1>3, <1>12 DEF L2capTypeOK, HandsOver
  <2>2. /\ pendingTx' \in Seq(Buffers) /\ txBufs' \in Seq(Buffers) /\ sdTx' \in Seq(Buffers)
        /\ Len(sdTx') <= TxBufMax
    BY <1>3 DEF HandsOver
  <2> QED BY <1>6, <2>1, <2>2 DEF L2capTypeOK
<1>10. SendsAccounted'
  <2> SUFFICES ASSUME open', chan' = "open", ~ closing'
               PROVE  unsent' <= Len(pendingTx') + Len(sdTx') + WaitingEvents("tx")'
    BY DEF SendsAccounted
  <2>1. accepted = sent /\ chan = "open" /\ open BY <1>3 DEF HandsOver
  <2>2. ~ closing
    <3>1. \/ TrySendOrClose(q, n, TRUE) /\ closing'
          \/ closing' \/ ~ closing
      BY DEF TrySendOrClose
    <3> QED BY <3>1
  <2>3. unsent <= Len(pendingTx) + Len(sdTx) + WaitingEvents("tx")
    BY <1>0, <2>1, <2>2 DEF Stock, SendsAccounted
  <2>4. unsent' + Len(pendingTx) = unsent + Len(q) OBVIOUS
  <2>5. unsent' <= Len(q) + Len(sdTx) + WaitingEvents("tx") BY <1>1, <2>3, <2>4, SMTT(60)
  <2>6. Len(q) + Len(sdTx) + WaitingEvents("tx")
           = Len(pendingTx') + Len(sdTx') + WaitingEvents("tx")
    BY <1>4, <2>1
  <2> QED BY <2>5, <2>6
<1>11. RxFilled' BY <1>0, <1>3 DEF Stock, RxFilled, HandsOver
<1> QED BY <1>0, <1>7, <1>8, <1>9, <1>10, <1>11, <1>12 DEF Stock, NoFailure

LEMMA StockSending ==
    ASSUME L2capInv, Send \/ Close \/ OnCredits
    PROVE  Stock'
<1>0. Stock /\ L2capTypeOK BY DEF L2capInv, Stock
<1>1. /\ events \in Seq(Event) /\ Len(events) <= MaxEvents
      /\ pendingTx \in Seq(Buffers) /\ Len(pendingTx) \in Nat
      /\ {credits, unsent, MaxUnsent} \subseteq Nat /\ unsent \in 0 .. MaxUnsent
      /\ \A type : WaitingEvents(type) \in Nat
      /\ closing \in BOOLEAN
  BY <1>0, StockNow DEF L2capTypeOK
<1>2. UNCHANGED <<handle, cid, open, rxBufs>> BY DEF Send, Close, OnCredits
<1>3. CASE Send
  <2>1. PICK b \in Buffers : TrySendOrClose(Append(pendingTx, b), credits, closing)
    BY <1>3 DEF Send, Free
  <2>2. Append(pendingTx, b) \in Seq(Buffers) /\ Len(Append(pendingTx, b)) = Len(pendingTx) + 1
    BY <1>1
  <2>3. unsent' = unsent + 1 /\ unsent < MaxUnsent /\ events' = events BY <1>3 DEF Send
  <2>4. /\ unsent' \in 0 .. MaxUnsent
        /\ unsent' + Len(pendingTx) = unsent + Len(Append(pendingTx, b))
    <3>1. unsent \in Nat /\ MaxUnsent \in Nat BY <1>1
    <3> QED BY <1>1, <2>2, <2>3, <3>1
  <2>5. \A type : WaitingEvents(type)' = WaitingEvents(type) BY <2>3, UncountedIfSame
  <2>6. credits + WaitingEvents("credit")' = credits + WaitingEvents("credit") BY <2>5
  <2> QED BY <1>1, <1>2, <2>1, <2>2, <2>3, <2>4, <2>5, <2>6, StockHandedOver
<1>4. CASE Close
  <2>1. TrySendOrClose(pendingTx, credits, TRUE) /\ unsent' = unsent /\ events' = events
    BY <1>4 DEF Close
  <2>2. \A type : WaitingEvents(type)' = WaitingEvents(type) BY <2>1, UncountedIfSame
  <2>3. credits + WaitingEvents("credit")' = credits + WaitingEvents("credit") BY <2>2
  <2> QED BY <1>1, <1>2, <2>1, <2>2, <2>3, StockHandedOver
<1>5. CASE OnCredits
  <2>1. /\ TrySendOrClose(pendingTx, credits + 1, closing) /\ unsent' = unsent
        /\ HandleEvent("credit")
    BY <1>5 DEF OnCredits
  <2>2. /\ events' \in Seq(Event) /\ Len(events') <= MaxEvents
        /\ WaitingEvents("tx")' = WaitingEvents("tx") - 0
        /\ WaitingEvents("rx")' = WaitingEvents("rx") - 0
        /\ WaitingEvents("credit")' = WaitingEvents("credit") - 1
    BY <1>0, <2>1, TakenCounts
  <2>3. /\ WaitingEvents("tx")' = WaitingEvents("tx")
        /\ WaitingEvents("rx")' = WaitingEvents("rx")
        /\ (credits + 1) + WaitingEvents("credit")' = credits + WaitingEvents("credit")
    <3>1. /\ WaitingEvents("tx") \in Nat /\ WaitingEvents("rx") \in Nat
          /\ WaitingEvents("credit") \in Nat /\ credits \in Nat
      BY <1>1
    <3> QED BY <2>2, <3>1
  <2>4. credits + 1 \in Nat BY <1>1
  <2> QED BY <1>1, <1>2, <2>1, <2>2, <2>3, <2>4, StockHandedOver
<1> QED BY <1>3, <1>4, <1>5

------------------------------------------------------------------------------
(* The SoftDevice leaves the port alone. *)
LEMMA StockUnderneath ==
    ASSUME Stock, UNCHANGED portVars, handle' \in BOOLEAN,
           sdLink' \in {"none", "up", "ending"},
           chan' \in {"none", "requested", "setup", "open", "releasing"},
           events' \in Seq(Event), Len(events') <= MaxEvents,
           sdTx' \in Seq(Buffers), sdRx' \in Seq(Buffers),
           Len(sdTx') <= Len(sdTx), Len(sdRx') <= Len(sdRx),
           Behind(txBufs, sdTx', WaitingEvents("tx")'),
           Behind(rxBufs, sdRx', WaitingEvents("rx")'),
           credits + WaitingEvents("tx")' + Len(sdTx') + WaitingEvents("credit")' <= MaxCredits,
           open /\ chan' = "open" =>
              /\ chan = "open"
              /\ Len(sdTx) + WaitingEvents("tx") = Len(sdTx') + WaitingEvents("tx")'
    PROVE  Stock'
<1>1. /\ L2capTypeOK
      /\ UNCHANGED <<cid, open, closing, credits, pendingTx, txBufs, rxBufs, unsent, failure>>
      /\ handle' \in BOOLEAN
  BY DEF portVars, Stock, L2capTypeOK
<1>2. L2capTypeOK'
  <2>1. Len(sdTx') <= TxBufMax /\ Len(sdRx') <= RxBufMax
    <3>1. /\ {Len(sdTx), Len(sdRx), Len(sdTx'), Len(sdRx'), TxBufMax, RxBufMax} \subseteq Nat
          /\ Len(sdTx) <= TxBufMax /\ Len(sdRx) <= RxBufMax
      BY <1>1, BufferAssumption DEF L2capTypeOK
    <3> QED BY <3>1
  <2> QED BY <1>1, <2>1 DEF L2capTypeOK
<1>3. HeldInv' BY <1>1 DEF HeldInv
<1>4. CreditInv' BY <1>1 DEF CreditInv
<1>5. SendsAccounted'
  <2> SUFFICES ASSUME open, chan' = "open", ~ closing
               PROVE  unsent <= Len(pendingTx) + Len(sdTx') + WaitingEvents("tx")'
    BY <1>1 DEF SendsAccounted
  <2>1. unsent <= Len(pendingTx) + Len(sdTx) + WaitingEvents("tx")
    BY DEF Stock, SendsAccounted
  <2>2. /\ Len(pendingTx) \in Nat /\ Len(sdTx) \in Nat /\ Len(sdTx') \in Nat
        /\ WaitingEvents("tx") \in Nat /\ WaitingEvents("tx")' \in Nat
    <3>1. WaitingEvents("tx")' \in Nat BY CountIsNat DEF WaitingEvents, Count
    <3>2. Len(sdTx') \in Nat OBVIOUS
    <3> QED BY <3>1, <3>2, StockNow
  <2>3. Len(pendingTx) + Len(sdTx) + WaitingEvents("tx")
           = Len(pendingTx) + (Len(sdTx) + WaitingEvents("tx"))
    BY <2>2
  <2>4. Len(pendingTx) + Len(sdTx') + WaitingEvents("tx")'
           = Len(pendingTx) + (Len(sdTx') + WaitingEvents("tx")')
    BY <2>2
  <2> QED BY <2>1, <2>3, <2>4
<1>6. RxFilled' BY <1>1 DEF Stock, RxFilled
<1> QED BY <1>1, <1>2, <1>3, <1>4, <1>5, <1>6 DEF Stock

(* What it reports of a channel that works. *)
LEMMA StockReported ==
    ASSUME L2capInv, Transmitted \/ Received \/ PeerGivesCredit
    PROVE  Stock'
<1>0. Stock /\ L2capTypeOK BY DEF L2capInv, Stock
<1>1. /\ events \in Seq(Event)
      /\ txBufs \in Seq(Buffers) /\ rxBufs \in Seq(Buffers)
      /\ sdTx \in Seq(Buffers) /\ sdRx \in Seq(Buffers)
      /\ Len(txBufs) \in Nat /\ Len(sdTx) \in Nat /\ Len(sdRx) \in Nat
      /\ credits \in Nat /\ MaxCredits \in Nat
      /\ \A type : WaitingEvents(type) \in Nat
      /\ Behind(txBufs, sdTx, WaitingEvents("tx"))
      /\ Behind(rxBufs, sdRx, WaitingEvents("rx"))
      /\ WaitingEvents("tx") + Len(sdTx) <= Len(txBufs)
      /\ credits + WaitingEvents("tx") + Len(sdTx) + WaitingEvents("credit") <= MaxCredits
  BY <1>0, StockNow
<1>2. /\ UNCHANGED portVars /\ handle' \in BOOLEAN /\ UNCHANGED chan /\ chan = "open"
      /\ sdLink' \in {"none", "up", "ending"}
      /\ chan' \in {"none", "requested", "setup", "open", "releasing"}
  BY <1>0 DEF Transmitted, Received, PeerGivesCredit, sdVars, L2capTypeOK
<1>3. CASE Transmitted
  <2>1. <<"tx", 0>> \in Event /\ Emit(<< <<"tx", 0>> >>) /\ sdTx # <<>> /\ sdTx' = Tail(sdTx)
        /\ sdRx' = sdRx
    BY <1>3 DEF Event, Transmitted
  <2>2. /\ events' \in Seq(Event) /\ Len(events') <= MaxEvents
        /\ WaitingEvents("tx")' = WaitingEvents("tx") + 1
        /\ WaitingEvents("rx")' = WaitingEvents("rx") + 0
        /\ WaitingEvents("credit")' = WaitingEvents("credit") + 0
    BY <1>1, <2>1, Emitted
  <2>3. /\ sdTx' \in Seq(Buffers) /\ Len(sdTx') = Len(sdTx) - 1 /\ Len(sdTx) \in Nat \ {0}
        /\ Behind(txBufs, sdTx', WaitingEvents("tx") + 1)
    BY <1>1, <2>1, BehindDone
  <2>4. /\ WaitingEvents("tx") \in Nat /\ WaitingEvents("rx") \in Nat
        /\ WaitingEvents("credit") \in Nat
    BY <1>1
  <2>5. /\ Len(sdTx') <= Len(sdTx) /\ Len(sdRx') <= Len(sdRx) /\ sdRx' \in Seq(Buffers)
        /\ WaitingEvents("rx")' = WaitingEvents("rx")
        /\ WaitingEvents("credit")' = WaitingEvents("credit")
        /\ Len(sdTx) + WaitingEvents("tx") = Len(sdTx') + WaitingEvents("tx")'
    BY <1>1, <2>1, <2>2, <2>3, <2>4
  <2>6. credits + WaitingEvents("tx")' + Len(sdTx') + WaitingEvents("credit")' <= MaxCredits
    BY <1>1, <2>2, <2>3, <2>4, <2>5, SMTT(60)
  <2> QED BY <1>0, <1>1, <1>2, <2>1, <2>2, <2>3, <2>5, <2>6, StockUnderneath
<1>4. CASE Received
  <2>1. /\ sdRx # <<>> /\ sdRx' = Tail(sdRx) /\ sdTx' = sdTx /\ Head(sdRx) \in Buffers
        /\ Emit(<< <<"rx", Head(sdRx)>> >>)
    BY <1>1, <1>4 DEF Received
  <2>2. <<"rx", Head(sdRx)>> \in Event BY <2>1 DEF Event
  <2>3. /\ events' \in Seq(Event) /\ Len(events') <= MaxEvents
        /\ WaitingEvents("tx")' = WaitingEvents("tx") + 0
        /\ WaitingEvents("rx")' = WaitingEvents("rx") + 1
        /\ WaitingEvents("credit")' = WaitingEvents("credit") + 0
    BY <1>1, <2>1, <2>2, Emitted
  <2>4. /\ sdRx' \in Seq(Buffers) /\ Len(sdRx') = Len(sdRx) - 1
        /\ Behind(rxBufs, sdRx', WaitingEvents("rx") + 1)
    BY <1>1, <2>1, BehindDone
  <2>5. /\ WaitingEvents("tx") \in Nat /\ WaitingEvents("credit") \in Nat BY <1>1
  <2>6. /\ Len(sdTx') <= Len(sdTx) /\ Len(sdRx') <= Len(sdRx) /\ sdTx' \in Seq(Buffers)
        /\ WaitingEvents("tx")' = WaitingEvents("tx")
        /\ WaitingEvents("credit")' = WaitingEvents("credit")
        /\ Len(sdTx') = Len(sdTx)
    BY <1>1, <2>1, <2>3, <2>4, <2>5
  <2> QED BY <1>0, <1>1, <1>2, <2>1, <2>3, <2>4, <2>6, StockUnderneath
<1>5. CASE PeerGivesCredit
  <2>1. /\ <<"credit", 0>> \in Event /\ Emit(<< <<"credit", 0>> >>)
        /\ UNCHANGED <<sdTx, sdRx>>
        /\ credits + Len(txBufs) < MaxCredits
        /\ \A i \in 1 .. Len(events) : events[i][1] # "credit"
    BY <1>5 DEF Event, PeerGivesCredit, sdVars
  <2>2. /\ events' \in Seq(Event) /\ Len(events') <= MaxEvents
        /\ WaitingEvents("tx")' = WaitingEvents("tx") + 0
        /\ WaitingEvents("rx")' = WaitingEvents("rx") + 0
        /\ WaitingEvents("credit")' = WaitingEvents("credit") + 1
    BY <1>1, <2>1, Emitted
  <2>3. WaitingEvents("credit") = 0 BY <1>1, <2>1, WaitingIsNat
  <2>4. WaitingEvents("tx") \in Nat /\ WaitingEvents("rx") \in Nat BY <1>1
  <2>5. /\ Len(sdTx') <= Len(sdTx) /\ Len(sdRx') <= Len(sdRx)
        /\ sdTx' \in Seq(Buffers) /\ sdRx' \in Seq(Buffers)
        /\ WaitingEvents("tx")' = WaitingEvents("tx")
        /\ WaitingEvents("rx")' = WaitingEvents("rx")
        /\ WaitingEvents("credit")' = 1
        /\ Len(sdTx') = Len(sdTx)
    BY <1>1, <2>1, <2>2, <2>3, <2>4
  <2>6. credits + WaitingEvents("tx")' + Len(sdTx') + WaitingEvents("credit")' <= MaxCredits
    <3>1. credits + (WaitingEvents("tx") + Len(sdTx)) + 1 <= MaxCredits
      BY <1>1, <2>1, <2>4, SMTT(60)
    <3> QED BY <1>1, <2>4, <2>5, <3>1, SMTT(60)
  <2> QED BY <1>0, <1>1, <1>2, <2>1, <2>2, <2>5, <2>6, StockUnderneath
<1> QED BY <1>3, <1>4, <1>5

(* What comes and goes. *)
LEMMA StockComesAndGoes ==
    ASSUME L2capInv, LinkUp \/ LinkEnds \/ Released \/ PeerRequests \/ ChannelSetUp
    PROVE  Stock'
<1>0. Stock /\ L2capTypeOK BY DEF L2capInv, Stock
<1>1. /\ events \in Seq(Event) /\ Len(events) <= MaxEvents
      /\ txBufs \in Seq(Buffers) /\ rxBufs \in Seq(Buffers)
      /\ sdTx \in Seq(Buffers) /\ sdRx \in Seq(Buffers)
      /\ Len(sdTx) \in Nat /\ Len(sdRx) \in Nat
      /\ credits \in Nat /\ MaxCredits \in Nat
      /\ WaitingEvents("tx") \in Nat /\ WaitingEvents("rx") \in Nat
      /\ WaitingEvents("credit") \in Nat
      /\ Behind(txBufs, sdTx, WaitingEvents("tx"))
      /\ Behind(rxBufs, sdRx, WaitingEvents("rx"))
      /\ credits + WaitingEvents("tx") + Len(sdTx) + WaitingEvents("credit") <= MaxCredits
  BY <1>0, StockNow DEF L2capTypeOK
<1>2. /\ UNCHANGED portVars /\ handle' \in BOOLEAN
      /\ sdLink' \in {"none", "up", "ending"}
      /\ chan' \in {"none", "requested", "setup", "open", "releasing"}
      /\ UNCHANGED <<sdTx, sdRx>> \/ (sdTx' = <<>> /\ sdRx' = <<>> /\ chan' = "none")
      /\ chan' = "open" => (chan = "open" /\ UNCHANGED <<sdTx, sdRx>>) \/ chan = "setup"
  BY <1>0 DEF LinkUp, LinkEnds, Released, PeerRequests, ChannelSetUp, ChannelEnds, L2capTypeOK
<1>3. /\ events' \in Seq(Event) /\ Len(events') <= MaxEvents
      /\ WaitingEvents("tx")' = WaitingEvents("tx")
      /\ WaitingEvents("rx")' = WaitingEvents("rx")
      /\ WaitingEvents("credit")' = WaitingEvents("credit")
  <2>1. CASE LinkUp
    <3>1. events' = events BY <2>1 DEF LinkUp
    <3> QED BY <1>1, <3>1, UncountedIfSame
  <2>2. CASE \E x \in Event : Emit(<<x>>) /\ x[1] \notin {"tx", "rx", "credit"}
    <3>1. PICK x \in Event : Emit(<<x>>) /\ x[1] \notin {"tx", "rx", "credit"} BY <2>2
    <3>2. /\ events' \in Seq(Event) /\ Len(events') <= MaxEvents
          /\ WaitingEvents("tx")' = WaitingEvents("tx") + 0
          /\ WaitingEvents("rx")' = WaitingEvents("rx") + 0
          /\ WaitingEvents("credit")' = WaitingEvents("credit") + 0
      BY <1>1, <3>1, Emitted
    <3> QED BY <1>1, <3>2
  <2>3. <<"released", 0>> \in Event /\ <<"disconnected", 0>> \in Event
    BY DEF Event
  <2>4. CASE Emit(<< <<"released", 0>>, <<"disconnected", 0>> >>)
    <3>1. PICK x \in Event, y \in Event :
             Emit(<<x, y>>) /\ {x[1], y[1]} = {"released", "disconnected"}
      BY <2>3, <2>4
    <3>2. \A type \in {"tx", "rx", "credit"} : x[1] # type /\ y[1] # type BY <3>1
    <3>3. /\ events' \in Seq(Event) /\ Len(events') <= MaxEvents
          /\ \A type : WaitingEvents(type)' = WaitingEvents(type)
                + (IF x[1] = type THEN 1 ELSE 0) + (IF y[1] = type THEN 1 ELSE 0)
      BY <1>1, <3>1, EmittedTwo
    <3>4. /\ WaitingEvents("tx")' = WaitingEvents("tx") + 0 + 0
          /\ WaitingEvents("rx")' = WaitingEvents("rx") + 0 + 0
          /\ WaitingEvents("credit")' = WaitingEvents("credit") + 0 + 0
      BY <3>2, <3>3
    <3> QED BY <1>1, <3>3, <3>4
  <2>5. CASE LinkEnds
    <3>1. \/ Emit(<< <<"disconnected", 0>> >>)
          \/ Emit(<< <<"released", 0>>, <<"disconnected", 0>> >>)
      BY <2>5 DEF LinkEnds
    <3> QED BY <2>2, <2>3, <2>4, <3>1
  <2>6. CASE Released BY <2>2, <2>3, <2>6 DEF Released
  <2>7. CASE PeerRequests
    <3>1. <<"request", 0>> \in Event /\ Emit(<< <<"request", 0>> >>)
      BY <2>7 DEF Event, PeerRequests
    <3> QED BY <2>2, <3>1
  <2>8. CASE ChannelSetUp
    <3>1. \/ \E n \in 0 .. MaxCredits : Emit(<< <<"setup", n>> >>)
          \/ Emit(<< <<"refused", 0>> >>)
      BY <2>8 DEF ChannelSetUp
    <3>2. <<"refused", 0>> \in Event /\ \A n \in 0 .. MaxCredits : <<"setup", n>> \in Event
      BY DEF Event
    <3> QED BY <2>2, <3>1, <3>2
  <2> QED BY <2>1, <2>5, <2>6, <2>7, <2>8
<1>4. /\ sdTx' \in Seq(Buffers) /\ sdRx' \in Seq(Buffers)
      /\ Len(sdTx') <= Len(sdTx) /\ Len(sdRx') <= Len(sdRx) /\ Len(sdTx') \in Nat
      /\ Behind(txBufs, sdTx', WaitingEvents("tx")')
      /\ Behind(rxBufs, sdRx', WaitingEvents("rx")')
  <2>1. CASE UNCHANGED <<sdTx, sdRx>> BY <1>1, <1>3, <2>1
  <2>2. CASE sdTx' = <<>> /\ sdRx' = <<>>
    <3>1. Behind(txBufs, <<>>, WaitingEvents("tx")) /\ Behind(rxBufs, <<>>, WaitingEvents("rx"))
      BY <1>1, BehindGone
    <3> QED BY <1>1, <1>3, <2>2, <3>1
  <2> QED BY <1>2, <2>1, <2>2
<1>5. credits + WaitingEvents("tx")' + Len(sdTx') + WaitingEvents("credit")' <= MaxCredits
  BY <1>1, <1>3, <1>4, SMTT(60)
<1>6. open => chan # "setup" BY DEF L2capInv, Order, OpenInv
<1> QED BY <1>0, <1>2, <1>3, <1>4, <1>5, <1>6, StockUnderneath

------------------------------------------------------------------------------
(* The queue q is filled up for the SoftDevice to receive into. *)
LEMMA Refilled ==
    ASSUME L2capTypeOK, NEW q \in Seq(Buffers), NEW k \in Nat, Behind(q, sdRx, k), RxSetup(q)
    PROVE  /\ rxBufs' \in Seq(Buffers) /\ sdRx' \in Seq(Buffers)
           /\ Len(sdRx') <= RxBufMax
           /\ Behind(rxBufs', sdRx', k)
           /\ chan = "open" => Len(rxBufs') >= RxBufMax
<1>1. /\ sdRx \in Seq(Buffers) /\ Len(sdRx) \in Nat /\ Len(sdRx) <= RxBufMax
      /\ RxBufMax \in Nat /\ Len(q) \in Nat /\ Free \subseteq Buffers
      /\ k + Len(sdRx) <= Len(q)
  BY BufferAssumption DEF L2capTypeOK, Free, Behind
<1>2. CASE chan # "open" \/ Len(q) >= RxBufMax
  <2>1. rxBufs' = q /\ sdRx' = sdRx BY <1>2 DEF RxSetup, ReceiveUpTo
  <2> QED BY <1>1, <1>2, <2>1
<1>3. CASE chan = "open" /\ ~ Len(q) >= RxBufMax
  <2> DEFINE m == RxBufMax - Len(q)
  <2>1. PICK more \in [1 .. m -> Free] : rxBufs' = q \o more /\ sdRx' = sdRx \o more
    BY <1>3 DEF RxSetup, ReceiveUpTo
  <2>2. m \in Nat BY <1>1, <1>3
  <2>3. more \in Seq(Buffers) /\ Len(more) = m
    <3> HIDE DEF m
    <3> QED BY <1>1, <2>1, <2>2
  <2>4. Behind(q \o more, sdRx \o more, k) BY <1>1, <2>2, <2>3, BehindMore
  <2>5. /\ q \o more \in Seq(Buffers) /\ Len(q \o more) = Len(q) + m
        /\ sdRx \o more \in Seq(Buffers) /\ Len(sdRx \o more) = Len(sdRx) + m
    <3> HIDE DEF m
    <3> QED BY <1>1, <2>2, <2>3
  <2>6. Len(q) + m = RxBufMax /\ Len(sdRx) + m <= RxBufMax BY <1>1
  <2> HIDE DEF m
  <2> QED BY <1>1, <2>1, <2>4, <2>5, <2>6
<1> QED BY <1>2, <1>3

(* A buffer comes back: its credit with it. *)
LEMMA StockTransmitted ==
    ASSUME L2capInv, OnTx
    PROVE  Stock'
<1>0. Stock /\ L2capTypeOK BY DEF L2capInv, Stock
<1>1. /\ txBufs \in Seq(Buffers) /\ pendingTx \in Seq(Buffers) /\ sdTx \in Seq(Buffers)
      /\ Len(pendingTx) \in Nat /\ Len(sdTx) \in Nat
      /\ credits \in Nat /\ MaxCredits \in Nat /\ unsent \in Nat /\ MaxUnsent \in Nat
      /\ unsent <= MaxUnsent
      /\ WaitingEvents("tx") \in Nat /\ WaitingEvents("rx") \in Nat
      /\ WaitingEvents("credit") \in Nat
      /\ Behind(txBufs, sdTx, WaitingEvents("tx"))
      /\ Behind(rxBufs, sdRx, WaitingEvents("rx"))
      /\ credits + WaitingEvents("tx") + Len(sdTx) + WaitingEvents("credit") <= MaxCredits
  BY <1>0, StockNow DEF L2capTypeOK
<1>2. HandleEvent("tx") BY DEF OnTx
<1>3. /\ events' \in Seq(Event) /\ Len(events') <= MaxEvents
      /\ WaitingEvents("tx")' = WaitingEvents("tx") - 1 /\ WaitingEvents("tx") > 0
      /\ WaitingEvents("rx")' = WaitingEvents("rx") - 0
      /\ WaitingEvents("credit")' = WaitingEvents("credit") - 0
  BY <1>0, <1>2, TakenCounts
<1>4. /\ WaitingEvents("rx")' = WaitingEvents("rx")
      /\ WaitingEvents("credit")' = WaitingEvents("credit")
      /\ WaitingEvents("tx")' \in Nat /\ WaitingEvents("tx") - 1 \in Nat
  BY <1>1, <1>3
<1>5. /\ txBufs # <<>> /\ Tail(txBufs) \in Seq(Buffers)
      /\ Behind(Tail(txBufs), sdTx, WaitingEvents("tx") - 1)
  BY <1>1, <1>3, BehindPop
<1>6. /\ txBufs' = Tail(txBufs) /\ credits' = credits + 1
      /\ unsent' = IF unsent = 0 THEN 0 ELSE unsent - 1
      /\ UNCHANGED <<failure, cid, open, closing, pendingTx, rxBufs, handle, sdLink, chan,
                     sdTx, sdRx>>
  BY <1>5 DEF OnTx, sdVars
<1>7. /\ credits' + WaitingEvents("tx")' + Len(sdTx') + WaitingEvents("credit")' <= MaxCredits
      /\ credits' \in Nat /\ Len(sdTx') \in Nat
  BY <1>1, <1>3, <1>4, <1>6, SMTT(60)
<1>8. credits' \in 0 .. MaxCredits BY <1>1, <1>4, <1>7, SMTT(60)
<1>9. unsent' \in 0 .. MaxUnsent BY <1>1, <1>6
<1>10. L2capTypeOK' BY <1>0, <1>3, <1>5, <1>6, <1>8, <1>9 DEF L2capTypeOK
<1>11. HeldInv' BY <1>1, <1>3, <1>4, <1>5, <1>6 DEF HeldInv
<1>12. CreditInv' BY <1>7 DEF CreditInv
<1>13. SendsAccounted'
  <2> SUFFICES ASSUME open, chan = "open", ~ closing
               PROVE  unsent' <= Len(pendingTx) + Len(sdTx) + WaitingEvents("tx")'
    BY <1>6 DEF SendsAccounted
  <2>1. unsent <= Len(pendingTx) + Len(sdTx) + WaitingEvents("tx")
    BY <1>0 DEF Stock, SendsAccounted
  <2> QED BY <1>1, <1>3, <1>4, <1>6, <2>1, SMTT(60)
<1>14. RxFilled' BY <1>0, <1>6 DEF Stock, RxFilled
<1> QED BY <1>0, <1>6, <1>10, <1>11, <1>12, <1>13, <1>14 DEF Stock

(* A buffer is received, and another one takes its place. *)
LEMMA StockReceived ==
    ASSUME L2capInv, OnRx
    PROVE  Stock'
<1>0. Stock /\ L2capTypeOK BY DEF L2capInv, Stock
<1>1. /\ rxBufs \in Seq(Buffers) /\ sdRx \in Seq(Buffers)
      /\ WaitingEvents("tx") \in Nat /\ WaitingEvents("rx") \in Nat
      /\ WaitingEvents("credit") \in Nat
      /\ Len(rxBufs) \in Nat /\ Len(sdRx) \in Nat
      /\ Behind(rxBufs, sdRx, WaitingEvents("rx"))
  BY <1>0, StockNow
<1>2. HandleEvent("rx") BY DEF OnRx
<1>3. /\ events' \in Seq(Event) /\ Len(events') <= MaxEvents
      /\ WaitingEvents("tx")' = WaitingEvents("tx") - 0
      /\ WaitingEvents("rx")' = WaitingEvents("rx") - 1 /\ WaitingEvents("rx") > 0
      /\ WaitingEvents("credit")' = WaitingEvents("credit") - 0
  BY <1>0, <1>2, TakenCounts
<1>4. /\ WaitingEvents("tx")' = WaitingEvents("tx")
      /\ WaitingEvents("credit")' = WaitingEvents("credit")
      /\ WaitingEvents("rx") - 1 \in Nat
  BY <1>1, <1>3
<1>5. /\ rxBufs # <<>> /\ Tail(rxBufs) \in Seq(Buffers)
      /\ Behind(Tail(rxBufs), sdRx, WaitingEvents("rx") - 1)
  BY <1>1, <1>3, BehindPop
<1>6. /\ UNCHANGED <<cid, open, closing, credits, pendingTx, txBufs, unsent, handle, sdLink,
                     chan, sdTx>>
      /\ failure' \in {"rx_buffer", "rx_refused", NoFailure}
      /\ \/ RxSetup(Tail(rxBufs))
         \/ UNCHANGED <<rxBufs, sdRx>>
  BY <1>5 DEF OnRx, RxSetup, ReceiveUpTo, IfGone
<1>7. /\ rxBufs' \in Seq(Buffers) /\ sdRx' \in Seq(Buffers)
      /\ Len(sdRx') <= RxBufMax
      /\ Behind(rxBufs', sdRx', WaitingEvents("rx") - 1)
      /\ open /\ chan = "open" => Len(rxBufs') >= RxBufMax
  <2>1. CASE RxSetup(Tail(rxBufs)) BY <1>0, <1>4, <1>5, <2>1, Refilled
  <2>2. CASE UNCHANGED <<rxBufs, sdRx>>
    <3>1. Behind(rxBufs, sdRx, WaitingEvents("rx") - 1)
      <4>1. /\ WaitingEvents("rx") + Len(sdRx) <= Len(rxBufs)
            /\ \A i \in 1 .. Len(sdRx) : \E j \in 1 .. Len(rxBufs) :
                  j >= WaitingEvents("rx") + i /\ rxBufs[j] = sdRx[i]
        BY <1>1 DEF Behind
      <4>2. \A i, j \in Nat : j >= WaitingEvents("rx") + i => j >= (WaitingEvents("rx") - 1) + i
        BY <1>1
      <4>3. (WaitingEvents("rx") - 1) + Len(sdRx) <= Len(rxBufs) BY <1>1, <4>1
      <4> QED BY <4>1, <4>2, <4>3 DEF Behind
    <3> QED BY <1>0, <1>1, <2>2, <3>1 DEF Stock, L2capTypeOK, RxFilled
  <2> QED BY <1>6, <2>1, <2>2
<1>8. L2capTypeOK' BY <1>0, <1>3, <1>6, <1>7 DEF L2capTypeOK
<1>9. HeldInv' BY <1>0, <1>3, <1>4, <1>6, <1>7 DEF Stock, HeldInv
<1>10. CreditInv' BY <1>0, <1>4, <1>6 DEF Stock, CreditInv
<1>11. SendsAccounted' BY <1>0, <1>4, <1>6 DEF Stock, SendsAccounted
<1>12. RxFilled' BY <1>6, <1>7 DEF RxFilled
<1>13. failure' \notin {"tx_empty", "rx_empty"} BY <1>6 DEF NoFailure
<1> QED BY <1>8, <1>9, <1>10, <1>11, <1>12, <1>13 DEF Stock

(* The bearer opens: nothing of it was sent before. *)
LEMMA StockOpened ==
    ASSUME L2capInv, OnSetup
    PROVE  Stock'
<1>0. Stock /\ L2capTypeOK /\ EventInv /\ OpenInv BY DEF L2capInv, Stock, Order
<1>1. /\ rxBufs \in Seq(Buffers) /\ sdRx \in Seq(Buffers) /\ events \in Seq(Event)
      /\ WaitingEvents("tx") \in Nat /\ WaitingEvents("rx") \in Nat
      /\ WaitingEvents("credit") \in Nat
      /\ MaxCredits \in Nat /\ MaxUnsent \in Nat
      /\ Behind(txBufs, sdTx, WaitingEvents("tx"))
      /\ Behind(rxBufs, sdRx, WaitingEvents("rx"))
      /\ Len(pendingTx) \in Nat
  BY <1>0, StockNow
<1>2. HandleEvent("setup") BY DEF OnSetup
<1>3. /\ events' \in Seq(Event) /\ Len(events') <= MaxEvents
      /\ events # <<>> /\ events[1] \in Event /\ events[1][1] = "setup"
      /\ WaitingEvents("tx")' = WaitingEvents("tx") - 0
      /\ WaitingEvents("rx")' = WaitingEvents("rx") - 0
      /\ WaitingEvents("credit")' = WaitingEvents("credit") - 0
  BY <1>0, <1>2, TakenCounts
<1>4. /\ WaitingEvents("tx")' = WaitingEvents("tx")
      /\ WaitingEvents("rx")' = WaitingEvents("rx")
      /\ WaitingEvents("credit")' = WaitingEvents("credit")
  BY <1>1, <1>3
<1>5. UNCHANGED <<cid, pendingTx, txBufs, handle, sdLink, chan, sdTx>> BY DEF OnSetup
<1>6. CASE chan # "open"
  <2>1. UNCHANGED <<open, closing, credits, unsent, rxBufs, sdRx>> /\ failure' = "flow_control"
    BY <1>6 DEF OnSetup
  <2>2. L2capTypeOK' BY <1>0, <1>3, <1>5, <2>1 DEF L2capTypeOK
  <2>3. HeldInv' BY <1>1, <1>4, <1>5, <2>1 DEF HeldInv
  <2>4. CreditInv' BY <1>0, <1>4, <1>5, <2>1 DEF Stock, CreditInv
  <2>5. SendsAccounted' /\ RxFilled' BY <1>5, <1>6 DEF SendsAccounted, RxFilled
  <2> QED BY <2>1, <2>2, <2>3, <2>4, <2>5 DEF Stock
<1>7. CASE chan = "open"
  <2>1. /\ RxSetup(rxBufs) /\ credits' = Head(events)[2]
        /\ open' = TRUE /\ closing' = FALSE /\ unsent' = 0 /\ failure' = NoFailure
    BY <1>7 DEF OnSetup, RxSetup, ReceiveUpTo, IfGone
  <2>2. /\ rxBufs' \in Seq(Buffers) /\ sdRx' \in Seq(Buffers)
        /\ Len(sdRx') <= RxBufMax
        /\ Behind(rxBufs', sdRx', WaitingEvents("rx"))
        /\ Len(rxBufs') >= RxBufMax
    BY <1>0, <1>1, <1>7, <2>1, Refilled
  <2>3. 1 \in 1 .. Len(events) /\ Head(events) = events[1] BY <1>1, <1>3
  <2>4. credits' \in 0 .. MaxCredits BY <1>3, <2>1, <2>3 DEF Event
  <2>5. ~ open /\ \A j \in 1 .. Len(events) : events[j][1] # "credit"
    BY <1>0, <1>3, <2>3 DEF EventInv
  <2>6. WaitingEvents("credit") = 0 BY <1>1, <2>5, WaitingIsNat
  <2>7. sdTx = <<>> /\ WaitingEvents("tx") = 0
    <3>1. sdTx = <<>> /\ \A i \in 1 .. Len(events) : events[i][1] # "tx"
      BY <1>0, <2>5 DEF OpenInv
    <3> QED BY <1>1, <3>1, WaitingIsNat
  <2>8. Len(sdTx') = 0 /\ WaitingEvents("tx")' = 0 /\ WaitingEvents("credit")' = 0
    BY <1>4, <1>5, <2>6, <2>7
  <2>9. L2capTypeOK'
    <3>1. unsent' \in 0 .. MaxUnsent BY <1>1, <2>1
    <3> QED BY <1>0, <1>3, <1>5, <2>1, <2>2, <2>4, <3>1 DEF L2capTypeOK
  <2>10. HeldInv' BY <1>1, <1>4, <1>5, <2>2 DEF HeldInv
  <2>11. CreditInv' BY <1>1, <2>4, <2>8 DEF CreditInv
  <2>12. SendsAccounted' BY <1>1, <1>5, <2>1, <2>8 DEF SendsAccounted
  <2>13. RxFilled' BY <2>2 DEF RxFilled
  <2> QED BY <1>0, <2>1, <2>9, <2>10, <2>11, <2>12, <2>13 DEF Stock, NoFailure
<1> QED BY <1>6, <1>7

(* The cid is taken for a channel, with one buffer to receive into. *)
LEMMA StockRequested ==
    ASSUME L2capInv, OnSetupRequest
    PROVE  Stock'
<1>0. Stock /\ L2capTypeOK /\ LinkInv /\ ChannelInv /\ EventInv /\ OpenInv
  BY DEF L2capInv, Stock, Order
<1>1. /\ rxBufs \in Seq(Buffers) /\ sdRx \in Seq(Buffers) /\ events \in Seq(Event)
      /\ WaitingEvents("tx") \in Nat /\ WaitingEvents("rx") \in Nat
      /\ WaitingEvents("credit") \in Nat
      /\ Behind(txBufs, sdTx, WaitingEvents("tx"))
      /\ Behind(rxBufs, sdRx, WaitingEvents("rx"))
      /\ RxBufMax \in Nat \ {0}
  BY <1>0, StockNow, BufferAssumption
<1>2. HandleEvent("request") BY DEF OnSetupRequest
<1>3. /\ events' \in Seq(Event) /\ Len(events') <= MaxEvents
      /\ WaitingEvents("tx")' = WaitingEvents("tx") - 0
      /\ WaitingEvents("rx")' = WaitingEvents("rx") - 0
      /\ WaitingEvents("credit")' = WaitingEvents("credit") - 0
      /\ events # <<>> /\ events[1][1] = "request"
  BY <1>0, <1>2, TakenCounts
<1>4. /\ WaitingEvents("tx")' = WaitingEvents("tx")
      /\ WaitingEvents("rx")' = WaitingEvents("rx")
      /\ WaitingEvents("credit")' = WaitingEvents("credit")
  BY <1>1, <1>3
<1>5. /\ UNCHANGED <<open, closing, credits, pendingTx, txBufs, unsent, failure, handle, sdLink,
                     sdTx>>
      /\ cid' = TRUE /\ ~ cid /\ ~ open
  BY <1>0 DEF OnSetupRequest, OpenInv
<1>6. /\ rxBufs' \in Seq(Buffers) /\ sdRx' \in Seq(Buffers) /\ Len(sdRx') <= RxBufMax
      /\ Behind(rxBufs', sdRx', WaitingEvents("rx"))
      /\ chan' \in {"none", "requested", "setup", "open", "releasing"}
  <2>1. CASE chan # "requested" BY <1>0, <1>1, <2>1 DEF OnSetupRequest, L2capTypeOK
  <2>2. CASE chan = "requested"
    <3>1. PICK b \in Buffers : chan' = "setup" /\ sdRx' = <<b>> /\ rxBufs' = Append(rxBufs, b)
      BY <2>2 DEF OnSetupRequest, Free
    <3>2. sdRx = <<>> BY <1>0, <2>2 DEF ChannelInv
    <3> DEFINE one == <<b>>
    <3>3. one \in Seq(Buffers) /\ Len(one) = 1 /\ one # <<>> OBVIOUS
    <3>4. rxBufs' = rxBufs \o one /\ sdRx' = sdRx \o one /\ sdRx' = one
      BY <1>1, <3>1, <3>2
    <3> HIDE DEF one
    <3>5. Behind(rxBufs \o one, sdRx \o one, WaitingEvents("rx")) BY <1>1, <3>3, BehindMore
    <3>6. rxBufs \o one \in Seq(Buffers) BY <1>1, <3>3
    <3> QED BY <1>1, <3>1, <3>3, <3>4, <3>5, <3>6
  <2> QED BY <2>1, <2>2
<1>7. L2capTypeOK' BY <1>0, <1>3, <1>5, <1>6 DEF L2capTypeOK
<1>8. HeldInv' BY <1>1, <1>4, <1>5, <1>6 DEF HeldInv
<1>9. CreditInv' BY <1>0, <1>4, <1>5 DEF Stock, CreditInv
<1>10. SendsAccounted' /\ RxFilled' BY <1>5 DEF SendsAccounted, RxFilled
<1> QED BY <1>0, <1>5, <1>7, <1>8, <1>9, <1>10 DEF Stock

(* A channel, or the attempt, is over: what the SoftDevice had is given up. *)
LEMMA StockEnded ==
    ASSUME L2capInv, OnSetupRefused \/ OnReleased \/ OnLinkGone
    PROVE  Stock'
<1>0. Stock /\ L2capTypeOK /\ LinkInv /\ ChannelInv /\ EventInv /\ OpenInv
  BY DEF L2capInv, Stock, Order
<1>1. /\ events \in Seq(Event)
      /\ WaitingEvents("tx") \in Nat /\ WaitingEvents("rx") \in Nat
      /\ WaitingEvents("credit") \in Nat
      /\ Behind(txBufs, sdTx, WaitingEvents("tx"))
      /\ Behind(rxBufs, sdRx, WaitingEvents("rx"))
      /\ Len(txBufs) \in Nat /\ Len(rxBufs) \in Nat
  BY <1>0, StockNow
<1>2. PICK type \in {"refused", "released", "disconnected"} :
         /\ HandleEvent(type)
         /\ type = "released" <=> OnReleased
         /\ type = "released" => pendingTx' = <<>> /\ txBufs' = <<>> /\ rxBufs' = <<>>
         /\ type # "released" => UNCHANGED <<pendingTx, txBufs, rxBufs>>
         /\ type = "refused" => open' = open
         /\ type # "refused" => open' = FALSE
  BY <1>0, TakenCounts DEF OnSetupRefused, OnReleased, OnLinkGone
<1>3. /\ events' \in Seq(Event) /\ Len(events') <= MaxEvents
      /\ events # <<>> /\ events[1][1] = type /\ events' = Tail(events)
      /\ WaitingEvents("tx")' = WaitingEvents("tx") - 0
      /\ WaitingEvents("rx")' = WaitingEvents("rx") - 0
      /\ WaitingEvents("credit")' = WaitingEvents("credit") - 0
  BY <1>0, <1>2, TakenCounts
<1>4. /\ WaitingEvents("tx")' = WaitingEvents("tx")
      /\ WaitingEvents("rx")' = WaitingEvents("rx")
      /\ WaitingEvents("credit")' = WaitingEvents("credit")
  BY <1>1, <1>3
<1>5. /\ cid' = FALSE /\ handle' \in BOOLEAN /\ closing' \in BOOLEAN
      /\ UNCHANGED <<credits, unsent, failure, sdLink, chan, sdTx, sdRx>>
  BY <1>0 DEF OnSetupRefused, OnReleased, OnLinkGone, sdVars, L2capTypeOK
<1>6. 1 \in 1 .. Len(events) /\ Len(events) \in Nat \ {0} BY <1>1, <1>3
<1>7. ~ open'
  <2>1. type = "refused" => ~ open BY <1>0, <1>3, <1>6 DEF EventInv
  <2> QED BY <1>2, <2>1
<1>8. chan \notin {"setup", "open", "releasing"}
  <2>1. chan \in {"setup", "open", "releasing"} => events[1][1] # type
    BY <1>0, <1>2, <1>6 DEF ChannelInv
  <2> QED BY <1>3, <2>1
<1>9. sdTx = <<>> /\ sdRx = <<>> BY <1>0, <1>8 DEF ChannelInv, L2capTypeOK
<1>10. type = "released" => WaitingEvents("tx") = 0 /\ WaitingEvents("rx") = 0
  <2> SUFFICES ASSUME type = "released"
               PROVE  WaitingEvents("tx") = 0 /\ WaitingEvents("rx") = 0
    OBVIOUS
  <2>1. \A j \in 1 .. Len(events) : j > 1 => events[j][1] \in {"request", "disconnected"}
    BY <1>0, <1>3, <1>6 DEF EventInv
  <2>2. \A j \in 1 .. Len(events) : j = 1 \/ j > 1 BY <1>6
  <2>3. \A j \in 1 .. Len(events) : events[j][1] \notin {"tx", "rx"} BY <1>3, <2>1, <2>2
  <2> QED BY <1>1, <2>3, WaitingIsNat
<1>11. HeldInv'
  <2>1. CASE type = "released"
    <3>1. Behind(<<>>, <<>>, 0) BY DEF Behind
    <3>2. txBufs' = <<>> /\ rxBufs' = <<>> /\ sdTx' = <<>> /\ sdRx' = <<>>
          /\ WaitingEvents("tx")' = 0 /\ WaitingEvents("rx")' = 0
      BY <1>2, <1>4, <1>5, <1>9, <1>10, <2>1
    <3> QED BY <3>1, <3>2 DEF HeldInv
  <2>2. CASE type # "released" BY <1>1, <1>2, <1>4, <1>5, <2>2 DEF HeldInv
  <2> QED BY <2>1, <2>2
<1>12. L2capTypeOK'
  <2>1. pendingTx' \in Seq(Buffers) /\ txBufs' \in Seq(Buffers) /\ rxBufs' \in Seq(Buffers)
    <3>1. <<>> \in Seq(Buffers) OBVIOUS
    <3>2. pendingTx \in Seq(Buffers) /\ txBufs \in Seq(Buffers) /\ rxBufs \in Seq(Buffers)
      BY <1>0 DEF L2capTypeOK
    <3>3. CASE type = "released" BY <1>2, <3>1, <3>3
    <3>4. CASE type # "released" BY <1>2, <3>2, <3>4
    <3> QED BY <3>3, <3>4
  <2> QED BY <1>0, <1>3, <1>5, <1>7, <1>2, <2>1 DEF L2capTypeOK
<1>13. CreditInv' BY <1>0, <1>4, <1>5 DEF Stock, CreditInv
<1>14. SendsAccounted' /\ RxFilled' BY <1>7 DEF SendsAccounted, RxFilled
<1> QED BY <1>0, <1>5, <1>11, <1>12, <1>13, <1>14 DEF Stock

------------------------------------------------------------------------------
(* The cid is given back at the end of what it was taken for. *)
LEMMA TakenKept ==
    ASSUME L2capInv, L2capNext
    PROVE  TakenInv'
<1>0. L2capTypeOK /\ LinkInv /\ ChannelInv /\ EventInv /\ OpenInv /\ TakenInv
  BY DEF L2capInv, Stock, Order
<1>e. events \in Seq(Event) /\ Len(events) \in Nat BY <1>0 DEF L2capTypeOK
<1> DEFINE Ends(type) == type \in {"refused", "released", "disconnected"}
<1>1. ASSUME cid' = cid,
             chan \in {"setup", "open", "releasing"} =>
                chan' \in {"setup", "open", "releasing"},
             \/ events' = events
             \/ events # <<>> /\ events' = Tail(events) /\ ~ Ends(events[1][1])
             \/ \E x \in Event : Emit(<<x>>)
      PROVE  TakenInv'
  <2>1. CASE events' = events BY <1>0, <1>1, <2>1 DEF TakenInv
  <2>2. CASE events # <<>> /\ events' = Tail(events) /\ ~ Ends(events[1][1])
    <3>1. ASSUME NEW i \in 1 .. Len(events), Ends(events[i][1])
          PROVE  \E j \in 1 .. Len(events') : Ends(events'[j][1])
      <4>1. i # 1 BY <2>2, <3>1
      <4>2. i - 1 \in 1 .. Len(events') /\ events'[i - 1] = events[(i - 1) + 1] /\ (i - 1) + 1 = i
        BY <1>e, <2>2, <4>1, Taken
      <4> QED BY <3>1, <4>2
    <3> QED BY <1>0, <1>1, <3>1 DEF TakenInv
  <2>3. CASE \E x \in Event : Emit(<<x>>)
    <3>1. \A i \in 1 .. Len(events) : i \in 1 .. Len(events') /\ events'[i] = events[i]
      BY <1>e, <2>3, Emitted
    <3> QED BY <1>0, <1>1, <3>1 DEF TakenInv
  <2> QED BY <1>1, <2>1, <2>2, <2>3
<1>2. CASE \E type \in {"setup", "tx", "rx", "credit"} :
              HandleEvent(type) /\ (OnSetup \/ OnTx \/ OnRx \/ OnCredits)
  <2>1. events # <<>> /\ events' = Tail(events) /\ ~ Ends(events[1][1])
    BY <1>0, <1>2, TakenCounts
  <2>2. /\ cid' = cid
        /\ chan' = chan \/ (chan = "open" /\ chan' = "releasing")
    BY <1>2 DEF OnSetup, OnTx, OnRx, OnCredits, TrySendOrClose, sdVars
  <2> QED BY <1>1, <2>1, <2>2
<1>3. CASE Send \/ Close
  <2>1. events' = events /\ cid' = cid /\ (chan' = chan \/ (chan = "open" /\ chan' = "releasing"))
    BY <1>3 DEF Send, Close, TrySendOrClose
  <2> QED BY <1>1, <2>1
<1>4. CASE OnSetupRequest
  <2>1. Order' BY <1>0, <1>4, OrderRequested DEF Order
  <2>2. \/ chan' = "setup"
        \/ chan # "requested" /\ sdLink' = sdLink /\ handle' = handle /\ events # <<>>
    BY <1>4 DEF OnSetupRequest, HandleEvent
  <2>3. chan # "requested" => sdLink = "none" /\ handle
    <3>1. events[1][1] = "request" /\ 1 \in 1 .. Len(events) /\ events # <<>>
      BY <1>0, <1>e, <1>4, TakenCounts DEF OnSetupRequest
    <3> QED BY <1>0, <3>1 DEF EventInv, LinkInv
  <2>4. CASE chan' = "setup" BY <2>4 DEF TakenInv
  <2>5. CASE chan # "requested" /\ sdLink' = sdLink /\ handle' = handle
    <3>1. events' # <<>> /\ events'[Len(events')][1] = "disconnected"
      BY <2>1, <2>3, <2>5 DEF Order, LinkInv
    <3>2. Len(events') \in 1 .. Len(events')
      BY <1>0, <1>4, <3>1, TakenCounts DEF OnSetupRequest
    <3> QED BY <3>1, <3>2 DEF TakenInv
  <2> QED BY <2>2, <2>4, <2>5
<1>5. CASE OnSetupRefused \/ OnReleased \/ OnLinkGone
  BY <1>5 DEF OnSetupRefused, OnReleased, OnLinkGone, TakenInv
<1>6. CASE LinkUp
  BY <1>1, <1>6 DEF LinkUp, portVars
<1>7. CASE PeerRequests \/ Transmitted \/ Received \/ PeerGivesCredit
  <2>1. \E x \in Event : Emit(<<x>>)
    <3>1. <<"request", 0>> \in Event /\ <<"tx", 0>> \in Event /\ <<"credit", 0>> \in Event
          /\ \A b \in Buffers : <<"rx", b>> \in Event
      BY DEF Event
    <3>2. sdRx # <<>> => Head(sdRx) \in Buffers BY <1>0 DEF L2capTypeOK
    <3> QED BY <1>7, <3>1, <3>2 DEF PeerRequests, Transmitted, Received, PeerGivesCredit
  <2>2. cid' = cid /\ (chan' = chan \/ chan = "none")
    BY <1>7 DEF PeerRequests, Transmitted, Received, PeerGivesCredit, portVars, sdVars
  <2> QED BY <1>1, <2>1, <2>2
<1>8. CASE ChannelSetUp \/ Released \/ LinkEnds
  <2>1. <<"refused", 0>> \in Event /\ <<"released", 0>> \in Event
        /\ <<"disconnected", 0>> \in Event
    BY DEF Event
  <2>2. CASE ChannelSetUp /\ chan' = "open" BY <2>2 DEF TakenInv
  <2>3. CASE \E x \in Event : Emit(<<x>>) /\ Ends(x[1])
    <3>1. PICK x \in Event : Emit(<<x>>) /\ Ends(x[1]) BY <2>3
    <3>2. Len(events) + 1 \in 1 .. Len(events') /\ events'[Len(events) + 1] = x
      BY <1>e, <3>1, Emitted
    <3> QED BY <3>1, <3>2 DEF TakenInv
  <2>4. CASE Emit(<< <<"released", 0>>, <<"disconnected", 0>> >>)
    <3>1. PICK x \in Event, y \in Event : Emit(<<x, y>>) /\ Ends(x[1]) BY <2>1, <2>4
    <3>2. Len(events) + 1 \in 1 .. Len(events') /\ events'[Len(events) + 1] = x
      BY <1>e, <3>1, EmittedTwo
    <3> QED BY <3>1, <3>2 DEF TakenInv
  <2>5. \/ ChannelSetUp /\ chan' = "open"
        \/ Emit(<< <<"refused", 0>> >>) \/ Emit(<< <<"released", 0>> >>)
        \/ Emit(<< <<"disconnected", 0>> >>)
        \/ Emit(<< <<"released", 0>>, <<"disconnected", 0>> >>)
    BY <1>8 DEF ChannelSetUp, Released, LinkEnds
  <2> QED BY <2>1, <2>2, <2>3, <2>4, <2>5
<1>9. ~ Ignored BY <1>0, NoneIgnored DEF Order
<1> QED
  BY <1>2, <1>3, <1>4, <1>5, <1>6, <1>7, <1>8, <1>9
  DEF L2capNext, MainHandles, SoftDeviceStep, OnSetup, OnTx, OnRx, OnCredits

------------------------------------------------------------------------------

LEMMA L2capStarts == L2capInit => L2capInv
<1> SUFFICES ASSUME L2capInit PROVE L2capInv
  OBVIOUS
<1>1. events = <<>> /\ events \in Seq(Event) /\ Len(events) = 0 /\ \A i \in 1 .. Len(events) : FALSE
  BY DEF L2capInit
<1>2. \A type : WaitingEvents(type) = 0 BY <1>1, WaitingIsNat
<1>3. /\ TxBufMax \in Nat /\ RxBufMax \in Nat /\ MaxUnsent \in Nat
      /\ MaxCredits \in Nat /\ MaxEvents \in Nat
  BY BufferAssumption
<1>4. L2capTypeOK
  <2>1. \A q \in {pendingTx, txBufs, rxBufs, sdTx, sdRx} : q \in Seq(Buffers)
    <3>1. /\ pendingTx = <<>> /\ txBufs = <<>> /\ rxBufs = <<>>
          /\ sdTx = <<>> /\ sdRx = <<>> /\ <<>> \in Seq(Buffers)
      BY DEF L2capInit
    <3> QED BY <3>1
  <2>2. Len(sdTx) = 0 /\ Len(sdRx) = 0 BY DEF L2capInit
  <2>3. /\ credits \in 0 .. MaxCredits /\ unsent \in 0 .. MaxUnsent
        /\ Len(sdTx) <= TxBufMax /\ Len(sdRx) <= RxBufMax /\ Len(events) <= MaxEvents
    BY <1>1, <1>3, <2>2 DEF L2capInit
  <2> QED BY <1>1, <2>1, <2>3 DEF L2capInit, L2capTypeOK
<1>5. Order BY <1>1 DEF L2capInit, Order, LinkInv, ChannelInv, EventInv, OpenInv
<1>6. TakenInv /\ SendsAccounted /\ RxFilled BY DEF L2capInit, TakenInv, SendsAccounted, RxFilled
<1>7. HeldInv
  <2>1. Behind(<<>>, <<>>, 0) BY DEF Behind
  <2> QED BY <1>2, <2>1 DEF L2capInit, HeldInv
<1>8. CreditInv
  <2>1. credits = 0 /\ Len(sdTx) = 0 BY DEF L2capInit
  <2>2. WaitingEvents("tx") = 0 /\ WaitingEvents("credit") = 0 BY <1>2
  <2> QED BY <1>3, <2>1, <2>2 DEF CreditInv
<1>9. failure \notin {"tx_empty", "rx_empty"} BY DEF L2capInit, NoFailure
<1> QED BY <1>4, <1>5, <1>6, <1>7, <1>8, <1>9 DEF L2capInv, Stock

LEMMA L2capStepsKeep == L2capInv /\ [L2capNext]_l2capVars => L2capInv'
<1> SUFFICES ASSUME L2capInv, [L2capNext]_l2capVars PROVE L2capInv'
  OBVIOUS
<1>0. L2capTypeOK /\ Order BY DEF L2capInv, Stock
<1>1. CASE UNCHANGED l2capVars
  <2>1. UNCHANGED <<cid, open, closing, credits, pendingTx, txBufs, rxBufs, unsent, failure,
                    handle, sdLink, chan, sdTx, sdRx, events>>
    BY <1>1 DEF l2capVars, portVars, sdVars
  <2>2. Order'
    BY <1>0, <2>1 DEF Order, LinkInv, ChannelInv, EventInv, OpenInv
  <2>3. TakenInv' BY <2>1 DEF L2capInv, TakenInv
  <2>4. L2capTypeOK' BY <1>0, <2>1 DEF L2capTypeOK
  <2>5. \A type : WaitingEvents(type)' = WaitingEvents(type) BY <2>1, UncountedIfSame
  <2>6. HeldInv' /\ CreditInv' /\ SendsAccounted' /\ RxFilled'
    BY <2>1, <2>5 DEF L2capInv, Stock, HeldInv, CreditInv, SendsAccounted, RxFilled
  <2> QED BY <2>1, <2>2, <2>3, <2>4, <2>6 DEF L2capInv, Stock
<1>2. CASE L2capNext
  <2>1. TakenInv' BY <1>2, TakenKept
  <2>2. CASE Send \/ Close \/ OnCredits
    BY <1>0, <2>1, <2>2, OrderSending, StockSending DEF L2capInv
  <2>3. CASE OnTx BY <1>0, <2>1, <2>3, OrderHandled, StockTransmitted DEF L2capInv
  <2>4. CASE OnRx BY <1>0, <2>1, <2>4, OrderHandled, StockReceived DEF L2capInv
  <2>5. CASE OnSetup BY <1>0, <2>1, <2>5, OrderHandled, StockOpened DEF L2capInv
  <2>6. CASE OnSetupRequest
    BY <1>0, <2>1, <2>6, OrderRequested, StockRequested DEF L2capInv
  <2>7. CASE OnSetupRefused \/ OnReleased
    BY <1>0, <2>1, <2>7, OrderEnded, StockEnded DEF L2capInv
  <2>8. CASE OnLinkGone BY <1>0, <2>1, <2>8, OrderGone, StockEnded DEF L2capInv
  <2>9. CASE Transmitted \/ Received \/ PeerGivesCredit
    BY <1>0, <2>1, <2>9, OrderReported, StockReported DEF L2capInv
  <2>10. CASE LinkUp BY <1>0, <2>1, <2>10, OrderConnected, StockComesAndGoes DEF L2capInv
  <2>11. CASE PeerRequests \/ ChannelSetUp \/ Released
    BY <1>0, <2>1, <2>11, OrderChannel, StockComesAndGoes DEF L2capInv
  <2>12. CASE LinkEnds BY <1>0, <2>1, <2>12, OrderLost, StockComesAndGoes DEF L2capInv
  <2>13. ~ Ignored BY <1>0, NoneIgnored
  <2> QED
    BY <1>2, <2>2, <2>3, <2>4, <2>5, <2>6, <2>7, <2>8, <2>9, <2>10, <2>11, <2>12, <2>13
    DEF L2capNext, MainHandles, SoftDeviceStep
<1> QED BY <1>1, <1>2

LEMMA L2capInvariant == L2capSpec => []L2capInv
BY L2capStarts, L2capStepsKeep, PTL DEF L2capSpec

(* What the SoftDevice sends from or receives into is in the port's queues *)
(* until its event is handled: popping the oldest buffer, as ch_tx and     *)
(* ch_rx do, never frees a buffer the SoftDevice holds.                    *)
THEOREM HeldBuffersStay == L2capSpec => []HeldBuffersKept
<1>1. L2capInv => HeldBuffersKept
  <2> SUFFICES ASSUME L2capInv PROVE HeldBuffersKept
    OBVIOUS
  <2>1. Stock /\ L2capTypeOK BY DEF L2capInv, Stock
  <2>2. /\ Behind(txBufs, sdTx, WaitingEvents("tx")) /\ Behind(rxBufs, sdRx, WaitingEvents("rx"))
        /\ WaitingEvents("tx") \in Nat /\ WaitingEvents("rx") \in Nat
    BY <2>1, StockNow
  <2> QED BY <2>1, <2>2, BehindAll DEF HeldBuffersKept, L2capTypeOK
<1> QED BY <1>1, L2capInvariant, PTL

------------------------------------------------------------------------------
(* What an open channel can receive into.                                  *)

(* A buffer is in the port's queue once.                                   *)
RxDistinct == \A i, j \in 1 .. Len(rxBufs) : rxBufs[i] = rxBufs[j] => i = j

(* A queue left-over buffers have made too long has one of them first.     *)
RxLeftFirst ==
    chan \in {"setup", "open"} /\ Len(rxBufs) > RxBufMax =>
        rxBufs[1] \notin ToSet(sdRx) \union Arrived

(* The SoftDevice has a buffer, or main replaces one it has given back.    *)
RxServed ==
    chan \in {"setup", "open"} /\ failure = NoFailure => sdRx # <<>> \/ Arrived # {}

RxInv == RxDistinct /\ RxLeftFirst /\ RxServed

LEMMA ArrivedIs ==
    ASSUME events \in Seq(Event)
    PROVE  \A b : b \in Arrived <=> \E i \in 1 .. Len(events) : events[i] = <<"rx", b>>
<1>1. \A i \in 1 .. Len(events) : events[i] \in Event OBVIOUS
<1>2. \A x \in Event : x = <<x[1], x[2]>> BY DEF Event
<1>3. ASSUME NEW b
      PROVE  b \in Arrived <=> \E i \in 1 .. Len(events) : events[i] = <<"rx", b>>
  BY <1>1, <1>2 DEF Arrived
<1> QED BY <1>3

(* Main takes an event; only one of type rx was of a buffer.               *)
LEMMA ArrivedTaken ==
    ASSUME L2capTypeOK, NEW type, HandleEvent(type)
    PROVE  /\ Arrived' \subseteq Arrived
           /\ type # "rx" => Arrived' = Arrived
           /\ type = "rx" => Head(events)[2] \in Arrived
<1>1. /\ events \in Seq(Event) /\ events # <<>> /\ events' = Tail(events)
      /\ events' \in Seq(Event) /\ events[1][1] = type /\ events[1] \in Event
  BY TakenCounts DEF L2capTypeOK
<1>2. /\ Len(events) \in Nat \ {0} /\ Len(events') = Len(events) - 1 /\ Head(events) = events[1]
      /\ \A i \in 1 .. Len(events') : events'[i] = events[i + 1] /\ i + 1 \in 1 .. Len(events)
  BY <1>1, Taken
<1>3. \A b : b \in Arrived <=> \E i \in 1 .. Len(events) : events[i] = <<"rx", b>>
  BY <1>1, ArrivedIs
<1>4. \A b : b \in Arrived' <=> \E i \in 1 .. Len(events') : events'[i] = <<"rx", b>>
  <2>1. \A i \in 1 .. Len(events') : events'[i] \in Event BY <1>1
  <2>2. \A x \in Event : x = <<x[1], x[2]>> BY DEF Event
  <2>3. ASSUME NEW b
        PROVE  b \in Arrived' <=> \E i \in 1 .. Len(events') : events'[i] = <<"rx", b>>
    BY <2>1, <2>2 DEF Arrived
  <2> QED BY <2>3
<1>5. Arrived' \subseteq Arrived BY <1>2, <1>3, <1>4
<1>6. ASSUME type # "rx", NEW b \in Arrived PROVE b \in Arrived'
  <2>1. PICK i \in 1 .. Len(events) : events[i] = <<"rx", b>> BY <1>3, <1>6
  <2>2. i # 1 BY <1>1, <1>6, <2>1
  <2>3. i - 1 \in 1 .. Len(events') /\ (i - 1) + 1 = i BY <1>2, <2>2
  <2>4. events'[i - 1] = <<"rx", b>> BY <1>2, <2>1, <2>3
  <2> QED BY <1>4, <2>3, <2>4
<1>7. type = "rx" => Head(events)[2] \in Arrived
  <2>1. events[1] = <<events[1][1], events[1][2]>> BY <1>1 DEF Event
  <2>2. 1 \in 1 .. Len(events) BY <1>2
  <2> QED BY <1>1, <1>2, <1>3, <2>1, <2>2
<1> QED BY <1>5, <1>6, <1>7

(* The SoftDevice queues an event; only one of type rx is of a buffer.     *)
LEMMA ArrivedMore ==
    ASSUME events \in Seq(Event), NEW x \in Event, Emit(<<x>>)
    PROVE  Arrived' = Arrived \union (IF x[1] = "rx" THEN {x[2]} ELSE {})
<1>1. /\ events' \in Seq(Event) /\ Len(events') = Len(events) + 1 /\ Len(events) \in Nat
      /\ events'[Len(events) + 1] = x
      /\ \A i \in 1 .. Len(events) : events'[i] = events[i]
  BY Emitted
<1>2. \A i \in 1 .. Len(events') : i \in 1 .. Len(events) \/ i = Len(events) + 1 BY <1>1
<1>3. 1 .. Len(events) \subseteq 1 .. Len(events') /\ Len(events) + 1 \in 1 .. Len(events')
  BY <1>1
<1>4. Arrived' = {events'[i][2] : i \in {j \in 1 .. Len(events') : events'[j][1] = "rx"}}
  BY DEF Arrived
<1>5. ASSUME NEW b \in Arrived'
      PROVE  b \in Arrived \union (IF x[1] = "rx" THEN {x[2]} ELSE {})
  <2>1. PICK i \in 1 .. Len(events') : events'[i][1] = "rx" /\ b = events'[i][2]
    BY <1>4, <1>5
  <2> QED BY <1>1, <1>2, <2>1 DEF Arrived
<1>6. ASSUME NEW b \in Arrived PROVE b \in Arrived'
  <2>1. PICK i \in 1 .. Len(events) : events[i][1] = "rx" /\ b = events[i][2]
    BY <1>6 DEF Arrived
  <2>2. i \in 1 .. Len(events') /\ events'[i] = events[i] BY <1>1, <1>3, <2>1
  <2> QED BY <1>4, <2>1, <2>2
<1>7. x[1] = "rx" => x[2] \in Arrived' BY <1>1, <1>3, <1>4
<1> QED BY <1>5, <1>6, <1>7

(* The queue q, what is left of rx_bufs, is filled up with free buffers.   *)
LEMMA RefilledDistinct ==
    ASSUME L2capTypeOK, NEW q \in Seq(Buffers), ToSet(q) \subseteq ToSet(rxBufs),
           \A i, j \in 1 .. Len(q) : q[i] = q[j] => i = j,
           RxSetup(q)
    PROVE  /\ RxDistinct'
           /\ chan # "open" \/ Len(q) >= RxBufMax => rxBufs' = q /\ sdRx' = sdRx
           /\ chan = "open" /\ Len(q) < RxBufMax => Len(rxBufs') = RxBufMax /\ sdRx' # <<>>
<1>1. RxBufMax \in Nat /\ Len(q) \in Nat /\ sdRx \in Seq(Buffers) /\ Free \subseteq Buffers
  BY BufferAssumption DEF L2capTypeOK, Free
<1>2. CASE chan # "open" \/ Len(q) >= RxBufMax
  <2>1. rxBufs' = q /\ sdRx' = sdRx BY <1>2 DEF RxSetup, ReceiveUpTo
  <2> QED BY <1>1, <1>2, <2>1 DEF RxDistinct
<1>3. CASE chan = "open" /\ ~ Len(q) >= RxBufMax
  <2> DEFINE m == RxBufMax - Len(q)
  <2>1. PICK more \in [1 .. m -> Free] :
           IsInjective(more) /\ rxBufs' = q \o more /\ sdRx' = sdRx \o more
    BY <1>3 DEF RxSetup, ReceiveUpTo
  <2>2. m \in Nat \ {0} /\ Len(q) + m = RxBufMax BY <1>1, <1>3
  <2> HIDE DEF m
  <2>3. more \in Seq(Buffers) /\ Len(more) = m /\ DOMAIN more = 1 .. m BY <1>1, <2>1, <2>2
  <2>4. /\ Len(q \o more) = Len(q) + m
        /\ \A i \in 1 .. Len(q) + m :
              (q \o more)[i] = IF i <= Len(q) THEN q[i] ELSE more[i - Len(q)]
    BY <1>1, <2>2, <2>3
  <2>5. \A i \in 1 .. Len(q) : q[i] \in ToSet(rxBufs)
    <3>1. DOMAIN q = 1 .. Len(q) OBVIOUS
    <3>2. \A i \in 1 .. Len(q) : q[i] \in ToSet(q) BY <3>1 DEF ToSet
    <3> QED BY <3>2
  <2>6. \A i \in 1 .. m : more[i] \notin ToSet(rxBufs) BY <2>1 DEF Free
  <2>7. \A i, j \in 1 .. m : more[i] = more[j] => i = j BY <2>1, <2>3 DEF IsInjective
  <2>8. ASSUME NEW i \in 1 .. Len(q) + m, NEW j \in 1 .. Len(q) + m,
               (q \o more)[i] = (q \o more)[j]
        PROVE  i = j
    <3>1. \A k \in 1 .. Len(q) + m :
             IF k <= Len(q) THEN k \in 1 .. Len(q) ELSE k - Len(q) \in 1 .. m
      BY <1>1, <2>2
    <3>2. CASE i <= Len(q) /\ j <= Len(q) BY <2>4, <2>8, <3>1, <3>2
    <3>3. CASE i <= Len(q) /\ ~ j <= Len(q) BY <2>4, <2>5, <2>6, <2>8, <3>1, <3>3
    <3>4. CASE ~ i <= Len(q) /\ j <= Len(q) BY <2>4, <2>5, <2>6, <2>8, <3>1, <3>4
    <3>5. CASE ~ i <= Len(q) /\ ~ j <= Len(q)
      <4>1. i - Len(q) = j - Len(q) BY <2>4, <2>7, <2>8, <3>1, <3>5
      <4> QED BY <1>1, <4>1
    <3> QED BY <3>2, <3>3, <3>4, <3>5
  <2>9. RxDistinct' BY <2>1, <2>4, <2>8 DEF RxDistinct
  <2>10. Len(sdRx \o more) = Len(sdRx) + m /\ Len(sdRx) \in Nat BY <1>1, <2>2, <2>3
  <2>11. sdRx' # <<>> /\ Len(rxBufs') = RxBufMax BY <2>1, <2>2, <2>4, <2>10
  <2> QED BY <1>1, <1>3, <2>9, <2>11
<1> QED BY <1>1, <1>2, <1>3

(* Nothing changes but that main may take an event of no buffer.           *)
LEMMA RxQuiet ==
    ASSUME RxInv, UNCHANGED <<rxBufs, sdRx>>, Arrived' = Arrived,
           chan' \in {"setup", "open"} => chan \in {"setup", "open"},
           failure' = NoFailure => failure = NoFailure
    PROVE  RxInv'
BY DEF RxInv, RxDistinct, RxLeftFirst, RxServed

(* Only the end of a channel, or of the attempt, empties the port's queue. *)
LEMMA RxKept ==
    ASSUME L2capInv, RxInv, L2capNext
    PROVE  RxInv'
<1>0. /\ L2capTypeOK /\ LinkInv /\ ChannelInv /\ EventInv
      /\ RxDistinct /\ RxLeftFirst /\ RxServed
  BY DEF L2capInv, Stock, Order, RxInv
<1>1. /\ events \in Seq(Event) /\ Len(events) \in Nat
      /\ rxBufs \in Seq(Buffers) /\ Len(rxBufs) \in Nat
      /\ sdRx \in Seq(Buffers) /\ RxBufMax \in Nat \ {0} /\ failure = NoFailure
  BY <1>0, BufferAssumption DEF L2capTypeOK, L2capNext
<1>2. CASE Send \/ Close
  <2>1. /\ UNCHANGED <<rxBufs, sdRx, events>>
        /\ chan' \in {"setup", "open"} => chan \in {"setup", "open"}
    BY <1>2 DEF Send, Close, TrySendOrClose
  <2>2. Arrived' = Arrived BY <2>1 DEF Arrived
  <2> QED BY <1>1, <2>1, <2>2, RxQuiet
<1>3. CASE OnCredits \/ OnTx
  <2>1. /\ UNCHANGED <<rxBufs, sdRx>>
        /\ HandleEvent("credit") \/ HandleEvent("tx")
        /\ chan' \in {"setup", "open"} => chan \in {"setup", "open"}
    BY <1>3 DEF OnCredits, OnTx, TrySendOrClose, sdVars
  <2>2. Arrived' = Arrived BY <1>0, <2>1, ArrivedTaken
  <2> QED BY <1>1, <2>1, <2>2, RxQuiet
<1>4. CASE OnSetupRefused \/ OnReleased \/ OnLinkGone
  <2>1. UNCHANGED <<chan, sdRx>> /\ (rxBufs' = rxBufs \/ rxBufs' = <<>>)
    BY <1>4 DEF OnSetupRefused, OnReleased, OnLinkGone, sdVars
  <2>2. PICK type \in {"refused", "released", "disconnected"} : HandleEvent(type)
    BY <1>4 DEF OnSetupRefused, OnReleased, OnLinkGone
  <2>3. events[1][1] = type /\ events # <<>> BY <1>0, <2>2, TakenCounts
  <2>4. chan \notin {"setup", "open"}
    <3>1. 1 \in 1 .. Len(events) BY <1>1, <2>3
    <3> QED BY <1>0, <2>3, <3>1 DEF ChannelInv
  <2>5. RxDistinct' BY <1>0, <2>1 DEF RxDistinct
  <2> QED BY <2>1, <2>4, <2>5 DEF RxInv, RxLeftFirst, RxServed
<1>5. CASE OnSetupRequest
  <2>1. CASE chan # "requested"
    <3>1. UNCHANGED <<chan, sdRx, rxBufs, failure>> /\ HandleEvent("request")
      BY <1>5, <2>1 DEF OnSetupRequest
    <3>2. Arrived' = Arrived BY <1>0, <3>1, ArrivedTaken
    <3> QED BY <3>1, <3>2, RxQuiet
  <2>2. CASE chan = "requested"
    <3>1. PICK b \in Free : sdRx' = <<b>> /\ rxBufs' = Append(rxBufs, b)
      BY <1>5, <2>2 DEF OnSetupRequest
    <3>2. chan' = "setup" BY <1>5, <2>2 DEF OnSetupRequest
    <3>3. events' = <<>> BY <1>0, <1>5, <3>2, OrderRequested DEF Order, ChannelInv, L2capInv
    <3>4. Arrived' = {} BY <3>3 DEF Arrived
    <3>5. ToSet(sdRx') = {b} BY <3>1 DEF ToSet
    <3>6. /\ Len(rxBufs') = Len(rxBufs) + 1 /\ rxBufs'[Len(rxBufs) + 1] = b
          /\ \A i \in 1 .. Len(rxBufs) : rxBufs'[i] = rxBufs[i]
      BY <1>1, <3>1 DEF Free
    <3>7. \A i \in 1 .. Len(rxBufs) : rxBufs[i] # b BY <3>1 DEF Free, ToSet
    <3>8. RxDistinct' BY <1>0, <1>1, <3>6, <3>7 DEF RxDistinct
    <3>9. Len(rxBufs') > RxBufMax => rxBufs'[1] # b
      <4>1. Len(rxBufs') > RxBufMax => 1 \in 1 .. Len(rxBufs) BY <1>1, <3>6
      <4> QED BY <3>6, <3>7, <4>1
    <3>10. RxLeftFirst' BY <3>4, <3>5, <3>9 DEF RxLeftFirst
    <3>11. RxServed' BY <3>1 DEF RxServed
    <3> QED BY <3>8, <3>10, <3>11 DEF RxInv
  <2> QED BY <2>1, <2>2
<1>6. CASE OnSetup
  <2>1. HandleEvent("setup") /\ chan' = chan BY <1>6 DEF OnSetup
  <2>2. Arrived' = Arrived BY <1>0, <2>1, ArrivedTaken
  <2>3. CASE chan # "open"
    <3>1. UNCHANGED <<rxBufs, sdRx>> BY <1>6, <2>3 DEF OnSetup
    <3> QED BY <1>1, <2>1, <2>2, <3>1, RxQuiet
  <2>4. CASE chan = "open"
    <3>1. RxSetup(rxBufs) BY <1>6, <2>4 DEF OnSetup
    <3>2. /\ RxDistinct'
          /\ Len(rxBufs) >= RxBufMax => rxBufs' = rxBufs /\ sdRx' = sdRx
          /\ Len(rxBufs) < RxBufMax => Len(rxBufs') = RxBufMax /\ sdRx' # <<>>
      BY <1>0, <1>1, <2>4, <3>1, RefilledDistinct DEF RxDistinct
    <3>3. CASE Len(rxBufs) >= RxBufMax BY <1>1, <2>1, <2>2, <3>2, <3>3, RxQuiet
    <3>4. CASE Len(rxBufs) < RxBufMax
      <4>1. RxLeftFirst' BY <1>1, <3>2, <3>4 DEF RxLeftFirst
      <4>2. RxServed' BY <3>2, <3>4 DEF RxServed
      <4> QED BY <3>2, <4>1, <4>2 DEF RxInv
    <3> QED BY <1>1, <3>3, <3>4
  <2> QED BY <2>3, <2>4
<1>7. CASE OnRx
  <2>1. HandleEvent("rx") /\ chan' = chan BY <1>7 DEF OnRx
  <2>2. Arrived' \subseteq Arrived /\ Head(events)[2] \in Arrived
    BY <1>0, <2>1, ArrivedTaken
  <2>3. CASE ~ (rxBufs # <<>> /\ Head(rxBufs) = Head(events)[2])
    <3>1. UNCHANGED <<rxBufs, sdRx>> /\ failure' # NoFailure
      BY <1>7, <2>3 DEF OnRx, NoFailure
    <3> QED BY <1>0, <2>1, <2>2, <2>3, <3>1 DEF RxInv, RxDistinct, RxLeftFirst, RxServed
  <2>4. CASE rxBufs # <<>> /\ Head(rxBufs) = Head(events)[2]
    <3>1. /\ rxBufs # <<>> /\ Head(rxBufs) = Head(events)[2] /\ RxSetup(Tail(rxBufs))
      BY <1>7, <2>4 DEF OnRx
    <3>2. /\ Len(rxBufs) \in Nat \ {0} /\ Head(rxBufs) = rxBufs[1]
          /\ Tail(rxBufs) \in Seq(Buffers) /\ Len(Tail(rxBufs)) = Len(rxBufs) - 1
          /\ \A i \in 1 .. Len(rxBufs) - 1 : Tail(rxBufs)[i] = rxBufs[i + 1]
      BY <1>1, <3>1
    <3> DEFINE q == Tail(rxBufs)
    <3>3. \A i \in 1 .. Len(q) : i + 1 \in 1 .. Len(rxBufs) /\ q[i] = rxBufs[i + 1]
      BY <3>2
    <3>4. /\ ToSet(q) \subseteq ToSet(rxBufs)
          /\ \A i, j \in 1 .. Len(q) : q[i] = q[j] => i = j
      <4> HIDE DEF q
      <4>1. DOMAIN q = 1 .. Len(q) /\ DOMAIN rxBufs = 1 .. Len(rxBufs)
        BY <1>1, <3>2 DEF q
      <4>2. ToSet(q) \subseteq ToSet(rxBufs) BY <3>3, <4>1 DEF ToSet
      <4>3. ASSUME NEW i \in 1 .. Len(q), NEW j \in 1 .. Len(q), q[i] = q[j] PROVE i = j
        <5>1. i + 1 = j + 1 BY <1>0, <3>3, <4>3 DEF RxDistinct
        <5> QED BY <5>1
      <4> QED BY <4>2, <4>3
    <3>5. /\ RxDistinct'
          /\ chan = "open" /\ Len(q) < RxBufMax => Len(rxBufs') = RxBufMax /\ sdRx' # <<>>
      BY <1>0, <3>1, <3>2, <3>4, RefilledDistinct
    <3>6. chan # "setup"
      BY <1>0, <2>1 DEF ChannelInv, HandleEvent
    <3>7. chan = "open" => Len(q) < RxBufMax
      BY <1>0, <1>1, <2>2, <3>1, <3>2 DEF RxLeftFirst
    <3>8. RxLeftFirst' BY <1>1, <2>1, <3>5, <3>6, <3>7 DEF RxLeftFirst
    <3>9. RxServed' BY <2>1, <3>5, <3>6, <3>7 DEF RxServed
    <3> QED BY <3>5, <3>8, <3>9 DEF RxInv
  <2> QED BY <2>3, <2>4
<1>8. CASE Received
  <2>1. /\ chan = "open" /\ sdRx # <<>> /\ sdRx' = Tail(sdRx) /\ Emit(<< <<"rx", Head(sdRx)>> >>)
        /\ UNCHANGED <<rxBufs, failure, chan>>
    BY <1>8 DEF Received, portVars
  <2>2. Head(sdRx) \in Buffers /\ Head(sdRx) = sdRx[1] /\ 1 \in DOMAIN sdRx BY <1>1, <2>1
  <2>3. <<"rx", Head(sdRx)>> \in Event BY <2>2 DEF Event
  <2>4. Arrived' = Arrived \union {Head(sdRx)}
    <3> DEFINE x == <<"rx", Head(sdRx)>>
    <3>1. x \in Event /\ x[1] = "rx" /\ x[2] = Head(sdRx) /\ Emit(<<x>>) BY <2>1, <2>3
    <3> HIDE DEF x
    <3>2. Arrived' = Arrived \union (IF x[1] = "rx" THEN {x[2]} ELSE {})
      BY <1>1, <3>1, ArrivedMore
    <3> QED BY <3>1, <3>2
  <2>5. ToSet(Tail(sdRx)) \subseteq ToSet(sdRx)
    <3>1. /\ Len(sdRx) \in Nat \ {0} /\ DOMAIN sdRx = 1 .. Len(sdRx)
          /\ DOMAIN Tail(sdRx) = 1 .. Len(sdRx) - 1
          /\ \A i \in 1 .. Len(sdRx) - 1 : Tail(sdRx)[i] = sdRx[i + 1]
      BY <1>1, <2>1
    <3>2. \A i \in 1 .. Len(sdRx) - 1 : i + 1 \in DOMAIN sdRx BY <3>1
    <3> QED BY <3>1, <3>2 DEF ToSet
  <2>6. Head(sdRx) \in ToSet(sdRx) BY <2>2 DEF ToSet
  <2>7. ToSet(sdRx') \union Arrived' \subseteq ToSet(sdRx) \union Arrived
    BY <2>1, <2>4, <2>5, <2>6
  <2>8. RxLeftFirst' BY <1>0, <2>1, <2>7 DEF RxLeftFirst
  <2>9. RxDistinct' BY <1>0, <2>1 DEF RxDistinct
  <2>10. RxServed' BY <2>4 DEF RxServed
  <2> QED BY <2>8, <2>9, <2>10 DEF RxInv
<1>9. CASE Transmitted \/ PeerGivesCredit \/ PeerRequests
           \/ (ChannelSetUp /\ chan' = "open")
  <2>1. /\ UNCHANGED <<rxBufs, sdRx, failure>>
        /\ chan' \in {"setup", "open"} => chan \in {"setup", "open"}
    BY <1>9 DEF Transmitted, PeerGivesCredit, PeerRequests, ChannelSetUp, ChannelEnds,
                portVars, sdVars
  <2>2. PICK x \in Event : Emit(<<x>>) /\ x[1] # "rx"
    <3>1. <<"tx", 0>> \in Event /\ <<"credit", 0>> \in Event /\ <<"request", 0>> \in Event
      BY DEF Event
    <3>2. \A n \in 0 .. MaxCredits : <<"setup", n>> \in Event BY DEF Event
    <3> QED BY <1>9, <3>1, <3>2 DEF Transmitted, PeerGivesCredit, PeerRequests, ChannelSetUp,
                                   ChannelEnds
  <2>3. Arrived' = Arrived BY <1>1, <2>2, ArrivedMore
  <2> QED BY <2>1, <2>3, RxQuiet
<1>10. CASE LinkUp
  <2>1. UNCHANGED <<rxBufs, sdRx, failure, chan, events>> BY <1>10 DEF LinkUp, portVars
  <2>2. Arrived' = Arrived BY <2>1 DEF Arrived
  <2> QED BY <2>1, <2>2, RxQuiet
<1>11. CASE LinkEnds \/ Released \/ (ChannelSetUp /\ chan' # "open")
  <2>1. chan' = "none" /\ rxBufs' = rxBufs
    BY <1>11 DEF LinkEnds, Released, ChannelSetUp, ChannelEnds, portVars
  <2>2. RxDistinct' BY <1>0, <2>1 DEF RxDistinct
  <2> QED BY <2>1, <2>2 DEF RxInv, RxLeftFirst, RxServed
<1>12. ~ Ignored BY <1>0, NoneIgnored DEF L2capInv
<1> QED
  BY <1>2, <1>3, <1>4, <1>5, <1>6, <1>7, <1>8, <1>9, <1>10, <1>11, <1>12
  DEF L2capNext, MainHandles, SoftDeviceStep

LEMMA RxInvariant == L2capSpec => [](L2capInv /\ RxInv)
<1>1. L2capInit => RxInv
  BY DEF L2capInit, RxInv, RxDistinct, RxLeftFirst, RxServed
<1>2. L2capInv /\ RxInv /\ [L2capNext]_l2capVars => RxInv'
  <2> SUFFICES ASSUME L2capInv, RxInv, [L2capNext]_l2capVars PROVE RxInv'
    OBVIOUS
  <2>1. CASE UNCHANGED l2capVars
    <3>1. UNCHANGED <<rxBufs, sdRx, events, chan, failure>>
      BY <2>1 DEF l2capVars, portVars, sdVars
    <3>2. Arrived' = Arrived BY <3>1 DEF Arrived
    <3> QED BY <3>1, <3>2, RxQuiet
  <2> QED BY <2>1, RxKept
<1> QED BY <1>1, <1>2, L2capStarts, L2capStepsKeep, PTL DEF L2capSpec

(* How many buffers a queue has.                                           *)
LEMMA SetOfQueue ==
    ASSUME NEW q \in Seq(Buffers)
    PROVE  /\ IsFiniteSet(ToSet(q)) /\ Cardinality(ToSet(q)) <= Len(q)
           /\ (\A i, j \in 1 .. Len(q) : q[i] = q[j] => i = j) => Cardinality(ToSet(q)) = Len(q)
<1> DEFINE S == 1 .. Len(q)
<1>1. Len(q) \in Nat /\ DOMAIN q = S OBVIOUS
<1>2. IsFiniteSet(S) /\ Cardinality(S) = Len(q) BY <1>1, FS_Interval
<1>3. q \in [S -> ToSet(q)] BY <1>1 DEF ToSet
<1>4. \A t \in ToSet(q) : \E i \in S : q[i] = t BY <1>1 DEF ToSet
<1>5. q \in Surjection(S, ToSet(q)) BY <1>3, <1>4, Fun_IsSurj
<1>6. (\A i, j \in S : q[i] = q[j] => i = j) => q \in Injection(S, ToSet(q))
  BY <1>3, Fun_IsInj
<1> HIDE DEF S
<1>7. /\ IsFiniteSet(ToSet(q)) /\ Cardinality(ToSet(q)) <= Cardinality(S)
      /\ Cardinality(ToSet(q)) = Cardinality(S) <=> q \in Injection(S, ToSet(q))
  BY <1>2, <1>5, FS_Surjection
<1> QED BY <1>2, <1>6, <1>7 DEF S

(* The port's full queue is what the SoftDevice has, what main is to be    *)
(* told of and what is left over.                                          *)
LEMMA RxIsSupplied ==
    ASSUME L2capInv, RxInv
    PROVE  RxSupplied
<1> SUFFICES ASSUME open, chan = "open"
             PROVE  /\ Supply + Cardinality(LeftOver) >= RxBufMax
                    /\ failure = NoFailure => Supply > 0
  BY DEF RxSupplied
<1>0. Stock /\ RxDistinct /\ RxServed BY DEF L2capInv, RxInv
<1>1. /\ events \in Seq(Event) /\ rxBufs \in Seq(Buffers) /\ sdRx \in Seq(Buffers)
      /\ Len(rxBufs) \in Nat /\ Len(sdRx) \in Nat /\ RxBufMax \in Nat
      /\ WaitingEvents("rx") \in Nat
  BY <1>0, StockNow
<1>2. Len(rxBufs) >= RxBufMax BY <1>0 DEF Stock, RxFilled
<1>3. IsFiniteSet(ToSet(rxBufs)) /\ Cardinality(ToSet(rxBufs)) = Len(rxBufs)
  BY <1>0, <1>1, SetOfQueue DEF RxDistinct
<1>4. IsFiniteSet(ToSet(sdRx)) /\ Cardinality(ToSet(sdRx)) <= Len(sdRx)
  BY <1>1, SetOfQueue
<1>5. IsFiniteSet(Arrived) /\ Cardinality(Arrived) <= WaitingEvents("rx")
  <2> DEFINE P == {i \in 1 .. Len(events) : events[i][1] = "rx"}
             f == [i \in P |-> events[i][2]]
  <2>1. IsFiniteSet(P) /\ Cardinality(P) = WaitingEvents("rx")
    BY <1>1, CountIsNat DEF WaitingEvents
  <2>2. Arrived = {f[i] : i \in P} BY DEF Arrived
  <2>3. f \in Surjection(P, Arrived)
    <3>1. f \in [P -> Arrived] BY DEF Arrived
    <3>2. \A t \in Arrived : \E i \in P : f[i] = t BY <2>2
    <3> HIDE DEF P, f
    <3> QED BY <3>1, <3>2, Fun_IsSurj
  <2> HIDE DEF P, f
  <2> QED BY <2>1, <2>3, FS_Surjection
<1>6. IsFiniteSet(LeftOver) BY <1>3, FS_Subset DEF LeftOver
<1> DEFINE had == ToSet(sdRx) \cup Arrived
           all == LeftOver \cup had
<1>7. IsFiniteSet(had)
      /\ Cardinality(had) = Cardinality(ToSet(sdRx)) + Cardinality(Arrived)
                               - Cardinality(ToSet(sdRx) \cap Arrived)
  BY <1>4, <1>5, FS_Union
<1>8. IsFiniteSet(all)
      /\ Cardinality(all) = Cardinality(LeftOver) + Cardinality(had)
                               - Cardinality(LeftOver \cap had)
  <2> HIDE DEF had
  <2> QED BY <1>6, <1>7, FS_Union
<1>9. ToSet(rxBufs) \in SUBSET all BY DEF LeftOver
<1>10. Cardinality(ToSet(rxBufs)) <= Cardinality(all)
  <2> HIDE DEF all
  <2> QED BY <1>8, <1>9, FS_Subset
<1>11. /\ Cardinality(ToSet(sdRx)) \in Nat /\ Cardinality(Arrived) \in Nat
       /\ Cardinality(LeftOver) \in Nat /\ Cardinality(had) \in Nat /\ Cardinality(all) \in Nat
  <2> HIDE DEF had, all
  <2> QED BY <1>4, <1>5, <1>6, <1>7, <1>8, FS_CardinalityType
<1>12. Cardinality(ToSet(sdRx) \cap Arrived) \in Nat /\ Cardinality(LeftOver \cap had) \in Nat
  <2>1. IsFiniteSet(ToSet(sdRx) \cap Arrived)
    <3>1. ToSet(sdRx) \cap Arrived \in SUBSET Arrived OBVIOUS
    <3> QED BY <1>5, <3>1, FS_Subset
  <2>2. IsFiniteSet(LeftOver \cap had)
    <3>1. LeftOver \cap had \in SUBSET LeftOver OBVIOUS
    <3> QED BY <1>6, <3>1, FS_Subset
  <2> QED BY <2>1, <2>2, FS_CardinalityType
<1> HIDE DEF had, all
<1>13. Cardinality(had) <= Len(sdRx) + WaitingEvents("rx")
  BY <1>1, <1>4, <1>5, <1>7, <1>11, <1>12
<1>14. Cardinality(all) <= Cardinality(LeftOver) + Cardinality(had)
  BY <1>8, <1>11, <1>12
<1>15. Supply + Cardinality(LeftOver) >= RxBufMax
  BY <1>1, <1>2, <1>3, <1>10, <1>11, <1>13, <1>14 DEF Supply
<1>16. failure = NoFailure => Supply > 0
  <2>1. CASE sdRx # <<>>
    <3>1. Len(sdRx) > 0 BY <1>1, <2>1
    <3> QED BY <1>1, <3>1 DEF Supply
  <2>2. CASE Arrived # {}
    <3>1. PICK i \in 1 .. Len(events) : events[i][1] = "rx" BY <2>2 DEF Arrived
    <3>2. WaitingEvents("rx") # 0 BY <1>1, <3>1, WaitingIsNat
    <3> QED BY <1>1, <3>2 DEF Supply
  <2> QED BY <1>0, <2>1, <2>2 DEF RxServed
<1> QED BY <1>15, <1>16

(* Every buffer the library waits for on a working channel is pending, in  *)
(* the SoftDevice or on its way back; an open channel can receive into its *)
(* buffers but for what earlier channels left over, and never stops being  *)
(* able to unless the program has stopped: the handlers of the server lose *)
(* track of none.                                                          *)
THEOREM BuffersAreAccounted == L2capSpec => []BuffersAccounted
<1>1. L2capInv /\ RxInv => BuffersAccounted
  <2> SUFFICES ASSUME L2capInv, RxInv PROVE BuffersAccounted
    OBVIOUS
  <2>1. SendsAccounted BY DEF L2capInv, Stock
  <2>2. RxSupplied BY RxIsSupplied
  <2> QED BY <2>1, <2>2 DEF BuffersAccounted
<1> QED BY <1>1, RxInvariant, PTL

(* A valid cid, for which the server refuses every other peer, belongs to  *)
(* a channel, or the event that invalidates it is still to be handled.     *)
THEOREM ServerComesBack == L2capSpec => []TakenHasChannel
<1>1. L2capInv => TakenHasChannel
  <2> SUFFICES ASSUME L2capInv, cid, chan \notin {"setup", "open", "releasing"}
               PROVE  \E type \in {"released", "refused", "disconnected"} : WaitingEvents(type) > 0
    BY DEF TakenHasChannel
  <2>1. PICK i \in 1 .. Len(events) : events[i][1] \in {"refused", "released", "disconnected"}
    BY DEF L2capInv, TakenInv
  <2>2. events \in Seq(Event) BY DEF L2capInv, Stock, L2capTypeOK
  <2>3. WaitingEvents(events[i][1]) \in Nat /\ WaitingEvents(events[i][1]) # 0
    BY <2>2, WaitingIsNat
  <2> QED BY <2>1, <2>3
<1> QED BY <1>1, L2capInvariant, PTL

(* The assertions of ch_tx and ch_rx that the queue they pop is not empty  *)
(* never fail.                                                             *)
THEOREM QueuesNeverEmpty == L2capSpec => [](failure \notin {"tx_empty", "rx_empty"})
<1>1. L2capInv => failure \notin {"tx_empty", "rx_empty"} BY DEF L2capInv, Stock
<1> QED BY <1>1, L2capInvariant, PTL

------------------------------------------------------------------------------
(* The GATT server's bearers, for any number of bearers, of notifications  *)
(* on their way and of events not yet handled.                             *)

(* What comes of a link is handled before the next: its end is the last    *)
(* event of a link, and the start of the next follows it.                  *)
BleOrder ==
    /\ ~ gattsLink => bleEvents = <<>> \/ bleEvents[Len(bleEvents)].type = "disconnected"
    /\ \A i \in 1 .. Len(bleEvents) :
          bleEvents[i].type = "disconnected" =>
              IF gattsLink THEN i < Len(bleEvents) /\ bleEvents[i + 1].type = "connected"
              ELSE i < Len(bleEvents) => bleEvents[i + 1].type = "connected"
    /\ \A i \in 2 .. Len(bleEvents) :
          bleEvents[i].type = "connected" => bleEvents[i - 1].type = "disconnected"

(* A bearer's last write of a live link tells its subscription.            *)
LastWriteTells ==
    gattsLink =>
        \A i \in 1 .. Len(bleEvents) :
            bleEvents[i].type = "write" =>
                \/ bleEvents[i].on = (bleEvents[i].bearer \in subscribed)
                \/ \E j \in i + 1 .. Len(bleEvents) :
                      \/ bleEvents[j].type = "disconnected"
                      \/ /\ bleEvents[j].type = "write"
                         /\ bleEvents[j].bearer = bleEvents[i].bearer

(* No bearer is open when a link starts.                                   *)
StartsClosed ==
    bleEvents # <<>> /\ bleEvents[1].type = "connected" => \A b \in Bearers : ~ connected[b]

(* The MTU is the link's as soon as main knows of the link.                *)
MtuKnown ==
    gattsLink /\ ~ Coming("disconnected") /\ ~ Coming("connected") => mtu <= linkMtu

GattsInv ==
    /\ GattsTypeOK /\ BleOrder /\ LastWriteTells /\ StartsClosed /\ MtuKnown
    /\ OpenIsSubscribed /\ NoSentLost

------------------------------------------------------------------------------
(* The SoftDevice's events for the bearers.                                *)

LEMMA BleEventParts ==
    ASSUME NEW e \in BleEvent
    PROVE  /\ e.type \in {"connected", "disconnected", "mtu", "write", "tx_complete"}
           /\ e.type = "write" => e.bearer \in Bearers /\ e.on \in BOOLEAN
           /\ e.type = "tx_complete" =>
                 e.count \in 1 .. QueueSize /\ e.of \in [1 .. e.count -> Bearers]
BY DEF BleEvent

LEMMA QueuedBle ==
    ASSUME bleEvents \in Seq(BleEvent), NEW e \in BleEvent, ReportBle(e)
    PROVE  /\ bleEvents' \in Seq(BleEvent)
           /\ Len(bleEvents) \in Nat /\ Len(bleEvents') = Len(bleEvents) + 1
           /\ Len(bleEvents') <= MaxBleEvents
           /\ bleEvents' = Append(bleEvents, e) /\ bleEvents'[Len(bleEvents) + 1] = e
           /\ \A i \in 1 .. Len(bleEvents) : bleEvents'[i] = bleEvents[i]
           /\ \A type : Coming(type)' <=> (Coming(type) \/ (e.type = type))
<1>0. ASSUME NEW type
      PROVE  Coming(type)' <=> (\E i \in 1 .. Len(bleEvents') : bleEvents'[i].type = type)
  BY DEF Coming
<1>1. /\ bleEvents' \in Seq(BleEvent)
      /\ Len(bleEvents) \in Nat /\ Len(bleEvents') = Len(bleEvents) + 1
      /\ bleEvents' = Append(bleEvents, e) /\ bleEvents'[Len(bleEvents) + 1] = e
      /\ \A i \in 1 .. Len(bleEvents) : bleEvents'[i] = bleEvents[i]
  BY DEF ReportBle
<1>2. Len(bleEvents') <= MaxBleEvents BY <1>1, BearerAssumption DEF ReportBle
<1>3. ASSUME NEW type PROVE Coming(type)' <=> (Coming(type) \/ (e.type = type))
  <2>1. CASE e.type = type
    <3>1. Len(bleEvents) + 1 \in 1 .. Len(bleEvents') BY <1>1
    <3> QED BY <1>0, <1>1, <2>1, <3>1
  <2>2. CASE e.type # type
    <3>1. \A i \in 1 .. Len(bleEvents') : i = Len(bleEvents) + 1 \/ i \in 1 .. Len(bleEvents)
      BY <1>1
    <3>2. \A i \in 1 .. Len(bleEvents) : i \in 1 .. Len(bleEvents') BY <1>1
    <3> QED BY <1>0, <1>1, <2>2, <3>1, <3>2 DEF Coming
  <2> QED BY <2>1, <2>2
<1> QED BY <1>1, <1>2, <1>3

LEMMA TakenBle ==
    ASSUME bleEvents \in Seq(BleEvent), NEW type, HandleBle(type)
    PROVE  /\ bleEvents' \in Seq(BleEvent) /\ bleEvents' = Tail(bleEvents)
           /\ Len(bleEvents) \in Nat \ {0} /\ Len(bleEvents') = Len(bleEvents) - 1
           /\ bleEvents[1] \in BleEvent /\ Head(bleEvents) = bleEvents[1]
           /\ bleEvents[1].type = type
           /\ \A i \in 1 .. Len(bleEvents') :
                 bleEvents'[i] = bleEvents[i + 1] /\ i + 1 \in 1 .. Len(bleEvents)
           /\ \A t : Coming(t) <=> (Coming(t)' \/ (t = type))
<1>0. ASSUME NEW t
      PROVE  Coming(t)' <=> (\E i \in 1 .. Len(bleEvents') : bleEvents'[i].type = t)
  BY DEF Coming
<1>1. /\ bleEvents' \in Seq(BleEvent) /\ bleEvents' = Tail(bleEvents)
      /\ Len(bleEvents) \in Nat \ {0} /\ Len(bleEvents') = Len(bleEvents) - 1
      /\ bleEvents[1] \in BleEvent /\ Head(bleEvents) = bleEvents[1]
      /\ \A i \in 1 .. Len(bleEvents') :
            bleEvents'[i] = bleEvents[i + 1] /\ i + 1 \in 1 .. Len(bleEvents)
  BY DEF HandleBle
<1>2. bleEvents[1].type = type BY <1>1 DEF HandleBle
<1>3. ASSUME NEW t PROVE Coming(t) <=> (Coming(t)' \/ (t = type))
  <2>1. 1 \in 1 .. Len(bleEvents) BY <1>1
  <2>2. \A i \in 1 .. Len(bleEvents) : i = 1 \/ (i - 1 \in 1 .. Len(bleEvents') /\ (i - 1) + 1 = i)
    BY <1>1
  <2>3. Coming(t) => (Coming(t)' \/ (t = type))
    <3> HAVE Coming(t)
    <3>1. PICK i \in 1 .. Len(bleEvents) : bleEvents[i].type = t BY DEF Coming
    <3>2. CASE i = 1 BY <1>2, <3>1, <3>2
    <3>3. CASE i # 1
      <4>1. i - 1 \in 1 .. Len(bleEvents') /\ (i - 1) + 1 = i BY <2>2, <3>3
      <4>2. bleEvents'[i - 1].type = t BY <1>1, <3>1, <4>1
      <4> QED BY <1>0, <4>1, <4>2
    <3> QED BY <3>2, <3>3
  <2>4. Coming(t)' => Coming(t) BY <1>0, <1>1 DEF Coming
  <2>5. t = type => Coming(t) BY <1>2, <2>1 DEF Coming
  <2> QED BY <2>3, <2>4, <2>5
<1> QED BY <1>1, <1>2, <1>3

------------------------------------------------------------------------------
(* Notifications, counted.                                                 *)

LEMMA UpTo ==
    ASSUME NEW n \in Nat
    PROVE  IsFiniteSet(1 .. n) /\ Cardinality(1 .. n) = n
<1>1. IsFiniteSet(1 .. n) /\ Cardinality(1 .. n) = (IF 1 > n THEN 0 ELSE n - 1 + 1)
  BY FS_Interval
<1> QED BY <1>1

LEMMA DisjointUnion ==
    ASSUME NEW A, NEW B, IsFiniteSet(A), IsFiniteSet(B), A \intersect B = {}
    PROVE  Cardinality(A \union B) = Cardinality(A) + Cardinality(B)
<1>1. Cardinality(A \union B) = Cardinality(A) + Cardinality(B) - Cardinality(A \intersect B)
  BY FS_Union
<1>2. Cardinality(A \intersect B) = 0 BY FS_EmptySet
<1>3. Cardinality(A) \in Nat /\ Cardinality(B) \in Nat BY FS_CardinalityType
<1> QED BY <1>1, <1>2, <1>3

LEMMA NotificationsCount ==
    ASSUME NEW s \in Seq(Bearers), NEW b
    PROVE  /\ IsFiniteSet({i \in 1 .. Len(s) : s[i] = b})
           /\ Notifications(b, s) \in Nat /\ Notifications(b, s) <= Len(s)
<1>1. IsFiniteSet(1 .. Len(s)) /\ Cardinality(1 .. Len(s)) = Len(s) BY UpTo
<1>2. {i \in 1 .. Len(s) : s[i] = b} \in SUBSET (1 .. Len(s)) OBVIOUS
<1> QED BY <1>1, <1>2, FS_Subset, FS_CardinalityType DEF Notifications

LEMMA NotificationAdded ==
    ASSUME NEW s \in Seq(Bearers), NEW x \in Bearers, NEW b
    PROVE  Notifications(b, Append(s, x)) = Notifications(b, s) + (IF x = b THEN 1 ELSE 0)
<1> DEFINE n == Len(s) + 1
<1> DEFINE P == {i \in 1 .. Len(s) : s[i] = b}
<1> DEFINE R == {i \in 1 .. Len(Append(s, x)) : Append(s, x)[i] = b}
<1>1. /\ Len(s) \in Nat /\ Len(Append(s, x)) = n /\ Append(s, x)[n] = x
      /\ \A i \in 1 .. Len(s) : Append(s, x)[i] = s[i]
  OBVIOUS
<1>2. IsFiniteSet(P) /\ Cardinality(P) \in Nat BY NotificationsCount DEF Notifications
<1>c. Notifications(b, s) = Cardinality(P) /\ Notifications(b, Append(s, x)) = Cardinality(R)
  BY DEF Notifications
<1>3. CASE x = b
  <2>1. R = P \union {n} /\ n \notin P BY <1>1, <1>3
  <2> HIDE DEF P, R
  <2>2. Cardinality(R) = Cardinality(P) + 1 BY <1>2, <2>1, FS_AddElement
  <2> QED BY <1>c, <1>3, <2>2
<1>4. CASE x # b
  <2>1. R = P BY <1>1, <1>4
  <2> HIDE DEF P, R
  <2> QED BY <1>2, <1>c, <1>4, <2>1
<1> QED BY <1>3, <1>4

(* The first k of a bearer's notifications and the others.                 *)
LEMMA NotificationsSplit ==
    ASSUME NEW s \in Seq(Bearers), NEW k \in 1 .. Len(s), NEW b
    PROVE  /\ SubSeq(s, 1, k) \in Seq(Bearers) /\ Len(SubSeq(s, 1, k)) = k
           /\ SubSeq(s, 1, k) \in [1 .. k -> Bearers]
           /\ SubSeq(s, k + 1, Len(s)) \in Seq(Bearers)
           /\ Len(SubSeq(s, k + 1, Len(s))) = Len(s) - k
           /\ Notifications(b, s) =
                 Notifications(b, SubSeq(s, 1, k)) + Notifications(b, SubSeq(s, k + 1, Len(s)))
<1> DEFINE f == SubSeq(s, 1, k)
<1> DEFINE g == SubSeq(s, k + 1, Len(s))
<1> DEFINE S == {i \in 1 .. Len(s) : s[i] = b}
<1> DEFINE F == {i \in 1 .. Len(f) : f[i] = b}
<1> DEFINE G == {i \in 1 .. Len(g) : g[i] = b}
<1> DEFINE H == {i \in k + 1 .. Len(s) : s[i] = b}
<1>1. Len(s) \in Nat /\ \A i \in 1 .. Len(s) : s[i] \in Bearers OBVIOUS
<1>2. /\ f \in Seq(Bearers) /\ Len(f) = k /\ \A i \in 1 .. k : f[i] = s[i]
  <2>1. f \in Seq(Bearers) /\ Len(f) = (IF 1 <= k THEN k - 1 + 1 ELSE 0)
        /\ \A i \in 1 .. k - 1 + 1 : f[i] = s[1 + i - 1]
    BY <1>1, SubSeqProperties
  <2> QED BY <1>1, <2>1
<1>3. /\ g \in Seq(Bearers) /\ Len(g) = Len(s) - k
      /\ \A i \in 1 .. Len(s) - k : g[i] = s[k + i]
  <2>1. /\ g \in Seq(Bearers)
        /\ Len(g) = (IF k + 1 <= Len(s) THEN Len(s) - (k + 1) + 1 ELSE 0)
        /\ \A i \in 1 .. Len(s) - (k + 1) + 1 : g[i] = s[(k + 1) + i - 1]
    <3>1. \A i \in k + 1 .. Len(s) : s[i] \in Bearers BY <1>1
    <3> QED BY <1>1, <3>1, SubSeqProperties
  <2> QED BY <1>1, <2>1
<1> HIDE DEF f, g
<1>4. f \in [1 .. k -> Bearers] BY <1>2
<1>5. IsFiniteSet(F) /\ IsFiniteSet(G) /\ IsFiniteSet(S)
      /\ Cardinality(F) \in Nat /\ Cardinality(G) \in Nat
  BY <1>2, <1>3, NotificationsCount DEF Notifications
<1>6. S = F \union H /\ F \intersect H = {}
  <2>1. F = {i \in 1 .. k : s[i] = b} BY <1>2
  <2> QED BY <1>1, <2>1
<1> DEFINE shift == [i \in G |-> k + i]
<1>7. shift \in Bijection(G, H)
  <2>1. \A i \in G : k + i \in H BY <1>1, <1>3
  <2>2. shift \in [G -> H] BY <2>1
  <2>3. \A i, j \in G : shift[i] = shift[j] => i = j BY <1>1, <1>3
  <2>4. \A t \in H : t - k \in G /\ k + (t - k) = t BY <1>1, <1>3
  <2>5. \A t \in H : \E i \in G : shift[i] = t BY <2>4
  <2> QED BY <2>2, <2>3, <2>5, Fun_IsBij
<1>8. IsFiniteSet(H) /\ Cardinality(H) = Cardinality(G)
  BY <1>5, <1>7, FS_Bijection DEF ExistsBijection
<1>9. Cardinality(S) = Cardinality(F) + Cardinality(H)
  <2> HIDE DEF S, F, H
  <2> QED BY <1>5, <1>6, <1>8, DisjointUnion
<1> QED BY <1>2, <1>3, <1>4, <1>8, <1>9 DEF Notifications, f, g

------------------------------------------------------------------------------
(* Completions, counted.                                                   *)

Completed(q, b) ==
    {p \in (1 .. Len(q)) \X (1 .. QueueSize) :
        /\ q[p[1]].type = "tx_complete"
        /\ p[2] <= q[p[1]].count
        /\ q[p[1]].of[p[2]] = b}

LEMMA CompletedCount ==
    ASSUME NEW q \in Seq(BleEvent), NEW b
    PROVE  IsFiniteSet(Completed(q, b)) /\ Cardinality(Completed(q, b)) \in Nat
<1>1. IsFiniteSet(1 .. Len(q)) /\ IsFiniteSet(1 .. QueueSize) BY FS_Interval, BearerAssumption
<1>2. IsFiniteSet((1 .. Len(q)) \X (1 .. QueueSize)) BY <1>1, FS_Product
<1>3. Completed(q, b) \in SUBSET ((1 .. Len(q)) \X (1 .. QueueSize)) BY DEF Completed
<1> QED BY <1>2, <1>3, FS_Subset, FS_CardinalityType

LEMMA CompletedMore ==
    ASSUME NEW q \in Seq(BleEvent), NEW e \in BleEvent, NEW b
    PROVE  Cardinality(Completed(Append(q, e), b)) = Cardinality(Completed(q, b))
               + (IF e.type = "tx_complete" THEN Cardinality({i \in 1 .. e.count : e.of[i] = b}) ELSE 0)
<1> DEFINE n == Len(q) + 1
<1> DEFINE r == Append(q, e)
<1> DEFINE Old == Completed(q, b)
<1> DEFINE All == Completed(r, b)
<1> DEFINE I == {i \in 1 .. e.count : e.of[i] = b}
<1> DEFINE Added == {p \in All : p[1] = n}
<1>1. /\ r \in Seq(BleEvent) /\ Len(q) \in Nat /\ Len(r) = n /\ r[n] = e
      /\ \A i \in 1 .. Len(q) : r[i] = q[i]
  OBVIOUS
<1>2. /\ IsFiniteSet(Old) /\ IsFiniteSet(All)
      /\ Cardinality(Old) \in Nat /\ Cardinality(All) \in Nat
  BY <1>1, CompletedCount
<1> HIDE DEF r
<1>3. All = Old \union Added /\ Old \intersect Added = {}
  <2>1. \A i \in 1 .. Len(r) : i = n \/ i \in 1 .. Len(q) BY <1>1
  <2>2. \A i \in 1 .. Len(q) : i \in 1 .. Len(r) /\ i # n BY <1>1
  <2> HIDE DEF n
  <2>3. Old \subseteq All BY <1>1, <2>2 DEF Completed
  <2>4. \A p \in All : p[1] = n \/ p \in Old BY <1>1, <2>1 DEF Completed
  <2>5. \A p \in Old : p[1] # n BY <2>2 DEF Completed
  <2> QED BY <2>3, <2>4, <2>5
<1>4. IsFiniteSet(Added) /\ Cardinality(Added) \in Nat BY <1>2, FS_Subset, FS_CardinalityType
<1>5. Cardinality(All) = Cardinality(Old) + Cardinality(Added)
  <2> HIDE DEF All, Old, Added
  <2> QED BY <1>2, <1>3, <1>4, DisjointUnion
<1>6. CASE e.type = "tx_complete"
  <2>1. e.count \in 1 .. QueueSize BY <1>6, BleEventParts
  <2> DEFINE place == [i \in I |-> <<n, i>>]
  <2>2. \A i \in I : <<n, i>> \in Added
    <3>1. \A i \in I : i \in 1 .. QueueSize /\ n \in 1 .. Len(r) /\ i <= e.count
      BY <1>1, <2>1, BearerAssumption
    <3> QED BY <1>1, <1>6, <3>1 DEF Completed
  <2>3. \A p \in Added : p[2] \in I /\ p = <<n, p[2]>>
    BY <1>1, <2>1, BearerAssumption DEF Completed
  <2>4. place \in Bijection(I, Added)
    <3>1. place \in [I -> Added] BY <2>2
    <3>2. \A i, j \in I : place[i] = place[j] => i = j OBVIOUS
    <3>3. \A p \in Added : \E i \in I : place[i] = p BY <2>3
    <3> HIDE DEF place, I, Added
    <3> QED BY <3>1, <3>2, <3>3, Fun_IsBij
  <2>5. IsFiniteSet(I)
    <3>1. IsFiniteSet(1 .. e.count) BY <2>1, FS_Interval
    <3> QED BY <3>1, FS_Subset
  <2>6. Cardinality(Added) = Cardinality(I)
    <3>1. ExistsBijection(I, Added) BY <2>4 DEF ExistsBijection
    <3> QED BY <2>5, <3>1, FS_Bijection
  <2> HIDE DEF I, Added
  <2> QED BY <1>5, <1>6, <2>6 DEF r, I
<1>7. CASE e.type # "tx_complete"
  <2>1. Added = {} BY <1>1, <1>7 DEF Completed
  <2>2. Cardinality(Added) = 0 BY <2>1, FS_EmptySet
  <2> HIDE DEF Added
  <2> QED BY <1>2, <1>5, <1>7, <2>2 DEF r
<1> QED BY <1>6, <1>7

(* The first event takes its count away at most.                           *)
LEMMA CompletedFewer ==
    ASSUME NEW q \in Seq(BleEvent), NEW b, q # <<>>
    PROVE  Cardinality(Completed(q, b)) <= Cardinality(Completed(Tail(q), b))
               + (IF q[1].type = "tx_complete" THEN q[1].count ELSE 0)
<1> DEFINE r == Tail(q)
<1> DEFINE All == Completed(q, b)
<1> DEFINE Later == {p \in All : p[1] > 1}
<1> DEFINE First == {p \in All : p[1] = 1}
<1>1. /\ r \in Seq(BleEvent) /\ Len(q) \in Nat \ {0} /\ Len(r) = Len(q) - 1
      /\ q[1] \in BleEvent
      /\ \A i \in 1 .. Len(r) : r[i] = q[i + 1] /\ i + 1 \in 1 .. Len(q)
  OBVIOUS
<1>2. /\ IsFiniteSet(All) /\ IsFiniteSet(Completed(r, b))
      /\ Cardinality(All) \in Nat /\ Cardinality(Completed(r, b)) \in Nat
  BY <1>1, CompletedCount
<1> HIDE DEF r
<1>3. All = Later \union First /\ Later \intersect First = {}
  <2>1. \A p \in All : p[1] \in 1 .. Len(q) BY DEF Completed
  <2> QED BY <1>1, <2>1
<1>4. /\ IsFiniteSet(Later) /\ IsFiniteSet(First)
      /\ Cardinality(Later) \in Nat /\ Cardinality(First) \in Nat
  BY <1>2, FS_Subset, FS_CardinalityType
<1>5. Cardinality(All) = Cardinality(Later) + Cardinality(First)
  <2> HIDE DEF All, Later, First
  <2> QED BY <1>3, <1>4, DisjointUnion
<1>6. Cardinality(Later) <= Cardinality(Completed(r, b))
  <2> DEFINE shift == [p \in Later |-> <<p[1] - 1, p[2]>>]
  <2>1. \A p \in Later : <<p[1] - 1, p[2]>> \in Completed(r, b)
    <3> TAKE p \in Later
    <3>1. /\ p[1] \in 2 .. Len(q) /\ p[2] \in 1 .. QueueSize
          /\ q[p[1]].type = "tx_complete" /\ p[2] <= q[p[1]].count /\ q[p[1]].of[p[2]] = b
      BY <1>1 DEF Completed
    <3>2. p[1] - 1 \in 1 .. Len(r) /\ r[p[1] - 1] = q[p[1]] BY <1>1, <3>1
    <3> QED BY <3>1, <3>2 DEF Completed
  <2>2. shift \in [Later -> Completed(r, b)] BY <2>1
  <2>3. ASSUME NEW p1 \in Later, NEW p2 \in Later, shift[p1] = shift[p2] PROVE p1 = p2
    <3>1. p1[1] - 1 = p2[1] - 1 /\ p1[2] = p2[2] BY <2>3
    <3>2. p1 = <<p1[1], p1[2]>> /\ p2 = <<p2[1], p2[2]>> BY DEF Completed
    <3>3. p1[1] \in Nat /\ p2[1] \in Nat BY DEF Completed
    <3> QED BY <3>1, <3>2, <3>3
  <2>4. shift \in Injection(Later, Completed(r, b))
    <3> HIDE DEF shift, Later
    <3> QED BY <2>2, <2>3, Fun_IsInj
  <2> HIDE DEF shift, Later
  <2> QED BY <1>2, <2>4, FS_Injection
<1>7. CASE q[1].type = "tx_complete"
  <2>1. q[1].count \in 1 .. QueueSize BY <1>1, <1>7, BleEventParts
  <2>2. IsFiniteSet(1 .. q[1].count) /\ Cardinality(1 .. q[1].count) = q[1].count
    BY <2>1, UpTo
  <2> DEFINE place == [p \in First |-> p[2]]
  <2>3. place \in [First -> 1 .. q[1].count]
    <3>1. \A p \in First : p[2] \in 1 .. q[1].count BY <2>1 DEF Completed
    <3> QED BY <3>1
  <2>4. ASSUME NEW p1 \in First, NEW p2 \in First, place[p1] = place[p2] PROVE p1 = p2
    <3>1. p1 = <<1, p1[2]>> /\ p2 = <<1, p2[2]>> BY DEF Completed
    <3> QED BY <2>4, <3>1
  <2>5. place \in Injection(First, 1 .. q[1].count)
    <3> HIDE DEF place, First
    <3> QED BY <2>3, <2>4, Fun_IsInj
  <2>6. Cardinality(First) <= q[1].count
    <3> HIDE DEF place, First
    <3> QED BY <2>2, <2>5, FS_Injection
  <2> HIDE DEF All, Later, First
  <2> QED BY <1>2, <1>4, <1>5, <1>6, <1>7, <2>1, <2>6 DEF r, All
<1>8. CASE q[1].type # "tx_complete"
  <2>1. First = {} BY <1>8 DEF Completed
  <2>2. Cardinality(First) = 0 BY <2>1, FS_EmptySet
  <2> HIDE DEF All, Later, First
  <2> QED BY <1>2, <1>4, <1>5, <1>6, <1>8, <2>2 DEF r, All
<1> QED BY <1>7, <1>8

------------------------------------------------------------------------------
(* The reports that come of the SoftDevice's and the peer's steps.         *)

LEMMA TxCompleteEvent ==
    ASSUME GattsTypeOK, NEW k \in 1 .. Len(sending)
    PROVE  [type |-> "tx_complete", count |-> k, of |-> SubSeq(sending, 1, k)] \in BleEvent
<1>1. sending \in Seq(Bearers) /\ Len(sending) \in Nat /\ Len(sending) <= QueueSize
  BY DEF GattsTypeOK
<1>2. k \in 1 .. QueueSize BY <1>1, BearerAssumption
<1>3. SubSeq(sending, 1, k) \in [1 .. k -> Bearers] BY <1>1, NotificationsSplit
<1> DEFINE Those == [type : {"tx_complete"}, count : {k}, of : [1 .. k -> Bearers]]
<1>4. [type |-> "tx_complete", count |-> k, of |-> SubSeq(sending, 1, k)] \in Those BY <1>3
<1>5. Those \subseteq BleEvent BY <1>2 DEF BleEvent
<1> QED BY <1>4, <1>5

LEMMA OtherEvents ==
    /\ \A type \in {"connected", "disconnected", "mtu"} : [type |-> type] \in BleEvent
    /\ \A b \in Bearers : \A on \in BOOLEAN :
          [type |-> "write", bearer |-> b, on |-> on] \in BleEvent
BY DEF BleEvent

(* The steps by what they do to the events.                                *)
Reports(e) ==
    \/ PeerLinks /\ e = [type |-> "connected"]
    \/ PeerGone /\ e = [type |-> "disconnected"]
    \/ \E b \in Bearers :
          /\ Subscribe(b)
          /\ e.type = "write" /\ e.bearer = b /\ (e.on <=> b \in subscribed')
    \/ MtuRequest /\ e = [type |-> "mtu"]
    \/ /\ NotificationsDone /\ e.type = "tx_complete"
       /\ e = [type |-> "tx_complete", count |-> e.count, of |-> SubSeq(sending, 1, e.count)]
       /\ e.count \in 1 .. Len(sending)
       /\ sending' = SubSeq(sending, e.count + 1, Len(sending))

Quiet ==
    \/ \E b \in Bearers : SendNotification(b) \/ CloseBearer(b) \/ CloseCallback(b)
    \/ UNCHANGED gattsVars

Handles(type) ==
    \/ type = "connected" /\ OnPeerConnected
    \/ type = "disconnected" /\ OnPeerDisconnected
    \/ type = "mtu" /\ OnMtuRequest
    \/ type = "write" /\ OnWrite
    \/ type = "tx_complete" /\ OnTxComplete

LEMMA GattsSteps ==
    ASSUME GattsTypeOK, [GattsNext]_gattsVars
    PROVE  \/ Quiet /\ UNCHANGED bleEvents
           \/ \E e \in BleEvent : Reports(e) /\ ReportBle(e)
           \/ \E type : Handles(type) /\ HandleBle(type)
<1>1. CASE Quiet
  BY <1>1 DEF Quiet, SendNotification, CloseBearer, CloseCallback, gattsVars
<1>2. CASE PeerLinks
  BY <1>2, OtherEvents DEF Reports, PeerLinks
<1>3. CASE PeerGone
  BY <1>3, OtherEvents DEF Reports, PeerGone
<1>4. ASSUME NEW b \in Bearers, Subscribe(b)
      PROVE  \E e \in BleEvent : Reports(e) /\ ReportBle(e)
  <2> DEFINE e == [type |-> "write", bearer |-> b, on |-> b \in subscribed']
  <2>1. ReportBle(e) BY <1>4 DEF Subscribe
  <2>2. e.type = "write" /\ e.bearer = b /\ (e.on <=> b \in subscribed') OBVIOUS
  <2>3. (b \in subscribed') \in BOOLEAN OBVIOUS
  <2>4. e \in [type : {"write"}, bearer : Bearers, on : BOOLEAN] BY <2>3, Zenon
  <2> HIDE DEF e
  <2>5. e \in BleEvent BY <2>4 DEF BleEvent
  <2>6. Reports(e) BY <1>4, <2>2 DEF Reports
  <2> QED BY <2>1, <2>5, <2>6
<1>5. CASE MtuRequest
  BY <1>5, OtherEvents DEF Reports, MtuRequest
<1>6. CASE NotificationsDone
  <2>1. PICK k \in 1 .. Len(sending) :
            /\ ReportBle([type |-> "tx_complete", count |-> k, of |-> SubSeq(sending, 1, k)])
            /\ sending' = SubSeq(sending, k + 1, Len(sending))
    BY <1>6 DEF NotificationsDone
  <2> DEFINE e == [type |-> "tx_complete", count |-> k, of |-> SubSeq(sending, 1, k)]
  <2>2. e \in BleEvent BY TxCompleteEvent
  <2>3. e.type = "tx_complete" /\ e.count = k OBVIOUS
  <2>4. Reports(e) BY <1>6, <2>1, <2>3 DEF Reports
  <2> QED BY <2>1, <2>2, <2>4
<1>7. CASE OnPeerConnected \/ OnPeerDisconnected \/ OnMtuRequest \/ OnWrite \/ OnTxComplete
  BY <1>7 DEF Handles, OnPeerConnected, OnPeerDisconnected, OnMtuRequest, OnWrite, OnTxComplete
<1> QED BY <1>1, <1>2, <1>3, <1>4, <1>5, <1>6, <1>7 DEF GattsNext, Quiet

LEMMA ReportedTypes ==
    ASSUME gattsLink \in BOOLEAN, NEW e \in BleEvent, Reports(e)
    PROVE  \/ e.type = "connected" /\ ~ gattsLink /\ gattsLink'
           \/ e.type = "disconnected" /\ gattsLink /\ ~ gattsLink'
           \/ e.type \in {"mtu", "write", "tx_complete"} /\ gattsLink /\ gattsLink'
<1>1. CASE PeerLinks /\ e = [type |-> "connected"] BY <1>1 DEF PeerLinks
<1>2. CASE PeerGone /\ e = [type |-> "disconnected"] BY <1>2 DEF PeerGone
<1>3. CASE e.type = "write" /\ \E b \in Bearers : Subscribe(b) BY <1>3 DEF Subscribe
<1>4. CASE MtuRequest /\ e = [type |-> "mtu"] BY <1>4 DEF MtuRequest, stackVars
<1>5. CASE NotificationsDone /\ e.type = "tx_complete" BY <1>5 DEF NotificationsDone
<1> QED BY <1>1, <1>2, <1>3, <1>4, <1>5 DEF Reports

------------------------------------------------------------------------------
(* Every step keeps each part of the invariant.                            *)

LEMMA GattsTypeKept ==
    ASSUME GattsTypeOK, [GattsNext]_gattsVars
    PROVE  GattsTypeOK'
<1>0. /\ connHandle \in BOOLEAN /\ halted \in BOOLEAN /\ gattsLink \in BOOLEAN
      /\ mtu \in {Default, Large} /\ linkMtu \in {Default, Large}
      /\ connected \in [Bearers -> BOOLEAN]
      /\ pending \in [Bearers -> 0 .. MaxPending]
      /\ closeTasks \subseteq Bearers /\ subscribed \subseteq Bearers
      /\ sending \in Seq(Bearers) /\ Len(sending) <= QueueSize
      /\ bleEvents \in Seq(BleEvent) /\ Len(bleEvents) <= MaxBleEvents
  BY DEF GattsTypeOK
<1>p. MaxPending \in Nat /\ QueueSize \in Nat BY BearerAssumption
<1>1. CASE Quiet /\ UNCHANGED bleEvents
  <2>1. ASSUME NEW b \in Bearers, SendNotification(b) PROVE GattsTypeOK'
    <3>1. pending[b] + 1 \in 0 .. MaxPending BY <1>0, <1>p, <2>1 DEF SendNotification
    <3>2. pending' \in [Bearers -> 0 .. MaxPending] BY <1>0, <2>1, <3>1 DEF SendNotification
    <3>3. sending' \in Seq(Bearers) /\ Len(sending') <= QueueSize /\ halted' \in BOOLEAN
      <4>1. CASE gattsLink /\ b \in subscribed /\ Len(sending) < QueueSize
        <5>1. sending' = Append(sending, b) /\ halted' = halted BY <2>1, <4>1 DEF SendNotification
        <5>2. Len(sending') = Len(sending) + 1 /\ Len(sending) \in Nat BY <1>0, <5>1
        <5> QED BY <1>0, <1>p, <4>1, <5>1, <5>2
      <4>2. CASE ~ (gattsLink /\ b \in subscribed /\ Len(sending) < QueueSize)
        <5>1. sending' = sending /\ halted' = TRUE BY <2>1, <4>2 DEF SendNotification
        <5> QED BY <1>0, <5>1
      <4> QED BY <4>1, <4>2
    <3> QED BY <1>0, <1>1, <2>1, <3>2, <3>3 DEF SendNotification, GattsTypeOK
  <2>2. ASSUME NEW b \in Bearers, CloseBearer(b) PROVE GattsTypeOK'
    BY <1>0, <2>2 DEF CloseBearer, GattsTypeOK, stackVars
  <2>3. ASSUME NEW b \in Bearers, CloseCallback(b) PROVE GattsTypeOK'
    BY <1>0, <2>3 DEF CloseCallback, GattsTypeOK, stackVars
  <2>4. CASE UNCHANGED gattsVars
    BY <1>0, <2>4 DEF GattsTypeOK, gattsVars, bearerVars, stackVars
  <2> QED BY <1>1, <2>1, <2>2, <2>3, <2>4 DEF Quiet
<1>2. ASSUME NEW e \in BleEvent, Reports(e), ReportBle(e) PROVE GattsTypeOK'
  <2>0. bleEvents' \in Seq(BleEvent) /\ Len(bleEvents') <= MaxBleEvents
    BY <1>0, <1>2, QueuedBle
  <2>1. CASE PeerLinks
    BY <1>0, <1>p, <2>0, <2>1 DEF PeerLinks, GattsTypeOK, bearerVars
  <2>2. CASE PeerGone BY <1>0, <2>0, <2>2 DEF PeerGone, GattsTypeOK, bearerVars
  <2>3. ASSUME NEW b \in Bearers, Subscribe(b) PROVE GattsTypeOK'
    BY <1>0, <2>0, <2>3 DEF Subscribe, GattsTypeOK, bearerVars
  <2>4. CASE MtuRequest
    BY <1>0, <2>0, <2>4 DEF MtuRequest, GattsTypeOK, bearerVars, stackVars
  <2>5. CASE NotificationsDone /\ e.count \in 1 .. Len(sending)
             /\ sending' = SubSeq(sending, e.count + 1, Len(sending))
    <3>1. sending' \in Seq(Bearers) /\ Len(sending') = Len(sending) - e.count
      BY <1>0, <2>5, NotificationsSplit
    <3>2. Len(sending') <= QueueSize BY <1>0, <1>p, <2>5, <3>1
    <3> QED BY <1>0, <2>0, <2>5, <3>1, <3>2 DEF NotificationsDone, GattsTypeOK, bearerVars
  <2> QED BY <1>2, <2>1, <2>2, <2>3, <2>4, <2>5 DEF Reports
<1>3. ASSUME NEW type, Handles(type), HandleBle(type) PROVE GattsTypeOK'
  <2>0. /\ bleEvents' \in Seq(BleEvent) /\ Len(bleEvents') <= MaxBleEvents
        /\ bleEvents[1] \in BleEvent /\ Head(bleEvents) = bleEvents[1] /\ bleEvents[1].type = type
    BY <1>0, <1>3, TakenBle, BearerAssumption
  <2>1. CASE type = "connected" /\ OnPeerConnected
    BY <1>0, <2>0, <2>1 DEF OnPeerConnected, GattsTypeOK, stackVars
  <2>2. CASE type = "disconnected" /\ OnPeerDisconnected
    BY <1>0, <2>0, <2>2 DEF OnPeerDisconnected, GattsTypeOK, stackVars
  <2>3. CASE type = "mtu" /\ OnMtuRequest
    BY <1>0, <2>0, <2>3 DEF OnMtuRequest, GattsTypeOK
  <2>4. CASE type = "write" /\ OnWrite
    <3>1. bleEvents[1].bearer \in Bearers /\ bleEvents[1].on \in BOOLEAN
      BY <2>0, <2>4, BleEventParts
    <3>2. connected' \in [Bearers -> BOOLEAN] BY <1>0, <2>0, <2>4, <3>1 DEF OnWrite
    <3>3. pending' \in [Bearers -> 0 .. MaxPending]
      BY <1>0, <1>p, <2>0, <2>4, <3>1 DEF OnWrite
    <3> QED BY <1>0, <2>0, <2>4, <3>2, <3>3 DEF OnWrite, GattsTypeOK, stackVars
  <2>5. CASE type = "tx_complete" /\ OnTxComplete
    <3>1. bleEvents[1].count \in Nat BY <2>0, <2>5, BleEventParts, <1>p
    <3>2. pending' = [b \in Bearers |-> IF pending[b] > bleEvents[1].count
                                        THEN pending[b] - bleEvents[1].count ELSE 0]
      BY <2>0, <2>5 DEF OnTxComplete
    <3>3. pending' \in [Bearers -> 0 .. MaxPending] BY <1>0, <1>p, <3>1, <3>2
    <3> QED BY <1>0, <2>0, <2>5, <3>3 DEF OnTxComplete, GattsTypeOK, stackVars
  <2> QED BY <1>3, <2>1, <2>2, <2>3, <2>4, <2>5 DEF Handles
<1> QED BY <1>1, <1>2, <1>3, GattsSteps

LEMMA BleOrderKept ==
    ASSUME GattsTypeOK, BleOrder, [GattsNext]_gattsVars
    PROVE  BleOrder'
<1>0. bleEvents \in Seq(BleEvent) /\ gattsLink \in BOOLEAN /\ Len(bleEvents) \in Nat
  BY DEF GattsTypeOK
<1>1. CASE Quiet /\ UNCHANGED bleEvents
  <2>1. UNCHANGED gattsLink
    BY <1>1 DEF Quiet, SendNotification, CloseBearer, CloseCallback, gattsVars, stackVars
  <2> QED BY <1>1, <2>1 DEF BleOrder
<1>2. ASSUME NEW e \in BleEvent, Reports(e), ReportBle(e) PROVE BleOrder'
  <2> DEFINE n == Len(bleEvents)
  <2>0. /\ n \in Nat /\ Len(bleEvents') = n + 1 /\ bleEvents'[n + 1] = e
        /\ \A i \in 1 .. n : bleEvents'[i] = bleEvents[i]
    BY <1>0, <1>2, QueuedBle
  <2>1. \/ e.type = "connected" /\ ~ gattsLink /\ gattsLink'
        \/ e.type = "disconnected" /\ gattsLink /\ ~ gattsLink'
        \/ e.type \in {"mtu", "write", "tx_complete"} /\ gattsLink /\ gattsLink'
    BY <1>0, <1>2, ReportedTypes
  <2>2. (bleEvents = <<>>) <=> (n = 0) BY <1>0
  <2> HIDE DEF n
  <2>3. ~ gattsLink' => bleEvents'[Len(bleEvents')].type = "disconnected" BY <2>0, <2>1
  <2>4. ASSUME NEW i \in 1 .. n + 1, bleEvents'[i].type = "disconnected"
        PROVE  IF gattsLink' THEN i < n + 1 /\ bleEvents'[i + 1].type = "connected"
               ELSE i < n + 1 => bleEvents'[i + 1].type = "connected"
    <3>1. CASE i = n + 1 BY <2>0, <2>1, <2>4, <3>1
    <3>2. CASE i = n
      <4>1. bleEvents[i].type = "disconnected" /\ i \in 1 .. n BY <2>0, <2>4, <3>2
      <4>2. ~ gattsLink BY <2>0, <3>2, <4>1 DEF BleOrder, n
      <4> QED BY <2>0, <2>1, <3>2, <4>2
    <3>3. CASE i < n
      <4>1. /\ bleEvents[i].type = "disconnected" /\ i \in 1 .. n /\ i + 1 \in 1 .. n
            /\ bleEvents'[i + 1] = bleEvents[i + 1]
        BY <2>0, <2>4, <3>3
      <4>2. bleEvents[i + 1].type = "connected" BY <3>3, <4>1 DEF BleOrder, n
      <4> QED BY <2>0, <3>3, <4>1, <4>2
    <3> QED BY <2>0, <3>1, <3>2, <3>3
  <2>5. ASSUME NEW i \in 2 .. n + 1, bleEvents'[i].type = "connected"
        PROVE  bleEvents'[i - 1].type = "disconnected"
    <3>1. CASE i = n + 1
      <4>1. ~ gattsLink /\ n \in 1 .. n BY <2>0, <2>1, <2>5, <3>1
      <4>2. bleEvents[n].type = "disconnected" BY <2>0, <2>2, <4>1 DEF BleOrder, n
      <4> QED BY <2>0, <3>1, <4>1, <4>2
    <3>2. CASE i # n + 1
      <4>1. i \in 2 .. n /\ i - 1 \in 1 .. n /\ i \in 1 .. n BY <2>0, <3>2
      <4>2. bleEvents[i].type = "connected" BY <2>0, <2>5, <4>1
      <4>3. bleEvents[i - 1].type = "disconnected" BY <4>1, <4>2 DEF BleOrder, n
      <4> QED BY <2>0, <4>1, <4>3
    <3> QED BY <3>1, <3>2
  <2> QED BY <2>0, <2>3, <2>4, <2>5 DEF BleOrder
<1>3. ASSUME NEW type, Handles(type), HandleBle(type) PROVE BleOrder'
  <2> DEFINE n == Len(bleEvents)
  <2>0. /\ n \in Nat \ {0} /\ Len(bleEvents') = n - 1 /\ bleEvents' \in Seq(BleEvent)
        /\ \A i \in 1 .. n - 1 : bleEvents'[i] = bleEvents[i + 1] /\ i + 1 \in 1 .. n
    BY <1>0, <1>3, TakenBle
  <2>1. UNCHANGED gattsLink
    BY <1>3 DEF Handles, OnPeerConnected, OnPeerDisconnected, OnMtuRequest, OnWrite, OnTxComplete,
                stackVars
  <2>2. bleEvents # <<>> /\ ((bleEvents' = <<>>) <=> (n = 1)) BY <1>0, <2>0
  <2>3. ~ gattsLink' => bleEvents' = <<>> \/ bleEvents'[Len(bleEvents')].type = "disconnected"
    <3> SUFFICES ASSUME ~ gattsLink', bleEvents' # <<>>
                 PROVE  bleEvents'[Len(bleEvents')].type = "disconnected"
      OBVIOUS
    <3>1. n - 1 \in 1 .. n - 1 /\ (n - 1) + 1 = n BY <2>0, <2>2
    <3>2. bleEvents'[n - 1] = bleEvents[n] BY <2>0, <3>1
    <3> QED BY <2>0, <2>1, <2>2, <3>2 DEF BleOrder
  <2> HIDE DEF n
  <2>4. ASSUME NEW i \in 1 .. n - 1, bleEvents'[i].type = "disconnected"
        PROVE  IF gattsLink' THEN i < n - 1 /\ bleEvents'[i + 1].type = "connected"
               ELSE i < n - 1 => bleEvents'[i + 1].type = "connected"
    <3>1. i + 1 \in 1 .. n /\ bleEvents[i + 1].type = "disconnected" BY <2>0, <2>4
    <3>2. i < n - 1 => bleEvents'[i + 1] = bleEvents[(i + 1) + 1] BY <2>0
    <3>3. IF gattsLink THEN i + 1 < n /\ bleEvents[(i + 1) + 1].type = "connected"
          ELSE i + 1 < n => bleEvents[(i + 1) + 1].type = "connected"
      BY <3>1 DEF BleOrder, n
    <3> QED BY <2>0, <2>1, <3>2, <3>3
  <2>5. ASSUME NEW i \in 2 .. n - 1, bleEvents'[i].type = "connected"
        PROVE  bleEvents'[i - 1].type = "disconnected"
    <3>1. /\ i + 1 \in 2 .. n /\ i \in 1 .. n - 1 /\ i - 1 \in 1 .. n - 1 /\ (i - 1) + 1 = i
          /\ (i + 1) - 1 = i
      BY <2>0
    <3>2. bleEvents'[i] = bleEvents[i + 1] /\ bleEvents'[i - 1] = bleEvents[(i - 1) + 1]
      BY <2>0, <3>1
    <3>3. bleEvents[(i + 1) - 1].type = "disconnected" BY <2>5, <3>1, <3>2 DEF BleOrder, n
    <3> QED BY <3>1, <3>2, <3>3
  <2> QED BY <2>0, <2>3, <2>4, <2>5 DEF BleOrder
<1> QED BY <1>1, <1>2, <1>3, GattsSteps

LEMMA EndIsComing ==
    ASSUME GattsTypeOK, BleOrder, ~ gattsLink, bleEvents # <<>>
    PROVE  Coming("disconnected")
<1>1. bleEvents \in Seq(BleEvent) /\ Len(bleEvents) \in 1 .. Len(bleEvents) BY DEF GattsTypeOK
<1> QED BY <1>1 DEF BleOrder, Coming

LEMMA StartIsFirst ==
    ASSUME GattsTypeOK, BleOrder, ~ Coming("disconnected"), Coming("connected")
    PROVE  bleEvents # <<>> /\ bleEvents[1].type = "connected"
<1>1. bleEvents \in Seq(BleEvent) /\ Len(bleEvents) \in Nat BY DEF GattsTypeOK
<1>2. PICK i \in 1 .. Len(bleEvents) : bleEvents[i].type = "connected" BY DEF Coming
<1>3. CASE i = 1 BY <1>1, <1>2, <1>3
<1>4. CASE i # 1
  <2>1. i \in 2 .. Len(bleEvents) /\ i - 1 \in 1 .. Len(bleEvents) BY <1>1, <1>4
  <2>2. bleEvents[i - 1].type = "disconnected" BY <1>2, <2>1 DEF BleOrder
  <2> QED BY <2>1, <2>2 DEF Coming
<1> QED BY <1>3, <1>4

(* What opens a bearer is a subscription's event alone.                    *)
LEMMA OpensOnWrite ==
    ASSUME GattsTypeOK
    PROVE  /\ Quiet => \A b \in Bearers : connected'[b] => connected[b]
           /\ \A e : Reports(e) => connected' = connected
           /\ \A type : Handles(type) /\ type # "write" =>
                 /\ \A b \in Bearers : connected'[b] => connected[b]
                 /\ type = "disconnected" => \A b \in Bearers : ~ connected'[b]
<1>0. connected \in [Bearers -> BOOLEAN] BY DEF GattsTypeOK
<1>1. Quiet => \A b \in Bearers : connected'[b] => connected[b]
  <2>1. ASSUME NEW c \in Bearers, CloseCallback(c)
        PROVE  \A b \in Bearers : connected'[b] => connected[b]
    BY <1>0, <2>1 DEF CloseCallback
  <2> QED BY <2>1 DEF Quiet, SendNotification, CloseBearer, gattsVars, bearerVars
<1>2. \A e : Reports(e) => connected' = connected
  BY DEF Reports, PeerLinks, PeerGone, Subscribe, MtuRequest, NotificationsDone, bearerVars
<1>3. \A type : Handles(type) /\ type # "write" =>
          /\ \A b \in Bearers : connected'[b] => connected[b]
          /\ type = "disconnected" => \A b \in Bearers : ~ connected'[b]
  BY <1>0 DEF Handles, OnPeerConnected, OnPeerDisconnected, OnMtuRequest, OnTxComplete, bearerVars
<1> QED BY <1>1, <1>2, <1>3

LEMMA StartsClosedKept ==
    ASSUME GattsTypeOK, BleOrder, OpenIsSubscribed, StartsClosed, [GattsNext]_gattsVars
    PROVE  StartsClosed'
<1>0. bleEvents \in Seq(BleEvent) /\ gattsLink \in BOOLEAN /\ Len(bleEvents) \in Nat
  BY DEF GattsTypeOK
<1>1. CASE Quiet /\ UNCHANGED bleEvents BY <1>1, OpensOnWrite DEF StartsClosed
<1>2. ASSUME NEW e \in BleEvent, Reports(e), ReportBle(e) PROVE StartsClosed'
  <2>1. connected' = connected BY <1>2, OpensOnWrite
  <2>2. CASE bleEvents = <<>>
    <3>1. bleEvents'[1] = e BY <1>0, <1>2, <2>2, QueuedBle
    <3>2. e.type = "connected" => ~ gattsLink BY <1>0, <1>2, ReportedTypes
    <3>3. ~ gattsLink => \A b \in Bearers : ~ connected[b]
      <4>1. ~ Coming("disconnected") BY <2>2 DEF Coming
      <4> QED BY <4>1 DEF OpenIsSubscribed
    <3> QED BY <2>1, <3>1, <3>2, <3>3 DEF StartsClosed
  <2>3. CASE bleEvents # <<>>
    <3>1. bleEvents'[1] = bleEvents[1]
      <4>1. 1 \in 1 .. Len(bleEvents) BY <1>0, <2>3
      <4> QED BY <1>0, <1>2, <4>1, QueuedBle
    <3> QED BY <2>1, <2>3, <3>1 DEF StartsClosed
  <2> QED BY <2>2, <2>3
<1>3. ASSUME NEW type, Handles(type), HandleBle(type) PROVE StartsClosed'
  <2> SUFFICES ASSUME bleEvents' # <<>>, bleEvents'[1].type = "connected"
               PROVE  \A b \in Bearers : ~ connected'[b]
    BY DEF StartsClosed
  <2>1. /\ Len(bleEvents) \in Nat \ {0} /\ Len(bleEvents') = Len(bleEvents) - 1
        /\ bleEvents[1].type = type /\ bleEvents' \in Seq(BleEvent)
        /\ \A i \in 1 .. Len(bleEvents') : bleEvents'[i] = bleEvents[i + 1]
    BY <1>0, <1>3, TakenBle
  <2>2. 1 \in 1 .. Len(bleEvents') /\ 1 + 1 = 2 /\ 2 - 1 = 1 BY <2>1
  <2>3. bleEvents[2].type = "connected" /\ 2 \in 2 .. Len(bleEvents) BY <2>1, <2>2
  <2>4. bleEvents[2 - 1].type = "disconnected" BY <2>3 DEF BleOrder
  <2>5. type = "disconnected" BY <2>1, <2>2, <2>4
  <2> QED BY <1>3, <2>5, OpensOnWrite
<1> QED BY <1>1, <1>2, <1>3, GattsSteps

LEMMA LastWriteKept ==
    ASSUME GattsTypeOK, BleOrder, LastWriteTells, [GattsNext]_gattsVars
    PROVE  LastWriteTells'
<1>0. /\ bleEvents \in Seq(BleEvent) /\ gattsLink \in BOOLEAN /\ Len(bleEvents) \in Nat
      /\ subscribed \subseteq Bearers
  BY DEF GattsTypeOK
<1>1. CASE Quiet /\ UNCHANGED bleEvents
  <2>1. UNCHANGED <<gattsLink, subscribed>>
    BY <1>1 DEF Quiet, SendNotification, CloseBearer, CloseCallback, gattsVars, stackVars
  <2> QED BY <1>1, <2>1 DEF LastWriteTells
<1>2. ASSUME NEW e \in BleEvent, Reports(e), ReportBle(e) PROVE LastWriteTells'
  <2> DEFINE n == Len(bleEvents)
  <2>0. /\ n \in Nat /\ Len(bleEvents') = n + 1 /\ bleEvents'[n + 1] = e
        /\ \A i \in 1 .. n : bleEvents'[i] = bleEvents[i]
    BY <1>0, <1>2, QueuedBle
  <2>1. /\ bleEvents # <<>> => n \in 1 .. n
        /\ \A i \in 1 .. n : n # 0 /\ n \in 1 .. n
    BY <1>0
  <2>2. (bleEvents = <<>>) <=> (n = 0) BY <1>0
  <2> HIDE DEF n
  <2> SUFFICES ASSUME gattsLink', NEW i \in 1 .. n + 1, bleEvents'[i].type = "write"
               PROVE  \/ bleEvents'[i].on = (bleEvents'[i].bearer \in subscribed')
                      \/ \E j \in i + 1 .. n + 1 :
                            \/ bleEvents'[j].type = "disconnected"
                            \/ /\ bleEvents'[j].type = "write"
                               /\ bleEvents'[j].bearer = bleEvents'[i].bearer
    BY <2>0 DEF LastWriteTells
  <2>3. ASSUME i \in 1 .. n, NEW j \in i + 1 .. n,
               \/ bleEvents[j].type = "disconnected"
               \/ bleEvents[j].type = "write" /\ bleEvents[j].bearer = bleEvents[i].bearer
        PROVE  \E k \in i + 1 .. n + 1 :
                  \/ bleEvents'[k].type = "disconnected"
                  \/ /\ bleEvents'[k].type = "write"
                     /\ bleEvents'[k].bearer = bleEvents'[i].bearer
    <3>1. j \in i + 1 .. n + 1 /\ j \in 1 .. n BY <2>0, <2>3
    <3>2. bleEvents'[j] = bleEvents[j] /\ bleEvents'[i] = bleEvents[i] BY <2>0, <2>3, <3>1
    <3> QED BY <2>3, <3>1, <3>2
  <2>4. CASE i = n + 1
    <3>1. e.type = "write" /\ bleEvents'[i] = e BY <2>0, <2>4
    <3>2. e.on \in BOOLEAN BY <3>1, BleEventParts
    <3>3. e.on <=> e.bearer \in subscribed' BY <1>2, <3>1 DEF Reports
    <3>4. e.on = (e.bearer \in subscribed') BY <3>2, <3>3
    <3> QED BY <3>1, <3>4
  <2>5. CASE i # n + 1 /\ ~ gattsLink
    <3>1. i \in 1 .. n /\ bleEvents'[i] = bleEvents[i] BY <2>0, <2>5
    <3>2. bleEvents[n].type = "disconnected" BY <2>1, <2>2, <2>5, <3>1 DEF BleOrder, n
    <3>3. n \in i + 1 .. n
      <4>1. i # n BY <3>1, <3>2
      <4> QED BY <2>0, <3>1, <4>1
    <3> QED BY <2>3, <3>1, <3>2, <3>3
  <2>6. CASE i # n + 1 /\ gattsLink
    <3>1. i \in 1 .. n /\ bleEvents'[i] = bleEvents[i] BY <2>0, <2>6
    <3>2. \/ bleEvents[i].on = (bleEvents[i].bearer \in subscribed)
          \/ \E j \in i + 1 .. n :
                \/ bleEvents[j].type = "disconnected"
                \/ bleEvents[j].type = "write" /\ bleEvents[j].bearer = bleEvents[i].bearer
      BY <2>0, <2>6, <3>1 DEF LastWriteTells, n
    <3>3. CASE \E j \in i + 1 .. n :
                  \/ bleEvents[j].type = "disconnected"
                  \/ bleEvents[j].type = "write" /\ bleEvents[j].bearer = bleEvents[i].bearer
      <4> HIDE <2>3
      <4> QED BY <2>3, <3>1, <3>3
    <3>4. CASE bleEvents[i].on = (bleEvents[i].bearer \in subscribed)
      <4>1. CASE subscribed' = subscribed BY <3>1, <3>4, <4>1
      <4>2. ASSUME NEW b \in Bearers, Subscribe(b), e.type = "write", e.bearer = b
            PROVE  \/ bleEvents'[i].on = (bleEvents'[i].bearer \in subscribed')
                   \/ \E j \in i + 1 .. n + 1 :
                         \/ bleEvents'[j].type = "disconnected"
                         \/ /\ bleEvents'[j].type = "write"
                            /\ bleEvents'[j].bearer = bleEvents'[i].bearer
        <5>1. CASE bleEvents[i].bearer = b
          <6>1. n + 1 \in i + 1 .. n + 1 BY <2>0, <3>1
          <6> QED BY <2>0, <3>1, <4>2, <5>1, <6>1
        <5>2. CASE bleEvents[i].bearer # b
          <6>1. bleEvents[i].bearer \in subscribed' <=> bleEvents[i].bearer \in subscribed
            BY <4>2, <5>2 DEF Subscribe
          <6>2. (bleEvents[i].bearer \in subscribed') = (bleEvents[i].bearer \in subscribed)
            BY <6>1
          <6> QED BY <3>1, <3>4, <6>2
        <5> QED BY <5>1, <5>2
      <4>3. \/ subscribed' = subscribed
            \/ \E b \in Bearers : Subscribe(b) /\ e.type = "write" /\ e.bearer = b
        BY <1>2, <2>6 DEF Reports, PeerLinks, PeerGone, MtuRequest, NotificationsDone, stackVars
      <4> QED BY <4>1, <4>2, <4>3
    <3> QED BY <3>2, <3>3, <3>4
  <2> QED BY <1>0, <2>4, <2>5, <2>6
<1>3. ASSUME NEW type, Handles(type), HandleBle(type) PROVE LastWriteTells'
  <2> DEFINE n == Len(bleEvents)
  <2>0. /\ n \in Nat \ {0} /\ Len(bleEvents') = n - 1
        /\ \A i \in 1 .. n - 1 : bleEvents'[i] = bleEvents[i + 1] /\ i + 1 \in 1 .. n
    BY <1>0, <1>3, TakenBle
  <2>1. UNCHANGED <<gattsLink, subscribed>>
    BY <1>3 DEF Handles, OnPeerConnected, OnPeerDisconnected, OnMtuRequest, OnWrite, OnTxComplete,
                stackVars
  <2> HIDE DEF n
  <2> SUFFICES ASSUME gattsLink', NEW i \in 1 .. n - 1, bleEvents'[i].type = "write"
               PROVE  \/ bleEvents'[i].on = (bleEvents'[i].bearer \in subscribed')
                      \/ \E j \in i + 1 .. n - 1 :
                            \/ bleEvents'[j].type = "disconnected"
                            \/ /\ bleEvents'[j].type = "write"
                               /\ bleEvents'[j].bearer = bleEvents'[i].bearer
    BY <2>0 DEF LastWriteTells
  <2>2. bleEvents'[i] = bleEvents[i + 1] /\ i + 1 \in 1 .. n BY <2>0
  <2>3. \/ bleEvents[i + 1].on = (bleEvents[i + 1].bearer \in subscribed)
        \/ \E j \in (i + 1) + 1 .. n :
              \/ bleEvents[j].type = "disconnected"
              \/ bleEvents[j].type = "write" /\ bleEvents[j].bearer = bleEvents[i + 1].bearer
    BY <2>1, <2>2 DEF LastWriteTells, n
  <2>4. ASSUME NEW j \in (i + 1) + 1 .. n,
               \/ bleEvents[j].type = "disconnected"
               \/ bleEvents[j].type = "write" /\ bleEvents[j].bearer = bleEvents[i + 1].bearer
        PROVE  \E k \in i + 1 .. n - 1 :
                  \/ bleEvents'[k].type = "disconnected"
                  \/ bleEvents'[k].type = "write" /\ bleEvents'[k].bearer = bleEvents'[i].bearer
    <3>1. j - 1 \in i + 1 .. n - 1 /\ j - 1 \in 1 .. n - 1 /\ (j - 1) + 1 = j BY <2>0, <2>2
    <3>2. bleEvents'[j - 1] = bleEvents[j] BY <2>0, <3>1
    <3> QED BY <2>2, <2>4, <3>1, <3>2
  <2> QED BY <2>1, <2>2, <2>3, <2>4
<1> QED BY <1>1, <1>2, <1>3, GattsSteps

LEMMA MtuKept ==
    ASSUME GattsTypeOK, BleOrder, MtuKnown, [GattsNext]_gattsVars
    PROVE  MtuKnown'
<1>0. /\ bleEvents \in Seq(BleEvent) /\ gattsLink \in BOOLEAN /\ Len(bleEvents) \in Nat
      /\ mtu \in {Default, Large} /\ linkMtu \in {Default, Large}
  BY DEF GattsTypeOK
<1>n. Default = 1 /\ Large = 2 BY DEF Default, Large
<1>1. CASE Quiet /\ UNCHANGED bleEvents
  <2>1. UNCHANGED <<gattsLink, mtu, linkMtu>>
    BY <1>1 DEF Quiet, SendNotification, CloseBearer, CloseCallback, gattsVars, stackVars, bearerVars
  <2> QED BY <1>1, <2>1 DEF MtuKnown, Coming
<1>2. ASSUME NEW e \in BleEvent, Reports(e), ReportBle(e) PROVE MtuKnown'
  <2>1. \A type : Coming(type)' <=> (Coming(type) \/ (e.type = type)) BY <1>0, <1>2, QueuedBle
  <2>2. CASE e.type \in {"connected", "disconnected"} BY <2>1, <2>2 DEF MtuKnown
  <2>3. CASE e.type \notin {"connected", "disconnected"}
    <3>1. gattsLink BY <1>0, <1>2, <2>3, ReportedTypes
    <3>2. UNCHANGED <<mtu, linkMtu>>
      <4>1. CASE \E b \in Bearers : Subscribe(b) BY <4>1 DEF Subscribe, bearerVars
      <4>2. CASE MtuRequest BY <4>2 DEF MtuRequest, stackVars, bearerVars
      <4>3. CASE NotificationsDone BY <4>3 DEF NotificationsDone, bearerVars
      <4> QED BY <1>2, <2>3, <4>1, <4>2, <4>3 DEF Reports
    <3> QED BY <2>1, <3>1, <3>2 DEF MtuKnown
  <2> QED BY <2>2, <2>3
<1>3. ASSUME NEW type, Handles(type), HandleBle(type) PROVE MtuKnown'
  <2> DEFINE n == Len(bleEvents)
  <2>0. /\ n \in Nat \ {0} /\ Len(bleEvents') = n - 1 /\ bleEvents[1].type = type
        /\ \A i \in 1 .. n - 1 : bleEvents'[i] = bleEvents[i + 1]
        /\ \A t : Coming(t) <=> (Coming(t)' \/ (t = type))
    BY <1>0, <1>3, TakenBle
  <2>1. UNCHANGED gattsLink
    BY <1>3 DEF Handles, OnPeerConnected, OnPeerDisconnected, OnMtuRequest, OnWrite, OnTxComplete,
                stackVars
  <2> SUFFICES ASSUME gattsLink, ~ Coming("disconnected")', ~ Coming("connected")'
               PROVE  mtu' <= linkMtu'
    BY <2>1 DEF MtuKnown
  <2>2. CASE type = "connected" /\ OnPeerConnected
    BY <1>0, <1>n, <2>2 DEF OnPeerConnected, stackVars
  <2>3. CASE type = "disconnected"
    <3>1. 1 \in 1 .. n BY <2>0
    <3>2. 1 < n /\ bleEvents[1 + 1].type = "connected" BY <2>0, <2>3, <3>1 DEF BleOrder
    <3>3. 1 \in 1 .. n - 1 BY <2>0, <3>2
    <3>4. bleEvents'[1].type = "connected" /\ 1 \in 1 .. Len(bleEvents') BY <2>0, <3>2, <3>3
    <3>5. Coming("connected")' BY <3>4 DEF Coming
    <3> QED BY <3>5
  <2>4. CASE type = "mtu" /\ OnMtuRequest BY <1>0, <1>n, <2>4 DEF OnMtuRequest
  <2>5. CASE type = "write" /\ OnWrite
    <3>1. UNCHANGED <<mtu, linkMtu>> BY <2>5 DEF OnWrite, stackVars
    <3> QED BY <2>0, <2>5, <3>1 DEF MtuKnown
  <2>6. CASE type = "tx_complete" /\ OnTxComplete
    <3>1. UNCHANGED <<mtu, linkMtu>> BY <2>6 DEF OnTxComplete, stackVars
    <3> QED BY <2>0, <2>6, <3>1 DEF MtuKnown
  <2> QED BY <1>3, <2>2, <2>3, <2>4, <2>5, <2>6 DEF Handles
<1> QED BY <1>1, <1>2, <1>3, GattsSteps

LEMMA OpenKept ==
    ASSUME GattsTypeOK, BleOrder, LastWriteTells, StartsClosed, OpenIsSubscribed,
           [GattsNext]_gattsVars
    PROVE  OpenIsSubscribed'
<1>0. /\ bleEvents \in Seq(BleEvent) /\ gattsLink \in BOOLEAN /\ Len(bleEvents) \in Nat
      /\ connected \in [Bearers -> BOOLEAN]
  BY DEF GattsTypeOK
<1> DEFINE WriteOf(b) ==
        \E i \in 1 .. Len(bleEvents) : bleEvents[i].type = "write" /\ bleEvents[i].bearer = b
<1> SUFFICES ASSUME NEW b \in Bearers, connected'[b], ~ Coming("disconnected")'
             PROVE  /\ gattsLink'
                    /\ \/ b \in subscribed'
                       \/ \E i \in 1 .. Len(bleEvents') :
                             bleEvents'[i].type = "write" /\ bleEvents'[i].bearer = b
  BY DEF OpenIsSubscribed
<1>1. CASE Quiet /\ UNCHANGED bleEvents
  <2>1. UNCHANGED <<gattsLink, subscribed>>
    BY <1>1 DEF Quiet, SendNotification, CloseBearer, CloseCallback, gattsVars, stackVars
  <2>2. connected[b] /\ ~ Coming("disconnected") BY <1>1, OpensOnWrite DEF Coming
  <2>3. gattsLink /\ (b \in subscribed \/ WriteOf(b)) BY <2>2 DEF OpenIsSubscribed
  <2> QED BY <1>1, <2>1, <2>3
<1>2. ASSUME NEW e \in BleEvent, Reports(e), ReportBle(e)
      PROVE  /\ gattsLink'
             /\ \/ b \in subscribed'
                \/ \E i \in 1 .. Len(bleEvents') :
                      bleEvents'[i].type = "write" /\ bleEvents'[i].bearer = b
  <2> DEFINE n == Len(bleEvents)
  <2>0. /\ n \in Nat /\ Len(bleEvents') = n + 1 /\ bleEvents'[n + 1] = e
        /\ \A i \in 1 .. n : bleEvents'[i] = bleEvents[i]
        /\ \A type : Coming(type)' <=> (Coming(type) \/ (e.type = type))
    BY <1>0, <1>2, QueuedBle
  <2>1. connected[b] /\ ~ Coming("disconnected") /\ e.type # "disconnected"
    BY <1>2, <2>0, OpensOnWrite
  <2>2. gattsLink /\ (b \in subscribed \/ WriteOf(b)) BY <2>1 DEF OpenIsSubscribed
  <2>3. gattsLink' /\ e.type \in {"mtu", "write", "tx_complete"}
    BY <1>0, <1>2, <2>1, <2>2, ReportedTypes
  <2> HIDE DEF n
  <2>4. ASSUME WriteOf(b)
        PROVE  \E i \in 1 .. Len(bleEvents') :
                  bleEvents'[i].type = "write" /\ bleEvents'[i].bearer = b
    <3>1. PICK i \in 1 .. n : bleEvents[i].type = "write" /\ bleEvents[i].bearer = b
      BY <2>4 DEF n
    <3>2. i \in 1 .. n + 1 /\ bleEvents'[i] = bleEvents[i] BY <2>0
    <3> QED BY <2>0, <3>1, <3>2
  <2>5. CASE b \in subscribed
    <3>1. ASSUME NEW c \in Bearers, Subscribe(c), e.type = "write", e.bearer = c
          PROVE  \/ b \in subscribed'
                 \/ \E i \in 1 .. Len(bleEvents') :
                       bleEvents'[i].type = "write" /\ bleEvents'[i].bearer = b
      <4>1. CASE c = b
        <5>1. n + 1 \in 1 .. Len(bleEvents') BY <2>0
        <5> QED BY <2>0, <3>1, <4>1, <5>1
      <4>2. CASE c # b BY <2>5, <3>1, <4>2 DEF Subscribe
      <4> QED BY <4>1, <4>2
    <3>2. CASE MtuRequest BY <2>5, <3>2 DEF MtuRequest, stackVars
    <3>3. CASE NotificationsDone BY <2>5, <3>3 DEF NotificationsDone
    <3> QED BY <1>2, <2>3, <3>1, <3>2, <3>3 DEF Reports
  <2> QED BY <2>2, <2>3, <2>4, <2>5
<1>3. ASSUME NEW type, Handles(type), HandleBle(type)
      PROVE  /\ gattsLink'
             /\ \/ b \in subscribed'
                \/ \E i \in 1 .. Len(bleEvents') :
                      bleEvents'[i].type = "write" /\ bleEvents'[i].bearer = b
  <2> DEFINE n == Len(bleEvents)
  <2>0. /\ n \in Nat \ {0} /\ Len(bleEvents') = n - 1 /\ bleEvents[1].type = type
        /\ bleEvents[1] \in BleEvent /\ Head(bleEvents) = bleEvents[1] /\ bleEvents # <<>>
        /\ \A i \in 1 .. n - 1 : bleEvents'[i] = bleEvents[i + 1]
        /\ \A t : Coming(t) <=> (Coming(t)' \/ (t = type))
    BY <1>0, <1>3, TakenBle
  <2>1. UNCHANGED <<gattsLink, subscribed>>
    BY <1>3 DEF Handles, OnPeerConnected, OnPeerDisconnected, OnMtuRequest, OnWrite, OnTxComplete,
                stackVars
  <2>2. type # "disconnected"
    BY <1>3, OpensOnWrite
  <2>3. ~ Coming("disconnected") BY <2>0, <2>2
  <2>4. gattsLink BY <2>0, <2>3, EndIsComing, <1>0
  <2> HIDE DEF n
  <2>5. ASSUME NEW i \in 2 .. n, bleEvents[i].type = "write", bleEvents[i].bearer = b
        PROVE  \E k \in 1 .. Len(bleEvents') :
                  bleEvents'[k].type = "write" /\ bleEvents'[k].bearer = b
    <3>1. i - 1 \in 1 .. n - 1 /\ (i - 1) + 1 = i BY <2>0
    <3>2. bleEvents'[i - 1] = bleEvents[i] BY <2>0, <3>1
    <3> QED BY <2>0, <2>5, <3>1, <3>2
  <2>6. CASE type # "write" \/ bleEvents[1].bearer # b
    <3>1. connected[b]
      <4>1. CASE type # "write" BY <1>3, <4>1, OpensOnWrite
      <4>2. CASE type = "write" /\ bleEvents[1].bearer # b
        <5>1. OnWrite BY <1>3, <4>2 DEF Handles
        <5> QED BY <1>0, <2>0, <4>2, <5>1 DEF OnWrite
      <4> QED BY <2>6, <4>1, <4>2
    <3>2. b \in subscribed \/ WriteOf(b) BY <2>3, <3>1 DEF OpenIsSubscribed
    <3>3. ASSUME WriteOf(b)
          PROVE  \E k \in 1 .. Len(bleEvents') :
                    bleEvents'[k].type = "write" /\ bleEvents'[k].bearer = b
      <4>1. PICK i \in 1 .. n : bleEvents[i].type = "write" /\ bleEvents[i].bearer = b
        BY <3>3 DEF n
      <4>2. i \in 2 .. n BY <2>0, <2>6, <4>1
      <4> QED BY <2>5, <4>1, <4>2
    <3> QED BY <2>1, <2>4, <3>2, <3>3
  <2>7. CASE type = "write" /\ bleEvents[1].bearer = b
    <3>1. OnWrite BY <1>3, <2>7 DEF Handles
    <3>2. bleEvents[1].on \in BOOLEAN BY <2>0, <2>7, BleEventParts
    <3>3. bleEvents[1].on BY <1>0, <2>0, <2>7, <3>1, <3>2 DEF OnWrite
    <3>4. \/ bleEvents[1].on = (bleEvents[1].bearer \in subscribed)
          \/ \E j \in 1 + 1 .. n :
                \/ bleEvents[j].type = "disconnected"
                \/ bleEvents[j].type = "write" /\ bleEvents[j].bearer = bleEvents[1].bearer
      <4>1. 1 \in 1 .. n BY <2>0
      <4> QED BY <2>0, <2>4, <2>7, <4>1 DEF LastWriteTells, n
    <3>5. \A j \in 1 + 1 .. n : j \in 2 .. n /\ j \in 1 .. n BY <2>0
    <3>6. \A j \in 1 .. n : bleEvents[j].type # "disconnected" BY <2>3 DEF Coming, n
    <3> QED BY <2>1, <2>4, <2>5, <2>7, <3>3, <3>4, <3>5, <3>6
  <2> QED BY <2>6, <2>7
<1> QED BY <1>1, <1>2, <1>3, GattsSteps

LEMMA CompletionsAre == \A b : Completions(b) = Completed(bleEvents, b)
BY DEF Completions, Completed

LEMMA SentKept ==
    ASSUME GattsTypeOK, BleOrder, StartsClosed, OpenIsSubscribed, NoSentLost,
           [GattsNext]_gattsVars
    PROVE  NoSentLost'
<1>0. /\ bleEvents \in Seq(BleEvent) /\ gattsLink \in BOOLEAN /\ Len(bleEvents) \in Nat
      /\ connected \in [Bearers -> BOOLEAN] /\ pending \in [Bearers -> 0 .. MaxPending]
      /\ sending \in Seq(Bearers) /\ Len(sending) \in Nat /\ halted \in BOOLEAN
      /\ MaxPending \in Nat
  BY BearerAssumption DEF GattsTypeOK
<1> SUFFICES ASSUME NEW b \in Bearers, connected'[b], gattsLink', ~ halted',
                    ~ Coming("disconnected")'
             PROVE  pending'[b] <= Unanswered(b)'
  BY GattsTypeKept DEF NoSentLost
<1> DEFINE was == Cardinality(Completed(bleEvents, b))
<1> DEFINE is  == Cardinality(Completed(bleEvents', b))
<1>u. /\ Unanswered(b) = Notifications(b, sending) + was
      /\ Unanswered(b)' = Notifications(b, sending') + is
  BY CompletionsAre DEF Unanswered, Completions, Completed, Notifications
<1>t. bleEvents' \in Seq(BleEvent) /\ sending' \in Seq(Bearers)
  BY GattsTypeKept DEF GattsTypeOK
<1>c. /\ was \in Nat /\ is \in Nat
      /\ Notifications(b, sending) \in Nat /\ Notifications(b, sending') \in Nat
  BY <1>0, <1>t, CompletedCount, NotificationsCount
<1> HIDE DEF was, is
<1>p. pending[b] \in Nat /\ pending[b] <= MaxPending BY <1>0
<1>w. connected[b] /\ gattsLink /\ ~ halted /\ ~ Coming("disconnected") =>
          pending[b] <= Notifications(b, sending) + was
  BY <1>u DEF NoSentLost
<1>1. CASE Quiet /\ UNCHANGED bleEvents
  <2>0. connected[b] /\ ~ Coming("disconnected") /\ is = was
    BY <1>1, OpensOnWrite DEF Coming, is, was
  <2>1. UNCHANGED gattsLink
    BY <1>1 DEF Quiet, SendNotification, CloseBearer, CloseCallback, gattsVars, stackVars
  <2>2. ASSUME NEW c \in Bearers, SendNotification(c) PROVE pending'[b] <= Unanswered(b)'
    <3>1. sending' = Append(sending, c) /\ halted' = halted BY <1>0, <2>2 DEF SendNotification
    <3>2. Notifications(b, sending') = Notifications(b, sending) + (IF c = b THEN 1 ELSE 0)
      BY <1>0, <3>1, NotificationAdded
    <3>3. pending'[b] = pending[b] + (IF c = b THEN 1 ELSE 0)
      BY <1>0, <1>p, <2>2 DEF SendNotification
    <3> QED BY <1>c, <1>p, <1>u, <1>w, <2>0, <2>1, <3>1, <3>2, <3>3
  <2>3. CASE UNCHANGED <<pending, sending, halted>>
    BY <1>c, <1>p, <1>u, <1>w, <2>0, <2>1, <2>3
  <2> QED BY <1>1, <2>2, <2>3 DEF Quiet, CloseBearer, CloseCallback, gattsVars, stackVars, bearerVars
<1>2. ASSUME NEW e \in BleEvent, Reports(e), ReportBle(e) PROVE pending'[b] <= Unanswered(b)'
  <2>0. /\ bleEvents' = Append(bleEvents, e)
        /\ \A type : Coming(type)' <=> (Coming(type) \/ (e.type = type))
    BY <1>0, <1>2, QueuedBle
  <2>1. connected[b] /\ ~ Coming("disconnected") /\ e.type # "disconnected"
    BY <1>2, <2>0, OpensOnWrite
  <2>2. gattsLink BY <2>1 DEF OpenIsSubscribed
  <2>3. e.type \in {"mtu", "write", "tx_complete"} BY <1>0, <1>2, <2>1, <2>2, ReportedTypes
  <2>4. UNCHANGED <<pending, halted>>
    BY <1>2 DEF Reports, PeerLinks, PeerGone, Subscribe, MtuRequest, NotificationsDone, bearerVars
  <2>5. is = was + (IF e.type = "tx_complete"
                    THEN Cardinality({i \in 1 .. e.count : e.of[i] = b}) ELSE 0)
    BY <1>0, <2>0, CompletedMore DEF is, was
  <2>6. CASE e.type # "tx_complete"
    <3>1. sending' = sending
      <4>1. CASE \E c \in Bearers : Subscribe(c) BY <4>1 DEF Subscribe
      <4>2. CASE MtuRequest BY <4>2 DEF MtuRequest, stackVars
      <4> QED BY <1>2, <2>3, <2>6, <4>1, <4>2 DEF Reports
    <3> QED BY <1>c, <1>p, <1>u, <1>w, <2>1, <2>2, <2>4, <2>5, <2>6, <3>1
  <2>7. CASE e.type = "tx_complete"
    <3>1. /\ e.count \in 1 .. Len(sending)
          /\ e = [type |-> "tx_complete", count |-> e.count, of |-> SubSeq(sending, 1, e.count)]
          /\ sending' = SubSeq(sending, e.count + 1, Len(sending))
      BY <1>2, <2>7 DEF Reports
    <3> DEFINE k == e.count
    <3>2. /\ Len(SubSeq(sending, 1, k)) = k
          /\ Notifications(b, sending) =
                Notifications(b, SubSeq(sending, 1, k)) + Notifications(b, sending')
          /\ SubSeq(sending, 1, k) \in Seq(Bearers)
      BY <1>0, <3>1, NotificationsSplit
    <3>3. e.of = SubSeq(sending, 1, k) BY <3>1
    <3>4. Cardinality({i \in 1 .. e.count : e.of[i] = b}) = Notifications(b, SubSeq(sending, 1, k))
      BY <3>2, <3>3 DEF Notifications
    <3>5. Notifications(b, SubSeq(sending, 1, k)) \in Nat BY <3>2, NotificationsCount
    <3> QED BY <1>c, <1>p, <1>u, <1>w, <2>1, <2>2, <2>4, <2>5, <2>7, <3>2, <3>4, <3>5
  <2> QED BY <2>6, <2>7
<1>3. ASSUME NEW type, Handles(type), HandleBle(type) PROVE pending'[b] <= Unanswered(b)'
  <2>0. /\ bleEvents # <<>> /\ bleEvents' = Tail(bleEvents) /\ bleEvents[1].type = type
        /\ bleEvents[1] \in BleEvent /\ Head(bleEvents) = bleEvents[1]
        /\ \A t : Coming(t) <=> (Coming(t)' \/ (t = type))
    BY <1>0, <1>3, TakenBle
  <2>1. UNCHANGED <<gattsLink, sending>>
    BY <1>3 DEF Handles, OnPeerConnected, OnPeerDisconnected, OnMtuRequest, OnWrite, OnTxComplete,
                stackVars
  <2>2. type # "disconnected" /\ ~ Coming("disconnected") BY <1>3, <2>0, OpensOnWrite
  <2>3. ~ halted
    BY <1>0, <1>3 DEF Handles, OnPeerConnected, OnPeerDisconnected, OnMtuRequest, OnWrite,
                      OnTxComplete
  <2>4. was <= is + (IF type = "tx_complete" THEN bleEvents[1].count ELSE 0)
    BY <1>0, <2>0, CompletedFewer DEF is, was
  <2>5. CASE type = "connected"
    <3>1. ~ connected[b] BY <2>0, <2>5 DEF StartsClosed
    <3> QED BY <1>3, <2>5, <3>1, OpensOnWrite
  <2>6. CASE type = "mtu"
    <3>1. OnMtuRequest BY <1>3, <2>6 DEF Handles
    <3>2. UNCHANGED <<pending, connected>> BY <3>1 DEF OnMtuRequest
    <3> QED BY <1>c, <1>p, <1>u, <1>w, <2>1, <2>2, <2>3, <2>4, <2>6, <3>2
  <2>7. CASE type = "write"
    <3>1. OnWrite BY <1>3, <2>7 DEF Handles
    <3>2. bleEvents[1].bearer \in Bearers /\ bleEvents[1].on \in BOOLEAN
      BY <2>0, <2>7, BleEventParts
    <3>3. CASE bleEvents[1].bearer = b /\ ~ connected[b]
      <4>1. bleEvents[1].on BY <1>0, <2>0, <3>1, <3>2, <3>3 DEF OnWrite
      <4>2. pending'[b] = 0 BY <1>0, <2>0, <3>1, <3>2, <3>3, <4>1 DEF OnWrite
      <4> QED BY <1>c, <1>u, <4>2
    <3>4. CASE ~ (bleEvents[1].bearer = b /\ ~ connected[b])
      <4>1. connected[b] BY <1>0, <2>0, <3>1, <3>4 DEF OnWrite
      <4>2. pending'[b] = pending[b] BY <1>0, <2>0, <3>1, <3>4, <4>1 DEF OnWrite
      <4> QED BY <1>c, <1>p, <1>u, <1>w, <2>1, <2>2, <2>3, <2>4, <2>7, <4>1, <4>2
    <3> QED BY <3>3, <3>4
  <2>8. CASE type = "tx_complete"
    <3>1. OnTxComplete BY <1>3, <2>8 DEF Handles
    <3>2. bleEvents[1].count \in Nat BY <2>0, <2>8, BleEventParts, BearerAssumption
    <3>3. pending'[b] = (IF pending[b] > bleEvents[1].count THEN pending[b] - bleEvents[1].count ELSE 0)
      BY <2>0, <3>1 DEF OnTxComplete
    <3>4. connected' = connected BY <3>1 DEF OnTxComplete
    <3> QED BY <1>c, <1>p, <1>u, <1>w, <2>1, <2>2, <2>3, <2>4, <2>8, <3>2, <3>3, <3>4
  <2> QED BY <1>3, <2>2, <2>5, <2>6, <2>7, <2>8 DEF Handles
<1> QED BY <1>1, <1>2, <1>3, GattsSteps

------------------------------------------------------------------------------

LEMMA GattsStarts == GattsInit => GattsInv
<1> SUFFICES ASSUME GattsInit PROVE GattsInv
  OBVIOUS
<1>1. bleEvents = <<>> /\ Len(<<>>) = 0 /\ \A b \in Bearers : ~ connected[b]
  BY DEF GattsInit
<1>2. GattsTypeOK
  <2>1. MaxPending \in Nat /\ QueueSize \in Nat /\ MaxBleEvents \in Nat BY BearerAssumption
  <2>2. pending \in [Bearers -> 0 .. MaxPending] BY <2>1 DEF GattsInit
  <2>3. /\ sending \in Seq(Bearers) /\ Len(sending) <= QueueSize
        /\ bleEvents \in Seq(BleEvent) /\ Len(bleEvents) <= MaxBleEvents
    BY <2>1, <1>1 DEF GattsInit
  <2>4. connected \in [Bearers -> BOOLEAN] BY DEF GattsInit
  <2> QED BY <2>2, <2>3, <2>4 DEF GattsInit, GattsTypeOK
<1>3. BleOrder /\ LastWriteTells /\ StartsClosed
  BY <1>1 DEF BleOrder, LastWriteTells, StartsClosed
<1>4. MtuKnown BY DEF MtuKnown, GattsInit
<1>5. OpenIsSubscribed /\ NoSentLost BY <1>1, <1>2 DEF OpenIsSubscribed, NoSentLost
<1> QED BY <1>2, <1>3, <1>4, <1>5 DEF GattsInv

LEMMA GattsStepsKeep == GattsInv /\ [GattsNext]_gattsVars => GattsInv'
BY GattsTypeKept, BleOrderKept, LastWriteKept, StartsClosedKept, MtuKept, OpenKept, SentKept
   DEF GattsInv

LEMMA GattsInvariant == GattsSpec => []GattsInv
BY GattsStarts, GattsStepsKeep, PTL DEF GattsSpec

(* However many bearers share the SoftDevice's queue and however late main *)
(* handles its events, an open bearer's library gets an on_sent for every  *)
(* send.                                                                   *)
THEOREM SendsAnswered == GattsSpec => []NoSentLost
<1>1. GattsInv => NoSentLost BY DEF GattsInv
<1> QED BY <1>1, GattsInvariant, PTL

(* A bearer is open only for a peer that subscribes on a live link, but    *)
(* for what main has still to handle, and with no larger an MTU than the   *)
(* link's.                                                                 *)
THEOREM OpenBearersFit == GattsSpec => []OpenFitsLink
<1>1. GattsInv => OpenFitsLink
  <2> SUFFICES ASSUME GattsInv PROVE OpenIsSubscribed /\ MtuFits
    BY DEF OpenFitsLink
  <2>1. MtuFits
    <3> SUFFICES ASSUME NEW b \in Bearers, connected[b], gattsLink, ~ Coming("disconnected")
                 PROVE  mtu <= linkMtu
      BY DEF MtuFits
    <3>1. ~ Coming("connected") BY StartIsFirst DEF GattsInv, StartsClosed
    <3> QED BY <3>1 DEF GattsInv, MtuKnown
  <2> QED BY <2>1 DEF GattsInv
<1> QED BY <1>1, GattsInvariant, PTL
================================================================================
