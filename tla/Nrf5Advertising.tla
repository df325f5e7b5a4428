---------------------------- MODULE Nrf5Advertising ----------------------------
(***************************************************************************)
(* Advertising and scanning of the nRF5 port (blecon_nrf5_bluetooth.c).    *)
(* The SoftDevice has one advertising handle; the port shares it among its *)
(* sets: each set is put on the air for one advertising event, the end of  *)
(* which starts the next set, and the timer starts the round at set 0.     *)
(*                                                                         *)
(* Main runs the library's calls and the SoftDevice's events; the timer's  *)
(* interrupt preempts it anywhere while the timer runs, and runs to its    *)
(* end.  Main is cut where that can be told apart: where the timer runs    *)
(* and the handler would not find next set 0 out of its reach.             *)
(***************************************************************************)
EXTENDS Naturals, FiniteSets, Sequences

CONSTANTS SetsCount,    (* advertising.sets_count                            *)
          Connectable,  (* the sets with params.is_connectable               *)
          MaxReports    (* bound on the SoftDevice's events not yet handled  *)

Sets  == 0 .. SetsCount - 1
NoSet == SetsCount

ASSUME SetsAssumption ==
    /\ SetsCount \in 1 .. 3      (* BLECON_MAX_ADVERTISING_SETS *)
    /\ Connectable \subseteq Sets
    /\ MaxReports \in Nat \ {0}

Nothing == "nothing"

VARIABLES
    isAdvertising,    (* sets[].is_advertising                               *)
    setsAdvertising,  (* advertising.sets_advertising                        *)
    setCurrent,       (* advertising.set_current                             *)
    setNext,          (* advertising.set_next                                *)
    timer,            (* the rotation timer runs                             *)
    air,              (* the set the SoftDevice advertises                   *)
    isScanning,       (* bluetooth.is_scanning                               *)
    scanner,          (* the SoftDevice's scanner                            *)
    reports,          (* its events, to be handled by main                   *)
    link,             (* the set over which a peer is connected              *)
    connSet,          (* the set whose PHY and address the connection has    *)
    pc,               (* what main is in the middle of                       *)
    failed            (* the assertion that failed or the loop without end   *)

advVars  == <<isAdvertising, setsAdvertising, setCurrent, setNext, timer, air>>
scanVars == <<isScanning, scanner>>
linkVars == <<link, connSet>>
vars     == <<advVars, scanVars, linkVars, reports, pc, failed>>

TypeOK ==
    /\ isAdvertising \in [Sets -> BOOLEAN]
    /\ setsAdvertising \in 0 .. SetsCount
    /\ setCurrent \in Sets
    /\ setNext \in Sets
    /\ timer \in BOOLEAN
    /\ air \in Sets \union {NoSet}
    /\ isScanning \in BOOLEAN
    /\ scanner \in {"off", "on", "paused"}
    /\ reports \in Seq({"terminated", "connected", "report"})
    /\ Len(reports) <= MaxReports
    /\ link \in Sets \union {NoSet}
    /\ connSet \in Sets \union {NoSet}
    /\ pc \in {"idle", "set_stop", "adv_start", "scan_start", "scan_stop", "connected"}
    /\ failed \in {Nothing, "adv_start", "conn_count", "rotation", "address",
                   "scan_start"}

Init ==
    /\ isAdvertising = [s \in Sets |-> FALSE]
    /\ setsAdvertising = 0
    /\ setCurrent = 0
    /\ setNext = 0
    /\ timer = FALSE
    /\ air = NoSet
    /\ isScanning = FALSE
    /\ scanner = "off"
    /\ reports = <<>>
    /\ link = NoSet
    /\ connSet = NoSet
    /\ pc = "idle"
    /\ failed = Nothing

------------------------------------------------------------------------------
(* advertising_start, up to the call that starts the handle, for the sets  *)
(* advertising in adv.  The address cannot be set while the SoftDevice     *)
(* scans, and the rotation looks for an advertising set: two loops that    *)
(* may not end.                                                            *)

NextSet(n, adv) ==
    LET step == CHOOSE k \in 1 .. SetsCount :
                  /\ adv[(n + k) % SetsCount]
                  /\ \A j \in 1 .. k - 1 : ~ adv[(n + j) % SetsCount]
    IN  (n + step) % SetsCount

CannotPrepare(adv) ==
    IF scanner # "off" /\ ~ isScanning THEN "address"
    ELSE IF \A s \in Sets : ~ adv[s] THEN "rotation"
    ELSE Nothing

(* Fault: the rotation stays at the set that goes on the air. *)
PrepareNoTurn(n, adv) ==
    /\ setCurrent' = n
    /\ setNext' = n
    /\ scanner' = IF isScanning THEN "on" ELSE scanner

(* Sets up the handle for set n and turns to the set after it; the scanner *)
(* is stopped for the address and started again.                           *)
Prepare(n, adv) ==
    /\ setCurrent' = n
    /\ setNext' = IF CannotPrepare(adv) = Nothing THEN NextSet(n, adv) ELSE n
    /\ scanner' = IF isScanning THEN "on" ELSE scanner

(* The SoftDevice has one peripheral link, and advertises no connectable   *)
(* set while it is in use.                                                 *)
CannotAdvertise(n) == IF link # NoSet /\ n \in Connectable THEN "conn_count" ELSE Nothing

(* advertising_stop, where it is called, and advertising_start, with no    *)
(* interruption that matters.                                              *)
Restart(n, adv) ==
    /\ Prepare(n, adv)
    /\ failed' = IF CannotPrepare(adv) # Nothing
                 THEN CannotPrepare(adv) ELSE CannotAdvertise(n)
    /\ air' = IF failed' = Nothing THEN n ELSE NoSet

------------------------------------------------------------------------------
(* The library's calls.  It starts no set while a peer is connected, and a *)
(* scan only when it has stopped the last.                                 *)

(* set_start of the first set: the timer starts, and the round at set 0,   *)
(* for the index computed from the set's address is always 0.              *)
SetStartFirst(s) ==
    /\ pc = "idle"
    /\ connSet = NoSet
    /\ ~ isAdvertising[s]
    /\ setsAdvertising = 0
    /\ isAdvertising' = [isAdvertising EXCEPT ![s] = TRUE]
    /\ setsAdvertising' = 1
    /\ timer' = TRUE
    /\ Restart(0, isAdvertising')
    /\ UNCHANGED <<isScanning, linkVars, reports, pc>>

(* Fault: a set that advertises already is counted again. *)
SetStartAgain(s) ==
    /\ pc = "idle"
    /\ connSet = NoSet
    /\ setsAdvertising > 0
    /\ isAdvertising' = [isAdvertising EXCEPT ![s] = TRUE]
    /\ setsAdvertising' = setsAdvertising + 1
    /\ UNCHANGED <<setCurrent, setNext, timer, air, scanVars, linkVars, reports, pc, failed>>

(* set_start of another: the rotation will come to it. *)
SetStartMore(s) ==
    /\ pc = "idle"
    /\ connSet = NoSet
    /\ ~ isAdvertising[s]
    /\ setsAdvertising > 0
    /\ isAdvertising' = [isAdvertising EXCEPT ![s] = TRUE]
    /\ setsAdvertising' = setsAdvertising + 1
    /\ UNCHANGED <<setCurrent, setNext, timer, air, scanVars, linkVars, reports, pc, failed>>

(* set_stop, the flag first ... *)
SetStop(s) ==
    /\ pc \in {"idle", "connected"}
    /\ isAdvertising[s]
    /\ isAdvertising' = [isAdvertising EXCEPT ![s] = FALSE]
    /\ pc' = "set_stop"
    /\ UNCHANGED <<setsAdvertising, setCurrent, setNext, timer, air, scanVars,
                   linkVars, reports, failed>>

(* Fault: the handle is stopped only to be started for another set. *)
SetStopLeavesAir ==
    /\ pc = "set_stop"
    /\ setsAdvertising' = setsAdvertising - 1
    /\ timer' = FALSE
    /\ pc' = IF connSet # NoSet /\ setsAdvertising' > 0 THEN "connected" ELSE "idle"
    /\ IF setsAdvertising' > 0
       THEN Restart(setNext, isAdvertising)
       ELSE UNCHANGED <<air, setCurrent, setNext, scanner, failed>>
    /\ UNCHANGED <<isAdvertising, isScanning, linkVars, reports>>

(* ... then the count, the timer, which is not started again, the handle,  *)
(* and the rotation goes on with set_next.                                 *)
SetStopped ==
    /\ pc = "set_stop"
    /\ setsAdvertising' = setsAdvertising - 1
    /\ timer' = FALSE
    /\ pc' = IF connSet # NoSet /\ setsAdvertising' > 0 THEN "connected" ELSE "idle"
    /\ IF setsAdvertising' > 0
       THEN Restart(setNext, isAdvertising)
       ELSE air' = NoSet /\ UNCHANGED <<setCurrent, setNext, scanner, failed>>
    /\ UNCHANGED <<isAdvertising, isScanning, linkVars, reports>>

(* scan_start and scan_stop: the SoftDevice's scanner first, then the flag. *)
ScanStart ==
    /\ pc = "idle"
    /\ ~ isScanning
    /\ IF scanner = "off"
       THEN scanner' = "on" /\ pc' = "scan_start" /\ UNCHANGED failed
       ELSE failed' = "scan_start" /\ UNCHANGED <<scanner, pc>>
    /\ UNCHANGED <<advVars, isScanning, linkVars, reports>>

ScanStop ==
    /\ pc = "idle"
    /\ isScanning
    /\ scanner' = "off"
    /\ pc' = "scan_stop"
    /\ UNCHANGED <<advVars, isScanning, linkVars, reports, failed>>

ScanFlag ==
    /\ pc \in {"scan_start", "scan_stop"}
    /\ isScanning' = (pc = "scan_start")
    /\ pc' = "idle"
    /\ UNCHANGED <<advVars, scanner, linkVars, reports, failed>>

------------------------------------------------------------------------------
(* The timer's interrupt: adv_timeout_handler.  While another set than 0   *)
(* is next it does nothing.                                                *)

Rotate ==
    /\ timer
    /\ setsAdvertising > 0
    /\ setNext = 0
    /\ Restart(0, isAdvertising)
    /\ UNCHANGED <<isAdvertising, setsAdvertising, timer, isScanning, linkVars, reports, pc>>

------------------------------------------------------------------------------
(* The SoftDevice.  Its events wait for main. *)

Report(event) ==
    /\ Len(reports) < MaxReports
    /\ reports' = Append(reports, event)

(* An advertising event takes longer than main takes to start the handle. *)
AdvEnds ==
    /\ air # NoSet
    /\ pc # "adv_start"
    /\ air' = NoSet
    /\ Report("terminated")
    /\ UNCHANGED <<isAdvertising, setsAdvertising, setCurrent, setNext, timer, scanVars,
                   linkVars, pc, failed>>

PeerConnects ==
    /\ air \in Connectable
    /\ pc # "adv_start"
    /\ link = NoSet
    /\ link' = air
    /\ air' = NoSet
    /\ Report("connected")
    /\ UNCHANGED <<isAdvertising, setsAdvertising, setCurrent, setNext, timer, scanVars,
                   connSet, pc, failed>>

AdvReport ==
    /\ scanner = "on"
    /\ scanner' = "paused"
    /\ Report("report")
    /\ UNCHANGED <<advVars, isScanning, linkVars, pc, failed>>

------------------------------------------------------------------------------
(* Main handles them: ble_evt_handler. *)

Handle(event) ==
    /\ pc = "idle"
    /\ reports # <<>>
    /\ Head(reports) = event
    /\ reports' = Tail(reports)

(* The set's event is over: the next one's turn, unless that is set 0,     *)
(* which waits for the timer.                                              *)
OnTerminated ==
    /\ Handle("terminated")
    /\ IF setsAdvertising > 0 /\ setNext # 0
       THEN /\ air' = NoSet
            /\ Prepare(setNext, isAdvertising)
            /\ failed' = CannotPrepare(isAdvertising)
            /\ pc' = IF failed' = Nothing THEN "adv_start" ELSE "idle"
       ELSE UNCHANGED <<air, setCurrent, setNext, scanner, failed, pc>>
    /\ UNCHANGED <<isAdvertising, setsAdvertising, timer, isScanning, linkVars>>

(* ... starts the handle, which the interrupt may have started just before. *)
AdvStart ==
    /\ pc = "adv_start"
    /\ pc' = "idle"
    /\ failed' = IF air # NoSet THEN "adv_start" ELSE CannotAdvertise(setCurrent)
    /\ air' = IF failed' = Nothing THEN setCurrent ELSE air
    /\ UNCHANGED <<isAdvertising, setsAdvertising, setCurrent, setNext, timer, scanVars,
                   linkVars, reports>>

(* A peer has connected: the connection gets what set_current has, and the *)
(* library stops its sets.                                                 *)
OnConnected ==
    /\ Handle("connected")
    /\ connSet' = setCurrent
    /\ pc' = IF setsAdvertising > 0 THEN "connected" ELSE "idle"
    /\ UNCHANGED <<advVars, scanVars, link, failed>>

OnDisconnected ==
    /\ pc = "idle"
    /\ connSet # NoSet
    /\ link' = NoSet
    /\ connSet' = NoSet
    /\ UNCHANGED <<advVars, scanVars, reports, pc, failed>>

(* Fault: the scanner is left as the report paused it. *)
ReportNotContinued ==
    /\ Handle("report")
    /\ UNCHANGED <<advVars, scanVars, linkVars, pc, failed>>

(* An advertising report: the scanner, if it still waits, continues. *)
OnAdvReport ==
    /\ Handle("report")
    /\ scanner' = IF scanner = "paused" THEN "on" ELSE scanner
    /\ UNCHANGED <<advVars, isScanning, linkVars, pc, failed>>

------------------------------------------------------------------------------

MainStep ==
    \/ SetStopped \/ ScanFlag \/ AdvStart
    \/ pc = "connected" /\ \E s \in Sets : SetStop(s)
HandleStep == OnTerminated \/ OnConnected \/ OnAdvReport

(* A failed assertion stops the program; a loop without end in the         *)
(* interrupt stops main for good.                                          *)
Next ==
    /\ failed = Nothing
    /\ \/ MainStep \/ HandleStep
       \/ \E s \in Sets : SetStartFirst(s) \/ SetStartMore(s) \/ SetStop(s)
       \/ ScanStart \/ ScanStop
       \/ Rotate
       \/ AdvEnds \/ PeerConnects \/ AdvReport
       \/ OnDisconnected

Spec == Init /\ [][Next]_vars

(* Main finishes what it began and handles the events, which wait in one   *)
(* queue with its other tasks; the timer is periodic; an advertising event *)
(* ends, although the bound on reports may defer it in the model.          *)
Fairness ==
    /\ WF_vars(failed = Nothing /\ MainStep)
    /\ SF_vars(failed = Nothing /\ HandleStep)
    /\ WF_vars(failed = Nothing /\ Rotate)
    /\ SF_vars(failed = Nothing /\ (AdvEnds \/ PeerConnects))

FairSpec == Spec /\ Fairness

------------------------------------------------------------------------------

(* The count follows the flags, whatever the order of starts and stops, so *)
(* that the handlers know whether there is anything to rotate.             *)
CountMatches ==
    /\ TypeOK
    /\ setsAdvertising = Cardinality({s \in Sets : isAdvertising[s]})
                           + (IF pc = "set_stop" THEN 1 ELSE 0)

(* With the last set stopped nothing is on the air: no pending event or    *)
(* interrupt puts the handle back there.                                   *)
SilentWhenStopped ==
    setsAdvertising = 0 /\ pc = "idle" => air = NoSet /\ ~ timer

(* Between calls a scan that was asked for is going on, or a report it was *)
(* paused for is still to be handled: setting addresses does not end it.   *)
ScanGoesOn ==
    isScanning /\ pc # "scan_stop" =>
        \/ scanner = "on"
        \/ scanner = "paused" /\ \E i \in 1 .. Len(reports) : reports[i] = "report"

(* While the timer runs every advertising set comes on the air again. *)
Rotation ==
    \A s \in Sets : (isAdvertising[s] /\ timer) ~>
        (air = s \/ ~ isAdvertising[s] \/ ~ timer \/ failed # Nothing)

(* What the code says and does not keep. *)

(* "blecon_assert(ret == NRF_SUCCESS)": the handle can be started. *)
AdvStartAccepted == failed # "adv_start"

(* "Increment rotating advertising sets counter": the rotation finds a set. *)
RotationEnds == failed # "rotation"

(* "If we're scanning, we need to stop doing so before being able to set   *)
(* the advertising address": the address can be set.                       *)
AddressSet == failed # "address"

(* "The connection's PHY is of the current advertising set": of the one    *)
(* the peer connected to.                                                  *)
ConnectionOfItsSet == connSet # NoSet => connSet = link

(* "Continue advertising": with one of the sets that are not stopped ...   *)
ContinuesWithASet == [][SetStopped /\ air' # NoSet => isAdvertising[air']]_vars

(* ... and so that each of them comes on the air again.                    *)
RemainingSetsHeard ==
    \A s \in Sets : isAdvertising[s] ~> (air = s \/ ~ isAdvertising[s] \/ failed # Nothing)
==============================================================================
