-------------------------------- MODULE HeartRate --------------------------------
(***************************************************************************)
(* The coexistence example: a heart rate monitor (hr.c) that advertises    *)
(* and is connected to beside Blecon.  Its callbacks leave two bits to its *)
(* thread, which looks at them once a second and puts the set on the air   *)
(* again after a disconnection.  A start that fails ends the thread.       *)
(***************************************************************************)
EXTENDS ZephyrAdvertising

VARIABLES hrConn,   (* _conn                                                 *)
          state,    (* the bits STATE_CONNECTED and STATE_DISCONNECTED       *)
          thread    (* where hr_thread is                                    *)

hrVars      == <<hrConn, state, thread>>
coexistVars == <<portVars, hrVars>>

CoexistTypeOK ==
    /\ AdvTypeOK
    /\ hrConn \in Conns \union {NoConn}
    /\ state \subseteq {"CONNECTED", "DISCONNECTED"}
    /\ thread \in {"setup", "sleep", "returned"}

CoexistInit ==
    /\ AdvInit
    /\ hrConn = NoConn
    /\ state = {}
    /\ thread = "setup"

------------------------------------------------------------------------------

(* connected: "ignore connections not targeting their own identity". *)
HrConnected(c) ==
    /\ rx = <<"app", c>>
    /\ rx' = Idle
    /\ IF conn[c].id = DefaultId
       THEN hrConn' = c /\ state' = state \union {"CONNECTED"}
       ELSE UNCHANGED <<hrConn, state>>
    /\ UNCHANGED <<advVars, conn, refs, btConn, wq, denied, thread>>

(* disconnected, the last of the callbacks. *)
HrDisconnected(c) ==
    /\ wq = <<"app", c>>
    /\ wq' = Idle
    /\ IF c = hrConn
       THEN hrConn' = NoConn /\ state' = state \union {"DISCONNECTED"}
       ELSE UNCHANGED <<hrConn, state>>
    /\ HostReleases(c)
    /\ UNCHANGED <<advVars, refs, btConn, rx, denied, thread>>

(* bt_le_ext_adv_start in the thread, which returns if it fails. *)
StartAdvertising ==
    /\ HostStart(AppSet, DefaultId, TRUE, "app")
    /\ thread' = IF "app" \in denied' THEN "returned" ELSE "sleep"
    /\ UNCHANGED <<setsCount, identity, created, scanning, refs, btConn, rx, wq, hrConn>>

ThreadSetup ==
    /\ thread = "setup"
    /\ StartAdvertising
    /\ UNCHANGED state

(* Fault: both bits are cleared, and the first wins. *)
ThreadPollsOnce ==
    /\ thread = "sleep"
    /\ state # {}
    /\ state' = {}
    /\ IF "CONNECTED" \in state
       THEN UNCHANGED <<portVars, hrConn, thread>>
       ELSE StartAdvertising

(* Once a second: one of the bits, CONNECTED first. *)
ThreadPolls ==
    /\ thread = "sleep"
    /\ \/ /\ "CONNECTED" \in state
          /\ state' = state \ {"CONNECTED"}
          /\ UNCHANGED <<portVars, hrConn, thread>>
       \/ /\ state = {"DISCONNECTED"}
          /\ state' = {}
          /\ StartAdvertising

PortNext ==
    \/ AdvertisingSetNew
    \/ \E s \in AdvSets : UpdateParams(s) \/ Start(s) \/ Stop(s)
    \/ ScanStart \/ ScanStop
    \/ \E c \in Conns : OnConnected(c) \/ OnDisconnected(c)
    \/ ReportReceived \/ OnScanReportReceived
    \/ \E c \in Conns : ConnectionLost(c) \/ ConnectionDown(c)
    \/ \E c \in Conns, s \in AdvSets \union {AppSet} : ConnectionUp(c, s)

CoexistNext ==
    /\ "port" \notin denied
    /\ \/ PortNext /\ UNCHANGED hrVars
       \/ \E c \in Conns : HrConnected(c) \/ HrDisconnected(c)
       \/ ThreadSetup
       \/ ThreadPolls

(* The callbacks under way end, lost links are reported, the thread polls. *)
CoexistSpec ==
    /\ CoexistInit /\ [][CoexistNext]_coexistVars
    /\ WF_coexistVars(OnScanReportReceived /\ UNCHANGED hrVars)
    /\ \A c \in Conns :
         /\ WF_coexistVars(OnConnected(c) /\ UNCHANGED hrVars)
         /\ WF_coexistVars(HrConnected(c))
         /\ WF_coexistVars(OnDisconnected(c) /\ UNCHANGED hrVars)
         /\ WF_coexistVars(HrDisconnected(c))
         /\ SF_coexistVars(ConnectionDown(c) /\ UNCHANGED hrVars)
    /\ WF_coexistVars(ThreadSetup) /\ WF_coexistVars(ThreadPolls)

------------------------------------------------------------------------------

(* Whose connection c is, by the identity it was made to. *)
Ours(c) == conn[c].id \in 1 .. MaxSets

(* Links are kept apart: what Blecon keeps is a live connection to one of  *)
(* its sets, of which it holds the one reference; what the heart rate      *)
(* monitor keeps is a live connection to its own.                          *)
KeptApart ==
    /\ CoexistTypeOK
    /\ btConn # NoConn => Ours(btConn) /\ conn[btConn].at \in {"up", "lost"}
    /\ hrConn # NoConn => conn[hrConn].id = DefaultId /\ conn[hrConn].at \in {"up", "lost"}
    /\ refs = {btConn} \ {NoConn}

(* The host has enough objects for both: no start is refused, which Blecon *)
(* asserts against and the monitor's thread does not survive, although an  *)
(* ended link keeps its object until the last callback.                    *)
StartsAccepted == denied = {}

(* After each of its links the monitor is on the air again, however        *)
(* quickly the link came and went between two polls.                       *)
AdvertisesAgain ==
    \A c \in Conns : (conn[c] = [at |-> "lost", id |-> DefaultId]) ~> AppSet \in onAir
==================================================================================
