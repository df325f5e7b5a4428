--------------------------- MODULE ZephyrAdvertising ---------------------------
(***************************************************************************)
(* Advertising sets, identities, connections and scans of the Zephyr port  *)
(* (blecon_zephyr_bluetooth.c) over a Bluetooth host that is shared with   *)
(* the application.  Every set of the port advertises under an identity of *)
(* its own, by which a connection is told from the application's.  A       *)
(* connectable set on the air already holds one of the host's connection   *)
(* objects.                                                                *)
(*                                                                         *)
(* The host calls everybody's callbacks, one after the other: the port's,  *)
(* which take the event loop's lock, and then the application's.  rx is    *)
(* the thread that reports connections and advertisements, wq the work     *)
(* queue that reports disconnections.                                      *)
(***************************************************************************)
EXTENDS Integers, FiniteSets

CONSTANTS MaxSets,      (* BLECON_MAX_ADVERTISING_SETS                       *)
          Connectable,  (* the sets the library makes connectable            *)
          AppSet,       (* the application's set, of the default identity    *)
          Conns,        (* the host's connection objects, BT_MAX_CONN        *)
          NoConn,       (* the null connection                               *)
          Hastens       (* the library may restart a set between its link    *)
                        (* and the report of it                              *)

AdvSets == 0 .. MaxSets - 1
DefaultId == 0

ASSUME SetAssumption ==
    /\ MaxSets \in Nat
    /\ Connectable \subseteq AdvSets
    /\ AppSet \notin AdvSets
    /\ NoConn \notin Conns
    /\ Hastens \in BOOLEAN

VARIABLES
    setsCount,  (* adv_sets_count                                            *)
    identity,   (* adv_sets[].identity, -1 before the first parameters       *)
    created,    (* the sets with a handle                                    *)
    onAir,      (* the sets the controller advertises                        *)
    conn,       (* the host's connection objects                             *)
    refs,       (* those the port holds a reference of                       *)
    btConn,     (* connection.conn                                           *)
    scanning,   (* the host scans                                            *)
    rx, wq,     (* the callback each thread has still to make                *)
    denied      (* who was refused a start, an assertion or the thread's end *)

advVars == <<setsCount, identity, created, onAir, scanning>>
portVars == <<advVars, conn, refs, btConn, rx, wq, denied>>

(* The host keeps in an object whose it is: its set's identity. *)
Conn == [at : {"free", "adv", "up", "lost", "ended"}, id : -1 .. MaxSets]
FreeConn == [at |-> "free", id |-> -1]
Idle == <<"idle", NoConn>>
Callback == {Idle} \union ({"port", "app"} \X Conns) \union {<<"report", NoConn>>}

AdvTypeOK ==
    /\ setsCount \in 0 .. MaxSets
    /\ identity \in [AdvSets -> -1 .. MaxSets]
    /\ created \subseteq AdvSets
    /\ onAir \subseteq AdvSets \union {AppSet}
    /\ conn \in [Conns -> Conn]
    /\ refs \subseteq Conns
    /\ btConn \in Conns \union {NoConn}
    /\ scanning \in BOOLEAN
    /\ {rx, wq} \subseteq Callback
    /\ denied \subseteq {"port", "app"}

AdvInit ==
    /\ setsCount = 0
    /\ identity = [s \in AdvSets |-> -1]
    /\ created = {}
    /\ onAir = {}
    /\ conn = [c \in Conns |-> FreeConn]
    /\ refs = {}
    /\ btConn = NoConn
    /\ scanning = FALSE
    /\ rx = Idle /\ wq = Idle
    /\ denied = {}

------------------------------------------------------------------------------
(* The host. *)

(* Start set s of identity id; a connectable one takes an object. *)
HostStart(s, id, connectable, who) ==
    \/ /\ ~ connectable
       /\ onAir' = onAir \union {s}
       /\ UNCHANGED <<conn, denied>>
    \/ /\ connectable
       /\ \E c \in Conns :
             /\ conn[c] = FreeConn
             /\ conn' = [conn EXCEPT ![c] = [at |-> "adv", id |-> id]]
       /\ onAir' = onAir \union {s}
       /\ UNCHANGED denied
    \/ /\ connectable
       /\ \A c \in Conns : conn[c] # FreeConn
       /\ denied' = denied \union {who}
       /\ UNCHANGED <<onAir, conn>>

(* A peer connects to a set on the air, which ends its advertising. *)
ConnectionUp(c, s) ==
    /\ rx = Idle
    /\ s \in onAir
    /\ conn[c].at = "adv"
    /\ conn[c].id = IF s = AppSet THEN DefaultId ELSE identity[s]
    /\ conn' = [conn EXCEPT ![c].at = "up"]
    /\ onAir' = onAir \ {s}
    /\ rx' = <<"port", c>>
    /\ UNCHANGED <<setsCount, identity, created, refs, btConn, scanning, wq, denied>>

(* The link ends, after it was reported. *)
ConnectionLost(c) ==
    /\ conn[c].at = "up"
    /\ rx[2] # c
    /\ conn' = [conn EXCEPT ![c].at = "lost"]
    /\ UNCHANGED <<advVars, refs, btConn, rx, wq, denied>>

(* The receive thread leaves the callbacks of that to the work queue. *)
ConnectionDown(c) ==
    /\ rx = Idle /\ wq = Idle
    /\ conn[c].at = "lost"
    /\ wq' = <<"port", c>>
    /\ UNCHANGED <<advVars, conn, refs, btConn, rx, denied>>

(* After the last callback the host drops its own reference. *)
HostReleases(c) ==
    conn' = [conn EXCEPT ![c] = IF c \in refs THEN [@ EXCEPT !.at = "ended"] ELSE FreeConn]

------------------------------------------------------------------------------
(* The port's calls, by the library, outside a session. *)

AdvertisingSetNew ==
    /\ setsCount < MaxSets
    /\ setsCount' = setsCount + 1
    /\ UNCHANGED <<identity, created, onAir, scanning, conn, refs, btConn, rx, wq, denied>>

(* update_params: the host numbers new identities upwards; a set that has  *)
(* one keeps its number.                                                   *)
UpdateParams(s) ==
    /\ s < setsCount
    /\ s \notin onAir
    /\ identity' = IF identity[s] # -1 THEN identity
                   ELSE [identity EXCEPT ![s] =
                            1 + Cardinality({t \in AdvSets : identity[t] # -1})]
    /\ created' = created \union {s}
    /\ UNCHANGED <<setsCount, onAir, scanning, conn, refs, btConn, rx, wq, denied>>

(* A link of one of our sets that was not reported yet. *)
LinkUnreported == rx[1] = "port" /\ conn[rx[2]].id # DefaultId

Start(s) ==
    /\ s \in created \ onAir
    /\ btConn = NoConn
    /\ Hastens \/ ~ LinkUnreported
    /\ HostStart(s, identity[s], s \in Connectable, "port")
    /\ UNCHANGED <<setsCount, identity, created, scanning, refs, btConn, rx, wq>>

(* "disabling an already disabled adv set has no effect". *)
Stop(s) ==
    /\ s \in created
    /\ onAir' = onAir \ {s}
    /\ conn' = [c \in Conns |-> IF conn[c] = [at |-> "adv", id |-> identity[s]]
                                THEN FreeConn ELSE conn[c]]
    /\ UNCHANGED <<setsCount, identity, created, scanning, refs, btConn, rx, wq, denied>>

ScanStart ==
    /\ ~ scanning
    /\ scanning' = TRUE
    /\ UNCHANGED <<setsCount, identity, created, onAir, conn, refs, btConn, rx, wq, denied>>

ScanStop ==
    /\ scanning
    /\ scanning' = FALSE
    /\ UNCHANGED <<setsCount, identity, created, onAir, conn, refs, btConn, rx, wq, denied>>

------------------------------------------------------------------------------
(* The port's callbacks. *)

(* Fault: a connection of no set of ours is taken as well. *)
OnConnectedAny(c) ==
    /\ rx = <<"port", c>>
    /\ rx' = <<"app", c>>
    /\ btConn' = c
    /\ refs' = refs \union {c}
    /\ UNCHANGED <<advVars, conn, wq, denied>>

(* on_connected: a connection to an identity of ours is kept, others are   *)
(* the application's.                                                      *)
OnConnected(c) ==
    /\ rx = <<"port", c>>
    /\ rx' = <<"app", c>>
    /\ IF \E s \in AdvSets : s < setsCount /\ identity[s] = conn[c].id
       THEN btConn' = c /\ refs' = refs \union {c}
       ELSE UNCHANGED <<btConn, refs>>
    /\ UNCHANGED <<advVars, conn, wq, denied>>

(* Fault: the reference taken in on_connected is not dropped. *)
OnDisconnectedKeepsRef(c) ==
    /\ wq = <<"port", c>>
    /\ wq' = <<"app", c>>
    /\ btConn' = IF c = btConn THEN NoConn ELSE btConn
    /\ UNCHANGED <<advVars, conn, refs, rx, denied>>

(* on_disconnected; the session is over, and the library may start its     *)
(* sets again from here on, before the host has its object back.           *)
OnDisconnected(c) ==
    /\ wq = <<"port", c>>
    /\ wq' = <<"app", c>>
    /\ IF c = btConn
       THEN btConn' = NoConn /\ refs' = refs \ {c}
       ELSE UNCHANGED <<btConn, refs>>
    /\ UNCHANGED <<advVars, conn, rx, denied>>

(* An advertisement is received; the callback waits for the lock, ... *)
ReportReceived ==
    /\ rx = Idle
    /\ scanning
    /\ rx' = <<"report", NoConn>>
    /\ UNCHANGED <<advVars, conn, refs, btConn, wq, denied>>

(* ... and then hands it to the library. *)
OnScanReportReceived ==
    /\ rx = <<"report", NoConn>>
    /\ rx' = Idle
    /\ UNCHANGED <<advVars, conn, refs, btConn, wq, denied>>

(* What a scanner expects of scan_stop: no report after it.  The callback  *)
(* does not look, and the library is given a late one.                     *)
NoLateReport == [][OnScanReportReceived => scanning]_portVars
==============================================================================
