------------------------------- MODULE Nrf5Gatts -------------------------------
(***************************************************************************)
(* The GATT server's bearers of the nRF5 port                              *)
(* (blecon_nrf5_gatts_bearer.c).  A bearer is open while the peer          *)
(* subscribes to its characteristic; the port sends by notifications and   *)
(* learns how many the SoftDevice has transmitted, not whose.  Main works  *)
(* on the SoftDevice's events of a moment ago: the peer may have           *)
(* unsubscribed, or the link be gone, when main sends or answers.          *)
(***************************************************************************)
EXTENDS Naturals, FiniteSets, Sequences

CONSTANTS Bearers,     (* the characteristics                                *)
          MaxPending,  (* BLECON_L2CAP_MAX_QUEUED_TX_BUFFERS, of the library *)
          QueueSize,   (* the SoftDevice's room for notifications            *)
          MaxBleEvents (* bound on the events not yet handled                *)

ASSUME BearerAssumption ==
    /\ IsFiniteSet(Bearers)
    /\ {MaxPending, QueueSize, MaxBleEvents} \subseteq Nat \ {0}

(* BLE_GATT_ATT_MTU_DEFAULT and what a peer negotiates; only the order     *)
(* matters.                                                                *)
Default == 1
Large   == 2

VARIABLES
    connHandle, (* connection.handle is valid                                *)
    mtu,        (* att_mtu                                                   *)
    connected,  (* for each bearer: connected                                *)
    pending,    (* pending_notifications_count                               *)
    closeTasks, (* the bearers whose close_task is queued                    *)
    halted,     (* an assertion failed: of a send or the MTU's reply         *)
    gattsLink,  (* the SoftDevice's link is up                               *)
    linkMtu,    (* its MTU                                                   *)
    subscribed, (* the bearers the peer subscribes to                        *)
    sending,    (* its notifications, by bearer                              *)
    bleEvents   (* its events for main                                       *)

bearerVars == <<mtu, connected, pending, closeTasks>>
stackVars  == <<gattsLink, linkMtu, subscribed, sending>>
gattsVars  == <<bearerVars, connHandle, halted, stackVars, bleEvents>>

(* What the SoftDevice reports: of[i] is the i-th notification's bearer.   *)
BleEvent ==
    [type : {"connected", "disconnected", "mtu"}]
        \union [type : {"write"}, bearer : Bearers, on : BOOLEAN]
        \union UNION {[type : {"tx_complete"}, count : {k}, of : [1 .. k -> Bearers]] :
                        k \in 1 .. QueueSize}

GattsTypeOK ==
    /\ connHandle \in BOOLEAN /\ halted \in BOOLEAN /\ gattsLink \in BOOLEAN
    /\ mtu \in {Default, Large} /\ linkMtu \in {Default, Large}
    /\ connected \in [Bearers -> BOOLEAN]
    /\ pending \in [Bearers -> 0 .. MaxPending]
    /\ closeTasks \subseteq Bearers
    /\ subscribed \subseteq Bearers
    /\ sending \in Seq(Bearers) /\ Len(sending) <= QueueSize
    /\ bleEvents \in Seq(BleEvent) /\ Len(bleEvents) <= MaxBleEvents

GattsInit ==
    /\ connHandle = FALSE
    /\ mtu = Default
    /\ connected = [b \in Bearers |-> FALSE]
    /\ pending = [b \in Bearers |-> 0]
    /\ closeTasks = {}
    /\ halted = FALSE
    /\ gattsLink = FALSE
    /\ linkMtu = Default
    /\ subscribed = {}
    /\ sending = <<>>
    /\ bleEvents = <<>>

------------------------------------------------------------------------------
(* The library's calls. *)

(* A notification the SoftDevice refuses, for want of a subscription, a    *)
(* link or room, stops the program.  The library's share of its room keeps *)
(* the last from happening.                                                *)
SendNotification(b) ==
    /\ connected[b]
    /\ pending[b] < MaxPending
    /\ pending' = [pending EXCEPT ![b] = @ + 1]
    /\ IF gattsLink /\ b \in subscribed /\ Len(sending) < QueueSize
       THEN sending' = Append(sending, b) /\ UNCHANGED halted
       ELSE halted' = TRUE /\ UNCHANGED sending
    /\ UNCHANGED <<mtu, connected, closeTasks, connHandle>>
    /\ UNCHANGED <<gattsLink, linkMtu, subscribed, bleEvents>>

CloseBearer(b) ==
    /\ connected[b]
    /\ closeTasks' = closeTasks \union {b}
    /\ UNCHANGED <<mtu, connected, pending, connHandle, halted, stackVars, bleEvents>>

(* The scheduler runs the task; the peer may have subscribed anew. *)
CloseCallback(b) ==
    /\ b \in closeTasks
    /\ closeTasks' = closeTasks \ {b}
    /\ connected' = [connected EXCEPT ![b] = FALSE]
    /\ UNCHANGED <<mtu, pending, connHandle, halted, stackVars, bleEvents>>

------------------------------------------------------------------------------
(* The SoftDevice and the peer. *)

ReportBle(event) ==
    /\ Len(bleEvents) < MaxBleEvents
    /\ bleEvents' = Append(bleEvents, event)

PeerLinks ==
    /\ ~ gattsLink
    /\ ~ connHandle
    /\ ReportBle([type |-> "connected"])
    /\ gattsLink' = TRUE
    /\ linkMtu' = Default
    /\ subscribed' = {}
    /\ sending' = <<>>
    /\ UNCHANGED <<bearerVars, connHandle, halted>>

PeerGone ==
    /\ gattsLink
    /\ ReportBle([type |-> "disconnected"])
    /\ gattsLink' = FALSE
    /\ UNCHANGED <<bearerVars, connHandle, halted, linkMtu, subscribed, sending>>

Subscribe(b) ==
    /\ gattsLink
    /\ subscribed' = IF b \in subscribed THEN subscribed \ {b} ELSE subscribed \union {b}
    /\ ReportBle([type |-> "write", bearer |-> b, on |-> b \in subscribed'])
    /\ UNCHANGED <<bearerVars, connHandle, halted, gattsLink, linkMtu, sending>>

MtuRequest ==
    /\ gattsLink
    /\ linkMtu = Default
    /\ ReportBle([type |-> "mtu"])
    /\ UNCHANGED <<bearerVars, connHandle, halted, stackVars>>

(* The SoftDevice tells the number of notifications; whose is a history.   *)
NotificationsDone ==
    /\ gattsLink
    /\ \E k \in 1 .. Len(sending) :
          /\ ReportBle([type |-> "tx_complete", count |-> k, of |-> SubSeq(sending, 1, k)])
          /\ sending' = SubSeq(sending, k + 1, Len(sending))
    /\ UNCHANGED <<bearerVars, connHandle, halted, gattsLink, linkMtu, subscribed>>

------------------------------------------------------------------------------
(* Main handles the events: on_ble_evt. *)

HandleBle(type) ==
    /\ bleEvents # <<>>
    /\ Head(bleEvents).type = type
    /\ bleEvents' = Tail(bleEvents)

(* Fault: the MTU of the last link is kept. *)
OnPeerConnectedKeepsMtu ==
    /\ HandleBle("connected")
    /\ connHandle' = TRUE
    /\ UNCHANGED <<bearerVars, halted, stackVars>>

OnPeerConnected ==
    /\ HandleBle("connected")
    /\ mtu' = Default
    /\ connHandle' = TRUE
    /\ UNCHANGED <<connected, pending, closeTasks, halted, stackVars>>

(* The handle is invalidated by the Bluetooth observer, called after this  *)
(* one.                                                                    *)
OnPeerDisconnected ==
    /\ HandleBle("disconnected")
    /\ connected' = [b \in Bearers |-> FALSE]
    /\ connHandle' = FALSE
    /\ UNCHANGED <<mtu, pending, closeTasks, halted, stackVars>>

OnMtuRequest ==
    /\ HandleBle("mtu")
    /\ mtu' \in {Default, Large}
    /\ IF gattsLink
       THEN linkMtu' = mtu' /\ UNCHANGED halted
       ELSE halted' = TRUE /\ UNCHANGED linkMtu
    /\ UNCHANGED <<connected, pending, closeTasks, connHandle>>
    /\ UNCHANGED <<gattsLink, subscribed, sending>>

(* Fault: the count of the last session is kept. *)
OnWriteKeepsCount ==
    /\ HandleBle("write")
    /\ connected' = [connected EXCEPT ![Head(bleEvents).bearer] = Head(bleEvents).on]
    /\ UNCHANGED <<mtu, pending, closeTasks, connHandle, halted, stackVars>>

(* on_open or on_closed, when the subscription changes what the port knows. *)
OnWrite ==
    /\ HandleBle("write")
    /\ LET b  == Head(bleEvents).bearer
           on == Head(bleEvents).on
       IN  /\ connected' = [connected EXCEPT ![b] = on]
           /\ pending' = [pending EXCEPT ![b] = IF on /\ ~ connected[b] THEN 0 ELSE @]
    /\ UNCHANGED <<mtu, closeTasks, connHandle, halted, stackVars>>

(* Every bearer takes the whole count, as far as it has sends pending, and *)
(* calls on_sent for each.                                                 *)
OnTxComplete ==
    /\ HandleBle("tx_complete")
    /\ pending' = [b \in Bearers |->
           IF pending[b] > Head(bleEvents).count THEN pending[b] - Head(bleEvents).count ELSE 0]
    /\ UNCHANGED <<mtu, connected, closeTasks, connHandle, halted, stackVars>>

------------------------------------------------------------------------------

GattsNext ==
    /\ ~ halted
    /\ \/ \E b \in Bearers :
             SendNotification(b) \/ CloseBearer(b) \/ CloseCallback(b) \/ Subscribe(b)
       \/ PeerLinks \/ PeerGone \/ MtuRequest \/ NotificationsDone
       \/ OnPeerConnected \/ OnPeerDisconnected \/ OnMtuRequest \/ OnWrite \/ OnTxComplete

GattsSpec == GattsInit /\ [][GattsNext]_gattsVars

------------------------------------------------------------------------------

Coming(type) == \E i \in 1 .. Len(bleEvents) : bleEvents[i].type = type

Notifications(b, seq) == Cardinality({i \in 1 .. Len(seq) : seq[i] = b})

(* The notifications of a bearer that are reported to main as completed.    *)
Completions(b) ==
    {p \in (1 .. Len(bleEvents)) \X (1 .. QueueSize) :
        /\ bleEvents[p[1]].type = "tx_complete"
        /\ p[2] <= bleEvents[p[1]].count
        /\ bleEvents[p[1]].of[p[2]] = b}

(* The notifications of a bearer whose completion main has still to handle. *)
Unanswered(b) == Notifications(b, sending) + Cardinality(Completions(b))

(* An open bearer gets an on_sent for every send: what it waits for is     *)
(* still with the SoftDevice or reported.  A count left from an earlier    *)
(* session would make the library wait for ever.                           *)
NoSentLost ==
    /\ GattsTypeOK
    /\ \A b \in Bearers :
          connected[b] /\ gattsLink /\ ~ halted /\ ~ Coming("disconnected") =>
              pending[b] <= Unanswered(b)

(* A bearer is open while the peer subscribes, but for what main has still *)
(* to handle.                                                              *)
OpenIsSubscribed ==
    \A b \in Bearers :
        connected[b] /\ ~ Coming("disconnected") =>
            /\ gattsLink
            /\ \/ b \in subscribed
               \/ \E i \in 1 .. Len(bleEvents) : bleEvents[i].type = "write" /\ bleEvents[i].bearer = b

(* What an open bearer may send fits the link, so that no notification is  *)
(* cut short, which is fatal.                                              *)
MtuFits ==
    (\E b \in Bearers : connected[b]) /\ gattsLink /\ ~ Coming("disconnected") => mtu <= linkMtu

(* What main holds of a bearer is what the peer asked for on this link: its *)
(* subscription and the link's MTU, not those of an earlier session.        *)
OpenFitsLink == OpenIsSubscribed /\ MtuFits

(* What the code says and does not keep. *)

(* "blecon_assert(err_code == NRF_SUCCESS)" on a notification and on the   *)
(* reply to the MTU request.                                               *)
SoftDeviceAccepts == ~ halted

(* "pending notifications count": a bearer's on_sent answers a             *)
(* transmission of its own.                                                *)
NoEarlySent ==
    \A b \in Bearers :
        connected[b] /\ gattsLink /\ ~ Coming("disconnected") => pending[b] >= Unanswered(b)
==============================================================================
