------------------------------ MODULE ZephyrGatts ------------------------------
(***************************************************************************)
(* The GATT server's bearers of the Zephyr port                            *)
(* (blecon_zephyr_gatts_bearer.c).  The stack keeps the peer's             *)
(* subscriptions and the state of the link; its receive thread changes     *)
(* them without the event loop's lock and then calls the port, which takes *)
(* it.  Main sends in callbacks of the loop, with the lock: first it asks  *)
(* the stack whether the peer subscribes, then it notifies.                *)
(***************************************************************************)
EXTENDS Naturals, FiniteSets, Sequences, SequencesExt

CONSTANTS Bearers,      (* the characteristics                               *)
          MaxUnsent,    (* BLECON_L2CAP_MAX_QUEUED_TX_BUFFERS, of the library *)
          MaxNotifying  (* bound on the notifications of a bearer in the     *)
                        (* stack, those of earlier sessions included         *)

ASSUME BearerAssumption ==
    /\ IsFiniteSet(Bearers)
    /\ {MaxUnsent, MaxNotifying} \subseteq Nat \ {0}

VARIABLES
    conn,       (* connection.conn: the Blecon connection is kept            *)
    connected,  (* for each bearer: connected                                *)
    closeTasks, (* the bearers whose close_task is queued                    *)
    sendingOn,  (* the bearer main sends on, with the lock, after the stack's *)
                (* answer that the peer subscribes; or none                  *)
    unsent,     (* the library's sends of this session without an on_sent    *)
    failed,     (* the stack refused a notification: a fatal error           *)
    link,       (* the stack's link is up                                    *)
    subscribed, (* the bearers the stack has the peer's subscription for     *)
    notifying,  (* for each bearer, its notifications in the stack           *)
    receiving   (* the calls the receive thread has still to make            *)

portVars  == <<conn, connected, closeTasks, sendingOn>>
stackVars == <<link, subscribed, notifying>>
vars      == <<portVars, unsent, failed, stackVars, receiving>>

Call == [fn : {"changed"}, bearer : Bearers, on : BOOLEAN]
            \union [fn : {"connected", "disconnected"}]

TypeOK ==
    /\ {conn, failed, link} \subseteq BOOLEAN
    /\ connected \in [Bearers -> BOOLEAN]
    /\ closeTasks \subseteq Bearers /\ subscribed \subseteq Bearers
    /\ sendingOn \subseteq Bearers /\ Cardinality(sendingOn) <= 1
    /\ unsent \in [Bearers -> 0 .. MaxUnsent]
    /\ notifying \in [Bearers -> 0 .. MaxNotifying]
    /\ receiving \in Seq(Call)

Init ==
    /\ conn = FALSE
    /\ connected = [b \in Bearers |-> FALSE]
    /\ closeTasks = {}
    /\ sendingOn = {}
    /\ unsent = [b \in Bearers |-> 0]
    /\ failed = FALSE
    /\ link = FALSE
    /\ subscribed = {}
    /\ notifying = [b \in Bearers |-> 0]
    /\ receiving = <<>>

LockFree == sendingOn = {}

------------------------------------------------------------------------------
(* Main, in callbacks of the loop. *)

(* send asks first: without a subscription the buffer is freed and no      *)
(* on_sent will come.                                                      *)
SendAsks(b) ==
    /\ LockFree
    /\ connected[b]
    /\ unsent[b] < MaxUnsent
    /\ notifying[b] < MaxNotifying
    /\ unsent' = [unsent EXCEPT ![b] = @ + 1]
    /\ sendingOn' = IF link /\ b \in subscribed THEN {b} ELSE {}
    /\ UNCHANGED <<conn, connected, closeTasks, failed, stackVars, receiving>>

(* Fault: a notification the stack refuses, and any other, is forgotten. *)
SendForgets ==
    /\ sendingOn # {}
    /\ sendingOn' = {}
    /\ UNCHANGED <<conn, connected, closeTasks, unsent, failed, stackVars, receiving>>

(* Then it notifies, whatever has become of the subscription. *)
SendNotifies ==
    /\ \E b \in sendingOn :
          IF link /\ b \in subscribed
          THEN notifying' = [notifying EXCEPT ![b] = @ + 1] /\ UNCHANGED failed
          ELSE failed' = TRUE /\ UNCHANGED notifying
    /\ sendingOn' = {}
    /\ UNCHANGED <<conn, connected, closeTasks, unsent, link, subscribed, receiving>>

Close(b) ==
    /\ LockFree
    /\ connected[b]
    /\ closeTasks' = closeTasks \union {b}
    /\ UNCHANGED <<conn, connected, sendingOn, unsent, failed, stackVars, receiving>>

(* The peer may have subscribed anew. *)
CloseCallback(b) ==
    /\ LockFree
    /\ b \in closeTasks
    /\ closeTasks' = closeTasks \ {b}
    /\ connected' = [connected EXCEPT ![b] = FALSE]
    /\ UNCHANGED <<conn, sendingOn, unsent, failed, stackVars, receiving>>

------------------------------------------------------------------------------
(* The stack's threads. *)

LinkUp ==
    /\ ~ link
    /\ receiving = <<>>
    /\ link' = TRUE
    /\ receiving' = << [fn |-> "connected"] >>
    /\ UNCHANGED <<portVars, unsent, failed, subscribed, notifying>>

(* The stack forgets the peer's subscriptions and then reports the end. *)
LinkDown ==
    /\ link
    /\ receiving = <<>>
    /\ link' = FALSE
    /\ subscribed' = {}
    /\ receiving' = Append(SetToSeq({[fn |-> "changed", bearer |-> b, on |-> FALSE] : b \in subscribed}),
                           [fn |-> "disconnected"])
    /\ UNCHANGED <<portVars, unsent, failed, notifying>>

(* Fault: the end of a subscription is not reported. *)
CccdWriteUnreported(b) ==
    /\ link
    /\ receiving = <<>>
    /\ conn
    /\ subscribed' = IF b \in subscribed THEN subscribed \ {b} ELSE subscribed \union {b}
    /\ receiving' = IF b \in subscribed' THEN << [fn |-> "changed", bearer |-> b, on |-> TRUE] >>
                                         ELSE <<>>
    /\ UNCHANGED <<portVars, unsent, failed, link, notifying>>

(* cccd_write accepts the Blecon connection's peer; the stack stores the   *)
(* value and calls cccd_changed.                                           *)
CccdWrite(b) ==
    /\ link
    /\ receiving = <<>>
    /\ conn
    /\ subscribed' = IF b \in subscribed THEN subscribed \ {b} ELSE subscribed \union {b}
    /\ receiving' = << [fn |-> "changed", bearer |-> b, on |-> b \in subscribed'] >>
    /\ UNCHANGED <<portVars, unsent, failed, link, notifying>>

Called(fn) ==
    /\ receiving # <<>>
    /\ Head(receiving).fn = fn
    /\ receiving' = Tail(receiving)

OnConnected ==
    /\ Called("connected")
    /\ LockFree
    /\ conn' = TRUE
    /\ UNCHANGED <<connected, closeTasks, sendingOn, unsent, failed, stackVars>>

OnDisconnected ==
    /\ Called("disconnected")
    /\ LockFree
    /\ conn' = FALSE
    /\ UNCHANGED <<connected, closeTasks, sendingOn, unsent, failed, stackVars>>

(* Fault: a bearer that is open stays open. *)
CccdChangedOpens ==
    /\ Called("changed")
    /\ LockFree
    /\ LET b == Head(receiving).bearer IN
          /\ connected' = [connected EXCEPT ![b] = TRUE]
          /\ unsent' = [unsent EXCEPT ![b] = IF connected[b] THEN @ ELSE 0]
    /\ UNCHANGED <<conn, closeTasks, sendingOn, failed, stackVars>>

(* cccd_changed, with the lock: on_open or on_closed, when it is news. *)
CccdChanged ==
    /\ Called("changed")
    /\ LockFree
    /\ LET b  == Head(receiving).bearer
           on == Head(receiving).on
       IN  /\ connected' = [connected EXCEPT ![b] = on]
           /\ unsent' = [unsent EXCEPT ![b] = IF on /\ ~ connected[b] THEN 0 ELSE @]
    /\ UNCHANGED <<conn, closeTasks, sendingOn, failed, stackVars>>

(* notify_done: the stack has transmitted or, after the link, discarded a  *)
(* notification; on_sent, with the lock.                                   *)
NotifyDone(b) ==
    /\ notifying[b] > 0
    /\ LockFree
    /\ notifying' = [notifying EXCEPT ![b] = @ - 1]
    /\ unsent' = [unsent EXCEPT ![b] = IF @ > 0 THEN @ - 1 ELSE 0]
    /\ UNCHANGED <<portVars, failed, link, subscribed, receiving>>

------------------------------------------------------------------------------

Receive == OnConnected \/ OnDisconnected \/ CccdChanged

Next ==
    /\ ~ failed
    /\ \/ \E b \in Bearers : \/ SendAsks(b) \/ Close(b) \/ CloseCallback(b)
                             \/ CccdWrite(b) \/ NotifyDone(b)
       \/ SendNotifies \/ LinkUp \/ LinkDown \/ Receive

Spec == Init /\ [][Next]_vars

(* Main leaves send, and the receive thread gets the lock in its turn. *)
FairSpec == Spec /\ WF_vars(~ failed /\ SendNotifies) /\ SF_vars(~ failed /\ Receive)

------------------------------------------------------------------------------

(* A bearer is open only while the peer subscribes on a live link, but for *)
(* the change the receive thread has on hand.                              *)
OpenIsSubscribed ==
    /\ TypeOK
    /\ \A b \in Bearers : connected[b] =>
          \/ link /\ b \in subscribed
          \/ [fn |-> "changed", bearer |-> b, on |-> FALSE] \in ToSet(receiving)

(* While the peer subscribes, every send the library waits for is in the   *)
(* stack or about to be: on_sent will come.  Those that were dropped       *)
(* belong to a session that ends.                                          *)
SendsAccounted ==
    \A b \in Bearers : connected[b] /\ b \in subscribed /\ ~ failed =>
        unsent[b] <= notifying[b] + (IF b \in sendingOn THEN 1 ELSE 0)

(* The bearers of a lost link close. *)
BearersClose == \A b \in Bearers : (connected[b] /\ ~ link) ~> (~ connected[b] \/ failed)

(* What the code says and does not keep: "A failure here could mean the    *)
(* client has disconnected, [...] So only return here" is said of the      *)
(* question, but the stack may change between the question and the         *)
(* notification.                                                           *)
NotifyAccepted == ~ failed
==============================================================================
