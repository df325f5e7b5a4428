------------------------------ MODULE ZephyrLink ------------------------------
(***************************************************************************)
(* Bluetooth links and L2CAP bearers of the Zephyr port: the connection    *)
(* callbacks of blecon_zephyr_bluetooth.c, blecon_zephyr_l2cap_server.c    *)
(* and blecon_zephyr_l2cap_bearer.c.                                       *)
(*                                                                         *)
(* Three threads meet here.  Bluetooth's receive thread (rx) accepts links *)
(* and channels and hands over data; the system work queue reports the end *)
(* of a link; main sends and closes from event callbacks.  What the code   *)
(* does between lock and unlock is one action (EventLoop shows that the    *)
(* lock excludes); what it does outside the lock is an action of its own.  *)
(***************************************************************************)
EXTENDS Naturals, FiniteSets

CONSTANTS Servers,      (* bearers of registered L2CAP servers             *)
          Clients,      (* bearers of outgoing channels                    *)
          Links,        (* the stack's connection objects                  *)
          NoLink,       (* the null connection                             *)
          PoolSize,     (* l2cap_tx_pool: maximum of connections * channels
                           * queued buffers, fixed by the configuration    *)
          MaxUnsent,    (* bound: sends the library has unanswered on one
                           bearer; what limits them is not in the repository *)
          MaxQueuedRx   (* BLECON_L2CAP_MAX_QUEUED_RX_BUFFERS              *)

Bearers == Servers \union Clients

ASSUME BearerAssumption ==
    /\ Servers \intersect Clients = {}
    /\ IsFiniteSet(Bearers)
    /\ NoLink \notin Links
ASSUME QueueAssumption ==
    /\ PoolSize \in Nat \ {0}
    /\ MaxUnsent \in Nat \ {0}
    /\ MaxQueuedRx \in Nat \ {0}

(* The receive thread's idle state, and no assertion failed. *)
Nothing == "nothing"
Idle    == <<Nothing>>

VARIABLES
    link,     (* per link: free, up, lost (radio), down (told to the stack) *)
    rx,       (* what the receive thread is in the middle of                *)
    btConn,   (* zephyr_bluetooth.connection.conn                           *)
    refs,     (* the references the port holds on each link                 *)
    session,  (* between on_new_connection and on_disconnected              *)
    bearer,   (* the bearers, with the stack's channel of each              *)
    free,     (* buffers left in l2cap_tx_pool                              *)
    failed    (* the assertion that stopped the program                     *)

linkVars == <<link, btConn, refs, session>>
vars     == <<linkVars, rx, bearer, free, failed>>

Bearer == [conn    : Links \union {NoLink},  (* l2cap_bearer.conn            *)
           ops     : BOOLEAN,     (* the channel has our operations          *)
           chan    : {"none", "connecting", "open", "closing", "closed"},
           on      : Links \union {NoLink},  (* the link of the channel      *)
           credits : 0 .. MaxQueuedRx,       (* what the peer may send       *)
           txq     : 0 .. PoolSize,          (* pool buffers in the stack    *)
           sentDue : 0 .. MaxUnsent,         (* calls of sent to come        *)
           open    : BOOLEAN,     (* between on_open and on_closed           *)
           unsent  : 0 .. MaxUnsent]         (* given to send, no on_sent    *)

TypeOK ==
    /\ link \in [Links -> {"free", "up", "lost", "down"}]
    /\ btConn \in Links \union {NoLink}
    /\ refs \in [Links -> 0 .. 1]
    /\ session \in BOOLEAN
    /\ bearer \in [Bearers -> Bearer]
    /\ free \in 0 .. PoolSize
    /\ failed \in {Nothing, "tx_pool", "link_params", "connect"}

Init ==
    /\ link = [c \in Links |-> "free"]
    /\ rx = Idle
    /\ btConn = NoLink
    /\ refs = [c \in Links |-> 0]
    /\ session = FALSE
    /\ bearer = [b \in Bearers |->
                   [conn |-> NoLink, ops |-> FALSE, chan |-> "none", on |-> NoLink,
                    credits |-> 0, txq |-> 0, sentDue |-> 0, open |-> FALSE,
                    unsent |-> 0]]
    /\ free = PoolSize
    /\ failed = Nothing

------------------------------------------------------------------------------
(* Links. *)

(* The controller reports a link.  A link to one of our advertising sets   *)
(* comes up only outside a session: the port keeps a single connection.    *)
LinkUp(c, ours) ==
    /\ rx = Idle
    /\ link[c] = "free"
    /\ ours => ~ session
    /\ link' = [link EXCEPT ![c] = "up"]
    /\ rx' = IF ours THEN <<"connected", c>> ELSE Idle
    /\ UNCHANGED <<btConn, refs, session, bearer, free, failed>>

(* on_connected: tunes the link and reports it.  The controller refuses to *)
(* tune a link that was lost meanwhile, which the port asserts against.    *)
OnConnected(c) ==
    /\ rx = <<"connected", c>>
    /\ rx' = Idle
    /\ \/ /\ link[c] = "up"
          /\ btConn' = c
          /\ refs' = [refs EXCEPT ![c] = @ + 1]
          /\ session' = TRUE
          /\ UNCHANGED failed
       \/ /\ link[c] = "lost"
          /\ failed' = "link_params"
          /\ UNCHANGED <<btConn, refs, session>>
    /\ UNCHANGED <<link, bearer, free>>

(* The radio link ends: the peer, the distance, connection_disconnect. *)
LinkLost(c) ==
    /\ link[c] = "up"
    /\ link' = [link EXCEPT ![c] = "lost"]
    /\ UNCHANGED <<btConn, refs, session, rx, bearer, free, failed>>

(* The receive thread hears of it and leaves the rest to the work queue. *)
LinkDown(c) ==
    /\ rx = Idle
    /\ link[c] = "lost"
    /\ link' = [link EXCEPT ![c] = "down"]
    /\ UNCHANGED <<btConn, refs, session, rx, bearer, free, failed>>

(* Fault: the reference taken on the link is not given back. *)
OnDisconnectedKeepsRef(c) ==
    /\ link[c] = "down"
    /\ \A b \in Bearers : bearer[b].on # c
    /\ link' = [link EXCEPT ![c] = "free"]
    /\ btConn' = IF c = btConn THEN NoLink ELSE btConn
    /\ session' = (session /\ c # btConn)
    /\ UNCHANGED <<refs, rx, bearer, free, failed>>

(* on_disconnected, after the channels of the link are gone. *)
OnDisconnected(c) ==
    /\ link[c] = "down"
    /\ \A b \in Bearers : bearer[b].on # c
    /\ link' = [link EXCEPT ![c] = "free"]
    /\ IF c = btConn
       THEN /\ refs' = [refs EXCEPT ![c] = @ - 1]
            /\ btConn' = NoLink
            /\ session' = FALSE
       ELSE UNCHANGED <<refs, btConn, session>>
    /\ UNCHANGED <<rx, bearer, free, failed>>

------------------------------------------------------------------------------
(* Opening channels. *)

(* blecon_zephyr_l2cap_bearer_connect: takes the link and wipes the        *)
(* channel structure, the credits in it included.                          *)
Connect(b, c) ==
    [bearer EXCEPT ![b] = [@ EXCEPT !.conn = c, !.ops = TRUE, !.chan = "connecting",
                                    !.on = c, !.credits = 0]]

(* A peer asks for a channel; accept first looks at the bearer, unlocked.  *)
(* A taken bearer is refused with -ENOMEM.                                 *)
AcceptBegin(b, c) ==
    /\ rx = Idle
    /\ b \in Servers
    /\ link[c] = "up"
    /\ bearer[b].conn = NoLink
    /\ rx' = <<"accept", b, c>>
    /\ UNCHANGED <<linkVars, bearer, free, failed>>

(* ... then, under the lock, whether the link is the session's (or -EIO). *)
AcceptCheck(b, c) ==
    /\ rx = <<"accept", b, c>>
    /\ rx' = IF c = btConn THEN <<"accepted", b, c>> ELSE Idle
    /\ UNCHANGED <<linkVars, bearer, free, failed>>

(* ... then takes it, again without the lock, *)
ServerAccept(b, c) ==
    /\ rx = <<"accepted", b, c>>
    /\ bearer' = Connect(b, c)
    /\ rx' = <<"credits", b>>
    /\ UNCHANGED <<linkVars, free, failed>>

(* and gives the peer its credits. *)
ServerCredits(b) ==
    /\ rx = <<"credits", b>>
    /\ bearer' = [bearer EXCEPT ![b].credits = @ + MaxQueuedRx]
    /\ rx' = <<"open", b>>
    /\ UNCHANGED <<linkVars, free, failed>>

(* init_client on the session's link: the credits given first go into the  *)
(* channel structure that Connect then wipes.  The stack refuses a channel *)
(* on a link that was lost meanwhile, which the port asserts against.      *)
InitClient(b, c) ==
    /\ b \in Clients
    /\ bearer[b].chan = "none"
    /\ c = btConn
    /\ \/ /\ link[c] = "up"
          /\ bearer' = Connect(b, c)
          /\ UNCHANGED failed
       \/ /\ link[c] # "up"
          /\ failed' = "connect"
          /\ UNCHANGED bearer
    /\ UNCHANGED <<linkVars, rx, free>>

(* The peer agrees to init_client's request. *)
ClientAnswer(b) ==
    /\ rx = Idle
    /\ bearer[b].chan = "connecting"
    /\ link[bearer[b].on] = "up"
    /\ rx' = <<"open", b>>
    /\ UNCHANGED <<linkVars, bearer, free, failed>>

(* connected: on_open. *)
OnOpen(b) ==
    /\ rx = <<"open", b>>
    /\ rx' = Idle
    /\ bearer' = [bearer EXCEPT ![b] =
        [@ EXCEPT !.chan = IF bearer[b].chan = "connecting" THEN "open"
                           ELSE bearer[b].chan,
                  !.open = bearer[b].ops,
                  !.unsent = 0]]
    /\ UNCHANGED <<linkVars, free, failed>>

------------------------------------------------------------------------------
(* Data. *)

(* The channel can carry data, as far as the stack knows. *)
Carries(b) == bearer[b].chan = "open" /\ link[bearer[b].on] = "up"

(* The channel takes a buffer from the library, which it will answer. *)
Queued(b) == [bearer EXCEPT ![b].txq = @ + 1, ![b].sentDue = @ + 1, ![b].unsent = @ + 1]

(* A buffer the channel has refused is not answered before it closes. *)
Refused(b) == [bearer EXCEPT ![b].unsent = @ + 1]

(* The buffers in the stack's hands, counted for each bearer. *)
InUse == {s \in Bearers \X (1 .. PoolSize) : s[2] <= bearer[s[1]].txq}

(* Fault: the buffer of a refused send is not given back. *)
SendLeaks(b) ==
    /\ bearer[b].open
    /\ bearer[b].conn # NoLink
    /\ bearer[b].unsent < MaxUnsent
    /\ \/ /\ free = 0
          /\ failed' = "tx_pool"
          /\ UNCHANGED <<bearer, free>>
       \/ /\ free > 0
          /\ free' = free - 1
          /\ bearer' = IF Carries(b) THEN Queued(b) ELSE Refused(b)
          /\ UNCHANGED failed
    /\ UNCHANGED <<linkVars, rx>>

(* send: a buffer of the pool is handed to the channel, or given back when *)
(* the channel is no longer connected.  Without a buffer the program stops *)
(* ("we just crash with the assert below"); MaxUnsent is the bound.        *)
Send(b) ==
    /\ bearer[b].open
    /\ bearer[b].conn # NoLink
    /\ bearer[b].unsent < MaxUnsent
    /\ \/ /\ free = 0
          /\ failed' = "tx_pool"
          /\ UNCHANGED <<bearer, free>>
       \/ /\ free > 0
          /\ Carries(b)
          /\ free' = free - 1
          /\ bearer' = Queued(b)
          /\ UNCHANGED failed
       \/ /\ free > 0
          /\ ~ Carries(b)
          /\ bearer' = Refused(b)
          /\ UNCHANGED <<free, failed>>
    /\ UNCHANGED <<linkVars, rx>>

(* The stack gives a buffer back to the pool.  Nothing orders this with    *)
(* the call of sent for it: the library may send again before or after.    *)
Transmit(b) ==
    /\ Carries(b)
    /\ bearer[b].txq > 0
    /\ free' = free + 1
    /\ bearer' = [bearer EXCEPT ![b].txq = @ - 1]
    /\ UNCHANGED <<linkVars, rx, failed>>

(* sent: on_sent. *)
OnSent(b) ==
    /\ rx = Idle
    /\ bearer[b].chan \in {"open", "closing"}
    /\ bearer[b].sentDue > 0
    /\ bearer' = [bearer EXCEPT ![b].sentDue = @ - 1,
                                ![b].unsent = IF bearer[b].ops THEN @ - 1 ELSE @]
    /\ UNCHANGED <<linkVars, rx, free, failed>>

(* seg_recv: on_received under the lock ... *)
OnReceived(b) ==
    /\ rx = Idle
    /\ Carries(b)
    /\ bearer[b].ops
    /\ bearer[b].credits > 0
    /\ bearer' = [bearer EXCEPT ![b].credits = @ - 1]
    /\ rx' = <<"received", b>>
    /\ UNCHANGED <<linkVars, free, failed>>

(* Fault: no credit follows a received buffer. *)
GiveNoCredit(b) ==
    /\ rx = <<"received", b>>
    /\ rx' = Idle
    /\ UNCHANGED <<linkVars, bearer, free, failed>>

(* ... and a credit for the sender after it. *)
GiveCredit(b) ==
    /\ rx = <<"received", b>>
    /\ bearer' = [bearer EXCEPT ![b].credits = @ + 1]
    /\ rx' = Idle
    /\ UNCHANGED <<linkVars, free, failed>>

------------------------------------------------------------------------------
(* Closing channels. *)

(* close: asks the peer; the bearer is free when disconnected is called. *)
Close(b) ==
    /\ bearer[b].open
    /\ bearer[b].conn # NoLink
    /\ bearer[b].chan = "open"
    /\ bearer' = [bearer EXCEPT ![b].chan = "closing"]
    /\ UNCHANGED <<linkVars, rx, free, failed>>

(* cleanup of a client bearer: the stack's callbacks stop. *)
Cleanup(b) ==
    /\ b \in Clients
    /\ bearer[b].ops
    /\ bearer' = [bearer EXCEPT ![b] =
          [@ EXCEPT !.chan = IF /\ bearer[b].conn # NoLink
                                /\ bearer[b].chan \in {"connecting", "open"}
                             THEN "closing" ELSE bearer[b].chan,
                    !.conn = NoLink, !.ops = FALSE, !.open = FALSE]]
    /\ UNCHANGED <<linkVars, rx, free, failed>>

(* Fault: the bearer is reported closed and keeps its link. *)
DisconnectedKeepsLink(r) == IF r.ops THEN [r EXCEPT !.open = FALSE, !.unsent = 0] ELSE r

(* disconnected: the bearer lets go of the link, on_closed. *)
Disconnected(r) ==
    IF r.ops THEN [r EXCEPT !.conn = NoLink, !.open = FALSE, !.unsent = 0] ELSE r

(* The stack forgets a channel and frees what was queued in it. *)
Forgotten(r) == [r EXCEPT !.chan = "none", !.on = NoLink, !.txq = 0, !.sentDue = 0]

(* The peer closes the channel or answers our request, on a link that is up. *)
ChannelClosed(b) ==
    /\ rx = Idle
    /\ bearer[b].chan \in {"open", "closing"}
    /\ link[bearer[b].on] = "up"
    /\ bearer' = [bearer EXCEPT ![b] = Forgotten(Disconnected(@))]
    /\ free' = free + bearer[b].txq
    /\ UNCHANGED <<linkVars, rx, failed>>

(* The link is down: the work queue closes its channels ... *)
ChannelDown(b) ==
    /\ bearer[b].chan \in {"connecting", "open", "closing"}
    /\ link[bearer[b].on] = "down"
    /\ bearer' = [bearer EXCEPT ![b] = [Disconnected(@) EXCEPT !.chan = "closed"]]
    /\ UNCHANGED <<linkVars, rx, free, failed>>

(* ... and frees their buffers. *)
ChannelFreed(b) ==
    /\ bearer[b].chan = "closed"
    /\ bearer' = [bearer EXCEPT ![b] = Forgotten(@)]
    /\ free' = free + bearer[b].txq
    /\ UNCHANGED <<linkVars, rx, failed>>

------------------------------------------------------------------------------

RxStep ==
    \/ \E c \in Links : OnConnected(c) \/ LinkDown(c)
    \/ \E b \in Bearers, c \in Links : AcceptCheck(b, c) \/ ServerAccept(b, c)
    \/ \E b \in Bearers : ServerCredits(b) \/ OnOpen(b) \/ GiveCredit(b)

WorkQueueStep ==
    \/ \E b \in Bearers : ChannelDown(b) \/ ChannelFreed(b)
    \/ \E c \in Links : OnDisconnected(c)

(* A failed assertion ends the program. *)
Next ==
    /\ failed = Nothing
    /\ \/ RxStep
       \/ WorkQueueStep
       \/ \E c \in Links : LinkLost(c) \/ \E ours \in BOOLEAN : LinkUp(c, ours)
       \/ \E b \in Bearers, c \in Links : AcceptBegin(b, c) \/ InitClient(b, c)
       \/ \E b \in Bearers :
             \/ ClientAnswer(b) \/ Send(b) \/ Transmit(b) \/ OnSent(b)
             \/ OnReceived(b) \/ Close(b) \/ Cleanup(b) \/ ChannelClosed(b)

Spec == Init /\ [][Next]_vars

(* The receive thread and the work queue finish what they began, and the   *)
(* report of a lost link is not passed over by newer events for ever.      *)
Fairness ==
    /\ WF_vars(failed = Nothing /\ RxStep)
    /\ \A c \in Links : /\ SF_vars(failed = Nothing /\ LinkDown(c))
                        /\ WF_vars(failed = Nothing /\ OnDisconnected(c))
    /\ \A b \in Bearers : /\ WF_vars(failed = Nothing /\ ChannelDown(b))
                          /\ WF_vars(failed = Nothing /\ ChannelFreed(b))

FairSpec == Spec /\ Fairness

------------------------------------------------------------------------------

(* The transmit pool is whole: every buffer is free or in the stack's      *)
(* hands for a bearer that still has its channel.  A send that is refused, *)
(* a channel that closes and a bearer that is cleaned up with buffers      *)
(* queued lose none and give none back twice (net_buf_unref in             *)
(* blecon_zephyr_l2cap_bearer_send).                                       *)
PoolConserved ==
    /\ TypeOK
    /\ free + Cardinality(InUse) = PoolSize
    /\ \A b \in Bearers : bearer[b].txq > 0 => bearer[b].chan # "none"

(* Nothing is lost from the flow control: what the peer may send and what  *)
(* is being received add up to the credits given when the channel opened.  *)
CreditsKept(B) ==
    \A b \in B : bearer[b].chan = "open" =>
        bearer[b].credits + (IF rx = <<"received", b>> THEN 1 ELSE 0) = MaxQueuedRx
ServerCreditsKept == CreditsKept(Servers)

(* The library sees open bearers only between on_new_connection and        *)
(* on_disconnected, and on the link of that session.                       *)
OpenInSession ==
    \A b \in Bearers : bearer[b].open =>
        session /\ bearer[b].conn = btConn /\ bearer[b].on = btConn

(* A bearer that is taken has a channel which will give it back: accept    *)
(* never refuses peers because of a channel that does not exist.           *)
TakenHasChannel ==
    \A b \in Bearers : bearer[b].conn # NoLink =>
        /\ bearer[b].on = bearer[b].conn
        /\ bearer[b].ops
        /\ bearer[b].chan \in {"connecting", "open", "closing"}

(* The port holds one reference, on the link of the session. *)
OneReference ==
    /\ session <=> btConn # NoLink
    /\ \A c \in Links : refs[c] = (IF c = btConn THEN 1 ELSE 0)

(* What belongs to the session is its own and is given back: the reference *)
(* kept on its link (on_connected, on_disconnected) and the open bearers.  *)
SessionHolds == OneReference /\ OpenInSession

(* When its link is lost a session ends, unless the program had to stop. *)
SessionEnds ==
    \A c \in Links : (link[c] = "lost" /\ c = btConn) ~>
        (btConn # c \/ failed # Nothing)

(* When its link is lost a bearer is freed, so that the next peer is not   *)
(* refused.                                                                *)
BearersFreed ==
    \A b \in Bearers, c \in Links : (bearer[b].conn = c /\ link[c] = "lost") ~>
        (bearer[b].conn # c \/ failed # Nothing)

(* A lost link leaves neither session nor bearers behind. *)
LostLinkFreed == SessionEnds /\ BearersFreed

(* The comment "Give initial credits" in init_client: the peer of a client *)
(* bearer may send as much as that of a server.                            *)
ClientCreditsKept == CreditsKept(Clients)

(* The assertions in on_connected, on the calls that tune the link, hold. *)
LinkTuned == failed # "link_params"

(* The assertion in init_client, on the channel it asks for, holds. *)
ConnectAccepted == failed # "connect"

(* The assertion in send, on the buffer it takes from the pool, holds. *)
PoolSuffices == failed # "tx_pool"
==============================================================================
