------------------------------- MODULE Nrf5L2cap -------------------------------
(***************************************************************************)
(* An L2CAP server of the nRF5 port (blecon_nrf5_l2cap_server.c) and the   *)
(* SoftDevice's channel underneath.  Everything of the port runs on main:  *)
(* the library's calls and the SoftDevice's events, which are queued, so   *)
(* that the channel may be further on, or gone, when an event is handled.  *)
(*                                                                         *)
(* The three queues of the port hold the buffers the SoftDevice works on;  *)
(* it gives them back by events and the port pops the oldest one.  A       *)
(* buffer needs one credit, for mtu() keeps it within one PDU.             *)
(***************************************************************************)
EXTENDS Naturals, FiniteSets, Sequences, SequencesExt

CONSTANTS Buffers,     (* memory for buffers; bounds the leaks               *)
          TxBufMax,    (* BLECON_NRF5_BLUETOOTH_L2CAP_TX_BUF_MAX             *)
          RxBufMax,    (* BLECON_NRF5_BLUETOOTH_L2CAP_RX_BUF_MAX             *)
          MaxUnsent,   (* BLECON_L2CAP_MAX_QUEUED_TX_BUFFERS, of the library *)
          MaxCredits,  (* bound on the credits a peer gives                  *)
          MaxEvents,   (* bound on the events not yet handled                *)
          EndReports   (* how the SoftDevice reports an open channel when    *)
                       (* its link ends: "released" before the end of the    *)
                       (* link, or "silent", by the end of the link alone    *)

ASSUME BufferAssumption ==
    /\ IsFiniteSet(Buffers)
    /\ {TxBufMax, RxBufMax, MaxUnsent, MaxCredits, MaxEvents} \subseteq Nat \ {0}
    /\ EndReports \subseteq {"released", "silent"}

NoFailure == "nothing"

VARIABLES
    handle,     (* connection.handle is valid                                *)
    cid,        (* l2cap_cid is valid                                        *)
    open,       (* between on_open and on_closed                             *)
    closing,
    credits,    (* tx_params.credits                                         *)
    pendingTx,  (* pending_tx_bufs                                           *)
    txBufs,     (* tx_bufs                                                   *)
    rxBufs,     (* rx_bufs                                                   *)
    unsent,     (* buffers of this channel the library has no on_sent of     *)
    failure,    (* the assertion or fatal error that stopped the program     *)
    sdLink,     (* the SoftDevice's link: none, up, ending                   *)
    chan,       (* its channel: none, requested, setup, open, releasing      *)
    sdTx, sdRx, (* the buffers it sends from and receives into               *)
    events      (* its events for main                                       *)

portVars  == <<cid, open, closing, credits, pendingTx, txBufs, rxBufs, unsent, failure>>
sdVars    == <<sdLink, chan, sdTx, sdRx>>
l2capVars == <<portVars, handle, sdVars, events>>

Event == {"request", "refused", "tx", "credit", "released", "disconnected"} \X {0}
            \union {"setup"} \X (0 .. MaxCredits)
            \union {"rx"} \X Buffers

L2capTypeOK ==
    /\ {handle, cid, open, closing} \subseteq BOOLEAN
    /\ credits \in 0 .. MaxCredits
    /\ \A q \in {pendingTx, txBufs, rxBufs, sdTx, sdRx} : q \in Seq(Buffers)
    /\ unsent \in 0 .. MaxUnsent
    /\ failure \in {NoFailure, "flow_control", "tx_refused", "rx_refused",
                    "tx_empty", "rx_empty", "rx_buffer"}
    /\ sdLink \in {"none", "up", "ending"}
    /\ chan \in {"none", "requested", "setup", "open", "releasing"}
    /\ Len(sdTx) <= TxBufMax /\ Len(sdRx) <= RxBufMax
    /\ events \in Seq(Event) /\ Len(events) <= MaxEvents

L2capInit ==
    /\ handle = FALSE /\ cid = FALSE /\ open = FALSE /\ closing = FALSE
    /\ credits = 0
    /\ pendingTx = <<>> /\ txBufs = <<>> /\ rxBufs = <<>>
    /\ unsent = 0
    /\ failure = NoFailure
    /\ sdLink = "none" /\ chan = "none"
    /\ sdTx = <<>> /\ sdRx = <<>>
    /\ events = <<>>

(* blecon_buffer_queue_alloc: memory that is in none of the queues. *)
Free == Buffers \ (ToSet(pendingTx) \union ToSet(txBufs) \union ToSet(rxBufs))

Smaller(a, b) == IF a <= b THEN a ELSE b

------------------------------------------------------------------------------
(* What a call on the channel may stop the program with: once the channel  *)
(* is gone the SoftDevice refuses it, with NRF_ERROR_INVALID_STATE, which  *)
(* the port expects, or with an error it asserts against.                  *)
IfGone(assertion) == IF chan = "none" THEN {NoFailure, assertion} ELSE {NoFailure}

(* try_send_or_close with queue q, n credits and the wish to close: hands  *)
(* over what the credits allow; what the SoftDevice refuses, being full or *)
(* without the channel, stays in tx_bufs and makes the bearer close; once  *)
(* nothing is pending a closing bearer gives up channel and link.          *)
TrySendOrClose(q, n, close) ==
    LET sent     == Smaller(Len(q), n)
        accepted == IF chan = "open" THEN Smaller(sent, TxBufMax - Len(sdTx)) ELSE 0
    IN  /\ pendingTx' = SubSeq(q, sent + 1, Len(q))
        /\ credits' = n - sent
        /\ txBufs' = txBufs \o SubSeq(q, 1, sent)
        /\ sdTx' = sdTx \o SubSeq(q, 1, accepted)
        /\ closing' = (close \/ accepted < sent)
        /\ failure' \in IF accepted < sent THEN IfGone("tx_refused") ELSE {NoFailure}
        /\ IF closing' /\ pendingTx' = <<>> /\ handle
           THEN /\ sdLink' = IF sdLink = "up" THEN "ending" ELSE sdLink
                /\ chan' = IF chan = "open" THEN "releasing" ELSE chan
           ELSE UNCHANGED <<sdLink, chan>>
        /\ UNCHANGED sdRx

(* The library's calls. *)

(* Fault: a buffer is not queued when others wait already. *)
SendBehind ==
    /\ open
    /\ unsent < MaxUnsent
    /\ \E b \in Free :
          TrySendOrClose(IF pendingTx = <<>> THEN <<b>> ELSE pendingTx, credits, closing)
    /\ unsent' = unsent + 1
    /\ UNCHANGED <<handle, cid, open, rxBufs, events>>

Send ==
    /\ open
    /\ unsent < MaxUnsent
    /\ \E b \in Free : TrySendOrClose(Append(pendingTx, b), credits, closing)
    /\ unsent' = unsent + 1
    /\ UNCHANGED <<handle, cid, open, rxBufs, events>>

Close ==
    /\ open
    /\ ~ closing
    /\ TrySendOrClose(pendingTx, credits, TRUE)
    /\ UNCHANGED <<handle, cid, open, rxBufs, unsent, events>>

------------------------------------------------------------------------------
(* The SoftDevice and the peer. *)

Emit(new) ==
    /\ Len(events) + Len(new) <= MaxEvents
    /\ events' = events \o new

(* A peer connects; the connected event comes before all others. *)
LinkUp ==
    /\ sdLink = "none"
    /\ ~ handle
    /\ sdLink' = "up"
    /\ handle' = TRUE
    /\ UNCHANGED <<portVars, chan, sdTx, sdRx, events>>

ChannelEnds ==
    /\ chan' = "none"
    /\ sdTx' = <<>>
    /\ sdRx' = <<>>

(* The link ends, and its channel with it. *)
LinkEnds ==
    /\ sdLink # "none"
    /\ sdLink' = "none"
    /\ ChannelEnds
    /\ \E report \in EndReports :
          IF report = "released" /\ chan \in {"open", "releasing"}
          THEN Emit(<< <<"released", 0>>, <<"disconnected", 0>> >>)
          ELSE Emit(<< <<"disconnected", 0>> >>)
    /\ UNCHANGED <<portVars, handle>>

(* The peer closes its channel, or the release is done. *)
Released ==
    /\ sdLink # "none"
    /\ chan \in {"open", "releasing"}
    /\ ChannelEnds
    /\ Emit(<< <<"released", 0>> >>)
    /\ UNCHANGED <<portVars, handle, sdLink>>

PeerRequests ==
    /\ sdLink = "up"
    /\ chan = "none"
    /\ chan' = "requested"
    /\ Emit(<< <<"request", 0>> >>)
    /\ UNCHANGED <<portVars, handle, sdLink, sdTx, sdRx>>

(* The channel is set up, with the peer's first credits, or refused. *)
ChannelSetUp ==
    /\ chan = "setup"
    /\ \/ /\ chan' = "open"
          /\ \E n \in 0 .. MaxCredits : Emit(<< <<"setup", n>> >>)
          /\ UNCHANGED <<sdTx, sdRx>>
       \/ /\ ChannelEnds
          /\ Emit(<< <<"refused", 0>> >>)
    /\ UNCHANGED <<portVars, handle, sdLink>>

Transmitted ==
    /\ chan = "open"
    /\ sdTx # <<>>
    /\ sdTx' = Tail(sdTx)
    /\ Emit(<< <<"tx", 0>> >>)
    /\ UNCHANGED <<portVars, handle, sdLink, chan, sdRx>>

Received ==
    /\ chan = "open"
    /\ sdRx # <<>>
    /\ sdRx' = Tail(sdRx)
    /\ Emit(<< <<"rx", Head(sdRx)>> >>)
    /\ UNCHANGED <<portVars, handle, sdLink, chan, sdTx>>

(* The peer gives a credit; the credits of sent buffers come back with     *)
(* their tx events.                                                        *)
PeerGivesCredit ==
    /\ chan = "open"
    /\ credits + Len(txBufs) < MaxCredits
    /\ \A i \in 1 .. Len(events) : events[i][1] \notin {"setup", "credit"}
    /\ Emit(<< <<"credit", 0>> >>)
    /\ UNCHANGED <<portVars, handle, sdVars>>

------------------------------------------------------------------------------
(* Main handles the events: on_ble_evt.  Those of a channel are ignored    *)
(* once its cid is invalid.                                                *)

HandleEvent(type) ==
    /\ events # <<>>
    /\ Head(events)[1] = type
    /\ events' = Tail(events)

(* setup_request: takes the cid and gives the SoftDevice a buffer to       *)
(* receive into; a request that has become void leaves the cid taken.  One *)
(* for another PSM, or while the cid is taken, is refused and changes      *)
(* nothing of the port: PeerRequests makes none.                           *)
OnSetupRequest ==
    /\ HandleEvent("request")
    /\ ~ cid
    /\ cid' = TRUE
    /\ IF chan = "requested"
       THEN \E b \in Free :
               /\ chan' = "setup"
               /\ sdRx' = <<b>>
               /\ rxBufs' = Append(rxBufs, b)
       ELSE UNCHANGED <<chan, sdRx, rxBufs>>
    /\ UNCHANGED <<open, closing, credits, pendingTx, txBufs, unsent, failure, handle,
                   sdLink, sdTx>>

(* Fault: a refused channel keeps its cid. *)
OnSetupRefusedIgnored ==
    /\ HandleEvent("refused")
    /\ UNCHANGED <<portVars, handle, sdVars>>

OnSetupRefused ==
    /\ HandleEvent("refused")
    /\ cid' = FALSE
    /\ UNCHANGED <<open, closing, credits, pendingTx, txBufs, rxBufs, unsent, failure,
                   handle, sdVars>>

(* Hands the SoftDevice buffers until queue q has n of them. *)
ReceiveUpTo(q, n) ==
    IF chan # "open" \/ Len(q) >= n
    THEN /\ rxBufs' = q /\ UNCHANGED sdRx
         /\ failure' \in IF Len(q) < n THEN IfGone("rx_refused") ELSE {NoFailure}
    ELSE \E more \in {s \in [1 .. n - Len(q) -> Free] : IsInjective(s)} :
            /\ rxBufs' = q \o more
            /\ sdRx' = sdRx \o more
            /\ failure' = NoFailure

(* Fault: one buffer less than the peer may fill. *)
RxSetupOneLess(q) == ReceiveUpTo(q, RxBufMax - 1)

(* ch_rx_setup: fills the queue up to its maximum. *)
RxSetup(q) == ReceiveUpTo(q, RxBufMax)

(* ch_setup: the credits, buffers to receive into, on_open.  The assertion *)
(* on the flow control fails when the channel is gone already.             *)
OnSetup ==
    /\ HandleEvent("setup")
    /\ cid
    /\ IF chan # "open"
       THEN failure' = "flow_control" /\ UNCHANGED <<open, closing, credits, unsent, rxBufs, sdRx>>
       ELSE /\ RxSetup(rxBufs)
            /\ credits' = Head(events)[2]
            /\ open' = TRUE
            /\ closing' = FALSE
            /\ unsent' = 0
    /\ UNCHANGED <<cid, pendingTx, txBufs, handle, sdLink, chan, sdTx>>

(* Fault: the youngest transmit buffer is freed. *)
OnTxYoungest ==
    /\ HandleEvent("tx")
    /\ cid
    /\ IF txBufs = <<>>
       THEN failure' = "tx_empty" /\ UNCHANGED <<txBufs, credits, unsent>>
       ELSE /\ txBufs' = Front(txBufs)
            /\ credits' = credits + 1
            /\ unsent' = IF unsent = 0 THEN 0 ELSE unsent - 1
            /\ UNCHANGED failure
    /\ UNCHANGED <<cid, open, closing, pendingTx, rxBufs, handle, sdVars>>

(* ch_tx: frees the oldest buffer, reclaims its credit, on_sent, even for  *)
(* a buffer of an earlier channel, which the library does not wait for.    *)
OnTx ==
    /\ HandleEvent("tx")
    /\ cid
    /\ IF txBufs = <<>>
       THEN failure' = "tx_empty" /\ UNCHANGED <<txBufs, credits, unsent>>
       ELSE /\ txBufs' = Tail(txBufs)
            /\ credits' = credits + 1
            /\ unsent' = IF unsent = 0 THEN 0 ELSE unsent - 1
            /\ UNCHANGED failure
    /\ UNCHANGED <<cid, open, closing, pendingTx, rxBufs, handle, sdVars>>

(* ch_rx: the oldest buffer must be the one received; on_received. *)
OnRx ==
    /\ HandleEvent("rx")
    /\ cid
    /\ IF rxBufs # <<>> /\ Head(rxBufs) = Head(events)[2]
       THEN RxSetup(Tail(rxBufs))
       ELSE /\ failure' = IF rxBufs = <<>> THEN "rx_empty" ELSE "rx_buffer"
            /\ UNCHANGED <<rxBufs, sdRx>>
    /\ UNCHANGED <<cid, open, closing, credits, pendingTx, txBufs, unsent, handle,
                   sdLink, chan, sdTx>>

OnCredits ==
    /\ HandleEvent("credit")
    /\ cid
    /\ TrySendOrClose(pendingTx, credits + 1, closing)
    /\ UNCHANGED <<cid, open, rxBufs, unsent, handle>>

(* Fault: the bearer is not marked closed. *)
OnReleasedKeepsOpen ==
    /\ HandleEvent("released")
    /\ cid
    /\ cid' = FALSE
    /\ pendingTx' = <<>> /\ txBufs' = <<>> /\ rxBufs' = <<>>
    /\ UNCHANGED <<open, closing, credits, unsent, failure, handle, sdVars>>

(* ch_released: all buffers are freed, on_closed. *)
OnReleased ==
    /\ HandleEvent("released")
    /\ cid
    /\ cid' = FALSE
    /\ pendingTx' = <<>> /\ txBufs' = <<>> /\ rxBufs' = <<>>
    /\ open' = FALSE
    /\ UNCHANGED <<closing, credits, unsent, failure, handle, sdVars>>

(* The link is gone: on_closed; the buffers stay in the queues.  The       *)
(* handle is invalidated by the Bluetooth observer, called after this one. *)
OnLinkGone ==
    /\ HandleEvent("disconnected")
    /\ handle' = FALSE
    /\ cid' = FALSE
    /\ open' = FALSE
    /\ closing' = FALSE
    /\ UNCHANGED <<credits, pendingTx, txBufs, rxBufs, unsent, failure, sdVars>>

Ignored ==
    /\ ~ cid
    /\ events # <<>>
    /\ Head(events)[1] \notin {"request", "disconnected"}
    /\ events' = Tail(events)
    /\ UNCHANGED <<portVars, handle, sdVars>>

------------------------------------------------------------------------------

MainHandles ==
    \/ OnSetupRequest \/ OnSetupRefused \/ OnSetup \/ OnTx \/ OnRx \/ OnCredits
    \/ OnReleased \/ OnLinkGone \/ Ignored

SoftDeviceStep ==
    \/ LinkUp \/ LinkEnds \/ Released \/ PeerRequests \/ ChannelSetUp
    \/ Transmitted \/ Received \/ PeerGivesCredit

L2capNext == failure = NoFailure /\ (Send \/ Close \/ MainHandles \/ SoftDeviceStep)

L2capSpec == L2capInit /\ [][L2capNext]_l2capVars

(* Main handles the events; the SoftDevice transmits what it was given and *)
(* ends a link it was told to end.                                         *)
L2capFairness ==
    /\ WF_l2capVars(failure = NoFailure /\ MainHandles)
    /\ SF_l2capVars(failure = NoFailure /\ Transmitted)
    /\ SF_l2capVars(failure = NoFailure /\ sdLink = "ending" /\ LinkEnds)

L2capFairSpec == L2capSpec /\ L2capFairness

------------------------------------------------------------------------------

WaitingEvents(type) == Cardinality({i \in 1 .. Len(events) : events[i][1] = type})

(* What the SoftDevice sends from or receives into is never freed: popping *)
(* the oldest buffer is right even after refused sends left gaps and old   *)
(* links left buffers behind.                                              *)
HeldBuffersKept ==
    /\ L2capTypeOK
    /\ ToSet(sdTx) \subseteq ToSet(txBufs)
    /\ ToSet(sdRx) \subseteq ToSet(rxBufs)

(* On a channel that works every buffer the library waits for is queued,   *)
(* in the SoftDevice, or on its way back: its on_sent may still come.      *)
SendsAccounted ==
    open /\ chan = "open" /\ ~ closing =>
        unsent <= Len(pendingTx) + Len(sdTx) + WaitingEvents("tx")

(* The buffers of the rx events main has still to handle, and those that   *)
(* earlier channels and refused set-ups left in the port's queue.          *)
Arrived  == {events[i][2] : i \in {j \in 1 .. Len(events) : events[j][1] = "rx"}}
LeftOver == ToSet(rxBufs) \ (ToSet(sdRx) \union Arrived)

(* What an open channel can receive into: the buffers the SoftDevice has,  *)
(* and those main replaces when it handles their events.                   *)
Supply == Len(sdRx) + WaitingEvents("rx")

(* An open channel is short of no more buffers to receive into than were   *)
(* left over before it, and never of all of them, so that it falls silent  *)
(* while its peer has credits: a left-over buffer stops the program at the *)
(* next rx event (ch_rx_setup, ch_rx).                                     *)
RxSupplied ==
    open /\ chan = "open" =>
        /\ Supply + Cardinality(LeftOver) >= RxBufMax
        /\ failure = NoFailure => Supply > 0

(* No buffer of a working channel is lost track of, in either direction. *)
BuffersAccounted == SendsAccounted /\ RxSupplied

(* The server refuses peers only for a channel it has, or whose end is     *)
(* still to be handled.                                                    *)
TakenHasChannel ==
    cid => \/ chan \in {"setup", "open", "releasing"}
           \/ \E type \in {"released", "refused", "disconnected"} : WaitingEvents(type) > 0

(* A bearer that is told to close closes, once nothing is pending, and one *)
(* whose channel is gone closes.                                           *)
Closes ==
    (open /\ (chan = "none" \/ (closing /\ pendingTx = <<>>))) ~> (~ open \/ failure # NoFailure)

(* What the code says and does not keep. *)

(* "blecon_assert(err_code == NRF_SUCCESS)" on the flow control. *)
FlowControlled == failure # "flow_control"

(* The same assertion on the buffers given to the SoftDevice. *)
CallsAccepted == failure \notin {"tx_refused", "rx_refused"}

(* "It will be freed when the bearer is closed": no buffer outlives its    *)
(* channel, to be sent to the next peer.                                   *)
StartsEmpty == chan = "setup" /\ cid => pendingTx = <<>> /\ txBufs = <<>>

(* "RX_BUF_MAX + RX_EXTRA_CREDITS", the credits the flow control lets the  *)
(* peer have: an open channel has RX_BUF_MAX buffers to receive into.      *)
ReceiveReady == open /\ chan = "open" => Supply >= RxBufMax

(* "All buffers will be freed when the channel is released": the buffer    *)
(* received into is the oldest, not one of an earlier channel.             *)
RxBufferMatches == failure # "rx_buffer"

(* "Do not continue until we get more credits", and then continue. *)
PendingSent ==
    (open /\ pendingTx # <<>> /\ credits > 0) ~>
        (pendingTx = <<>> \/ ~ open \/ failure # NoFailure)
==============================================================================
