---------------------------- MODULE UartTransport ----------------------------
(***************************************************************************)
(* The UART transport to an external modem                                 *)
(* (blecon_zephyr_ext_modem_uart_transport.c).  An exchange writes a frame *)
(* and reads lines until one is a reply; the modem may tell of an event    *)
(* between its replies, in a line of its own, or in the reply's header.    *)
(* The receive interrupt fills a ring buffer and raises the transport's    *)
(* event, whose callback reads what came outside of an exchange.           *)
(*                                                                         *)
(* A line is a header, for a reply its data, and an end; characters are    *)
(* these parts.  Lines have no number: an exchange that fails while its    *)
(* reply is still to come leaves it to whoever reads next.  A history      *)
(* variable, settled, says that this did not happen.                       *)
(***************************************************************************)
EXTENDS Naturals, Sequences, SequencesExt

CONSTANTS FifoSize,      (* CONFIG_BLECON_EXTERNAL_MODEM_UART_TRANSPORT_RX_FIFO_SZ *)
          MaxExchanges,  (* bound on the exchanges                           *)
          MaxEvents      (* bound on the modem's events                      *)

ASSUME SizeAssumption == {FifoSize, MaxExchanges, MaxEvents} \subseteq Nat \ {0}

Nothing == <<"nothing", 0>>
End     == <<"end", 0>>
Event   == <<"event", 0>>
Part    == {End, Event} \union ({"reply", "both", "data"} \X (1 .. MaxExchanges))

VARIABLES
    pc,       (* where main reads: header, headerEnd, body, drain in an      *)
              (* exchange; event, eventDrain in the callback; or idle        *)
    current,  (* the number of the exchange                                  *)
    got,      (* the data it read                                            *)
    ok,       (* it returned true                                            *)
    fifo,     (* rx_fifo                                                     *)
    rxError,  (* rx_error                                                    *)
    raised,   (* the transport's event is signalled                          *)
    asked,    (* the requests the modem has not answered                     *)
    wire,     (* the parts it has sent and the interrupt has not read        *)
    events,   (* the events it has told                                      *)
    unheard,  (* history: an event is received, the library not told         *)
    settled   (* history: no reply is late, nothing has been discarded       *)

mainVars  == <<pc, current, got, ok>>
rxVars    == <<fifo, rxError, raised>>
modemVars == <<asked, wire, events>>
vars      == <<mainVars, rxVars, modemVars, unheard, settled>>

Reading == {"header", "headerEnd", "body", "drain", "event", "eventDrain"}

TypeOK ==
    /\ pc \in Reading \union {"idle"}
    /\ current \in 0 .. MaxExchanges
    /\ got \in Part \union {Nothing}
    /\ fifo \in Seq(Part) /\ Len(fifo) <= FifoSize
    /\ asked \in Seq(1 .. MaxExchanges)
    /\ wire \in Seq(Part)
    /\ events \in 0 .. MaxEvents
    /\ {ok, rxError, raised, unheard, settled} \subseteq BOOLEAN

Init ==
    /\ pc = "idle" /\ current = 0 /\ got = Nothing /\ ok = FALSE
    /\ fifo = <<>> /\ rxError = FALSE /\ raised = FALSE
    /\ asked = <<>> /\ wire = <<>> /\ events = 0
    /\ unheard = FALSE /\ settled = TRUE

------------------------------------------------------------------------------
(* The modem answers, some time or never, and tells events. *)

Answer ==
    /\ asked # <<>>
    /\ asked' = Tail(asked)
    /\ \E header \in {"reply", "both"} :
          wire' = wire \o << <<header, Head(asked)>>, <<"data", Head(asked)>>, End >>
    /\ UNCHANGED <<mainVars, rxVars, events, unheard, settled>>

NoAnswer ==
    /\ asked # <<>>
    /\ asked' = Tail(asked)
    /\ UNCHANGED <<mainVars, rxVars, wire, events, unheard, settled>>

TellEvent ==
    /\ events < MaxEvents
    /\ events' = events + 1
    /\ wire' = wire \o <<Event, End>>
    /\ UNCHANGED <<mainVars, rxVars, asked, unheard, settled>>

------------------------------------------------------------------------------

(* Fault: the event is raised for the first character in the buffer only. *)
InterruptRaisesOnce ==
    /\ wire # <<>>
    /\ wire' = Tail(wire)
    /\ raised' = (raised \/ fifo = <<>>)
    /\ fifo' = Append(fifo, Head(wire))
    /\ unheard' = (unheard \/ Head(wire)[1] \in {"event", "both"})
    /\ UNCHANGED <<mainVars, asked, events, rxError, settled>>

(* interrupt_handler: what comes when the ring buffer is full is discarded. *)
Interrupt ==
    /\ wire # <<>>
    /\ wire' = Tail(wire)
    /\ raised' = TRUE
    /\ IF Len(fifo) < FifoSize
       THEN /\ fifo' = Append(fifo, Head(wire))
            /\ unheard' = (unheard \/ Head(wire)[1] \in {"event", "both"})
            /\ UNCHANGED <<rxError, settled>>
       ELSE rxError' = TRUE /\ settled' = FALSE /\ UNCHANGED <<fifo, unheard>>
    /\ UNCHANGED <<mainVars, asked, events>>

------------------------------------------------------------------------------
(* Main: exchange_frames and the callback rx_event, between exchanges.     *)

(* The frame is written; nobody looks at what is in the ring buffer. *)
ExchangeFrames ==
    /\ pc = "idle"
    /\ current < MaxExchanges
    /\ current' = current + 1
    /\ asked' = Append(asked, current')
    /\ pc' = "header"
    /\ got' = Nothing
    /\ ok' = FALSE
    /\ settled' = (settled \/ (asked = <<>> /\ wire = <<>> /\ fifo = <<>>))
    /\ unheard' = (unheard /\ settled)
    /\ UNCHANGED <<rxVars, wire, events>>

RxEvent ==
    /\ pc = "idle"
    /\ raised
    /\ raised' = FALSE
    /\ pc' = "event"
    /\ UNCHANGED <<current, got, ok, fifo, rxError, modemVars, unheard, settled>>

(* read_char fails: after an error, which it clears, or when nothing comes *)
(* in time.  The exchange returns false, or the callback gives up.         *)
ReadFails ==
    /\ pc \in Reading
    /\ rxError \/ fifo = <<>>
    /\ rxError' = FALSE
    /\ pc' = "idle"
    /\ settled' = (settled /\ (pc = "event" \/ (wire = <<>> /\ asked = <<>>)))
    /\ UNCHANGED <<current, got, ok, fifo, raised, modemVars, unheard>>

(* read_char gives the next part. *)
Read(part) ==
    /\ ~ rxError
    /\ fifo # <<>>
    /\ part = Head(fifo)
    /\ fifo' = Tail(fifo)
    /\ UNCHANGED <<rxError, current, modemVars, settled>>

(* What a part is taken for where a header is expected; data can be        *)
(* anything, and longer than a header.                                     *)
TakenFor(part) ==
    IF part[1] = "data" THEN {"reply", "both", "event", "invalid"} ELSE {part[1]}

(* A reply's header; one that is none is followed by the end of its frame, *)
(* and the next frame is waited for, or the exchange fails.                *)
Header ==
    /\ pc = "header"
    /\ \E part \in Part : Read(part) /\
       \E header \in TakenFor(part) :
          /\ unheard' = (unheard /\ header \notin {"event", "both"})
          /\ CASE header \in {"reply", "both"}    -> pc' \in {"body", "drain"}
               [] header \in {"event", "invalid"} ->
                     pc' = "headerEnd" \/ (part # Event /\ pc' = "idle")
               [] OTHER                           -> pc' = "idle"
    /\ UNCHANGED <<got, ok, raised>>

(* Fault: the frame after an event's is read without its header. *)
HeaderEndThenBody ==
    /\ pc = "headerEnd"
    /\ \E part \in Part : Read(part) /\ pc' = IF part = End THEN "body" ELSE "idle"
    /\ UNCHANGED <<got, ok, raised, unheard>>

(* Only the event's own end makes the exchange wait for the next frame. *)
HeaderEnd ==
    /\ pc = "headerEnd"
    /\ \E part \in Part : Read(part) /\ pc' = IF part = End THEN "header" ELSE "idle"
    /\ UNCHANGED <<got, ok, raised, unheard>>

(* A frame that ends too early makes the exchange fail. *)
Body ==
    /\ pc = "body"
    /\ \E part \in Part :
          /\ Read(part)
          /\ IF part = End
             THEN pc' = "idle" /\ UNCHANGED got
             ELSE pc' = "drain" /\ got' = part
    /\ UNCHANGED <<ok, raised, unheard>>

(* Whatever comes before the end of the frame is discarded. *)
Drain ==
    /\ pc = "drain"
    /\ \E part \in Part :
          /\ Read(part)
          /\ IF part = End
             THEN pc' = "idle" /\ ok' = (got # Nothing)
             ELSE UNCHANGED <<pc, ok>>
    /\ UNCHANGED <<got, raised, unheard>>

(* The callback looks at one header and discards the rest of the line; an  *)
(* empty line does not count, the next one is discarded as well.           *)
EventHeader ==
    /\ pc = "event"
    /\ \E part \in Part :
          /\ Read(part)
          /\ \E header \in TakenFor(part) :
                unheard' = (unheard /\ header \notin {"event", "both"})
    /\ pc' = "eventDrain"
    /\ UNCHANGED <<got, ok, raised>>

EventDrain ==
    /\ pc = "eventDrain"
    /\ \E part \in Part : Read(part) /\ pc' = IF part = End THEN "idle" ELSE pc
    /\ UNCHANGED <<got, ok, raised, unheard>>

------------------------------------------------------------------------------

ReadStep == ReadFails \/ Header \/ HeaderEnd \/ Body \/ Drain \/ EventHeader \/ EventDrain

Next ==
    \/ Answer \/ NoAnswer \/ TellEvent \/ Interrupt
    \/ ExchangeFrames \/ RxEvent \/ ReadStep

Spec == Init /\ [][Next]_vars

(* The interrupt is served, main reads on, and its loop runs the callback. *)
Fairness == WF_vars(Interrupt) /\ WF_vars(ReadStep) /\ WF_vars(RxEvent)

FairSpec == Spec /\ Fairness

------------------------------------------------------------------------------

(* An exchange that returns true has read the reply to its own request,    *)
(* whatever events came before it and whatever the callback has read.      *)
ReplyMatches == TypeOK /\ (ok /\ settled => got = <<"data", current>>)

(* An event the modem tells reaches the library: by the callback's signal  *)
(* or by an exchange.                                                      *)
EventsHeard == (unheard /\ settled) ~> (~ unheard \/ ~ settled)

(* What the code does not keep: after an exchange that failed while its    *)
(* reply was on its way the next one takes that reply for its own.         *)
ReplyIsOwn == ok => got = <<"data", current>>
==============================================================================
