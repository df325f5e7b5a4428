----------------------------- MODULE ZephyrLinkProofs -----------------------------
(***************************************************************************)
(* Proofs about the links and bearers of the Zephyr port: the session      *)
(* keeps one reference and its own bearers, a taken bearer has a channel,  *)
(* a server's channel loses no credit, and the transmit pool loses no      *)
(* buffer; for any links, servers and clients, a pool of any size and any  *)
(* number of sends on hand.                                                *)
(***************************************************************************)
EXTENDS ZephyrLink, Integers, FiniteSetTheorems, TLAPS

(* Types, but for the bounds on what is counted.                           *)
Record == [conn : Links \union {NoLink}, ops : BOOLEAN,
           chan : {"none", "connecting", "open", "closing", "closed"},
           on : Links \union {NoLink}, credits : Int, txq : Int, sentDue : Int,
           open : BOOLEAN, unsent : Int]

LooseTypes ==
    /\ link \in [Links -> {"free", "up", "lost", "down"}]
    /\ btConn \in Links \union {NoLink}
    /\ refs \in [Links -> Int]
    /\ session \in BOOLEAN
    /\ bearer \in [Bearers -> Record]

Alive(c) == c \in Links /\ link[c] \in {"up", "lost"}

Live == {"connecting", "open", "closing"}

(* A taken bearer has a channel and is the session's; a channel that is    *)
(* not over has a link, and its bearer is taken as long as it hears of it. *)
TakenInv ==
    \A b \in Bearers :
        /\ bearer[b].conn # NoLink =>
            /\ bearer[b].on = bearer[b].conn /\ bearer[b].ops
            /\ bearer[b].chan \in Live /\ bearer[b].conn = btConn
        /\ bearer[b].chan \in Live =>
            bearer[b].on # NoLink /\ (bearer[b].ops => bearer[b].conn = bearer[b].on)

(* What the receive thread looked at before it took the lock, or between   *)
(* two times it took it, still holds: the link it works on is not torn     *)
(* down before it is done.                                                 *)
Busy(b) ==
    /\ b \in Bearers
    /\ Alive(bearer[b].on)
    /\ bearer[b].chan \in Live

(* The receive thread is in the middle of something with the bearer.       *)
Held(b) == rx[1] \in {"credits", "open", "received"} /\ rx[2] = b

RxInv ==
    /\ rx[1] \in {Nothing, "connected", "accept", "accepted", "credits", "open", "received"}
    /\ rx[1] = "connected" => Alive(rx[2]) /\ ~ session
    /\ rx[1] \in {"accept", "accepted"} => rx[2] \in Servers /\ Alive(rx[3])
    /\ rx[1] = "accepted" => rx[3] = btConn
    /\ rx[1] \in {"credits", "open", "received"} => rx = <<rx[1], rx[2]>> /\ Busy(rx[2])
    /\ rx[1] = "credits" => /\ rx[2] \in Servers
                            /\ bearer[rx[2]].chan = "connecting" /\ bearer[rx[2]].credits = 0
    /\ rx[1] = "open" /\ rx[2] \in Servers =>
          bearer[rx[2]].chan = "connecting" /\ bearer[rx[2]].credits = MaxQueuedRx

(* A server's channel is connecting only in the receive thread's hands.    *)
ServerInv ==
    \A b \in Servers : bearer[b].chan = "connecting" =>
        rx[1] \in {"credits", "open"} /\ rx[2] = b

IInv == /\ LooseTypes /\ OneReference /\ OpenInSession /\ TakenInv /\ RxInv
        /\ ServerInv /\ ServerCreditsKept

------------------------------------------------------------------------------

LEMMA InitIInv == Init => IInv
<1> SUFFICES ASSUME Init PROVE IInv
  OBVIOUS
<1> USE BearerAssumption, QueueAssumption
<1>1. LooseTypes
  <2>1. bearer \in [Bearers -> Record] BY DEF Init, Record
  <2>2. link \in [Links -> {"free", "up", "lost", "down"}] /\ refs \in [Links -> Int]
    BY DEF Init
  <2>3. btConn \in Links \union {NoLink} /\ session \in BOOLEAN BY DEF Init
  <2> QED BY <2>1, <2>2, <2>3 DEF LooseTypes
<1>2. rx[1] = Nothing BY DEF Init, Idle
<1>3. RxInv BY <1>2 DEF RxInv, Nothing
<1>4. OneReference /\ OpenInSession /\ TakenInv
  BY DEF Init, OneReference, OpenInSession, TakenInv, Live
<1>5. ServerInv /\ ServerCreditsKept
  BY DEF Init, ServerInv, ServerCreditsKept, CreditsKept, Bearers
<1> QED BY <1>1, <1>3, <1>4, <1>5 DEF IInv

(* What the receive thread holds, by its name.                             *)
LEMMA Kinds ==
    /\ Idle[1] = Nothing
    /\ \A c : <<"connected", c>>[1] = "connected" /\ <<"connected", c>>[2] = c
    /\ \A b, c : /\ <<"accept", b, c>>[1] = "accept" /\ <<"accept", b, c>>[2] = b
                 /\ <<"accept", b, c>>[3] = c
    /\ \A b, c : /\ <<"accepted", b, c>>[1] = "accepted" /\ <<"accepted", b, c>>[2] = b
                 /\ <<"accepted", b, c>>[3] = c
    /\ \A b : <<"credits", b>>[1] = "credits" /\ <<"credits", b>>[2] = b
    /\ \A b : <<"open", b>>[1] = "open" /\ <<"open", b>>[2] = b
    /\ \A b : <<"received", b>>[1] = "received" /\ <<"received", b>>[2] = b
BY DEF Idle

(* One bearer changes and stays a record of its fields.                    *)
LEMMA OneBearer ==
    ASSUME LooseTypes, NEW b \in Bearers, NEW r \in Record,
           bearer' = [bearer EXCEPT ![b] = r]
    PROVE  /\ bearer' \in [Bearers -> Record]
           /\ bearer'[b] = r
           /\ \A a \in Bearers : a # b => bearer'[a] = bearer[a]
BY DEF LooseTypes

(* A record that a bearer may have in the session.                         *)
FitsSession(r) ==
    /\ r.conn # NoLink =>
          r.on = r.conn /\ r.ops /\ r.chan \in Live /\ r.conn = btConn
    /\ r.chan \in Live => r.on # NoLink /\ (r.ops => r.conn = r.on)
    /\ r.open => session /\ r.conn = btConn /\ r.on = btConn

(* One bearer changes; links and session do not.                           *)
LEMMA BearerParts ==
    ASSUME IInv, UNCHANGED <<link, btConn, refs, session>>,
           NEW b \in Bearers, NEW r \in Record, bearer' = [bearer EXCEPT ![b] = r],
           FitsSession(r)
    PROVE  /\ LooseTypes' /\ OneReference' /\ OpenInSession' /\ TakenInv'
           /\ bearer' \in [Bearers -> Record] /\ bearer'[b] = r
           /\ \A a \in Bearers : a # b => bearer'[a] = bearer[a]
<1>1. LooseTypes /\ OneReference /\ OpenInSession /\ TakenInv BY DEF IInv
<1>2. /\ bearer' \in [Bearers -> Record] /\ bearer'[b] = r
      /\ \A a \in Bearers : a # b => bearer'[a] = bearer[a]
  BY <1>1, OneBearer
<1>3. LooseTypes' BY <1>1, <1>2 DEF LooseTypes
<1>4. OneReference' BY <1>1 DEF OneReference
<1>5. OpenInSession' BY <1>1, <1>2 DEF OpenInSession, FitsSession
<1>6. TakenInv' BY <1>1, <1>2 DEF TakenInv, FitsSession
<1> QED BY <1>2, <1>3, <1>4, <1>5, <1>6

(* Steps that touch neither links nor session, and leave the receive       *)
(* thread at what it is doing.                                             *)
LEMMA BearerStep ==
    ASSUME IInv, UNCHANGED <<link, btConn, refs, session, rx>>,
           NEW b \in Bearers, NEW r \in Record, bearer' = [bearer EXCEPT ![b] = r],
           FitsSession(r),
           Held(b) => r.on = bearer[b].on /\ r.chan \in Live,
           rx[1] = "credits" /\ rx[2] = b =>
               r.chan = bearer[b].chan /\ r.credits = bearer[b].credits,
           b \in Servers =>
               /\ r.chan \in {"connecting", "open"} =>
                     r.chan = bearer[b].chan /\ r.credits = bearer[b].credits
               /\ bearer[b].chan = "connecting" => r.chan = "connecting"
    PROVE  IInv'
<1>1. /\ LooseTypes /\ OneReference /\ OpenInSession /\ TakenInv /\ RxInv
      /\ ServerInv /\ ServerCreditsKept
  BY DEF IInv
<1>2. /\ LooseTypes' /\ OneReference' /\ OpenInSession' /\ TakenInv'
      /\ bearer' \in [Bearers -> Record] /\ bearer'[b] = r
      /\ \A a \in Bearers : a # b => bearer'[a] = bearer[a]
  BY BearerParts
<1>3. Servers \subseteq Bearers BY DEF Bearers
<1>8. ASSUME NEW a, Held(a), Busy(a) PROVE Busy(a)'
  <2>1. CASE a = b BY <1>2, <1>8, <2>1 DEF Busy, Alive
  <2>2. CASE a # b BY <1>2, <1>8, <2>2 DEF Busy, Alive
  <2> QED BY <2>1, <2>2
<1>9. RxInv'
  <2>1. rx[1] = "credits" => Busy(rx[2]) /\ rx[2] \in Servers BY <1>1 DEF RxInv
  <2>2. rx[1] = "credits" => /\ bearer'[rx[2]].chan = "connecting"
                             /\ bearer'[rx[2]].credits = 0
    <3>1. CASE rx[2] = b BY <1>1, <1>2, <3>1 DEF RxInv
    <3>2. CASE rx[2] # b BY <1>1, <1>2, <1>3, <2>1, <3>2 DEF RxInv
    <3> QED BY <3>1, <3>2
  <2>3. rx[1] = "open" /\ rx[2] \in Servers =>
          bearer'[rx[2]].chan = "connecting" /\ bearer'[rx[2]].credits = MaxQueuedRx
    <3>1. CASE rx[2] = b BY <1>1, <1>2, <3>1 DEF RxInv
    <3>2. CASE rx[2] # b BY <1>1, <1>2, <1>3, <3>2 DEF RxInv
    <3> QED BY <3>1, <3>2
  <2>4. UNCHANGED <<rx, session, btConn>> /\ \A c : Alive(c)' = Alive(c)
    BY DEF Alive
  <2>5. rx[1] \in {"credits", "open", "received"} => Busy(rx[2])'
    BY <1>1, <1>8 DEF RxInv, Held
  <2> QED BY <1>1, <2>2, <2>3, <2>4, <2>5 DEF RxInv
<1>10. ServerInv' BY <1>1, <1>2, <1>3 DEF ServerInv
<1>11. ServerCreditsKept'
  <2> SUFFICES ASSUME NEW a \in Servers, bearer'[a].chan = "open"
               PROVE  bearer'[a].credits + (IF rx = <<"received", a>> THEN 1 ELSE 0)
                          = MaxQueuedRx
    BY DEF ServerCreditsKept, CreditsKept
  <2>1. bearer[a].chan = "open" /\ bearer'[a].credits = bearer[a].credits
    BY <1>2, <1>3
  <2> QED BY <1>1, <2>1 DEF ServerCreditsKept, CreditsKept
<1> QED BY <1>2, <1>9, <1>10, <1>11 DEF IInv

(* Steps that touch no bearer: links come and go, and the receive thread   *)
(* begins something.                                                       *)
LEMMA LinkStep ==
    ASSUME IInv, UNCHANGED bearer,
           LooseTypes', OneReference', OpenInSession', TakenInv', RxInv',
           \/ UNCHANGED rx
           \/ /\ rx[1] \notin {"credits", "open", "received"}
              /\ rx'[1] # "received"
    PROVE  IInv'
<1>1. /\ LooseTypes /\ RxInv /\ ServerInv /\ ServerCreditsKept
  BY DEF IInv
<1>2. ServerInv' BY <1>1 DEF ServerInv
<1>3. ServerCreditsKept'
  <2> SUFFICES ASSUME NEW a \in Servers, bearer[a].chan = "open"
               PROVE  bearer[a].credits + (IF rx' = <<"received", a>> THEN 1 ELSE 0)
                          = MaxQueuedRx
    BY DEF ServerCreditsKept, CreditsKept
  <2>1. bearer[a].credits + (IF rx = <<"received", a>> THEN 1 ELSE 0) = MaxQueuedRx
    BY <1>1 DEF ServerCreditsKept, CreditsKept
  <2>2. rx' = <<"received", a>> <=> rx = <<"received", a>>
    BY Kinds
  <2> QED BY <2>1, <2>2
<1> QED BY <1>2, <1>3 DEF IInv

------------------------------------------------------------------------------
(* Links. *)

LEMMA LinksKeep ==
    ASSUME IInv, NEW c \in Links,
           \/ \E ours \in BOOLEAN : LinkUp(c, ours)
           \/ OnConnected(c) \/ LinkLost(c) \/ LinkDown(c) \/ OnDisconnected(c)
    PROVE  IInv'
<1>1. /\ LooseTypes /\ OneReference /\ OpenInSession /\ TakenInv /\ RxInv
  BY DEF IInv
<1>2. c # NoLink BY BearerAssumption
<1>3. ASSUME NEW ours \in BOOLEAN, LinkUp(c, ours) PROVE IInv'
  <2>1. /\ rx[1] = Nothing /\ link[c] = "free" /\ link' = [link EXCEPT ![c] = "up"]
        /\ UNCHANGED <<btConn, refs, session, bearer>>
        /\ \/ rx'[1] = "connected" /\ rx'[2] = c /\ ~ session
           \/ rx'[1] = Nothing
    BY <1>3, Kinds DEF LinkUp
  <2>2. LooseTypes' BY <1>1, <2>1 DEF LooseTypes
  <2>3. OneReference' /\ OpenInSession' /\ TakenInv'
    BY <1>1, <2>1 DEF OneReference, OpenInSession, TakenInv
  <2>4. link'[c] = "up" BY <1>1, <2>1 DEF LooseTypes
  <2>5. RxInv' BY <2>1, <2>4 DEF RxInv, Alive, Nothing
  <2> QED BY <2>1, <2>2, <2>3, <2>5, LinkStep DEF Nothing
<1>4. CASE OnConnected(c)
  <2>1. /\ rx[1] = "connected" /\ rx[2] = c /\ rx'[1] = Nothing
        /\ UNCHANGED <<link, bearer>>
        /\ \/ /\ btConn' = c /\ refs' = [refs EXCEPT ![c] = @ + 1] /\ session' = TRUE
           \/ UNCHANGED <<btConn, refs, session>>
    BY <1>4, Kinds DEF OnConnected
  <2>2. ~ session /\ btConn = NoLink BY <1>1, <2>1 DEF RxInv, OneReference
  <2>3. LooseTypes'
    <3>1. refs' \in [Links -> Int]
      <4>1. refs[c] + 1 \in Int BY <1>1 DEF LooseTypes
      <4> QED BY <1>1, <2>1, <4>1 DEF LooseTypes
    <3>2. btConn' \in Links \union {NoLink} /\ session' \in BOOLEAN
      BY <1>1, <2>1 DEF LooseTypes
    <3> QED BY <1>1, <2>1, <3>1, <3>2 DEF LooseTypes
  <2>4. OneReference'
    <3>1. CASE btConn' = c /\ refs' = [refs EXCEPT ![c] = @ + 1] /\ session' = TRUE
      <4>1. \A d \in Links : refs[d] = 0 BY <1>1, <2>2, BearerAssumption DEF OneReference
      <4>2. \A d \in Links : refs'[d] = IF d = c THEN 1 ELSE 0
        BY <1>1, <3>1, <4>1 DEF LooseTypes
      <4> QED BY <1>2, <3>1, <4>2 DEF OneReference
    <3>2. CASE UNCHANGED <<btConn, refs, session>>
      BY <1>1, <3>2 DEF OneReference
    <3> QED BY <2>1, <3>1, <3>2
  <2>5. \A b \in Bearers : bearer[b].conn = NoLink /\ ~ bearer[b].open
    BY <1>1, <2>2 DEF TakenInv, OpenInSession
  <2>6. OpenInSession' /\ TakenInv' BY <1>1, <2>1, <2>5 DEF OpenInSession, TakenInv
  <2>7. RxInv' BY <2>1 DEF RxInv, Nothing
  <2> QED BY <2>1, <2>3, <2>4, <2>6, <2>7, LinkStep DEF Nothing
<1>5. CASE LinkLost(c)
  <2>1. /\ link' = [link EXCEPT ![c] = "lost"]
        /\ UNCHANGED <<btConn, refs, session, rx, bearer>>
    BY <1>5 DEF LinkLost
  <2>2. LooseTypes' BY <1>1, <2>1 DEF LooseTypes
  <2>3. OneReference' /\ OpenInSession' /\ TakenInv'
    BY <1>1, <2>1 DEF OneReference, OpenInSession, TakenInv
  <2>4. \A d : Alive(d) => Alive(d)' BY <1>1, <2>1 DEF Alive, LooseTypes
  <2>5. \A b : Busy(b) => Busy(b)' BY <2>1, <2>4 DEF Busy
  <2>6. RxInv' BY <1>1, <2>1, <2>4, <2>5 DEF RxInv
  <2> QED BY <2>1, <2>2, <2>3, <2>6, LinkStep
<1>6. CASE LinkDown(c)
  <2>1. /\ rx[1] = Nothing /\ link' = [link EXCEPT ![c] = "down"]
        /\ UNCHANGED <<btConn, refs, session, rx, bearer>>
    BY <1>6, Kinds DEF LinkDown
  <2>2. LooseTypes' BY <1>1, <2>1 DEF LooseTypes
  <2>3. OneReference' /\ OpenInSession' /\ TakenInv'
    BY <1>1, <2>1 DEF OneReference, OpenInSession, TakenInv
  <2>4. RxInv' BY <2>1 DEF RxInv, Nothing
  <2> QED BY <2>1, <2>2, <2>3, <2>4, LinkStep
(* No bearer has a channel on the link, so none is the session's.          *)
<1>7. CASE OnDisconnected(c)
  <2>1. /\ link[c] = "down" /\ link' = [link EXCEPT ![c] = "free"]
        /\ \A b \in Bearers : bearer[b].on # c
        /\ IF c = btConn
           THEN refs' = [refs EXCEPT ![c] = @ - 1] /\ btConn' = NoLink /\ session' = FALSE
           ELSE UNCHANGED <<refs, btConn, session>>
        /\ UNCHANGED <<rx, bearer>>
    BY <1>7 DEF OnDisconnected
  <2>2. LooseTypes'
    <3>1. link' \in [Links -> {"free", "up", "lost", "down"}]
      BY <1>1, <2>1 DEF LooseTypes
    <3>2. refs' \in [Links -> Int]
      <4>1. CASE c = btConn
        <5>1. refs[c] - 1 \in Int BY <1>1 DEF LooseTypes
        <5> QED BY <1>1, <2>1, <4>1, <5>1 DEF LooseTypes
      <4>2. CASE c # btConn BY <1>1, <2>1, <4>2 DEF LooseTypes
      <4> QED BY <4>1, <4>2
    <3>3. btConn' \in Links \union {NoLink} /\ session' \in BOOLEAN
      BY <1>1, <2>1 DEF LooseTypes
    <3> QED BY <1>1, <2>1, <3>1, <3>2, <3>3 DEF LooseTypes
  <2>3. OneReference'
    <3>1. CASE c = btConn
      <4>1. \A d \in Links : refs'[d] = 0
        BY <1>1, <2>1, <3>1 DEF LooseTypes, OneReference
      <4> QED BY <2>1, <3>1, <4>1, BearerAssumption DEF OneReference
    <3>2. CASE c # btConn BY <1>1, <2>1, <3>2 DEF OneReference
    <3> QED BY <3>1, <3>2
  <2>4. c = btConn => \A b \in Bearers : bearer[b].conn = NoLink /\ ~ bearer[b].open
    BY <1>1, <2>1 DEF TakenInv, OpenInSession
  <2>5. OpenInSession' /\ TakenInv' BY <1>1, <2>1, <2>4 DEF OpenInSession, TakenInv
  <2>6. \A d : Alive(d) => Alive(d)' /\ d # c BY <1>1, <2>1 DEF Alive, LooseTypes
  <2>7. \A b : Busy(b) => Busy(b)' BY <2>1, <2>6 DEF Busy
  <2>8. session' => session BY <2>1
  <2>9. RxInv'
    <3>1. rx[1] = "accepted" => Alive(rx[3]) /\ rx[3] = btConn BY <1>1 DEF RxInv
    <3>2. rx[1] = "accepted" => rx[3] = btConn' BY <2>1, <2>6, <3>1
    <3> QED BY <1>1, <2>1, <2>6, <2>7, <2>8, <3>2 DEF RxInv
  <2> QED BY <2>1, <2>2, <2>3, <2>5, <2>9, LinkStep
<1> QED BY <1>3, <1>4, <1>5, <1>6, <1>7

------------------------------------------------------------------------------
(* Channels open. *)

LEMMA AcceptKeeps ==
    ASSUME IInv, NEW b \in Bearers, NEW c \in Links,
           AcceptBegin(b, c) \/ AcceptCheck(b, c)
    PROVE  IInv'
<1>1. /\ LooseTypes /\ OneReference /\ OpenInSession /\ TakenInv /\ RxInv
  BY DEF IInv
<1>2. UNCHANGED <<link, btConn, refs, session, bearer>>
  BY DEF AcceptBegin, AcceptCheck, linkVars
<1>3. LooseTypes' /\ OneReference' /\ OpenInSession' /\ TakenInv'
  BY <1>1, <1>2 DEF LooseTypes, OneReference, OpenInSession, TakenInv
<1>4. CASE AcceptBegin(b, c)
  <2>1. /\ rx[1] = Nothing /\ rx'[1] = "accept" /\ rx'[2] = b /\ rx'[3] = c
        /\ b \in Servers /\ link[c] = "up"
    BY <1>4, Kinds DEF AcceptBegin
  <2>2. RxInv' BY <1>2, <2>1 DEF RxInv, Alive
  <2> QED BY <1>2, <1>3, <2>1, <2>2, LinkStep DEF Nothing
<1>5. CASE AcceptCheck(b, c)
  <2>1. /\ rx[1] = "accept" /\ rx[2] = b /\ rx[3] = c
        /\ \/ rx'[1] = "accepted" /\ rx'[2] = b /\ rx'[3] = c /\ c = btConn
           \/ rx'[1] = Nothing
    BY <1>5, Kinds DEF AcceptCheck
  <2>2. RxInv' BY <1>1, <1>2, <2>1 DEF RxInv, Alive, Nothing
  <2> QED BY <1>2, <1>3, <2>1, <2>2, LinkStep DEF Nothing
<1> QED BY <1>4, <1>5

(* A bearer taken for a link of the session.                               *)
Taken(b, c) == [bearer[b] EXCEPT !.conn = c, !.ops = TRUE, !.chan = "connecting",
                                 !.on = c, !.credits = 0]

LEMMA TakenIs ==
    ASSUME LooseTypes, NEW b \in Bearers, NEW c \in Links
    PROVE  /\ Taken(b, c) \in Record
           /\ Taken(b, c).conn = c /\ Taken(b, c).on = c /\ Taken(b, c).ops
           /\ Taken(b, c).chan = "connecting" /\ Taken(b, c).credits = 0
           /\ Taken(b, c).open = bearer[b].open
           /\ Connect(b, c) = [bearer EXCEPT ![b] = Taken(b, c)]
<1>1. bearer[b] \in Record BY DEF LooseTypes
<1>2. c \in Links \union {NoLink} /\ 0 \in Int
      /\ "connecting" \in {"none", "connecting", "open", "closing", "closed"}
  OBVIOUS
<1>3. Taken(b, c) \in Record BY <1>1, <1>2 DEF Taken, Record
<1>4. /\ Taken(b, c).conn = c /\ Taken(b, c).on = c /\ Taken(b, c).ops
      /\ Taken(b, c).chan = "connecting" /\ Taken(b, c).credits = 0
  BY <1>1 DEF Taken, Record
<1>5. Taken(b, c).open = bearer[b].open BY <1>1 DEF Taken, Record
<1>6. Connect(b, c) = [bearer EXCEPT ![b] = Taken(b, c)] BY DEF Taken, Connect
<1> QED BY <1>3, <1>4, <1>5, <1>6

LEMMA ServerAcceptKeeps ==
    ASSUME IInv, NEW b \in Bearers, NEW c \in Links, ServerAccept(b, c) PROVE IInv'
<1>1. /\ LooseTypes /\ OpenInSession /\ RxInv /\ ServerInv /\ ServerCreditsKept
      /\ OneReference
  BY DEF IInv
<1>2. /\ rx[1] = "accepted" /\ rx[2] = b /\ rx[3] = c
      /\ rx' = <<"credits", b>> /\ rx'[1] = "credits" /\ rx'[2] = b
      /\ UNCHANGED <<link, btConn, refs, session>>
      /\ bearer' = [bearer EXCEPT ![b] = Taken(b, c)]
  BY <1>1, Kinds, TakenIs DEF ServerAccept, linkVars
<1>3. b \in Servers /\ Alive(c) /\ c = btConn BY <1>1, <1>2 DEF RxInv
<1>4. c # NoLink /\ Servers \subseteq Bearers BY BearerAssumption DEF Bearers
<1>5. bearer[b].open => session BY <1>1 DEF OpenInSession
<1>6. /\ Taken(b, c) \in Record
      /\ Taken(b, c).conn = c /\ Taken(b, c).on = c /\ Taken(b, c).ops
      /\ Taken(b, c).chan = "connecting" /\ Taken(b, c).credits = 0
      /\ Taken(b, c).open = bearer[b].open
  BY <1>1, TakenIs
<1> DEFINE r == Taken(b, c)
<1>7. /\ LooseTypes' /\ OneReference' /\ OpenInSession' /\ TakenInv'
      /\ bearer'[b] = r
      /\ \A a \in Bearers : a # b => bearer'[a] = bearer[a]
  <2> HIDE DEF r
  <2>1. r \in Record /\ bearer' = [bearer EXCEPT ![b] = r] /\ r.conn = c /\ r.on = c
        /\ r.ops /\ r.chan = "connecting" /\ (r.open => session)
    BY <1>2, <1>5, <1>6 DEF r
  <2>2. FitsSession(r) BY <1>3, <1>4, <2>1 DEF FitsSession, Live
  <2> QED BY <1>2, <2>1, <2>2, BearerParts
<1>8. Busy(b)' BY <1>2, <1>3, <1>6, <1>7 DEF Busy, Alive, Live
<1>9. RxInv' BY <1>2, <1>3, <1>6, <1>7, <1>8 DEF RxInv, Nothing
<1>10. ServerInv'
  BY <1>1, <1>2, <1>4, <1>6, <1>7 DEF ServerInv
<1>11. ServerCreditsKept'
  <2> SUFFICES ASSUME NEW a \in Servers, bearer'[a].chan = "open"
               PROVE  bearer'[a].credits + (IF rx' = <<"received", a>> THEN 1 ELSE 0)
                          = MaxQueuedRx
    BY DEF ServerCreditsKept, CreditsKept
  <2>1. a # b /\ bearer'[a] = bearer[a] BY <1>4, <1>6, <1>7
  <2>2. rx # <<"received", a>> /\ rx' # <<"received", a>> BY <1>2, Kinds
  <2> QED BY <1>1, <2>1, <2>2 DEF ServerCreditsKept, CreditsKept
<1> QED BY <1>7, <1>9, <1>10, <1>11 DEF IInv

(* Nothing of the links, the bearers and the receive thread changes.       *)
LEMMA IdleStep ==
    ASSUME IInv, UNCHANGED <<link, btConn, refs, session, rx, bearer>> PROVE IInv'
<1>1. LooseTypes /\ OneReference /\ OpenInSession /\ TakenInv /\ RxInv BY DEF IInv
<1>2. LooseTypes' /\ OneReference' /\ OpenInSession' /\ TakenInv'
  BY <1>1 DEF LooseTypes, OneReference, OpenInSession, TakenInv
<1>3. RxInv' BY <1>1 DEF RxInv, Busy, Alive
<1> QED BY <1>2, <1>3, LinkStep

(* A client's bearer is taken while the receive thread works on another,   *)
(* for one that it works on has a channel.                                 *)
LEMMA InitClientKeeps ==
    ASSUME IInv, NEW b \in Bearers, NEW c \in Links, InitClient(b, c) PROVE IInv'
<1>1. LooseTypes /\ OpenInSession /\ RxInv /\ OneReference BY DEF IInv
<1>0. CASE UNCHANGED bearer
  BY <1>0, IdleStep DEF InitClient, linkVars
<1> SUFFICES ASSUME ~ UNCHANGED bearer PROVE IInv'
  BY <1>0
<1>2. /\ b \in Clients /\ bearer[b].chan = "none" /\ c = btConn
      /\ UNCHANGED <<link, btConn, refs, session, rx>>
      /\ bearer' = [bearer EXCEPT ![b] = Taken(b, c)]
  BY <1>1, TakenIs DEF InitClient, linkVars
<1>3. b \notin Servers BY <1>2, BearerAssumption
<1>4. bearer[b].open => session BY <1>1 DEF OpenInSession
<1>5. ~ Held(b) BY <1>1, <1>2 DEF Busy, Live, Held, RxInv
<1>6. /\ Taken(b, c) \in Record
      /\ Taken(b, c).conn = c /\ Taken(b, c).on = c /\ Taken(b, c).ops
      /\ Taken(b, c).chan = "connecting" /\ Taken(b, c).credits = 0
      /\ Taken(b, c).open = bearer[b].open
  BY <1>1, TakenIs
<1>7. ~ (rx[1] = "credits" /\ rx[2] = b) BY <1>5 DEF Held
<1> DEFINE r == Taken(b, c)
<1> HIDE DEF r
<1>8. r \in Record /\ bearer' = [bearer EXCEPT ![b] = r] /\ r.conn = c /\ r.on = c
      /\ r.ops /\ r.chan = "connecting" /\ (r.open => session)
  BY <1>2, <1>4, <1>6 DEF r
<1>9. FitsSession(r) BY <1>2, <1>8, BearerAssumption DEF FitsSession, Live
<1> QED BY <1>2, <1>3, <1>5, <1>7, <1>8, <1>9, BearerStep

(* The peer answers a client; a server's channel is not waiting for it.    *)
LEMMA ClientAnswerKeeps ==
    ASSUME IInv, NEW b \in Bearers, ClientAnswer(b) PROVE IInv'
<1>1. /\ LooseTypes /\ OneReference /\ OpenInSession /\ TakenInv /\ RxInv /\ ServerInv
  BY DEF IInv
<1>2. /\ rx[1] = Nothing /\ bearer[b].chan = "connecting" /\ link[bearer[b].on] = "up"
      /\ rx' = <<"open", b>> /\ rx'[1] = "open" /\ rx'[2] = b
      /\ UNCHANGED <<link, btConn, refs, session, bearer>>
  BY Kinds DEF ClientAnswer, linkVars
<1>3. b \notin Servers BY <1>1, <1>2 DEF ServerInv, Nothing
<1>4. bearer[b].on \in Links /\ Busy(b)
  <2>1. bearer[b].on \in Links \union {NoLink} BY <1>1 DEF LooseTypes, Record
  <2>2. bearer[b].on # NoLink BY <1>1, <1>2 DEF TakenInv, Live
  <2> QED BY <1>2, <2>1, <2>2 DEF Busy, Alive, Live
<1>5. LooseTypes' /\ OneReference' /\ OpenInSession' /\ TakenInv'
  BY <1>1, <1>2 DEF LooseTypes, OneReference, OpenInSession, TakenInv
<1>6. Busy(b)' BY <1>2, <1>4 DEF Busy, Alive
<1>7. RxInv' BY <1>2, <1>3, <1>6 DEF RxInv
<1> QED BY <1>2, <1>5, <1>7, LinkStep DEF Nothing

LEMMA ServerCreditsKeeps ==
    ASSUME IInv, NEW b \in Bearers, ServerCredits(b) PROVE IInv'
<1>1. /\ LooseTypes /\ OneReference /\ OpenInSession /\ TakenInv /\ RxInv /\ ServerInv
      /\ ServerCreditsKept
  BY DEF IInv
<1> DEFINE r == [bearer[b] EXCEPT !.credits = @ + MaxQueuedRx]
<1>2. /\ rx[1] = "credits" /\ rx[2] = b
      /\ rx' = <<"open", b>> /\ rx'[1] = "open" /\ rx'[2] = b
      /\ UNCHANGED <<link, btConn, refs, session>>
      /\ bearer' = [bearer EXCEPT ![b] = r]
  BY Kinds DEF ServerCredits, linkVars
<1>3. /\ b \in Servers /\ Busy(b) /\ bearer[b].chan = "connecting"
      /\ bearer[b].credits = 0
  BY <1>1, <1>2 DEF RxInv
<1>4. bearer[b] \in Record /\ MaxQueuedRx \in Int
  BY <1>1, QueueAssumption DEF LooseTypes
<1>5. /\ r \in Record /\ r.credits = MaxQueuedRx
      /\ r.conn = bearer[b].conn /\ r.on = bearer[b].on /\ r.ops = bearer[b].ops
      /\ r.chan = bearer[b].chan /\ r.open = bearer[b].open
  BY <1>3, <1>4 DEF Record
<1> HIDE DEF r
<1>6. FitsSession(r) BY <1>1, <1>5 DEF FitsSession, TakenInv, OpenInSession
<1>7. /\ LooseTypes' /\ OneReference' /\ OpenInSession' /\ TakenInv'
      /\ bearer'[b] = r
      /\ \A a \in Bearers : a # b => bearer'[a] = bearer[a]
  BY <1>2, <1>5, <1>6, BearerParts
<1>8. Busy(b)' BY <1>2, <1>3, <1>5, <1>7 DEF Busy, Alive
<1>9. RxInv' BY <1>2, <1>3, <1>5, <1>7, <1>8 DEF RxInv
<1>10. Servers \subseteq Bearers BY DEF Bearers
<1>11. ServerInv' BY <1>1, <1>2, <1>7, <1>10 DEF ServerInv
<1>12. ServerCreditsKept'
  <2> SUFFICES ASSUME NEW a \in Servers, bearer'[a].chan = "open"
               PROVE  bearer'[a].credits + (IF rx' = <<"received", a>> THEN 1 ELSE 0)
                          = MaxQueuedRx
    BY DEF ServerCreditsKept, CreditsKept
  <2>1. a # b /\ bearer'[a] = bearer[a] BY <1>3, <1>5, <1>7, <1>10
  <2>2. rx # <<"received", a>> /\ rx' # <<"received", a>> BY <1>2, Kinds
  <2> QED BY <1>1, <2>1, <2>2 DEF ServerCreditsKept, CreditsKept
<1> QED BY <1>7, <1>9, <1>11, <1>12 DEF IInv

LEMMA OnOpenKeeps ==
    ASSUME IInv, NEW b \in Bearers, OnOpen(b) PROVE IInv'
<1>1. /\ LooseTypes /\ OneReference /\ OpenInSession /\ TakenInv /\ RxInv /\ ServerInv
      /\ ServerCreditsKept
  BY DEF IInv
<1> DEFINE r == [bearer[b] EXCEPT !.chan = IF bearer[b].chan = "connecting" THEN "open"
                                           ELSE bearer[b].chan,
                                  !.open = bearer[b].ops, !.unsent = 0]
<1>2. /\ rx[1] = "open" /\ rx[2] = b /\ rx'[1] = Nothing /\ rx' = Idle
      /\ UNCHANGED <<link, btConn, refs, session>>
      /\ bearer' = [bearer EXCEPT ![b] = r]
  <2>1. rx = <<"open", b>> /\ rx' = Idle /\ UNCHANGED <<link, btConn, refs, session>>
    BY DEF OnOpen, linkVars
  <2>2. bearer' = [bearer EXCEPT ![b] = r] BY DEF OnOpen
  <2> HIDE DEF r
  <2> QED BY <2>1, <2>2, Kinds
<1>3. Busy(b) BY <1>1, <1>2 DEF RxInv
<1>4. bearer[b] \in Record BY <1>1 DEF LooseTypes
<1>5. r \in Record
  <2>1. bearer[b].ops \in BOOLEAN /\ 0 \in Int BY <1>4 DEF Record
  <2>2. (IF bearer[b].chan = "connecting" THEN "open" ELSE bearer[b].chan)
          \in {"none", "connecting", "open", "closing", "closed"}
    BY <1>4 DEF Record
  <2> QED BY <1>4, <2>1, <2>2 DEF Record
<1>6. /\ r.credits = bearer[b].credits /\ r.conn = bearer[b].conn
      /\ r.on = bearer[b].on /\ r.ops = bearer[b].ops /\ r.open = bearer[b].ops
  BY <1>4 DEF Record
<1>7. r.chan = IF bearer[b].chan = "connecting" THEN "open" ELSE bearer[b].chan
  BY <1>4 DEF Record
<1> HIDE DEF r
<1>8. FitsSession(r)
  <2>1. bearer[b].chan \in Live /\ r.chan \in Live BY <1>3, <1>7 DEF Busy, Live
  <2>2. r.ops => r.conn = r.on /\ r.conn # NoLink BY <1>1, <1>6, <2>1 DEF TakenInv
  <2>3. r.conn # NoLink => r.conn = btConn /\ r.on = r.conn /\ r.ops
    BY <1>1, <1>6 DEF TakenInv
  <2>4. r.conn # NoLink => session BY <1>1, <2>3 DEF OneReference
  <2>5. r.on # NoLink BY <1>1, <1>6, <2>1 DEF TakenInv
  <2> QED BY <1>6, <2>1, <2>2, <2>3, <2>4, <2>5 DEF FitsSession
<1>9. /\ LooseTypes' /\ OneReference' /\ OpenInSession' /\ TakenInv'
      /\ bearer'[b] = r
      /\ \A a \in Bearers : a # b => bearer'[a] = bearer[a]
  BY <1>2, <1>5, <1>8, BearerParts
<1>10. RxInv' BY <1>2 DEF RxInv, Nothing
<1>11. Servers \subseteq Bearers BY DEF Bearers
<1>12. ServerInv' BY <1>1, <1>2, <1>7, <1>9, <1>11 DEF ServerInv
<1>13. ServerCreditsKept'
  <2> SUFFICES ASSUME NEW a \in Servers, bearer'[a].chan = "open"
               PROVE  bearer'[a].credits + (IF rx' = <<"received", a>> THEN 1 ELSE 0)
                          = MaxQueuedRx
    BY DEF ServerCreditsKept, CreditsKept
  <2>1. rx # <<"received", a>> /\ rx' # <<"received", a>> BY <1>2, Kinds DEF Nothing
  <2>2. CASE a = b
    <3>1. bearer[b].credits = MaxQueuedRx BY <1>1, <1>2, <2>2 DEF RxInv
    <3> QED BY <1>6, <1>9, <2>1, <2>2, <3>1, QueueAssumption
  <2>3. CASE a # b
    <3>1. bearer'[a] = bearer[a] BY <1>9, <1>11, <2>3
    <3> QED BY <1>1, <2>1, <3>1 DEF ServerCreditsKept, CreditsKept
  <2> QED BY <2>2, <2>3
<1> QED BY <1>9, <1>10, <1>12, <1>13 DEF IInv

------------------------------------------------------------------------------
(* Data: what is queued and sent leaves the rest of a bearer alone.        *)

LEMMA CountsStep ==
    ASSUME IInv, UNCHANGED <<link, btConn, refs, session, rx>>,
           NEW b \in Bearers, NEW r \in Record, bearer' = [bearer EXCEPT ![b] = r],
           r.conn = bearer[b].conn, r.ops = bearer[b].ops, r.chan = bearer[b].chan,
           r.on = bearer[b].on, r.credits = bearer[b].credits, r.open = bearer[b].open
    PROVE  IInv'
<1>1. OpenInSession /\ TakenInv /\ RxInv BY DEF IInv
<1>2. FitsSession(r) BY <1>1 DEF FitsSession, TakenInv, OpenInSession
<1>3. Held(b) => r.on = bearer[b].on /\ r.chan \in Live
  BY <1>1 DEF Held, RxInv, Busy
<1> QED BY <1>2, <1>3, BearerStep

(* A bearer with other counts of what is queued, sent and not sent.        *)
Counted(b, q, d, u) == [bearer[b] EXCEPT !.txq = q, !.sentDue = d, !.unsent = u]

LEMMA CountedStep ==
    ASSUME IInv, UNCHANGED <<link, btConn, refs, session, rx>>,
           NEW b \in Bearers, NEW q \in Int, NEW d \in Int, NEW u \in Int,
           bearer' = [bearer EXCEPT ![b] = Counted(b, q, d, u)]
    PROVE  IInv'
<1> DEFINE r == Counted(b, q, d, u)
<1>1. bearer[b] \in Record BY DEF IInv, LooseTypes
<1>2. r \in Record BY <1>1 DEF Record, Counted
<1>3. /\ r.conn = bearer[b].conn /\ r.ops = bearer[b].ops /\ r.chan = bearer[b].chan
      /\ r.on = bearer[b].on /\ r.credits = bearer[b].credits
      /\ r.open = bearer[b].open
  BY <1>1 DEF Record, Counted
<1>4. bearer' = [bearer EXCEPT ![b] = r] OBVIOUS
<1> HIDE DEF r
<1> QED BY <1>2, <1>3, <1>4, CountsStep

LEMMA SendKeeps ==
    ASSUME IInv, NEW b \in Bearers, Send(b) \/ Transmit(b) \/ OnSent(b) PROVE IInv'
<1>1. LooseTypes /\ OneReference /\ OpenInSession /\ TakenInv /\ RxInv /\ ServerInv
  BY DEF IInv
<1>2. bearer[b] \in Record BY <1>1 DEF LooseTypes
<1>3. UNCHANGED <<link, btConn, refs, session, rx>>
  BY DEF Send, Transmit, OnSent, linkVars
<1>4. /\ bearer[b].txq \in Int /\ bearer[b].sentDue \in Int /\ bearer[b].unsent \in Int
  BY <1>2 DEF Record
<1>5. CASE UNCHANGED bearer BY <1>3, <1>5, IdleStep
<1>6. CASE Send(b) /\ Carries(b) /\ ~ UNCHANGED bearer
  <2>1. bearer' = [bearer EXCEPT ![b].txq = @ + 1, ![b].sentDue = @ + 1, ![b].unsent = @ + 1]
    BY <1>6 DEF Send, Queued
  <2>2. bearer' = [bearer EXCEPT ![b] =
            Counted(b, bearer[b].txq + 1, bearer[b].sentDue + 1, bearer[b].unsent + 1)]
    BY <1>1, <1>2, <2>1 DEF LooseTypes, Record, Counted
  <2>3. /\ bearer[b].txq + 1 \in Int /\ bearer[b].sentDue + 1 \in Int
        /\ bearer[b].unsent + 1 \in Int
    BY <1>4
  <2> QED BY <1>3, <2>2, <2>3, CountedStep
<1>7. CASE Send(b) /\ ~ Carries(b) /\ ~ UNCHANGED bearer
  <2>1. bearer' = [bearer EXCEPT ![b].unsent = @ + 1]
    BY <1>7 DEF Send, Refused
  <2>2. bearer' = [bearer EXCEPT ![b] =
            Counted(b, bearer[b].txq, bearer[b].sentDue, bearer[b].unsent + 1)]
    BY <1>1, <1>2, <2>1 DEF LooseTypes, Record, Counted
  <2>3. bearer[b].unsent + 1 \in Int BY <1>4
  <2> QED BY <1>3, <1>4, <2>2, <2>3, CountedStep
<1>8. CASE Transmit(b)
  <2>1. bearer' = [bearer EXCEPT ![b].txq = @ - 1]
    BY <1>8 DEF Transmit
  <2>2. bearer' = [bearer EXCEPT ![b] =
            Counted(b, bearer[b].txq - 1, bearer[b].sentDue, bearer[b].unsent)]
    BY <1>1, <1>2, <2>1 DEF LooseTypes, Record, Counted
  <2>3. bearer[b].txq - 1 \in Int BY <1>4
  <2> QED BY <1>3, <1>4, <2>2, <2>3, CountedStep
<1>9. CASE OnSent(b)
  <2> DEFINE u == IF bearer[b].ops THEN bearer[b].unsent - 1 ELSE bearer[b].unsent
  <2>1. bearer' = [bearer EXCEPT ![b].sentDue = @ - 1, ![b].unsent = u]
    BY <1>9 DEF OnSent
  <2>2. u \in Int BY <1>4
  <2> HIDE DEF u
  <2>3. bearer' = [bearer EXCEPT ![b] =
            Counted(b, bearer[b].txq, bearer[b].sentDue - 1, u)]
    BY <1>1, <1>2, <2>1 DEF LooseTypes, Record, Counted
  <2>4. bearer[b].sentDue - 1 \in Int BY <1>4
  <2> QED BY <1>3, <1>4, <2>2, <2>3, <2>4, CountedStep
<1> QED BY <1>5, <1>6, <1>7, <1>8, <1>9

LEMMA OnReceivedKeeps ==
    ASSUME IInv, NEW b \in Bearers, OnReceived(b) PROVE IInv'
<1>1. /\ LooseTypes /\ OneReference /\ OpenInSession /\ TakenInv /\ RxInv /\ ServerInv
      /\ ServerCreditsKept
  BY DEF IInv
<1> DEFINE r == [bearer[b] EXCEPT !.credits = @ - 1]
<1>2. /\ rx[1] = Nothing /\ bearer[b].chan = "open" /\ link[bearer[b].on] = "up"
      /\ rx' = <<"received", b>> /\ rx'[1] = "received" /\ rx'[2] = b
      /\ UNCHANGED <<link, btConn, refs, session>>
      /\ bearer' = [bearer EXCEPT ![b] = r]
  BY Kinds DEF OnReceived, Carries, linkVars
<1>3. bearer[b] \in Record BY <1>1 DEF LooseTypes
<1>4. /\ r \in Record /\ r.credits = bearer[b].credits - 1
      /\ r.conn = bearer[b].conn /\ r.on = bearer[b].on /\ r.ops = bearer[b].ops
      /\ r.chan = bearer[b].chan /\ r.open = bearer[b].open
  BY <1>3 DEF Record
<1>5. bearer[b].credits \in Int BY <1>3 DEF Record
<1> HIDE DEF r
<1>6. FitsSession(r) BY <1>1, <1>4 DEF FitsSession, TakenInv, OpenInSession
<1>7. /\ LooseTypes' /\ OneReference' /\ OpenInSession' /\ TakenInv'
      /\ bearer'[b] = r
      /\ \A a \in Bearers : a # b => bearer'[a] = bearer[a]
  BY <1>2, <1>4, <1>6, BearerParts
<1>8. Busy(b)'
  <2>1. bearer[b].on \in Links \union {NoLink} BY <1>3 DEF Record
  <2>2. bearer[b].on # NoLink BY <1>1, <1>2 DEF TakenInv, Live
  <2> QED BY <1>2, <1>4, <1>7, <2>1, <2>2 DEF Busy, Alive, Live
<1>9. RxInv' BY <1>2, <1>8 DEF RxInv
<1>10. Servers \subseteq Bearers BY DEF Bearers
<1>11. ServerInv' BY <1>1, <1>2, <1>4, <1>7, <1>10 DEF ServerInv, Nothing
<1>12. ServerCreditsKept'
  <2> SUFFICES ASSUME NEW a \in Servers, bearer'[a].chan = "open"
               PROVE  bearer'[a].credits + (IF rx' = <<"received", a>> THEN 1 ELSE 0)
                          = MaxQueuedRx
    BY DEF ServerCreditsKept, CreditsKept
  <2>1. rx # <<"received", a>> BY <1>2, Kinds DEF Nothing
  <2>2. CASE a = b
    <3>1. bearer[b].credits + 0 = MaxQueuedRx
      BY <1>1, <1>2, <2>1, <2>2 DEF ServerCreditsKept, CreditsKept
    <3> QED BY <1>2, <1>4, <1>5, <1>7, <2>2, <3>1
  <2>3. CASE a # b
    <3>1. bearer'[a] = bearer[a] /\ rx' # <<"received", a>>
      BY <1>2, <1>7, <1>10, <2>3, Kinds
    <3> QED BY <1>1, <2>1, <3>1 DEF ServerCreditsKept, CreditsKept
  <2> QED BY <2>2, <2>3
<1> QED BY <1>7, <1>9, <1>11, <1>12 DEF IInv

LEMMA GiveCreditKeeps ==
    ASSUME IInv, NEW b \in Bearers, GiveCredit(b) PROVE IInv'
<1>1. /\ LooseTypes /\ OneReference /\ OpenInSession /\ TakenInv /\ RxInv /\ ServerInv
      /\ ServerCreditsKept
  BY DEF IInv
<1> DEFINE r == [bearer[b] EXCEPT !.credits = @ + 1]
<1>2. /\ rx = <<"received", b>> /\ rx[1] = "received" /\ rx[2] = b
      /\ rx' = Idle /\ rx'[1] = Nothing
      /\ UNCHANGED <<link, btConn, refs, session>>
      /\ bearer' = [bearer EXCEPT ![b] = r]
  BY Kinds DEF GiveCredit, linkVars
<1>3. bearer[b] \in Record BY <1>1 DEF LooseTypes
<1>4. /\ r \in Record /\ r.credits = bearer[b].credits + 1
      /\ r.conn = bearer[b].conn /\ r.on = bearer[b].on /\ r.ops = bearer[b].ops
      /\ r.chan = bearer[b].chan /\ r.open = bearer[b].open
  BY <1>3 DEF Record
<1>5. bearer[b].credits \in Int BY <1>3 DEF Record
<1> HIDE DEF r
<1>6. FitsSession(r) BY <1>1, <1>4 DEF FitsSession, TakenInv, OpenInSession
<1>7. /\ LooseTypes' /\ OneReference' /\ OpenInSession' /\ TakenInv'
      /\ bearer'[b] = r
      /\ \A a \in Bearers : a # b => bearer'[a] = bearer[a]
  BY <1>2, <1>4, <1>6, BearerParts
<1>9. RxInv' BY <1>2 DEF RxInv, Nothing
<1>10. Servers \subseteq Bearers BY DEF Bearers
<1>11. ServerInv' BY <1>1, <1>2, <1>4, <1>7, <1>10 DEF ServerInv
<1>12. ServerCreditsKept'
  <2> SUFFICES ASSUME NEW a \in Servers, bearer'[a].chan = "open"
               PROVE  bearer'[a].credits + (IF rx' = <<"received", a>> THEN 1 ELSE 0)
                          = MaxQueuedRx
    BY DEF ServerCreditsKept, CreditsKept
  <2>1. rx' # <<"received", a>> BY <1>2, Kinds DEF Nothing
  <2>2. CASE a = b
    <3>1. bearer[b].credits + 1 = MaxQueuedRx
      BY <1>1, <1>2, <1>4, <1>7, <2>2 DEF ServerCreditsKept, CreditsKept
    <3> QED BY <1>4, <1>5, <1>7, <2>1, <2>2, <3>1, QueueAssumption
  <2>3. CASE a # b
    <3>1. bearer'[a] = bearer[a] /\ rx # <<"received", a>>
      BY <1>2, <1>7, <1>10, <2>3, Kinds
    <3> QED BY <1>1, <2>1, <3>1 DEF ServerCreditsKept, CreditsKept
  <2> QED BY <2>2, <2>3
<1> QED BY <1>7, <1>9, <1>11, <1>12 DEF IInv

------------------------------------------------------------------------------
(* Channels close. *)

LEMMA CloseKeeps ==
    ASSUME IInv, NEW b \in Bearers, Close(b) PROVE IInv'
<1>1. LooseTypes /\ OpenInSession /\ TakenInv /\ RxInv BY DEF IInv
<1> DEFINE r == [bearer[b] EXCEPT !.chan = "closing"]
<1>2. /\ bearer[b].chan = "open" /\ bearer' = [bearer EXCEPT ![b] = r]
      /\ UNCHANGED <<link, btConn, refs, session, rx>>
  BY DEF Close, linkVars
<1>3. bearer[b] \in Record BY <1>1 DEF LooseTypes
<1>4. /\ r \in Record /\ r.chan = "closing"
      /\ r.conn = bearer[b].conn /\ r.on = bearer[b].on /\ r.ops = bearer[b].ops
      /\ r.credits = bearer[b].credits /\ r.open = bearer[b].open
  BY <1>3 DEF Record
<1> HIDE DEF r
<1>5. FitsSession(r) BY <1>1, <1>2, <1>4 DEF FitsSession, TakenInv, OpenInSession, Live
<1>6. Held(b) => r.on = bearer[b].on /\ r.chan \in Live BY <1>4 DEF Live
<1>7. ~ (rx[1] = "credits" /\ rx[2] = b) BY <1>1, <1>2 DEF RxInv
<1> QED BY <1>2, <1>4, <1>5, <1>6, <1>7, BearerStep

LEMMA CleanupKeeps ==
    ASSUME IInv, NEW b \in Bearers, Cleanup(b) PROVE IInv'
<1>1. LooseTypes /\ OpenInSession /\ TakenInv /\ RxInv BY DEF IInv
<1> DEFINE to == IF bearer[b].conn # NoLink /\ bearer[b].chan \in {"connecting", "open"}
                 THEN "closing" ELSE bearer[b].chan
           r == [bearer[b] EXCEPT !.chan = to, !.conn = NoLink, !.ops = FALSE,
                                  !.open = FALSE]
<1>2. b \in Clients /\ UNCHANGED <<link, btConn, refs, session, rx>>
  BY DEF Cleanup, linkVars
<1>3. bearer' = [bearer EXCEPT ![b] = r] BY DEF Cleanup
<1>4. bearer[b] \in Record BY <1>1 DEF LooseTypes
<1>5. /\ to \in {"none", "connecting", "open", "closing", "closed"}
      /\ to \in Live <=> bearer[b].chan \in Live
  BY <1>4 DEF Record, Live
<1> HIDE DEF to
<1>6. NoLink \in Links \union {NoLink} /\ FALSE \in BOOLEAN OBVIOUS
<1>7. r \in Record BY <1>4, <1>5, <1>6 DEF Record
<1>8. r.chan = to /\ r.conn = NoLink /\ r.on = bearer[b].on
  BY <1>4 DEF Record
<1>9. ~ r.ops /\ ~ r.open BY <1>4 DEF Record
<1> HIDE DEF r
<1>10. FitsSession(r) BY <1>1, <1>5, <1>8, <1>9 DEF FitsSession, TakenInv
<1>11. Held(b) => r.on = bearer[b].on /\ r.chan \in Live
  BY <1>1, <1>5, <1>8 DEF Held, RxInv, Busy
<1>12. b \notin Servers BY <1>2, BearerAssumption
<1>13. ~ (rx[1] = "credits" /\ rx[2] = b) BY <1>1, <1>12 DEF RxInv
<1> QED BY <1>2, <1>3, <1>7, <1>10, <1>11, <1>12, <1>13, BearerStep

(* A bearer whose channel is over belongs to nobody.                       *)
LEMMA OverStep ==
    ASSUME IInv, UNCHANGED <<link, btConn, refs, session, rx>>,
           NEW b \in Bearers, NEW r \in Record, bearer' = [bearer EXCEPT ![b] = r],
           ~ Held(b), r.chan \in {"none", "closed"}, r.conn = NoLink, ~ r.open
    PROVE  IInv'
<1>1. FitsSession(r) BY DEF FitsSession, Live
<1>2. ~ (rx[1] = "credits" /\ rx[2] = b) BY DEF Held
<1>3. b \in Servers => bearer[b].chan # "connecting"
  BY DEF IInv, ServerInv, Held
<1> QED BY <1>1, <1>2, <1>3, BearerStep

(* disconnected leaves a bearer that belongs to nobody.                    *)
LEMMA DisconnectedIs ==
    ASSUME LooseTypes, OneReference, OpenInSession, TakenInv, NEW b \in Bearers
    PROVE  /\ Disconnected(bearer[b]) \in Record
           /\ Disconnected(bearer[b]).conn = NoLink
           /\ ~ Disconnected(bearer[b]).open
<1>1. bearer[b] \in Record BY DEF LooseTypes
<1>2. CASE bearer[b].ops
  <2> DEFINE r == [bearer[b] EXCEPT !.conn = NoLink, !.open = FALSE, !.unsent = 0]
  <2>1. NoLink \in Links \union {NoLink} /\ FALSE \in BOOLEAN /\ 0 \in Int OBVIOUS
  <2>2. r \in Record BY <1>1, <2>1 DEF Record
  <2>3. r.conn = NoLink /\ ~ r.open BY <1>1 DEF Record
  <2>4. Disconnected(bearer[b]) = r BY <1>2 DEF Disconnected
  <2> QED BY <2>2, <2>3, <2>4
<1>3. CASE ~ bearer[b].ops
  <2>1. Disconnected(bearer[b]) = bearer[b] BY <1>3 DEF Disconnected
  <2>2. bearer[b].conn = NoLink BY <1>3 DEF TakenInv
  <2>3. ~ bearer[b].open BY <2>2 DEF OpenInSession, OneReference
  <2> QED BY <1>1, <2>1, <2>2, <2>3
<1> QED BY <1>2, <1>3

LEMMA ForgottenIs ==
    ASSUME NEW q \in Record
    PROVE  /\ Forgotten(q) \in Record /\ Forgotten(q).chan = "none"
           /\ Forgotten(q).conn = q.conn /\ Forgotten(q).open = q.open
<1>1. /\ NoLink \in Links \union {NoLink} /\ 0 \in Int
      /\ "none" \in {"none", "connecting", "open", "closing", "closed"}
  OBVIOUS
<1>2. Forgotten(q) \in Record BY <1>1 DEF Forgotten, Record
<1>3. Forgotten(q).chan = "none" /\ Forgotten(q).conn = q.conn BY DEF Forgotten, Record
<1>4. Forgotten(q).open = q.open BY DEF Forgotten, Record
<1> QED BY <1>2, <1>3, <1>4

LEMMA ChannelClosedKeeps ==
    ASSUME IInv, NEW b \in Bearers, ChannelClosed(b) PROVE IInv'
<1>1. LooseTypes /\ OneReference /\ OpenInSession /\ TakenInv BY DEF IInv
<1> DEFINE d == Disconnected(bearer[b])
           r == Forgotten(d)
<1>2. rx[1] = Nothing /\ UNCHANGED <<link, btConn, refs, session, rx>>
  BY Kinds DEF ChannelClosed, linkVars
<1>3. bearer' = [bearer EXCEPT ![b] = r] BY DEF ChannelClosed
<1>4. d \in Record /\ d.conn = NoLink /\ ~ d.open BY <1>1, DisconnectedIs
<1> HIDE DEF d
<1>5. r \in Record /\ r.chan = "none" /\ r.conn = NoLink /\ ~ r.open
  BY <1>4, ForgottenIs
<1>6. ~ Held(b) BY <1>2 DEF Held, Nothing
<1> HIDE DEF r
<1> QED BY <1>2, <1>3, <1>5, <1>6, OverStep

LEMMA ChannelDownKeeps ==
    ASSUME IInv, NEW b \in Bearers, ChannelDown(b) PROVE IInv'
<1>1. LooseTypes /\ OneReference /\ OpenInSession /\ TakenInv /\ RxInv BY DEF IInv
<1> DEFINE d == Disconnected(bearer[b])
           r == [d EXCEPT !.chan = "closed"]
<1>2. /\ link[bearer[b].on] = "down"
      /\ UNCHANGED <<link, btConn, refs, session, rx>>
  BY DEF ChannelDown, linkVars
<1>3. bearer' = [bearer EXCEPT ![b] = r] BY DEF ChannelDown
<1>4. d \in Record /\ d.conn = NoLink /\ ~ d.open BY <1>1, DisconnectedIs
<1> HIDE DEF d
<1>5. r \in Record BY <1>4 DEF Record
<1>6. r.chan = "closed" /\ r.conn = NoLink BY <1>4 DEF Record
<1>7. ~ r.open BY <1>4 DEF Record
<1>8. ~ Held(b) BY <1>1, <1>2 DEF Held, RxInv, Busy, Alive
<1> HIDE DEF r
<1> QED BY <1>2, <1>3, <1>5, <1>6, <1>7, <1>8, OverStep

LEMMA ChannelFreedKeeps ==
    ASSUME IInv, NEW b \in Bearers, ChannelFreed(b) PROVE IInv'
<1>1. LooseTypes /\ OneReference /\ OpenInSession /\ TakenInv /\ RxInv BY DEF IInv
<1> DEFINE r == Forgotten(bearer[b])
<1>2. bearer[b].chan = "closed" /\ UNCHANGED <<link, btConn, refs, session, rx>>
  BY DEF ChannelFreed, linkVars
<1>3. bearer' = [bearer EXCEPT ![b] = r] BY DEF ChannelFreed
<1>4. bearer[b] \in Record BY <1>1 DEF LooseTypes
<1>5. bearer[b].conn = NoLink BY <1>1, <1>2 DEF TakenInv, Live
<1>6. ~ bearer[b].open BY <1>1, <1>5 DEF OpenInSession, OneReference
<1>7. r \in Record /\ r.chan = "none" /\ r.conn = NoLink /\ ~ r.open
  BY <1>4, <1>5, <1>6, ForgottenIs
<1>8. ~ Held(b) BY <1>1, <1>2 DEF Held, RxInv, Busy, Live
<1> HIDE DEF r
<1> QED BY <1>2, <1>3, <1>7, <1>8, OverStep

------------------------------------------------------------------------------

LEMMA StepIInv == IInv /\ [Next]_vars => IInv'
<1> SUFFICES ASSUME IInv, [Next]_vars PROVE IInv'
  OBVIOUS
<1>1. CASE UNCHANGED vars
  <2>1. UNCHANGED <<link, btConn, refs, session, rx, bearer>>
    BY <1>1 DEF vars, linkVars
  <2>2. LooseTypes /\ OneReference /\ OpenInSession /\ TakenInv /\ RxInv BY DEF IInv
  <2>3. LooseTypes' /\ OneReference' /\ OpenInSession' /\ TakenInv'
    BY <2>1, <2>2 DEF LooseTypes, OneReference, OpenInSession, TakenInv
  <2>4. RxInv' BY <2>1, <2>2 DEF RxInv, Busy, Alive
  <2> QED BY <2>1, <2>3, <2>4, LinkStep
<1>2. ASSUME NEW c \in Links,
             \/ \E ours \in BOOLEAN : LinkUp(c, ours)
             \/ OnConnected(c) \/ LinkLost(c) \/ LinkDown(c) \/ OnDisconnected(c)
      PROVE  IInv'
  BY <1>2, LinksKeep
<1>3. ASSUME NEW b \in Bearers, NEW c \in Links,
             \/ AcceptBegin(b, c) \/ AcceptCheck(b, c) \/ ServerAccept(b, c)
             \/ InitClient(b, c)
      PROVE  IInv'
  BY <1>3, AcceptKeeps, ServerAcceptKeeps, InitClientKeeps
<1>4. ASSUME NEW b \in Bearers,
             ServerCredits(b) \/ ClientAnswer(b) \/ OnOpen(b)
      PROVE  IInv'
  BY <1>4, ServerCreditsKeeps, ClientAnswerKeeps, OnOpenKeeps
<1>5. ASSUME NEW b \in Bearers,
             Send(b) \/ Transmit(b) \/ OnSent(b) \/ OnReceived(b) \/ GiveCredit(b)
      PROVE  IInv'
  BY <1>5, SendKeeps, OnReceivedKeeps, GiveCreditKeeps
<1>6. ASSUME NEW b \in Bearers,
             \/ Close(b) \/ Cleanup(b)
             \/ ChannelClosed(b) \/ ChannelDown(b) \/ ChannelFreed(b)
      PROVE  IInv'
  BY <1>6, CloseKeeps, CleanupKeeps, ChannelClosedKeeps, ChannelDownKeeps,
     ChannelFreedKeeps
<1> QED BY <1>1, <1>2, <1>3, <1>4, <1>5, <1>6 DEF Next, RxStep, WorkQueueStep

LEMMA Inductive == Spec => []IInv
BY InitIInv, StepIInv, PTL DEF Spec

(* A session holds one reference, on its own link, and every open bearer   *)
(* is on that link: on_connected and on_disconnected pair up, whatever the *)
(* receive thread, the work queue and main do in between.                  *)
THEOREM SessionIsWhole == Spec => []SessionHolds
<1>1. IInv => SessionHolds BY DEF IInv, SessionHolds
<1> QED BY <1>1, Inductive, PTL

(* A server's channel loses none of the credits it was opened with: accept *)
(* gives them and seg_recv restores each that a received buffer took.      *)
THEOREM CreditsReturn == Spec => []ServerCreditsKept
<1>1. IInv => ServerCreditsKept BY DEF IInv
<1> QED BY <1>1, Inductive, PTL

(* A bearer is taken only while the stack has a channel for it, whose end  *)
(* disconnected or cleanup will be told of.                                *)
THEOREM BearersComeBack == Spec => []TakenHasChannel
<1>1. IInv => TakenHasChannel BY DEF IInv, TakenInv, TakenHasChannel, Live
<1> QED BY <1>1, Inductive, PTL

------------------------------------------------------------------------------
(* The transmit pool. *)

(* The answers to come on a bearer are for sends the library has not heard *)
(* of, and they and the buffers queued are gone before it opens again.     *)
NothingQueued(r) == r.txq = 0 /\ r.sentDue = 0 /\ ~ r.open

CountsFit(r) ==
    /\ r.txq \in 0 .. PoolSize /\ r.sentDue \in 0 .. MaxUnsent
    /\ r.unsent \in 0 .. MaxUnsent
    /\ r.ops /\ r.chan \in Live => r.sentDue <= r.unsent
    /\ r.chan \in {"none", "connecting"} => NothingQueued(r)

CountsInv ==
    /\ \A b \in Bearers : CountsFit(bearer[b])
    /\ rx[1] = "open" => NothingQueued(bearer[rx[2]])

(* A channel is on the link of the session until the work queue has freed  *)
(* it, so that no bearer is taken again with buffers left in its queue.    *)
Placed(r) ==
    /\ r.chan # "none" => r.on = btConn /\ r.on # NoLink
    /\ r.chan = "closed" => link[r.on] = "down"

PlacedInv ==
    /\ \A b \in Bearers : Placed(bearer[b])
    /\ \A b \in Servers : bearer[b].chan # "none" => bearer[b].ops
    /\ rx[1] \in {"accept", "accepted"} => bearer[rx[2]].conn = NoLink

Receiving(b, x) == IF x = <<"received", b>> THEN 1 ELSE 0

CreditsBound ==
    \A b \in Bearers :
        bearer[b].credits >= 0 /\ bearer[b].credits + Receiving(b, rx) <= MaxQueuedRx

(* The buffers of the pool that are in a queue, one place for each.        *)
Places(q) == {s \in Bearers \X (1 .. PoolSize) : s[2] <= q[s[1]]}
Queues == [b \in Bearers |-> bearer[b].txq]

FreeInv == free \in Nat /\ free = PoolSize - Cardinality(Places(Queues))

PoolInv == CountsInv /\ PlacedInv /\ CreditsBound /\ FreeInv

LEMMA PlacesFinite ==
    ASSUME NEW q \in [Bearers -> 0 .. PoolSize]
    PROVE  IsFiniteSet(Places(q)) /\ Cardinality(Places(q)) \in Nat
<1> DEFINE S == Bearers \X (1 .. PoolSize)
<1>1. IsFiniteSet(1 .. PoolSize) BY FS_Interval, QueueAssumption
<1>2. IsFiniteSet(S) BY <1>1, FS_Product, BearerAssumption
<1>3. Places(q) \in SUBSET S BY DEF Places
<1>4. IsFiniteSet(Places(q)) BY <1>2, <1>3, FS_Subset
<1> QED BY <1>4, FS_CardinalityType

(* The places of one queue and of the others.                              *)
LEMMA PlacesOfOne ==
    ASSUME NEW q \in [Bearers -> 0 .. PoolSize], NEW b \in Bearers
    PROVE  LET others == {s \in Places(q) : s[1] # b}
           IN  /\ IsFiniteSet(others)
               /\ Cardinality(Places(q)) = Cardinality(others) + q[b]
               /\ q[b] <= Cardinality(Places(q))
<1> DEFINE others == {s \in Places(q) : s[1] # b}
           own == {b} \X (1 .. q[b])
<1>1. IsFiniteSet(Places(q)) BY PlacesFinite
<1>2. IsFiniteSet(others) BY <1>1, FS_Subset
<1>3. q[b] \in 0 .. PoolSize /\ PoolSize \in Nat BY QueueAssumption
<1>4. IsFiniteSet(1 .. q[b]) /\ Cardinality(1 .. q[b]) = q[b] BY <1>3, FS_Interval
<1>5. IsFiniteSet({b}) /\ Cardinality({b}) = 1 BY FS_Singleton
<1>6. IsFiniteSet(own) /\ Cardinality(own) = 1 * q[b]
  BY <1>4, <1>5, FS_Product
<1>7. Places(q) = others \cup own BY <1>3 DEF Places
<1>8. others \cap own = {} OBVIOUS
<1>9. Cardinality(Places(q)) = Cardinality(others) + Cardinality(own) - 0
  BY <1>2, <1>6, <1>7, <1>8, FS_Union, FS_EmptySet
<1>10. Cardinality(others) \in Nat /\ Cardinality(own) \in Nat
  BY <1>2, <1>6, FS_CardinalityType
<1> QED BY <1>2, <1>3, <1>6, <1>9, <1>10

(* One queue changes, and the places taken by as much.                     *)
LEMMA PlacesChange ==
    ASSUME NEW q \in [Bearers -> 0 .. PoolSize], NEW b \in Bearers,
           NEW n \in 0 .. PoolSize
    PROVE  Cardinality(Places([q EXCEPT ![b] = n])) + q[b] = Cardinality(Places(q)) + n
<1> DEFINE p == [q EXCEPT ![b] = n]
<1>1. p \in [Bearers -> 0 .. PoolSize] /\ p[b] = n OBVIOUS
<1> DEFINE others(f) == {s \in Places(f) : s[1] # b}
<1>2. others(p) = others(q) BY DEF Places
<1>3. IsFiniteSet(others(q)) /\ Cardinality(Places(q)) = Cardinality(others(q)) + q[b]
  BY PlacesOfOne
<1>4. Cardinality(Places(p)) = Cardinality(others(p)) + p[b]
  BY <1>1, PlacesOfOne
<1>5. Cardinality(others(q)) \in Nat BY <1>3, FS_CardinalityType
<1>6. q[b] \in Int /\ n \in Int BY QueueAssumption
<1> HIDE DEF others
<1> QED BY <1>1, <1>2, <1>3, <1>4, <1>5, <1>6

LEMMA PoolTypes ==
    ASSUME PoolInv
    PROVE  /\ PoolSize \in Nat
           /\ Queues \in [Bearers -> 0 .. PoolSize]
           /\ Cardinality(Places(Queues)) \in Nat
           /\ free \in 0 .. PoolSize
<1>1. PoolSize \in Nat BY QueueAssumption
<1>2. Queues \in [Bearers -> 0 .. PoolSize]
  <2>1. \A a \in Bearers : bearer[a].txq \in 0 .. PoolSize
    BY DEF PoolInv, CountsInv, CountsFit
  <2> QED BY <2>1 DEF Queues
<1>3. Cardinality(Places(Queues)) \in Nat BY <1>2, PlacesFinite
<1>4. free \in 0 .. PoolSize BY <1>1, <1>3 DEF PoolInv, FreeInv
<1> QED BY <1>1, <1>2, <1>3, <1>4

(* One bearer changes to r; the receive thread may be done with something. *)
LEMMA PoolStep ==
    ASSUME IInv, PoolInv, UNCHANGED <<link, btConn>>,
           NEW b \in Bearers, NEW r \in Record, bearer' = [bearer EXCEPT ![b] = r],
           CountsFit(r), Placed(r), b \in Servers /\ r.chan # "none" => r.ops,
           r.credits >= 0, r.credits + Receiving(b, rx') <= MaxQueuedRx,
           \A a \in Bearers : a # b => Receiving(a, rx') <= Receiving(a, rx),
           rx'[1] = "open" => IF rx'[2] = b THEN NothingQueued(r) ELSE rx' = rx,
           rx'[1] \in {"accept", "accepted"} => rx' = rx /\ (rx[2] = b => r.conn = NoLink),
           free' = free + bearer[b].txq - r.txq /\ free' \in Nat
    PROVE  PoolInv'
<1>1. /\ bearer' \in [Bearers -> Record] /\ bearer'[b] = r
      /\ \A a \in Bearers : a # b => bearer'[a] = bearer[a]
  BY OneBearer DEF IInv
<1>2. CountsInv /\ PlacedInv /\ CreditsBound /\ FreeInv BY DEF PoolInv
<1>3. Servers \subseteq Bearers BY DEF Bearers
<1>4. RxInv /\ LooseTypes BY DEF IInv
<1>5. CountsInv'
  <2>1. \A a \in Bearers : CountsFit(bearer'[a]) BY <1>1, <1>2 DEF CountsInv
  <2>2. rx'[1] = "open" => NothingQueued(bearer'[rx'[2]])
    <3>1. CASE rx'[2] = b BY <1>1, <3>1
    <3>2. CASE rx'[2] # b
      <4>1. rx'[1] = "open" => rx[2] \in Bearers /\ rx' = rx
        BY <1>4, <3>2 DEF RxInv, Busy
      <4> QED BY <1>1, <1>2, <3>2, <4>1 DEF CountsInv
    <3> QED BY <3>1, <3>2
  <2> QED BY <2>1, <2>2 DEF CountsInv, CountsFit, NothingQueued
<1>6. PlacedInv'
  <2>1. \A a \in Bearers : Placed(bearer'[a]) BY <1>1, <1>2 DEF PlacedInv
  <2>2. \A a \in Bearers : Placed(bearer[a])' BY <2>1 DEF Placed
  <2>3. \A a \in Servers : bearer'[a].chan # "none" => bearer'[a].ops
    BY <1>1, <1>2, <1>3 DEF PlacedInv
  <2>4. rx'[1] \in {"accept", "accepted"} => bearer'[rx'[2]].conn = NoLink
    <3>1. CASE rx[2] = b BY <1>1, <3>1
    <3>2. CASE rx[2] # b
      <4>1. rx'[1] \in {"accept", "accepted"} => rx[2] \in Bearers /\ rx' = rx
        BY <1>3, <1>4, <3>2 DEF RxInv
      <4> QED BY <1>1, <1>2, <3>2, <4>1 DEF PlacedInv
    <3> QED BY <3>1, <3>2
  <2> QED BY <2>2, <2>3, <2>4 DEF PlacedInv
<1>7. CreditsBound'
  <2> SUFFICES ASSUME NEW a \in Bearers
               PROVE  /\ bearer'[a].credits >= 0
                      /\ bearer'[a].credits + Receiving(a, rx') <= MaxQueuedRx
    BY DEF CreditsBound, Receiving
  <2>1. CASE a = b BY <1>1, <2>1
  <2>2. CASE a # b
    <3>1. bearer[a].credits >= 0 /\ bearer[a].credits + Receiving(a, rx) <= MaxQueuedRx
      BY <1>2 DEF CreditsBound
    <3>2. /\ bearer[a].credits \in Int /\ MaxQueuedRx \in Int
          /\ Receiving(a, rx) \in Int /\ Receiving(a, rx') \in Int
      BY <1>4, QueueAssumption DEF LooseTypes, Record, Receiving
    <3>3. Receiving(a, rx') <= Receiving(a, rx) BY <2>2
    <3> QED BY <1>1, <2>2, <3>1, <3>2, <3>3
  <2> QED BY <2>1, <2>2
<1>8. FreeInv'
  <2>1. Queues \in [Bearers -> 0 .. PoolSize] /\ Queues[b] = bearer[b].txq
    <3>1. \A a \in Bearers : bearer[a].txq \in 0 .. PoolSize
      BY <1>2, QueueAssumption DEF CountsInv, CountsFit
    <3> QED BY <3>1 DEF Queues
  <2>2. r.txq \in 0 .. PoolSize BY QueueAssumption DEF CountsFit
  <2>3. Queues' = [Queues EXCEPT ![b] = r.txq] BY <1>1 DEF Queues
  <2>4. Cardinality(Places(Queues')) + bearer[b].txq = Cardinality(Places(Queues)) + r.txq
    <3> DEFINE q == Queues
    <3>1. Queues' = [q EXCEPT ![b] = r.txq] BY <2>3
    <3>2. q \in [Bearers -> 0 .. PoolSize] /\ q[b] = bearer[b].txq BY <2>1
    <3> HIDE DEF q
    <3>3. Cardinality(Places([q EXCEPT ![b] = r.txq])) + q[b]
            = Cardinality(Places(q)) + r.txq
      BY <2>2, <3>2, PlacesChange
    <3> QED BY <3>1, <3>2, <3>3 DEF q
  <2>5. Cardinality(Places(Queues)) \in Nat BY <2>1, PlacesFinite
  <2>6. Queues' \in [Bearers -> 0 .. PoolSize] BY <2>1, <2>2, <2>3
  <2>7. Cardinality(Places(Queues')) \in Nat BY <2>6, PlacesFinite
  <2>8. PoolSize \in Nat
    BY QueueAssumption
  <2>9. bearer[b].txq \in Int /\ r.txq \in Int BY <2>1, <2>2
  <2>10. free = PoolSize - Cardinality(Places(Queues)) BY <1>2 DEF FreeInv
  <2>11. free' = PoolSize - Cardinality(Places(Queues'))
    BY <2>4, <2>5, <2>7, <2>8, <2>9, <2>10
  <2>12. Places(Queues)' = Places(Queues') BY DEF Places
  <2> QED BY <2>11, <2>12 DEF FreeInv
<1> QED BY <1>5, <1>6, <1>7, <1>8 DEF PoolInv

(* No bearer changes, and the receive thread begins or ends something.     *)
LEMMA PoolRest ==
    ASSUME IInv, PoolInv, UNCHANGED <<bearer, free>>, PlacedInv',
           rx'[1] = "open" => rx' = rx \/ NothingQueued(bearer[rx'[2]]),
           rx'[1] = "received" => rx' = rx
    PROVE  PoolInv'
<1>1. CountsInv /\ CreditsBound /\ FreeInv BY DEF PoolInv
<1>2. CountsInv' BY <1>1 DEF CountsInv, CountsFit, NothingQueued
<1>3. CreditsBound'
  <2> SUFFICES ASSUME NEW a \in Bearers
               PROVE  /\ bearer[a].credits >= 0
                      /\ bearer[a].credits + Receiving(a, rx') <= MaxQueuedRx
    BY DEF CreditsBound, Receiving
  <2>1. bearer[a].credits >= 0 /\ bearer[a].credits + Receiving(a, rx) <= MaxQueuedRx
    BY <1>1 DEF CreditsBound
  <2>2. Receiving(a, rx') \in {0, Receiving(a, rx)} BY Kinds DEF Receiving
  <2>3. bearer[a].credits \in Int /\ MaxQueuedRx \in Int /\ Receiving(a, rx) \in {0, 1}
    BY QueueAssumption DEF IInv, LooseTypes, Record, Receiving
  <2> QED BY <2>1, <2>2, <2>3
<1>4. FreeInv' BY <1>1 DEF FreeInv, Places, Queues
<1> QED BY <1>2, <1>3, <1>4 DEF PoolInv

LEMMA LinksKeepPool ==
    ASSUME IInv, PoolInv, NEW c \in Links,
           \/ \E ours \in BOOLEAN : LinkUp(c, ours)
           \/ OnConnected(c) \/ LinkLost(c) \/ LinkDown(c) \/ OnDisconnected(c)
    PROVE  PoolInv'
<1>1. LooseTypes /\ OneReference /\ OpenInSession /\ TakenInv /\ RxInv BY DEF IInv
<1>2. PlacedInv BY DEF PoolInv
<1>3. UNCHANGED <<bearer, free>> /\ (rx' = rx \/ rx'[1] \in {Nothing, "connected"})
  BY Kinds DEF LinkUp, OnConnected, LinkLost, LinkDown, OnDisconnected
<1>4. \A b \in Bearers : Placed(bearer[b])'
  <2>1. CASE OnConnected(c)
    <3>1. ~ session /\ btConn = NoLink
      BY <1>1, <2>1, Kinds DEF OnConnected, RxInv, OneReference
    <3>2. \A b \in Bearers : bearer[b].chan = "none"
      BY <1>2, <3>1 DEF PlacedInv, Placed
    <3> QED BY <1>3, <3>2 DEF Placed
  <2>2. CASE OnDisconnected(c)
    <3>1. /\ \A b \in Bearers : bearer[b].on # c
          /\ btConn' \in {btConn, NoLink} /\ (c # btConn => btConn' = btConn)
          /\ \A d \in Links : d # c => link'[d] = link[d]
      BY <1>1, <2>2 DEF OnDisconnected, LooseTypes
    <3>2. ASSUME NEW b \in Bearers PROVE Placed(bearer[b])'
      <4>1. bearer[b].on \in Links \union {NoLink} BY <1>1 DEF LooseTypes, Record
      <4> QED BY <1>2, <1>3, <3>1, <4>1 DEF PlacedInv, Placed
    <3> QED BY <3>2
  <2>3. CASE LinkLost(c) \/ LinkDown(c) \/ \E ours \in BOOLEAN : LinkUp(c, ours)
    <3>1. /\ btConn' = btConn /\ link[c] \in {"up", "lost", "free"}
          /\ \A d \in Links : d # c => link'[d] = link[d]
      BY <1>1, <2>3 DEF LinkLost, LinkDown, LinkUp, LooseTypes
    <3>2. ASSUME NEW b \in Bearers PROVE Placed(bearer[b])'
      <4>1. bearer[b].on \in Links \union {NoLink} BY <1>1 DEF LooseTypes, Record
      <4> QED BY <1>2, <1>3, <3>1, <4>1 DEF PlacedInv, Placed
    <3> QED BY <3>2
  <2> QED BY <2>1, <2>2, <2>3
<1>5. PlacedInv' BY <1>2, <1>3, <1>4 DEF PlacedInv, Nothing
<1> QED BY <1>3, <1>5, PoolRest DEF Nothing

LEMMA AcceptKeepsPool ==
    ASSUME IInv, PoolInv, NEW b \in Bearers, NEW c \in Links,
           AcceptBegin(b, c) \/ AcceptCheck(b, c) \/ ClientAnswer(b)
    PROVE  PoolInv'
<1>1. CountsInv /\ PlacedInv BY DEF PoolInv
<1>2. UNCHANGED <<link, btConn, bearer, free>>
  BY DEF AcceptBegin, AcceptCheck, ClientAnswer, linkVars
<1>3. CASE AcceptBegin(b, c)
  <2>1. rx'[1] = "accept" /\ rx'[2] = b /\ bearer[b].conn = NoLink
    BY <1>3, Kinds DEF AcceptBegin
  <2>2. PlacedInv' BY <1>1, <1>2, <2>1 DEF PlacedInv, Placed
  <2> QED BY <1>2, <2>1, <2>2, PoolRest
<1>4. CASE AcceptCheck(b, c)
  <2>1. /\ rx[1] = "accept" /\ rx[2] = b
        /\ \/ rx'[1] = "accepted" /\ rx'[2] = b
           \/ rx'[1] = Nothing
    BY <1>4, Kinds DEF AcceptCheck
  <2>2. PlacedInv' BY <1>1, <1>2, <2>1 DEF PlacedInv, Placed, Nothing
  <2> QED BY <1>2, <2>1, <2>2, PoolRest DEF Nothing
<1>5. CASE ClientAnswer(b)
  <2>1. rx'[1] = "open" /\ rx'[2] = b /\ bearer[b].chan = "connecting"
    BY <1>5, Kinds DEF ClientAnswer
  <2>2. PlacedInv' BY <1>1, <1>2, <2>1 DEF PlacedInv, Placed
  <2>3. NothingQueued(bearer[b]) BY <1>1, <2>1 DEF CountsInv, CountsFit
  <2> QED BY <1>2, <2>1, <2>2, <2>3, PoolRest
<1> QED BY <1>3, <1>4, <1>5

(* A bearer is taken with nothing in its queue.                            *)
LEMMA TakenKeepsPool ==
    ASSUME IInv, PoolInv, NEW b \in Bearers, NEW c \in Links, c = btConn,
           UNCHANGED <<link, btConn, free>>, bearer[b].chan = "none",
           bearer' = [bearer EXCEPT ![b] = Taken(b, c)],
           (rx' = rx /\ b \notin Servers) \/ rx' = <<"credits", b>>
    PROVE  PoolInv'
<1>1. CountsInv /\ PlacedInv /\ CreditsBound BY DEF PoolInv
<1>2. LooseTypes /\ RxInv BY DEF IInv
<1> DEFINE r == Taken(b, c)
<1>3. /\ r \in Record /\ r.conn = c /\ r.on = c /\ r.ops
      /\ r.chan = "connecting" /\ r.credits = 0 /\ r.open = bearer[b].open
  BY <1>2, TakenIs
<1>4. r.txq = bearer[b].txq /\ r.sentDue = bearer[b].sentDue /\ r.unsent = bearer[b].unsent
  BY <1>2 DEF LooseTypes, Record, Taken
<1> HIDE DEF r
<1>5. NothingQueued(bearer[b]) /\ bearer[b].unsent \in 0 .. MaxUnsent
  BY <1>1 DEF CountsInv, CountsFit
<1>6. CountsFit(r) BY <1>3, <1>4, <1>5, QueueAssumption DEF CountsFit, NothingQueued
<1>7. c # NoLink BY BearerAssumption
<1>8. Placed(r) BY <1>3, <1>7 DEF Placed
<1>9. rx # <<"received", b>> /\ rx # <<"open", b>>
  BY <1>2, Kinds DEF RxInv, Busy, Live
<1>10. Receiving(b, rx') = 0 /\ \A a \in Bearers : Receiving(a, rx') <= Receiving(a, rx)
  BY <1>9, Kinds DEF Receiving
<1>11. r.credits >= 0 /\ r.credits + Receiving(b, rx') <= MaxQueuedRx
  BY <1>3, <1>10, QueueAssumption
<1>12. rx'[1] = "open" => rx'[2] # b /\ rx' = rx
  BY <1>2, <1>9, Kinds DEF RxInv
<1>13. rx'[1] \in {"accept", "accepted"} => rx' = rx /\ rx[2] # b
  BY <1>2, Kinds DEF RxInv
<1>14. free' = free + bearer[b].txq - r.txq /\ free' \in Nat
  <2>1. bearer[b].txq = 0 BY <1>5 DEF NothingQueued
  <2>2. free \in Nat BY DEF PoolInv, FreeInv
  <2> QED BY <1>4, <2>1, <2>2
<1> QED BY <1>3, <1>6, <1>8, <1>10, <1>11, <1>12, <1>13, <1>14, PoolStep DEF r

LEMMA TakeKeepsPool ==
    ASSUME IInv, PoolInv, NEW b \in Bearers, NEW c \in Links,
           ServerAccept(b, c) \/ InitClient(b, c)
    PROVE  PoolInv'
<1>1. LooseTypes /\ TakenInv /\ RxInv BY DEF IInv
<1>2. PlacedInv BY DEF PoolInv
<1>0. CASE UNCHANGED bearer /\ InitClient(b, c)
  <2>1. UNCHANGED <<link, btConn, rx, free>> BY <1>0 DEF InitClient, linkVars
  <2>2. PlacedInv' BY <1>0, <1>2, <2>1 DEF PlacedInv, Placed
  <2> QED BY <1>0, <2>1, <2>2, PoolRest
<1> SUFFICES ASSUME ~ (UNCHANGED bearer /\ InitClient(b, c)) PROVE PoolInv'
  BY <1>0
<1>3. UNCHANGED <<link, btConn, free>> /\ bearer' = [bearer EXCEPT ![b] = Taken(b, c)]
  BY <1>1, TakenIs DEF ServerAccept, InitClient, linkVars
<1>4. CASE InitClient(b, c)
  <2>1. c = btConn /\ bearer[b].chan = "none" /\ rx' = rx /\ b \notin Servers
    BY <1>4, BearerAssumption DEF InitClient
  <2> QED BY <1>3, <2>1, TakenKeepsPool
<1>5. CASE ServerAccept(b, c)
  <2>1. rx[1] = "accepted" /\ rx[2] = b /\ rx[3] = c /\ rx' = <<"credits", b>>
    BY <1>5, Kinds DEF ServerAccept
  <2>2. b \in Servers /\ c = btConn /\ Alive(c) /\ bearer[b].conn = NoLink
    BY <1>1, <1>2, <2>1 DEF RxInv, PlacedInv
  <2>3. bearer[b].chan # "closed"
    BY <1>2, <2>2 DEF PlacedInv, Placed, Alive
  <2>4. bearer[b].chan \notin Live
    BY <1>1, <1>2, <2>2 DEF TakenInv, PlacedInv, Live
  <2>5. bearer[b].chan = "none"
    BY <1>1, <2>3, <2>4 DEF LooseTypes, Record, Live
  <2> QED BY <1>3, <2>1, <2>2, <2>5, TakenKeepsPool
<1> QED BY <1>4, <1>5

(* Steps that only count: the channel and its link stay what they are.     *)
LEMMA CountsKeepPool ==
    ASSUME IInv, PoolInv, UNCHANGED <<link, btConn>>,
           NEW b \in Bearers, NEW r \in Record, bearer' = [bearer EXCEPT ![b] = r],
           r.conn = bearer[b].conn, r.on = bearer[b].on, r.chan = bearer[b].chan,
           r.ops = bearer[b].ops, CountsFit(r),
           rx' = rx \/ rx'[1] = Nothing \/ rx' = <<"received", b>>
                    \/ rx' = <<"open", b>>,
           rx'[1] = "open" => rx'[2] # b \/ NothingQueued(r),
           r.credits >= 0, r.credits + Receiving(b, rx') <= MaxQueuedRx,
           free' = free + bearer[b].txq - r.txq /\ free' \in Nat
    PROVE  PoolInv'
<1>1. PlacedInv BY DEF PoolInv
<1>2. Placed(r) BY <1>1 DEF PlacedInv, Placed
<1>3. b \in Servers /\ r.chan # "none" => r.ops BY <1>1 DEF PlacedInv
<1>4. \A a \in Bearers : a # b => Receiving(a, rx') <= Receiving(a, rx)
  BY Kinds DEF Receiving, Nothing
<1>5. rx'[1] = "open" => IF rx'[2] = b THEN NothingQueued(r) ELSE rx' = rx
  BY Kinds DEF Nothing
<1>6. rx'[1] \in {"accept", "accepted"} => rx' = rx /\ (rx[2] = b => r.conn = NoLink)
  BY <1>1, Kinds DEF PlacedInv, Nothing
<1> QED BY <1>2, <1>3, <1>4, <1>5, <1>6, PoolStep

(* What PoolInv says of one bearer.                                        *)
LEMMA PoolHere ==
    ASSUME IInv, PoolInv, NEW b \in Bearers
    PROVE  /\ bearer[b] \in Record /\ CountsFit(bearer[b]) /\ Placed(bearer[b])
           /\ bearer[b].credits >= 0
           /\ bearer[b].credits + Receiving(b, rx) <= MaxQueuedRx
           /\ bearer[b].credits <= MaxQueuedRx /\ bearer[b].credits \in Int
           /\ free \in Nat /\ bearer[b].txq \in Nat
           /\ MaxUnsent \in Nat /\ MaxQueuedRx \in Nat
<1>1. /\ CountsFit(bearer[b]) /\ Placed(bearer[b])
      /\ bearer[b].credits >= 0
      /\ bearer[b].credits + Receiving(b, rx) <= MaxQueuedRx
  BY DEF PoolInv, CountsInv, PlacedInv, CreditsBound
<1>2. bearer[b] \in Record /\ bearer[b].credits \in Int
  BY DEF IInv, LooseTypes, Record
<1>3. Receiving(b, rx) \in {0, 1} BY DEF Receiving
<1>4. free \in Nat /\ PoolSize \in Nat BY PoolTypes
<1>5. bearer[b].txq \in Nat BY <1>1, <1>4 DEF CountsFit
<1> QED BY <1>1, <1>2, <1>3, <1>4, <1>5, QueueAssumption

LEMMA FlowKeepsPool ==
    ASSUME IInv, PoolInv, NEW b \in Bearers,
           ServerCredits(b) \/ OnReceived(b) \/ GiveCredit(b)
    PROVE  PoolInv'
<1>1. RxInv BY DEF IInv
<1>2. /\ bearer[b] \in Record /\ CountsFit(bearer[b]) /\ bearer[b].credits >= 0
      /\ bearer[b].credits + Receiving(b, rx) <= MaxQueuedRx
      /\ bearer[b].credits <= MaxQueuedRx /\ bearer[b].credits \in Int
      /\ free \in Nat /\ bearer[b].txq \in Nat /\ MaxQueuedRx \in Nat
  BY PoolHere
<1> DEFINE n == IF ServerCredits(b) THEN bearer[b].credits + MaxQueuedRx
                ELSE IF OnReceived(b) THEN bearer[b].credits - 1
                ELSE bearer[b].credits + 1
           r == [bearer[b] EXCEPT !.credits = n]
<1>3. /\ UNCHANGED <<link, btConn, free>> /\ bearer' = [bearer EXCEPT ![b] = r]
      /\ rx'[1] = Nothing \/ rx' = <<"received", b>> \/ rx' = <<"open", b>>
  BY Kinds DEF ServerCredits, OnReceived, GiveCredit, linkVars
<1>4. n >= 0 /\ n \in Int /\ n + Receiving(b, rx') <= MaxQueuedRx
  <2>1. CASE ServerCredits(b)
    <3>1. rx[1] = "credits" /\ rx[2] = b /\ rx' = <<"open", b>>
      BY <2>1, Kinds DEF ServerCredits
    <3>2. bearer[b].credits = 0 BY <1>1, <3>1 DEF RxInv
    <3>3. Receiving(b, rx') = 0 BY <3>1, Kinds DEF Receiving
    <3> QED BY <1>2, <2>1, <3>2, <3>3
  <2>2. CASE OnReceived(b)
    <3>1. bearer[b].credits > 0 /\ rx' = <<"received", b>> /\ rx[1] = Nothing
      BY <2>2, Kinds DEF OnReceived
    <3>2. ~ ServerCredits(b) BY <3>1, Kinds DEF ServerCredits, Nothing
    <3>3. Receiving(b, rx') = 1 BY <3>1 DEF Receiving
    <3> QED BY <1>2, <2>2, <3>1, <3>2, <3>3
  <2>3. CASE GiveCredit(b)
    <3>1. rx = <<"received", b>> /\ rx'[1] = Nothing BY <2>3, Kinds DEF GiveCredit
    <3>2. ~ ServerCredits(b) /\ ~ OnReceived(b)
      BY <3>1, Kinds DEF ServerCredits, OnReceived, Nothing
    <3>3. Receiving(b, rx) = 1 /\ Receiving(b, rx') = 0
      BY <3>1, Kinds DEF Receiving, Nothing
    <3> QED BY <1>2, <3>2, <3>3
  <2> QED BY <2>1, <2>2, <2>3
<1> HIDE DEF n
<1>5. /\ r \in Record /\ r.credits = n /\ r.conn = bearer[b].conn /\ r.on = bearer[b].on
      /\ r.chan = bearer[b].chan /\ r.ops = bearer[b].ops /\ r.open = bearer[b].open
      /\ r.txq = bearer[b].txq /\ r.sentDue = bearer[b].sentDue
      /\ r.unsent = bearer[b].unsent
  BY <1>2, <1>4 DEF Record
<1>6. rx' = <<"open", b>> => NothingQueued(bearer[b])
  <2>1. rx' = <<"open", b>> => rx[1] = "credits" /\ rx[2] = b
    BY Kinds DEF ServerCredits, OnReceived, GiveCredit, Nothing
  <2>2. rx' = <<"open", b>> => bearer[b].chan = "connecting" BY <1>1, <2>1 DEF RxInv
  <2> QED BY <1>2, <2>2 DEF CountsFit
<1> HIDE DEF r
<1>7. CountsFit(r) BY <1>2, <1>5 DEF CountsFit, NothingQueued
<1>8. rx'[1] = "open" => rx'[2] # b \/ NothingQueued(r)
  BY <1>3, <1>5, <1>6, Kinds DEF NothingQueued, Nothing
<1>9. free' = free + bearer[b].txq - r.txq /\ free' \in Nat
  <2>1. bearer[b].txq \in Nat BY <1>2
  <2> QED BY <1>2, <1>3, <1>5, <2>1
<1>10. r.credits >= 0 /\ r.credits + Receiving(b, rx') <= MaxQueuedRx BY <1>4, <1>5
<1> QED BY <1>3, <1>5, <1>7, <1>8, <1>9, <1>10, CountsKeepPool

(* The library is told of a channel with nothing in its queue.             *)
LEMMA OnOpenKeepsPool ==
    ASSUME IInv, PoolInv, NEW b \in Bearers, OnOpen(b) PROVE PoolInv'
<1>1. CountsInv /\ PlacedInv /\ RxInv BY DEF IInv, PoolInv
<1>2. /\ bearer[b] \in Record /\ CountsFit(bearer[b]) /\ Placed(bearer[b])
      /\ bearer[b].credits >= 0 /\ bearer[b].credits <= MaxQueuedRx
      /\ bearer[b].credits \in Int /\ free \in Nat /\ MaxQueuedRx \in Nat
  BY PoolHere
<1> DEFINE to == IF bearer[b].chan = "connecting" THEN "open" ELSE bearer[b].chan
           r == [bearer[b] EXCEPT !.chan = to, !.open = bearer[b].ops, !.unsent = 0]
<1>3. /\ rx = <<"open", b>> /\ rx[1] = "open" /\ rx[2] = b /\ rx'[1] = Nothing
      /\ UNCHANGED <<link, btConn, free>>
  BY Kinds DEF OnOpen, linkVars
<1>4. bearer' = [bearer EXCEPT ![b] = r] BY DEF OnOpen
<1>5. NothingQueued(bearer[b]) /\ Busy(b) BY <1>1, <1>3 DEF CountsInv, RxInv
<1>6. /\ to \in {"none", "connecting", "open", "closing", "closed"}
      /\ to \in {"open", "closing"}
  BY <1>2, <1>5 DEF Record, Busy, Live
<1> HIDE DEF to
<1>7. bearer[b].ops \in BOOLEAN /\ 0 \in Int BY <1>2 DEF Record
<1>8. r \in Record BY <1>2, <1>6, <1>7 DEF Record
<1>9. /\ r.credits = bearer[b].credits /\ r.conn = bearer[b].conn
      /\ r.on = bearer[b].on /\ r.chan = to /\ r.ops = bearer[b].ops
  BY <1>2 DEF Record
<1>10. r.txq = bearer[b].txq /\ r.sentDue = bearer[b].sentDue /\ r.unsent = 0
  BY <1>2 DEF Record
<1> HIDE DEF r
<1>11. CountsFit(r)
  BY <1>2, <1>5, <1>6, <1>9, <1>10, QueueAssumption DEF CountsFit, NothingQueued
<1>12. bearer[b].chan # "none" /\ bearer[b].chan # "closed" BY <1>5 DEF Busy, Live
<1>13. Placed(r) /\ (b \in Servers => r.ops)
  BY <1>1, <1>2, <1>6, <1>9, <1>12 DEF Placed, PlacedInv
<1>14. /\ Receiving(b, rx') = 0
       /\ \A a \in Bearers : a # b => Receiving(a, rx') <= Receiving(a, rx)
  BY <1>3, Kinds DEF Receiving, Nothing
<1>15. r.credits >= 0 /\ r.credits + Receiving(b, rx') <= MaxQueuedRx
  BY <1>2, <1>9, <1>14
<1>16. free' = free + bearer[b].txq - r.txq /\ free' \in Nat
  BY <1>2, <1>3, <1>5, <1>10 DEF NothingQueued
<1>17. rx'[1] \notin {"open", "accept", "accepted"} BY <1>3 DEF Nothing
<1> QED BY <1>3, <1>4, <1>8, <1>11, <1>13, <1>14, <1>15, <1>16, <1>17, PoolStep

(* The buffers of one bearer are all taken only if none is free.           *)
LEMMA SendKeepsPool ==
    ASSUME IInv, PoolInv, NEW b \in Bearers, Send(b) \/ Transmit(b) \/ OnSent(b)
    PROVE  PoolInv' /\ failed' \in {failed, "tx_pool"}
<1>1. OneReference /\ OpenInSession /\ TakenInv /\ LooseTypes /\ PlacedInv
  BY DEF IInv, PoolInv
<1>2. /\ bearer[b] \in Record /\ CountsFit(bearer[b]) /\ bearer[b].credits >= 0
      /\ bearer[b].credits + Receiving(b, rx) <= MaxQueuedRx /\ free \in Nat
      /\ bearer[b].txq \in Nat /\ MaxUnsent \in Nat
  BY PoolHere
<1>3. UNCHANGED <<link, btConn, rx>>
  BY DEF Send, Transmit, OnSent, linkVars
<1>4. rx[1] = "open" => rx[2] # b \/ NothingQueued(bearer[b]) BY DEF PoolInv, CountsInv
<1>5. ASSUME NEW q \in 0 .. PoolSize, NEW d \in 0 .. MaxUnsent, NEW u \in 0 .. MaxUnsent,
             bearer' = [bearer EXCEPT ![b] = Counted(b, q, d, u)],
             bearer[b].ops => d <= u,
             ~ NothingQueued(bearer[b]),
             free' = free + bearer[b].txq - q, free' \in Nat
      PROVE  PoolInv'
  <2> DEFINE r == Counted(b, q, d, u)
  <2>1. /\ r \in Record /\ r.conn = bearer[b].conn /\ r.ops = bearer[b].ops
        /\ r.chan = bearer[b].chan /\ r.on = bearer[b].on
        /\ r.credits = bearer[b].credits
    <3>1. q \in Int /\ d \in Int /\ u \in Int BY QueueAssumption
    <3>2. r \in Record BY <1>2, <3>1 DEF Record, Counted
    <3> QED BY <1>2, <3>2 DEF Record, Counted
  <2>2. r.txq = q /\ r.sentDue = d /\ r.unsent = u BY <1>2 DEF Record, Counted
  <2>3. bearer' = [bearer EXCEPT ![b] = r] BY <1>5
  <2> HIDE DEF r
  <2>4. CountsFit(r)
    <3>1. bearer[b].chan \notin {"none", "connecting"} BY <1>2, <1>5 DEF CountsFit
    <3> QED BY <1>5, <2>1, <2>2, <3>1 DEF CountsFit
  <2>5. free' = free + bearer[b].txq - r.txq /\ free' \in Nat BY <1>5, <2>2
  <2> QED BY <1>2, <1>3, <1>4, <1>5, <2>1, <2>3, <2>4, <2>5, CountsKeepPool
<1>6. CASE Send(b) /\ free = 0
  <2>1. UNCHANGED <<bearer, free>> /\ failed' \in {failed, "tx_pool"} BY <1>6 DEF Send
  <2>2. PlacedInv' BY <1>1, <1>3, <2>1 DEF PlacedInv, Placed
  <2> QED BY <1>3, <2>1, <2>2, PoolRest
<1>7. CASE Send(b) /\ free > 0
  <2>1. /\ bearer[b].open /\ bearer[b].conn # NoLink /\ bearer[b].unsent < MaxUnsent
        /\ free > 0 /\ failed' = failed
    BY <1>7 DEF Send
  <2>2. bearer[b].ops /\ bearer[b].chan \in Live BY <1>1, <2>1 DEF TakenInv
  <2>3. ~ NothingQueued(bearer[b]) BY <2>1 DEF NothingQueued
  <2> DEFINE u == bearer[b].unsent + 1
  <2>4. /\ bearer[b].txq \in 0 .. PoolSize /\ bearer[b].sentDue \in 0 .. MaxUnsent
        /\ bearer[b].sentDue <= bearer[b].unsent /\ bearer[b].unsent \in 0 .. MaxUnsent
        /\ u \in 0 .. MaxUnsent
    BY <1>2, <2>1, <2>2 DEF CountsFit
  <2>5. CASE Carries(b)
    <3> DEFINE q == bearer[b].txq + 1
               d == bearer[b].sentDue + 1
    <3>1. free' = free - 1 /\ bearer' = Queued(b) BY <1>7, <2>5 DEF Send
    <3>2. bearer' = [bearer EXCEPT ![b] = Counted(b, q, d, u)]
      BY <1>1, <1>2, <3>1 DEF LooseTypes, Record, Counted, Queued
    <3>3. q \in 0 .. PoolSize
      <4>1. Queues \in [Bearers -> 0 .. PoolSize] /\ Queues[b] = bearer[b].txq
        BY PoolTypes DEF Queues
      <4>2. Queues[b] <= Cardinality(Places(Queues))
        <5> DEFINE p == Queues
        <5>1. p \in [Bearers -> 0 .. PoolSize] BY <4>1
        <5> HIDE DEF p
        <5>2. p[b] <= Cardinality(Places(p)) BY <5>1, PlacesOfOne
        <5> QED BY <5>2 DEF p
      <4>3. free = PoolSize - Cardinality(Places(Queues)) BY DEF PoolInv, FreeInv
      <4>4. Cardinality(Places(Queues)) \in Nat /\ PoolSize \in Nat BY PoolTypes
      <4> QED BY <1>2, <2>1, <4>1, <4>2, <4>3, <4>4
    <3>4. d \in 0 .. MaxUnsent /\ d <= u BY <1>2, <2>1, <2>4
    <3>5. free' = free + bearer[b].txq - q /\ free' \in Nat BY <1>2, <2>1, <3>1
    <3> HIDE DEF q, d, u
    <3> QED BY <1>5, <2>1, <2>3, <2>4, <3>2, <3>3, <3>4, <3>5
  <2>6. CASE ~ Carries(b)
    <3> DEFINE q == bearer[b].txq
               d == bearer[b].sentDue
    <3>1. free' = free /\ bearer' = Refused(b) BY <1>7, <2>1, <2>6 DEF Send
    <3>2. bearer' = [bearer EXCEPT ![b] = Counted(b, q, d, u)]
      BY <1>1, <1>2, <3>1 DEF LooseTypes, Record, Counted, Refused
    <3>3. d \in 0 .. MaxUnsent /\ d <= u BY <1>2, <2>4
    <3>4. free' = free + bearer[b].txq - q /\ free' \in Nat BY <1>2, <3>1
    <3>5. q \in 0 .. PoolSize BY <2>4
    <3> HIDE DEF q, d, u
    <3> QED BY <1>5, <2>1, <2>3, <2>4, <3>2, <3>3, <3>4, <3>5
  <2> QED BY <2>5, <2>6
<1>8. CASE Transmit(b)
  <2> DEFINE q == bearer[b].txq - 1
             d == bearer[b].sentDue
             u == bearer[b].unsent
  <2>1. /\ bearer[b].chan = "open" /\ bearer[b].txq > 0 /\ free' = free + 1
        /\ bearer' = [bearer EXCEPT ![b].txq = @ - 1]
        /\ failed' = failed
    BY <1>8 DEF Transmit, Carries
  <2>2. bearer' = [bearer EXCEPT ![b] = Counted(b, q, d, u)]
    BY <1>1, <1>2, <2>1 DEF LooseTypes, Record, Counted
  <2>3. /\ bearer[b].txq \in 0 .. PoolSize /\ d \in 0 .. MaxUnsent /\ u \in 0 .. MaxUnsent
        /\ bearer[b].ops => d <= u
    BY <1>2, <2>1 DEF CountsFit, Live
  <2>4. ~ NothingQueued(bearer[b]) BY <2>1 DEF NothingQueued
  <2>5. q \in 0 .. PoolSize /\ free' = free + bearer[b].txq - q /\ free' \in Nat
    BY <1>2, <2>1, <2>3, QueueAssumption
  <2> HIDE DEF q, u, d
  <2> QED BY <1>5, <2>1, <2>2, <2>3, <2>4, <2>5
<1>9. CASE OnSent(b)
  <2> DEFINE q == bearer[b].txq
             d == bearer[b].sentDue - 1
             u == IF bearer[b].ops THEN bearer[b].unsent - 1 ELSE bearer[b].unsent
  <2>1. /\ bearer[b].chan \in {"open", "closing"} /\ bearer[b].sentDue > 0
        /\ free' = free /\ failed' = failed
        /\ bearer' = [bearer EXCEPT ![b].sentDue = @ - 1, ![b].unsent = u]
    BY <1>9 DEF OnSent
  <2>2. /\ q \in 0 .. PoolSize /\ bearer[b].sentDue \in 0 .. MaxUnsent
        /\ bearer[b].unsent \in 0 .. MaxUnsent
        /\ bearer[b].ops => bearer[b].sentDue <= bearer[b].unsent
    BY <1>2, <2>1 DEF CountsFit, Live
  <2>3. /\ d \in 0 .. MaxUnsent /\ u \in 0 .. MaxUnsent /\ (bearer[b].ops => d <= u)
        /\ free' = free + bearer[b].txq - q /\ free' \in Nat
    BY <1>2, <2>1, <2>2
  <2> HIDE DEF u
  <2>4. bearer' = [bearer EXCEPT ![b] = Counted(b, q, d, u)]
    BY <1>1, <1>2, <2>1 DEF LooseTypes, Record, Counted
  <2>5. ~ NothingQueued(bearer[b]) BY <2>1 DEF NothingQueued
  <2> HIDE DEF q, d
  <2> QED BY <1>5, <2>1, <2>2, <2>3, <2>4, <2>5
<1> QED BY <1>2, <1>6, <1>7, <1>8, <1>9

(* A channel is on its way out with what was queued, or is freed with it.  *)
LEMMA EndsKeepPool ==
    ASSUME IInv, PoolInv, UNCHANGED <<link, btConn, rx>>,
           NEW b \in Bearers, NEW r \in Record, bearer' = [bearer EXCEPT ![b] = r],
           r.credits = bearer[b].credits, r.conn \in {bearer[b].conn, NoLink},
           r.open => bearer[b].open,
           CountsFit(r), Placed(r), b \in Servers /\ r.chan # "none" => r.ops,
           rx[1] = "open" /\ rx[2] = b => r.txq = bearer[b].txq /\ r.sentDue = bearer[b].sentDue,
           free' = free + bearer[b].txq - r.txq /\ free' \in Nat
    PROVE  PoolInv'
<1>1. CountsInv /\ PlacedInv BY DEF PoolInv
<1>2. r.credits >= 0 /\ r.credits + Receiving(b, rx') <= MaxQueuedRx BY PoolHere
<1>3. Receiving(b, rx) = 0 \/ Receiving(b, rx) = 1 BY DEF Receiving
<1>4. \A a \in Bearers : a # b => Receiving(a, rx') <= Receiving(a, rx)
  BY DEF Receiving
<1>5. rx'[1] = "open" => IF rx'[2] = b THEN NothingQueued(r) ELSE rx' = rx
  BY <1>1 DEF CountsInv, NothingQueued
<1>6. rx'[1] \in {"accept", "accepted"} => rx' = rx /\ (rx[2] = b => r.conn = NoLink)
  BY <1>1 DEF PlacedInv
<1> QED BY <1>2, <1>4, <1>5, <1>6, PoolStep

LEMMA CloseKeepsPool ==
    ASSUME IInv, PoolInv, NEW b \in Bearers, Close(b) \/ Cleanup(b)
    PROVE  PoolInv'
<1>1. /\ bearer[b] \in Record /\ CountsFit(bearer[b]) /\ Placed(bearer[b])
      /\ free \in Nat /\ bearer[b].txq \in Nat
  BY PoolHere
<1>2. UNCHANGED <<link, btConn, rx, free>> BY DEF Close, Cleanup, linkVars
<1>3. bearer[b].txq \in Nat BY <1>1
<1>4. b \in Servers /\ bearer[b].chan # "none" => bearer[b].ops
  BY DEF PoolInv, PlacedInv
<1>5. CASE Close(b)
  <2> DEFINE r == [bearer[b] EXCEPT !.chan = "closing"]
  <2>1. bearer[b].open /\ bearer[b].chan = "open" /\ bearer' = [bearer EXCEPT ![b] = r]
    BY <1>5 DEF Close
  <2>2. /\ r \in Record /\ r.chan = "closing" /\ r.conn = bearer[b].conn
        /\ r.on = bearer[b].on /\ r.ops = bearer[b].ops /\ r.open = bearer[b].open
    BY <1>1 DEF Record
  <2>3. /\ r.credits = bearer[b].credits /\ r.txq = bearer[b].txq
        /\ r.sentDue = bearer[b].sentDue /\ r.unsent = bearer[b].unsent
    BY <1>1 DEF Record
  <2> HIDE DEF r
  <2>4. CountsFit(r) /\ Placed(r)
    BY <1>1, <2>1, <2>2, <2>3 DEF CountsFit, Placed, Live
  <2>5. free' = free + bearer[b].txq - r.txq /\ free' \in Nat BY <1>1, <1>2, <1>3, <2>3
  <2> QED BY <1>2, <1>4, <2>1, <2>2, <2>3, <2>4, <2>5, EndsKeepPool
<1>6. CASE Cleanup(b)
  <2> DEFINE to == IF bearer[b].conn # NoLink /\ bearer[b].chan \in {"connecting", "open"}
                   THEN "closing" ELSE bearer[b].chan
             r == [bearer[b] EXCEPT !.chan = to, !.conn = NoLink, !.ops = FALSE,
                                    !.open = FALSE]
  <2>1. b \notin Servers /\ bearer' = [bearer EXCEPT ![b] = r]
    BY <1>6, BearerAssumption DEF Cleanup
  <2>2. /\ to \in {"none", "connecting", "open", "closing", "closed"}
        /\ to = "none" <=> bearer[b].chan = "none"
        /\ to = "closed" <=> bearer[b].chan = "closed"
        /\ to = "connecting" => bearer[b].chan = "connecting"
    BY <1>1 DEF Record
  <2> HIDE DEF to
  <2>3. NoLink \in Links \union {NoLink} /\ FALSE \in BOOLEAN OBVIOUS
  <2>4. r \in Record BY <1>1, <2>2, <2>3 DEF Record
  <2>5. r.chan = to /\ r.conn = NoLink /\ r.on = bearer[b].on BY <1>1 DEF Record
  <2>6. ~ r.open /\ ~ r.ops BY <1>1 DEF Record
  <2>7. /\ r.credits = bearer[b].credits /\ r.txq = bearer[b].txq
        /\ r.sentDue = bearer[b].sentDue /\ r.unsent = bearer[b].unsent
    BY <1>1 DEF Record
  <2> HIDE DEF r
  <2>8. CountsFit(r)
    BY <1>1, <2>2, <2>5, <2>6, <2>7 DEF CountsFit, NothingQueued
  <2>9. Placed(r) BY <1>1, <2>2, <2>5 DEF Placed
  <2>10. free' = free + bearer[b].txq - r.txq /\ free' \in Nat BY <1>1, <1>2, <1>3, <2>7
  <2> QED BY <1>2, <2>1, <2>4, <2>5, <2>6, <2>7, <2>8, <2>9, <2>10, EndsKeepPool
<1> QED BY <1>5, <1>6

(* disconnected changes neither the channel nor its queue.                 *)
LEMMA DisconnectedQueue ==
    ASSUME IInv, PoolInv, NEW b \in Bearers
    PROVE  LET d == Disconnected(bearer[b])
           IN  /\ d \in Record /\ d.conn = NoLink /\ ~ d.open
               /\ d.credits = bearer[b].credits /\ d.on = bearer[b].on
               /\ d.ops = bearer[b].ops /\ d.txq = bearer[b].txq
               /\ d.sentDue = bearer[b].sentDue /\ d.unsent \in 0 .. MaxUnsent
<1>1. bearer[b] \in Record /\ CountsFit(bearer[b]) /\ MaxUnsent \in Nat BY PoolHere
<1> DEFINE d == Disconnected(bearer[b])
<1>2. d \in Record /\ d.conn = NoLink /\ ~ d.open BY DisconnectedIs DEF IInv
<1>3. CASE bearer[b].ops
  <2>1. d = [bearer[b] EXCEPT !.conn = NoLink, !.open = FALSE, !.unsent = 0]
    BY <1>3 DEF Disconnected
  <2>2. d.credits = bearer[b].credits /\ d.on = bearer[b].on /\ d.ops = bearer[b].ops
    BY <1>1, <2>1 DEF Record
  <2>3. d.txq = bearer[b].txq /\ d.sentDue = bearer[b].sentDue /\ d.unsent = 0
    BY <1>1, <2>1 DEF Record
  <2> QED BY <1>1, <1>2, <2>2, <2>3
<1>4. CASE ~ bearer[b].ops
  <2>1. d = bearer[b] BY <1>4 DEF Disconnected
  <2> QED BY <1>1, <1>2, <2>1 DEF CountsFit
<1> QED BY <1>3, <1>4

LEMMA ForgottenQueue ==
    ASSUME NEW q \in Record
    PROVE  /\ Forgotten(q).txq = 0 /\ Forgotten(q).sentDue = 0
           /\ Forgotten(q).credits = q.credits /\ Forgotten(q).unsent = q.unsent
           /\ Forgotten(q).ops = q.ops
<1>1. Forgotten(q).txq = 0 /\ Forgotten(q).sentDue = 0 BY DEF Forgotten, Record
<1>2. Forgotten(q).credits = q.credits /\ Forgotten(q).unsent = q.unsent
  BY DEF Forgotten, Record
<1>3. Forgotten(q).ops = q.ops BY DEF Forgotten, Record
<1> QED BY <1>1, <1>2, <1>3

LEMMA EndKeepsPool ==
    ASSUME IInv, PoolInv, NEW b \in Bearers,
           ChannelClosed(b) \/ ChannelDown(b) \/ ChannelFreed(b)
    PROVE  PoolInv'
<1>1. RxInv /\ TakenInv /\ OpenInSession /\ OneReference BY DEF IInv
<1>2. /\ bearer[b] \in Record /\ CountsFit(bearer[b]) /\ Placed(bearer[b])
      /\ free \in Nat /\ bearer[b].txq \in Nat /\ MaxUnsent \in Nat
  BY PoolHere
<1>3. UNCHANGED <<link, btConn, rx>>
  BY DEF ChannelClosed, ChannelDown, ChannelFreed, linkVars
<1>4. bearer[b].txq \in Nat BY <1>2
<1>5. b \in Servers /\ bearer[b].chan # "none" => bearer[b].ops
  BY DEF PoolInv, PlacedInv
<1> DEFINE d == Disconnected(bearer[b])
<1>6. /\ d \in Record /\ d.conn = NoLink /\ ~ d.open
      /\ d.credits = bearer[b].credits /\ d.on = bearer[b].on
      /\ d.ops = bearer[b].ops /\ d.txq = bearer[b].txq
      /\ d.sentDue = bearer[b].sentDue /\ d.unsent \in 0 .. MaxUnsent
  BY DisconnectedQueue
<1>7. ~ Held(b)
  <2>1. bearer[b].chan = "closed" \/ link[bearer[b].on] = "down" \/ rx[1] = Nothing
    BY Kinds DEF ChannelClosed, ChannelDown, ChannelFreed
  <2> QED BY <1>1, <2>1 DEF Held, RxInv, Busy, Alive, Live, Nothing
<1>8. ~ (rx[1] = "open" /\ rx[2] = b) BY <1>7 DEF Held
<1>9. CASE ChannelClosed(b)
  <2> DEFINE r == Forgotten(d)
  <2>1. bearer' = [bearer EXCEPT ![b] = r] /\ free' = free + bearer[b].txq
    BY <1>9 DEF ChannelClosed
  <2> HIDE DEF d
  <2>2. r \in Record /\ r.chan = "none" /\ r.conn = NoLink /\ ~ r.open
    BY <1>6, ForgottenIs
  <2>3. /\ r.txq = 0 /\ r.sentDue = 0 /\ r.credits = bearer[b].credits
        /\ r.unsent \in 0 .. MaxUnsent
    BY <1>6, ForgottenQueue
  <2> HIDE DEF r
  <2>4. CountsFit(r) /\ Placed(r)
    BY <1>2, <2>2, <2>3, QueueAssumption DEF CountsFit, NothingQueued, Placed, Live
  <2>5. free' = free + bearer[b].txq - r.txq /\ free' \in Nat BY <1>2, <1>4, <2>1, <2>3
  <2> QED BY <1>3, <1>8, <2>1, <2>2, <2>3, <2>4, <2>5, EndsKeepPool
<1>10. CASE ChannelDown(b)
  <2> DEFINE r == [d EXCEPT !.chan = "closed"]
  <2>1. /\ bearer' = [bearer EXCEPT ![b] = r] /\ free' = free
        /\ bearer[b].chan \in Live /\ link[bearer[b].on] = "down"
    BY <1>10 DEF ChannelDown, Live
  <2> HIDE DEF d
  <2>2. r \in Record /\ r.chan = "closed" /\ r.conn = d.conn /\ r.open = d.open
    BY <1>6 DEF Record
  <2>3. r.credits = d.credits /\ r.on = d.on /\ r.ops = d.ops BY <1>6 DEF Record
  <2>4. r.txq = d.txq /\ r.sentDue = d.sentDue /\ r.unsent = d.unsent
    BY <1>6 DEF Record
  <2> HIDE DEF r
  <2>5. CountsFit(r) BY <1>2, <1>6, <2>2, <2>4 DEF CountsFit, Live
  <2>6. Placed(r) BY <1>2, <1>6, <2>1, <2>2, <2>3 DEF Placed, Live
  <2>7. b \in Servers => r.ops BY <1>5, <1>6, <2>1, <2>3 DEF Live
  <2>8. free' = free + bearer[b].txq - r.txq /\ free' \in Nat BY <1>2, <1>4, <1>6, <2>1, <2>4
  <2> QED BY <1>3, <1>6, <1>8, <2>1, <2>2, <2>3, <2>5, <2>6, <2>7, <2>8, EndsKeepPool
<1>11. CASE ChannelFreed(b)
  <2> DEFINE r == Forgotten(bearer[b])
  <2>1. /\ bearer' = [bearer EXCEPT ![b] = r] /\ free' = free + bearer[b].txq
        /\ bearer[b].chan = "closed"
    BY <1>11 DEF ChannelFreed
  <2>2. bearer[b].conn = NoLink BY <1>1, <2>1 DEF TakenInv, Live
  <2>3. ~ bearer[b].open BY <1>1, <2>2 DEF OpenInSession, OneReference
  <2>4. r \in Record /\ r.chan = "none" /\ r.conn = NoLink /\ ~ r.open
    BY <1>2, <2>2, <2>3, ForgottenIs
  <2>5. /\ r.txq = 0 /\ r.sentDue = 0 /\ r.credits = bearer[b].credits
        /\ r.unsent = bearer[b].unsent
    BY <1>2, ForgottenQueue
  <2> HIDE DEF r
  <2>6. CountsFit(r) /\ Placed(r)
    BY <1>2, <2>4, <2>5, QueueAssumption DEF CountsFit, NothingQueued, Placed, Live
  <2>7. free' = free + bearer[b].txq - r.txq /\ free' \in Nat BY <1>2, <1>4, <2>1, <2>5
  <2> QED BY <1>3, <1>8, <2>1, <2>4, <2>5, <2>6, <2>7, EndsKeepPool
<1> QED BY <1>9, <1>10, <1>11

------------------------------------------------------------------------------

PoolIInv ==
    IInv /\ PoolInv /\ failed \in {Nothing, "tx_pool", "link_params", "connect"}

LEMMA InitPool == Init => PoolIInv
<1> SUFFICES ASSUME Init PROVE PoolIInv
  OBVIOUS
<1>1. IInv BY InitIInv
<1>2. rx[1] = Nothing BY DEF Init, Idle
<1> DEFINE fresh == [conn |-> NoLink, ops |-> FALSE, chan |-> "none", on |-> NoLink,
                     credits |-> 0, txq |-> 0, sentDue |-> 0, open |-> FALSE,
                     unsent |-> 0]
<1>3. bearer = [b \in Bearers |-> fresh] BY DEF Init
<1>4. CountsFit(fresh) /\ Placed(fresh)
  BY QueueAssumption DEF CountsFit, NothingQueued, Placed
<1>5. CountsInv BY <1>2, <1>3, <1>4 DEF CountsInv, Nothing
<1>6. PlacedInv BY <1>2, <1>3, <1>4 DEF PlacedInv, Nothing, Bearers
<1>7. CreditsBound
  <2>1. \A b \in Bearers : Receiving(b, rx) = 0 BY <1>2, Kinds DEF Receiving, Nothing
  <2> QED BY <1>3, <2>1, QueueAssumption DEF CreditsBound
<1>8. FreeInv
  <2>1. Queues = [b \in Bearers |-> 0] BY <1>3 DEF Queues
  <2>2. Places(Queues) = {} BY <2>1, QueueAssumption DEF Places
  <2>3. PoolSize \in Nat
    BY QueueAssumption
  <2>4. free = PoolSize BY DEF Init
  <2> QED BY <2>2, <2>3, <2>4, FS_EmptySet DEF FreeInv
<1>9. failed = Nothing BY DEF Init
<1> QED BY <1>1, <1>5, <1>6, <1>7, <1>8, <1>9 DEF PoolIInv, PoolInv

LEMMA StepPool == PoolIInv /\ [Next]_vars => PoolIInv'
<1> SUFFICES ASSUME PoolIInv, [Next]_vars PROVE PoolIInv'
  OBVIOUS
<1>1. IInv /\ PoolInv BY DEF PoolIInv
<1>2. IInv' BY <1>1, StepIInv
<1>3. CASE UNCHANGED vars
  <2>1. UNCHANGED <<link, btConn, rx, bearer, free, failed>>
    BY <1>3 DEF vars, linkVars
  <2>2. PlacedInv' BY <1>1, <2>1 DEF PoolInv, PlacedInv, Placed
  <2>3. PoolInv' BY <1>1, <2>1, <2>2, PoolRest
  <2> QED BY <1>2, <2>1, <2>3 DEF PoolIInv
<1>4. ASSUME NEW c \in Links,
             \/ \E ours \in BOOLEAN : LinkUp(c, ours)
             \/ OnConnected(c) \/ LinkLost(c) \/ LinkDown(c) \/ OnDisconnected(c)
      PROVE  PoolIInv'
  <2>1. failed' \in {failed, "link_params"}
    BY <1>4 DEF LinkUp, OnConnected, LinkLost, LinkDown, OnDisconnected
  <2> QED BY <1>1, <1>2, <1>4, <2>1, LinksKeepPool DEF PoolIInv
<1>5. ASSUME NEW b \in Bearers, NEW c \in Links,
             \/ AcceptBegin(b, c) \/ AcceptCheck(b, c) \/ ServerAccept(b, c)
             \/ InitClient(b, c)
      PROVE  PoolIInv'
  <2>1. failed' \in {failed, "connect"}
    BY <1>5 DEF AcceptBegin, AcceptCheck, ServerAccept, InitClient
  <2> QED BY <1>1, <1>2, <1>5, <2>1, AcceptKeepsPool, TakeKeepsPool DEF PoolIInv
<1>6. ASSUME NEW b \in Bearers,
             \/ ServerCredits(b) \/ OnReceived(b) \/ GiveCredit(b)
             \/ OnOpen(b) \/ ClientAnswer(b)
      PROVE  PoolIInv'
  <2>1. failed' = failed
    BY <1>6 DEF ServerCredits, OnReceived, GiveCredit, OnOpen, ClientAnswer
  <2>2. CASE ClientAnswer(b)
    <3>1. bearer[b].on \in Links
      <4>1. bearer[b].on # NoLink /\ bearer[b].on \in Links \union {NoLink}
        BY <1>1, <2>2 DEF ClientAnswer, IInv, TakenInv, Live, LooseTypes, Record
      <4> QED BY <4>1
    <3> QED BY <1>1, <1>2, <2>1, <2>2, <3>1, AcceptKeepsPool DEF PoolIInv
  <2>3. CASE ~ ClientAnswer(b)
    BY <1>1, <1>2, <1>6, <2>1, <2>3, FlowKeepsPool, OnOpenKeepsPool DEF PoolIInv
  <2> QED BY <2>2, <2>3
<1>7. ASSUME NEW b \in Bearers, Send(b) \/ Transmit(b) \/ OnSent(b) PROVE PoolIInv'
  BY <1>1, <1>2, <1>7, SendKeepsPool DEF PoolIInv
<1>8. ASSUME NEW b \in Bearers,
             \/ Close(b) \/ Cleanup(b)
             \/ ChannelClosed(b) \/ ChannelDown(b) \/ ChannelFreed(b)
      PROVE  PoolIInv'
  <2>1. failed' = failed
    BY <1>8 DEF Close, Cleanup, ChannelClosed, ChannelDown, ChannelFreed
  <2> QED BY <1>1, <1>2, <1>8, <2>1, CloseKeepsPool, EndKeepsPool DEF PoolIInv
<1> QED BY <1>3, <1>4, <1>5, <1>6, <1>7, <1>8 DEF Next, RxStep, WorkQueueStep

(* The exact types: with the counts in their bounds.                       *)
LEMMA PoolIsTyped == PoolIInv => PoolConserved
<1> SUFFICES ASSUME PoolIInv PROVE PoolConserved
  OBVIOUS
<1>1. LooseTypes /\ OneReference BY DEF PoolIInv, IInv
<1>2. refs \in [Links -> 0 .. 1]
  <2>1. \A c \in Links : refs[c] \in 0 .. 1 BY <1>1 DEF OneReference
  <2> QED BY <1>1, <2>1 DEF LooseTypes
<1>3. bearer \in [Bearers -> Bearer]
  <2> SUFFICES ASSUME NEW b \in Bearers PROVE bearer[b] \in Bearer
    BY <1>1 DEF LooseTypes
  <2>1. /\ bearer[b] \in Record /\ CountsFit(bearer[b])
        /\ bearer[b].credits >= 0 /\ bearer[b].credits <= MaxQueuedRx
        /\ MaxUnsent \in Nat /\ MaxQueuedRx \in Nat
    BY PoolHere DEF PoolIInv
  <2>2. /\ bearer[b].credits \in 0 .. MaxQueuedRx
        /\ bearer[b].txq \in 0 .. PoolSize /\ bearer[b].sentDue \in 0 .. MaxUnsent
        /\ bearer[b].unsent \in 0 .. MaxUnsent
    BY <2>1 DEF CountsFit, Record
  <2> QED BY <2>1, <2>2 DEF Record, Bearer
<1>4. free \in 0 .. PoolSize BY PoolTypes DEF PoolIInv
<1>5. failed \in {Nothing, "tx_pool", "link_params", "connect"} BY DEF PoolIInv
<1>6. TypeOK BY <1>1, <1>2, <1>3, <1>4, <1>5 DEF TypeOK, LooseTypes
<1>7. free + Cardinality(InUse) = PoolSize
  <2>1. InUse = Places(Queues) BY DEF InUse, Places, Queues
  <2>2. free = PoolSize - Cardinality(Places(Queues)) BY DEF PoolIInv, PoolInv, FreeInv
  <2>3. Cardinality(Places(Queues)) \in Nat /\ PoolSize \in Nat BY PoolTypes DEF PoolIInv
  <2> QED BY <2>1, <2>2, <2>3
<1>8. \A b \in Bearers : bearer[b].txq > 0 => bearer[b].chan # "none"
  BY DEF PoolIInv, PoolInv, CountsInv, CountsFit, NothingQueued
<1> QED BY <1>6, <1>7, <1>8 DEF PoolConserved

(* The buffers of the transmit pool are all accounted for, whatever the    *)
(* size of the pool and the number of sends the library has on hand: each  *)
(* is free or queued for a bearer whose channel will give it back, in the  *)
(* send the channel refuses, the close by either side and the loss of the  *)
(* link (blecon_zephyr_l2cap_bearer_send).                                 *)
THEOREM PoolIsWhole == Spec => []PoolConserved
BY InitPool, StepPool, PoolIsTyped, PTL DEF Spec

==============================================================================
