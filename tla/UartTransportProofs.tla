--------------------------- MODULE UartTransportProofs ---------------------------
(***************************************************************************)
(* An exchange with the modem takes its own reply for one, for a ring      *)
(* buffer of any size and any number of exchanges and events: what is in   *)
(* the buffer and on the line is, from where main reads, a run of lines    *)
(* with at most one reply.                                                 *)
(***************************************************************************)
EXTENDS UartTransport, TLAPS

Answers(part) == part[1] \in {"reply", "both"}
Data(part)    == part[1] = "data"
Starts(part)  == part = Event \/ Answers(part)

(* What follows what in a run of lines, the last of which is whole.        *)
Lines(q) ==
    \A i \in 1 .. Len(q) :
        /\ q[i] = Event => i < Len(q) /\ q[i + 1] = End
        /\ Answers(q[i]) => i < Len(q) /\ Data(q[i + 1])
        /\ Data(q[i]) => i < Len(q) /\ q[i + 1] = End
        /\ q[i] = End /\ i < Len(q) => Starts(q[i + 1])

AtStart(q) == q # <<>> => Starts(q[1])
AtEnd(q)   == q # <<>> /\ q[1] = End
AtData(q)  == q # <<>> /\ Data(q[1])

(* No part of a reply from place k on.                                     *)
PlainFrom(q, k) == \A i \in k .. Len(q) : q[i] \in {End, Event}

(* After a reply's header and its data there is none.                      *)
OneReply(q) == \A i \in 1 .. Len(q) : Answers(q[i]) => PlainFrom(q, i + 2)

(* All data is the reply to the n-th request.                              *)
Own(q, n) == \A i \in 1 .. Len(q) : Data(q[i]) => q[i] = <<"data", n>>

(* The parts to be read fit where main reads, at, and what it asked.       *)
Fits(q, at, requests, n) ==
    /\ Lines(q) /\ Own(q, n)
    /\ requests = <<>> \/ (requests = <<n>> /\ PlainFrom(q, 1))
    /\ at \notin {"header", "headerEnd"} => requests = <<>>
    /\ at \in {"idle", "event"} => AtStart(q) /\ PlainFrom(q, 1)
    /\ at = "header" => AtStart(q) /\ OneReply(q)
    /\ at = "headerEnd" => AtEnd(q) /\ OneReply(q)
    /\ at = "eventDrain" => AtEnd(q) /\ PlainFrom(q, 1)
    /\ at = "body" => AtData(q) /\ PlainFrom(q, 2)
    /\ at = "drain" => (AtEnd(q) \/ AtData(q)) /\ PlainFrom(q, 2)

(* What an exchange has read, as far as it has come.                       *)
ReadInv ==
    /\ rxError => fifo # <<>>
    /\ pc \in {"header", "headerEnd", "body"} => got = Nothing
    /\ pc \in {"header", "headerEnd", "body", "drain"} => ok = FALSE

SettledInv ==
    settled =>
        /\ ~ rxError
        /\ Fits(fifo \o wire, pc, asked, current)
        /\ ok \/ (pc = "drain" /\ got # Nothing) => got = <<"data", current>>

IInv == TypeOK /\ ReadInv /\ SettledInv

------------------------------------------------------------------------------

LEMMA Kinds ==
    /\ Event # End /\ ~ Answers(Event) /\ ~ Answers(End) /\ ~ Data(Event) /\ ~ Data(End)
    /\ Event[1] = "event" /\ End \in Part /\ Event \in Part /\ Nothing # End
    /\ \A x \in Part : x \in {End, Event} \/ Answers(x) \/ Data(x)
    /\ \A x : ~ (Answers(x) /\ Data(x))
    /\ \A x : Answers(x) \/ Data(x) => x # Event /\ x # End /\ x # Nothing
BY DEF Event, End, Nothing, Answers, Data, Part

(* Reading the first part of a run of lines. *)
LEMMA ReadOne ==
    \A q \in Seq(Part) : q # <<>> =>
        /\ Tail(q) \in Seq(Part) /\ q[1] \in Part
        /\ Lines(q) => Lines(Tail(q))
        /\ \A n : Own(q, n) => Own(Tail(q), n)
        /\ OneReply(q) => OneReply(Tail(q))
        /\ OneReply(q) /\ Answers(q[1]) => PlainFrom(Tail(q), 2)
        /\ PlainFrom(q, 1) => PlainFrom(Tail(q), 1)
        /\ PlainFrom(q, 2) => PlainFrom(Tail(q), 1)
        /\ PlainFrom(q, 2) => PlainFrom(Tail(q), 2)
        /\ Lines(q) /\ q[1] = Event => AtEnd(Tail(q))
        /\ Lines(q) /\ Data(q[1]) => AtEnd(Tail(q))
        /\ Lines(q) /\ Answers(q[1]) => AtData(Tail(q))
        /\ Lines(q) /\ q[1] = End => AtStart(Tail(q))
<1> TAKE q \in Seq(Part)
<1> HAVE q # <<>>
<1> DEFINE r == Tail(q)
<1>1. /\ r \in Seq(Part) /\ Len(q) \in Nat /\ Len(q) > 0 /\ Len(r) = Len(q) - 1
      /\ \A i \in 1 .. Len(r) : r[i] = q[i + 1]
      /\ q[1] \in Part
  OBVIOUS
<1>2. r # <<>> => Len(r) >= 1 /\ Len(q) > 1
  BY <1>1
<1> HIDE DEF r
<1>3. Len(q) > 1 => r # <<>> /\ r[1] = q[2]
  <2>1. ASSUME Len(q) > 1
        PROVE  1 \in 1 .. Len(r) /\ 1 + 1 = 2
    BY <1>1, <2>1
  <2>2. Len(q) > 1 => r[1] = q[2]
    BY <2>1, <1>1
  <2>3. Len(<<>>) = 0
    OBVIOUS
  <2> QED
    BY <2>2, <2>3, <1>1
<1>4. ASSUME Lines(q)
      PROVE  Lines(r)
  <2>1. ASSUME NEW i \in 1 .. Len(r)
        PROVE  /\ i + 1 \in 1 .. Len(q) /\ r[i] = q[i + 1]
               /\ i < Len(r) <=> i + 1 < Len(q)
               /\ i < Len(r) => r[i + 1] = q[(i + 1) + 1]
    BY <1>1
  <2> QED
    BY <2>1, <1>4 DEF Lines
<1>5. ASSUME NEW n, Own(q, n)
      PROVE  Own(r, n)
  <2>1. ASSUME NEW i \in 1 .. Len(r)
        PROVE  i + 1 \in 1 .. Len(q) /\ r[i] = q[i + 1]
    BY <1>1
  <2> QED
    BY <2>1, <1>5 DEF Own
<1>6. \A k \in Nat : k >= 1 /\ PlainFrom(q, k + 1) => PlainFrom(r, k)
  <2>1. ASSUME NEW k \in Nat, k >= 1, NEW i \in k .. Len(r)
        PROVE  i + 1 \in k + 1 .. Len(q) /\ r[i] = q[i + 1]
    BY <1>1, <2>1
  <2> QED
    BY <2>1 DEF PlainFrom
<1>7. \A k \in Nat : k >= 1 /\ PlainFrom(q, k) => PlainFrom(r, k)
  <2>1. ASSUME NEW k \in Nat, k >= 1, NEW i \in k .. Len(r)
        PROVE  i + 1 \in k .. Len(q) /\ r[i] = q[i + 1]
    BY <1>1, <2>1
  <2> QED
    BY <2>1 DEF PlainFrom
<1>8. PlainFrom(q, 2) => PlainFrom(r, 1)
  <2>1. 1 + 1 = 2 OBVIOUS
  <2> QED BY <1>6, <2>1
<1>9. ASSUME OneReply(q)
      PROVE  OneReply(r)
  <2>1. ASSUME NEW i \in 1 .. Len(r), Answers(r[i])
        PROVE  PlainFrom(r, i + 2)
    <3>1. i + 1 \in 1 .. Len(q) /\ r[i] = q[i + 1] /\ (i + 1) + 2 = (i + 2) + 1 /\ i + 2 \in Nat /\ i + 2 >= 1
      BY <1>1
    <3>2. PlainFrom(q, (i + 2) + 1)
      BY <3>1, <2>1, <1>9 DEF OneReply
    <3> QED
      BY <3>1, <3>2, <1>6
  <2> QED
    BY <2>1 DEF OneReply
<1>10. ASSUME OneReply(q), Answers(q[1])
       PROVE  PlainFrom(r, 2)
  <2>1. 1 \in 1 .. Len(q) /\ 1 + 2 = 2 + 1
    BY <1>1
  <2>2. PlainFrom(q, 2 + 1)
    BY <2>1, <1>10 DEF OneReply
  <2> QED
    BY <2>2, <1>6
<1>11. ASSUME Lines(q)
       PROVE  /\ q[1] = Event => AtEnd(r)
              /\ Data(q[1]) => AtEnd(r)
              /\ Answers(q[1]) => AtData(r)
              /\ q[1] = End => AtStart(r)
  <2>1. 1 \in 1 .. Len(q) /\ 1 + 1 = 2
    BY <1>1
  <2>2. /\ q[1] = Event => 1 < Len(q) /\ q[2] = End
        /\ Answers(q[1]) => 1 < Len(q) /\ Data(q[2])
        /\ Data(q[1]) => 1 < Len(q) /\ q[2] = End
        /\ q[1] = End /\ 1 < Len(q) => Starts(q[2])
    BY <2>1, <1>11 DEF Lines
  <2> QED
    BY <2>2, <1>1, <1>2, <1>3 DEF AtEnd, AtData, AtStart
<1> QED
  BY <1>1, <1>4, <1>5, <1>7, <1>8, <1>9, <1>10, <1>11 DEF r

(* The modem sends whole lines: an event, or a reply where none was. *)
LEMMA SendLine ==
    \A q, line \in Seq(Part) :
        Lines(q) /\ Lines(line) /\ line # <<>> /\ Starts(line[1]) =>
            /\ q \o line \in Seq(Part)
            /\ Lines(q \o line)
            /\ q # <<>> => q \o line # <<>> /\ (q \o line)[1] = q[1]
            /\ AtStart(q) => AtStart(q \o line)
            /\ \A n : Own(q, n) /\ Own(line, n) => Own(q \o line, n)
            /\ \A k \in Nat : k >= 1 /\ PlainFrom(q, k) /\ PlainFrom(line, 1) => PlainFrom(q \o line, k)
            /\ OneReply(q) /\ PlainFrom(line, 1) => OneReply(q \o line)
            /\ PlainFrom(q, 1) /\ OneReply(line) => OneReply(q \o line)
<1> TAKE q, line \in Seq(Part)
<1> HAVE Lines(q) /\ Lines(line) /\ line # <<>> /\ Starts(line[1])
<1> DEFINE r == q \o line
           m == Len(q)
<1>1. /\ r \in Seq(Part) /\ m \in Nat /\ Len(line) \in Nat /\ Len(line) > 0
      /\ Len(r) = m + Len(line)
      /\ \A i \in 1 .. m : r[i] = q[i] /\ q[i] \in Part
      /\ \A i \in 1 .. Len(line) : r[m + i] = line[i]
      /\ q # <<>> <=> m > 0
      /\ q # <<>> => r # <<>>
      /\ q = <<>> => r = line
  OBVIOUS
<1> HIDE DEF r
<1>2. \A i \in 1 .. Len(r) : i \in 1 .. m \/ (i - m \in 1 .. Len(line) /\ r[i] = line[i - m] /\ i > m)
  <2>1. ASSUME NEW i \in 1 .. Len(r), i > m
        PROVE  i - m \in 1 .. Len(line) /\ m + (i - m) = i
    BY <1>1, <2>1
  <2> QED
    BY <2>1, <1>1
<1>3. m > 0 => q[m] = End
  <2>1. m > 0 => m \in 1 .. Len(q) /\ ~ (m < Len(q)) /\ q[m] \in Part
    BY <1>1
  <2> QED
    BY <2>1, Kinds DEF Lines
<1>4. Lines(r)
  <2>1. ASSUME NEW i \in 1 .. Len(r)
        PROVE  /\ r[i] = Event => i < Len(r) /\ r[i + 1] = End
               /\ Answers(r[i]) => i < Len(r) /\ Data(r[i + 1])
               /\ Data(r[i]) => i < Len(r) /\ r[i + 1] = End
               /\ r[i] = End /\ i < Len(r) => Starts(r[i + 1])
    <3>1. CASE i \in 1 .. m /\ i < m
      <4>1. r[i] = q[i] /\ r[i + 1] = q[i + 1] /\ i < Len(r) /\ i < Len(q) /\ i \in 1 .. Len(q)
        BY <3>1, <1>1
      <4> QED
        BY <4>1 DEF Lines
    <3>2. CASE i = m
      <4>1. r[i] = End /\ m + 1 = i + 1 /\ 1 \in 1 .. Len(line)
        BY <3>2, <1>1, <1>3
      <4>2. Starts(r[i + 1])
        BY <4>1, <1>1
      <4> QED
        BY <4>1, <4>2, Kinds
    <3>3. CASE i > m
      <4> DEFINE j == i - m
      <4>1. /\ j \in 1 .. Len(line) /\ r[i] = line[j] /\ (j < Len(line) <=> i < Len(r))
            /\ j < Len(line) => r[i + 1] = line[j + 1]
        <5>1. j \in 1 .. Len(line) /\ r[i] = line[j]
          BY <3>3, <1>2, <1>1
        <5>2. j < Len(line) <=> i < Len(r)
          BY <1>1
        <5>3. j < Len(line) => j + 1 \in 1 .. Len(line) /\ m + (j + 1) = i + 1
          BY <5>1, <1>1
        <5> QED
          BY <5>1, <5>2, <5>3, <1>1
      <4> HIDE DEF j
      <4> QED
        BY <4>1 DEF Lines
    <3> QED
      BY <3>1, <3>2, <3>3, <1>1
  <2> QED
    BY <2>1 DEF Lines
<1>5. q # <<>> => r # <<>> /\ r[1] = q[1]
  BY <1>1
<1>6. AtStart(q) => AtStart(r)
  BY <1>1, <1>5 DEF AtStart
<1>7. ASSUME NEW n, Own(q, n), Own(line, n)
      PROVE  Own(r, n)
  BY <1>1, <1>2, <1>7 DEF Own
<1>8. ASSUME NEW k \in Nat, k >= 1, PlainFrom(q, k), PlainFrom(line, 1)
      PROVE  PlainFrom(r, k)
  <2>1. ASSUME NEW i \in k .. Len(r)
        PROVE  r[i] \in {End, Event}
    <3>0. i \in 1 .. Len(r)
      BY <1>8, <1>1
    <3>1. CASE i \in 1 .. m
      <4>1. i \in k .. Len(q) /\ r[i] = q[i]
        BY <3>1, <1>1
      <4> QED
        BY <4>1, <1>8 DEF PlainFrom
    <3>2. CASE i - m \in 1 .. Len(line) /\ r[i] = line[i - m]
      BY <3>2, <1>8 DEF PlainFrom
    <3> QED
      BY <3>0, <3>1, <3>2, <1>2
  <2> QED
    BY <2>1 DEF PlainFrom
<1>9. ASSUME OneReply(q), PlainFrom(line, 1)
      PROVE  OneReply(r)
  <2>1. ASSUME NEW i \in 1 .. Len(r), Answers(r[i])
        PROVE  PlainFrom(r, i + 2)
    <3>1. CASE i \in 1 .. m
      <4>1. PlainFrom(q, i + 2) /\ i + 2 \in Nat /\ i + 2 >= 1
        BY <3>1, <2>1, <1>1, <1>9 DEF OneReply
      <4> QED
        BY <4>1, <1>8, <1>9
    <3>2. CASE i - m \in 1 .. Len(line) /\ r[i] = line[i - m]
      BY <3>2, <2>1, <1>9, Kinds DEF PlainFrom
    <3> QED
      BY <3>1, <3>2, <1>2
  <2> QED
    BY <2>1 DEF OneReply
<1>10. ASSUME PlainFrom(q, 1), OneReply(line)
       PROVE  OneReply(r)
  <2>1. ASSUME NEW i \in 1 .. Len(r), Answers(r[i])
        PROVE  PlainFrom(r, i + 2)
    <3>1. CASE i \in 1 .. m
      BY <3>1, <2>1, <1>1, <1>10, Kinds DEF PlainFrom
    <3>2. CASE i - m \in 1 .. Len(line) /\ r[i] = line[i - m] /\ i > m
      <4>1. PlainFrom(line, (i - m) + 2)
        BY <3>2, <2>1, <1>10 DEF OneReply
      <4>2. ASSUME NEW j \in i + 2 .. Len(r)
            PROVE  j - m \in (i - m) + 2 .. Len(line) /\ r[j] = line[j - m]
        <5>1. j \in 1 .. Len(r) /\ j > m
          BY <3>2, <1>1
        <5>2. r[j] = line[j - m]
          BY <5>1, <1>1, <1>2
        <5> QED
          BY <5>1, <5>2, <1>1
      <4> QED
        BY <4>1, <4>2 DEF PlainFrom
    <3> QED
      BY <3>1, <3>2, <1>2
  <2> QED
    BY <2>1 DEF OneReply
<1> QED
  BY <1>1, <1>4, <1>5, <1>6, <1>7, <1>8, <1>9, <1>10 DEF r

(* The ring buffer's first part is the first to be read of all. *)
LEMMA BufferFirst ==
    \A f, w \in Seq(Part) :
        /\ f \o w \in Seq(Part)
        /\ f # <<>> =>
              /\ f \o w # <<>> /\ Head(f) = (f \o w)[1]
              /\ Tail(f) \in Seq(Part) /\ Len(Tail(f)) <= Len(f)
              /\ Tail(f) \o w = Tail(f \o w)
        /\ w # <<>> =>
              /\ Tail(w) \in Seq(Part) /\ Head(w) \in Part
              /\ Append(f, Head(w)) \in Seq(Part) /\ Len(Append(f, Head(w))) = Len(f) + 1
              /\ Append(f, Head(w)) \o Tail(w) = f \o w
        /\ f = <<>> => f \o w = w
<1> TAKE f, w \in Seq(Part)
<1>1. f \o w \in Seq(Part) /\ (f = <<>> => f \o w = w)
  OBVIOUS
<1>2. ASSUME f # <<>>
      PROVE  /\ f \o w # <<>> /\ Head(f) = (f \o w)[1]
             /\ Tail(f) \in Seq(Part) /\ Len(Tail(f)) <= Len(f)
             /\ Tail(f) \o w = Tail(f \o w)
  BY <1>2
<1>3. ASSUME w # <<>>
      PROVE  /\ Tail(w) \in Seq(Part) /\ Head(w) \in Part
             /\ Append(f, Head(w)) \in Seq(Part) /\ Len(Append(f, Head(w))) = Len(f) + 1
             /\ Append(f, Head(w)) \o Tail(w) = f \o w
  BY <1>3
<1> QED
  BY <1>1, <1>2, <1>3

LEMMA Joined ==
    \A f, w, l \in Seq(Part) : w \o l \in Seq(Part) /\ f \o (w \o l) = (f \o w) \o l
OBVIOUS

(* With a request and nothing left, and with nothing else, all fits. *)
LEMMA NothingFits ==
    \A n : \A at \in {"idle", "event", "header"} : Fits(<<>>, at, <<>>, n)
BY DEF Fits, Lines, Own, PlainFrom, OneReply, AtStart

LEMMA PlainOwns == \A q, n : PlainFrom(q, 1) => Own(q, n) /\ OneReply(q)
BY Kinds DEF PlainFrom, Own, OneReply

LEMMA InitIInv == Init => IInv
<1> SUFFICES ASSUME Init PROVE IInv
  OBVIOUS
<1>1. <<>> \o <<>> = <<>>
  OBVIOUS
<1>2. TypeOK
  <2>1. /\ pc \in Reading \union {"idle"} /\ got \in Part \union {Nothing}
        /\ {ok, rxError, raised, unheard, settled} \subseteq BOOLEAN
    BY DEF Init
  <2>2. current \in 0 .. MaxExchanges /\ events \in 0 .. MaxEvents
    BY SizeAssumption DEF Init
  <2>3. fifo \in Seq(Part) /\ wire \in Seq(Part) /\ asked \in Seq(1 .. MaxExchanges)
    BY DEF Init
  <2>4. Len(fifo) <= FifoSize
    BY SizeAssumption DEF Init
  <2> QED
    BY <2>1, <2>2, <2>3, <2>4 DEF TypeOK
<1>3. ReadInv
  BY DEF Init, ReadInv
<1>4. SettledInv
  BY <1>1, NothingFits DEF Init, SettledInv
<1> QED
  BY <1>2, <1>3, <1>4 DEF IInv


------------------------------------------------------------------------------
(* The modem and the interrupt. *)

LEMMA Types ==
    ASSUME TypeOK
    PROVE  /\ pc \in Reading \union {"idle"} /\ current \in 0 .. MaxExchanges
           /\ got \in Part \union {Nothing}
           /\ fifo \in Seq(Part) /\ Len(fifo) <= FifoSize /\ wire \in Seq(Part)
           /\ asked \in Seq(1 .. MaxExchanges) /\ events \in 0 .. MaxEvents
           /\ {ok, rxError, raised, unheard, settled} \subseteq BOOLEAN
           /\ FifoSize \in Nat \ {0} /\ MaxExchanges \in Nat \ {0} /\ MaxEvents \in Nat \ {0}
           /\ fifo \o wire \in Seq(Part)
BY SizeAssumption DEF TypeOK

LEMMA SentKeeps ==
    ASSUME IInv, TypeOK', UNCHANGED <<pc, current, got, ok, fifo, rxError, settled>>,
           settled => Fits(fifo \o wire', pc, asked', current)
    PROVE  IInv'
BY DEF IInv, ReadInv, SettledInv

LEMMA EventKeeps == ASSUME IInv, TellEvent PROVE IInv'
<1> DEFINE line == <<Event, End>>
<1>t. TypeOK
  BY DEF IInv
<1>1. /\ UNCHANGED <<pc, current, got, ok, fifo, rxError, raised, asked, unheard, settled>>
      /\ wire' = wire \o line /\ events' = events + 1 /\ events < MaxEvents
  BY DEF TellEvent, mainVars, rxVars
<1>2. line \in Seq(Part) /\ line # <<>> /\ line[1] = Event /\ Len(line) = 2
  BY Kinds
<1>3. Starts(line[1]) /\ Lines(line) /\ PlainFrom(line, 1)
  BY <1>2, Kinds DEF Starts, Lines, PlainFrom
<1> HIDE DEF line
<1>4. wire' \in Seq(Part) /\ fifo \o wire' = (fifo \o wire) \o line
  <2>1. fifo \in Seq(Part) /\ wire \in Seq(Part) /\ line \in Seq(Part)
    BY <1>2, <1>t, Types
  <2>2. wire \o line \in Seq(Part) /\ fifo \o (wire \o line) = (fifo \o wire) \o line
    BY ONLY <2>1, Joined, Zenon
  <2> QED
    BY ONLY <2>2, <1>1
<1>5. TypeOK'
  <2>1. events' \in 0 .. MaxEvents
    BY <1>1, <1>t, Types
  <2> QED
    BY <1>1, <1>4, <2>1, <1>t DEF TypeOK
<1>6. ASSUME settled
      PROVE  Fits(fifo \o wire', pc, asked', current)
  <2> DEFINE q == fifo \o wire
  <2>1. q \in Seq(Part) /\ Fits(q, pc, asked, current)
    BY <1>6, <1>t, Types DEF IInv, SettledInv
  <2> HIDE DEF q
  <2>2. Own(line, current)
    BY <1>3, PlainOwns
  <2>3. /\ Lines(q \o line)
        /\ q # <<>> => q \o line # <<>> /\ (q \o line)[1] = q[1]
        /\ AtStart(q) => AtStart(q \o line)
        /\ Own(q, current) => Own(q \o line, current)
        /\ PlainFrom(q, 1) => PlainFrom(q \o line, 1)
        /\ PlainFrom(q, 2) => PlainFrom(q \o line, 2)
        /\ OneReply(q) => OneReply(q \o line)
    BY <1>2, <1>3, <2>1, <2>2, SendLine DEF Fits
  <2>4. Fits(q \o line, pc, asked, current)
    BY <2>1, <2>3 DEF Fits, AtEnd, AtData
  <2> QED
    BY <2>4, <1>1, <1>4 DEF q
<1> QED
  BY <1>1, <1>5, <1>6, SentKeeps

LEMMA AnswerKeeps == ASSUME IInv, Answer PROVE IInv'
<1>t. TypeOK
  BY DEF IInv
<1>0. PICK header \in {"reply", "both"} :
        wire' = wire \o << <<header, Head(asked)>>, <<"data", Head(asked)>>, End >>
  BY DEF Answer
<1> DEFINE n == Head(asked)
           line == << <<header, n>>, <<"data", n>>, End >>
<1>1. /\ UNCHANGED <<pc, current, got, ok, fifo, rxError, raised, events, unheard, settled>>
      /\ asked # <<>> /\ asked' = Tail(asked) /\ wire' = wire \o line
  BY <1>0 DEF Answer, mainVars, rxVars
<1>n. n \in 1 .. MaxExchanges /\ asked' \in Seq(1 .. MaxExchanges)
  BY <1>1, <1>t, Types
<1> HIDE DEF n
<1>2. /\ <<header, n>> \in Part /\ <<"data", n>> \in Part /\ End \in Part
      /\ Answers(<<header, n>>) /\ Data(<<"data", n>>)
  BY <1>n, Kinds DEF Part, Answers, Data
<1>3. /\ line \in Seq(Part) /\ line # <<>> /\ Len(line) = 3
      /\ line[1] = <<header, n>> /\ line[2] = <<"data", n>> /\ line[3] = End
  BY <1>2
<1> HIDE DEF line
<1>4. /\ Starts(line[1]) /\ Lines(line)
  <2>1. \A i \in 1 .. Len(line) : i = 1 \/ i = 2 \/ i = 3
    BY <1>3
  <2> QED
    BY <1>2, <1>3, <2>1, Kinds DEF Starts, Lines
<1>5. Own(line, n)
  <2>1. \A i \in 1 .. Len(line) : i = 1 \/ i = 2 \/ i = 3
    BY <1>3
  <2> QED
    BY <1>2, <1>3, <2>1, Kinds DEF Own
<1>6. OneReply(line)
  <2>1. ASSUME NEW i \in 1 .. Len(line), Answers(line[i])
        PROVE  PlainFrom(line, i + 2)
    <3>1. i = 1
      <4>1. i = 1 \/ i = 2 \/ i = 3
        BY <1>3
      <4>2. ~ Answers(line[2]) /\ ~ Answers(line[3])
        BY <1>2, <1>3, Kinds
      <4> QED
        BY <4>1, <4>2, <2>1
    <3>2. \A j \in i + 2 .. Len(line) : j = 3
      BY <3>1, <1>3
    <3> QED
      BY <3>2, <1>3 DEF PlainFrom
  <2> QED
    BY <2>1 DEF OneReply
<1>7. wire' \in Seq(Part) /\ fifo \o wire' = (fifo \o wire) \o line
  <2>1. fifo \in Seq(Part) /\ wire \in Seq(Part) /\ line \in Seq(Part)
    BY <1>3, <1>t, Types
  <2>2. wire \o line \in Seq(Part) /\ fifo \o (wire \o line) = (fifo \o wire) \o line
    BY ONLY <2>1, Joined, Zenon
  <2> QED
    BY ONLY <2>2, <1>1
<1>8. TypeOK'
  BY <1>1, <1>7, <1>n, <1>t DEF TypeOK
<1>9. ASSUME settled
      PROVE  Fits(fifo \o wire', pc, asked', current)
  <2> DEFINE q == fifo \o wire
  <2>1. q \in Seq(Part) /\ Fits(q, pc, asked, current)
    BY <1>9, <1>t, Types DEF IInv, SettledInv
  <2> HIDE DEF q
  <2>2. asked = <<current>> /\ PlainFrom(q, 1) /\ pc \in {"header", "headerEnd"}
    BY <2>1, <1>1 DEF Fits
  <2>3. n = current /\ asked' = <<>>
    BY <2>2, <1>1 DEF n
  <2>4. /\ Lines(q \o line)
        /\ q # <<>> => q \o line # <<>> /\ (q \o line)[1] = q[1]
        /\ AtStart(q) => AtStart(q \o line)
        /\ Own(q \o line, current)
        /\ OneReply(q \o line)
    BY <1>3, <1>4, <1>5, <1>6, <2>1, <2>2, <2>3, SendLine DEF Fits
  <2>5. Fits(q \o line, pc, asked', current)
    BY <2>1, <2>2, <2>3, <2>4 DEF Fits, AtEnd
  <2> QED
    BY <2>5, <1>7 DEF q
<1> QED
  BY <1>1, <1>8, <1>9, SentKeeps

LEMMA NoAnswerKeeps == ASSUME IInv, NoAnswer PROVE IInv'
<1>t. TypeOK
  BY DEF IInv
<1>1. /\ UNCHANGED <<pc, current, got, ok, fifo, rxError, raised, wire, events, unheard, settled>>
      /\ asked # <<>> /\ asked' = Tail(asked)
  BY DEF NoAnswer, mainVars, rxVars
<1>2. asked' \in Seq(1 .. MaxExchanges)
  BY <1>1, <1>t, Types
<1>3. TypeOK'
  BY <1>1, <1>2, <1>t DEF TypeOK
<1>4. ASSUME settled
      PROVE  Fits(fifo \o wire', pc, asked', current)
  <2>1. Fits(fifo \o wire, pc, asked, current)
    BY <1>4 DEF IInv, SettledInv
  <2>2. asked = <<current>>
    BY <2>1, <1>1 DEF Fits
  <2>3. asked' = <<>>
    BY <2>2, <1>1
  <2> QED
    BY <2>1, <2>3, <1>1 DEF Fits
<1> QED
  BY <1>1, <1>3, <1>4, SentKeeps

LEMMA InterruptKeeps == ASSUME IInv, Interrupt PROVE IInv'
<1>t. TypeOK
  BY DEF IInv
<1>1. /\ UNCHANGED <<pc, current, got, ok, asked, events>>
      /\ wire # <<>> /\ wire' = Tail(wire) /\ raised' = TRUE
      /\ IF Len(fifo) < FifoSize
         THEN /\ fifo' = Append(fifo, Head(wire))
              /\ unheard' = (unheard \/ Head(wire)[1] \in {"event", "both"})
              /\ UNCHANGED <<rxError, settled>>
         ELSE rxError' = TRUE /\ settled' = FALSE /\ UNCHANGED <<fifo, unheard>>
  BY DEF Interrupt, mainVars
<1>2. /\ wire' \in Seq(Part) /\ Append(fifo, Head(wire)) \in Seq(Part)
      /\ Len(Append(fifo, Head(wire))) = Len(fifo) + 1
      /\ Append(fifo, Head(wire)) \o wire' = fifo \o wire
      /\ Len(fifo) \in Nat
  <2>1. fifo \in Seq(Part) /\ wire \in Seq(Part)
    BY <1>t, Types
  <2>2. /\ Tail(wire) \in Seq(Part) /\ Append(fifo, Head(wire)) \in Seq(Part)
        /\ Len(Append(fifo, Head(wire))) = Len(fifo) + 1
        /\ Append(fifo, Head(wire)) \o Tail(wire) = fifo \o wire
    BY ONLY <2>1, <1>1, BufferFirst, Zenon
  <2>3. Len(fifo) \in Nat
    BY <2>1
  <2> QED
    BY ONLY <2>2, <2>3, <1>1
<1>3. CASE Len(fifo) < FifoSize
  <2>1. /\ fifo' \in Seq(Part) /\ Len(fifo') = Len(fifo) + 1
        /\ fifo' \o wire' = fifo \o wire /\ UNCHANGED <<rxError, settled>>
        /\ unheard' \in BOOLEAN
    BY <1>1, <1>2, <1>3
  <2>2. Len(fifo') <= FifoSize /\ fifo' # <<>>
    BY <2>1, <1>2, <1>3, <1>t, Types
  <2>3. TypeOK'
    BY <1>1, <1>2, <2>1, <2>2, <1>t DEF TypeOK
  <2>4. ReadInv' /\ SettledInv'
    BY <1>1, <2>1, <2>2 DEF IInv, ReadInv, SettledInv
  <2> QED
    BY <2>3, <2>4 DEF IInv
<1>4. CASE ~ (Len(fifo) < FifoSize)
  <2>1. rxError' = TRUE /\ settled' = FALSE /\ UNCHANGED <<fifo, unheard>>
    BY <1>1, <1>4
  <2>2. fifo # <<>>
    BY <1>4, <1>t, Types
  <2>3. TypeOK'
    BY <1>1, <1>2, <2>1, <1>t DEF TypeOK
  <2>4. ReadInv' /\ SettledInv'
    BY <1>1, <2>1, <2>2 DEF IInv, ReadInv, SettledInv
  <2> QED
    BY <2>3, <2>4 DEF IInv
<1> QED
  BY <1>3, <1>4


------------------------------------------------------------------------------
(* Main. *)

LEMMA ExchangeKeeps == ASSUME IInv, ExchangeFrames PROVE IInv'
<1>t. TypeOK
  BY DEF IInv
<1>1. /\ UNCHANGED <<fifo, rxError, raised, wire, events>>
      /\ pc = "idle" /\ current < MaxExchanges
      /\ current' = current + 1 /\ asked' = Append(asked, current')
      /\ pc' = "header" /\ got' = Nothing /\ ok' = FALSE
      /\ settled' = (settled \/ (asked = <<>> /\ wire = <<>> /\ fifo = <<>>))
      /\ unheard' = (unheard /\ settled)
  BY DEF ExchangeFrames, rxVars
<1>2. /\ current' \in 1 .. MaxExchanges /\ current' \in 0 .. MaxExchanges
      /\ asked' \in Seq(1 .. MaxExchanges)
  BY <1>1, <1>t, Types
<1>3. TypeOK'
  <2>1. unheard' \in BOOLEAN /\ settled' \in BOOLEAN /\ ok' \in BOOLEAN
    BY <1>1, <1>t, Types
  <2>2. pc' \in Reading \union {"idle"} /\ got' \in Part \union {Nothing}
    BY <1>1 DEF Reading
  <2> QED
    BY <1>1, <1>2, <2>1, <2>2, <1>t DEF TypeOK
<1>4. ReadInv'
  BY <1>1 DEF IInv, ReadInv
<1>5. ASSUME settled'
      PROVE  ~ rxError /\ asked = <<>> /\ AtStart(fifo \o wire) /\ PlainFrom(fifo \o wire, 1) /\ Lines(fifo \o wire)
  <2>1. CASE settled
    BY <2>1, <1>1 DEF IInv, SettledInv, Fits
  <2>2. CASE asked = <<>> /\ wire = <<>> /\ fifo = <<>>
    <3>1. fifo \o wire = <<>>
      BY <2>2
    <3> QED
      BY <2>2, <3>1 DEF IInv, ReadInv, AtStart, PlainFrom, Lines
  <2> QED
    BY <2>1, <2>2, <1>1, <1>5
<1>6. asked = <<>> => asked' = <<current'>>
  BY <1>1
<1>7. SettledInv'
  <2>1. ASSUME settled'
        PROVE  Fits(fifo \o wire, "header", asked', current')
    BY <1>5, <1>6, <2>1, PlainOwns DEF Fits
  <2> QED
    BY <1>1, <1>5, <2>1 DEF SettledInv
<1> QED
  BY <1>3, <1>4, <1>7 DEF IInv

LEMMA RxEventKeeps == ASSUME IInv, RxEvent PROVE IInv'
<1>t. TypeOK
  BY DEF IInv
<1>1. /\ UNCHANGED <<current, got, ok, fifo, rxError, asked, wire, events, unheard, settled>>
      /\ pc = "idle" /\ raised' = FALSE /\ pc' = "event"
  BY DEF RxEvent, modemVars
<1>2. TypeOK'
  BY <1>1, <1>t DEF TypeOK, Reading
<1>3. ReadInv'
  BY <1>1 DEF IInv, ReadInv
<1>4. SettledInv'
  BY <1>1 DEF IInv, SettledInv, Fits
<1> QED
  BY <1>2, <1>3, <1>4 DEF IInv

LEMMA FailKeeps == ASSUME IInv, ReadFails PROVE IInv'
<1>t. TypeOK
  BY DEF IInv
<1>1. /\ UNCHANGED <<current, got, ok, fifo, raised, asked, wire, events, unheard>>
      /\ rxError \/ fifo = <<>>
      /\ rxError' = FALSE /\ pc' = "idle"
      /\ settled' = (settled /\ (pc = "event" \/ (wire = <<>> /\ asked = <<>>)))
  BY DEF ReadFails, modemVars
<1>2. TypeOK'
  <2>1. settled' \in BOOLEAN
    BY <1>1, <1>t, Types
  <2> QED
    BY <1>1, <2>1, <1>t DEF TypeOK
<1>3. ReadInv'
  BY <1>1 DEF ReadInv
<1>4. SettledInv'
  <2> SUFFICES ASSUME settled'
               PROVE  /\ Fits(fifo \o wire, "idle", asked, current)
                      /\ ok => got = <<"data", current>>
    BY <1>1 DEF SettledInv
  <2>1. /\ settled /\ (pc = "event" \/ (wire = <<>> /\ asked = <<>>))
        /\ fifo = <<>>
        /\ Fits(fifo \o wire, pc, asked, current)
        /\ ok => got = <<"data", current>>
    BY <1>1 DEF IInv, SettledInv
  <2>2. CASE pc = "event"
    BY <2>1, <2>2 DEF Fits
  <2>3. CASE wire = <<>> /\ asked = <<>>
    <3>1. fifo \o wire = <<>>
      BY <2>1, <2>3
    <3> QED
      BY <2>1, <2>3, <3>1, NothingFits
  <2> QED
    BY <2>1, <2>2, <2>3
<1> QED
  BY <1>2, <1>3, <1>4 DEF IInv

(* The rest of a run that fits where main reads fits where it goes on.     *)
ReadFits(part) ==
    \A q \in Seq(Part) :
        /\ q # <<>> /\ q[1] = part /\ Fits(q, pc, asked, current)
        /\ ok \/ (pc = "drain" /\ got # Nothing) => got = <<"data", current>>
        => /\ Fits(Tail(q), pc', asked, current)
           /\ ok' \/ (pc' = "drain" /\ got' # Nothing) => got' = <<"data", current>>

LEMMA ReadKeeps ==
    ASSUME IInv, NEW part, Read(part), UNCHANGED raised,
           pc' \in Reading \union {"idle"}, got' \in Part \union {Nothing},
           ok' \in BOOLEAN, unheard' \in BOOLEAN,
           pc' \in {"header", "headerEnd", "body"} => got' = Nothing,
           pc' \in {"header", "headerEnd", "body", "drain"} => ok' = FALSE,
           ReadFits(part)
    PROVE  IInv'
<1>t. TypeOK
  BY DEF IInv
<1>1. /\ UNCHANGED <<rxError, current, asked, wire, events, settled>>
      /\ ~ rxError /\ fifo # <<>> /\ part = Head(fifo) /\ fifo' = Tail(fifo)
  BY DEF Read, modemVars
<1>2. /\ fifo \o wire \in Seq(Part) /\ fifo \o wire # <<>> /\ part = (fifo \o wire)[1]
      /\ fifo' \in Seq(Part) /\ Len(fifo') <= Len(fifo)
      /\ fifo' \o wire = Tail(fifo \o wire)
  <2>1. fifo \in Seq(Part) /\ wire \in Seq(Part)
    BY <1>t, Types
  <2>2. /\ fifo \o wire \in Seq(Part) /\ fifo \o wire # <<>> /\ Head(fifo) = (fifo \o wire)[1]
        /\ Tail(fifo) \in Seq(Part) /\ Len(Tail(fifo)) <= Len(fifo)
        /\ Tail(fifo) \o wire = Tail(fifo \o wire)
    BY ONLY <2>1, <1>1, BufferFirst, Zenon
  <2> QED
    BY ONLY <2>2, <1>1
<1>3. TypeOK'
  <2>1. Len(fifo') <= FifoSize
    <3>1. Len(fifo) \in Nat /\ Len(fifo') \in Nat
      BY <1>2, <1>t, Types
    <3> QED
      BY <3>1, <1>2, <1>t, Types
  <2> QED
    BY <1>1, <1>2, <2>1, <1>t DEF TypeOK
<1>4. ReadInv'
  BY <1>1 DEF ReadInv
<1>5. SettledInv'
  <2>1. ASSUME settled
        PROVE  /\ Fits(fifo \o wire, pc, asked, current)
               /\ ok \/ (pc = "drain" /\ got # Nothing) => got = <<"data", current>>
    BY <2>1 DEF IInv, SettledInv
  <2> DEFINE q == fifo \o wire
  <2>2. q \in Seq(Part) /\ q # <<>> /\ q[1] = part
    BY <1>2
  <2> HIDE DEF q
  <2>3. ASSUME settled
        PROVE  /\ Fits(Tail(q), pc', asked, current)
               /\ ok' \/ (pc' = "drain" /\ got' # Nothing) => got' = <<"data", current>>
    BY <2>1, <2>2, <2>3 DEF q, ReadFits
  <2> QED
    BY <1>1, <1>2, <2>3 DEF SettledInv, q
<1> QED
  BY <1>3, <1>4, <1>5 DEF IInv


LEMMA Taken ==
    /\ TakenFor(Event) = {"event"}
    /\ \A x : Answers(x) => TakenFor(x) \subseteq {"reply", "both"}
    /\ \A x \in Part : TakenFor(x) \subseteq {"reply", "both", "event", "invalid", "end"}
BY DEF TakenFor, Event, Answers, Data, Part, End

LEMMA HeaderKeeps == ASSUME IInv, Header PROVE IInv'
<1>t. TypeOK
  BY DEF IInv
<1>1. /\ pc = "header" /\ UNCHANGED <<got, ok, raised>>
      /\ \E part \in Part : Read(part) /\
           \E header \in TakenFor(part) :
              /\ unheard' = (unheard /\ header \notin {"event", "both"})
              /\ CASE header \in {"reply", "both"}    -> pc' \in {"body", "drain"}
                   [] header \in {"event", "invalid"} ->
                         pc' = "headerEnd" \/ (part # Event /\ pc' = "idle")
                   [] OTHER                           -> pc' = "idle"
  BY DEF Header
<1>2. PICK part \in Part : Read(part) /\
           \E header \in TakenFor(part) :
              /\ unheard' = (unheard /\ header \notin {"event", "both"})
              /\ CASE header \in {"reply", "both"}    -> pc' \in {"body", "drain"}
                   [] header \in {"event", "invalid"} ->
                         pc' = "headerEnd" \/ (part # Event /\ pc' = "idle")
                   [] OTHER                           -> pc' = "idle"
  BY <1>1
<1>3. PICK header \in TakenFor(part) :
              /\ unheard' = (unheard /\ header \notin {"event", "both"})
              /\ CASE header \in {"reply", "both"}    -> pc' \in {"body", "drain"}
                   [] header \in {"event", "invalid"} ->
                         pc' = "headerEnd" \/ (part # Event /\ pc' = "idle")
                   [] OTHER                           -> pc' = "idle"
  BY <1>2
<1>4. /\ header \in {"reply", "both"} => pc' \in {"body", "drain"}
      /\ header = "event" /\ part = Event => pc' = "headerEnd"
      /\ header \notin {"reply", "both"} => pc' \in {"headerEnd", "idle"}
  BY <1>3
<1>5. pc' \in Reading \union {"idle"} /\ unheard' \in BOOLEAN
  BY <1>3, <1>4, <1>t, Types DEF Reading
<1>6. ok = FALSE /\ got = Nothing
  BY <1>1 DEF IInv, ReadInv
<1>7. ReadFits(part)
  <2> SUFFICES ASSUME NEW q \in Seq(Part), q # <<>>, q[1] = part,
                      Fits(q, "header", asked, current)
               PROVE  Fits(Tail(q), pc', asked, current)
    BY <1>1, <1>6 DEF ReadFits
  <2>1. Lines(q) /\ Own(q, current) /\ OneReply(q) /\ Starts(part)
    BY DEF Fits, AtStart
  <2>2. /\ Lines(Tail(q)) /\ Own(Tail(q), current) /\ OneReply(Tail(q))
        /\ Answers(part) => PlainFrom(Tail(q), 2) /\ AtData(Tail(q))
        /\ part = Event => AtEnd(Tail(q))
        /\ PlainFrom(q, 1) => PlainFrom(Tail(q), 1)
    BY <2>1, ReadOne
  <2>3. CASE part = Event
    <3>1. pc' = "headerEnd"
      BY <2>3, <1>4, Taken
    <3> QED
      BY <2>2, <2>3, <3>1 DEF Fits
  <2>4. CASE Answers(part)
    <3>1. pc' \in {"body", "drain"}
      BY <2>4, <1>4, Taken
    <3>2. asked = <<>>
      <4>1. ~ PlainFrom(q, 1)
        <5>1. 1 \in 1 .. Len(q)
          OBVIOUS
        <5> QED
          BY <5>1, <2>4, Kinds DEF PlainFrom
      <4> QED
        BY <4>1 DEF Fits
    <3> QED
      BY <2>2, <2>4, <3>1, <3>2 DEF Fits
  <2> QED
    BY <2>1, <2>3, <2>4 DEF Starts
<1>8. got' \in Part \union {Nothing} /\ ok' \in BOOLEAN /\ got' = Nothing /\ ok' = FALSE
  BY <1>1, <1>6
<1> QED
  BY <1>1, <1>2, <1>5, <1>7, <1>8, ReadKeeps

LEMMA HeaderEndKeeps == ASSUME IInv, HeaderEnd PROVE IInv'
<1>t. TypeOK
  BY DEF IInv
<1>1. pc = "headerEnd" /\ UNCHANGED <<got, ok, raised, unheard>>
  BY DEF HeaderEnd
<1>2. PICK part \in Part : Read(part) /\ pc' = IF part = End THEN "header" ELSE "idle"
  BY DEF HeaderEnd
<1>3. ok = FALSE /\ got = Nothing
  BY <1>1 DEF IInv, ReadInv
<1>4. pc' \in Reading \union {"idle"} /\ unheard' \in BOOLEAN
  BY <1>1, <1>2, <1>t, Types DEF Reading
<1>5. ReadFits(part)
  <2> SUFFICES ASSUME NEW q \in Seq(Part), q # <<>>, q[1] = part,
                      Fits(q, "headerEnd", asked, current)
               PROVE  Fits(Tail(q), pc', asked, current)
    BY <1>1, <1>3 DEF ReadFits
  <2>1. Lines(q) /\ Own(q, current) /\ OneReply(q) /\ part = End
    BY DEF Fits, AtEnd
  <2>2. /\ Lines(Tail(q)) /\ Own(Tail(q), current) /\ OneReply(Tail(q))
        /\ AtStart(Tail(q))
        /\ PlainFrom(q, 1) => PlainFrom(Tail(q), 1)
    BY <2>1, ReadOne
  <2> QED
    BY <2>1, <2>2, <1>2 DEF Fits
<1>6. got' \in Part \union {Nothing} /\ ok' \in BOOLEAN /\ got' = Nothing /\ ok' = FALSE
  BY <1>1, <1>3
<1> QED
  BY <1>1, <1>2, <1>4, <1>5, <1>6, ReadKeeps

LEMMA BodyKeeps == ASSUME IInv, Body PROVE IInv'
<1>t. TypeOK
  BY DEF IInv
<1>1. pc = "body" /\ UNCHANGED <<ok, raised, unheard>>
  BY DEF Body
<1>2. PICK part \in Part : Read(part) /\ IF part = End
                                         THEN pc' = "idle" /\ UNCHANGED got
                                         ELSE pc' = "drain" /\ got' = part
  BY DEF Body
<1>3. ok = FALSE /\ got = Nothing
  BY <1>1 DEF IInv, ReadInv
<1>4. pc' \in Reading \union {"idle"} /\ unheard' \in BOOLEAN
  BY <1>1, <1>2, <1>t, Types DEF Reading
<1>5. ReadFits(part)
  <2> SUFFICES ASSUME NEW q \in Seq(Part), q # <<>>, q[1] = part,
                      Fits(q, "body", asked, current)
               PROVE  /\ Fits(Tail(q), pc', asked, current)
                      /\ pc' = "drain" => got' = <<"data", current>>
    BY <1>1, <1>3 DEF ReadFits
  <2>1. Lines(q) /\ Own(q, current) /\ PlainFrom(q, 2) /\ Data(part) /\ asked = <<>>
    BY DEF Fits, AtData
  <2>2. /\ Lines(Tail(q)) /\ Own(Tail(q), current) /\ AtEnd(Tail(q))
        /\ PlainFrom(Tail(q), 2)
    BY <2>1, ReadOne
  <2>3. part = <<"data", current>>
    <3>1. 1 \in 1 .. Len(q)
      OBVIOUS
    <3> QED
      BY <3>1, <2>1 DEF Own
  <2>4. pc' = "drain" /\ got' = part
    BY <2>1, <1>2, Kinds
  <2> QED
    BY <2>1, <2>2, <2>3, <2>4 DEF Fits
<1>6. got' \in Part \union {Nothing} /\ ok' = FALSE /\ pc' \in {"idle", "drain"}
  BY <1>1, <1>2, <1>3
<1> QED
  BY <1>1, <1>2, <1>4, <1>5, <1>6, ReadKeeps

LEMMA DrainKeeps == ASSUME IInv, Drain PROVE IInv'
<1>t. TypeOK
  BY DEF IInv
<1>1. pc = "drain" /\ UNCHANGED <<got, raised, unheard>>
  BY DEF Drain
<1>2. PICK part \in Part : Read(part) /\ IF part = End
                                         THEN pc' = "idle" /\ ok' = (got # Nothing)
                                         ELSE UNCHANGED <<pc, ok>>
  BY DEF Drain
<1>3. ok = FALSE
  BY <1>1 DEF IInv, ReadInv
<1>4. /\ pc' \in Reading \union {"idle"} /\ unheard' \in BOOLEAN /\ ok' \in BOOLEAN
      /\ got' \in Part \union {Nothing}
  BY <1>1, <1>2, <1>t, Types DEF Reading
<1>5. ReadFits(part)
  <2> SUFFICES ASSUME NEW q \in Seq(Part), q # <<>>, q[1] = part,
                      Fits(q, "drain", asked, current),
                      got # Nothing => got = <<"data", current>>
               PROVE  /\ Fits(Tail(q), pc', asked, current)
                      /\ ok' \/ got # Nothing => got = <<"data", current>>
    BY <1>1 DEF ReadFits
  <2>1. /\ Lines(q) /\ Own(q, current) /\ PlainFrom(q, 2) /\ asked = <<>>
        /\ part = End \/ Data(part)
    BY DEF Fits, AtData, AtEnd
  <2>2. /\ Lines(Tail(q)) /\ Own(Tail(q), current)
        /\ PlainFrom(Tail(q), 1) /\ PlainFrom(Tail(q), 2)
        /\ part = End => AtStart(Tail(q))
        /\ Data(part) => AtEnd(Tail(q))
    BY <2>1, ReadOne
  <2>3. CASE part = End
    BY <2>1, <2>2, <2>3, <1>2 DEF Fits
  <2>4. CASE Data(part)
    <3>1. pc' = "drain" /\ ok' = FALSE
      BY <2>4, <1>1, <1>2, <1>3, Kinds
    <3> QED
      BY <2>1, <2>2, <2>4, <3>1 DEF Fits
  <2> QED
    BY <2>1, <2>3, <2>4
<1>6. pc' \in {"idle", "drain"} /\ (pc' = "drain" => ok' = FALSE)
  BY <1>1, <1>2, <1>3
<1> QED
  BY <1>1, <1>2, <1>4, <1>5, <1>6, ReadKeeps

LEMMA EventHeaderKeeps == ASSUME IInv, EventHeader PROVE IInv'
<1>t. TypeOK
  BY DEF IInv
<1>1. pc = "event" /\ pc' = "eventDrain" /\ UNCHANGED <<got, ok, raised>>
  BY DEF EventHeader
<1>2. PICK part \in Part : Read(part) /\ unheard' \in BOOLEAN
  BY <1>t, Types DEF EventHeader
<1>3. ReadFits(part)
  <2> SUFFICES ASSUME NEW q \in Seq(Part), q # <<>>, q[1] = part,
                      Fits(q, "event", asked, current)
               PROVE  Fits(Tail(q), "eventDrain", asked, current)
    BY <1>1 DEF ReadFits
  <2>1. Lines(q) /\ Own(q, current) /\ PlainFrom(q, 1) /\ asked = <<>> /\ Starts(part)
    BY DEF Fits, AtStart
  <2>2. part = Event
    <3>1. 1 \in 1 .. Len(q)
      OBVIOUS
    <3> QED
      BY <3>1, <2>1, Kinds DEF PlainFrom, Starts
  <2>3. /\ Lines(Tail(q)) /\ Own(Tail(q), current) /\ PlainFrom(Tail(q), 1)
        /\ AtEnd(Tail(q))
    BY <2>1, <2>2, ReadOne
  <2> QED
    BY <2>1, <2>3 DEF Fits
<1>4. got' \in Part \union {Nothing} /\ ok' \in BOOLEAN /\ pc' \in Reading
  BY <1>1, <1>t, Types DEF Reading
<1> QED
  BY <1>1, <1>2, <1>3, <1>4, ReadKeeps

LEMMA EventDrainKeeps == ASSUME IInv, EventDrain PROVE IInv'
<1>t. TypeOK
  BY DEF IInv
<1>1. pc = "eventDrain" /\ UNCHANGED <<got, ok, raised, unheard>>
  BY DEF EventDrain
<1>2. PICK part \in Part : Read(part) /\ pc' = IF part = End THEN "idle" ELSE pc
  BY DEF EventDrain
<1>3. ReadFits(part)
  <2> SUFFICES ASSUME NEW q \in Seq(Part), q # <<>>, q[1] = part,
                      Fits(q, "eventDrain", asked, current)
               PROVE  Fits(Tail(q), pc', asked, current) /\ pc' = "idle"
    BY <1>1 DEF ReadFits
  <2>1. Lines(q) /\ Own(q, current) /\ PlainFrom(q, 1) /\ asked = <<>> /\ part = End
    BY DEF Fits, AtEnd
  <2>2. /\ Lines(Tail(q)) /\ Own(Tail(q), current) /\ PlainFrom(Tail(q), 1)
        /\ AtStart(Tail(q))
    BY <2>1, ReadOne
  <2> QED
    BY <2>1, <2>2, <1>2 DEF Fits
<1>4. /\ got' \in Part \union {Nothing} /\ ok' \in BOOLEAN /\ unheard' \in BOOLEAN
      /\ pc' \in Reading \union {"idle"} /\ pc' \in {"idle", "eventDrain"}
  BY <1>1, <1>2, <1>t, Types DEF Reading
<1> QED
  BY <1>1, <1>2, <1>3, <1>4, ReadKeeps

LEMMA StepIInv == IInv /\ [Next]_vars => IInv'
<1> SUFFICES ASSUME IInv, [Next]_vars PROVE IInv'
  OBVIOUS
<1>1. CASE UNCHANGED vars
  <2>1. UNCHANGED <<pc, current, got, ok, fifo, rxError, raised, asked, wire, events, unheard, settled>>
    BY <1>1 DEF vars, mainVars, rxVars, modemVars
  <2>2. TypeOK'
    BY <2>1 DEF IInv, TypeOK
  <2>3. ReadInv' /\ SettledInv'
    BY <2>1 DEF IInv, ReadInv, SettledInv
  <2> QED
    BY <2>2, <2>3 DEF IInv
<1> QED
  BY <1>1, AnswerKeeps, NoAnswerKeeps, EventKeeps, InterruptKeeps, ExchangeKeeps, RxEventKeeps,
     FailKeeps, HeaderKeeps, HeaderEndKeeps, BodyKeeps, DrainKeeps, EventHeaderKeeps,
     EventDrainKeeps
     DEF Next, ReadStep

(* However the modem's events and the interrupt come between, and whatever *)
(* the callback has read, an exchange that succeeds has read its own       *)
(* reply, as long as no reply is late and nothing was discarded.           *)
THEOREM RepliesMatch == Spec => []ReplyMatches
<1>1. IInv => ReplyMatches
  BY DEF IInv, SettledInv, ReplyMatches
<1> QED
  BY <1>1, InitIInv, StepIInv, PTL DEF Spec

==================================================================================
