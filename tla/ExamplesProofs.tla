------------------------------ MODULE ExamplesProofs ------------------------------
(***************************************************************************)
(* The upload of large-request, for every size of the buffer and of the    *)
(* chunks and every number of send operations, the LED of the devboard     *)
(* demo, and the heart rate monitor of coexistence beside Blecon, for      *)
(* every number of sets and of connection objects.                         *)
(***************************************************************************)
EXTENDS Examples, HeartRate, FiniteSetTheorems, TLAPS

OpRecord == [op : OpIds, from : 0 .. size, to : 0 .. size, finished : BOOLEAN]

(* The operations held, a run of the buffer that ends at at.               *)
HeldRun(b, at, held) ==
    /\ held # <<>> => held[Len(held)].to = at
    /\ \A i \in DOMAIN held :
          /\ i > 1 => held[i].from = held[i - 1].to
          /\ held[i].to - held[i].from \in 1 .. ChunkSize
          /\ held[i].finished <=> held[i].to = size
          /\ b[held[i].op]
          /\ \A j \in DOMAIN held : held[i].op = held[j].op => i = j

LEMMA Step == \A k, c \in Int : (k - 1) * c + c = k * c
BY SMT

LEMMA Product == \A k, c \in Nat : k * c \in Nat
BY SMT

LEMMA AppendedLen ==
    \A S : \A s, t \in Seq(S) :
        Len(s) \in Nat /\ Len(t) \in Nat /\ Len(s \o t) = Len(s) + Len(t)
OBVIOUS

LEMMA AppendedHead ==
    \A S : \A s, t \in Seq(S) : \A i \in 1 .. Len(s) : (s \o t)[i] = s[i]
OBVIOUS

LEMMA AppendedTail ==
    \A S : \A s, t \in Seq(S) : \A k \in 1 .. Len(t) : (s \o t)[Len(s) + k] = t[k]
OBVIOUS

LEMMA Element == \A S : \A s \in Seq(S) : \A i \in 1 .. Len(s) : s[i] \in S
OBVIOUS

(* What example_send_data queues prolongs the run.                         *)
LEMMA QueueProlongs ==
    ASSUME NEW b \in [OpIds -> BOOLEAN], NEW at \in 0 .. size,
           NEW held \in Seq(OpRecord), size \in Nat,
           HeldRun(b, at, held), ChunksQueued(b, at, held)
    PROVE  /\ ops' \in Seq(OpRecord)
           /\ pos' \in 0 .. size
           /\ busy' \in [OpIds -> BOOLEAN]
           /\ HeldRun(busy', pos', ops')
           /\ ops' # <<>> => ops'[1].from = IF held = <<>> THEN at ELSE held[1].from
<1> USE UploadAssumption DEF OpIds
<1>0. PICK n \in 0 .. OpCount : \E take \in [1 .. n -> Free(b)] :
         /\ Takers(b, at, n, take)
         /\ ops' = held \o [k \in 1 .. n |-> Chunk(take[k], at + (k - 1) * ChunkSize)]
         /\ pos' = IF at + n * ChunkSize > size THEN size ELSE at + n * ChunkSize
         /\ busy' = IF n > 0 THEN MarkedBusy(b, n, take)
                    ELSE [p \in OpIds |-> b[p] \/ \A q \in Free(b) : p <= q]
  BY DEF ChunksQueued, QueuesAll
<1>1. PICK take \in [1 .. n -> Free(b)] :
         /\ Takers(b, at, n, take)
         /\ ops' = held \o [k \in 1 .. n |-> Chunk(take[k], at + (k - 1) * ChunkSize)]
         /\ pos' = IF at + n * ChunkSize > size THEN size ELSE at + n * ChunkSize
         /\ busy' = IF n > 0 THEN MarkedBusy(b, n, take)
                    ELSE [p \in OpIds |-> b[p] \/ \A q \in Free(b) : p <= q]
  BY <1>0
<1> DEFINE f(k) == at + (k - 1) * ChunkSize
           new == [k \in 1 .. n |-> Chunk(take[k], f(k))]
           g == at + n * ChunkSize
<1>2. /\ \A k \in 1 .. n : f(k) \in Nat /\ f(k) < size
      /\ f(1) = at
      /\ \A k \in 1 .. n - 1 : f(k + 1) = f(k) + ChunkSize
      /\ n > 0 => g = f(n) + ChunkSize
      /\ n = 0 => g = at
      /\ g \in Nat
  <2>1. ASSUME NEW k \in 1 .. n
        PROVE  f(k) \in Nat /\ f(k) < size
    <3>1. (k - 1) * ChunkSize \in Nat
      BY Product
    <3>2. at + (k - 1) * ChunkSize < size
      BY <1>1 DEF Takers
    <3> QED
      BY <3>1, <3>2
  <2>2. f(1) = at
    BY SMT
  <2>3. ASSUME NEW k \in 1 .. n - 1
        PROVE  f(k + 1) = f(k) + ChunkSize
    BY Step, SMT
  <2>4. n > 0 => g = f(n) + ChunkSize
    BY Step, SMT
  <2>5. n = 0 => g = at
    BY SMT
  <2>6. g \in Nat
    BY Product
  <2> QED
    BY <2>1, <2>2, <2>3, <2>4, <2>5, <2>6
<1>3. /\ ops' = held \o new
      /\ pos' = IF g > size THEN size ELSE g
  BY <1>1
<1>4. \A i, j \in 1 .. n : i < j => take[i] < take[j]
  BY <1>1 DEF Takers
<1> HIDE DEF f, g
<1>5. ASSUME NEW k \in 1 .. n
      PROVE  /\ take[k] \in OpIds /\ ~ b[take[k]]
             /\ new[k] \in OpRecord
             /\ new[k].op = take[k]
             /\ new[k].from = f(k)
             /\ new[k].to = IF f(k) + ChunkSize > size THEN size ELSE f(k) + ChunkSize
             /\ new[k].finished <=> new[k].to = size
  <2>1. take[k] \in OpIds /\ ~ b[take[k]]
    <3>1. take[k] \in Free(b)
      OBVIOUS
    <3> HIDE DEF OpIds
    <3> QED
      BY <3>1 DEF Free
  <2>2. f(k) \in Nat /\ f(k) < size
    BY <1>2
  <2>3. new[k] = Chunk(take[k], f(k))
    OBVIOUS
  <2> DEFINE to == IF f(k) + ChunkSize > size THEN size ELSE f(k) + ChunkSize
  <2>4. new[k] = [op |-> take[k], from |-> f(k), to |-> to, finished |-> to >= size]
    BY <2>3 DEF Chunk
  <2>5. to \in 0 .. size /\ f(k) \in 0 .. size
    BY <2>2
  <2>6. (to >= size) <=> (to = size)
    BY <2>5
  <2> HIDE DEF new, to
  <2>7. /\ new[k].op = take[k] /\ new[k].from = f(k) /\ new[k].to = to
        /\ new[k].finished = (to >= size)
    BY <2>4
  <2>8. new[k] \in OpRecord
    BY <2>1, <2>4, <2>5 DEF OpRecord
  <2>9. new[k].finished <=> new[k].to = size
    BY <2>6, <2>7
  <2> QED
    BY <2>1, <2>7, <2>8, <2>9 DEF to
<1>6. new \in Seq(OpRecord) /\ Len(new) = n
  BY <1>5
<1>7. busy' \in [OpIds -> BOOLEAN]
  BY <1>1 DEF MarkedBusy
<1>8. \A p \in OpIds : b[p] => busy'[p]
  BY <1>1 DEF MarkedBusy
<1>9. \A k \in 1 .. n : busy'[take[k]]
  <2>1. ASSUME NEW k \in 1 .. n
        PROVE  n > 0 /\ take[k] \in OpIds
    BY <1>5
  <2>2. ASSUME NEW k \in 1 .. n
        PROVE  MarkedBusy(b, n, take)[take[k]]
    BY <2>1 DEF MarkedBusy
  <2> QED
    BY <2>1, <2>2, <1>1
<1>10. ops' \in Seq(OpRecord)
  BY <1>3, <1>6
<1>11. pos' \in 0 .. size
  BY <1>3, <1>2
<1> HIDE DEF new
<1>12. /\ Len(held) \in Nat /\ Len(ops') = Len(held) + n
       /\ \A i \in 1 .. Len(held) : ops'[i] = held[i] /\ held[i] \in OpRecord
       /\ \A k \in 1 .. n : ops'[Len(held) + k] = new[k]
  <2>1. ops' = held \o new
    BY <1>3
  <2>2. held \in Seq(OpRecord) /\ new \in Seq(OpRecord)
    BY <1>6
  <2>3. Len(held) \in Nat /\ Len(held \o new) = Len(held) + Len(new)
    BY ONLY <2>2, AppendedLen, Zenon
  <2>4. \A i \in 1 .. Len(held) : (held \o new)[i] = held[i]
    BY ONLY <2>2, AppendedHead, Zenon
  <2>5. \A i \in 1 .. Len(held) : held[i] \in OpRecord
    BY ONLY <2>2, Element, Zenon
  <2>6. \A k \in 1 .. Len(new) : (held \o new)[Len(held) + k] = new[k]
    BY ONLY <2>2, AppendedTail, Zenon
  <2> QED
    BY ONLY <2>1, <2>3, <2>4, <2>5, <2>6, <1>6
<1>13. \A i \in 1 .. Len(ops') : i \in 1 .. Len(held) \/ \E k \in 1 .. n : i = Len(held) + k
  <2>1. ASSUME NEW i \in 1 .. Len(ops'), i \notin 1 .. Len(held)
        PROVE  i - Len(held) \in 1 .. n /\ i = Len(held) + (i - Len(held))
    BY <1>12, <2>1
  <2> QED
    BY <2>1
<1>14. HeldRun(busy', pos', ops')
  <2>1. ops' # <<>> => ops'[Len(ops')].to = pos'
    <3>1. CASE n = 0
      BY <3>1, <1>2, <1>3, <1>12, <1>6 DEF HeldRun
    <3>2. CASE n > 0
      <4>1. ops'[Len(ops')] = new[n]
        BY <3>2, <1>12
      <4>2. new[n].to = IF f(n) + ChunkSize > size THEN size ELSE f(n) + ChunkSize
        BY <3>2, <1>5
      <4> QED
        BY <3>2, <4>1, <4>2, <1>2, <1>3
    <3> QED
      BY <3>1, <3>2
  <2>2. ASSUME NEW i \in DOMAIN ops'
        PROVE  /\ i > 1 => ops'[i].from = ops'[i - 1].to
               /\ ops'[i].to - ops'[i].from \in 1 .. ChunkSize
               /\ ops'[i].finished <=> ops'[i].to = size
               /\ busy'[ops'[i].op]
               /\ \A j \in DOMAIN ops' : ops'[i].op = ops'[j].op => i = j
    <3>0. i \in 1 .. Len(ops') /\ DOMAIN ops' = 1 .. Len(ops')
      BY <1>10
    <3>1. CASE i \in 1 .. Len(held)
      <4>1. ops'[i] = held[i] /\ i \in DOMAIN held /\ held[i].op \in OpIds
        BY <3>1, <1>12 DEF OpRecord
      <4>2. i > 1 => ops'[i].from = ops'[i - 1].to
        <5>1. i > 1 => held[i].from = held[i - 1].to
          BY <4>1 DEF HeldRun
        <5>2. i > 1 => ops'[i - 1] = held[i - 1]
          BY <3>1, <1>12
        <5> QED
          BY <5>1, <5>2, <4>1
      <4>3. /\ ops'[i].to - ops'[i].from \in 1 .. ChunkSize
            /\ ops'[i].finished <=> ops'[i].to = size
        BY <4>1 DEF HeldRun
      <4>4. b[ops'[i].op]
        BY <4>1 DEF HeldRun
      <4>5. ASSUME NEW j \in DOMAIN ops', ops'[i].op = ops'[j].op
            PROVE  i = j
        <5>1. CASE j \in 1 .. Len(held)
          <6>1. ops'[j] = held[j] /\ j \in DOMAIN held
            BY <5>1, <1>12
          <6> QED
            BY <6>1, <4>5, <4>1 DEF HeldRun
        <5>2. ASSUME NEW k \in 1 .. n, j = Len(held) + k
              PROVE  FALSE
          <6>1. ops'[j].op = take[k]
            BY <5>2, <1>12, <1>5
          <6> QED
            BY <6>1, <4>4, <4>5, <1>5
        <5> QED
          BY <5>1, <5>2, <3>0, <1>13
      <4> QED
        BY <4>1, <4>2, <4>3, <4>4, <4>5, <1>8
    <3>2. ASSUME NEW k \in 1 .. n, i = Len(held) + k
          PROVE  /\ i > 1 => ops'[i].from = ops'[i - 1].to
                 /\ ops'[i].to - ops'[i].from \in 1 .. ChunkSize
                 /\ ops'[i].finished <=> ops'[i].to = size
                 /\ busy'[ops'[i].op]
                 /\ \A j \in DOMAIN ops' : ops'[i].op = ops'[j].op => i = j
      <4>1. ops'[i] = new[k]
        BY <3>2, <1>12
      <4>2. i > 1 => ops'[i].from = ops'[i - 1].to
        <5>1. CASE k = 1
          <6>1. new[k].from = at
            BY <5>1, <1>5, <1>2
          <6>2. ASSUME i > 1
                PROVE  ops'[i - 1] = held[Len(held)] /\ held # <<>>
            BY <6>2, <5>1, <3>2, <1>12
          <6>3. i > 1 => ops'[i - 1].to = at
            BY <6>2 DEF HeldRun
          <6> QED
            BY <6>1, <6>3, <4>1
        <5>2. CASE k > 1
          <6>1. k - 1 \in 1 .. n /\ k - 1 \in 1 .. n - 1 /\ i - 1 = Len(held) + (k - 1)
            BY <5>2, <3>2, <1>12
          <6>2. ops'[i - 1] = new[k - 1]
            BY <6>1, <1>12
          <6>3. f((k - 1) + 1) = f(k - 1) + ChunkSize
            BY <6>1, <1>2
          <6>4. (k - 1) + 1 = k
            OBVIOUS
          <6>5. f(k) = f(k - 1) + ChunkSize /\ f(k) < size /\ f(k - 1) \in Nat
            BY <6>1, <6>3, <6>4, <1>2
          <6>6. new[k - 1].to = IF f(k - 1) + ChunkSize > size THEN size ELSE f(k - 1) + ChunkSize
            BY <6>1, <1>5
          <6>7. new[k].from = f(k)
            BY <1>5
          <6> QED
            BY <6>2, <6>5, <6>6, <6>7, <4>1
        <5> QED
          BY <5>1, <5>2
      <4>3. ops'[i].to - ops'[i].from \in 1 .. ChunkSize
        <5>1. f(k) \in Nat /\ f(k) < size
          BY <1>2
        <5> QED
          BY <4>1, <5>1, <1>5
      <4>4. ops'[i].finished <=> ops'[i].to = size
        BY <4>1, <1>5
      <4>5. ops'[i].op = take[k]
        BY <4>1, <1>5
      <4>6. ASSUME NEW j \in DOMAIN ops', ops'[i].op = ops'[j].op
            PROVE  i = j
        <5>1. ASSUME j \in 1 .. Len(held)
              PROVE  FALSE
          <6>1. ops'[j] = held[j] /\ j \in DOMAIN held
            BY <5>1, <1>12
          <6>2. b[held[j].op]
            BY <6>1 DEF HeldRun
          <6> QED
            BY <6>1, <6>2, <4>5, <4>6, <1>5
        <5>2. ASSUME NEW l \in 1 .. n, j = Len(held) + l
              PROVE  i = j
          <6>1. ops'[j].op = take[l]
            BY <5>2, <1>12, <1>5
          <6>2. take[k] = take[l]
            BY <6>1, <4>5, <4>6
          <6>3. take[k] \in Int /\ take[l] \in Int
            <7>1. take[k] \in OpIds /\ take[l] \in OpIds
              BY <1>5
            <7> QED
              BY <7>1
          <6>4. k = l
            BY <6>2, <6>3, <1>4
          <6> QED
            BY <6>4, <5>2, <3>2
        <5> QED
          BY <5>1, <5>2, <3>0, <1>13
      <4> QED
        BY <4>2, <4>3, <4>4, <4>5, <4>6, <1>9
    <3> QED
      BY <3>0, <3>1, <3>2, <1>13
  <2> QED
    BY <2>1, <2>2 DEF HeldRun
<1>15. ops' # <<>> => ops'[1].from = IF held = <<>> THEN at ELSE held[1].from
  <2>1. CASE held = <<>>
    <3>1. ASSUME ops' # <<>>
          PROVE  ops'[1] = new[1] /\ 1 \in 1 .. n
      BY <3>1, <2>1, <1>12, <1>10
    <3> QED
      BY <3>1, <2>1, <1>5, <1>2
  <2>2. CASE held # <<>>
    BY <2>2, <1>12
  <2> QED
    BY <2>1, <2>2
<1> QED
  BY <1>7, <1>10, <1>11, <1>14, <1>15

(* A refused chunk leaves no operation held.                               *)
LEMMA RefusalClears ==
    ASSUME NEW b \in [OpIds -> BOOLEAN], NEW at \in 0 .. size, size \in Nat,
           ChunkRefused(b, at)
    PROVE  ops' = <<>> /\ pos' \in 0 .. size /\ busy' \in [OpIds -> BOOLEAN]
<1> USE UploadAssumption
<1>1. PICK n \in 1 .. OpCount : \E take \in [1 .. n -> Free(b)] :
         /\ Takers(b, at, n, take)
         /\ pos' = at + (n - 1) * ChunkSize
         /\ busy' = MarkedBusy(b, n, take)
  BY DEF ChunkRefused
<1>2. PICK take \in [1 .. n -> Free(b)] :
         /\ Takers(b, at, n, take)
         /\ pos' = at + (n - 1) * ChunkSize
         /\ busy' = MarkedBusy(b, n, take)
  BY <1>1
<1>3. pos' < size
  BY <1>2 DEF Takers
<1>4. (n - 1) * ChunkSize \in Nat
  BY Product
<1>5. pos' \in 0 .. size
  BY <1>2, <1>3, <1>4
<1>6. busy' \in [OpIds -> BOOLEAN]
  BY <1>2 DEF MarkedBusy
<1> QED
  BY <1>5, <1>6 DEF ChunkRefused

(* Nor does a refused receive operation.                                   *)
LEMMA ReceiveRefusalClears ==
    ASSUME size \in Nat, ReceiveRefused
    PROVE  ops' = <<>> /\ pos' \in 0 .. size /\ busy' \in [OpIds -> BOOLEAN]
<1> USE UploadAssumption
<1>1. PICK n \in 0 .. OpCount :
         \E take \in [1 .. n -> Free(NoneBusy)] : QueuesAll(NoneBusy, 0, n, take)
  BY DEF ReceiveRefused
<1>2. PICK take \in [1 .. n -> Free(NoneBusy)] : QueuesAll(NoneBusy, 0, n, take)
  BY <1>1
<1>3. n * ChunkSize \in Nat
  BY Product
<1>4. pos' \in 0 .. size
  BY <1>2, <1>3 DEF QueuesAll
<1>5. busy' \in [OpIds -> BOOLEAN]
  BY <1>2 DEF QueuesAll, MarkedBusy, NoneBusy
<1> QED
  BY <1>4, <1>5 DEF ReceiveRefused

(* What send_data and on_data_sent leave.                                  *)
UploadPart ==
    /\ ops \in Seq(OpRecord)
    /\ pos \in 0 .. size /\ got \in 0 .. size
    /\ complete \in BOOLEAN /\ request \in RequestState
    /\ busy \in [OpIds -> BOOLEAN]
    /\ HeldRun(busy, pos, ops)
    /\ complete => got = size
    /\ ops # <<>> /\ request = "submitted" => ops[1].from = got

LEMMA EmptyRun == \A b, at : HeldRun(b, at, <<>>) /\ <<>> \in Seq(OpRecord)
BY DEF HeldRun

LEMMA PartCarried ==
    ASSUME size' = size,
           ops' \in Seq(OpRecord),
           pos' \in 0 .. size, got' \in 0 .. size,
           complete' \in BOOLEAN, request' \in RequestState,
           busy' \in [OpIds -> BOOLEAN],
           HeldRun(busy', pos', ops'),
           complete' => got' = size,
           ops' # <<>> /\ request' = "submitted" => ops'[1].from = got'
    PROVE  UploadPart'
<1>1. (OpRecord)' = OpRecord
  BY DEF OpRecord
<1>2. HeldRun(busy, pos, ops)'
  BY DEF HeldRun
<1>3. (0 .. size)' = 0 .. size
  OBVIOUS
<1> QED
  BY <1>1, <1>2, <1>3 DEF UploadPart

LEMMA SendDataKeeps ==
    ASSUME size \in Nat \ {0}, pos \in 0 .. size, busy \in [OpIds -> BOOLEAN], SendData
    PROVE  UploadPart' /\ size' = size
<1>0. size' = size /\ got' = 0 /\ complete' = FALSE
  BY DEF SendData
<1>1. NoneBusy \in [OpIds -> BOOLEAN] /\ 0 \in 0 .. size
  BY DEF NoneBusy
<1>2. CASE request' = "submitted" /\ ChunksQueued(NoneBusy, 0, <<>>)
  <2>1. /\ ops' \in Seq(OpRecord) /\ pos' \in 0 .. size
        /\ busy' \in [OpIds -> BOOLEAN]
        /\ HeldRun(busy', pos', ops')
        /\ ops' # <<>> => ops'[1].from = 0
    BY <1>1, <1>2, EmptyRun, QueueProlongs
  <2> QED
    BY <2>1, <1>0, <1>1, <1>2, PartCarried DEF RequestState
<1>3. CASE request' \in {"submitted", "clean"} /\ ChunkRefused(NoneBusy, 0)
  <2>1. ops' = <<>> /\ pos' \in 0 .. size /\ busy' \in [OpIds -> BOOLEAN]
    BY <1>1, <1>3, RefusalClears
  <2> QED
    BY <2>1, <1>0, <1>1, <1>3, EmptyRun, PartCarried DEF RequestState
<1>4. CASE request' = "clean" /\ ReceiveRefused
  <2>1. ops' = <<>> /\ pos' \in 0 .. size /\ busy' \in [OpIds -> BOOLEAN]
    BY <1>4, ReceiveRefusalClears
  <2> QED
    BY <2>1, <1>0, <1>1, <1>4, EmptyRun, PartCarried DEF RequestState
<1> QED
  BY <1>2, <1>3, <1>4 DEF SendData

(* The rest of the run after its oldest operation has come back.           *)
LEMMA TailRun ==
    ASSUME NEW b \in [OpIds -> BOOLEAN], NEW at, NEW held \in Seq(OpRecord),
           held # <<>>, HeldRun(b, at, held)
    PROVE  /\ Tail(held) \in Seq(OpRecord)
           /\ HeldRun([b EXCEPT ![held[1].op] = FALSE], at, Tail(held))
           /\ Tail(held) # <<>> => Tail(held)[1].from = held[1].to
           /\ Tail(held) = <<>> => at = held[1].to
           /\ held[1] \in OpRecord
<1> DEFINE tl == Tail(held)
           c == [b EXCEPT ![held[1].op] = FALSE]
<1>1. /\ tl \in Seq(OpRecord) /\ Len(tl) = Len(held) - 1 /\ Len(held) \in Nat \ {0}
      /\ \A i \in 1 .. Len(tl) : tl[i] = held[i + 1] /\ i + 1 \in 1 .. Len(held)
      /\ DOMAIN held = 1 .. Len(held) /\ DOMAIN tl = 1 .. Len(tl)
  OBVIOUS
<1>2. ASSUME NEW i \in 1 .. Len(held)
      PROVE  held[i] \in OpRecord /\ held[i].op \in OpIds
  <2>1. held[i] \in OpRecord
    BY <1>1
  <2> QED
    BY <2>1 DEF OpRecord
<1> HIDE DEF tl
<1>3. tl # <<>> => tl[Len(tl)].to = at
  <2>1. tl # <<>> => Len(tl) \in 1 .. Len(tl) /\ Len(tl) + 1 = Len(held)
    BY <1>1
  <2>2. held[Len(held)].to = at
    BY DEF HeldRun
  <2> QED
    BY <2>1, <2>2, <1>1
<1>4. ASSUME NEW i \in DOMAIN tl
      PROVE  /\ i > 1 => tl[i].from = tl[i - 1].to
             /\ tl[i].to - tl[i].from \in 1 .. ChunkSize
             /\ tl[i].finished <=> tl[i].to = size
             /\ c[tl[i].op]
             /\ \A j \in DOMAIN tl : tl[i].op = tl[j].op => i = j
  <2>1. tl[i] = held[i + 1] /\ i + 1 \in DOMAIN held /\ 1 \in DOMAIN held
    BY <1>1
  <2>2. i > 1 => tl[i].from = tl[i - 1].to
    <3>1. held[i + 1].from = held[(i + 1) - 1].to
      BY <2>1, <1>1 DEF HeldRun
    <3>2. i > 1 => tl[i - 1] = held[i]
      BY <1>1
    <3>3. (i + 1) - 1 = i
      BY <1>1
    <3> QED
      BY <3>1, <3>2, <3>3, <2>1
  <2>3. /\ tl[i].to - tl[i].from \in 1 .. ChunkSize
        /\ tl[i].finished <=> tl[i].to = size
        /\ b[tl[i].op]
    BY <2>1 DEF HeldRun
  <2>4. tl[i].op # held[1].op
    <3>1. held[i + 1].op = held[1].op => i + 1 = 1
      BY <2>1 DEF HeldRun
    <3> QED
      BY <3>1, <2>1, <1>1
  <2>5. c[tl[i].op] = b[tl[i].op]
    BY <2>4, <2>1, <1>1, <1>2
  <2>6. ASSUME NEW j \in DOMAIN tl, tl[i].op = tl[j].op
        PROVE  i = j
    <3>1. tl[j] = held[j + 1] /\ j + 1 \in DOMAIN held
      BY <1>1
    <3>2. i + 1 = j + 1
      BY <3>1, <2>1, <2>6 DEF HeldRun
    <3> QED
      BY <3>2, <1>1
  <2> QED
    BY <2>2, <2>3, <2>5, <2>6
<1>5. HeldRun(c, at, tl)
  <2> HIDE DEF c
  <2> QED
    BY <1>3, <1>4 DEF HeldRun
<1>6. tl # <<>> => tl[1].from = held[1].to
  <2>1. tl # <<>> => 2 \in DOMAIN held /\ tl[1] = held[2]
    BY <1>1
  <2>2. 2 \in DOMAIN held => held[2].from = held[2 - 1].to
    BY DEF HeldRun
  <2> QED
    BY <2>1, <2>2
<1>7. tl = <<>> => at = held[1].to
  <2>1. tl = <<>> => Len(held) = 1
    BY <1>1
  <2> QED
    BY <2>1 DEF HeldRun
<1> QED
  BY <1>1, <1>2, <1>5, <1>6, <1>7 DEF tl

LEMMA DataSentKeeps ==
    ASSUME size \in Nat \ {0}, UploadPart, NEW o, LargeOnDataSent(o)
    PROVE  UploadPart' /\ size' = size
<1> DEFINE b == [busy EXCEPT ![o.op] = FALSE]
<1>1. /\ ops # <<>> /\ o = ops[1] /\ request = "submitted"
      /\ got' = o.to /\ complete' = o.finished /\ size' = size
  BY DEF LargeOnDataSent, DataSent
<1>2. /\ ops \in Seq(OpRecord) /\ HeldRun(busy, pos, ops)
      /\ busy \in [OpIds -> BOOLEAN] /\ pos \in 0 .. size
  BY DEF UploadPart
<1>3. /\ Tail(ops) \in Seq(OpRecord)
      /\ HeldRun(b, pos, Tail(ops))
      /\ Tail(ops) # <<>> => Tail(ops)[1].from = o.to
      /\ Tail(ops) = <<>> => pos = o.to
      /\ o \in OpRecord
  <2>1. /\ ops \in Seq(OpRecord) /\ ops # <<>> /\ HeldRun(busy, pos, ops)
        /\ busy \in [OpIds -> BOOLEAN]
    BY <1>1, <1>2
  <2>2. /\ Tail(ops) \in Seq(OpRecord)
        /\ HeldRun([busy EXCEPT ![ops[1].op] = FALSE], pos, Tail(ops))
        /\ Tail(ops) # <<>> => Tail(ops)[1].from = ops[1].to
        /\ Tail(ops) = <<>> => pos = ops[1].to
        /\ ops[1] \in OpRecord
    BY ONLY <2>1, TailRun, ZenonT(30)
  <2>3. o = ops[1]
    BY <1>1
  <2> QED
    BY ONLY <2>2, <2>3
<1>4. b \in [OpIds -> BOOLEAN]
  BY <1>2
<1>5. got' \in 0 .. size /\ complete' \in BOOLEAN
  BY <1>1, <1>3 DEF OpRecord
<1>6. complete' => got' = size
  <2>1. 1 \in DOMAIN ops
    BY <1>1, <1>2
  <2>2. o.finished <=> o.to = size
    BY <2>1, <1>1, <1>2 DEF HeldRun
  <2> QED
    BY <2>2, <1>1
<1> HIDE DEF b
<1>7. CASE ChunksQueued(b, pos, Tail(ops)) /\ UNCHANGED request
  <2>1. /\ ops' \in Seq(OpRecord) /\ pos' \in 0 .. size
        /\ busy' \in [OpIds -> BOOLEAN]
        /\ HeldRun(busy', pos', ops')
        /\ ops' # <<>> => ops'[1].from = IF Tail(ops) = <<>> THEN pos ELSE Tail(ops)[1].from
    BY <1>2, <1>3, <1>4, <1>7, QueueProlongs
  <2>2. ops' # <<>> => ops'[1].from = got'
    BY <2>1, <1>3, <1>1
  <2>3. request' \in RequestState
    BY <1>1, <1>7 DEF RequestState
  <2> QED
    BY <2>1, <2>2, <2>3, <1>1, <1>5, <1>6, PartCarried
<1>8. CASE ChunkRefused(b, pos) /\ request' = "clean"
  <2>1. ops' = <<>> /\ pos' \in 0 .. size /\ busy' \in [OpIds -> BOOLEAN]
    BY <1>2, <1>4, <1>8, RefusalClears
  <2>2. request' \in RequestState
    BY <1>8 DEF RequestState
  <2> QED
    BY <2>1, <2>2, <1>1, <1>5, <1>6, EmptyRun, PartCarried
<1> QED
  BY <1>7, <1>8 DEF LargeOnDataSent, b

LEMMA DataFailedKeeps ==
    ASSUME size \in Nat \ {0}, UploadPart, NEW o, LargeOnDataFailed(o)
    PROVE  UploadPart' /\ size' = size
<1>0. /\ ops # <<>> /\ o = ops[1] /\ request = "failed" /\ ops' = Tail(ops)
      /\ UNCHANGED <<request, got, complete, size, pos>>
  BY DEF LargeOnDataFailed, DataFailed
<1>1. busy' = [busy EXCEPT ![ops[1].op] = FALSE]
  BY <1>0 DEF LargeOnDataFailed
<1>2. /\ ops \in Seq(OpRecord) /\ HeldRun(busy, pos, ops)
      /\ busy \in [OpIds -> BOOLEAN]
  BY DEF UploadPart
<1>3. /\ Tail(ops) \in Seq(OpRecord)
      /\ HeldRun(busy', pos, Tail(ops))
  <2>1. /\ ops \in Seq(OpRecord) /\ ops # <<>> /\ HeldRun(busy, pos, ops)
        /\ busy \in [OpIds -> BOOLEAN]
    BY <1>0, <1>2
  <2>2. /\ Tail(ops) \in Seq(OpRecord)
        /\ HeldRun([busy EXCEPT ![ops[1].op] = FALSE], pos, Tail(ops))
    BY ONLY <2>1, TailRun, ZenonT(30)
  <2> QED
    BY ONLY <2>2, <1>1
<1>4. busy' \in [OpIds -> BOOLEAN]
  BY <1>1, <1>2
<1>5. HeldRun(busy', pos', ops') /\ ops' \in Seq(OpRecord)
  BY <1>0, <1>3
<1>6. /\ pos' \in 0 .. size /\ got' \in 0 .. size
      /\ complete' \in BOOLEAN /\ request' \in RequestState
      /\ complete' => got' = size
  BY <1>0 DEF UploadPart
<1>7. ~ (ops' # <<>> /\ request' = "submitted") /\ size' = size
  BY <1>0
<1> QED
  BY <1>4, <1>5, <1>6, <1>7, PartCarried

(* Steps that leave the upload alone, but for the state of its request.    *)
LEMMA OtherKeeps ==
    ASSUME UploadPart,
           UNCHANGED <<size, pos, busy, ops, got, complete>>,
           request' \in RequestState,
           request' = "submitted" => request = "submitted"
    PROVE  UploadPart' /\ size' = size
<1>1. HeldRun(busy', pos', ops') /\ ops' \in Seq(OpRecord)
  BY DEF UploadPart
<1>2. /\ pos' \in 0 .. size /\ got' \in 0 .. size /\ complete' \in BOOLEAN
      /\ busy' \in [OpIds -> BOOLEAN] /\ size' = size
      /\ complete' => got' = size
      /\ ops' # <<>> /\ request' = "submitted" => ops'[1].from = got'
  BY DEF UploadPart
<1> QED
  BY <1>1, <1>2, PartCarried

(* The inductive invariant: the upload, and what keeps its types while the *)
(* other application runs.                                                 *)
UploadInv ==
    /\ TypeOK
    /\ size \in Nat \ {0}
    /\ ops \in Seq(OpRecord)
    /\ app = "large_request" => UploadPart
    /\ app = "devboard_demo" => size = 1

LEMMA InitUpload == Init => UploadInv
<1> SUFFICES ASSUME Init PROVE UploadInv
  OBVIOUS
<1> USE UploadAssumption, ExamplesAssumption
<1>1. size \in Nat \ {0} /\ (app = "devboard_demo" => size = 1)
  BY DEF Init, LargeInit
<1>2. /\ ops = <<>> /\ pos = 0 /\ got = 0 /\ complete = FALSE /\ request = "clean"
      /\ link = "down" /\ commands = 0 /\ app \in {"large_request", "devboard_demo"}
      /\ busy \in [OpIds -> BOOLEAN]
  BY DEF Init, LibInit, LargeInit
<1>3. DemoTypeOK
  <2>1. /\ making \in BOOLEAN /\ timer \in BOOLEAN /\ announcing \in BOOLEAN
        /\ activity \in BOOLEAN /\ forever \in BOOLEAN /\ lit \in BOOLEAN
    BY DEF Init, DemoInit
  <2>2. /\ main = "idle" /\ shown = "disconnected" /\ giving = {}
        /\ sem = 0 /\ pc = "decide" /\ frame = 0
    BY DEF Init, DemoInit
  <2> QED
    BY <2>1, <2>2 DEF DemoTypeOK, ShownState
<1>4. pos \in 0 .. size /\ got \in 0 .. size /\ complete \in BOOLEAN
  <2>1. 0 \in 0 .. size
    BY <1>1
  <2>2. complete \in BOOLEAN
    BY <1>2
  <2> QED
    BY <2>1, <2>2, <1>2
<1>5. TypeOK
  <2>1. {pos, got} \subseteq 0 .. size
    BY <1>4
  <2>2. commands \in 0 .. MaxCommands
    BY <1>2
  <2> QED
    BY <1>2, <1>3, <1>4, <2>1, <2>2 DEF TypeOK, LinkState, RequestState
<1>6. HeldRun(busy, pos, ops) /\ ops \in Seq(OpRecord)
  BY <1>2, EmptyRun
<1>7. UploadPart
  BY <1>2, <1>4, <1>6 DEF UploadPart, RequestState
<1> QED
  BY <1>1, <1>5, <1>6, <1>7 DEF UploadInv

(* Everything but the demo's variables has its type from the upload.       *)
LEMMA LargeTypes ==
    ASSUME UploadPart', TypeOK, size' = size, link' \in LinkState,
           commands' \in 0 .. MaxCommands, UNCHANGED <<app, demoVars>>
    PROVE  TypeOK'
<1>1. DemoTypeOK'
  BY DEF TypeOK, DemoTypeOK, demoVars, setVars, ledVars
<1> QED
  BY <1>1 DEF TypeOK, UploadPart

LEMMA LargeKeeps ==
    ASSUME UploadInv, app = "large_request", UNCHANGED <<app, demoVars>>,
           commands' \in 0 .. MaxCommands,
           LargeNext \/ LargeInitiateCommand \/ LargeSendCommand
    PROVE  UploadInv'
<1>1. /\ UploadPart /\ size \in Nat \ {0} /\ TypeOK
      /\ pos \in 0 .. size /\ busy \in [OpIds -> BOOLEAN]
      /\ link \in LinkState /\ request \in RequestState
  BY DEF UploadInv, UploadPart, TypeOK
<1>2. UploadPart' /\ size' = size /\ link' \in LinkState
  <2>1. CASE LargeOnConnection
    BY <2>1, <1>1, SendDataKeeps DEF LargeOnConnection, Connected, LinkState
  <2>2. ASSUME NEW o, LargeOnDataSent(o)
        PROVE  UploadPart' /\ size' = size /\ link' \in LinkState
    <3>1. UNCHANGED link
      BY <2>2 DEF LargeOnDataSent
    <3> QED
      BY <2>2, <3>1, <1>1, DataSentKeeps
  <2>3. ASSUME NEW o, LargeOnDataFailed(o)
        PROVE  UploadPart' /\ size' = size /\ link' \in LinkState
    <3>1. UNCHANGED link
      BY <2>3 DEF LargeOnDataFailed, DataFailed
    <3> QED
      BY <2>3, <3>1, <1>1, DataFailedKeeps
  <2>4. CASE LargeOnClosed
    <3>1. /\ UNCHANGED <<size, pos, busy, ops, got, complete>> /\ request' = "clean"
          /\ link' \in LinkState
      BY <2>4, <1>1 DEF LargeOnClosed, Closed, Terminate, LinkState, largeVars
    <3> QED
      BY <3>1, <1>1, OtherKeeps DEF RequestState
  <2>5. CASE (LinkUp \/ LinkDown) /\ UNCHANGED <<requestVars, largeVars>>
    <3>1. /\ UNCHANGED <<size, pos, busy, ops, got, complete, request>>
          /\ link' \in LinkState
      BY <2>5, <1>1 DEF LinkUp, LinkDown, LinkState, largeVars, requestVars
    <3> QED
      BY <3>1, <1>1, OtherKeeps
  <2>6. CASE Disconnected /\ UNCHANGED largeVars
    <3>1. /\ UNCHANGED <<size, pos, busy, ops, got, complete>>
          /\ request' \in RequestState /\ (request' = "submitted" => request = "submitted")
          /\ link' \in LinkState
      BY <2>6, <1>1 DEF Disconnected, LinkState, RequestState, largeVars
    <3> QED
      BY <3>1, <1>1, OtherKeeps
  <2>7. CASE Initiate /\ UNCHANGED <<requestVars, largeVars>>
    <3>1. /\ UNCHANGED <<size, pos, busy, ops, got, complete, request>>
          /\ link' \in LinkState
      BY <2>7, <1>1 DEF Initiate, LinkState, largeVars, requestVars
    <3> QED
      BY <3>1, <1>1, OtherKeeps
  <2>8. CASE SendData /\ UNCHANGED link
    BY <2>8, <1>1, SendDataKeeps
  <2> QED
    BY <2>1, <2>2, <2>3, <2>4, <2>5, <2>6, <2>7, <2>8
       DEF LargeNext, LargeInitiateCommand, LargeSendCommand
<1>3. TypeOK'
  BY <1>1, <1>2, LargeTypes
<1>4. (ops \in Seq(OpRecord))' /\ app' = app
  BY <1>2 DEF UploadPart
<1> QED
  BY <1>1, <1>2, <1>3, <1>4 DEF UploadInv

(* The steps of devboard-demo, whose request is one operation.             *)
LEMMA DemoLibrary ==
    ASSUME size = 1, UNCHANGED size, ops \in Seq(OpRecord), link \in LinkState,
           request \in RequestState, got \in 0 .. 1, complete \in BOOLEAN,
           DemoNext \/ RequestCommand \/ PingCommand \/ AnnounceCommand \/ OnInput
    PROVE  /\ (ops \in Seq(OpRecord))' /\ link' \in LinkState /\ request' \in RequestState
           /\ got' \in 0 .. 1 /\ complete' \in BOOLEAN
<1> USE UploadAssumption
<1>0. (OpRecord)' = OpRecord
  BY DEF OpRecord
<1> DEFINE Typed == /\ ops' \in Seq(OpRecord) /\ link' \in LinkState
                    /\ request' \in RequestState
                    /\ got' \in 0 .. 1 /\ complete' \in BOOLEAN
<1> SUFFICES Typed
  BY <1>0
<1>1. CASE UNCHANGED libVars
  BY <1>1 DEF libVars, requestVars
<1>2. CASE UNCHANGED requestVars /\ (LinkUp \/ LinkDown \/ Connected \/ Initiate)
  BY <1>2 DEF requestVars, LinkUp, LinkDown, Connected, Initiate, LinkState
<1>3. ASSUME Leave(<<>>, "clean"), link' \in LinkState
      PROVE  Typed
  <2>1. complete' \in BOOLEAN
    BY <1>3 DEF Leave
  <2>2. ops' = <<>> /\ request' = "clean" /\ got' = 0
    BY <1>3 DEF Leave
  <2>3. ops' \in Seq(OpRecord)
    BY <2>2, EmptyRun
  <2> QED
    BY <1>3, <2>1, <2>2, <2>3 DEF RequestState
<1>4. CASE DemoOnConnection
  <2>1. link' \in LinkState
    BY <1>4 DEF DemoOnConnection, Connected, LinkState
  <2>2. CASE UNCHANGED requestVars
    BY <2>1, <2>2 DEF requestVars
  <2>3. CASE Leave(<<>>, "clean")
    BY <2>1, <2>3, <1>3
  <2>4. CASE Leave(<<[op |-> 0, from |-> 0, to |-> 1, finished |-> TRUE]>>, "submitted")
    <3>1. 0 \in OpIds /\ 0 \in 0 .. size /\ 1 \in 0 .. size
      BY DEF OpIds
    <3>2. [op |-> 0, from |-> 0, to |-> 1, finished |-> TRUE] \in OpRecord
      BY <3>1 DEF OpRecord
    <3>3. ops' \in Seq(OpRecord)
      BY <3>2, <2>4 DEF Leave
    <3>4. complete' \in BOOLEAN
      BY <2>4 DEF Leave
    <3>5. request' = "submitted" /\ got' = 0
      BY <2>4 DEF Leave
    <3> QED
      BY <3>3, <3>4, <3>5, <2>1 DEF RequestState
  <2> QED
    BY <2>2, <2>3, <2>4, <1>4 DEF DemoOnConnection
<1>5. ASSUME NEW o, DemoOnDataSent(o)
      PROVE  Typed
  <2>1. /\ ops # <<>> /\ o = ops[1] /\ ops' = Tail(ops) /\ got' = o.to /\ complete' = o.finished
        /\ UNCHANGED <<link, request>>
    BY <1>5 DEF DemoOnDataSent, DataSent
  <2>2. o \in OpRecord
    BY <2>1
  <2>3. ops' \in Seq(OpRecord)
    BY <2>1
  <2> QED
    BY <2>1, <2>2, <2>3 DEF OpRecord
<1>6. CASE DemoOnDataReceived
  BY <1>6 DEF DemoOnDataReceived, DataReceived, RequestState
<1>7. CASE DemoOnOther
  <2>1. CASE Closed(FALSE)
    BY <2>1 DEF Closed, Terminate, LinkState, RequestState
  <2>2. CASE Disconnected
    BY <2>2 DEF Disconnected, LinkState, RequestState
  <2>3. ASSUME NEW i \in DOMAIN ops, DataFailed(ops[i])
        PROVE  Typed
    BY <2>3 DEF DataFailed
  <2> QED
    BY <2>1, <2>2, <2>3, <1>7 DEF DemoOnOther
<1>8. CASE RequestCommand
  <2>1. link' \in LinkState
    BY <1>8 DEF RequestCommand, Initiate, LinkState
  <2> QED
    BY <2>1, <1>3, <1>8 DEF RequestCommand
<1> QED
  BY <1>1, <1>2, <1>4, <1>5, <1>6, <1>7, <1>8
     DEF DemoNext, ZephyrBtConnected, ZephyrBtDisconnected, ShowsConnecting, StartsTimer,
         AnnounceTimeout, PingCommand, AnnounceCommand, OnInput

LEMMA DemoTypes ==
    ASSUME DemoTypeOK,
           DemoNext \/ RequestCommand \/ PingCommand \/ AnnounceCommand \/ OnInput
    PROVE  DemoTypeOK'
<1> USE DEF DemoTypeOK, demoVars, setVars, ledVars
<1>1. ASSUME NEW who \in giving, Gives(who)
      PROVE  DemoTypeOK'
  BY <1>1 DEF Gives
<1>2. CASE DemoLed
  <2>1. CASE LedTakes
    BY <2>1 DEF LedTakes
  <2>2. CASE LedDecides
    <3>1. /\ lit' \in BOOLEAN /\ forever' \in BOOLEAN
      BY <2>2 DEF LedDecides
    <3>2. frame' \in 0 .. 1 /\ pc' \in {"wait", "decide", "connected", "clear"}
      BY <2>2 DEF LedDecides
    <3>3. UNCHANGED <<making, main, timer, announcing, activity, shown, giving, sem>>
      BY <2>2 DEF LedDecides
    <3> QED
      BY <3>1, <3>2, <3>3
  <2>3. CASE LedConnected
    <3>1. /\ lit' \in BOOLEAN /\ forever' \in BOOLEAN
      BY <2>3 DEF LedConnected
    <3>2. frame' \in 0 .. 1 /\ pc' \in {"wait", "decide", "connected", "clear"}
      BY <2>3 DEF LedConnected
    <3>3. UNCHANGED <<making, main, timer, announcing, activity, shown, giving, sem>>
      BY <2>3 DEF LedConnected
    <3> QED
      BY <3>1, <3>2, <3>3
  <2>4. CASE LedClears
    BY <2>4 DEF LedClears
  <2> QED
    BY <1>2, <2>1, <2>2, <2>3, <2>4 DEF DemoLed
<1>3. CASE ZephyrBtConnected \/ ZephyrBtDisconnected
  BY <1>3 DEF ZephyrBtConnected, ZephyrBtDisconnected, SetConnectionState, Sets, ShownState
<1>4. CASE ShowsConnecting
  BY <1>4 DEF ShowsConnecting, SetConnectionState, Sets, ShownState
<1>5. CASE StartsTimer \/ AnnounceTimeout
  <2>1. /\ timer' \in BOOLEAN /\ announcing' \in BOOLEAN
    BY <1>5 DEF StartsTimer, AnnounceTimeout
  <2>2. main' \in {"idle", "initiated", "announced"} /\ sem' \in 0 .. 1
    BY <1>5 DEF StartsTimer, AnnounceTimeout
  <2>3. UNCHANGED <<making, activity, shown, giving, ledVars>>
    BY <1>5 DEF StartsTimer, AnnounceTimeout
  <2> QED
    BY <2>1, <2>2, <2>3
<1>6. CASE DemoOnConnection \/ DemoOnOther
  BY <1>6 DEF DemoOnConnection, DemoOnOther
<1>7. CASE DemoOnDataReceived
  BY <1>7 DEF DemoOnDataReceived, DataActivity, Sets
<1>8. ASSUME NEW o, DemoOnDataSent(o)
      PROVE  DemoTypeOK'
  BY <1>8 DEF DemoOnDataSent, DataActivity, Sets
<1>9. CASE RequestCommand \/ PingCommand
  BY <1>9 DEF RequestCommand, PingCommand
<1>10. CASE AnnounceCommand \/ OnInput
  BY <1>10 DEF AnnounceCommand, OnInput, DataActivity, Sets
<1> QED
  BY <1>1, <1>2, <1>3, <1>4, <1>5, <1>6, <1>7, <1>8, <1>9, <1>10 DEF DemoNext, DemoGives

LEMMA NextUpload == UploadInv /\ [Next]_vars => UploadInv'
<1> SUFFICES ASSUME UploadInv, [Next]_vars PROVE UploadInv'
  OBVIOUS
<1> USE UploadAssumption, ExamplesAssumption
<1>0. commands \in 0 .. MaxCommands /\ app \in {"large_request", "devboard_demo"}
  BY DEF UploadInv, TypeOK
<1>1. ASSUME app = "large_request", UNCHANGED <<app, demoVars>>,
             commands' \in 0 .. MaxCommands,
             LargeNext \/ LargeInitiateCommand \/ LargeSendCommand
      PROVE  UploadInv'
  BY <1>1, LargeKeeps
<1>2. ASSUME app = "devboard_demo", UNCHANGED <<app, largeVars>>,
             commands' \in 0 .. MaxCommands,
             DemoNext \/ RequestCommand \/ PingCommand \/ AnnounceCommand \/ OnInput
      PROVE  UploadInv'
  <2>1. /\ size = 1 /\ UNCHANGED <<size, pos, busy>> /\ app' = app
        /\ ops \in Seq(OpRecord) /\ DemoTypeOK
        /\ link \in LinkState /\ request \in RequestState
        /\ got \in 0 .. 1 /\ complete \in BOOLEAN /\ pos \in 0 .. 1
        /\ busy \in [OpIds -> BOOLEAN]
    BY <1>2 DEF UploadInv, TypeOK, largeVars
  <2>2. /\ (ops \in Seq(OpRecord))' /\ link' \in LinkState /\ request' \in RequestState
        /\ got' \in 0 .. 1 /\ complete' \in BOOLEAN
    BY <1>2, <2>1, DemoLibrary
  <2>3. DemoTypeOK'
    BY <1>2, <2>1, DemoTypes
  <2>4. TypeOK'
    BY <1>2, <2>1, <2>2, <2>3 DEF TypeOK
  <2> QED
    BY <1>2, <2>1, <2>2, <2>4 DEF UploadInv
<1>3. CASE Command
  <2>1. commands' \in 0 .. MaxCommands /\ app' = app
    BY <1>0, <1>3 DEF Command
  <2>2. \/ /\ app = "large_request" /\ UNCHANGED demoVars
           /\ LargeInitiateCommand \/ LargeSendCommand
        \/ /\ app = "devboard_demo" /\ UNCHANGED largeVars
           /\ RequestCommand \/ PingCommand \/ AnnounceCommand \/ OnInput
    BY <1>3 DEF Command
  <2> QED
    BY <2>1, <2>2, <1>1, <1>2
<1>4. CASE Large
  BY <1>0, <1>1, <1>4 DEF Large
<1>5. CASE Demo
  BY <1>0, <1>2, <1>5 DEF Demo
<1>6. CASE UNCHANGED vars
  <2>1. UNCHANGED <<link, request, ops, got, complete, size, pos, busy, refused, app, commands, demoVars>>
    BY <1>6 DEF vars, libVars, requestVars, largeVars
  <2>2. DemoTypeOK'
    BY <2>1 DEF UploadInv, TypeOK, DemoTypeOK, demoVars, setVars, ledVars
  <2>3. TypeOK'
    BY <2>1, <2>2 DEF UploadInv, TypeOK
  <2>4. (ops \in Seq(OpRecord))'
    BY <2>1 DEF UploadInv, OpRecord
  <2>5. app' = "large_request" => UploadPart'
    <3>1. SUFFICES ASSUME app' = "large_request" PROVE UploadPart'
      OBVIOUS
    <3>2. UploadPart /\ request \in RequestState
      BY <3>1, <2>1 DEF UploadInv, TypeOK
    <3> QED
      BY <3>2, <2>1, OtherKeeps
  <2> QED
    BY <2>1, <2>3, <2>4, <2>5 DEF UploadInv
<1> QED
  BY <1>3, <1>4, <1>5, <1>6 DEF Next

(* Whatever the sizes of buffer and chunks and the number of operations,   *)
(* and whatever is refused, fails or is started over, the hotspot gets the *)
(* buffer in order, without a gap, and its end exactly with the last byte; *)
(* no operation is lent to the library twice.                              *)
THEOREM UploadsAreWhole == Spec => []WholeUploads
<1>1. UploadInv => WholeUploads
  <2> SUFFICES ASSUME UploadInv PROVE WholeUploads
    OBVIOUS
  <2>1. ASSUME app = "large_request" PROVE UploadWhole
    <3>1. UploadPart /\ ops \in Seq(OpRecord)
      BY <2>1 DEF UploadInv
    <3> QED
      BY <3>1 DEF UploadPart, HeldRun, UploadWhole
  <2> QED
    BY <2>1 DEF UploadInv, WholeUploads
<1> QED
  BY <1>1, InitUpload, NextUpload, PTL DEF Spec

------------------------------------------------------------------------------

(* The LED's thread decides to sleep for good only for a connection with   *)
(* nothing else to show; whoever changes that owes it a wake-up.           *)
LedInv ==
    /\ NoWakeupLost
    /\ pc = "connected" /\ sem = 0 /\ giving = {} => shown = "connected" /\ ~ announcing

LEMMA LedSteps ==
    ASSUME LedInv,
           DemoNext \/ RequestCommand \/ PingCommand \/ AnnounceCommand \/ OnInput
    PROVE  LedInv'
<1> USE DEF LedInv, NoWakeupLost
<1>1. ASSUME NEW who \in giving, Gives(who)
      PROVE  LedInv'
  BY <1>1 DEF Gives
<1>2. CASE LedTakes
  BY <1>2 DEF LedTakes
<1>3. CASE LedDecides
  <2>1. CASE announcing \/ shown # "connected"
    BY <1>3, <2>1 DEF LedDecides
  <2>2. CASE ~ announcing /\ shown = "connected"
    BY <1>3, <2>2 DEF LedDecides, setVars
  <2> QED
    BY <2>1, <2>2
<1>4. CASE LedConnected
  <2>1. CASE activity
    BY <1>4, <2>1 DEF LedConnected
  <2>2. CASE ~ activity
    BY <1>4, <2>2 DEF LedConnected, setVars
  <2> QED
    BY <2>1, <2>2
<1>5. CASE LedClears
  BY <1>5 DEF LedClears
<1>6. ASSUME NEW who, NEW a, NEW d, NEW s, Sets(who, a, d, s)
      PROVE  LedInv'
  BY <1>6 DEF Sets
<1>7. CASE AnnounceTimeout
  BY <1>7 DEF AnnounceTimeout
<1>8. CASE UNCHANGED <<setVars, ledVars>>
  BY <1>8 DEF setVars, ledVars
<1>9. CASE ZephyrBtConnected \/ ZephyrBtDisconnected \/ ShowsConnecting
  BY <1>6, <1>9
     DEF ZephyrBtConnected, ZephyrBtDisconnected, ShowsConnecting, SetConnectionState
<1>10. CASE OnInput \/ AnnounceCommand \/ DemoOnDataReceived
  BY <1>6, <1>10 DEF OnInput, AnnounceCommand, DemoOnDataReceived, DataActivity
<1>11. ASSUME NEW o, DemoOnDataSent(o)
       PROVE  LedInv'
  BY <1>6, <1>11 DEF DemoOnDataSent, DataActivity
<1>12. CASE RequestCommand \/ PingCommand \/ StartsTimer \/ DemoOnConnection \/ DemoOnOther
  BY <1>8, <1>12
     DEF RequestCommand, PingCommand, StartsTimer, DemoOnConnection, DemoOnOther, demoVars
<1> QED
  BY <1>1, <1>2, <1>3, <1>4, <1>5, <1>7, <1>9, <1>10, <1>11, <1>12
     DEF DemoNext, DemoLed, DemoGives

(* Whoever sets a variable of the LED and whenever he is interrupted, the  *)
(* LED's thread never sleeps for good with something else to be shown.     *)
THEOREM WakeupsKept == Spec => []NoWakeupLost
<1>1. Init => LedInv
  BY DEF Init, DemoInit, LedInv, NoWakeupLost
<1>2. LedInv /\ [Next]_vars => LedInv'
  <2> SUFFICES ASSUME LedInv, [Next]_vars PROVE LedInv'
    OBVIOUS
  <2>1. CASE UNCHANGED demoVars
    BY <2>1 DEF LedInv, NoWakeupLost, demoVars, setVars, ledVars
  <2>2. CASE Command \/ Large
    BY <2>1, <2>2, LedSteps DEF Command, Large
  <2>3. CASE Demo
    BY <2>3, LedSteps DEF Demo
  <2>4. CASE UNCHANGED vars
    BY <2>1, <2>4 DEF vars
  <2> QED
    BY <2>2, <2>3, <2>4 DEF Next
<1>3. LedInv => NoWakeupLost
  BY DEF LedInv
<1> QED
  BY <1>1, <1>2, <1>3, PTL DEF Spec

------------------------------------------------------------------------------
(* The heart rate monitor beside Blecon, for any number of sets and of     *)
(* connection objects.                                                     *)

(* What the library does: one of its sets is connectable, and it leaves it *)
(* alone between a link and its report.                                    *)
OneSession == ~ Hastens /\ \A s, t \in Connectable : s = t

Given == {s \in AdvSets : identity[s] # -1}

(* The host numbers the identities upwards, none twice.                    *)
IdentityInv ==
    /\ created = Given
    /\ onAir \subseteq Given \union {AppSet}
    /\ \A s \in Given :
          /\ s < setsCount
          /\ identity[s] \in 1 .. MaxSets /\ identity[s] <= Cardinality(Given)
    /\ \A s, t \in Given : identity[s] = identity[t] => s = t

Linked(c) == conn[c].at \in {"up", "lost"}

(* An object that advertises is that of a connectable set on the air.      *)
ObjectInv ==
    \A c \in Conns :
        /\ conn[c].at # "ended"
        /\ conn[c].at = "free" => conn[c] = FreeConn
        /\ conn[c].at # "free" =>
              \/ conn[c].id = DefaultId
              \/ \E s \in Connectable : s \in Given /\ identity[s] = conn[c].id
        /\ conn[c].at = "adv" =>
              /\ conn[c].id = DefaultId => AppSet \in onAir
              /\ \A s \in Connectable : identity[s] = conn[c].id => s \in onAir
              /\ \A d \in Conns : conn[d] = conn[c] => d = c

CallbackInv ==
    \A c \in Conns :
        /\ rx \in {<<"port", c>>, <<"app", c>>} => conn[c].at = "up"
        /\ wq \in {<<"port", c>>, <<"app", c>>} => conn[c].at = "lost"

(* A link of ours is the session's, is not reported yet or was the last    *)
(* session's; while our connectable set is on the air there is no session. *)
SessionInv ==
    /\ refs = {btConn} \ {NoConn}
    /\ btConn # NoConn => Ours(btConn) /\ Linked(btConn) /\ wq # <<"app", btConn>>
    /\ \A c \in Conns : Ours(c) =>
          /\ rx = <<"port", c>> => btConn = NoConn
          /\ Linked(c) => c = btConn \/ rx = <<"port", c>> \/ wq = <<"app", c>>
    /\ \A s \in Connectable \intersect onAir :
          btConn = NoConn /\ \A c \in Conns : rx = <<"port", c>> => ~ Ours(c)

(* The monitor has one object at most, and none when it starts its set.    *)
MonitorInv ==
    /\ hrConn # NoConn => conn[hrConn].id = DefaultId /\ Linked(hrConn)
    /\ \A c, d \in Conns : conn[c].id = DefaultId /\ conn[d].id = DefaultId => c = d
    /\ thread = "setup" => state = {}
    /\ thread = "setup" \/ "DISCONNECTED" \in state =>
          \A c \in Conns : conn[c].id # DefaultId
    /\ \A c \in Conns : conn[c].id = DefaultId /\ Linked(c) =>
          hrConn = c \/ rx \in {<<"port", c>>, <<"app", c>>}

HrInv == /\ CoexistTypeOK /\ IdentityInv /\ ObjectInv /\ CallbackInv /\ SessionInv
         /\ MonitorInv

LEMMA SetsFinite == IsFiniteSet(AdvSets) /\ Cardinality(AdvSets) = MaxSets /\ MaxSets \in Nat
BY FS_Interval, SetAssumption DEF AdvSets

LEMMA GivenFinite ==
    /\ IsFiniteSet(Given) /\ Cardinality(Given) \in Nat
    /\ Cardinality(Given) <= MaxSets
<1>1. Given \in SUBSET AdvSets BY DEF Given
<1> QED BY <1>1, SetsFinite, FS_Subset, FS_CardinalityType

LEMMA InitHr == CoexistInit => HrInv
<1> SUFFICES ASSUME CoexistInit PROVE HrInv
  OBVIOUS
<1> USE SetAssumption DEF CoexistInit, AdvInit
<1>1. Given = {} BY DEF Given
<1>2. CoexistTypeOK
  <2>1. FreeConn \in Conn BY DEF FreeConn, Conn
  <2>2. conn \in [Conns -> Conn] BY <2>1
  <2>3. identity \in [AdvSets -> -1 .. MaxSets] OBVIOUS
  <2>4. {rx, wq} \subseteq Callback BY DEF Callback
  <2>5. setsCount \in 0 .. MaxSets OBVIOUS
  <2> QED BY <2>2, <2>3, <2>4, <2>5 DEF CoexistTypeOK, AdvTypeOK
<1>3. IdentityInv BY <1>1 DEF IdentityInv
<1>4. ObjectInv BY DEF ObjectInv, FreeConn
<1>5. CallbackInv BY DEF CallbackInv, Idle
<1>6. SessionInv BY <1>3 DEF SessionInv, FreeConn, Linked, Ours
<1>7. MonitorInv BY DEF MonitorInv, FreeConn, Linked, DefaultId
<1> QED BY <1>2, <1>3, <1>4, <1>5, <1>6, <1>7 DEF HrInv

(* Steps that leave the sets and the objects of the host alone.            *)
LEMMA ObjectsAlone ==
    ASSUME HrInv, UNCHANGED <<identity, created, setsCount, onAir, conn>>
    PROVE  IdentityInv' /\ ObjectInv'
<1>1. IdentityInv /\ ObjectInv BY DEF HrInv
<1>2. Given' = Given BY DEF Given
<1> QED BY <1>1, <1>2 DEF IdentityInv, ObjectInv

LEMMA CallbacksKeep ==
    ASSUME HrInv, NEW c \in Conns,
           \/ OnConnected(c) /\ UNCHANGED hrVars
           \/ OnDisconnected(c) /\ UNCHANGED hrVars
           \/ ConnectionDown(c) /\ UNCHANGED hrVars
           \/ HrConnected(c)
    PROVE  HrInv'
<1>0. /\ CoexistTypeOK /\ IdentityInv /\ ObjectInv /\ CallbackInv /\ SessionInv /\ MonitorInv
  BY DEF HrInv
<1>1. UNCHANGED <<identity, created, setsCount, onAir, conn, denied, thread, scanning>>
  BY DEF OnConnected, OnDisconnected, ConnectionDown, HrConnected, hrVars, advVars
<1>2. IdentityInv' /\ ObjectInv' BY <1>1, ObjectsAlone
<1>c. c # NoConn BY SetAssumption
<1>3. CASE OnConnected(c) /\ UNCHANGED hrVars
  <2>1. /\ rx = <<"port", c>> /\ rx' = <<"app", c>> /\ UNCHANGED <<wq, hrConn, state>>
        /\ IF \E s \in AdvSets : s < setsCount /\ identity[s] = conn[c].id
           THEN btConn' = c /\ refs' = refs \union {c} ELSE UNCHANGED <<btConn, refs>>
    BY <1>3 DEF OnConnected, hrVars
  <2>2. conn[c].at = "up" BY <1>0, <2>1 DEF CallbackInv
  <2>3. CoexistTypeOK'
    BY <1>0, <1>1, <2>1 DEF CoexistTypeOK, AdvTypeOK, Callback
  <2>4. CallbackInv' BY <1>0, <1>1, <2>1 DEF CallbackInv
  <2>5. (\E s \in AdvSets : s < setsCount /\ identity[s] = conn[c].id) <=> Ours(c)
    <3>1. CASE conn[c].id = DefaultId
      <4>1. ~ Ours(c) BY <3>1 DEF Ours, DefaultId
      <4>2. \A s \in AdvSets : identity[s] # DefaultId
        BY <1>0 DEF IdentityInv, Given, DefaultId
      <4> QED BY <3>1, <4>1, <4>2
    <3>2. CASE conn[c].id # DefaultId
      <4>1. PICK s \in Connectable : s \in Given /\ identity[s] = conn[c].id
        BY <1>0, <2>2, <3>2 DEF ObjectInv
      <4>2. s < setsCount /\ s \in AdvSets /\ identity[s] \in 1 .. MaxSets
        BY <1>0, <4>1 DEF IdentityInv, Given
      <4> QED BY <4>1, <4>2 DEF Ours
    <3> QED BY <3>1, <3>2
  <2>6. SessionInv'
    <3>1. CASE Ours(c)
      <4>1. btConn = NoConn /\ btConn' = c /\ refs' = {c}
        BY <1>0, <2>1, <2>5, <3>1, SetAssumption DEF SessionInv
      <4>2. \A s \in Connectable \intersect onAir : FALSE
        BY <1>0, <2>1, <3>1 DEF SessionInv
      <4>3. wq' # <<"app", c>> BY <1>0, <2>1, <2>2 DEF CallbackInv
      <4>4. \A d \in Conns : rx' # <<"port", d>> BY <2>1
      <4>5. \A d \in Conns : Ours(d)' /\ Linked(d)' => d = c \/ wq = <<"app", d>>
        BY <1>0, <1>1, <2>1, <4>1, SetAssumption DEF SessionInv, Ours, Linked
      <4> QED BY <1>1, <1>c, <2>1, <2>2, <3>1, <4>1, <4>2, <4>3, <4>4, <4>5
              DEF SessionInv, Ours, Linked
    <3>2. CASE ~ Ours(c)
      <4>1. UNCHANGED <<btConn, refs>> BY <2>1, <2>5, <3>2
      <4>2. \A d \in Conns : rx' # <<"port", d>> BY <2>1
      <4>3. \A d \in Conns : Ours(d) => rx # <<"port", d>> BY <2>1, <3>2
      <4> QED BY <1>0, <1>1, <2>1, <4>1, <4>2, <4>3 DEF SessionInv, Ours, Linked
    <3> QED BY <3>1, <3>2
  <2>7. MonitorInv' BY <1>0, <1>1, <2>1 DEF MonitorInv, Linked
  <2> QED BY <1>2, <2>3, <2>4, <2>6, <2>7 DEF HrInv
<1>4. CASE OnDisconnected(c) /\ UNCHANGED hrVars
  <2>1. /\ wq = <<"port", c>> /\ wq' = <<"app", c>> /\ UNCHANGED <<rx, hrConn, state>>
        /\ IF c = btConn
           THEN btConn' = NoConn /\ refs' = refs \ {c} ELSE UNCHANGED <<btConn, refs>>
    BY <1>4 DEF OnDisconnected, hrVars
  <2>2. CoexistTypeOK'
    BY <1>0, <1>1, <2>1 DEF CoexistTypeOK, AdvTypeOK, Callback
  <2>3. CallbackInv' BY <1>0, <1>1, <2>1 DEF CallbackInv
  <2>4. SessionInv'
    <3>1. refs' = {btConn'} \ {NoConn} /\ ((btConn' = btConn /\ btConn # c) \/ btConn' = NoConn)
      BY <1>0, <1>c, <2>1 DEF SessionInv
    <3>2. \A d \in Conns : Ours(d)' /\ Linked(d)' =>
              d = btConn' \/ rx' = <<"port", d>> \/ wq' = <<"app", d>>
      <4> SUFFICES ASSUME NEW d \in Conns, Ours(d), Linked(d)
                   PROVE  d = btConn' \/ rx' = <<"port", d>> \/ wq' = <<"app", d>>
        BY <1>1 DEF Ours, Linked
      <4>1. d = btConn \/ rx = <<"port", d>> BY <1>0, <2>1 DEF SessionInv
      <4> QED BY <2>1, <4>1
    <3> QED BY <1>0, <1>1, <2>1, <3>1, <3>2 DEF SessionInv, Ours, Linked
  <2>5. MonitorInv' BY <1>0, <1>1, <2>1 DEF MonitorInv, Linked
  <2> QED BY <1>2, <2>2, <2>3, <2>4, <2>5 DEF HrInv
<1>5. CASE ConnectionDown(c) /\ UNCHANGED hrVars
  <2>1. /\ wq = Idle /\ conn[c].at = "lost" /\ wq' = <<"port", c>>
        /\ UNCHANGED <<rx, btConn, refs, hrConn, state>>
    BY <1>5 DEF ConnectionDown, hrVars
  <2>2. CoexistTypeOK'
    BY <1>0, <1>1, <2>1 DEF CoexistTypeOK, AdvTypeOK, Callback
  <2>3. CallbackInv' BY <1>0, <1>1, <2>1 DEF CallbackInv
  <2>4. \A d : wq # <<"app", d>> /\ wq' # <<"app", d>> BY <2>1 DEF Idle
  <2>5. SessionInv' BY <1>0, <1>1, <2>1, <2>4 DEF SessionInv, Ours, Linked
  <2>6. MonitorInv' BY <1>0, <1>1, <2>1 DEF MonitorInv, Linked
  <2> QED BY <1>2, <2>2, <2>3, <2>5, <2>6 DEF HrInv
<1>6. CASE HrConnected(c)
  <2>1. /\ rx = <<"app", c>> /\ rx' = Idle /\ UNCHANGED <<wq, btConn, refs>>
        /\ IF conn[c].id = DefaultId
           THEN hrConn' = c /\ state' = state \union {"CONNECTED"}
           ELSE UNCHANGED <<hrConn, state>>
    BY <1>6 DEF HrConnected
  <2>2. conn[c].at = "up" BY <1>0, <2>1 DEF CallbackInv
  <2>3. CoexistTypeOK'
    BY <1>0, <1>1, <2>1 DEF CoexistTypeOK, AdvTypeOK, Callback
  <2>4. \A d : rx' \notin {<<"port", d>>, <<"app", d>>} BY <2>1 DEF Idle
  <2>5. CallbackInv' BY <1>0, <1>1, <2>1, <2>4 DEF CallbackInv
  <2>6. SessionInv' BY <1>0, <1>1, <2>1, <2>4 DEF SessionInv, Ours, Linked
  <2>7. MonitorInv' BY <1>0, <1>1, <1>c, <2>1, <2>2, <2>4 DEF MonitorInv, Linked
  <2> QED BY <1>2, <2>3, <2>5, <2>6, <2>7 DEF HrInv
<1> QED BY <1>3, <1>4, <1>5, <1>6

------------------------------------------------------------------------------
LEMMA LostKeeps ==
    ASSUME HrInv, NEW c \in Conns, ConnectionLost(c), UNCHANGED hrVars
    PROVE  HrInv'
<1>0. /\ CoexistTypeOK /\ IdentityInv /\ ObjectInv /\ CallbackInv /\ SessionInv /\ MonitorInv
  BY DEF HrInv
<1>1. /\ UNCHANGED <<identity, created, setsCount, onAir, scanning, refs, btConn, rx, wq,
                     denied, hrConn, state, thread>>
      /\ conn[c].at = "up" /\ rx[2] # c
      /\ conn' = [conn EXCEPT ![c].at = "lost"]
  BY DEF ConnectionLost, hrVars, advVars
<1>2. conn \in [Conns -> Conn] BY <1>0 DEF CoexistTypeOK, AdvTypeOK
<1>3. /\ conn'[c] = [at |-> "lost", id |-> conn[c].id] /\ conn'[c] \in Conn
      /\ \A d \in Conns \ {c} : conn'[d] = conn[d]
  BY <1>1, <1>2 DEF Conn
<1>4. conn' \in [Conns -> Conn] BY <1>1, <1>2, <1>3
<1>5. CoexistTypeOK' BY <1>0, <1>1, <1>4 DEF CoexistTypeOK, AdvTypeOK
<1>6. Given' = Given BY <1>1 DEF Given
<1>7. IdentityInv' BY <1>0, <1>1, <1>6 DEF IdentityInv
<1>8. \A d \in Conns : conn'[d].id = conn[d].id /\ (conn'[d].at = "free" <=> conn[d].at = "free")
  BY <1>1, <1>3
<1>9. ObjectInv'
  <2> SUFFICES ASSUME NEW d \in Conns
               PROVE  /\ conn'[d].at # "ended"
                      /\ conn'[d].at = "free" => conn'[d] = FreeConn
                      /\ conn'[d].at # "free" =>
                            \/ conn'[d].id = DefaultId
                            \/ \E s \in Connectable : s \in Given /\ identity[s] = conn'[d].id
                      /\ conn'[d].at = "adv" =>
                            /\ conn'[d].id = DefaultId => AppSet \in onAir
                            /\ \A s \in Connectable : identity[s] = conn'[d].id => s \in onAir
                            /\ \A e \in Conns : conn'[e] = conn'[d] => e = d
    BY <1>1, <1>6 DEF ObjectInv
  <2>1. CASE d = c BY <1>0, <1>1, <1>3, <2>1 DEF ObjectInv
  <2>2. CASE d # c BY <1>0, <1>1, <1>3, <2>2 DEF ObjectInv
  <2> QED BY <2>1, <2>2
<1>10. rx \notin {<<"port", c>>, <<"app", c>>} BY <1>1
<1>11. CallbackInv' BY <1>0, <1>1, <1>3, <1>10 DEF CallbackInv
<1>12. \A d \in Conns : (Ours(d)' <=> Ours(d)) /\ (Linked(d)' <=> Linked(d))
  BY <1>1, <1>3, <1>8 DEF Ours, Linked
<1>13. SessionInv'
  <2>1. btConn \in Conns \union {NoConn} BY <1>0 DEF CoexistTypeOK, AdvTypeOK
  <2>2. btConn # NoConn => Ours(btConn)' /\ Linked(btConn)'
    BY <1>0, <1>1, <1>12, <2>1 DEF SessionInv, Ours, Linked
  <2> QED BY <1>0, <1>1, <1>12, <2>2 DEF SessionInv
<1>14. MonitorInv'
  <2>1. hrConn \in Conns \union {NoConn} BY <1>0 DEF CoexistTypeOK
  <2>2. hrConn # NoConn => conn'[hrConn].id = DefaultId /\ Linked(hrConn)'
    BY <1>0, <1>1, <1>8, <1>12, <2>1 DEF MonitorInv, Linked
  <2> QED BY <1>0, <1>1, <1>8, <1>12, <2>2 DEF MonitorInv
<1> QED BY <1>5, <1>7, <1>9, <1>11, <1>13, <1>14 DEF HrInv

(* The last callback gives the host its object back.                       *)
LEMMA DisconnectedKeeps ==
    ASSUME HrInv, NEW c \in Conns, HrDisconnected(c)
    PROVE  HrInv'
<1>0. /\ CoexistTypeOK /\ IdentityInv /\ ObjectInv /\ CallbackInv /\ SessionInv /\ MonitorInv
  BY DEF HrInv
<1>1. /\ UNCHANGED <<identity, created, setsCount, onAir, scanning, refs, btConn, rx,
                     denied, thread>>
      /\ wq = <<"app", c>> /\ wq' = Idle
      /\ IF c = hrConn
         THEN hrConn' = NoConn /\ state' = state \union {"DISCONNECTED"}
         ELSE UNCHANGED <<hrConn, state>>
      /\ HostReleases(c)
  BY DEF HrDisconnected, advVars
<1>2. conn \in [Conns -> Conn] BY <1>0 DEF CoexistTypeOK, AdvTypeOK
<1>c. c # NoConn BY SetAssumption
<1>3. conn[c].at = "lost" /\ btConn # c /\ c \notin refs
  BY <1>0, <1>1, <1>c DEF CallbackInv, SessionInv
<1>4. conn' = [conn EXCEPT ![c] = FreeConn] BY <1>1, <1>3 DEF HostReleases
<1>5. conn'[c] = FreeConn /\ \A d \in Conns \ {c} : conn'[d] = conn[d] BY <1>2, <1>4
<1>6. FreeConn.at = "free" /\ FreeConn.id = -1 /\ FreeConn \in Conn
  BY SetAssumption DEF FreeConn, Conn
<1>7. conn' \in [Conns -> Conn] BY <1>2, <1>4, <1>6
<1>8. CoexistTypeOK'
  <2>1. hrConn' \in Conns \union {NoConn} /\ state' \subseteq {"CONNECTED", "DISCONNECTED"}
    BY <1>0, <1>1 DEF CoexistTypeOK
  <2> QED BY <1>0, <1>1, <1>7, <2>1 DEF CoexistTypeOK, AdvTypeOK, Callback
<1>9. Given' = Given BY <1>1 DEF Given
<1>10. IdentityInv' BY <1>0, <1>1, <1>9 DEF IdentityInv
<1>11. ObjectInv'
  <2> SUFFICES ASSUME NEW d \in Conns
               PROVE  /\ conn'[d].at # "ended"
                      /\ conn'[d].at = "free" => conn'[d] = FreeConn
                      /\ conn'[d].at # "free" =>
                            \/ conn'[d].id = DefaultId
                            \/ \E s \in Connectable : s \in Given /\ identity[s] = conn'[d].id
                      /\ conn'[d].at = "adv" =>
                            /\ conn'[d].id = DefaultId => AppSet \in onAir
                            /\ \A s \in Connectable : identity[s] = conn'[d].id => s \in onAir
                            /\ \A e \in Conns : conn'[e] = conn'[d] => e = d
    BY <1>1, <1>9 DEF ObjectInv
  <2>1. CASE d = c BY <1>5, <1>6, <2>1
  <2>2. CASE d # c BY <1>0, <1>5, <1>6, <2>2 DEF ObjectInv
  <2> QED BY <2>1, <2>2
<1>12. CallbackInv' BY <1>0, <1>1, <1>3, <1>5 DEF CallbackInv, Idle
<1>13. ~ Ours(c)' /\ ~ Linked(c)' BY <1>5, <1>6 DEF Ours, Linked
<1>14. \A d \in Conns \ {c} : (Ours(d)' <=> Ours(d)) /\ (Linked(d)' <=> Linked(d))
  BY <1>5 DEF Ours, Linked
<1>15. SessionInv'
  <2>1. btConn \in Conns \union {NoConn} BY <1>0 DEF CoexistTypeOK, AdvTypeOK
  <2>2. btConn # NoConn => Ours(btConn)' /\ Linked(btConn)' /\ wq' # <<"app", btConn>>
    BY <1>0, <1>1, <1>3, <1>14, <2>1 DEF SessionInv, Ours, Linked, Idle
  <2>3. \A d \in Conns : Ours(d)' =>
          /\ rx' = <<"port", d>> => btConn' = NoConn
          /\ Linked(d)' => d = btConn' \/ rx' = <<"port", d>> \/ wq' = <<"app", d>>
    BY <1>0, <1>1, <1>13, <1>14 DEF SessionInv
  <2>4. \A d \in Conns : rx' = <<"port", d>> /\ ~ Ours(d) => ~ Ours(d)'
    BY <1>13, <1>14
  <2> QED BY <1>0, <1>1, <2>2, <2>3, <2>4 DEF SessionInv
<1>16. \A d \in Conns : conn'[d].id = DefaultId => d # c /\ conn[d].id = DefaultId
  BY <1>5, <1>6 DEF DefaultId
<1>17. MonitorInv'
  <2>1. hrConn \in Conns \union {NoConn} BY <1>0 DEF CoexistTypeOK
  <2>2. CASE c = hrConn
    <3>1. conn[c].id = DefaultId BY <1>0, <1>c, <2>2 DEF MonitorInv
    <3>2. \A d \in Conns : conn'[d].id # DefaultId BY <1>0, <1>16, <3>1 DEF MonitorInv
    <3>3. thread # "setup" BY <1>0, <3>1 DEF MonitorInv
    <3> QED BY <1>1, <2>2, <3>2, <3>3 DEF MonitorInv
  <2>3. CASE c # hrConn
    <3>1. UNCHANGED <<hrConn, state>> BY <1>1, <2>3
    <3>2. hrConn # NoConn => conn'[hrConn].id = DefaultId /\ Linked(hrConn)'
      BY <1>0, <1>5, <1>14, <2>1, <2>3, <3>1 DEF MonitorInv, Linked
    <3> QED BY <1>0, <1>1, <1>14, <1>16, <3>1, <3>2 DEF MonitorInv
  <2> QED BY <2>2, <2>3
<1> QED BY <1>8, <1>10, <1>11, <1>12, <1>15, <1>17 DEF HrInv

------------------------------------------------------------------------------
(* A peer connects to a set on the air: the one of the object's identity,  *)
(* as there is one connectable set and no identity twice.                  *)
LEMMA UpKeeps ==
    ASSUME OneSession, HrInv, NEW c \in Conns, NEW s \in AdvSets \union {AppSet},
           ConnectionUp(c, s), UNCHANGED hrVars
    PROVE  HrInv'
<1>0. /\ CoexistTypeOK /\ IdentityInv /\ ObjectInv /\ CallbackInv /\ SessionInv /\ MonitorInv
  BY DEF HrInv
<1>1. /\ UNCHANGED <<identity, created, setsCount, scanning, refs, btConn, wq,
                     denied, hrConn, state, thread>>
      /\ rx = Idle /\ s \in onAir /\ conn[c].at = "adv"
      /\ conn[c].id = (IF s = AppSet THEN DefaultId ELSE identity[s])
      /\ conn' = [conn EXCEPT ![c].at = "up"]
      /\ onAir' = onAir \ {s}
      /\ rx' = <<"port", c>>
  BY DEF ConnectionUp, hrVars
<1>2. conn \in [Conns -> Conn] BY <1>0 DEF CoexistTypeOK, AdvTypeOK
<1>c. c # NoConn BY SetAssumption
<1>3. /\ conn'[c] = [at |-> "up", id |-> conn[c].id] /\ conn'[c] \in Conn
      /\ \A d \in Conns \ {c} : conn'[d] = conn[d]
  BY <1>1, <1>2 DEF Conn
<1>4. conn' \in [Conns -> Conn] BY <1>1, <1>2, <1>3
<1>5. CoexistTypeOK' BY <1>0, <1>1, <1>4 DEF CoexistTypeOK, AdvTypeOK, Callback
<1>6. Given' = Given BY <1>1 DEF Given
<1>7. IdentityInv' BY <1>0, <1>1, <1>6 DEF IdentityInv
<1>8. s = AppSet \/ s \in Connectable \intersect Given
  <2> SUFFICES ASSUME s # AppSet PROVE s \in Connectable \intersect Given
    OBVIOUS
  <2>1. s \in Given /\ identity[s] # DefaultId
    BY <1>0, <1>1, SetAssumption DEF IdentityInv, DefaultId
  <2>2. PICK t \in Connectable : t \in Given /\ identity[t] = conn[c].id
    BY <1>0, <1>1, <2>1 DEF ObjectInv
  <2>3. s = t BY <1>0, <1>1, <2>1, <2>2 DEF IdentityInv
  <2> QED BY <2>1, <2>2, <2>3
<1>9. s # AppSet <=> Ours(c)
  <2>1. CASE s = AppSet BY <1>1, <2>1 DEF Ours, DefaultId
  <2>2. CASE s # AppSet BY <1>0, <1>1, <1>8, <2>2 DEF Ours, IdentityInv
  <2> QED BY <2>1, <2>2
<1>10. conn[c].id = DefaultId <=> s = AppSet
  BY <1>0, <1>1, <1>8, SetAssumption DEF DefaultId, IdentityInv
<1>11. \A d \in Conns : conn'[d].at = "adv" => d # c /\ conn'[d] = conn[d] /\ conn[d].id # conn[c].id
  <2> SUFFICES ASSUME NEW d \in Conns, conn'[d].at = "adv", conn[d].id = conn[c].id
               PROVE  FALSE
    BY <1>3
  <2>1. d # c /\ conn[d].at = "adv" BY <1>3
  <2>2. conn[d] = conn[c] BY <1>1, <1>2, <2>1 DEF Conn
  <2> QED BY <1>0, <1>1, <2>1, <2>2 DEF ObjectInv
<1>12. ObjectInv'
  <2> SUFFICES ASSUME NEW d \in Conns
               PROVE  /\ conn'[d].at # "ended"
                      /\ conn'[d].at = "free" => conn'[d] = FreeConn
                      /\ conn'[d].at # "free" =>
                            \/ conn'[d].id = DefaultId
                            \/ \E t \in Connectable : t \in Given /\ identity[t] = conn'[d].id
                      /\ conn'[d].at = "adv" =>
                            /\ conn'[d].id = DefaultId => AppSet \in onAir'
                            /\ \A t \in Connectable : identity[t] = conn'[d].id => t \in onAir'
                            /\ \A e \in Conns : conn'[e] = conn'[d] => e = d
    BY <1>1, <1>6 DEF ObjectInv
  <2>1. CASE d = c BY <1>0, <1>1, <1>3, <2>1 DEF ObjectInv
  <2>2. CASE d # c
    <3>1. conn'[d] = conn[d] BY <1>3, <2>2
    <3>2. CASE conn[d].at = "adv"
      <4>1. conn[d].id # conn[c].id BY <1>11, <3>1, <3>2
      <4>2. conn[d].id = DefaultId => AppSet \in onAir'
        BY <1>0, <1>1, <1>10, <3>2, <4>1 DEF ObjectInv
      <4>3. \A t \in Connectable : identity[t] = conn[d].id => t \in onAir'
        BY <1>0, <1>1, <3>2, <4>1, SetAssumption DEF ObjectInv
      <4>4. \A e \in Conns : conn'[e] = conn'[d] => e = d
        BY <1>0, <1>3, <3>1, <3>2 DEF ObjectInv
      <4> QED BY <1>0, <3>1, <4>2, <4>3, <4>4 DEF ObjectInv
    <3>3. CASE conn[d].at # "adv" BY <1>0, <3>1, <3>3 DEF ObjectInv
    <3> QED BY <3>2, <3>3
  <2> QED BY <2>1, <2>2
<1>13. CallbackInv'
  <2>1. wq \notin {<<"port", c>>, <<"app", c>>} BY <1>0, <1>1 DEF CallbackInv
  <2> QED BY <1>0, <1>1, <1>3, <2>1 DEF CallbackInv
<1>14. \A d \in Conns : (Ours(d)' <=> Ours(d)) /\ (d # c => (Linked(d)' <=> Linked(d)))
  BY <1>3 DEF Ours, Linked
<1>15. SessionInv'
  <2>1. btConn \in Conns \union {NoConn} BY <1>0 DEF CoexistTypeOK, AdvTypeOK
  <2>2. btConn # c BY <1>0, <1>1, <1>c DEF SessionInv, Linked
  <2>3. btConn # NoConn => Ours(btConn)' /\ Linked(btConn)' /\ wq' # <<"app", btConn>>
    BY <1>0, <1>1, <1>14, <2>1, <2>2 DEF SessionInv, Ours, Linked
  <2>4. Ours(c) => btConn = NoConn BY <1>0, <1>1, <1>8, <1>9 DEF SessionInv
  <2>5. \A d \in Conns : Ours(d)' =>
          /\ rx' = <<"port", d>> => btConn' = NoConn
          /\ Linked(d)' => d = btConn' \/ rx' = <<"port", d>> \/ wq' = <<"app", d>>
    BY <1>0, <1>1, <1>14, <2>4 DEF SessionInv, Idle
  <2>6. \A t \in Connectable \intersect onAir' : btConn' = NoConn /\ ~ Ours(c)'
    <3> SUFFICES ASSUME NEW t \in Connectable, t \in onAir' PROVE btConn' = NoConn /\ ~ Ours(c)'
      OBVIOUS
    <3>1. t \in onAir /\ t # s BY <1>1
    <3>2. s = AppSet BY <1>8, <3>1 DEF OneSession
    <3> QED BY <1>0, <1>1, <1>9, <1>14, <3>1, <3>2 DEF SessionInv
  <2> QED BY <1>0, <1>1, <2>3, <2>5, <2>6 DEF SessionInv
<1>16. MonitorInv'
  <2>1. hrConn \in Conns \union {NoConn} BY <1>0 DEF CoexistTypeOK
  <2>2. hrConn # c BY <1>0, <1>1, <1>c DEF MonitorInv, Linked
  <2>3. hrConn # NoConn => conn'[hrConn].id = DefaultId /\ Linked(hrConn)'
    BY <1>0, <1>1, <1>3, <1>14, <2>1, <2>2 DEF MonitorInv, Linked
  <2>4. \A d \in Conns : conn'[d].id = conn[d].id BY <1>3
  <2>5. \A d \in Conns : conn'[d].id = DefaultId /\ Linked(d)' =>
           hrConn' = d \/ rx' \in {<<"port", d>>, <<"app", d>>}
    BY <1>0, <1>1, <1>14, <2>4 DEF MonitorInv, Idle
  <2> QED BY <1>0, <1>1, <2>3, <2>4, <2>5 DEF MonitorInv
<1> QED BY <1>5, <1>7, <1>12, <1>13, <1>15, <1>16 DEF HrInv

------------------------------------------------------------------------------
(* The library's calls.                                                    *)

LEMMA ParamsKeep ==
    ASSUME HrInv, NEW s \in AdvSets, UpdateParams(s), UNCHANGED hrVars
    PROVE  HrInv'
<1>0. /\ CoexistTypeOK /\ IdentityInv /\ ObjectInv /\ CallbackInv /\ SessionInv /\ MonitorInv
  BY DEF HrInv
<1>1. /\ UNCHANGED <<setsCount, onAir, scanning, conn, refs, btConn, rx, wq,
                     denied, hrConn, state, thread>>
      /\ s < setsCount /\ s \notin onAir /\ created' = created \union {s}
      /\ identity' = IF identity[s] # -1 THEN identity
                     ELSE [identity EXCEPT ![s] = 1 + Cardinality(Given)]
  BY DEF UpdateParams, hrVars, Given
<1>2. identity \in [AdvSets -> -1 .. MaxSets] BY <1>0 DEF CoexistTypeOK, AdvTypeOK
<1>3. SessionInv' /\ MonitorInv' /\ CallbackInv'
  BY <1>0, <1>1 DEF SessionInv, MonitorInv, CallbackInv, Ours, Linked
<1>4. CASE identity[s] # -1
  <2>1. created' = created /\ identity' = identity BY <1>0, <1>1, <1>4 DEF IdentityInv, Given
  <2>2. IdentityInv' /\ ObjectInv' BY <1>1, <2>1, ObjectsAlone
  <2>3. CoexistTypeOK' BY <1>0, <1>1, <2>1 DEF CoexistTypeOK, AdvTypeOK
  <2> QED BY <1>3, <2>2, <2>3 DEF HrInv
<1>5. CASE identity[s] = -1
  <2> DEFINE new == 1 + Cardinality(Given)
  <2>1. /\ identity'[s] = new /\ identity' = [identity EXCEPT ![s] = new]
        /\ \A t \in AdvSets \ {s} : identity'[t] = identity[t]
    BY <1>1, <1>2, <1>5
  <2>2. Cardinality(Given) \in Nat /\ new \in Nat /\ new # -1 /\ new >= 1
    BY GivenFinite
  <2>3. s \notin Given /\ Given' = Given \union {s} BY <1>5, <2>1, <2>2 DEF Given
  <2>4. Cardinality(Given') = new BY <2>3, GivenFinite, FS_AddElement
  <2>5. new <= MaxSets
    <3>1. Given' \in SUBSET AdvSets BY <2>3 DEF Given
    <3> QED BY <2>4, <3>1, SetsFinite, FS_Subset
  <2>6. new \in 1 .. MaxSets BY <2>2, <2>5, SetsFinite
  <2>7. \A t \in Given : t # s /\ identity'[t] = identity[t] /\ identity[t] < new
    <3> SUFFICES ASSUME NEW t \in Given
                 PROVE  t # s /\ identity'[t] = identity[t] /\ identity[t] < new
      OBVIOUS
    <3>1. identity[t] <= Cardinality(Given) /\ identity[t] \in 1 .. MaxSets
      BY <1>0 DEF IdentityInv
    <3> QED BY <2>1, <2>2, <2>3, <3>1, SetsFinite DEF Given
  <2> HIDE DEF new
  <2>8. identity' \in [AdvSets -> -1 .. MaxSets] BY <1>2, <2>1, <2>6, SetsFinite
  <2>9. CoexistTypeOK' BY <1>0, <1>1, <2>8 DEF CoexistTypeOK, AdvTypeOK
  <2>10. IdentityInv'
    <3>1. created' = Given' /\ onAir' \subseteq Given' \union {AppSet}
      BY <1>0, <1>1, <2>3 DEF IdentityInv
    <3>2. ASSUME NEW t \in Given'
          PROVE  t < setsCount /\ identity'[t] \in 1 .. MaxSets /\ identity'[t] <= new
      <4>1. CASE t = s BY <1>1, <2>1, <2>2, <2>6, <4>1
      <4>2. CASE t # s
        <5>1. t \in Given /\ identity'[t] = identity[t] /\ identity[t] < new BY <2>3, <2>7, <4>2
        <5>2. identity[t] \in 1 .. MaxSets BY <1>0, <5>1 DEF IdentityInv
        <5> QED BY <1>0, <2>2, <5>1, <5>2, SetsFinite DEF IdentityInv
      <4> QED BY <4>1, <4>2
    <3>3. ASSUME NEW t \in Given', NEW u \in Given', identity'[t] = identity'[u] PROVE t = u
      <4>1. CASE t = s /\ u # s
        <5>1. u \in Given /\ identity'[u] < new /\ identity'[t] = new BY <2>1, <2>3, <2>7, <4>1
        <5>2. identity'[u] \in 1 .. MaxSets BY <1>0, <2>7, <5>1 DEF IdentityInv
        <5> QED BY <2>2, <3>3, <5>1, <5>2, SetsFinite
      <4>2. CASE u = s /\ t # s
        <5>1. t \in Given /\ identity'[t] < new /\ identity'[u] = new BY <2>1, <2>3, <2>7, <4>2
        <5>2. identity'[t] \in 1 .. MaxSets BY <1>0, <2>7, <5>1 DEF IdentityInv
        <5> QED BY <2>2, <3>3, <5>1, <5>2, SetsFinite
      <4>3. CASE u # s /\ t # s BY <1>0, <2>3, <2>7, <3>3, <4>3 DEF IdentityInv
      <4> QED BY <4>1, <4>2, <4>3
    <3> QED BY <1>1, <2>4, <3>1, <3>2, <3>3 DEF IdentityInv
  <2>11. ObjectInv'
    <3> SUFFICES ASSUME NEW d \in Conns
                 PROVE  /\ conn[d].at # "ended"
                        /\ conn[d].at = "free" => conn[d] = FreeConn
                        /\ conn[d].at # "free" =>
                              \/ conn[d].id = DefaultId
                              \/ \E t \in Connectable : t \in Given' /\ identity'[t] = conn[d].id
                        /\ conn[d].at = "adv" =>
                              /\ conn[d].id = DefaultId => AppSet \in onAir
                              /\ \A t \in Connectable : identity'[t] = conn[d].id => t \in onAir
                              /\ \A e \in Conns : conn[e] = conn[d] => e = d
      BY <1>1 DEF ObjectInv
    <3>1. conn[d].at # "free" =>
              \/ conn[d].id = DefaultId
              \/ \E t \in Connectable : t \in Given' /\ identity'[t] = conn[d].id
      BY <1>0, <2>3, <2>7 DEF ObjectInv
    <3>2. conn[d].at # "free" => conn[d].id # new
      <4>1. CASE conn[d].id = DefaultId BY <2>2, <4>1 DEF DefaultId
      <4>2. ASSUME NEW t \in Given, identity[t] = conn[d].id PROVE conn[d].id # new
        <5>1. identity[t] \in 1 .. MaxSets /\ identity[t] < new BY <1>0, <2>7 DEF IdentityInv
        <5> QED BY <2>2, <4>2, <5>1
      <4> QED BY <1>0, <4>1, <4>2 DEF ObjectInv
    <3>3. conn[d].at = "adv" =>
            \A t \in Connectable : identity'[t] = conn[d].id => t \in onAir
      BY <1>0, <2>1, <3>2, SetAssumption DEF ObjectInv
    <3> QED BY <1>0, <3>1, <3>3 DEF ObjectInv
  <2> QED BY <1>3, <2>9, <2>10, <2>11 DEF HrInv
<1> QED BY <1>4, <1>5

LEMMA StopKeeps ==
    ASSUME HrInv, NEW s \in AdvSets, Stop(s), UNCHANGED hrVars
    PROVE  HrInv'
<1>0. /\ CoexistTypeOK /\ IdentityInv /\ ObjectInv /\ CallbackInv /\ SessionInv /\ MonitorInv
  BY DEF HrInv
<1>1. /\ UNCHANGED <<identity, created, setsCount, scanning, refs, btConn, rx, wq,
                     denied, hrConn, state, thread>>
      /\ s \in created /\ onAir' = onAir \ {s}
      /\ conn' = [c \in Conns |-> IF conn[c] = [at |-> "adv", id |-> identity[s]]
                                  THEN FreeConn ELSE conn[c]]
  BY DEF Stop, hrVars
<1>2. conn \in [Conns -> Conn] BY <1>0 DEF CoexistTypeOK, AdvTypeOK
<1>3. FreeConn.at = "free" /\ FreeConn.id = -1 /\ FreeConn \in Conn
  BY SetAssumption DEF FreeConn, Conn
<1>4. \A c \in Conns :
        \/ conn'[c] = conn[c] /\ (conn[c].at = "adv" => conn[c].id # identity[s])
        \/ conn'[c] = FreeConn /\ conn[c].at = "adv" /\ conn[c].id = identity[s]
  BY <1>1, <1>2 DEF Conn
<1>5. conn' \in [Conns -> Conn] BY <1>1, <1>2, <1>3
<1>6. CoexistTypeOK' BY <1>0, <1>1, <1>5 DEF CoexistTypeOK, AdvTypeOK
<1>7. Given' = Given BY <1>1 DEF Given
<1>8. IdentityInv' BY <1>0, <1>1, <1>7 DEF IdentityInv
<1>9. s # AppSet BY SetAssumption
<1>10. ObjectInv'
  <2> SUFFICES ASSUME NEW d \in Conns
               PROVE  /\ conn'[d].at # "ended"
                      /\ conn'[d].at = "free" => conn'[d] = FreeConn
                      /\ conn'[d].at # "free" =>
                            \/ conn'[d].id = DefaultId
                            \/ \E t \in Connectable : t \in Given /\ identity[t] = conn'[d].id
                      /\ conn'[d].at = "adv" =>
                            /\ conn'[d].id = DefaultId => AppSet \in onAir'
                            /\ \A t \in Connectable : identity[t] = conn'[d].id => t \in onAir'
                            /\ \A e \in Conns : conn'[e] = conn'[d] => e = d
    BY <1>1, <1>7 DEF ObjectInv
  <2>1. CASE conn'[d] = FreeConn BY <1>3, <2>1
  <2>2. CASE conn'[d] = conn[d] /\ (conn[d].at = "adv" => conn[d].id # identity[s])
    <3>1. conn[d].at = "adv" =>
            /\ conn[d].id = DefaultId => AppSet \in onAir'
            /\ \A t \in Connectable : identity[t] = conn[d].id => t \in onAir'
      BY <1>0, <1>1, <1>9, <2>2 DEF ObjectInv
    <3>2. conn[d].at = "adv" => \A e \in Conns : conn'[e] = conn'[d] => e = d
      <4> SUFFICES ASSUME conn[d].at = "adv", NEW e \in Conns, conn'[e] = conn'[d] PROVE e = d
        OBVIOUS
      <4>1. conn'[e] = conn[e] BY <1>3, <1>4, <2>2
      <4> QED BY <1>0, <2>2, <4>1 DEF ObjectInv
    <3> QED BY <1>0, <2>2, <3>1, <3>2 DEF ObjectInv
  <2> QED BY <1>4, <2>1, <2>2
<1>11. CallbackInv' BY <1>0, <1>1, <1>4 DEF CallbackInv
<1>12. \A d \in Conns : /\ Ours(d)' => Ours(d)
                        /\ Linked(d)' <=> Linked(d)
                        /\ Linked(d) => conn'[d] = conn[d]
                        /\ conn'[d].id = DefaultId => conn[d].id = DefaultId
  BY <1>3, <1>4 DEF Ours, Linked, DefaultId
<1>13. SessionInv'
  <2>1. btConn \in Conns \union {NoConn} BY <1>0 DEF CoexistTypeOK, AdvTypeOK
  <2>2. btConn # NoConn => Ours(btConn)' /\ Linked(btConn)' /\ wq' # <<"app", btConn>>
    BY <1>0, <1>1, <1>12, <2>1 DEF SessionInv, Ours, Linked
  <2> QED BY <1>0, <1>1, <1>12, <2>2 DEF SessionInv
<1>14. MonitorInv'
  <2>1. hrConn \in Conns \union {NoConn} BY <1>0 DEF CoexistTypeOK
  <2>2. hrConn # NoConn => conn'[hrConn].id = DefaultId /\ Linked(hrConn)'
    BY <1>0, <1>1, <1>12, <2>1 DEF MonitorInv, Linked
  <2> QED BY <1>0, <1>1, <1>12, <2>2 DEF MonitorInv
<1> QED BY <1>6, <1>8, <1>10, <1>11, <1>13, <1>14 DEF HrInv

------------------------------------------------------------------------------
(* A start takes a free object for its set.                                *)
LEMMA Takes ==
    ASSUME HrInv, NEW c \in Conns, conn[c] = FreeConn, NEW s, NEW id,
           \/ s = AppSet /\ id = DefaultId
           \/ s \in Connectable \intersect Given /\ id = identity[s],
           \A d \in Conns : conn[d].at = "adv" => conn[d].id # id,
           conn' = [conn EXCEPT ![c] = [at |-> "adv", id |-> id]],
           onAir' = onAir \union {s},
           UNCHANGED <<identity, created, setsCount, rx, wq>>
    PROVE  /\ IdentityInv' /\ ObjectInv' /\ CallbackInv'
           /\ conn' \in [Conns -> Conn] /\ onAir' \subseteq AdvSets \union {AppSet}
           /\ conn'[c].at = "adv" /\ conn'[c].id = id
           /\ \A d \in Conns \ {c} : conn'[d] = conn[d]
<1>0. /\ CoexistTypeOK /\ IdentityInv /\ ObjectInv /\ CallbackInv
  BY DEF HrInv
<1>2. conn \in [Conns -> Conn] BY <1>0 DEF CoexistTypeOK, AdvTypeOK
<1>3. [at |-> "adv", id |-> id] \in Conn
  BY <1>0, SetAssumption DEF Conn, DefaultId, IdentityInv
<1>4. /\ conn'[c] = [at |-> "adv", id |-> id]
      /\ conn'[c].at = "adv" /\ conn'[c].id = id
      /\ \A d \in Conns \ {c} : conn'[d] = conn[d]
  BY <1>2
<1>5. conn' \in [Conns -> Conn] BY <1>2, <1>3
<1>6. onAir' \subseteq AdvSets \union {AppSet}
  BY <1>0, SetAssumption DEF CoexistTypeOK, AdvTypeOK
<1>7. Given' = Given BY DEF Given
<1>8. IdentityInv' BY <1>0, <1>7 DEF IdentityInv
<1>9. conn[c].at = "free" BY DEF FreeConn
<1>10. CallbackInv' BY <1>0, <1>4, <1>9 DEF CallbackInv
<1>11. ObjectInv'
  <2> SUFFICES ASSUME NEW d \in Conns
               PROVE  /\ conn'[d].at # "ended"
                      /\ conn'[d].at = "free" => conn'[d] = FreeConn
                      /\ conn'[d].at # "free" =>
                            \/ conn'[d].id = DefaultId
                            \/ \E t \in Connectable : t \in Given /\ identity[t] = conn'[d].id
                      /\ conn'[d].at = "adv" =>
                            /\ conn'[d].id = DefaultId => AppSet \in onAir'
                            /\ \A t \in Connectable : identity[t] = conn'[d].id => t \in onAir'
                            /\ \A e \in Conns : conn'[e] = conn'[d] => e = d
    BY <1>7 DEF ObjectInv
  <2>1. CASE d = c
    <3>1. id = DefaultId => AppSet \in onAir'
      BY <1>0 DEF IdentityInv, DefaultId
    <3>2. \A t \in Connectable : identity[t] = id => t \in onAir'
      <4> SUFFICES ASSUME NEW t \in Connectable, identity[t] = id PROVE t = s
        OBVIOUS
      <4>1. identity[t] # -1 /\ t \in Given
        BY <1>0, SetAssumption DEF Given, DefaultId, IdentityInv
      <4>2. s # AppSet BY <1>0, <4>1, SetAssumption DEF IdentityInv, DefaultId, Given
      <4> QED BY <1>0, <4>1, <4>2 DEF IdentityInv
    <3>3. \A e \in Conns : conn'[e] = conn'[d] => e = d
      BY <1>4, <2>1
    <3>4. id = DefaultId \/ \E t \in Connectable : t \in Given /\ identity[t] = id
      OBVIOUS
    <3> QED BY <1>4, <2>1, <3>1, <3>2, <3>3, <3>4
  <2>2. CASE d # c
    <3>1. conn[d].at = "adv" => \A e \in Conns : conn'[e] = conn'[d] => e = d
      BY <1>0, <1>4, <2>2 DEF ObjectInv
    <3> QED BY <1>0, <1>4, <2>2, <3>1 DEF ObjectInv
  <2> QED BY <2>1, <2>2
<1> QED BY <1>4, <1>5, <1>6, <1>8, <1>10, <1>11

LEMMA StartKeeps ==
    ASSUME OneSession, HrInv, NEW s \in AdvSets, Start(s), UNCHANGED hrVars
    PROVE  HrInv'
<1>0. /\ CoexistTypeOK /\ IdentityInv /\ ObjectInv /\ CallbackInv /\ SessionInv /\ MonitorInv
  BY DEF HrInv
<1>1. /\ UNCHANGED <<identity, created, setsCount, scanning, refs, btConn, rx, wq,
                     hrConn, state, thread>>
      /\ s \in created \ onAir /\ btConn = NoConn
      /\ HostStart(s, identity[s], s \in Connectable, "port")
  BY DEF Start, hrVars
<1>u. \A d \in Conns : rx = <<"port", d>> => ~ Ours(d)
  BY DEF Start, OneSession, LinkUnreported, Ours, DefaultId
<1>g. s \in Given /\ identity[s] \in 1 .. MaxSets /\ Given' = Given
  BY <1>0, <1>1 DEF IdentityInv, Given
<1>d. denied' \subseteq {"port", "app"}
  BY <1>0, <1>1 DEF HostStart, CoexistTypeOK, AdvTypeOK
<1>2. CASE s \notin Connectable
  <2>1. onAir' = onAir \union {s} /\ conn' = conn BY <1>1, <1>2 DEF HostStart
  <2>2. IdentityInv' BY <1>0, <1>1, <1>g, <2>1 DEF IdentityInv
  <2>3. ObjectInv' BY <1>0, <1>1, <1>g, <2>1 DEF ObjectInv
  <2>4. CoexistTypeOK' BY <1>0, <1>1, <1>d, <2>1 DEF CoexistTypeOK, AdvTypeOK
  <2>5. CallbackInv' /\ MonitorInv'
    BY <1>0, <1>1, <2>1 DEF CallbackInv, MonitorInv, Linked
  <2>6. SessionInv' BY <1>0, <1>1, <1>2, <2>1 DEF SessionInv, Ours, Linked
  <2> QED BY <2>2, <2>3, <2>4, <2>5, <2>6 DEF HrInv
<1>3. ASSUME s \in Connectable, NEW c \in Conns, conn[c] = FreeConn,
             conn' = [conn EXCEPT ![c] = [at |-> "adv", id |-> identity[s]]],
             onAir' = onAir \union {s}
      PROVE  HrInv'
  <2>1. \A d \in Conns : conn[d].at = "adv" => conn[d].id # identity[s]
    BY <1>0, <1>1, <1>3 DEF ObjectInv
  <2>2. /\ IdentityInv' /\ ObjectInv' /\ CallbackInv'
        /\ conn' \in [Conns -> Conn] /\ onAir' \subseteq AdvSets \union {AppSet}
        /\ conn'[c].at = "adv" /\ conn'[c].id = identity[s]
        /\ \A d \in Conns \ {c} : conn'[d] = conn[d]
    <3>1. s \in Connectable \intersect Given BY <1>3, <1>g
    <3> QED BY <1>1, <1>3, <2>1, <3>1, Takes
  <2>3. CoexistTypeOK' BY <1>0, <1>1, <1>d, <2>2 DEF CoexistTypeOK, AdvTypeOK
  <2>4. conn[c].at = "free" /\ conn[c].id = -1 BY <1>3 DEF FreeConn
  <2>5. rx \notin {<<"port", c>>, <<"app", c>>} BY <1>0, <2>4 DEF CallbackInv
  <2>6. ~ Linked(c)' /\ \A d \in Conns : Linked(d)' => d # c /\ Linked(d)
    BY <2>2 DEF Linked
  <2>7. \A d \in Conns : Ours(d)' /\ d # c => Ours(d) BY <2>2 DEF Ours
  <2>8. SessionInv'
    <3>1. \A d \in Conns : Ours(d)' =>
            /\ rx' = <<"port", d>> => btConn' = NoConn
            /\ Linked(d)' => d = btConn' \/ rx' = <<"port", d>> \/ wq' = <<"app", d>>
      BY <1>0, <1>1, <2>6, <2>7 DEF SessionInv
    <3>2. \A d \in Conns : rx' = <<"port", d>> => ~ Ours(d)'
      BY <1>1, <1>u, <2>5, <2>7
    <3> QED BY <1>0, <1>1, <3>1, <3>2 DEF SessionInv
  <2>9. MonitorInv'
    <3>1. hrConn \in Conns \union {NoConn} BY <1>0 DEF CoexistTypeOK
    <3>2. hrConn # c \/ hrConn = NoConn BY <1>0, <2>4 DEF MonitorInv, Linked
    <3>3. hrConn # NoConn => conn'[hrConn].id = DefaultId /\ Linked(hrConn)'
      BY <1>0, <1>1, <2>2, <3>1, <3>2 DEF MonitorInv, Linked
    <3>4. \A d \in Conns : conn'[d].id = DefaultId => d # c /\ conn[d].id = DefaultId
      BY <1>g, <2>2 DEF DefaultId
    <3> QED BY <1>0, <1>1, <2>6, <3>3, <3>4 DEF MonitorInv
  <2> QED BY <2>2, <2>3, <2>8, <2>9 DEF HrInv
<1>4. CASE UNCHANGED <<onAir, conn>>
  <2>1. IdentityInv' /\ ObjectInv' BY <1>1, <1>4, ObjectsAlone
  <2>2. CoexistTypeOK' BY <1>0, <1>1, <1>4, <1>d DEF CoexistTypeOK, AdvTypeOK
  <2>3. CallbackInv' /\ MonitorInv' /\ SessionInv'
    BY <1>0, <1>1, <1>4 DEF CallbackInv, MonitorInv, SessionInv, Linked, Ours
  <2> QED BY <2>1, <2>2, <2>3 DEF HrInv
<1> QED BY <1>1, <1>2, <1>3, <1>4 DEF HostStart

(* The monitor starts its set when it has no object.                       *)
LEMMA MonitorStarts ==
    ASSUME HrInv, StartAdvertising, state' = {},
           thread = "setup" \/ state = {"DISCONNECTED"}
    PROVE  HrInv'
<1>0. /\ CoexistTypeOK /\ IdentityInv /\ ObjectInv /\ CallbackInv /\ SessionInv /\ MonitorInv
  BY DEF HrInv
<1>1. /\ UNCHANGED <<identity, created, setsCount, scanning, refs, btConn, rx, wq, hrConn>>
      /\ HostStart(AppSet, DefaultId, TRUE, "app")
      /\ thread' \in {"sleep", "returned"}
  BY DEF StartAdvertising
<1>2. \A d \in Conns : conn[d].id # DefaultId BY <1>0 DEF MonitorInv
<1>3. hrConn = NoConn
  <2>1. hrConn \in Conns \union {NoConn} BY <1>0 DEF CoexistTypeOK
  <2> QED BY <1>0, <1>2, <2>1 DEF MonitorInv
<1>d. denied' \subseteq {"port", "app"}
  BY <1>0, <1>1 DEF HostStart, CoexistTypeOK, AdvTypeOK
<1>4. ASSUME NEW c \in Conns, conn[c] = FreeConn,
             conn' = [conn EXCEPT ![c] = [at |-> "adv", id |-> DefaultId]],
             onAir' = onAir \union {AppSet}
      PROVE  HrInv'
  <2>1. /\ IdentityInv' /\ ObjectInv' /\ CallbackInv'
        /\ conn' \in [Conns -> Conn] /\ onAir' \subseteq AdvSets \union {AppSet}
        /\ conn'[c].at = "adv" /\ conn'[c].id = DefaultId
        /\ \A d \in Conns \ {c} : conn'[d] = conn[d]
    BY <1>1, <1>2, <1>4, Takes
  <2>2. CoexistTypeOK' BY <1>0, <1>1, <1>d, <2>1 DEF CoexistTypeOK, AdvTypeOK
  <2>3. \A d \in Conns : Ours(d)' => d # c /\ Ours(d) BY <2>1 DEF Ours, DefaultId
  <2>4. \A d \in Conns : Linked(d)' => d # c /\ Linked(d) BY <2>1 DEF Linked
  <2>5. SessionInv'
    <3>1. btConn \in Conns \union {NoConn} BY <1>0 DEF CoexistTypeOK, AdvTypeOK
    <3>2. btConn # NoConn => btConn # c
      BY <1>0, <1>4 DEF SessionInv, Linked, FreeConn
    <3>3. btConn # NoConn => Ours(btConn)' /\ Linked(btConn)' /\ wq' # <<"app", btConn>>
      BY <1>0, <1>1, <2>1, <3>1, <3>2 DEF SessionInv, Linked, Ours
    <3>4. \A d \in Conns : Ours(d)' =>
            /\ rx' = <<"port", d>> => btConn' = NoConn
            /\ Linked(d)' => d = btConn' \/ rx' = <<"port", d>> \/ wq' = <<"app", d>>
      BY <1>0, <1>1, <2>3, <2>4 DEF SessionInv
    <3>5. Connectable \intersect onAir' = Connectable \intersect onAir
      BY <1>4, SetAssumption
    <3>6. \A d \in Conns : rx' = <<"port", d>> /\ ~ Ours(d) => ~ Ours(d)' BY <2>3
    <3> QED BY <1>0, <1>1, <3>3, <3>4, <3>5, <3>6 DEF SessionInv
  <2>6. MonitorInv'
    <3>1. \A d \in Conns : conn'[d].id = DefaultId => d = c BY <1>2, <2>1
    <3> QED BY <1>1, <1>3, <2>1, <2>4, <3>1 DEF MonitorInv
  <2> QED BY <2>1, <2>2, <2>5, <2>6 DEF HrInv
<1>5. CASE UNCHANGED <<onAir, conn>>
  <2>1. IdentityInv' /\ ObjectInv' BY <1>1, <1>5, ObjectsAlone
  <2>2. CoexistTypeOK' BY <1>0, <1>1, <1>5, <1>d DEF CoexistTypeOK, AdvTypeOK
  <2>3. CallbackInv' /\ SessionInv'
    BY <1>0, <1>1, <1>5 DEF CallbackInv, SessionInv, Linked, Ours
  <2>4. MonitorInv' BY <1>1, <1>2, <1>3, <1>5 DEF MonitorInv
  <2> QED BY <2>1, <2>2, <2>3, <2>4 DEF HrInv
<1> QED BY <1>1, <1>4, <1>5 DEF HostStart

------------------------------------------------------------------------------
(* The other calls and callbacks, and the thread's poll that finds a link. *)
LEMMA RestKeeps ==
    ASSUME HrInv,
           \/ AdvertisingSetNew /\ UNCHANGED hrVars
           \/ (ScanStart \/ ScanStop) /\ UNCHANGED hrVars
           \/ (ReportReceived \/ OnScanReportReceived) /\ UNCHANGED hrVars
           \/ UNCHANGED <<portVars, hrConn, thread>> /\ state' = state \ {"CONNECTED"}
           \/ UNCHANGED coexistVars
    PROVE  HrInv'
<1>0. /\ CoexistTypeOK /\ IdentityInv /\ ObjectInv /\ CallbackInv /\ SessionInv /\ MonitorInv
  BY DEF HrInv
<1> USE DEF AdvertisingSetNew, ScanStart, ScanStop, ReportReceived, OnScanReportReceived,
            hrVars, portVars, advVars, coexistVars
<1>1. /\ UNCHANGED <<identity, created, onAir, conn, refs, btConn, wq, denied,
                     hrConn, thread>>
      /\ state' \in {state, state \ {"CONNECTED"}}
  OBVIOUS
<1>2. \/ rx' = rx
      \/ {rx, rx'} \subseteq {Idle, <<"report", NoConn>>}
  OBVIOUS
<1>3. scanning' \in BOOLEAN BY <1>0 DEF CoexistTypeOK, AdvTypeOK
<1>4. setsCount' \in 0 .. MaxSets /\ (setsCount' = setsCount \/ setsCount' = setsCount + 1)
  BY <1>0, SetAssumption DEF CoexistTypeOK, AdvTypeOK
<1>5. {rx', wq'} \subseteq Callback BY <1>0, <1>1, <1>2 DEF CoexistTypeOK, AdvTypeOK, Callback
<1>6. CoexistTypeOK' BY <1>0, <1>1, <1>3, <1>4, <1>5 DEF CoexistTypeOK, AdvTypeOK
<1>7. Given' = Given BY <1>1 DEF Given
<1>8. IdentityInv'
  <2>1. ASSUME NEW s \in Given PROVE s < setsCount'
    <3>1. s < setsCount BY <1>0 DEF IdentityInv
    <3>2. s \in 0 .. MaxSets - 1 /\ setsCount \in 0 .. MaxSets
      BY <1>0 DEF CoexistTypeOK, AdvTypeOK, Given, AdvSets
    <3> HIDE DEF AdvertisingSetNew, ScanStart, ScanStop, ReportReceived, OnScanReportReceived
    <3> QED BY <1>4, <3>1, <3>2, SetAssumption
  <2> QED BY <1>0, <1>1, <1>7, <2>1 DEF IdentityInv
<1>9. ObjectInv' BY <1>0, <1>1, <1>7 DEF ObjectInv
<1>10. \A d : /\ (rx' = <<"port", d>> <=> rx = <<"port", d>>)
              /\ (rx' = <<"app", d>> <=> rx = <<"app", d>>)
  BY <1>2 DEF Idle
<1>11. CallbackInv' BY <1>0, <1>1, <1>10 DEF CallbackInv
<1>12. SessionInv'
  BY <1>0, <1>1, <1>10 DEF SessionInv, Ours, Linked
<1>13. MonitorInv' BY <1>0, <1>1, <1>10 DEF MonitorInv, Linked
<1> QED BY <1>6, <1>8, <1>9, <1>11, <1>12, <1>13 DEF HrInv

LEMMA NextHr ==
    ASSUME OneSession, HrInv, [CoexistNext]_coexistVars
    PROVE  HrInv'
<1>1. CASE UNCHANGED coexistVars BY <1>1, RestKeeps
<1>2. CASE PortNext /\ UNCHANGED hrVars
  <2>1. CASE AdvertisingSetNew \/ ScanStart \/ ScanStop \/ ReportReceived \/ OnScanReportReceived
    BY <1>2, <2>1, RestKeeps
  <2>2. ASSUME NEW s \in AdvSets, UpdateParams(s) \/ Start(s) \/ Stop(s) PROVE HrInv'
    BY <1>2, <2>2, ParamsKeep, StartKeeps, StopKeeps
  <2>3. ASSUME NEW c \in Conns, OnConnected(c) \/ OnDisconnected(c) \/ ConnectionDown(c)
        PROVE  HrInv'
    BY <1>2, <2>3, CallbacksKeep
  <2>4. ASSUME NEW c \in Conns, ConnectionLost(c) PROVE HrInv'
    BY <1>2, <2>4, LostKeeps
  <2>5. ASSUME NEW c \in Conns, NEW s \in AdvSets \union {AppSet}, ConnectionUp(c, s) PROVE HrInv'
    BY <1>2, <2>5, UpKeeps
  <2> QED BY <1>2, <2>1, <2>2, <2>3, <2>4, <2>5 DEF PortNext
<1>3. ASSUME NEW c \in Conns, HrConnected(c) PROVE HrInv'
  BY <1>3, CallbacksKeep
<1>4. ASSUME NEW c \in Conns, HrDisconnected(c) PROVE HrInv'
  BY <1>4, DisconnectedKeeps
<1>5. CASE ThreadSetup
  <2>1. state' = {} BY <1>5 DEF ThreadSetup, HrInv, MonitorInv
  <2> QED BY <1>5, <2>1, MonitorStarts DEF ThreadSetup
<1>6. CASE ThreadPolls
  BY <1>6, MonitorStarts, RestKeeps DEF ThreadPolls
<1> QED BY <1>1, <1>2, <1>3, <1>4, <1>5, <1>6 DEF CoexistNext

(* The port's one connection and the monitor's are never the same object,  *)
(* although both hear of every link in the host's callbacks, as long as    *)
(* one session's set at a time is connectable and the library starts it    *)
(* only between sessions.                                                  *)
THEOREM LinksKeptApart == OneSession /\ CoexistSpec => []KeptApart
<1> DEFINE IInv == OneSession /\ HrInv
<1>1. OneSession /\ CoexistInit => IInv BY InitHr
<1>2. IInv /\ [CoexistNext]_coexistVars => IInv'
  <2>1. OneSession => OneSession' BY DEF OneSession
  <2> QED BY <2>1, NextHr
<1>3. IInv => KeptApart
  BY DEF HrInv, KeptApart, SessionInv, MonitorInv, Linked
<1> QED BY <1>1, <1>2, <1>3, PTL DEF CoexistSpec

------------------------------------------------------------------------------
(* Objects enough for the two.                                             *)
EnoughObjects == IsFiniteSet(Conns) /\ Cardinality(Conns) >= 3

LEMMA ThirdObject ==
    ASSUME EnoughObjects, NEW a, NEW b
    PROVE  \E c \in Conns : c # a /\ c # b
<1> SUFFICES ASSUME Conns \subseteq {a, b} PROVE FALSE
  OBVIOUS
<1>1. IsFiniteSet({a}) /\ Cardinality({a}) = 1 BY FS_Singleton
<1>2. IsFiniteSet({a} \union {b}) /\ Cardinality({a} \union {b}) \in {1, 2}
  BY <1>1, FS_AddElement
<1>3. Conns \in SUBSET ({a} \union {b}) OBVIOUS
<1>4. Cardinality(Conns) <= Cardinality({a} \union {b}) /\ Cardinality(Conns) \in Nat
  BY <1>2, <1>3, FS_Subset, FS_CardinalityType DEF EnoughObjects
<1> QED BY <1>2, <1>4 DEF EnoughObjects

Taken(c) == conn[c].at # "free"

(* Before one of our starts only the monitor's object may be taken and one *)
(* whose last callback is to come.                                         *)
LEMMA OneForUs ==
    ASSUME OneSession, EnoughObjects, HrInv, NEW s \in AdvSets, s \in Connectable, Start(s)
    PROVE  \E c \in Conns : conn[c] = FreeConn
<1>0. /\ CoexistTypeOK /\ IdentityInv /\ ObjectInv /\ CallbackInv /\ SessionInv /\ MonitorInv
  BY DEF HrInv
<1>1. s \notin onAir /\ btConn = NoConn /\ ~ LinkUnreported
  BY DEF Start, OneSession
<1>2. \A d \in Conns : Taken(d) => conn[d].id = DefaultId \/ wq = <<"app", d>>
  <2> SUFFICES ASSUME NEW d \in Conns, Taken(d), conn[d].id # DefaultId PROVE wq = <<"app", d>>
    OBVIOUS
  <2>1. s \in Given /\ identity[s] = conn[d].id
    BY <1>0 DEF ObjectInv, OneSession, Taken
  <2>2. Ours(d) BY <1>0, <2>1 DEF IdentityInv, Ours
  <2>3. conn[d].at # "adv" BY <1>0, <1>1, <2>1 DEF ObjectInv
  <2>4. Linked(d)
    <3>1. conn[d].at \in {"free", "adv", "up", "lost", "ended"}
      BY <1>0 DEF CoexistTypeOK, AdvTypeOK, Conn
    <3> QED BY <1>0, <2>3, <3>1 DEF ObjectInv, Taken, Linked
  <2>5. rx # <<"port", d>> BY <1>1 DEF LinkUnreported
  <2> QED BY <1>0, <1>1, <2>2, <2>4, <2>5, SetAssumption DEF SessionInv
<1>3. \E a : \A d \in Conns : conn[d].id = DefaultId => d = a
  BY <1>0 DEF MonitorInv
<1>4. PICK a : \A d \in Conns : conn[d].id = DefaultId => d = a BY <1>3
<1>5. PICK c \in Conns : c # a /\ c # wq[2] BY ThirdObject
<1>6. ~ Taken(c) BY <1>2, <1>4, <1>5
<1> QED BY <1>0, <1>6 DEF ObjectInv, Taken

(* Before the monitor's start only ours may be taken: the one of our set   *)
(* or link, and one whose last callback is to come.                        *)
LEMMA OneForMonitor ==
    ASSUME OneSession, EnoughObjects, HrInv, thread = "setup" \/ "DISCONNECTED" \in state
    PROVE  \E c \in Conns : conn[c] = FreeConn
<1>0. /\ CoexistTypeOK /\ IdentityInv /\ ObjectInv /\ CallbackInv /\ SessionInv /\ MonitorInv
  BY DEF HrInv
<1>1. \A d \in Conns : conn[d].id # DefaultId BY <1>0 DEF MonitorInv
<1>2. \A d \in Conns : Taken(d) =>
          /\ Ours(d)
          /\ conn[d].at = "adv" \/ d = btConn \/ rx = <<"port", d>> \/ wq = <<"app", d>>
  <2> SUFFICES ASSUME NEW d \in Conns, Taken(d)
               PROVE  /\ Ours(d)
                      /\ conn[d].at = "adv" \/ d = btConn \/ rx = <<"port", d>> \/ wq = <<"app", d>>
    OBVIOUS
  <2>1. Ours(d) BY <1>0, <1>1 DEF ObjectInv, Taken, IdentityInv, Ours
  <2>2. conn[d].at \in {"free", "adv", "up", "lost", "ended"}
    BY <1>0 DEF CoexistTypeOK, AdvTypeOK, Conn
  <2>3. conn[d].at = "adv" \/ Linked(d) BY <1>0, <2>2 DEF ObjectInv, Taken, Linked
  <2> QED BY <1>0, <2>1, <2>3 DEF SessionInv
<1>3. \E a : \A d \in Conns : Taken(d) => d = a \/ wq = <<"app", d>>
  <2>1. CASE \E a \in Conns : conn[a].at = "adv"
    <3>1. PICK a \in Conns : conn[a].at = "adv" BY <2>1
    <3>2. PICK s \in Connectable : s \in Given /\ identity[s] = conn[a].id
      BY <1>0, <1>1, <3>1 DEF ObjectInv
    <3>3. s \in onAir BY <1>0, <3>1, <3>2 DEF ObjectInv
    <3>4. btConn = NoConn /\ \A d \in Conns : rx = <<"port", d>> => ~ Ours(d)
      BY <1>0, <3>3 DEF SessionInv
    <3>5. \A d \in Conns : conn[d].at = "adv" => d = a
      <4> SUFFICES ASSUME NEW d \in Conns, conn[d].at = "adv" PROVE d = a
        OBVIOUS
      <4>1. conn[d].id = identity[s]
        BY <1>0, <1>1, <3>2 DEF ObjectInv, OneSession
      <4>2. conn[d] = conn[a] BY <1>0, <3>1, <3>2, <4>1 DEF CoexistTypeOK, AdvTypeOK, Conn
      <4> QED BY <1>0, <3>1, <4>2 DEF ObjectInv
    <3> QED BY <1>2, <3>4, <3>5, SetAssumption
  <2>2. CASE ~ \E a \in Conns : conn[a].at = "adv"
    <3>1. CASE btConn # NoConn
      <4>1. \A d \in Conns : Ours(d) => rx # <<"port", d>> BY <1>0, <3>1 DEF SessionInv
      <4> QED BY <1>2, <2>2, <4>1
    <3>2. CASE btConn = NoConn
      <4>1. \A d \in Conns : rx = <<"port", d>> => d = rx[2] OBVIOUS
      <4> QED BY <1>2, <2>2, <3>2, <4>1, SetAssumption
    <3> QED BY <3>1, <3>2
  <2> QED BY <2>1, <2>2
<1>4. PICK a : \A d \in Conns : Taken(d) => d = a \/ wq = <<"app", d>> BY <1>3
<1>5. PICK c \in Conns : c # a /\ c # wq[2] BY ThirdObject
<1>6. ~ Taken(c) BY <1>4, <1>5
<1> QED BY <1>0, <1>6 DEF ObjectInv, Taken

LEMMA NextAccepts ==
    ASSUME OneSession, EnoughObjects, HrInv, StartsAccepted, [CoexistNext]_coexistVars
    PROVE  StartsAccepted'
<1>1. CASE denied' = denied BY <1>1 DEF StartsAccepted
<1>2. ASSUME NEW s \in AdvSets, Start(s) PROVE denied' = denied
  <2>1. s \in Connectable => \E c \in Conns : conn[c] = FreeConn BY <1>2, OneForUs
  <2> QED BY <1>2, <2>1 DEF Start, HostStart
<1>3. ASSUME StartAdvertising, thread = "setup" \/ "DISCONNECTED" \in state PROVE denied' = denied
  <2>1. \E c \in Conns : conn[c] = FreeConn BY <1>3, OneForMonitor
  <2> QED BY <1>3, <2>1 DEF StartAdvertising, HostStart
<1>4. CASE PortNext
  BY <1>1, <1>2, <1>4 DEF PortNext, AdvertisingSetNew, UpdateParams, Stop, ScanStart, ScanStop,
     OnConnected, OnDisconnected, ReportReceived, OnScanReportReceived, ConnectionLost,
     ConnectionDown, ConnectionUp
<1>5. CASE \E c \in Conns : HrConnected(c) \/ HrDisconnected(c)
  BY <1>1, <1>5 DEF HrConnected, HrDisconnected
<1>6. CASE ThreadSetup BY <1>1, <1>3, <1>6 DEF ThreadSetup
<1>7. CASE ThreadPolls BY <1>1, <1>3, <1>7 DEF ThreadPolls, portVars
<1>8. CASE UNCHANGED coexistVars BY <1>1, <1>8 DEF coexistVars, portVars
<1> QED BY <1>4, <1>5, <1>6, <1>7, <1>8 DEF CoexistNext

(* With a third connection object no start of a connectable set finds the  *)
(* host without one, neither the port's nor the monitor's, whose thread    *)
(* would return: two may be kept by links, one of them ended and not yet   *)
(* reported.                                                               *)
THEOREM NoStartRefused == OneSession /\ EnoughObjects /\ CoexistSpec => []StartsAccepted
<1> DEFINE IInv == OneSession /\ EnoughObjects /\ HrInv /\ StartsAccepted
<1>1. OneSession /\ EnoughObjects /\ CoexistInit => IInv
  BY InitHr DEF CoexistInit, AdvInit, StartsAccepted
<1>2. IInv /\ [CoexistNext]_coexistVars => IInv'
  <2>1. OneSession /\ EnoughObjects => OneSession' /\ EnoughObjects'
    BY DEF OneSession, EnoughObjects
  <2> QED BY <2>1, NextHr, NextAccepts
<1>3. IInv => StartsAccepted OBVIOUS
<1> QED BY <1>1, <1>2, <1>3, PTL DEF CoexistSpec
==================================================================================
