--------------------------- MODULE MemfaultOtaProofs ---------------------------
(***************************************************************************)
(* Proofs about firmware updates: types, and that only whole images are    *)
(* installed, for images of any number of chunks, any window and any       *)
(* number of downloads.                                                    *)
(***************************************************************************)
EXTENDS MemfaultOta, SequenceTheorems, TLAPS

(* The chunks of a download before a given one, and what must precede it   *)
(* in the queue.                                                           *)
Prefix(dl, n) == [i \in 1 .. n |-> [dl |-> dl, part |-> i]]

Precedes(op, chunk) ==
    op = IF chunk.part = 1 THEN Reset ELSE [dl |-> chunk.dl, part |-> chunk.part - 1]

Coming == [dl |-> client.dl, part |-> client.next]

(* Every queued chunk follows the one before it, in the queue or in flash, *)
(* and the first of a download follows a reset.                            *)
QueueInv ==
    /\ ops # <<>> /\ ops[1] # Reset => flash = Prefix(ops[1].dl, ops[1].part - 1)
    /\ \A i \in 1 .. Len(ops) - 1 : ops[i + 1] # Reset => Precedes(ops[i], ops[i + 1])

(* So will the next chunk that arrives. *)
ComingInv ==
    client.downloading =>
        /\ Coming \in Chunk
        /\ ops = <<>> => flash = Prefix(client.dl, client.next - 1)
        /\ ops # <<>> => Precedes(ops[Len(ops)], Coming)

(* The last chunk is in flash while the DFU thread answers for it, and     *)
(* then the image is whole.                                                *)
Whole(seq) == \E dl \in 1 .. MaxDownloads : seq = Image(dl)

WrittenInv ==
    /\ Len(events) <= 1
    /\ events # <<>> => dfu.pc = "process"
    /\ events # <<>> /\ Done(events[1]) => Whole(flash)
    /\ dfu.pc \in {"free", "store"} /\ Done(dfu.chunk) => Whole(flash)
    /\ dfu.pc \in {"ask", "complete", "upgrade", "reboot"} => Whole(flash)
    /\ boot # <<>> => dfu.pc = "reboot"

(* Nothing is written before main has confirmed the image that runs.       *)
TrialInv ==
    /\ device.starting => ops = <<>> /\ ~ client.downloading
    /\ ~ device.starting => device.confirmed

IInv == TypeOK /\ QueueInv /\ ComingInv /\ WrittenInv /\ TrialInv /\ WholeImage

------------------------------------------------------------------------------

(* A chunk is its two fields, and no chunk is a reset. *)
LEMMA ChunkFields ==
    ASSUME NEW c \in Chunk
    PROVE  /\ c.dl \in 1 .. MaxDownloads /\ c.part \in 1 .. Chunks
           /\ c = [dl |-> c.dl, part |-> c.part]
           /\ c # Reset
           /\ c \in Stored
BY DEF Chunk, Reset, Stored

(* A chunk appended to the chunks before it. *)
LEMMA PrefixExtends ==
    ASSUME NEW dl \in 1 .. MaxDownloads, NEW n \in 1 .. Chunks
    PROVE  Append(Prefix(dl, n - 1), [dl |-> dl, part |-> n]) = Prefix(dl, n)
<1> DEFINE s == Prefix(dl, n - 1)
<1> DEFINE e == [dl |-> dl, part |-> n]
<1> DEFINE C == [dl : {dl}, part : Nat]
<1> n \in Nat \ {0} BY OtaAssumption
<1>1. s \in Seq(C) /\ Len(s) = n - 1 /\ \A i \in 1 .. n - 1 : s[i] = [dl |-> dl, part |-> i]
  <2>1. s \in [1 .. n - 1 -> C] BY DEF Prefix
  <2> QED BY <2>1 DEF Prefix
<1>2. Append(s, e) \in Seq(C) /\ Len(Append(s, e)) = n
      /\ \A i \in 1 .. n : Append(s, e)[i] = [dl |-> dl, part |-> i]
  BY <1>1
<1>3. Prefix(dl, n) \in Seq(C) /\ Len(Prefix(dl, n)) = n
      /\ \A i \in 1 .. n : Prefix(dl, n)[i] = [dl |-> dl, part |-> i]
  <2>1. Prefix(dl, n) \in [1 .. n -> C] BY DEF Prefix
  <2> QED BY <2>1 DEF Prefix
<1> QED BY <1>2, <1>3, SeqEqual

(* Nothing precedes the first chunk, and the last completes the image. *)
LEMMA PrefixEnds ==
    \A dl \in 1 .. MaxDownloads :
        Prefix(dl, 0) = <<>> /\ Prefix(dl, Chunks) = Image(dl)
BY OtaAssumption DEF Prefix, Image

LEMMA InitIInv == Init => IInv
<1> SUFFICES ASSUME Init PROVE IInv
  OBVIOUS
<1>1. TypeOK
  <2>1. client \in [dl : 0 .. MaxDownloads, next : 1 .. Chunks + 1, downloading : BOOLEAN,
                    chunks_in_use : Nat, receive_ops : Nat]
    BY OtaAssumption DEF Init
  <2>2. dfu \in [pc : {"get", "process", "ask", "complete", "upgrade", "reboot", "halted"}]
    BY DEF Init, Idle
  <2>3. {downloading_update, checking} \subseteq BOOLEAN
    BY DEF Init
  <2>4. <<>> \in Seq(Chunk) /\ <<>> \in Seq(Chunk \union {Reset}) /\ <<>> \in Seq(Stored)
    OBVIOUS
  <2>5. Factory \in Seq(Stored)
    <3>1. Factory \in [1 .. Chunks -> Stored]
      BY OtaAssumption DEF Factory, Image, Stored
    <3>2. Chunks \in Nat BY OtaAssumption
    <3> QED BY <3>1, <3>2
  <2>6. device \in [image : Seq(Stored), confirmed : BOOLEAN, starting : BOOLEAN]
    BY <2>5 DEF Init
  <2> QED BY <2>1, <2>2, <2>3, <2>4, <2>6 DEF Init, TypeOK
<1>2. QueueInv /\ ComingInv /\ WrittenInv /\ TrialInv /\ WholeImage
  <2>1. QueueInv /\ ComingInv /\ WrittenInv /\ TrialInv
    BY DEF Init, QueueInv, ComingInv, WrittenInv, TrialInv, Idle
  <2>2. 0 \in 0 .. MaxDownloads BY OtaAssumption
  <2>3. WholeImage
    BY <2>2 DEF Init, WholeImage, Factory
  <2> QED BY <2>1, <2>3
<1> QED BY <1>1, <1>2 DEF IInv

(* A download begins: its first chunk will follow the reset. *)
LEMMA BeginKeeps ==
    ASSUME IInv, OnStatusUpdate PROVE IInv'
<1> USE OtaAssumption
<1>1. CASE downloading_update
  <2>1. /\ UNCHANGED <<downloading_update, client, ops, events, dfu, flash, boot, device>>
        /\ checking' = FALSE
    BY <1>1 DEF OnStatusUpdate
  <2>2. TypeOK' BY <2>1 DEF IInv, TypeOK
  <2>3. QueueInv' /\ ComingInv' BY <2>1 DEF IInv, QueueInv, ComingInv, Coming
  <2>4. WrittenInv' /\ TrialInv' /\ WholeImage'
    BY <2>1 DEF IInv, WrittenInv, TrialInv, WholeImage
  <2> QED BY <2>2, <2>3, <2>4 DEF IInv
<1>2. CASE ~ downloading_update
  <2>1. /\ client' = [dl |-> client.dl + 1, next |-> 1, downloading |-> TRUE,
                      chunks_in_use |-> 0, receive_ops |-> MAX_CHUNKS_IN_FLIGHT]
        /\ ops' = Append(ops, Reset)
        /\ downloading_update' = TRUE /\ checking' = FALSE
        /\ client.dl + 1 \in 1 .. MaxDownloads /\ ~ device.starting
        /\ UNCHANGED <<events, dfu, flash, boot, device>>
    BY <1>2 DEF OnStatusUpdate, IInv, TypeOK, InLoop
  <2>2. /\ ops \in Seq(Chunk \union {Reset}) /\ Len(ops') = Len(ops) + 1
        /\ ops'[Len(ops) + 1] = Reset /\ ops' # <<>>
        /\ \A i \in 1 .. Len(ops) : ops'[i] = ops[i]
    BY <2>1 DEF IInv, TypeOK
  <2>3. TypeOK'
    <3>1. client' \in [dl : 0 .. MaxDownloads, next : 1 .. Chunks + 1, downloading : BOOLEAN,
                       chunks_in_use : Nat, receive_ops : Nat]
      <4>1. client.dl + 1 \in 0 .. MaxDownloads /\ 1 \in 1 .. Chunks + 1 /\ 0 \in Nat
            /\ MAX_CHUNKS_IN_FLIGHT \in Nat
        BY <2>1
      <4> QED BY <2>1, <4>1
    <3>2. ops' \in Seq(Chunk \union {Reset})
      BY <2>1, <2>2
    <3> QED BY <2>1, <3>1, <3>2 DEF IInv, TypeOK
  <2>4. QueueInv'
    <3>1. ops' # <<>> /\ ops'[1] # Reset => flash' = Prefix(ops'[1].dl, ops'[1].part - 1)
      BY <2>1, <2>2 DEF IInv, QueueInv
    <3>2. ASSUME NEW i \in 1 .. Len(ops') - 1, ops'[i + 1] # Reset
          PROVE Precedes(ops'[i], ops'[i + 1])
      <4>1. i \in 1 .. Len(ops) - 1 /\ ops'[i + 1] = ops[i + 1] /\ ops'[i] = ops[i]
        BY <2>2, <3>2
      <4> QED BY <3>2, <4>1 DEF IInv, QueueInv
    <3> QED BY <3>1, <3>2 DEF QueueInv
  <2>5. ComingInv'
    BY <2>1, <2>2 DEF ComingInv, Coming, Chunk, Precedes
  <2>6. WrittenInv' /\ TrialInv' /\ WholeImage' BY <2>1 DEF IInv, WrittenInv, TrialInv, WholeImage
  <2> QED BY <2>3, <2>4, <2>5, <2>6 DEF IInv
<1> QED BY <1>1, <1>2

(* A chunk arrives: it follows what is queued, and the next follows it. *)
LEMMA ArriveKeeps ==
    ASSUME IInv, OnNewChunk PROVE IInv'
<1> USE OtaAssumption
<1>1. /\ Coming \in Chunk
      /\ ops' = Append(ops, Coming)
      /\ client' = [client EXCEPT !.next = @ + 1, !.chunks_in_use = @ + 1,
                                  !.receive_ops = @ - 1,
                                  !.downloading = ~ Done(Coming)]
      /\ ~ device.starting
      /\ UNCHANGED <<downloading_update, checking, events, dfu, flash, boot, device>>
  BY DEF OnNewChunk, IInv, ComingInv, Coming, InLoop
<1>2. /\ ops \in Seq(Chunk \union {Reset}) /\ Len(ops') = Len(ops) + 1
      /\ ops'[Len(ops) + 1] = Coming /\ ops' # <<>>
      /\ \A i \in 1 .. Len(ops) : ops'[i] = ops[i]
  BY <1>1 DEF IInv, TypeOK
<1>3. Coming.dl = client.dl /\ Coming.part = client.next
  BY DEF Coming
<1>4. client.next \in 1 .. Chunks /\ client.dl \in 1 .. MaxDownloads
  BY <1>1, <1>3, ChunkFields
<1>5. TypeOK'
  <2>1. client' \in [dl : 0 .. MaxDownloads, next : 1 .. Chunks + 1, downloading : BOOLEAN,
                     chunks_in_use : Nat, receive_ops : Nat]
    <3>1. client \in [dl : 0 .. MaxDownloads, next : 1 .. Chunks + 1, downloading : BOOLEAN,
                      chunks_in_use : Nat, receive_ops : Nat]
          /\ client.receive_ops > 0
      BY DEF OnNewChunk, IInv, TypeOK
    <3>2. client.next + 1 \in 1 .. Chunks + 1 /\ client.chunks_in_use + 1 \in Nat
          /\ client.receive_ops - 1 \in Nat
      BY <1>4, <3>1
    <3>3. (~ Done(Coming)) \in BOOLEAN OBVIOUS
    <3> QED BY <1>1, <3>1, <3>2, <3>3
  <2>2. ops' \in Seq(Chunk \union {Reset})
    BY <1>1, <1>2
  <2> QED BY <1>1, <2>1, <2>2 DEF IInv, TypeOK
<1>6. QueueInv'
  <2>1. ops' # <<>> /\ ops'[1] # Reset => flash' = Prefix(ops'[1].dl, ops'[1].part - 1)
    <3>1. CASE ops = <<>>
      BY <1>1, <1>2, <1>3, <3>1 DEF IInv, ComingInv, OnNewChunk
    <3>2. CASE ops # <<>>
      <4>1. ops'[1] = ops[1] BY <1>2, <3>2
      <4> QED BY <1>1, <4>1, <3>2 DEF IInv, QueueInv
    <3> QED BY <3>1, <3>2
  <2>2. ASSUME NEW i \in 1 .. Len(ops') - 1, ops'[i + 1] # Reset
        PROVE Precedes(ops'[i], ops'[i + 1])
    <3>1. CASE i = Len(ops)
      BY <1>2, <3>1 DEF IInv, ComingInv, OnNewChunk
    <3>2. CASE i # Len(ops)
      <4>1. i \in 1 .. Len(ops) - 1 /\ ops'[i + 1] = ops[i + 1] /\ ops'[i] = ops[i]
        BY <1>2, <3>2
      <4> QED BY <2>2, <4>1 DEF IInv, QueueInv
    <3> QED BY <3>1, <3>2
  <2> QED BY <2>1, <2>2 DEF QueueInv
<1>7. ComingInv'
  <2> SUFFICES ASSUME client'.downloading PROVE ComingInv'
    BY DEF ComingInv
  <2>1. Coming' = [dl |-> client.dl, part |-> client.next + 1]
    BY <1>1 DEF Coming, IInv, TypeOK
  <2>2. client.next # Chunks
    BY <1>1, <1>3 DEF Done, IInv, TypeOK
  <2>3. Coming' \in Chunk BY <1>4, <2>1, <2>2 DEF Chunk
  <2>4. Precedes(Coming, Coming')
    BY <1>4, <2>1 DEF Precedes, Coming
  <2> QED BY <1>2, <2>3, <2>4 DEF ComingInv
<1>8. WrittenInv' /\ TrialInv' /\ WholeImage' BY <1>1 DEF IInv, WrittenInv, TrialInv, WholeImage
<1> QED BY <1>5, <1>6, <1>7, <1>8 DEF IInv

(* What the DFU thread holds, by where it is. *)
LEMMA DfuFields ==
    ASSUME TypeOK
    PROVE  /\ dfu.pc \in {"free", "store"} => dfu.chunk \in Chunk
           /\ dfu.pc = "store" => dfu.count \in Nat \ {0}
BY DEF TypeOK

(* An operation is executed: a chunk extends its prefix, the last one      *)
(* completes the image, and a reset leaves no chunk.                       *)
LEMMA ExecuteKeeps ==
    ASSUME IInv, Execute PROVE IInv'
<1> USE OtaAssumption
<1> DEFINE op == ops[1]
<1>1. /\ ops \in Seq(Chunk \union {Reset}) /\ ops # <<>> /\ Len(ops) \in Nat \ {0}
      /\ op \in Chunk \union {Reset}
      /\ Head(ops) = op /\ ops' = Tail(ops)
      /\ ops' \in Seq(Chunk \union {Reset}) /\ Len(ops') = Len(ops) - 1
      /\ \A i \in 1 .. Len(ops') : ops'[i] = ops[i + 1]
  BY HeadTailProperties, ElementOfSeq, EmptySeq DEF Execute, IInv, TypeOK
<1>2. /\ dfu.pc = "get" /\ dfu' = [pc |-> "process"]
      /\ events = <<>>
      /\ UNCHANGED <<downloading_update, checking, client, boot, device>>
  BY DEF Execute, mainVars, IInv, WrittenInv
<1>3. flash \in Seq(Stored) /\ ~ device.starting /\ device.confirmed
  BY <1>1 DEF IInv, TypeOK, TrialInv
<1>4. op = Reset => flash' = <<>> /\ events' = <<>>
  BY <1>1, <1>2 DEF Execute
<1>5. op # Reset => /\ op \in Chunk
                    /\ flash' = Prefix(op.dl, op.part)
                    /\ events' = <<op>>
  <2> SUFFICES ASSUME op # Reset
               PROVE  /\ op \in Chunk
                      /\ flash' = Prefix(op.dl, op.part)
                      /\ events' = <<op>>
    OBVIOUS
  <2>1. op \in Chunk BY <1>1
  <2>2. flash = Prefix(op.dl, op.part - 1) BY <1>1 DEF IInv, QueueInv
  <2>3. flash' = Append(flash, op) /\ events' = Append(<<>>, op)
    BY <1>1, <1>2 DEF Execute
  <2>4. op = [dl |-> op.dl, part |-> op.part]
        /\ op.dl \in 1 .. MaxDownloads /\ op.part \in 1 .. Chunks
    BY <2>1, ChunkFields
  <2>5. flash' = Prefix(op.dl, op.part)
    BY <2>2, <2>3, <2>4, PrefixExtends
  <2> QED BY <2>1, <2>3, <2>5
<1>6. TypeOK'
  <2>1. flash' \in Seq(Stored) /\ events' \in Seq(Chunk)
    <3>1. CASE op = Reset
      <4>1. <<>> \in Seq(Chunk) /\ <<>> \in Seq(Stored) OBVIOUS
      <4> QED BY <1>4, <3>1, <4>1
    <3>2. CASE op # Reset
      <4>1. flash' = Append(flash, op) /\ Append(flash, op) \in Seq(Stored)
        BY <1>1, <1>3, <1>5, <3>2, ChunkFields DEF Execute
      <4>2. <<op>> \in Seq(Chunk) BY <1>5, <3>2
      <4> QED BY <1>5, <3>2, <4>1, <4>2, Zenon
    <3> QED BY <3>1, <3>2
  <2>2. dfu' \in [pc : {"get", "process", "ask", "complete", "upgrade", "reboot", "halted"}]
    BY <1>2
  <2> QED BY <1>1, <1>2, <2>1, <2>2 DEF IInv, TypeOK
(* What follows the operation finds the flash it needs. *)
<1>7. ASSUME NEW c \in Chunk, Precedes(op, c)
      PROVE  flash' = Prefix(c.dl, c.part - 1)
  <2>1. c.dl \in 1 .. MaxDownloads /\ c.part \in 1 .. Chunks
    BY ChunkFields
  <2>2. CASE c.part = 1
    BY <1>4, <1>7, <2>1, <2>2, PrefixEnds DEF Precedes
  <2>3. CASE c.part # 1
    <3>1. op = [dl |-> c.dl, part |-> c.part - 1] BY <1>7, <2>3 DEF Precedes
    <3>2. op # Reset /\ op.dl = c.dl /\ op.part = c.part - 1
      BY <2>1, <3>1 DEF Reset
    <3> QED BY <1>5, <3>2
  <2> QED BY <2>2, <2>3
<1>8. QueueInv'
  <2>1. ASSUME ops' # <<>>, ops'[1] # Reset
        PROVE  flash' = Prefix(ops'[1].dl, ops'[1].part - 1)
    <3>1. Len(ops') \in Nat \ {0} BY <1>1, <2>1, EmptySeq
    <3>2. ops'[1] = ops[1 + 1] /\ 1 \in 1 .. Len(ops) - 1 BY <1>1, <3>1
    <3>3. ops'[1] \in Chunk BY <1>1, <2>1, <3>1, ElementOfSeq
    <3>4. Precedes(op, ops'[1]) BY <2>1, <3>2 DEF IInv, QueueInv
    <3> QED BY <1>7, <3>3, <3>4
  <2>2. ASSUME NEW i \in 1 .. Len(ops') - 1, ops'[i + 1] # Reset
        PROVE  Precedes(ops'[i], ops'[i + 1])
    <3>1. i + 1 \in 1 .. Len(ops) - 1 /\ ops'[i] = ops[i + 1]
          /\ ops'[i + 1] = ops[(i + 1) + 1]
      BY <1>1
    <3> QED BY <2>2, <3>1 DEF IInv, QueueInv
  <2> QED BY <2>1, <2>2 DEF QueueInv
<1>9. ComingInv'
  <2> SUFFICES ASSUME client.downloading PROVE ComingInv'
    BY <1>2 DEF ComingInv
  <2>1. Coming \in Chunk /\ Precedes(ops[Len(ops)], Coming) /\ Coming' = Coming
    BY <1>1, <1>2 DEF IInv, ComingInv, Coming
  <2>2. ops' = <<>> => flash' = Prefix(client.dl, client.next - 1)
    <3>1. ops' = <<>> => Len(ops) = 1
      <4>1. Len(<<>>) = 0 OBVIOUS
      <4>2. ops' = <<>> => Len(ops') = 0 BY <4>1, Zenon
      <4> QED BY <1>1, <4>2
    <3>2. Coming.dl = client.dl /\ Coming.part = client.next BY DEF Coming
    <3> QED BY <1>7, <2>1, <3>1, <3>2
  <2>3. ops' # <<>> => Precedes(ops'[Len(ops')], Coming)
    <3>1. ops' # <<>> => Len(ops') \in Nat \ {0} BY <1>1, EmptySeq
    <3>2. ops' # <<>> => ops'[Len(ops')] = ops[Len(ops)] BY <1>1, <3>1
    <3> QED BY <2>1, <3>2
  <2> QED BY <1>2, <2>1, <2>2, <2>3 DEF ComingInv
<1>10. WrittenInv' /\ TrialInv' /\ WholeImage'
  <2>1. events' # <<>> /\ Done(events'[1]) => Whole(flash')
    <3> SUFFICES ASSUME op # Reset, op.part = Chunks PROVE Whole(flash')
      BY <1>4, <1>5 DEF Done
    <3>1. op.dl \in 1 .. MaxDownloads BY <1>5, ChunkFields
    <3> QED BY <1>5, <3>1, PrefixEnds DEF Whole
  <2>2. Len(events') <= 1
    <3>1. CASE op = Reset BY <1>4, <3>1
    <3>2. CASE op # Reset
      <4>1. Len(<<op>>) = 1 OBVIOUS
      <4>2. Len(events') = 1 BY <1>5, <3>2, <4>1, Zenon
      <4> QED BY <4>2
    <3> QED BY <3>1, <3>2
  <2> QED BY <1>2, <1>3, <2>1, <2>2 DEF IInv, WrittenInv, TrialInv, WholeImage
<1> QED BY <1>6, <1>8, <1>9, <1>10 DEF IInv

(* A step that leaves the queue, the flash and the download alone keeps    *)
(* what is said of them.                                                   *)
LEMMA SameQueue ==
    ASSUME QueueInv, ComingInv, UNCHANGED <<ops, flash>>,
           \/ UNCHANGED <<client.dl, client.next, client.downloading>>
           \/ ~ client'.downloading
    PROVE  QueueInv' /\ ComingInv'
BY DEF QueueInv, ComingInv, Coming

LEMMA StepIInv == IInv /\ [Next]_vars => IInv'
<1> SUFFICES ASSUME IInv, [Next]_vars PROVE IInv'
  OBVIOUS
<1> USE OtaAssumption
<1> USE DEF IInv
<1>0. CASE ConfirmCurrentImage
  <2>1. /\ UNCHANGED <<downloading_update, checking, client, ops, events, dfu, flash, boot>>
        /\ device' = [device EXCEPT !.starting = FALSE, !.confirmed = TRUE]
    BY <1>0 DEF ConfirmCurrentImage, mainVars
  <2>2. /\ device' \in [image : Seq(Stored), confirmed : BOOLEAN, starting : BOOLEAN]
        /\ device'.image = device.image /\ device'.confirmed /\ ~ device'.starting
    BY <2>1 DEF TypeOK
  <2>3. TypeOK' BY <2>1, <2>2 DEF TypeOK
  <2>4. QueueInv' /\ ComingInv' BY <2>1, SameQueue
  <2>5. WrittenInv' /\ TrialInv' /\ WholeImage'
    BY <2>1, <2>2 DEF WrittenInv, TrialInv, WholeImage
  <2> QED BY <2>3, <2>4, <2>5
<1>1. CASE CheckForUpdate
  <2>1. TypeOK' BY <1>1 DEF CheckForUpdate, TypeOK
  <2>2. QueueInv' /\ ComingInv' BY <1>1, SameQueue DEF CheckForUpdate
  <2>3. WrittenInv' /\ TrialInv' /\ WholeImage' BY <1>1 DEF CheckForUpdate, WrittenInv, TrialInv, WholeImage
  <2> QED BY <2>1, <2>2, <2>3
<1>2. CASE NoUpdate
  <2>1. TypeOK' BY <1>2 DEF NoUpdate, TypeOK
  <2>2. QueueInv' /\ ComingInv' BY <1>2, SameQueue DEF NoUpdate
  <2>3. WrittenInv' /\ TrialInv' /\ WholeImage' BY <1>2 DEF NoUpdate, WrittenInv, TrialInv, WholeImage
  <2> QED BY <2>1, <2>2, <2>3
<1>3. CASE OnStatusUpdate
  BY <1>3, BeginKeeps
<1>4. CASE OnNewChunk
  BY <1>4, ArriveKeeps
<1>5. CASE OnError
  <2>1. TypeOK' BY <1>5 DEF OnError, TypeOK
  <2>2. ~ client'.downloading BY <1>5 DEF OnError, TypeOK
  <2>3. QueueInv' /\ ComingInv' BY <1>5, <2>2, SameQueue DEF OnError
  <2>4. WrittenInv' /\ TrialInv' /\ WholeImage' BY <1>5 DEF OnError, WrittenInv, TrialInv, WholeImage
  <2> QED BY <2>1, <2>3, <2>4
<1>6. CASE Execute
  BY <1>6, ExecuteKeeps
<1>7. CASE ProcessEvents
  <2>1. UNCHANGED <<downloading_update, checking, client, ops, flash, boot, device>>
        /\ dfu.pc = "process"
    BY <1>7 DEF ProcessEvents, mainVars
  <2>2. QueueInv' /\ ComingInv' BY <2>1, SameQueue
  <2>3. CASE events = <<>>
    <3>1. dfu' = [pc |-> "get"] /\ events' = <<>>
      BY <1>7, <2>3 DEF ProcessEvents, Idle
    <3>2. TypeOK'
      <4>1. dfu' \in [pc : {"get", "process", "ask", "complete", "upgrade", "reboot",
                            "halted"}]
        BY <3>1
      <4> QED BY <2>1, <2>3, <3>1, <4>1 DEF TypeOK
    <3>3. WrittenInv' /\ TrialInv' /\ WholeImage'
      BY <2>1, <2>3, <3>1 DEF WrittenInv, TrialInv, WholeImage
    <3> QED BY <2>2, <3>2, <3>3
  <2>4. CASE events # <<>>
    <3>1. /\ Head(events) = events[1] /\ Head(events) \in Chunk
          /\ Tail(events) \in Seq(Chunk) /\ Len(Tail(events)) = Len(events) - 1
          /\ Len(events) = 1
      <4>1. events \in Seq(Chunk) /\ Len(events) <= 1 BY DEF TypeOK, WrittenInv
      <4>2. Len(events) \in Nat \ {0} BY <2>4, <4>1, EmptySeq
      <4>3. Head(events) = events[1] BY <2>4, <4>1
      <4>4. /\ Head(events) \in Chunk /\ Tail(events) \in Seq(Chunk)
            /\ Len(Tail(events)) = Len(events) - 1
        BY <2>4, <4>1, HeadTailProperties, Zenon
      <4> QED BY <4>1, <4>2, <4>3, <4>4
    <3>2. dfu' = [pc |-> "free", chunk |-> events[1]] /\ events' = Tail(events)
      BY <1>7, <2>4, <3>1 DEF ProcessEvents
    <3>3. events' = <<>> BY <3>1, <3>2, EmptySeq
    <3>4. TypeOK'
      <4>1. dfu' \in [pc : {"free"}, chunk : Chunk] BY <3>1, <3>2
      <4> QED BY <2>1, <3>1, <3>2, <4>1 DEF TypeOK
    <3>5. WrittenInv' /\ TrialInv' /\ WholeImage'
      <4>1. Done(dfu'.chunk) => Whole(flash') BY <2>1, <2>4, <3>2 DEF WrittenInv
      <4>2. dfu'.pc = "free" BY <3>2
      <4>3. Len(events') <= 1 BY <3>1, <3>2
      <4> QED BY <2>1, <3>3, <4>1, <4>2, <4>3 DEF WrittenInv, TrialInv, WholeImage
    <3> QED BY <2>2, <3>4, <3>5
  <2> QED BY <2>3, <2>4
<1>8. CASE FreeLoad
  <2>1. UNCHANGED <<downloading_update, checking, client, ops, events, flash, boot, device>>
        /\ dfu.pc = "free"
    BY <1>8 DEF FreeLoad, mainVars
  <2>2. QueueInv' /\ ComingInv' BY <2>1, SameQueue
  <2>3. CASE client.chunks_in_use = 0
    <3>1. dfu' = [pc |-> "halted"] BY <1>8, <2>3 DEF FreeLoad
    <3>2. dfu' \in [pc : {"get", "process", "ask", "complete", "upgrade", "reboot", "halted"}]
      BY <3>1
    <3>3. TypeOK' BY <2>1, <3>2 DEF TypeOK
    <3>4. WrittenInv' /\ TrialInv' /\ WholeImage' BY <2>1, <3>1 DEF WrittenInv, TrialInv, WholeImage
    <3> QED BY <2>2, <3>3, <3>4
  <2>4. CASE client.chunks_in_use # 0
    <3>1. dfu' = [pc |-> "store", chunk |-> dfu.chunk, count |-> client.chunks_in_use]
      BY <1>8, <2>4 DEF FreeLoad
    <3>2. dfu' \in [pc : {"store"}, chunk : Chunk, count : Nat \ {0}]
      <4>1. dfu.chunk \in Chunk BY <2>1, DfuFields
      <4>2. client.chunks_in_use \in Nat \ {0} BY <2>4 DEF TypeOK
      <4> QED BY <3>1, <4>1, <4>2
    <3>3. TypeOK' BY <2>1, <3>2 DEF TypeOK
    <3>4. WrittenInv' /\ TrialInv' /\ WholeImage' BY <2>1, <3>1 DEF WrittenInv, TrialInv, WholeImage
    <3> QED BY <2>2, <3>3, <3>4
  <2> QED BY <2>3, <2>4
<1>9. CASE FreeStore
  <2>1. /\ dfu.pc = "store"
        /\ client' = [client EXCEPT !.chunks_in_use = dfu.count - 1,
                                    !.receive_ops = IF client.downloading THEN @ + 1 ELSE @]
        /\ UNCHANGED <<downloading_update, checking, ops, events, flash, boot, device>>
    BY <1>9 DEF FreeStore
  <2>2. client' \in [dl : 0 .. MaxDownloads, next : 1 .. Chunks + 1, downloading : BOOLEAN,
                     chunks_in_use : Nat, receive_ops : Nat]
    <3>1. dfu.count - 1 \in Nat BY <2>1, DfuFields
    <3>2. client \in [dl : 0 .. MaxDownloads, next : 1 .. Chunks + 1, downloading : BOOLEAN,
                      chunks_in_use : Nat, receive_ops : Nat]
      BY DEF TypeOK
    <3>3. (IF client.downloading THEN client.receive_ops + 1 ELSE client.receive_ops) \in Nat
      BY <3>2
    <3> QED BY <2>1, <3>1, <3>2, <3>3
  <2>3. dfu' = [pc |-> "ask"] \/ dfu' = [pc |-> "process"]
    BY <1>9 DEF FreeStore
  <2>4. Done(dfu.chunk) \/ dfu' = [pc |-> "process"]
    BY <1>9 DEF FreeStore
  <2>5. TypeOK'
    <3>1. dfu' \in [pc : {"get", "process", "ask", "complete", "upgrade", "reboot", "halted"}]
      BY <2>3
    <3> QED BY <2>1, <2>2, <3>1 DEF TypeOK
  <2>6. QueueInv' /\ ComingInv'
    <3>1. UNCHANGED <<client.dl, client.next, client.downloading>>
      BY <2>1 DEF TypeOK
    <3> QED BY <2>1, <3>1, SameQueue
  <2>7. WrittenInv' /\ TrialInv' /\ WholeImage'
    BY <2>1, <2>3, <2>4 DEF WrittenInv, TrialInv, WholeImage
  <2> QED BY <2>5, <2>6, <2>7
<1>10. CASE Finish
  <2>1. UNCHANGED <<checking, client, ops, events, flash, boot, device>> /\ dfu.pc = "ask"
    BY <1>10 DEF Finish, mainVars
  <2>2. dfu' = [pc |-> "process"] \/ dfu' = [pc |-> "complete"]
    BY <1>10 DEF Finish
  <2>3. TypeOK'
    <3>1. dfu' \in [pc : {"get", "process", "ask", "complete", "upgrade", "reboot", "halted"}]
      BY <2>2
    <3>2. {downloading_update', checking'} \subseteq BOOLEAN
      BY <1>10, <2>1 DEF Finish, TypeOK
    <3> QED BY <2>1, <3>1, <3>2 DEF TypeOK
  <2>4. QueueInv' /\ ComingInv' BY <2>1, SameQueue
  <2>5. WrittenInv' /\ TrialInv' /\ WholeImage' BY <2>1, <2>2 DEF WrittenInv, TrialInv, WholeImage
  <2> QED BY <2>3, <2>4, <2>5
<1>11. CASE InstallAndReboot
  <2>1. UNCHANGED <<downloading_update, checking, client, ops, events, flash, boot, device>>
        /\ dfu.pc = "complete"
    BY <1>11 DEF InstallAndReboot, mainVars
  <2>2. dfu' = [pc |-> "process"] \/ dfu' = [pc |-> "upgrade"]
    BY <1>11 DEF InstallAndReboot
  <2>3. TypeOK'
    <3>1. dfu' \in [pc : {"get", "process", "ask", "complete", "upgrade", "reboot", "halted"}]
      BY <2>2
    <3> QED BY <2>1, <3>1 DEF TypeOK
  <2>4. QueueInv' /\ ComingInv' BY <2>1, SameQueue
  <2>5. WrittenInv' /\ TrialInv' /\ WholeImage' BY <2>1, <2>2 DEF WrittenInv, TrialInv, WholeImage
  <2> QED BY <2>3, <2>4, <2>5
<1>12. CASE RequestUpgrade
  <2>1. UNCHANGED <<downloading_update, checking, client, ops, events, flash, device>>
        /\ dfu.pc = "upgrade" /\ boot' = flash /\ dfu' = [pc |-> "reboot"]
    BY <1>12 DEF RequestUpgrade, mainVars
  <2>2. TypeOK'
    <3>1. dfu' \in [pc : {"get", "process", "ask", "complete", "upgrade", "reboot", "halted"}]
      BY <2>1
    <3> QED BY <2>1, <3>1 DEF TypeOK
  <2>3. QueueInv' /\ ComingInv' BY <2>1, SameQueue
  <2>4. TrialInv' /\ WholeImage' BY <2>1 DEF WrittenInv, TrialInv, WholeImage, Whole
  <2>5. WrittenInv' BY <2>1 DEF WrittenInv
  <2> QED BY <2>2, <2>3, <2>4, <2>5
<1>13. CASE Restart
  <2>1. /\ client' = [client EXCEPT !.next = 1, !.downloading = FALSE, !.chunks_in_use = 0,
                                    !.receive_ops = 0]
        /\ downloading_update' = FALSE /\ checking' = TRUE
        /\ ops' = <<>> /\ events' = <<>> /\ boot' = <<>>
        /\ dfu' = [pc |-> "get"]
        /\ \/ boot # <<>> /\ Swap(TRUE)
           \/ boot = <<>> /\ ~ device.confirmed /\ Swap(FALSE)
           \/ /\ boot = <<>> /\ device.confirmed /\ UNCHANGED flash
              /\ device' = [device EXCEPT !.starting = TRUE]
    BY <1>13 DEF Restart, Idle
  <2>2. TypeOK'
    <3>1. dfu' \in [pc : {"get", "process", "ask", "complete", "upgrade", "reboot", "halted"}]
      BY <2>1
    <3>2. client' \in [dl : 0 .. MaxDownloads, next : 1 .. Chunks + 1, downloading : BOOLEAN,
                       chunks_in_use : Nat, receive_ops : Nat]
      <4>1. client \in [dl : 0 .. MaxDownloads, next : 1 .. Chunks + 1, downloading : BOOLEAN,
                        chunks_in_use : Nat, receive_ops : Nat]
        BY DEF TypeOK
      <4>2. 1 \in 1 .. Chunks + 1 /\ 0 \in Nat OBVIOUS
      <4> QED BY <2>1, <4>1, <4>2
    <3>3. <<>> \in Seq(Chunk) /\ <<>> \in Seq(Chunk \union {Reset}) /\ <<>> \in Seq(Stored)
      OBVIOUS
    <3>4. /\ flash' \in Seq(Stored)
          /\ device' \in [image : Seq(Stored), confirmed : BOOLEAN, starting : BOOLEAN]
      <4>1. /\ flash \in Seq(Stored) /\ device.image \in Seq(Stored)
            /\ device \in [image : Seq(Stored), confirmed : BOOLEAN, starting : BOOLEAN]
        BY DEF TypeOK
      <4>2. CASE Swap(TRUE) BY <4>1, <4>2 DEF Swap
      <4>3. CASE Swap(FALSE) BY <4>1, <4>3 DEF Swap
      <4>4. CASE UNCHANGED flash /\ device' = [device EXCEPT !.starting = TRUE]
        BY <4>1, <4>4
      <4> QED BY <2>1, <4>2, <4>3, <4>4
    <3> QED BY <2>1, <3>1, <3>2, <3>3, <3>4 DEF TypeOK
  <2>3. QueueInv' BY <2>1 DEF QueueInv
  <2>4. ComingInv'
    <3>1. ~ client'.downloading BY <2>1 DEF TypeOK
    <3> QED BY <3>1 DEF ComingInv
  <2>5. WrittenInv' BY <2>1 DEF WrittenInv
  <2>6. TrialInv'
    <3>1. ~ client'.downloading BY <2>1 DEF TypeOK
    <3>2. device'.starting BY <2>1 DEF TypeOK, Swap
    <3> QED BY <2>1, <3>1, <3>2 DEF TrialInv
(* The image marked for upgrade is the slot's; one taken back was swapped  *)
(* for it.                                                                 *)
  <2>7. WholeImage'
    <3>1. CASE boot # <<>> /\ Swap(TRUE)
      <4>1. \E dl \in 0 .. MaxDownloads : flash = Image(dl)
        BY <3>1, OtaAssumption DEF WrittenInv, Whole
      <4> QED BY <2>1, <3>1, <4>1 DEF WholeImage, Swap
    <3>2. CASE boot = <<>> /\ ~ device.confirmed /\ Swap(FALSE)
      BY <2>1, <3>2 DEF WholeImage, Swap
    <3>3. CASE /\ boot = <<>> /\ device.confirmed /\ UNCHANGED flash
               /\ device' = [device EXCEPT !.starting = TRUE]
      BY <2>1, <3>3 DEF WholeImage, TypeOK
    <3> QED BY <2>1, <3>1, <3>2, <3>3
  <2> QED BY <2>2, <2>3, <2>4, <2>5, <2>6, <2>7
<1>14. CASE UNCHANGED vars
  <2>1. TypeOK' BY <1>14 DEF vars, TypeOK
  <2>2. QueueInv' /\ ComingInv' BY <1>14, SameQueue DEF vars
  <2>3. WrittenInv' /\ TrialInv' /\ WholeImage' BY <1>14 DEF vars, WrittenInv, TrialInv, WholeImage
  <2> QED BY <2>1, <2>2, <2>3
<1> QED
  BY <1>0, <1>1, <1>2, <1>3, <1>4, <1>5, <1>6, <1>7, <1>8, <1>9, <1>10, <1>11, <1>12, <1>13, <1>14
     DEF Next, Main, DfuThread

(* The inductive invariant holds of every behaviour.                       *)
LEMMA Inductive == Spec => []IInv
BY InitIInv, StepIInv, PTL DEF Spec

(* Types, for images of any number of chunks and any number of downloads:  *)
(* in particular an event is only ever sent for a chunk that was written,  *)
(* never for a reset (dfu_thread_fn).                                      *)
THEOREM TypeCorrect == Spec => []TypeOK
<1>1. IInv => TypeOK BY DEF IInv
<1> QED BY Inductive, <1>1, PTL

(* What is marked for upgrade is one whole image, whatever failed          *)
(* downloads, restarts and chunks still queued came before it              *)
(* (blecon_zephyr_memfault_ota_install_and_reboot).                        *)
THEOREM WholeImages == Spec => []WholeImage
<1>1. IInv => WholeImage BY DEF IInv
<1> QED BY Inductive, <1>1, PTL
==============================================================================
