---------------------------- MODULE ZephyrGattsProofs ----------------------------
(***************************************************************************)
(* The GATT server's bearers of the Zephyr port, for any number of bearers *)
(* and of sends: what is open is subscribed, and every send the library    *)
(* waits for is with the stack.                                            *)
(***************************************************************************)
EXTENDS ZephyrGatts, FiniteSetTheorems, TLAPS

(* The report that a subscription has ended.                               *)
Off(b) == [fn |-> "changed", bearer |-> b, on |-> FALSE]

(* A report of a subscription is never out of date, since the receive      *)
(* thread makes it before it takes the next from the peer.                 *)
NewsInv ==
    \A c \in ToSet(receiving) : c.fn = "changed" /\ c.on => link /\ c.bearer \in subscribed

(* The stack forgets the subscriptions of a link with the link.            *)
DownInv == ~ link => subscribed = {}

(* What main is about to notify has room in the stack.                     *)
RoomInv == \A b \in sendingOn : notifying[b] < MaxNotifying

IInv == OpenIsSubscribed /\ SendsAccounted /\ NewsInv /\ DownInv /\ RoomInv

------------------------------------------------------------------------------
(* Sequences of calls. *)

LEMMA TailSet ==
    \A S : \A q \in Seq(S) : q # <<>> =>
        /\ Tail(q) \in Seq(S)
        /\ Head(q) \in ToSet(q)
        /\ ToSet(q) \subseteq S
        /\ ToSet(Tail(q)) \subseteq ToSet(q)
        /\ \A x \in ToSet(q) : x # Head(q) => x \in ToSet(Tail(q))
<1> TAKE S
<1> TAKE q \in Seq(S)
<1> HAVE q # <<>>
<1>1. /\ Tail(q) \in Seq(S) /\ Len(q) \in Nat /\ Len(q) > 0 /\ Len(Tail(q)) = Len(q) - 1
      /\ \A i \in 1 .. Len(Tail(q)) : Tail(q)[i] = q[i + 1]
      /\ Head(q) = q[1]
      /\ DOMAIN q = 1 .. Len(q) /\ DOMAIN Tail(q) = 1 .. Len(Tail(q))
      /\ \A i \in 1 .. Len(q) : q[i] \in S
  OBVIOUS
<1>2. Head(q) \in ToSet(q) /\ ToSet(q) \subseteq S
  BY <1>1 DEF ToSet
<1>3. ASSUME NEW i \in 1 .. Len(Tail(q))
      PROVE  Tail(q)[i] \in ToSet(q)
  BY <1>1 DEF ToSet
<1>4. ASSUME NEW i \in 1 .. Len(q), q[i] # Head(q)
      PROVE  q[i] \in ToSet(Tail(q))
  <2>1. i - 1 \in 1 .. Len(Tail(q)) /\ Tail(q)[i - 1] = q[i]
    BY <1>1, <1>4
  <2> QED
    BY <2>1, <1>1 DEF ToSet
<1> QED
  BY <1>1, <1>2, <1>3, <1>4 DEF ToSet

LEMMA AppendSet ==
    \A S : \A q \in Seq(S) : \A x \in S :
        Append(q, x) \in Seq(S) /\ ToSet(Append(q, x)) = ToSet(q) \union {x}
<1> TAKE S
<1> TAKE q \in Seq(S)
<1> TAKE x \in S
<1>1. /\ Append(q, x) \in Seq(S) /\ Len(q) \in Nat
      /\ DOMAIN q = 1 .. Len(q) /\ DOMAIN Append(q, x) = 1 .. Len(q) + 1
      /\ \A i \in 1 .. Len(q) : Append(q, x)[i] = q[i]
      /\ Append(q, x)[Len(q) + 1] = x
  OBVIOUS
<1>2. ASSUME NEW i \in 1 .. Len(q) + 1
      PROVE  Append(q, x)[i] \in ToSet(q) \union {x}
  <2>1. CASE i = Len(q) + 1 BY <2>1, <1>1
  <2>2. CASE i \in 1 .. Len(q) BY <2>2, <1>1 DEF ToSet
  <2> QED BY <2>1, <2>2, <1>1
<1>3. ASSUME NEW i \in 1 .. Len(q)
      PROVE  q[i] \in ToSet(Append(q, x))
  <2>1. i \in 1 .. Len(q) + 1 BY <1>1
  <2> QED BY <2>1, <1>1 DEF ToSet
<1>4. x \in ToSet(Append(q, x))
  <2>1. Len(q) + 1 \in 1 .. Len(q) + 1 BY <1>1
  <2> QED BY <2>1, <1>1 DEF ToSet
<1> QED
  BY <1>1, <1>2, <1>3, <1>4 DEF ToSet

(* The sequence of a finite set holds its elements, and nothing else.      *)
LEMMA SequenceOfSet ==
    ASSUME NEW S, IsFiniteSet(S)
    PROVE  SetToSeq(S) \in Seq(S) /\ ToSet(SetToSeq(S)) = S
<1> DEFINE n == Cardinality(S)
<1>1. n \in Nat /\ ExistsBijection(1 .. n, S)
  BY FS_CardinalityType
<1>2. PICK g \in Bijection(1 .. n, S) : TRUE
  BY <1>1 DEF ExistsBijection
<1>3. g \in [1 .. n -> S] /\ IsInjective(g)
  BY <1>2 DEF Bijection, Injection, Surjection
<1> DEFINE f == SetToSeq(S)
<1>4. f \in [1 .. n -> S] /\ IsInjective(f)
  BY <1>3, Zenon DEF SetToSeq
<1>5. f \in Injection(1 .. n, S)
  BY <1>4 DEF Injection
<1>6. IsFiniteSet(1 .. n) /\ Cardinality(1 .. n) = n
  BY <1>1, FS_Interval
<1> HIDE DEF f, n
<1>7. f \in Surjection(1 .. n, S)
  BY <1>5, <1>6, FS_Injection DEF n
<1>8. f \in Seq(S) /\ DOMAIN f = 1 .. n
  BY <1>1, <1>4
<1>9. \A x \in S : \E i \in 1 .. n : f[i] = x
  BY <1>7 DEF Surjection
<1>10. ToSet(f) = S
  BY <1>4, <1>8, <1>9 DEF ToSet
<1> QED
  BY <1>8, <1>10 DEF f

------------------------------------------------------------------------------

LEMMA Cards ==
    Cardinality({}) = 0 /\ \A b : Cardinality({b}) = 1
BY FS_EmptySet, FS_Singleton

LEMMA InitIInv == Init => IInv
<1> SUFFICES ASSUME Init PROVE IInv
  OBVIOUS
<1>1. ToSet(receiving) = {}
  BY DEF Init, ToSet
<1>2. TypeOK
  <2>1. receiving \in Seq(Call) /\ closeTasks \subseteq Bearers /\ subscribed \subseteq Bearers
    BY DEF Init
  <2>2. sendingOn \subseteq Bearers /\ Cardinality(sendingOn) <= 1
    BY Cards DEF Init
  <2>3. /\ unsent \in [Bearers -> 0 .. MaxUnsent]
        /\ notifying \in [Bearers -> 0 .. MaxNotifying]
    BY BearerAssumption DEF Init
  <2>4. connected \in [Bearers -> BOOLEAN] /\ {conn, failed, link} \subseteq BOOLEAN
    BY DEF Init
  <2> QED
    BY <2>1, <2>2, <2>3, <2>4 DEF TypeOK
<1>3. \A b \in Bearers : ~ connected[b]
  BY DEF Init
<1> QED
  BY <1>1, <1>2, <1>3 DEF Init, IInv, OpenIsSubscribed, SendsAccounted, NewsInv, DownInv, RoomInv

(* Main's calls and completions leave the stack's subscriptions and the    *)
(* reports of them alone, and open no bearer.                              *)
LEMMA MainKeeps ==
    ASSUME IInv, TypeOK', SendsAccounted', RoomInv',
           UNCHANGED <<link, subscribed, receiving>>,
           \A b \in Bearers : connected'[b] => connected[b]
    PROVE  IInv'
<1>1. (\A b \in Bearers : connected[b] =>
          (link /\ b \in subscribed) \/ Off(b) \in ToSet(receiving))'
  BY DEF IInv, OpenIsSubscribed, Off
<1> QED
  BY <1>1 DEF IInv, OpenIsSubscribed, NewsInv, DownInv, Off

LEMMA StepIInv == IInv /\ [Next]_vars => IInv'
<1> SUFFICES ASSUME IInv, [Next]_vars PROVE IInv'
  OBVIOUS
<1>t. /\ {conn, failed, link} \subseteq BOOLEAN
      /\ connected \in [Bearers -> BOOLEAN]
      /\ closeTasks \subseteq Bearers /\ subscribed \subseteq Bearers
      /\ sendingOn \subseteq Bearers /\ Cardinality(sendingOn) <= 1
      /\ unsent \in [Bearers -> 0 .. MaxUnsent]
      /\ notifying \in [Bearers -> 0 .. MaxNotifying]
      /\ receiving \in Seq(Call)
  BY DEF IInv, OpenIsSubscribed, TypeOK
<1>n. MaxUnsent \in Nat \ {0} /\ MaxNotifying \in Nat \ {0}
  BY BearerAssumption
<1>s. \A b \in Bearers : connected[b] /\ b \in subscribed /\ ~ failed =>
          unsent[b] <= notifying[b] + (IF b \in sendingOn THEN 1 ELSE 0)
  BY DEF IInv, SendsAccounted
<1>o. \A b \in Bearers : connected[b] =>
          (link /\ b \in subscribed) \/ Off(b) \in ToSet(receiving)
  BY DEF IInv, OpenIsSubscribed, Off
<1>e. receiving = <<>> => ToSet(receiving) = {}
  BY DEF ToSet
<1>1. ASSUME NEW b \in Bearers, SendAsks(b)
      PROVE  IInv'
  <2>1. /\ UNCHANGED <<conn, connected, closeTasks, failed, link, subscribed, notifying, receiving>>
        /\ unsent' = [unsent EXCEPT ![b] = unsent[b] + 1]
        /\ unsent[b] < MaxUnsent /\ notifying[b] < MaxNotifying
        /\ sendingOn = {} /\ sendingOn' = IF link /\ b \in subscribed THEN {b} ELSE {}
    BY <1>1 DEF SendAsks, LockFree, stackVars
  <2>2. TypeOK'
    <3>1. unsent' \in [Bearers -> 0 .. MaxUnsent]
      BY <2>1, <1>t, <1>n
    <3>2. sendingOn' \subseteq Bearers /\ Cardinality(sendingOn') <= 1
      BY <2>1, Cards
    <3> QED
      BY <2>1, <3>1, <3>2, <1>t DEF TypeOK
  <2>3. SendsAccounted'
    <3>1. ASSUME NEW a \in Bearers, connected[a], a \in subscribed, ~ failed
          PROVE  unsent'[a] <= notifying[a] + (IF a \in sendingOn' THEN 1 ELSE 0)
      <4>1. link
        BY <3>1 DEF IInv, DownInv
      <4>2. unsent[a] <= notifying[a] /\ unsent[a] \in Nat /\ notifying[a] \in Nat
        BY <3>1, <2>1, <1>s, <1>t, <1>n
      <4>3. CASE a = b
        BY <4>1, <4>2, <4>3, <3>1, <2>1, <1>t
      <4>4. CASE a # b
        BY <4>2, <4>4, <2>1, <1>t
      <4> QED
        BY <4>3, <4>4
    <3> QED
      BY <3>1, <2>1 DEF SendsAccounted
  <2>4. RoomInv'
    BY <2>1 DEF RoomInv
  <2> QED
    BY <2>1, <2>2, <2>3, <2>4, MainKeeps
<1>2. CASE SendNotifies
  <2>1. PICK b \in sendingOn :
          IF link /\ b \in subscribed
          THEN notifying' = [notifying EXCEPT ![b] = notifying[b] + 1] /\ failed' = failed
          ELSE failed' = TRUE /\ notifying' = notifying
    BY <1>2 DEF SendNotifies
  <2>2. UNCHANGED <<conn, connected, closeTasks, unsent, link, subscribed, receiving>> /\ sendingOn' = {}
    BY <1>2 DEF SendNotifies
  <2>3. b \in Bearers /\ sendingOn = {b} /\ notifying[b] < MaxNotifying
    <3>1. b \in Bearers /\ notifying[b] < MaxNotifying
      BY <1>t DEF IInv, RoomInv
    <3>2. ASSUME NEW a \in sendingOn, a # b
          PROVE  FALSE
      <4>1. IsFiniteSet(sendingOn)
        BY <1>t, BearerAssumption, FS_Subset
      <4>2. {a, b} \subseteq sendingOn /\ Cardinality({a, b}) = 2
        <5>1. IsFiniteSet({b}) /\ Cardinality({b}) = 1 /\ a \notin {b}
          BY <3>2, FS_Singleton
        <5>2. Cardinality({b} \union {a}) = Cardinality({b}) + 1
          BY <5>1, FS_AddElement
        <5>3. {b} \union {a} = {a, b}
          OBVIOUS
        <5> QED
          BY <5>1, <5>2, <5>3
      <4>3. 2 <= Cardinality(sendingOn) /\ Cardinality(sendingOn) \in Nat
        BY <4>1, <4>2, FS_Subset, FS_CardinalityType
      <4> QED
        BY <4>3, <1>t
    <3> QED
      BY <3>1, <3>2
  <2>4. TypeOK'
    <3>1. notifying' \in [Bearers -> 0 .. MaxNotifying] /\ failed' \in BOOLEAN
      <4>1. CASE link /\ b \in subscribed
        <5>1. notifying[b] + 1 \in 0 .. MaxNotifying
          BY <2>3, <1>t, <1>n
        <5> QED
          BY <4>1, <5>1, <2>1, <2>3, <1>t
      <4>2. CASE ~ (link /\ b \in subscribed)
        BY <4>2, <2>1, <1>t
      <4> QED
        BY <4>1, <4>2
    <3> QED
      BY <2>2, <3>1, <1>t, Cards DEF TypeOK
  <2>5. SendsAccounted'
    <3>1. ASSUME NEW a \in Bearers, connected[a], a \in subscribed, ~ failed'
          PROVE  unsent[a] <= notifying'[a]
      <4>1. unsent[a] <= notifying[a] + (IF a = b THEN 1 ELSE 0)
        BY <3>1, <2>1, <2>3, <1>s
      <4>2. notifying' = [notifying EXCEPT ![b] = notifying[b] + 1]
        BY <3>1, <2>1
      <4> QED
        BY <4>1, <4>2, <2>3, <1>t, <1>n
    <3>2. \A a \in Bearers : connected[a] /\ a \in subscribed /\ ~ failed' => unsent[a] <= notifying'[a] + 0
      <4>1. \A a \in Bearers : notifying'[a] \in Nat
        BY <2>4, <1>n DEF TypeOK
      <4> QED
        BY <3>1, <4>1
    <3> QED
      BY <3>2, <2>2 DEF SendsAccounted
  <2>6. RoomInv'
    BY <2>2 DEF RoomInv
  <2> QED
    BY <2>2, <2>4, <2>5, <2>6, MainKeeps
<1>3. ASSUME NEW b \in Bearers, Close(b)
      PROVE  IInv'
  <2>1. /\ UNCHANGED <<conn, connected, sendingOn, unsent, failed, link, subscribed, notifying, receiving>>
        /\ closeTasks' \subseteq Bearers
    BY <1>3, <1>t DEF Close, stackVars
  <2>2. TypeOK'
    BY <2>1, <1>t DEF TypeOK
  <2>3. SendsAccounted' /\ RoomInv'
    BY <2>1 DEF IInv, SendsAccounted, RoomInv
  <2> QED
    BY <2>1, <2>2, <2>3, MainKeeps
<1>4. ASSUME NEW b \in Bearers, CloseCallback(b)
      PROVE  IInv'
  <2>1. /\ UNCHANGED <<conn, sendingOn, unsent, failed, link, subscribed, notifying, receiving>>
        /\ closeTasks' \subseteq Bearers
        /\ connected' = [connected EXCEPT ![b] = FALSE]
    BY <1>4, <1>t DEF CloseCallback, stackVars
  <2>2. connected' \in [Bearers -> BOOLEAN] /\ \A a \in Bearers : connected'[a] => connected[a]
    BY <2>1, <1>t
  <2>3. TypeOK'
    BY <2>1, <2>2, <1>t DEF TypeOK
  <2>4. SendsAccounted' /\ RoomInv'
    BY <2>1, <2>2 DEF IInv, SendsAccounted, RoomInv
  <2> QED
    BY <2>1, <2>2, <2>3, <2>4, MainKeeps
<1>5. ASSUME NEW b \in Bearers, NotifyDone(b)
      PROVE  IInv'
  <2>1. /\ UNCHANGED <<conn, connected, closeTasks, sendingOn, failed, link, subscribed, receiving>>
        /\ notifying[b] > 0 /\ sendingOn = {}
        /\ notifying' = [notifying EXCEPT ![b] = notifying[b] - 1]
        /\ unsent' = [unsent EXCEPT ![b] = IF unsent[b] > 0 THEN unsent[b] - 1 ELSE 0]
    BY <1>5 DEF NotifyDone, LockFree, portVars
  <2>2. /\ notifying' \in [Bearers -> 0 .. MaxNotifying]
        /\ unsent' \in [Bearers -> 0 .. MaxUnsent]
    BY <2>1, <1>t, <1>n
  <2>3. TypeOK'
    BY <2>1, <2>2, <1>t DEF TypeOK
  <2>4. SendsAccounted'
    <3>1. ASSUME NEW a \in Bearers, connected[a], a \in subscribed, ~ failed
          PROVE  unsent'[a] <= notifying'[a] + 0
      <4>1. unsent[a] <= notifying[a]
        BY <3>1, <2>1, <1>s, <1>t, <1>n
      <4> QED
        BY <4>1, <2>1, <1>t, <1>n
    <3> QED
      BY <3>1, <2>1 DEF SendsAccounted
  <2>5. RoomInv'
    BY <2>1 DEF RoomInv
  <2> QED
    BY <2>1, <2>3, <2>4, <2>5, MainKeeps
<1>6. CASE LinkUp
  <2>1. /\ UNCHANGED <<conn, connected, closeTasks, sendingOn, unsent, failed, subscribed, notifying>>
        /\ ~ link /\ link' = TRUE /\ receiving = <<>> /\ receiving' = << [fn |-> "connected"] >>
    BY <1>6 DEF LinkUp, portVars
  <2>2. subscribed = {} /\ \A b \in Bearers : ~ connected[b]
    <3>1. subscribed = {}
      BY <2>1 DEF IInv, DownInv
    <3> QED
      BY <3>1, <2>1, <1>o, <1>e
  <2>3. [fn |-> "connected"] \in Call /\ ToSet(receiving') = {[fn |-> "connected"]}
    BY <2>1 DEF Call, ToSet
  <2>4. TypeOK'
    BY <2>1, <2>3, <1>t DEF TypeOK
  <2>5. NewsInv'
    BY <2>3 DEF NewsInv
  <2>6. RoomInv' /\ DownInv'
    BY <2>1 DEF IInv, RoomInv, DownInv
  <2> QED
    BY <2>1, <2>2, <2>4, <2>5, <2>6 DEF IInv, OpenIsSubscribed, SendsAccounted
<1>7. CASE LinkDown
  <2> DEFINE news == {Off(b) : b \in subscribed}
             end  == [fn |-> "disconnected"]
  <2>1. /\ UNCHANGED <<conn, connected, closeTasks, sendingOn, unsent, failed, notifying>>
        /\ link /\ link' = FALSE /\ receiving = <<>> /\ subscribed' = {}
        /\ receiving' = Append(SetToSeq(news), end)
    BY <1>7 DEF LinkDown, portVars, Off
  <2>2. IsFiniteSet(news)
    <3>1. IsFiniteSet(subscribed)
      BY <1>t, BearerAssumption, FS_Subset
    <3>2. [b \in subscribed |-> Off(b)] \in Surjection(subscribed, news)
      BY DEF Surjection
    <3> QED
      BY <3>1, <3>2, FS_Surjection
  <2>3. news \subseteq Call /\ end \in Call
    <3>1. ASSUME NEW b \in Bearers
          PROVE  Off(b) \in Call
      BY DEF Off, Call
    <3>2. end \in Call
      BY DEF Call
    <3> QED
      BY <3>1, <3>2, <1>t
  <2> HIDE DEF news, end
  <2>4. SetToSeq(news) \in Seq(Call) /\ ToSet(SetToSeq(news)) = news
    BY <2>2, <2>3, SequenceOfSet
  <2>5. receiving' \in Seq(Call) /\ ToSet(receiving') = news \union {end}
    BY <2>1, <2>3, <2>4, AppendSet
  <2>6. TypeOK'
    BY <2>1, <2>5, <1>t DEF TypeOK
  <2>7. \A b \in Bearers : connected[b] => Off(b) \in ToSet(receiving')
    BY <2>1, <2>5, <1>o, <1>e DEF news
  <2>8. NewsInv'
    BY <2>5 DEF NewsInv, news, end, Off
  <2>9. RoomInv' /\ DownInv' /\ SendsAccounted'
    BY <2>1 DEF IInv, RoomInv, DownInv, SendsAccounted
  <2> QED
    BY <2>1, <2>6, <2>7, <2>8, <2>9 DEF IInv, OpenIsSubscribed, Off
<1>8. ASSUME NEW b \in Bearers, CccdWrite(b)
      PROVE  IInv'
  <2> DEFINE call == [fn |-> "changed", bearer |-> b, on |-> b \in subscribed']
  <2>1. /\ UNCHANGED <<conn, connected, closeTasks, sendingOn, unsent, failed, link, notifying>>
        /\ link /\ receiving = <<>> /\ receiving' = << call >>
        /\ subscribed' = IF b \in subscribed THEN subscribed \ {b} ELSE subscribed \union {b}
    BY <1>8 DEF CccdWrite, portVars
  <2>2. call \in Call /\ ToSet(receiving') = {call} /\ receiving' \in Seq(Call)
    BY <2>1 DEF Call, ToSet
  <2>3. TypeOK'
    <3>1. subscribed' \subseteq Bearers
      BY <2>1, <1>t
    <3> QED
      BY <2>1, <2>2, <3>1, <1>t DEF TypeOK
  <2>4. \A a \in Bearers : connected[a] => a \in subscribed
    BY <2>1, <1>o, <1>e
  <2>5. \A a \in Bearers : connected[a] => a \in subscribed' \/ Off(a) \in ToSet(receiving')
    <3>1. ASSUME NEW a \in Bearers, connected[a], a \notin subscribed'
          PROVE  Off(a) = call
      <4>1. a = b /\ (b \in subscribed') = FALSE
        BY <3>1, <2>1, <2>4
      <4> QED
        BY <4>1 DEF Off
    <3> QED
      BY <3>1, <2>2
  <2>6. NewsInv'
    <3>1. call.on => b \in subscribed'
      OBVIOUS
    <3> HIDE DEF call
    <3>2. call.bearer = b
      BY DEF call
    <3> QED
      BY <2>1, <2>2, <3>1, <3>2 DEF NewsInv
  <2>7. RoomInv' /\ DownInv'
    BY <2>1 DEF IInv, RoomInv, DownInv
  <2>8. SendsAccounted'
    BY <2>1, <2>4 DEF IInv, SendsAccounted
  <2> QED
    BY <2>1, <2>3, <2>5, <2>6, <2>7, <2>8 DEF IInv, OpenIsSubscribed, Off
<1>9. ASSUME receiving # <<>>, receiving' = Tail(receiving), conn' \in BOOLEAN,
             Head(receiving).fn # "changed",
             UNCHANGED <<connected, closeTasks, sendingOn, unsent, failed, link, subscribed, notifying>>
      PROVE  IInv'
  <2>1. /\ receiving' \in Seq(Call) /\ ToSet(receiving') \subseteq ToSet(receiving)
        /\ \A x \in ToSet(receiving) : x # Head(receiving) => x \in ToSet(receiving')
    BY <1>9, <1>t, TailSet
  <2>2. TypeOK'
    BY <1>9, <2>1, <1>t DEF TypeOK
  <2>3. \A b : Off(b).fn = "changed"
    BY DEF Off
  <2>4. \A b \in Bearers : connected[b] =>
            (link /\ b \in subscribed) \/ Off(b) \in ToSet(receiving')
    BY <2>1, <2>3, <1>9, <1>o
  <2>5. NewsInv'
    BY <1>9, <2>1 DEF IInv, NewsInv
  <2>6. RoomInv' /\ DownInv' /\ SendsAccounted'
    BY <1>9 DEF IInv, RoomInv, DownInv, SendsAccounted
  <2> QED
    BY <1>9, <2>2, <2>4, <2>5, <2>6 DEF IInv, OpenIsSubscribed, Off
<1>10. CASE OnConnected \/ OnDisconnected
  BY <1>9, <1>10 DEF OnConnected, OnDisconnected, Called, stackVars
<1>11. CASE CccdChanged
  <2> DEFINE c == Head(receiving)
  <2>1. /\ receiving # <<>> /\ receiving' = Tail(receiving) /\ c.fn = "changed"
        /\ UNCHANGED <<conn, closeTasks, sendingOn, failed, link, subscribed, notifying>>
        /\ connected' = [connected EXCEPT ![c.bearer] = c.on]
        /\ unsent' = [unsent EXCEPT ![c.bearer] =
                         IF c.on /\ ~ connected[c.bearer] THEN 0 ELSE unsent[c.bearer]]
    BY <1>11 DEF CccdChanged, Called, stackVars
  <2>2. /\ receiving' \in Seq(Call) /\ ToSet(receiving') \subseteq ToSet(receiving)
        /\ \A x \in ToSet(receiving) : x # c => x \in ToSet(receiving')
        /\ c \in ToSet(receiving) /\ c \in Call
    BY <2>1, <1>t, TailSet
  <2>3. c.bearer \in Bearers /\ c.on \in BOOLEAN
    BY <2>1, <2>2 DEF Call
  <2>4. c.on => link /\ c.bearer \in subscribed
    BY <2>1, <2>2 DEF IInv, NewsInv
  <2> HIDE DEF c
  <2>5. /\ connected' \in [Bearers -> BOOLEAN]
        /\ unsent' \in [Bearers -> 0 .. MaxUnsent]
    BY <2>1, <2>3, <1>t, <1>n
  <2>6. TypeOK'
    BY <2>1, <2>2, <2>5, <1>t DEF TypeOK
  <2>7. ASSUME NEW b \in Bearers, connected'[b]
        PROVE  (link /\ b \in subscribed) \/ Off(b) \in ToSet(receiving')
    <3>1. CASE b = c.bearer
      <4>1. c.on
        BY <3>1, <2>1, <2>3, <2>7, <1>t
      <4> QED
        BY <3>1, <4>1, <2>4
    <3>2. CASE b # c.bearer
      <4>1. connected[b]
        BY <3>2, <2>1, <2>7, <1>t
      <4>2. Off(b) # c
        BY <3>2 DEF Off
      <4> QED
        BY <4>1, <4>2, <2>2, <1>o
    <3> QED
      BY <3>1, <3>2
  <2>8. ASSUME NEW b \in Bearers, connected'[b], b \in subscribed, ~ failed
        PROVE  unsent'[b] <= notifying[b] + (IF b \in sendingOn THEN 1 ELSE 0)
    <3>1. notifying[b] \in Nat
      BY <1>t, <1>n
    <3>2. CASE connected[b]
      <4>1. unsent'[b] = unsent[b]
        BY <3>2, <2>1, <2>3, <1>t
      <4> QED
        BY <3>2, <4>1, <2>8, <1>s
    <3>3. CASE ~ connected[b]
      <4>1. b = c.bearer
        BY <3>3, <2>1, <2>3, <2>8, <1>t
      <4>2. unsent'[b] = 0
        BY <3>3, <4>1, <2>1, <2>3, <2>8, <1>t
      <4> QED
        BY <4>2, <3>1
    <3> QED
      BY <3>2, <3>3
  <2>9. NewsInv' /\ DownInv' /\ RoomInv'
    BY <2>1, <2>2 DEF IInv, NewsInv, DownInv, RoomInv
  <2> QED
    BY <2>1, <2>6, <2>7, <2>8, <2>9 DEF IInv, OpenIsSubscribed, SendsAccounted, Off
<1>12. CASE UNCHANGED vars
  <2>1. UNCHANGED <<conn, connected, closeTasks, sendingOn, unsent, failed, link, subscribed, notifying, receiving>>
    BY <1>12 DEF vars, portVars, stackVars
  <2>2. TypeOK'
    BY <2>1, <1>t DEF TypeOK
  <2>3. SendsAccounted' /\ RoomInv'
    BY <2>1 DEF IInv, SendsAccounted, RoomInv
  <2> QED
    BY <2>1, <2>2, <2>3, MainKeeps
<1> QED
  BY <1>1, <1>2, <1>3, <1>4, <1>5, <1>6, <1>7, <1>8, <1>10, <1>11, <1>12 DEF Next, Receive

LEMMA Invariance == Spec => []IInv
BY InitIInv, StepIInv, PTL DEF Spec

------------------------------------------------------------------------------

(* Whenever the receive thread is overtaken by main, and however often a   *)
(* peer subscribes, unsubscribes or leaves, a bearer is open only while    *)
(* its peer subscribes or until the change on hand is taken.               *)
THEOREM OpenMeansSubscribed == Spec => []OpenIsSubscribed
<1>1. IInv => OpenIsSubscribed
  BY DEF IInv
<1> QED
  BY <1>1, Invariance, PTL

(* Every send an open bearer's library waits for is in the stack or about  *)
(* to be: it is answered.                                                  *)
THEOREM SendsAreAccounted == Spec => []SendsAccounted
<1>1. IInv => SendsAccounted
  BY DEF IInv
<1> QED
  BY <1>1, Invariance, PTL
==================================================================================
