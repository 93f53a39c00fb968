--------------------------- MODULE ProducerProofs ---------------------------
(***************************************************************************)
(* Theorems about Producer, for any calls, any batch size, any width of    *)
(* the counter and any number of processes.                                *)
(***************************************************************************)
EXTENDS Producer, SequenceFacts, FiniteSetTheorems

USE DEF callVars, accVars, waitVars, closeVars, netVars, taskVars, brokerVars

-----------------------------------------------------------------------------
(* The inductive invariant.  A message goes from its call through the      *)
(* channel, a worker's batch, the wire and the broker to an answer.        *)

PublishOf(m) == [kind |-> "publish", message |-> m]

Adding(m)   == m \in Singles /\ pc[m] = "add"
Held(m)     == \E w \in Workers : Has(batch[w], m)
OnWire(m)   == Has(toBroker, PublishOf(m))

\* The message is still to be answered.
Expecting(m) == Adding(m) \/ Has(queue, m) \/ Held(m) \/ OnWire(m) \/ Has(pending, m)

\* The message has an id, and the process that gave it lives.
Current(m) ==
    /\ ids[m] # NoId
    /\ \A c \in Calls : Has(Content(c), m) => pc[c] # "gone"

\* What a call has done by the time it is at a point.
CallsOK ==
    /\ \A c \in Calls :
         /\ pc[c] = "idle" => \A m \in Messages : Has(Content(c), m) => ids[m] = NoId
         /\ c \in Batches => pc[c] \notin {"add", "count", "get", "sub"}
         /\ pc[c] = "register" =>
              /\ c \in Batches /\ Len(batch[c]) < Len(c)
              /\ \A i \in Len(batch[c]) + 1 .. Len(c) : ids[c[i]] = NoId
         /\ pc[c] \notin {"register", "sub", "publish"} => batch[c] = <<>>
    /\ pc[Timer] \in {"idle", "sub", "publish"}
    /\ pc[Timer] = "idle" => batch[Timer] = <<>>

\* The lock is held from get until the counter is lowered.
LockOK == \A w \in Workers : pc[w] = "sub" <=> locked = w

\* Only a message that has an id goes anywhere.
IdsOK ==
    \A m \in Messages :
       /\ Expecting(m) => Current(m)
       /\ Has(log, m) => ids[m] # NoId

\* An answer is about some message.
AnswersOK ==
    /\ \A i \in 1 .. Len(toClient) :
          toClient[i].kind \in {"confirm", "error"} => toClient[i].ids # <<>>
    /\ \A i \in 1 .. Len(tasks) : tasks[i].ids # <<>>

Basic == TypeOK /\ CallsOK /\ LockOK /\ IdsOK /\ AnswersOK

\* message_count, up to a multiple of the counter's width: what is in the channel,
\* without what was added and is not counted, and with what was taken and still is.
Counting == {c \in Calls : pc[c] = "count"}
Taken    == IF locked = NoWorker THEN 0 ELSE Len(batch[locked])
Buffered == Len(queue) - Cardinality(Counting) + Taken
CountOK  == \E k \in Int : count = Buffered + k * UsizeMod

\* A message is at one place, once.
AtOnePlace(m) ==
    /\ Once(queue, m) /\ Once(toBroker, PublishOf(m)) /\ Once(log, m) /\ Once(pending, m)
    /\ \A w \in Workers : Once(batch[w], m)
    /\ \A w, v \in Workers : Has(batch[w], m) /\ Has(batch[v], m) => w = v
    /\ Adding(m) => ~(Has(queue, m) \/ Held(m) \/ OnWire(m) \/ Has(pending, m) \/ Has(log, m))
    /\ Has(queue, m) => ~(Held(m) \/ OnWire(m) \/ Has(pending, m) \/ Has(log, m))
    /\ Held(m) => ~(OnWire(m) \/ Has(pending, m) \/ Has(log, m))
    /\ OnWire(m) => ~(Has(pending, m) \/ Has(log, m))

OnceOK == \A m \in Messages : AtOnePlace(m)

\* The ids of a process come from its sequence, or from the application.
IdFrom(m) ==
    /\ Current(m) /\ OwnId[m] = NoId => ids[m] < sequence
    /\ ids[m] # NoId /\ OwnId[m] # NoId => ids[m] = OwnId[m]
    /\ named /\ Has(log, m) =>
         /\ ids[m] <= last
         /\ OwnId[m] = NoId /\ ids[m] > 0 => sequence > ids[m]

SequenceOK == \A m \in Messages : IdFrom(m)

\* A waiter is for the id of its message, and there is one per id; a message is called
\* back for once, and is not waited for then.
WaitersOK ==
    /\ \A w \in waiters : Current(w.message) /\ w.id = ids[w.message]
    /\ \A v, w \in waiters : v.id = w.id => v = w
    /\ \A cb \in callbacks : cb.id = ids[cb.message]
    /\ \A cb \in callbacks : \A w \in waiters : w.message # cb.message
    /\ \A cb, d \in callbacks : cb.message = d.message => cb = d

\* No two messages of one process have the same id.
IdsApart ==
    \A m, n \in Messages : Current(m) /\ Current(n) /\ ids[m] = ids[n] => m = n

\* The answers on their way, those that have a handler task first.
Answers == Len(tasks) + Len(toClient)

AnswerIds(k) ==
    IF k <= Len(tasks) THEN tasks[k].ids
    ELSE LET frame == toClient[k - Len(tasks)]
         IN  IF frame.kind \in {"confirm", "error"} THEN frame.ids ELSE <<>>

Confirms(k) ==
    IF k <= Len(tasks) THEN tasks[k].ok ELSE toClient[k - Len(tasks)].kind = "confirm"

\* No id is answered twice.
AnsweredOnce ==
    \A k, l \in 1 .. Answers : \A i \in 1 .. Len(AnswerIds(k)), j \in 1 .. Len(AnswerIds(l)) :
       AnswerIds(k)[i] = AnswerIds(l)[j] => k = l /\ i = j

\* Every id that is answered is waited for, by a message that expects no other
\* answer; what a nameless producer's broker confirms is stored.
AnswersAwaited ==
    \A k \in 1 .. Answers : \A i \in 1 .. Len(AnswerIds(k)) :
       \E w \in waiters :
          /\ w.id = AnswerIds(k)[i]
          /\ ~Expecting(w.message)
          /\ ~named /\ Confirms(k) => Stored(w.message)

\* What is still to be answered is waited for.
AllAwaited ==
    \A m \in Messages :
       /\ Expecting(m) => [id |-> ids[m], message |-> m] \in waiters
       /\ Has(pending, m) /\ ~named => Stored(m)

ConfirmedStored ==
    \A cb \in callbacks : cb.ok /\ ~named => Stored(cb.message)

DeliveryOK ==
    AnsweredOnce /\ AnswersAwaited /\ AllAwaited /\ ConfirmedStored /\ ~panicked

-----------------------------------------------------------------------------
(* The calls.                                                              *)

\* The messages of a call, at least one.
LEMMA ContentType ==
  ASSUME NEW c \in Calls
  PROVE  Content(c) \in Seq(Messages) /\ Len(Content(c)) \in Nat \ {0}
<1>1. CASE c \in Singles
  <2>1. Content(c) = <<c>> /\ c \in Messages
    BY <1>1 DEF Content, Messages
  <2> QED
    BY <2>1
<1>2. CASE c \notin Singles
  <2>1. c \in Batches /\ Content(c) = c
    BY <1>2 DEF Content, Calls
  <2>2. c \in Seq(BatchMessages) /\ c # <<>>
    BY <2>1, ProducerAssumption
  <2>3. Len(c) \in Nat \ {0}
    BY <2>2, LenProperties, EmptySeq
  <2>4. c \in Seq(Messages)
    BY <2>2, SeqMonotonic DEF Messages
  <2> QED
    BY <2>1, <2>3, <2>4
<1> QED
  BY <1>1, <1>2

\* A message is in one call, at one place.
LEMMA ContentApart ==
  ASSUME NEW c \in Calls, NEW d \in Calls,
         NEW i \in 1 .. Len(Content(c)), NEW j \in 1 .. Len(Content(d)),
         Content(c)[i] = Content(d)[j]
  PROVE  c = d /\ i = j
<1>1. \A b \in Batches : \A k \in 1 .. Len(b) : b[k] \in BatchMessages
  BY DEF BatchMessages
<1>2. Singles \cap BatchMessages = {}
  BY ProducerAssumption
<1>3. CASE c \in Singles /\ d \in Singles
  BY <1>3 DEF Content
<1>4. CASE c \notin Singles /\ d \notin Singles
  <2>1. c \in Batches /\ d \in Batches /\ Content(c) = c /\ Content(d) = d
    BY <1>4 DEF Content, Calls
  <2> QED
    BY <2>1, ProducerAssumption
<1>5. CASE c \in Singles /\ d \notin Singles
  <2>1. d \in Batches /\ Content(d) = d /\ Content(c) = <<c>>
    BY <1>5 DEF Content, Calls
  <2>2. Content(c)[i] = c /\ Content(d)[j] \in BatchMessages
    BY <1>1, <2>1
  <2> QED
    BY <1>2, <1>5, <2>2
<1>6. CASE c \notin Singles /\ d \in Singles
  <2>1. c \in Batches /\ Content(c) = c /\ Content(d) = <<d>>
    BY <1>6 DEF Content, Calls
  <2>2. Content(d)[j] = d /\ Content(c)[i] \in BatchMessages
    BY <1>1, <2>1
  <2> QED
    BY <1>2, <1>6, <2>2
<1> QED
  BY <1>3, <1>4, <1>5, <1>6

\* It has one call that it belongs to.
LEMMA OneOwner ==
  ASSUME NEW c \in Calls, NEW d \in Calls, NEW m, Has(Content(c), m), Has(Content(d), m)
  PROVE  c = d
BY ContentApart DEF Has

\* A message of send is its call's only one.
LEMMA SingleContent ==
  ASSUME NEW c \in Singles
  PROVE  /\ c \in Calls /\ c \in Workers /\ c \in Messages /\ c \notin Batches
         /\ Content(c) = <<c>> /\ Has(Content(c), c)
BY ProducerAssumption, HasSingle DEF Content, Calls, Workers, Messages

\* The message that a call registers next.
Fresh(c)   == Content(c)[Len(batch[c]) + 1]
FreshId(c) == IF OwnId[Fresh(c)] = NoId THEN sequence ELSE OwnId[Fresh(c)]

\* It has no id yet, and so it is nowhere.
LEMMA FreshFacts ==
  ASSUME Basic, NEW c \in Calls, Registering(c)
  PROVE  /\ Len(batch[c]) + 1 \in 1 .. Len(Content(c))
         /\ Fresh(c) \in Messages
         /\ Has(Content(c), Fresh(c))
         /\ ids[Fresh(c)] = NoId
         /\ ~Expecting(Fresh(c)) /\ ~Has(log, Fresh(c))
         /\ FreshId(c) \in Nat
         /\ pc[c] # "gone"
         /\ c \in Singles => Fresh(c) = c
         /\ pc[c] \in {"idle", "register"}
<1> USE DEF Basic
<1>1. Content(c) \in Seq(Messages) /\ Len(Content(c)) \in Nat \ {0}
  BY ContentType
<1>2. (pc[c] = "idle" /\ batch[c] = <<>>) \/ pc[c] = "register"
  BY DEF Registering, MayCall, CallsOK
<1>3. batch[c] \in Seq(Messages) /\ Len(batch[c]) \in Nat
  BY LenProperties DEF TypeOK, Workers
<1>4. /\ Len(batch[c]) + 1 \in 1 .. Len(Content(c)) 
      /\ ids[Fresh(c)] = NoId /\ Fresh(c) \in Messages /\ Has(Content(c), Fresh(c))
  <2>1. CASE pc[c] = "register"
    <3>1. c \in Batches /\ c \notin Singles /\ Content(c) = c /\ Len(batch[c]) < Len(c)
      BY <2>1, ProducerAssumption DEF CallsOK, Content
    <3>2. Len(batch[c]) + 1 \in Len(batch[c]) + 1 .. Len(c)
      BY <1>1, <1>3, <3>1
    <3>3. ids[Fresh(c)] = NoId
      BY <2>1, <3>1, <3>2 DEF CallsOK, Fresh
    <3>4. Len(batch[c]) + 1 \in 1 .. Len(Content(c))
      BY <1>1, <1>3, <3>1
    <3> QED
      BY <1>1, <3>3, <3>4, ElementOfSeq DEF Fresh, Has
  <2>2. CASE pc[c] = "idle" /\ batch[c] = <<>>
    <3>1. Len(batch[c]) = 0
      BY <2>2
    <3>2. Len(batch[c]) + 1 \in 1 .. Len(Content(c))
      BY <1>1, <3>1
    <3>3. Fresh(c) \in Messages /\ Has(Content(c), Fresh(c))
      BY <1>1, <3>2, ElementOfSeq DEF Fresh, Has
    <3>4. ids[Fresh(c)] = NoId
      BY <2>2, <3>3 DEF CallsOK
    <3> QED
      BY <3>2, <3>3, <3>4
  <2> QED
    BY <1>2, <2>1, <2>2
<1>5. ~Expecting(Fresh(c)) /\ ~Has(log, Fresh(c))
  BY <1>4 DEF IdsOK, Current
<1>6. FreshId(c) \in Nat
  BY <1>4, ProducerAssumption DEF FreshId, TypeOK
<1>7. c \in Singles => Fresh(c) = c
  <2> SUFFICES ASSUME c \in Singles PROVE Fresh(c) = c
    OBVIOUS
  <2>1. Content(c) = <<c>>
    BY SingleContent
  <2>2. Len(batch[c]) + 1 = 1
    BY <1>3, <1>4, <2>1
  <2> QED
    BY <2>1, <2>2 DEF Fresh
<1> QED
  BY <1>2, <1>4, <1>5, <1>6, <1>7

\* What Register assigns.
LEMMA RegisterFacts ==
  ASSUME NEW c \in Calls, Register(c)
  PROVE  /\ Registering(c)
         /\ ids' = [ids EXCEPT ![Fresh(c)] = FreshId(c)]
         /\ sequence' = IF OwnId[Fresh(c)] = NoId THEN sequence + 1 ELSE sequence
         /\ waiters' = WithWaiter(FreshId(c), Fresh(c))
         /\ AfterRegister(c, Fresh(c))
         /\ UNCHANGED <<accVars, closeVars, netVars, taskVars, brokerVars>>
BY DEF Register, TakeId, Fresh, FreshId

-----------------------------------------------------------------------------
(* What moves where.                                                       *)

\* The frame that publishes a batch has the batch's messages, in order.
LEMMA PublishedBatch ==
  ASSUME NEW s \in Seq(Messages), NEW m \in Messages
  PROVE  /\ PublishCommand(s) \in Seq(Commands)
         /\ Has(PublishCommand(s), PublishOf(m)) <=> Has(s, m)
         /\ Once(s, m) => Once(PublishCommand(s), PublishOf(m))
<1> DEFINE q == PublishCommand(s)
<1>1. Len(s) \in Nat /\ \A i \in 1 .. Len(s) : s[i] \in Messages
  BY LenProperties, ElementOfSeq
<1>2. \A i \in 1 .. Len(s) : PublishOf(s[i]) \in Commands
  BY <1>1 DEF PublishOf, Commands
<1>3. q = [i \in 1 .. Len(s) |-> PublishOf(s[i])]
  BY DEF PublishCommand, PublishOf
<1>4. q \in Seq(Commands) /\ Len(q) = Len(s)
  BY <1>1, <1>2, <1>3, IsASeq, LenProperties
<1>5. \A i \in 1 .. Len(s) : q[i] = PublishOf(m) <=> s[i] = m
  BY <1>3 DEF PublishOf
<1> HIDE DEF q
<1>6. Has(q, PublishOf(m)) <=> Has(s, m)
  BY <1>4, <1>5 DEF Has
<1>7. Once(s, m) => Once(q, PublishOf(m))
  BY <1>4, <1>5 DEF Once
<1> QED
  BY <1>4, <1>6, <1>7 DEF q

\* The command that the broker reads.
LEMMA HeadCommand ==
  ASSUME TypeOK, toBroker # <<>>
  PROVE  /\ Head(toBroker) \in Commands /\ Tail(toBroker) \in Seq(Commands)
         /\ Head(toBroker).kind = "publish" =>
              /\ Head(toBroker).message \in Messages
              /\ Head(toBroker) = PublishOf(Head(toBroker).message)
              /\ OnWire(Head(toBroker).message)
         /\ \A m \in Messages : Has(Tail(toBroker), PublishOf(m)) => OnWire(m)
<1>1. toBroker \in Seq(Commands)
  BY DEF TypeOK
<1>2. Head(toBroker) \in Commands /\ Tail(toBroker) \in Seq(Commands)
      /\ Has(toBroker, Head(toBroker))
  BY <1>1, HasTail
<1>3. \A m \in Messages : Has(Tail(toBroker), PublishOf(m)) => OnWire(m)
  BY <1>1, HasTail DEF OnWire
<1>4. ASSUME Head(toBroker).kind = "publish"
      PROVE  /\ Head(toBroker).message \in Messages
             /\ Head(toBroker) = PublishOf(Head(toBroker).message)
  BY <1>2, <1>4 DEF Commands, PublishOf
<1> QED
  BY <1>2, <1>3, <1>4 DEF OnWire

\* The steps of a call after Register, and those of a worker.
\* Only Register gives ids, only Restart ends calls.
LEMMA CallFrame ==
  ASSUME TypeOK, NEW w \in Workers,
         Refuse(w) \/ Add(w) \/ CountAdd(w) \/ Get(w) \/ SendStep(w)
  PROVE  /\ UNCHANGED <<log, ids, pending, last, named, sequence, waiters, toClient, tasks,
                         panicked, callbacks>>
         /\ \A d \in Calls : pc'[d] = "gone" <=> pc[d] = "gone"
<1>1. pc \in [Workers -> {"idle", "register", "add", "count", "get", "sub",
                           "publish", "ok", "error", "closed", "gone"}]
      /\ Calls \subseteq Workers
  BY DEF TypeOK, Workers
<1>2. CASE Refuse(w) \/ Add(w) \/ CountAdd(w)
  BY <1>1, <1>2 DEF Refuse, MayCall, Add, CountAdd
<1>3. CASE Get(w) \/ SendStep(w)
  BY <1>1, <1>3 DEF Get, SendStep, CountSub, PublishOk, PublishError, Returned
<1> QED
  BY <1>2, <1>3

\* No step of a call or of a worker brings back what is answered.
LEMMA CallMoves ==
  ASSUME Basic, NEW m \in Messages, NEW c \in Calls, Refuse(c) \/ Add(c) \/ CountAdd(c)
  PROVE  Expecting(m)' => Expecting(m)
<1> USE DEF Basic
<1>1. pc \in [Workers -> {"idle", "register", "add", "count", "get", "sub",
                           "publish", "ok", "error", "closed", "gone"}]
      /\ queue \in Seq(Messages) /\ Calls \subseteq Workers
  BY DEF TypeOK, Workers
<1>2. CASE Refuse(c)
  BY <1>1, <1>2, SingleContent DEF Refuse, MayCall, Expecting, Adding, Held, OnWire
<1>3. CASE Add(c)
  <2>1. c \in Singles /\ c \in Messages /\ pc[c] = "add"
    BY <1>3 DEF Add, CallsOK, Calls, Messages
  <2>2. Has(queue', m) <=> Has(queue, m) \/ m = c
    BY <1>1, <1>3, <2>1, HasAppend DEF Add
  <2> QED
    BY <1>1, <1>3, <2>1, <2>2, SingleContent DEF Add, Expecting, Adding, Held, OnWire
<1>4. CASE CountAdd(c)
  BY <1>1, <1>4, SingleContent DEF CountAdd, Expecting, Adding, Held, OnWire
<1> QED
  BY <1>2, <1>3, <1>4

\* A worker takes messages from the channel to the wire.
LEMMA WorkerMoves ==
  ASSUME Basic, NEW m \in Messages, NEW w \in Workers, Get(w) \/ SendStep(w)
  PROVE  Expecting(m)' => Expecting(m)
<1> USE DEF Basic
<1>1. pc \in [Workers -> {"idle", "register", "add", "count", "get", "sub",
                           "publish", "ok", "error", "closed", "gone"}]
      /\ batch \in [Workers -> Seq(Messages)]
      /\ toBroker \in Seq(Commands)
      /\ Calls \subseteq Workers /\ Singles \subseteq Workers
  BY DEF TypeOK, Workers, Calls
<1>2. CASE Get(w)
  <2>1. pc[w] # "gone" /\ pc'= [pc EXCEPT ![w] = "sub"]
    BY <1>2 DEF Get
  <2>2. Has(batch'[w], m) => Has(queue, m)
    BY <1>1, <1>2 DEF Get
  <2>3. \A v \in Workers \ {w} : batch'[v] = batch[v]
    BY <1>1, <1>2 DEF Get
  <2>4. Held(m)' => Held(m) \/ Has(queue, m)
    BY <2>2, <2>3 DEF Held
  <2>5. ~Has(queue', m)
    BY <1>2, HasEmpty DEF Get
  <2>6. Adding(m)' => Adding(m)
    BY <1>1, <2>1 DEF Adding
  <2> QED
    BY <1>1, <1>2, <2>1, <2>4, <2>5, <2>6 DEF Get, Expecting, OnWire
<1>3. CASE CountSub(w)
  <2>1. pc[w] = "sub" /\ pc' = [pc EXCEPT ![w] = pc'[w]] /\ pc'[w] \notin {"add", "gone"}
    BY <1>1, <1>3 DEF CountSub, Returned
  <2>2. Adding(m)' => Adding(m)
    BY <1>1, <2>1 DEF Adding
  <2> QED
    BY <1>1, <1>3, <2>1, <2>2 DEF CountSub, Expecting, Held, OnWire
<1>4. CASE PublishOk(w) \/ PublishError(w)
  <2>1. pc[w] = "publish" /\ pc' = [pc EXCEPT ![w] = pc'[w]] /\ pc'[w] \notin {"add", "gone"}
    BY <1>1, <1>4 DEF PublishOk, PublishError, Returned
  <2>2. Adding(m)' => Adding(m)
    BY <1>1, <2>1 DEF Adding
  <2>3. Held(m)' => Held(m)
    <3>1. batch' = [batch EXCEPT ![w] = <<>>]
      BY <1>4 DEF PublishOk, PublishError
    <3> QED
      BY <1>1, <3>1, HasEmpty DEF Held
  <2>4. OnWire(m)' => OnWire(m) \/ Held(m)
    <3>1. CASE PublishOk(w)
      <4>1. batch[w] \in Seq(Messages)
        BY <1>1
      <4>2. OnWire(m)' => OnWire(m) \/ Has(batch[w], m)
        BY <1>1, <3>1, <4>1, PublishedBatch, HasConcat DEF PublishOk, OnWire
      <4> QED
        BY <4>2 DEF Held
    <3>2. CASE PublishError(w)
      BY <3>2 DEF PublishError, OnWire
    <3> QED
      BY <1>4, <3>1, <3>2
  <2>5. /\ queue' = queue /\ pending' = pending
        /\ log' = log /\ ids' = ids
    BY <1>4 DEF PublishOk, PublishError
  <2> QED
    BY <1>1, <2>1, <2>2, <2>3, <2>4, <2>5 DEF Expecting
<1> QED
  BY <1>2, <1>3, <1>4 DEF SendStep

\* Everybody else: what the application's calls own is left alone.
OtherStep ==
    \/ CloseBegin \/ CloseStep \/ ReadStep \/ BrokerStep \/ Disconnect
    \/ \E i \in 1 .. Len(tasks) : TaskStep(i)

\* They leave the calls and the accumulator alone.
LEMMA OtherFrame ==
  ASSUME OtherStep
  PROVE  UNCHANGED <<named, pc, batch, queue, count, locked, ids, sequence, builds>>
<1> USE DEF OtherStep
<1>1. CASE CloseBegin \/ CloseStep \/ Disconnect
  BY <1>1 DEF CloseBegin, CloseStep, CloseDelete, CloseClient, Disconnect
<1>2. CASE ReadStep
  BY <1>2 DEF ReadStep, ReadConfirm, ReadDeleted, ReadEnd
<1>3. CASE BrokerStep
  BY <1>3 DEF BrokerStep, BrokerPublish, BrokerReject, BrokerConfirm, BrokerDelete
<1>4. CASE \E i \in 1 .. Len(tasks) : TaskStep(i)
  BY <1>4 DEF TaskStep, Callback, Panic
<1> QED
  BY <1>1, <1>2, <1>3, <1>4

\* On the wire and at the broker, messages only move on.
LEMMA OtherMoves ==
  ASSUME Basic, NEW m \in Messages, OtherStep
  PROVE  /\ Expecting(m)' => Expecting(m)
         /\ Has(log', m) => Has(log, m) \/ OnWire(m)
<1> USE DEF Basic
<1>1. toBroker \in Seq(Commands) /\ pending \in Seq(Messages) /\ log \in Seq(Messages)
  BY DEF TypeOK
<1>2. SUFFICES /\ OnWire(m)' => OnWire(m)
               /\ Has(pending', m) => Has(pending, m) \/ OnWire(m)
               /\ Has(log', m) => Has(log, m) \/ OnWire(m)
  BY OtherFrame DEF Expecting, Adding, Held
<1>3. CASE UNCHANGED <<toBroker, pending, log>>
  BY <1>3 DEF OnWire
<1>4. CASE CloseDelete
  <2>1. [kind |-> "delete"] \in Commands /\ PublishOf(m) # [kind |-> "delete"]
    BY DEF Commands, PublishOf
  <2>2. Has(Append(toBroker, [kind |-> "delete"]), PublishOf(m)) => OnWire(m)
    BY <1>1, <2>1, HasAppend DEF OnWire
  <2> QED
    BY <1>4, <2>2 DEF CloseDelete, OnWire
<1>5. CASE CloseClient \/ Disconnect
  BY <1>5, HasEmpty DEF CloseClient, Disconnect, OnWire
<1>6. CASE BrokerPublish
  <2> DEFINE n == Head(toBroker).message
  <2>1. n \in Messages /\ OnWire(n) /\ (OnWire(m)' => OnWire(m))
    BY <1>6, HeadCommand DEF BrokerPublish, OnWire
  <2>2. pending' = Append(pending, n) /\ (log' = log \/ log' = Append(log, n))
    BY <1>6 DEF BrokerPublish
  <2> HIDE DEF n
  <2>3. Has(pending', m) => Has(pending, m) \/ m = n
    BY <1>1, <2>1, <2>2, HasAppend
  <2>4. Has(log', m) => Has(log, m) \/ m = n
    <3>1. Has(Append(log, n), m) => Has(log, m) \/ m = n
      BY <1>1, <2>1, HasAppend
    <3> QED
      BY <2>2, <3>1
  <2> QED
    BY <2>1, <2>3, <2>4
<1>7. CASE BrokerReject \/ BrokerDelete
  BY <1>7, HeadCommand DEF BrokerReject, BrokerDelete, OnWire
<1>8. CASE BrokerConfirm
  BY <1>1, <1>8, HasCut DEF BrokerConfirm, OnWire
<1>9. ASSUME CloseBegin \/ ReadStep \/ \E i \in 1 .. Len(tasks) : TaskStep(i)
      PROVE  UNCHANGED <<toBroker, pending, log>>
  BY <1>9 DEF CloseBegin, ReadStep, ReadConfirm, ReadDeleted, ReadEnd, TaskStep,
              Callback, Panic
<1> QED
  BY <1>3, <1>4, <1>5, <1>6, <1>7, <1>8, <1>9 DEF OtherStep, CloseStep, BrokerStep

-----------------------------------------------------------------------------
(* Types, points and ids.                                                  *)

Points == {"idle", "register", "add", "count", "get", "sub", "publish", "ok", "error",
           "closed", "gone"}

\* What nobody touches, and nobody newly expects, keeps its id.
LEMMA IdsKept ==
  ASSUME Basic, ids' = ids,
         \A d \in Calls : pc'[d] = "gone" <=> pc[d] = "gone",
         \A m \in Messages : /\ Expecting(m)' => Expecting(m)
                             /\ Has(log', m) => Has(log, m) \/ OnWire(m)
  PROVE  /\ IdsOK'
         /\ \A m \in Messages : Current(m)' <=> Current(m)
<1>1. \A m \in Messages : Current(m)' <=> Current(m)
  BY DEF Current
<1>2. \A m \in Messages : OnWire(m) => ids[m] # NoId
  BY DEF Basic, IdsOK, Expecting, Current
<1> QED
  BY <1>1, <1>2 DEF Basic, IdsOK

\* The initial state.
LEMMA BasicInit == Init => Basic
<1> SUFFICES ASSUME Init PROVE Basic
  OBVIOUS
<1>1. TypeOK
  <2>1. /\ queue \in Seq(Messages) /\ Len(queue) <= BatchSize
        /\ toBroker \in Seq(Commands) /\ toClient \in Seq(Frames)
        /\ tasks \in Seq([ok : BOOLEAN, ids : Seq(Nat)])
        /\ log \in Seq(Messages) /\ pending \in Seq(Messages)
        /\ batch \in [Workers -> Seq(Messages)]
    BY EmptySeq, ProducerAssumption DEF Init
  <2>2. count \in 0 .. UsizeMod - 1 /\ builds \in 1 .. MaxBuilds
    BY ProducerAssumption DEF Init
  <2> QED
    BY <2>1, <2>2 DEF Init, TypeOK
<1>2. \A m \in Messages : ~Expecting(m) /\ ~Has(log, m)
  <2> TAKE m \in Messages
  <2>1. ~Adding(m)
    BY SingleContent DEF Adding, Init
  <2>2. ~Held(m)
    BY HasEmpty DEF Held, Init
  <2> QED
    BY <2>1, <2>2, HasEmpty DEF Expecting, OnWire, Init
<1>3. CallsOK
  BY DEF Init, CallsOK, Workers
<1>4. LockOK
  BY ProducerAssumption DEF Init, LockOK
<1>5. AnswersOK
  BY DEF Init, AnswersOK
<1> QED
  BY <1>1, <1>2, <1>3, <1>4, <1>5 DEF Basic, IdsOK

\* A message is given its id and its waiter.
LEMMA BasicRegister ==
  ASSUME Basic, NEW c \in Calls, Register(c)
  PROVE  /\ Basic'
         /\ \A m \in Messages :
              /\ Current(m) \/ m = Fresh(c) => Current(m)'
              /\ Expecting(m)' => Expecting(m) \/ m = Fresh(c)
              /\ Current(m)' => Current(m) \/ m = Fresh(c)
<1> USE DEF Basic
<1> DEFINE f == Fresh(c)
<1>1. /\ Len(batch[c]) + 1 \in 1 .. Len(Content(c))
      /\ f \in Messages /\ Has(Content(c), f) /\ ids[f] = NoId
      /\ FreshId(c) \in Nat /\ pc[c] \in {"idle", "register"}
      /\ c \in Singles => f = c
  BY RegisterFacts, FreshFacts
<1>2. /\ ids' = [ids EXCEPT ![f] = FreshId(c)]
      /\ sequence' = IF OwnId[f] = NoId THEN sequence + 1 ELSE sequence
      /\ waiters' = WithWaiter(FreshId(c), f)
      /\ AfterRegister(c, f)
      /\ UNCHANGED <<accVars, closeVars, netVars, taskVars, brokerVars>>
  BY RegisterFacts
<1>3. c \in Workers /\ Calls \subseteq Workers /\ Timer \in Workers /\ c # Timer
  BY ProducerAssumption DEF Workers
<1>4. /\ pc \in [Workers -> Points] /\ batch \in [Workers -> Seq(Messages)]
      /\ ids \in [Messages -> Nat \cup {NoId}]
      /\ batch[c] \in Seq(Messages) /\ Len(batch[c]) \in Nat
  BY <1>3, LenProperties DEF TypeOK, Points
<1>5. Append(batch[c], f) \in Seq(Messages) /\ Len(Append(batch[c], f)) = Len(batch[c]) + 1
      /\ \A m : Has(Append(batch[c], f), m) <=> Has(batch[c], m) \/ m = f
  BY <1>1, <1>4, HasAppend
<1>6. /\ pc' \in [Workers -> Points] /\ batch' \in [Workers -> Seq(Messages)]
      /\ pc' = [pc EXCEPT ![c] = pc'[c]]
      /\ pc'[c] \in {"add", "publish", "register"}
      /\ batch' = [batch EXCEPT ![c] = batch'[c]]
      /\ c \in Singles => pc'[c] = "add" /\ batch'[c] = batch[c]
      /\ c \notin Singles => pc'[c] # "add" /\ batch'[c] = Append(batch[c], f)
  BY <1>2, <1>3, <1>4, <1>5 DEF AfterRegister, Points
<1> HIDE DEF f
<1>7. TypeOK'
  <2>1. waiters' \in SUBSET [id : Nat, message : Messages]
    BY <1>1, <1>2 DEF WithWaiter, TypeOK
  <2>2. sequence' \in Nat
    BY <1>2 DEF TypeOK
  <2>3. ids' \in [Messages -> Nat \cup {NoId}]
    BY <1>1, <1>2, <1>4
  <2> QED
    BY <1>2, <1>6, <2>1, <2>2, <2>3, SMTT(30) DEF TypeOK, Points
<1>8. CallsOK'
  <2>1. pc'[Timer] = pc[Timer] /\ batch'[Timer] = batch[Timer]
    BY <1>3, <1>4, <1>6
  <2>2. ASSUME NEW d \in Calls, d # c
        PROVE  /\ pc'[d] = pc[d] /\ batch'[d] = batch[d]
               /\ \A m \in Messages : Has(Content(d), m) => ids'[m] = ids[m]
    BY <1>1, <1>2, <1>3, <1>4, <1>6, <2>2, OneOwner
  <2>3. ASSUME NEW d \in Calls, d # c
        PROVE  /\ pc'[d] = "idle" => \A m \in Messages : Has(Content(d), m) => ids'[m] = NoId
               /\ d \in Batches => pc'[d] \notin {"add", "count", "get", "sub"}
               /\ pc'[d] \notin {"register", "sub", "publish"} => batch'[d] = <<>>
    BY <2>2, <2>3 DEF CallsOK
  <2>4. ASSUME NEW d \in Calls, d # c, pc'[d] = "register"
        PROVE  /\ d \in Batches /\ Len(batch'[d]) < Len(d)
               /\ \A i \in Len(batch'[d]) + 1 .. Len(d) : ids'[d[i]] = NoId
    <3>1. /\ d \in Batches /\ Len(batch'[d]) < Len(d)
          /\ \A i \in Len(batch'[d]) + 1 .. Len(d) : ids[d[i]] = NoId
      BY <2>2, <2>4 DEF CallsOK
    <3>2. Content(d) = d /\ Content(d) \in Seq(Messages)
      BY <3>1, SingleContent, ContentType DEF Content
    <3>3. Len(batch'[d]) \in Nat /\ Len(d) \in Nat
      BY <1>3, <1>6, <3>2, LenProperties
    <3>4. \A i \in 1 .. Len(d) : Has(Content(d), d[i]) /\ d[i] \in Messages
      BY <3>2, ElementOfSeq DEF Has
    <3> QED
      BY <2>2, <2>4, <3>1, <3>3, <3>4
  <2>5. ASSUME pc'[c] = "register"
        PROVE  /\ c \in Batches /\ Len(batch'[c]) < Len(c)
               /\ \A i \in Len(batch'[c]) + 1 .. Len(c) : ids'[c[i]] = NoId
    <3>1. c \notin Singles /\ c \in Batches /\ Content(c) = c
      BY <1>6, <2>5 DEF Calls, Content
    <3>2. Len(batch'[c]) = Len(batch[c]) + 1 /\ Len(batch[c]) + 1 # Len(c)
      BY <1>2, <1>3, <1>4, <1>5, <1>6, <2>5, <3>1 DEF AfterRegister
    <3>3. Len(c) \in Nat /\ c \in Seq(Messages)
      BY <3>1, ContentType
    <3>4. Len(batch'[c]) < Len(c)
      BY <1>1, <1>4, <3>1, <3>2, <3>3
    <3>5. ASSUME NEW i \in Len(batch'[c]) + 1 .. Len(c)
          PROVE  c[i] \in Messages /\ ids[c[i]] = NoId /\ c[i] # f
      <4>1. i \in 1 .. Len(c) /\ i # Len(batch[c]) + 1
        BY <1>4, <3>2, <3>3
      <4>2. c[i] # f
        BY <1>1, <3>1, <4>1, ContentApart DEF f, Fresh
      <4>3. c[i] \in Messages /\ Has(Content(c), c[i])
        BY <3>1, <3>3, <4>1, ElementOfSeq DEF Has
      <4>4. CASE pc[c] = "idle"
        BY <4>2, <4>3, <4>4 DEF CallsOK
      <4>5. CASE pc[c] = "register"
        <5>1. i \in Len(batch[c]) + 1 .. Len(c)
          BY <1>4, <3>2, <3>3
        <5> QED
          BY <4>2, <4>3, <4>5, <5>1 DEF CallsOK
      <4> QED
        BY <1>1, <4>4, <4>5
    <3> QED
      BY <1>2, <1>4, <3>1, <3>4, <3>5
  <2>6. /\ c \in Batches => pc'[c] \notin {"add", "count", "get", "sub"}
        /\ pc'[c] # "idle"
        /\ pc'[c] \notin {"register", "sub", "publish"} => batch'[c] = <<>>
    <3>1. c \in Batches => c \notin Singles
      BY SingleContent
    <3>2. c \in Singles => batch[c] = <<>>
      BY <1>1, SingleContent DEF CallsOK
    <3> QED
      BY <1>6, <3>1, <3>2
  <2> QED
    BY <2>1, <2>3, <2>4, <2>5, <2>6 DEF CallsOK
<1>9. LockOK'
  BY <1>1, <1>2, <1>3, <1>4, <1>6 DEF LockOK
<1>10. \A m \in Messages : Current(m) => Current(m)'
  BY <1>1, <1>2, <1>3, <1>4, <1>6 DEF Current
<1>11. \A m \in Messages : m = f => Current(m)'
  <2>1. SUFFICES ASSUME NEW m \in Messages, m = f PROVE Current(m)'
    OBVIOUS
  <2>2. \A d \in Calls : Has(Content(d), m) => d = c
    BY <1>1, <2>1, OneOwner
  <2>3. ids'[m] # NoId
    BY <1>1, <1>2, <1>4, <2>1 DEF NoId
  <2> QED
    BY <1>6, <2>2, <2>3 DEF Current
<1>12. \A m \in Messages : Expecting(m)' => Expecting(m) \/ m = f
  <2> TAKE m \in Messages
  <2>1. Adding(m)' => Adding(m) \/ m = f
    BY <1>1, <1>3, <1>4, <1>6, SingleContent DEF Adding
  <2>2. Held(m)' => Held(m) \/ m = f
    BY <1>3, <1>4, <1>5, <1>6, ZenonT(40) DEF Held
  <2> QED
    BY <1>2, <2>1, <2>2 DEF Expecting, OnWire
<1>13. \A m \in Messages : Current(m)' => Current(m) \/ m = f
  BY <1>1, <1>2, <1>3, <1>4, <1>6 DEF Current
<1>14. IdsOK'
  <2>1. \A m \in Messages : Has(log, m) => ids'[m] # NoId
    BY <1>1, <1>2, <1>4 DEF IdsOK, NoId
  <2> QED
    BY <1>2, <1>10, <1>11, <1>12, <2>1 DEF IdsOK
<1>15. AnswersOK'
  BY <1>2 DEF AnswersOK
<1> QED
  BY <1>7, <1>8, <1>9, <1>10, <1>11, <1>12, <1>13, <1>14, <1>15 DEF f

\* A call is refused, or adds its message.
LEMMA BasicCall ==
  ASSUME Basic, NEW c \in Calls, Refuse(c) \/ Add(c) \/ CountAdd(c)
  PROVE  Basic'
<1> USE DEF Basic
<1>1. c \in Workers /\ Calls \subseteq Workers /\ Timer \in Workers /\ c # Timer
  BY ProducerAssumption DEF Workers
<1>2. pc \in [Workers -> Points] /\ queue \in Seq(Messages) /\ Len(queue) \in Nat
  BY LenProperties DEF TypeOK, Points
<1>3. IdsOK'
  <2>1. /\ \A m \in Messages : Expecting(m)' => Expecting(m)
        /\ \A d \in Calls : pc'[d] = "gone" <=> pc[d] = "gone"
        /\ log' = log /\ ids' = ids
    BY <1>1, CallMoves, CallFrame
  <2> QED
    BY <2>1, IdsKept
<1>4. AnswersOK'
  BY DEF AnswersOK, Refuse, Add, CountAdd
<1>5. /\ pc' = [pc EXCEPT ![c] = pc'[c]]
      /\ pc[c] \in {"idle", "add", "count"}
      /\ pc'[c] \in {"closed", "count", "get", "ok"}
      /\ pc[c] # "idle" => c \notin Batches
      /\ pc[c] = "idle" => pc'[c] = "closed"
      /\ UNCHANGED <<batch, locked, waitVars, closeVars, netVars, taskVars, brokerVars>>
  BY <1>1, <1>2 DEF Refuse, MayCall, Add, CountAdd, CallsOK
<1>6. TypeOK'
  <2>1. pc' \in [Workers -> Points]
    BY <1>1, <1>2, <1>5 DEF Points
  <2>2. queue' \in Seq(Messages) /\ Len(queue') <= BatchSize
    <3>1. CASE Add(c)
      <4>1. c \in Messages
        BY <1>5, <3>1 DEF Add, Calls, Messages
      <4> QED
        BY <1>2, <3>1, <4>1, HasAppend, ProducerAssumption DEF Add
    <3>2. CASE Refuse(c) \/ CountAdd(c)
      BY <3>2 DEF Refuse, CountAdd, TypeOK
    <3> QED
      BY <3>1, <3>2
  <2>3. count' \in 0 .. UsizeMod - 1
    <3>1. CASE CountAdd(c)
      BY <3>1, ProducerAssumption DEF CountAdd, TypeOK
    <3>2. CASE Refuse(c) \/ Add(c)
      BY <3>2 DEF Refuse, Add, TypeOK
    <3> QED
      BY <3>1, <3>2
  <2> QED
    BY <1>5, <2>1, <2>2, <2>3, SMTT(30) DEF TypeOK, Points
<1>7. CallsOK'
  <2>1. batch[c] = <<>>
    BY <1>5 DEF CallsOK
  <2>2. \A d \in Workers : d # c => pc'[d] = pc[d]
    BY <1>1, <1>2, <1>5
  <2> QED
    BY <1>1, <1>5, <2>1, <2>2 DEF CallsOK
<1>8. LockOK'
  BY <1>1, <1>2, <1>5 DEF LockOK
<1> QED
  BY <1>3, <1>4, <1>6, <1>7, <1>8

\* A worker drains the channel and publishes its batch.
LEMMA BasicWorker ==
  ASSUME Basic, NEW w \in Workers, w # Timer => w \in Calls, Get(w) \/ SendStep(w)
  PROVE  Basic'
<1> USE DEF Basic
<1>1. Calls \subseteq Workers /\ Timer \in Workers /\ NoWorker \notin Workers
      /\ Timer \notin Calls
  BY ProducerAssumption DEF Workers
<1>2. /\ pc \in [Workers -> Points] /\ batch \in [Workers -> Seq(Messages)]
      /\ queue \in Seq(Messages) /\ toBroker \in Seq(Commands)
      /\ batch[w] \in Seq(Messages) /\ Len(batch[w]) \in Nat
  BY LenProperties DEF TypeOK, Points
<1>3. IdsOK'
  <2>1. /\ \A m \in Messages : Expecting(m)' => Expecting(m)
        /\ \A d \in Calls : pc'[d] = "gone" <=> pc[d] = "gone"
        /\ log' = log /\ ids' = ids
    BY WorkerMoves, CallFrame
  <2> QED
    BY <2>1, IdsKept
<1>4. AnswersOK'
  BY DEF AnswersOK, Get, SendStep, CountSub, PublishOk, PublishError
<1>5. CASE Get(w)
  <2>1. /\ pc[w] \in {"idle", "get"} /\ pc' = [pc EXCEPT ![w] = "sub"]
        /\ locked = NoWorker /\ locked' = w
        /\ batch' = [batch EXCEPT ![w] = queue] /\ queue' = <<>>
        /\ w = Timer \/ pc[w] = "get"
        /\ UNCHANGED <<count, waitVars, closeVars, netVars, taskVars, brokerVars>>
    BY <1>5 DEF Get
  <2>2. TypeOK'
    <3>1. pc' \in [Workers -> Points] /\ batch' \in [Workers -> Seq(Messages)]
      BY <1>2, <2>1 DEF Points
    <3>2. queue' \in Seq(Messages) /\ Len(queue') <= BatchSize
      BY <2>1, EmptySeq, ProducerAssumption
    <3> QED
      BY <2>1, <3>1, <3>2 DEF TypeOK, Points
  <2>3. CallsOK'
    <3>1. \A d \in Workers : d # w => pc'[d] = pc[d] /\ batch'[d] = batch[d]
      BY <1>2, <2>1
    <3>2. pc'[w] = "sub" /\ (w \in Calls => w \notin Batches)
      BY <1>1, <1>2, <2>1 DEF CallsOK
    <3>3. ids' = ids
      BY <2>1
    <3> QED
      BY <1>1, <3>1, <3>2, <3>3 DEF CallsOK
  <2>4. LockOK'
    BY <1>1, <1>2, <2>1 DEF LockOK
  <2> QED
    BY <1>3, <1>4, <2>2, <2>3, <2>4
<1>6. CASE CountSub(w)
  <2>1. /\ pc[w] = "sub" /\ pc' = [pc EXCEPT ![w] = pc'[w]]
        /\ pc'[w] = IF batch[w] = <<>> THEN Returned(w, "ok") ELSE "publish"
        /\ locked' = NoWorker /\ count' = (count - Len(batch[w])) % UsizeMod
        /\ UNCHANGED <<batch, queue, waitVars, closeVars, netVars, taskVars, brokerVars>>
    BY <1>2, <1>6 DEF CountSub
  <2>2. TypeOK'
    <3>1. pc' \in [Workers -> Points]
      BY <1>2, <2>1 DEF Points, Returned
    <3>2. count' \in 0 .. UsizeMod - 1
      BY <1>2, <2>1, ProducerAssumption DEF TypeOK
    <3> QED
      BY <2>1, <3>1, <3>2 DEF TypeOK, Points
  <2>3. CallsOK'
    <3>1. \A d \in Workers : d # w => pc'[d] = pc[d] /\ batch'[d] = batch[d]
      BY <1>2, <2>1
    <3>2. /\ ids' = ids /\ batch' = batch
          /\ w = Timer => pc'[w] \in {"idle", "publish"}
          /\ w # Timer => pc'[w] \in {"ok", "publish"}
          /\ pc'[w] # "publish" => batch[w] = <<>>
      BY <2>1 DEF Returned
    <3> QED
      BY <1>1, <3>1, <3>2 DEF CallsOK
  <2>4. LockOK'
    <3>1. pc'[w] # "sub"
      BY <2>1 DEF Returned
    <3> QED
      BY <1>1, <1>2, <2>1, <3>1 DEF LockOK
  <2> QED
    BY <1>3, <1>4, <2>2, <2>3, <2>4
<1>7. CASE PublishOk(w) \/ PublishError(w)
  <2>1. /\ pc[w] = "publish" /\ pc' = [pc EXCEPT ![w] = pc'[w]]
        /\ w = Timer => pc'[w] = "idle"
        /\ w # Timer => pc'[w] \in {"ok", "error"}
        /\ batch' = [batch EXCEPT ![w] = <<>>]
        /\ UNCHANGED <<accVars, waitVars, closeVars, toClient, taskVars, brokerVars>>
    BY <1>2, <1>7 DEF PublishOk, PublishError, Returned
  <2>2. TypeOK'
    <3>1. pc' \in [Workers -> Points] /\ batch' \in [Workers -> Seq(Messages)]
      BY <1>2, <2>1, EmptySeq DEF Points
    <3>2. toBroker' \in Seq(Commands)
      <4>1. PublishCommand(batch[w]) \in Seq(Commands)
        <5>1. \A i \in 1 .. Len(batch[w]) :
                 [kind |-> "publish", message |-> batch[w][i]] \in Commands
          BY <1>2, ElementOfSeq DEF Commands
        <5> QED
          BY <1>2, <5>1, IsASeq DEF PublishCommand
      <4>2. toBroker \o PublishCommand(batch[w]) \in Seq(Commands)
        BY <1>2, <4>1, ConcatProperties
      <4>3. toBroker' = toBroker \/ toBroker' = toBroker \o PublishCommand(batch[w])
        BY <1>7 DEF PublishOk, PublishError
      <4> QED
        BY <1>2, <4>2, <4>3
    <3> QED
      BY <2>1, <3>1, <3>2 DEF TypeOK, Points
  <2>3. CallsOK'
    <3>1. \A d \in Workers : d # w => pc'[d] = pc[d] /\ batch'[d] = batch[d]
      BY <1>2, <2>1
    <3>2. ids' = ids /\ batch'[w] = <<>>
      BY <1>2, <2>1
    <3> QED
      BY <1>1, <2>1, <3>1, <3>2 DEF CallsOK
  <2>4. LockOK'
    BY <1>1, <1>2, <2>1 DEF LockOK
  <2> QED
    BY <1>3, <1>4, <2>2, <2>3, <2>4
<1> QED
  BY <1>5, <1>6, <1>7 DEF SendStep

\* The ids of an answer.
LEMMA IdsOfType ==
  ASSUME Basic, NEW s \in Seq(Messages), \A i \in 1 .. Len(s) : ids[s[i]] # NoId
  PROVE  IdsOf(s) \in Seq(Nat) /\ Len(IdsOf(s)) = Len(s)
         /\ \A i \in 1 .. Len(s) : IdsOf(s)[i] = ids[s[i]]
<1>1. Len(s) \in Nat /\ \A i \in 1 .. Len(s) : s[i] \in Messages
  BY LenProperties, ElementOfSeq
<1>2. \A i \in 1 .. Len(s) : ids[s[i]] \in Nat
  BY <1>1 DEF Basic, TypeOK
<1>3. IdsOf(s) = [i \in 1 .. Len(s) |-> ids[s[i]]]
  BY DEF IdsOf
<1> QED
  BY <1>1, <1>2, <1>3, IsASeq, LenProperties

Tasks == [ok : BOOLEAN, ids : Seq(Nat)]

\* A handler task goes on with the ids it is left with, or ends.
LEMMA LeftTasks ==
  ASSUME TypeOK, NEW i \in 1 .. Len(tasks), NEW rest \in Seq(Nat), Left(i, rest)
  PROVE  /\ tasks' \in Seq(Tasks)
         /\ rest # <<>> =>
              /\ Len(tasks') = Len(tasks)
              /\ tasks'[i].ids = rest /\ tasks'[i].ok = tasks[i].ok
              /\ \A j \in 1 .. Len(tasks) : j # i => tasks'[j] = tasks[j]
         /\ rest = <<>> =>
              /\ Len(tasks') = Len(tasks) - 1
              /\ \A j \in 1 .. Len(tasks) - 1 :
                    tasks'[j] = tasks[IF j < i THEN j ELSE j + 1]
<1>1. tasks \in Seq(Tasks) /\ Len(tasks) \in Nat
  BY LenProperties DEF TypeOK, Tasks
<1>2. CASE rest = <<>>
  <2> DEFINE a == SubSeq(tasks, 1, i - 1)
             b == SubSeq(tasks, i + 1, Len(tasks))
  <2>1. tasks' = a \o b
    BY <1>2 DEF Left
  <2>2. /\ a \in Seq(Tasks) /\ Len(a) = i - 1
        /\ \A j \in 1 .. i - 1 : a[j] = tasks[j]
    <3>1. i - 1 \in 0 .. Len(tasks)
      BY <1>1
    <3>2. \A j \in 1 .. i - 1 : tasks[j] \in Tasks
      BY <1>1, ElementOfSeq
    <3>3. a \in Seq(Tasks) /\ Len(a) = i - 1
      BY <1>1, <3>1, HasCut
    <3> QED
      BY <1>1, <3>1, <3>2, <3>3, SubSeqProperties
  <2>3. /\ b \in Seq(Tasks) /\ Len(b) = Len(tasks) - i
        /\ \A j \in 1 .. Len(tasks) - i : b[j] = tasks[i + j]
    <3>1. i \in 0 .. Len(tasks)
      BY <1>1
    <3>2. \A j \in i + 1 .. Len(tasks) : tasks[j] \in Tasks
      BY <1>1, ElementOfSeq
    <3>3. b \in Seq(Tasks) /\ Len(b) = Len(tasks) - i
      BY <1>1, <3>1, HasCut
    <3>4. \A j \in 1 .. Len(tasks) - i : b[j] = tasks[i + j]
      BY <1>1, <3>2, SubSeqProperties
    <3> QED
      BY <3>3, <3>4
  <2> HIDE DEF a, b
  <2>4. Len(a) + Len(b) = Len(tasks) - 1
    BY <1>1, <2>2, <2>3
  <2>5. /\ a \o b \in Seq(Tasks) /\ Len(a \o b) = Len(a) + Len(b)
        /\ \A j \in 1 .. Len(a) + Len(b) :
              (a \o b)[j] = IF j <= Len(a) THEN a[j] ELSE b[j - Len(a)]
    BY <2>2, <2>3, ConcatProperties
  <2>6. ASSUME NEW j \in 1 .. Len(tasks) - 1
        PROVE  (a \o b)[j] = tasks[IF j < i THEN j ELSE j + 1]
    <3>1. j \in 1 .. Len(a) + Len(b) /\ j \in Int /\ i \in Int
      BY <1>1, <2>4
    <3>2. CASE j < i
      <4>1. j <= Len(a) /\ j \in 1 .. i - 1
        BY <1>1, <2>2, <3>1, <3>2
      <4>2. (a \o b)[j] = a[j]
        BY <2>5, <3>1, <4>1
      <4> QED
        BY <2>2, <3>2, <4>1, <4>2
    <3>3. CASE ~(j < i)
      <4>1. /\ ~(j <= Len(a)) /\ j - Len(a) \in 1 .. Len(tasks) - i
            /\ i + (j - Len(a)) = j + 1
        BY <1>1, <2>2, <3>1, <3>3
      <4>2. (a \o b)[j] = b[j - Len(a)]
        BY <2>5, <3>1, <4>1
      <4>3. b[j - Len(a)] = tasks[i + (j - Len(a))]
        BY <2>3, <4>1
      <4> QED
        BY <3>3, <4>1, <4>2, <4>3
    <3> QED
      BY <3>2, <3>3
  <2> QED
    BY <1>2, <2>1, <2>4, <2>5, <2>6
<1>3. CASE rest # <<>>
  <2>1. tasks' = [tasks EXCEPT ![i].ids = rest]
    BY <1>3 DEF Left
  <2>2. tasks[i] \in Tasks
    BY <1>1, ElementOfSeq
  <2>3. tasks' = [tasks EXCEPT ![i] = [tasks[i] EXCEPT !.ids = rest]]
    BY <2>1
  <2>4. [tasks[i] EXCEPT !.ids = rest] \in Tasks
    BY <2>2 DEF Tasks
  <2>5. tasks' \in Seq(Tasks) /\ Len(tasks') = Len(tasks)
    BY <1>1, <2>3, <2>4, ExceptSeq, LenProperties
  <2>6. \A j \in 1 .. Len(tasks) : tasks'[j] = IF j = i THEN [tasks[i] EXCEPT !.ids = rest]
                                               ELSE tasks[j]
    BY <1>1, <2>3, LenProperties
  <2>7. [tasks[i] EXCEPT !.ids = rest].ids = rest /\ [tasks[i] EXCEPT !.ids = rest].ok = tasks[i].ok
    BY <2>2 DEF Tasks
  <2> QED
    BY <1>3, <2>5, <2>6, <2>7
<1> QED
  BY <1>2, <1>3

\* A handler task at its next id.
LEMMA TaskFacts ==
  ASSUME Basic, NEW i \in 1 .. Len(tasks)
  PROVE  /\ tasks[i] \in Tasks /\ tasks[i].ids \in Seq(Nat) /\ tasks[i].ids # <<>>
         /\ Head(tasks[i].ids) \in Nat /\ Tail(tasks[i].ids) \in Seq(Nat)
         /\ tasks[i].ok \in BOOLEAN
<1>1. tasks[i] \in Tasks /\ tasks[i].ids # <<>>
  BY ElementOfSeq DEF Basic, TypeOK, AnswersOK, Tasks
<1>2. tasks[i].ids \in Seq(Nat) /\ tasks[i].ok \in BOOLEAN
  BY <1>1 DEF Tasks
<1> QED
  BY <1>1, <1>2, HeadTailProperties

\* What handler task i is left with after a step.
LEMMA TaskLeft ==
  ASSUME Basic, NEW i \in 1 .. Len(tasks), TaskStep(i)
  PROVE  \E rest \in {Tail(tasks[i].ids), <<>>} : rest \in Seq(Nat) /\ Left(i, rest)
BY TaskFacts, EmptySeq DEF TaskStep, Callback, Panic

\* The handler tasks.
LEMMA BasicTask ==
  ASSUME Basic, NEW i \in 1 .. Len(tasks), TaskStep(i)
  PROVE  TypeOK' /\ AnswersOK'
<1> USE DEF Basic
<1>1. PICK rest \in Seq(Nat) : Left(i, rest)
  BY TaskLeft
<1>2. tasks' \in Seq(Tasks)
  BY <1>1, LeftTasks
<1>3. \A j \in 1 .. Len(tasks') : tasks'[j].ids # <<>>
  <2>1. Len(tasks) \in Nat /\ \A j \in 1 .. Len(tasks) : tasks[j].ids # <<>>
    BY LenProperties DEF TypeOK, AnswersOK
  <2>2. CASE rest # <<>>
    BY <1>1, <2>1, <2>2, LeftTasks
  <2>3. CASE rest = <<>>
    <3>1. /\ Len(tasks') = Len(tasks) - 1
          /\ \A j \in 1 .. Len(tasks) - 1 : tasks'[j] = tasks[IF j < i THEN j ELSE j + 1]
      BY <1>1, <2>3, LeftTasks
    <3>2. \A j \in 1 .. Len(tasks) - 1 : (IF j < i THEN j ELSE j + 1) \in 1 .. Len(tasks)
      BY <2>1
    <3> QED
      BY <2>1, <3>1, <3>2
  <2> QED
    BY <2>2, <2>3
<1>4. /\ waiters' \in SUBSET [id : Nat, message : Messages]
      /\ callbacks' \in SUBSET [message : Messages, id : Nat, ok : BOOLEAN]
      /\ panicked' \in BOOLEAN
  <2>1. CASE Callback(i)
    <3>1. PICK w \in waiters : Call(i, w)
      BY <2>1 DEF Callback
    <3>2. w \in [id : Nat, message : Messages]
      BY DEF TypeOK
    <3>3. [message |-> w.message, id |-> w.id, ok |-> tasks[i].ok]
             \in [message : Messages, id : Nat, ok : BOOLEAN]
      BY <3>2, TaskFacts
    <3> QED
      BY <2>1, <3>1, <3>3 DEF Callback, Call, TypeOK
  <2>2. CASE Panic(i)
    BY <2>2 DEF Panic, TypeOK
  <2> QED
    BY <2>1, <2>2 DEF TaskStep
<1>5. UNCHANGED <<callVars, accVars, sequence, ids, closeVars, netVars, brokerVars>>
  BY DEF TaskStep, Callback, Panic
<1>6. TypeOK'
  BY <1>2, <1>4, <1>5, ZenonT(40) DEF TypeOK, Tasks
<1>7. AnswersOK'
  BY <1>3, <1>5 DEF AnswersOK
<1> QED
  BY <1>6, <1>7

\* The frame that the client reads next.
LEMMA HeadFrame ==
  ASSUME Basic, toClient # <<>>
  PROVE  /\ Head(toClient) \in Frames /\ Tail(toClient) \in Seq(Frames)
         /\ Len(toClient) \in Nat \ {0} /\ Head(toClient) = toClient[1]
         /\ Len(Tail(toClient)) = Len(toClient) - 1
         /\ \A j \in 1 .. Len(toClient) - 1 : Tail(toClient)[j] = toClient[j + 1]
         /\ Head(toClient).kind \in {"confirm", "error"} =>
              Head(toClient).ids \in Seq(Nat) /\ Head(toClient).ids # <<>>
<1>1. toClient \in Seq(Frames)
  BY DEF Basic, TypeOK
<1>2. /\ Head(toClient) \in Frames /\ Tail(toClient) \in Seq(Frames)
      /\ Len(toClient) \in Nat \ {0} /\ Head(toClient) = toClient[1]
      /\ Len(Tail(toClient)) = Len(toClient) - 1
      /\ \A j \in 1 .. Len(toClient) - 1 : Tail(toClient)[j] = toClient[j + 1]
  BY <1>1, HeadTailProperties, LenProperties, EmptySeq
<1>3. ASSUME Head(toClient).kind \in {"confirm", "error"}
      PROVE  Head(toClient).ids \in Seq(Nat) /\ Head(toClient).ids # <<>>
  <2>1. Head(toClient).ids \in Seq(Nat)
    BY <1>2, <1>3 DEF Frames
  <2>2. 1 \in 1 .. Len(toClient)
    BY <1>2
  <2> QED
    BY <1>2, <1>3, <2>1, <2>2 DEF Basic, AnswersOK
<1> QED
  BY <1>2, <1>3

\* The dispatcher task.
LEMMA BasicRead ==
  ASSUME Basic, ReadStep
  PROVE  TypeOK' /\ AnswersOK'
<1> USE DEF Basic
<1>1. CASE ReadEnd
  BY <1>1 DEF ReadEnd, TypeOK, AnswersOK
<1>2. CASE toClient # <<>>
  <2>1. \A j \in 1 .. Len(Tail(toClient)) :
           Tail(toClient)[j].kind \in {"confirm", "error"} => Tail(toClient)[j].ids # <<>>
    <3> TAKE j \in 1 .. Len(Tail(toClient))
    <3>1. j + 1 \in 1 .. Len(toClient) /\ Tail(toClient)[j] = toClient[j + 1]
      BY <1>2, HeadFrame
    <3> QED
      BY <3>1 DEF AnswersOK
  <2>2. CASE ReadConfirm
    <3> DEFINE t == [ok |-> Head(toClient).kind = "confirm", ids |-> Head(toClient).ids]
    <3>1. t \in Tasks /\ t.ids # <<>>
      BY <1>2, <2>2, HeadFrame DEF ReadConfirm, Tasks
    <3>2. /\ toClient' = Tail(toClient) /\ tasks' = Append(tasks, t)
          /\ UNCHANGED <<callVars, accVars, waitVars, closeVars, toBroker, panicked,
                         callbacks, brokerVars>>
      BY <2>2 DEF ReadConfirm
    <3> HIDE DEF t
    <3>3. /\ tasks' \in Seq(Tasks) /\ Len(tasks') = Len(tasks) + 1 /\ Len(tasks) \in Nat
          /\ \A j \in 1 .. Len(tasks) : tasks'[j] = tasks[j]
          /\ tasks'[Len(tasks) + 1] = t
      BY <3>1, <3>2, AppendProperties, LenProperties DEF TypeOK, Tasks
    <3>4. \A j \in 1 .. Len(tasks') : tasks'[j].ids # <<>>
      BY <3>1, <3>3 DEF AnswersOK
    <3>5. TypeOK'
      BY <1>2, <3>2, <3>3, HeadFrame, SMTT(30) DEF TypeOK, Tasks
    <3> QED
      BY <2>1, <3>2, <3>4, <3>5 DEF AnswersOK
  <2>3. CASE ReadDeleted
    <3>1. TypeOK'
      BY <1>2, <2>3, HeadFrame, SMTT(30) DEF ReadDeleted, TypeOK
    <3> QED
      BY <2>1, <2>3, <3>1 DEF ReadDeleted, AnswersOK
  <2> QED
    BY <1>1, <2>2, <2>3 DEF ReadStep
<1> QED
  BY <1>1, <1>2 DEF ReadStep, ReadConfirm, ReadDeleted

\* One more frame to the client.
LEMMA FrameAppended ==
  ASSUME Basic, NEW f \in Frames, toClient' = Append(toClient, f),
         f.kind \in {"confirm", "error"} => f.ids # <<>>, tasks' = tasks
  PROVE  /\ toClient' \in Seq(Frames) /\ AnswersOK'
         /\ Len(toClient) \in Nat /\ Len(toClient') = Len(toClient) + 1
         /\ \A j \in 1 .. Len(toClient) : toClient'[j] = toClient[j]
         /\ toClient'[Len(toClient) + 1] = f
<1>1. /\ toClient' \in Seq(Frames)
      /\ Len(toClient) \in Nat /\ Len(toClient') = Len(toClient) + 1
      /\ \A j \in 1 .. Len(toClient) : toClient'[j] = toClient[j]
      /\ toClient'[Len(toClient) + 1] = f
  BY AppendProperties, LenProperties DEF Basic, TypeOK
<1>2. AnswersOK'
  BY <1>1 DEF Basic, AnswersOK
<1> QED
  BY <1>1, <1>2

\* What the broker confirms with one frame: the first of the pending messages.
LEMMA ConfirmFrame ==
  ASSUME Basic, NEW n \in 1 .. Len(pending)
  PROVE  LET s == SubSeq(pending, 1, n)
         IN  /\ s \in Seq(Messages) /\ Len(s) = n /\ n \in Nat
             /\ \A i \in 1 .. n : s[i] = pending[i] /\ s[i] \in Messages /\ Has(pending, s[i])
             /\ IdsOf(s) \in Seq(Nat) /\ Len(IdsOf(s)) = n /\ IdsOf(s) # <<>>
             /\ \A i \in 1 .. n : IdsOf(s)[i] = ids[pending[i]]
<1> DEFINE s == SubSeq(pending, 1, n)
<1>1. pending \in Seq(Messages) /\ Len(pending) \in Nat
      /\ \A i \in 1 .. Len(pending) : pending[i] \in Messages
  BY LenProperties, ElementOfSeq DEF Basic, TypeOK
<1>2. s \in Seq(Messages) /\ Len(s) = n /\ n \in Nat
  BY <1>1, HasCut
<1>3. \A i \in 1 .. n : s[i] = pending[i]
  BY <1>1, <1>2, SubSeqProperties
<1>4. \A i \in 1 .. n : s[i] \in Messages /\ Has(pending, s[i]) /\ ids[s[i]] # NoId
  <2> TAKE i \in 1 .. n
  <2>1. i \in 1 .. Len(pending)
    BY <1>1, <1>2
  <2>2. s[i] \in Messages /\ Has(pending, s[i])
    BY <1>1, <1>3, <2>1 DEF Has
  <2> QED
    BY <2>2 DEF Basic, IdsOK, Expecting, Current
<1>5. IdsOf(s) \in Seq(Nat) /\ Len(IdsOf(s)) = n
      /\ \A i \in 1 .. n : IdsOf(s)[i] = ids[s[i]]
  BY <1>2, <1>4, IdsOfType
<1>6. IdsOf(s) # <<>>
  BY <1>2, <1>5
<1> QED
  BY <1>2, <1>3, <1>4, <1>5, <1>6

\* The error frame for one message.
LEMMA ErrorFrame ==
  ASSUME Basic, NEW m \in Messages, OnWire(m)
  PROVE  /\ IdsOf(<<m>>) \in Seq(Nat) /\ Len(IdsOf(<<m>>)) = 1 /\ IdsOf(<<m>>)[1] = ids[m]
         /\ IdsOf(<<m>>) # <<>>
<1>1. ids[m] # NoId
  BY DEF Basic, IdsOK, Expecting, Current
<1>2. <<m>> \in Seq(Messages) /\ Len(<<m>>) = 1 /\ <<m>>[1] = m
  OBVIOUS
<1> DEFINE s == <<m>>
<1> HIDE DEF s
<1>3. s \in Seq(Messages) /\ Len(s) = 1 /\ s[1] = m
  BY <1>2 DEF s
<1>4. IdsOf(s) \in Seq(Nat) /\ Len(IdsOf(s)) = Len(s)
      /\ \A i \in 1 .. Len(s) : IdsOf(s)[i] = ids[s[i]]
  <2>1. \A i \in 1 .. Len(s) : ids[s[i]] # NoId
    BY <1>1, <1>3
  <2> QED
    BY <1>3, <2>1, IdsOfType
<1>5. IdsOf(s) # <<>>
  <2>1. Len(IdsOf(s)) = 1 /\ Len(<<>>) = 0
    BY <1>3, <1>4
  <2> QED
    BY <2>1
<1> QED
  BY <1>3, <1>4, <1>5 DEF s

\* The broker.
LEMMA BasicBroker ==
  ASSUME Basic, BrokerStep
  PROVE  TypeOK' /\ AnswersOK'
<1> USE DEF Basic
<1>1. CASE BrokerPublish
  <2> DEFINE m == Head(toBroker).message
  <2>1. m \in Messages /\ OnWire(m) /\ toBroker' \in Seq(Commands)
    BY <1>1, HeadCommand DEF BrokerPublish
  <2>2. ids[m] \in Nat
    BY <2>1 DEF TypeOK, IdsOK, Expecting, Current
  <2>3. pending' \in Seq(Messages) /\ log' \in Seq(Messages)
    <3>1. pending \in Seq(Messages) /\ log \in Seq(Messages)
      BY DEF TypeOK
    <3>2. pending' = Append(pending, m) /\ (log' = log \/ log' = Append(log, m))
      BY <1>1 DEF BrokerPublish
    <3> HIDE DEF m
    <3>3. Append(pending, m) \in Seq(Messages) /\ Append(log, m) \in Seq(Messages)
      BY <2>1, <3>1, AppendProperties
    <3> QED
      BY <3>1, <3>2, <3>3
  <2>4. last' \in Nat \cup {-1}
    BY <1>1, <2>2 DEF BrokerPublish, TypeOK
  <2>5. UNCHANGED <<callVars, accVars, waitVars, closeVars, toClient, taskVars, deleted>>
    BY <1>1 DEF BrokerPublish
  <2> QED
    BY <2>1, <2>3, <2>4, <2>5, SMTT(30) DEF TypeOK, AnswersOK
<1>2. CASE BrokerReject
  <2> DEFINE m == Head(toBroker).message
             f == [kind |-> "error", ids |-> IdsOf(<<m>>)]
  <2>1. m \in Messages /\ OnWire(m) /\ toBroker' \in Seq(Commands)
    BY <1>2, HeadCommand DEF BrokerReject
  <2>2. f \in Frames /\ f.ids # <<>>
    BY <2>1, ErrorFrame DEF Frames
  <2>3. toClient' = Append(toClient, f)
        /\ UNCHANGED <<callVars, accVars, waitVars, closeVars, taskVars, brokerVars>>
    BY <1>2 DEF BrokerReject
  <2>4. toClient' \in Seq(Frames) /\ AnswersOK'
    BY <2>2, <2>3, FrameAppended
  <2> QED
    BY <2>1, <2>3, <2>4 DEF TypeOK
<1>3. CASE BrokerConfirm
  <2>1. PICK n \in 1 .. Len(pending) :
           /\ toClient' = Append(toClient, [kind |-> "confirm",
                                            ids |-> IdsOf(SubSeq(pending, 1, n))])
           /\ pending' = SubSeq(pending, n + 1, Len(pending))
    BY <1>3 DEF BrokerConfirm
  <2> DEFINE f == [kind |-> "confirm", ids |-> IdsOf(SubSeq(pending, 1, n))]
  <2>2. f \in Frames /\ f.ids # <<>>
    BY ConfirmFrame DEF Frames
  <2>3. UNCHANGED <<callVars, accVars, waitVars, closeVars, toBroker, taskVars, log,
                    last, deleted>>
    BY <1>3 DEF BrokerConfirm
  <2>4. toClient' \in Seq(Frames) /\ AnswersOK'
    BY <2>1, <2>2, <2>3, FrameAppended
  <2>5. pending' \in Seq(Messages)
    BY <2>1, HasCut, LenProperties DEF TypeOK
  <2> QED
    BY <2>3, <2>4, <2>5 DEF TypeOK
<1>4. CASE BrokerDelete
  <2>1. [kind |-> "deleted"] \in Frames /\ [kind |-> "refused"] \in Frames
    BY DEF Frames
  <2>2. /\ toClient' = Append(toClient, [kind |-> "deleted"])
           \/ toClient' = Append(toClient, [kind |-> "refused"])
        /\ deleted' \in BOOLEAN
        /\ toBroker' = Tail(toBroker) /\ toBroker # <<>>
        /\ UNCHANGED <<callVars, accVars, waitVars, closeVars, taskVars, log, last, pending>>
    BY <1>4 DEF BrokerDelete, TypeOK
  <2>3. toClient' \in Seq(Frames) /\ AnswersOK'
    BY <2>1, <2>2, FrameAppended
  <2>4. toBroker' \in Seq(Commands)
    BY <2>2, HeadCommand
  <2> QED
    BY <2>2, <2>3, <2>4, SMTT(30) DEF TypeOK
<1> QED
  BY <1>1, <1>2, <1>3, <1>4 DEF BrokerStep

\* The connection and Producer::close.
LEMMA BasicClose ==
  ASSUME Basic, CloseBegin \/ CloseStep \/ Disconnect
  PROVE  TypeOK' /\ AnswersOK'
<1> USE DEF Basic
<1>1. CASE CloseBegin
  BY <1>1 DEF CloseBegin, TypeOK, AnswersOK
<1>2. CASE CloseDelete
  <2>1. Append(toBroker, [kind |-> "delete"]) \in Seq(Commands)
    <3>1. [kind |-> "delete"] \in Commands
      BY DEF Commands
    <3> QED
      BY <3>1, AppendProperties DEF TypeOK
  <2>2. toBroker' \in Seq(Commands) /\ closer' \in {"waiting", "error"}
    BY <1>2, <2>1 DEF CloseDelete, TypeOK
  <2> QED
    BY <1>2, <2>2 DEF CloseDelete, TypeOK, AnswersOK
<1>3. CASE CloseClient
  <2>1. toBroker' \in Seq(Commands) /\ closer' \in {"ok", "error"}
    BY <1>3, EmptySeq DEF CloseClient
  <2> QED
    BY <1>3, <2>1 DEF CloseClient, TypeOK, AnswersOK
<1>4. CASE Disconnect
  <2>1. PICK n \in 0 .. Len(toClient) : toClient' = SubSeq(toClient, 1, n)
    BY <1>4 DEF Disconnect
  <2>2. toClient \in Seq(Frames) /\ Len(toClient) \in Nat
        /\ \A i \in 1 .. n : toClient[i] \in Frames
    BY LenProperties, ElementOfSeq DEF TypeOK
  <2>3. toClient' \in Seq(Frames) /\ Len(toClient') = n
        /\ \A i \in 1 .. n : toClient'[i] = toClient[i]
    BY <2>1, <2>2, HasCut, SubSeqProperties
  <2>4. toBroker' \in Seq(Commands)
    BY <1>4, EmptySeq DEF Disconnect
  <2>5. AnswersOK'
    BY <1>4, <2>2, <2>3 DEF Disconnect, AnswersOK
  <2> QED
    BY <1>4, <2>3, <2>4, <2>5, ZenonT(40) DEF Disconnect, TypeOK
<1> QED
  BY <1>1, <1>2, <1>3, <1>4 DEF CloseStep

\* All of these leave the calls where they are.
LEMMA BasicOther ==
  ASSUME Basic, OtherStep
  PROVE  Basic' /\ \A m \in Messages : Current(m)' <=> Current(m)
<1>1. TypeOK' /\ AnswersOK'
  BY BasicTask, BasicRead, BasicBroker, BasicClose DEF OtherStep
<1>2. UNCHANGED <<pc, batch, locked, ids>>
  BY OtherFrame
<1>3. CallsOK' /\ LockOK'
  BY <1>2 DEF Basic, CallsOK, LockOK
<1>4. IdsOK' /\ \A m \in Messages : Current(m)' <=> Current(m)
  BY <1>2, OtherMoves, IdsKept
<1> QED
  BY <1>1, <1>3, <1>4 DEF Basic

\* A new process starts with nothing under way.
LEMMA BasicRestart ==
  ASSUME Basic, Restart
  PROVE  Basic' /\ \A m \in Messages : ~Expecting(m)' /\ ~Current(m)'
<1> USE DEF Basic
<1>1. Calls \subseteq Workers /\ Timer \in Workers /\ NoWorker \notin Workers
      /\ Timer \notin Calls
  BY ProducerAssumption DEF Workers
<1>2. /\ pc' = [w \in Workers |-> IF w = Timer \/ pc[w] = "idle" THEN "idle" ELSE "gone"]
      /\ batch' = [w \in Workers |-> <<>>]
      /\ queue' = <<>> /\ locked' = NoWorker /\ toBroker' = <<>> /\ pending' = <<>>
      /\ toClient' = <<>> /\ tasks' = <<>> /\ waiters' = {}
      /\ UNCHANGED <<ids, log, last>>
  BY DEF Restart
<1>3. TypeOK'
  <2>1. /\ queue' \in Seq(Messages) /\ Len(queue') <= BatchSize
        /\ toBroker' \in Seq(Commands) /\ toClient' \in Seq(Frames)
        /\ tasks' \in Seq([ok : BOOLEAN, ids : Seq(Nat)])
        /\ pending' \in Seq(Messages)
        /\ batch' \in [Workers -> Seq(Messages)]
    BY <1>2, EmptySeq, ProducerAssumption
  <2>2. count' \in 0 .. UsizeMod - 1 /\ builds' \in 1 .. MaxBuilds
    BY ProducerAssumption DEF Restart, TypeOK
  <2>3. sequence' \in Nat
    BY DEF Restart, FirstSequence, QueryPublisherSequence, TypeOK
  <2>4. pc' \in [Workers -> Points]
    BY <1>2 DEF Points
  <2> QED
    BY <1>2, <2>1, <2>2, <2>3, <2>4 DEF Restart, TypeOK, Points
<1>4. \A m \in Messages : ~Expecting(m)'
  <2> TAKE m \in Messages
  <2>1. ~Adding(m)'
    BY <1>2, SingleContent DEF Adding
  <2>2. ~Held(m)'
    BY <1>2, HasEmpty DEF Held
  <2> QED
    BY <1>2, <2>1, <2>2, HasEmpty DEF Expecting, OnWire
<1>5. \A m \in Messages : ~Current(m)'
  <2> SUFFICES ASSUME NEW m \in Messages, ids[m] # NoId
               PROVE  \E c \in Calls : Has(Content(c), m) /\ pc'[c] = "gone"
    BY <1>2 DEF Current
  <2>1. PICK c \in Calls : Has(Content(c), m)
    <3>1. CASE m \in Singles
      BY <3>1, SingleContent
    <3>2. CASE m \notin Singles
      <4>1. PICK b \in Batches : \E i \in 1 .. Len(b) : b[i] = m
        BY <3>2 DEF Messages, BatchMessages
      <4>2. b \in Calls /\ Content(b) = b
        BY SingleContent DEF Calls, Content
      <4> QED
        BY <4>1, <4>2 DEF Has
    <3> QED
      BY <3>1, <3>2
  <2>2. pc[c] # "idle"
    BY <2>1 DEF CallsOK
  <2> QED
    BY <1>1, <1>2, <2>1, <2>2
<1>6. CallsOK'
  BY <1>1, <1>2 DEF CallsOK
<1>7. LockOK'
  BY <1>1, <1>2 DEF LockOK
<1>8. AnswersOK'
  BY <1>2 DEF AnswersOK
<1>9. IdsOK'
  BY <1>2, <1>4 DEF IdsOK
<1> QED
  BY <1>3, <1>4, <1>5, <1>6, <1>7, <1>8, <1>9

\* The steps of Next, as the proofs tell them apart.
LEMMA NextCases ==
  ASSUME Next
  PROVE  \/ \E c \in Calls : Register(c)
         \/ \E c \in Calls : Refuse(c) \/ Add(c) \/ CountAdd(c)
         \/ \E w \in Workers : Get(w) \/ SendStep(w)
         \/ OtherStep
         \/ Restart
BY DEF Next, CallStep, TimerStep, Workers, OtherStep

\* Basic is inductive.
LEMMA BasicNext == Basic /\ [Next]_vars => Basic'
<1> SUFFICES ASSUME Basic, [Next]_vars PROVE Basic'
  OBVIOUS
<1>1. CASE Next
  <2>1. \A w \in Workers : w # Timer => w \in Calls
    BY DEF Workers
  <2> QED
    BY <1>1, <2>1, NextCases, BasicRegister, BasicCall, BasicWorker, BasicOther, BasicRestart
<1>2. CASE UNCHANGED vars
  BY <1>2, SMTT(30) DEF vars, Basic, TypeOK, CallsOK, LockOK, IdsOK, AnswersOK, Expecting, Current,
              Adding, Held, OnWire
<1> QED
  BY <1>1, <1>2

\* The producer's invariant.
LEMMA BasicAlways == Spec => []Basic
BY BasicInit, BasicNext, PTL DEF Spec

\* The accumulator's channel never holds more than BatchSize messages, message_count
\* stays within its width, and every id that is confirmed is a number that was given:
\* TypeOK, for any calls, batch size, counter width and number of processes.
THEOREM TypeCorrect == Spec => []TypeOK
<1>1. Basic => TypeOK
  BY DEF Basic
<1> QED
  BY <1>1, BasicAlways, PTL

-----------------------------------------------------------------------------
(* message_count.                                                          *)

\* A wrapped number differs from it by a multiple of the width.
LEMMA Wrapped ==
  ASSUME NEW a \in Int, NEW n \in Nat \ {0}
  PROVE  \E q \in Int : a % n = a + q * n
<1>1. a = n * (a \div n) + (a % n) /\ a \div n \in Int /\ a % n \in Int
  OBVIOUS
<1>2. (0 - (a \div n)) * n = 0 - n * (a \div n)
  BY <1>1
<1> DEFINE q == 0 - (a \div n)
<1>3. a % n = a + q * n /\ q \in Int
  BY <1>1, <1>2
<1> HIDE DEF q
<1> QED
  BY <1>3

\* Multiples add up.
LEMMA Multiples ==
  ASSUME NEW k \in Int, NEW q \in Int, NEW n \in Nat
  PROVE  (k + q) * n = k * n + q * n
OBVIOUS

\* Two numbers below the width that differ by a multiple of it are the same.
LEMMA SmallMultiple ==
  ASSUME NEW k \in Int, NEW n \in Nat, NEW a \in 0 .. n - 1, NEW b \in 0 .. n - 1,
         a = b + k * n
  PROVE  a = b
<1>1. k >= 1 => k * n >= n
  OBVIOUS
<1>2. k <= -1 => k * n <= 0 - n
  OBVIOUS
<1>3. k = 0 => k * n = 0
  OBVIOUS
<1>4. k * n \in Int
  OBVIOUS
<1> QED
  BY <1>1, <1>2, <1>3, <1>4

\* How many calls are between adding and counting, and how many messages were taken.
LEMMA BufferedType ==
  ASSUME Basic
  PROVE  /\ IsFiniteSet(Counting) /\ Cardinality(Counting) \in Nat
         /\ Taken \in Nat /\ Len(queue) \in Nat /\ Buffered \in Int /\ count \in Int
         /\ UsizeMod \in Nat \ {0}
<1>1. IsFiniteSet(Counting) /\ Cardinality(Counting) \in Nat
  BY ProducerAssumption, FS_Subset, FS_CardinalityType DEF Counting
<1>2. Taken \in Nat /\ Len(queue) \in Nat
  BY LenProperties DEF Basic, TypeOK, Taken
<1>3. count \in Int /\ UsizeMod \in Nat \ {0}
  BY ProducerAssumption DEF Basic, TypeOK
<1> QED
  BY <1>1, <1>2, <1>3 DEF Buffered

\* The counter follows the channel: by the same number, or not at all.
LEMMA CountFollows ==
  ASSUME Basic, CountOK, NEW d \in Int, Buffered' = Buffered + d,
         count' = (count + d) % UsizeMod \/ (d = 0 /\ count' = count)
  PROVE  CountOK'
<1>1. PICK k \in Int : count = Buffered + k * UsizeMod
  BY DEF CountOK
<1>2. count \in Int /\ Buffered \in Int /\ UsizeMod \in Nat \ {0}
  BY BufferedType
<1>3. CASE d = 0 /\ count' = count
  BY <1>1, <1>2, <1>3 DEF CountOK
<1>4. CASE count' = (count + d) % UsizeMod
  <2>1. count + d \in Int
    BY <1>2
  <2>2. PICK q \in Int : (count + d) % UsizeMod = (count + d) + q * UsizeMod
    BY <1>2, <2>1, Wrapped
  <2>3. (k + q) * UsizeMod = k * UsizeMod + q * UsizeMod
    BY <1>2, Multiples
  <2>4. k * UsizeMod \in Int /\ q * UsizeMod \in Int /\ k + q \in Int
    BY <1>2
  <2>5. count' = Buffered' + (k + q) * UsizeMod
    BY <1>1, <1>2, <1>4, <2>2, <2>3, <2>4
  <2> QED
    BY <2>4, <2>5 DEF CountOK
<1> QED
  BY <1>3, <1>4

\* CountOK is kept by every step.
LEMMA CountNext == Basic /\ CountOK /\ [Next]_vars => CountOK'
<1> SUFFICES ASSUME Basic, CountOK, [Next]_vars PROVE CountOK'
  OBVIOUS
<1>0. /\ Calls \subseteq Workers /\ NoWorker \notin Workers
      /\ pc \in [Workers -> Points] /\ batch \in [Workers -> Seq(Messages)]
      /\ locked \in Workers \cup {NoWorker}
      /\ queue \in Seq(Messages)
      /\ \A w \in Workers : pc[w] = "sub" <=> locked = w
  BY ProducerAssumption DEF Basic, TypeOK, LockOK, Workers, Points
<1>1. /\ IsFiniteSet(Counting) /\ Cardinality(Counting) \in Nat
      /\ Taken \in Nat /\ Len(queue) \in Nat /\ count \in Int
  BY BufferedType
<1>2. ASSUME Len(queue') = Len(queue), Counting' = Counting, Taken' = Taken, count' = count
      PROVE  CountOK'
  <2>1. Buffered' = Buffered + 0
    BY <1>1, <1>2 DEF Buffered
  <2> QED
    BY <1>2, <2>1, CountFollows
<1>3. ASSUME NEW c \in Calls, Register(c) PROVE CountOK'
  <2>1. /\ pc[c] \in {"idle", "register"}
        /\ pc' = [pc EXCEPT ![c] = pc'[c]] /\ pc'[c] \in {"add", "publish", "register"}
        /\ batch' = [batch EXCEPT ![c] = batch'[c]]
        /\ queue' = queue /\ count' = count /\ locked' = locked
    BY <1>0, <1>3, RegisterFacts, FreshFacts DEF AfterRegister
  <2>2. Counting' = Counting
    BY <1>0, <2>1 DEF Counting
  <2>3. Taken' = Taken
    BY <1>0, <2>1 DEF Taken
  <2> QED
    BY <1>2, <2>1, <2>2, <2>3
<1>4. ASSUME NEW c \in Calls, Refuse(c) PROVE CountOK'
  <2>1. Counting' = Counting
    BY <1>0, <1>4 DEF Counting, Refuse, MayCall
  <2> QED
    BY <1>2, <1>4, <2>1 DEF Refuse, Taken
<1>5. ASSUME NEW c \in Calls, Add(c) PROVE CountOK'
  <2>1. Len(queue') = Len(queue) + 1
    <3>1. c \in Messages
      BY <1>5 DEF Add, Basic, CallsOK, Calls, Messages
    <3> QED
      BY <1>0, <1>5, <3>1, HasAppend DEF Add
  <2>2. c \notin Counting /\ Counting' = Counting \cup {c}
    BY <1>0, <1>5 DEF Counting, Add
  <2>3. Cardinality(Counting') = Cardinality(Counting) + 1
    BY <1>1, <2>2, FS_AddElement
  <2>4. Buffered' = Buffered + 0
    BY <1>1, <1>5, <2>1, <2>3 DEF Buffered, Add, Taken
  <2> QED
    BY <1>5, <2>4, CountFollows DEF Add
<1>6. ASSUME NEW c \in Calls, CountAdd(c) PROVE CountOK'
  <2>1. c \in Counting /\ Counting' = Counting \ {c}
    BY <1>0, <1>6 DEF Counting, CountAdd
  <2>2. Cardinality(Counting') = Cardinality(Counting) - 1
    BY <1>1, <2>1, FS_RemoveElement
  <2>3. Buffered' = Buffered + 1
    BY <1>1, <1>6, <2>2 DEF Buffered, CountAdd, Taken
  <2> QED
    BY <1>6, <2>3, CountFollows DEF CountAdd
<1>7. ASSUME NEW w \in Workers, Get(w) PROVE CountOK'
  <2>1. Counting' = Counting
    BY <1>0, <1>7 DEF Counting, Get
  <2>2. Len(queue') = 0 /\ Taken = 0 /\ Taken' = Len(queue)
    BY <1>0, <1>7 DEF Get, Taken
  <2>3. Buffered' = Buffered + 0
    BY <1>1, <2>1, <2>2 DEF Buffered
  <2> QED
    BY <1>7, <2>3, CountFollows DEF Get
<1>8. ASSUME NEW w \in Workers, CountSub(w) PROVE CountOK'
  <2> DEFINE d == 0 - Len(batch[w])
  <2>1. Counting' = Counting
    BY <1>0, <1>8 DEF Counting, CountSub, Returned
  <2>2. Len(queue') = Len(queue) /\ Taken = Len(batch[w]) /\ Taken' = 0
    BY <1>0, <1>8 DEF CountSub, Taken
  <2>3. Buffered' = Buffered + d /\ d \in Int
    BY <1>1, <2>1, <2>2 DEF Buffered
  <2>4. count - Len(batch[w]) = count + d
    BY <1>1, <2>2
  <2>5. count' = (count + d) % UsizeMod
    BY <1>8, <2>4 DEF CountSub
  <2> QED
    BY <2>3, <2>5, CountFollows
<1>9. ASSUME NEW w \in Workers, PublishOk(w) \/ PublishError(w) PROVE CountOK'
  <2>1. Counting' = Counting
    BY <1>0, <1>9 DEF Counting, PublishOk, PublishError, Returned
  <2>2. pc[w] = "publish" /\ batch' = [batch EXCEPT ![w] = <<>>] /\ locked' = locked
        /\ queue' = queue /\ count' = count
    BY <1>9 DEF PublishOk, PublishError
  <2>3. Taken' = Taken
    BY <1>0, <2>2 DEF Taken
  <2> QED
    BY <1>2, <2>1, <2>2, <2>3
<1>10. CASE OtherStep
  <2>1. UNCHANGED <<pc, batch, queue, count, locked>>
    BY <1>10, OtherFrame
  <2> QED
    BY <1>2, <2>1 DEF Counting, Taken
<1>11. CASE Restart
  <2>1. /\ pc' = [w \in Workers |-> IF w = Timer \/ pc[w] = "idle" THEN "idle" ELSE "gone"]
        /\ queue' = <<>> /\ count' = 0 /\ locked' = NoWorker
    BY <1>11 DEF Restart
  <2>2. Counting' = {}
    BY <1>0, <2>1 DEF Counting
  <2>3. Cardinality(Counting') = 0
    BY <2>2, FS_EmptySet
  <2>4. count' = Buffered' + 0 * UsizeMod
    BY <1>1, <2>1, <2>3, BufferedType DEF Buffered, Taken
  <2> QED
    BY <2>4 DEF CountOK
<1>12. CASE UNCHANGED vars
  BY <1>2, <1>12 DEF vars, Counting, Taken
<1> QED
  BY <1>3, <1>4, <1>5, <1>6, <1>7, <1>8, <1>9, <1>10, <1>11, <1>12, NextCases DEF SendStep

\* While no call is between add and its fetch_add and no worker between get and its
\* fetch_sub, message_count is the number of buffered messages, although both wrap
\* around and many tasks interleave: CountIsQueue.
THEOREM CounterCorrect == Spec => []CountIsQueue
<1>1. Init => CountOK
  <2> SUFFICES ASSUME Init PROVE CountOK
    OBVIOUS
  <2>1. Counting = {}
    BY DEF Init, Counting, Workers
  <2>2. Cardinality(Counting) = 0
    BY <2>1, FS_EmptySet
  <2>3. count = Buffered + 0 * UsizeMod
    BY <2>2, ProducerAssumption DEF Init, Buffered, Taken
  <2> QED
    BY <2>3 DEF CountOK
<1>2. Basic /\ CountOK => CountIsQueue
  <2> SUFFICES ASSUME Basic, CountOK, \A w \in Workers : pc[w] \notin {"count", "sub"}
               PROVE  count = Len(queue)
    BY DEF CountIsQueue
  <2>1. PICK k \in Int : count = Buffered + k * UsizeMod
    BY DEF CountOK
  <2>2. Counting = {}
    BY DEF Counting, Workers
  <2>3. locked = NoWorker
    BY DEF Basic, LockOK, TypeOK
  <2>4. Cardinality(Counting) = 0 /\ Taken = 0
    BY <2>2, <2>3, FS_EmptySet DEF Taken
  <2>5. Buffered = Len(queue)
    BY <2>4, BufferedType DEF Buffered
  <2>6. Len(queue) \in 0 .. UsizeMod - 1 /\ count \in 0 .. UsizeMod - 1 /\ UsizeMod \in Nat
    BY ProducerAssumption, BufferedType DEF Basic, TypeOK
  <2> QED
    BY <2>1, <2>5, <2>6, SmallMultiple
<1> QED
  BY <1>1, <1>2, BasicAlways, CountNext, PTL DEF Spec

-----------------------------------------------------------------------------
(* A message is at one place.                                              *)

\* A new message is in its call, or in its call's batch.
LEMMA OnceRegister ==
  ASSUME Basic, OnceOK, NEW c \in Calls, Register(c), NEW m \in Messages
  PROVE  AtOnePlace(m)'
<1> USE DEF Basic
<1> DEFINE f == Fresh(c)
<1>1. /\ f \in Messages /\ ~Expecting(f) /\ ~Has(log, f) /\ (c \in Singles => f = c)
      /\ pc[c] \in {"idle", "register"}
      /\ UNCHANGED <<accVars, closeVars, netVars, taskVars, brokerVars>>
  BY RegisterFacts, FreshFacts
<1>2. /\ c \in Workers /\ Singles \subseteq Workers
      /\ pc \in [Workers -> Points] /\ batch \in [Workers -> Seq(Messages)]
  BY DEF TypeOK, Points, Workers, Calls
<1>3. /\ pc' = [pc EXCEPT ![c] = pc'[c]]
      /\ \A w \in Workers : w # c => batch'[w] = batch[w]
      /\ c \in Singles => pc'[c] = "add" /\ batch'[c] = batch[c]
      /\ c \notin Singles => pc'[c] # "add" /\ batch'[c] = Append(batch[c], f)
  BY <1>2, RegisterFacts DEF AfterRegister
<1> HIDE DEF f
<1>4. ~Adding(f) /\ ~Has(queue, f) /\ ~OnWire(f) /\ ~Has(pending, f) /\ ~Has(log, f)
      /\ \A w \in Workers : ~Has(batch[w], f)
  BY <1>1 DEF Expecting, Held
<1>5. Adding(m)' <=> Adding(m) \/ (m = f /\ c \in Singles)
  BY <1>1, <1>2, <1>3 DEF Adding
<1>6. \A w \in Workers :
         Has(batch'[w], m) <=> Has(batch[w], m) \/ (m = f /\ w = c /\ c \notin Singles)
  <2>1. batch[c] \in Seq(Messages)
    BY <1>2
  <2>2. Has(Append(batch[c], f), m) <=> Has(batch[c], m) \/ m = f
    BY <1>1, <2>1, HasAppend
  <2> QED
    BY <1>3, <2>2
<1>7. AtOnePlace(m)
  BY DEF OnceOK
<1>8. \A w \in Workers : Once(batch'[w], m)
  <2>1. batch[c] \in Seq(Messages) /\ Once(batch[c], m)
    BY <1>2, <1>7 DEF AtOnePlace
  <2>2. Once(Append(batch[c], f), m)
    BY <1>1, <1>2, <1>4, <2>1, HasAppend
  <2> QED
    BY <1>3, <1>7, <2>1, <2>2 DEF AtOnePlace
<1>9. CASE m # f
  <2>1. (Adding(m)' <=> Adding(m)) /\ \A w \in Workers : Has(batch'[w], m) <=> Has(batch[w], m)
    BY <1>5, <1>6, <1>9
  <2> QED
    BY <1>1, <1>7, <1>8, <2>1 DEF AtOnePlace, Held, OnWire
<1>10. CASE m = f
  <2>1. \A w \in Workers : Has(batch'[w], m) <=> w = c /\ c \notin Singles
    BY <1>4, <1>6, <1>10
  <2>2. Adding(m)' <=> c \in Singles
    BY <1>4, <1>5, <1>10
  <2>3. ~Has(queue', m) /\ ~OnWire(m)' /\ ~Has(pending', m) /\ ~Has(log', m)
    BY <1>1, <1>4, <1>10 DEF OnWire
  <2>4. Once(queue', m) /\ Once(toBroker', PublishOf(m)) /\ Once(log', m) /\ Once(pending', m)
    BY <1>1, <1>7 DEF AtOnePlace
  <2> QED
    BY <1>8, <2>1, <2>2, <2>3, <2>4 DEF AtOnePlace, Held
<1> QED
  BY <1>9, <1>10

\* A message goes from its call to the channel.
LEMMA OnceCall ==
  ASSUME Basic, OnceOK, NEW c \in Calls, Refuse(c) \/ Add(c) \/ CountAdd(c),
         NEW m \in Messages
  PROVE  AtOnePlace(m)'
<1> USE DEF Basic
<1>1. /\ c \in Workers /\ Singles \subseteq Workers
      /\ pc \in [Workers -> Points] /\ queue \in Seq(Messages)
  BY DEF TypeOK, Points, Workers, Calls
<1>2. AtOnePlace(m)
  BY DEF OnceOK
<1>3. UNCHANGED <<batch, toBroker, pending, log>>
  BY DEF Refuse, Add, CountAdd
<1>4. CASE Refuse(c) \/ CountAdd(c)
  <2>1. queue' = queue /\ (Adding(m)' <=> Adding(m))
    BY <1>1, <1>4 DEF Refuse, MayCall, CountAdd, Adding
  <2> QED
    BY <1>2, <1>3, <2>1 DEF AtOnePlace, Held, OnWire
<1>5. CASE Add(c)
  <2>1. c \in Singles /\ c \in Messages /\ Adding(c)
    BY <1>5 DEF Add, CallsOK, Calls, Messages, Adding
  <2>2. (Has(queue', m) <=> Has(queue, m) \/ m = c)
        /\ (Once(queue, m) /\ ~(Has(queue, m) /\ m = c) => Once(queue', m))
    BY <1>1, <1>5, <2>1, HasAppend DEF Add
  <2>3. Adding(m)' <=> Adding(m) /\ m # c
    BY <1>1, <1>5, <2>1 DEF Add, Adding
  <2>4. AtOnePlace(c)
    BY <2>1 DEF OnceOK
  <2>5. Once(queue', m)
    BY <1>2, <2>1, <2>2, <2>4 DEF AtOnePlace
  <2>6. (Held(m)' <=> Held(m)) /\ (OnWire(m)' <=> OnWire(m))
    BY <1>3 DEF Held, OnWire
  <2>7. CASE m = c
    BY <1>2, <1>3, <2>1, <2>2, <2>3, <2>5, <2>6, <2>7 DEF AtOnePlace
  <2>8. CASE m # c
    BY <1>2, <1>3, <2>2, <2>3, <2>5, <2>6, <2>8 DEF AtOnePlace
  <2> QED
    BY <2>7, <2>8
<1> QED
  BY <1>4, <1>5

\* A worker takes all of the channel, and gives all of its batch to the wire.
LEMMA OnceWorker ==
  ASSUME Basic, OnceOK, NEW w \in Workers, Get(w) \/ SendStep(w), NEW m \in Messages
  PROVE  AtOnePlace(m)'
<1> USE DEF Basic
<1>1. /\ Singles \subseteq Workers
      /\ pc \in [Workers -> Points] /\ batch \in [Workers -> Seq(Messages)]
      /\ batch[w] \in Seq(Messages) /\ toBroker \in Seq(Commands)
  BY DEF TypeOK, Points, Workers, Calls
<1>2. AtOnePlace(m)
  BY DEF OnceOK
<1>3. UNCHANGED <<pending, log>>
  BY CallFrame
<1>4. Adding(m)' <=> Adding(m)
  BY <1>1 DEF Adding, Get, SendStep, CountSub, PublishOk, PublishError, Returned
<1>5. CASE Get(w)
  <2>1. batch' = [batch EXCEPT ![w] = queue] /\ queue' = <<>> /\ toBroker' = toBroker
    BY <1>5 DEF Get
  <2>2. batch[w] = <<>>
    BY <1>5 DEF Get, CallsOK, Workers
  <2>3. /\ \A v \in Workers : v # w => batch'[v] = batch[v]
        /\ batch'[w] = queue
    BY <1>1, <2>1
  <2>4. Held(m)' => Held(m) \/ Has(queue, m)
    BY <2>3 DEF Held
  <2>5. ~Has(queue', m) /\ Once(queue', m)
    BY <2>1, HasEmpty
  <2>6. \A v \in Workers : Once(batch'[v], m)
    BY <1>2, <2>3 DEF AtOnePlace
  <2>7. \A u, v \in Workers : Has(batch'[u], m) /\ Has(batch'[v], m) => u = v
    BY <1>2, <2>3 DEF AtOnePlace, Held
  <2> QED
    BY <1>2, <1>3, <1>4, <2>1, <2>4, <2>5, <2>6, <2>7 DEF AtOnePlace, OnWire
<1>6. CASE CountSub(w)
  <2>1. UNCHANGED <<batch, queue, toBroker>>
    BY <1>6 DEF CountSub
  <2> QED
    BY <1>2, <1>3, <1>4, <2>1 DEF AtOnePlace, Held, OnWire
<1>7. CASE PublishOk(w) \/ PublishError(w)
  <2>1. batch' = [batch EXCEPT ![w] = <<>>] /\ queue' = queue
    BY <1>7 DEF PublishOk, PublishError
  <2>2. /\ \A v \in Workers : v # w => batch'[v] = batch[v]
        /\ ~Has(batch'[w], m) /\ Once(batch'[w], m)
    BY <1>1, <2>1, HasEmpty
  <2>3. Held(m)' => Held(m) /\ ~Has(batch[w], m)
    BY <1>2, <2>2 DEF Held, AtOnePlace
  <2>4. (OnWire(m)' => OnWire(m) \/ Has(batch[w], m)) /\ Once(toBroker', PublishOf(m))
    <3>1. CASE PublishError(w)
      BY <1>2, <3>1 DEF PublishError, OnWire, AtOnePlace
    <3>2. CASE PublishOk(w)
      <4>1. toBroker' = toBroker \o PublishCommand(batch[w])
        BY <3>2 DEF PublishOk
      <4>2. PublishCommand(batch[w]) \in Seq(Commands)
            /\ (Has(PublishCommand(batch[w]), PublishOf(m)) <=> Has(batch[w], m))
            /\ Once(PublishCommand(batch[w]), PublishOf(m))
        BY <1>1, <1>2, PublishedBatch DEF AtOnePlace
      <4>3. Has(batch[w], m) => ~OnWire(m)
        BY <1>2 DEF AtOnePlace, Held
      <4>4. Once(toBroker, PublishOf(m))
        BY <1>2 DEF AtOnePlace
      <4> QED
        BY <1>1, <4>1, <4>2, <4>3, <4>4, HasConcat DEF OnWire
    <3> QED
      BY <1>7, <3>1, <3>2
  <2>5. Has(batch[w], m) => Held(m)
    BY DEF Held
  <2>6. \A v \in Workers : Once(batch'[v], m)
    BY <1>2, <2>2 DEF AtOnePlace
  <2>7. \A u, v \in Workers : Has(batch'[u], m) /\ Has(batch'[v], m) => u = v
    BY <1>2, <2>2 DEF AtOnePlace
  <2> QED
    BY <1>2, <1>3, <1>4, <2>1, <2>3, <2>4, <2>5, <2>6, <2>7 DEF AtOnePlace
<1> QED
  BY <1>5, <1>6, <1>7 DEF SendStep

\* The broker takes a message off the wire, once.
LEMMA OnceOther ==
  ASSUME Basic, OnceOK, OtherStep, NEW m \in Messages
  PROVE  AtOnePlace(m)'
<1> USE DEF Basic
<1>1. toBroker \in Seq(Commands) /\ pending \in Seq(Messages) /\ log \in Seq(Messages)
  BY DEF TypeOK
<1>2. AtOnePlace(m)
  BY DEF OnceOK
<1>3. (Adding(m)' <=> Adding(m)) /\ (Held(m)' <=> Held(m)) /\ batch' = batch /\ queue' = queue
  BY OtherFrame DEF Adding, Held
<1>4. ASSUME OnWire(m)' => OnWire(m), Once(toBroker', PublishOf(m)),
             Has(pending', m) => Has(pending, m), Once(pending', m), log' = log
      PROVE  AtOnePlace(m)'
  BY <1>2, <1>3, <1>4 DEF AtOnePlace
<1>5. CASE UNCHANGED <<toBroker, pending, log>>
  BY <1>2, <1>4, <1>5 DEF OnWire, AtOnePlace
<1>6. CASE CloseDelete
  <2> DEFINE d == [kind |-> "delete"]
  <2>1. d \in Commands /\ PublishOf(m) # d
    BY DEF Commands, PublishOf
  <2>2. Has(Append(toBroker, d), PublishOf(m)) => OnWire(m)
    BY <1>1, <2>1, HasAppend DEF OnWire
  <2>3. Once(Append(toBroker, d), PublishOf(m))
    BY <1>1, <1>2, <2>1, HasAppend DEF AtOnePlace
  <2>4. /\ toBroker' = toBroker \/ toBroker' = Append(toBroker, d)
        /\ UNCHANGED <<pending, log>>
    BY <1>6 DEF CloseDelete
  <2>5. OnWire(m)' => OnWire(m)
    BY <2>2, <2>4 DEF OnWire
  <2> QED
    BY <1>2, <1>4, <2>3, <2>4, <2>5 DEF AtOnePlace
<1>7. CASE CloseClient \/ Disconnect
  <2>1. toBroker' = <<>> /\ UNCHANGED <<pending, log>>
    BY <1>7 DEF CloseClient, Disconnect
  <2> QED
    BY <1>2, <1>4, <2>1, HasEmpty DEF OnWire, AtOnePlace
<1>8. ASSUME toBroker # <<>>, toBroker' = Tail(toBroker)
      PROVE  (OnWire(m)' => OnWire(m)) /\ Once(toBroker', PublishOf(m))
  BY <1>1, <1>2, <1>8, HasTail DEF OnWire, AtOnePlace
<1>9. CASE BrokerPublish
  <2> DEFINE n == Head(toBroker).message
  <2>1. n \in Messages /\ Head(toBroker) = PublishOf(n) /\ OnWire(n)
        /\ toBroker # <<>> /\ toBroker' = Tail(toBroker)
    BY <1>9, HeadCommand DEF BrokerPublish
  <2>2. pending' = Append(pending, n) /\ (log' = log \/ log' = Append(log, n))
    BY <1>9 DEF BrokerPublish
  <2> HIDE DEF n
  <2>3. ~Has(Tail(toBroker), PublishOf(n))
    BY <1>1, <2>1, HasTail DEF OnceOK, AtOnePlace
  <2>4. ~Has(pending, n) /\ ~Has(log, n) /\ ~Adding(n) /\ ~Has(queue, n) /\ ~Held(n)
    BY <2>1 DEF OnceOK, AtOnePlace
  <2>5. /\ Has(pending', m) <=> Has(pending, m) \/ m = n
        /\ Once(pending', m)
    BY <1>1, <1>2, <2>1, <2>2, <2>4, HasAppend DEF AtOnePlace
  <2>6. /\ Has(log', m) => Has(log, m) \/ m = n
        /\ Once(log', m)
    <3>1. CASE log' = log
      BY <1>2, <3>1 DEF AtOnePlace
    <3>2. CASE log' = Append(log, n)
      BY <1>1, <1>2, <2>1, <2>4, <3>2, HasAppend DEF AtOnePlace
    <3> QED
      BY <2>2, <3>1, <3>2
  <2>7. (OnWire(m)' => OnWire(m)) /\ Once(toBroker', PublishOf(m))
    BY <1>8, <2>1
  <2>8. CASE m = n
    <3>1. ~OnWire(m)'
      BY <2>1, <2>3, <2>8 DEF OnWire
    <3> QED
      BY <1>2, <1>3, <2>4, <2>5, <2>6, <2>7, <2>8, <3>1 DEF AtOnePlace
  <2>9. CASE m # n
    BY <1>2, <1>3, <2>5, <2>6, <2>7, <2>9 DEF AtOnePlace
  <2> QED
    BY <2>8, <2>9
<1>10. CASE BrokerReject \/ BrokerDelete
  <2>1. toBroker # <<>> /\ toBroker' = Tail(toBroker) /\ UNCHANGED <<pending, log>>
    BY <1>10 DEF BrokerReject, BrokerDelete
  <2> QED
    BY <1>2, <1>4, <1>8, <2>1 DEF AtOnePlace
<1>11. CASE BrokerConfirm
  <2>1. PICK n \in 1 .. Len(pending) : pending' = SubSeq(pending, n + 1, Len(pending))
    BY <1>11 DEF BrokerConfirm
  <2>2. n \in 0 .. Len(pending)
    BY <1>1, LenProperties
  <2>3. (Has(pending', m) => Has(pending, m)) /\ Once(pending', m)
    BY <1>1, <1>2, <2>1, <2>2, HasCut DEF AtOnePlace
  <2>4. UNCHANGED <<toBroker, log>>
    BY <1>11 DEF BrokerConfirm
  <2> QED
    BY <1>2, <1>4, <2>3, <2>4 DEF AtOnePlace, OnWire
<1>12. ASSUME CloseBegin \/ ReadStep \/ \E i \in 1 .. Len(tasks) : TaskStep(i)
       PROVE  UNCHANGED <<toBroker, pending, log>>
  BY <1>12 DEF CloseBegin, ReadStep, ReadConfirm, ReadDeleted, ReadEnd, TaskStep,
               Callback, Panic
<1> QED
  BY <1>5, <1>6, <1>7, <1>9, <1>10, <1>11, <1>12 DEF OtherStep, CloseStep, BrokerStep

\* A new process has nothing anywhere but in the stream.
LEMMA OnceRestart ==
  ASSUME Basic, OnceOK, Restart, NEW m \in Messages
  PROVE  AtOnePlace(m)'
<1>1. AtOnePlace(m)
  BY DEF OnceOK
<1>2. ~Adding(m)' /\ ~Has(queue', m) /\ ~Held(m)' /\ ~OnWire(m)' /\ ~Has(pending', m)
  BY BasicRestart DEF Expecting
<1>3. \A w \in Workers : ~Has(batch'[w], m)
  BY <1>2 DEF Held
<1>4. /\ queue' = <<>> /\ toBroker' = <<>> /\ pending' = <<>> /\ log' = log
      /\ \A w \in Workers : batch'[w] = <<>>
  BY DEF Restart
<1> QED
  BY <1>1, <1>2, <1>3, <1>4, HasEmpty DEF AtOnePlace

\* OnceOK is kept by every step.
LEMMA OnceNext == Basic /\ OnceOK /\ [Next]_vars => OnceOK'
<1> SUFFICES ASSUME Basic, OnceOK, [Next]_vars, NEW m \in Messages PROVE AtOnePlace(m)'
  BY DEF OnceOK
<1>1. CASE Next
  BY <1>1, NextCases, OnceRegister, OnceCall, OnceWorker, OnceOther, OnceRestart
<1>2. CASE UNCHANGED vars
  BY <1>2 DEF vars, OnceOK, AtOnePlace, Adding, Held, OnWire
<1> QED
  BY <1>1, <1>2

\* The initial state has no message anywhere.
LEMMA OnceInit == Init => OnceOK
<1> SUFFICES ASSUME Init, NEW m \in Messages PROVE AtOnePlace(m)
  BY DEF OnceOK
<1>1. ~Adding(m) /\ ~Held(m)
  BY SingleContent, HasEmpty DEF Init, Adding, Held
<1> QED
  BY <1>1, HasEmpty DEF Init, AtOnePlace, OnWire

\* A message is at one place at a time.
LEMMA OnceAlways == Spec => []OnceOK
BY OnceInit, OnceNext, BasicAlways, PTL DEF Spec

\* No message is stored twice, though several calls and the timer's task drain the
\* same accumulator, and whoever dies and builds the producer again: StoredOnce.
THEOREM StoredAtMostOnce == Spec => []StoredOnce
<1>1. Basic /\ OnceOK => StoredOnce
  <2> SUFFICES ASSUME Basic, OnceOK, NEW i \in 1 .. Len(log), NEW j \in 1 .. Len(log),
                      log[i] = log[j]
               PROVE  i = j
    BY DEF StoredOnce
  <2>1. log[i] \in Messages
    BY ElementOfSeq DEF Basic, TypeOK
  <2>2. Once(log, log[i])
    BY <2>1 DEF OnceOK, AtOnePlace
  <2> QED
    BY <2>2 DEF Once
<1> QED
  BY <1>1, BasicAlways, OnceAlways, PTL

-----------------------------------------------------------------------------
(* Publishing ids.                                                         *)

\* Whoever is current stays so, with the id it has, unless the process ends.
LEMMA CurrentStays ==
  ASSUME Basic, Next, ~Restart, NEW m \in Messages
  PROVE  /\ Current(m) => Current(m)'
         /\ ids[m] # NoId => ids'[m] = ids[m]
<1>1. CASE \E c \in Calls : Register(c)
  <2>1. PICK c \in Calls : Register(c)
    BY <1>1
  <2>2. ids' = [ids EXCEPT ![Fresh(c)] = FreshId(c)] /\ ids[Fresh(c)] = NoId
    BY <2>1, RegisterFacts, FreshFacts
  <2> QED
    BY <2>1, <2>2, BasicRegister DEF Basic, TypeOK
<1>2. CASE \E w \in Workers : Refuse(w) \/ Add(w) \/ CountAdd(w) \/ Get(w) \/ SendStep(w)
  BY <1>2, CallFrame DEF Current, Basic
<1>3. CASE OtherStep
  BY <1>3, BasicOther, OtherFrame
<1> QED
  BY <1>1, <1>2, <1>3, NextCases DEF Workers

\* Nothing but Register gives an id.
LEMMA OnlyRegister ==
  ASSUME Basic, Next, ~Restart, \A c \in Calls : ~Register(c)
  PROVE  /\ ids' = ids /\ sequence' = sequence /\ named' = named
         /\ \A m \in Messages : Current(m)' <=> Current(m)
<1>1. CASE \E w \in Workers : Refuse(w) \/ Add(w) \/ CountAdd(w) \/ Get(w) \/ SendStep(w)
  BY <1>1, CallFrame DEF Current, Basic
<1>2. CASE OtherStep
  BY <1>2, BasicOther, OtherFrame
<1> QED
  BY <1>1, <1>2, NextCases DEF Workers

\* What the stream holds after a step.
LEMMA LogStep ==
  ASSUME Basic, Next
  PROVE  \/ log' = log /\ last' = last
         \/ \E n \in Messages :
              /\ OnWire(n) /\ log' = Append(log, n) /\ OtherStep
              /\ named => last < ids[n] /\ last' = ids[n]
              /\ ~named => last' = last
<1>1. CASE OtherStep
  <2>1. CASE BrokerPublish
    <3>1. Head(toBroker).message \in Messages /\ OnWire(Head(toBroker).message)
      BY <2>1, HeadCommand DEF BrokerPublish, Basic
    <3>2. ids[Head(toBroker).message] \in Nat /\ last \in Nat \cup {-1}
      BY <3>1 DEF Basic, TypeOK, IdsOK, Expecting, Current
    <3> QED
      BY <1>1, <2>1, <3>1, <3>2 DEF BrokerPublish
  <2>2. CASE ~BrokerPublish
    BY <1>1, <2>2 DEF OtherStep, CloseBegin, CloseStep, CloseDelete, CloseClient, ReadStep,
          ReadConfirm, ReadDeleted, ReadEnd, BrokerStep, BrokerReject, BrokerConfirm,
          BrokerDelete, Disconnect, TaskStep, Callback, Panic
  <2> QED
    BY <2>1, <2>2
<1>2. CASE \E w \in Workers : Refuse(w) \/ Add(w) \/ CountAdd(w) \/ Get(w) \/ SendStep(w)
  BY <1>2, CallFrame DEF Basic
<1>3. CASE \E c \in Calls : Register(c)
  BY <1>3, RegisterFacts
<1>4. CASE Restart
  BY <1>4 DEF Restart
<1> QED
  BY <1>1, <1>2, <1>3, <1>4, NextCases DEF Workers

\* SequenceOK is kept by every step.
LEMMA SequenceNext == Basic /\ SequenceOK /\ [Next]_vars => SequenceOK'
<1> SUFFICES ASSUME Basic, SequenceOK, [Next]_vars, NEW m \in Messages PROVE IdFrom(m)'
  BY DEF SequenceOK
<1>1. IdFrom(m) /\ ids \in [Messages -> Nat \cup {NoId}] /\ sequence \in Nat
      /\ last \in Nat \cup {-1} /\ log \in Seq(Messages)
      /\ OwnId \in [Messages -> Nat \cup {NoId}]
  BY ProducerAssumption DEF SequenceOK, Basic, TypeOK
<1>2. ASSUME NEW c \in Calls, Register(c) PROVE IdFrom(m)'
  <2> DEFINE f == Fresh(c)
  <2>1. /\ f \in Messages /\ ids[f] = NoId /\ ~Has(log, f)
        /\ FreshId(c) = IF OwnId[f] = NoId THEN sequence ELSE OwnId[f]
        /\ ids' = [ids EXCEPT ![f] = FreshId(c)]
        /\ sequence' = IF OwnId[f] = NoId THEN sequence + 1 ELSE sequence
        /\ log' = log /\ last' = last /\ named' = named
    BY <1>2, RegisterFacts, FreshFacts DEF FreshId
  <2>2. Current(m)' => Current(m) \/ m = f
    BY <1>2, BasicRegister
  <2> HIDE DEF f
  <2>3. CASE m = f
    BY <1>1, <2>1, <2>3 DEF IdFrom
  <2>4. CASE m # f
    <3>1. ids'[m] = ids[m] /\ sequence' >= sequence /\ sequence' \in Nat
      BY <1>1, <2>1, <2>4
    <3>2. Has(log', m) <=> Has(log, m)
      BY <2>1
    <3>3. (Current(m)' => Current(m)) /\ last' = last /\ named' = named
      BY <2>1, <2>2, <2>4
    <3>4. ids[m] \in Int
      BY <1>1 DEF NoId
    <3> QED
      BY <1>1, <3>1, <3>2, <3>3, <3>4 DEF IdFrom
  <2> QED
    BY <2>3, <2>4
<1>3. CASE Next /\ ~Restart /\ \A c \in Calls : ~Register(c)
  <2>1. ids' = ids /\ sequence' = sequence /\ named' = named /\ (Current(m)' <=> Current(m))
    BY <1>3, OnlyRegister
  <2>2. CASE log' = log /\ last' = last
    BY <1>1, <2>1, <2>2 DEF IdFrom
  <2>3. ASSUME NEW n \in Messages, OnWire(n), log' = Append(log, n),
               named => last < ids[n] /\ last' = ids[n]
        PROVE  IdFrom(m)'
    <3>1. Has(log', m) <=> Has(log, m) \/ m = n
      BY <1>1, <2>3, HasAppend
    <3>2. Current(n) /\ IdFrom(n) /\ ids[n] \in Nat
      BY <1>1, <2>3 DEF Basic, IdsOK, Expecting, SequenceOK, Current
    <3>3. named => last < last'
      BY <2>3
    <3>4. CASE m = n
      BY <1>1, <2>1, <2>3, <3>2, <3>4 DEF IdFrom
    <3>5. CASE m # n
      <4>1. ids[m] \in Int
        BY <1>1 DEF NoId
      <4> QED
        BY <1>1, <2>1, <2>3, <3>1, <3>2, <3>5, <4>1 DEF IdFrom
    <3> QED
      BY <3>4, <3>5
  <2> QED
    BY <1>3, <2>2, <2>3, LogStep
<1>4. CASE Restart
  <2>1. /\ ~Current(m)' /\ ids' = ids /\ log' = log /\ last' = last /\ named' = named
        /\ sequence' = FirstSequence(QueryPublisherSequence)
    BY <1>4, BasicRestart DEF Restart
  <2>2. last \in Nat /\ last > 0 => sequence' = last + 1
    BY <2>1 DEF FirstSequence, QueryPublisherSequence
  <2>3. named /\ Has(log, m) /\ ids[m] > 0 => last \in Nat /\ last > 0 /\ ids[m] <= last
    BY <1>1 DEF IdFrom, NoId
  <2>4. ids[m] \in Int
    BY <1>1 DEF NoId
  <2> QED
    BY <1>1, <2>1, <2>2, <2>3, <2>4 DEF IdFrom
<1>5. CASE UNCHANGED vars
  BY <1>1, <1>5 DEF vars, IdFrom, Current
<1> QED
  BY <1>2, <1>3, <1>4, <1>5

\* Ids come from the sequence or the application.
LEMMA SequenceAlways == Spec => []SequenceOK
<1>1. Init => SequenceOK
  <2> SUFFICES ASSUME Init, NEW m \in Messages PROVE IdFrom(m)
    BY DEF SequenceOK
  <2>1. ids[m] = NoId /\ ~Has(log, m)
    BY HasEmpty DEF Init
  <2> QED
    BY <2>1 DEF IdFrom, Current
<1> QED
  BY <1>1, SequenceNext, BasicAlways, PTL DEF Spec

\* A named producer's sequence is ahead of every id that was drawn from it and is
\* stored under the name, in whichever process: a process that was built after a crash
\* draws no id that the broker would take for a duplicate: SequenceAhead.
THEOREM SequenceStaysAhead == Spec => []SequenceAhead
<1>1. Basic /\ SequenceOK => SequenceAhead
  <2> SUFFICES ASSUME Basic, SequenceOK, NEW i \in 1 .. Len(log),
                      named, OwnId[log[i]] = NoId, ids[log[i]] > 0
               PROVE  sequence > ids[log[i]]
    BY DEF SequenceAhead
  <2>1. log[i] \in Messages /\ Has(log, log[i])
    BY ElementOfSeq DEF Basic, TypeOK, Has
  <2> QED
    BY <2>1 DEF SequenceOK, IdFrom
<1> QED
  BY <1>1, BasicAlways, SequenceAlways, PTL

\* The application gives no ids, or gives all of them and no two alike.
OnePolicy ==
    \/ \A m \in Messages : OwnId[m] = NoId
    \/ /\ \A m \in Messages : OwnId[m] # NoId
       /\ \A m, n \in Messages : OwnId[m] = OwnId[n] => m = n

\* IdsApart is kept by every step, for an application of one policy.
LEMMA ApartNext ==
  ASSUME OnePolicy, Basic, SequenceOK, IdsApart, [Next]_vars
  PROVE  IdsApart'
<1>1. ASSUME NEW c \in Calls, Register(c) PROVE IdsApart'
  <2> DEFINE f == Fresh(c)
  <2>1. /\ f \in Messages
        /\ FreshId(c) = IF OwnId[f] = NoId THEN sequence ELSE OwnId[f]
        /\ ids' = [ids EXCEPT ![f] = FreshId(c)]
    BY <1>1, RegisterFacts, FreshFacts DEF FreshId
  <2>2. \A m \in Messages : Current(m)' => Current(m) \/ m = f
    BY <1>1, BasicRegister
  <2> HIDE DEF f
  <2>3. ids \in [Messages -> Nat \cup {NoId}] /\ sequence \in Nat
    BY DEF Basic, TypeOK
  <2>4. ASSUME NEW n \in Messages, n # f, Current(n) PROVE ids[n] # FreshId(c)
    <3>1. IdFrom(n) /\ ids[n] # NoId
      BY <2>4 DEF SequenceOK, Current
    <3>2. CASE \A m \in Messages : OwnId[m] = NoId
      BY <2>1, <2>3, <2>4, <3>1, <3>2 DEF IdFrom
    <3>3. CASE /\ \A m \in Messages : OwnId[m] # NoId
               /\ \A x, y \in Messages : OwnId[x] = OwnId[y] => x = y
      BY <2>1, <2>4, <3>1, <3>3 DEF IdFrom
    <3> QED
      BY <3>2, <3>3 DEF OnePolicy
  <2>5. ids'[f] = FreshId(c) /\ \A n \in Messages : n # f => ids'[n] = ids[n]
    BY <2>1, <2>3
  <2> QED
    BY <2>2, <2>4, <2>5 DEF IdsApart
<1>2. CASE Next /\ ~Restart /\ \A c \in Calls : ~Register(c)
  BY <1>2, OnlyRegister DEF IdsApart
<1>3. CASE Restart
  BY <1>3, BasicRestart DEF IdsApart
<1>4. CASE UNCHANGED vars
  BY <1>4 DEF vars, IdsApart, Current
<1> QED
  BY <1>1, <1>2, <1>3, <1>4

\* No two messages of one process have the same publishing id, as long as the
\* application leaves all of them to publish_sequence or gives all of them itself: what
\* waiting_confirmations, a map from ids, needs.
THEOREM IdsStayApart ==
  ASSUME OnePolicy
  PROVE  Spec => []IdsApart
<1>1. Init => IdsApart
  BY DEF Init, IdsApart, Current
<1>2. Basic /\ SequenceOK /\ IdsApart /\ [Next]_vars => IdsApart'
  BY ApartNext
<1> QED
  BY <1>1, <1>2, BasicAlways, SequenceAlways, PTL DEF Spec

-----------------------------------------------------------------------------
(* Waiters and callbacks.                                                  *)

\* Who waits after a step.
LEMMA WaitersStep ==
  ASSUME Basic, Next, ~Restart, \A c \in Calls : ~Register(c)
  PROVE  \/ waiters' = waiters /\ callbacks' = callbacks
         \/ \E i \in 1 .. Len(tasks) : \E w \in waiters : Callback(i) /\ Call(i, w)
<1>1. CASE \E w \in Workers : Refuse(w) \/ Add(w) \/ CountAdd(w) \/ Get(w) \/ SendStep(w)
  BY <1>1, CallFrame DEF Basic
<1>2. CASE \E i \in 1 .. Len(tasks) : TaskStep(i)
  BY <1>2 DEF TaskStep, Callback, Panic
<1>3. CASE OtherStep /\ \A i \in 1 .. Len(tasks) : ~TaskStep(i)
  BY <1>3 DEF OtherStep, CloseBegin, CloseStep, CloseDelete, CloseClient, ReadStep,
        ReadConfirm, ReadDeleted, ReadEnd, BrokerStep, BrokerPublish, BrokerReject,
        BrokerConfirm, BrokerDelete, Disconnect
<1> QED
  BY <1>1, <1>2, <1>3, NextCases DEF Workers, OtherStep

\* WaitersOK is kept by every step.
LEMMA WaitersNext == Basic /\ WaitersOK /\ [Next]_vars => WaitersOK'
<1> SUFFICES ASSUME Basic, WaitersOK, [Next]_vars PROVE WaitersOK'
  OBVIOUS
<1>1. /\ waiters \in SUBSET [id : Nat, message : Messages]
      /\ callbacks \in SUBSET [message : Messages, id : Nat, ok : BOOLEAN]
      /\ ids \in [Messages -> Nat \cup {NoId}]
      /\ \A n \in Nat : n # NoId
  BY DEF Basic, TypeOK, NoId
<1>2. ASSUME NEW c \in Calls, Register(c) PROVE WaitersOK'
  <2> DEFINE f == Fresh(c)
             new == [id |-> FreshId(c), message |-> f]
  <2>1. /\ f \in Messages /\ ids[f] = NoId /\ FreshId(c) \in Nat
        /\ ids' = [ids EXCEPT ![f] = FreshId(c)]
        /\ waiters' = WithWaiter(FreshId(c), f)
        /\ callbacks' = callbacks
    BY <1>2, RegisterFacts, FreshFacts
  <2>2. \A m \in Messages : Current(m) \/ m = f => Current(m)'
    BY <1>2, BasicRegister
  <2>3. waiters' = {w \in waiters : w.id # FreshId(c)} \cup {new}
    BY <2>1 DEF WithWaiter
  <2> HIDE DEF f
  <2>4. new.id = FreshId(c) /\ new.message = f
    OBVIOUS
  <2> HIDE DEF new
  <2>5. ids'[f] = FreshId(c) /\ \A m \in Messages : m # f => ids'[m] = ids[m]
    BY <1>1, <2>1
  <2>6. \A w \in waiters' : w.message \in Messages /\ w.id = ids'[w.message]
    <3>1. \A w \in waiters : w.message \in Messages /\ w.id \in Nat /\ w.id = ids[w.message]
      BY <1>1 DEF WaitersOK
    <3>2. \A w \in waiters : w.message # f
      BY <1>1, <2>1, <3>1
    <3> QED
      BY <2>1, <2>3, <2>4, <2>5, <3>1, <3>2
  <2>7. ASSUME NEW w \in waiters' PROVE Current(w.message)'
    <3>1. CASE w \in waiters
      <4>1. w.message \in Messages /\ Current(w.message)
        BY <1>1, <3>1 DEF WaitersOK
      <4> QED
        BY <2>2, <4>1
    <3>2. CASE w = new
      BY <2>1, <2>2, <2>4, <3>2
    <3> QED
      BY <2>3, <3>1, <3>2
  <2>8. \A v, w \in waiters' : v.id = w.id => v = w
    BY <2>3, <2>4 DEF WaitersOK
  <2>9. \A cb \in callbacks' : cb.id = ids'[cb.message] /\ cb.message # f
    <3>1. \A cb \in callbacks : cb.message \in Messages /\ cb.id \in Nat /\ cb.id = ids[cb.message]
      BY <1>1 DEF WaitersOK
    <3>2. \A cb \in callbacks : cb.message # f
      BY <1>1, <2>1, <3>1
    <3> QED
      BY <2>1, <2>5, <3>1, <3>2
  <2>10. \A cb \in callbacks' : \A w \in waiters' : w.message # cb.message
    BY <2>1, <2>3, <2>4, <2>9 DEF WaitersOK
  <2>11. \A cb, d \in callbacks' : cb.message = d.message => cb = d
    BY <2>1 DEF WaitersOK
  <2> QED
    BY <2>6, <2>7, <2>8, <2>9, <2>10, <2>11 DEF WaitersOK
<1>3. CASE Next /\ ~Restart /\ \A c \in Calls : ~Register(c)
  <2>1. ids' = ids /\ \A m \in Messages : Current(m)' <=> Current(m)
    BY <1>3, OnlyRegister
  <2>2. \A w \in waiters : w.message \in Messages
    BY <1>1
  <2>3. CASE waiters' = waiters /\ callbacks' = callbacks
    BY <2>1, <2>2, <2>3 DEF WaitersOK
  <2>4. ASSUME NEW i \in 1 .. Len(tasks), NEW w \in waiters, Call(i, w)
        PROVE  WaitersOK'
    <3> DEFINE new == [message |-> w.message, id |-> w.id, ok |-> tasks[i].ok]
    <3>1. waiters' = waiters \ {w} /\ callbacks' = callbacks \cup {new}
      BY <2>4 DEF Call
    <3>2. new.message = w.message /\ new.id = w.id
      OBVIOUS
    <3> HIDE DEF new
    <3>3. \A v \in waiters' : v \in waiters /\ v.message # w.message
      BY <3>1 DEF WaitersOK
    <3>4. \A cb \in callbacks : cb.message # w.message
      BY DEF WaitersOK
    <3>5. \A v \in waiters' : Current(v.message)' /\ v.id = ids'[v.message]
      BY <2>1, <2>2, <3>3 DEF WaitersOK
    <3>6. \A v, u \in waiters' : v.id = u.id => v = u
      BY <3>3 DEF WaitersOK
    <3>7. /\ \A cb \in callbacks' : cb.id = ids'[cb.message]
          /\ \A cb \in callbacks' : \A v \in waiters' : v.message # cb.message
          /\ \A cb, d \in callbacks' : cb.message = d.message => cb = d
      BY <2>1, <3>1, <3>2, <3>3, <3>4 DEF WaitersOK
    <3> QED
      BY <3>5, <3>6, <3>7 DEF WaitersOK
  <2> QED
    BY <1>3, <2>3, <2>4, WaitersStep
<1>4. CASE Restart
  BY <1>4 DEF Restart, WaitersOK
<1>5. CASE UNCHANGED vars
  BY <1>5 DEF vars, WaitersOK, Current
<1> QED
  BY <1>2, <1>3, <1>4, <1>5

\* A callback has the id that its message was sent with.
LEMMA WaitersAlways == Spec => []WaitersOK
<1>1. Init => WaitersOK
  BY DEF Init, WaitersOK
<1> QED
  BY <1>1, WaitersNext, BasicAlways, PTL DEF Spec

\* The answers, one by one.
LEMMA AnswerFacts ==
  ASSUME Basic
  PROVE  /\ Len(tasks) \in Nat /\ Len(toClient) \in Nat /\ Answers = Len(tasks) + Len(toClient)
         /\ \A k \in 1 .. Answers : AnswerIds(k) \in Seq(Nat)
         /\ \A k \in 1 .. Len(tasks) :
              AnswerIds(k) = tasks[k].ids /\ Confirms(k) = tasks[k].ok
         /\ \A k \in Len(tasks) + 1 .. Answers :
              LET frame == toClient[k - Len(tasks)]
              IN  /\ frame.kind \in {"confirm", "error"} => AnswerIds(k) = frame.ids
                  /\ frame.kind \notin {"confirm", "error"} => AnswerIds(k) = <<>>
                  /\ Confirms(k) = (frame.kind = "confirm")
<1>1. Len(tasks) \in Nat /\ Len(toClient) \in Nat /\ Answers = Len(tasks) + Len(toClient)
  BY LenProperties DEF Basic, TypeOK, Answers
<1>2. \A k \in 1 .. Len(tasks) : AnswerIds(k) = tasks[k].ids /\ Confirms(k) = tasks[k].ok
  BY <1>1 DEF AnswerIds, Confirms
<1>3. ASSUME NEW k \in Len(tasks) + 1 .. Answers
      PROVE  LET frame == toClient[k - Len(tasks)]
             IN  /\ frame.kind \in {"confirm", "error"} => AnswerIds(k) = frame.ids
                 /\ frame.kind \notin {"confirm", "error"} => AnswerIds(k) = <<>>
                 /\ Confirms(k) = (frame.kind = "confirm")
                 /\ frame \in Frames
  <2>1. ~(k <= Len(tasks)) /\ k - Len(tasks) \in 1 .. Len(toClient)
    BY <1>1
  <2>2. toClient[k - Len(tasks)] \in Frames
    BY <2>1, ElementOfSeq DEF Basic, TypeOK
  <2> QED
    BY <2>1, <2>2 DEF AnswerIds, Confirms
<1>4. ASSUME NEW k \in 1 .. Answers PROVE AnswerIds(k) \in Seq(Nat)
  <2>1. CASE k \in 1 .. Len(tasks)
    BY <1>2, <2>1, TaskFacts
  <2>2. CASE k \in Len(tasks) + 1 .. Answers
    BY <1>3, <2>2, EmptySeq DEF Frames
  <2> QED
    BY <1>1, <2>1, <2>2
<1> QED
  BY <1>1, <1>2, <1>3, <1>4

\* The ids of answers are numbers.
LEMMA AnswersTyped == Basic => \A k \in 1 .. Answers : AnswerIds(k) \in Seq(Nat)
BY AnswerFacts

\* An id is at one place of one answer.
LEMMA OneAnswer ==
  ASSUME AnsweredOnce, NEW k \in 1 .. Answers, NEW l \in 1 .. Answers,
         NEW i \in 1 .. Len(AnswerIds(k)), NEW j \in 1 .. Len(AnswerIds(l)),
         AnswerIds(k)[i] = AnswerIds(l)[j]
  PROVE  k = l /\ i = j
BY DEF AnsweredOnce

\* Answer k after a step was answer F[k] before it, without its first D[k] ids, and
\* what it answers is still waited for.
Renumbers(F, D) ==
    /\ \A k \in 1 .. Answers' :
         /\ F[k] \in 1 .. Answers /\ D[k] \in {0, 1}
         /\ Len(AnswerIds(F[k])) = Len(AnswerIds(k)') + D[k]
         /\ \A i \in 1 .. Len(AnswerIds(k)') : AnswerIds(k)'[i] = AnswerIds(F[k])[i + D[k]]
         /\ Confirms(k)' <=> Confirms(F[k])
    /\ \A k, l \in 1 .. Answers' : F[k] = F[l] => k = l
    /\ \A k \in 1 .. Answers' : \A i \in 1 .. Len(AnswerIds(k)') :
         \A w \in waiters : w.id = AnswerIds(k)'[i] => w \in waiters'

\* Then no id is answered twice, and all are waited for, as before.
LEMMA Renumbered ==
  ASSUME Basic, Basic', AnsweredOnce, AnswersAwaited, named' = named,
         \A w \in waiters : /\ Expecting(w.message)' => Expecting(w.message)
                            /\ Stored(w.message) => Stored(w.message)',
         NEW F, NEW D, Renumbers(F, D)
  PROVE  AnsweredOnce' /\ AnswersAwaited'
<1> USE DEF Renumbers
<1>1. \A k \in 1 .. Answers' : AnswerIds(k)' \in Seq(Nat) /\ Len(AnswerIds(k)') \in Nat
  <2>1. Basic' => (\A k \in 1 .. Answers : AnswerIds(k) \in Seq(Nat))'
    BY AnswersTyped, PTL
  <2> QED
    BY <2>1, LenProperties
<1>2. ASSUME NEW k \in 1 .. Answers', NEW i \in 1 .. Len(AnswerIds(k)')
      PROVE  i + D[k] \in 1 .. Len(AnswerIds(F[k]))
  <2>1. D[k] \in {0, 1} /\ Len(AnswerIds(F[k])) = Len(AnswerIds(k)') + D[k]
    OBVIOUS
  <2>2. Len(AnswerIds(k)') \in Nat
    BY <1>1
  <2> QED
    BY <2>1, <2>2
<1>3. AnsweredOnce'
  <2> SUFFICES ASSUME NEW k \in 1 .. Answers', NEW l \in 1 .. Answers',
                      NEW i \in 1 .. Len(AnswerIds(k)'), NEW j \in 1 .. Len(AnswerIds(l)'),
                      AnswerIds(k)'[i] = AnswerIds(l)'[j]
               PROVE  k = l /\ i = j
    BY DEF AnsweredOnce
  <2>1. AnswerIds(F[k])[i + D[k]] = AnswerIds(F[l])[j + D[l]]
    OBVIOUS
  <2>2. F[k] = F[l] /\ i + D[k] = j + D[l]
    <3>1. F[k] \in 1 .. Answers /\ F[l] \in 1 .. Answers
      OBVIOUS
    <3>2. i + D[k] \in 1 .. Len(AnswerIds(F[k])) /\ j + D[l] \in 1 .. Len(AnswerIds(F[l]))
      BY <1>2
    <3> HIDE DEF Renumbers
    <3>3. PICK kk \in 1 .. Answers, ll \in 1 .. Answers : kk = F[k] /\ ll = F[l]
      BY <3>1
    <3>4. PICK ii \in 1 .. Len(AnswerIds(kk)), jj \in 1 .. Len(AnswerIds(ll)) :
             ii = i + D[k] /\ jj = j + D[l]
      BY <3>2, <3>3
    <3>5. AnswerIds(kk)[ii] = AnswerIds(ll)[jj]
      BY <2>1, <3>3, <3>4
    <3>6. kk = ll /\ ii = jj
      BY <3>5, OneAnswer
    <3> QED
      BY <3>3, <3>4, <3>6
  <2>3. k = l
    BY <2>2
  <2>4. i + D[k] = j + D[k] /\ D[k] \in {0, 1}
    BY <2>2, <2>3
  <2>5. i \in Int /\ j \in Int
    BY <1>1
  <2>6. i = j
    BY <2>4, <2>5
  <2> QED
    BY <2>3, <2>6
<1>4. AnswersAwaited'
  <2> SUFFICES ASSUME NEW k \in 1 .. Answers', NEW i \in 1 .. Len(AnswerIds(k)')
               PROVE  \E w \in waiters' :
                         /\ w.id = AnswerIds(k)'[i]
                         /\ ~Expecting(w.message)'
                         /\ ~named' /\ Confirms(k)' => Stored(w.message)'
    BY DEF AnswersAwaited
  <2>1. PICK w \in waiters :
           /\ w.id = AnswerIds(F[k])[i + D[k]]
           /\ ~Expecting(w.message)
           /\ ~named /\ Confirms(F[k]) => Stored(w.message)
    BY <1>2 DEF AnswersAwaited
  <2>2. w.message \in Messages
    BY DEF Basic, TypeOK
  <2>3. w \in waiters'
    BY <2>1
  <2> QED
    BY <2>1, <2>2, <2>3
<1> QED
  BY <1>3, <1>4

\* Answers that do not change.
LEMMA SameAnswers ==
  ASSUME Basic, Basic', AnsweredOnce, AnswersAwaited, named' = named,
         toClient' = toClient, tasks' = tasks, waiters \subseteq waiters',
         \A w \in waiters : /\ Expecting(w.message)' => Expecting(w.message)
                            /\ Stored(w.message) => Stored(w.message)'
  PROVE  AnsweredOnce' /\ AnswersAwaited'
<1> DEFINE F == [k \in Nat |-> k]
           D == [k \in Nat |-> 0]
<1>1. Answers' = Answers /\ \A k \in 1 .. Answers : AnswerIds(k)' = AnswerIds(k)
                                                   /\ (Confirms(k)' <=> Confirms(k))
  BY DEF Answers, AnswerIds, Confirms
<1>2. \A k \in 1 .. Answers : AnswerIds(k) \in Seq(Nat) /\ Len(AnswerIds(k)) \in Nat
  BY AnswerFacts, LenProperties
<1>3. \A k \in 1 .. Answers : F[k] = k /\ D[k] = 0
  OBVIOUS
<1> HIDE DEF F, D
<1>4. \A k \in 1 .. Answers' :
         /\ F[k] \in 1 .. Answers /\ D[k] \in {0, 1}
         /\ Len(AnswerIds(F[k])) = Len(AnswerIds(k)') + D[k]
         /\ \A i \in 1 .. Len(AnswerIds(k)') : AnswerIds(k)'[i] = AnswerIds(F[k])[i + D[k]]
         /\ Confirms(k)' <=> Confirms(F[k])
  BY <1>1, <1>2, <1>3
<1>5. \A k, l \in 1 .. Answers' : F[k] = F[l] => k = l
  BY <1>1, <1>3
<1>6. \A k \in 1 .. Answers' : \A i \in 1 .. Len(AnswerIds(k)') :
         \A w \in waiters : w.id = AnswerIds(k)'[i] => w \in waiters'
  OBVIOUS
<1>7. Renumbers(F, D)
  BY <1>4, <1>5, <1>6 DEF Renumbers
<1> QED
  BY <1>7, Renumbered

\* One answer more.
LEMMA AnswerAdded ==
  ASSUME Basic, Basic', AnsweredOnce, AnswersAwaited, named' = named,
         \A w \in waiters : /\ Expecting(w.message)' => Expecting(w.message)
                            /\ Stored(w.message) => Stored(w.message)',
         tasks' = tasks, waiters' = waiters, NEW f \in Frames, toClient' = Append(toClient, f),
         f.kind \in {"confirm", "error"} => f.ids # <<>>,
         NEW s \in Seq(Nat),
         s = (IF f.kind \in {"confirm", "error"} THEN f.ids ELSE <<>>),
         \A i, j \in 1 .. Len(s) : s[i] = s[j] => i = j,
         \A i \in 1 .. Len(s) :
            /\ \A k \in 1 .. Answers : \A j \in 1 .. Len(AnswerIds(k)) : AnswerIds(k)[j] # s[i]
            /\ \E w \in waiters :
                 /\ w.id = s[i] /\ ~Expecting(w.message)'
                 /\ ~named /\ f.kind = "confirm" => Stored(w.message)'
  PROVE  AnsweredOnce' /\ AnswersAwaited'
<1>1. /\ Len(toClient) \in Nat /\ Len(toClient') = Len(toClient) + 1
      /\ \A j \in 1 .. Len(toClient) : toClient'[j] = toClient[j]
      /\ toClient'[Len(toClient) + 1] = f
  BY FrameAppended
<1>2. Len(tasks) \in Nat /\ Answers = Len(tasks) + Len(toClient)
      /\ Answers \in Nat /\ Answers' = Answers + 1
  BY <1>1, AnswerFacts DEF Answers
<1>3. ASSUME NEW k \in 1 .. Answers
      PROVE  AnswerIds(k)' = AnswerIds(k) /\ (Confirms(k)' <=> Confirms(k))
  <2>1. CASE k <= Len(tasks)
    BY <2>1 DEF AnswerIds, Confirms
  <2>2. CASE ~(k <= Len(tasks))
    <3>1. k - Len(tasks) \in 1 .. Len(toClient)
      BY <1>1, <1>2, <2>2
    <3> QED
      BY <1>1, <2>2, <3>1 DEF AnswerIds, Confirms
  <2> QED
    BY <2>1, <2>2
<1>4. ASSUME NEW k, k = Answers + 1
      PROVE  AnswerIds(k)' = s /\ (Confirms(k)' <=> f.kind = "confirm")
  <2>1. ~(k <= Len(tasks)) /\ k - Len(tasks) = Len(toClient) + 1
    BY <1>1, <1>2, <1>4
  <2> QED
    BY <1>1, <2>1 DEF AnswerIds, Confirms
<1>5. \A k \in 1 .. Answers' : k \in 1 .. Answers \/ k = Answers + 1
  BY <1>2
<1>6. AnsweredOnce'
  <2> SUFFICES ASSUME NEW k \in 1 .. Answers', NEW l \in 1 .. Answers',
                      NEW i \in 1 .. Len(AnswerIds(k)'), NEW j \in 1 .. Len(AnswerIds(l)'),
                      AnswerIds(k)'[i] = AnswerIds(l)'[j]
               PROVE  k = l /\ i = j
    BY DEF AnsweredOnce
  <2>1. CASE k \in 1 .. Answers /\ l \in 1 .. Answers
    BY <1>3, <2>1 DEF AnsweredOnce
  <2>2. CASE k = Answers + 1 /\ l = Answers + 1
    BY <1>4, <2>2
  <2>3. CASE k \in 1 .. Answers /\ l = Answers + 1
    BY <1>3, <1>4, <2>3
  <2>4. CASE k = Answers + 1 /\ l \in 1 .. Answers
    BY <1>3, <1>4, <2>4
  <2> QED
    BY <1>5, <2>1, <2>2, <2>3, <2>4
<1>7. AnswersAwaited'
  <2> SUFFICES ASSUME NEW k \in 1 .. Answers', NEW i \in 1 .. Len(AnswerIds(k)')
               PROVE  \E w \in waiters' :
                         /\ w.id = AnswerIds(k)'[i]
                         /\ ~Expecting(w.message)'
                         /\ ~named' /\ Confirms(k)' => Stored(w.message)'
    BY DEF AnswersAwaited
  <2>1. CASE k \in 1 .. Answers
    <3>1. PICK w \in waiters :
             /\ w.id = AnswerIds(k)[i]
             /\ ~Expecting(w.message)
             /\ ~named /\ Confirms(k) => Stored(w.message)
      BY <1>3, <2>1 DEF AnswersAwaited
    <3>2. w.message \in Messages
      BY DEF Basic, TypeOK
    <3> QED
      BY <1>3, <2>1, <3>1, <3>2
  <2>2. CASE k = Answers + 1
    <3>1. i \in 1 .. Len(s) /\ AnswerIds(k)'[i] = s[i]
      BY <1>4, <2>2
    <3>2. PICK w \in waiters : /\ w.id = s[i] /\ ~Expecting(w.message)'
                               /\ ~named /\ f.kind = "confirm" => Stored(w.message)'
      BY <3>1
    <3> QED
      BY <1>4, <2>2, <3>1, <3>2
  <2> QED
    BY <1>5, <2>1, <2>2
<1> QED
  BY <1>6, <1>7

\* A new message has a new id, which nothing answers yet.
LEMMA DeliveryRegister ==
  ASSUME Basic, WaitersOK, DeliveryOK, IdsApart', NEW c \in Calls, Register(c)
  PROVE  DeliveryOK'
<1> DEFINE f == Fresh(c)
           new == [id |-> FreshId(c), message |-> f]
<1>1. /\ f \in Messages /\ ids[f] = NoId /\ FreshId(c) \in Nat
      /\ ids' = [ids EXCEPT ![f] = FreshId(c)]
      /\ waiters' = WithWaiter(FreshId(c), f)
      /\ UNCHANGED <<closeVars, netVars, taskVars, brokerVars>>
  BY RegisterFacts, FreshFacts
<1>2. /\ Basic'
      /\ \A m \in Messages :
           /\ Current(m) \/ m = f => Current(m)'
           /\ Expecting(m)' => Expecting(m) \/ m = f
  BY BasicRegister
<1>3. waiters' = {w \in waiters : w.id # FreshId(c)} \cup {new}
  BY <1>1 DEF WithWaiter
<1> HIDE DEF f
<1>4. /\ \A w \in waiters : w.message \in Messages /\ Current(w.message)
                            /\ w.id = ids[w.message] /\ w.id \in Nat
      /\ ids \in [Messages -> Nat \cup {NoId}]
  BY DEF Basic, TypeOK, WaitersOK
<1>5. ids'[f] = FreshId(c) /\ \A m \in Messages : m # f => ids'[m] = ids[m]
  BY <1>1, <1>4
<1>6. \A w \in waiters : w.message # f /\ w.id # FreshId(c)
  <2> TAKE w \in waiters
  <2>1. w.message # f
    BY <1>1, <1>4 DEF NoId
  <2>2. Current(w.message)' /\ \A m \in Messages : m = f => Current(m)'
    BY <1>2, <1>4
  <2> QED
    BY <1>1, <1>4, <1>5, <2>1, <2>2 DEF IdsApart
<1>7. waiters' = waiters \cup {new}
  BY <1>3, <1>6
<1>8. AnsweredOnce' /\ AnswersAwaited'
  <2>1. \A w \in waiters : /\ Expecting(w.message)' => Expecting(w.message)
                           /\ Stored(w.message) => Stored(w.message)'
    BY <1>1, <1>2, <1>4, <1>6 DEF Stored
  <2> QED
    BY <1>1, <1>2, <1>7, <2>1, SameAnswers DEF DeliveryOK
<1>9. AllAwaited'
  <2> SUFFICES ASSUME NEW m \in Messages
               PROVE  /\ Expecting(m)' => [id |-> ids'[m], message |-> m] \in waiters'
                      /\ Has(pending', m) /\ ~named' => Stored(m)'
    BY DEF AllAwaited
  <2>1. Has(pending', m) /\ ~named' => Stored(m)'
    BY <1>1 DEF DeliveryOK, AllAwaited, Stored
  <2>2. ASSUME Expecting(m)' PROVE [id |-> ids'[m], message |-> m] \in waiters'
    <3>1. CASE m = f
      BY <1>5, <1>7, <3>1
    <3>2. CASE m # f
      BY <1>2, <1>5, <1>7, <2>2, <3>2 DEF DeliveryOK, AllAwaited
    <3> QED
      BY <3>1, <3>2
  <2> QED
    BY <2>1, <2>2
<1>10. ConfirmedStored' /\ ~panicked'
  BY <1>1 DEF DeliveryOK, ConfirmedStored, Stored
<1> QED
  BY <1>8, <1>9, <1>10 DEF DeliveryOK

\* Nothing is answered and nobody waits any more or any less.
LEMMA DeliverySame ==
  ASSUME Basic, Basic', DeliveryOK, toClient' = toClient, tasks' = tasks,
         waiters' = waiters, callbacks' = callbacks, panicked' = panicked, named' = named,
         ids' = ids,
         \A m \in Messages :
            /\ Expecting(m)' => Expecting(m)
            /\ Stored(m) => Stored(m)'
            /\ Has(pending', m) /\ ~named => Has(pending, m) \/ Stored(m)'
  PROVE  DeliveryOK'
<1>1. (\A w \in waiters : w.message \in Messages) /\ \A cb \in callbacks : cb.message \in Messages
  BY DEF Basic, TypeOK
<1>2. AnsweredOnce' /\ AnswersAwaited'
  BY <1>1, SameAnswers DEF DeliveryOK
<1>3. AllAwaited'
  BY DEF DeliveryOK, AllAwaited
<1>4. ConfirmedStored'
  BY <1>1 DEF DeliveryOK, ConfirmedStored
<1> QED
  BY <1>2, <1>3, <1>4 DEF DeliveryOK

\* Calls and workers.
LEMMA DeliveryCall ==
  ASSUME Basic, Basic', DeliveryOK, NEW w \in Workers,
         Refuse(w) \/ Add(w) \/ CountAdd(w) \/ Get(w) \/ SendStep(w),
         \A m \in Messages : Expecting(m)' => Expecting(m)
  PROVE  DeliveryOK'
<1>1. UNCHANGED <<log, ids, pending, named, waiters, toClient, tasks, panicked, callbacks>>
  BY CallFrame DEF Basic
<1> QED
  BY <1>1, DeliverySame DEF Stored

\* A message whose answer is on its way is waited for by itself.
LEMMA WaitsForItself ==
  ASSUME Basic, WaitersOK, DeliveryOK, NEW m \in Messages, Expecting(m)
  PROVE  /\ \A k \in 1 .. Answers : \A j \in 1 .. Len(AnswerIds(k)) : AnswerIds(k)[j] # ids[m]
         /\ [id |-> ids[m], message |-> m] \in waiters
<1> DEFINE own == [id |-> ids[m], message |-> m]
<1>1. own \in waiters /\ own.id = ids[m] /\ own.message = m
  BY DEF DeliveryOK, AllAwaited
<1> HIDE DEF own
<1>2. ASSUME NEW k \in 1 .. Answers, NEW j \in 1 .. Len(AnswerIds(k)), AnswerIds(k)[j] = ids[m]
      PROVE  FALSE
  <2>1. PICK w \in waiters : w.id = AnswerIds(k)[j] /\ ~Expecting(w.message)
    BY DEF DeliveryOK, AnswersAwaited
  <2>2. w = own
    BY <1>1, <1>2, <2>1 DEF WaitersOK
  <2> QED
    BY <1>1, <2>1, <2>2
<1> QED
  BY <1>1, <1>2 DEF own

\* What the broker stores stays stored.
LEMMA StoredStays ==
  ASSUME Basic, Next, NEW m \in Messages, Stored(m)
  PROVE  Stored(m)'
<1>1. log \in Seq(Messages) /\ (Stored(m) <=> Has(log, m)) /\ (Stored(m)' <=> Has(log', m))
  BY DEF Basic, TypeOK, Stored, Has
<1>2. CASE log' = log
  BY <1>1, <1>2
<1>3. ASSUME NEW n \in Messages, log' = Append(log, n) PROVE Stored(m)'
  BY <1>1, <1>3, HasAppend
<1> QED
  BY <1>2, <1>3, LogStep

\* OtherStep is a step.
LEMMA OtherIsNext ==
  ASSUME OtherStep
  PROVE  Next
BY DEF OtherStep, Next

\* A message is stored, or found a duplicate.
LEMMA DeliveryPublish ==
  ASSUME Basic, DeliveryOK, BrokerPublish
  PROVE  DeliveryOK'
<1>1. OtherStep /\ Next
  BY OtherIsNext DEF OtherStep, BrokerStep
<1> DEFINE n == Head(toBroker).message
<1>2. n \in Messages /\ pending \in Seq(Messages) /\ log \in Seq(Messages)
  BY HeadCommand DEF BrokerPublish, Basic, TypeOK
<1>3. /\ pending' = Append(pending, n)
      /\ ~named => log' = Append(log, n)
      /\ UNCHANGED <<toClient, tasks, waiters, callbacks, panicked, named, ids>>
  BY DEF BrokerPublish
<1> HIDE DEF n
<1>4. \A m \in Messages : Has(pending', m) /\ ~named => Has(pending, m) \/ Stored(m)'
  <2> TAKE m \in Messages
  <2>1. Has(pending', m) => Has(pending, m) \/ m = n
    BY <1>2, <1>3, HasAppend
  <2>2. ~named /\ m = n => Has(log', m)
    <3>1. Has(Append(log, n), n)
      BY <1>2, HasAppend
    <3> QED
      BY <1>3, <3>1
  <2> QED
    BY <2>1, <2>2 DEF Has, Stored
<1> QED
  BY <1>1, <1>3, <1>4, BasicOther, OtherMoves, StoredStays, DeliverySame

\* A message is rejected: it leaves the wire, and its id is answered.
LEMMA DeliveryReject ==
  ASSUME Basic, OnceOK, WaitersOK, DeliveryOK, BrokerReject
  PROVE  DeliveryOK'
<1>1. OtherStep /\ Next
  BY OtherIsNext DEF OtherStep, BrokerStep
<1>2. PICK n \in Messages :
         n = Head(toBroker).message /\ Head(toBroker) = PublishOf(n) /\ OnWire(n)
  BY HeadCommand DEF BrokerReject, Basic
<1> DEFINE s == IdsOf(<<n>>)
           f == [kind |-> "error", ids |-> s]
<1>3. s \in Seq(Nat) /\ Len(s) = 1 /\ s[1] = ids[n] /\ s # <<>>
  BY <1>2, ErrorFrame
<1>4. /\ toClient' = Append(toClient, f) /\ toBroker # <<>> /\ toBroker' = Tail(toBroker)
      /\ UNCHANGED <<tasks, waiters, callbacks, panicked, named, ids, pending, log>>
  BY <1>2 DEF BrokerReject
<1> HIDE DEF s
<1>5. f \in Frames /\ f.kind = "error" /\ f.ids = s
  BY <1>3 DEF Frames
<1> HIDE DEF f
<1>6. Basic' /\ \A m \in Messages : (Expecting(m)' => Expecting(m)) /\ (Stored(m) => Stored(m)')
  BY <1>1, BasicOther, OtherMoves, StoredStays
<1>7. ~Expecting(n)'
  <2>1. ~Adding(n) /\ ~Has(queue, n) /\ ~Held(n) /\ ~Has(pending, n)
        /\ Once(toBroker, PublishOf(n))
    BY <1>2 DEF OnceOK, AtOnePlace
  <2>2. ~OnWire(n)'
    BY <1>2, <1>4, <2>1, HasTail DEF OnWire, Basic, TypeOK
  <2> QED
    BY <1>1, <1>4, <2>1, <2>2, OtherFrame DEF Expecting, Adding, Held
<1>8. /\ \A k \in 1 .. Answers : \A j \in 1 .. Len(AnswerIds(k)) : AnswerIds(k)[j] # ids[n]
      /\ [id |-> ids[n], message |-> n] \in waiters
  BY <1>2, WaitsForItself DEF Expecting
<1>9. \E w \in waiters : w.id = ids[n] /\ w.message = n
  BY <1>8
<1>10. \A w \in waiters : w.message \in Messages
  BY DEF Basic, TypeOK
<1>11. AnsweredOnce' /\ AnswersAwaited'
  <2>1. \A i \in 1 .. Len(s) :
           /\ \A k \in 1 .. Answers : \A j \in 1 .. Len(AnswerIds(k)) : AnswerIds(k)[j] # s[i]
           /\ \E w \in waiters :
                /\ w.id = s[i] /\ ~Expecting(w.message)'
                /\ ~named /\ f.kind = "confirm" => Stored(w.message)'
    BY <1>3, <1>5, <1>7, <1>8, <1>9
  <2>2. \A i, j \in 1 .. Len(s) : s[i] = s[j] => i = j
    BY <1>3
  <2>3. s = (IF f.kind \in {"confirm", "error"} THEN f.ids ELSE <<>>)
    BY <1>5
  <2>4. f.kind \in {"confirm", "error"} => f.ids # <<>>
    BY <1>3, <1>5
  <2>5. \A w \in waiters : /\ Expecting(w.message)' => Expecting(w.message)
                           /\ Stored(w.message) => Stored(w.message)'
    BY <1>6, <1>10
  <2> QED
    BY <1>3, <1>4, <1>5, <1>6, <2>1, <2>2, <2>3, <2>4, <2>5, AnswerAdded DEF DeliveryOK
<1>12. AllAwaited'
  BY <1>4, <1>6 DEF DeliveryOK, AllAwaited
<1>13. ConfirmedStored' /\ ~panicked'
  BY <1>4 DEF DeliveryOK, ConfirmedStored, Stored
<1> QED
  BY <1>11, <1>12, <1>13 DEF DeliveryOK

\* Messages are confirmed: they are pending no more, and their ids are answered.
LEMMA DeliveryConfirm ==
  ASSUME Basic, OnceOK, WaitersOK, DeliveryOK, BrokerConfirm
  PROVE  DeliveryOK'
<1>1. OtherStep /\ Next
  BY OtherIsNext DEF OtherStep, BrokerStep
<1>2. PICK n \in 1 .. Len(pending) :
         /\ toClient' = Append(toClient, [kind |-> "confirm",
                                          ids |-> IdsOf(SubSeq(pending, 1, n))])
         /\ pending' = SubSeq(pending, n + 1, Len(pending))
  BY DEF BrokerConfirm
<1> DEFINE a == SubSeq(pending, 1, n)
           s == IdsOf(a)
           f == [kind |-> "confirm", ids |-> s]
<1>3. /\ s \in Seq(Nat) /\ Len(s) = n /\ s # <<>> /\ n \in Nat
      /\ \A i \in 1 .. n : s[i] = ids[pending[i]]
      /\ a \in Seq(Messages) /\ Len(a) = n
      /\ \A i \in 1 .. n : a[i] = pending[i] /\ a[i] \in Messages /\ Has(pending, a[i])
  BY ConfirmFrame
<1>4. /\ toClient' = Append(toClient, f)
      /\ UNCHANGED <<tasks, waiters, callbacks, panicked, named, ids, toBroker, log>>
  BY <1>2 DEF BrokerConfirm
<1>5. f \in Frames /\ f.kind = "confirm" /\ f.ids = s
  BY <1>3 DEF Frames
<1> HIDE DEF f, s
<1>6. Basic' /\ \A m \in Messages : (Expecting(m)' => Expecting(m)) /\ (Stored(m) => Stored(m)')
  BY <1>1, BasicOther, OtherMoves, StoredStays
<1>7. \A w \in waiters : w.message \in Messages
  BY DEF Basic, TypeOK
<1>8. pending \in Seq(Messages) /\ n \in 0 .. Len(pending) /\ Len(pending) \in Nat
  BY <1>3, LenProperties DEF Basic, TypeOK
<1>9. ASSUME NEW i \in 1 .. n
      PROVE  LET m == pending[i]
             IN  /\ m \in Messages /\ Has(pending, m) /\ Once(pending, m)
                 /\ Expecting(m) /\ i \in 1 .. Len(pending)
                 /\ ~Adding(m) /\ ~Has(queue, m) /\ ~Held(m) /\ ~OnWire(m)
                 /\ ~Has(pending', m)
  <2>1. PICK m \in Messages : m = pending[i]
    BY <1>3
  <2>2. Has(pending, m) /\ Has(a, m) /\ i \in 1 .. Len(pending)
    BY <1>3, <1>8, <2>1 DEF Has
  <2>3. AtOnePlace(m)
    BY DEF OnceOK
  <2>4. ~Has(pending', m)
    BY <1>2, <1>8, <2>2, <2>3, HasCut DEF AtOnePlace
  <2> QED
    BY <2>1, <2>2, <2>3, <2>4 DEF AtOnePlace, Expecting
<1>10. ASSUME NEW i \in 1 .. n, NEW m \in Messages, m = pending[i]
       PROVE  /\ ~Expecting(m)'
              /\ \A k \in 1 .. Answers : \A j \in 1 .. Len(AnswerIds(k)) : AnswerIds(k)[j] # s[i]
              /\ \E w \in waiters : w.id = s[i] /\ w.message = m
              /\ ~named => Stored(m)'
  <2>1. Expecting(m) /\ s[i] = ids[m]
    BY <1>3, <1>9, <1>10
  <2>2. ~Expecting(m)'
    <3>1. ~Adding(m) /\ ~Has(queue, m) /\ ~Held(m) /\ ~OnWire(m) /\ ~Has(pending', m)
      BY <1>9, <1>10
    <3>2. UNCHANGED <<pc, batch, queue, toBroker>>
      BY <1>1, <1>4, OtherFrame
    <3> QED
      BY <3>1, <3>2 DEF Expecting, Adding, Held, OnWire
  <2>3. /\ \A k \in 1 .. Answers : \A j \in 1 .. Len(AnswerIds(k)) : AnswerIds(k)[j] # ids[m]
        /\ [id |-> ids[m], message |-> m] \in waiters
    BY <2>1, WaitsForItself
  <2>4. ~named => Stored(m)'
    BY <1>6, <1>9, <1>10 DEF DeliveryOK, AllAwaited
  <2>5. \E w \in waiters : w.id = ids[m] /\ w.message = m
    BY <2>3
  <2> QED
    BY <2>1, <2>2, <2>3, <2>4, <2>5
<1>11. ASSUME NEW i \in 1 .. n, NEW j \in 1 .. n, s[i] = s[j]
       PROVE  i = j
  <2>1. PICK m \in Messages : m = pending[i]
    BY <1>3
  <2>2. PICK l \in Messages : l = pending[j]
    BY <1>3
  <2>3. PICK v \in waiters : v.id = s[i] /\ v.message = m
    BY <1>10, <2>1
  <2>4. PICK w \in waiters : w.id = s[j] /\ w.message = l
    BY <1>10, <2>2
  <2>5. m = l
    BY <1>11, <2>3, <2>4 DEF WaitersOK
  <2>6. Once(pending, m) /\ i \in 1 .. Len(pending) /\ j \in 1 .. Len(pending)
    BY <1>9, <2>1
  <2> QED
    BY <2>1, <2>2, <2>5, <2>6 DEF Once
<1>12. AnsweredOnce' /\ AnswersAwaited'
  <2>1. \A i \in 1 .. Len(s) :
           /\ \A k \in 1 .. Answers : \A j \in 1 .. Len(AnswerIds(k)) : AnswerIds(k)[j] # s[i]
           /\ \E w \in waiters :
                /\ w.id = s[i] /\ ~Expecting(w.message)'
                /\ ~named /\ f.kind = "confirm" => Stored(w.message)'
    BY <1>3, <1>10, SMTT(30)
  <2>2. \A i, j \in 1 .. Len(s) : s[i] = s[j] => i = j
    BY <1>3, <1>11
  <2>3. s = (IF f.kind \in {"confirm", "error"} THEN f.ids ELSE <<>>)
    BY <1>5
  <2>4. f.kind \in {"confirm", "error"} => f.ids # <<>>
    BY <1>3, <1>5
  <2>5. \A w \in waiters : /\ Expecting(w.message)' => Expecting(w.message)
                           /\ Stored(w.message) => Stored(w.message)'
    BY <1>6, <1>7
  <2> QED
    BY <1>3, <1>4, <1>5, <1>6, <2>1, <2>2, <2>3, <2>4, <2>5, AnswerAdded DEF DeliveryOK
<1>13. AllAwaited'
  <2>1. \A m \in Messages : Has(pending', m) => Has(pending, m)
    BY <1>2, <1>8, HasCut
  <2> QED
    BY <1>4, <1>6, <2>1 DEF DeliveryOK, AllAwaited
<1>14. ConfirmedStored' /\ ~panicked'
  BY <1>4 DEF DeliveryOK, ConfirmedStored, Stored
<1> QED
  BY <1>12, <1>13, <1>14 DEF DeliveryOK

\* The broker answers DeletePublisher.
LEMMA DeliveryDelete ==
  ASSUME Basic, DeliveryOK, BrokerDelete
  PROVE  DeliveryOK'
<1>1. OtherStep /\ Next
  BY OtherIsNext DEF OtherStep, BrokerStep
<1>2. /\ \E f \in Frames : /\ toClient' = Append(toClient, f)
                           /\ f.kind \notin {"confirm", "error"}
      /\ UNCHANGED <<tasks, waiters, callbacks, panicked, named, ids, pending, log>>
  <2>1. [kind |-> "deleted"] \in Frames /\ [kind |-> "refused"] \in Frames
    BY DEF Frames
  <2> QED
    BY <2>1 DEF BrokerDelete
<1>3. PICK f \in Frames : toClient' = Append(toClient, f) /\ f.kind \notin {"confirm", "error"}
  BY <1>2
<1>4. PICK s \in Seq(Nat) : s = <<>> /\ Len(s) = 0
  BY EmptySeq
<1>5. Basic' /\ \A m \in Messages : (Expecting(m)' => Expecting(m)) /\ (Stored(m) => Stored(m)')
  BY <1>1, BasicOther, OtherMoves, StoredStays
<1>6. \A w \in waiters : /\ Expecting(w.message)' => Expecting(w.message)
                         /\ Stored(w.message) => Stored(w.message)'
  BY <1>5 DEF Basic, TypeOK
<1>7. /\ f.kind \in {"confirm", "error"} => f.ids # <<>>
      /\ s = (IF f.kind \in {"confirm", "error"} THEN f.ids ELSE <<>>)
      /\ \A i, j \in 1 .. Len(s) : s[i] = s[j] => i = j
      /\ \A i \in 1 .. Len(s) :
            /\ \A k \in 1 .. Answers : \A j \in 1 .. Len(AnswerIds(k)) : AnswerIds(k)[j] # s[i]
            /\ \E w \in waiters :
                 /\ w.id = s[i] /\ ~Expecting(w.message)'
                 /\ ~named /\ f.kind = "confirm" => Stored(w.message)'
  BY <1>3, <1>4
<1>8. AnsweredOnce' /\ AnswersAwaited'
  <2>1. /\ AnsweredOnce /\ AnswersAwaited /\ Basic' /\ named' = named
        /\ tasks' = tasks /\ waiters' = waiters /\ toClient' = Append(toClient, f)
    BY <1>2, <1>3, <1>5 DEF DeliveryOK
  <2> QED
    BY <1>6, <1>7, <2>1, AnswerAdded, ZenonT(40)
<1>9. AllAwaited'
  BY <1>2, <1>5 DEF DeliveryOK, AllAwaited
<1>10. ConfirmedStored' /\ ~panicked'
  BY <1>2 DEF DeliveryOK, ConfirmedStored, Stored
<1> QED
  BY <1>8, <1>9, <1>10 DEF DeliveryOK

\* Answers move on unchanged, or are lost.
LEMMA DeliveryShift ==
  ASSUME Basic, DeliveryOK, OtherStep, NEW F,
         \A k \in 1 .. Answers' : /\ F[k] \in 1 .. Answers
                                  /\ AnswerIds(k)' = AnswerIds(F[k])
                                  /\ Confirms(k)' <=> Confirms(F[k]),
         \A k, l \in 1 .. Answers' : F[k] = F[l] => k = l,
         UNCHANGED <<waiters, callbacks, panicked, log, pending>>
  PROVE  DeliveryOK'
<1>1. Basic' /\ (\A m \in Messages : Expecting(m)' => Expecting(m)) /\ ids' = ids /\ named' = named
  BY BasicOther, OtherMoves, OtherFrame
<1> DEFINE D == [k \in Nat |-> 0]
<1>2. \A k \in 1 .. Answers' : D[k] = 0
  OBVIOUS
<1> HIDE DEF D
<1>3. \A k \in 1 .. Answers : Len(AnswerIds(k)) \in Nat
  BY AnswerFacts, LenProperties
<1>4. Renumbers(F, D)
  <2>1. ASSUME NEW k \in 1 .. Answers'
        PROVE  /\ F[k] \in 1 .. Answers /\ D[k] \in {0, 1}
               /\ Len(AnswerIds(F[k])) = Len(AnswerIds(k)') + D[k]
               /\ \A i \in 1 .. Len(AnswerIds(k)') : AnswerIds(k)'[i] = AnswerIds(F[k])[i + D[k]]
               /\ Confirms(k)' <=> Confirms(F[k])
    <3>1. F[k] \in 1 .. Answers /\ AnswerIds(k)' = AnswerIds(F[k]) /\ D[k] = 0
          /\ (Confirms(k)' <=> Confirms(F[k]))
      BY <1>2
    <3>2. Len(AnswerIds(F[k])) \in Nat
      BY <1>3, <3>1
    <3> QED
      BY <3>1, <3>2
  <2> QED
    BY <2>1 DEF Renumbers
<1>5. \A w \in waiters : /\ Expecting(w.message)' => Expecting(w.message)
                         /\ Stored(w.message) => Stored(w.message)'
  BY <1>1, SMTT(30) DEF Basic, TypeOK, Stored
<1>6. AnsweredOnce' /\ AnswersAwaited'
  BY <1>1, <1>4, <1>5, Renumbered DEF DeliveryOK
<1>7. AllAwaited'
  BY <1>1 DEF DeliveryOK, AllAwaited, Stored
<1>8. ConfirmedStored' /\ ~panicked'
  BY <1>1 DEF DeliveryOK, ConfirmedStored, Stored
<1> QED
  BY <1>6, <1>7, <1>8 DEF DeliveryOK

\* The dispatcher task starts a handler task with a frame's ids.
LEMMA DeliveryReadConfirm ==
  ASSUME Basic, DeliveryOK, ReadConfirm
  PROVE  DeliveryOK'
<1>1. OtherStep
  BY DEF OtherStep, ReadStep
<1>2. PICK T \in Nat : T = Len(tasks)
  BY AnswerFacts
<1>3. PICK C \in Nat \ {0} : C = Len(toClient)
  BY HeadFrame DEF ReadConfirm
<1>4. /\ Len(toClient') = C - 1
      /\ \A j \in 1 .. C - 1 : toClient'[j] = toClient[j + 1]
      /\ toClient[1].kind \in {"confirm", "error"}
  BY <1>3, HeadFrame DEF ReadConfirm
<1>5. /\ Len(tasks') = T + 1
      /\ \A j \in 1 .. T : tasks'[j] = tasks[j]
      /\ tasks'[T + 1].ids = toClient[1].ids
      /\ tasks'[T + 1].ok <=> toClient[1].kind = "confirm"
  <2> DEFINE t == [ok |-> Head(toClient).kind = "confirm", ids |-> Head(toClient).ids]
  <2>1. toClient # <<>> /\ tasks' = Append(tasks, t) /\ Head(toClient).kind \in {"confirm", "error"}
    BY DEF ReadConfirm
  <2>2. t \in Tasks /\ t.ids = toClient[1].ids /\ t.ok = (toClient[1].kind = "confirm")
    BY <2>1, HeadFrame DEF Tasks
  <2> HIDE DEF t
  <2>3. tasks \in Seq(Tasks)
    BY DEF Basic, TypeOK, Tasks
  <2>4. /\ Len(tasks') = Len(tasks) + 1 /\ tasks'[Len(tasks) + 1] = t
        /\ \A j \in 1 .. Len(tasks) : tasks'[j] = tasks[j]
    BY <2>1, <2>2, <2>3, AppendProperties
  <2> QED
    BY <1>2, <2>2, <2>4
<1>6. Answers = T + C /\ Answers' = T + C
  BY <1>2, <1>3, <1>4, <1>5 DEF Answers
<1> DEFINE F == [k \in Nat |-> k]
<1>7. \A k \in 1 .. T + C : F[k] = k
  OBVIOUS
<1> HIDE DEF F
<1>8. ASSUME NEW k \in 1 .. T + C
      PROVE  AnswerIds(k)' = AnswerIds(k) /\ (Confirms(k)' <=> Confirms(k))
  <2>1. CASE k <= T
    <3>1. k <= Len(tasks) /\ k <= Len(tasks') /\ tasks'[k] = tasks[k]
      BY <1>2, <1>5, <2>1
    <3> QED
      BY <3>1 DEF AnswerIds, Confirms
  <2>2. CASE k = T + 1
    <3>1. ~(k <= Len(tasks)) /\ k <= Len(tasks') /\ k - Len(tasks) = 1
      BY <1>2, <1>5, <2>2
    <3> QED
      BY <1>4, <1>5, <2>2, <3>1 DEF AnswerIds, Confirms
  <2>3. CASE k > T + 1
    <3>1. /\ ~(k <= Len(tasks)) /\ ~(k <= Len(tasks'))
          /\ k - Len(tasks') \in 1 .. C - 1 /\ (k - Len(tasks')) + 1 = k - Len(tasks)
      BY <1>2, <1>5, <2>3
    <3>2. toClient'[k - Len(tasks')] = toClient[k - Len(tasks)]
      BY <1>4, <3>1
    <3> QED
      BY <3>1, <3>2 DEF AnswerIds, Confirms
  <2> QED
    BY <2>1, <2>2, <2>3
<1>9. UNCHANGED <<waiters, callbacks, panicked, log, pending>>
  BY DEF ReadConfirm
<1>10. /\ \A k \in 1 .. Answers' : /\ F[k] \in 1 .. Answers
                                   /\ AnswerIds(k)' = AnswerIds(F[k])
                                   /\ Confirms(k)' <=> Confirms(F[k])
       /\ \A k, l \in 1 .. Answers' : F[k] = F[l] => k = l
  BY <1>6, <1>7, <1>8
<1> QED
  BY <1>1, <1>9, <1>10, DeliveryShift

\* The answer to DeletePublisher has no ids.
LEMMA DeliveryReadDeleted ==
  ASSUME Basic, DeliveryOK, ReadDeleted
  PROVE  DeliveryOK'
<1>1. OtherStep
  BY DEF OtherStep, ReadStep
<1>2. PICK T \in Nat : T = Len(tasks)
  BY AnswerFacts, SMTT(30)
<1>3. PICK C \in Nat \ {0} : C = Len(toClient)
  BY HeadFrame DEF ReadDeleted
<1>4. /\ Len(toClient') = C - 1 /\ tasks' = tasks
      /\ \A j \in 1 .. C - 1 : toClient'[j] = toClient[j + 1]
  BY <1>3, HeadFrame DEF ReadDeleted
<1>5. Answers = T + C /\ Answers' = T + C - 1
  BY <1>2, <1>3, <1>4 DEF Answers
<1> DEFINE F == [k \in Nat |-> IF k <= T THEN k ELSE k + 1]
<1>6. \A k \in 1 .. T + C - 1 : F[k] = IF k <= T THEN k ELSE k + 1
  OBVIOUS
<1> HIDE DEF F
<1>7. ASSUME NEW k \in 1 .. T + C - 1
      PROVE  /\ F[k] \in 1 .. T + C
             /\ AnswerIds(k)' = AnswerIds(F[k]) /\ (Confirms(k)' <=> Confirms(F[k]))
  <2>1. CASE k <= T
    <3>1. k <= Len(tasks) /\ k <= Len(tasks') /\ tasks'[k] = tasks[k] /\ F[k] = k
      BY <1>2, <1>4, <1>6, <2>1
    <3> QED
      BY <3>1 DEF AnswerIds, Confirms
  <2>2. CASE ~(k <= T)
    <3>1. F[k] = k + 1
      BY <1>6, <2>2
    <3>2. /\ ~(k + 1 <= Len(tasks)) /\ ~(k <= Len(tasks')) /\ k + 1 \in 1 .. T + C
          /\ k - Len(tasks') \in 1 .. C - 1 /\ (k - Len(tasks')) + 1 = (k + 1) - Len(tasks)
      BY <1>2, <1>4, <2>2
    <3>3. toClient'[k - Len(tasks')] = toClient[(k + 1) - Len(tasks)]
      BY <1>4, <3>2
    <3> QED
      BY <3>1, <3>2, <3>3 DEF AnswerIds, Confirms
  <2> QED
    BY <2>1, <2>2
<1>8. UNCHANGED <<waiters, callbacks, panicked, log, pending>>
  BY DEF ReadDeleted
<1>9. \A k, l \in 1 .. T + C - 1 : F[k] = F[l] => k = l
  BY <1>6
<1>10. /\ \A k \in 1 .. Answers' : /\ F[k] \in 1 .. Answers
                                   /\ AnswerIds(k)' = AnswerIds(F[k])
                                   /\ Confirms(k)' <=> Confirms(F[k])
       /\ \A k, l \in 1 .. Answers' : F[k] = F[l] => k = l
  BY <1>5, <1>7, <1>9
<1> QED
  BY <1>1, <1>8, <1>10, DeliveryShift

\* The last frames are lost with the connection.
LEMMA DeliveryDisconnect ==
  ASSUME Basic, DeliveryOK, Disconnect
  PROVE  DeliveryOK'
<1>1. OtherStep
  BY DEF OtherStep
<1>2. PICK n \in 0 .. Len(toClient) : toClient' = SubSeq(toClient, 1, n)
  BY DEF Disconnect
<1>3. PICK T \in Nat : T = Len(tasks)
  BY AnswerFacts
<1>4. /\ toClient \in Seq(Frames) /\ Len(toClient) \in Nat
      /\ \A i \in 1 .. n : toClient[i] \in Frames
  BY LenProperties, ElementOfSeq DEF Basic, TypeOK
<1>5. /\ Len(toClient') = n /\ \A i \in 1 .. n : toClient'[i] = toClient[i]
      /\ tasks' = tasks
  BY <1>2, <1>4, HasCut, SubSeqProperties DEF Disconnect
<1>6. Answers' = T + n /\ Answers = T + Len(toClient)
  BY <1>3, <1>5 DEF Answers
<1> DEFINE F == [k \in Nat |-> k]
<1>7. \A k \in 1 .. T + n : F[k] = k
  BY <1>4
<1> HIDE DEF F
<1>8. ASSUME NEW k \in 1 .. T + n
      PROVE  AnswerIds(k)' = AnswerIds(k) /\ (Confirms(k)' <=> Confirms(k)) /\ k \in 1 .. Answers
  <2>1. CASE k <= T
    BY <1>3, <1>4, <1>5, <1>6, <2>1 DEF AnswerIds, Confirms
  <2>2. CASE ~(k <= T)
    <3>1. ~(k <= Len(tasks)) /\ k - Len(tasks) \in 1 .. n /\ k \in 1 .. Answers
      BY <1>3, <1>4, <1>6, <2>2
    <3> QED
      BY <1>5, <3>1 DEF AnswerIds, Confirms
  <2> QED
    BY <2>1, <2>2
<1>9. UNCHANGED <<waiters, callbacks, panicked, log, pending>>
  BY DEF Disconnect
<1>10. /\ \A k \in 1 .. Answers' : /\ F[k] \in 1 .. Answers
                                   /\ AnswerIds(k)' = AnswerIds(F[k])
                                   /\ Confirms(k)' <=> Confirms(F[k])
       /\ \A k, l \in 1 .. Answers' : F[k] = F[l] => k = l
  BY <1>6, <1>7, <1>8
<1> QED
  BY <1>1, <1>9, <1>10, DeliveryShift

\* The next id of handler task i is called back for: no answer has it any more.
LEMMA CallbackLeaves ==
  ASSUME Basic, AnsweredOnce, NEW i \in 1 .. Len(tasks), NEW w \in waiters, Call(i, w),
         NEW F, NEW D,
         \A k \in 1 .. Answers' :
            /\ F[k] \in 1 .. Answers /\ D[k] \in {0, 1}
            /\ Len(AnswerIds(F[k])) = Len(AnswerIds(k)') + D[k]
            /\ \A j \in 1 .. Len(AnswerIds(k)') : AnswerIds(k)'[j] = AnswerIds(F[k])[j + D[k]]
            /\ Confirms(k)' <=> Confirms(F[k]),
         \A k, l \in 1 .. Answers' : F[k] = F[l] => k = l,
         \A k \in 1 .. Answers' : F[k] = i => D[k] = 1,
         \A k \in 1 .. Answers' : Len(AnswerIds(k)') \in Nat
  PROVE  Renumbers(F, D)
<1>1. /\ i \in 1 .. Answers /\ Len(AnswerIds(i)) \in Nat /\ 1 \in 1 .. Len(AnswerIds(i))
      /\ w.id = AnswerIds(i)[1]
  <2>1. i \in 1 .. Answers /\ AnswerIds(i) = tasks[i].ids
    BY AnswerFacts
  <2>2. tasks[i].ids \in Seq(Nat) /\ tasks[i].ids # <<>>
    BY TaskFacts
  <2>3. Len(tasks[i].ids) \in Nat \ {0} /\ Head(tasks[i].ids) = tasks[i].ids[1]
    BY <2>2, LenProperties, EmptySeq
  <2> QED
    BY <2>1, <2>3 DEF Call
<1>2. ASSUME NEW k \in 1 .. Answers', NEW j \in 1 .. Len(AnswerIds(k)'),
             NEW v \in waiters, v.id = AnswerIds(k)'[j]
      PROVE  v \in waiters'
  <2>1. waiters' = waiters \ {w}
    BY DEF Call
  <2>2. SUFFICES ASSUME v = w PROVE FALSE
    BY <2>1
  <2>3. F[k] \in 1 .. Answers /\ D[k] \in {0, 1} /\ Len(AnswerIds(k)') \in Nat
    OBVIOUS
  <2>4. j + D[k] \in 1 .. Len(AnswerIds(F[k])) /\ AnswerIds(F[k])[j + D[k]] = AnswerIds(i)[1]
    BY <1>1, <1>2, <2>2, <2>3, SMTT(30)
  <2>5. F[k] = i /\ j + D[k] = 1
    BY <1>1, <2>3, <2>4, OneAnswer, SMTT(30)
  <2> QED
    BY <2>3, <2>5
<1> QED
  BY <1>2 DEF Renumbers

\* A handler task finds its waiter.
LEMMA DeliveryCallback ==
  ASSUME Basic, WaitersOK, DeliveryOK, NEW i \in 1 .. Len(tasks), NEW w \in waiters,
         Callback(i), Call(i, w)
  PROVE  DeliveryOK'
<1>1. OtherStep /\ Next
  BY OtherIsNext DEF OtherStep, TaskStep
<1>2. /\ Basic' /\ \A m \in Messages : Expecting(m)' => Expecting(m)
      /\ UNCHANGED <<named, ids, toClient, log, pending, panicked>>
      /\ waiters' = waiters \ {w}
      /\ callbacks' = callbacks \cup {[message |-> w.message, id |-> w.id, ok |-> tasks[i].ok]}
  BY <1>1, BasicOther, OtherMoves DEF Callback, Call
<1>3. w.message \in Messages /\ \A v \in waiters : v.message \in Messages
  BY DEF Basic, TypeOK
<1>4. PICK T \in Nat : T = Len(tasks)
  BY AnswerFacts
<1>5. PICK C \in Nat : C = Len(toClient)
  BY AnswerFacts
<1> DEFINE rest == Tail(tasks[i].ids)
<1>6. /\ tasks[i].ids \in Seq(Nat) /\ tasks[i].ids # <<>> /\ rest \in Seq(Nat)
      /\ Left(i, rest) /\ AnswerIds(i) = tasks[i].ids /\ i \in 1 .. T /\ i \in 1 .. Answers
  BY <1>4, TaskFacts, AnswerFacts DEF Callback
<1>7. /\ Len(tasks[i].ids) \in Nat \ {0} /\ Head(tasks[i].ids) = tasks[i].ids[1]
      /\ Len(rest) = Len(tasks[i].ids) - 1 /\ Len(rest) \in Nat
      /\ \A j \in 1 .. Len(rest) : rest[j] = tasks[i].ids[j + 1]
  BY <1>6, HeadTailProperties, LenProperties, EmptySeq
<1> HIDE DEF rest
<1>8. \A k \in 1 .. Answers : Len(AnswerIds(k)) \in Nat
  BY AnswerFacts, LenProperties
<1>9. \E F, D : Renumbers(F, D)
  <2>1. CASE rest # <<>>
    <3>1. /\ Len(tasks') = T
          /\ tasks'[i].ids = rest /\ tasks'[i].ok = tasks[i].ok
          /\ \A j \in 1 .. T : j # i => tasks'[j] = tasks[j]
      BY <1>4, <1>6, <2>1, LeftTasks DEF Basic
    <3>2. Answers = T + C /\ Answers' = T + C
      BY <1>2, <1>4, <1>5, <3>1 DEF Answers
    <3> DEFINE F == [k \in Nat |-> k]
               D == [k \in Nat |-> IF k = i THEN 1 ELSE 0]
    <3>3. \A k \in 1 .. T + C : F[k] = k /\ D[k] = IF k = i THEN 1 ELSE 0
      OBVIOUS
    <3> HIDE DEF F, D
    <3>4. AnswerIds(i)' = rest /\ (Confirms(i)' <=> Confirms(i))
      <4>1. i <= Len(tasks) /\ i <= Len(tasks')
        BY <1>4, <1>6, <3>1
      <4> QED
        BY <3>1, <4>1 DEF AnswerIds, Confirms
    <3>5. ASSUME NEW k \in 1 .. T + C, k # i
          PROVE  AnswerIds(k)' = AnswerIds(k) /\ (Confirms(k)' <=> Confirms(k))
      <4>1. CASE k <= T
        <5>1. k <= Len(tasks) /\ k <= Len(tasks') /\ tasks'[k] = tasks[k]
          BY <1>4, <3>1, <3>5, <4>1
        <5> QED
          BY <5>1 DEF AnswerIds, Confirms
      <4>2. CASE ~(k <= T)
        BY <1>2, <1>4, <3>1, <4>2 DEF AnswerIds, Confirms
      <4> QED
        BY <4>1, <4>2
    <3>6. ASSUME NEW k \in 1 .. Answers'
          PROVE  /\ F[k] \in 1 .. Answers /\ D[k] \in {0, 1}
                 /\ Len(AnswerIds(F[k])) = Len(AnswerIds(k)') + D[k]
                 /\ \A j \in 1 .. Len(AnswerIds(k)') :
                       AnswerIds(k)'[j] = AnswerIds(F[k])[j + D[k]]
                 /\ Confirms(k)' <=> Confirms(F[k])
                 /\ F[k] = i => D[k] = 1
                 /\ Len(AnswerIds(k)') \in Nat
      <4>1. F[k] = k /\ D[k] = (IF k = i THEN 1 ELSE 0) /\ k \in 1 .. Answers /\ k \in 1 .. T + C
        BY <3>2, <3>3
      <4>2. CASE k = i
        <5>1. D[k] = 1 /\ F[k] = i /\ AnswerIds(k)' = rest /\ (Confirms(k)' <=> Confirms(F[k]))
              /\ AnswerIds(F[k]) = tasks[i].ids
          BY <1>6, <3>4, <4>1, <4>2
        <5>2. Len(tasks[i].ids) = Len(rest) + 1
          BY <1>7
        <5> QED
          BY <1>7, <3>2, <4>1, <5>1, <5>2
      <4>3. CASE k # i
        <5>1. AnswerIds(k)' = AnswerIds(k) /\ (Confirms(k)' <=> Confirms(k))
              /\ Len(AnswerIds(k)) \in Nat /\ D[k] = 0
          BY <1>8, <3>5, <4>1, <4>3
        <5> QED
          BY <4>1, <4>3, <5>1
      <4> QED
        BY <4>2, <4>3
    <3>7. \A k, l \in 1 .. Answers' : F[k] = F[l] => k = l
      BY <3>2, <3>3
    <3>8. Renumbers(F, D)
      BY <3>6, <3>7, CallbackLeaves DEF DeliveryOK
    <3> QED
      BY <3>8
  <2>2. CASE rest = <<>>
    <3>1. /\ Len(tasks') = T - 1
          /\ \A j \in 1 .. T - 1 : tasks'[j] = tasks[IF j < i THEN j ELSE j + 1]
      BY <1>4, <1>6, <2>2, LeftTasks DEF Basic
    <3>2. Answers = T + C /\ Answers' = T - 1 + C
      BY <1>2, <1>4, <1>5, <3>1 DEF Answers
    <3> DEFINE F == [k \in Nat |-> IF k < i THEN k ELSE k + 1]
               D == [k \in Nat |-> 0]
    <3>3. \A k \in 1 .. T - 1 + C : F[k] = (IF k < i THEN k ELSE k + 1) /\ D[k] = 0
      OBVIOUS
    <3> HIDE DEF F, D
    <3>4. ASSUME NEW k \in 1 .. T - 1 + C
          PROVE  /\ F[k] \in 1 .. T + C /\ F[k] # i
                 /\ AnswerIds(k)' = AnswerIds(F[k]) /\ (Confirms(k)' <=> Confirms(F[k]))
      <4>1. F[k] = (IF k < i THEN k ELSE k + 1) /\ i \in Int
        BY <1>6, <3>3
      <4>2. F[k] \in 1 .. T + C /\ F[k] # i
        BY <4>1
      <4>3. CASE k <= T - 1
        <5>1. F[k] <= Len(tasks) /\ k <= Len(tasks') /\ tasks'[k] = tasks[F[k]]
          <6>1. k \in 1 .. T - 1
            BY <4>3
          <6>2. tasks'[k] = tasks[F[k]]
            BY <3>1, <4>1, <6>1
          <6>3. F[k] <= T
            BY <4>1, <6>1
          <6> QED
            BY <1>4, <3>1, <4>3, <6>2, <6>3
        <5> QED
          BY <4>2, <5>1 DEF AnswerIds, Confirms
      <4>4. CASE ~(k <= T - 1)
        <5>1. F[k] = k + 1
          BY <1>6, <4>1, <4>4
        <5>2. ~(F[k] <= Len(tasks)) /\ ~(k <= Len(tasks')) /\ F[k] - Len(tasks) = k - Len(tasks')
          BY <1>4, <3>1, <4>4, <5>1
        <5> QED
          BY <1>2, <4>2, <5>2 DEF AnswerIds, Confirms
      <4> QED
        BY <4>3, <4>4
    <3>5. ASSUME NEW k \in 1 .. Answers'
          PROVE  /\ F[k] \in 1 .. Answers /\ D[k] \in {0, 1}
                 /\ Len(AnswerIds(F[k])) = Len(AnswerIds(k)') + D[k]
                 /\ \A j \in 1 .. Len(AnswerIds(k)') :
                       AnswerIds(k)'[j] = AnswerIds(F[k])[j + D[k]]
                 /\ Confirms(k)' <=> Confirms(F[k])
                 /\ F[k] = i => D[k] = 1
                 /\ Len(AnswerIds(k)') \in Nat
      <4>1. /\ F[k] \in 1 .. Answers /\ F[k] # i /\ D[k] = 0
            /\ AnswerIds(k)' = AnswerIds(F[k]) /\ (Confirms(k)' <=> Confirms(F[k]))
        BY <3>2, <3>3, <3>4
      <4>2. Len(AnswerIds(F[k])) \in Nat
        BY <1>8, <4>1
      <4> QED
        BY <4>1, <4>2
    <3>6. ASSUME NEW k \in 1 .. Answers', NEW l \in 1 .. Answers', F[k] = F[l]
          PROVE  k = l
      <4>1. k \in Int /\ l \in Int /\ i \in Int
        BY <1>6, <3>2
      <4>2. F[k] = (IF k < i THEN k ELSE k + 1) /\ F[l] = (IF l < i THEN l ELSE l + 1)
        BY <3>2, <3>3
      <4>3. CASE k < i
        <5>1. F[l] = k
          BY <3>6, <4>2, <4>3
        <5> QED
          BY <4>1, <4>2, <4>3, <5>1
      <4>4. CASE ~(k < i)
        <5>1. F[l] = k + 1
          BY <3>6, <4>2, <4>4
        <5> QED
          BY <4>1, <4>2, <4>4, <5>1
      <4> QED
        BY <4>3, <4>4
    <3>7. Renumbers(F, D)
      BY <3>5, <3>6, CallbackLeaves DEF DeliveryOK
    <3> QED
      BY <3>7
  <2> QED
    BY <2>1, <2>2
<1>10. AnsweredOnce' /\ AnswersAwaited'
  <2>1. \A v \in waiters : /\ Expecting(v.message)' => Expecting(v.message)
                           /\ Stored(v.message) => Stored(v.message)'
    BY <1>2, <1>3 DEF Stored
  <2>2. PICK F, D : Renumbers(F, D)
    BY <1>9
  <2> QED
    BY <1>2, <2>1, <2>2, Renumbered DEF DeliveryOK
<1>11. /\ ~Expecting(w.message)
       /\ ~named /\ tasks[i].ok => Stored(w.message)
  <2>1. 1 \in 1 .. Len(AnswerIds(i)) /\ (Confirms(i) <=> tasks[i].ok) /\ w.id = AnswerIds(i)[1]
    BY <1>6, <1>7, AnswerFacts DEF Call
  <2>2. PICK v \in waiters : /\ v.id = AnswerIds(i)[1]
                             /\ ~Expecting(v.message)
                             /\ ~named /\ Confirms(i) => Stored(v.message)
    BY <1>6, <2>1 DEF DeliveryOK, AnswersAwaited
  <2>3. v = w
    BY <2>1, <2>2 DEF WaitersOK
  <2> QED
    BY <2>1, <2>2, <2>3
<1>12. AllAwaited'
  <2> SUFFICES ASSUME NEW m \in Messages
               PROVE  /\ Expecting(m)' => [id |-> ids'[m], message |-> m] \in waiters'
                      /\ Has(pending', m) /\ ~named' => Stored(m)'
    BY DEF AllAwaited
  <2>1. Has(pending', m) /\ ~named' => Stored(m)'
    BY <1>2 DEF DeliveryOK, AllAwaited, Stored
  <2>2. ASSUME Expecting(m) PROVE [id |-> ids[m], message |-> m] \in waiters \ {w}
    BY <1>11, <2>2 DEF DeliveryOK, AllAwaited
  <2> QED
    BY <1>2, <2>1, <2>2
<1>13. ConfirmedStored' /\ ~panicked'
  BY <1>2, <1>11 DEF DeliveryOK, ConfirmedStored, Stored
<1> QED
  BY <1>10, <1>12, <1>13 DEF DeliveryOK

\* A handler task that finds no waiter: there is none.
LEMMA NeverPanics ==
  ASSUME Basic, DeliveryOK, NEW i \in 1 .. Len(tasks)
  PROVE  ~Panic(i)
<1>1. i \in 1 .. Answers /\ AnswerIds(i) = tasks[i].ids
  BY AnswerFacts
<1>2. tasks[i].ids \in Seq(Nat) /\ tasks[i].ids # <<>>
  BY TaskFacts
<1>3. 1 \in 1 .. Len(AnswerIds(i)) /\ Head(tasks[i].ids) = AnswerIds(i)[1]
  BY <1>1, <1>2, LenProperties, EmptySeq
<1>4. \E w \in waiters : w.id = AnswerIds(i)[1]
  BY <1>1, <1>3 DEF DeliveryOK, AnswersAwaited
<1> QED
  BY <1>3, <1>4 DEF Panic

\* A new process has nothing on its way.
LEMMA DeliveryRestart ==
  ASSUME Basic, DeliveryOK, Restart
  PROVE  DeliveryOK'
<1>1. /\ tasks' = <<>> /\ toClient' = <<>> /\ queue' = <<>> /\ pending' = <<>> /\ toBroker' = <<>>
      /\ batch' = [w \in Workers |-> <<>>]
      /\ \A w \in Workers : pc'[w] \in {"idle", "gone"}
      /\ UNCHANGED <<named, panicked, callbacks, log>>
  BY DEF Restart
<1>2. Answers' = 0
  BY <1>1 DEF Answers
<1>3. ASSUME NEW m \in Messages PROVE ~Expecting(m)' /\ ~Has(pending', m)
  BY <1>1, HasEmpty DEF Expecting, Adding, Held, OnWire, Workers, Calls
<1>4. AnsweredOnce' /\ AnswersAwaited'
  BY <1>2 DEF AnsweredOnce, AnswersAwaited
<1>5. AllAwaited'
  BY <1>3 DEF AllAwaited
<1>6. ConfirmedStored' /\ ~panicked'
  BY <1>1 DEF DeliveryOK, ConfirmedStored, Stored
<1> QED
  BY <1>4, <1>5, <1>6 DEF DeliveryOK

\* Producer::close and the end of the stream answer nothing.
LEMMA DeliveryClose ==
  ASSUME Basic, DeliveryOK, CloseBegin \/ CloseStep \/ ReadEnd
  PROVE  DeliveryOK'
<1>1. OtherStep
  BY DEF OtherStep, ReadStep
<1>2. UNCHANGED <<toClient, tasks, waiters, callbacks, panicked, named, ids, pending, log>>
  BY DEF CloseBegin, CloseStep, CloseDelete, CloseClient, ReadEnd
<1> QED
  BY <1>1, <1>2, BasicOther, OtherMoves, DeliverySame DEF Stored

\* Everybody but the calls.
LEMMA DeliveryOther ==
  ASSUME Basic, OnceOK, WaitersOK, DeliveryOK, OtherStep
  PROVE  DeliveryOK'
<1>1. CASE CloseBegin \/ CloseStep \/ ReadEnd
  BY <1>1, DeliveryClose
<1>2. CASE ReadConfirm \/ ReadDeleted \/ Disconnect
  BY <1>2, DeliveryReadConfirm, DeliveryReadDeleted, DeliveryDisconnect
<1>3. CASE BrokerStep
  BY <1>3, DeliveryPublish, DeliveryReject, DeliveryConfirm, DeliveryDelete DEF BrokerStep
<1>4. ASSUME NEW i \in 1 .. Len(tasks), TaskStep(i) PROVE DeliveryOK'
  <2>1. Callback(i)
    BY <1>4, NeverPanics DEF TaskStep
  <2>2. PICK w \in waiters : Call(i, w)
    BY <2>1 DEF Callback
  <2> QED
    BY <2>1, <2>2, DeliveryCallback
<1> QED
  BY <1>1, <1>2, <1>3, <1>4 DEF OtherStep, ReadStep

\* DeliveryOK is kept by every step that leaves the ids of the process apart.
LEMMA DeliveryNext ==
  Basic /\ OnceOK /\ WaitersOK /\ IdsApart' /\ DeliveryOK /\ [Next]_vars => DeliveryOK'
<1> SUFFICES ASSUME Basic, OnceOK, WaitersOK, IdsApart', DeliveryOK, [Next]_vars
             PROVE  DeliveryOK'
  OBVIOUS
<1>1. ASSUME NEW c \in Calls, Register(c) PROVE DeliveryOK'
  BY <1>1, DeliveryRegister
<1>2. ASSUME NEW w \in Workers,
             Get(w) \/ SendStep(w) \/ (w \in Calls /\ (Refuse(w) \/ Add(w) \/ CountAdd(w)))
      PROVE  DeliveryOK'
  <2>1. Basic'
    BY BasicNext
  <2>2. \A m \in Messages : Expecting(m)' => Expecting(m)
    BY <1>2, CallMoves, WorkerMoves DEF Basic
  <2> QED
    BY <1>2, <2>1, <2>2, DeliveryCall
<1>3. CASE OtherStep
  BY <1>3, DeliveryOther
<1>4. CASE Restart
  BY <1>4, DeliveryRestart
<1>5. CASE UNCHANGED vars
  <2>1. Basic'
    BY BasicNext
  <2>2. UNCHANGED <<pc, batch, queue, toBroker, pending, log, toClient, tasks, waiters,
                    callbacks, panicked, named, ids>>
    BY <1>5 DEF vars
  <2> QED
    BY <2>1, <2>2, DeliverySame DEF Expecting, Adding, Held, OnWire, Stored
<1> QED
  BY <1>1, <1>2, <1>3, <1>4, <1>5, NextCases DEF Workers

\* Answers find their waiters in every run whose ids stay apart.
LEMMA DeliveryAlways == Spec /\ []IdsApart => []DeliveryOK
<1>1. Init => DeliveryOK
  <2> SUFFICES ASSUME Init PROVE DeliveryOK
    OBVIOUS
  <2>1. Answers = 0 /\ callbacks = {} /\ ~panicked
    BY DEF Init, Answers
  <2>2. ASSUME NEW m \in Messages PROVE ~Expecting(m) /\ ~Has(pending, m)
    BY HasEmpty DEF Init, Expecting, Adding, Held, OnWire, Workers, Calls
  <2> QED
    BY <2>1, <2>2 DEF DeliveryOK, AnsweredOnce, AnswersAwaited, AllAwaited, ConfirmedStored
<1> QED
  BY <1>1, DeliveryNext, BasicAlways, OnceAlways, WaitersAlways, PTL DEF Spec

\* The todo!() of with_waiter is never reached in a run in which no two messages of a
\* process have the same publishing id: whichever task sends a message, its waiter is
\* there before the broker can answer, and no answer comes twice, whatever restarts,
\* rejections, lost answers and closes come between.
THEOREM NeverTodo == Spec /\ []IdsApart => []NoPanic
BY DeliveryAlways, PTL DEF DeliveryOK, NoPanic

\* In such a run a callback tells of its own message: it has the id the message was sent
\* with, and what a nameless producer is told is confirmed is in the stream.  A message is
\* called back for at most once, and nothing waits for it then.
THEOREM CallbacksAreMine == Spec /\ []IdsApart => []CallbackIsMine
<1>1. WaitersOK /\ DeliveryOK => CallbackIsMine
  BY DEF WaitersOK, DeliveryOK, ConfirmedStored, CallbackIsMine
<1> QED
  BY <1>1, WaitersAlways, DeliveryAlways, PTL

-----------------------------------------------------------------------------
(* No message is lost while the connection is up.                          *)

\* An answer to the message is on its way, as a frame or in a handler task.
InFrames(m) == \E i \in 1 .. Len(toClient) : /\ toClient[i].kind \in {"confirm", "error"}
                                             /\ Has(toClient[i].ids, ids[m])
InTasks(m)  == \E i \in 1 .. Len(tasks) : Has(tasks[i].ids, ids[m])

\* A message of the living process is still to be answered, or its answer is on its way
\* or has arrived.
Followed(m) == CalledBack(m) \/ Expecting(m) \/ InFrames(m) \/ InTasks(m)
FollowedOK  == open => \A m \in Messages : Current(m) => Followed(m)

\* A call's new message is held by the call, and nothing else moves.
LEMMA RegisterKeeps ==
  ASSUME Basic, NEW c \in Calls, Register(c), NEW m \in Messages, Expecting(m) \/ m = Fresh(c)
  PROVE  Expecting(m)'
<1> DEFINE f == Fresh(c)
<1>1. c \in Singles => f = c
  BY RegisterFacts, FreshFacts
<1>2. AfterRegister(c, f) /\ UNCHANGED <<queue, toBroker, pending>>
  BY RegisterFacts
<1>3. f \in Messages
  BY RegisterFacts, FreshFacts
<1> HIDE DEF f
<1>4. /\ c \in Workers /\ pc \in [Workers -> Points] /\ batch \in [Workers -> Seq(Messages)]
      /\ batch[c] \in Seq(Messages) /\ Singles \subseteq Workers
  BY DEF Basic, TypeOK, Points, Workers, Calls
<1>5. \A n : Has(Append(batch[c], f), n) <=> Has(batch[c], n) \/ n = f
  BY <1>3, <1>4, HasAppend
<1>6. CASE c \in Singles
  <2>1. pc' = [pc EXCEPT ![c] = "add"] /\ batch' = batch /\ f = c
    BY <1>1, <1>2, <1>6 DEF AfterRegister
  <2>2. Adding(m) \/ m = f => Adding(m)'
    BY <1>4, <1>6, <2>1 DEF Adding
  <2> QED
    BY <1>2, <2>1, <2>2 DEF Expecting, Held, OnWire, f
<1>7. CASE c \notin Singles
  <2>1. pc' = [pc EXCEPT ![c] = pc'[c]] /\ batch' = [batch EXCEPT ![c] = Append(batch[c], f)]
    BY <1>2, <1>4, <1>7 DEF AfterRegister
  <2>2. Adding(m) => Adding(m)'
    BY <1>4, <1>7, <2>1 DEF Adding
  <2>3. Held(m) \/ m = f => Held(m)'
    <3>1. batch'[c] = Append(batch[c], f) /\ \A w \in Workers \ {c} : batch'[w] = batch[w]
      BY <1>4, <2>1
    <3> QED
      BY <1>4, <1>5, <3>1, ZenonT(40) DEF Held
  <2> QED
    BY <1>2, <2>2, <2>3 DEF Expecting, OnWire, f
<1> QED
  BY <1>6, <1>7

\* A call puts its message into the channel.
LEMMA CallKeeps ==
  ASSUME Basic, NEW c \in Calls, Refuse(c) \/ Add(c) \/ CountAdd(c), NEW m \in Messages,
         Expecting(m)
  PROVE  Expecting(m)'
<1>1. /\ pc \in [Workers -> Points] /\ queue \in Seq(Messages) /\ c \in Workers
      /\ Singles \subseteq Workers
  BY DEF Basic, TypeOK, Points, Workers, Calls
<1>2. CASE Refuse(c) \/ CountAdd(c)
  <2>1. pc[c] # "add" /\ pc' = [pc EXCEPT ![c] = pc'[c]]
        /\ UNCHANGED <<batch, queue, toBroker, pending>>
    BY <1>1, <1>2 DEF Refuse, MayCall, CountAdd
  <2>2. Adding(m) => Adding(m)'
    BY <1>1, <2>1 DEF Adding
  <2> QED
    BY <2>1, <2>2 DEF Expecting, Held, OnWire
<1>3. CASE Add(c)
  <2>1. /\ pc' = [pc EXCEPT ![c] = "count"] /\ queue' = Append(queue, c)
        /\ UNCHANGED <<batch, toBroker, pending>>
    BY <1>3 DEF Add
  <2>2. c \in Messages
    BY <1>3, SingleContent DEF Add, Basic, CallsOK, Calls
  <2>3. Has(queue', m) <=> Has(queue, m) \/ m = c
    BY <1>1, <2>1, <2>2, HasAppend
  <2>4. Adding(m) => Adding(m)' \/ m = c
    BY <1>1, <2>1 DEF Adding
  <2> QED
    BY <2>1, <2>3, <2>4 DEF Expecting, Held, OnWire
<1> QED
  BY <1>2, <1>3

\* A worker loses nothing of what it drains, as long as it can write.
LEMMA WorkerKeeps ==
  ASSUME Basic, open, NEW w \in Workers, Get(w) \/ SendStep(w), NEW m \in Messages,
         Expecting(m)
  PROVE  Expecting(m)'
<1>1. /\ pc \in [Workers -> Points] /\ batch \in [Workers -> Seq(Messages)]
      /\ batch[w] \in Seq(Messages) /\ toBroker \in Seq(Commands) /\ Singles \subseteq Workers
  BY DEF Basic, TypeOK, Points, Workers, Calls
<1>2. pc[w] # "add" /\ pc' = [pc EXCEPT ![w] = pc'[w]] /\ pending' = pending
  BY <1>1 DEF Get, SendStep, CountSub, PublishOk, PublishError
<1>3. Adding(m) => Adding(m)'
  BY <1>1, <1>2 DEF Adding
<1>4. CASE Get(w)
  <2>1. batch[w] = <<>>
    BY <1>4 DEF Get, Basic, CallsOK, Workers
  <2>2. batch' = [batch EXCEPT ![w] = queue] /\ UNCHANGED toBroker
    BY <1>4 DEF Get
  <2>3. batch'[w] = queue /\ \A v \in Workers \ {w} : batch'[v] = batch[v]
    BY <1>1, <2>2
  <2>4. Held(m) \/ Has(queue, m) => Held(m)'
    BY <2>1, <2>3, HasEmpty DEF Held
  <2> QED
    BY <1>2, <1>3, <2>2, <2>4 DEF Expecting, OnWire
<1>5. CASE CountSub(w)
  BY <1>2, <1>3, <1>5 DEF CountSub, Expecting, Held, OnWire
<1>6. CASE PublishOk(w)
  <2>1. /\ batch' = [batch EXCEPT ![w] = <<>>] /\ queue' = queue
        /\ toBroker' = toBroker \o PublishCommand(batch[w])
    BY <1>6 DEF PublishOk
  <2>2. /\ PublishCommand(batch[w]) \in Seq(Commands)
        /\ Has(PublishCommand(batch[w]), PublishOf(m)) <=> Has(batch[w], m)
    BY <1>1, PublishedBatch
  <2>3. OnWire(m) \/ Has(batch[w], m) => OnWire(m)'
    BY <1>1, <2>1, <2>2, HasConcat DEF OnWire
  <2>4. \A v \in Workers \ {w} : batch'[v] = batch[v]
    BY <1>1, <2>1
  <2>5. Held(m) => Held(m)' \/ Has(batch[w], m)
    BY <2>4 DEF Held
  <2> QED
    BY <1>2, <1>3, <2>1, <2>3, <2>5 DEF Expecting
<1> QED
  BY <1>4, <1>5, <1>6 DEF SendStep, PublishError
\* A frame more is a frame more.
LEMMA FrameKeeps ==
  ASSUME Basic, NEW f \in Frames, toClient' = Append(toClient, f), ids' = ids, NEW m \in Messages,
         InFrames(m) \/ (f.kind \in {"confirm", "error"} /\ Has(f.ids, ids[m]))
  PROVE  InFrames(m)'
<1>1. /\ Len(toClient) \in Nat /\ Len(toClient') = Len(toClient) + 1
      /\ \A j \in 1 .. Len(toClient) : toClient'[j] = toClient[j]
      /\ toClient'[Len(toClient) + 1] = f
  BY AppendProperties, LenProperties DEF Basic, TypeOK
<1>2. CASE InFrames(m)
  BY <1>1, <1>2 DEF InFrames
<1>3. CASE f.kind \in {"confirm", "error"} /\ Has(f.ids, ids[m])
  <2>1. Len(toClient) + 1 \in 1 .. Len(toClient')
    BY <1>1
  <2> QED
    BY <1>1, <1>3, <2>1 DEF InFrames
<1> QED
  BY <1>2, <1>3

\* The broker answers for what it takes from the wire.
LEMMA BrokerKeeps ==
  ASSUME Basic, BrokerStep, NEW m \in Messages, Followed(m)
  PROVE  Followed(m)'
<1>1. /\ toBroker \in Seq(Commands) /\ pending \in Seq(Messages)
      /\ UNCHANGED <<pc, batch, queue, ids, tasks, callbacks>>
  BY DEF Basic, TypeOK, BrokerStep, BrokerPublish, BrokerReject, BrokerConfirm, BrokerDelete
<1>2. /\ CalledBack(m) => CalledBack(m)'
      /\ InTasks(m) => InTasks(m)'
      /\ Adding(m) \/ Has(queue, m) \/ Held(m) => Expecting(m)'
  BY <1>1 DEF CalledBack, InTasks, Expecting, Adding, Held
<1>3. CASE BrokerPublish
  <2>1. PICK n \in Messages : n = Head(toBroker).message /\ Head(toBroker) = PublishOf(n)
    BY <1>3, HeadCommand DEF BrokerPublish, Basic
  <2>2. /\ toBroker # <<>> /\ toBroker' = Tail(toBroker) /\ toClient' = toClient
        /\ pending' = Append(pending, n)
    BY <1>3, <2>1 DEF BrokerPublish
  <2>3. OnWire(m) => OnWire(m)' \/ m = n
    <3>1. Has(toBroker, PublishOf(m)) <=> PublishOf(m) = Head(toBroker)
                                          \/ Has(Tail(toBroker), PublishOf(m))
      BY <1>1, <2>2, HasTail
    <3> QED
      BY <2>1, <2>2, <3>1 DEF OnWire, PublishOf
  <2>4. Has(pending', m) <=> Has(pending, m) \/ m = n
    BY <1>1, <2>2, HasAppend
  <2>5. InFrames(m) => InFrames(m)'
    BY <1>1, <2>2 DEF InFrames
  <2> QED
    BY <1>2, <2>3, <2>4, <2>5 DEF Followed, Expecting
<1>4. CASE BrokerReject
  <2>1. PICK n \in Messages :
           n = Head(toBroker).message /\ Head(toBroker) = PublishOf(n) /\ OnWire(n)
    BY <1>4, HeadCommand DEF BrokerReject, Basic
  <2> DEFINE s == IdsOf(<<n>>)
             f == [kind |-> "error", ids |-> s]
  <2>2. s \in Seq(Nat) /\ Len(s) = 1 /\ s[1] = ids[n]
    BY <2>1, ErrorFrame
  <2>3. /\ toBroker # <<>> /\ toBroker' = Tail(toBroker) /\ pending' = pending
        /\ toClient' = Append(toClient, f)
    BY <1>4, <2>1 DEF BrokerReject
  <2> HIDE DEF s
  <2>4. f \in Frames /\ f.kind = "error" /\ f.ids = s
    BY <2>2 DEF Frames
  <2> HIDE DEF f
  <2>5. OnWire(m) => OnWire(m)' \/ m = n
    <3>1. Has(toBroker, PublishOf(m)) <=> PublishOf(m) = Head(toBroker)
                                          \/ Has(Tail(toBroker), PublishOf(m))
      BY <1>1, <2>3, HasTail
    <3> QED
      BY <2>1, <2>3, <3>1 DEF OnWire, PublishOf
  <2>6. InFrames(m) \/ m = n => InFrames(m)'
    <3>1. Has(s, ids[n])
      BY <2>2 DEF Has
    <3> QED
      BY <1>1, <2>3, <2>4, <3>1, FrameKeeps
  <2> QED
    BY <1>2, <2>3, <2>5, <2>6 DEF Followed, Expecting
<1>5. CASE BrokerConfirm
  <2>1. PICK n \in 1 .. Len(pending) :
           /\ toClient' = Append(toClient, [kind |-> "confirm",
                                            ids |-> IdsOf(SubSeq(pending, 1, n))])
           /\ pending' = SubSeq(pending, n + 1, Len(pending))
    BY <1>5 DEF BrokerConfirm
  <2> DEFINE a == SubSeq(pending, 1, n)
             s == IdsOf(a)
             f == [kind |-> "confirm", ids |-> s]
  <2>2. /\ s \in Seq(Nat) /\ Len(s) = n /\ n \in Nat /\ Len(a) = n
        /\ \A i \in 1 .. n : s[i] = ids[pending[i]] /\ a[i] = pending[i]
    BY ConfirmFrame
  <2>3. toClient' = Append(toClient, f) /\ toBroker' = toBroker
    BY <1>5, <2>1 DEF BrokerConfirm
  <2>4. Has(pending, m) => Has(a, m) \/ Has(pending', m)
    <3>1. n \in 0 .. Len(pending)
      BY <2>2
    <3> QED
      BY <1>1, <2>1, <3>1, HasCut
  <2>5. Has(a, m) => Has(s, ids[m])
    BY <2>2 DEF Has
  <2>6. f \in Frames /\ f.kind = "confirm" /\ f.ids = s
    BY <2>2 DEF Frames
  <2> HIDE DEF a, s, f
  <2>7. InFrames(m) \/ Has(a, m) => InFrames(m)'
    BY <1>1, <2>3, <2>5, <2>6, FrameKeeps
  <2> QED
    BY <1>2, <2>3, <2>4, <2>7 DEF Followed, Expecting, OnWire
<1>6. CASE BrokerDelete
  <2>1. PICK f \in Frames : toClient' = Append(toClient, f)
    <3>1. [kind |-> "deleted"] \in Frames /\ [kind |-> "refused"] \in Frames
      BY DEF Frames
    <3> QED
      BY <1>6, <3>1 DEF BrokerDelete
  <2>2. toBroker # <<>> /\ toBroker' = Tail(toBroker) /\ pending' = pending
        /\ Head(toBroker).kind = "delete"
    BY <1>6 DEF BrokerDelete
  <2>3. OnWire(m) => OnWire(m)'
    <3>1. Has(toBroker, PublishOf(m)) <=> PublishOf(m) = Head(toBroker)
                                          \/ Has(Tail(toBroker), PublishOf(m))
      BY <1>1, <2>2, HasTail
    <3>2. PublishOf(m).kind = "publish"
      BY DEF PublishOf
    <3> QED
      BY <2>2, <3>1, <3>2 DEF OnWire
  <2>4. InFrames(m) => InFrames(m)'
    BY <1>1, <2>1, FrameKeeps
  <2> QED
    BY <1>2, <2>2, <2>3, <2>4 DEF Followed, Expecting
<1> QED
  BY <1>3, <1>4, <1>5, <1>6 DEF BrokerStep

\* The dispatcher task hands every answer to a handler task.
LEMMA ReadKeeps ==
  ASSUME Basic, open, ReadStep, NEW m \in Messages, Followed(m)
  PROVE  Followed(m)'
<1>1. UNCHANGED <<pc, batch, queue, toBroker, pending, ids, callbacks>>
  BY DEF ReadStep, ReadConfirm, ReadDeleted, ReadEnd
<1>2. CalledBack(m) \/ Expecting(m) => CalledBack(m)' \/ Expecting(m)'
  BY <1>1 DEF CalledBack, Expecting, Adding, Held, OnWire
<1>3. CASE ReadConfirm
  <2> DEFINE t == [ok |-> Head(toClient).kind = "confirm", ids |-> Head(toClient).ids]
  <2>1. /\ toClient # <<>> /\ toClient' = Tail(toClient) /\ tasks' = Append(tasks, t)
        /\ Head(toClient).kind \in {"confirm", "error"}
    BY <1>3 DEF ReadConfirm
  <2>2. t \in Tasks /\ t.ids = toClient[1].ids
    BY <2>1, HeadFrame DEF Tasks
  <2> HIDE DEF t
  <2>3. tasks \in Seq(Tasks)
    BY DEF Basic, TypeOK, Tasks
  <2>4. /\ Len(tasks) \in Nat /\ Len(tasks') = Len(tasks) + 1 /\ tasks'[Len(tasks) + 1] = t
        /\ \A j \in 1 .. Len(tasks) : tasks'[j] = tasks[j]
    BY <2>1, <2>2, <2>3, AppendProperties, LenProperties
  <2>5. Len(tasks) + 1 \in 1 .. Len(tasks')
    BY <2>4
  <2>6. InTasks(m) \/ Has(toClient[1].ids, ids[m]) => InTasks(m)'
    BY <1>1, <2>2, <2>4, <2>5 DEF InTasks
  <2>7. InFrames(m) => InFrames(m)' \/ Has(toClient[1].ids, ids[m])
    <3> SUFFICES ASSUME NEW j \in 1 .. Len(toClient), j # 1,
                        toClient[j].kind \in {"confirm", "error"}, Has(toClient[j].ids, ids[m])
                 PROVE  InFrames(m)'
      BY DEF InFrames
    <3>1. PICK i \in 1 .. Len(toClient) - 1 : i + 1 = j
      BY <2>1, HeadFrame
    <3>2. i \in 1 .. Len(toClient') /\ toClient'[i] = toClient[j]
      BY <2>1, <3>1, HeadFrame
    <3> QED
      BY <1>1, <3>2 DEF InFrames
  <2> QED
    BY <1>2, <2>6, <2>7 DEF Followed
<1>4. CASE ReadDeleted
  <2>1. /\ toClient # <<>> /\ toClient' = Tail(toClient) /\ tasks' = tasks
        /\ Head(toClient).kind \in {"deleted", "refused"}
    BY <1>4 DEF ReadDeleted
  <2>2. toClient[1].kind \notin {"confirm", "error"}
    BY <2>1, HeadFrame
  <2>3. InFrames(m) => InFrames(m)'
    <3> SUFFICES ASSUME NEW j \in 1 .. Len(toClient),
                        toClient[j].kind \in {"confirm", "error"}, Has(toClient[j].ids, ids[m])
                 PROVE  InFrames(m)'
      BY DEF InFrames
    <3>1. j # 1
      BY <2>2
    <3>2. PICK i \in 1 .. Len(toClient) - 1 : i + 1 = j
      BY <2>1, <3>1, HeadFrame
    <3>3. i \in 1 .. Len(toClient') /\ toClient'[i] = toClient[j]
      BY <2>1, <3>2, HeadFrame
    <3> QED
      BY <1>1, <3>3 DEF InFrames
  <2> QED
    BY <1>1, <1>2, <2>1, <2>3 DEF Followed, InTasks
<1> QED
  BY <1>3, <1>4 DEF ReadStep, ReadEnd
\* A handler task calls back for the id it takes, and keeps the others.
LEMMA TaskKeeps ==
  ASSUME Basic, WaitersOK, IdsApart, NEW i \in 1 .. Len(tasks), Callback(i),
         NEW m \in Messages, Current(m), Followed(m)
  PROVE  Followed(m)'
<1>1. PICK w \in waiters : Call(i, w)
  BY DEF Callback
<1>2. UNCHANGED <<pc, batch, queue, toBroker, pending, ids, toClient>>
  BY DEF Callback
<1> DEFINE rest == Tail(tasks[i].ids)
<1>3. /\ tasks[i].ids \in Seq(Nat) /\ tasks[i].ids # <<>> /\ rest \in Seq(Nat) /\ Left(i, rest)
      /\ Has(tasks[i].ids, ids[m]) => ids[m] = Head(tasks[i].ids) \/ Has(rest, ids[m])
  BY TaskFacts, HasTail DEF Callback
<1> HIDE DEF rest
<1>4. CalledBack(m) \/ m = w.message => CalledBack(m)'
  <2>1. callbacks' = callbacks \cup {[message |-> w.message, id |-> w.id, ok |-> tasks[i].ok]}
    BY <1>1 DEF Call
  <2>2. [message |-> w.message, id |-> w.id, ok |-> tasks[i].ok].message = w.message
    OBVIOUS
  <2> QED
    BY <2>1, <2>2 DEF CalledBack
<1>5. ids[m] = Head(tasks[i].ids) => m = w.message
  <2>1. w.message \in Messages /\ Current(w.message) /\ w.id = ids[w.message]
    BY DEF WaitersOK, Basic, TypeOK
  <2>2. w.id = Head(tasks[i].ids)
    BY <1>1 DEF Call
  <2> QED
    BY <2>1, <2>2 DEF IdsApart
<1>6. Expecting(m) \/ InFrames(m) => Expecting(m)' \/ InFrames(m)'
  BY <1>2 DEF Expecting, Adding, Held, OnWire, InFrames
<1>7. PICK T \in Nat : T = Len(tasks)
  BY LenProperties DEF Basic, TypeOK
<1>8. ASSUME NEW j \in 1 .. Len(tasks), j # i, Has(tasks[j].ids, ids[m])
      PROVE  InTasks(m)'
  <2>1. CASE rest # <<>>
    <3>1. Len(tasks') = Len(tasks) /\ tasks'[j] = tasks[j]
      BY <1>3, <1>8, <2>1, LeftTasks DEF Basic
    <3> QED
      BY <1>2, <1>8, <3>1 DEF InTasks
  <2>2. CASE rest = <<>>
    <3>1. /\ Len(tasks') = T - 1
          /\ \A k \in 1 .. T - 1 : tasks'[k] = tasks[IF k < i THEN k ELSE k + 1]
      BY <1>3, <1>7, <2>2, LeftTasks DEF Basic
    <3>2. PICK k \in 1 .. T - 1 : (IF k < i THEN k ELSE k + 1) = j
      <4>1. CASE j < i
        <5>1. j \in 1 .. T - 1
          BY <1>7, <4>1
        <5> QED
          BY <4>1, <5>1
      <4>2. CASE ~(j < i)
        <5>1. j - 1 \in 1 .. T - 1 /\ ~(j - 1 < i) /\ (j - 1) + 1 = j
          BY <1>7, <1>8, <4>2
        <5> QED
          BY <5>1
      <4> QED
        BY <4>1, <4>2
    <3>3. k \in 1 .. Len(tasks') /\ tasks'[k] = tasks[j]
      BY <3>1, <3>2
    <3> QED
      BY <1>2, <1>8, <3>3 DEF InTasks
  <2> QED
    BY <2>1, <2>2
<1>9. ASSUME Has(rest, ids[m])
      PROVE  InTasks(m)'
  <2>1. rest # <<>>
    BY <1>9, HasEmpty
  <2>2. Len(tasks') = Len(tasks) /\ tasks'[i].ids = rest
    BY <1>3, <2>1, LeftTasks DEF Basic
  <2> QED
    BY <1>2, <1>9, <2>2 DEF InTasks
<1>10. InTasks(m) => InTasks(m)' \/ m = w.message
  BY <1>3, <1>5, <1>8, <1>9 DEF InTasks
<1> QED
  BY <1>4, <1>6, <1>10 DEF Followed

\* Producer::close takes nothing away before it closes the client.
LEMMA CloseKeeps ==
  ASSUME Basic, CloseBegin \/ CloseStep, open', NEW m \in Messages, Followed(m)
  PROVE  Followed(m)'
<1>1. UNCHANGED <<pc, batch, queue, pending, ids, toClient, tasks, callbacks>>
  BY DEF CloseBegin, CloseStep, CloseDelete, CloseClient
<1>2. OnWire(m) => OnWire(m)'
  <2>1. [kind |-> "delete"] \in Commands /\ toBroker \in Seq(Commands)
    BY DEF Commands, Basic, TypeOK
  <2>2. OnWire(m) => Has(Append(toBroker, [kind |-> "delete"]), PublishOf(m))
    BY <2>1, HasAppend DEF OnWire
  <2>3. toBroker' = toBroker \/ toBroker' = Append(toBroker, [kind |-> "delete"])
    BY DEF CloseBegin, CloseStep, CloseDelete, CloseClient
  <2> QED
    BY <2>2, <2>3 DEF OnWire
<1> QED
  BY <1>1, <1>2 DEF Followed, CalledBack, Expecting, Adding, Held, InFrames, InTasks

\* Everybody but the calls.
LEMMA OtherKeeps ==
  ASSUME Basic, WaitersOK, DeliveryOK, IdsApart, OtherStep, open, open',
         NEW m \in Messages, Current(m), Followed(m)
  PROVE  Followed(m)'
<1>1. CASE \E i \in 1 .. Len(tasks) : TaskStep(i)
  BY <1>1, TaskKeeps, NeverPanics DEF TaskStep
<1>2. CASE CloseBegin \/ CloseStep
  BY <1>2, CloseKeeps
<1>3. CASE ReadStep \/ BrokerStep
  BY <1>3, ReadKeeps, BrokerKeeps
<1> QED
  BY <1>1, <1>2, <1>3 DEF OtherStep, Disconnect

\* Nobody but Restart connects again.
LEMMA OpenBefore ==
  ASSUME Next, ~Restart, open'
  PROVE  open
BY DEF Next, CallStep, TimerStep, SendStep, Refuse, Register, Add, CountAdd, Get, CountSub,
       PublishOk, PublishError, CloseBegin, CloseStep, CloseDelete, CloseClient, ReadStep,
       ReadConfirm, ReadDeleted, ReadEnd, TaskStep, Callback, Panic, BrokerStep,
       BrokerPublish, BrokerReject, BrokerConfirm, BrokerDelete, Disconnect

\* Every step that leaves the ids of the process apart keeps sight of its messages.
LEMMA FollowedNext ==
  Basic /\ WaitersOK /\ DeliveryOK /\ IdsApart /\ FollowedOK /\ [Next]_vars => FollowedOK'
<1> SUFFICES ASSUME Basic, WaitersOK, DeliveryOK, IdsApart, FollowedOK, [Next]_vars, open',
                    NEW m \in Messages, Current(m)'
             PROVE  Followed(m)'
  BY DEF FollowedOK
<1>1. ASSUME NEW c \in Calls, Register(c) PROVE Followed(m)'
  <2>1. open
    BY <1>1 DEF Register
  <2>2. CASE m = Fresh(c)
    BY <1>1, <2>2, RegisterKeeps DEF Followed
  <2>3. CASE m # Fresh(c)
    <3>1. Current(m) /\ Followed(m)
      BY <1>1, <2>1, <2>3, BasicRegister DEF FollowedOK
    <3>2. /\ ids'[m] = ids[m]
          /\ UNCHANGED <<toClient, tasks, callbacks>>
      <4>1. ids' = [ids EXCEPT ![Fresh(c)] = FreshId(c)] /\ UNCHANGED <<toClient, tasks, callbacks>>
        BY <1>1, RegisterFacts
      <4> QED
        BY <2>3, <4>1 DEF Basic, TypeOK
    <3>3. Expecting(m) => Expecting(m)'
      BY <1>1, RegisterKeeps
    <3> QED
      BY <3>1, <3>2, <3>3 DEF Followed, CalledBack, InFrames, InTasks
  <2> QED
    BY <2>2, <2>3
<1>2. ASSUME NEW w \in Workers, ~Restart, \A c \in Calls : ~Register(c), Next,
             Get(w) \/ SendStep(w) \/ (w \in Calls /\ (Refuse(w) \/ Add(w) \/ CountAdd(w)))
      PROVE  Followed(m)'
  <2>1. open /\ Current(m) /\ Followed(m)
    BY <1>2, OpenBefore, OnlyRegister DEF FollowedOK
  <2>2. Expecting(m) => Expecting(m)'
    BY <1>2, <2>1, CallKeeps, WorkerKeeps
  <2>3. UNCHANGED <<ids, toClient, tasks, callbacks>>
    BY <1>2, CallFrame DEF Basic
  <2> QED
    BY <2>1, <2>2, <2>3 DEF Followed, CalledBack, InFrames, InTasks
<1>3. CASE OtherStep /\ ~Restart
  <2>1. Next /\ Current(m)
    BY <1>3, OtherIsNext, BasicOther
  <2>2. open /\ Followed(m)
    BY <1>3, <2>1, OpenBefore DEF FollowedOK
  <2> QED
    BY <1>3, <2>1, <2>2, OtherKeeps
<1>4. CASE Restart
  BY <1>4, BasicRestart
<1>5. CASE UNCHANGED vars
  <2>1. UNCHANGED <<pc, batch, queue, toBroker, pending, toClient, tasks, callbacks, ids, open>>
    BY <1>5 DEF vars
  <2>2. open /\ Current(m)
    BY <2>1 DEF Current
  <2>3. Followed(m)
    BY <2>2 DEF FollowedOK
  <2> QED
    BY <2>1, <2>3 DEF Followed, CalledBack, Expecting, Adding, Held, OnWire, InFrames, InTasks
<1> QED
  BY <1>1, <1>2, <1>3, <1>4, <1>5, NextCases DEF Workers

\* While the connection is up no message of a living process is lost, in a run in which no
\* two messages of a process have the same publishing id: whichever worker drains it,
\* however the answers are batched and whatever the handler tasks' order, it is with its
\* call, in the accumulator, in a worker's batch, on the wire, at the broker or answered
\* until its callback is called.
THEOREM NeverLost == Spec /\ []IdsApart => []NothingLost
<1>1. Init => FollowedOK
  BY DEF Init, FollowedOK, Current
<1>2. Basic /\ FollowedOK => NothingLost
  <2> SUFFICES ASSUME Basic, FollowedOK, open, NEW c \in Calls, NEW k \in 1 .. Len(Content(c)),
                      pc[c] # "gone", ids[Content(c)[k]] # NoId
               PROVE  CalledBack(Content(c)[k]) \/ Underway(Content(c)[k])
    BY DEF NothingLost
  <2>1. PICK m \in Messages : m = Content(c)[k]
    BY ContentType, ElementOfSeq
  <2>2. Current(m)
    <3>1. \A d \in Calls : Has(Content(d), m) => d = c
      BY <2>1, OneOwner DEF Has
    <3> QED
      BY <2>1, <3>1 DEF Current
  <2>3. Followed(m)
    BY <2>2 DEF FollowedOK
  <2>4. CalledBack(m) \/ Underway(m)
    BY <2>3 DEF Followed, Expecting, Adding, Held, OnWire, PublishOf, InFrames, InTasks, Has, Underway
  <2> QED
    BY <2>1, <2>4
<1> QED
  BY <1>1, <1>2, FollowedNext, BasicAlways, WaitersAlways, DeliveryAlways, PTL DEF Spec

\* An application that leaves the publishing ids to the producer, or gives each message
\* one of its own, gets all three.
THEOREM OnePolicyDelivers ==
  ASSUME OnePolicy
  PROVE  Spec => [](NoPanic /\ CallbackIsMine /\ NothingLost)
BY IdsStayApart, NeverTodo, CallbacksAreMine, NeverLost, PTL
=============================================================================
