------------------------------ MODULE Producer ------------------------------
(***************************************************************************)
(* One Producer on one stream (src/src/producer.rs): the calls of send and *)
(* batch_send, the MessageAccumulator they share with the task that sends  *)
(* batches on a timer, the map of waiters and the handler tasks that empty *)
(* it when the broker confirms, Producer::close, the loss of the           *)
(* connection, and a process that dies and builds its producer again.      *)
(*                                                                         *)
(* A call is one invocation of internal_send (a message of Singles) or of  *)
(* internal_batch_send (a sequence of Batches).                            *)
(***************************************************************************)
EXTENDS Integers, Sequences, FiniteSets

CONSTANTS
    Singles,     \* the messages given to send, one call each
    Batches,     \* the sequences of messages given to batch_send
    OwnId,       \* the publishing id a message brings along, or NoId
    BatchSize,   \* batch_size, also the capacity of the accumulator's channel
    UsizeMod,    \* message_count is counted modulo UsizeMod (2^64 in the code)
    MaxBuilds,   \* bound: how often the application builds the producer
    MaxCalls,    \* bound: how many of the calls it makes
    Timer,       \* the task of schedule_batch_send
    NoWorker     \* nobody holds the receiver's lock

NoId == -1

BatchMessages == UNION {{b[i] : i \in 1 .. Len(b)} : b \in Batches}
Messages      == Singles \cup BatchMessages
Calls         == Singles \cup Batches
Workers       == Calls \cup {Timer}

\* A message is named for the place it is given at: it is moved into one call, at
\* one index, and never given again.
ASSUME ProducerAssumption ==
    /\ IsFiniteSet(Calls)
    /\ \A b \in Batches : b \in Seq(BatchMessages) /\ b # <<>>
    /\ \A b, d \in Batches : \A i \in 1 .. Len(b), j \in 1 .. Len(d) :
          b[i] = d[j] => b = d /\ i = j
    /\ Singles \cap BatchMessages = {} /\ Singles \cap Batches = {}
    /\ Timer \notin Calls /\ NoWorker \notin Workers
    /\ OwnId \in [Messages -> Nat \cup {NoId}]
    /\ BatchSize \in Nat \ {0}
    /\ UsizeMod \in Nat /\ UsizeMod > BatchSize
    /\ MaxBuilds \in Nat \ {0}
    /\ MaxCalls \in Nat

VARIABLES
    named,        \* does the producer have a name (Producer<Dedup>)?
    pc,           \* where each call is, and where the timer's task is
    batch,        \* the messages a worker has drained or wrapped
    queue,        \* the channel of the accumulator
    count,        \* message_count
    locked,       \* who holds the lock of the accumulator's receiver
    sequence,     \* publish_sequence
    ids,          \* the publishing id each message was sent with
    waiters,      \* waiting_confirmations
    closed,       \* ProducerInternal::closed
    closer,       \* where Producer::close is
    open,         \* can the client write to its connection?
    builds,       \* how often the producer was built
    toBroker,     \* published messages and DeletePublisher, in order
    toClient,     \* confirms, errors and the answer to DeletePublisher
    tasks,        \* the handler tasks, one per frame, and the ids left to them
    panicked,     \* has a handler task panicked?
    callbacks,    \* every call of a confirmation callback
    log,          \* the messages the broker has stored, in order
    last,         \* the highest publishing id of the name, -1 before the first
    deleted,      \* has the broker deleted the publisher?
    pending       \* messages the broker has yet to confirm

callVars   == <<pc, batch>>
accVars    == <<queue, count, locked>>
waitVars   == <<sequence, ids, waiters>>
closeVars  == <<named, closed, closer, open, builds>>
netVars    == <<toBroker, toClient>>
taskVars   == <<tasks, panicked, callbacks>>
brokerVars == <<log, last, deleted, pending>>
vars == <<callVars, accVars, waitVars, closeVars, netVars, taskVars, brokerVars>>

Commands == [kind : {"publish"}, message : Messages] \cup [kind : {"delete"}]
Frames   == [kind : {"confirm", "error"}, ids : Seq(Nat)]
            \cup [kind : {"deleted", "refused"}]

\* The accumulator's channel never holds more than BatchSize messages, its
\* counter stays within a usize, and every call is at one of its points.
TypeOK ==
    /\ named \in BOOLEAN
    /\ pc \in [Workers -> {"idle", "register", "add", "count", "get", "sub",
                           "publish", "ok", "error", "closed", "gone"}]
    /\ batch \in [Workers -> Seq(Messages)]
    /\ queue \in Seq(Messages) /\ Len(queue) <= BatchSize
    /\ count \in 0 .. UsizeMod - 1
    /\ locked \in Workers \cup {NoWorker}
    /\ sequence \in Nat
    /\ ids \in [Messages -> Nat \cup {NoId}]
    /\ waiters \in SUBSET [id : Nat, message : Messages]
    /\ closed \in BOOLEAN
    /\ closer \in {"idle", "delete", "waiting", "disconnect", "ok", "error"}
    /\ open \in BOOLEAN
    /\ builds \in 1 .. MaxBuilds
    /\ toBroker \in Seq(Commands)
    /\ toClient \in Seq(Frames)
    /\ tasks \in Seq([ok : BOOLEAN, ids : Seq(Nat)])
    /\ panicked \in BOOLEAN
    /\ callbacks \in SUBSET [message : Messages, id : Nat, ok : BOOLEAN]
    /\ log \in Seq(Messages)
    /\ last \in Nat \cup {-1}
    /\ deleted \in BOOLEAN
    /\ pending \in Seq(Messages)

-----------------------------------------------------------------------------
(* ProducerBuilder::build.                                                 *)

\* Mutant of FirstSequence: the sequence goes on at the last id.
FirstSequenceSame(answer) == answer

\* build's reading of query_publisher_sequence's answer.
FirstSequence(answer) == IF answer = 0 THEN 0 ELSE answer + 1

\* The broker answers the highest id of the name, 0 if there is none.
QueryPublisherSequence == IF last = -1 THEN 0 ELSE last

\* A call that has begun and not returned.
InCall(w) == pc[w] \notin {"idle", "ok", "error", "closed", "gone"}

Init ==
    /\ named \in BOOLEAN
    /\ pc = [w \in Workers |-> "idle"]
    /\ batch = [w \in Workers |-> <<>>]
    /\ queue = <<>>
    /\ count = 0
    /\ locked = NoWorker
    /\ last = -1
    /\ sequence = 0
    /\ ids = [m \in Messages |-> NoId]
    /\ waiters = {}
    /\ closed = FALSE
    /\ closer = "idle"
    /\ open = TRUE
    /\ builds = 1
    /\ toBroker = <<>>
    /\ toClient = <<>>
    /\ tasks = <<>>
    /\ panicked = FALSE
    /\ callbacks = {}
    /\ log = <<>>
    /\ deleted = FALSE
    /\ pending = <<>>

\* The process ends, at any point, its calls with it, and builds its producer
\* again on a new connection.  What it had written is handled before the query
\* or never.  (A nameless producer has nothing to do with its predecessor.)
Restart ==
    /\ named
    /\ builds < MaxBuilds
    /\ builds' = builds + 1
    /\ pc' = [w \in Workers |-> IF w = Timer \/ pc[w] = "idle" THEN "idle" ELSE "gone"]
    /\ batch' = [w \in Workers |-> <<>>]
    /\ queue' = <<>> /\ count' = 0 /\ locked' = NoWorker
    /\ sequence' = FirstSequence(QueryPublisherSequence)
    /\ waiters' = {}
    /\ closed' = FALSE /\ closer' = "idle" /\ open' = TRUE
    /\ toBroker' = <<>> /\ toClient' = <<>>
    /\ tasks' = <<>>
    /\ deleted' = FALSE /\ pending' = <<>>
    /\ UNCHANGED <<named, ids, panicked, callbacks, log, last>>

-----------------------------------------------------------------------------
(* A call.                                                                 *)

Content(c) == IF c \in Singles THEN <<c>> ELSE c

\* Producer<Dedup> is called through &mut self and is not Clone.
Exclusive(c) == named => closer = "idle" /\ \A d \in Calls \ {c} : ~InCall(d)

\* The application makes one more of the calls.
MayCall(c) ==
    /\ pc[c] = "idle"
    /\ Exclusive(c)
    /\ Cardinality({d \in Calls : pc[d] # "idle"}) < MaxCalls

\* is_closed: Err(Closed).
Refuse(c) ==
    /\ MayCall(c)
    /\ closed
    /\ pc' = [pc EXCEPT ![c] = "closed"]
    /\ UNCHANGED <<batch, accVars, waitVars, closeVars, netVars, taskVars, brokerVars>>

\* The call is at its next message: not closed, or past that check.
Registering(c) ==
    \/ MayCall(c) /\ ~closed
    \/ pc[c] = "register"

\* The message's own publishing id, or publish_sequence.fetch_add(1).
TakeId(m, id) ==
    /\ id = IF OwnId[m] = NoId THEN sequence ELSE OwnId[m]
    /\ ids' = [ids EXCEPT ![m] = id]
    /\ sequence' = IF OwnId[m] = NoId THEN sequence + 1 ELSE sequence

\* waiting_confirmations.insert replaces what was there.
WithWaiter(id, m) == {w \in waiters : w.id # id} \cup {[id |-> id, message |-> m]}

AfterRegister(c, m) ==
    IF c \in Singles
    THEN pc' = [pc EXCEPT ![c] = "add"] /\ UNCHANGED batch
    ELSE /\ batch' = [batch EXCEPT ![c] = Append(@, m)]
         /\ pc' = [pc EXCEPT ![c] = IF Len(batch[c]) + 1 = Len(Content(c))
                                    THEN "publish" ELSE "register"]

\* Mutant of Register: no waiter is left behind.
RegisterNoWaiter(c) ==
    /\ Registering(c)
    /\ LET m  == Content(c)[Len(batch[c]) + 1]
           id == IF OwnId[m] = NoId THEN sequence ELSE OwnId[m]
       IN  /\ TakeId(m, id)
           /\ AfterRegister(c, m)
    /\ UNCHANGED <<accVars, waiters, closeVars, netVars, taskVars, brokerVars>>

\* Mutant of Register: the sequence is read and not advanced.
RegisterLoad(c) ==
    /\ Registering(c)
    /\ LET m  == Content(c)[Len(batch[c]) + 1]
           id == IF OwnId[m] = NoId THEN sequence ELSE OwnId[m]
       IN  /\ ids' = [ids EXCEPT ![m] = id]
           /\ waiters' = WithWaiter(id, m)
           /\ AfterRegister(c, m)
    /\ UNCHANGED <<accVars, sequence, closeVars, netVars, taskVars, brokerVars>>

\* A message is given its id and its waiter.  Other tasks see no difference if
\* the check of is_closed is taken together with this: close touches neither.
Register(c) ==
    /\ Registering(c)
    /\ LET m  == Content(c)[Len(batch[c]) + 1]
           id == IF OwnId[m] = NoId THEN sequence ELSE OwnId[m]
       IN  /\ TakeId(m, id)
           /\ waiters' = WithWaiter(id, m)
           /\ AfterRegister(c, m)
    /\ UNCHANGED <<accVars, closeVars, netVars, taskVars, brokerVars>>

\* MessageAccumulator::add: sender.send waits for room.
Add(c) ==
    /\ pc[c] = "add"
    /\ Len(queue) < BatchSize
    /\ queue' = Append(queue, c)
    /\ pc' = [pc EXCEPT ![c] = "count"]
    /\ UNCHANGED <<batch, count, locked, waitVars, closeVars, netVars, taskVars,
                   brokerVars>>

\* message_count.fetch_add(1): who fills the batch sends it.
CountAdd(c) ==
    /\ pc[c] = "count"
    /\ count' = (count + 1) % UsizeMod
    /\ pc' = [pc EXCEPT ![c] = IF count' = BatchSize THEN "get" ELSE "ok"]
    /\ UNCHANGED <<batch, queue, locked, waitVars, closeVars, netVars, taskVars,
                   brokerVars>>

-----------------------------------------------------------------------------
(* ProducerInternal::batch_send, by a call or by the timer's task.         *)

\* Mutant of Get: the messages stay in the channel.
GetPeek(w) ==
    /\ pc[w] = "get" \/ (w = Timer /\ pc[w] = "idle" /\ queue # <<>>)
    /\ locked = NoWorker
    /\ locked' = w
    /\ batch' = [batch EXCEPT ![w] = queue]
    /\ pc' = [pc EXCEPT ![w] = "sub"]
    /\ UNCHANGED <<queue, count, waitVars, closeVars, netVars, taskVars, brokerVars>>

\* Mutant of Get: only a call that fills the batch sends it.
GetFull(w) ==
    /\ pc[w] = "get"
    /\ locked = NoWorker
    /\ locked' = w
    /\ batch' = [batch EXCEPT ![w] = queue]
    /\ queue' = <<>>
    /\ pc' = [pc EXCEPT ![w] = "sub"]
    /\ UNCHANGED <<count, waitVars, closeVars, netVars, taskVars, brokerVars>>

\* MessageAccumulator::get: the lock, then try_recv up to batch_size times.  The
\* channel holds no more than that, and a message added meanwhile might as well
\* have been added before or after.  A tick that finds nothing is no step.
Get(w) ==
    /\ pc[w] = "get" \/ (w = Timer /\ pc[w] = "idle" /\ queue # <<>>)
    /\ locked = NoWorker
    /\ locked' = w
    /\ batch' = [batch EXCEPT ![w] = queue]
    /\ queue' = <<>>
    /\ pc' = [pc EXCEPT ![w] = "sub"]
    /\ UNCHANGED <<count, waitVars, closeVars, netVars, taskVars, brokerVars>>

\* Where a worker is when batch_send or publish has returned.
Returned(w, r) == IF w = Timer THEN "idle" ELSE r

\* Mutant of CountSub: a whole batch is subtracted.
CountSubCapacity(w) ==
    /\ pc[w] = "sub"
    /\ count' = (count - BatchSize) % UsizeMod
    /\ locked' = NoWorker
    /\ pc' = [pc EXCEPT ![w] = IF batch[w] = <<>> THEN Returned(w, "ok") ELSE "publish"]
    /\ UNCHANGED <<batch, queue, waitVars, closeVars, netVars, taskVars, brokerVars>>

\* message_count.fetch_sub(messages.len()), which wraps around; the lock goes.
CountSub(w) ==
    /\ pc[w] = "sub"
    /\ count' = (count - Len(batch[w])) % UsizeMod
    /\ locked' = NoWorker
    /\ pc' = [pc EXCEPT ![w] = IF batch[w] = <<>> THEN Returned(w, "ok") ELSE "publish"]
    /\ UNCHANGED <<batch, queue, waitVars, closeVars, netVars, taskVars, brokerVars>>

\* client.publish: one frame, in the order of the batch, each message with the id
\* it already has.
PublishCommand(messages) ==
    [i \in 1 .. Len(messages) |-> [kind |-> "publish", message |-> messages[i]]]

PublishOk(w) ==
    /\ pc[w] = "publish"
    /\ open
    /\ toBroker' = toBroker \o PublishCommand(batch[w])
    /\ batch' = [batch EXCEPT ![w] = <<>>]
    /\ pc' = [pc EXCEPT ![w] = Returned(w, "ok")]
    /\ UNCHANGED <<accVars, waitVars, closeVars, toClient, taskVars, brokerVars>>

\* The write fails: the batch is gone, the waiters stay.
PublishError(w) ==
    /\ pc[w] = "publish"
    /\ ~open
    /\ batch' = [batch EXCEPT ![w] = <<>>]
    /\ pc' = [pc EXCEPT ![w] = Returned(w, "error")]
    /\ UNCHANGED <<accVars, waitVars, closeVars, netVars, taskVars, brokerVars>>

-----------------------------------------------------------------------------
(* Producer::close.                                                        *)

CloseBegin ==
    /\ closer = "idle"
    /\ named => \A c \in Calls : ~InCall(c)
    /\ closer' = "delete"
    /\ closed' = TRUE
    /\ UNCHANGED <<callVars, accVars, waitVars, named, open, builds, netVars, taskVars,
                   brokerVars>>

\* client.delete_publisher: the request is written, or fails.
CloseDelete ==
    /\ closer = "delete"
    /\ \/ /\ open
          /\ toBroker' = Append(toBroker, [kind |-> "delete"])
          /\ closer' = "waiting"
       \/ /\ ~open
          /\ closer' = "error"
          /\ UNCHANGED toBroker
    /\ UNCHANGED <<callVars, accVars, waitVars, named, closed, open, builds, toClient,
                   taskVars, brokerVars>>

\* client.close: nothing flushes the accumulator before it.
CloseClient ==
    /\ closer = "disconnect"
    /\ closer' = IF open THEN "ok" ELSE "error"
    /\ open' = FALSE
    /\ toBroker' = <<>>
    /\ UNCHANGED <<callVars, accVars, waitVars, named, closed, builds, toClient, taskVars,
                   brokerVars>>

-----------------------------------------------------------------------------
(* The dispatcher task reads frames; ProducerConfirmHandler::handle_message *)
(* runs in a task per frame.                                               *)

ReadConfirm ==
    /\ toClient # <<>>
    /\ Head(toClient).kind \in {"confirm", "error"}
    /\ toClient' = Tail(toClient)
    /\ tasks' = Append(tasks, [ok |-> Head(toClient).kind = "confirm",
                               ids |-> Head(toClient).ids])
    /\ UNCHANGED <<callVars, accVars, waitVars, closeVars, toBroker, panicked,
                   callbacks, brokerVars>>

ReadDeleted ==
    /\ toClient # <<>>
    /\ Head(toClient).kind \in {"deleted", "refused"}
    /\ toClient' = Tail(toClient)
    /\ closer' = IF Head(toClient).kind = "deleted" THEN "disconnect" ELSE "error"
    /\ UNCHANGED <<callVars, accVars, waitVars, named, closed, open, builds, toBroker,
                   taskVars, brokerVars>>

\* The end of the stream fails the pending request; the handler's None does
\* nothing ("TODO connection close clean all waiting").
ReadEnd ==
    /\ ~open
    /\ toClient = <<>>
    /\ closer = "waiting"
    /\ closer' = "error"
    /\ UNCHANGED <<callVars, accVars, waitVars, named, closed, open, builds, netVars,
                   taskVars, brokerVars>>

\* Handler task i is left with these ids; without any it is at its end.
Left(i, rest) ==
    tasks' = IF rest = <<>>
             THEN SubSeq(tasks, 1, i - 1) \o SubSeq(tasks, i + 1, Len(tasks))
             ELSE [tasks EXCEPT ![i].ids = rest]

Call(i, w) ==
    /\ w.id = Head(tasks[i].ids)
    /\ waiters' = waiters \ {w}
    /\ callbacks' = callbacks \cup {[message |-> w.message, id |-> w.id,
                                     ok |-> tasks[i].ok]}

\* Mutant of Callback: a task stops after its first id.
CallbackFirst(i) ==
    /\ \E w \in waiters : Call(i, w)
    /\ Left(i, <<>>)
    /\ UNCHANGED <<callVars, accVars, sequence, ids, closeVars, netVars, panicked,
                   brokerVars>>

\* with_waiter: the waiter is removed and its callback called.
Callback(i) ==
    /\ \E w \in waiters : Call(i, w)
    /\ Left(i, Tail(tasks[i].ids))
    /\ UNCHANGED <<callVars, accVars, sequence, ids, closeVars, netVars, panicked,
                   brokerVars>>

\* None => todo!(): the task panics, and the ids it still had are lost.
Panic(i) ==
    /\ \A w \in waiters : w.id # Head(tasks[i].ids)
    /\ panicked' = TRUE
    /\ Left(i, <<>>)
    /\ UNCHANGED <<callVars, accVars, waitVars, closeVars, netVars, callbacks,
                   brokerVars>>

-----------------------------------------------------------------------------
(* The broker and the network (external).                                  *)

IdsOf(messages) == [i \in 1 .. Len(messages) |-> ids[messages[i]]]

\* The broker stores a message unless its publisher has a name and has sent as
\* high an id before; it will confirm it either way.
BrokerPublish ==
    /\ open
    /\ toBroker # <<>>
    /\ Head(toBroker).kind = "publish"
    /\ ~deleted
    /\ toBroker' = Tail(toBroker)
    /\ LET m == Head(toBroker).message
       IN  /\ pending' = Append(pending, m)
           /\ IF named /\ ids[m] <= last
              THEN UNCHANGED <<log, last>>
              ELSE /\ log' = Append(log, m)
                   /\ last' = IF named THEN ids[m] ELSE last
    /\ UNCHANGED <<callVars, accVars, waitVars, closeVars, toClient, taskVars, deleted>>

\* An unknown publisher, or a stream that takes no messages: PublishError.
BrokerReject ==
    /\ open
    /\ toBroker # <<>>
    /\ Head(toBroker).kind = "publish"
    /\ toClient' = Append(toClient, [kind |-> "error",
                                     ids |-> IdsOf(<<Head(toBroker).message>>)])
    /\ toBroker' = Tail(toBroker)
    /\ UNCHANGED <<callVars, accVars, waitVars, closeVars, taskVars, brokerVars>>

\* One PublishConfirm for some of what is stored.
BrokerConfirm ==
    /\ open
    /\ \E n \in 1 .. Len(pending) :
          /\ toClient' = Append(toClient, [kind |-> "confirm",
                                           ids |-> IdsOf(SubSeq(pending, 1, n))])
          /\ pending' = SubSeq(pending, n + 1, Len(pending))
    /\ UNCHANGED <<callVars, accVars, waitVars, closeVars, toBroker, taskVars, log,
                   last, deleted>>

BrokerDelete ==
    /\ open
    /\ toBroker # <<>>
    /\ Head(toBroker).kind = "delete"
    /\ \/ /\ deleted' = TRUE
          /\ toClient' = Append(toClient, [kind |-> "deleted"])
       \/ /\ toClient' = Append(toClient, [kind |-> "refused"])
          /\ UNCHANGED deleted
    /\ toBroker' = Tail(toBroker)
    /\ UNCHANGED <<callVars, accVars, waitVars, closeVars, taskVars, log, last, pending>>

Disconnect ==
    /\ open
    /\ open' = FALSE
    /\ toBroker' = <<>>
    /\ \E n \in 0 .. Len(toClient) : toClient' = SubSeq(toClient, 1, n)
    /\ UNCHANGED <<callVars, accVars, waitVars, named, closed, closer, builds, taskVars,
                   brokerVars>>

-----------------------------------------------------------------------------
SendStep(w) == CountSub(w) \/ PublishOk(w) \/ PublishError(w)

CallStep(c) == Register(c) \/ Add(c) \/ CountAdd(c) \/ Get(c) \/ SendStep(c)

TimerStep == Get(Timer) \/ SendStep(Timer)

CloseStep == CloseDelete \/ CloseClient

ReadStep == ReadConfirm \/ ReadDeleted \/ ReadEnd

TaskStep(i) == Callback(i) \/ Panic(i)

BrokerStep == BrokerPublish \/ BrokerReject \/ BrokerConfirm \/ BrokerDelete

Next ==
    \/ \E c \in Calls : Refuse(c) \/ CallStep(c)
    \/ TimerStep
    \/ CloseBegin
    \/ CloseStep
    \/ ReadStep
    \/ \E i \in 1 .. Len(tasks) : TaskStep(i)
    \/ BrokerStep
    \/ Disconnect
    \/ Restart

Spec == Init /\ [][Next]_vars

(***************************************************************************)
(* Fairness: tokio polls the tasks that can go on, interval.tick() comes   *)
(* around, and the broker handles and confirms what it is sent.  Nothing   *)
(* makes the application call, close or restart, or the connection break.  *)
(***************************************************************************)
Fairness ==
    /\ \A c \in Calls : WF_vars(InCall(c) /\ CallStep(c))
    /\ WF_vars(TimerStep)
    /\ WF_vars(CloseStep)
    /\ WF_vars(ReadStep)
    /\ WF_vars(\E i \in 1 .. Len(tasks) : TaskStep(i))
    /\ WF_vars(BrokerStep)

FairSpec == Spec /\ Fairness

-----------------------------------------------------------------------------
(* Properties.                                                             *)

CalledBack(m) == \E cb \in callbacks : cb.message = m
Stored(m)     == \E i \in 1 .. Len(log) : log[i] = m

\* What send_with_confirm and batch_send_with_confirm wait for: each callback
\* has put its status into the call's channel.
Confirmations(c) == \A i \in 1 .. Len(Content(c)) : CalledBack(Content(c)[i])

\* No other message was given the same id.
OnlyId(m) == \A n \in Messages \ {m} : ids[n] # ids[m]

\* A handler task finds a waiter for every id the broker answers: the waiter is
\* inserted before its message can reach the wire, by whichever task sends it.
NoPanic == ~panicked

\* A callback tells of its own message: the id is the one that message was sent
\* with, and a message confirmed by a nameless producer's broker is stored.  It is
\* called once, and nothing is left that could call it again.
CallbackIsMine ==
    \A cb \in callbacks :
        /\ cb.id = ids[cb.message]
        /\ cb.ok /\ ~named => Stored(cb.message)
        /\ \A d \in callbacks : d.message = cb.message => d = cb
        /\ \A w \in waiters : w.message # cb.message

\* A message on its way from its call to its answer, or an answer on its way to it.
Underway(m) ==
    \/ m \in Singles /\ pc[m] = "add"
    \/ \E i \in 1 .. Len(queue) : queue[i] = m
    \/ \E w \in Workers : \E i \in 1 .. Len(batch[w]) : batch[w][i] = m
    \/ \E i \in 1 .. Len(toBroker) : toBroker[i] = [kind |-> "publish", message |-> m]
    \/ \E i \in 1 .. Len(pending) : pending[i] = m
    \/ \E i \in 1 .. Len(toClient) :
         /\ toClient[i].kind \in {"confirm", "error"}
         /\ \E j \in 1 .. Len(toClient[i].ids) : toClient[i].ids[j] = ids[m]
    \/ \E i \in 1 .. Len(tasks) : \E j \in 1 .. Len(tasks[i].ids) : tasks[i].ids[j] = ids[m]

\* While the connection is up no message is lost between the accumulator, the workers
\* that drain it, the socket, the broker and the handler tasks: once it has an id, and as
\* long as its process lives, it is under way or its callback was called.
NothingLost ==
    open =>
        \A c \in Calls : \A k \in 1 .. Len(Content(c)) :
            LET m == Content(c)[k]
            IN  pc[c] # "gone" /\ ids[m] # NoId => CalledBack(m) \/ Underway(m)

\* No message is stored twice, though two tasks drain the accumulator.
StoredOnce == \A i, j \in 1 .. Len(log) : log[i] = log[j] => i = j

\* Outside of add and get, message_count is the number of buffered messages.
CountIsQueue ==
    (\A w \in Workers : pc[w] \notin {"count", "sub"}) => count = Len(queue)

\* While the connection is up, nobody closes and the process lives, every
\* message accepted by send or batch_send is called back for, whoever sends its
\* batch.
EveryMessageAnswered ==
    \A c \in Calls :
        pc[c] = "ok"
        ~> \/ Confirmations(c)
           \/ ~open \/ closed \/ pc[c] = "gone"

\* "On confirmation a callback is triggered": when a confirm has reached the
\* client, a message whose id no other message has is called back for, even if
\* the connection ends meanwhile, unless the process ends with the call.
ConfirmTriggersCallback ==
    \A c \in Calls : \A k \in 1 .. Len(Content(c)) :
        LET m == Content(c)[k]
        IN  (/\ OnlyId(m)
             /\ \E i \in 1 .. Len(tasks) : \E j \in 1 .. Len(tasks[i].ids) :
                   tasks[i].ids[j] = ids[m])
            ~> (CalledBack(m) \/ pc[c] = "gone")

\* A message is "confirmed since the publishing id is different": a confirmed
\* message whose id no other message has is stored.
ConfirmedIsStored ==
    \A cb \in callbacks : cb.ok /\ OnlyId(cb.message) => Stored(cb.message)

\* A named producer's sequence is ahead of every id that was drawn from it and
\* stored under the name, in whichever process (0 is left out: the broker's
\* answer 0 also means that nothing was published).
SequenceAhead ==
    \A i \in 1 .. Len(log) :
        named /\ OwnId[log[i]] = NoId /\ ids[log[i]] > 0 => sequence > ids[log[i]]
=============================================================================
