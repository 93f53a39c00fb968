# Verification of the RabbitMQ stream client

TLA+ modules, TLC configurations and TLAPS proofs for the Rust client library in
`src/` (crates `rabbitmq-stream-client` and `rabbitmq-stream-protocol`). The
modules are translated from the code; `PROJECT.json` names, for every
definition, the lines it stands for.

## 1. The system

| Part | Code | State | Operations | Talks to |
|---|---|---|---|---|
| Dispatcher | `src/src/client/dispatcher.rs` | counter of correlation ids, map id → sender with a `closed` flag, handler | `response_channel`, the reading task `handle_response`, `dispatch`, `notify`, `close` | callers through one `channel(1)` per request; the client through `MessageHandler` |
| Channel | `client/channel.rs` | the sink behind a mutex, a `closed` flag | `send`, `close` | the socket through the codec |
| Client | `client/mod.rs` | negotiated values, heartbeat task, the application's handler | `connect` (handshake), some twenty RPCs, `credit`, `publish`, `close`, `handle_message`, `handle_tune_command` | spawns one task per frame for the handler |
| Consumer | `consumer.rs` | subscription, bounded channel of deliveries, `closed`, a waker | `build`, `poll_next`, `ConsumerHandle::close`, `handle_message` (Deliver, ConsumerUpdate, end), `store_offset`, `query_offset` | broker: credit against chunks |
| Producer | `producer.rs` | accumulator (channel and counter), publish sequence, map of waiters, `closed` | `build`, `send`, `batch_send` and their `_with_confirm` forms, the timer's task, `close`, `handle_message` (confirm, error) | broker: batches against confirmations |
| Codec | `client/codec.rs`, `protocol/src/codec` | read and write buffer of `Framed` | `decode`, `encode` | the bytes of the connection |
| Commands | `protocol/src/{request,response,commands}` | none | `encode`, `encoded_size`, `decode` of every command | |
| AMQP messages | `protocol/src/message` | none | `MessageBuilder`; `encode`, `encoded_size`, `decode` of every section and value | the publish and deliver commands |
| Environment | `environment.rs`, `client/metadata.rs` | options | `build`, choice of the leader or a replica, load balancer loop, `delete_stream`, `delete_super_stream` | one `Client` after the other |
| Stream creator | `stream_creator.rs` | options | `create`, `create_super_stream` | one `Client`, one RPC |
| Super streams | `superstream*.rs` | cached partitions and routes, a producer or consumer per partition | routing, `send`, merge of deliveries, `close` | producers and consumers |

What makes it hard:

* **Interleaving.** The dispatcher is one task, every frame the handler sees is
  another, callers, the heartbeat, the producer's timer and the forwarding tasks
  of a super stream are more. They share the request map, the accumulator, the
  waiters, flags and wakers.
* **Ordering.** Handler tasks are spawned without waiting for each other. The
  order of deliveries rests on nothing but the single credit; the order of
  batches rests on nothing at all. Tune is handled by another task than the one
  that waits for it.
* **Failure.** The connection may end between any two steps, a write may fail,
  a caller may drop its future, the broker may refuse, a process may die and be
  built again under the same name.
* **Boundaries.** Counters wrap, channels fill, a read ends inside a field, a
  value ends at the edge of its short form, the broker answers 0 for both
  "nothing" and "id 0".

What has to be right, part by part: an answer reaches the caller that asked, and
a caller is never left waiting (dispatcher); both ends of a connection go by the
same limits, and a call leaves no connection behind (client, environment);
deliveries are in order, complete, rightly labelled and never stop (consumer);
every message is published once and called back for, with ids that do not
repeat (producer); a key stays in its partition and in order (super streams);
what is decoded is what was encoded, wherever the stream is cut (codec,
messages). `PROJECT.json` lists the places where each of these can go wrong
under `hazards`.

## 2. The modules

| Module | Models | Notes |
|---|---|---|
| `RpcService` | what `send_and_receive` promises: a call is invoked once, executed at most once, answered only if executed, fails only when the connection is broken | abstract specification |
| `Dispatcher` | request map, correlation ids, dispatcher task, channel, `Client::close`, heartbeat, `consumer_update` | implements `RpcService` (`ImplementsRpcService`, a refinement mapping) |
| `DispatcherProofs` | proofs about `Dispatcher` | TLAPS |
| `Subscription` | what a consumer promises to the application that polls it: the messages it asked for, in order, none twice and none left out | abstract specification |
| `Consumer` | one consumer with its broker, handler tasks, application and closer | implements `Subscription` (`ImplementsSubscription`) |
| `ConsumerProofs` | proofs about `Consumer` | TLAPS |
| `Producer` | one producer with its senders, timer, broker, handler tasks, and its rebirth under the same name | |
| `ProducerProofs` | proofs about `Producer` | TLAPS |
| `Connection` | the life of connections: handshake, Tune, heartbeat task, close | used by `Environment` |
| `Environment` | one call of an environment or a builder, over the connections it makes | extends `Connection` |
| `EnvironmentProofs` | proofs about `Connection` and `Environment` | TLAPS |
| `SuperStreamProducer` | routing, producers on demand, `send`, `close` | |
| `SuperStreamConsumer` | a consumer and a forwarding task per partition, the merged stream, `close` | |
| `SuperStream` | both on the same partitions | composes the two |
| `SuperStreamProofs` | proofs about the super streams | TLAPS |
| `SequenceFacts` | what is in a sequence, once or more, after `Append`, `\o`, `Tail`, `SubSeq` | lemmas of the other proofs |
| `Bytes` | integers and slices as bytes, the outcomes of a decoder | |
| `Wire` | layouts of all requests and responses; encoding, sizes, decoding; the broker's end of them | byte level, recursive operators |
| `Framing` | the two buffers of `Framed` around a codec, the stream cut anywhere | the codec is a parameter: `Wire` in the instances |
| `FramingProofs` | proofs about `Framing` for any codec that fits | TLAPS |
| `AmqpCodec` | values and sections of a message: sizes, encoding, decoding | byte level, recursive operators |
| `Amqp` | a message built, encoded, decoded and sent on; messages of other clients | extends `AmqpCodec` |
| `MC*` | instances for TLC | constants only |

**Dispatcher.** `pc[c]` is the place of call `c` in `send_and_receive`. The two
halves of `RequestsMap::insert` (load of `closed`, insertion) and of
`RequestsMap::close` (store, clear) are separate actions because no lock spans
them. `Cancel` is a caller that drops the future. Every RPC is the same sequence
of steps, so RPCs are members of one set `Calls`; `Closers` and `Updates` are the
two kinds that differ. A `ConsumerUpdate` carries an id of the broker's choice
(`ServerId`), chosen in the instances to coincide with the client's own.

**Consumer.** A message is its true offset in the log; a chunk is a range. A
delivery records the message and the offset the code gives it. `running`,
`cursor` and `label` are the handler tasks; `Forward` is one iteration of the
loop in `handle_message`, and waits while the channel is full. `poll_next` is
three steps (register the waker, look into the channel, look at `closed`)
because `close` runs beside it. `OffsetSpecification`s without an offset are
`StartOffset = 0`. The end of the connection may take frames with it.

**Producer.** A call is a `send` or a `batch_send`. `Add` and `CountAdd`, `Get`
and `CountSub` are separate, as the channel and the counter are; the receiver's
lock is held from `Get` to the end of `CountSub` and not longer. Publishing is a
step after it. The broker deduplicates by name and id, confirms in groups, and
may reject. `named` is chosen in the first state; `Restart` is the process of a
named producer that dies at any point and builds it again. A handler task that
has ended is removed.

**Connection and Environment.** A record per connection holds what each end has
of it: the stage `connect` or `close` has come to, a Tune on its way, the
negotiated limits, what the broker was told, the permit of `tune_notifier`, the
interval of the heartbeat task. A request and its response are one step, which
is what `Dispatcher` is shown to provide. A connection that ends is `lost`, and a
request on it fails, or `deaf`, and a request on it waits for ever: the reading
task panicked (`framing_strings`) and nobody closes the request map, or the
request came into the map behind the clear (`dispatcher_race`). Tune is not a
response: `HandleTune` (under the state's lock) and `ReplyTune` (after it) are steps of the dispatcher's
task beside everything the caller does. `Environment` follows one call, of any
kind, from its start to its return: which connections it makes, when it gives
them up, what it returns, on a cluster whose leader may move. The number of a
closed connection is used again, so that the load balancer loop may go on for
ever in a finite instance.

**Super streams.** `SendByHash` and `SendByKey` are the two routing strategies
with their caches, `BuildProducer` and `Publish` the loop of `send` over the
routes, `CloseOwnClient`, `CloseProducer`, `CloseReturns` the close. On the other
side each partition has a consumer (`subs`), a task that carries at most one
delivery (`hand`) and one channel for all. The waker of `poll_next` is `woken`:
`CloseWake` comes before `CloseCas`, in the order of the code; `CloseAgain` is the
close of another handle, which wakes and then finds `closed` set. A panic is an
outcome. Partitions' own producers and consumers are taken as `Producer` and
`Consumer` describe them; the log of a partition is what joins the two sides.

**Wire and Framing.** Bytes are numbers; each command is a sequence of field
types, and one set of operators encodes, sizes and decodes them as the
implementations of `Encoder` and `Decoder` do, with the three outcomes of the
decoder told apart: incomplete, error, panic. `Framing` is what tokio's `Framed`
does with a codec and knows nothing of the layouts: `Frame`, `Decoded`, `Encoded`
and the rest are constants, which the configurations set to the operators of
`Wire`. `talk` is the conversation of a behaviour: what the broker and the client
have to say. The broker reads by the lengths of the frames, as a server must.
`CodecFits` says what the framing needs of the codec: read from the end of any
frame to any place behind it, the decoder yields the next response and exactly its
bytes, or none; the length `encode` writes leads to the end of the frame.

**Amqp.** A value is a type and a content; the tables `Sized` and `Lengthy` say
which forms a type has. `encoded_size`, `encode` and `decode` are three families
of operators, as they are three implementations in the code, each with its own
thresholds. `Foreign` is the same format as another client writes it, in its
short, null or wide style. `SendOn` publishes what was received.

Left out of all modules: names, options, logging and metrics; bodies outside of
`Amqp`. A `HashMap` on the wire is a sequence of pairs. The broker, tokio's
scheduler and `Framed` are external and modelled from how the code uses them.

## 3. The runs

| Run | Instance | Checks | Distinct states |
|---|---|---|---|
| `dispatcher_all` | two closers, one update, 3 ids | `AnswerIsMine`, `WaitingIsRegistered`, `NoHeartbeatOnClosedChannel`, `ImplementsRpcService`, `WaitingCallsReturn`, `CloseEndsDispatcher` | 260 k |
| `dispatcher_race` | one call | `EveryCallReturns` **fails** | |
| `consumer_all` | single active, chunks of 2, 1 and 2 messages, start at offset 1, the middle chunk filtered out, channel of 1 | `OneChunkInFlight`, `InOrder`, `NoGap`, `OffsetIsMessages`, `ImplementsSubscription`, `EverythingArrives`, `StreamEnds`, `TasksEnd` | 12 k |
| `consumer_filter` | a filter that rejects the first message of a chunk | `OffsetIsMessages` **fails** | |
| `producer_all` | two of: two `send`s, a `batch_send` of two; batch size 2, timer, named or not, built twice | `NothingLost`, `CountIsQueue`, `StoredOnce`, `CallbackIsMine`, `NoPanic`, `SequenceAhead`, `EveryMessageAnswered`, `ConfirmTriggersCallback` | 315 k |
| `producer_order` | two `send`s, batch size 1 | `ConfirmedIsStored` **fails** | |
| `framing_all` | every response alone, every two of 16 responses without strings, every two requests, up to three with a refused one | `ConversationFits`, `ReceivedIsSent`, `RequestsUnderstood` | 1.0 M |
| `framing_strings` | one response with a string | `PartialFrameWaits` **fails** | |
| `amqp_messages` | up to three calls of the builder; messages of other clients in three styles | `RoundTrip`, `SizeIsLength`, `OthersUnderstood` | 62 k |
| `amqp_test` | one call of the builder | `EncodeDecode` **fails** | |
| `environment_calls` | all seven kinds of call, two nodes, three connections | `BothSidesAgree`, `BeatsAsAgreed`, `AtTheRightNode`, `NothingLeftBehind`, `CallReturns` | 1.8 M |
| `superstream_all` | three messages, two keys, up to two partitions, one fault | `OneHome`, `WholeOrPrefix`, `ClosesReachAll`, `KeyOrder`, `MergeKeepsOrder`, `ClosedStreamEnds`, `Arrives` | 380 k |

The modules' `TypeOK` are proved (section 5) and not checked again. `ConversationFits`
is evaluated where a conversation begins; over all of them it is `CodecFits`, the
hypothesis of the proofs about `Framing`.

**Bounds.** Two calls and an update are the fewest with which an answer could
reach the wrong one and a closer meet another closer; the update is the frame
without a request. Three chunks give a first, a middle and a last one, with
boundaries in different places; a channel of one makes every send but the first
wait. Batch size 2 with `MaxCalls = 2` of the three calls gives a batch that
fills, one that is left for the timer, a message that is left over, and two
drainers at once; one message brings an id of its own. The counter is taken
modulo 8, more than the messages there are, so it wraps only by going below
zero, as it would modulo 2^64. `MaxBuilds = 2` is one crash.

A request that is refused to be encoded stands before, between and behind others,
so that what it leaves in the write buffer meets every kind of following request.
Two frames are enough for every cut across a boundary, as the codec keeps
nothing but its buffer between them; the samples have numbers of one and of
several bytes, empty and non-empty lists, an Ok and a refusing response code.
`MaxReference` is 2 in place of 255. The values in `Amqp` are at the edges of
each form: 0, 1, 255, 256, -129, -128, -1, 127, 128, contents on both sides of
254 and 255 bytes, properties around the switch; times are within `MaxMillis` =
1000 milliseconds of the epoch in place of the years `chrono` knows.

Three connections are one more than a call should ever hold; two nodes are a
right and a wrong one. Of the two Tunes one leaves everything to the client
(zero), the other has one limit below the client's (a heartbeat of 3 against 4,
interval 1 against 2) and one above (8 against 5). One connection is tuned a
second time (`MaxRetunes`), the leader moves once (`MaxMoves`). At most one
connection at a time is lost or deaf (`MaxLost`), any of them, at any point, and
another after the first was closed: a call waits for one connection at a time, so
the loss of a second adds no new wait; the theorems hold for every `MaxLost`. Two
partitions,
a key bound to both and three messages, two of the same key, give a message with
two routes and two messages with one; one partition is added at any time, and
`MaxFaults = 1` is one lost connection or refused request on either side.

`CHECK_DEADLOCK FALSE` everywhere: every system here may come to rest, with all
calls returned, everything consumed or the connection gone.

**Fairness.** Weak fairness of the steps of each task (tokio polls a task that
can go on; `interval.tick()` comes around), of the dispatcher's reading, and of a
broker that goes on serving and hangs up once the client has shut the connection
down. Nothing makes an application call, poll after it dropped the consumer,
close or restart; nothing makes the connection break or a caller give up.
`WaitingCallsReturn` leaves out the calls that begin to wait after the map was
cleared, which is what `dispatcher_race` is about, and `consumer_update`, which
the broker never answers. `EverythingArrives` and `EveryMessageAnswered` are
about a connection that stands and nobody closes. In `Environment` the call's
future, the client's steps of each connection and its dispatcher are fair; the
load balancer is not, so `CallReturns` lets it send the search elsewhere for
ever. A request on a lost connection fails, in the dispatcher's time; on a deaf one
nothing is asked of anybody, and `CallReturns` excepts the call that waits there. In `SuperStream` the polling application, the forwarding tasks and the end
of a task whose consumer was closed are fair; the task of a consumer that was
closed without waking anybody is not.

## 4. Where code and documentation disagree

* `dispatcher_race`: a request that passes the check of `closed` before
  `RequestsMap::close` and inserts after its clear has an entry that nobody
  removes. If the write still succeeds the caller waits for ever.
* `consumer_filter`: with a post filter, the offsets of the deliveries after a
  rejected message are too low (`consumer.rs:391` counts what is left over).
* `producer_order`: two batches drained in order may be written in the other
  order; for a named producer the earlier ids are then duplicates to the broker,
  confirmed and not stored.
* `framing_strings`: a read that ends inside a string panics in the task that
  reads the connection (`decoder.rs:148`); the request map is then never closed.
* `amqp_test`: what the crate's fuzz test asserts of every value does not hold of
  every value. `Long::encoded_size` says 3 where `encode` writes 2 bytes
  (`simple.rs:368`), a small negative `int` comes back positive
  (`simple.rs:341`), lists and properties of more than 254 bytes have the code of
  the short form (`list.rs:42`, `properties.rs:72`), and the size of properties
  switches to the long form at another length than the encoding
  (`properties.rs:61`, `71`). The trace of the run is the first of these; the others
  are in the code and not on the trace. `RoundTrip`, `SizeIsLength` and
  `OthersUnderstood` hold with exactly these values left out. The first two belong
  together: `RoundTrip` reads the bytes that were written whatever size was
  announced, and a broker takes as many as were announced.

Met while modelling, and either an exception stated in a property or outside
the instances of the passing runs:

* With a single active consumer, messages before the offset the callback
  answers are delivered if they are in its chunk (`consumer.rs:374` compares
  with the builder's offset). In `consumer_all` the two offsets are the same.
* A refused unsubscribe returns after `closed` is set and before the waker is
  woken (`consumer.rs:327`). The task for the end of the connection may close a
  consumer while the task of the last chunk still sends (`consumer.rs:438`).
* A named producer that published exactly id 0 begins at 0 again
  (`producer.rs:155`); `SequenceAhead` leaves 0 out.
* Two messages with the same publishing id share a waiter; the second
  confirmation panics in `todo!()` (`producer.rs:553`) and the rest of its frame
  is lost. `ConfirmTriggersCallback` is about ids no other message has.
* A timer that drains a message before its sender has counted it takes
  `message_count` below zero, and `val + 1` (`producer.rs:261`) overflows where
  overflow is checked. `CountIsQueue` holds through the wrap.
* When the connection is lost, or a drained batch cannot be published, the
  producer's waiters are left as they are (`producer.rs:602`, `87`):
  `send_with_confirm` does not return. `close` does not send what is buffered
  (`producer.rs:524`). `batch_send_with_confirm` of nothing asks for a channel of
  capacity 0, which panics (`producer.rs:399`).
* `consumer_update` registers an entry that no answer removes
  (`client/mod.rs:861`).
* A request that is refused for a long reference leaves its length and header
  in the write buffer (`request/mod.rs:162`), ahead of the next one, which the
  broker then misreads although its send returned Ok. `framing_all` has these
  conversations: `RequestsUnderstood` excepts what is sent after a refused request,
  and holds of everything before it.
* `connect` waits for ever when the connection ends between the answer to
  SaslAuthenticate and Tune (`client/mod.rs:614`): nobody but the Tune frame
  notifies. A request on a connection whose reading task panicked, or that races
  with the clear of the map, waits for ever as well (the first and the fourth of the
  runs above). `CallReturns` excepts these waits and no others.
* A call that fails after its first connection was made returns without closing
  it (`environment.rs:87` and the builders): socket, dispatcher and heartbeat
  task go on, also after the loss of the connection, since the heartbeat task
  and the client hold each other. `NothingLeftBehind` is about Ok and about
  refusals of create and delete.
* `create` closes its connection before it looks at the answer
  (`stream_creator.rs:25`): a failed close hides that the stream was made.
* A stream whose leader is not among the brokers of the answer is reported as
  `StreamDoesNotExist` (`metadata.rs:38`).
* The options a second connection is made with are those of the environment
  (`environment.rs:61`, `135`): the name the client was given is lost.
* `send` of a super stream producer panics on an empty list of partitions and on
  a lookup that fails (`superstream.rs:73`, `21`); `build` and `close` of a super
  stream consumer panic when one partition fails (`superstream_consumer.rs:93`,
  `202`), the tasks and subscriptions of the others stay. `close` of the producer
  returns before the partitions when its own client fails
  (`superstream_producer.rs:90`).
* AMQP: the length byte of a header's list is too large (`header.rs:68`); a null
  delivery count is read as 4; a described value is written with its marker
  twice; the fraction of a millisecond of a time is lost; a map with an odd count
  underflows (`map.rs:76`); a message that ends inside one of its values stalls
  the codec, which waits for the rest of a frame that is complete
  (`deliver.rs:128`).

## 5. The proofs

`tlapm` checks `DispatcherProofs`, `ConsumerProofs`, `ProducerProofs`,
`SuperStreamProofs`, `EnvironmentProofs`, `FramingProofs` and the lemmas in
`SequenceFacts`. Every safety invariant of the runs is proved but four about bytes,
and both refinements are; the inductive invariants below were checked by TLC on
small instances first.

**Dispatcher** (assumptions: finitely many calls, no more than correlation ids;
closers and updates disjoint; the broker's ids are ids):

* `TypeCorrect`: `Spec => []TypeOK`;
* `AnswersReachTheirCaller`: `Spec => []AnswerIsMine`;
* `WaitingCallsAreRegistered`: `Spec => []WaitingIsRegistered`;
* `Refinement`: `Spec => ImplementsRpcService`;
* `HeartbeatStopsFirst`: `Spec => []NoHeartbeatOnClosedChannel`.

`AnswerIsMine` is not inductive: it says nothing of an answer still on the wire.
The invariant `Inv` follows an id through its life. Calls that hold an id hold
different ones (`nextId` counts them, and there are no more calls than ids, so it
has not come around); an entry of the map, a request and a reply on the wire bear
the id of their own call; a call appears once in request, reply or inbox; what
each place in `pc` says of the call's entry. The refinement uses `Inv` in both
states of a step, for "answered implies executed". `HeartbeatStopsFirst` needs
that a closer past the heartbeat has stopped it and nobody starts it again.

**Consumer** (assumptions: chunks follow one another and cover the log; the
offsets are in it; the channel holds at least one):

* `TypeCorrect`: `Spec => []TypeOK`;
* `OneChunkAtATime`: `Spec => []OneChunkInFlight`;
* `DeliveredInOrder`: `Spec => []InOrder`, with any filter and listener;
* `OffsetsAreRight`: under `FilterCutsTails`, `Spec => []OffsetIsMessages`;
* `NothingEarly`: if the listener of a single active consumer answers no offset after
  the builder's, `Spec => []StartsWhereAsked`, with any filter;
* `NothingMissing`: if it answers the builder's, and under `SkipsNoWanted`,
  `Spec => []NoGap`;
* `Refinement`: under the same hypotheses, `Spec => ImplementsSubscription`.

None of these is inductive: order holds because there is one task, one task
because there is one credit. `Inv` says who holds the credit (the broker, a chunk
on the wire, a task, a credit command, or nobody after the connection was lost)
and, for each holder, up to which offset everything has been delivered and
nothing after it.

The hypotheses are about the post filter, and each is where the code needs it.
`FilterCutsTails`: of every chunk the filter rejects only the last messages (none and
all of them included). The label of a delivery is counted over what is left of the
chunk, so a message rejected in front of an accepted one shifts it, which is what
`consumer_filter` shows. `SkipsNoWanted`: the filter accepts the messages of the first
chunk that come before the builder's offset. The skip compares the labels, so where
the filter has shifted them it skips messages that were asked for. Both hold without
a filter, and both in `consumer_all`. The refinement maps the application's
deliveries to `received`; a step of broker, dispatcher, task or closer is a stutter
or the closing, and a poll that yields is `Receive` of the next message wanted,
because `Inv` places everything before it in what was delivered.

**Producer** (assumptions: finitely many calls; batches are non-empty sequences, and
no message is in two places of them or is also sent alone; the counter is wider
than a batch; `OwnId` is an id or none):

* `TypeCorrect`: `Spec => []TypeOK`;
* `CounterCorrect`: `Spec => []CountIsQueue`;
* `StoredAtMostOnce`: `Spec => []StoredOnce`;
* `SequenceStaysAhead`: `Spec => []SequenceAhead`;
* `IdsStayApart`: under `OnePolicy`, `Spec => []IdsApart`;
* `NeverTodo`, `CallbacksAreMine` and `NeverLost`: `Spec /\ []IdsApart` implies
  `[]NoPanic`, `[]CallbackIsMine` (with it that no message is called back for twice)
  and `[]NothingLost`;
* `OnePolicyDelivers`: under `OnePolicy`, `Spec` implies all three.

The invariants follow a message through its places: the call, the channel, a
worker's batch, the wire, the broker's pending answers, an answer, a handler task.
`Basic` says what a call has done at each point and who holds the lock. The counter
differs from the channel by the calls between `Add` and `CountAdd` and by the batch
of the worker that holds the lock, up to a multiple of the width (`CountOK`): the
counter may be below zero in between, so equality itself is not inductive.
`OnceOK` says that a message is at one place, once; `SequenceOK` that the ids of the
living process are below its sequence. `DeliveryOK` says that what is still to be
answered has its waiter, that every id in an answer has a waiter whose message
expects no other answer, and that no id is in two answers. For `NothingLost` these
are read the other way: whatever moves a message out of one of its places puts it
into the next (`RegisterKeeps` to `OtherKeeps`, one lemma for each kind of step), and
with the connection up nothing is dropped. It is the safety half of "every message
is answered", for any number of workers and batches.

`NoPanic` does not hold of every application: a message that brings an id the
sequence also gives out takes the other's waiter (section 4). `IdsApart`, no two
messages of one process with the same id, is the exact condition of the argument.
It is a hypothesis on the behaviour in the three theorems above, and it is
proved for an application that gives no ids, or gives all of them and no two alike
(`OnePolicy`). The instance of `producer_all` mixes both kinds of ids, without a
collision.

**Super streams** (assumptions: any keys, hashes and bindings of keys to sequences of
partitions; the channel holds at least one):

* `TypeCorrect`: `Spec => []TypeOK`;
* `KeyHasOneHome`: `Spec => []OneHome`;
* `SendIsWholeOrPrefix`: `Spec => []WholeOrPrefix`;
* `ClosesReachEverything`: `Spec => []ClosesReachAll`;
* `MergeInOrder`: `Spec => []MergeKeepsOrder`;
* `KeysInOrder`: `Spec => []KeyOrder`.

On the producer's side each message has a number of its routes that have it, each
as often as it is among them and exactly the first ones (`ServedOK`, `Counted`); its routes depend on the caches alone, which
keep their first answer (`SendOK`). On the consumer's side a map `at` places the
first messages of each log in what was delivered followed by the channel
(`MergeOK`): moving a delivery from the channel to the application leaves that
sequence as it is, and a task that sends extends the map of its own partition
only. `MergeKeepsOrder` is stated with that map. `KeysInOrder` composes the two
sides: one key has one partition, its log is in the order of sending (`LogOK`), and
the map is increasing.

**Connection and Environment** (assumptions: the options and what a broker proposes
are naturals; the host is a node):

* `TypeCorrect`: `Spec => []TypeOK`;
* `SidesAgree`: `Spec => []BothSidesAgree`;
* `HeartbeatFollows`: `Spec => []BeatsAsAgreed`;
* `RightNode`: `Spec => []AtTheRightNode`;
* `NoLeak`: `Spec => []NothingLeftBehind`.

`ConnFine` is about one connection: an answer not yet sent is what the state holds;
once a Tune was handled (a permit, or a later stage) and answered, the broker was
told the state's limits, and they are within the options; the task follows the
state; a connection past the answer to Close has no task, and a closed one nothing
at all. `CallFine` says for each point of a call how far its first client and the
second connection of the search have got, where they lead, and that every other
connection is unused or closed. From the last part follows that at most two are
held, for any number of rounds through the load balancer. A step of a connection is
shown once to keep its own record fine and to move its stage forwards
(`ConnMoves`), and the steps of the call use no more than that.

**Framing** (assumptions: a conversation is two sequences; the codec fits,
`CodecFits`):

* `ResponsesArrive`: `Spec => []ReceivedIsSent`;
* `RequestsArrive`: `Spec => []RequestsUnderstood`.

Conversations may be of any length and the stream cut anywhere. `CodecFits` is about
single reads of the stream and has no behaviours in it; TLC establishes it for
`Wire` (`ConversationFits`), for every response and request with the samples of the instance
(`framing_all`), since what the recursion over layouts yields needs induction over
data. The theorems are the part that has behaviours. The invariant of the reading
half (`ReadOK`) names four places in the one stream of frames: the buffer reaches
from the end of the last response yielded to `b`, the wire from `b` to `e`, and `e` is
the end of the last frame written while the connection is up. A reader that waits has
no whole frame in the buffer, which makes "nothing is held back" inductive.
`WriteOK` does the same for the frames between the last request understood and the
last one sent, as long as none was refused. After a refused one it keeps only what
the exception leaves: the bytes written before it are still the frames of the
requests before it, so the broker comes to the end of the last of them before it
meets any other byte, and what it understood begins with them.

**Model-checked only.**

* Liveness (`WaitingCallsReturn`, `CloseEndsDispatcher`, `EverythingArrives`,
  `StreamEnds`, `TasksEnd`, `EveryMessageAnswered`, `ConfirmTriggersCallback`,
  `CallReturns`, `ClosedStreamEnds`, `Arrives`): fairness and `ENABLED` are outside
  the prover.
* `ConversationFits`, `RoundTrip`, `SizeIsLength`, `OthersUnderstood`: the recursion over
  layouts and values needs induction over data and `RECURSIVE` operators.

## 6. Not modelled

* `store_offset` and `query_offset` of the consumer: a command and an RPC without
  state of the consumer; their layouts are in `Wire`, the RPC in `Dispatcher`.
* The map of options of `StreamCreator`: strings carried to the broker.
* TLS, options, metrics, errors: data without control of their own.
* Strings of 32768 bytes and more, whose length is written as an `i16`
  (`encoder.rs:163`) and read as a negative number, and the wrap of correlation ids (2^32 requests on a
  connection with an older one still pending): outside the instances and
  excluded by `IdModAssumption`.
* Malformed frames and messages: the models read what a writer that follows the
  format sends. A Close of the broker's own, whose layout nothing in the
  repository writes, is one of them.
* Received heartbeats: they refresh a time nobody reads.
* Several super stream producers at once, which may place a key differently when
  one was built before a partition was added.

## 7. Plan

1. `Dispatcher`, `RpcService` and their proofs - done.
2. `Consumer` and its proofs - done.
3. `Producer` and its proofs - done.
4. `Wire`, `Framing` and its proofs, `AmqpCodec`, `Amqp` - done.
5. `Connection`, `Environment` and their proofs - done.
6. `SuperStreamProducer`, `SuperStreamConsumer`, `SuperStream` and their proofs -
   done.
7. `Subscription`, and the consumer shown to implement it - done.
8. To come: an abstract specification of the producer (every message at most once in
   the log, then called back for), for which `NothingLost`, `StoredOnce` and
   `CallbackIsMine` are the facts; what single steps never do as action properties
   (a stored message stays stored, a connection given up is not taken back).
