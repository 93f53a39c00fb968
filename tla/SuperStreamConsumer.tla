-------------------------- MODULE SuperStreamConsumer --------------------------
(***************************************************************************)
(* superstream_consumer.rs: a consumer per partition, each with a task     *)
(* that forwards to one channel, the stream the application polls, and the *)
(* close of them all.  A partition's consumer gives the messages of its    *)
(* log in order and ends once it is closed: Consumer.tla's subject.        *)
(***************************************************************************)
EXTENDS Integers, Sequences, FiniteSets

CONSTANTS
    Partitions, Messages,
    Capacity    \* of the channel (10000 in the code)

VARIABLES
    log,        \* the messages of each partition
    built,      \* build: "no", "building", "ready", "failed", "panic"
    wanted,     \* partitions whose consumer is still to be built
    handlers,   \* the ConsumerHandles, in the order of the partitions
    subs,       \* the consumer of each partition; "mute": closed, nobody was woken
    task,       \* the forwarding task of each partition
    next,       \* how much of each log the partition's consumer has given
    hand,       \* the delivery a task waits to send
    chan,       \* the channel all tasks send to
    delivered,  \* what the application was given
    app,        \* the application in poll_next; "gone": it dropped the consumer
    woken,      \* its waker was called since it looked at the channel
    client,     \* the consumer's own client
    closed,     \* SuperStreamConsumerInternal.closed
    closer      \* SuperStreamConsumerHandle::close: [at, todo]

buildVars    == <<built, wanted, handlers, client>>
taskVars     == <<task, next, hand>>
appVars      == <<chan, delivered, app, woken>>
consumerVars == <<buildVars, subs, taskVars, appVars, closed, closer>>

Delivery == [from : Partitions, msg : Messages]

ConsumerTypeOK ==
    /\ built \in {"no", "building", "ready", "failed", "panic"}
    /\ wanted \in Seq(Partitions) /\ handlers \in Seq(Partitions)
    /\ subs \in [Partitions -> {"none", "open", "closed", "mute"}]
    /\ task \in [Partitions -> {"none", "next", "sending", "ended"}]
    /\ next \in [Partitions -> Nat]
    /\ hand \in [Partitions -> Seq(Delivery)]
    /\ chan \in Seq(Delivery) /\ Len(chan) <= Capacity
    /\ delivered \in Seq(Delivery)
    /\ app \in {"waiting", "run", "checking", "parked", "ended", "gone"}
    /\ woken \in BOOLEAN /\ closed \in BOOLEAN
    /\ client \in {"none", "up", "closed"}
    /\ closer \in [at : {"idle", "cas", "handles", "Ok", "Err", "panic"},
                   todo : Seq(Partitions)]

ConsumerInit ==
    /\ built = "no" /\ wanted = <<>> /\ handlers = <<>> /\ client = "none"
    /\ subs = [p \in Partitions |-> "none"]
    /\ task = [p \in Partitions |-> "none"]
    /\ next = [p \in Partitions |-> 0]
    /\ hand = [p \in Partitions |-> <<>>]
    /\ chan = <<>> /\ delivered = <<>>
    /\ app = "waiting" /\ woken = FALSE
    /\ closed = FALSE
    /\ closer = [at |-> "idle", todo |-> <<>>]

\* A waker is called: a parked application polls again.
Wake ==
    /\ app' = IF app = "parked" THEN "run" ELSE app
    /\ woken' = (woken \/ app = "checking")

-----------------------------------------------------------------------------
(* SuperStreamConsumerBuilder::build.                                      *)

\* create_client, and the lookup of the partitions, whose failure is a panic.
BuildBegin(answer, ok) ==
    /\ built = "no"
    /\ \/ ok /\ built' = "building" /\ wanted' = answer /\ client' = "up"
       \/ ~ok /\ built' \in {"failed", "panic"} /\ UNCHANGED <<wanted, client>>
    /\ UNCHANGED <<log, handlers, subs, taskVars, appVars, closed, closer>>

\* ConsumerBuilder::build of the next partition, and its task.
BuildPartition ==
    /\ built = "building"
    /\ wanted # <<>>
    /\ wanted' = Tail(wanted)
    /\ handlers' = Append(handlers, Head(wanted))
    /\ subs' = [subs EXCEPT ![Head(wanted)] = "open"]
    /\ task' = [task EXCEPT ![Head(wanted)] = "next"]
    /\ UNCHANGED <<log, built, client, next, hand, appVars, closed, closer>>

\* unwrap of a failed build: the receiver is gone, the tasks made so far are not.
BuildPanics ==
    /\ built = "building"
    /\ wanted # <<>>
    /\ built' = "panic" /\ app' = "gone"
    /\ UNCHANGED <<log, wanted, handlers, client, subs, taskVars, chan, delivered, woken,
                   closed, closer>>

BuildDone ==
    /\ built = "building"
    /\ wanted = <<>>
    /\ built' = "ready" /\ app' = "run"
    /\ UNCHANGED <<log, wanted, handlers, client, subs, taskVars, chan, delivered, woken,
                   closed, closer>>

-----------------------------------------------------------------------------
(* The task of a partition: while let Some(d) = consumer.next().await.     *)

\* Mutant: the task holds a delivery while it asks for the next one.
TaskNextAhead(p) ==
    /\ task[p] \in {"next", "sending"}
    /\ subs[p] # "none"
    /\ next[p] < Len(log[p])
    /\ next' = [next EXCEPT ![p] = @ + 1]
    /\ hand' = [hand EXCEPT ![p] = <<[from |-> p, msg |-> log[p][next[p] + 1]]>>]
    /\ task' = [task EXCEPT ![p] = "sending"]
    /\ UNCHANGED <<log, buildVars, subs, appVars, closed, closer>>

\* A consumer that was closed still gives what it had buffered.
TaskNext(p) ==
    /\ task[p] = "next"
    /\ subs[p] # "none"
    /\ next[p] < Len(log[p])
    /\ next' = [next EXCEPT ![p] = @ + 1]
    /\ hand' = [hand EXCEPT ![p] = <<[from |-> p, msg |-> log[p][next[p] + 1]]>>]
    /\ task' = [task EXCEPT ![p] = "sending"]
    /\ UNCHANGED <<log, buildVars, subs, appVars, closed, closer>>

\* Mutant: the task ends instead of waiting for room.
TaskSendTry(p) ==
    /\ task[p] = "sending"
    /\ IF app = "gone" THEN UNCHANGED appVars
       ELSE /\ chan' = IF Len(chan) < Capacity THEN chan \o hand[p] ELSE chan
            /\ Wake
            /\ UNCHANGED delivered
    /\ hand' = [hand EXCEPT ![p] = IF Len(chan) < Capacity THEN <<>> ELSE @]
    /\ task' = [task EXCEPT ![p] = IF Len(chan) < Capacity THEN "next" ELSE "ended"]
    /\ UNCHANGED <<log, buildVars, subs, next, closed, closer>>

\* tx_cloned.send waits for room; without a receiver its error is ignored.
TaskSend(p) ==
    /\ task[p] = "sending"
    /\ IF app = "gone" THEN UNCHANGED appVars
       ELSE /\ Len(chan) < Capacity
            /\ chan' = chan \o hand[p]
            /\ Wake
            /\ UNCHANGED delivered
    /\ hand' = [hand EXCEPT ![p] = <<>>]
    /\ task' = [task EXCEPT ![p] = "next"]
    /\ UNCHANGED <<log, buildVars, subs, next, closed, closer>>

\* Mutant: build keeps its own sender.
SendersGoneNever(tasks) == FALSE

\* All senders are dropped: build is over and every task has ended.
SendersGone(tasks) ==
    built = "ready" /\ \A p \in Partitions : tasks[p] \in {"none", "ended"}

\* next returned None; the last sender to go wakes the receiver.
TaskEnd(p) ==
    /\ task[p] = "next"
    /\ subs[p] \in {"closed", "mute"}
    /\ task' = [task EXCEPT ![p] = "ended"]
    /\ IF SendersGone(task') THEN Wake ELSE UNCHANGED <<app, woken>>
    /\ UNCHANGED <<log, buildVars, subs, next, hand, chan, delivered, closed, closer>>

-----------------------------------------------------------------------------
(* poll_next and the end of the application's interest.                    *)

PollReady ==
    /\ app = "run"
    /\ chan # <<>>
    /\ delivered' = Append(delivered, Head(chan))
    /\ chan' = Tail(chan)
    /\ UNCHANGED <<log, buildVars, subs, taskVars, app, woken, closed, closer>>

\* poll_recv has nothing: no sender is left, or is_closed is looked at next.
PollEmpty ==
    /\ app = "run"
    /\ chan = <<>>
    /\ app' = IF SendersGone(task) THEN "ended" ELSE "checking"
    /\ woken' = FALSE
    /\ UNCHANGED <<log, buildVars, subs, taskVars, chan, delivered, closed, closer>>

CheckClosed ==
    /\ app = "checking"
    /\ app' = CASE closed -> "ended"
                [] ~closed /\ woken -> "run"
                [] ~closed /\ ~woken -> "parked"
    /\ UNCHANGED <<log, buildVars, subs, taskVars, chan, delivered, woken, closed, closer>>

\* The tasks do not notice that nobody reads any more.
DropConsumer ==
    /\ app \in {"run", "parked"}
    /\ app' = "gone"
    /\ UNCHANGED <<log, buildVars, subs, taskVars, chan, delivered, woken, closed, closer>>

-----------------------------------------------------------------------------
(* SuperStreamConsumerHandle::close.                                       *)

\* The waker is called before there is anything to see.
CloseWake ==
    /\ built = "ready"
    /\ closer.at = "idle"
    /\ closer' = [closer EXCEPT !.at = "cas"]
    /\ Wake
    /\ UNCHANGED <<log, buildVars, subs, taskVars, chan, delivered, closed>>

CloseCas ==
    /\ closer.at = "cas"
    /\ closed' = TRUE
    /\ closer' = [at |-> "handles", todo |-> handlers]
    /\ UNCHANGED <<log, buildVars, subs, taskVars, appVars>>

\* The close of another handle: it has called the waker too, loses the exchange, which
\* changes nothing, and returns AlreadyClosed. Its waker may come before the other's
\* exchange.
CloseAgain ==
    /\ closer.at # "idle"
    /\ Wake
    /\ UNCHANGED <<log, buildVars, subs, taskVars, chan, delivered, closed, closer>>

\* internal_close().await.unwrap() of the next handle.
CloseHandle ==
    /\ closer.at = "handles"
    /\ closer.todo # <<>>
    /\ subs[Head(closer.todo)] = "open"
    /\ subs' = [subs EXCEPT ![Head(closer.todo)] = "closed"]
    /\ closer' = [closer EXCEPT !.todo = Tail(@)]
    /\ UNCHANGED <<log, buildVars, taskVars, appVars, closed>>

\* A consumer whose connection ended has closed itself: AlreadyClosed, unwrapped.
CloseHandleAgain ==
    /\ closer.at = "handles"
    /\ closer.todo # <<>>
    /\ subs[Head(closer.todo)] = "closed"
    /\ closer' = [closer EXCEPT !.at = "panic"]
    /\ UNCHANGED <<log, buildVars, subs, taskVars, appVars, closed>>

\* unsubscribe fails or is refused: closed is set, nobody is woken, unwrapped.
CloseHandleFails ==
    /\ closer.at = "handles"
    /\ closer.todo # <<>>
    /\ subs[Head(closer.todo)] = "open"
    /\ subs' = [subs EXCEPT ![Head(closer.todo)] = "mute"]
    /\ closer' = [closer EXCEPT !.at = "panic"]
    /\ UNCHANGED <<log, buildVars, taskVars, appVars, closed>>

\* self.0.client.close().await?
CloseClient(ok) ==
    /\ closer.at = "handles"
    /\ closer.todo = <<>>
    /\ closer' = [closer EXCEPT !.at = IF ok THEN "Ok" ELSE "Err"]
    /\ client' = IF ok THEN "closed" ELSE client
    /\ UNCHANGED <<log, built, wanted, handlers, subs, taskVars, appVars, closed>>

\* External: the connection of a partition's consumer ends; HandleNone closes it.
LoseSubscription(p) ==
    /\ subs[p] = "open"
    /\ subs' = [subs EXCEPT ![p] = "closed"]
    /\ UNCHANGED <<log, buildVars, taskVars, appVars, closed, closer>>

-----------------------------------------------------------------------------
AppStep == PollReady \/ PollEmpty \/ CheckClosed

TaskStep(p) == TaskNext(p) \/ TaskSend(p)

-----------------------------------------------------------------------------
\* The deliveries from p are the first n messages of its log, in order: at tells where.
PrefixAt(p, deliveries, n, at) ==
    /\ \A i, j \in 1 .. n : i < j => at[i] < at[j]
    /\ \A i \in 1 .. n : deliveries[at[i]] = [from |-> p, msg |-> log[p][i]]
    /\ \A k \in 1 .. Len(deliveries) : deliveries[k].from = p => \E i \in 1 .. n : at[i] = k

\* MergeKeepsOrder: of each partition the application was given, and the channel and
\* the task hold, a prefix of the log, in order, with no message twice or left
\* out, whatever the other partitions' tasks do and however full the channel is.
MergeKeepsOrder ==
    app # "gone" =>
    \A p \in Partitions :
       LET sent  == next[p] - Len(hand[p])
           given == delivered \o chan
       IN  /\ \E at \in [1 .. sent -> 1 .. Len(given)] : PrefixAt(p, given, sent, at)
           /\ \A i \in 1 .. Len(hand[p]) : hand[p][i] = [from |-> p, msg |-> log[p][sent + i]]

\* OkClosesAll: a close that returned Ok has closed the consumer of every partition
\* and the client (each internal_close is unwrapped before the next one).
OkClosesAll ==
    closer.at = "Ok" =>
       client = "closed" /\ \A i \in 1 .. Len(handlers) : subs[handlers[i]] = "closed"

\* ClosedStreamEnds: after a close that returned Ok the application is given None,
\* even one that slept through: the waker was called before closed was set, so it
\* is the last forwarding task that wakes it.
ClosedStreamEnds == closer.at = "Ok" ~> app \in {"ended", "gone"}
=============================================================================
