------------------------------ MODULE Consumer ------------------------------
(***************************************************************************)
(* One Consumer on one stream (src/src/consumer.rs): the chunks a broker   *)
(* sends against credit, the handler task the client spawns for each of    *)
(* them, the bounded channel to the application, the application's         *)
(* poll_next with its wakers, ConsumerHandle::close, and the end of the    *)
(* connection.                                                             *)
(*                                                                         *)
(* The stream is a log of messages, each named by its true offset; chunk k *)
(* holds the messages First[k] .. First[k+1]-1.                            *)
(***************************************************************************)
EXTENDS Integers, Sequences, FiniteSets

CONSTANTS
    NumChunks,      \* how many chunks the log has
    First,          \* the first offset of each chunk, and the end of the log
    StartOffset,    \* builder: OffsetSpecification::Offset(StartOffset);
                    \* 0 stands for a specification without an offset
    Passes,         \* the messages post_filter's predicate accepts
    SingleActive,   \* is this a single active consumer, with a listener?
    Answer,         \* the offset its ConsumerUpdate listener answers
    Capacity        \* of the channel to the application (10000 in the code)

Chunks == 1 .. NumChunks
Offsets == 0 .. First[NumChunks + 1] - 1

ASSUME LogAssumption ==
    /\ NumChunks \in Nat \ {0}
    /\ First \in [1 .. NumChunks + 1 -> Nat]
    /\ First[1] = 0
    /\ \A j, k \in 1 .. NumChunks + 1 : j < k => First[j] < First[k]
    /\ \A o \in Offsets : \E k \in Chunks : First[k] <= o /\ o < First[k + 1]

ASSUME ParameterAssumption ==
    /\ StartOffset \in Offsets
    /\ Answer \in Offsets
    /\ Passes \subseteq Offsets
    /\ SingleActive \in BOOLEAN
    /\ Capacity \in Nat \ {0}

VARIABLES
    serving,      \* broker: "idle", "active" or "stopped" for the subscription
    credit,       \* broker: chunks it may still send
    nextChunk,    \* broker: the next chunk it would send
    toServer,     \* credit commands and the answer to a ConsumerUpdate
    toClient,     \* frames on their way to the client
    connected,    \* is the connection up?
    reading,      \* does the dispatcher task still read?
    running,      \* chunks a handler task is working on
    cursor,       \* the message each handler task is at
    label,        \* the offset each handler task would give it
    update,       \* the ConsumerUpdate: "none", "sent", "task", "done"
    noneTask,     \* the handler task for the final None: "no", "task", "done"
    sent,         \* every Delivery sent to the channel, in order
    taken,        \* how many of them the application has received
    closed,       \* ConsumerInternal::closed
    waker,        \* is the application's waker registered?
    woken,        \* has the application's task been woken?
    app,          \* where the application is in poll_next
    closer        \* where ConsumerHandle::close is

brokerVars == <<serving, credit, nextChunk>>
netVars    == <<toServer, toClient, connected, reading>>
taskVars   == <<running, cursor, label, update, noneTask>>
appVars    == <<taken, waker, woken, app>>
vars       == <<brokerVars, netVars, taskVars, sent, appVars, closed, closer>>

Deliveries == [msg : Offsets, offset : Nat]
Frames     == [kind : {"chunk"}, chunk : Chunks]
              \cup [kind : {"update", "unsubscribed", "refused"}]

\* The broker stays within the log, the application takes no more than was
\* sent, and every task and call is at one of its points.
TypeOK ==
    /\ serving \in {"idle", "active", "stopped"}
    /\ credit \in Nat
    /\ nextChunk \in 1 .. NumChunks + 1
    /\ toServer \in Seq({"credit", "answer"})
    /\ toClient \in Seq(Frames)
    /\ connected \in BOOLEAN
    /\ reading \in BOOLEAN
    /\ running \in SUBSET Chunks
    /\ cursor \in [Chunks -> Nat]
    /\ label \in [Chunks -> Nat]
    /\ update \in {"none", "sent", "task", "done"}
    /\ noneTask \in {"no", "task", "done"}
    /\ sent \in Seq(Deliveries)
    /\ taken \in 0 .. Len(sent)
    /\ closed \in BOOLEAN
    /\ waker \in BOOLEAN
    /\ woken \in BOOLEAN
    /\ app \in {"poll", "recv", "check", "asleep", "ended", "dropped"}
    /\ closer \in {"idle", "unsubscribe", "waiting", "wake", "disconnect",
                   "ok", "error"}

-----------------------------------------------------------------------------
(* ConsumerBuilder::build has set the handler and subscribed.              *)

\* Mutant of InitialCredit: two chunks may be under way.
InitialCreditTwo == 2

\* The credit given with subscribe.
InitialCredit == 1

\* The chunk that holds an offset.
ChunkOf(o) == CHOOSE k \in Chunks : First[k] <= o /\ o < First[k + 1]

\* Where the broker begins: at the subscription's offset or, for a single
\* active consumer, at the one its listener answers.
BrokerStart == IF SingleActive THEN Answer ELSE StartOffset

Init ==
    /\ serving = IF SingleActive THEN "idle" ELSE "active"
    /\ credit = InitialCredit
    /\ nextChunk = ChunkOf(BrokerStart)
    /\ toServer = <<>>
    /\ toClient = <<>>
    /\ connected = TRUE
    /\ reading = TRUE
    /\ running = {}
    /\ cursor = [k \in Chunks |-> 0]
    /\ label = [k \in Chunks |-> 0]
    /\ update = "none"
    /\ noneTask = "no"
    /\ sent = <<>>
    /\ taken = 0
    /\ closed = FALSE
    /\ waker = FALSE
    /\ woken = FALSE
    /\ app = "poll"
    /\ closer = "idle"

-----------------------------------------------------------------------------
(* The dispatcher task reads a frame and spawns a handler task for it, or  *)
(* hands the answer to unsubscribe to the task that waits for it.          *)

Read(kind) ==
    /\ reading
    /\ toClient # <<>>
    /\ Head(toClient).kind = kind
    /\ toClient' = Tail(toClient)
    /\ UNCHANGED <<brokerVars, toServer, connected, reading, noneTask, sent,
                   appVars, closed>>

\* handle_message begins with offset = chunk_first_offset.
ReadChunk ==
    /\ Read("chunk")
    /\ LET k == Head(toClient).chunk
       IN  /\ running' = running \cup {k}
           /\ cursor' = [cursor EXCEPT ![k] = First[k]]
           /\ label' = [label EXCEPT ![k] = First[k]]
    /\ UNCHANGED <<update, closer>>

ReadUpdate ==
    /\ Read("update")
    /\ update' = "task"
    /\ UNCHANGED <<running, cursor, label, closer>>

ReadUnsubscribed ==
    /\ Read("unsubscribed")
    /\ closer' = "wake"
    /\ UNCHANGED <<running, cursor, label, update>>

ReadRefused ==
    /\ Read("refused")
    /\ closer' = "error"
    /\ UNCHANGED <<running, cursor, label, update>>

\* The stream ends: pending requests fail, the handler is given None.
ReadEnd ==
    /\ reading
    /\ ~connected
    /\ toClient = <<>>
    /\ reading' = FALSE
    /\ noneTask' = "task"
    /\ closer' = IF closer = "waiting" THEN "error" ELSE closer
    /\ UNCHANGED <<brokerVars, toServer, toClient, connected, running, cursor,
                   label, update, sent, appVars, closed>>

-----------------------------------------------------------------------------
(* ConsumerMessageHandler::handle_message, in one task per frame.          *)

\* Mutant of Advance: the offset is not counted up.
AdvanceUncounted(k, by) ==
    /\ cursor' = [cursor EXCEPT ![k] = @ + 1]
    /\ UNCHANGED label

\* To the next message, the offset counted up by 1 or, for a rejected one, by 0.
Advance(k, by) ==
    /\ cursor' = [cursor EXCEPT ![k] = @ + 1]
    /\ label' = [label EXCEPT ![k] = @ + by]

\* The task is at one of the chunk's messages.
At(k) == k \in running /\ cursor[k] < First[k + 1]

\* The predicate rejects the message: it is not in the filtered vector, and
\* the offset counter does not see it.
FilterOut(k) ==
    /\ At(k)
    /\ cursor[k] \notin Passes
    /\ Advance(k, 0)
    /\ UNCHANGED <<brokerVars, netVars, running, update, noneTask, sent, appVars,
                   closed, closer>>

\* Mutant of SkipBelow: the offset asked for is itself skipped.
SkipBelowOrAt(k) ==
    /\ At(k)
    /\ cursor[k] \in Passes
    /\ StartOffset >= label[k]
    /\ Advance(k, 1)
    /\ UNCHANGED <<brokerVars, netVars, running, update, noneTask, sent, appVars,
                   closed, closer>>

\* The message is labelled below the offset asked for.
SkipBelow(k) ==
    /\ At(k)
    /\ cursor[k] \in Passes
    /\ StartOffset > label[k]
    /\ Advance(k, 1)
    /\ UNCHANGED <<brokerVars, netVars, running, update, noneTask, sent, appVars,
                   closed, closer>>

\* Mutant of Forward: the send does not fail when the receiver is gone; it waits for room
\* that a dropped consumer will never make.
ForwardWaits(k) ==
    /\ At(k)
    /\ cursor[k] \in Passes
    /\ StartOffset <= label[k]
    /\ app # "dropped"
    /\ Len(sent) - taken < Capacity
    /\ sent' = Append(sent, [msg |-> cursor[k], offset |-> label[k]])
    /\ woken' = (woken \/ app \in {"check", "asleep"})
    /\ Advance(k, 1)
    /\ UNCHANGED <<brokerVars, netVars, running, update, noneTask, taken, waker,
                   app, closed, closer>>

\* sender.send(Delivery): waits for room.  With the receiver gone it fails at
\* once, and the failure is ignored.
Forward(k) ==
    /\ At(k)
    /\ cursor[k] \in Passes
    /\ StartOffset <= label[k]
    /\ IF app = "dropped"
       THEN UNCHANGED <<sent, woken>>
       ELSE /\ Len(sent) - taken < Capacity
            /\ sent' = Append(sent, [msg |-> cursor[k], offset |-> label[k]])
            /\ woken' = (woken \/ app \in {"check", "asleep"})
    /\ Advance(k, 1)
    /\ UNCHANGED <<brokerVars, netVars, running, update, noneTask, taken, waker,
                   app, closed, closer>>

\* Mutant of Finish: two credits for one chunk.
FinishTwice(k) ==
    /\ k \in running
    /\ cursor[k] >= First[k + 1]
    /\ running' = running \ {k}
    /\ toServer' = IF connected THEN toServer \o <<"credit", "credit">> ELSE toServer
    /\ UNCHANGED <<brokerVars, toClient, connected, reading, cursor, label,
                   update, noneTask, sent, appVars, closed, closer>>

\* Mutant of Finish: the credit is not given back.
FinishNoCredit(k) ==
    /\ k \in running
    /\ cursor[k] >= First[k + 1]
    /\ running' = running \ {k}
    /\ UNCHANGED <<brokerVars, netVars, cursor, label, update, noneTask, sent,
                   appVars, closed, closer>>

\* After the whole chunk: client.credit(1), whose failure is ignored.
Finish(k) ==
    /\ k \in running
    /\ cursor[k] >= First[k + 1]
    /\ running' = running \ {k}
    /\ toServer' = IF connected THEN Append(toServer, "credit") ELSE toServer
    /\ UNCHANGED <<brokerVars, toClient, connected, reading, cursor, label,
                   update, noneTask, sent, appVars, closed, closer>>

\* ConsumerUpdate: the listener's answer is sent to the broker.
AnswerUpdate ==
    /\ update = "task"
    /\ update' = "done"
    /\ toServer' = IF connected THEN Append(toServer, "answer") ELSE toServer
    /\ UNCHANGED <<brokerVars, toClient, connected, reading, running, cursor,
                   label, noneTask, sent, appVars, closed, closer>>

\* AtomicWaker::wake takes the waker and wakes its task.
WakeApp ==
    /\ woken' = (woken \/ waker)
    /\ waker' = FALSE

\* None: closed.store(true), then waker.wake().  poll_next looks at the flag
\* after it has registered, so the two can be taken together.
HandleNone ==
    /\ noneTask = "task"
    /\ noneTask' = "done"
    /\ closed' = TRUE
    /\ WakeApp
    /\ UNCHANGED <<brokerVars, netVars, running, cursor, label, update, sent,
                   taken, app, closer>>

-----------------------------------------------------------------------------
(* The application: while let Some(..) = consumer.next().await.            *)

\* Mutant of Register: poll_next does not register its waker.
RegisterNot ==
    /\ app = "poll"
    /\ woken' = FALSE
    /\ app' = "recv"
    /\ UNCHANGED <<brokerVars, netVars, taskVars, sent, taken, waker, closed,
                   closer>>

\* poll_next begins: waker.register.
Register ==
    /\ app = "poll"
    /\ waker' = TRUE
    /\ woken' = FALSE
    /\ app' = "recv"
    /\ UNCHANGED <<brokerVars, netVars, taskVars, sent, taken, closed, closer>>

\* receiver.poll_recv: a delivery is returned, whether closed or not.
PollReady ==
    /\ app = "recv"
    /\ taken < Len(sent)
    /\ taken' = taken + 1
    /\ app' = "poll"
    /\ UNCHANGED <<brokerVars, netVars, taskVars, sent, waker, woken, closed,
                   closer>>

PollPending ==
    /\ app = "recv"
    /\ taken = Len(sent)
    /\ app' = "check"
    /\ UNCHANGED <<brokerVars, netVars, taskVars, sent, taken, waker, woken,
                   closed, closer>>

\* Mutant of CheckClosed: an empty channel is taken for the end of the stream.
CheckClosedEmpty ==
    /\ app = "check"
    /\ app' = "ended"
    /\ UNCHANGED <<brokerVars, netVars, taskVars, sent, taken, waker, woken,
                   closed, closer>>

\* (is_closed, pending): None if closed, else Pending.
CheckClosed ==
    /\ app = "check"
    /\ app' = IF closed THEN "ended" ELSE "asleep"
    /\ UNCHANGED <<brokerVars, netVars, taskVars, sent, taken, waker, woken,
                   closed, closer>>

WakeUp ==
    /\ app = "asleep"
    /\ woken
    /\ app' = "poll"
    /\ UNCHANGED <<brokerVars, netVars, taskVars, sent, taken, waker, woken,
                   closed, closer>>

\* The Consumer is dropped, its receiver with it; nothing else is told.
DropConsumer ==
    /\ app \in {"poll", "asleep"}
    /\ app' = "dropped"
    /\ UNCHANGED <<brokerVars, netVars, taskVars, sent, taken, waker, woken,
                   closed, closer>>

-----------------------------------------------------------------------------
(* ConsumerHandle::internal_close.                                         *)

\* compare_exchange(false, true): the loser gets AlreadyClosed.
CloseBegin ==
    /\ closer = "idle"
    /\ closer' = IF closed THEN "error" ELSE "unsubscribe"
    /\ closed' = TRUE
    /\ UNCHANGED <<brokerVars, netVars, taskVars, sent, appVars>>

\* client.unsubscribe: the request is written, or fails.
CloseUnsubscribe ==
    /\ closer = "unsubscribe"
    /\ \/ reading /\ closer' = "waiting"
       \/ ~connected /\ closer' = "error"
    /\ UNCHANGED <<brokerVars, netVars, taskVars, sent, appVars, closed>>

\* The answer was ok: waker.wake().
CloseWake ==
    /\ closer = "wake"
    /\ closer' = "disconnect"
    /\ WakeApp
    /\ UNCHANGED <<brokerVars, netVars, taskVars, sent, taken, app, closed>>

\* client.close().await?
CloseDisconnect ==
    /\ closer = "disconnect"
    /\ \/ closer' = "ok"
       \/ ~connected /\ closer' = "error"
    /\ UNCHANGED <<brokerVars, netVars, taskVars, sent, appVars, closed>>

-----------------------------------------------------------------------------
(* The broker and the network (external).                                  *)

BrokerSendChunk ==
    /\ connected
    /\ serving = "active"
    /\ credit > 0
    /\ nextChunk <= NumChunks
    /\ credit' = credit - 1
    /\ nextChunk' = nextChunk + 1
    /\ toClient' = Append(toClient, [kind |-> "chunk", chunk |-> nextChunk])
    /\ UNCHANGED <<serving, toServer, connected, reading, taskVars, sent,
                   appVars, closed, closer>>

BrokerSendUpdate ==
    /\ connected
    /\ SingleActive
    /\ serving = "idle"
    /\ update = "none"
    /\ update' = "sent"
    /\ toClient' = Append(toClient, [kind |-> "update"])
    /\ UNCHANGED <<brokerVars, toServer, connected, reading, running, cursor,
                   label, noneTask, sent, appVars, closed, closer>>

BrokerReceive ==
    /\ connected
    /\ toServer # <<>>
    /\ toServer' = Tail(toServer)
    /\ IF Head(toServer) = "credit"
       THEN credit' = credit + 1 /\ UNCHANGED serving
       ELSE /\ serving' = IF serving = "idle" THEN "active" ELSE serving
            /\ UNCHANGED credit
    /\ UNCHANGED <<nextChunk, toClient, connected, reading, taskVars, sent,
                   appVars, closed, closer>>

\* The broker answers the unsubscribe request, once.
BrokerUnsubscribe ==
    /\ connected
    /\ closer = "waiting"
    /\ \A i \in 1 .. Len(toClient) :
          toClient[i].kind \notin {"unsubscribed", "refused"}
    /\ \/ /\ toClient' = Append(toClient, [kind |-> "unsubscribed"])
          /\ serving' = "stopped"
       \/ /\ toClient' = Append(toClient, [kind |-> "refused"])
          /\ UNCHANGED serving
    /\ UNCHANGED <<credit, nextChunk, toServer, connected, reading, taskVars,
                   sent, appVars, closed, closer>>

Disconnect ==
    /\ connected
    /\ connected' = FALSE
    /\ toServer' = <<>>
    /\ \E n \in 0 .. Len(toClient) : toClient' = SubSeq(toClient, 1, n)
    /\ UNCHANGED <<brokerVars, reading, taskVars, sent, appVars, closed, closer>>

-----------------------------------------------------------------------------
TaskStep(k) == FilterOut(k) \/ SkipBelow(k) \/ Forward(k) \/ Finish(k)

ReadStep == ReadChunk \/ ReadUpdate \/ ReadUnsubscribed \/ ReadRefused \/ ReadEnd

AppStep == Register \/ PollReady \/ PollPending \/ CheckClosed \/ WakeUp

CloseStep == CloseUnsubscribe \/ CloseWake \/ CloseDisconnect

BrokerStep == BrokerSendChunk \/ BrokerSendUpdate \/ BrokerReceive
              \/ BrokerUnsubscribe

Next ==
    \/ \E k \in Chunks : TaskStep(k)
    \/ ReadStep
    \/ AnswerUpdate
    \/ HandleNone
    \/ AppStep
    \/ DropConsumer
    \/ CloseBegin
    \/ CloseStep
    \/ BrokerStep
    \/ Disconnect

Spec == Init /\ [][Next]_vars

(***************************************************************************)
(* Fairness: tokio polls every task that can make progress, the broker     *)
(* sends what it has credit for and answers, and it hangs up on a client   *)
(* that has closed.  Nothing makes the connection break, the application   *)
(* drop its consumer or anybody close it.                                  *)
(***************************************************************************)
Fairness ==
    /\ \A k \in Chunks : WF_vars(TaskStep(k))
    /\ WF_vars(ReadStep)
    /\ WF_vars(AnswerUpdate)
    /\ WF_vars(HandleNone)
    /\ WF_vars(AppStep)
    /\ WF_vars(CloseStep)
    /\ WF_vars(BrokerStep)
    /\ WF_vars(closer = "ok" /\ Disconnect)

FairSpec == Spec /\ Fairness

-----------------------------------------------------------------------------
(* Properties.                                                             *)

ChunkFrames == {i \in 1 .. Len(toClient) : toClient[i].kind = "chunk"}

\* The credit the subscription was given is in one place at a time: with the
\* broker, in a chunk on the wire, in a handler task or in a credit command on
\* its way back.  So although every chunk is handled by a task of its own, at
\* most one such task exists.
OneChunkInFlight ==
    credit + Cardinality(ChunkFrames) + Cardinality(running)
           + Cardinality({i \in 1 .. Len(toServer) : toServer[i] = "credit"})
      <= InitialCredit

\* The messages reach the channel in the order of the log, none of them twice,
\* though handle_message runs in tasks that nothing else keeps in order; and the
\* offsets they are given increase with them, even where a filter makes them wrong.
InOrder ==
    \A i, j \in 1 .. Len(sent) :
        i < j => sent[i].msg < sent[j].msg /\ sent[i].offset < sent[j].offset

\* Nothing before the offset asked for is delivered: the subscription's or,
\* for a single active consumer, the one "returned by the user callback".
StartsWhereAsked ==
    \A i \in 1 .. Len(sent) : sent[i].msg >= BrokerStart

NoneLeftOut ==
    \A i \in 1 .. Len(sent), m \in Passes :
        BrokerStart <= m /\ m <= sent[i].msg =>
            \E j \in 1 .. i : sent[j].msg = m

\* Deliveries begin at the offset asked for, and between it and the last message
\* sent to the channel no message that passes the filter is missing.
NoGap == StartsWhereAsked /\ NoneLeftOut

\* Delivery::offset is the offset of the delivery's message.
OffsetIsMessages ==
    \A i \in 1 .. Len(sent) : sent[i].offset = sent[i].msg

\* An application that goes on polling receives every message, unless the
\* consumer is closed, dropped or disconnected: the credit loop between
\* handler and broker never runs dry.
EverythingArrives ==
    \A m \in Passes :
        BrokerStart <= m =>
            <>(\/ \E i \in 1 .. taken : sent[i].msg = m
               \/ closed \/ ~connected \/ app = "dropped")

\* After a close() that returned Ok, and after the end of the connection, an
\* application that polls (or sleeps in poll_next) is given None.
StreamEnds ==
    (closer = "ok" \/ ~connected) ~> (app \in {"ended", "dropped"})

\* What a dropped Consumer leaves behind: nothing waits for room in a channel
\* that nobody reads, so every handler task still comes to its end.
TasksEnd ==
    \A k \in Chunks : (k \in running /\ app = "dropped") ~> (k \notin running)

-----------------------------------------------------------------------------
(* What the application sees of all this is Subscription.                  *)

Promise == INSTANCE Subscription
             WITH Wanted   <- {m \in Passes : BrokerStart <= m},
                  received <- [i \in 1 .. taken |-> sent[i].msg],
                  closed   <- closed,
                  reader   <- IF app \in {"ended", "dropped"} THEN app ELSE "polling"

\* Whatever the interleaving of broker, dispatcher, handler tasks, poll_next and
\* close(), an application receives the messages asked for one after the other, and
\* None only after the end of the connection or a close().
ImplementsSubscription == Promise!Spec

-----------------------------------------------------------------------------
(* The invariant the safety properties follow from: the one credit has a   *)
(* single holder, and the holder says how far into the log the consumer is.*)

\* In no chunk does a message that passes the filter follow one that does not:
\* there the offset counter, which does not see the rejected ones, is right.
FilterCutsTails ==
    \A k \in Chunks : \A m, n \in First[k] .. First[k + 1] - 1 :
        m < n /\ n \in Passes => m \in Passes

\* The filter accepts what comes, in the chunk of the builder's offset, before it,
\* so that handle_message does not take a later message for one of these; and the
\* broker does not begin before that offset.
SkipsNoWanted ==
    /\ StartOffset <= BrokerStart
    /\ \A o \in Offsets : First[ChunkOf(StartOffset)] <= o /\ o < StartOffset => o \in Passes

\* The messages before f, and no others, have been dealt with.
Done(f) ==
    /\ \A i \in 1 .. Len(sent) : sent[i].msg < f
    /\ SkipsNoWanted /\ app # "dropped" =>
          \A m \in Passes : BrokerStart <= m /\ m < f =>
              \E j \in 1 .. Len(sent) : sent[j].msg = m

\* What the offset counter of the handler task of chunk k says of its cursor.
LabelFine(k) ==
    /\ First[k] <= label[k] /\ label[k] <= cursor[k]
    /\ \A i \in 1 .. Len(sent) : sent[i].offset < label[k]
    /\ FilterCutsTails =>
          \/ label[k] = cursor[k]
          \/ \E m \in First[k] .. cursor[k] - 1 : m \notin Passes
    /\ SkipsNoWanted =>
          \/ label[k] = cursor[k] \/ StartOffset <= label[k]
          \/ First[k + 1] <= StartOffset

NoChunk(frames)    == \A i \in 1 .. Len(frames) : frames[i].kind # "chunk"
NoCredit(commands) == \A i \in 1 .. Len(commands) : commands[i] # "credit"

OnlyChunk(frames, i) ==
    /\ i \in 1 .. Len(frames)
    /\ frames[i] = [kind |-> "chunk", chunk |-> nextChunk - 1]
    /\ \A j \in 1 .. Len(frames) : j # i => frames[j].kind # "chunk"

OnlyCredit(commands, i) ==
    /\ i \in 1 .. Len(commands)
    /\ commands[i] = "credit"
    /\ \A j \in 1 .. Len(commands) : j # i => commands[j] # "credit"

CreditWithBroker ==
    /\ credit = 1 /\ running = {} /\ NoChunk(toClient) /\ NoCredit(toServer)
    /\ Done(First[nextChunk])

CreditInFrame ==
    /\ credit = 0 /\ running = {} /\ NoCredit(toServer)
    /\ nextChunk > 1
    /\ \E i \in 1 .. Len(toClient) : OnlyChunk(toClient, i)
    /\ Done(First[nextChunk - 1])

CreditInTask ==
    /\ credit = 0 /\ NoChunk(toClient) /\ NoCredit(toServer)
    /\ nextChunk > 1
    /\ running = {nextChunk - 1}
    /\ cursor[nextChunk - 1] <= First[nextChunk]
    /\ LabelFine(nextChunk - 1)
    /\ Done(cursor[nextChunk - 1])

CreditInCommand ==
    /\ credit = 0 /\ running = {} /\ NoChunk(toClient)
    /\ \E i \in 1 .. Len(toServer) : OnlyCredit(toServer, i)
    /\ Done(First[nextChunk])

CreditLost ==
    /\ ~connected
    /\ credit = 0 /\ running = {} /\ NoChunk(toClient) /\ NoCredit(toServer)

Holder == CreditWithBroker \/ CreditInFrame \/ CreditInTask \/ CreditInCommand
          \/ CreditLost

\* What is in the channel was accepted by the filter, and was labelled neither below
\* the offset the builder asked for nor above its own.
SentFine ==
    \A i \in 1 .. Len(sent) : /\ sent[i].msg \in Passes
                             /\ StartOffset <= sent[i].offset
                             /\ sent[i].offset <= sent[i].msg

Inv ==
    /\ TypeOK
    /\ Holder
    /\ InOrder
    /\ SentFine
    /\ FilterCutsTails => OffsetIsMessages
    /\ SkipsNoWanted => NoneLeftOut
=============================================================================
