------------------------------ MODULE SuperStream ------------------------------
(***************************************************************************)
(* A SuperStreamProducer and a SuperStreamConsumer on the same super       *)
(* stream: what the one hands to a partition's producer the other reads    *)
(* from that partition, in the same order.                                 *)
(***************************************************************************)
EXTENDS SuperStreamProducer

CONSTANT Capacity    \* of the consumer's channel

ASSUME CapacityAssumption == Capacity \in Nat \ {0}

VARIABLES built, wanted, handlers, subs, task, next, hand, chan, delivered, app, woken,
          client, closed, closer

Consumer == INSTANCE SuperStreamConsumer

consumerVars == <<built, wanted, handlers, subs, task, next, hand, chan, delivered, app,
                  woken, client, closed, closer>>

vars == <<producerVars, partitions, faults, log, consumerVars>>

TypeOK == ProducerTypeOK /\ Consumer!ConsumerTypeOK

Init == ProducerInit /\ Consumer!ConsumerInit

\* The answer to the lookup of the partitions: as many as there are, in order.
Listed == [i \in 1 .. partitions |-> i]

Quiet == UNCHANGED <<producerVars, partitions>>

\* Steps of the consumer that need no fault, and those that are one.
ConsumerRuns ==
    \/ Consumer!BuildBegin(Listed, TRUE)
    \/ Consumer!BuildPartition
    \/ Consumer!BuildDone
    \/ \E p \in Partitions : Consumer!TaskStep(p) \/ Consumer!TaskEnd(p)
    \/ Consumer!AppStep
    \/ Consumer!DropConsumer
    \/ Consumer!CloseWake
    \/ Consumer!CloseCas
    \/ Consumer!CloseAgain
    \/ Consumer!CloseHandle
    \/ Consumer!CloseHandleAgain
    \/ Consumer!CloseClient(TRUE)

ConsumerFaults ==
    \/ Consumer!BuildBegin(Listed, FALSE)
    \/ Consumer!BuildPanics
    \/ Consumer!CloseHandleFails
    \/ Consumer!CloseClient(FALSE)
    \/ \E p \in Partitions : Consumer!LoseSubscription(p)

Next ==
    \/ ProducerNext /\ UNCHANGED consumerVars
    \/ AddPartition /\ UNCHANGED consumerVars
    \/ ConsumerRuns /\ Quiet /\ UNCHANGED faults
    \/ ConsumerFaults /\ Quiet /\ Fault

Spec == Init /\ [][Next]_vars

\* The runtime runs the tasks and the application polls. Nothing makes anybody send,
\* close, drop or fail. A muted consumer's task is not
\* woken, so nothing is asked of it.
Still == Quiet /\ UNCHANGED faults

Fairness ==
    /\ WF_vars(Consumer!AppStep /\ Still)
    /\ \A p \in Partitions :
         /\ WF_vars(Consumer!TaskStep(p) /\ Still)
         /\ WF_vars(subs[p] = "closed" /\ Consumer!TaskEnd(p) /\ Still)

FairSpec == Spec /\ Fairness

-----------------------------------------------------------------------------
\* Of each partition the application gets a prefix of the log, in order
\* (SuperStreamConsumer's forwarding tasks).
MergeKeepsOrder == Consumer!MergeKeepsOrder

\* ClosesReachAll: a close that returned Ok has closed every partition's consumer and the
\* client; the producer's, once it came past its own client, has tried every producer
\* although another one failed, and says Ok only if none did.
ClosesReachAll == EveryProducerTried /\ Consumer!OkClosesAll

\* After a close of the consumer that returned Ok the application is given None.
ClosedStreamEnds == Consumer!ClosedStreamEnds

\* KeyOrder: two messages of one key, under the hash strategy, reach the application
\* in the order in which they were sent, though the partitions of the super stream
\* are read side by side and may become more.
KeyOrder ==
    strategy = "hash" =>
    \A i, j \in 1 .. Len(delivered) :
       i < j /\ KeyOf[delivered[i].msg] = KeyOf[delivered[j].msg]
       => delivered[i].msg < delivered[j].msg

\* Arrives: an application that goes on polling is given every message of a partition
\* that is being read, unless that partition's consumer, the whole one or the
\* application's interest ends: no task starves behind a full channel.
Arrives ==
    \A p \in Partitions :
       subs[p] = "open" ~>
         \/ Len(SelectSeq(delivered, LAMBDA d : d.from = p)) = Len(log[p])
         \/ subs[p] # "open" \/ closed \/ app \in {"gone", "waiting"}
=============================================================================
