-------------------------- MODULE SuperStreamProducer --------------------------
(***************************************************************************)
(* superstream.rs and superstream_producer.rs: where a message goes, the   *)
(* producers made on the way, and the close of them all.  What a producer  *)
(* of one partition does with a message is Producer.tla's subject: here it *)
(* is handed over, in order, to the partition's log, or refused.           *)
(***************************************************************************)
EXTENDS Integers, Sequences, FiniteSets

CONSTANTS
    NumMessages,    \* the application sends messages 1 .. NumMessages, in this order
    NumPartitions,  \* bound: partitions the super stream may come to have
    Keys,           \* routing keys
    KeyOf,          \* the routing_extractor: the key of a message
    HashOf,         \* murmur3_32 of a key
    Bindings,       \* the broker's answer to route: the partitions bound to a key
    MaxFaults       \* bound: connections lost and requests refused

ASSUME SuperStreamAssumption ==
    /\ NumMessages \in Nat /\ NumPartitions \in Nat /\ MaxFaults \in Nat
    /\ KeyOf \in [1 .. NumMessages -> Keys]
    /\ HashOf \in [Keys -> Nat]
    /\ Bindings \in [Keys -> Seq(1 .. NumPartitions)]

Messages   == 1 .. NumMessages
Partitions == 1 .. NumPartitions

VARIABLES
    strategy,   \* RoutingStrategy
    partitions, \* broker: how many partitions there are; a new one comes last
    faults,     \* faults so far
    link,       \* the producer's own client: "up", "lost", "closed"
    cached,     \* DefaultSuperStreamMetadata.partitions, as their number; 0 until asked
    routes,     \* DefaultSuperStreamMetadata.routes
    producers,  \* what became of the producer of each partition
    current,    \* the message being sent, 0 when there is none
    todo,       \* its routes still to be served
    outcome,    \* what send returned for each message
    log,        \* messages handed to each partition's producer
    closing     \* SuperStreamProducer::close

routeVars    == <<strategy, cached, routes>>
producerVars == <<routeVars, link, producers, current, todo, outcome, closing>>

Unasked == <<0>>

ProducerTypeOK ==
    /\ strategy \in {"hash", "key"}
    /\ partitions \in 0 .. NumPartitions
    /\ faults \in 0 .. MaxFaults
    /\ link \in {"up", "lost", "closed"}
    /\ cached \in 0 .. NumPartitions
    /\ routes \in [Keys -> {Unasked} \union {Bindings[k] : k \in Keys}]
    /\ producers \in [Partitions -> {"none", "open", "closed", "unclosed"}]
    /\ current \in 0 .. NumMessages
    /\ todo \in Seq(Partitions)
    /\ outcome \in [Messages -> {"none", "Ok", "Err", "panic"}]
    /\ log \in [Partitions -> Seq(Messages)]
    /\ closing \in {"no", "producers", "Ok", "Err", "ClientError"}

\* SuperStreamProducerBuilder::build: a client and nothing else.
ProducerInit ==
    /\ strategy \in {"hash", "key"}
    /\ partitions \in 0 .. NumPartitions
    /\ faults = 0
    /\ link = "up"
    /\ cached = 0
    /\ routes = [k \in Keys |-> Unasked]
    /\ producers = [p \in Partitions |-> "none"]
    /\ current = 0
    /\ todo = <<>>
    /\ outcome = [m \in Messages |-> "none"]
    /\ log = [p \in Partitions |-> <<>>]
    /\ closing = "no"

Fault == faults < MaxFaults /\ faults' = faults + 1

-----------------------------------------------------------------------------
(* send.  &mut self: one message at a time.                                *)

Panicked == \E m \in Messages : outcome[m] = "panic"

Idle == current = 0 /\ closing = "no" /\ ~Panicked

\* The application sends its messages in order; a failed one is not sent again.
Sends(m) ==
    /\ Idle
    /\ outcome[m] = "none"
    /\ \A n \in 1 .. m - 1 : outcome[n] # "none"

Finish(m, result) == outcome' = [outcome EXCEPT ![m] = result]

\* Mutant: the partitions are asked for each time.
PartitionsAgain == partitions

\* DefaultSuperStreamMetadata::partitions: an answer that is not empty is kept.
PartitionsOf == IF cached = 0 THEN partitions ELSE cached

\* HashRoutingMurmurStrategy::routes panics on the remainder by zero, and on a lookup
\* that fails.
SendByHash(m) ==
    /\ strategy = "hash"
    /\ Sends(m)
    /\ cached' = IF cached = 0 /\ link = "up" THEN partitions ELSE cached
    /\ IF (cached = 0 /\ link # "up") \/ PartitionsOf = 0
       THEN Finish(m, "panic") /\ UNCHANGED <<current, todo>>
       ELSE /\ current' = m
            /\ todo' = <<(HashOf[KeyOf[m]] % PartitionsOf) + 1>>
            /\ UNCHANGED outcome
    /\ UNCHANGED <<strategy, partitions, faults, link, routes, producers, log, closing>>

\* RoutingKeyRoutingStrategy::routes: the answer for a key is kept, an empty one too; no
\* route is an error of send.
SendByKey(m) ==
    LET key   == KeyOf[m]
        found == IF routes[key] = Unasked THEN Bindings[key] ELSE routes[key]
    IN  /\ strategy = "key"
        /\ Sends(m)
        /\ IF routes[key] = Unasked /\ link # "up"
           THEN Finish(m, "panic") /\ UNCHANGED <<routes, current, todo>>
           ELSE /\ routes' = [routes EXCEPT ![key] = found]
                /\ IF found = <<>>
                   THEN Finish(m, "Err") /\ UNCHANGED <<current, todo>>
                   ELSE current' = m /\ todo' = found /\ UNCHANGED outcome
        /\ UNCHANGED <<strategy, partitions, faults, link, cached, producers, log, closing>>

\* Mutant: a new producer is handed the message where it is made, and again below.
BuildProducerSends ==
    /\ current # 0
    /\ producers[Head(todo)] = "none"
    /\ producers' = [producers EXCEPT ![Head(todo)] = "open"]
    /\ log' = [log EXCEPT ![Head(todo)] = Append(@, current)]
    /\ UNCHANGED <<routeVars, partitions, faults, link, current, todo, outcome, closing>>

\* The first message for a partition makes its producer.
BuildProducer ==
    /\ current # 0
    /\ producers[Head(todo)] = "none"
    /\ producers' = [producers EXCEPT ![Head(todo)] = "open"]
    /\ UNCHANGED <<routeVars, partitions, faults, link, current, todo, outcome, log, closing>>

\* producer.send(message.clone(), cb.clone()).await?
Publish ==
    /\ current # 0
    /\ producers[Head(todo)] = "open"
    /\ log' = [log EXCEPT ![Head(todo)] = Append(@, current)]
    /\ todo' = Tail(todo)
    /\ IF Len(todo) = 1
       THEN current' = 0 /\ Finish(current, "Ok")
       ELSE UNCHANGED <<current, outcome>>
    /\ UNCHANGED <<routeVars, partitions, faults, link, producers, closing>>

\* build or send fails: the routes before it have the message, those after it do not.
RouteFails ==
    /\ current # 0
    /\ Fault
    /\ current' = 0 /\ todo' = <<>> /\ Finish(current, "Err")
    /\ UNCHANGED <<routeVars, partitions, link, producers, log, closing>>

-----------------------------------------------------------------------------
(* close, which consumes the producer.                                     *)

\* The own client first: when that fails nothing else is closed.
CloseOwnClient ==
    /\ Idle
    /\ IF link = "up"
       THEN link' = "closed" /\ closing' = "producers"
       ELSE closing' = "ClientError" /\ UNCHANGED link
    /\ UNCHANGED <<routeVars, partitions, faults, producers, current, todo, outcome, log>>

\* Mutant: the first producer that fails to close ends the loop.
CloseProducerUntil(p) ==
    /\ closing = "producers"
    /\ producers[p] = "open"
    /\ \/ producers' = [producers EXCEPT ![p] = "closed"] /\ UNCHANGED <<faults, closing>>
       \/ Fault /\ producers' = [producers EXCEPT ![p] = "unclosed"] /\ closing' = "Err"
    /\ UNCHANGED <<routeVars, partitions, link, current, todo, outcome, log>>

\* Every producer of the map, in any order; an error is kept and the loop goes on.
CloseProducer(p) ==
    /\ closing = "producers"
    /\ producers[p] = "open"
    /\ \/ producers' = [producers EXCEPT ![p] = "closed"] /\ UNCHANGED faults
       \/ Fault /\ producers' = [producers EXCEPT ![p] = "unclosed"]
    /\ UNCHANGED <<routeVars, partitions, link, current, todo, outcome, log, closing>>

CloseReturns ==
    /\ closing = "producers"
    /\ \A p \in Partitions : producers[p] # "open"
    /\ closing' = IF \E p \in Partitions : producers[p] = "unclosed" THEN "Err" ELSE "Ok"
    /\ UNCHANGED <<routeVars, partitions, faults, link, producers, current, todo, outcome, log>>

-----------------------------------------------------------------------------
\* External: the super stream gets another partition.
AddPartition ==
    /\ partitions < NumPartitions
    /\ partitions' = partitions + 1
    /\ UNCHANGED <<producerVars, faults, log>>

\* External: the connection of the producer's own client is lost.
LoseOwnClient ==
    /\ link = "up"
    /\ Fault
    /\ link' = "lost"
    /\ UNCHANGED <<routeVars, partitions, producers, current, todo, outcome, log, closing>>

SendStep == (\E m \in Messages : SendByHash(m) \/ SendByKey(m))
            \/ BuildProducer \/ Publish \/ RouteFails

CloseStep == (\E p \in Partitions : CloseProducer(p)) \/ CloseReturns

ProducerNext == SendStep \/ CloseOwnClient \/ CloseStep \/ LoseOwnClient

-----------------------------------------------------------------------------
In(m, p) == \E i \in 1 .. Len(log[p]) : log[p][i] = m

\* OneHome: two messages of the same key whose send returned Ok are in the same
\* partitions, though the super stream may get partitions meanwhile: a producer
\* keeps the partitions and routes it was first told (DefaultSuperStreamMetadata).
OneHome ==
    \A m, n \in Messages :
       outcome[m] = "Ok" /\ outcome[n] = "Ok" /\ KeyOf[m] = KeyOf[n]
       => \A p \in Partitions : In(m, p) <=> In(n, p)

\* The partitions a message goes to; nowhere before they are asked for.
RouteOf(m) ==
    IF strategy = "key" THEN Bindings[KeyOf[m]]
    ELSE IF cached = 0 THEN <<>> ELSE <<(HashOf[KeyOf[m]] % cached) + 1>>

\* How often x is among the first n elements of a sequence.
Times(s, n, x) == Cardinality({i \in 1 .. n : s[i] = x})

\* WholeOrPrefix: a message whose send returned Ok was handed to every route of its
\* key, once for each; any other, once to each of its routes that come before the one
\* that failed, and to none behind it (the loop of send returns at the first error).
\* The message itself is not sent again: a retry is a new message.
WholeOrPrefix ==
    \A m \in Messages : \E n \in 0 .. Len(RouteOf(m)) :
       /\ outcome[m] = "Ok" => n = Len(RouteOf(m))
       /\ \A p \in Partitions : Times(log[p], Len(log[p]), m) = Times(RouteOf(m), n, p)

\* EveryProducerTried: a close that came past its own client has closed every
\* producer that could be closed, although another one failed, and Ok says that
\* none failed.
EveryProducerTried ==
    closing \in {"Ok", "Err"} =>
       /\ \A p \in Partitions : producers[p] # "open"
       /\ closing = "Ok" <=> \A p \in Partitions : producers[p] # "unclosed"
=============================================================================
