-------------------------- MODULE SuperStreamProofs --------------------------
(***************************************************************************)
(* Theorems about SuperStream, for any messages, keys, routes, number of   *)
(* partitions, capacity of the channel and number of faults.               *)
(***************************************************************************)
EXTENDS SuperStream, SequenceFacts, FiniteSetTheorems

USE DEF routeVars, producerVars, consumerVars, Consumer!buildVars, Consumer!taskVars,
        Consumer!appVars

-----------------------------------------------------------------------------
(* The inductive invariant.                                                *)

\* The application is at one message, and the messages before it are done with.
SendOK ==
    /\ current = 0 <=> todo = <<>>
    /\ current # 0 => closing = "no" /\ outcome[current] = "none"
    /\ \A m, n \in Messages : n < m /\ (outcome[m] # "none" \/ m = current) => outcome[n] # "none"
    /\ \A k \in Keys : routes[k] \in {Unasked, Bindings[k]}
    /\ strategy = "hash" /\ cached = 0 => current = 0 /\ \A m \in Messages : outcome[m] # "Ok"

\* Each of the first n routes of a message was handed it once.
Counted(m, n) == \A p \in Partitions : Times(log[p], Len(log[p]), m) = Times(RouteOf(m), n, p)

\* The first n routes of a message have it, and no others.
Served(m, n) ==
    /\ outcome[m] = "Ok" => n = Len(RouteOf(m))
    /\ m = current => /\ n + Len(todo) = Len(RouteOf(m))
                      /\ \A i \in 1 .. Len(todo) : todo[i] = RouteOf(m)[n + i]
    /\ outcome[m] = "none" /\ m # current => n = 0
    /\ \A p \in Partitions : In(m, p) <=> \E i \in 1 .. n : RouteOf(m)[i] = p
    /\ Counted(m, n)

ServedOK == \A m \in Messages : \E n \in 0 .. Len(RouteOf(m)) : Served(m, n)

\* Under the hash strategy a partition has its messages in the order they were sent in.
LogOK ==
    strategy = "hash" =>
    \A p \in Partitions : \A i, j \in 1 .. Len(log[p]) : i < j => log[p][i] < log[p][j]

\* A task holds the delivery it waits to send.
HandsOK ==
    \A p \in Partitions :
       /\ next[p] <= Len(log[p])
       /\ task[p] # "sending" => hand[p] = <<>>
       /\ task[p] = "sending" =>
            next[p] > 0 /\ hand[p] = <<[from |-> p, msg |-> log[p][next[p]]]>>

\* The partitions whose consumer is still to be built are different and have no task.
WantedOK ==
    /\ built = "no" => \A p \in Partitions : task[p] = "none"
    /\ \A i \in 1 .. Len(wanted) : task[wanted[i]] = "none"
    /\ \A i, j \in 1 .. Len(wanted) : wanted[i] = wanted[j] => i = j

\* What left the task of a partition is a prefix of its log; all of it is in the channel
\* or was given, unless nobody reads any more.
Sent(p) == next[p] - Len(hand[p])

MergedUpTo(p, n) ==
    /\ app # "gone" => n = Sent(p)
    /\ \E at \in [1 .. n -> 1 .. Len(delivered \o chan)] :
          Consumer!PrefixAt(p, delivered \o chan, n, at)

MergeOK == \A p \in Partitions : \E n \in 0 .. Sent(p) : MergedUpTo(p, n)

\* The application has no consumer before all of it is built.
AppOK == built \in {"no", "building"} => app = "waiting"

\* close goes through the handles of all consumers.
CloserOK ==
    /\ closer.at # "idle" => built = "ready"
    /\ closer.at = "handles" =>
         \A i \in 1 .. Len(handlers) :
            subs[handlers[i]] = "closed" \/ Has(closer.todo, handlers[i])

\* What the producer's steps keep, and what the consumer's do.
ProducerInv == ProducerTypeOK /\ SendOK /\ ServedOK /\ LogOK /\ EveryProducerTried

-----------------------------------------------------------------------------
(* The producer: where a message goes.                                     *)

\* The routes of a message are partitions.
LEMMA RouteFacts ==
  ASSUME ProducerTypeOK, NEW m \in Messages
  PROVE  /\ KeyOf[m] \in Keys /\ Bindings[KeyOf[m]] \in Seq(Partitions)
         /\ RouteOf(m) \in Seq(Partitions) /\ Len(RouteOf(m)) \in Nat
         /\ \A c \in 1 .. NumPartitions : (HashOf[KeyOf[m]] % c) + 1 \in Partitions
<1>1. KeyOf[m] \in Keys /\ Bindings[KeyOf[m]] \in Seq(Partitions) /\ HashOf[KeyOf[m]] \in Nat
  BY SuperStreamAssumption DEF Messages, Partitions
<1>2. ASSUME NEW h \in Nat, NEW c \in 1 .. NumPartitions PROVE (h % c) + 1 \in Partitions
  <2>1. NumPartitions \in Nat /\ c \in Nat /\ c > 0
    BY SuperStreamAssumption
  <2>2. h % c \in 0 .. c - 1
    BY <2>1
  <2> QED
    BY <2>1, <2>2 DEF Partitions
<1>3. cached \in 0 .. NumPartitions
  BY DEF ProducerTypeOK
<1>4. RouteOf(m) \in Seq(Partitions)
  <2>1. CASE strategy = "key"
    BY <1>1, <2>1 DEF RouteOf
  <2>2. CASE strategy # "key" /\ cached = 0
    BY <2>2, EmptySeq DEF RouteOf
  <2>3. CASE strategy # "key" /\ cached # 0
    <3>1. cached \in 1 .. NumPartitions
      BY <1>3, <2>3, SuperStreamAssumption
    <3>2. (HashOf[KeyOf[m]] % cached) + 1 \in Partitions
      BY <1>1, <1>2, <3>1
    <3> QED
      BY <2>3, <3>2 DEF RouteOf
  <2> QED
    BY <2>1, <2>2, <2>3
<1> QED
  BY <1>1, <1>2, <1>4, LenProperties

\* A message has a number of routes.
LEMMA RouteLength == ProducerTypeOK => \A y \in Messages : Len(RouteOf(y)) \in Nat
BY RouteFacts

\* In the next state too.
LEMMA RouteLengthNext == ProducerTypeOK' => \A y \in Messages : Len(RouteOf(y)') \in Nat
<1>1. ProducerTypeOK' => (\A y \in Messages : Len(RouteOf(y)) \in Nat)'
  BY RouteLength, PTL
<1> QED
  BY <1>1

\* The places of an element can be counted.
LEMMA TimesIsNat ==
  ASSUME NEW n \in Nat, NEW s, NEW x
  PROVE  Times(s, n, x) \in Nat /\ IsFiniteSet({i \in 1 .. n : s[i] = x})
<1>1. IsFiniteSet(1 .. n)
  BY FS_Interval
<1>2. {i \in 1 .. n : s[i] = x} \subseteq 1 .. n
  OBVIOUS
<1>3. IsFiniteSet({i \in 1 .. n : s[i] = x})
  BY <1>1, <1>2, FS_Subset
<1> QED
  BY <1>3, FS_CardinalityType DEF Times

\* One place more in a sequence counts once, or not at all.
LEMMA OneMore ==
  ASSUME NEW n \in Nat, NEW f, NEW g, NEW x, \A i \in 1 .. n : g[i] = f[i]
  PROVE  Times(g, n + 1, x) = Times(f, n, x) + (IF g[n + 1] = x THEN 1 ELSE 0)
<1> DEFINE old == {i \in 1 .. n : f[i] = x}
           new == {i \in 1 .. n + 1 : g[i] = x}
<1>1. IsFiniteSet(old) /\ Cardinality(old) \in Nat
  BY TimesIsNat DEF Times
<1>2. n + 1 \notin old
  OBVIOUS
<1>3. Times(g, n + 1, x) = Cardinality(new) /\ Times(f, n, x) = Cardinality(old)
  BY DEF Times
<1>4. CASE g[n + 1] = x
  <2>1. new = old \union {n + 1}
    BY <1>4
  <2>2. Cardinality(old \union {n + 1}) = Cardinality(old) + 1
    BY <1>1, <1>2, FS_AddElement
  <2> QED
    BY <1>3, <1>4, <2>1, <2>2
<1>5. CASE g[n + 1] # x
  <2>1. new = old
    BY <1>5
  <2> HIDE DEF old, new
  <2> QED
    BY <1>1, <1>3, <1>5, <2>1
<1> QED
  BY <1>4, <1>5

\* A message that nobody has was handed out no times.
LEMMA CountedNone ==
  ASSUME NEW m \in Messages, \A p \in Partitions : ~In(m, p)
  PROVE  Counted(m, 0)
<1> SUFFICES ASSUME NEW p \in Partitions
             PROVE  Times(log[p], Len(log[p]), m) = Times(RouteOf(m), 0, p)
  BY DEF Counted
<1>1. {i \in 1 .. Len(log[p]) : log[p][i] = m} = {}
  BY DEF In
<1>2. {i \in 1 .. 0 : RouteOf(m)[i] = p} = {}
  OBVIOUS
<1> QED
  BY <1>1, <1>2 DEF Times

\* In the next state too.
LEMMA CountedNoneNext ==
  (\A m \in Messages : (\A p \in Partitions : ~In(m, p)) => Counted(m, 0))'
<1>1. \A m \in Messages : (\A p \in Partitions : ~In(m, p)) => Counted(m, 0)
  BY CountedNone
<1> QED
  BY <1>1, PTL

\* The counts are those of the logs and the routes.
LEMMA CountedStays ==
  ASSUME NEW m \in Messages, NEW n, Counted(m, n), log' = log, RouteOf(m)' = RouteOf(m)
  PROVE  Counted(m, n)'
BY DEF Counted

\* Nothing is sent yet.
LEMMA ProducerStarts == ProducerInit => ProducerInv
<1> SUFFICES ASSUME ProducerInit PROVE ProducerInv
  OBVIOUS
<1> USE DEF ProducerInit
<1>1. ProducerTypeOK
  BY EmptySeq, SuperStreamAssumption DEF ProducerTypeOK
<1>2. SendOK
  BY DEF SendOK
<1>3. ServedOK
  <2> SUFFICES ASSUME NEW m \in Messages PROVE \E n \in 0 .. Len(RouteOf(m)) : Served(m, n)
    BY DEF ServedOK
  <2>1. 0 \in 0 .. Len(RouteOf(m))
    BY <1>1, RouteFacts
  <2>2. m # 0
    BY DEF Messages
  <2>3. \A p \in Partitions : ~In(m, p)
    BY DEF In
  <2>4. Served(m, 0)
    BY <2>2, <2>3, CountedNone DEF Served
  <2> QED
    BY <2>1, <2>4
<1>4. LogOK /\ EveryProducerTried
  BY DEF LogOK, EveryProducerTried
<1> QED
  BY <1>1, <1>2, <1>3, <1>4 DEF ProducerInv

\* The message to be sent next.
LEMMA SendsFacts ==
  ASSUME ProducerInv, NEW m \in Messages, Sends(m)
  PROVE  /\ current = 0 /\ todo = <<>> /\ closing = "no" /\ m # 0
         /\ outcome[m] = "none" /\ \A n \in Messages : n < m => outcome[n] # "none"
         /\ Served(m, 0)
<1>1. /\ current = 0 /\ todo = <<>> /\ closing = "no" /\ m # 0 /\ outcome[m] = "none"
      /\ \A n \in Messages : n < m => outcome[n] # "none"
  BY SuperStreamAssumption DEF Sends, Idle, ProducerInv, SendOK, Messages
<1>2. PICK n \in 0 .. Len(RouteOf(m)) : Served(m, n)
  BY DEF ProducerInv, ServedOK
<1>3. n = 0
  BY <1>1, <1>2 DEF Served
<1> QED
  BY <1>1, <1>2, <1>3

\* Send takes up a message, all of whose routes are still to be served.
LEMMA TakesUp ==
  ASSUME ProducerInv, NEW m \in Messages, Sends(m), ProducerTypeOK',
         current' = m, todo' = RouteOf(m)', todo' # <<>>,
         UNCHANGED <<strategy, outcome, log, closing, producers>>,
         \A x \in Messages : RouteOf(x)' = RouteOf(x) \/ (RouteOf(x) = <<>> /\ outcome[x] # "Ok"),
         strategy' = "hash" => cached' # 0,
         \A k \in Keys : routes'[k] \in {Unasked, Bindings[k]}
  PROVE  ProducerInv'
<1>1. /\ current = 0 /\ todo = <<>> /\ closing = "no" /\ m # 0
      /\ outcome[m] = "none" /\ \A n \in Messages : n < m => outcome[n] # "none"
      /\ Served(m, 0)
  BY SendsFacts
<1>2. SendOK'
  BY <1>1 DEF ProducerInv, SendOK
<1>3. ASSUME NEW x \in Messages PROVE \E n \in 0 .. Len(RouteOf(x)') : Served(x, n)'
  <2>1. Len(RouteOf(x)') \in Nat /\ Len(RouteOf(x)) \in Nat
    BY RouteLength, RouteLengthNext DEF ProducerInv
  <2>2. \A p \in Partitions : In(x, p)' <=> In(x, p)
    BY DEF In
  <2>3. CASE x = m
    <3>1. \A p \in Partitions : ~In(x, p)
      BY <1>1, <2>3 DEF Served
    <3>2. Counted(x, 0)'
      BY <2>2, <3>1, CountedNoneNext
    <3>3. Served(x, 0)'
      BY <1>1, <2>1, <2>2, <2>3, <3>1, <3>2 DEF Served
    <3> QED
      BY <2>1, <3>3
  <2>4. CASE x # m
    <3>1. PICK n \in 0 .. Len(RouteOf(x)) : Served(x, n)
      BY DEF ProducerInv, ServedOK
    <3>0. x # 0
      BY DEF Messages
    <3>2. CASE RouteOf(x)' = RouteOf(x)
      <4>1. Counted(x, n)'
        BY <3>1, <3>2, CountedStays DEF Served
      <4>2. Served(x, n)'
        BY <1>1, <2>2, <2>4, <3>0, <3>1, <3>2, <4>1 DEF Served
      <4> QED
        BY <3>1, <3>2, <4>2
    <3>3. CASE RouteOf(x) = <<>> /\ outcome[x] # "Ok"
      <4>1. n = 0
        BY <3>1, <3>3
      <4>2. \A p \in Partitions : ~In(x, p)
        BY <3>1, <4>1 DEF Served
      <4>3. Counted(x, 0)'
        BY <2>2, <4>2, CountedNoneNext
      <4>4. Served(x, 0)'
        BY <1>1, <2>2, <2>4, <3>0, <3>1, <3>3, <4>1, <4>3 DEF Served
      <4> QED
        BY <2>1, <4>4
    <3> QED
      BY <3>2, <3>3
  <2> QED
    BY <2>3, <2>4
<1>4. ServedOK'
  BY <1>3 DEF ServedOK
<1>5. LogOK' /\ EveryProducerTried'
  BY <1>1 DEF ProducerInv, LogOK, EveryProducerTried
<1> QED
  BY <1>2, <1>4, <1>5 DEF ProducerInv
\* Send gives up on a message that nobody has.
LEMMA GivesUp ==
  ASSUME ProducerInv, NEW m \in Messages, Sends(m), ProducerTypeOK',
         NEW r, r \in {"panic", "Err"}, Finish(m, r),
         UNCHANGED <<strategy, cached, current, todo, log, closing, producers>>,
         \A k \in Keys : routes'[k] \in {Unasked, Bindings[k]}
  PROVE  ProducerInv'
<1>1. /\ current = 0 /\ todo = <<>> /\ closing = "no"
      /\ outcome[m] = "none" /\ \A n \in Messages : n < m => outcome[n] # "none"
      /\ Served(m, 0)
  BY SendsFacts
<1>2. outcome'[m] = r /\ \A x \in Messages : x # m => outcome'[x] = outcome[x]
  BY DEF Finish, ProducerInv, ProducerTypeOK
<1>3. SendOK'
  BY <1>1, <1>2 DEF ProducerInv, SendOK
<1>4. ASSUME NEW x \in Messages PROVE \E n \in 0 .. Len(RouteOf(x)') : Served(x, n)'
  <2>1. RouteOf(x)' = RouteOf(x) /\ \A p \in Partitions : In(x, p)' <=> In(x, p)
    BY DEF RouteOf, In
  <2>2. PICK n \in 0 .. Len(RouteOf(x)) : Served(x, n)
    BY DEF ProducerInv, ServedOK
  <2>3. Counted(x, n)'
    BY <2>1, <2>2, CountedStays DEF Served
  <2>4. Served(x, n)'
    BY <1>1, <1>2, <2>1, <2>2, <2>3 DEF Served
  <2> QED
    BY <2>1, <2>2, <2>4
<1>5. ServedOK'
  BY <1>4 DEF ServedOK
<1>6. LogOK' /\ EveryProducerTried'
  BY <1>1 DEF ProducerInv, LogOK, EveryProducerTried
<1> QED
  BY <1>3, <1>5, <1>6 DEF ProducerInv

\* The hash strategy keeps the partitions it was first told.
LEMMA SendByHashStep ==
  ASSUME ProducerInv, NEW m \in Messages, SendByHash(m)
  PROVE  ProducerInv'
<1>1. /\ strategy = "hash" /\ Sends(m)
      /\ cached' = IF cached = 0 /\ link = "up" THEN partitions ELSE cached
      /\ UNCHANGED <<strategy, partitions, faults, link, routes, producers, log, closing>>
  BY DEF SendByHash
<1>2. /\ partitions \in 0 .. NumPartitions /\ cached \in 0 .. NumPartitions /\ NumPartitions \in Nat
      /\ \A k \in Keys : routes[k] \in {Unasked, Bindings[k]}
      /\ cached = 0 => \A x \in Messages : outcome[x] # "Ok"
  BY <1>1, SuperStreamAssumption DEF ProducerInv, ProducerTypeOK, SendOK
<1>3. CASE (cached = 0 /\ link # "up") \/ PartitionsOf = 0
  <2>1. Finish(m, "panic") /\ UNCHANGED <<current, todo>>
    BY <1>3 DEF SendByHash
  <2>2. cached' = cached
    BY <1>1, <1>3 DEF PartitionsOf
  <2>3. ProducerTypeOK'
    BY <1>1, <2>1, <2>2 DEF Finish, ProducerInv, ProducerTypeOK
  <2> QED
    BY <1>1, <1>2, <2>1, <2>2, <2>3, GivesUp
<1>4. CASE ~((cached = 0 /\ link # "up") \/ PartitionsOf = 0)
  <2>1. /\ current' = m /\ todo' = <<(HashOf[KeyOf[m]] % PartitionsOf) + 1>>
        /\ UNCHANGED outcome
    BY <1>4 DEF SendByHash
  <2>2. cached' = PartitionsOf /\ cached' \in 1 .. NumPartitions /\ cached' # 0
    BY <1>1, <1>2, <1>4 DEF PartitionsOf
  <2>3. (HashOf[KeyOf[m]] % cached') + 1 \in Partitions
    BY <2>2, RouteFacts DEF ProducerInv
  <2>4. todo' \in Seq(Partitions) /\ todo' # <<>>
    BY <2>1, <2>2, <2>3
  <2>5. ProducerTypeOK'
    <3>1. m \in 0 .. NumMessages /\ cached' \in 0 .. NumPartitions
      BY <1>2, <2>2, SuperStreamAssumption DEF Messages
    <3> QED
      BY <1>1, <2>1, <2>4, <3>1 DEF ProducerInv, ProducerTypeOK
  <2>6. RouteOf(m)' = todo'
    BY <1>1, <2>1, <2>2 DEF RouteOf
  <2>7. ASSUME NEW x \in Messages
        PROVE  RouteOf(x)' = RouteOf(x) \/ (RouteOf(x) = <<>> /\ outcome[x] # "Ok")
    BY <1>1, <1>2 DEF RouteOf
  <2>8. \A k \in Keys : routes'[k] \in {Unasked, Bindings[k]}
    BY <1>1, <1>2
  <2> QED
    BY <1>1, <2>1, <2>2, <2>4, <2>5, <2>6, <2>7, <2>8, TakesUp
<1> QED
  BY <1>3, <1>4

\* The key strategy keeps each answer it was given.
LEMMA SendByKeyStep ==
  ASSUME ProducerInv, NEW m \in Messages, SendByKey(m)
  PROVE  ProducerInv'
<1> DEFINE key == KeyOf[m]
           found == IF routes[key] = Unasked THEN Bindings[key] ELSE routes[key]
<1>1. /\ strategy = "key" /\ Sends(m)
      /\ UNCHANGED <<strategy, partitions, faults, link, cached, producers, log, closing>>
  BY DEF SendByKey
<1>2. /\ key \in Keys /\ Bindings[key] \in Seq(Partitions)
      /\ \A k \in Keys : routes[k] \in {Unasked, Bindings[k]}
      /\ routes \in [Keys -> {Unasked} \union {Bindings[k] : k \in Keys}]
  BY RouteFacts DEF ProducerInv, ProducerTypeOK, SendOK
<1>3. found = Bindings[key]
  BY <1>2
<1>4. \A x \in Messages : RouteOf(x)' = RouteOf(x)
  BY <1>1 DEF RouteOf
<1>5. CASE routes[key] = Unasked /\ link # "up"
  <2>1. Finish(m, "panic") /\ UNCHANGED <<routes, current, todo>>
    BY <1>5 DEF SendByKey
  <2>2. ProducerTypeOK'
    BY <1>1, <2>1 DEF Finish, ProducerInv, ProducerTypeOK
  <2> QED
    BY <1>1, <1>2, <2>1, <2>2, GivesUp
<1>6. CASE ~(routes[key] = Unasked /\ link # "up")
  <2>1. /\ routes' = [routes EXCEPT ![key] = Bindings[key]]
        /\ IF Bindings[key] = <<>>
           THEN Finish(m, "Err") /\ UNCHANGED <<current, todo>>
           ELSE current' = m /\ todo' = Bindings[key] /\ UNCHANGED outcome
    BY <1>3, <1>6 DEF SendByKey
  <2>2. /\ routes' \in [Keys -> {Unasked} \union {Bindings[k] : k \in Keys}]
        /\ \A k \in Keys : routes'[k] \in {Unasked, Bindings[k]}
    BY <1>2, <2>1
  <2>3. CASE Bindings[key] = <<>>
    <3>1. ProducerTypeOK'
      BY <1>1, <2>1, <2>2, <2>3 DEF Finish, ProducerInv, ProducerTypeOK
    <3> QED
      BY <1>1, <2>1, <2>2, <2>3, <3>1, GivesUp
  <2>4. CASE Bindings[key] # <<>>
    <3>1. ProducerTypeOK'
      <4>1. m \in 0 .. NumMessages
        BY SuperStreamAssumption DEF Messages
      <4> QED
        BY <1>1, <1>2, <2>1, <2>2, <2>4, <4>1 DEF ProducerInv, ProducerTypeOK
    <3>2. RouteOf(m)' = Bindings[key] /\ todo' = Bindings[key] /\ current' = m /\ outcome' = outcome
      BY <1>1, <2>1, <2>4 DEF RouteOf
    <3> QED
      BY <1>1, <1>4, <2>2, <2>4, <3>1, <3>2, TakesUp
  <2> QED
    BY <2>3, <2>4
<1> QED
  BY <1>5, <1>6
\* The message being sent, and its next route.
LEMMA CurrentFacts ==
  ASSUME ProducerInv, current # 0
  PROVE  /\ current \in Messages /\ todo \in Seq(Partitions) /\ todo # <<>>
         /\ Len(todo) \in Nat \ {0} /\ Head(todo) = todo[1] /\ Head(todo) \in Partitions
         /\ Tail(todo) \in Seq(Partitions) /\ Len(Tail(todo)) = Len(todo) - 1
         /\ \A i \in 1 .. Len(Tail(todo)) : Tail(todo)[i] = todo[i + 1]
         /\ closing = "no" /\ outcome[current] = "none"
<1>1. current \in Messages
  BY SuperStreamAssumption DEF ProducerInv, ProducerTypeOK, Messages
<1>2. todo \in Seq(Partitions) /\ todo # <<>> /\ closing = "no" /\ outcome[current] = "none"
  BY DEF ProducerInv, ProducerTypeOK, SendOK
<1>3. Len(todo) \in Nat \ {0}
  BY <1>2, EmptySeq, LenProperties
<1> QED
  BY <1>1, <1>2, <1>3, HeadTailProperties

\* A message is handed to the producer of its next route, at the end of that log.
LEMMA PublishedTo ==
  ASSUME ProducerInv, Publish
  PROVE  /\ Head(todo) \in Partitions
         /\ \A p \in Partitions :
              /\ log[p] \in Seq(Messages) /\ Len(log[p]) \in Nat
              /\ p # Head(todo) => log'[p] = log[p]
         /\ Len(log'[Head(todo)]) = Len(log[Head(todo)]) + 1
         /\ log'[Head(todo)][Len(log[Head(todo)]) + 1] = current
         /\ \A i \in 1 .. Len(log[Head(todo)]) : log'[Head(todo)][i] = log[Head(todo)][i]
         /\ log' \in [Partitions -> Seq(Messages)]
<1> DEFINE h == Head(todo)
<1>1. h \in Partitions /\ current \in Messages
  BY CurrentFacts DEF Publish
<1>2. log \in [Partitions -> Seq(Messages)] /\ log' = [log EXCEPT ![h] = Append(@, current)]
  BY DEF Publish, ProducerInv, ProducerTypeOK
<1> HIDE DEF h
<1>3. log'[h] = Append(log[h], current) /\ \A p \in Partitions : p # h => log'[p] = log[p]
  BY <1>1, <1>2
<1>4. \A p \in Partitions : log[p] \in Seq(Messages) /\ Len(log[p]) \in Nat
  BY <1>2, LenProperties
<1>5. Append(log[h], current) \in Seq(Messages)
  BY <1>1, <1>4, AppendProperties
<1>6. /\ Len(log'[h]) = Len(log[h]) + 1
      /\ log'[h][Len(log[h]) + 1] = current
      /\ \A i \in 1 .. Len(log[h]) : log'[h][i] = log[h][i]
  BY <1>1, <1>3, <1>4, AppendProperties
<1>7. log' \in [Partitions -> Seq(Messages)]
  BY <1>1, <1>2, <1>5
<1> QED
  BY <1>1, <1>3, <1>4, <1>6, <1>7 DEF h

\* Publish serves one route more.
LEMMA PublishStep ==
  ASSUME ProducerInv, Publish
  PROVE  ProducerInv'
<1> DEFINE h == Head(todo)
<1>1. PICK c \in Messages : c = current
  BY CurrentFacts DEF Publish
<1>2. /\ todo \in Seq(Partitions) /\ Len(todo) \in Nat \ {0} /\ h = todo[1] /\ h \in Partitions
      /\ Tail(todo) \in Seq(Partitions) /\ Len(Tail(todo)) = Len(todo) - 1
      /\ \A i \in 1 .. Len(Tail(todo)) : Tail(todo)[i] = todo[i + 1]
      /\ closing = "no" /\ outcome[c] = "none" /\ c # 0
  BY <1>1, CurrentFacts DEF Publish
<1>3. /\ \A p \in Partitions : p # h => log'[p] = log[p]
      /\ Len(log[h]) \in Nat /\ Len(log'[h]) = Len(log[h]) + 1
      /\ log'[h][Len(log[h]) + 1] = c
      /\ \A i \in 1 .. Len(log[h]) : log'[h][i] = log[h][i]
      /\ log' \in [Partitions -> Seq(Messages)]
  BY <1>1, PublishedTo
<1> HIDE DEF h
<1>4. /\ todo' = Tail(todo)
      /\ Len(todo) = 1 => current' = 0 /\ outcome' = [outcome EXCEPT ![c] = "Ok"]
      /\ Len(todo) # 1 => current' = c /\ outcome' = outcome
      /\ UNCHANGED <<routeVars, partitions, faults, link, producers, closing>>
  BY <1>1 DEF Publish, Finish
<1>5. outcome \in [Messages -> {"none", "Ok", "Err", "panic"}]
  BY DEF ProducerInv, ProducerTypeOK
<1>6. /\ \A x \in Messages : x # c => outcome'[x] = outcome[x]
      /\ Len(todo) = 1 => outcome'[c] = "Ok"
      /\ Len(todo) # 1 => outcome'[c] = "none"
      /\ outcome' \in [Messages -> {"none", "Ok", "Err", "panic"}]
  BY <1>2, <1>4, <1>5
<1>7. ProducerTypeOK'
  <2>1. current' \in 0 .. NumMessages
    BY <1>1, <1>4, SuperStreamAssumption DEF ProducerInv, ProducerTypeOK
  <2> QED
    BY <1>2, <1>3, <1>4, <1>6, <2>1 DEF ProducerInv, ProducerTypeOK
<1>8. Len(todo) = 1 <=> todo' = <<>>
  <2>1. Len(todo') \in Nat /\ (Len(todo') = 0 <=> todo' = <<>>)
    BY <1>2, <1>4, EmptySeq, LenProperties
  <2> QED
    BY <1>2, <1>4, <2>1
<1>9. SendOK'
  BY <1>1, <1>2, <1>4, <1>6, <1>8 DEF ProducerInv, SendOK
<1>10. \A x \in Messages : RouteOf(x)' = RouteOf(x)
  BY <1>4 DEF RouteOf
<1>11. ASSUME NEW x \in Messages, NEW p \in Partitions
       PROVE  In(x, p)' <=> In(x, p) \/ (x = c /\ p = h)
  <2>1. CASE p # h
    BY <1>3, <2>1 DEF In
  <2>2. CASE p = h
    <3>1. ASSUME NEW i \in 1 .. Len(log'[p]), log'[p][i] = x PROVE In(x, p) \/ x = c
      <4>1. i \in 1 .. Len(log[p]) \/ i = Len(log[p]) + 1
        BY <1>3, <2>2
      <4> QED
        BY <1>3, <2>2, <3>1, <4>1 DEF In
    <3>2. ASSUME In(x, p) PROVE In(x, p)'
      <4>1. PICK i \in 1 .. Len(log[p]) : log[p][i] = x
        BY <3>2 DEF In
      <4>2. i \in 1 .. Len(log'[p]) /\ log'[p][i] = x
        BY <1>3, <2>2, <4>1
      <4> QED
        BY <4>2 DEF In
    <3>3. ASSUME x = c PROVE In(x, p)'
      <4>1. Len(log[p]) + 1 \in 1 .. Len(log'[p])
        BY <1>3, <2>2
      <4> QED
        BY <1>3, <2>2, <3>3, <4>1 DEF In
    <3> QED
      BY <2>2, <3>1, <3>2, <3>3 DEF In
  <2> QED
    BY <2>1, <2>2
<1>times. ASSUME NEW x \in Messages
          PROVE  /\ \A p \in Partitions :
                      p # h => Times(log'[p], Len(log'[p]), x) = Times(log[p], Len(log[p]), x)
                 /\ Times(log'[h], Len(log'[h]), x)
                      = Times(log[h], Len(log[h]), x) + (IF x = c THEN 1 ELSE 0)
  <2>1. \A p \in Partitions :
           p # h => Times(log'[p], Len(log'[p]), x) = Times(log[p], Len(log[p]), x)
    BY <1>3
  <2>2. PICK k \in Nat : k = Len(log[h])
    BY <1>3
  <2>3. PICK f, g : f = log[h] /\ g = log'[h]
    OBVIOUS
  <2>4. \A i \in 1 .. k : g[i] = f[i]
    BY <1>3, <2>2, <2>3
  <2>5. Times(g, k + 1, x) = Times(f, k, x) + (IF g[k + 1] = x THEN 1 ELSE 0)
    BY <2>4, OneMore
  <2>6. Len(g) = k + 1 /\ Len(f) = k /\ g[k + 1] = c
    BY <1>3, <2>2, <2>3
  <2> QED
    BY <2>1, <2>3, <2>5, <2>6
<1>12. PICK nc \in 0 .. Len(RouteOf(c)) : Served(c, nc)
  BY DEF ProducerInv, ServedOK
<1>13. /\ nc + Len(todo) = Len(RouteOf(c)) /\ Len(RouteOf(c)) \in Nat
       /\ \A i \in 1 .. Len(todo) : todo[i] = RouteOf(c)[nc + i]
  BY <1>1, <1>12, RouteFacts DEF Served, ProducerInv
<1>14. ASSUME NEW x \in Messages, x # c
       PROVE  \E n \in 0 .. Len(RouteOf(x)') : Served(x, n)'
  <2>1. PICK n \in 0 .. Len(RouteOf(x)) : Served(x, n)
    BY DEF ProducerInv, ServedOK
  <2>2. x # current' /\ x # current
    BY <1>1, <1>4, <1>14 DEF Messages
  <2>3. Counted(x, n)'
    <3> SUFFICES ASSUME NEW p \in Partitions
                 PROVE  Times(log'[p], Len(log'[p]), x) = Times(RouteOf(x)', n, p)
      BY DEF Counted
    <3>1. Times(log[p], Len(log[p]), x) = Times(RouteOf(x), n, p)
      BY <2>1 DEF Served, Counted
    <3>2. Times(log[h], Len(log[h]), x) \in Nat
      BY <1>3, TimesIsNat
    <3>3. Times(log'[p], Len(log'[p]), x) = Times(log[p], Len(log[p]), x)
      BY <1>times, <1>14, <3>2
    <3> QED
      BY <1>10, <3>1, <3>3
  <2>4. Served(x, n)'
    BY <1>6, <1>10, <1>11, <1>14, <2>1, <2>2, <2>3 DEF Served
  <2> QED
    BY <1>10, <2>1, <2>4
<1>15. \E n \in 0 .. Len(RouteOf(c)') : Served(c, n)'
  <2>1. nc + 1 \in 0 .. Len(RouteOf(c)) /\ nc \in Nat
    BY <1>2, <1>12, <1>13
  <2>2. RouteOf(c)[nc + 1] = h
    <3>1. 1 \in 1 .. Len(todo)
      BY <1>2
    <3> QED
      BY <1>2, <1>13, <3>1
  <2>3. ASSUME NEW p \in Partitions
        PROVE  In(c, p)' <=> \E i \in 1 .. nc + 1 : RouteOf(c)'[i] = p
    <3>1. In(c, p) <=> \E i \in 1 .. nc : RouteOf(c)[i] = p
      BY <1>12 DEF Served
    <3>2. \A i : i \in 1 .. nc + 1 <=> i \in 1 .. nc \/ i = nc + 1
      BY <2>1
    <3> QED
      BY <1>10, <1>11, <2>2, <3>1, <3>2
  <2>4. outcome'[c] = "Ok" => nc + 1 = Len(RouteOf(c)')
    BY <1>6, <1>10, <1>13, <2>1
  <2>5. c = current' => /\ (nc + 1) + Len(todo') = Len(RouteOf(c)')
                        /\ \A i \in 1 .. Len(todo') : todo'[i] = RouteOf(c)'[(nc + 1) + i]
    <3>1. (nc + 1) + Len(todo') = Len(RouteOf(c)')
      BY <1>2, <1>4, <1>10, <1>13, <2>1
    <3>2. ASSUME NEW i \in 1 .. Len(todo') PROVE todo'[i] = RouteOf(c)'[(nc + 1) + i]
      <4>1. i + 1 \in 1 .. Len(todo) /\ nc + (i + 1) = (nc + 1) + i /\ i \in 1 .. Len(Tail(todo))
        BY <1>2, <1>4, <2>1
      <4>2. todo'[i] = todo[i + 1] /\ todo[i + 1] = RouteOf(c)[nc + (i + 1)]
        BY <1>2, <1>4, <1>13, <4>1
      <4> QED
        BY <1>10, <4>1, <4>2
    <3> QED
      BY <3>1, <3>2
  <2>6. ~(outcome'[c] = "none" /\ c # current')
    BY <1>4, <1>6
  <2>7. ASSUME NEW p \in Partitions
        PROVE  Times(log'[p], Len(log'[p]), c) = Times(RouteOf(c)', nc + 1, p)
    <3>1. Times(log[p], Len(log[p]), c) = Times(RouteOf(c), nc, p)
      BY <1>12 DEF Served, Counted
    <3>2. PICK r : r = RouteOf(c)
      OBVIOUS
    <3>3. r[nc + 1] = h /\ nc \in Nat /\ \A i \in 1 .. nc : r[i] = r[i]
      BY <2>1, <2>2, <3>2
    <3>4. Times(r, nc + 1, p) = Times(r, nc, p) + (IF r[nc + 1] = p THEN 1 ELSE 0)
      BY <3>3, OneMore
    <3>5. Times(r, nc, p) \in Nat
      BY <3>3, TimesIsNat
    <3>6. RouteOf(c)' = r
      BY <1>10, <3>2
    <3> QED
      BY <1>times, <3>1, <3>2, <3>3, <3>4, <3>5, <3>6
  <2>8. Counted(c, nc + 1)'
    BY <2>7 DEF Counted
  <2>9. Served(c, nc + 1)'
    BY <2>3, <2>4, <2>5, <2>6, <2>8 DEF Served
  <2> QED
    BY <1>10, <2>1, <2>9
<1>16. ServedOK'
  BY <1>14, <1>15 DEF ServedOK
<1>17. LogOK'
  <2> SUFFICES ASSUME strategy = "hash", NEW p \in Partitions,
                      NEW i \in 1 .. Len(log'[p]), NEW j \in 1 .. Len(log'[p]), i < j
               PROVE  log'[p][i] < log'[p][j]
    BY <1>4 DEF LogOK
  <2>1. CASE p # h
    BY <1>3, <2>1 DEF ProducerInv, LogOK
  <2>2. CASE p = h /\ j # Len(log[h]) + 1
    <3>1. i \in 1 .. Len(log[h]) /\ j \in 1 .. Len(log[h])
      BY <1>3, <2>2
    <3>2. log[h][i] < log[h][j]
      BY <1>2, <3>1 DEF ProducerInv, LogOK
    <3> QED
      BY <1>3, <2>2, <3>1, <3>2
  <2>3. CASE p = h /\ j = Len(log[h]) + 1
    <3>1. i \in 1 .. Len(log[h])
      BY <1>3, <2>3
    <3>2. PICK x \in Messages : x = log[h][i]
      BY <1>2, <3>1, ElementOfSeq DEF ProducerInv, ProducerTypeOK
    <3>3. In(x, h)
      BY <3>1, <3>2 DEF In
    <3>4. PICK n \in 0 .. Len(RouteOf(x)) : Served(x, n)
      BY DEF ProducerInv, ServedOK
    <3>5. n # 0
      BY <1>2, <3>3, <3>4 DEF Served
    <3>6. x # c
      <4>1. Len(RouteOf(c)) = 1
        BY <1>1, <1>2 DEF RouteOf, ProducerInv, SendOK
      <4>2. nc = 0
        BY <1>2, <1>12, <1>13, <4>1
      <4>3. ~In(c, h)
        BY <1>2, <1>12, <4>2 DEF Served
      <4> QED
        BY <3>3, <4>3
    <3>7. outcome[x] # "none"
      BY <1>1, <3>4, <3>5, <3>6 DEF Served
    <3>8. ~(c < x)
      BY <1>2, <3>7 DEF ProducerInv, SendOK
    <3>9. x < c
      BY <3>6, <3>8 DEF Messages
    <3> QED
      BY <1>3, <2>3, <3>1, <3>2, <3>9
  <2> QED
    BY <2>1, <2>2, <2>3
<1>18. EveryProducerTried'
  BY <1>2, <1>4 DEF EveryProducerTried
<1> QED
  BY <1>7, <1>9, <1>16, <1>17, <1>18 DEF ProducerInv

\* A build or a send that fails ends the loop over the routes.
LEMMA RouteFailsStep ==
  ASSUME ProducerInv, RouteFails
  PROVE  ProducerInv'
<1>1. PICK c \in Messages : c = current
  BY CurrentFacts DEF RouteFails
<1>2. /\ current' = 0 /\ todo' = <<>> /\ outcome' = [outcome EXCEPT ![c] = "Err"]
      /\ faults' = faults + 1 /\ faults < MaxFaults
      /\ UNCHANGED <<routeVars, partitions, link, producers, log, closing>>
  BY <1>1 DEF RouteFails, Finish, Fault
<1>3. outcome \in [Messages -> {"none", "Ok", "Err", "panic"}] /\ faults \in 0 .. MaxFaults
  BY DEF ProducerInv, ProducerTypeOK
<1>4. outcome'[c] = "Err" /\ \A x \in Messages : x # c => outcome'[x] = outcome[x]
  BY <1>2, <1>3
<1>5. outcome[c] = "none" /\ closing = "no" /\ c # 0
  BY <1>1, CurrentFacts DEF RouteFails
<1>6. ProducerTypeOK'
  <2>1. outcome' \in [Messages -> {"none", "Ok", "Err", "panic"}] /\ faults' \in 0 .. MaxFaults
    BY <1>2, <1>3, SuperStreamAssumption
  <2> QED
    BY <1>2, <2>1, EmptySeq, SuperStreamAssumption DEF ProducerInv, ProducerTypeOK
<1>7. SendOK'
  <2>1. ASSUME NEW m \in Messages, NEW n \in Messages, n < m, outcome'[m] # "none" \/ m = current'
        PROVE  outcome'[n] # "none"
    <3>1. outcome[m] # "none" \/ m = current
      BY <1>1, <1>2, <1>4, <2>1 DEF Messages
    <3>2. outcome[n] # "none"
      BY <2>1, <3>1 DEF ProducerInv, SendOK
    <3> QED
      BY <1>4, <3>2
  <2>2. strategy' = "hash" /\ cached' = 0 => \A m \in Messages : outcome'[m] # "Ok"
    BY <1>2, <1>4 DEF ProducerInv, SendOK
  <2>3. \A k \in Keys : routes'[k] \in {Unasked, Bindings[k]}
    BY <1>2 DEF ProducerInv, SendOK
  <2> QED
    BY <1>2, <2>1, <2>2, <2>3 DEF SendOK
<1>8. ASSUME NEW x \in Messages PROVE \E n \in 0 .. Len(RouteOf(x)') : Served(x, n)'
  <2>1. RouteOf(x)' = RouteOf(x) /\ (\A p \in Partitions : In(x, p)' <=> In(x, p)) /\ x # 0
    BY <1>2 DEF RouteOf, In, Messages
  <2>2. PICK n \in 0 .. Len(RouteOf(x)) : Served(x, n)
    BY DEF ProducerInv, ServedOK
  <2>3. Counted(x, n)'
    BY <1>2, <2>1, <2>2, CountedStays DEF Served
  <2>4. Served(x, n)'
    BY <1>1, <1>2, <1>4, <2>1, <2>2, <2>3 DEF Served
  <2> QED
    BY <2>1, <2>2, <2>4
<1>9. ServedOK'
  BY <1>8 DEF ServedOK
<1>10. LogOK' /\ EveryProducerTried'
  BY <1>2 DEF ProducerInv, LogOK, EveryProducerTried
<1> QED
  BY <1>6, <1>7, <1>9, <1>10 DEF ProducerInv

\* Steps that send nothing.
LEMMA SendsNothing ==
  ASSUME ProducerInv, ProducerTypeOK', EveryProducerTried',
         UNCHANGED <<routeVars, current, todo, outcome, log>>, current # 0 => closing' = "no"
  PROVE  ProducerInv'
<1>1. SendOK'
  BY DEF ProducerInv, SendOK
<1>2. ASSUME NEW x \in Messages PROVE \E n \in 0 .. Len(RouteOf(x)') : Served(x, n)'
  <2>1. RouteOf(x)' = RouteOf(x) /\ \A p \in Partitions : In(x, p)' <=> In(x, p)
    BY DEF RouteOf, In
  <2>2. PICK n \in 0 .. Len(RouteOf(x)) : Served(x, n)
    BY DEF ProducerInv, ServedOK
  <2>3. Counted(x, n)'
    BY <2>1, <2>2, CountedStays DEF Served
  <2>4. Served(x, n)'
    BY <2>1, <2>2, <2>3 DEF Served
  <2> QED
    BY <2>1, <2>2, <2>4
<1>3. ServedOK' /\ LogOK'
  BY <1>2 DEF ProducerInv, ServedOK, LogOK
<1> QED
  BY <1>1, <1>3 DEF ProducerInv

\* The producers are made while something is sent, and closed when nothing is.
LEMMA ProducerCloses ==
  ASSUME ProducerInv,
         BuildProducer \/ CloseOwnClient \/ CloseStep \/ LoseOwnClient \/ AddPartition
  PROVE  ProducerInv'
<1>1. /\ producers \in [Partitions -> {"none", "open", "closed", "unclosed"}]
      /\ faults \in 0 .. MaxFaults /\ MaxFaults \in Nat
      /\ partitions \in 0 .. NumPartitions /\ NumPartitions \in Nat
  BY SuperStreamAssumption DEF ProducerInv, ProducerTypeOK
<1>2. CASE BuildProducer
  <2>1. Head(todo) \in Partitions /\ closing = "no"
    BY <1>2, CurrentFacts DEF BuildProducer
  <2>2. ProducerTypeOK'
    BY <1>1, <1>2, <2>1 DEF BuildProducer, ProducerInv, ProducerTypeOK
  <2>3. EveryProducerTried'
    BY <1>2, <2>1 DEF BuildProducer, EveryProducerTried
  <2> QED
    BY <1>2, <2>1, <2>2, <2>3, SendsNothing DEF BuildProducer
<1>3. CASE CloseOwnClient
  <2>1. ProducerTypeOK' /\ EveryProducerTried' /\ current = 0
    BY <1>3 DEF CloseOwnClient, Idle, ProducerInv, ProducerTypeOK, EveryProducerTried
  <2> QED
    BY <1>3, <2>1, SendsNothing DEF CloseOwnClient
<1>4. CASE CloseStep
  <2>1. current = 0
    BY <1>4 DEF CloseStep, CloseProducer, CloseReturns, ProducerInv, SendOK
  <2>2. ASSUME NEW p \in Partitions, CloseProducer(p) PROVE ProducerInv'
    <3>1. producers' \in [Partitions -> {"none", "open", "closed", "unclosed"}]
          /\ faults' \in 0 .. MaxFaults /\ closing = "producers" /\ closing' = closing
      BY <1>1, <2>2 DEF CloseProducer, Fault
    <3>2. ProducerTypeOK' /\ EveryProducerTried'
      BY <2>2, <3>1 DEF CloseProducer, ProducerInv, ProducerTypeOK, EveryProducerTried
    <3> QED
      BY <2>1, <2>2, <3>2, SendsNothing DEF CloseProducer
  <2>3. CASE CloseReturns
    <3>1. ProducerTypeOK' /\ EveryProducerTried'
      BY <2>3 DEF CloseReturns, ProducerInv, ProducerTypeOK, EveryProducerTried
    <3> QED
      BY <2>1, <2>3, <3>1, SendsNothing DEF CloseReturns
  <2> QED
    BY <1>4, <2>2, <2>3 DEF CloseStep
<1>5. CASE LoseOwnClient \/ AddPartition
  <2>1. faults' \in 0 .. MaxFaults /\ partitions' \in 0 .. NumPartitions
    BY <1>1, <1>5 DEF LoseOwnClient, AddPartition, Fault
  <2>2. UNCHANGED <<routeVars, producers, current, todo, outcome, log, closing>>
    BY <1>5 DEF LoseOwnClient, AddPartition
  <2>3. ProducerTypeOK' /\ EveryProducerTried'
    BY <1>5, <2>1, <2>2 DEF LoseOwnClient, AddPartition, ProducerInv, ProducerTypeOK,
                            EveryProducerTried
  <2> QED
    BY <2>2, <2>3, SendsNothing DEF ProducerInv, SendOK
<1> QED
  BY <1>2, <1>3, <1>4, <1>5
\* The consumer's steps leave the producer alone.
LEMMA ConsumerFrame ==
  ASSUME (ConsumerRuns /\ Quiet /\ UNCHANGED faults) \/ (ConsumerFaults /\ Quiet /\ Fault)
  PROVE  /\ UNCHANGED <<producerVars, partitions, log>>
         /\ UNCHANGED faults \/ Fault
<1>1. UNCHANGED log
  <2>1. CASE ConsumerRuns
    BY <2>1 DEF ConsumerRuns, Consumer!BuildBegin, Consumer!BuildPartition, Consumer!BuildDone,
         Consumer!TaskStep, Consumer!TaskNext, Consumer!TaskSend, Consumer!TaskEnd,
         Consumer!AppStep, Consumer!PollReady, Consumer!PollEmpty, Consumer!CheckClosed,
         Consumer!DropConsumer, Consumer!CloseWake, Consumer!CloseCas, Consumer!CloseHandle,
         Consumer!CloseHandleAgain, Consumer!CloseAgain, Consumer!CloseClient
  <2>2. CASE ConsumerFaults
    BY <2>2 DEF ConsumerFaults, Consumer!BuildBegin, Consumer!BuildPanics,
         Consumer!CloseHandleFails, Consumer!CloseClient, Consumer!LoseSubscription
  <2> QED
    BY <2>1, <2>2
<1> QED
  BY <1>1 DEF Quiet

\* ProducerInv is inductive.
LEMMA ProducerKept == ProducerInv /\ [Next]_vars => ProducerInv'
<1> SUFFICES ASSUME ProducerInv, [Next]_vars PROVE ProducerInv'
  OBVIOUS
<1>1. CASE ProducerNext \/ AddPartition
  BY <1>1, SendByHashStep, SendByKeyStep, PublishStep, RouteFailsStep, ProducerCloses
     DEF ProducerNext, SendStep
<1>2. CASE UNCHANGED <<producerVars, partitions, log>> /\ (UNCHANGED faults \/ Fault)
  <2>1. faults' \in 0 .. MaxFaults
    BY <1>2, SuperStreamAssumption DEF Fault, ProducerInv, ProducerTypeOK
  <2>2. ProducerTypeOK' /\ EveryProducerTried'
    BY <1>2, <2>1 DEF ProducerInv, ProducerTypeOK, EveryProducerTried
  <2> QED
    BY <1>2, <2>2, SendsNothing DEF ProducerInv, SendOK
<1>3. CASE UNCHANGED vars
  BY <1>2, <1>3 DEF vars
<1> QED
  BY <1>1, <1>2, <1>3, ConsumerFrame DEF Next

\* The producer's invariant.
LEMMA ProducerAlways == Spec => []ProducerInv
<1>1. Init => ProducerInv
  BY ProducerStarts DEF Init
<1> QED
  BY <1>1, ProducerKept, PTL DEF Spec

\* Messages of one key have the same routes.
LEMMA SameRoutes ==
  ASSUME NEW m \in Messages, NEW n \in Messages, KeyOf[m] = KeyOf[n]
  PROVE  RouteOf(m) = RouteOf(n)
BY DEF RouteOf

\* Two messages of the same key whose send returned Ok are in the same partitions, for
\* any routes and hashes and whenever partitions are added: DefaultSuperStreamMetadata
\* keeps the first answer.
THEOREM KeyHasOneHome == Spec => []OneHome
<1>1. ASSUME ProducerInv PROVE OneHome
  <2> SUFFICES ASSUME NEW m \in Messages, NEW n \in Messages, NEW p \in Partitions,
                      outcome[m] = "Ok", outcome[n] = "Ok", KeyOf[m] = KeyOf[n]
               PROVE  In(m, p) <=> In(n, p)
    BY DEF OneHome
  <2>1. PICK i \in 0 .. Len(RouteOf(m)) : Served(m, i)
    BY <1>1 DEF ProducerInv, ServedOK
  <2>2. PICK j \in 0 .. Len(RouteOf(n)) : Served(n, j)
    BY <1>1 DEF ProducerInv, ServedOK
  <2>3. RouteOf(m) = RouteOf(n)
    BY SameRoutes
  <2> QED
    BY <2>1, <2>2, <2>3 DEF Served
<1>2. ProducerInv => OneHome
  BY <1>1
<1> QED
  BY <1>2, ProducerAlways, PTL

\* A message whose send returned Ok was handed to every route of its key, once for each;
\* any other once to each route before the one that failed: the loop of send stops at its
\* first error. That holds for any bindings, also those that name a partition twice.
THEOREM SendIsWholeOrPrefix == Spec => []WholeOrPrefix
<1>1. ASSUME ProducerInv PROVE WholeOrPrefix
  <2> SUFFICES ASSUME NEW m \in Messages
               PROVE  \E n \in 0 .. Len(RouteOf(m)) :
                         /\ outcome[m] = "Ok" => n = Len(RouteOf(m))
                         /\ \A p \in Partitions : Times(log[p], Len(log[p]), m) = Times(RouteOf(m), n, p)
    BY DEF WholeOrPrefix
  <2>1. PICK n \in 0 .. Len(RouteOf(m)) : Served(m, n)
    BY <1>1 DEF ProducerInv, ServedOK
  <2> QED
    BY <2>1 DEF Served, Counted
<1>2. ProducerInv => WholeOrPrefix
  BY <1>1
<1> QED
  BY <1>2, ProducerAlways, PTL
-----------------------------------------------------------------------------
(* The consumer: its tasks, its channel and its close.                     *)

ConsumerInv ==
    Consumer!ConsumerTypeOK /\ HandsOK /\ WantedOK /\ CloserOK /\ Consumer!OkClosesAll

\* Nothing is built yet.
LEMMA ConsumerStarts == Consumer!ConsumerInit /\ ProducerInit => ConsumerInv
<1> SUFFICES ASSUME Consumer!ConsumerInit, ProducerInit PROVE ConsumerInv
  OBVIOUS
<1> USE DEF Consumer!ConsumerInit
<1>1. Consumer!ConsumerTypeOK
  <2>1. hand \in [Partitions -> Seq(Consumer!Delivery)]
    BY EmptySeq
  <2>2. closer \in [at : {"idle", "cas", "handles", "Ok", "Err", "panic"}, todo : Seq(Partitions)]
    BY EmptySeq
  <2>3. Len(chan) <= Capacity
    BY EmptySeq, CapacityAssumption
  <2> QED
    BY <2>1, <2>2, <2>3, EmptySeq DEF Consumer!ConsumerTypeOK
<1>2. HandsOK
  BY DEF HandsOK, ProducerInit
<1>3. WantedOK /\ CloserOK /\ Consumer!OkClosesAll
  BY DEF WantedOK, CloserOK, Consumer!OkClosesAll
<1> QED
  BY <1>1, <1>2, <1>3 DEF ConsumerInv

\* The logs only grow, at their ends.
LogGrows ==
    \A p \in Partitions :
       /\ Len(log[p]) \in Nat /\ Len(log'[p]) \in Nat /\ Len(log[p]) <= Len(log'[p])
       /\ \A i \in 1 .. Len(log[p]) : log'[p][i] = log[p][i]

\* That is what the producer does to them.
LEMMA ProducerGrowsLog ==
  ASSUME ProducerInv, ProducerNext \/ AddPartition
  PROVE  LogGrows
<1>1. \A p \in Partitions : log[p] \in Seq(Messages) /\ Len(log[p]) \in Nat
  BY LenProperties DEF ProducerInv, ProducerTypeOK
<1>2. CASE log' = log
  BY <1>1, <1>2 DEF LogGrows
<1>3. CASE Publish
  <2>1. ASSUME NEW p \in Partitions
        PROVE  /\ Len(log'[p]) \in Nat /\ Len(log[p]) <= Len(log'[p])
               /\ \A i \in 1 .. Len(log[p]) : log'[p][i] = log[p][i]
    <3>1. CASE p = Head(todo)
      BY <1>1, <1>3, <3>1, PublishedTo
    <3>2. CASE p # Head(todo)
      BY <1>1, <1>3, <3>2, PublishedTo
    <3> QED
      BY <3>1, <3>2
  <2> QED
    BY <1>1, <2>1 DEF LogGrows
<1>4. log' = log \/ Publish
  BY DEF ProducerNext, SendStep, SendByHash, SendByKey, BuildProducer, RouteFails,
         CloseOwnClient, CloseStep, CloseProducer, CloseReturns, LoseOwnClient, AddPartition
<1> QED
  BY <1>2, <1>3, <1>4

\* What a task holds and has given stays where it is in a log that grows.
LEMMA ConsumerRests ==
  ASSUME ConsumerInv, LogGrows, UNCHANGED consumerVars
  PROVE  ConsumerInv'
<1>1. Consumer!ConsumerTypeOK' /\ WantedOK' /\ CloserOK' /\ Consumer!OkClosesAll'
  <2>1. Consumer!ConsumerTypeOK'
    BY DEF ConsumerInv, Consumer!ConsumerTypeOK
  <2>2. WantedOK'
    BY DEF ConsumerInv, WantedOK
  <2>3. CloserOK' /\ Consumer!OkClosesAll'
    BY DEF ConsumerInv, CloserOK, Consumer!OkClosesAll
  <2> QED
    BY <2>1, <2>2, <2>3
<1>2. HandsOK'
  <2> SUFFICES ASSUME NEW p \in Partitions
               PROVE  /\ next[p] <= Len(log'[p])
                      /\ task[p] # "sending" => hand[p] = <<>>
                      /\ task[p] = "sending" =>
                           next[p] > 0 /\ hand[p] = <<[from |-> p, msg |-> log'[p][next[p]]]>>
    BY DEF HandsOK
  <2>1. next[p] \in Nat /\ next[p] <= Len(log[p])
    BY DEF ConsumerInv, HandsOK, Consumer!ConsumerTypeOK
  <2>2. /\ task[p] # "sending" => hand[p] = <<>>
        /\ task[p] = "sending" =>
             next[p] > 0 /\ hand[p] = <<[from |-> p, msg |-> log[p][next[p]]]>>
    BY DEF ConsumerInv, HandsOK
  <2>3. Len(log[p]) \in Nat /\ Len(log'[p]) \in Nat /\ Len(log[p]) <= Len(log'[p])
    BY DEF LogGrows
  <2>4. next[p] > 0 => log'[p][next[p]] = log[p][next[p]]
    BY <2>1, <2>3 DEF LogGrows
  <2> QED
    BY <2>1, <2>2, <2>3, <2>4
<1> QED
  BY <1>1, <1>2 DEF ConsumerInv

\* SuperStreamConsumerBuilder::build.
LEMMA ConsumerBuilds ==
  ASSUME ProducerTypeOK, ConsumerInv,
         \/ Consumer!BuildBegin(Listed, TRUE) \/ Consumer!BuildBegin(Listed, FALSE)
         \/ Consumer!BuildPartition \/ Consumer!BuildPanics \/ Consumer!BuildDone
  PROVE  ConsumerInv'
<1>1. /\ wanted \in Seq(Partitions) /\ handlers \in Seq(Partitions)
      /\ subs \in [Partitions -> {"none", "open", "closed", "mute"}]
      /\ task \in [Partitions -> {"none", "next", "sending", "ended"}]
      /\ closer.at # "idle" => built = "ready"
  BY DEF ConsumerInv, Consumer!ConsumerTypeOK, CloserOK
<1>2. CASE Consumer!BuildBegin(Listed, TRUE) \/ Consumer!BuildBegin(Listed, FALSE)
  <2> USE DEF Consumer!BuildBegin
  <2>1. Listed \in Seq(Partitions) /\ Len(Listed) \in Nat
        /\ \A i \in 1 .. Len(Listed) : Listed[i] = i /\ i \in Partitions
    <3>1. partitions \in Nat /\ \A i \in 1 .. partitions : i \in Partitions
      BY SuperStreamAssumption DEF ProducerTypeOK, Partitions
    <3>2. Listed \in Seq(Partitions) /\ Len(Listed) = partitions
      BY <3>1, IsASeq DEF Listed
    <3> QED
      BY <3>1, <3>2 DEF Listed
  <2>2. /\ built = "no" /\ closer.at = "idle" /\ built' # "no"
        /\ wanted' \in {wanted, Listed}
        /\ UNCHANGED <<log, handlers, subs, task, next, hand, chan, delivered, app, woken,
                       closed, closer>>
    BY <1>1, <1>2
  <2>3. Consumer!ConsumerTypeOK'
    <3>1. /\ wanted' \in Seq(Partitions)
          /\ client' \in {"none", "up", "closed"}
          /\ built' \in {"no", "building", "ready", "failed", "panic"}
      BY <1>1, <1>2, <2>1 DEF ConsumerInv, Consumer!ConsumerTypeOK
    <3> QED
      BY <2>2, <3>1 DEF ConsumerInv, Consumer!ConsumerTypeOK
  <2>4. HandsOK' /\ CloserOK' /\ Consumer!OkClosesAll'
    BY <2>2 DEF ConsumerInv, HandsOK, CloserOK, Consumer!OkClosesAll
  <2>5. WantedOK'
    <3>1. \A p \in Partitions : task[p] = "none"
      BY <2>2 DEF ConsumerInv, WantedOK
    <3>2. CASE wanted' = wanted
      BY <2>2, <3>2 DEF ConsumerInv, WantedOK
    <3>3. CASE wanted' = Listed
      BY <2>1, <2>2, <3>1, <3>3 DEF WantedOK
    <3> QED
      BY <2>2, <3>2, <3>3
  <2> QED
    BY <2>3, <2>4, <2>5 DEF ConsumerInv
<1>3. CASE Consumer!BuildPartition
  <2> DEFINE h == Head(wanted)
  <2>1. /\ h \in Partitions /\ h = wanted[1] /\ Len(wanted) \in Nat \ {0}
        /\ Tail(wanted) \in Seq(Partitions) /\ Len(Tail(wanted)) = Len(wanted) - 1
        /\ \A i \in 1 .. Len(Tail(wanted)) : Tail(wanted)[i] = wanted[i + 1]
    BY <1>1, <1>3, HeadTailProperties, EmptySeq, LenProperties DEF Consumer!BuildPartition
  <2>2. /\ built = "building" /\ closer.at = "idle"
        /\ wanted' = Tail(wanted) /\ handlers' = Append(handlers, h)
        /\ subs' = [subs EXCEPT ![h] = "open"] /\ task' = [task EXCEPT ![h] = "next"]
        /\ UNCHANGED <<log, built, client, next, hand, chan, delivered, app, woken, closed,
                       closer>>
    BY <1>1, <1>3 DEF Consumer!BuildPartition
  <2> HIDE DEF h
  <2>3. task[h] = "none"
    BY <2>1 DEF ConsumerInv, WantedOK
  <2>4. task'[h] = "next" /\ \A p \in Partitions : p # h => task'[p] = task[p]
    BY <1>1, <2>1, <2>2
  <2>5. Consumer!ConsumerTypeOK'
    <3>1. handlers' \in Seq(Partitions)
      BY <1>1, <2>1, <2>2, AppendProperties
    <3> QED
      BY <1>1, <2>1, <2>2, <3>1 DEF ConsumerInv, Consumer!ConsumerTypeOK
  <2>6. HandsOK'
    BY <2>2, <2>3, <2>4 DEF ConsumerInv, HandsOK
  <2>7. WantedOK'
    <3>1. ASSUME NEW i \in 1 .. Len(wanted')
          PROVE  i + 1 \in 1 .. Len(wanted) /\ wanted'[i] = wanted[i + 1] /\ wanted'[i] # h
                 /\ wanted'[i] \in Partitions
      <4>1. i + 1 \in 1 .. Len(wanted) /\ 1 \in 1 .. Len(wanted) /\ i + 1 # 1
        BY <2>1, <2>2
      <4>2. wanted'[i] = wanted[i + 1]
        BY <2>1, <2>2
      <4>3. wanted[i + 1] # wanted[1] /\ wanted[i + 1] \in Partitions
        BY <1>1, <4>1, ElementOfSeq DEF ConsumerInv, WantedOK
      <4> QED
        BY <2>1, <4>1, <4>2, <4>3
    <3>2. \A i \in 1 .. Len(wanted') : task'[wanted'[i]] = "none"
      BY <2>4, <3>1 DEF ConsumerInv, WantedOK
    <3>3. ASSUME NEW i \in 1 .. Len(wanted'), NEW j \in 1 .. Len(wanted'), wanted'[i] = wanted'[j]
          PROVE  i = j
      <4>1. i + 1 = j + 1
        BY <3>1, <3>3 DEF ConsumerInv, WantedOK
      <4> QED
        BY <2>1, <2>2, <4>1
    <3> QED
      BY <2>2, <3>2, <3>3 DEF WantedOK
  <2>8. CloserOK' /\ Consumer!OkClosesAll'
    BY <2>2 DEF CloserOK, Consumer!OkClosesAll
  <2> QED
    BY <2>5, <2>6, <2>7, <2>8 DEF ConsumerInv
<1>4. CASE Consumer!BuildPanics \/ Consumer!BuildDone
  <2>1. /\ built = "building" /\ closer.at = "idle" /\ built' \in {"panic", "ready"}
        /\ app' \in {"gone", "run"}
        /\ UNCHANGED <<log, wanted, handlers, client, subs, task, next, hand, chan, delivered,
                       woken, closed, closer>>
    BY <1>1, <1>4 DEF Consumer!BuildPanics, Consumer!BuildDone
  <2> QED
    BY <2>1 DEF ConsumerInv, Consumer!ConsumerTypeOK, HandsOK, WantedOK, CloserOK,
                Consumer!OkClosesAll
<1> QED
  BY <1>2, <1>3, <1>4
\* A task with a delivery in its hand.
LEMMA HandFacts ==
  ASSUME ConsumerInv, NEW p \in Partitions, task[p] = "sending"
  PROVE  /\ hand[p] = <<[from |-> p, msg |-> log[p][next[p]]]>> /\ next[p] > 0
         /\ hand[p] \in Seq(Consumer!Delivery) /\ Len(hand[p]) = 1
         /\ hand[p][1] = [from |-> p, msg |-> log[p][next[p]]]
         /\ [from |-> p, msg |-> log[p][next[p]]] \in Consumer!Delivery
<1>1. hand[p] = <<[from |-> p, msg |-> log[p][next[p]]]>> /\ next[p] > 0
  BY DEF ConsumerInv, HandsOK
<1>2. hand[p] \in Seq(Consumer!Delivery)
  BY DEF ConsumerInv, Consumer!ConsumerTypeOK
<1>3. Len(hand[p]) = 1 /\ hand[p][1] = [from |-> p, msg |-> log[p][next[p]]]
  BY <1>1
<1>4. hand[p][1] \in Consumer!Delivery
  BY <1>2, <1>3, ElementOfSeq
<1> QED
  BY <1>1, <1>2, <1>3, <1>4

\* The forwarding task of a partition.
LEMMA ConsumerTasks ==
  ASSUME ProducerTypeOK, ConsumerInv, NEW p \in Partitions,
         Consumer!TaskStep(p) \/ Consumer!TaskEnd(p)
  PROVE  ConsumerInv'
<1>1. /\ task \in [Partitions -> {"none", "next", "sending", "ended"}]
      /\ next \in [Partitions -> Nat] /\ hand \in [Partitions -> Seq(Consumer!Delivery)]
      /\ chan \in Seq(Consumer!Delivery) /\ Len(chan) <= Capacity /\ Len(chan) \in Nat
      /\ log[p] \in Seq(Messages) /\ Len(log[p]) \in Nat
      /\ app \in {"waiting", "run", "checking", "parked", "ended", "gone"} /\ woken \in BOOLEAN
  BY LenProperties DEF ConsumerInv, Consumer!ConsumerTypeOK, ProducerTypeOK
<1>2. /\ task[p] \in {"next", "sending"}
      /\ \E t \in {"next", "sending", "ended"} : task' = [task EXCEPT ![p] = t]
      /\ UNCHANGED <<log, built, wanted, handlers, client, subs, delivered, closed, closer>>
  BY DEF Consumer!TaskStep, Consumer!TaskNext, Consumer!TaskSend, Consumer!TaskEnd
<1>3. \A q \in Partitions : q # p => task'[q] = task[q]
  BY <1>1, <1>2
<1>4. WantedOK'
  <2>1. \A i \in 1 .. Len(wanted) : wanted[i] # p /\ wanted[i] \in Partitions
    BY <1>2, ElementOfSeq DEF ConsumerInv, WantedOK, Consumer!ConsumerTypeOK
  <2> QED
    BY <1>2, <1>3, <2>1 DEF ConsumerInv, WantedOK
<1>5. CloserOK' /\ Consumer!OkClosesAll'
  BY <1>2 DEF ConsumerInv, CloserOK, Consumer!OkClosesAll
<1>6. task' \in [Partitions -> {"none", "next", "sending", "ended"}]
  BY <1>1, <1>2
<1>7. CASE Consumer!TaskNext(p)
  <2> DEFINE d == [from |-> p, msg |-> log[p][next[p] + 1]]
  <2>1. /\ next[p] < Len(log[p]) /\ next' = [next EXCEPT ![p] = @ + 1]
        /\ hand' = [hand EXCEPT ![p] = <<d>>] /\ task'[p] = "sending"
        /\ UNCHANGED <<chan, app, woken>>
    BY <1>1, <1>7 DEF Consumer!TaskNext
  <2>2. d \in Consumer!Delivery
    <3>1. next[p] + 1 \in 1 .. Len(log[p])
      BY <1>1, <2>1
    <3>2. log[p][next[p] + 1] \in Messages
      BY <1>1, <3>1, ElementOfSeq
    <3> QED
      BY <3>2 DEF Consumer!Delivery
  <2>3. <<d>> \in Seq(Consumer!Delivery)
    BY <2>2
  <2>4. /\ next'[p] = next[p] + 1 /\ hand'[p] = <<d>>
        /\ \A q \in Partitions : q # p => next'[q] = next[q] /\ hand'[q] = hand[q]
    BY <1>1, <2>1
  <2>5. next' \in [Partitions -> Nat] /\ hand' \in [Partitions -> Seq(Consumer!Delivery)]
    BY <1>1, <2>1, <2>3
  <2>6. Consumer!ConsumerTypeOK'
    BY <1>2, <1>6, <2>1, <2>5 DEF ConsumerInv, Consumer!ConsumerTypeOK
  <2>7. next'[p] > 0 /\ next'[p] <= Len(log[p])
    BY <1>1, <2>1, <2>4
  <2>8. HandsOK'
    BY <1>2, <1>3, <2>1, <2>4, <2>7 DEF ConsumerInv, HandsOK
  <2> QED
    BY <1>4, <1>5, <2>6, <2>8 DEF ConsumerInv
<1>8. CASE Consumer!TaskSend(p)
  <2>1. /\ next' = next /\ hand' = [hand EXCEPT ![p] = <<>>] /\ task'[p] = "next"
        /\ task[p] = "sending"
    BY <1>1, <1>8 DEF Consumer!TaskSend
  <2>2. hand'[p] = <<>> /\ \A q \in Partitions : q # p => hand'[q] = hand[q]
    BY <1>1, <2>1
  <2>3. HandsOK'
    BY <1>2, <1>3, <2>1, <2>2 DEF ConsumerInv, HandsOK
  <2>4. hand' \in [Partitions -> Seq(Consumer!Delivery)]
    BY <1>1, <2>1, EmptySeq
  <2>5. chan' \in Seq(Consumer!Delivery) /\ Len(chan') <= Capacity
    <3>1. CASE app = "gone"
      BY <1>1, <1>8, <3>1 DEF Consumer!TaskSend
    <3>2. CASE app # "gone"
      <4>1. chan' = chan \o hand[p] /\ Len(chan) < Capacity
        BY <1>8, <3>2 DEF Consumer!TaskSend
      <4>2. hand[p] \in Seq(Consumer!Delivery) /\ Len(hand[p]) = 1
        BY <2>1, HandFacts
      <4>3. /\ chan \o hand[p] \in Seq(Consumer!Delivery)
            /\ Len(chan \o hand[p]) = Len(chan) + Len(hand[p])
        BY <1>1, <4>2, ConcatProperties
      <4> QED
        BY <1>1, <4>1, <4>2, <4>3, CapacityAssumption
    <3> QED
      BY <3>1, <3>2
  <2>6. app' \in {"waiting", "run", "checking", "parked", "ended", "gone"} /\ woken' \in BOOLEAN
    BY <1>1, <1>8 DEF Consumer!TaskSend, Consumer!Wake
  <2>7. Consumer!ConsumerTypeOK'
    BY <1>2, <1>6, <2>1, <2>4, <2>5, <2>6 DEF ConsumerInv, Consumer!ConsumerTypeOK
  <2> QED
    BY <1>4, <1>5, <2>3, <2>7 DEF ConsumerInv
<1>9. CASE Consumer!TaskEnd(p)
  <2>1. UNCHANGED <<next, hand, chan>> /\ task[p] = "next" /\ task'[p] = "ended"
    BY <1>1, <1>9 DEF Consumer!TaskEnd
  <2>2. HandsOK'
    BY <1>2, <1>3, <2>1 DEF ConsumerInv, HandsOK
  <2>3. app' \in {"waiting", "run", "checking", "parked", "ended", "gone"} /\ woken' \in BOOLEAN
    BY <1>1, <1>9 DEF Consumer!TaskEnd, Consumer!Wake
  <2>4. Consumer!ConsumerTypeOK'
    BY <1>2, <1>6, <2>1, <2>3 DEF ConsumerInv, Consumer!ConsumerTypeOK
  <2> QED
    BY <1>4, <1>5, <2>2, <2>4 DEF ConsumerInv
<1> QED
  BY <1>7, <1>8, <1>9 DEF Consumer!TaskStep

\* The application polls, or loses interest.
LEMMA ConsumerPolls ==
  ASSUME ConsumerInv, Consumer!AppStep \/ Consumer!DropConsumer
  PROVE  ConsumerInv'
<1>1. /\ chan \in Seq(Consumer!Delivery) /\ Len(chan) <= Capacity /\ Len(chan) \in Nat
      /\ delivered \in Seq(Consumer!Delivery) /\ woken \in BOOLEAN
      /\ closed \in BOOLEAN
  BY LenProperties DEF ConsumerInv, Consumer!ConsumerTypeOK
<1>2. UNCHANGED <<log, built, wanted, handlers, client, subs, task, next, hand, closed, closer>>
  BY DEF Consumer!AppStep, Consumer!PollReady, Consumer!PollEmpty, Consumer!CheckClosed,
         Consumer!DropConsumer
<1>3. HandsOK' /\ WantedOK' /\ CloserOK' /\ Consumer!OkClosesAll'
  BY <1>2 DEF ConsumerInv, HandsOK, WantedOK, CloserOK, Consumer!OkClosesAll
<1>4. /\ chan' \in Seq(Consumer!Delivery) /\ Len(chan') <= Capacity
      /\ delivered' \in Seq(Consumer!Delivery)
  <2>1. CASE Consumer!PollReady
    <3>1. /\ chan # <<>> /\ chan' = Tail(chan) /\ delivered' = Append(delivered, Head(chan))
      BY <2>1 DEF Consumer!PollReady
    <3>2. /\ Head(chan) \in Consumer!Delivery /\ Tail(chan) \in Seq(Consumer!Delivery)
          /\ Len(Tail(chan)) = Len(chan) - 1
      BY <1>1, <3>1, HeadTailProperties
    <3> QED
      BY <1>1, <3>1, <3>2, AppendProperties, CapacityAssumption
  <2>2. CASE Consumer!PollEmpty \/ Consumer!CheckClosed \/ Consumer!DropConsumer
    BY <1>1, <2>2 DEF Consumer!PollEmpty, Consumer!CheckClosed, Consumer!DropConsumer
  <2> QED
    BY <2>1, <2>2 DEF Consumer!AppStep
<1>5. app' \in {"waiting", "run", "checking", "parked", "ended", "gone"} /\ woken' \in BOOLEAN
  BY <1>1 DEF Consumer!AppStep, Consumer!PollReady, Consumer!PollEmpty, Consumer!CheckClosed,
         Consumer!DropConsumer
<1>6. Consumer!ConsumerTypeOK'
  BY <1>2, <1>4, <1>5 DEF ConsumerInv, Consumer!ConsumerTypeOK
<1> QED
  BY <1>3, <1>6 DEF ConsumerInv
\* SuperStreamConsumerHandle::close, and consumers that close by themselves.
LEMMA ConsumerCloses ==
  ASSUME ConsumerInv,
         \/ Consumer!CloseWake \/ Consumer!CloseAgain \/ Consumer!CloseCas
         \/ Consumer!CloseHandle \/ Consumer!CloseHandleAgain \/ Consumer!CloseHandleFails
         \/ Consumer!CloseClient(TRUE) \/ Consumer!CloseClient(FALSE)
         \/ \E p \in Partitions : Consumer!LoseSubscription(p)
  PROVE  ConsumerInv'
<1> DEFINE Ats == {"idle", "cas", "handles", "Ok", "Err", "panic"}
<1>1. /\ closer \in [at : Ats, todo : Seq(Partitions)] /\ handlers \in Seq(Partitions)
      /\ subs \in [Partitions -> {"none", "open", "closed", "mute"}]
      /\ \A i \in 1 .. Len(handlers) : handlers[i] \in Partitions
      /\ app \in {"waiting", "run", "checking", "parked", "ended", "gone"} /\ woken \in BOOLEAN
      /\ closed \in BOOLEAN /\ client \in {"none", "up", "closed"}
      /\ closer.at # "idle" => built = "ready"
  BY ElementOfSeq DEF ConsumerInv, Consumer!ConsumerTypeOK, CloserOK
<1>2. closer.todo \in Seq(Partitions) /\ closer.at \in Ats
  BY <1>1
<1>3. UNCHANGED <<log, built, wanted, handlers, task, next, hand, chan, delivered>>
  BY DEF Consumer!CloseWake, Consumer!CloseAgain, Consumer!CloseCas,
         Consumer!CloseHandle, Consumer!CloseHandleAgain,
         Consumer!CloseHandleFails, Consumer!CloseClient, Consumer!LoseSubscription
<1>4. HandsOK' /\ WantedOK'
  BY <1>3 DEF ConsumerInv, HandsOK, WantedOK
<1>5. SUFFICES /\ closer' \in [at : Ats, todo : Seq(Partitions)]
               /\ subs' \in [Partitions -> {"none", "open", "closed", "mute"}]
               /\ app' \in {"waiting", "run", "checking", "parked", "ended", "gone"}
               /\ woken' \in BOOLEAN /\ closed' \in BOOLEAN /\ client' \in {"none", "up", "closed"}
               /\ CloserOK' /\ Consumer!OkClosesAll'
  <2>1. ASSUME closer' \in [at : Ats, todo : Seq(Partitions)],
               subs' \in [Partitions -> {"none", "open", "closed", "mute"}],
               app' \in {"waiting", "run", "checking", "parked", "ended", "gone"},
               woken' \in BOOLEAN, closed' \in BOOLEAN, client' \in {"none", "up", "closed"}
        PROVE  Consumer!ConsumerTypeOK'
    BY <1>3, <2>1 DEF ConsumerInv, Consumer!ConsumerTypeOK
  <2> QED
    BY <1>4, <2>1 DEF ConsumerInv
<1> HIDE DEF Ats
<1>6. CASE Consumer!CloseWake
  <2>1. /\ built = "ready" /\ closer' = [closer EXCEPT !.at = "cas"]
        /\ UNCHANGED <<subs, closed, client>>
    BY <1>6 DEF Consumer!CloseWake
  <2>2. closer'.at = "cas" /\ closer' \in [at : Ats, todo : Seq(Partitions)]
    BY <1>1, <2>1 DEF Ats
  <2>3. app' \in {"waiting", "run", "checking", "parked", "ended", "gone"} /\ woken' \in BOOLEAN
    BY <1>1, <1>6 DEF Consumer!CloseWake, Consumer!Wake
  <2> QED
    BY <1>1, <1>3, <2>1, <2>2, <2>3 DEF CloserOK, Consumer!OkClosesAll
<1>7. CASE Consumer!CloseCas
  <2>1. /\ closer.at = "cas" /\ closed' = TRUE /\ closer' = [at |-> "handles", todo |-> handlers]
        /\ UNCHANGED <<subs, app, woken, client>>
    BY <1>7 DEF Consumer!CloseCas
  <2>2. /\ closer'.at = "handles" /\ closer'.todo = handlers
        /\ closer' \in [at : Ats, todo : Seq(Partitions)]
    BY <1>1, <2>1 DEF Ats
  <2>3. \A i \in 1 .. Len(handlers) : Has(handlers, handlers[i])
    BY DEF Has
  <2> QED
    BY <1>1, <1>3, <2>1, <2>2, <2>3 DEF CloserOK, Consumer!OkClosesAll
<1>8. CASE Consumer!CloseHandle
  <2> DEFINE h == Head(closer.todo)
  <2>1. /\ closer.at = "handles" /\ closer.todo # <<>>
        /\ subs' = [subs EXCEPT ![h] = "closed"]
        /\ closer' = [closer EXCEPT !.todo = Tail(@)]
        /\ UNCHANGED <<closed, app, woken, client>>
    BY <1>8 DEF Consumer!CloseHandle
  <2>2. /\ h \in Partitions /\ Tail(closer.todo) \in Seq(Partitions)
        /\ \A x : Has(closer.todo, x) <=> x = h \/ Has(Tail(closer.todo), x)
    BY <1>2, <2>1, HasTail
  <2>3. /\ closer'.at = "handles" /\ closer'.todo = Tail(closer.todo)
        /\ closer' \in [at : Ats, todo : Seq(Partitions)]
    BY <1>1, <2>1, <2>2
  <2> HIDE DEF h
  <2>4. /\ subs' \in [Partitions -> {"none", "open", "closed", "mute"}]
        /\ subs'[h] = "closed" /\ \A p \in Partitions : p # h => subs'[p] = subs[p]
    BY <1>1, <2>1, <2>2
  <2>5. ASSUME NEW i \in 1 .. Len(handlers)
        PROVE  subs'[handlers[i]] = "closed" \/ Has(closer'.todo, handlers[i])
    <3>1. subs[handlers[i]] = "closed" \/ Has(closer.todo, handlers[i])
      BY <2>1 DEF ConsumerInv, CloserOK
    <3> QED
      BY <1>1, <2>2, <2>3, <2>4, <3>1
  <2>6. CloserOK' /\ Consumer!OkClosesAll'
    BY <1>1, <1>3, <2>1, <2>3, <2>5 DEF CloserOK, Consumer!OkClosesAll
  <2> QED
    BY <1>1, <2>1, <2>3, <2>4, <2>6
<1>9. CASE Consumer!CloseHandleAgain \/ Consumer!CloseHandleFails
  <2>1. /\ closer.at = "handles" /\ closer.todo # <<>> /\ closer' = [closer EXCEPT !.at = "panic"]
        /\ subs' = subs \/ subs' = [subs EXCEPT ![Head(closer.todo)] = "mute"]
        /\ UNCHANGED <<closed, app, woken, client>>
    BY <1>9 DEF Consumer!CloseHandleAgain, Consumer!CloseHandleFails
  <2>2. Head(closer.todo) \in Partitions
    BY <1>2, <2>1, HeadTailProperties
  <2>3. closer'.at = "panic" /\ closer' \in [at : Ats, todo : Seq(Partitions)]
    BY <1>1, <2>1 DEF Ats
  <2>4. subs' \in [Partitions -> {"none", "open", "closed", "mute"}]
    BY <1>1, <2>1, <2>2
  <2> QED
    BY <1>1, <1>3, <2>1, <2>3, <2>4 DEF CloserOK, Consumer!OkClosesAll
<1>10. ASSUME NEW ok \in BOOLEAN, Consumer!CloseClient(ok)
       PROVE  /\ closer' \in [at : Ats, todo : Seq(Partitions)]
              /\ subs' = subs /\ app' = app /\ woken' = woken /\ closed' = closed
              /\ client' \in {"none", "up", "closed"}
              /\ CloserOK' /\ Consumer!OkClosesAll'
  <2>1. /\ closer.at = "handles" /\ closer.todo = <<>>
        /\ closer' = [closer EXCEPT !.at = IF ok THEN "Ok" ELSE "Err"]
        /\ client' = IF ok THEN "closed" ELSE client
        /\ UNCHANGED <<subs, closed, app, woken>>
    BY <1>10 DEF Consumer!CloseClient
  <2>2. closer'.at = (IF ok THEN "Ok" ELSE "Err") /\ closer' \in [at : Ats, todo : Seq(Partitions)]
    BY <1>1, <2>1 DEF Ats
  <2>3. \A i \in 1 .. Len(handlers) : subs[handlers[i]] = "closed"
    BY <2>1, HasEmpty DEF ConsumerInv, CloserOK
  <2>4. CloserOK' /\ Consumer!OkClosesAll'
    BY <1>1, <1>3, <2>1, <2>2, <2>3 DEF CloserOK, Consumer!OkClosesAll
  <2> QED
    BY <1>1, <2>1, <2>2, <2>4
<1>11. ASSUME NEW p \in Partitions, Consumer!LoseSubscription(p)
       PROVE  /\ subs' \in [Partitions -> {"none", "open", "closed", "mute"}]
              /\ UNCHANGED <<closer, app, woken, closed, client>>
              /\ CloserOK' /\ Consumer!OkClosesAll'
  <2>1. /\ subs' = [subs EXCEPT ![p] = "closed"]
        /\ UNCHANGED <<closer, app, woken, closed, client>>
    BY <1>11 DEF Consumer!LoseSubscription
  <2>2. subs'[p] = "closed" /\ \A q \in Partitions : q # p => subs'[q] = subs[q]
    BY <1>1, <2>1
  <2>3. \A i \in 1 .. Len(handlers) : subs[handlers[i]] = "closed" => subs'[handlers[i]] = "closed"
    BY <1>1, <2>2
  <2>4. CloserOK' /\ Consumer!OkClosesAll'
    BY <1>3, <2>1, <2>3 DEF ConsumerInv, CloserOK, Consumer!OkClosesAll
  <2> QED
    BY <1>1, <2>1, <2>4
<1>12. CASE Consumer!CloseAgain
  <2>1. UNCHANGED <<subs, closed, client, closer>>
    BY <1>12 DEF Consumer!CloseAgain
  <2>2. app' \in {"waiting", "run", "checking", "parked", "ended", "gone"} /\ woken' \in BOOLEAN
    BY <1>1, <1>12 DEF Consumer!CloseAgain, Consumer!Wake
  <2>3. CloserOK' /\ Consumer!OkClosesAll'
    BY <1>3, <2>1 DEF ConsumerInv, CloserOK, Consumer!OkClosesAll
  <2> QED
    BY <1>1, <2>1, <2>2, <2>3
<1> QED
  BY <1>1, <1>6, <1>7, <1>8, <1>9, <1>10, <1>11, <1>12

\* ConsumerInv is kept by every step.
LEMMA ConsumerKept == ProducerInv /\ ConsumerInv /\ [Next]_vars => ConsumerInv'
<1> SUFFICES ASSUME ProducerInv, ConsumerInv, [Next]_vars PROVE ConsumerInv'
  OBVIOUS
<1>1. CASE (ProducerNext \/ AddPartition) /\ UNCHANGED consumerVars
  BY <1>1, ProducerGrowsLog, ConsumerRests
<1>2. CASE ConsumerRuns \/ ConsumerFaults
  BY <1>2, ConsumerBuilds, ConsumerTasks, ConsumerPolls, ConsumerCloses
     DEF ConsumerRuns, ConsumerFaults, ProducerInv
<1>3. CASE UNCHANGED vars
  <2>1. LogGrows /\ UNCHANGED consumerVars
    BY <1>3, LenProperties DEF vars, LogGrows, ProducerInv, ProducerTypeOK
  <2> QED
    BY <2>1, ConsumerRests
<1> QED
  BY <1>1, <1>2, <1>3 DEF Next

\* The consumer's invariant.
LEMMA ConsumerAlways == Spec => []ConsumerInv
<1>1. Init => ConsumerInv
  BY ConsumerStarts DEF Init
<1> QED
  BY <1>1, ConsumerKept, ProducerAlways, PTL DEF Spec

\* The channel all forwarding tasks send to never holds more than its capacity, every
\* route is a partition and every delivery a message of one: TypeOK, for any number of
\* partitions, messages and faults.
THEOREM TypeCorrect == Spec => []TypeOK
<1>1. ProducerInv /\ ConsumerInv => TypeOK
  BY DEF ProducerInv, ConsumerInv, TypeOK
<1> QED
  BY <1>1, ProducerAlways, ConsumerAlways, PTL

\* A close of the consumer that returned Ok has closed every partition's consumer and the
\* client; the producer's has tried every producer once it came past its own client, and
\* says Ok only if none failed.
THEOREM ClosesReachEverything == Spec => []ClosesReachAll
<1>1. ProducerInv /\ ConsumerInv => ClosesReachAll
  BY DEF ProducerInv, ConsumerInv, ClosesReachAll
<1> QED
  BY <1>1, ProducerAlways, ConsumerAlways, PTL
-----------------------------------------------------------------------------
(* The merge of the partitions.                                            *)

\* What has left the tasks is a sequence of deliveries.
LEMMA GivenFacts ==
  ASSUME ConsumerInv
  PROVE  /\ delivered \o chan \in Seq(Consumer!Delivery) /\ Len(delivered \o chan) \in Nat
         /\ \A p \in Partitions :
              /\ Sent(p) \in Nat /\ Sent(p) <= next[p] /\ next[p] \in Nat
              /\ task[p] = "sending" => Sent(p) = next[p] - 1
              /\ task[p] # "sending" => Sent(p) = next[p]
<1>1. delivered \in Seq(Consumer!Delivery) /\ chan \in Seq(Consumer!Delivery)
  BY DEF ConsumerInv, Consumer!ConsumerTypeOK
<1>2. delivered \o chan \in Seq(Consumer!Delivery)
  BY <1>1, ConcatProperties
<1>3. ASSUME NEW p \in Partitions
      PROVE  /\ Sent(p) \in Nat /\ Sent(p) <= next[p] /\ next[p] \in Nat
             /\ task[p] = "sending" => Sent(p) = next[p] - 1
             /\ task[p] # "sending" => Sent(p) = next[p]
  <2>1. next[p] \in Nat
    BY DEF ConsumerInv, Consumer!ConsumerTypeOK
  <2>2. CASE task[p] = "sending"
    <3>1. Len(hand[p]) = 1 /\ next[p] > 0
      BY <2>2, HandFacts
    <3> QED
      BY <2>1, <2>2, <3>1 DEF Sent
  <2>3. CASE task[p] # "sending"
    <3>0. hand[p] = <<>>
      BY <2>3 DEF ConsumerInv, HandsOK
    <3>1. Len(hand[p]) = 0
      BY <3>0
    <3> QED
      BY <2>1, <2>3, <3>1 DEF Sent
  <2> QED
    BY <2>2, <2>3
<1> QED
  BY <1>2, <1>3, LenProperties

\* The first messages of a log stay where they are.
LogKept == \A p \in Partitions : \A i \in 1 .. next[p] : log'[p][i] = log[p][i]

\* Steps that hand nothing to the channel, or to a channel that nobody reads.
LEMMA MergeRests ==
  ASSUME ConsumerInv, MergeOK, LogKept, delivered' \o chan' = delivered \o chan,
         app' # "gone" => app # "gone",
         \A p \in Partitions : /\ Sent(p)' \in Nat /\ Sent(p) <= Sent(p)'
                               /\ app' # "gone" => Sent(p)' = Sent(p)
  PROVE  MergeOK'
<1> SUFFICES ASSUME NEW p \in Partitions PROVE \E n \in 0 .. Sent(p)' : MergedUpTo(p, n)'
  BY DEF MergeOK
<1>1. PICK n \in 0 .. Sent(p) : MergedUpTo(p, n)
  BY DEF MergeOK
<1>2. Sent(p) \in Nat /\ Sent(p) <= next[p] /\ next[p] \in Nat
  BY GivenFacts
<1>3. n \in 0 .. Sent(p)' /\ \A i \in 1 .. n : i \in 1 .. next[p]
  BY <1>2
<1>4. PICK at \in [1 .. n -> 1 .. Len(delivered \o chan)] :
         Consumer!PrefixAt(p, delivered \o chan, n, at)
  BY <1>1 DEF MergedUpTo
<1>5. \A i \in 1 .. n : log'[p][i] = log[p][i]
  BY <1>3 DEF LogKept
<1>6. /\ \A i, j \in 1 .. n : i < j => at[i] < at[j]
      /\ \A i \in 1 .. n : (delivered' \o chan')[at[i]] = [from |-> p, msg |-> log'[p][i]]
      /\ \A k \in 1 .. Len(delivered' \o chan') :
            (delivered' \o chan')[k].from = p => \E i \in 1 .. n : at[i] = k
  BY <1>4, <1>5 DEF Consumer!PrefixAt
<1>7. MergedUpTo(p, n)'
  BY <1>1, <1>4, <1>6 DEF MergedUpTo, Consumer!PrefixAt
<1> QED
  BY <1>3, <1>7

\* A task hands its delivery to the channel.
LEMMA MergeSends ==
  ASSUME ConsumerInv, ConsumerInv', MergeOK, NEW p \in Partitions, Consumer!TaskSend(p),
         app # "gone"
  PROVE  MergeOK'
<1> DEFINE g == delivered \o chan
           d == [from |-> p, msg |-> log[p][next[p]]]
<1>1. /\ task[p] = "sending" /\ next' = next /\ log' = log /\ app' # "gone"
      /\ hand' = [hand EXCEPT ![p] = <<>>] /\ delivered' = delivered /\ chan' = chan \o hand[p]
  BY DEF Consumer!TaskSend, Consumer!Wake
<1>2. hand[p] = <<d>> /\ hand[p] \in Seq(Consumer!Delivery) /\ Len(hand[p]) = 1
      /\ hand[p][1] = d /\ d.from = p
  BY <1>1, HandFacts
<1>3. /\ delivered \in Seq(Consumer!Delivery) /\ chan \in Seq(Consumer!Delivery)
      /\ hand \in [Partitions -> Seq(Consumer!Delivery)] /\ next \in [Partitions -> Nat]
      /\ g \in Seq(Consumer!Delivery) /\ Len(g) \in Nat
  BY GivenFacts DEF ConsumerInv, Consumer!ConsumerTypeOK
<1>4. delivered' \o chan' = g \o hand[p]
  BY <1>1, <1>2, <1>3, ConcatAssociative
<1>5. PICK G \in Seq(Consumer!Delivery) : G = delivered' \o chan'
  BY <1>2, <1>3, <1>4, ConcatProperties
<1>6. /\ Len(G) = Len(g) + 1 /\ G[Len(g) + 1] = d
      /\ \A k \in 1 .. Len(g) : G[k] = g[k]
  <2>1. /\ Len(g \o hand[p]) = Len(g) + Len(hand[p])
        /\ \A k \in 1 .. Len(g) + Len(hand[p]) :
              (g \o hand[p])[k] = IF k <= Len(g) THEN g[k] ELSE hand[p][k - Len(g)]
    BY <1>2, <1>3, ConcatProperties
  <2> HIDE DEF g, d
  <2>2. Len(G) = Len(g) + 1
    BY <1>2, <1>4, <1>5, <2>1
  <2>3. G[Len(g) + 1] = hand[p][(Len(g) + 1) - Len(g)] /\ (Len(g) + 1) - Len(g) = 1
    BY <1>2, <1>3, <1>4, <1>5, <2>1
  <2>4. \A k \in 1 .. Len(g) : G[k] = g[k]
    BY <1>2, <1>3, <1>4, <1>5, <2>1
  <2> QED
    BY <1>2, <2>2, <2>3, <2>4
<1>7. \A q \in Partitions : hand'[q] = IF q = p THEN <<>> ELSE hand[q]
  BY <1>1, <1>3
<1>8. ASSUME NEW q \in Partitions PROVE \E n \in 0 .. Sent(q)' : MergedUpTo(q, n)'
  <2>1. PICK n \in 0 .. Sent(q) : MergedUpTo(q, n)
    BY DEF MergeOK
  <2>2. n = Sent(q) /\ n \in Nat
    BY <2>1, GivenFacts DEF MergedUpTo
  <2>3. PICK at \in [1 .. n -> 1 .. Len(g)] : Consumer!PrefixAt(q, g, n, at)
    BY <2>1 DEF MergedUpTo
  <2> HIDE DEF g, d
  <2>4. /\ \A i, j \in 1 .. n : i < j => at[i] < at[j]
        /\ \A i \in 1 .. n : g[at[i]] = [from |-> q, msg |-> log[q][i]]
        /\ \A k \in 1 .. Len(g) : g[k].from = q => \E i \in 1 .. n : at[i] = k
    BY <2>3 DEF Consumer!PrefixAt
  <2>5. CASE q # p
    <3>1. Sent(q)' = Sent(q)
      BY <1>1, <1>7, <2>5 DEF Sent
    <3>2. at \in [1 .. n -> 1 .. Len(G)]
      BY <1>3, <1>6
    <3>3. \A i \in 1 .. n : G[at[i]] = [from |-> q, msg |-> log'[q][i]]
      BY <1>1, <1>6, <2>3, <2>4
    <3>4. ASSUME NEW k \in 1 .. Len(G), G[k].from = q PROVE \E i \in 1 .. n : at[i] = k
      <4>1. k \in 1 .. Len(g) \/ k = Len(g) + 1
        BY <1>3, <1>6
      <4> QED
        BY <1>2, <1>6, <2>4, <2>5, <3>4, <4>1
    <3>5. Consumer!PrefixAt(q, delivered \o chan, n, at)'
      BY <1>5, <2>4, <3>3, <3>4 DEF Consumer!PrefixAt
    <3>6. MergedUpTo(q, n)'
      BY <1>5, <2>2, <3>1, <3>2, <3>5 DEF MergedUpTo
    <3> QED
      BY <2>1, <3>1, <3>6
  <2>6. CASE q = p
    <3>1. Sent(p) = next[p] - 1 /\ next[p] \in Nat
      BY <1>1, GivenFacts
    <3>2. Sent(q)' = n + 1
      <4>1. Len(hand'[q]) = 0
        BY <1>7, <2>6
      <4> QED
        BY <1>1, <2>2, <2>6, <3>1, <4>1 DEF Sent
    <3>3. PICK l \in Nat : l = Len(g)
      BY <1>3
    <3> DEFINE au == [i \in 1 .. n + 1 |-> IF i = n + 1 THEN l + 1 ELSE at[i]]
    <3>4. /\ \A i \in 1 .. n : au[i] = at[i] /\ at[i] \in 1 .. l
          /\ au[n + 1] = l + 1
          /\ \A i \in 1 .. n + 1 : i \in 1 .. n \/ i = n + 1
      BY <2>2, <2>3, <3>3, SMTT(30)
    <3>5. au \in [1 .. n + 1 -> 1 .. Len(G)]
      BY <1>6, <2>2, <2>3, <3>3
    <3> HIDE DEF au
    <3>6. ASSUME NEW i \in 1 .. n + 1, NEW j \in 1 .. n + 1, i < j PROVE au[i] < au[j]
      <4>1. i \in 1 .. n
        BY <2>2, <3>6
      <4>2. CASE j \in 1 .. n
        BY <2>4, <3>4, <3>6, <4>1, <4>2
      <4>3. CASE j = n + 1
        BY <3>4, <4>1, <4>3
      <4> QED
        BY <3>4, <4>2, <4>3
    <3>7. ASSUME NEW i \in 1 .. n + 1 PROVE G[au[i]] = [from |-> q, msg |-> log'[q][i]]
      <4>1. CASE i \in 1 .. n
        BY <1>1, <1>6, <2>4, <3>3, <3>4, <4>1
      <4>2. CASE i = n + 1
        <5>1. i = next[p]
          BY <2>2, <2>6, <3>1, <4>2
        <5> QED
          BY <1>1, <1>6, <2>6, <3>3, <3>4, <4>2, <5>1 DEF d
      <4> QED
        BY <3>4, <4>1, <4>2
    <3>8. ASSUME NEW k \in 1 .. Len(G), G[k].from = q PROVE \E i \in 1 .. n + 1 : au[i] = k
      <4>1. CASE k \in 1 .. Len(g)
        <5>1. PICK i \in 1 .. n : at[i] = k
          BY <1>6, <2>4, <3>8, <4>1
        <5> QED
          BY <2>2, <3>4, <5>1, SMTT(30)
      <4>2. CASE k = Len(g) + 1
        BY <2>2, <3>3, <3>4, <4>2
      <4> QED
        BY <1>3, <1>6, <4>1, <4>2
    <3>9. PICK N \in Nat : N = n + 1
      BY <2>2
    <3>10. Consumer!PrefixAt(q, delivered \o chan, N, au)'
      BY <1>5, <3>6, <3>7, <3>8, <3>9 DEF Consumer!PrefixAt
    <3>11. MergedUpTo(q, N)'
      BY <1>5, <3>2, <3>5, <3>9, <3>10 DEF MergedUpTo
    <3> QED
      BY <3>2, <3>9, <3>11
  <2> QED
    BY <2>5, <2>6
<1> QED
  BY <1>8 DEF MergeOK
\* AppOK is inductive.
LEMMA AppKept == AppOK /\ [Next]_vars => AppOK'
<1> SUFFICES ASSUME AppOK, [Next]_vars PROVE AppOK'
  OBVIOUS
<1> USE DEF AppOK
<1>1. CASE UNCHANGED <<built, app>>
  BY <1>1
<1>2. CASE ConsumerFaults
  BY <1>2 DEF ConsumerFaults, Consumer!BuildBegin, Consumer!BuildPanics,
              Consumer!CloseHandleFails, Consumer!CloseClient, Consumer!LoseSubscription
<1>3. ASSUME NEW p \in Partitions, Consumer!TaskStep(p) \/ Consumer!TaskEnd(p) PROVE AppOK'
  BY <1>3 DEF Consumer!TaskStep, Consumer!TaskNext, Consumer!TaskSend, Consumer!TaskEnd,
              Consumer!Wake
<1>4. CASE Consumer!AppStep \/ Consumer!DropConsumer
  BY <1>4 DEF Consumer!AppStep, Consumer!PollReady, Consumer!PollEmpty, Consumer!CheckClosed,
              Consumer!DropConsumer
<1>5. CASE \/ Consumer!BuildBegin(Listed, TRUE) \/ Consumer!BuildPartition \/ Consumer!BuildDone
  BY <1>5 DEF Consumer!BuildBegin, Consumer!BuildPartition, Consumer!BuildDone
<1>6. CASE \/ Consumer!CloseWake \/ Consumer!CloseAgain \/ Consumer!CloseCas
           \/ Consumer!CloseHandle \/ Consumer!CloseHandleAgain \/ Consumer!CloseClient(TRUE)
  BY <1>6 DEF Consumer!CloseWake, Consumer!CloseAgain, Consumer!CloseCas,
              Consumer!CloseHandle,
              Consumer!CloseHandleAgain, Consumer!CloseClient, Consumer!Wake
<1> QED
  BY <1>1, <1>2, <1>3, <1>4, <1>5, <1>6 DEF Next, ConsumerRuns, vars

\* How much has left the tasks after a step.
LEMMA SentNext ==
  ConsumerInv' => \A p \in Partitions :
     /\ Sent(p)' \in Nat
     /\ task'[p] = "sending" => Sent(p)' = next'[p] - 1
     /\ task'[p] # "sending" => Sent(p)' = next'[p]
<1>1. ConsumerInv =>
        \A p \in Partitions :
           /\ Sent(p) \in Nat
           /\ task[p] = "sending" => Sent(p) = next[p] - 1
           /\ task[p] # "sending" => Sent(p) = next[p]
  BY GivenFacts
<1>2. (ConsumerInv =>
        \A p \in Partitions :
           /\ Sent(p) \in Nat
           /\ task[p] = "sending" => Sent(p) = next[p] - 1
           /\ task[p] # "sending" => Sent(p) = next[p])'
  BY <1>1, PTL
<1> QED
  BY <1>2

\* The forwarding tasks keep the merge.
LEMMA MergeTasks ==
  ASSUME ConsumerInv, ConsumerInv', MergeOK, NEW p \in Partitions,
         Consumer!TaskStep(p) \/ Consumer!TaskEnd(p)
  PROVE  MergeOK'
<1>1. /\ next \in [Partitions -> Nat] /\ hand \in [Partitions -> Seq(Consumer!Delivery)]
      /\ task \in [Partitions -> {"none", "next", "sending", "ended"}]
  BY DEF ConsumerInv, Consumer!ConsumerTypeOK
<1>2. /\ LogKept
      /\ app' # "gone" => app # "gone"
  BY DEF LogKept, Consumer!TaskStep, Consumer!TaskNext, Consumer!TaskSend, Consumer!TaskEnd,
         Consumer!Wake
<1>3. CASE Consumer!TaskNext(p)
  <2>1. /\ task[p] = "next" /\ task'[p] = "sending" /\ next'[p] = next[p] + 1
        /\ \A q \in Partitions : q # p => next'[q] = next[q] /\ hand'[q] = hand[q]
        /\ UNCHANGED <<delivered, chan, app>>
    BY <1>1, <1>3 DEF Consumer!TaskNext
  <2>2. ASSUME NEW q \in Partitions PROVE Sent(q)' \in Nat /\ Sent(q)' = Sent(q)
    <3>1. CASE q = p
      BY <1>1, <2>1, <3>1, GivenFacts, SentNext
    <3>2. CASE q # p
      BY <2>1, <3>2, GivenFacts DEF Sent
    <3> QED
      BY <3>1, <3>2
  <2>3. \A q \in Partitions : Sent(q) <= Sent(q)'
    BY <2>2, GivenFacts
  <2> QED
    BY <1>2, <2>1, <2>2, <2>3, MergeRests
<1>4. CASE Consumer!TaskSend(p) /\ app = "gone"
  <2>1. /\ task[p] = "sending" /\ task'[p] = "next" /\ next' = next
        /\ \A q \in Partitions : q # p => hand'[q] = hand[q]
        /\ UNCHANGED <<delivered, chan, app>>
    BY <1>1, <1>4 DEF Consumer!TaskSend
  <2>2. ASSUME NEW q \in Partitions PROVE Sent(q)' \in Nat /\ Sent(q) <= Sent(q)'
    <3>1. CASE q = p
      BY <1>1, <2>1, <3>1, GivenFacts, SentNext
    <3>2. CASE q # p
      <4>1. Sent(q)' = Sent(q)
        BY <2>1, <3>2 DEF Sent
      <4> QED
        BY <4>1, GivenFacts
    <3> QED
      BY <3>1, <3>2
  <2> QED
    BY <1>2, <1>4, <2>1, <2>2, MergeRests
<1>5. CASE Consumer!TaskEnd(p)
  <2>1. UNCHANGED <<next, hand, delivered, chan>>
    BY <1>5 DEF Consumer!TaskEnd
  <2>2. app' = "gone" <=> app = "gone"
    BY <1>5 DEF Consumer!TaskEnd, Consumer!Wake
  <2>3. \A q \in Partitions : Sent(q)' = Sent(q)
    BY <2>1 DEF Sent
  <2>4. \A q \in Partitions : Sent(q) \in Nat /\ Sent(q) <= Sent(q)
    BY GivenFacts
  <2> QED
    BY <1>2, <2>1, <2>2, <2>3, <2>4, MergeRests
<1> QED
  BY <1>3, <1>4, <1>5, MergeSends DEF Consumer!TaskStep

\* MergeOK is kept by every step.
LEMMA MergeNext ==
  ProducerInv /\ ConsumerInv /\ ConsumerInv' /\ AppOK /\ MergeOK /\ [Next]_vars => MergeOK'
<1> SUFFICES ASSUME ProducerInv, ConsumerInv, ConsumerInv', AppOK, MergeOK, [Next]_vars
             PROVE  MergeOK'
  OBVIOUS
<1>1. \A p \in Partitions : Sent(p) \in Nat /\ Sent(p) <= Sent(p) /\ next[p] \in Nat
  BY GivenFacts
<1>2. ASSUME LogGrows, UNCHANGED consumerVars PROVE MergeOK'
  <2>1. LogKept
    <3> SUFFICES ASSUME NEW p \in Partitions, NEW i \in 1 .. next[p] PROVE log'[p][i] = log[p][i]
      BY DEF LogKept
    <3>1. next[p] <= Len(log[p]) /\ Len(log[p]) \in Nat
      BY <1>2 DEF ConsumerInv, HandsOK, LogGrows
    <3>2. i \in 1 .. Len(log[p])
      BY <1>1, <3>1
    <3> QED
      BY <1>2, <3>2 DEF LogGrows
  <2>2. \A p \in Partitions : Sent(p)' = Sent(p)
    BY <1>2 DEF Sent
  <2> QED
    BY <1>1, <1>2, <2>1, <2>2, MergeRests
<1>3. CASE (ProducerNext \/ AddPartition) /\ UNCHANGED consumerVars
  BY <1>2, <1>3, ProducerGrowsLog
<1>4. CASE UNCHANGED vars
  <2>1. LogGrows /\ UNCHANGED consumerVars
    BY <1>4, LenProperties DEF vars, LogGrows, ProducerInv, ProducerTypeOK
  <2> QED
    BY <1>2, <2>1
<1>5. ASSUME UNCHANGED <<log, next, hand>>, delivered' \o chan' = delivered \o chan,
             app' # "gone" => app # "gone"
      PROVE  MergeOK'
  <2>1. LogKept /\ \A p \in Partitions : Sent(p)' = Sent(p)
    BY <1>5 DEF LogKept, Sent
  <2> QED
    BY <1>1, <1>5, <2>1, MergeRests
<1>6. CASE \/ Consumer!BuildBegin(Listed, TRUE) \/ Consumer!BuildBegin(Listed, FALSE)
           \/ Consumer!BuildPartition \/ Consumer!BuildPanics \/ Consumer!BuildDone
  <2>1. UNCHANGED <<log, next, hand, delivered, chan>> /\ (app' # "gone" => app # "gone")
    BY <1>6 DEF AppOK, Consumer!BuildBegin, Consumer!BuildPartition, Consumer!BuildPanics,
                Consumer!BuildDone
  <2> QED
    BY <1>5, <2>1
<1>7. CASE Consumer!PollReady
  <2>1. /\ chan # <<>> /\ delivered' = Append(delivered, Head(chan)) /\ chan' = Tail(chan)
        /\ UNCHANGED <<log, next, hand, app>>
    BY <1>7 DEF Consumer!PollReady
  <2>2. delivered \in Seq(Consumer!Delivery) /\ chan \in Seq(Consumer!Delivery)
    BY DEF ConsumerInv, Consumer!ConsumerTypeOK
  <2>3. delivered' \o chan' = delivered \o chan
    BY <2>1, <2>2, HeadMoves
  <2> QED
    BY <1>5, <2>1, <2>3
<1>8. CASE Consumer!PollEmpty \/ Consumer!CheckClosed \/ Consumer!DropConsumer
  <2>1. UNCHANGED <<log, next, hand, delivered, chan>> /\ (app' # "gone" => app # "gone")
    BY <1>8 DEF Consumer!PollEmpty, Consumer!CheckClosed, Consumer!DropConsumer
  <2> QED
    BY <1>5, <2>1
<1>9. CASE \/ Consumer!CloseWake \/ Consumer!CloseAgain \/ Consumer!CloseCas
           \/ Consumer!CloseHandle \/ Consumer!CloseHandleAgain \/ Consumer!CloseHandleFails
           \/ Consumer!CloseClient(TRUE) \/ Consumer!CloseClient(FALSE)
           \/ \E p \in Partitions : Consumer!LoseSubscription(p)
  <2>1. UNCHANGED <<log, next, hand, delivered, chan>> /\ (app' # "gone" => app # "gone")
    BY <1>9 DEF Consumer!CloseWake, Consumer!CloseAgain, Consumer!CloseCas,
                Consumer!CloseHandle, Consumer!Wake,
                Consumer!CloseHandleAgain, Consumer!CloseHandleFails, Consumer!CloseClient,
                Consumer!LoseSubscription
  <2> QED
    BY <1>5, <2>1
<1> QED
  BY <1>3, <1>4, <1>6, <1>7, <1>8, <1>9, MergeTasks
     DEF Next, ConsumerRuns, ConsumerFaults, Consumer!AppStep

\* The merge's invariant.
LEMMA MergeAlways == Spec => []MergeOK
<1>1. Init => AppOK
  BY DEF Init, Consumer!ConsumerInit, AppOK
<1>2. Init => MergeOK
  <2> SUFFICES ASSUME Init, NEW p \in Partitions PROVE \E n \in 0 .. Sent(p) : MergedUpTo(p, n)
    BY DEF MergeOK
  <2>1. /\ delivered = <<>> /\ chan = <<>> /\ next[p] = 0 /\ hand[p] = <<>>
    BY DEF Init, Consumer!ConsumerInit
  <2>7. Len(hand[p]) = 0
    BY <2>1
  <2>8. next[p] - Len(hand[p]) = 0 - 0
    BY <2>1, <2>7, Zenon
  <2>9. Sent(p) = 0
    BY <2>8 DEF Sent
  <2>2. Sent(p) = 0 /\ 0 \in 0 .. Sent(p)
    BY <2>9
  <2>3. delivered \o chan = <<>> /\ Len(delivered \o chan) = 0
    BY <2>1
  <2> DEFINE at == [i \in 1 .. 0 |-> 1]
  <2>4. at \in [1 .. 0 -> 1 .. Len(delivered \o chan)]
    OBVIOUS
  <2>5. Consumer!PrefixAt(p, delivered \o chan, 0, at)
    BY <2>3 DEF Consumer!PrefixAt
  <2>6. MergedUpTo(p, 0)
    BY <2>2, <2>4, <2>5 DEF MergedUpTo
  <2> QED
    BY <2>2, <2>6
<1> QED
  BY <1>1, <1>2, AppKept, MergeNext, ProducerAlways, ConsumerAlways, PTL DEF Spec

\* Of each partition the application was given, and the channel and the task hold, a prefix
\* of the log, in order, with no message twice or left out: for any number of tasks, any
\* capacity of the channel, and whenever consumers are lost or closed.
THEOREM MergeInOrder == Spec => []MergeKeepsOrder
<1>1. ASSUME ConsumerInv, MergeOK PROVE MergeKeepsOrder
  <2> SUFFICES ASSUME app # "gone", NEW p \in Partitions
               PROVE  /\ \E at \in [1 .. Sent(p) -> 1 .. Len(delivered \o chan)] :
                            Consumer!PrefixAt(p, delivered \o chan, Sent(p), at)
                      /\ \A i \in 1 .. Len(hand[p]) :
                            hand[p][i] = [from |-> p, msg |-> log[p][Sent(p) + i]]
    BY DEF MergeKeepsOrder, Consumer!MergeKeepsOrder, Sent
  <2>1. \E n \in 0 .. Sent(p) : MergedUpTo(p, n)
    BY <1>1 DEF MergeOK
  <2>2. \E at \in [1 .. Sent(p) -> 1 .. Len(delivered \o chan)] :
           Consumer!PrefixAt(p, delivered \o chan, Sent(p), at)
    BY <2>1 DEF MergedUpTo
  <2>3. CASE task[p] = "sending"
    <3>1. /\ Len(hand[p]) = 1 /\ hand[p][1] = [from |-> p, msg |-> log[p][next[p]]]
          /\ Sent(p) + 1 = next[p]
      BY <1>1, <2>3, HandFacts, GivenFacts
    <3> QED
      BY <2>2, <3>1
  <2>4. CASE task[p] # "sending"
    <3>1. hand[p] = <<>>
      BY <1>1, <2>4 DEF ConsumerInv, HandsOK
    <3>2. Len(hand[p]) = 0
      BY <3>1
    <3> QED
      BY <2>2, <3>2
  <2> QED
    BY <2>3, <2>4
<1>2. ConsumerInv /\ MergeOK => MergeKeepsOrder
  BY <1>1
<1> QED
  BY <1>2, ConsumerAlways, MergeAlways, PTL

\* Two messages of one key reach the application in the order in which they were sent,
\* under the hash strategy: they go to one partition, whose log is in that order, and the
\* merge keeps it, for any partitions, even after they became more.
THEOREM KeysInOrder == Spec => []KeyOrder
<1>1. ASSUME ProducerInv, ConsumerInv, MergeOK PROVE KeyOrder
  <2> SUFFICES ASSUME strategy = "hash",
                      NEW i \in 1 .. Len(delivered), NEW j \in 1 .. Len(delivered), i < j,
                      KeyOf[delivered[i].msg] = KeyOf[delivered[j].msg]
               PROVE  delivered[i].msg < delivered[j].msg
    BY DEF KeyOrder
  <2>1. /\ delivered \in Seq(Consumer!Delivery) /\ chan \in Seq(Consumer!Delivery)
        /\ Len(delivered) \in Nat /\ Len(chan) \in Nat
    BY <1>1, LenProperties DEF ConsumerInv, Consumer!ConsumerTypeOK
  <2>2. /\ Len(delivered \o chan) = Len(delivered) + Len(chan)
        /\ \A k \in 1 .. Len(delivered) : (delivered \o chan)[k] = delivered[k]
    BY <2>1, ConcatProperties
  <2>3. ASSUME NEW k \in 1 .. Len(delivered)
        PROVE  /\ delivered[k].from \in Partitions /\ delivered[k].msg \in Messages
               /\ delivered[k].from = (HashOf[KeyOf[delivered[k].msg]] % cached) + 1
    <3>1. delivered[k] \in Consumer!Delivery
      BY <2>1, ElementOfSeq
    <3>2. PICK p \in Partitions : p = delivered[k].from
      BY <3>1 DEF Consumer!Delivery
    <3>3. PICK m \in Messages : m = delivered[k].msg
      BY <3>1 DEF Consumer!Delivery
    <3>4. PICK n \in 0 .. Sent(p) : MergedUpTo(p, n)
      BY <1>1 DEF MergeOK
    <3>5. k \in 1 .. Len(delivered \o chan) /\ (delivered \o chan)[k] = delivered[k]
      BY <2>1, <2>2
    <3>6. \E a \in 1 .. n : delivered[k] = [from |-> p, msg |-> log[p][a]]
      BY <3>2, <3>4, <3>5 DEF MergedUpTo, Consumer!PrefixAt
    <3>7. PICK a \in 1 .. n : delivered[k] = [from |-> p, msg |-> log[p][a]]
      BY <3>6
    <3>8. log[p][a] = m /\ a \in 1 .. Len(log[p])
      <4>1. Sent(p) \in Nat /\ Sent(p) <= next[p] /\ next[p] \in Nat /\ next[p] <= Len(log[p])
            /\ Len(log[p]) \in Nat
        BY <1>1, GivenFacts, LenProperties DEF ConsumerInv, HandsOK, ProducerInv, ProducerTypeOK
      <4> QED
        BY <3>3, <3>7, <4>1
    <3>9. In(m, p)
      BY <3>8 DEF In
    <3>10. PICK r \in 0 .. Len(RouteOf(m)) : Served(m, r)
      BY <1>1 DEF ProducerInv, ServedOK
    <3>11. PICK b \in 1 .. r : RouteOf(m)[b] = p
      BY <3>9, <3>10 DEF Served
    <3>12. Len(RouteOf(m)) \in Nat /\ b \in 1 .. Len(RouteOf(m))
      BY <1>1, <3>10, <3>11, RouteFacts DEF ProducerInv
    <3>13. p = (HashOf[KeyOf[m]] % cached) + 1
      <4>1. CASE cached = 0
        <5>1. RouteOf(m) = <<>>
          BY <4>1 DEF RouteOf
        <5>2. Len(RouteOf(m)) = 0
          BY <5>1
        <5> QED
          BY <3>12, <5>2
      <4>2. CASE cached # 0
        <5>1. RouteOf(m) = <<(HashOf[KeyOf[m]] % cached) + 1>>
          BY <4>2 DEF RouteOf
        <5>2. Len(RouteOf(m)) = 1 /\ RouteOf(m)[1] = (HashOf[KeyOf[m]] % cached) + 1
          BY <5>1
        <5> QED
          BY <3>11, <3>12, <5>2
      <4> QED
        BY <4>1, <4>2
    <3> QED
      BY <3>2, <3>3, <3>13
  <2>4. PICK p \in Partitions : p = delivered[i].from /\ p = delivered[j].from
    BY <2>3
  <2>5. PICK n \in 0 .. Sent(p) : MergedUpTo(p, n)
    BY <1>1 DEF MergeOK
  <2>6. PICK at \in [1 .. n -> 1 .. Len(delivered \o chan)] :
           Consumer!PrefixAt(p, delivered \o chan, n, at)
    BY <2>5 DEF MergedUpTo
  <2>7. /\ i \in 1 .. Len(delivered \o chan) /\ (delivered \o chan)[i] = delivered[i]
        /\ j \in 1 .. Len(delivered \o chan) /\ (delivered \o chan)[j] = delivered[j]
    BY <2>1, <2>2
  <2>8. PICK a \in 1 .. n : at[a] = i
    BY <2>4, <2>6, <2>7 DEF Consumer!PrefixAt
  <2>9. PICK b \in 1 .. n : at[b] = j
    BY <2>4, <2>6, <2>7 DEF Consumer!PrefixAt
  <2>10. a < b
    <3>1. ~(b < a) /\ a # b
      BY <2>1, <2>6, <2>8, <2>9 DEF Consumer!PrefixAt
    <3> QED
      BY <3>1
  <2>11. delivered[i].msg = log[p][a] /\ delivered[j].msg = log[p][b]
    <3>1. /\ (delivered \o chan)[at[a]] = [from |-> p, msg |-> log[p][a]]
          /\ (delivered \o chan)[at[b]] = [from |-> p, msg |-> log[p][b]]
      BY <2>6 DEF Consumer!PrefixAt
    <3> QED
      BY <2>7, <2>8, <2>9, <3>1
  <2>12. a \in 1 .. Len(log[p]) /\ b \in 1 .. Len(log[p])
    <3>1. Sent(p) \in Nat /\ Sent(p) <= next[p] /\ next[p] \in Nat /\ next[p] <= Len(log[p])
          /\ Len(log[p]) \in Nat
      BY <1>1, GivenFacts, LenProperties DEF ConsumerInv, HandsOK, ProducerInv, ProducerTypeOK
    <3> QED
      BY <3>1
  <2> QED
    BY <1>1, <2>10, <2>11, <2>12 DEF ProducerInv, LogOK
<1>2. ProducerInv /\ ConsumerInv /\ MergeOK => KeyOrder
  BY <1>1
<1> QED
  BY <1>2, ProducerAlways, ConsumerAlways, MergeAlways, PTL
=============================================================================
