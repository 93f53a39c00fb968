----------------------------- MODULE Environment -----------------------------
(***************************************************************************)
(* A call of the application on an Environment (environment.rs,            *)
(* stream_creator.rs, the builders of producer.rs and consumer.rs): which  *)
(* connections it makes, in which order it gives them up, and what it      *)
(* returns. An Environment keeps nothing but its options, so one call is   *)
(* followed from its start to its return while the broker accepts, refuses *)
(* or ends connections, and while the stream's leader moves.               *)
(***************************************************************************)
EXTENDS Connection

CONSTANTS
    Host,       \* the node ClientOptions.host names
    MaxMoves    \* bound: leader elections during the call

ASSUME EnvironmentAssumption == Host \in Nodes /\ MaxMoves \in Nat

VARIABLES
    stream,     \* the broker's view of the stream or super stream of the call
    call        \* the call's own state

vars == <<conn, retunes, stream, call>>

NoConn == 0

\* create and delete stand for a stream; the super stream's calls send another request.
StreamCalls == {"create", "create_super", "delete", "delete_super"}
Calls       == {"build", "producer", "consumer"} \union StreamCalls

Points == {"start", "connect", "request", "close", "metadata", "try", "trying",
           "swap", "drop", "release", "reconnect", "handler", "declare",
           "sequence", "returned"}

\* ClientError stands for every failure of a connection or a request.
Results == {"none", "Ok", "ClientError", "StreamDoesNotExist", "FilteringNotSupport",
            "SingleActiveConsumerNotSupported", "Refused"}

Call == [
    kind    : Calls,
    options : [balanced : BOOLEAN, filter : BOOLEAN, named : BOOLEAN, single : BOOLEAN],
    at      : Points,
    client  : Conns \union {NoConn},
    temp    : Conns \union {NoConn},       \* temp_client of the load balancer loop
    target  : Nodes \union {NoNode},       \* the leader, or the replica picked
    status  : {"none", "ok", "refused"},   \* the response's code
    result  : Results]

Stream == [exists : BOOLEAN, leader : Nodes, replicas : SUBSET Nodes, moves : 0..MaxMoves]

TypeOK ==
    /\ ConnTypeOK
    /\ stream \in Stream
    /\ call \in Call

\* ClientOptions and the builders' options that a call looks at: the load balancer
\* mode, a filter, a producer's name, a single active consumer without a name.
Options(kind) == [
    balanced : IF kind \in {"producer", "consumer"} THEN BOOLEAN ELSE {FALSE},
    filter   : IF kind \in {"producer", "consumer"} THEN BOOLEAN ELSE {FALSE},
    named    : IF kind = "producer" THEN BOOLEAN ELSE {FALSE},
    single   : IF kind = "consumer" THEN BOOLEAN ELSE {FALSE}]

Init ==
    /\ ConnInit
    /\ \E exists \in BOOLEAN, leader \in Nodes :
       \E replicas \in SUBSET (Nodes \ {leader}) :
         stream = [exists |-> exists, leader |-> leader, replicas |-> replicas, moves |-> 0]
    /\ \E kind \in Calls : \E options \in Options(kind) :
         call = [kind |-> kind, options |-> options, at |-> "start", client |-> NoConn,
                 temp |-> NoConn, target |-> NoNode, status |-> "none", result |-> "none"]

Return(result) == call' = [call EXCEPT !.at = "returned", !.result = result]

-----------------------------------------------------------------------------
(* The first connection, and the calls that need no other. *)

\* A load balancer hands the connection to any node.
Reached == IF call.options.balanced THEN Nodes ELSE {Host}

\* Client::connect is entered: a socket is made or the call fails at once.
Connect(c, n) == CreateConnection(c, n) \/ CreateConnectionFails(c, n)

\* ConsumerBuilder::build refuses a single active consumer without a name first.
RefuseUnnamed ==
    /\ call.at = "start"
    /\ call.options.single
    /\ Return("SingleActiveConsumerNotSupported")
    /\ UNCHANGED <<conn, stream>>

\* create_client and create_client_with_options.
CreateClient ==
    /\ call.at = "start"
    /\ ~call.options.single
    /\ \E c \in Conns, n \in Reached :
         /\ Connect(c, n)
         /\ call' = [call EXCEPT !.at = "connect", !.client = c]
    /\ UNCHANGED stream

\* connect has returned a client: what the call does with it first.
AfterConnect == CASE call.kind = "build" -> "close"
                  [] call.kind \in StreamCalls -> "request"
                  [] OTHER -> "metadata"

\* The await of connect returns; an error leaves the call with it.
Connected ==
    /\ call.at = "connect"
    /\ conn[call.client].stage \in {"ready", "failed"}
    /\ IF conn[call.client].stage = "failed"
       THEN Return("ClientError") /\ UNCHANGED conn
       ELSE /\ call' = [call EXCEPT !.at = AfterConnect]
            /\ IF AfterConnect = "close" THEN BeginClose(call.client) ELSE UNCHANGED conn
    /\ UNCHANGED stream

\* The points where the call waits for the response to a request of its own.
Asking == {"request", "metadata", "declare", "sequence"}

\* A request of the call finds the connection ended.
RequestLost ==
    /\ call.at \in Asking
    /\ conn[call.client].link = "lost"
    /\ Return("ClientError")
    /\ UNCHANGED <<conn, stream>>

\* The code of the response: the broker refuses what makes no sense, and may refuse more.
Status(sensible) == IF sensible THEN {"ok", "refused"} ELSE {"refused"}

\* create, create_super_stream, delete_stream, delete_super_stream: the answer
\* is kept and the connection closed before it is looked at.
StreamRequest ==
    /\ call.at = "request"
    /\ conn[call.client].link = "up"
    /\ \E status \in Status(stream.exists = (call.kind \in {"delete", "delete_super"})) :
         /\ call' = [call EXCEPT !.at = "close", !.status = status]
         /\ stream' = IF status = "ok" THEN [stream EXCEPT !.exists = ~@] ELSE stream
    /\ BeginClose(call.client)

\* client.close().await?, then the status decides.
CloseReturns ==
    /\ call.at = "close"
    /\ conn[call.client].stage \in {"closed", "unclosed"}
    /\ IF conn[call.client].stage = "unclosed" THEN Return("ClientError")
       ELSE IF call.status = "refused" THEN Return("Refused")
       ELSE Return("Ok")
    /\ UNCHANGED <<conn, stream>>

-----------------------------------------------------------------------------
(* create_producer_client and create_consumer_client: find the node. *)

\* from_response keeps a stream whose leader is among the brokers of the answer,
\* and of its replicas those that are. A producer needs the leader, a consumer a
\* replica picked at random.
Candidates(known) ==
    IF call.kind = "producer" THEN {stream.leader} ELSE stream.replicas \intersect known

\* Where the search goes once there is a target.
Search == IF call.options.balanced THEN "try" ELSE "release"

\* The answer to metadata: `known` are the brokers it lists.
Metadata ==
    /\ call.at = "metadata"
    /\ conn[call.client].link = "up"
    /\ \E known \in SUBSET Nodes :
         IF ~stream.exists \/ stream.leader \notin known
         THEN Return("StreamDoesNotExist") /\ UNCHANGED conn
         ELSE IF Candidates(known) = {}
         THEN call' = [call EXCEPT !.at = "handler"] /\ UNCHANGED conn
         ELSE \E target \in Candidates(known) :
                /\ call' = [call EXCEPT !.at = Search, !.target = target]
                /\ IF Search = "release" THEN BeginClose(call.client) ELSE UNCHANGED conn
    /\ UNCHANGED stream

\* Without a load balancer: close the first client, then connect to the target.
Release ==
    /\ call.at = "release"
    /\ CASE conn[call.client].stage = "unclosed" -> Return("ClientError") /\ UNCHANGED conn
         [] conn[call.client].stage = "closed" ->
              \E c \in Conns :
                 /\ Connect(c, call.target)
                 /\ call' = [call EXCEPT !.at = "reconnect", !.client = c]
         [] OTHER -> FALSE
    /\ UNCHANGED stream

Reconnected ==
    /\ call.at = "reconnect"
    /\ conn[call.client].stage \in {"ready", "failed"}
    /\ IF conn[call.client].stage = "failed" THEN Return("ClientError")
       ELSE call' = [call EXCEPT !.at = "handler"]
    /\ UNCHANGED <<conn, stream>>

\* Behind a load balancer: connect again and again until it is the target.
Try ==
    /\ call.at = "try"
    /\ \E c \in Conns, n \in Nodes :
         /\ Connect(c, n)
         /\ call' = [call EXCEPT !.at = "trying", !.temp = c]
    /\ UNCHANGED stream

\* Mutant: whatever node the balancer chose is taken.
TriedAny ==
    /\ call.at = "trying"
    /\ conn[call.temp].stage \in {"ready", "failed"}
    /\ IF conn[call.temp].stage = "failed" THEN Return("ClientError") /\ UNCHANGED conn
       ELSE BeginClose(call.client) /\ call' = [call EXCEPT !.at = "swap"]
    /\ UNCHANGED stream

\* Mutant: a client at another node is dropped without being closed.
TriedUnclosed ==
    /\ call.at = "trying"
    /\ conn[call.temp].stage \in {"ready", "failed"}
    /\ IF conn[call.temp].stage = "failed" THEN Return("ClientError") /\ UNCHANGED conn
       ELSE IF conn[call.temp].at = call.target
            THEN BeginClose(call.client) /\ call' = [call EXCEPT !.at = "swap"]
            ELSE UNCHANGED conn /\ call' = [call EXCEPT !.at = "try", !.temp = NoConn]
    /\ UNCHANGED stream

\* The advertised_host of the new connection decides which of the two is closed;
\* a broker may not advertise one.
Tried ==
    /\ call.at = "trying"
    /\ conn[call.temp].stage \in {"ready", "failed"}
    /\ IF conn[call.temp].stage = "failed" THEN Return("ClientError") /\ UNCHANGED conn
       ELSE \E advertised \in BOOLEAN :
              IF advertised /\ conn[call.temp].at = call.target
              THEN BeginClose(call.client) /\ call' = [call EXCEPT !.at = "swap"]
              ELSE BeginClose(call.temp) /\ call' = [call EXCEPT !.at = "drop"]
    /\ UNCHANGED stream

\* client.close().await? and client = temp_client.
Swap ==
    /\ call.at = "swap"
    /\ conn[call.client].stage \in {"closed", "unclosed"}
    /\ IF conn[call.client].stage = "unclosed" THEN Return("ClientError")
       ELSE call' = [call EXCEPT !.at = "handler", !.client = call.temp, !.temp = NoConn]
    /\ UNCHANGED <<conn, stream>>

\* temp_client.close().await? and round again.
DropTemp ==
    /\ call.at = "drop"
    /\ conn[call.temp].stage \in {"closed", "unclosed"}
    /\ IF conn[call.temp].stage = "unclosed" THEN Return("ClientError")
       ELSE call' = [call EXCEPT !.at = "try", !.temp = NoConn]
    /\ UNCHANGED <<conn, stream>>

-----------------------------------------------------------------------------
(* The rest of ProducerBuilder::build and ConsumerBuilder::build. *)

\* Filtering needs a broker that knows it; then the handler is set.
SetHandler ==
    /\ call.at = "handler"
    /\ IF call.options.filter /\ ~conn[call.client].filtering
       THEN Return("FilteringNotSupport")
       ELSE call' = [call EXCEPT !.at = "declare"]
    /\ UNCHANGED <<conn, stream>>

\* declare_publisher, whose answer a named producer looks at only after the query
\* of its sequence, or subscribe.
Declare ==
    /\ call.at = "declare"
    /\ conn[call.client].link = "up"
    /\ \E status \in Status(stream.exists) :
         IF call.kind = "producer" /\ call.options.named
         THEN call' = [call EXCEPT !.at = "sequence", !.status = status]
         ELSE Return(IF status = "ok" THEN "Ok" ELSE "Refused")
    /\ UNCHANGED <<conn, stream>>

QueryPublisherSequence ==
    /\ call.at = "sequence"
    /\ conn[call.client].link = "up"
    /\ Return(IF call.status = "ok" THEN "Ok" ELSE "Refused")
    /\ UNCHANGED <<conn, stream>>

-----------------------------------------------------------------------------
\* External: another leader is elected; the old one is a replica from now on.
MoveLeader ==
    /\ stream.moves < MaxMoves
    /\ \E n \in stream.replicas :
         stream' = [stream EXCEPT !.leader = n, !.moves = @ + 1,
                                  !.replicas = (@ \ {n}) \union {stream.leader}]
    /\ UNCHANGED <<conn, retunes, call>>

CallStep ==
    \/ RefuseUnnamed \/ CreateClient \/ Connected \/ RequestLost
    \/ StreamRequest \/ CloseReturns
    \/ Metadata \/ Release \/ Reconnected \/ Try \/ Tried \/ Swap \/ DropTemp
    \/ SetHandler \/ Declare \/ QueryPublisherSequence

Next ==
    \/ CallStep /\ UNCHANGED retunes
    \/ \E c \in Conns : ConnectionStep(c) /\ UNCHANGED <<stream, call>>
    \/ MoveLeader

Spec == Init /\ [][Next]_vars

\* The runtime polls the call's future and the dispatcher's task; a broker that is
\* there answers. Nothing is asked of the load balancer or of the elections.
Fairness ==
    /\ WF_vars(CallStep /\ UNCHANGED retunes)
    /\ \A c \in Conns :
         /\ WF_vars(ClientStep(c) /\ UNCHANGED <<retunes, stream, call>>)
         /\ WF_vars(DispatcherStep(c) /\ UNCHANGED <<retunes, stream, call>>)

FairSpec == Spec /\ Fairness

-----------------------------------------------------------------------------
Returned(results) == call.at = "returned" /\ call.result \in results

\* What a connection costs until it is given up: its socket and its heartbeat task.
Held(c) == conn[c].link \in {"up", "deaf"} \/ conn[c].task # 0

\* AtTheRightNode: the client a producer or a consumer is built on is connected to
\* the node the search was for, the leader or the replica that the metadata
\* named, however often the load balancer sent it elsewhere
\* (create_producer_client, create_consumer_client).
AtTheRightNode ==
    Returned({"Ok"}) /\ call.target # NoNode => conn[call.client].at = call.target

\* NothingLeftBehind: a call that returns Ok, or the broker's refusal to create or
\* delete a stream, has given up every connection it made but the one of the
\* producer or consumer it returns: the sockets are closed and no heartbeat
\* task runs on. Until then, however long the search behind a load balancer, it
\* holds at most the first client and one more. (A call that fails in another
\* way may leave connections, see README.)
NothingLeftBehind ==
    /\ Cardinality({c \in Conns : Held(c)}) <= 2
    /\ \/ Returned({"Ok"})
       \/ Returned({"Refused"}) /\ call.kind \in StreamCalls
       => \A c \in Conns :
            Held(c) => c = call.client /\ call.kind \in {"producer", "consumer"}

\* The calls that never return although every task runs: connect waits for a Tune
\* that the ended connection will not bring, or a request of connect, of close or of the
\* call waits on a connection whose reading task is gone without closing the map of the
\* requests, or after it has cleared the map.
Abandoned ==
    \/ \E c \in {call.client, call.temp} \ {NoConn} : LostBeforeTune(c) \/ AskedDeaf(c)
    \/ call.at \in Asking /\ conn[call.client].link = "deaf"

\* CallReturns: every call returns, unless
\*   - the connection is lost between the answer to SaslAuthenticate and the Tune frame
\*     (wait_for_tune_data), or
\*   - a request is made on a connection whose reading task panicked in a decoder
\*     (decoder.rs:148), or came into the map of the requests behind the clear
\*     (dispatcher.rs:51, where EveryCallReturns of Dispatcher fails), or
\*   - the load balancer keeps sending the search elsewhere (the loops of
\*     create_producer_client and create_consumer_client).
\* A connection that is lost in any other way, at any point of the handshake, of the
\* search or of a close, makes the call return.
CallReturns ==
    \/ <>(call.at = "returned")
    \/ <>[]Abandoned
    \/ []<>(call.at = "try")
=============================================================================
