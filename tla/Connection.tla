------------------------------ MODULE Connection ------------------------------
(***************************************************************************)
(* The life of a client's connection, client/mod.rs: Client::connect (the  *)
(* handshake PeerProperties, SaslHandshake, SaslAuthenticate, Tune, Open,  *)
(* ExchangeCommandVersions), the Tune frame handled by the dispatcher's    *)
(* task while connect waits for it, the heartbeat task and Client::close.  *)
(*                                                                         *)
(* A request and its response are one step here: what Dispatcher.tla shows *)
(* of send_and_receive (RpcService) is that the caller gets the response   *)
(* to its own request, or ConnectionClosed once the connection has ended,  *)
(* or, when nobody is left to tell it, neither: the link is then "deaf".   *)
(* The Tune frame is not a response, so its two steps in the dispatcher's  *)
(* task interleave with everything the caller does.                        *)
(***************************************************************************)
EXTENDS Integers, FiniteSets

CONSTANTS
    MaxConns,     \* bound: connections a process may hold at the same time
    Nodes,        \* the nodes of the cluster
    Heartbeat,    \* ClientOptions.heartbeat, in seconds; 0 leaves it to the broker
    MaxFrameSize, \* ClientOptions.max_frame_size; 0 leaves it to the broker
    Tunes,        \* the values a broker may propose, records [heartbeat, frame]
    MaxRetunes,   \* bound: Tune frames after the first one of a connection, over all of them
    MaxLost       \* bound: connections that are lost at the same time

ASSUME ConnectionAssumption ==
    /\ MaxConns \in Nat /\ MaxRetunes \in Nat /\ MaxLost \in Nat
    /\ Heartbeat \in Nat /\ MaxFrameSize \in Nat
    /\ Tunes \subseteq [heartbeat : Nat, frame : Nat]

VARIABLES
    conn,         \* what the process and the broker hold of each connection
    retunes       \* Tune frames sent to connections already tuned

Conns == 1..MaxConns

NoTune == [heartbeat |-> -1, frame |-> -1]
NoNode == "no node"

\* What connect is waiting for, then how the client stands.
Requests == {"peer", "mechanism", "authenticate", "open", "versions"}
Stages   == Requests \union {"free", "tune", "ready", "failed",
                             "closing", "shutting", "closed", "unclosed"}

\* The socket: up at both ends, ended by the peer, shut by us.  Deaf is a connection on
\* which a request waits for ever: the reading task has panicked in a decoder
\* (decoder.rs:148), so that nobody closes the map of the waiting requests, or the
\* request under way came into the map after it was cleared (dispatcher.rs:51).
Links == {"none", "up", "lost", "deaf", "shut"}

Limits == [heartbeat : Nat, frame : Nat]

Connection == [
    at        : Nodes \union {NoNode},
    stage     : Stages,
    link      : Links,
    tune      : Tunes \union {NoTune},          \* a Tune frame on its way to the dispatcher
    reply     : Limits \union {NoTune},         \* negotiated, the answer not yet sent
    permit    : BOOLEAN,                        \* tune_notifier holds a permit
    limits    : Limits,                         \* ClientState.heartbeat and max_frame_size
    told      : Limits \union {NoTune},         \* what the broker was last told
    task      : Nat,                            \* interval of the heartbeat task, 0 when there is none
    filtering : BOOLEAN                         \* filtering_supported
    ]

OptionLimits == [heartbeat |-> Heartbeat, frame |-> MaxFrameSize]

Unused == [
    at |-> NoNode, stage |-> "free", link |-> "none", tune |-> NoTune,
    reply |-> NoTune, permit |-> FALSE, limits |-> OptionLimits,
    told |-> NoTune, task |-> 0, filtering |-> FALSE]

\* A new connection takes the first number that no connection has, or has no more.
Fresh(c) ==
    /\ conn[c].stage \in {"free", "closed"}
    /\ \A d \in Conns : d < c => conn[d].stage \notin {"free", "closed"}

ConnInit ==
    /\ conn = [c \in Conns |-> Unused]
    /\ retunes = 0

-----------------------------------------------------------------------------
(* The values both sides settle on. *)

MinOf(a, b) == IF a < b THEN a ELSE b
MaxOf(a, b) == IF a < b THEN b ELSE a

\* negotiate_value: a side that says 0 leaves the choice to the other.
Negotiate(client, server) ==
    IF client = 0 \/ server = 0 THEN MaxOf(client, server) ELSE MinOf(client, server)

\* The interval of start_hearbeat_task: half the heartbeat, at least a second.
Interval(heartbeat) == IF heartbeat = 0 THEN 0 ELSE MaxOf(heartbeat \div 2, 1)

-----------------------------------------------------------------------------
(* Client::connect. *)

\* create_connection: the socket (and the TLS session) is made, or connect fails.
CreateConnection(c, n) ==
    /\ Fresh(c)
    /\ conn' = [conn EXCEPT ![c] = [Unused EXCEPT !.at = n, !.stage = "peer", !.link = "up"]]

CreateConnectionFails(c, n) ==
    /\ Fresh(c)
    /\ conn' = [conn EXCEPT ![c] = [Unused EXCEPT !.at = n, !.stage = "failed"]]

\* A request of the handshake is answered.
Answered(c, stage) == conn[c].stage = stage /\ conn[c].link = "up"

PeerProperties(c) ==
    /\ Answered(c, "peer")
    /\ conn' = [conn EXCEPT ![c].stage = "mechanism"]

SaslMechanism(c) ==
    /\ Answered(c, "mechanism")
    /\ conn' = [conn EXCEPT ![c].stage = "authenticate"]

\* handle_authentication: the broker accepts and sends Tune right after, or refuses.
HandleAuthentication(c) ==
    /\ Answered(c, "authenticate")
    /\ \/ \E t \in Tunes :
            conn' = [conn EXCEPT ![c].stage = "tune", ![c].tune = t]
       \/ conn' = [conn EXCEPT ![c].stage = "failed"]

\* wait_for_tune_data: nothing but the notification ends the wait.
WaitForTuneData(c) ==
    /\ conn[c].stage = "tune"
    /\ conn[c].permit
    /\ conn' = [conn EXCEPT ![c].stage = "open", ![c].permit = FALSE]

\* open, and the end of initialize: start_hearbeat_task with the state's value.
Open(c) ==
    /\ Answered(c, "open")
    /\ \/ conn' = [conn EXCEPT ![c].stage = "versions",
                               ![c].task = Interval(conn[c].limits.heartbeat)]
       \/ conn' = [conn EXCEPT ![c].stage = "failed"]

\* exchange_command_versions: does the broker know version 2 of Publish?
ExchangeCommandVersions(c) ==
    /\ Answered(c, "versions")
    /\ \E supported \in BOOLEAN :
         conn' = [conn EXCEPT ![c].stage = "ready", ![c].filtering = supported]

\* Mutant: the last request waits for an answer that cannot come.
RequestFailsUntilOpen(c) ==
    /\ conn[c].stage \in Requests \ {"versions"}
    /\ conn[c].link = "lost"
    /\ conn' = [conn EXCEPT ![c].stage = "failed"]

\* A request on a connection that has ended returns ConnectionClosed; not on a deaf one.
RequestFails(c) ==
    /\ conn[c].stage \in Requests
    /\ conn[c].link = "lost"
    /\ conn' = [conn EXCEPT ![c].stage = "failed"]

-----------------------------------------------------------------------------
(* handle_tune_command, in the dispatcher's task. *)

\* Mutant: the running heartbeat task keeps its interval.
HandleTuneKeepTask(c) ==
    /\ conn[c].tune # NoTune
    /\ conn[c].link = "up"
    /\ LET agreed == [heartbeat |-> Negotiate(Heartbeat, conn[c].tune.heartbeat),
                      frame     |-> Negotiate(MaxFrameSize, conn[c].tune.frame)]
       IN conn' = [conn EXCEPT ![c].limits = agreed, ![c].reply = agreed,
                               ![c].tune = NoTune]

\* Under the state's lock: negotiate with the options, restart a running task.
HandleTune(c) ==
    /\ conn[c].tune # NoTune
    /\ conn[c].link = "up"
    /\ LET agreed == [heartbeat |-> Negotiate(Heartbeat, conn[c].tune.heartbeat),
                      frame     |-> Negotiate(MaxFrameSize, conn[c].tune.frame)]
       IN conn' = [conn EXCEPT ![c].limits = agreed, ![c].reply = agreed,
                               ![c].tune = NoTune,
                               ![c].task = IF conn[c].task = 0 THEN 0
                                           ELSE Interval(agreed.heartbeat)]

\* Mutant: connect is woken, the broker is not answered.
ReplyTuneSilent(c) ==
    /\ conn[c].reply # NoTune
    /\ conn' = [conn EXCEPT ![c].permit = TRUE, ![c].reply = NoTune]

\* Without the lock: send the answer, whose failure is ignored, then notify_one.
ReplyTune(c) ==
    /\ conn[c].reply # NoTune
    /\ conn' = [conn EXCEPT
         ![c].told = IF conn[c].link = "up" THEN conn[c].reply ELSE conn[c].told,
         ![c].permit = TRUE,
         ![c].reply = NoTune]

\* External: a broker that tunes an open connection again.
BrokerTunes(c) ==
    /\ conn[c].link = "up"
    /\ conn[c].stage \in {"open", "versions", "ready", "closing"}
    /\ retunes < MaxRetunes
    /\ retunes' = retunes + 1
    /\ conn[c].tune = NoTune /\ conn[c].reply = NoTune
    /\ \E t \in Tunes : conn' = [conn EXCEPT ![c].tune = t]

\* External: the connection ends at the peer or on the way, or the reading task panics.
\* What is asked of it from now on, or is being asked, fails or finds nobody to answer.
Lose(c) ==
    /\ conn[c].link = "up"
    /\ Cardinality({d \in Conns : conn[d].link \in {"lost", "deaf"}}) < MaxLost
    /\ \E link \in {"lost", "deaf"} :
         conn' = [conn EXCEPT ![c].link = link, ![c].tune = NoTune]

-----------------------------------------------------------------------------
(* Client::close: the request, then the heartbeat task, then the socket. *)

BeginClose(c) == conn' = [conn EXCEPT ![c].stage = "closing"]

CloseAnswered(c) ==
    /\ Answered(c, "closing")
    /\ conn' = [conn EXCEPT ![c].stage = "shutting", ![c].task = 0]

\* The request fails: close returns, the task and the socket are left as they are.
CloseFails(c) ==
    /\ conn[c].stage = "closing"
    /\ conn[c].link = "lost"
    /\ conn' = [conn EXCEPT ![c].stage = "unclosed"]

\* ChannelSender::close: shutting down a socket the peer has ended may fail.
\* Of a closed connection only a heartbeat task could still do anything.
CloseChannel(c) ==
    /\ conn[c].stage = "shutting"
    /\ \/ conn' = [conn EXCEPT ![c] = [Unused EXCEPT !.stage = "closed", !.link = "shut",
                                                     !.task = conn[c].task]]
       \/ /\ conn[c].link # "up"
          /\ conn' = [conn EXCEPT ![c].stage = "unclosed"]

-----------------------------------------------------------------------------
\* The caller's task inside connect or close, and the dispatcher's task.
ClientStep(c) ==
    \/ PeerProperties(c) \/ SaslMechanism(c) \/ HandleAuthentication(c)
    \/ WaitForTuneData(c) \/ Open(c) \/ ExchangeCommandVersions(c) \/ RequestFails(c)
    \/ CloseAnswered(c) \/ CloseFails(c) \/ CloseChannel(c)

DispatcherStep(c) == HandleTune(c) \/ ReplyTune(c)

ConnectionStep(c) ==
    \/ BrokerTunes(c)
    \/ (ClientStep(c) \/ DispatcherStep(c) \/ Lose(c)) /\ UNCHANGED retunes

-----------------------------------------------------------------------------
ConnTypeOK ==
    /\ conn \in [Conns -> Connection]
    /\ retunes \in 0..MaxRetunes

\* A side's limit is respected: 0 leaves the choice to the other side.
Within(value, limit) == limit = 0 \/ value <= limit

\* BothSidesAgree: once connect has returned and no Tune is being handled, the
\* heartbeat and frame size the broker was told are the client's own, never the
\* values of an earlier Tune, and never above what the options allow
\* (handle_tune_command answers after it has given the lock back).
BothSidesAgree ==
    \A c \in Conns :
       /\ conn[c].stage = "ready" /\ conn[c].link = "up" /\ conn[c].reply = NoTune
       => /\ conn[c].told = conn[c].limits
          /\ Within(conn[c].limits.heartbeat, Heartbeat)
          /\ Within(conn[c].limits.frame, MaxFrameSize)

\* BeatsAsAgreed: the heartbeat task beats at half the heartbeat the client now
\* goes by, whichever of connect (start_hearbeat_task) and a Tune
\* (handle_tune_command) came last; a client that asked for a heartbeat has one.
BeatsAsAgreed ==
    \A c \in Conns :
       /\ conn[c].task # 0 => conn[c].task = Interval(conn[c].limits.heartbeat)
       /\ conn[c].stage \in {"versions", "ready"} /\ Heartbeat # 0 => conn[c].task # 0

\* The waits that nothing ends: the connection was lost before the Tune frame,
LostBeforeTune(c) ==
    /\ conn[c].stage = "tune"
    /\ conn[c].link \in {"lost", "deaf"}
    /\ ~conn[c].permit /\ conn[c].reply = NoTune

\* and a request of connect or close that nobody will answer or fail.
AskedDeaf(c) ==
    /\ conn[c].stage \in Requests \union {"closing"}
    /\ conn[c].link = "deaf"
=============================================================================
