-------------------------- MODULE EnvironmentProofs --------------------------
(***************************************************************************)
(* What Environment and Connection promise, for every cluster, every       *)
(* number of connections, every option and every Tune a broker may         *)
(* propose.                                                                *)
(*                                                                         *)
(* Two invariants carry everything. Of each connection alone (ConnFine):   *)
(* what a Tune left in the client's state, in the answer still to be sent  *)
(* and in the heartbeat task belong together, and a connection that was    *)
(* given up is inert. Of the call (CallFine): at each of its points, how   *)
(* far the two connections it may hold have got and where they lead.       *)
(***************************************************************************)
EXTENDS Environment, FiniteSetTheorems, TLAPS

\* How far a connection may be while connect runs, and while close does.
Connecting == Requests \union {"tune", "ready", "failed"}
GivenUp    == {"closing", "shutting", "closed", "unclosed"}

\* connect is past wait_for_tune_data.
Tuned == {"open", "versions", "ready"}

\* A connection's own invariant: the answer to a Tune is what the state holds, and
\* the broker was told it once a Tune was handled; the heartbeat task follows the
\* state; an unused or closed connection does nothing.
ConnFine(r) ==
    /\ r.reply # NoTune => r.reply = r.limits
    /\ r.permit \/ r.stage \in Tuned \/ r.reply # NoTune =>
         /\ Within(r.limits.heartbeat, Heartbeat)
         /\ Within(r.limits.frame, MaxFrameSize)
    /\ r.permit \/ r.stage \in Tuned =>
         (r.link = "up" /\ r.reply = NoTune => r.told = r.limits)
    /\ Heartbeat # 0 => r.limits.heartbeat # 0
    /\ r.task # 0 => r.task = Interval(r.limits.heartbeat)
    /\ r.stage \in {"versions", "ready"} /\ Heartbeat # 0 => r.task # 0
    /\ r.stage = "shutting" => r.task = 0
    /\ r.stage \in {"free", "closed"} =>
         /\ r.task = 0 /\ r.link \notin {"up", "deaf"}
         /\ r.tune = NoTune /\ r.reply = NoTune /\ ~r.permit

ConnsFine == \A c \in Conns : ConnFine(conn[c])

\* The calls that end with a client of their own.
Builders == {"producer", "consumer"}

\* Connection c is where the search went, when there was one.
Arrived(c) == call.target # NoNode => conn[c].at = call.target

\* Points at which the call holds one client that connect returned.
HoldsOne == {"request", "metadata", "try", "handler", "declare", "sequence"}

\* Points that only a search, or what follows it, reaches.
BuilderPoints == {"metadata", "try", "trying", "swap", "drop", "release", "reconnect",
                  "handler", "declare", "sequence"}

\* Points at which the call looks for the node it was told of.
Searching == {"try", "trying", "swap", "drop", "release", "reconnect"}

\* The client of the call at each of its points.
ClientFine ==
    /\ call.at = "start" => call.client = NoConn
    /\ call.at \notin {"start", "returned"} => call.client \in Conns
    /\ call.at \in {"connect", "reconnect"} => conn[call.client].stage \in Connecting
    /\ call.at \in HoldsOne \union {"trying", "drop"} => conn[call.client].stage = "ready"
    /\ call.at \in {"close", "swap", "release"} => conn[call.client].stage \in GivenUp
    /\ call.at \in {"reconnect", "handler", "declare", "sequence"} => Arrived(call.client)

\* The second connection of the search behind a load balancer.
TempFine ==
    /\ call.at \notin {"trying", "swap", "drop", "returned"} => call.temp = NoConn
    /\ call.at \in {"trying", "swap", "drop"} =>
         call.temp \in Conns /\ call.temp # call.client
    /\ call.at = "trying" => conn[call.temp].stage \in Connecting
    /\ call.at = "swap" => conn[call.temp].stage = "ready" /\ Arrived(call.temp)
    /\ call.at = "drop" => conn[call.temp].stage \in GivenUp

\* The call's kind and target at each of its points.
KindFine ==
    /\ call.at = "request" => call.kind \in StreamCalls
    /\ call.at = "close" => call.kind \notin Builders
    /\ call.at \in BuilderPoints => call.kind \in Builders
    /\ call.at \in {"start", "connect", "request", "close", "metadata"} =>
         call.target = NoNode
    /\ call.at \in Searching => call.target \in Nodes

\* What a call that returned a client, or was refused a stream, leaves.
ReturnFine ==
    /\ call.at # "returned" => call.result = "none"
    /\ call.at = "returned" /\ call.result = "Ok" /\ call.kind \in Builders =>
         /\ call.client \in Conns /\ call.temp = NoConn
         /\ conn[call.client].stage = "ready" /\ Arrived(call.client)
    /\ \/ call.at = "returned" /\ call.result = "Ok" /\ call.kind \notin Builders
       \/ call.at = "returned" /\ call.result = "Refused" /\ call.kind \in StreamCalls
       => /\ call.client \in Conns /\ call.temp = NoConn
          /\ conn[call.client].stage = "closed" /\ call.target = NoNode

\* Every connection but the two the call knows of is unused or closed.
OthersIdle ==
    \A c \in Conns \ {call.client, call.temp} : conn[c].stage \in {"free", "closed"}

CallFine == ClientFine /\ TempFine /\ KindFine /\ ReturnFine /\ OthersIdle

Inv == TypeOK /\ ConnsFine /\ CallFine
-----------------------------------------------------------------------------
(* The values both sides settle on.                                        *)

\* negotiate_value stays within the client's limit, and leaves a client that asked
\* for a heartbeat with one.
LEMMA NegotiateWithin ==
  ASSUME NEW a \in Nat, NEW b \in Nat
  PROVE  /\ Negotiate(a, b) \in Nat
         /\ Within(Negotiate(a, b), a)
         /\ a # 0 => Negotiate(a, b) # 0
BY DEF Negotiate, Within, MinOf, MaxOf

\* start_hearbeat_task: there is an interval exactly when there is a heartbeat.
LEMMA IntervalPositive ==
  ASSUME NEW h \in Nat
  PROVE  Interval(h) \in Nat /\ (h # 0 => Interval(h) # 0)
BY DEF Interval, MaxOf

\* The values of a Tune frame, and what a client makes of them.
LEMMA Agreed ==
  ASSUME NEW t \in Tunes
  PROVE  LET agreed == [heartbeat |-> Negotiate(Heartbeat, t.heartbeat),
                        frame     |-> Negotiate(MaxFrameSize, t.frame)]
         IN /\ agreed \in Limits
            /\ Within(agreed.heartbeat, Heartbeat) /\ Within(agreed.frame, MaxFrameSize)
            /\ Heartbeat # 0 => agreed.heartbeat # 0
<1>1. t.heartbeat \in Nat /\ t.frame \in Nat /\ Heartbeat \in Nat /\ MaxFrameSize \in Nat
  BY ConnectionAssumption
<1> QED
  BY <1>1, NegotiateWithin DEF Limits

-----------------------------------------------------------------------------
(* Steps of one connection.                                                *)

\* What a step on connection c leaves: its record is well formed and fine, and
\* no other connection is touched.
StepFine(c) ==
    /\ conn' \in [Conns -> Connection]
    /\ ConnFine(conn'[c])
    /\ \A d \in Conns \ {c} : conn'[d] = conn[d]

\* How a connection moves on by itself: what connect returned stays, what was given
\* up is not taken back, and a connection leads where it led until it is closed.
Progress(r, s) ==
    /\ r.stage \in Connecting => s.stage \in Connecting /\ s.at = r.at
    /\ r.stage = "ready" => s.stage = "ready"
    /\ r.stage \in GivenUp => s.stage \in GivenUp
    /\ r.stage \in {"free", "closed"} => s.stage = r.stage

\* An unused connection is fine, whatever node it is for.
LEMMA UnusedFine ==
  ASSUME NEW n \in Nodes
  PROVE  /\ Unused \in Connection /\ ConnFine(Unused)
         /\ LET up == [Unused EXCEPT !.at = n, !.stage = "peer", !.link = "up"]
            IN  up \in Connection /\ ConnFine(up)
         /\ LET failed == [Unused EXCEPT !.at = n, !.stage = "failed"]
            IN  failed \in Connection /\ ConnFine(failed)
         /\ LET shut == [Unused EXCEPT !.stage = "closed", !.link = "shut", !.task = 0]
            IN  shut \in Connection /\ ConnFine(shut)
<1>1. OptionLimits \in Limits /\ OptionLimits.heartbeat = Heartbeat
  BY ConnectionAssumption DEF OptionLimits, Limits
<1>2. Unused \in Connection
  BY <1>1 DEF Unused, Connection, Stages, Requests, Links
<1> QED
  BY <1>1, <1>2, ZenonT(40) DEF Unused, Connection, Stages, Requests, Links, ConnFine, Tuned
\* The fields of a connection.
LEMMA ConnFields ==
  ASSUME ConnTypeOK, NEW c \in Conns
  PROVE  /\ conn[c] \in Connection
         /\ conn[c].stage \in Stages
         /\ conn[c].tune \in Tunes \union {NoTune}
         /\ conn[c].reply \in Limits \union {NoTune}
         /\ conn[c].limits \in Limits /\ conn[c].limits.heartbeat \in Nat
         /\ conn[c].told \in Limits \union {NoTune}
         /\ conn[c].task \in Nat
BY DEF ConnTypeOK, Connection, Limits

\* connect's requests before the Tune frame.
LEMMA BeforeTune ==
  ASSUME ConnTypeOK, ConnsFine, NEW c \in Conns,
         PeerProperties(c) \/ SaslMechanism(c) \/ HandleAuthentication(c)
  PROVE  StepFine(c) /\ Progress(conn[c], conn'[c])
<1>1. conn[c] \in Connection /\ ConnFine(conn[c])
  BY ConnFields DEF ConnsFine
<1>2. CASE PeerProperties(c)
  <2>1. conn' = [conn EXCEPT ![c] = [conn[c] EXCEPT !.stage = "mechanism"]]
    BY <1>2 DEF PeerProperties
  <2> QED
    BY <1>1, <1>2, <2>1 DEF PeerProperties, Answered, ConnTypeOK, StepFine, Progress, ConnFine,
       Connection, Stages, Requests, Tuned, Connecting, GivenUp
<1>3. CASE SaslMechanism(c)
  <2>1. conn' = [conn EXCEPT ![c] = [conn[c] EXCEPT !.stage = "authenticate"]]
    BY <1>3 DEF SaslMechanism
  <2> QED
    BY <1>1, <1>3, <2>1 DEF SaslMechanism, Answered, ConnTypeOK, StepFine, Progress, ConnFine,
       Connection, Stages, Requests, Tuned, Connecting, GivenUp
<1>4. CASE HandleAuthentication(c)
  <2>1. CASE conn' = [conn EXCEPT ![c].stage = "failed"]
    <3>1. conn' = [conn EXCEPT ![c] = [conn[c] EXCEPT !.stage = "failed"]]
      BY <2>1
    <3> QED
      BY <1>1, <1>4, <3>1 DEF HandleAuthentication, Answered, ConnTypeOK, StepFine, Progress,
         ConnFine, Connection, Stages, Requests, Tuned, Connecting, GivenUp
  <2>2. ASSUME NEW t \in Tunes, conn' = [conn EXCEPT ![c].stage = "tune", ![c].tune = t]
        PROVE  StepFine(c) /\ Progress(conn[c], conn'[c])
    <3>1. conn' = [conn EXCEPT ![c] = [conn[c] EXCEPT !.stage = "tune", !.tune = t]]
      BY <1>1, <2>2 DEF ConnTypeOK
    <3> QED
      BY <1>1, <1>4, <3>1, ZenonT(40) DEF HandleAuthentication, Answered, ConnTypeOK, StepFine, Progress,
         ConnFine, Connection, Stages, Requests, Tuned, Connecting, GivenUp
  <2> QED
    BY <1>4, <2>1, <2>2 DEF HandleAuthentication
<1> QED
  BY <1>2, <1>3, <1>4

\* connect's requests after it, and a request that finds the connection ended.
LEMMA AfterTune ==
  ASSUME ConnTypeOK, ConnsFine, NEW c \in Conns,
         WaitForTuneData(c) \/ Open(c) \/ ExchangeCommandVersions(c) \/ RequestFails(c)
  PROVE  StepFine(c) /\ Progress(conn[c], conn'[c])
<1>1. conn[c] \in Connection /\ ConnFine(conn[c]) /\ conn[c].limits.heartbeat \in Nat
  BY ConnFields DEF ConnsFine
<1>2. CASE WaitForTuneData(c)
  <2>1. conn' = [conn EXCEPT ![c] = [conn[c] EXCEPT !.stage = "open", !.permit = FALSE]]
    BY <1>1, <1>2 DEF WaitForTuneData, ConnTypeOK
  <2> QED
    BY <1>1, <1>2, <2>1 DEF WaitForTuneData, ConnTypeOK, StepFine, Progress, ConnFine,
       Connection, Stages, Requests, Tuned, Connecting, GivenUp
<1>3. CASE Open(c)
  <2> DEFINE beat == Interval(conn[c].limits.heartbeat)
  <2>1. beat \in Nat /\ (Heartbeat # 0 => beat # 0)
    BY <1>1, IntervalPositive DEF ConnFine
  <2>2. CASE conn' = [conn EXCEPT ![c].stage = "versions", ![c].task = beat]
    <3>1. conn' = [conn EXCEPT ![c] = [conn[c] EXCEPT !.stage = "versions", !.task = beat]]
      BY <1>1, <2>2 DEF ConnTypeOK
    <3> HIDE DEF beat
    <3>2. conn'[c].task = beat /\ conn'[c].limits = conn[c].limits
      BY <1>1, <3>1 DEF ConnTypeOK, Connection
    <3>3. beat = Interval(conn'[c].limits.heartbeat)
      BY <3>2 DEF beat
    <3> QED
      BY <1>1, <1>3, <2>1, <3>1, <3>3 DEF Open, Answered, ConnTypeOK, StepFine, Progress,
         ConnFine, Connection, Stages, Requests, Tuned, Connecting, GivenUp
  <2>3. CASE conn' = [conn EXCEPT ![c].stage = "failed"]
    <3>1. conn' = [conn EXCEPT ![c] = [conn[c] EXCEPT !.stage = "failed"]]
      BY <2>3
    <3> QED
      BY <1>1, <1>3, <3>1 DEF Open, Answered, ConnTypeOK, StepFine, Progress, ConnFine,
         Connection, Stages, Requests, Tuned, Connecting, GivenUp
  <2> QED
    BY <1>3, <2>2, <2>3 DEF Open
<1>4. CASE ExchangeCommandVersions(c)
  <2>1. PICK supported \in BOOLEAN :
          conn' = [conn EXCEPT ![c].stage = "ready", ![c].filtering = supported]
    BY <1>4 DEF ExchangeCommandVersions
  <2>2. conn' = [conn EXCEPT ![c] = [conn[c] EXCEPT !.stage = "ready", !.filtering = supported]]
    BY <1>1, <2>1 DEF ConnTypeOK
  <2> QED
    BY <1>1, <1>4, <2>2, ZenonT(40) DEF ExchangeCommandVersions, Answered, ConnTypeOK, StepFine, Progress,
       ConnFine, Connection, Stages, Requests, Tuned, Connecting, GivenUp
<1>5. CASE RequestFails(c)
  <2>1. conn' = [conn EXCEPT ![c] = [conn[c] EXCEPT !.stage = "failed"]]
    BY <1>5 DEF RequestFails
  <2> QED
    BY <1>1, <1>5, <2>1 DEF RequestFails, ConnTypeOK, StepFine, Progress, ConnFine,
       Connection, Stages, Requests, Tuned, Connecting, GivenUp
<1> QED
  BY <1>2, <1>3, <1>4, <1>5
\* The two steps of handle_tune_command, a further Tune, and the end of the link.
LEMMA TuneSteps ==
  ASSUME ConnTypeOK, ConnsFine, NEW c \in Conns,
         HandleTune(c) \/ ReplyTune(c) \/ BrokerTunes(c) \/ Lose(c)
  PROVE  StepFine(c) /\ Progress(conn[c], conn'[c])
<1>1. conn[c] \in Connection /\ ConnFine(conn[c]) /\ conn[c].task \in Nat
  BY ConnFields DEF ConnsFine
<1>2. CASE HandleTune(c)
  <2> DEFINE agreed == [heartbeat |-> Negotiate(Heartbeat, conn[c].tune.heartbeat),
                        frame     |-> Negotiate(MaxFrameSize, conn[c].tune.frame)]
             beat   == IF conn[c].task = 0 THEN 0 ELSE Interval(agreed.heartbeat)
  <2>1. conn[c].tune \in Tunes
    BY <1>2, ConnFields DEF HandleTune
  <2>2. /\ agreed \in Limits
        /\ Within(agreed.heartbeat, Heartbeat) /\ Within(agreed.frame, MaxFrameSize)
        /\ Heartbeat # 0 => agreed.heartbeat # 0
    BY <2>1, Agreed
  <2>3. conn' = [conn EXCEPT ![c].limits = agreed, ![c].reply = agreed,
                             ![c].tune = NoTune, ![c].task = beat]
    BY <1>2 DEF HandleTune
  <2> HIDE DEF agreed
  <2>4. agreed.heartbeat \in Nat
    BY <2>2 DEF Limits
  <2>5. /\ beat \in Nat
        /\ beat # 0 => beat = Interval(agreed.heartbeat)
        /\ Heartbeat # 0 /\ conn[c].task # 0 => beat # 0
        /\ conn[c].task = 0 => beat = 0
    BY <2>2, <2>4, IntervalPositive
  <2> HIDE DEF beat
  <2>6. conn' = [conn EXCEPT ![c] = [conn[c] EXCEPT !.limits = agreed, !.reply = agreed,
                                                    !.tune = NoTune, !.task = beat]]
    BY <1>1, <2>3 DEF ConnTypeOK
  <2>7. /\ conn'[c].limits = agreed /\ conn'[c].reply = agreed /\ conn'[c].task = beat
        /\ conn'[c].stage = conn[c].stage /\ conn'[c].at = conn[c].at
        /\ conn[c].link = "up"
    BY <1>1, <1>2, <2>6 DEF ConnTypeOK, Connection, HandleTune
  <2>8. agreed # NoTune
    BY <2>4 DEF NoTune
  <2>9. ConnFine(conn'[c])
    BY <1>1, <2>2, <2>5, <2>7, <2>8 DEF ConnFine
  <2>10. [conn[c] EXCEPT !.limits = agreed, !.reply = agreed,
                         !.tune = NoTune, !.task = beat] \in Connection
    BY <1>1, <2>2, <2>5 DEF Connection
  <2> QED
    BY <2>6, <2>7, <2>9, <2>10 DEF StepFine, Progress, ConnTypeOK
<1>3. CASE ReplyTune(c)
  <2> DEFINE told == IF conn[c].link = "up" THEN conn[c].reply ELSE conn[c].told
  <2>1. conn' = [conn EXCEPT ![c] = [conn[c] EXCEPT !.told = told, !.permit = TRUE,
                                                    !.reply = NoTune]]
    BY <1>1, <1>3 DEF ReplyTune, ConnTypeOK
  <2>2. told \in Limits \union {NoTune}
    BY ConnFields
  <2> QED
    BY <1>1, <1>3, <2>1, <2>2 DEF ReplyTune, ConnTypeOK, StepFine, Progress, ConnFine, Connection
<1>4. CASE BrokerTunes(c)
  <2>1. PICK t \in Tunes : conn' = [conn EXCEPT ![c] = [conn[c] EXCEPT !.tune = t]]
    BY <1>4 DEF BrokerTunes
  <2> QED
    BY <1>1, <1>4, <2>1 DEF BrokerTunes, ConnTypeOK, StepFine, Progress, ConnFine, Connection
<1>5. CASE Lose(c)
  <2>1. PICK link \in {"lost", "deaf"} :
          conn' = [conn EXCEPT ![c] = [conn[c] EXCEPT !.link = link, !.tune = NoTune]]
    BY <1>1, <1>5 DEF Lose, ConnTypeOK
  <2>2. link \in Links /\ link # "up"
    BY DEF Links
  <2> QED
    BY <1>1, <1>5, <2>1, <2>2 DEF Lose, ConnTypeOK, StepFine, Progress, ConnFine, Connection
<1> QED
  BY <1>2, <1>3, <1>4, <1>5

\* Client::close, from the answer to its request on.
LEMMA CloseSteps ==
  ASSUME ConnTypeOK, ConnsFine, NEW c \in Conns,
         CloseAnswered(c) \/ CloseFails(c) \/ CloseChannel(c)
  PROVE  StepFine(c) /\ Progress(conn[c], conn'[c])
<1>1. conn[c] \in Connection /\ ConnFine(conn[c]) /\ conn[c].task \in Nat
  BY ConnFields DEF ConnsFine
<1>2. CASE CloseAnswered(c)
  <2>1. conn' = [conn EXCEPT ![c] = [conn[c] EXCEPT !.stage = "shutting", !.task = 0]]
    BY <1>1, <1>2 DEF CloseAnswered, ConnTypeOK
  <2> QED
    BY <1>1, <1>2, <2>1 DEF CloseAnswered, Answered, ConnTypeOK, StepFine, Progress, ConnFine,
       Connection, Stages, Requests, Tuned, Connecting, GivenUp
<1>3. CASE CloseFails(c)
  <2>1. conn' = [conn EXCEPT ![c] = [conn[c] EXCEPT !.stage = "unclosed"]]
    BY <1>3 DEF CloseFails
  <2> QED
    BY <1>1, <1>3, <2>1 DEF CloseFails, ConnTypeOK, StepFine, Progress, ConnFine,
       Connection, Stages, Requests, Tuned, Connecting, GivenUp
<1>4. CASE CloseChannel(c)
  <2>1. conn[c].stage = "shutting" /\ conn[c].task = 0
    BY <1>1, <1>4 DEF CloseChannel, ConnFine
  <2>2. CASE conn' = [conn EXCEPT ![c].stage = "unclosed"]
    <3>1. conn' = [conn EXCEPT ![c] = [conn[c] EXCEPT !.stage = "unclosed"]]
      BY <2>2
    <3> QED
      BY <1>1, <2>1, <3>1 DEF ConnTypeOK, StepFine, Progress, ConnFine,
         Connection, Stages, Requests, Tuned, Connecting, GivenUp
  <2>3. CASE conn' = [conn EXCEPT ![c] = [Unused EXCEPT !.stage = "closed", !.link = "shut",
                                                        !.task = conn[c].task]]
    <3> DEFINE shut == [Unused EXCEPT !.stage = "closed", !.link = "shut", !.task = 0]
    <3>1. shut \in Connection /\ ConnFine(shut) /\ shut.stage = "closed"
      BY UnusedFine, EnvironmentAssumption DEF Unused
    <3>2. conn' = [conn EXCEPT ![c] = shut]
      BY <2>1, <2>3
    <3> HIDE DEF shut
    <3>3. conn'[c] = shut
      BY <3>2 DEF ConnTypeOK
    <3> QED
      BY <2>1, <3>1, <3>2, <3>3 DEF ConnTypeOK, StepFine, Progress, Connecting, Requests, GivenUp
  <2> QED
    BY <1>4, <2>2, <2>3 DEF CloseChannel
<1> QED
  BY <1>2, <1>3, <1>4

\* A connection's own step.
LEMMA ConnMoves ==
  ASSUME ConnTypeOK, ConnsFine, NEW c \in Conns, ConnectionStep(c)
  PROVE  StepFine(c) /\ Progress(conn[c], conn'[c]) /\ retunes' \in 0 .. MaxRetunes
<1>1. StepFine(c) /\ Progress(conn[c], conn'[c])
  BY BeforeTune, AfterTune, TuneSteps, CloseSteps DEF ConnectionStep, ClientStep, DispatcherStep
<1>2. retunes' \in 0 .. MaxRetunes
  BY ConnectionAssumption DEF ConnectionStep, BrokerTunes, ConnTypeOK
<1> QED
  BY <1>1, <1>2

\* Client::connect is entered on a connection that was unused or is closed.
LEMMA ConnectMoves ==
  ASSUME ConnTypeOK, ConnsFine, NEW c \in Conns, NEW n \in Nodes, Connect(c, n)
  PROVE  /\ StepFine(c) /\ conn[c].stage \in {"free", "closed"}
         /\ conn'[c].stage \in Connecting /\ conn'[c].at = n
<1>1. conn[c].stage \in {"free", "closed"}
  BY DEF Connect, CreateConnection, CreateConnectionFails, Fresh
<1>2. ASSUME NEW r \in Connection, ConnFine(r), conn' = [conn EXCEPT ![c] = r]
      PROVE  StepFine(c) /\ conn'[c] = r
  BY <1>2 DEF StepFine, ConnTypeOK
<1>3. CASE CreateConnection(c, n)
  <2> DEFINE up == [Unused EXCEPT !.at = n, !.stage = "peer", !.link = "up"]
  <2>1. up \in Connection /\ ConnFine(up) /\ up.stage = "peer" /\ up.at = n
    BY UnusedFine DEF Unused
  <2>2. conn' = [conn EXCEPT ![c] = up]
    BY <1>3 DEF CreateConnection
  <2> HIDE DEF up
  <2> QED
    BY <1>1, <1>2, <2>1, <2>2 DEF Connecting, Requests
<1>4. CASE CreateConnectionFails(c, n)
  <2> DEFINE failed == [Unused EXCEPT !.at = n, !.stage = "failed"]
  <2>1. failed \in Connection /\ ConnFine(failed) /\ failed.stage = "failed" /\ failed.at = n
    BY UnusedFine DEF Unused
  <2>2. conn' = [conn EXCEPT ![c] = failed]
    BY <1>4 DEF CreateConnectionFails
  <2> HIDE DEF failed
  <2> QED
    BY <1>1, <1>2, <2>1, <2>2 DEF Connecting
<1> QED
  BY <1>3, <1>4 DEF Connect

\* Client::close is entered on a client that connect returned.
LEMMA BeginCloseMoves ==
  ASSUME ConnTypeOK, ConnsFine, NEW c \in Conns, conn[c].stage = "ready", BeginClose(c)
  PROVE  StepFine(c) /\ conn'[c].stage = "closing"
<1>1. conn[c] \in Connection /\ ConnFine(conn[c])
  BY ConnFields DEF ConnsFine
<1>2. conn' = [conn EXCEPT ![c] = [conn[c] EXCEPT !.stage = "closing"]]
  BY DEF BeginClose
<1> QED
  BY <1>1, <1>2 DEF ConnTypeOK, StepFine, ConnFine, Connection, Stages, Requests, Tuned
\* Where one connection made a fine step, or none did, all are fine.
LEMMA StepKeeps ==
  ASSUME ConnTypeOK, ConnsFine, retunes' \in 0 .. MaxRetunes,
         UNCHANGED conn \/ \E c \in Conns : StepFine(c)
  PROVE  ConnTypeOK' /\ ConnsFine'
<1>1. CASE UNCHANGED conn
  BY <1>1 DEF ConnTypeOK, ConnsFine
<1>2. ASSUME NEW c \in Conns, StepFine(c) PROVE ConnTypeOK' /\ ConnsFine'
  <2>1. ConnTypeOK'
    BY <1>2 DEF StepFine, ConnTypeOK
  <2>2. \A d \in Conns : ConnFine(conn'[d])
    BY <1>2 DEF StepFine, ConnsFine
  <2>3. ConnsFine'
    BY <2>2 DEF ConnsFine, ConnFine
  <2> QED
    BY <2>1, <2>3
<1> QED
  BY <1>1, <1>2

-----------------------------------------------------------------------------
(* Steps of the call.                                                      *)

\* The fields of the call.
LEMMA CallFields ==
  ASSUME TypeOK
  PROVE  /\ call.kind \in Calls /\ call.at \in Points
         /\ call.options.balanced \in BOOLEAN /\ call.options.single \in BOOLEAN
         /\ call.client \in Conns \union {NoConn} /\ call.temp \in Conns \union {NoConn}
         /\ call.target \in Nodes \union {NoNode}
         /\ call.status \in {"none", "ok", "refused"} /\ call.result \in Results
         /\ stream.leader \in Nodes /\ stream.replicas \in SUBSET Nodes
         /\ stream.moves \in 0 .. MaxMoves
         /\ NoConn \notin Conns
BY DEF TypeOK, Call, Stream, Conns, NoConn

\* A connection moves by itself: the call is where it was, and what it relies on
\* is still so.
LEMMA ConnectionKeeps ==
  ASSUME Inv, NEW c \in Conns, ConnectionStep(c), UNCHANGED <<stream, call>>
  PROVE  Inv'
<1>1. ConnTypeOK /\ ConnsFine /\ CallFine
  BY DEF Inv, TypeOK
<1>2. StepFine(c) /\ Progress(conn[c], conn'[c]) /\ retunes' \in 0 .. MaxRetunes
  BY <1>1, ConnMoves
<1>3. \A d \in Conns : Progress(conn[d], conn'[d])
  BY <1>2 DEF StepFine, Progress
<1>4. ConnTypeOK' /\ ConnsFine'
  BY <1>1, <1>2, StepKeeps
<1>5. TypeOK'
  BY <1>4 DEF Inv, TypeOK
<1>6. ClientFine'
  BY <1>1, <1>3 DEF CallFine, ClientFine, Progress, Arrived, HoldsOne, Connecting
<1>7. TempFine'
  BY <1>1, <1>3 DEF CallFine, TempFine, Progress, Arrived, Connecting
<1>8. KindFine'
  BY <1>1 DEF CallFine, KindFine
<1>9. ReturnFine'
  BY <1>1, <1>3 DEF CallFine, ReturnFine, Progress, Arrived, Connecting
<1>10. OthersIdle'
  BY <1>1, <1>3 DEF CallFine, OthersIdle, Progress
<1> QED
  BY <1>4, <1>5, <1>6, <1>7, <1>8, <1>9, <1>10 DEF Inv, CallFine

\* An election touches neither the call nor a connection.
LEMMA MoveLeaderKeeps ==
  ASSUME Inv, MoveLeader
  PROVE  Inv'
<1>1. PICK n \in stream.replicas :
        stream' = [stream EXCEPT !.leader = n, !.moves = @ + 1,
                                 !.replicas = (@ \ {n}) \union {stream.leader}]
  BY DEF MoveLeader
<1>5. /\ stream \in Stream /\ stream.moves \in 0 .. MaxMoves /\ stream.moves < MaxMoves
      /\ n \in Nodes /\ stream.leader \in Nodes /\ stream.replicas \in SUBSET Nodes
  BY CallFields DEF MoveLeader, Inv, TypeOK
<1>6. /\ stream.moves + 1 \in 0 .. MaxMoves
      /\ (stream.replicas \ {n}) \union {stream.leader} \in SUBSET Nodes
  BY <1>5, EnvironmentAssumption
<1>2. stream' \in Stream
  BY <1>1, <1>5, <1>6 DEF Stream
<1>3. TypeOK'
  BY <1>2 DEF MoveLeader, Inv, TypeOK, ConnTypeOK
<1>4. ConnsFine' /\ CallFine'
  BY DEF MoveLeader, Inv, ConnsFine, CallFine, ClientFine, TempFine, KindFine, ReturnFine,
         OthersIdle, Arrived
<1> QED
  BY <1>3, <1>4 DEF Inv
\* A call returns: with its client, if it is a builder's; with what close left, if it
\* is another; or with an error, of which nothing is asked.
LEMMA ReturnKeeps ==
  ASSUME Inv, NEW result \in Results \ {"none"}, Return(result),
         UNCHANGED <<conn, retunes, stream>>,
         call.at # "returned",
         result = "Ok" /\ call.kind \in Builders => call.at \in {"declare", "sequence"},
         \/ result = "Ok" /\ call.kind \notin Builders
         \/ result = "Refused" /\ call.kind \in StreamCalls
         => call.at = "close" /\ conn[call.client].stage = "closed"
  PROVE  Inv'
<1>1. call \in Call /\ ClientFine /\ TempFine /\ KindFine /\ OthersIdle
  BY DEF Inv, TypeOK, CallFine
<1>2. /\ call' \in Call
      /\ call'.at = "returned" /\ call'.result = result
      /\ call'.client = call.client /\ call'.temp = call.temp
      /\ call'.target = call.target /\ call'.kind = call.kind
  BY <1>1 DEF Return, Call, Points
<1>3. TypeOK' /\ ConnsFine'
  BY <1>2 DEF Inv, TypeOK, ConnTypeOK, ConnsFine
<1>4. ClientFine' /\ TempFine' /\ KindFine'
  BY <1>2 DEF ClientFine, TempFine, KindFine, HoldsOne, BuilderPoints, Searching
<1>5. ReturnFine'
  BY <1>1, <1>2 DEF ClientFine, TempFine, KindFine, ReturnFine, Arrived, HoldsOne
<1>6. OthersIdle'
  BY <1>1, <1>2 DEF OthersIdle
<1> QED
  BY <1>3, <1>4, <1>5, <1>6 DEF Inv, CallFine

\* The first client: connect is entered.
LEMMA CreateClientKeeps ==
  ASSUME Inv, CreateClient, UNCHANGED retunes
  PROVE  Inv'
<1>1. /\ ConnTypeOK /\ ConnsFine /\ call \in Call /\ stream \in Stream
      /\ ClientFine /\ TempFine /\ KindFine /\ ReturnFine /\ OthersIdle
      /\ NoConn \notin Conns
  BY CallFields DEF Inv, TypeOK, CallFine
<1>2. PICK c \in Conns, n \in Reached :
        /\ Connect(c, n)
        /\ call' = [call EXCEPT !.at = "connect", !.client = c]
  BY DEF CreateClient
<1>3. n \in Nodes
  BY <1>2, EnvironmentAssumption DEF Reached
<1>4. StepFine(c) /\ conn'[c].stage \in Connecting
  BY <1>1, <1>2, <1>3, ConnectMoves
<1>5. /\ call' \in Call
      /\ call'.at = "connect" /\ call'.client = c /\ call'.temp = call.temp
      /\ call'.target = call.target /\ call'.kind = call.kind /\ call'.result = call.result
  BY <1>1, <1>2 DEF Call, Points
<1>6. ConnTypeOK' /\ ConnsFine'
  BY <1>1, <1>4, StepKeeps DEF ConnTypeOK
<1>7. call.at = "start" /\ call.client = NoConn /\ call.temp = NoConn
  BY <1>1 DEF CreateClient, ClientFine, TempFine
<1>8. ClientFine' /\ TempFine' /\ KindFine' /\ ReturnFine'
  BY <1>1, <1>4, <1>5, <1>7 DEF ClientFine, TempFine, KindFine, ReturnFine, HoldsOne,
     BuilderPoints, Searching
<1>9. OthersIdle'
  BY <1>1, <1>4, <1>5, <1>7 DEF OthersIdle, StepFine
<1> QED
  BY <1>1, <1>5, <1>6, <1>8, <1>9 DEF Inv, TypeOK, CallFine, CreateClient

\* connect returned a client: it is closed at once, or used.
LEMMA ConnectedKeeps ==
  ASSUME Inv, Connected, UNCHANGED retunes
  PROVE  Inv'
<1>1. /\ ConnTypeOK /\ ConnsFine /\ call \in Call /\ stream \in Stream /\ call.kind \in Calls
      /\ ClientFine /\ TempFine /\ KindFine /\ ReturnFine /\ OthersIdle
      /\ NoConn \notin Conns
  BY CallFields DEF Inv, TypeOK, CallFine
<1>2. CASE conn[call.client].stage = "failed"
  <2>1. Return("ClientError") /\ UNCHANGED <<conn, retunes, stream>> /\ call.at # "returned"
    BY <1>2 DEF Connected
  <2> QED
    BY <2>1, ReturnKeeps DEF Results
<1>3. CASE conn[call.client].stage # "failed"
  <2>1. /\ call.at = "connect" /\ call.client \in Conns
        /\ conn[call.client].stage = "ready" /\ call.temp = NoConn
        /\ call' = [call EXCEPT !.at = AfterConnect]
        /\ IF AfterConnect = "close" THEN BeginClose(call.client) ELSE UNCHANGED conn
    BY <1>1, <1>3 DEF Connected, ClientFine, TempFine
  <2>2. /\ AfterConnect \in {"close", "request", "metadata"}
        /\ AfterConnect = "close" => call.kind \notin Builders
        /\ AfterConnect = "request" => call.kind \in StreamCalls
        /\ AfterConnect = "metadata" => call.kind \in Builders
    BY <1>1 DEF AfterConnect, Builders, Calls, StreamCalls
  <2>3. /\ call' \in Call
        /\ call'.at = AfterConnect /\ call'.client = call.client /\ call'.temp = call.temp
        /\ call'.target = call.target /\ call'.kind = call.kind /\ call'.result = call.result
    BY <1>1, <2>1, <2>2 DEF Call, Points
  <2>4. /\ UNCHANGED conn \/ StepFine(call.client)
        /\ AfterConnect = "close" => conn'[call.client].stage = "closing"
        /\ AfterConnect # "close" => UNCHANGED conn
    BY <1>1, <2>1, BeginCloseMoves
  <2>5. ConnTypeOK' /\ ConnsFine'
    BY <1>1, <2>1, <2>4, StepKeeps DEF ConnTypeOK
  <2>6. ClientFine'
    BY <1>1, <2>1, <2>2, <2>3, <2>4 DEF ClientFine, HoldsOne, GivenUp
  <2>7. TempFine' /\ KindFine' /\ ReturnFine'
    BY <1>1, <2>1, <2>2, <2>3 DEF TempFine, KindFine, ReturnFine, BuilderPoints, Searching
  <2>8. OthersIdle'
    BY <1>1, <2>3, <2>4 DEF OthersIdle, StepFine
  <2> QED
    BY <1>1, <2>3, <2>5, <2>6, <2>7, <2>8 DEF Inv, TypeOK, CallFine, Connected
<1> QED
  BY <1>2, <1>3
\* The steps that only return: an option refused, a connection lost under a request.
LEMMA ErrorsKeep ==
  ASSUME Inv, RefuseUnnamed \/ RequestLost, UNCHANGED retunes
  PROVE  Inv'
<1>1. /\ \/ Return("SingleActiveConsumerNotSupported")
         \/ Return("ClientError")
      /\ UNCHANGED <<conn, retunes, stream>> /\ call.at # "returned"
  BY DEF RefuseUnnamed, RequestLost, Asking
<1> QED
  BY <1>1, ReturnKeeps DEF Results

\* The request of a stream's call: its client is closed next.
LEMMA StreamRequestKeeps ==
  ASSUME Inv, StreamRequest, UNCHANGED retunes
  PROVE  Inv'
<1>1. /\ ConnTypeOK /\ ConnsFine /\ call \in Call /\ stream \in Stream
      /\ ClientFine /\ TempFine /\ KindFine /\ ReturnFine /\ OthersIdle
      /\ NoConn \notin Conns
  BY CallFields DEF Inv, TypeOK, CallFine
<1>2. PICK status \in {"ok", "refused"} :
        /\ call' = [call EXCEPT !.at = "close", !.status = status]
        /\ stream' = IF status = "ok" THEN [stream EXCEPT !.exists = ~@] ELSE stream
  BY DEF StreamRequest, Status
<1>3. /\ call.at = "request" /\ call.client \in Conns /\ conn[call.client].stage = "ready"
      /\ call.temp = NoConn /\ call.kind \notin Builders /\ BeginClose(call.client)
  BY <1>1 DEF StreamRequest, ClientFine, TempFine, KindFine, HoldsOne, StreamCalls, Builders
<1>4. /\ call' \in Call /\ stream' \in Stream
      /\ call'.at = "close" /\ call'.client = call.client /\ call'.temp = call.temp
      /\ call'.target = call.target /\ call'.kind = call.kind /\ call'.result = call.result
  BY <1>1, <1>2 DEF Call, Points, Stream
<1>5. StepFine(call.client) /\ conn'[call.client].stage = "closing"
  BY <1>1, <1>3, BeginCloseMoves
<1>6. ConnTypeOK' /\ ConnsFine'
  BY <1>1, <1>3, <1>5, StepKeeps DEF ConnTypeOK
<1>7. ClientFine' /\ TempFine' /\ KindFine' /\ ReturnFine'
  BY <1>1, <1>3, <1>4, <1>5 DEF ClientFine, TempFine, KindFine, ReturnFine, HoldsOne, GivenUp,
     BuilderPoints, Searching
<1>8. OthersIdle'
  BY <1>1, <1>4, <1>5 DEF OthersIdle, StepFine
<1> QED
  BY <1>4, <1>6, <1>7, <1>8 DEF Inv, TypeOK, CallFine

\* The steps that return with what close left, or after the last request of a builder.
LEMMA LastStepsKeep ==
  ASSUME Inv, CloseReturns \/ QueryPublisherSequence, UNCHANGED retunes
  PROVE  Inv'
<1>1. KindFine /\ ClientFine
  BY DEF Inv, CallFine
<1>2. CASE CloseReturns
  <2>1. /\ call.at = "close" /\ call.kind \notin Builders
        /\ UNCHANGED <<conn, retunes, stream>>
    BY <1>1, <1>2 DEF CloseReturns, KindFine
  <2>2. CASE conn[call.client].stage = "unclosed"
    <3>1. Return("ClientError")
      BY <1>2, <2>2 DEF CloseReturns
    <3> QED
      BY <2>1, <3>1, ReturnKeeps DEF Results
  <2>3. CASE conn[call.client].stage = "closed"
    <3>1. Return("Refused") \/ Return("Ok")
      BY <1>2, <2>3 DEF CloseReturns
    <3> QED
      BY <2>1, <2>3, <3>1, ReturnKeeps DEF Results
  <2> QED
    BY <1>2, <2>2, <2>3 DEF CloseReturns
<1>3. CASE QueryPublisherSequence
  <2>1. /\ call.at = "sequence" /\ call.kind \in Builders
        /\ UNCHANGED <<conn, retunes, stream>>
        /\ Return("Ok") \/ Return("Refused")
    BY <1>1, <1>3 DEF QueryPublisherSequence, KindFine, BuilderPoints, Searching
  <2> QED
    BY <2>1, ReturnKeeps DEF Results, Builders, StreamCalls
<1> QED
  BY <1>2, <1>3

\* The steps of a builder's call between two points at which it holds one client.
LEMMA PointsKeep ==
  ASSUME Inv, NEW at \in {"handler", "declare", "sequence", "try"},
         NEW status \in {"none", "ok", "refused"}, NEW target \in Nodes \union {NoNode},
         call' = [call EXCEPT !.at = at, !.status = status, !.target = target],
         UNCHANGED <<conn, retunes, stream>>,
         \/ call.at \in {"handler", "declare"} /\ at # "try" /\ target = call.target
         \/ call.at = "metadata" /\ (IF at = "try" THEN target \in Nodes ELSE target = NoNode)
         \/ /\ call.at = "reconnect" /\ at # "try" /\ target = call.target
            /\ conn[call.client].stage = "ready"
  PROVE  Inv'
<1>1. /\ call \in Call
      /\ ClientFine /\ TempFine /\ KindFine /\ ReturnFine /\ OthersIdle
  BY DEF Inv, TypeOK, CallFine
<1>2. /\ call' \in Call
      /\ call'.at = at /\ call'.client = call.client /\ call'.temp = call.temp
      /\ call'.target = target /\ call'.kind = call.kind /\ call'.result = call.result
  BY <1>1 DEF Call, Points
<1>3. TypeOK' /\ ConnsFine'
  BY <1>2 DEF Inv, TypeOK, ConnTypeOK, ConnsFine
<1>4. ClientFine'
  BY <1>1, <1>2 DEF ClientFine, HoldsOne, Arrived
<1>5. TempFine' /\ KindFine' /\ ReturnFine' /\ OthersIdle'
  BY <1>1, <1>2 DEF TempFine, KindFine, ReturnFine, OthersIdle, BuilderPoints, Searching
<1> QED
  BY <1>3, <1>4, <1>5 DEF Inv, CallFine

\* The rest of a builder's call.
LEMMA BuilderKeeps ==
  ASSUME Inv, Reconnected \/ SetHandler \/ Declare, UNCHANGED retunes
  PROVE  Inv'
<1>1. call \in Call /\ KindFine
  BY DEF Inv, TypeOK, CallFine
<1>2. call.status \in {"none", "ok", "refused"} /\ call.target \in Nodes \union {NoNode}
  BY CallFields DEF Inv
<1>3. ASSUME NEW at \in Points, call' = [call EXCEPT !.at = at]
      PROVE  call' = [call EXCEPT !.at = at, !.status = call.status, !.target = call.target]
  BY <1>1, <1>3 DEF Call
<1>4. ASSUME NEW at \in Points, NEW status \in {"ok", "refused"},
             call' = [call EXCEPT !.at = at, !.status = status]
      PROVE  call' = [call EXCEPT !.at = at, !.status = status, !.target = call.target]
  BY <1>1, <1>4 DEF Call
<1>5. CASE Reconnected
  <2>1. CASE conn[call.client].stage = "failed"
    BY <1>5, <2>1, ReturnKeeps DEF Reconnected, Results
  <2>2. CASE conn[call.client].stage # "failed"
    <3>1. /\ call' = [call EXCEPT !.at = "handler"] /\ call.at = "reconnect"
          /\ conn[call.client].stage = "ready" /\ UNCHANGED <<conn, retunes, stream>>
      BY <1>5, <2>2 DEF Reconnected
    <3>2. call' = [call EXCEPT !.at = "handler", !.status = call.status, !.target = call.target]
      BY <1>3, <3>1 DEF Points
    <3> QED
      BY <1>2, <3>1, <3>2, PointsKeep
  <2> QED
    BY <2>1, <2>2
<1>6. CASE SetHandler
  <2>1. CASE Return("FilteringNotSupport")
    BY <1>6, <2>1, ReturnKeeps DEF SetHandler, Results
  <2>2. CASE call' = [call EXCEPT !.at = "declare"]
    <3>1. call.at = "handler" /\ UNCHANGED <<conn, retunes, stream>>
      BY <1>6 DEF SetHandler
    <3>2. call' = [call EXCEPT !.at = "declare", !.status = call.status, !.target = call.target]
      BY <1>3, <2>2 DEF Points
    <3> QED
      BY <1>2, <3>1, <3>2, PointsKeep
  <2> QED
    BY <1>6, <2>1, <2>2 DEF SetHandler
<1>7. CASE Declare
  <2>1. /\ call.at = "declare" /\ call.kind \in Builders
        /\ UNCHANGED <<conn, retunes, stream>>
    BY <1>1, <1>7 DEF Declare, KindFine, BuilderPoints, Searching
  <2>2. PICK status \in {"ok", "refused"} :
          \/ call' = [call EXCEPT !.at = "sequence", !.status = status]
          \/ Return("Ok") \/ Return("Refused")
    BY <1>7 DEF Declare, Status
  <2>3. CASE Return("Ok") \/ Return("Refused")
    BY <2>1, <2>3, ReturnKeeps DEF Results, Builders, StreamCalls
  <2>4. CASE call' = [call EXCEPT !.at = "sequence", !.status = status]
    <3>1. call' = [call EXCEPT !.at = "sequence", !.status = status, !.target = call.target]
      BY <1>4, <2>4 DEF Points
    <3> QED
      BY <1>2, <2>1, <3>1, PointsKeep
  <2> QED
    BY <2>2, <2>3, <2>4
<1> QED
  BY <1>5, <1>6, <1>7
\* The answer to metadata: the search begins, is over before it began, or fails.
LEMMA MetadataKeeps ==
  ASSUME Inv, Metadata, UNCHANGED retunes
  PROVE  Inv'
<1>1. /\ ConnTypeOK /\ ConnsFine /\ call \in Call /\ stream \in Stream
      /\ ClientFine /\ TempFine /\ KindFine /\ ReturnFine /\ OthersIdle
      /\ NoConn \notin Conns
  BY CallFields DEF Inv, TypeOK, CallFine
<1>2. /\ call.status \in {"none", "ok", "refused"}
      /\ stream.leader \in Nodes /\ stream.replicas \in SUBSET Nodes
  BY CallFields DEF Inv
<1>3. /\ call.at = "metadata" /\ call.client \in Conns /\ conn[call.client].stage = "ready"
      /\ call.temp = NoConn /\ call.target = NoNode /\ call.kind \in Builders
      /\ UNCHANGED <<retunes, stream>>
  BY <1>1 DEF Metadata, ClientFine, TempFine, KindFine, HoldsOne, BuilderPoints, Searching
<1>4. CASE Return("StreamDoesNotExist") /\ UNCHANGED conn
  BY <1>3, <1>4, ReturnKeeps DEF Results
<1>5. CASE call' = [call EXCEPT !.at = "handler"] /\ UNCHANGED conn
  <2>1. call' = [call EXCEPT !.at = "handler", !.status = call.status, !.target = NoNode]
    BY <1>1, <1>3, <1>5 DEF Call
  <2> QED
    BY <1>2, <1>3, <1>5, <2>1, PointsKeep
<1>6. ASSUME NEW target \in Nodes,
             call' = [call EXCEPT !.at = Search, !.target = target],
             IF Search = "release" THEN BeginClose(call.client) ELSE UNCHANGED conn
      PROVE  Inv'
  <2>1. CASE Search = "try"
    <3>1. call' = [call EXCEPT !.at = "try", !.status = call.status, !.target = target]
      BY <1>1, <1>6, <2>1 DEF Call
    <3> QED
      BY <1>2, <1>3, <1>6, <2>1, <3>1, PointsKeep
  <2>2. CASE Search = "release"
    <3>1. /\ call' \in Call
          /\ call'.at = "release" /\ call'.client = call.client /\ call'.temp = call.temp
          /\ call'.target = target /\ call'.kind = call.kind /\ call'.result = call.result
      BY <1>1, <1>6, <2>2 DEF Call, Points
    <3>2. StepFine(call.client) /\ conn'[call.client].stage = "closing"
      BY <1>1, <1>3, <1>6, <2>2, BeginCloseMoves
    <3>3. ConnTypeOK' /\ ConnsFine'
      BY <1>1, <1>3, <3>2, StepKeeps DEF ConnTypeOK
    <3>4. ClientFine' /\ TempFine' /\ KindFine' /\ ReturnFine'
      BY <1>1, <1>3, <3>1, <3>2 DEF ClientFine, TempFine, KindFine, ReturnFine, HoldsOne,
         GivenUp, BuilderPoints, Searching
    <3>5. OthersIdle'
      BY <1>1, <3>1, <3>2 DEF OthersIdle, StepFine
    <3> QED
      BY <1>1, <1>3, <3>1, <3>3, <3>4, <3>5 DEF Inv, TypeOK, CallFine
  <2> QED
    BY <2>1, <2>2 DEF Search
<1>7. \A known \in SUBSET Nodes : Candidates(known) \subseteq Nodes
  BY <1>2 DEF Candidates
<1> QED
  BY <1>4, <1>5, <1>6, <1>7 DEF Metadata

\* Without a load balancer: the closed first client is replaced by one at the target.
LEMMA ReleaseKeeps ==
  ASSUME Inv, Release, UNCHANGED retunes
  PROVE  Inv'
<1>1. /\ ConnTypeOK /\ ConnsFine /\ call \in Call /\ stream \in Stream
      /\ ClientFine /\ TempFine /\ KindFine /\ ReturnFine /\ OthersIdle
      /\ NoConn \notin Conns
  BY CallFields DEF Inv, TypeOK, CallFine
<1>2. /\ call.at = "release" /\ call.client \in Conns /\ call.temp = NoConn
      /\ UNCHANGED stream
  BY <1>1 DEF Release, ClientFine, TempFine
<1>3. CASE conn[call.client].stage = "unclosed"
  <2>1. Return("ClientError") /\ UNCHANGED conn
    BY <1>3 DEF Release
  <2> QED
    BY <1>2, <2>1, ReturnKeeps DEF Results
<1>4. CASE conn[call.client].stage = "closed"
  <2>1. PICK c \in Conns : /\ Connect(c, call.target)
                           /\ call' = [call EXCEPT !.at = "reconnect", !.client = c]
    BY <1>4 DEF Release
  <2>2. /\ call' \in Call
        /\ call'.at = "reconnect" /\ call'.client = c /\ call'.temp = call.temp
        /\ call'.target = call.target /\ call'.kind = call.kind /\ call'.result = call.result
    BY <1>1, <2>1 DEF Call, Points
  <2>3. StepFine(c) /\ conn'[c].stage \in Connecting /\ conn'[c].at = call.target
    BY <1>1, <1>2, <2>1, ConnectMoves DEF KindFine, Searching
  <2>4. ConnTypeOK' /\ ConnsFine'
    BY <1>1, <2>3, StepKeeps DEF ConnTypeOK
  <2>5. ClientFine' /\ TempFine' /\ KindFine' /\ ReturnFine'
    BY <1>1, <1>2, <2>2, <2>3 DEF ClientFine, TempFine, KindFine, ReturnFine, HoldsOne,
       Arrived, BuilderPoints, Searching
  <2>6. OthersIdle'
    BY <1>1, <1>2, <1>4, <2>2, <2>3 DEF OthersIdle, StepFine
  <2> QED
    BY <1>1, <1>2, <2>2, <2>4, <2>5, <2>6 DEF Inv, TypeOK, CallFine
<1> QED
  BY <1>3, <1>4 DEF Release
\* Behind a load balancer: a second connection is made beside the first client.
LEMMA TryKeeps ==
  ASSUME Inv, Try, UNCHANGED retunes
  PROVE  Inv'
<1>1. /\ ConnTypeOK /\ ConnsFine /\ call \in Call /\ stream \in Stream
      /\ ClientFine /\ TempFine /\ KindFine /\ ReturnFine /\ OthersIdle
      /\ NoConn \notin Conns
  BY CallFields DEF Inv, TypeOK, CallFine
<1>2. PICK c \in Conns, n \in Nodes :
        Connect(c, n) /\ call' = [call EXCEPT !.at = "trying", !.temp = c]
  BY DEF Try
<1>3. /\ call.at = "try" /\ call.client \in Conns /\ conn[call.client].stage = "ready"
      /\ call.temp = NoConn /\ UNCHANGED stream
  BY <1>1 DEF Try, ClientFine, TempFine, HoldsOne
<1>4. /\ StepFine(c) /\ conn[c].stage \in {"free", "closed"}
      /\ conn'[c].stage \in Connecting
  BY <1>1, <1>2, ConnectMoves
<1>5. c # call.client /\ conn'[call.client] = conn[call.client]
  BY <1>3, <1>4 DEF StepFine
<1>6. /\ call' \in Call
      /\ call'.at = "trying" /\ call'.client = call.client /\ call'.temp = c
      /\ call'.target = call.target /\ call'.kind = call.kind /\ call'.result = call.result
  BY <1>1, <1>2 DEF Call, Points
<1>7. ConnTypeOK' /\ ConnsFine'
  BY <1>1, <1>4, StepKeeps DEF ConnTypeOK
<1>8. ClientFine' /\ TempFine' /\ KindFine' /\ ReturnFine'
  BY <1>1, <1>3, <1>4, <1>5, <1>6 DEF ClientFine, TempFine, KindFine, ReturnFine, HoldsOne,
     BuilderPoints, Searching
<1>9. OthersIdle'
  BY <1>1, <1>3, <1>4, <1>6 DEF OthersIdle, StepFine
<1> QED
  BY <1>1, <1>3, <1>6, <1>7, <1>8, <1>9 DEF Inv, TypeOK, CallFine

\* The second connection is made: one of the two is given up.
LEMMA TriedKeeps ==
  ASSUME Inv, Tried, UNCHANGED retunes
  PROVE  Inv'
<1>1. /\ ConnTypeOK /\ ConnsFine /\ call \in Call /\ stream \in Stream
      /\ ClientFine /\ TempFine /\ KindFine /\ ReturnFine /\ OthersIdle
      /\ NoConn \notin Conns
  BY CallFields DEF Inv, TypeOK, CallFine
<1>2. /\ call.at = "trying" /\ call.client \in Conns /\ conn[call.client].stage = "ready"
      /\ call.temp \in Conns /\ call.temp # call.client /\ UNCHANGED stream
  BY <1>1 DEF Tried, ClientFine, TempFine, HoldsOne
<1>3. CASE conn[call.temp].stage = "failed"
  <2>1. Return("ClientError") /\ UNCHANGED conn
    BY <1>3 DEF Tried
  <2> QED
    BY <1>2, <2>1, ReturnKeeps DEF Results
<1>4. ASSUME NEW x \in {call.client, call.temp}, NEW at \in {"swap", "drop"},
             conn[call.temp].stage = "ready", BeginClose(x),
             call' = [call EXCEPT !.at = at],
             at = "swap" => x = call.client /\ conn[call.temp].at = call.target,
             at = "drop" => x = call.temp
      PROVE  Inv'
  <2>1. x \in Conns /\ conn[x].stage = "ready"
    BY <1>2, <1>4
  <2>2. StepFine(x) /\ conn'[x].stage = "closing"
    BY <1>1, <1>4, <2>1, BeginCloseMoves
  <2>3. \A d \in Conns : d # x => conn'[d] = conn[d]
    BY <2>2 DEF StepFine
  <2>4. /\ call' \in Call
        /\ call'.at = at /\ call'.client = call.client /\ call'.temp = call.temp
        /\ call'.target = call.target /\ call'.kind = call.kind /\ call'.result = call.result
    BY <1>1, <1>4 DEF Call, Points
  <2>5. ConnTypeOK' /\ ConnsFine'
    BY <1>1, <2>1, <2>2, StepKeeps DEF ConnTypeOK
  <2>6. ClientFine'
    BY <1>2, <1>4, <2>2, <2>3, <2>4 DEF ClientFine, HoldsOne, GivenUp
  <2>7. TempFine'
    BY <1>2, <1>4, <2>2, <2>3, <2>4 DEF TempFine, Arrived, GivenUp
  <2>8. KindFine' /\ ReturnFine'
    BY <1>1, <1>2, <1>4, <2>4 DEF KindFine, ReturnFine, BuilderPoints, Searching
  <2>9. OthersIdle'
    BY <1>1, <1>4, <2>3, <2>4 DEF OthersIdle
  <2> QED
    BY <1>1, <1>2, <2>4, <2>5, <2>6, <2>7, <2>8, <2>9 DEF Inv, TypeOK, CallFine
<1>5. CASE conn[call.temp].stage # "failed"
  <2>1. conn[call.temp].stage = "ready"
    BY <1>5 DEF Tried
  <2>2. \/ /\ BeginClose(call.client) /\ call' = [call EXCEPT !.at = "swap"]
           /\ conn[call.temp].at = call.target
        \/ BeginClose(call.temp) /\ call' = [call EXCEPT !.at = "drop"]
    BY <1>5 DEF Tried
  <2> QED
    BY <1>4, <2>1, <2>2
<1> QED
  BY <1>3, <1>5

\* The one given up is closed: the call goes on with the other.
LEMMA SwapDropKeep ==
  ASSUME Inv, Swap \/ DropTemp, UNCHANGED retunes
  PROVE  Inv'
<1>1. /\ ConnTypeOK /\ ConnsFine /\ call \in Call /\ stream \in Stream
      /\ ClientFine /\ TempFine /\ KindFine /\ ReturnFine /\ OthersIdle
      /\ NoConn \notin Conns
  BY CallFields DEF Inv, TypeOK, CallFine
<1>2. UNCHANGED <<conn, retunes, stream>> /\ call.at \in {"swap", "drop"}
  BY DEF Swap, DropTemp
<1>3. CASE Return("ClientError")
  BY <1>2, <1>3, ReturnKeeps DEF Results
<1>4. ConnTypeOK' /\ ConnsFine' /\ stream' \in Stream
  BY <1>1, <1>2 DEF ConnTypeOK, ConnsFine
<1>5. CASE Swap /\ conn[call.client].stage = "closed"
  <2>1. call' = [call EXCEPT !.at = "handler", !.client = call.temp, !.temp = NoConn]
    BY <1>5 DEF Swap
  <2>2. /\ call.at = "swap" /\ call.temp \in Conns /\ conn[call.temp].stage = "ready"
        /\ Arrived(call.temp)
    BY <1>1, <1>5 DEF Swap, TempFine
  <2>3. /\ call' \in Call
        /\ call'.at = "handler" /\ call'.client = call.temp /\ call'.temp = NoConn
        /\ call'.target = call.target /\ call'.kind = call.kind /\ call'.result = call.result
    BY <1>1, <2>1, <2>2 DEF Call, Points
  <2>4. ClientFine' /\ TempFine' /\ KindFine' /\ ReturnFine'
    BY <1>1, <1>2, <2>2, <2>3 DEF ClientFine, TempFine, KindFine, ReturnFine, HoldsOne, Arrived,
       BuilderPoints, Searching
  <2>5. OthersIdle'
    BY <1>1, <1>2, <1>5, <2>3 DEF OthersIdle
  <2> QED
    BY <1>4, <2>3, <2>4, <2>5 DEF Inv, TypeOK, CallFine
<1>6. CASE DropTemp /\ conn[call.temp].stage = "closed"
  <2>1. call' = [call EXCEPT !.at = "try", !.temp = NoConn]
    BY <1>6 DEF DropTemp
  <2>2. /\ call.at = "drop" /\ call.client \in Conns /\ conn[call.client].stage = "ready"
    BY <1>1, <1>6 DEF DropTemp, ClientFine, HoldsOne
  <2>3. /\ call' \in Call
        /\ call'.at = "try" /\ call'.client = call.client /\ call'.temp = NoConn
        /\ call'.target = call.target /\ call'.kind = call.kind /\ call'.result = call.result
    BY <1>1, <2>1 DEF Call, Points
  <2>4. ClientFine' /\ TempFine' /\ KindFine' /\ ReturnFine'
    BY <1>1, <1>2, <2>2, <2>3 DEF ClientFine, TempFine, KindFine, ReturnFine, HoldsOne,
       BuilderPoints, Searching
  <2>5. OthersIdle'
    BY <1>1, <1>2, <1>6, <2>3 DEF OthersIdle
  <2> QED
    BY <1>4, <2>3, <2>4, <2>5 DEF Inv, TypeOK, CallFine
<1> QED
  BY <1>3, <1>5, <1>6 DEF Swap, DropTemp

-----------------------------------------------------------------------------
(* What the environment promises.                                          *)

\* The call starts without a connection.
LEMMA InitFine == Init => Inv
<1> SUFFICES ASSUME Init PROVE Inv
  OBVIOUS
<1>1. ConnTypeOK /\ ConnsFine /\ \A c \in Conns : conn[c].stage = "free"
  <2>1. Unused \in Connection /\ ConnFine(Unused) /\ Unused.stage = "free"
    BY UnusedFine, EnvironmentAssumption DEF Unused
  <2> QED
    BY <2>1, ConnectionAssumption DEF Init, ConnInit, ConnTypeOK, ConnsFine
<1>2. stream \in Stream
  <2>1. PICK exists \in BOOLEAN, leader \in Nodes :
        \E replicas \in SUBSET (Nodes \ {leader}) :
          stream = [exists |-> exists, leader |-> leader, replicas |-> replicas, moves |-> 0]
    BY DEF Init
  <2> QED
    BY <2>1, EnvironmentAssumption DEF Stream
<1>3. PICK kind \in Calls : \E options \in Options(kind) :
        call = [kind |-> kind, options |-> options, at |-> "start", client |-> NoConn,
                temp |-> NoConn, target |-> NoNode, status |-> "none", result |-> "none"]
  BY DEF Init
<1>4. PICK options \in Options(kind) :
        call = [kind |-> kind, options |-> options, at |-> "start", client |-> NoConn,
                temp |-> NoConn, target |-> NoNode, status |-> "none", result |-> "none"]
  BY <1>3
<1>5. options \in [balanced : BOOLEAN, filter : BOOLEAN, named : BOOLEAN, single : BOOLEAN]
  BY DEF Options
<1>6. call \in Call
  BY <1>4, <1>5 DEF Call, Points, Results
<1>7. ClientFine /\ TempFine /\ KindFine /\ ReturnFine
  BY <1>4 DEF ClientFine, TempFine, KindFine, ReturnFine, HoldsOne, BuilderPoints, Searching
<1>8. OthersIdle
  BY <1>1 DEF OthersIdle
<1> QED
  BY <1>1, <1>2, <1>6, <1>7, <1>8 DEF Inv, TypeOK, CallFine

\* The inductive invariant of a call and its connections.
LEMMA Always == Spec => []Inv
<1>1. Inv /\ UNCHANGED vars => Inv'
  BY DEF vars, Inv, TypeOK, ConnTypeOK, ConnsFine, ConnFine, CallFine, ClientFine, TempFine,
         KindFine, ReturnFine, OthersIdle, Arrived
<1>2. ASSUME Inv, Next PROVE Inv'
  <2>1. CASE CallStep /\ UNCHANGED retunes
    BY <1>2, <2>1, ErrorsKeep, CreateClientKeeps, ConnectedKeeps, StreamRequestKeeps,
       LastStepsKeep, MetadataKeeps, ReleaseKeeps, BuilderKeeps, TryKeeps, TriedKeeps,
       SwapDropKeep DEF CallStep
  <2> QED
    BY <1>2, <2>1, ConnectionKeeps, MoveLeaderKeeps DEF Next
<1> QED
  BY <1>1, <1>2, InitFine, PTL DEF Spec

\* Every state of a call and of its connections has its type: no connection the call
\* uses is one it does not have, and every limit and interval is a number.
THEOREM TypeCorrect == Spec => []TypeOK
<1>1. Inv => TypeOK
  BY DEF Inv
<1> QED
  BY <1>1, Always, PTL

\* Whatever Tune frames a broker sends and whenever: once connect has returned and no
\* Tune is being handled, client and broker go by the same limits, and they are within
\* the options (handle_tune_command, negotiate_value).
THEOREM SidesAgree == Spec => []BothSidesAgree
<1>1. Inv => BothSidesAgree
  BY DEF Inv, ConnsFine, ConnFine, BothSidesAgree, Tuned
<1> QED
  BY <1>1, Always, PTL

\* The heartbeat task always beats at half the agreed heartbeat, and a client that asked
\* for a heartbeat has a task (start_hearbeat_task, handle_tune_command).
THEOREM HeartbeatFollows == Spec => []BeatsAsAgreed
<1>1. Inv => BeatsAsAgreed
  BY DEF Inv, ConnsFine, ConnFine, BeatsAsAgreed
<1> QED
  BY <1>1, Always, PTL

\* However often a load balancer sends the search elsewhere, a producer or consumer is
\* built on a connection to the node the metadata named.
THEOREM RightNode == Spec => []AtTheRightNode
<1>1. Inv => AtTheRightNode
  BY DEF Inv, CallFine, ReturnFine, AtTheRightNode, Returned, Arrived
<1> QED
  BY <1>1, Always, PTL

\* A call holds at most two connections, however many it makes, and one that succeeds
\* leaves none but the client it returns.
THEOREM NoLeak == Spec => []NothingLeftBehind
<1>1. ASSUME Inv PROVE NothingLeftBehind
  <2>1. /\ ConnTypeOK /\ ConnsFine /\ ReturnFine /\ OthersIdle /\ NoConn \notin Conns
    BY <1>1, CallFields DEF Inv, TypeOK, CallFine
  <2>2. \A c \in Conns : Held(c) => conn[c].stage \notin {"free", "closed"}
    BY <2>1 DEF ConnsFine, ConnFine, Held
  <2>3. {c \in Conns : Held(c)} \subseteq {call.client, call.temp}
    BY <2>1, <2>2 DEF OthersIdle
  <2>4. Cardinality({c \in Conns : Held(c)}) <= 2
    <3>1. /\ IsFiniteSet({call.client, call.temp})
          /\ Cardinality({call.client, call.temp}) \in Nat
          /\ Cardinality({call.client, call.temp}) <= 2
      <4>1. IsFiniteSet({call.temp}) /\ Cardinality({call.temp}) = 1
        BY FS_Singleton
      <4>2. {call.client, call.temp} = {call.temp} \union {call.client}
        OBVIOUS
      <4> QED
        BY <4>1, <4>2, FS_AddElement
    <3>2. /\ Cardinality({c \in Conns : Held(c)}) \in Nat
          /\ Cardinality({c \in Conns : Held(c)}) <= Cardinality({call.client, call.temp})
      BY <2>3, <3>1, FS_Subset, FS_CardinalityType
    <3> QED
      BY <3>1, <3>2
  <2>5. ASSUME \/ Returned({"Ok"})
               \/ Returned({"Refused"}) /\ call.kind \in StreamCalls,
               NEW c \in Conns, Held(c)
        PROVE  c = call.client /\ call.kind \in Builders
    <3>1. c \in {call.client, call.temp} /\ conn[c].stage \notin {"free", "closed"}
      BY <2>2, <2>3, <2>5
    <3> QED
      BY <2>1, <2>5, <3>1 DEF ReturnFine, Returned
  <2> QED
    BY <2>4, <2>5 DEF NothingLeftBehind, Builders
<1> QED
  BY <1>1, Always, PTL
=============================================================================
