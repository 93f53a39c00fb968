----------------------------- MODULE Dispatcher -----------------------------
(***************************************************************************)
(* The request/response machinery of one client connection                 *)
(* (src/src/client/dispatcher.rs, channel.rs and the calls of mod.rs that  *)
(* drive it): tasks that call send_and_receive, the shared RequestsMap,    *)
(* the dispatcher task that reads the socket, and Client::close.           *)
(*                                                                         *)
(* A call is one invocation of send_and_receive.  Updates are the calls    *)
(* made by Client::consumer_update inside a handler task that the          *)
(* dispatcher spawned; Closers are the calls made by Client::close; every  *)
(* other call stands for one of the RPC methods of Client.                 *)
(***************************************************************************)
EXTENDS Integers, Sequences, FiniteSets

CONSTANTS
    Calls,      \* every invocation of send_and_receive
    Closers,    \* those made by Client::close
    Updates,    \* those made by Client::consumer_update
    Pushes,     \* frames without correlation id: Deliver, PublishConfirm, ...
    ServerId,   \* the correlation id the broker gave to each update
    IdMod,      \* correlation ids are counted modulo IdMod (2^32 in the code)
    NoCall      \* an empty slot; as an item for the handler, the None at the end

ASSUME CallsAssumption ==
    /\ IsFiniteSet(Calls)
    /\ Closers \subseteq Calls
    /\ Updates \subseteq Calls
    /\ Closers \cap Updates = {}
    /\ NoCall \notin Calls

\* No more calls than correlation ids, so that the counter does not come
\* around to an id that is still in the map.
ASSUME IdModAssumption == IdMod \in Nat \ {0} /\ Cardinality(Calls) <= IdMod

ASSUME ServerIdAssumption == ServerId \in [Updates -> 0 .. IdMod - 1]

VARIABLES
    pc,           \* where each call is in send_and_receive (or in close)
    corr,         \* the correlation id each call was given
    inbox,        \* the call's channel(1): the answer it holds, or NoCall
    result,       \* what the call returned
    nextId,       \* DispatcherState::correlation_id
    requests,     \* RequestsMap::requests: id -> the call holding the receiver
    closed,       \* RequestsMap::closed
    dispatcher,   \* where the dispatcher task is
    handler,      \* has Client::set_handler been called?
    spawned,      \* items handed to a spawned handler task
    chanClosed,   \* the closed flag of ChannelSender
    heartbeat,    \* is the heartbeat task running?
    connected,    \* is the TCP connection up?
    toServer,     \* requests on their way to the broker
    toClient,     \* frames on their way to the client
    executed,     \* the calls whose request the broker has executed
    pushed        \* the frames the broker has pushed

callVars == <<pc, corr, inbox, result>>
mapVars  == <<nextId, requests, closed>>
taskVars == <<dispatcher, handler, spawned>>
chanVars == <<chanClosed, heartbeat>>
netVars  == <<connected, toServer, toClient, executed, pushed>>
vars     == <<callVars, mapVars, taskVars, chanVars, netVars>>

Ids == 0 .. IdMod - 1

Replies  == [kind : {"reply"}, id : Ids, call : Calls]
Frames   == Replies \cup [kind : {"update"}, id : Ids, call : Updates]
                    \cup [kind : {"push"}, push : Pushes]
Requests == [id : Ids, call : Calls]

\* The counter stays within the ids, the map holds calls, and only the frames
\* and requests of this client are on the wire.
TypeOK ==
    /\ pc \in [Calls -> {"idle", "ready", "check", "insert", "send", "recv",
                         "stop", "shutdown", "done"}]
    /\ corr \in [Calls -> Ids]
    /\ inbox \in [Calls -> Calls \cup {NoCall}]
    /\ result \in [Calls -> {"none", "ok", "ConnectionClosed", "Io",
                             "AlreadyClosed", "cancelled"}]
    /\ nextId \in Ids
    /\ requests \in [Ids -> Calls \cup {NoCall}]
    /\ closed \in BOOLEAN
    /\ dispatcher \in {"running", "ended", "stored", "cleared", "done"}
    /\ handler \in BOOLEAN
    /\ spawned \in SUBSET (Pushes \cup Updates \cup {NoCall})
    /\ chanClosed \in BOOLEAN
    /\ heartbeat \in BOOLEAN
    /\ connected \in BOOLEAN
    /\ toServer \in Seq(Requests)
    /\ toClient \in Seq(Frames)
    /\ executed \in SUBSET Calls
    /\ pushed \in SUBSET (Pushes \cup Updates)

-----------------------------------------------------------------------------
(* The connection is established, the dispatcher runs, the heartbeat too.  *)

Init ==
    /\ pc = [c \in Calls |-> IF c \in Updates THEN "idle" ELSE "ready"]
    /\ corr = [c \in Calls |-> 0]
    /\ inbox = [c \in Calls |-> NoCall]
    /\ result = [c \in Calls |-> "none"]
    /\ nextId = 0
    /\ requests = [i \in Ids |-> NoCall]
    /\ closed = FALSE
    /\ dispatcher = "running"
    /\ handler = FALSE
    /\ spawned = {}
    /\ chanClosed = FALSE
    /\ heartbeat = TRUE
    /\ connected = TRUE
    /\ toServer = <<>>
    /\ toClient = <<>>
    /\ executed = {}
    /\ pushed = {}

-----------------------------------------------------------------------------
(* A call: response_channel, channel.send, receiver.recv.                  *)

Goto(c, label) == pc' = [pc EXCEPT ![c] = label]

Return(c, r) ==
    /\ Goto(c, "done")
    /\ result' = [result EXCEPT ![c] = r]

\* Client::close looks at the channel's flag before it sends anything.
CloseAlreadyClosed(c) ==
    /\ c \in Closers
    /\ pc[c] = "ready"
    /\ chanClosed
    /\ Return(c, "AlreadyClosed")
    /\ UNCHANGED <<corr, inbox, mapVars, taskVars, chanVars, netVars>>

\* response_channel: correlation_id.fetch_add(1), which wraps around.
FetchId(c) ==
    /\ pc[c] = "ready"
    /\ c \in Closers => ~chanClosed
    /\ corr' = [corr EXCEPT ![c] = nextId]
    /\ nextId' = (nextId + 1) % IdMod
    /\ Goto(c, "check")
    /\ UNCHANGED <<inbox, result, requests, closed, taskVars, chanVars, netVars>>

\* RequestsMap::insert, first half: the load of the closed flag.
CheckClosed(c) ==
    /\ pc[c] = "check"
    /\ IF closed THEN Return(c, "ConnectionClosed")
                 ELSE Goto(c, "insert") /\ UNCHANGED result
    /\ UNCHANGED <<corr, inbox, mapVars, taskVars, chanVars, netVars>>

\* RequestsMap::insert, second half.  An entry that was already there is
\* replaced, and its sender dropped.
InsertRequest(c) ==
    /\ pc[c] = "insert"
    /\ requests' = [requests EXCEPT ![corr[c]] = c]
    /\ Goto(c, "send")
    /\ UNCHANGED <<corr, inbox, result, nextId, closed, taskVars, chanVars,
                   netVars>>

\* consumer_update ignores the id it was given and puts the broker's in its place.
IdToSend(c) == IF c \in Updates THEN ServerId[c] ELSE corr[c]

\* The request a call writes, whichever method of Client makes it.
Request(c) == [id |-> IdToSend(c), call |-> c]

\* The write reaches the socket.  On a connection that is down it may still
\* succeed, into a buffer nobody reads.
SendOk(c) ==
    /\ pc[c] = "send"
    /\ ~chanClosed
    /\ toServer' = IF connected
                   THEN Append(toServer, Request(c))
                   ELSE toServer
    /\ Goto(c, "recv")
    /\ UNCHANGED <<corr, inbox, result, mapVars, taskVars, chanVars, connected,
                   toClient, executed, pushed>>

\* channel.send(..).await? returns: the entry stays in the map.
SendError(c) ==
    /\ pc[c] = "send"
    /\ chanClosed \/ ~connected
    /\ Return(c, "Io")
    /\ UNCHANGED <<corr, inbox, mapVars, taskVars, chanVars, netVars>>

\* receiver.recv() yields the answer; close goes on to its second half.
RecvAnswer(c) ==
    /\ pc[c] = "recv"
    /\ inbox[c] # NoCall
    /\ IF c \in Closers THEN Goto(c, "stop") /\ UNCHANGED result
                        ELSE Return(c, "ok")
    /\ UNCHANGED <<corr, inbox, mapVars, taskVars, chanVars, netVars>>

\* Mutant of RecvNone: an empty channel is taken for a closed one.
RecvNoneTry(c) ==
    /\ pc[c] = "recv"
    /\ inbox[c] = NoCall
    /\ Return(c, "ConnectionClosed")
    /\ UNCHANGED <<corr, inbox, mapVars, taskVars, chanVars, netVars>>

\* receiver.recv() yields None: the channel is empty and its sender, which
\* only the map holds, has been dropped.
RecvNone(c) ==
    /\ pc[c] = "recv"
    /\ inbox[c] = NoCall
    /\ requests[corr[c]] # c
    /\ Return(c, "ConnectionClosed")
    /\ UNCHANGED <<corr, inbox, mapVars, taskVars, chanVars, netVars>>

\* The caller drops the future (a tokio timeout, a select!) while it waits.
Cancel(c) ==
    /\ pc[c] \in {"send", "recv"}
    /\ Return(c, "cancelled")
    /\ UNCHANGED <<corr, inbox, mapVars, taskVars, chanVars, netVars>>

\* Mutant of StopHeartbeat: the task handle is kept.
StopHeartbeatNot(c) ==
    /\ pc[c] = "stop"
    /\ Goto(c, "shutdown")
    /\ UNCHANGED <<corr, inbox, result, mapVars, taskVars, chanVars, netVars>>

\* Client::close, after its answer: heartbeat_task.take() aborts the task.
StopHeartbeat(c) ==
    /\ pc[c] = "stop"
    /\ heartbeat' = FALSE
    /\ Goto(c, "shutdown")
    /\ UNCHANGED <<corr, inbox, result, mapVars, taskVars, chanClosed, netVars>>

\* ChannelSender::close: sink.close(), then the flag.  Closing a socket that
\* is already dead may fail, and then the flag is not set.
Shutdown(c) ==
    /\ pc[c] = "shutdown"
    /\ \/ Return(c, "ok") /\ chanClosed' = TRUE
       \/ ~connected /\ Return(c, "Io") /\ UNCHANGED chanClosed
    /\ UNCHANGED <<corr, inbox, mapVars, taskVars, heartbeat, netVars>>

-----------------------------------------------------------------------------
(* The dispatcher task: handle_response, dispatch, notify, close.          *)

\* Response::correlation_id: of all that the broker sends of its own accord, only
\* a ConsumerUpdate has one.
HasCorrelationId(frame) == frame.kind # "push"

\* Mutant of IsResponse: every frame with a correlation id is a response.
IsResponseById(frame) == HasCorrelationId(frame)

\* handle_response sends a frame to the requests map when it has a correlation
\* id and is not a ConsumerUpdate, whose id the broker chose: such an id says
\* nothing about the client's own requests.
IsResponse(frame) == HasCorrelationId(frame) /\ frame.kind # "update"

\* dispatch: the sender is taken out of the map and the answer sent to it.
\* A receiver that is gone loses the answer.
Deliver(frame) ==
    LET c == requests[frame.id]
    IN  /\ requests' = [requests EXCEPT ![frame.id] = NoCall]
        /\ inbox' = IF c # NoCall /\ pc[c] # "done"
                    THEN [inbox EXCEPT ![c] = frame.call]
                    ELSE inbox

DispatchReply ==
    /\ dispatcher = "running"
    /\ toClient # <<>>
    /\ IsResponse(Head(toClient))
    /\ Deliver(Head(toClient))
    /\ toClient' = Tail(toClient)
    /\ UNCHANGED <<pc, corr, result, nextId, closed, taskVars, chanVars,
                   connected, toServer, executed, pushed>>

\* notify -> Client::handle_message: the frame goes to a spawned task, if a
\* handler is set.  The task of a ConsumerUpdate answers through Client::consumer_update.
Notify ==
    /\ dispatcher = "running"
    /\ toClient # <<>>
    /\ ~IsResponse(Head(toClient))
    /\ LET f == Head(toClient)
       IN  IF ~handler
           THEN UNCHANGED <<spawned, pc>>
           ELSE IF f.kind = "push"
           THEN spawned' = spawned \cup {f.push} /\ UNCHANGED pc
           ELSE spawned' = spawned \cup {f.call} /\ Goto(f.call, "ready")
    /\ toClient' = Tail(toClient)
    /\ UNCHANGED <<corr, inbox, result, mapVars, dispatcher, handler, chanVars,
                   connected, toServer, executed, pushed>>

\* Mutant of EndOfFile: the task exits without closing the dispatcher.
EndOfFileExit ==
    /\ dispatcher = "running"
    /\ toClient = <<>>
    /\ ~connected
    /\ dispatcher' = "done"
    /\ UNCHANGED <<callVars, mapVars, handler, spawned, chanVars, netVars>>

\* stream.next() yields None: the peer has closed, everything has been read.
EndOfFile ==
    /\ dispatcher = "running"
    /\ toClient = <<>>
    /\ ~connected
    /\ dispatcher' = "ended"
    /\ UNCHANGED <<callVars, mapVars, handler, spawned, chanVars, netVars>>

\* stream.next() yields an error (a frame that cannot be decoded, a reset):
\* the loop breaks, whatever is still to be read and though the peer is there.
StreamError ==
    /\ dispatcher = "running"
    /\ toClient # <<>>
    /\ dispatcher' = "ended"
    /\ UNCHANGED <<callVars, mapVars, handler, spawned, chanVars, netVars>>

\* Mutant of CloseStore: the map is cleared before it is marked closed.
CloseStoreLate ==
    /\ dispatcher = "ended"
    /\ requests' = [i \in Ids |-> NoCall]
    /\ dispatcher' = "stored"
    /\ UNCHANGED <<callVars, nextId, closed, handler, spawned, chanVars, netVars>>

\* RequestsMap::close: closed.store(true) ...
CloseStore ==
    /\ dispatcher = "ended"
    /\ closed' = TRUE
    /\ dispatcher' = "stored"
    /\ UNCHANGED <<callVars, nextId, requests, handler, spawned, chanVars,
                   netVars>>

\* Mutant of CloseClear: the entries stay.
CloseClearNot ==
    /\ dispatcher = "stored"
    /\ dispatcher' = "cleared"
    /\ UNCHANGED <<callVars, mapVars, handler, spawned, chanVars, netVars>>

\* ... then requests.clear(), which drops every sender.
CloseClear ==
    /\ dispatcher = "stored"
    /\ requests' = [i \in Ids |-> NoCall]
    /\ dispatcher' = "cleared"
    /\ UNCHANGED <<callVars, nextId, closed, handler, spawned, chanVars, netVars>>

\* DispatcherState::close ends by handing None to the handler; the task exits.
CloseNotify ==
    /\ dispatcher = "cleared"
    /\ dispatcher' = "done"
    /\ spawned' = IF handler THEN spawned \cup {NoCall} ELSE spawned
    /\ UNCHANGED <<callVars, mapVars, handler, chanVars, netVars>>

SetHandler ==
    /\ ~handler
    /\ handler' = TRUE
    /\ UNCHANGED <<callVars, mapVars, dispatcher, spawned, chanVars, netVars>>

-----------------------------------------------------------------------------
(* The broker and the network, as the client meets them (external).        *)

\* The broker executes the next request and answers it with its id.  It
\* does not answer the ConsumerUpdate response of an update.
Serve ==
    /\ connected
    /\ toServer # <<>>
    /\ LET r == Head(toServer)
       IN  /\ executed' = executed \cup {r.call}
           /\ toClient' = IF r.call \in Updates THEN toClient
                          ELSE Append(toClient, [kind |-> "reply", id |-> r.id,
                                                 call |-> r.call])
    /\ toServer' = Tail(toServer)
    /\ UNCHANGED <<callVars, mapVars, taskVars, chanVars, connected, pushed>>

\* The broker sends, of its own accord, a ConsumerUpdate or a frame without
\* correlation id.
Push ==
    /\ connected
    /\ \E p \in (Pushes \cup Updates) \ pushed :
          /\ pushed' = pushed \cup {p}
          /\ toClient' = Append(toClient,
                                IF p \in Updates
                                THEN [kind |-> "update", id |-> ServerId[p],
                                      call |-> p]
                                ELSE [kind |-> "push", push |-> p])
    /\ UNCHANGED <<callVars, mapVars, taskVars, chanVars, connected, toServer,
                   executed>>

\* The connection goes down.  What was on its way to the broker is lost, what
\* was on its way to the client is received up to some frame.
Disconnect ==
    /\ connected
    /\ connected' = FALSE
    /\ toServer' = <<>>
    /\ \E n \in 0 .. Len(toClient) : toClient' = SubSeq(toClient, 1, n)
    /\ UNCHANGED <<callVars, mapVars, taskVars, chanVars, executed, pushed>>

-----------------------------------------------------------------------------
CallStep(c) ==
    \/ CloseAlreadyClosed(c)
    \/ FetchId(c)
    \/ CheckClosed(c)
    \/ InsertRequest(c)
    \/ SendOk(c)
    \/ SendError(c)
    \/ RecvAnswer(c)
    \/ RecvNone(c)
    \/ StopHeartbeat(c)
    \/ Shutdown(c)

ReadStep == DispatchReply \/ Notify

CloseStep == CloseStore \/ CloseClear \/ CloseNotify

Next ==
    \/ \E c \in Calls : CallStep(c) \/ Cancel(c)
    \/ ReadStep
    \/ EndOfFile
    \/ StreamError
    \/ CloseStep
    \/ SetHandler
    \/ Serve
    \/ Push
    \/ Disconnect

Spec == Init /\ [][Next]_vars

(***************************************************************************)
(* Fairness.  Every task that tokio can run is eventually polled, so a     *)
(* call and the dispatcher task do not stop between two steps.  Of the     *)
(* broker: it goes on executing requests, and hangs up once the client has *)
(* shut the connection down.  Nothing makes a handler appear, a frame be   *)
(* pushed, a stream fail or a caller give up.                              *)
(***************************************************************************)
Fairness ==
    /\ \A c \in Calls : WF_vars(CallStep(c))
    /\ WF_vars(ReadStep)
    /\ WF_vars(EndOfFile)
    /\ WF_vars(CloseStep)
    /\ WF_vars(Serve)
    /\ WF_vars(chanClosed /\ Disconnect)

FairSpec == Spec /\ Fairness

-----------------------------------------------------------------------------
(* Properties.                                                             *)

\* dispatch hands a response to the caller whose request it answers: with
\* several calls outstanding, callers that gave up, entries left behind by a
\* failed write and a late answer, no call ever holds another call's answer.
AnswerIsMine ==
    \A c \in Calls : inbox[c] # NoCall => inbox[c] = c

\* As long as RequestsMap::close has not begun, a call that is sending or waits
\* has its sender in the map or its answer in its channel: no answer, failed
\* write or cancelled call takes the entry of another one away.
WaitingIsRegistered ==
    \A c \in Calls :
        pc[c] \in {"send", "recv"} /\ ~closed =>
            requests[corr[c]] = c \/ inbox[c] = c

\* Client::close stops the heartbeat task before it marks the channel closed,
\* so no heartbeat is written to a channel that is closed.
NoHeartbeatOnClosedChannel == chanClosed => ~heartbeat

\* A call that waits for its answer when the stream has not been torn down
\* returns: the broker answers it, or RequestsMap::close drops its sender.
\* (A consumer_update is not answered; it returns once the stream has ended.)
WaitingCallsReturn ==
    \A c \in Calls :
        (/\ pc[c] = "recv"
         /\ \/ dispatcher \in {"ended", "stored"}
            \/ dispatcher = "running" /\ c \notin Updates)
        ~> (pc[c] # "recv")

\* After a close() that returned Ok the dispatcher task ends, and with it the
\* requests map is closed: close really takes the whole client down.
CloseEndsDispatcher ==
    (\E c \in Closers : result[c] = "ok") ~> (dispatcher = "done" /\ closed)

\* A call that waits gets a result, whenever it began to wait.  The test
\* client_handle_unexpected_connection_interruption asks a caller that meets
\* the end of the connection to be told ConnectionClosed.
EveryCallReturns ==
    \A c \in Calls \ Updates : (pc[c] = "recv") ~> (pc[c] # "recv")

-----------------------------------------------------------------------------
(* The machinery implements the promise of RpcService.                     *)

\* A close() whose request was answered is answered, even if shutting the
\* socket down then fails.
Outcome(c) ==
    CASE pc[c] \in {"idle", "ready"} -> "idle"
      [] pc[c] \in {"check", "insert", "send", "recv"} -> "pending"
      [] pc[c] \in {"stop", "shutdown"} -> "ok"
      [] pc[c] = "done" /\ result[c] = "cancelled" -> "abandoned"
      [] pc[c] = "done" /\ result[c] # "cancelled" ->
            IF inbox[c] # NoCall THEN "ok" ELSE "failed"

Service == INSTANCE RpcService
             WITH outcome  <- [c \in Calls |-> Outcome(c)],
                  executed <- executed,
                  broken   <- ~connected \/ chanClosed \/ dispatcher # "running"

\* A call answered Ok was executed by the broker, at most once, and a call
\* fails only when the connection is down, closed, or its reader has stopped.
ImplementsRpcService == Service!Spec
=============================================================================
