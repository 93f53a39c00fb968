-------------------------- MODULE DispatcherProofs --------------------------
(***************************************************************************)
(* Theorems about Dispatcher, for any finite set of calls.                 *)
(***************************************************************************)
EXTENDS Dispatcher, SequenceTheorems, FiniteSetTheorems, TLAPS

\* The initial state is well typed.
LEMMA TypeInit == Init => TypeOK
  BY IdModAssumption, CallsAssumption
     DEF Init, TypeOK, Ids, Replies, Frames, Requests

\* Every step of Dispatcher keeps the type invariant.
LEMMA TypeStep ==
  ASSUME TypeOK, [Next]_vars
  PROVE  TypeOK'
<1> USE IdModAssumption, CallsAssumption, ServerIdAssumption
<1>1. ASSUME NEW c \in Calls, CallStep(c) PROVE TypeOK'
  <2>1. CASE CloseAlreadyClosed(c)
    BY <2>1 DEF CloseAlreadyClosed, Return, Goto, TypeOK, mapVars, taskVars,
                chanVars, netVars
  <2>2. CASE FetchId(c)
    <3>1. (nextId + 1) % IdMod \in Ids
      BY DEF TypeOK, Ids
    <3> QED
      BY <2>2, <3>1 DEF FetchId, Goto, TypeOK, taskVars, chanVars, netVars
  <2>3. CASE CheckClosed(c)
    BY <2>3, ZenonT(40) DEF CheckClosed, Return, Goto, TypeOK, mapVars, taskVars,
                chanVars, netVars
  <2>4. CASE InsertRequest(c)
    BY <2>4 DEF InsertRequest, Goto, TypeOK, taskVars, chanVars, netVars
  <2>5. CASE SendOk(c)
    <3>1. Request(c) \in Requests
      BY DEF Request, IdToSend, Requests, TypeOK, Ids
    <3>2. toServer' \in Seq(Requests)
      BY <2>5, <3>1 DEF SendOk, TypeOK
    <3> QED
      BY <2>5, <3>2 DEF SendOk, Goto, TypeOK, mapVars, taskVars, chanVars
  <2>6. CASE SendError(c)
    BY <2>6 DEF SendError, Return, Goto, TypeOK, mapVars, taskVars, chanVars,
                netVars
  <2>7. CASE RecvAnswer(c)
    BY <2>7, ZenonT(40) DEF RecvAnswer, Return, Goto, TypeOK, mapVars, taskVars, chanVars,
                netVars
  <2>8. CASE RecvNone(c)
    BY <2>8 DEF RecvNone, Return, Goto, TypeOK, mapVars, taskVars, chanVars,
                netVars
  <2>9. CASE StopHeartbeat(c)
    BY <2>9 DEF StopHeartbeat, Goto, TypeOK, mapVars, taskVars, netVars
  <2>10. CASE Shutdown(c)
    BY <2>10, ZenonT(40) DEF Shutdown, Return, Goto, TypeOK, mapVars, taskVars, netVars
  <2> QED
    BY <1>1, <2>1, <2>2, <2>3, <2>4, <2>5, <2>6, <2>7, <2>8, <2>9, <2>10
       DEF CallStep
<1>2. ASSUME NEW c \in Calls, Cancel(c) PROVE TypeOK'
  BY <1>2 DEF Cancel, Return, Goto, TypeOK, mapVars, taskVars, chanVars,
              netVars
<1>3. CASE ReadStep
  <2> DEFINE f == Head(toClient)
  <2>0. toClient # <<>>
    BY <1>3 DEF ReadStep, DispatchReply, Notify
  <2>1. f \in Frames /\ Tail(toClient) \in Seq(Frames)
    BY <2>0, HeadTailProperties DEF TypeOK
  <2>2. CASE DispatchReply
    <3>1. f \in Replies
      BY <2>1, <2>2 DEF DispatchReply, IsResponse, HasCorrelationId, Frames, Replies
    <3>2. /\ requests' \in [Ids -> Calls \cup {NoCall}]
          /\ inbox' \in [Calls -> Calls \cup {NoCall}]
      BY <2>2, <3>1 DEF DispatchReply, Deliver, TypeOK, Replies
    <3> QED
      BY <2>1, <2>2, <3>2 DEF DispatchReply, TypeOK, taskVars, chanVars
  <2>3. CASE Notify
    <3>1. f.kind = "push" \/ f.kind = "update"
      BY <2>1, <2>3 DEF Notify, IsResponse, HasCorrelationId, Frames, Replies
    <3>2. CASE ~handler
      BY <2>1, <2>3, <3>2 DEF Notify, TypeOK, mapVars, chanVars
    <3>3. CASE handler /\ f.kind = "push"
      <4>1. f.push \in Pushes
        BY <2>1, <3>3 DEF Frames, Replies
      <4> QED
        BY <2>1, <2>3, <3>3, <4>1 DEF Notify, TypeOK, mapVars, chanVars
    <3>4. CASE handler /\ f.kind = "update"
      <4>1. f.call \in Updates /\ f.call \in Calls
        BY <2>1, <3>4 DEF Frames, Replies
      <4>2. /\ spawned' = spawned \cup {f.call}
            /\ pc' = [pc EXCEPT ![f.call] = "ready"]
        BY <2>3, <3>4 DEF Notify, Goto
      <4> QED
        BY <2>1, <2>3, <4>1, <4>2 DEF Notify, TypeOK, mapVars, chanVars
    <3> QED
      BY <3>1, <3>2, <3>3, <3>4
  <2> QED
    BY <1>3, <2>2, <2>3 DEF ReadStep
<1>4. CASE EndOfFile \/ StreamError
  BY <1>4 DEF EndOfFile, StreamError, TypeOK, callVars, mapVars, chanVars,
              netVars
<1>5. CASE CloseStep
  BY <1>5 DEF CloseStep, CloseStore, CloseClear, CloseNotify, TypeOK,
              callVars, mapVars, chanVars, netVars
<1>6. CASE SetHandler
  BY <1>6 DEF SetHandler, TypeOK, callVars, mapVars, chanVars, netVars
<1>7. CASE Serve
  <2> DEFINE r == Head(toServer)
  <2>1. r \in Requests /\ Tail(toServer) \in Seq(Requests)
    BY <1>7, HeadTailProperties DEF Serve, TypeOK
  <2>2. [kind |-> "reply", id |-> r.id, call |-> r.call] \in Frames
    BY <2>1 DEF Requests, Frames, Replies
  <2>3. r.call \in Calls
    BY <2>1 DEF Requests
  <2>4. toClient' \in Seq(Frames)
    BY <1>7, <2>2 DEF Serve, TypeOK
  <2> QED
    BY <1>7, <2>1, <2>3, <2>4 DEF Serve, TypeOK, callVars, mapVars, taskVars,
                                  chanVars
<1>8. CASE Push
  <2>1. PICK p \in (Pushes \cup Updates) \ pushed :
           /\ pushed' = pushed \cup {p}
           /\ toClient' = Append(toClient,
                            IF p \in Updates
                            THEN [kind |-> "update", id |-> ServerId[p],
                                  call |-> p]
                            ELSE [kind |-> "push", push |-> p])
    BY <1>8 DEF Push
  <2>2. toClient' \in Seq(Frames)
    BY <2>1 DEF TypeOK, Frames, Ids
  <2> QED
    BY <1>8, <2>1, <2>2 DEF Push, TypeOK, callVars, mapVars, taskVars, chanVars
<1>9. CASE Disconnect
  <2>1. PICK n \in 0 .. Len(toClient) : toClient' = SubSeq(toClient, 1, n)
    BY <1>9 DEF Disconnect
  <2>2. toClient' \in Seq(Frames)
    BY <2>1, SubSeqProperties, ElementOfSeq DEF TypeOK
  <2>3. toServer' \in Seq(Requests)
    BY <1>9, EmptySeq DEF Disconnect
  <2> QED
    BY <1>9, <2>2, <2>3 DEF Disconnect, TypeOK, callVars, mapVars, taskVars, chanVars
<1>10. CASE UNCHANGED vars
  BY <1>10 DEF TypeOK, vars, callVars, mapVars, taskVars, chanVars, netVars
<1>11. CASE \E c \in Calls : CallStep(c) \/ Cancel(c)
  BY <1>1, <1>2, <1>11
<1> QED
  BY <1>3, <1>4, <1>5, <1>6, <1>7, <1>8, <1>9, <1>10, <1>11
     DEF Next

(***************************************************************************)
(* Every variable keeps its type: in particular the correlation counter    *)
(* stays below IdMod, and only frames the client knows are on the wire.    *)
(***************************************************************************)
THEOREM TypeCorrect == Spec => []TypeOK
  BY TypeInit, TypeStep, PTL DEF Spec

-----------------------------------------------------------------------------
(***************************************************************************)
(* The inductive invariant.  A call is Fetched once it holds a correlation *)
(* id, and Sent once its request may have been written.  Fetched calls     *)
(* hold different ids because there are no more calls than ids; what the   *)
(* map and the wire associate with an id therefore always concerns the one *)
(* call that holds it.                                                     *)
(***************************************************************************)
Fetched == {c \in Calls : pc[c] \notin {"idle", "ready"}
                          /\ result[c] # "AlreadyClosed"}

Sent == {c \in Fetched : pc[c] \notin {"check", "insert", "send"}}

IdsDistinct ==
    /\ nextId = Cardinality(Fetched) % IdMod
    /\ \A c \in Fetched : corr[c] < Cardinality(Fetched)
    /\ \A c, d \in Fetched : corr[c] = corr[d] => c = d

EntriesMatch ==
    \A i \in Ids : requests[i] # NoCall =>
        /\ requests[i] \in Fetched
        /\ pc[requests[i]] \notin {"check", "insert"}
        /\ corr[requests[i]] = i

RequestsMatch ==
    /\ \A i \in 1 .. Len(toServer) :
          /\ toServer[i].call \in Sent \ executed
          /\ toServer[i].call \notin Updates =>
                toServer[i].id = corr[toServer[i].call]
    /\ \A i, j \in 1 .. Len(toServer) :
          toServer[i].call = toServer[j].call => i = j

RepliesMatch ==
    \A i \in 1 .. Len(toClient) : toClient[i].kind = "reply" =>
        /\ toClient[i].call \in executed
        /\ toClient[i].id = corr[toClient[i].call]

UpdatesFresh ==
    /\ \A u \in Updates \ pushed : pc[u] = "idle"
    /\ \A i \in 1 .. Len(toClient) : toClient[i].kind = "update" =>
          toClient[i].call \in pushed /\ pc[toClient[i].call] = "idle"
    /\ \A i, j \in 1 .. Len(toClient) :
          /\ toClient[i].kind = "update"
          /\ toClient[j].kind = "update"
          /\ toClient[i].call = toClient[j].call
          => i = j

Progress ==
    /\ executed \subseteq Sent
    /\ \A c \in Calls : inbox[c] # NoCall => inbox[c] = c /\ c \in executed
    /\ \A c \in Calls : pc[c] # "done" => result[c] = "none"
    /\ \A c \in Calls : pc[c] \in {"stop", "shutdown"} => inbox[c] # NoCall
    /\ closed <=> dispatcher \in {"stored", "cleared", "done"}

Inv == /\ TypeOK
       /\ IdsDistinct
       /\ EntriesMatch
       /\ RequestsMatch
       /\ RepliesMatch
       /\ UpdatesFresh
       /\ Progress
       /\ WaitingIsRegistered

-----------------------------------------------------------------------------
\* The calls that hold an id are a finite set no larger than Calls, so an id
\* is left for a call that has none.
LEMMA FetchedFinite ==
  /\ IsFiniteSet(Fetched)
  /\ Cardinality(Fetched) \in Nat
  /\ Cardinality(Fetched) <= IdMod
  /\ \A c \in Calls \ Fetched : Cardinality(Fetched) < IdMod
<1>1. Fetched \in SUBSET Calls
  BY DEF Fetched
<1>2. /\ IsFiniteSet(Fetched)
      /\ Cardinality(Fetched) <= Cardinality(Calls)
      /\ Cardinality(Calls) = Cardinality(Fetched) => Calls = Fetched
  BY <1>1, CallsAssumption, FS_Subset
<1>3. Cardinality(Fetched) \in Nat /\ Cardinality(Calls) \in Nat
  BY <1>2, CallsAssumption, FS_CardinalityType
<1> QED
  BY <1>1, <1>2, <1>3, IdModAssumption

\* The invariant holds initially.
LEMMA InvInit == Init => Inv
<1> SUFFICES ASSUME Init PROVE Inv
  OBVIOUS
<1> USE IdModAssumption, CallsAssumption
<1>1. TypeOK
  BY TypeInit
<1>2. Fetched = {}
  BY DEF Init, Fetched
<1>3. IdsDistinct
  BY <1>2, FS_EmptySet DEF Init, IdsDistinct
<1>4. EntriesMatch /\ RequestsMatch /\ RepliesMatch /\ UpdatesFresh
  BY DEF Init, EntriesMatch, RequestsMatch, RepliesMatch, UpdatesFresh
<1>5. Progress
  BY <1>2 DEF Init, Progress, Sent
<1>6. WaitingIsRegistered
  BY DEF Init, WaitingIsRegistered
<1> QED
  BY <1>1, <1>3, <1>4, <1>5, <1>6 DEF Inv

\* Of the steps of a call, only FetchId gives out an id; the others leave the
\* set of calls that hold one, and their ids, as they are.
LEMMA SameIds ==
  ASSUME IdsDistinct, Fetched' = Fetched, nextId' = nextId, corr' = corr
  PROVE  IdsDistinct'
BY DEF IdsDistinct

\* FetchId gives the call an id that no other call holds.
LEMMA FetchIdInv ==
  ASSUME Inv, TypeOK', NEW c \in Calls, FetchId(c)
  PROVE  Inv'
<1> USE IdModAssumption, CallsAssumption DEF Inv
<1> DEFINE n == Cardinality(Fetched)
<1>1. c \notin Fetched /\ pc[c] = "ready" /\ result[c] = "none"
  BY DEF FetchId, Fetched, Progress
<1>2. Fetched' = Fetched \cup {c}
  BY <1>1 DEF FetchId, Fetched, Goto, TypeOK
<1>3. n \in Nat /\ n < IdMod /\ Cardinality(Fetched') = n + 1
  BY <1>1, <1>2, FetchedFinite, FS_AddElement
<1>4. nextId = n
  BY <1>3 DEF IdsDistinct
<1>5. /\ corr'[c] = n
      /\ \A d \in Fetched : corr'[d] = corr[d] /\ corr[d] < n /\ corr[d] \in Int
  <2>1. corr' = [corr EXCEPT ![c] = n]
    BY <1>4 DEF FetchId
  <2>2. corr \in [Calls -> Int]
    BY DEF TypeOK, Ids
  <2>3. \A d \in Fetched : d \in Calls /\ d # c /\ corr[d] < n
    BY <1>1 DEF IdsDistinct, Fetched
  <2> QED
    BY <2>1, <2>2, <2>3
<1>6. IdsDistinct'
  <2>1. nextId' = Cardinality(Fetched') % IdMod
    BY <1>3, <1>4 DEF FetchId
  <2>2. \A d \in Fetched' : corr'[d] < n + 1
    BY <1>2, <1>3, <1>5
  <2>3. \A d, e \in Fetched' : corr'[d] = corr'[e] => d = e
    BY <1>2, <1>3, <1>5 DEF IdsDistinct
  <2> QED
    BY <1>3, <2>1, <2>2, <2>3 DEF IdsDistinct
<1>7. Sent' = Sent
  BY <1>1, <1>2 DEF Sent, FetchId, Goto, TypeOK, Fetched
<1>8. EntriesMatch'
  BY <1>1, <1>2, <1>5 DEF EntriesMatch, FetchId, Goto, TypeOK
<1>9. RequestsMatch'
  BY <1>1, <1>5, <1>7 DEF RequestsMatch, FetchId, netVars, Sent
<1>10. RepliesMatch'
  BY <1>1, <1>5 DEF RepliesMatch, FetchId, netVars, Progress, Sent
<1>11. UpdatesFresh'
  BY <1>1 DEF UpdatesFresh, FetchId, Goto, netVars, TypeOK
<1>12. Progress'
  BY <1>1, <1>7 DEF Progress, FetchId, Goto, netVars, taskVars, TypeOK
<1>13. WaitingIsRegistered'
  BY <1>1 DEF WaitingIsRegistered, FetchId, Goto, TypeOK
<1> QED
  BY <1>6, <1>8, <1>9, <1>10, <1>11, <1>12, <1>13

\* A step that only moves one call forward, past nothing the map or the wire
\* knows of, keeps the invariant.
LEMMA PcStepInv ==
  ASSUME Inv, TypeOK', NEW c \in Calls,
         UNCHANGED <<corr, inbox, mapVars, taskVars, netVars>>,
         \A d \in Calls \ {c} : pc'[d] = pc[d] /\ result'[d] = result[d],
         pc[c] # "idle",
         pc'[c] \notin {"idle", "ready", "check", "send"},
         pc'[c] = "insert" => pc[c] = "check",
         pc'[c] = "recv" => pc[c] = "send",
         pc[c] = "send" => pc'[c] \in {"recv", "done"},
         result'[c] = "AlreadyClosed" <=> pc[c] = "ready",
         pc'[c] # "done" => result'[c] = "none",
         pc'[c] \in {"stop", "shutdown"} => inbox[c] # NoCall,
         pc[c] # "done"
  PROVE  Inv'
<1> USE CallsAssumption DEF Inv
<1>1. UNCHANGED <<corr, inbox, nextId, requests, closed, dispatcher, toServer,
                  toClient, executed, pushed>>
  BY DEF mapVars, taskVars, netVars
<1>2. result[c] = "none"
  BY DEF Progress
<1>3. Fetched' = Fetched
  BY <1>2 DEF Fetched, TypeOK
<1>4. Sent \subseteq Sent' /\ Sent' \subseteq Fetched
  BY <1>2, <1>3 DEF Sent, Fetched
<1>5. IdsDistinct'
  BY <1>1, <1>3, SameIds
<1>6. EntriesMatch'
  BY <1>1, <1>3 DEF EntriesMatch, Fetched
<1>7. RequestsMatch' /\ RepliesMatch'
  BY <1>1, <1>4 DEF RequestsMatch, RepliesMatch
<1>8. UpdatesFresh'
  <2>1. \A d \in Calls : pc[d] = "idle" => pc'[d] = "idle"
    OBVIOUS
  <2>2. Updates \subseteq Calls
    OBVIOUS
  <2>3. pushed \subseteq pushed' /\ toClient' = toClient /\ pushed' = pushed
    BY <1>1
  <2>4. \A i \in 1 .. Len(toClient) : toClient[i].kind = "update" =>
           toClient[i].call \in Calls
    <3> SUFFICES ASSUME NEW i \in 1 .. Len(toClient), toClient[i].kind = "update"
                 PROVE  toClient[i].call \in Calls
      OBVIOUS
    <3>1. toClient[i] \in Frames
      BY ElementOfSeq DEF TypeOK
    <3> QED
      BY <3>1 DEF Frames, Replies
  <2> QED
    BY <2>1, <2>2, <2>3, <2>4 DEF UpdatesFresh
<1>9. Progress'
  BY <1>1, <1>4 DEF Progress
<1>10. WaitingIsRegistered'
  BY <1>1 DEF WaitingIsRegistered
<1> QED
  BY <1>5, <1>6, <1>7, <1>8, <1>9, <1>10

\* The entry a call inserts is its own: no other call holds its id.
LEMMA InsertRequestInv ==
  ASSUME Inv, TypeOK', NEW c \in Calls, InsertRequest(c)
  PROVE  Inv'
<1> USE CallsAssumption DEF Inv
<1>1. /\ pc[c] = "insert" /\ result[c] = "none" /\ c \in Fetched
      /\ corr[c] \in Ids
      /\ pc' = [pc EXCEPT ![c] = "send"]
      /\ requests' = [requests EXCEPT ![corr[c]] = c]
  BY DEF InsertRequest, Goto, Progress, TypeOK, Fetched
<1>2. UNCHANGED <<corr, inbox, result, nextId, closed, dispatcher, toServer,
                  toClient, executed, pushed>>
  BY DEF InsertRequest, taskVars, netVars
<1>3. Fetched' = Fetched /\ Sent' = Sent
  BY <1>1, <1>2 DEF Fetched, Sent, TypeOK
<1>4. IdsDistinct'
  BY <1>2, <1>3, SameIds
<1>5. EntriesMatch'
  BY <1>1, <1>2, <1>3 DEF EntriesMatch, TypeOK, Fetched
<1>6. RequestsMatch' /\ RepliesMatch'
  BY <1>2, <1>3 DEF RequestsMatch, RepliesMatch
<1>7. UpdatesFresh'
  BY <1>1, <1>2, SMTT(30) DEF UpdatesFresh, TypeOK
<1>8. Progress'
  BY <1>1, <1>2, <1>3 DEF Progress, TypeOK
<1>9. WaitingIsRegistered'
  <2> SUFFICES ASSUME NEW d \in Calls, pc'[d] \in {"send", "recv"}, ~closed'
               PROVE  requests'[corr[d]] = d \/ inbox[d] = d
    BY <1>2 DEF WaitingIsRegistered
  <2>1. CASE d = c
    BY <1>1, <2>1 DEF TypeOK
  <2>2. CASE d # c
    <3>1. pc[d] = pc'[d] /\ d \in Fetched
      BY <1>1, <1>2, <2>2, SMTT(30) DEF TypeOK, Fetched, Progress
    <3>2. corr[d] # corr[c]
      BY <1>1, <2>2, <3>1 DEF IdsDistinct
    <3> QED
      BY <1>1, <1>2, <3>1, <3>2 DEF WaitingIsRegistered, TypeOK
  <2> QED
    BY <2>1, <2>2
<1> QED
  BY <1>4, <1>5, <1>6, <1>7, <1>8, <1>9

\* A request is written with the id of its call, and only once.
LEMMA SendOkInv ==
  ASSUME Inv, TypeOK', NEW c \in Calls, SendOk(c)
  PROVE  Inv'
<1> USE CallsAssumption DEF Inv
<1>1. /\ pc[c] = "send" /\ result[c] = "none" /\ c \in Fetched \ Sent
      /\ pc' = [pc EXCEPT ![c] = "recv"]
  BY DEF SendOk, Goto, Progress, Fetched, Sent
<1>2. UNCHANGED <<corr, inbox, result, nextId, requests, closed, dispatcher,
                  toClient, executed, pushed>>
  BY DEF SendOk, mapVars, taskVars
<1>3. Fetched' = Fetched /\ Sent' = Sent \cup {c}
  BY <1>1, <1>2 DEF Fetched, Sent, TypeOK
<1>4. IdsDistinct'
  BY <1>2, <1>3, SameIds
<1>5. EntriesMatch'
  BY <1>1, <1>2, <1>3 DEF EntriesMatch, TypeOK, Fetched
<1>6. RequestsMatch'
  <2>1. CASE toServer' = toServer
    BY <1>2, <1>3, <2>1 DEF RequestsMatch
  <2>2. CASE toServer' = Append(toServer, Request(c))
    <3> DEFINE n == Len(toServer)
    <3>1. n \in Nat /\ Len(toServer') = n + 1
      BY <2>2 DEF TypeOK
    <3>2. \A i \in 1 .. n : toServer'[i] = toServer[i]
      BY <2>2 DEF TypeOK
    <3>3. toServer'[n + 1] = Request(c)
      BY <2>2 DEF TypeOK
    <3>4. Request(c).call = c /\ (c \notin Updates => Request(c).id = corr[c])
      BY DEF Request, IdToSend
    <3>5. c \notin executed
      BY <1>1 DEF Progress
    <3>6. \A i \in 1 .. n : toServer[i].call \in Sent \ executed
      BY DEF RequestsMatch
    <3>7. \A i \in 1 .. n : toServer[i].call # c
      BY <1>1, <3>6
    <3>8. \A i \in 1 .. n + 1 : i \in 1 .. n \/ i = n + 1
      BY <3>1
    <3>9. \A i \in 1 .. n + 1 :
             /\ toServer'[i].call \in Sent' \ executed'
             /\ toServer'[i].call \notin Updates =>
                   toServer'[i].id = corr'[toServer'[i].call]
      BY <1>2, <1>3, <3>2, <3>3, <3>4, <3>5, <3>6, <3>8 DEF RequestsMatch
    <3>10. \A i, j \in 1 .. n + 1 :
              toServer'[i].call = toServer'[j].call => i = j
      BY <3>2, <3>3, <3>4, <3>7, <3>8 DEF RequestsMatch
    <3> QED
      BY <3>1, <3>9, <3>10 DEF RequestsMatch
  <2> QED
    BY <2>1, <2>2 DEF SendOk
<1>7. RepliesMatch'
  BY <1>2 DEF RepliesMatch
<1>8. UpdatesFresh'
  BY <1>1, <1>2 DEF UpdatesFresh, TypeOK
<1>9. Progress'
  BY <1>1, <1>2, <1>3 DEF Progress, TypeOK
<1>10. WaitingIsRegistered'
  BY <1>1, <1>2 DEF WaitingIsRegistered, TypeOK
<1> QED
  BY <1>4, <1>5, <1>6, <1>7, <1>8, <1>9, <1>10

\* Taking the first frame off the wire keeps what is known of the others.
LEMMA TailFrames ==
  ASSUME TypeOK, toClient # <<>>, toClient' = Tail(toClient)
  PROVE  /\ toClient[1] = Head(toClient) /\ Head(toClient) \in Frames
         /\ 1 \in 1 .. Len(toClient)
         /\ Len(toClient') \in Nat
         /\ \A i \in 1 .. Len(toClient') :
               /\ i + 1 \in 1 .. Len(toClient) /\ i + 1 # 1
               /\ toClient'[i] = toClient[i + 1]
         /\ \A i, j \in 1 .. Len(toClient') : i + 1 = j + 1 => i = j
<1>1. toClient \in Seq(Frames)
  BY DEF TypeOK
<1>2. /\ Tail(toClient) \in Seq(Frames)
      /\ Len(Tail(toClient)) = Len(toClient) - 1
      /\ \A i \in 1 .. Len(Tail(toClient)) : Tail(toClient)[i] = toClient[i + 1]
      /\ Head(toClient) \in Frames
  BY <1>1, HeadTailProperties
<1>3. Len(toClient) \in Nat \ {0}
  BY <1>1, EmptySeq
<1>4. toClient[1] = Head(toClient)
  BY <1>1, <1>3
<1> QED
  BY <1>2, <1>3, <1>4

\* dispatch gives the answer to the one call that holds its id.
LEMMA DispatchReplyInv ==
  ASSUME Inv, TypeOK', DispatchReply
  PROVE  Inv'
<1> USE CallsAssumption DEF Inv
<1> DEFINE f == Head(toClient)
           c == requests[f.id]
<1>1. toClient # <<>> /\ toClient' = Tail(toClient) /\ f.kind = "reply"
  <2>1. toClient # <<>> /\ toClient' = Tail(toClient)
        /\ f.kind # "push" /\ f.kind # "update"
    BY DEF DispatchReply, IsResponse, HasCorrelationId
  <2>2. f \in Frames
    BY <2>1, TailFrames
  <2> QED
    BY <2>1, <2>2 DEF Frames, Replies
<1>2. UNCHANGED <<pc, corr, result, nextId, closed, dispatcher, toServer,
                  executed, pushed>>
  BY DEF DispatchReply, taskVars
<1>3. f \in Replies /\ f.call \in executed /\ f.id = corr[f.call]
  BY <1>1, TailFrames DEF Frames, Replies, RepliesMatch
<1>4. f.id \in Ids /\ f.call \in Fetched
  BY <1>3 DEF Replies, Progress, Sent
<1>5. c # NoCall => c = f.call
  BY <1>3, <1>4 DEF EntriesMatch, IdsDistinct
<1>6. requests' = [requests EXCEPT ![f.id] = NoCall]
  BY DEF DispatchReply, Deliver
<1>7. inbox' = IF c # NoCall /\ pc[c] # "done"
               THEN [inbox EXCEPT ![c] = f.call] ELSE inbox
  BY DEF DispatchReply, Deliver
<1>8. Fetched' = Fetched /\ Sent' = Sent
  BY <1>2 DEF Fetched, Sent
<1>9. IdsDistinct'
  BY <1>2, <1>8, SameIds
<1>10. EntriesMatch'
  BY <1>2, <1>4, <1>6, <1>8 DEF EntriesMatch, TypeOK
<1>11. RequestsMatch'
  BY <1>2, <1>8 DEF RequestsMatch
<1>12. RepliesMatch'
  BY <1>1, <1>2, TailFrames DEF RepliesMatch
<1>13. UpdatesFresh'
  BY <1>1, <1>2, TailFrames DEF UpdatesFresh
<1>14. Progress'
  <2>1. \A d \in Calls : inbox'[d] # NoCall => inbox'[d] = d /\ d \in executed
    BY <1>3, <1>5, <1>7 DEF Progress, TypeOK
  <2>2. \A d \in Calls : pc[d] \in {"stop", "shutdown"} => inbox'[d] # NoCall
    BY <1>5, <1>7 DEF Progress, TypeOK
  <2> QED
    BY <1>2, <1>8, <2>1, <2>2 DEF Progress
<1>15. WaitingIsRegistered'
  <2> SUFFICES ASSUME NEW d \in Calls, pc[d] \in {"send", "recv"}, ~closed
               PROVE  requests'[corr[d]] = d \/ inbox'[d] = d
    BY <1>2 DEF WaitingIsRegistered
  <2>1. requests[corr[d]] = d \/ inbox[d] = d
    BY DEF WaitingIsRegistered
  <2>2. CASE inbox[d] = d
    BY <1>5, <1>7, <2>2 DEF TypeOK
  <2>3. CASE requests[corr[d]] = d /\ corr[d] # f.id
    BY <1>4, <1>6, <2>3 DEF TypeOK
  <2>4. CASE requests[corr[d]] = d /\ corr[d] = f.id
    BY <1>5, <1>7, <2>4 DEF TypeOK
  <2> QED
    BY <2>1, <2>2, <2>3, <2>4
<1> QED
  BY <1>9, <1>10, <1>11, <1>12, <1>13, <1>14, <1>15

\* A ConsumerUpdate starts a call that has not begun, and is pushed once.
LEMMA NotifyInv ==
  ASSUME Inv, TypeOK', Notify
  PROVE  Inv'
<1> USE CallsAssumption DEF Inv
<1> DEFINE f == Head(toClient)
<1>1. toClient # <<>> /\ toClient' = Tail(toClient)
  BY DEF Notify
<1>2. UNCHANGED <<corr, inbox, result, nextId, requests, closed, dispatcher,
                  toServer, executed, pushed>>
  BY DEF Notify, mapVars
<1>3. \/ pc' = pc
      \/ /\ f.kind = "update" /\ f.call \in Updates /\ f.call \in pushed
         /\ pc[f.call] = "idle"
         /\ pc' = [pc EXCEPT ![f.call] = "ready"]
  <2>0. f \in Frames /\ f = toClient[1]
    BY <1>1, TailFrames
  <2>1. CASE ~handler \/ f.kind = "push"
    BY <2>1 DEF Notify
  <2>2. CASE handler /\ f.kind # "push"
    <3>1. f.kind = "update"
      BY <2>0, <2>2 DEF Notify, IsResponse, HasCorrelationId, Frames, Replies
    <3>2. f.call \in Updates
      BY <2>0, <3>1 DEF Frames, Replies
    <3>3. f.call \in pushed /\ pc[f.call] = "idle"
      BY <1>1, <2>0, <3>1, TailFrames DEF UpdatesFresh
    <3> QED
      BY <2>2, <3>1, <3>2, <3>3 DEF Notify, Goto
  <2> QED
    BY <2>1, <2>2
<1>4. \A d \in Calls : pc[d] # "idle" => pc'[d] = pc[d]
  BY <1>3 DEF TypeOK
<1>5. \A d \in Calls : pc'[d] # pc[d] => pc[d] = "idle" /\ pc'[d] = "ready"
  BY <1>3 DEF TypeOK
<1>6. Fetched' = Fetched /\ Sent' = Sent
  BY <1>2, <1>5 DEF Fetched, Sent
<1>7. IdsDistinct'
  BY <1>2, <1>6, SameIds
<1>8. EntriesMatch'
  BY <1>2, <1>5, <1>6 DEF EntriesMatch, TypeOK, Fetched
<1>9. RequestsMatch'
  BY <1>2, <1>6 DEF RequestsMatch
<1>10. RepliesMatch'
  BY <1>1, <1>2, TailFrames DEF RepliesMatch
<1>11. UpdatesFresh'
  <2>1. \A i \in 1 .. Len(toClient') : toClient'[i].kind = "update" =>
           toClient'[i].call \in Updates
    <3> SUFFICES ASSUME NEW i \in 1 .. Len(toClient'), toClient'[i].kind = "update"
                 PROVE  toClient'[i].call \in Updates
      OBVIOUS
    <3>1. toClient'[i] \in Frames
      BY ElementOfSeq DEF TypeOK
    <3> QED
      BY <3>1 DEF Frames, Replies
  <2>2. \A u \in Updates : pc'[u] = pc[u] \/ (f.kind = "update" /\ u = f.call)
    BY <1>3 DEF TypeOK
  <2>3. \A u \in Updates \ pushed : pc'[u] = "idle"
    BY <1>3, <2>2 DEF UpdatesFresh, TypeOK
  <2>4. \A i \in 1 .. Len(toClient') : toClient'[i].kind = "update" =>
           toClient'[i].call \in pushed /\ pc'[toClient'[i].call] = "idle"
    BY <1>1, <2>1, <2>2, TailFrames DEF UpdatesFresh
  <2> QED
    BY <1>1, <1>2, <2>3, <2>4, TailFrames DEF UpdatesFresh
<1>12. Progress'
  BY <1>2, <1>5, <1>6 DEF Progress
<1>13. WaitingIsRegistered'
  BY <1>2, <1>5 DEF WaitingIsRegistered
<1> QED
  BY <1>7, <1>8, <1>9, <1>10, <1>11, <1>12, <1>13

\* A step of the dispatcher task, or of the client, that touches no call and
\* nothing on the wire.
LEMMA TaskStepInv ==
  ASSUME Inv, TypeOK',
         EndOfFile \/ StreamError \/ CloseStep \/ SetHandler \/ UNCHANGED vars
  PROVE  Inv'
<1> USE CallsAssumption DEF Inv
<1>1. UNCHANGED <<pc, corr, inbox, result, nextId, toServer, toClient, executed,
                  pushed>>
  BY DEF EndOfFile, StreamError, CloseStep, CloseStore, CloseClear, CloseNotify,
         SetHandler, vars, callVars, mapVars, taskVars, chanVars, netVars
<1>2. \/ requests' = requests
      \/ requests' = [i \in Ids |-> NoCall] /\ closed
  BY DEF EndOfFile, StreamError, CloseStep, CloseStore, CloseClear, CloseNotify,
         SetHandler, vars, mapVars, Progress
<1>3. /\ closed => closed'
      /\ closed' <=> dispatcher' \in {"stored", "cleared", "done"}
  BY DEF EndOfFile, StreamError, CloseStep, CloseStore, CloseClear, CloseNotify,
         SetHandler, vars, mapVars, taskVars, Progress
<1>4. Fetched' = Fetched /\ Sent' = Sent
  BY <1>1 DEF Fetched, Sent
<1>5. IdsDistinct'
  BY <1>1, <1>4, SameIds
<1>6. EntriesMatch'
  BY <1>1, <1>2, <1>4 DEF EntriesMatch
<1>7. RequestsMatch' /\ RepliesMatch' /\ UpdatesFresh'
  BY <1>1, <1>4 DEF RequestsMatch, RepliesMatch, UpdatesFresh
<1>8. Progress'
  BY <1>1, <1>3, <1>4 DEF Progress
<1>9. WaitingIsRegistered'
  BY <1>1, <1>2, <1>3 DEF WaitingIsRegistered
<1> QED
  BY <1>5, <1>6, <1>7, <1>8, <1>9

\* The broker executes a request it had not executed, and its answer carries
\* the id of the call.
LEMMA ServeInv ==
  ASSUME Inv, TypeOK', Serve
  PROVE  Inv'
<1> USE CallsAssumption DEF Inv
<1> DEFINE r == Head(toServer)
           n == Len(toServer)
<1>1. toServer # <<>> /\ toServer' = Tail(toServer)
      /\ executed' = executed \cup {r.call}
  BY DEF Serve
<1>2. UNCHANGED <<pc, corr, inbox, result, nextId, requests, closed, dispatcher,
                  pushed>>
  BY DEF Serve, callVars, mapVars, taskVars
<1>3. /\ n \in Nat \ {0} /\ r = toServer[1] /\ Len(toServer') = n - 1
      /\ \A i \in 1 .. n - 1 : toServer'[i] = toServer[i + 1]
  BY <1>1, EmptySeq, HeadTailProperties DEF TypeOK
<1>4. r.call \in Sent \ executed /\ (r.call \notin Updates => r.id = corr[r.call])
  BY <1>3 DEF RequestsMatch
<1>5. Fetched' = Fetched /\ Sent' = Sent
  BY <1>2 DEF Fetched, Sent
<1>6. IdsDistinct'
  BY <1>2, <1>5, SameIds
<1>7. EntriesMatch'
  BY <1>2, <1>5 DEF EntriesMatch
<1>8. RequestsMatch'
  <2>1. \A i \in 1 .. n - 1 : i + 1 \in 1 .. n /\ i + 1 # 1
    BY <1>3
  <2>2. \A i \in 1 .. n - 1 : toServer'[i].call # r.call
    BY <1>3, <2>1 DEF RequestsMatch
  <2>3. \A i \in 1 .. n - 1 :
           /\ toServer'[i].call \in Sent' \ executed'
           /\ toServer'[i].call \notin Updates =>
                 toServer'[i].id = corr'[toServer'[i].call]
    BY <1>1, <1>2, <1>3, <1>5, <2>1, <2>2 DEF RequestsMatch
  <2>4. \A i, j \in 1 .. n - 1 :
           toServer'[i].call = toServer'[j].call => i = j
    <3> SUFFICES ASSUME NEW i \in 1 .. n - 1, NEW j \in 1 .. n - 1,
                        toServer'[i].call = toServer'[j].call
                 PROVE  i = j
      OBVIOUS
    <3>1. i + 1 = j + 1
      BY <1>3, <2>1 DEF RequestsMatch
    <3> QED
      BY <1>3, <3>1
  <2> QED
    BY <1>3, <2>3, <2>4 DEF RequestsMatch
<1>9. RepliesMatch' /\ UpdatesFresh'
  <2>1. CASE toClient' = toClient
    BY <1>1, <1>2, <2>1 DEF RepliesMatch, UpdatesFresh
  <2>2. CASE /\ r.call \notin Updates
             /\ toClient' = Append(toClient, [kind |-> "reply", id |-> r.id,
                                              call |-> r.call])
    <3> DEFINE m == Len(toClient)
               a == [kind |-> "reply", id |-> r.id, call |-> r.call]
    <3>1. m \in Nat /\ Len(toClient') = m + 1
      BY <2>2 DEF TypeOK
    <3>2. \A i \in 1 .. m : toClient'[i] = toClient[i]
      BY <2>2 DEF TypeOK
    <3>3. toClient'[m + 1] = a
      BY <2>2 DEF TypeOK
    <3>4. \A i \in 1 .. m + 1 : i \in 1 .. m \/ i = m + 1
      BY <3>1
    <3>5. a.kind = "reply" /\ a.id = corr[a.call] /\ a.call \in executed'
      BY <1>1, <1>4, <2>2
    <3>6. RepliesMatch'
      BY <1>1, <1>2, <3>1, <3>2, <3>3, <3>4, <3>5 DEF RepliesMatch
    <3>7. \A i \in 1 .. m + 1 : toClient'[i].kind = "update" => i \in 1 .. m
      BY <3>3, <3>4, <3>5
    <3>8. UpdatesFresh'
      BY <1>2, <3>1, <3>2, <3>7 DEF UpdatesFresh
    <3> QED
      BY <3>6, <3>8
  <2> QED
    BY <2>1, <2>2 DEF Serve
<1>10. Progress'
  BY <1>1, <1>2, <1>4, <1>5 DEF Progress
<1>11. WaitingIsRegistered'
  BY <1>2 DEF WaitingIsRegistered
<1> QED
  BY <1>6, <1>7, <1>8, <1>9, <1>10, <1>11

\* What the broker pushes is no answer, and a ConsumerUpdate is pushed once.
LEMMA PushInv ==
  ASSUME Inv, TypeOK', Push
  PROVE  Inv'
<1> USE CallsAssumption DEF Inv
<1> DEFINE m == Len(toClient)
<1>1. PICK p \in (Pushes \cup Updates) \ pushed :
         /\ pushed' = pushed \cup {p}
         /\ toClient' = Append(toClient,
                               IF p \in Updates
                               THEN [kind |-> "update", id |-> ServerId[p],
                                     call |-> p]
                               ELSE [kind |-> "push", push |-> p])
  BY DEF Push
<1>2. UNCHANGED <<pc, corr, inbox, result, nextId, requests, closed, dispatcher,
                  toServer, executed>>
  BY DEF Push, callVars, mapVars, taskVars
<1>3. m \in Nat /\ Len(toClient') = m + 1
  BY <1>1 DEF TypeOK
<1>4. \A i \in 1 .. m : toClient'[i] = toClient[i]
  BY <1>1 DEF TypeOK
<1>5. toClient'[m + 1] = IF p \in Updates
                         THEN [kind |-> "update", id |-> ServerId[p], call |-> p]
                         ELSE [kind |-> "push", push |-> p]
  BY <1>1 DEF TypeOK
<1>6. \A i \in 1 .. m + 1 : i \in 1 .. m \/ i = m + 1
  BY <1>3
<1>7. toClient'[m + 1].kind # "reply"
  BY <1>5
<1>8. toClient'[m + 1].kind = "update" =>
         p \in Updates /\ toClient'[m + 1].call = p
  BY <1>5
<1>9. RepliesMatch'
  BY <1>2, <1>3, <1>4, <1>6, <1>7 DEF RepliesMatch
<1>10. UpdatesFresh'
  <2>1. \A u \in Updates \ pushed' : pc'[u] = "idle"
    BY <1>1, <1>2 DEF UpdatesFresh
  <2>2. \A i \in 1 .. m + 1 : toClient'[i].kind = "update" =>
           toClient'[i].call \in pushed' /\ pc'[toClient'[i].call] = "idle"
    BY <1>1, <1>2, <1>4, <1>6, <1>8 DEF UpdatesFresh
  <2>3. \A i \in 1 .. m : toClient'[i].kind = "update" => toClient'[i].call # p
    BY <1>1, <1>4 DEF UpdatesFresh
  <2>4. \A i, j \in 1 .. m + 1 :
           /\ toClient'[i].kind = "update"
           /\ toClient'[j].kind = "update"
           /\ toClient'[i].call = toClient'[j].call
           => i = j
    BY <1>4, <1>6, <1>8, <2>3 DEF UpdatesFresh
  <2> QED
    BY <1>3, <2>1, <2>2, <2>4 DEF UpdatesFresh
<1>11. Fetched' = Fetched /\ Sent' = Sent
  BY <1>2 DEF Fetched, Sent
<1>12. IdsDistinct'
  BY <1>2, <1>11, SameIds
<1>13. EntriesMatch' /\ RequestsMatch' /\ Progress' /\ WaitingIsRegistered'
  BY <1>2, <1>11 DEF EntriesMatch, RequestsMatch, Progress, WaitingIsRegistered
<1> QED
  BY <1>9, <1>10, <1>12, <1>13

\* Losing a suffix of the frames and every request keeps the invariant.
LEMMA DisconnectInv ==
  ASSUME Inv, TypeOK', Disconnect
  PROVE  Inv'
<1> USE CallsAssumption DEF Inv
<1>1. PICK n \in 0 .. Len(toClient) : toClient' = SubSeq(toClient, 1, n)
  BY DEF Disconnect
<1>2. UNCHANGED <<pc, corr, inbox, result, nextId, requests, closed, dispatcher,
                  executed, pushed>>
  BY DEF Disconnect, callVars, mapVars, taskVars
<1>3. /\ Len(toClient) \in Nat
      /\ \A i \in 1 .. n : i \in 1 .. Len(toClient)
      /\ Len(toClient') = n
      /\ \A i \in 1 .. n : toClient'[i] = toClient[i]
  <2>1. toClient \in Seq(Frames) /\ Len(toClient) \in Nat
    BY DEF TypeOK
  <2>2. \A i \in 1 .. n : i \in 1 .. Len(toClient)
    BY <2>1
  <2>3. \A i \in 1 .. n : toClient[i] \in Frames
    BY <2>1, <2>2, ElementOfSeq
  <2> QED
    BY <1>1, <2>1, <2>2, <2>3, SubSeqProperties
<1>4. Len(toServer') = 0
  BY DEF Disconnect
<1>5. RequestsMatch'
  BY <1>4 DEF RequestsMatch
<1>6. RepliesMatch' /\ UpdatesFresh'
  BY <1>2, <1>3 DEF RepliesMatch, UpdatesFresh
<1>7. Fetched' = Fetched /\ Sent' = Sent
  BY <1>2 DEF Fetched, Sent
<1>8. IdsDistinct'
  BY <1>2, <1>7, SameIds
<1>9. EntriesMatch' /\ Progress' /\ WaitingIsRegistered'
  BY <1>2, <1>7 DEF EntriesMatch, Progress, WaitingIsRegistered
<1> QED
  BY <1>5, <1>6, <1>8, <1>9

\* Every step keeps the invariant.
LEMMA InvStep ==
  ASSUME Inv, [Next]_vars
  PROVE  Inv'
<1>1. TypeOK'
  BY TypeStep DEF Inv
<1>2. ASSUME NEW c \in Calls, CallStep(c) \/ Cancel(c) PROVE Inv'
  <2>1. CASE FetchId(c)
    BY <1>1, <2>1, FetchIdInv
  <2>2. CASE InsertRequest(c)
    BY <1>1, <2>2, InsertRequestInv
  <2>3. CASE SendOk(c)
    BY <1>1, <2>3, SendOkInv
  <2>4. CASE \/ CloseAlreadyClosed(c) \/ CheckClosed(c) \/ SendError(c)
             \/ RecvAnswer(c) \/ RecvNone(c) \/ Cancel(c)
             \/ StopHeartbeat(c) \/ Shutdown(c)
    <3>1. UNCHANGED <<corr, inbox, mapVars, taskVars, netVars>>
      BY <2>4 DEF CloseAlreadyClosed, CheckClosed, SendError, RecvAnswer,
                  RecvNone, Cancel, StopHeartbeat, Shutdown
    <3>2. /\ TypeOK
          /\ pc[c] # "done" => result[c] = "none"
          /\ pc[c] = "stop" => inbox[c] # NoCall
      BY DEF Inv, Progress
    <3>3. /\ \A d \in Calls \ {c} : pc'[d] = pc[d] /\ result'[d] = result[d]
          /\ pc[c] \notin {"idle", "done"}
          /\ pc'[c] \notin {"idle", "ready", "check", "send", "recv"}
          /\ pc'[c] = "insert" => pc[c] = "check"
          /\ pc[c] = "send" => pc'[c] = "done"
          /\ result'[c] = "AlreadyClosed" <=> pc[c] = "ready"
          /\ pc'[c] # "done" => result'[c] = "none"
          /\ pc'[c] \in {"stop", "shutdown"} => inbox[c] # NoCall
      BY <2>4, <3>2 DEF CloseAlreadyClosed, CheckClosed, SendError, RecvAnswer,
                 RecvNone, Cancel, StopHeartbeat, Shutdown, Return, Goto, TypeOK
    <3> QED
      BY <1>1, <3>1, <3>3, PcStepInv
  <2> QED
    BY <1>2, <2>1, <2>2, <2>3, <2>4 DEF CallStep
<1>3. CASE ReadStep
  BY <1>1, <1>3, DispatchReplyInv, NotifyInv DEF ReadStep
<1>4. CASE EndOfFile \/ StreamError \/ CloseStep \/ SetHandler \/ UNCHANGED vars
  BY <1>1, <1>4, TaskStepInv
<1>5. CASE Serve \/ Push \/ Disconnect
  BY <1>1, <1>5, ServeInv, PushInv, DisconnectInv
<1>6. CASE \E c \in Calls : CallStep(c) \/ Cancel(c)
  BY <1>2, <1>6
<1> QED
  BY <1>3, <1>4, <1>5, <1>6 DEF Next

\* The inductive invariant is an invariant.
THEOREM InvCorrect == Spec => []Inv
  BY InvInit, InvStep, PTL DEF Spec

(***************************************************************************)
(* dispatch never gives a call another call's answer, whatever callers     *)
(* give up, writes fail or frames are lost.                                *)
(***************************************************************************)
THEOREM AnswersReachTheirCaller == Spec => []AnswerIsMine
<1>1. Inv => AnswerIsMine
  BY DEF Inv, Progress, AnswerIsMine
<1> QED
  BY <1>1, InvCorrect, PTL

(***************************************************************************)
(* As long as the map is not closed, a call that waits has its sender in   *)
(* the map or its answer in its channel: it cannot be told                 *)
(* ConnectionClosed, nor be forgotten.                                     *)
(***************************************************************************)
THEOREM WaitingCallsAreRegistered == Spec => []WaitingIsRegistered
<1>1. Inv => WaitingIsRegistered
  BY DEF Inv
<1> QED
  BY <1>1, InvCorrect, PTL

\* The heartbeat task is gone by the time a close() comes to the socket.
Stopped == chanClosed \/ (\E c \in Calls : pc[c] = "shutdown") => ~heartbeat

\* Only close() brings a call to the socket, and only after it has stopped the task.
LEMMA StoppedStep ==
  ASSUME TypeOK, Stopped, [Next]_vars
  PROVE  Stopped'
<1> USE CallsAssumption
<1>1. CASE \E c \in Calls : StopHeartbeat(c)
  BY <1>1 DEF StopHeartbeat, Stopped
<1>2. CASE \E c \in Calls : Shutdown(c)
  <2>1. PICK c \in Calls : Shutdown(c)
    BY <1>2
  <2>2. heartbeat' = heartbeat /\ ~heartbeat
    BY <2>1 DEF Shutdown, Stopped
  <2> QED
    BY <2>2 DEF Stopped
<1>3. ASSUME NEW c \in Calls,
             \/ CloseAlreadyClosed(c) \/ FetchId(c) \/ CheckClosed(c) \/ InsertRequest(c)
             \/ SendOk(c) \/ SendError(c) \/ RecvAnswer(c) \/ RecvNone(c) \/ Cancel(c)
      PROVE  Stopped'
  <2>1. UNCHANGED <<chanClosed, heartbeat>>
    BY <1>3 DEF CloseAlreadyClosed, FetchId, CheckClosed, InsertRequest, SendOk, SendError,
                RecvAnswer, RecvNone, Cancel, chanVars
  <2>2. \E label \in {"check", "insert", "send", "recv", "stop", "done"} : Goto(c, label)
    BY <1>3 DEF CloseAlreadyClosed, FetchId, CheckClosed, InsertRequest, SendOk, SendError,
                RecvAnswer, RecvNone, Cancel, Return
  <2>3. \A d \in Calls : pc'[d] = "shutdown" => pc[d] = "shutdown"
    BY <2>2 DEF Goto, TypeOK
  <2> QED
    BY <2>1, <2>3 DEF Stopped
<1>4. CASE ReadStep
  <2>1. UNCHANGED <<chanClosed, heartbeat>>
    BY <1>4 DEF ReadStep, DispatchReply, Notify, chanVars
  <2>2. pc' = pc \/ Goto(Head(toClient).call, "ready")
    BY <1>4 DEF ReadStep, DispatchReply, Notify
  <2>3. \A d \in Calls : pc'[d] = "shutdown" => pc[d] = "shutdown"
    BY <2>2 DEF Goto, TypeOK
  <2> QED
    BY <2>1, <2>3 DEF Stopped
<1>5. CASE EndOfFile \/ StreamError \/ CloseStep \/ SetHandler \/ Serve \/ Push
           \/ Disconnect \/ UNCHANGED vars
  <2>1. UNCHANGED <<chanClosed, heartbeat, pc>>
    BY <1>5 DEF EndOfFile, StreamError, CloseStep, CloseStore, CloseClear, CloseNotify,
                SetHandler, Serve, Push, Disconnect, vars, callVars, chanVars
  <2> QED
    BY <2>1 DEF Stopped
<1> QED
  BY <1>1, <1>2, <1>3, <1>4, <1>5 DEF Next, CallStep

(***************************************************************************)
(* However many calls of close() race, and whether they succeed, fail or   *)
(* are dropped half way, no heartbeat task outlives the channel.           *)
(***************************************************************************)
THEOREM HeartbeatStopsFirst == Spec => []NoHeartbeatOnClosedChannel
<1>1. Init => Stopped
  BY DEF Init, Stopped
<1>2. Stopped => NoHeartbeatOnClosedChannel
  BY DEF Stopped, NoHeartbeatOnClosedChannel
<1> QED
  BY <1>1, <1>2, StoppedStep, TypeCorrect, PTL DEF Spec

-----------------------------------------------------------------------------
(***************************************************************************)
(* Dispatcher implements RpcService.                                       *)
(***************************************************************************)
Broken == ~connected \/ chanClosed \/ dispatcher # "running"

\* A call that was not answered has an empty channel when it fails.
LEMMA UnansweredIsEmpty ==
  ASSUME Inv, NEW c \in Calls, c \notin Sent
  PROVE  inbox[c] = NoCall
BY DEF Inv, Progress

\* A step in which no outcome changes and nothing is executed is a stutter, or
\* the step at which the connection breaks.
LEMMA NoOutcomeStep ==
  ASSUME \A c \in Calls : Outcome(c)' = Outcome(c),
         executed' = executed,
         Broken => Broken'
  PROVE  [Service!Next]_(Service!vars)
<1>1. [c \in Calls |-> Outcome(c)]' = [c \in Calls |-> Outcome(c)]
  OBVIOUS
<1>2. CASE Broken' = Broken
  BY <1>1, <1>2 DEF Service!vars, Broken
<1>3. CASE Broken' /\ ~Broken
  BY <1>1, <1>3 DEF Service!Next, Service!Break, Broken
<1> QED
  BY <1>2, <1>3 DEF Broken

\* A step in which one call's outcome changes.
LEMMA OutcomeStep ==
  ASSUME NEW c \in Calls, NEW to,
         \A d \in Calls \ {c} : Outcome(d)' = Outcome(d),
         Outcome(c)' = to,
         executed' = executed,
         Broken' = Broken,
         \/ Outcome(c) = "idle" /\ to = "pending"
         \/ Outcome(c) = "pending" /\ to = "ok" /\ c \in executed
         \/ Outcome(c) \in {"idle", "pending"} /\ to = "failed" /\ Broken
         \/ Outcome(c) = "pending" /\ to = "abandoned"
  PROVE  Service!Next
<1> DEFINE o == [d \in Calls |-> Outcome(d)]
<1>1. o' = [o EXCEPT ![c] = to] /\ o[c] = Outcome(c)
  OBVIOUS
<1>2. UNCHANGED <<executed, ~connected \/ chanClosed \/ dispatcher # "running">>
  BY DEF Broken
<1>3. \/ Service!Invoke(c) \/ Service!Answer(c) \/ Service!Fail(c)
      \/ Service!Refuse(c) \/ Service!Abandon(c)
  BY <1>1, <1>2 DEF Service!Invoke, Service!Answer, Service!Fail,
                    Service!Refuse, Service!Abandon, Service!Become, Broken
<1> QED
  BY <1>3 DEF Service!Next

\* The steps of a call.
LEMMA CallRefines ==
  ASSUME Inv, NEW c \in Calls, CallStep(c) \/ Cancel(c)
  PROVE  [Service!Next]_(Service!vars)
<1> USE CallsAssumption DEF Inv
<1>1. /\ executed' = executed /\ inbox' = inbox
      /\ connected' = connected /\ dispatcher' = dispatcher
      /\ \A d \in Calls \ {c} : pc'[d] = pc[d] /\ result'[d] = result[d]
  BY DEF CallStep, Cancel, CloseAlreadyClosed, FetchId, CheckClosed,
         InsertRequest, SendOk, SendError, RecvAnswer, RecvNone, StopHeartbeat,
         Shutdown, Return, Goto, netVars, taskVars, TypeOK
<1>2. \A d \in Calls \ {c} : Outcome(d)' = Outcome(d)
  BY <1>1 DEF Outcome
<1>3. CASE FetchId(c)
  <2>1. Outcome(c) = "idle" /\ Outcome(c)' = "pending" /\ Broken' = Broken
    BY <1>1, <1>3 DEF FetchId, Goto, Outcome, TypeOK, Broken, chanVars
  <2> QED
    BY <1>1, <1>2, <2>1, OutcomeStep
<1>4. CASE CloseAlreadyClosed(c) \/ (CheckClosed(c) /\ closed) \/ SendError(c)
           \/ RecvNone(c)
  <2>1. inbox[c] = NoCall
    <3>1. CASE RecvNone(c)
      BY <3>1 DEF RecvNone
    <3>2. CASE CloseAlreadyClosed(c) \/ CheckClosed(c) \/ SendError(c)
      <4>1. c \notin Sent
        BY <3>2 DEF CloseAlreadyClosed, CheckClosed, SendError, Sent, Fetched
      <4> QED
        BY <4>1, UnansweredIsEmpty
    <3> QED
      BY <1>4, <3>1, <3>2
  <2>2. Broken
    <3>1. CASE CloseAlreadyClosed(c) \/ SendError(c)
      BY <3>1 DEF CloseAlreadyClosed, SendError, Broken
    <3>2. CASE CheckClosed(c) /\ closed
      BY <3>2 DEF Progress, Broken
    <3>3. CASE RecvNone(c)
      <4>1. closed
        BY <2>1, <3>3 DEF RecvNone, WaitingIsRegistered
      <4> QED
        BY <4>1 DEF Progress, Broken
    <3> QED
      BY <1>4, <3>1, <3>2, <3>3
  <2>3. /\ pc[c] \in {"ready", "check", "send", "recv"}
        /\ pc'[c] = "done" /\ result'[c] # "cancelled"
        /\ chanClosed' = chanClosed
    BY <1>4 DEF CloseAlreadyClosed, CheckClosed, SendError, RecvNone, Return,
                Goto, chanVars, TypeOK
  <2>4. Outcome(c) \in {"idle", "pending"}
    BY <2>3 DEF Outcome
  <2>5. Outcome(c)' = "failed"
    BY <1>1, <2>1, <2>3 DEF Outcome
  <2>6. Broken' = Broken
    BY <1>1, <2>3 DEF Broken
  <2> QED
    BY <1>1, <1>2, <2>2, <2>4, <2>5, <2>6, OutcomeStep
<1>5. CASE RecvAnswer(c)
  <2>1. pc[c] = "recv" /\ inbox[c] # NoCall /\ c \in executed
    BY <1>5 DEF RecvAnswer, Progress
  <2>2. chanClosed' = chanClosed
        /\ (pc'[c] = "stop" \/ (pc'[c] = "done" /\ result'[c] = "ok"))
    BY <1>5 DEF RecvAnswer, Return, Goto, chanVars, TypeOK
  <2>3. Outcome(c) = "pending" /\ Outcome(c)' = "ok" /\ Broken' = Broken
    BY <1>1, <2>1, <2>2 DEF Outcome, Broken
  <2> QED
    BY <1>1, <1>2, <2>1, <2>3, OutcomeStep
<1>6. CASE Cancel(c)
  <2>1. Outcome(c) = "pending" /\ Outcome(c)' = "abandoned" /\ Broken' = Broken
    BY <1>1, <1>6 DEF Cancel, Return, Goto, Outcome, TypeOK, Broken, chanVars
  <2> QED
    BY <1>1, <1>2, <2>1, OutcomeStep
<1>7. CASE (CheckClosed(c) /\ ~closed) \/ InsertRequest(c) \/ SendOk(c)
  <2>1. Outcome(c)' = Outcome(c) /\ Broken' = Broken
    BY <1>1, <1>7 DEF CheckClosed, InsertRequest, SendOk, Goto, Outcome, TypeOK,
                      Broken, chanVars
  <2> QED
    BY <1>1, <1>2, <2>1, NoOutcomeStep
<1>8. CASE StopHeartbeat(c) \/ Shutdown(c)
  <2>1. inbox[c] # NoCall /\ pc[c] \in {"stop", "shutdown"}
    BY <1>8 DEF StopHeartbeat, Shutdown, Progress
  <2>2. /\ pc'[c] = "shutdown" \/ (pc'[c] = "done" /\ result'[c] # "cancelled")
        /\ chanClosed => chanClosed'
    BY <1>8 DEF StopHeartbeat, Shutdown, Return, Goto, TypeOK
  <2>3. Outcome(c)' = Outcome(c) /\ (Broken => Broken')
    BY <1>1, <2>1, <2>2 DEF Outcome, Broken
  <2> QED
    BY <1>1, <1>2, <2>3, NoOutcomeStep
<1> QED
  BY <1>3, <1>4, <1>5, <1>6, <1>7, <1>8 DEF CallStep

\* Every other step.
LEMMA TaskRefines ==
  ASSUME Inv, Inv',
         \/ ReadStep \/ EndOfFile \/ StreamError \/ CloseStep \/ SetHandler
         \/ Push \/ Disconnect \/ UNCHANGED vars
  PROVE  [Service!Next]_(Service!vars)
<1> USE CallsAssumption DEF Inv
<1>1. /\ executed' = executed
      /\ result' = result
      /\ Broken => Broken'
  BY DEF ReadStep, DispatchReply, Notify, EndOfFile,
         StreamError, CloseStep, CloseStore, CloseClear, CloseNotify,
         SetHandler, Push, Disconnect, vars, callVars, taskVars, chanVars,
         netVars, Broken
<1>2. \A c \in Calls : Outcome(c)' = Outcome(c)
  <2>1. CASE pc' = pc /\ inbox' = inbox
    BY <1>1, <2>1 DEF Outcome
  <2>2. CASE DispatchReply
    <3>1. pc' = pc /\ \A c \in Calls : pc[c] = "done" => inbox'[c] = inbox[c]
      BY <2>2 DEF DispatchReply, Deliver, TypeOK
    <3> QED
      BY <1>1, <3>1 DEF Outcome
  <2>3. CASE Notify
    <3> DEFINE f == Head(toClient)
    <3>1. toClient # <<>> /\ toClient' = Tail(toClient)
      BY <2>3 DEF Notify
    <3>2. pc' = pc \/ (f.kind # "push" /\ pc' = [pc EXCEPT ![f.call] = "ready"])
      BY <2>3 DEF Notify, Goto
    <3>3. f.kind # "push" => f.call \in Updates /\ pc[f.call] = "idle"
      BY <2>3, <3>1, TailFrames DEF Notify, IsResponse, HasCorrelationId, Frames, Replies, UpdatesFresh
    <3>4. \A c \in Calls : pc'[c] = pc[c] \/ (pc[c] = "idle" /\ pc'[c] = "ready")
      BY <3>2, <3>3 DEF TypeOK
    <3>5. inbox' = inbox
      BY <2>3 DEF Notify
    <3> QED
      BY <1>1, <3>4, <3>5 DEF Outcome
  <2>4. \/ pc' = pc /\ inbox' = inbox
        \/ DispatchReply
        \/ Notify
    BY DEF ReadStep, EndOfFile, StreamError, CloseStep, CloseStore,
           CloseClear, CloseNotify, SetHandler, Push, Disconnect, vars, callVars
  <2> QED
    BY <2>1, <2>2, <2>3, <2>4
<1> QED
  BY <1>1, <1>2, NoOutcomeStep

\* The broker's step executes a request that was invoked and not yet executed.
LEMMA ServeRefines ==
  ASSUME Inv, Serve
  PROVE  Service!Next
<1> USE CallsAssumption DEF Inv
<1> DEFINE r == Head(toServer)
<1>1. /\ UNCHANGED <<pc, inbox, result, chanClosed, connected, dispatcher>>
      /\ executed' = executed \cup {r.call} /\ toServer # <<>>
  BY DEF Serve, callVars, chanVars, taskVars
<1>2. r = toServer[1] /\ 1 \in 1 .. Len(toServer)
  BY <1>1, EmptySeq DEF TypeOK
<1>3. r.call \in Sent \ executed
  BY <1>2 DEF RequestsMatch
<1>4. r.call \in Calls /\ Outcome(r.call) # "idle"
  <2>1. /\ r.call \in Calls
        /\ pc[r.call] \in {"recv", "stop", "shutdown", "done"}
    BY <1>3 DEF Sent, Fetched, TypeOK
  <2> QED
    BY <2>1 DEF Outcome
<1>5. \A c \in Calls : Outcome(c)' = Outcome(c)
  BY <1>1 DEF Outcome
<1>6. [c \in Calls |-> Outcome(c)]' = [c \in Calls |-> Outcome(c)]
  BY <1>5
<1>7. Service!Execute(r.call)
  BY <1>1, <1>3, <1>4, <1>6 DEF Service!Execute
<1> QED
  BY <1>4, <1>7 DEF Service!Next

(***************************************************************************)
(* The requests map, the correlation ids and the dispatcher task together  *)
(* implement RpcService: an answered call was executed by the broker,      *)
(* exactly once, and a call fails only when the connection is broken.      *)
(***************************************************************************)
THEOREM Refinement == Spec => ImplementsRpcService
<1>1. Init => Service!Init
  BY DEF Init, Service!Init, Outcome
<1>2. Inv /\ Inv' /\ [Next]_vars => [Service!Next]_(Service!vars)
  <2> SUFFICES ASSUME Inv, Inv', [Next]_vars PROVE [Service!Next]_(Service!vars)
    OBVIOUS
  <2>1. CASE \E c \in Calls : CallStep(c) \/ Cancel(c)
    BY <2>1, CallRefines
  <2>2. CASE \/ ReadStep \/ EndOfFile \/ StreamError \/ CloseStep \/ SetHandler
             \/ Push \/ Disconnect \/ UNCHANGED vars
    BY <2>2, TaskRefines
  <2>3. CASE Serve
    BY <2>3, ServeRefines
  <2> QED
    BY <2>1, <2>2, <2>3 DEF Next
<1> QED
  BY <1>1, <1>2, InvCorrect, PTL DEF Spec, Service!Spec, ImplementsRpcService
=============================================================================
