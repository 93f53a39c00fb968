--------------------------- MODULE ConsumerProofs ---------------------------
(***************************************************************************)
(* Theorems about Consumer, for any log, any filter and any channel size.  *)
(***************************************************************************)
EXTENDS Consumer, SequenceTheorems, FiniteSetTheorems, TLAPS

-----------------------------------------------------------------------------
(* Facts about the log.                                                    *)

\* The chunk that holds an offset exists.
LEMMA ChunkBounds ==
  ASSUME NEW k \in Chunks
  PROVE  /\ k \in 1 .. NumChunks + 1 /\ k + 1 \in 1 .. NumChunks + 1
         /\ First[k] \in Nat /\ First[k + 1] \in Nat
         /\ First[k] < First[k + 1]
         /\ First[k + 1] <= First[NumChunks + 1]
         /\ First[NumChunks + 1] \in Nat
BY LogAssumption DEF Chunks

\* Every cursor inside a chunk names a message of the log.
LEMMA CursorIsOffset ==
  ASSUME TypeOK, NEW k \in Chunks, At(k)
  PROVE  cursor[k] \in Offsets
BY ChunkBounds DEF TypeOK, At, Offsets

-----------------------------------------------------------------------------
(* Types.                                                                  *)

\* The broker starts at a chunk of the log, the one that holds its offset.
LEMMA StartChunk ==
  /\ BrokerStart \in Offsets
  /\ ChunkOf(BrokerStart) \in Chunks
  /\ First[ChunkOf(BrokerStart)] <= BrokerStart
<1>1. BrokerStart \in Offsets
  BY ParameterAssumption DEF BrokerStart
<1>2. \E k \in Chunks : First[k] <= BrokerStart /\ BrokerStart < First[k + 1]
  BY <1>1, LogAssumption
<1> QED
  BY <1>1, <1>2 DEF ChunkOf

\* The initial state is well typed.
LEMMA TypeInit == Init => TypeOK
<1> SUFFICES ASSUME Init PROVE TypeOK
  OBVIOUS
<1>1. nextChunk \in 1 .. NumChunks + 1
  BY StartChunk, ChunkBounds DEF Init
<1>2. toServer \in Seq({"credit", "answer"}) /\ toClient \in Seq(Frames)
      /\ sent \in Seq(Deliveries)
  BY EmptySeq DEF Init
<1>3. taken \in 0 .. Len(sent)
  BY EmptySeq DEF Init
<1>4. cursor \in [Chunks -> Nat] /\ label \in [Chunks -> Nat]
  BY DEF Init
<1>5. serving \in {"idle", "active", "stopped"} /\ credit \in Nat
  BY DEF Init, InitialCredit
<1> QED
  BY <1>1, <1>2, <1>3, <1>4, <1>5 DEF Init, TypeOK

\* The steps of the dispatcher task.
LEMMA ReadType ==
  ASSUME TypeOK, ReadStep
  PROVE  TypeOK'
<1>1. CASE ReadEnd
  BY <1>1, ZenonT(40) DEF ReadEnd, TypeOK, brokerVars, appVars
<1>2. CASE toClient # <<>>
  <2>1. Head(toClient) \in Frames /\ Tail(toClient) \in Seq(Frames)
    BY <1>2, HeadTailProperties DEF TypeOK
  <2>2. CASE ReadChunk
    <3> DEFINE k == Head(toClient).chunk
    <3>1. k \in Chunks
      BY <2>1, <2>2 DEF ReadChunk, Read, Frames
    <3>2. First[k] \in Nat
      BY <3>1, ChunkBounds
    <3>3. cursor' \in [Chunks -> Nat] /\ label' \in [Chunks -> Nat]
      BY <2>2, <3>2 DEF ReadChunk, TypeOK
    <3>4. running' \in SUBSET Chunks
      BY <2>2, <3>1 DEF ReadChunk, TypeOK
    <3>5. toClient' \in Seq(Frames)
      BY <2>1, <2>2 DEF ReadChunk, Read
    <3> QED
      BY <2>2, <3>3, <3>4, <3>5 DEF ReadChunk, Read, TypeOK, brokerVars, appVars
  <2>3. CASE ReadUpdate
    BY <2>1, <2>3 DEF ReadUpdate, Read, TypeOK, brokerVars, appVars
  <2>4. CASE ReadUnsubscribed
    BY <2>1, <2>4 DEF ReadUnsubscribed, Read, TypeOK, brokerVars, appVars
  <2>5. CASE ReadRefused
    BY <2>1, <2>5 DEF ReadRefused, Read, TypeOK, brokerVars, appVars
  <2> QED
    BY <1>1, <2>2, <2>3, <2>4, <2>5 DEF ReadStep
<1> QED
  BY <1>1, <1>2 DEF ReadStep, ReadChunk, ReadUpdate, ReadUnsubscribed,
                    ReadRefused, Read

\* The steps of the broker.
LEMMA BrokerType ==
  ASSUME TypeOK, BrokerStep
  PROVE  TypeOK'
<1>1. CASE BrokerSendChunk
  <2>1. nextChunk \in Chunks /\ nextChunk + 1 \in 1 .. NumChunks + 1
    BY <1>1, LogAssumption DEF BrokerSendChunk, TypeOK, Chunks
  <2>2. [kind |-> "chunk", chunk |-> nextChunk] \in Frames
    BY <2>1 DEF Frames
  <2>3. toClient' \in Seq(Frames) /\ credit' \in Nat
    BY <1>1, <2>2, AppendProperties DEF BrokerSendChunk, TypeOK
  <2> QED
    BY <1>1, <2>1, <2>3 DEF BrokerSendChunk, TypeOK, taskVars, appVars
<1>2. CASE BrokerSendUpdate
  <2>1. [kind |-> "update"] \in Frames
    BY DEF Frames
  <2>2. toClient' \in Seq(Frames)
    BY <1>2, <2>1, AppendProperties DEF BrokerSendUpdate, TypeOK
  <2> QED
    BY <1>2, <2>2 DEF BrokerSendUpdate, TypeOK, brokerVars, appVars
<1>3. CASE BrokerReceive
  <2>1. toServer' \in Seq({"credit", "answer"})
    BY <1>3, HeadTailProperties DEF BrokerReceive, TypeOK
  <2>2. credit' \in Nat /\ serving' \in {"idle", "active", "stopped"}
    BY <1>3 DEF BrokerReceive, TypeOK
  <2> QED
    BY <1>3, <2>1, <2>2 DEF BrokerReceive, TypeOK, taskVars, appVars
<1>4. CASE BrokerUnsubscribe
  <2>1. [kind |-> "unsubscribed"] \in Frames /\ [kind |-> "refused"] \in Frames
    BY DEF Frames
  <2>2. Append(toClient, [kind |-> "unsubscribed"]) \in Seq(Frames)
        /\ Append(toClient, [kind |-> "refused"]) \in Seq(Frames)
    BY <2>1, AppendProperties DEF TypeOK
  <2>3. toClient' \in Seq(Frames) /\ serving' \in {"idle", "active", "stopped"}
    BY <1>4, <2>2 DEF BrokerUnsubscribe, TypeOK
  <2> QED
    BY <1>4, <2>3 DEF BrokerUnsubscribe, TypeOK, taskVars, appVars
<1> QED
  BY <1>1, <1>2, <1>3, <1>4 DEF BrokerStep

\* The loss of the connection.
LEMMA DisconnectType ==
  ASSUME TypeOK, Disconnect
  PROVE  TypeOK'
<1>1. PICK n \in 0 .. Len(toClient) : toClient' = SubSeq(toClient, 1, n)
  BY DEF Disconnect
<1>2. \A i \in 1 .. n : toClient[i] \in Frames
  BY ElementOfSeq DEF TypeOK
<1>3. toClient' \in Seq(Frames)
  BY <1>1, <1>2, SubSeqProperties DEF TypeOK
<1>4. toServer' \in Seq({"credit", "answer"})
  BY EmptySeq DEF Disconnect
<1>5. connected' \in BOOLEAN
      /\ UNCHANGED <<brokerVars, reading, taskVars, sent, appVars, closed, closer>>
  BY DEF Disconnect
<1> QED
  BY <1>3, <1>4, <1>5 DEF TypeOK, brokerVars, taskVars, appVars

\* The steps of the handler tasks.
LEMMA TaskType ==
  ASSUME TypeOK, NEW k \in Chunks, TaskStep(k)
  PROVE  TypeOK'
<1>1. \A by \in {0, 1} : Advance(k, by) => cursor' \in [Chunks -> Nat]
                                        /\ label' \in [Chunks -> Nat]
  BY DEF Advance, TypeOK
<1>2. CASE FilterOut(k)
  <2>1. Advance(k, 0)
    BY <1>2 DEF FilterOut
  <2> QED
    BY <1>1, <1>2, <2>1 DEF FilterOut, TypeOK, brokerVars, netVars, appVars
<1>3. CASE SkipBelow(k)
  <2>1. Advance(k, 1)
    BY <1>3 DEF SkipBelow
  <2> QED
    BY <1>1, <1>3, <2>1 DEF SkipBelow, TypeOK, brokerVars, netVars, appVars
<1>4. CASE Forward(k)
  <2>1. [msg |-> cursor[k], offset |-> label[k]] \in Deliveries
    BY <1>4, CursorIsOffset DEF Forward, Deliveries, TypeOK
  <2>2. Advance(k, 1)
    BY <1>4 DEF Forward
  <2>3. sent' \in Seq(Deliveries) /\ taken \in 0 .. Len(sent') /\ woken' \in BOOLEAN
    <3>1. CASE app = "dropped"
      BY <1>4, <3>1 DEF Forward, TypeOK
    <3>2. CASE app # "dropped"
      <4>1. sent' = Append(sent, [msg |-> cursor[k], offset |-> label[k]])
            /\ woken' \in BOOLEAN
        BY <1>4, <3>2 DEF Forward
      <4>2. sent' \in Seq(Deliveries) /\ Len(sent') = Len(sent) + 1
        BY <2>1, <4>1, AppendProperties DEF TypeOK
      <4> QED
        BY <4>1, <4>2, LenProperties DEF TypeOK
    <3> QED
      BY <3>1, <3>2
  <2>4. UNCHANGED <<brokerVars, netVars, running, update, noneTask, taken, waker,
                    app, closed, closer>>
    BY <1>4 DEF Forward
  <2> QED
    BY <1>1, <2>2, <2>3, <2>4 DEF TypeOK, brokerVars, netVars
<1>5. CASE Finish(k)
  <2>1. Append(toServer, "credit") \in Seq({"credit", "answer"})
    BY AppendProperties DEF TypeOK
  <2>2. toServer' \in Seq({"credit", "answer"})
    BY <1>5, <2>1 DEF Finish, TypeOK
  <2>3. running' \in SUBSET Chunks
    BY <1>5 DEF Finish, TypeOK
  <2> QED
    BY <1>5, <2>2, <2>3 DEF Finish, TypeOK, brokerVars, appVars
<1> QED
  BY <1>2, <1>3, <1>4, <1>5 DEF TaskStep

\* The other steps of the client.
LEMMA ClientType ==
  ASSUME TypeOK,
         AnswerUpdate \/ HandleNone \/ AppStep \/ DropConsumer \/ CloseBegin
           \/ CloseStep
  PROVE  TypeOK'
<1>1. CASE AnswerUpdate
  <2>1. Append(toServer, "answer") \in Seq({"credit", "answer"})
    BY AppendProperties DEF TypeOK
  <2>2. toServer' \in Seq({"credit", "answer"})
    BY <1>1, <2>1 DEF AnswerUpdate, TypeOK
  <2> QED
    BY <1>1, <2>2 DEF AnswerUpdate, TypeOK, brokerVars, appVars
<1>2. CASE HandleNone
  BY <1>2, ZenonT(60) DEF HandleNone, WakeApp, TypeOK, brokerVars, netVars
<1>3. CASE AppStep \/ DropConsumer
  <2>1. taken' \in 0 .. Len(sent)
    BY <1>3, LenProperties DEF AppStep, DropConsumer, Register, PollReady,
              PollPending, CheckClosed, WakeUp, TypeOK
  <2>2. UNCHANGED <<brokerVars, netVars, taskVars, sent, closed, closer>>
    BY <1>3 DEF AppStep, DropConsumer, Register, PollReady, PollPending,
                CheckClosed, WakeUp
  <2>3. /\ waker' \in BOOLEAN /\ woken' \in BOOLEAN
        /\ app' \in {"poll", "recv", "check", "asleep", "ended", "dropped"}
    BY <1>3 DEF AppStep, DropConsumer, Register, PollReady, PollPending,
                CheckClosed, WakeUp, TypeOK
  <2> QED
    BY <2>1, <2>2, <2>3 DEF TypeOK, brokerVars, netVars, taskVars
<1>4. CASE CloseBegin \/ CloseStep
  <2>1. UNCHANGED <<brokerVars, netVars, taskVars, sent, taken, app>>
    BY <1>4 DEF CloseBegin, CloseStep, CloseUnsubscribe, CloseWake,
                CloseDisconnect, appVars
  <2>2. /\ waker' \in BOOLEAN /\ woken' \in BOOLEAN /\ closed' \in BOOLEAN
        /\ closer' \in {"idle", "unsubscribe", "waiting", "wake", "disconnect",
                        "ok", "error"}
    BY <1>4 DEF CloseBegin, CloseStep, CloseUnsubscribe, CloseWake,
                CloseDisconnect, WakeApp, TypeOK, appVars
  <2> QED
    BY <2>1, <2>2 DEF TypeOK, brokerVars, netVars, taskVars
<1> QED
  BY <1>1, <1>2, <1>3, <1>4

\* Every step of Consumer keeps the type invariant.
LEMMA TypeStep ==
  ASSUME TypeOK, [Next]_vars
  PROVE  TypeOK'
<1>1. CASE UNCHANGED vars
  BY <1>1 DEF TypeOK, vars, brokerVars, netVars, taskVars, appVars
<1> QED
  BY <1>1, ReadType, BrokerType, DisconnectType, TaskType, ClientType DEF Next

(***************************************************************************)
(* Every variable keeps its type: the broker never sends a chunk past the  *)
(* end of the log, and the application never takes more than was sent.     *)
(***************************************************************************)
THEOREM TypeCorrect == Spec => []TypeOK
  BY TypeInit, TypeStep, PTL DEF Spec

-----------------------------------------------------------------------------
(* The credit has one holder.                                              *)

\* The parts of Inv that are about the channel only.
ChannelInv ==
    /\ InOrder
    /\ SentFine
    /\ FilterCutsTails => OffsetIsMessages
    /\ SkipsNoWanted => NoneLeftOut

\* They stand as long as nothing is sent.
LEMMA ChannelSame ==
  ASSUME ChannelInv, UNCHANGED sent
  PROVE  ChannelInv'
BY DEF ChannelInv, InOrder, SentFine, OffsetIsMessages, NoneLeftOut

\* The messages in the channel are offsets of the log.
LEMMA SentAreOffsets ==
  ASSUME TypeOK, NEW i \in 1 .. Len(sent)
  PROVE  sent[i].msg \in Offsets /\ sent[i].msg \in Nat /\ sent[i].offset \in Nat
<1>1. sent[i] \in Deliveries
  BY ElementOfSeq DEF TypeOK
<1> QED
  BY <1>1 DEF Deliveries, Offsets

\* The initial state.
LEMMA InvInit == Init => Inv
<1> SUFFICES ASSUME Init PROVE Inv
  OBVIOUS
<1>1. TypeOK
  BY TypeInit
<1>2. Len(sent) = 0 /\ Len(toClient) = 0 /\ Len(toServer) = 0
  BY EmptySeq DEF Init
<1>3. ChannelInv
  BY <1>2 DEF ChannelInv, InOrder, SentFine, OffsetIsMessages, NoneLeftOut
<1>4. Done(First[nextChunk])
  <2>1. First[nextChunk] <= BrokerStart
    BY StartChunk DEF Init
  <2>2. BrokerStart \in Nat /\ First[nextChunk] \in Nat
    BY StartChunk, ChunkBounds DEF Init, Offsets
  <2> QED
    BY <1>2, <2>1, <2>2, ParameterAssumption DEF Done, Offsets
<1>5. CreditWithBroker
  BY <1>2, <1>4 DEF CreditWithBroker, Init, InitialCredit, NoChunk, NoCredit
<1> QED
  BY <1>1, <1>3, <1>5 DEF Inv, Holder, ChannelInv

\* The steps that leave the holder where it is.
LEMMA HolderSame ==
  ASSUME Holder, app' # "dropped" => app # "dropped",
         UNCHANGED <<credit, nextChunk, toServer, toClient, connected, running,
                     cursor, label, sent>>
  PROVE  Holder'
<1>1. CASE CreditWithBroker
  BY <1>1 DEF Holder, CreditWithBroker, Done, NoChunk, NoCredit
<1>2. CASE CreditInFrame
  BY <1>2 DEF Holder, CreditInFrame, Done, OnlyChunk, NoCredit
<1>3. CASE CreditInTask
  BY <1>3 DEF Holder, CreditInTask, Done, LabelFine, NoChunk, NoCredit
<1>4. CASE CreditInCommand
  BY <1>4 DEF Holder, CreditInCommand, Done, OnlyCredit, NoChunk
<1>5. CASE CreditLost
  BY <1>5 DEF Holder, CreditLost, NoChunk, NoCredit
<1> QED
  BY <1>1, <1>2, <1>3, <1>4, <1>5 DEF Holder

\* What a read leaves of the frames.
LEMMA TailFrames ==
  ASSUME NEW S, NEW s \in Seq(S), s # <<>>
  PROVE  /\ Len(s) > 0 /\ Head(s) = s[1] /\ Head(s) \in S
         /\ Tail(s) \in Seq(S) /\ Len(Tail(s)) = Len(s) - 1
         /\ \A j \in 1 .. Len(Tail(s)) : Tail(s)[j] = s[j + 1]
         /\ Len(s) \in Nat
BY HeadTailProperties, LenProperties, EmptySeq

\* What a write adds to the frames.
LEMMA AppendFrames ==
  ASSUME NEW S, NEW s \in Seq(S), NEW e
  PROVE  /\ Len(s) \in Nat
         /\ Len(Append(s, e)) = Len(s) + 1
         /\ \A j \in 1 .. Len(s) : Append(s, e)[j] = s[j]
         /\ Append(s, e)[Len(s) + 1] = e
<1>1. s \in Seq(S \cup {e}) /\ e \in S \cup {e} /\ Len(s) \in Nat
  BY LenProperties, SeqDef
<1> QED
  BY <1>1, AppendProperties

\* A frame that is no chunk comes off the wire.
LEMMA ReadOther ==
  ASSUME TypeOK, Holder, toClient # <<>>, Head(toClient).kind # "chunk",
         toClient' = Tail(toClient),
         UNCHANGED <<credit, nextChunk, toServer, connected, running, cursor,
                     label, sent, app>>
  PROVE  Holder'
<1>1. /\ Len(toClient) > 0 /\ Head(toClient) = toClient[1]
      /\ Len(toClient') = Len(toClient) - 1
      /\ \A j \in 1 .. Len(toClient') : toClient'[j] = toClient[j + 1]
      /\ Len(toClient) \in Nat
  BY TailFrames DEF TypeOK
<1>2. NoChunk(toClient) => NoChunk(toClient)'
  BY <1>1 DEF NoChunk
<1>3. CASE CreditWithBroker
  BY <1>2, <1>3 DEF Holder, CreditWithBroker, Done,
                    NoCredit
<1>4. CASE CreditInFrame
  <2>1. PICK i \in 1 .. Len(toClient) : OnlyChunk(toClient, i)
    BY <1>4 DEF CreditInFrame
  <2>2. i # 1 /\ i - 1 \in 1 .. Len(toClient')
    BY <1>1, <2>1 DEF OnlyChunk
  <2>3. OnlyChunk(toClient, i - 1)'
    BY <1>1, <2>1, <2>2 DEF OnlyChunk
  <2> QED
    BY <1>4, <2>2, <2>3 DEF Holder, CreditInFrame, Done, NoCredit
<1>5. CASE CreditInTask
  BY <1>2, <1>5 DEF Holder, CreditInTask, Done, LabelFine,
                    NoCredit
<1>6. CASE CreditInCommand
  BY <1>2, <1>6 DEF Holder, CreditInCommand, Done,
                    OnlyCredit
<1>7. CASE CreditLost
  BY <1>2, <1>7 DEF Holder, CreditLost, NoCredit
<1> QED
  BY <1>3, <1>4, <1>5, <1>6, <1>7 DEF Holder

\* The chunk comes off the wire, and its task begins at its first message.
LEMMA ReadChunkHolder ==
  ASSUME TypeOK, Holder, SentFine, ReadChunk
  PROVE  Holder'
<1>1. /\ Len(toClient) > 0 /\ Head(toClient) = toClient[1]
      /\ toClient' = Tail(toClient)
      /\ Len(toClient') = Len(toClient) - 1
      /\ \A j \in 1 .. Len(toClient') : toClient'[j] = toClient[j + 1]
      /\ Len(toClient) \in Nat
      /\ toClient[1].kind = "chunk"
  BY TailFrames DEF TypeOK, ReadChunk, Read
<1>2. ~NoChunk(toClient)
  BY <1>1 DEF NoChunk
<1>3. CreditInFrame
  BY <1>2 DEF Holder, CreditWithBroker, CreditInTask, CreditInCommand, CreditLost
<1>4. PICK i \in 1 .. Len(toClient) : OnlyChunk(toClient, i)
  BY <1>3 DEF CreditInFrame
<1>5. i = 1
  BY <1>1, <1>4 DEF OnlyChunk
<1>6. Head(toClient).chunk = nextChunk - 1
  BY <1>1, <1>4, <1>5 DEF OnlyChunk
<1>7. NoChunk(toClient)'
  BY <1>1, <1>4, <1>5 DEF OnlyChunk, NoChunk
<1>8. nextChunk - 1 \in Chunks
  BY <1>3, LogAssumption DEF CreditInFrame, TypeOK, Chunks
<1>9. /\ running' = {nextChunk - 1}
      /\ cursor'[nextChunk - 1] = First[nextChunk - 1]
      /\ label'[nextChunk - 1] = First[nextChunk - 1]
  BY <1>3, <1>6, <1>8 DEF ReadChunk, CreditInFrame, TypeOK
<1>10. First[nextChunk - 1] <= First[nextChunk]
  BY <1>8, ChunkBounds DEF TypeOK
<1>11. UNCHANGED <<credit, nextChunk, toServer, sent, app>>
  BY DEF ReadChunk, Read, brokerVars, appVars
<1>12. \A n \in 1 .. Len(sent) : sent[n].offset < First[nextChunk - 1]
  <2> SUFFICES ASSUME NEW n \in 1 .. Len(sent)
               PROVE  sent[n].offset < First[nextChunk - 1]
    OBVIOUS
  <2>1. sent[n].msg \in Nat /\ sent[n].offset \in Nat
    BY SentAreOffsets
  <2>2. sent[n].offset <= sent[n].msg /\ sent[n].msg < First[nextChunk - 1]
    BY <1>3 DEF SentFine, CreditInFrame, Done
  <2> QED
    BY <1>8, <2>1, <2>2, ChunkBounds
<1>13. LabelFine(nextChunk - 1)'
  BY <1>8, <1>9, <1>11, <1>12, ChunkBounds DEF LabelFine
<1> QED
  BY <1>3, <1>7, <1>9, <1>10, <1>11, <1>13 DEF Holder, CreditInFrame, CreditInTask,
     Done, NoCredit

\* A frame that is no chunk is put on the wire.
LEMMA WriteOther ==
  ASSUME TypeOK, Holder,
         NEW e, e.kind # "chunk", toClient' = Append(toClient, e),
         UNCHANGED <<credit, nextChunk, toServer, connected, running, cursor,
                     label, sent, app>>
  PROVE  Holder'
<1>1. /\ Len(toClient) \in Nat
      /\ Len(toClient') = Len(toClient) + 1
      /\ \A j \in 1 .. Len(toClient) : toClient'[j] = toClient[j]
      /\ toClient'[Len(toClient) + 1] = e
  BY AppendFrames DEF TypeOK
<1>2. NoChunk(toClient) => NoChunk(toClient)'
  <2> SUFFICES ASSUME NoChunk(toClient), NEW j \in 1 .. Len(toClient')
               PROVE  toClient'[j].kind # "chunk"
    BY DEF NoChunk
  <2>1. j \in 1 .. Len(toClient) \/ j = Len(toClient) + 1
    BY <1>1
  <2> QED
    BY <1>1, <2>1 DEF NoChunk
<1>3. CASE CreditWithBroker
  BY <1>2, <1>3 DEF Holder, CreditWithBroker, Done,
                    NoCredit
<1>4. CASE CreditInFrame
  <2>1. PICK i \in 1 .. Len(toClient) : OnlyChunk(toClient, i)
    BY <1>4 DEF CreditInFrame
  <2>2. i \in 1 .. Len(toClient') /\ toClient'[i] = toClient[i]
    BY <1>1, <2>1
  <2>3. ASSUME NEW j \in 1 .. Len(toClient'), j # i
        PROVE  toClient'[j].kind # "chunk"
    <3>1. j \in 1 .. Len(toClient) \/ j = Len(toClient) + 1
      BY <1>1
    <3> QED
      BY <1>1, <2>1, <2>3, <3>1 DEF OnlyChunk
  <2>4. OnlyChunk(toClient, i)'
    BY <2>1, <2>2, <2>3 DEF OnlyChunk
  <2> QED
    BY <1>4, <2>2, <2>4 DEF Holder, CreditInFrame, Done, NoCredit
<1>5. CASE CreditInTask
  BY <1>2, <1>5 DEF Holder, CreditInTask, Done, LabelFine,
                    NoCredit
<1>6. CASE CreditInCommand
  BY <1>2, <1>6 DEF Holder, CreditInCommand, Done,
                    OnlyCredit
<1>7. CASE CreditLost
  BY <1>2, <1>7 DEF Holder, CreditLost, NoCredit
<1> QED
  BY <1>3, <1>4, <1>5, <1>6, <1>7 DEF Holder

\* The broker spends its credit on the next chunk.
LEMMA SendChunkHolder ==
  ASSUME TypeOK, Holder, BrokerSendChunk
  PROVE  Holder'
<1>1. CreditWithBroker
  BY DEF BrokerSendChunk, Holder, CreditInFrame, CreditInTask, CreditInCommand,
         CreditLost
<1> DEFINE e == [kind |-> "chunk", chunk |-> nextChunk]
<1>2. /\ Len(toClient) \in Nat
      /\ Len(toClient') = Len(toClient) + 1
      /\ \A j \in 1 .. Len(toClient) : toClient'[j] = toClient[j]
      /\ toClient'[Len(toClient) + 1] = e
  BY AppendFrames DEF TypeOK, BrokerSendChunk
<1>3. nextChunk' = nextChunk + 1 /\ nextChunk \in Nat /\ nextChunk > 0
  BY DEF BrokerSendChunk, TypeOK
<1>4. ASSUME NEW j \in 1 .. Len(toClient'), j # Len(toClient) + 1
      PROVE  toClient'[j].kind # "chunk"
  <2>1. j \in 1 .. Len(toClient)
    BY <1>2, <1>4
  <2> QED
    BY <1>1, <1>2, <2>1 DEF CreditWithBroker, NoChunk
<1>5. nextChunk' - 1 = nextChunk
  BY <1>3
<1>6. OnlyChunk(toClient, Len(toClient))'
  BY <1>2, <1>4, <1>5 DEF OnlyChunk
<1>7. \E i \in 1 .. Len(toClient') : OnlyChunk(toClient, i)'
  BY <1>2, <1>6
<1>8. credit' = 0 /\ UNCHANGED <<toServer, running, sent, app>>
  BY <1>1 DEF CreditWithBroker, BrokerSendChunk, taskVars, appVars
<1> QED
  BY <1>1, <1>3, <1>5, <1>7, <1>8 DEF Holder, CreditWithBroker, CreditInFrame, Done, NoCredit

\* The broker takes a command.
LEMMA ReceiveHolder ==
  ASSUME TypeOK, Holder, BrokerReceive
  PROVE  Holder'
<1>1. /\ Len(toServer) > 0 /\ Head(toServer) = toServer[1]
      /\ toServer' = Tail(toServer)
      /\ Len(toServer') = Len(toServer) - 1
      /\ \A j \in 1 .. Len(toServer') : toServer'[j] = toServer[j + 1]
      /\ Len(toServer) \in Nat
  BY TailFrames DEF TypeOK, BrokerReceive
<1>2. NoCredit(toServer) => NoCredit(toServer)'
  BY <1>1 DEF NoCredit
<1>3. UNCHANGED <<nextChunk, toClient, connected, running, cursor, label, sent, app>>
  BY DEF BrokerReceive, taskVars, appVars
<1>4. CASE Head(toServer) = "credit"
  <2>1. ~NoCredit(toServer)
    BY <1>1, <1>4 DEF NoCredit
  <2>2. CreditInCommand
    BY <2>1 DEF Holder, CreditWithBroker, CreditInFrame, CreditInTask, CreditLost
  <2>3. PICK i \in 1 .. Len(toServer) : OnlyCredit(toServer, i)
    BY <2>2 DEF CreditInCommand
  <2>4. i = 1
    BY <1>1, <1>4, <2>3 DEF OnlyCredit
  <2>5. NoCredit(toServer)'
    BY <1>1, <2>3, <2>4 DEF OnlyCredit, NoCredit
  <2>6. credit' = 1
    BY <1>4, <2>2 DEF BrokerReceive, CreditInCommand
  <2> QED
    BY <1>3, <2>2, <2>5, <2>6 DEF Holder, CreditInCommand, CreditWithBroker, Done, NoChunk
<1>5. CASE Head(toServer) # "credit"
  <2>1. credit' = credit
    BY <1>5 DEF BrokerReceive
  <2>2. CASE CreditWithBroker
    BY <1>2, <1>3, <2>1, <2>2 DEF Holder, CreditWithBroker, Done, NoChunk
  <2>3. CASE CreditInFrame
    BY <1>2, <1>3, <2>1, <2>3 DEF Holder, CreditInFrame, Done, OnlyChunk
  <2>4. CASE CreditInTask
    BY <1>2, <1>3, <2>1, <2>4 DEF Holder, CreditInTask, Done, LabelFine, NoChunk
  <2>5. CASE CreditInCommand
    <3>1. PICK i \in 1 .. Len(toServer) : OnlyCredit(toServer, i)
      BY <2>5 DEF CreditInCommand
    <3>2. i # 1 /\ i - 1 \in 1 .. Len(toServer')
      BY <1>1, <1>5, <3>1 DEF OnlyCredit
    <3>3. OnlyCredit(toServer, i - 1)'
      BY <1>1, <3>1, <3>2 DEF OnlyCredit
    <3> QED
      BY <1>3, <2>1, <2>5, <3>2, <3>3 DEF Holder, CreditInCommand, Done, NoChunk
  <2>6. CASE CreditLost
    BY <2>6 DEF CreditLost, BrokerReceive
  <2> QED
    BY <2>2, <2>3, <2>4, <2>5, <2>6 DEF Holder
<1> QED
  BY <1>4, <1>5

\* A command without credit is sent to the broker.
LEMMA AnswerHolder ==
  ASSUME TypeOK, Holder, AnswerUpdate
  PROVE  Holder'
<1>1. UNCHANGED <<credit, nextChunk, toClient, connected, running, cursor, label,
                  sent, app>>
  BY DEF AnswerUpdate, brokerVars, appVars
<1>2. CASE ~connected
  <2>1. toServer' = toServer
    BY <1>2 DEF AnswerUpdate
  <2> QED
    BY <1>1, <2>1, HolderSame
<1>3. CASE connected
  <2>1. /\ Len(toServer) \in Nat
        /\ Len(toServer') = Len(toServer) + 1
        /\ \A j \in 1 .. Len(toServer) : toServer'[j] = toServer[j]
        /\ toServer'[Len(toServer) + 1] = "answer"
    BY <1>3, AppendFrames DEF TypeOK, AnswerUpdate
  <2>2. \A j \in 1 .. Len(toServer') : j \in 1 .. Len(toServer) \/ j = Len(toServer) + 1
    BY <2>1
  <2>3. NoCredit(toServer) => NoCredit(toServer)'
    BY <2>1, <2>2 DEF NoCredit
  <2>4. CASE CreditWithBroker
    BY <1>1, <2>3, <2>4 DEF Holder, CreditWithBroker, Done, NoChunk
  <2>5. CASE CreditInFrame
    BY <1>1, <2>3, <2>5 DEF Holder, CreditInFrame, Done, OnlyChunk
  <2>6. CASE CreditInTask
    BY <1>1, <2>3, <2>6 DEF Holder, CreditInTask, Done, LabelFine, NoChunk
  <2>7. CASE CreditInCommand
    <3>1. PICK i \in 1 .. Len(toServer) : OnlyCredit(toServer, i)
      BY <2>7 DEF CreditInCommand
    <3>2. i \in 1 .. Len(toServer')
      BY <2>1, <3>1
    <3>3. OnlyCredit(toServer, i)'
      BY <2>1, <2>2, <3>1, <3>2 DEF OnlyCredit
    <3> QED
      BY <1>1, <2>7, <3>2, <3>3 DEF Holder, CreditInCommand, Done, NoChunk
  <2>8. CASE CreditLost
    BY <1>3, <2>8 DEF CreditLost
  <2> QED
    BY <2>4, <2>5, <2>6, <2>7, <2>8 DEF Holder
<1> QED
  BY <1>2, <1>3

\* The loss of the connection takes the credit with it, unless the broker, a
\* task or a frame that still arrives has it.
LEMMA DisconnectHolder ==
  ASSUME TypeOK, Holder, Disconnect
  PROVE  Holder'
<1>1. /\ connected' = FALSE
      /\ UNCHANGED <<credit, nextChunk, running, cursor, label, sent, app>>
  BY DEF Disconnect, brokerVars, taskVars, appVars
<1>2. NoCredit(toServer)'
  BY EmptySeq DEF Disconnect, NoCredit
<1>3. PICK n \in 0 .. Len(toClient) : toClient' = SubSeq(toClient, 1, n)
  BY DEF Disconnect
<1>4. Len(toClient) \in Nat /\ \A i \in 1 .. n : toClient[i] \in Frames
  BY ElementOfSeq, LenProperties DEF TypeOK
<1>5. Len(toClient') = n /\ \A i \in 1 .. n : toClient'[i] = toClient[i]
  BY <1>3, <1>4, SubSeqProperties
<1>6. NoChunk(toClient) => NoChunk(toClient)'
  BY <1>4, <1>5 DEF NoChunk
<1>7. CASE CreditWithBroker
  BY <1>1, <1>2, <1>6, <1>7 DEF Holder, CreditWithBroker, Done
<1>8. CASE CreditInFrame
  <2>1. PICK i \in 1 .. Len(toClient) : OnlyChunk(toClient, i)
    BY <1>8 DEF CreditInFrame
  <2>2. CASE i <= n
    <3>1. i \in 1 .. Len(toClient')
      BY <1>4, <1>5, <2>2
    <3>2. OnlyChunk(toClient, i)'
      BY <1>1, <1>4, <1>5, <2>1, <3>1 DEF OnlyChunk
    <3> QED
      BY <1>1, <1>2, <1>8, <3>1, <3>2 DEF Holder, CreditInFrame, Done
  <2>3. CASE i > n
    <3>1. NoChunk(toClient)'
      BY <1>4, <1>5, <2>1, <2>3 DEF OnlyChunk, NoChunk
    <3> QED
      BY <1>1, <1>2, <1>8, <3>1 DEF Holder, CreditInFrame, CreditLost
  <2> QED
    BY <1>4, <2>2, <2>3
<1>9. CASE CreditInTask
  BY <1>1, <1>2, <1>6, <1>9 DEF Holder, CreditInTask, Done, LabelFine
<1>10. CASE CreditInCommand
  BY <1>1, <1>2, <1>6, <1>10 DEF Holder, CreditInCommand, CreditLost
<1>11. CASE CreditLost
  BY <1>1, <1>2, <1>6, <1>11 DEF Holder, CreditLost
<1> QED
  BY <1>7, <1>8, <1>9, <1>10, <1>11 DEF Holder

\* The task that runs is the credit's holder.
LEMMA TaskHolds ==
  ASSUME TypeOK, Holder, NEW k \in Chunks, k \in running
  PROVE  /\ CreditInTask /\ k = nextChunk - 1 /\ k + 1 = nextChunk
         /\ k \in Nat /\ cursor[k] \in Nat /\ label[k] \in Nat
         /\ First[k + 1] \in Nat /\ cursor[k] <= First[k + 1] /\ LabelFine(k)
<1>1. CreditInTask
  BY DEF Holder, CreditWithBroker, CreditInFrame, CreditInCommand, CreditLost
<1>2. k = nextChunk - 1 /\ nextChunk \in Nat
  BY <1>1 DEF CreditInTask, TypeOK
<1>3. k + 1 = nextChunk
  BY <1>2
<1> QED
  BY <1>1, <1>2, <1>3, ChunkBounds DEF CreditInTask, TypeOK, Chunks

\* An offset is in one chunk only.
LEMMA OneChunk ==
  ASSUME NEW k \in Chunks, NEW o \in Offsets, First[k] <= o, o < First[k + 1]
  PROVE  ChunkOf(o) = k
<1>1. PICK j \in Chunks : j = ChunkOf(o) /\ First[j] <= o /\ o < First[j + 1]
  BY DEF ChunkOf
<1>2. o \in Nat /\ j \in Nat /\ k \in Nat
  BY ChunkBounds DEF Offsets, Chunks
<1>3. ~(j < k)
  <2> SUFFICES ASSUME j < k PROVE FALSE
    OBVIOUS
  <2>1. First[j + 1] <= First[k]
    <3>1. j + 1 < k \/ j + 1 = k
      BY <1>2
    <3>2. /\ j + 1 \in 1 .. NumChunks + 1 /\ k \in 1 .. NumChunks + 1
          /\ First[j + 1] \in Nat /\ First[k] \in Nat
      BY ChunkBounds
    <3> QED
      BY <3>1, <3>2, LogAssumption
  <2> QED
    BY <1>1, <1>2, <2>1, ChunkBounds
<1>4. ~(k < j)
  <2> SUFFICES ASSUME k < j PROVE FALSE
    OBVIOUS
  <2>1. First[k + 1] <= First[j]
    <3>1. k + 1 < j \/ k + 1 = j
      BY <1>2
    <3>2. /\ k + 1 \in 1 .. NumChunks + 1 /\ j \in 1 .. NumChunks + 1
          /\ First[k + 1] \in Nat /\ First[j] \in Nat
      BY ChunkBounds
    <3> QED
      BY <3>1, <3>2, LogAssumption
  <2> QED
    BY <1>1, <1>2, <2>1, ChunkBounds
<1> QED
  BY <1>1, <1>2, <1>3, <1>4

\* The offset counter stays what LabelFine says, one message on.
LEMMA LabelAdvance ==
  ASSUME TypeOK, Holder, NEW k \in Chunks, At(k), NEW by \in {0, 1}, Advance(k, by),
         by = 0 => cursor[k] \notin Passes
  PROVE  /\ First[k] <= label'[k] /\ label'[k] <= cursor'[k]
         /\ FilterCutsTails =>
              \/ label'[k] = cursor'[k]
              \/ \E m \in First[k] .. cursor'[k] - 1 : m \notin Passes
         /\ SkipsNoWanted =>
              \/ label'[k] = cursor'[k] \/ StartOffset <= label'[k]
              \/ First[k + 1] <= StartOffset
<1>1. /\ LabelFine(k)
      /\ cursor[k] \in Nat /\ label[k] \in Nat /\ First[k] \in Nat
      /\ First[k + 1] \in Nat /\ cursor[k] < First[k + 1] /\ StartOffset \in Nat
  BY TaskHolds, ChunkBounds, ParameterAssumption DEF At, Offsets
<1>2. cursor'[k] = cursor[k] + 1 /\ label'[k] = label[k] + by
  BY DEF Advance, TypeOK
<1>3. First[k] <= label[k] /\ label[k] <= cursor[k]
  BY <1>1 DEF LabelFine
<1>4. ASSUME FilterCutsTails
      PROVE  \/ label'[k] = cursor'[k]
             \/ \E m \in First[k] .. cursor'[k] - 1 : m \notin Passes
  <2>1. CASE \E m \in First[k] .. cursor[k] - 1 : m \notin Passes
    <3>1. PICK m \in First[k] .. cursor[k] - 1 : m \notin Passes
      BY <2>1
    <3>2. m \in First[k] .. cursor'[k] - 1
      BY <1>1, <1>2
    <3> QED
      BY <3>1, <3>2
  <2>2. CASE label[k] = cursor[k] /\ by = 1
    BY <1>1, <1>2, <2>2
  <2>3. CASE by = 0
    <3>1. cursor[k] \in First[k] .. cursor'[k] - 1
      BY <1>1, <1>2, <1>3
    <3> QED
      BY <2>3, <3>1
  <2> QED
    BY <1>1, <1>4, <2>1, <2>2, <2>3 DEF LabelFine
<1>5. ASSUME SkipsNoWanted
      PROVE  \/ label'[k] = cursor'[k] \/ StartOffset <= label'[k]
             \/ First[k + 1] <= StartOffset
  <2>1. CASE by = 1
    <3>1. label[k] = cursor[k] \/ StartOffset <= label[k] \/ First[k + 1] <= StartOffset
      BY <1>1, <1>5 DEF LabelFine
    <3> QED
      BY <1>1, <1>2, <2>1, <3>1
  <2>2. CASE by = 0
    <3>1. label'[k] = label[k]
      BY <1>1, <1>2, <2>2
    <3>2. SUFFICES ASSUME ~(StartOffset <= label[k]), ~(First[k + 1] <= StartOffset)
                   PROVE  FALSE
      BY <3>1
    <3>3. label[k] = cursor[k]
      BY <1>1, <1>5, <3>2 DEF LabelFine
    <3>4. First[k] <= StartOffset /\ StartOffset < First[k + 1] /\ cursor[k] < StartOffset
      BY <1>1, <1>3, <3>2, <3>3
    <3>5. ChunkOf(StartOffset) = k
      BY <3>4, OneChunk, ParameterAssumption
    <3>6. cursor[k] \in Offsets
      BY CursorIsOffset
    <3>7. cursor[k] \in Passes
      BY <1>3, <1>5, <3>3, <3>4, <3>5, <3>6 DEF SkipsNoWanted
    <3> QED
      BY <2>2, <3>7
  <2> QED
    BY <2>1, <2>2
<1>6. First[k] <= label'[k] /\ label'[k] <= cursor'[k]
  BY <1>1, <1>2, <1>3
<1> QED
  BY <1>4, <1>5, <1>6

\* A task passes over a message it does not send: one the filter rejects, one that
\* nobody asked for, or one that nobody receives.
LEMMA PassOver ==
  ASSUME TypeOK, Holder, NEW k \in Chunks, At(k), NEW by \in {0, 1}, Advance(k, by),
         by = 0 => cursor[k] \notin Passes,
         SkipsNoWanted /\ app # "dropped" =>
           cursor[k] \notin Passes \/ cursor[k] < BrokerStart,
         UNCHANGED <<credit, nextChunk, toServer, toClient, connected, running,
                     sent, app>>
  PROVE  Holder'
<1>1. /\ CreditInTask /\ k = nextChunk - 1 /\ k + 1 = nextChunk
      /\ k \in Nat /\ cursor[k] \in Nat /\ label[k] \in Nat
      /\ First[k + 1] \in Nat /\ cursor[k] < First[k + 1] /\ LabelFine(k)
  BY TaskHolds DEF At
<1>2. cursor'[k] = cursor[k] + 1 /\ label'[k] = label[k] + by
  BY DEF Advance, TypeOK
<1>3. cursor'[k] <= First[k + 1]
  BY <1>1, <1>2
<1>4. LabelFine(k)'
  <2>1. ASSUME NEW i \in 1 .. Len(sent) PROVE sent[i].offset < label'[k]
    <3>1. sent[i].offset < label[k] /\ sent[i].offset \in Nat
      BY <1>1, SentAreOffsets DEF LabelFine
    <3> QED
      BY <1>1, <1>2, <3>1
  <2> QED
    BY <2>1, LabelAdvance DEF LabelFine
<1>5. BrokerStart \in Nat
  BY StartChunk, ChunkBounds DEF Offsets
<1>6. Done(cursor[k])'
  <2>1. ASSUME NEW i \in 1 .. Len(sent) PROVE sent[i].msg < cursor[k] + 1
    <3>1. sent[i].msg < cursor[k] /\ sent[i].msg \in Nat
      BY <1>1, SentAreOffsets DEF CreditInTask, Done
    <3> QED
      BY <1>1, <3>1
  <2>2. ASSUME SkipsNoWanted, app # "dropped", NEW m \in Passes, BrokerStart <= m,
               m < cursor[k] + 1
        PROVE  \E j \in 1 .. Len(sent) : sent[j].msg = m
    <3>1. m \in Nat /\ m # cursor[k]
      BY <1>1, <1>5, <2>2, ParameterAssumption DEF Offsets
    <3>2. m < cursor[k]
      BY <1>1, <2>2, <3>1
    <3> QED
      BY <1>1, <2>2, <3>2 DEF CreditInTask, Done
  <2> QED
    BY <1>2, <2>1, <2>2 DEF Done
<1>7. nextChunk' - 1 = k
  BY <1>1
<1> QED
  BY <1>1, <1>3, <1>4, <1>6, <1>7 DEF Holder, CreditInTask, NoChunk, NoCredit

\* A task sends a message to an application that listens.
LEMMA SendStep ==
  ASSUME TypeOK, Holder, ChannelInv, NEW k \in Chunks, At(k), Advance(k, 1),
         cursor[k] \in Passes, StartOffset <= label[k], app # "dropped",
         sent' = Append(sent, [msg |-> cursor[k], offset |-> label[k]]),
         UNCHANGED <<credit, nextChunk, toServer, toClient, connected, running, app>>
  PROVE  Holder' /\ ChannelInv'
<1>1. /\ CreditInTask /\ k = nextChunk - 1 /\ k + 1 = nextChunk
      /\ k \in Nat /\ cursor[k] \in Nat /\ label[k] \in Nat
      /\ First[k + 1] \in Nat /\ cursor[k] < First[k + 1] /\ LabelFine(k)
  BY TaskHolds DEF At
<1>2. cursor'[k] = cursor[k] + 1 /\ label'[k] = label[k] + 1
  BY DEF Advance, TypeOK
<1>3. /\ Len(sent) \in Nat
      /\ Len(sent') = Len(sent) + 1
      /\ \A j \in 1 .. Len(sent) : sent'[j] = sent[j]
      /\ sent'[Len(sent) + 1].msg = cursor[k]
      /\ sent'[Len(sent) + 1].offset = label[k]
  BY AppendFrames DEF TypeOK
<1>4. \A j \in 1 .. Len(sent') : j \in 1 .. Len(sent) \/ j = Len(sent) + 1
  BY <1>3
<1>5. \A i \in 1 .. Len(sent) : /\ sent[i].msg \in Nat /\ sent[i].msg < cursor[k]
                                /\ sent[i].offset \in Nat /\ sent[i].offset < label[k]
  BY <1>1, SentAreOffsets DEF CreditInTask, Done, LabelFine
<1>6. First[k] <= label[k] /\ label[k] <= cursor[k]
  BY <1>1 DEF LabelFine
<1>7. FilterCutsTails => label[k] = cursor[k]
  <2> SUFFICES ASSUME FilterCutsTails, label[k] # cursor[k] PROVE FALSE
    OBVIOUS
  <2>1. PICK m \in First[k] .. cursor[k] - 1 : m \notin Passes
    BY <1>1 DEF LabelFine
  <2>2. /\ m \in First[k] .. First[k + 1] - 1 /\ m < cursor[k]
        /\ cursor[k] \in First[k] .. First[k + 1] - 1
    BY <1>1, <1>6, ChunkBounds
  <2> QED
    BY <2>1, <2>2 DEF FilterCutsTails
<1>8. SkipsNoWanted => \A m \in Passes : BrokerStart <= m /\ m < cursor[k] =>
                          \E j \in 1 .. Len(sent) : sent[j].msg = m
  BY <1>1 DEF CreditInTask, Done
<1>9. \A m \in Passes : m \in Nat
  BY ParameterAssumption DEF Offsets
<1>10. Done(cursor[k])'
  <2>1. \A i \in 1 .. Len(sent') : sent'[i].msg < cursor[k] + 1
    BY <1>1, <1>3, <1>4, <1>5
  <2>2. ASSUME SkipsNoWanted, NEW m \in Passes, BrokerStart <= m, m < cursor[k] + 1
        PROVE  \E j \in 1 .. Len(sent') : sent'[j].msg = m
    <3>1. m < cursor[k] \/ m = cursor[k]
      BY <1>1, <1>9, <2>2
    <3>2. CASE m = cursor[k]
      BY <1>3, <3>2
    <3>3. CASE m < cursor[k]
      <4>1. PICK j \in 1 .. Len(sent) : sent[j].msg = m
        BY <1>8, <2>2, <3>3
      <4> QED
        BY <1>3, <4>1
    <3> QED
      BY <3>1, <3>2, <3>3
  <2> QED
    BY <1>2, <2>1, <2>2 DEF Done
<1>11. LabelFine(k)'
  <2>1. \A i \in 1 .. Len(sent') : sent'[i].offset < label'[k]
    BY <1>1, <1>2, <1>3, <1>4, <1>5
  <2> QED
    BY <2>1, LabelAdvance DEF LabelFine
<1>12. Holder'
  <2>1. nextChunk' - 1 = k /\ cursor'[k] <= First[k + 1]
    BY <1>1, <1>2
  <2> QED
    BY <1>1, <1>10, <1>11, <2>1 DEF Holder, CreditInTask, NoChunk, NoCredit
<1>13. InOrder'
  BY <1>3, <1>4, <1>5 DEF InOrder, ChannelInv
<1>14. SentFine'
  BY <1>3, <1>4, <1>6 DEF SentFine, ChannelInv
<1>15. (FilterCutsTails => OffsetIsMessages)'
  BY <1>3, <1>4, <1>7 DEF OffsetIsMessages, ChannelInv
<1>16. (SkipsNoWanted => NoneLeftOut)'
  <2> SUFFICES ASSUME SkipsNoWanted, NEW i \in 1 .. Len(sent'), NEW m \in Passes,
                      BrokerStart <= m, m <= sent'[i].msg
               PROVE  \E j \in 1 .. i : sent'[j].msg = m
    BY DEF NoneLeftOut
  <2>1. CASE i \in 1 .. Len(sent)
    <3>1. PICK j \in 1 .. i : sent[j].msg = m
      BY <1>3, <2>1 DEF NoneLeftOut, ChannelInv
    <3>2. j \in 1 .. Len(sent)
      BY <1>3, <2>1
    <3> QED
      BY <1>3, <3>1, <3>2
  <2>2. CASE i = Len(sent) + 1
    <3>1. m < cursor[k] \/ m = cursor[k]
      BY <1>1, <1>3, <1>9, <2>2
    <3>2. CASE m = cursor[k]
      BY <1>3, <2>2, <3>2
    <3>3. CASE m < cursor[k]
      <4>1. PICK j \in 1 .. Len(sent) : sent[j].msg = m
        BY <1>8, <3>3
      <4> QED
        BY <1>3, <2>2, <4>1
    <3> QED
      BY <3>1, <3>2, <3>3
  <2> QED
    BY <1>4, <2>1, <2>2
<1> QED
  BY <1>12, <1>13, <1>14, <1>15, <1>16 DEF ChannelInv

\* A task is done with its chunk and gives the credit back.
LEMMA FinishHolder ==
  ASSUME TypeOK, Holder, NEW k \in Chunks, Finish(k)
  PROVE  Holder'
<1>1. /\ CreditInTask /\ k = nextChunk - 1 /\ k + 1 = nextChunk
      /\ cursor[k] \in Nat /\ First[k + 1] \in Nat /\ cursor[k] <= First[k + 1]
  BY TaskHolds DEF Finish
<1>2. cursor[k] = First[nextChunk]
  BY <1>1 DEF Finish
<1>3. Done(First[nextChunk])
  BY <1>1, <1>2 DEF CreditInTask
<1>4. running' = {}
  BY <1>1 DEF Finish, CreditInTask
<1>5. UNCHANGED <<credit, nextChunk, toClient, connected, sent, app>>
  BY DEF Finish, brokerVars, appVars
<1>6. CASE connected
  <2>1. /\ Len(toServer) \in Nat
        /\ Len(toServer') = Len(toServer) + 1
        /\ \A j \in 1 .. Len(toServer) : toServer'[j] = toServer[j]
        /\ toServer'[Len(toServer) + 1] = "credit"
    BY <1>6, AppendFrames DEF TypeOK, Finish
  <2>2. \A j \in 1 .. Len(toServer') : j \in 1 .. Len(toServer) \/ j = Len(toServer) + 1
    BY <2>1
  <2>3. OnlyCredit(toServer, Len(toServer))'
    BY <1>1, <2>1, <2>2 DEF OnlyCredit, NoCredit, CreditInTask
  <2>4. \E i \in 1 .. Len(toServer') : OnlyCredit(toServer, i)'
    BY <2>1, <2>3
  <2> QED
    BY <1>1, <1>3, <1>4, <1>5, <2>4 DEF Holder, CreditInTask, CreditInCommand, Done, NoChunk
<1>7. CASE ~connected
  <2>1. toServer' = toServer
    BY <1>7 DEF Finish
  <2> QED
    BY <1>1, <1>4, <1>5, <1>7, <2>1 DEF Holder, CreditInTask, CreditLost, NoChunk,
       NoCredit
<1> QED
  BY <1>6, <1>7

\* The steps of the handler tasks.
LEMMA TaskHolder ==
  ASSUME TypeOK, Holder, ChannelInv, NEW k \in Chunks, TaskStep(k)
  PROVE  Holder' /\ ChannelInv'
<1>1. k \in running
  BY DEF TaskStep, FilterOut, SkipBelow, Forward, Finish, At
<1>2. CASE FilterOut(k)
  <2>1. /\ At(k) /\ Advance(k, 0) /\ cursor[k] \notin Passes
        /\ UNCHANGED <<credit, nextChunk, toServer, toClient, connected, running,
                       sent, app>>
    BY <1>2 DEF FilterOut, brokerVars, netVars, appVars
  <2> QED
    BY <2>1, PassOver, ChannelSame
<1>3. CASE SkipBelow(k)
  <2>1. ASSUME SkipsNoWanted PROVE cursor[k] < BrokerStart
    <3>1. /\ StartOffset > label[k] /\ cursor[k] < First[k + 1]
          /\ cursor[k] \in Nat /\ label[k] \in Nat /\ First[k + 1] \in Nat
      BY <1>1, <1>3, TaskHolds DEF SkipBelow, At
    <3>2. StartOffset <= BrokerStart /\ StartOffset \in Nat /\ BrokerStart \in Nat
      BY <2>1, StartChunk, ParameterAssumption DEF SkipsNoWanted, Offsets
    <3>3. label[k] = cursor[k] \/ StartOffset <= label[k] \/ First[k + 1] <= StartOffset
      BY <1>1, <2>1, TaskHolds DEF LabelFine
    <3> QED
      BY <3>1, <3>2, <3>3
  <2>2. /\ At(k) /\ Advance(k, 1)
        /\ UNCHANGED <<credit, nextChunk, toServer, toClient, connected, running,
                       sent, app>>
    BY <1>3 DEF SkipBelow, brokerVars, netVars, appVars
  <2> QED
    BY <2>1, <2>2, PassOver, ChannelSame
<1>4. CASE Forward(k)
  <2>1. /\ At(k) /\ Advance(k, 1) /\ StartOffset <= label[k] /\ cursor[k] \in Passes
        /\ UNCHANGED <<credit, nextChunk, toServer, toClient, connected, running, app>>
    BY <1>4 DEF Forward, brokerVars, netVars
  <2>2. CASE app = "dropped"
    <3>1. sent' = sent
      BY <1>4, <2>2 DEF Forward
    <3> QED
      BY <2>1, <2>2, <3>1, PassOver, ChannelSame
  <2>3. CASE app # "dropped"
    <3>1. sent' = Append(sent, [msg |-> cursor[k], offset |-> label[k]])
      BY <1>4, <2>3 DEF Forward
    <3> QED
      BY <2>1, <2>3, <3>1, SendStep
  <2> QED
    BY <2>2, <2>3
<1>5. CASE Finish(k)
  <2>1. sent' = sent
    BY <1>5 DEF Finish
  <2> QED
    BY <1>5, <2>1, FinishHolder, ChannelSame
<1> QED
  BY <1>2, <1>3, <1>4, <1>5 DEF TaskStep

\* Every step of Consumer keeps the invariant.
LEMMA InvStep ==
  ASSUME Inv, [Next]_vars
  PROVE  Inv'
<1>1. TypeOK /\ Holder /\ ChannelInv /\ TypeOK'
  BY TypeStep DEF Inv, ChannelInv
<1> SUFFICES Holder' /\ ChannelInv'
  BY <1>1 DEF Inv, ChannelInv
<1>2. CASE \E k \in Chunks : TaskStep(k)
  BY <1>1, <1>2, TaskHolder
<1>3. CASE ReadStep
  <2>1. sent' = sent /\ app' = app
    BY <1>3 DEF ReadStep, ReadChunk, ReadUpdate, ReadUnsubscribed, ReadRefused,
                ReadEnd, Read, appVars
  <2>2. CASE ReadChunk
    BY <1>1, <2>1, <2>2, ReadChunkHolder, ChannelSame DEF ChannelInv
  <2>3. CASE ReadUpdate \/ ReadUnsubscribed \/ ReadRefused
    <3>1. /\ toClient # <<>> /\ Head(toClient).kind # "chunk"
          /\ toClient' = Tail(toClient)
          /\ UNCHANGED <<credit, nextChunk, toServer, connected, running, cursor,
                         label, sent, app>>
      BY <2>3 DEF ReadUpdate, ReadUnsubscribed, ReadRefused, Read, brokerVars, appVars
    <3> QED
      BY <1>1, <3>1, ReadOther, ChannelSame
  <2>4. CASE ReadEnd
    <3>1. UNCHANGED <<credit, nextChunk, toServer, toClient, connected, running,
                      cursor, label, sent, app>>
      BY <2>4 DEF ReadEnd, brokerVars, appVars
    <3> QED
      BY <1>1, <3>1, HolderSame, ChannelSame
  <2> QED
    BY <1>3, <2>2, <2>3, <2>4 DEF ReadStep
<1>4. CASE AnswerUpdate
  <2>1. sent' = sent
    BY <1>4 DEF AnswerUpdate
  <2> QED
    BY <1>1, <1>4, <2>1, AnswerHolder, ChannelSame
<1>5. CASE HandleNone \/ AppStep \/ DropConsumer \/ CloseBegin \/ CloseStep
           \/ UNCHANGED vars
  <2>1. /\ UNCHANGED <<credit, nextChunk, toServer, toClient, connected, running,
                       cursor, label, sent>>
        /\ app' # "dropped" => app # "dropped"
    BY <1>5 DEF HandleNone, AppStep, Register, PollReady, PollPending, CheckClosed,
       WakeUp, DropConsumer, CloseBegin, CloseStep, CloseUnsubscribe, CloseWake,
       CloseDisconnect, vars, brokerVars, netVars, taskVars, appVars
  <2> QED
    BY <1>1, <2>1, HolderSame, ChannelSame
<1>6. CASE BrokerStep
  <2>1. sent' = sent
    BY <1>6 DEF BrokerStep, BrokerSendChunk, BrokerSendUpdate, BrokerReceive,
                BrokerUnsubscribe
  <2>2. CASE BrokerSendChunk
    BY <1>1, <2>1, <2>2, SendChunkHolder, ChannelSame
  <2>3. CASE BrokerReceive
    BY <1>1, <2>1, <2>3, ReceiveHolder, ChannelSame
  <2>4. CASE BrokerSendUpdate \/ BrokerUnsubscribe
    <3>1. UNCHANGED <<credit, nextChunk, toServer, connected, running, cursor,
                      label, sent, app>>
      BY <2>4 DEF BrokerSendUpdate, BrokerUnsubscribe, brokerVars, taskVars, appVars
    <3>2. PICK x \in {"update", "unsubscribed", "refused"} :
              toClient' = Append(toClient, [kind |-> x])
      BY <2>4 DEF BrokerSendUpdate, BrokerUnsubscribe
    <3>3. [kind |-> x].kind # "chunk"
      OBVIOUS
    <3> QED
      BY <1>1, <3>1, <3>2, <3>3, WriteOther, ChannelSame
  <2> QED
    BY <1>6, <2>2, <2>3, <2>4 DEF BrokerStep
<1>7. CASE Disconnect
  <2>1. sent' = sent
    BY <1>7 DEF Disconnect
  <2> QED
    BY <1>1, <1>7, <2>1, DisconnectHolder, ChannelSame
<1> QED
  BY <1>2, <1>3, <1>4, <1>5, <1>6, <1>7 DEF Next

-----------------------------------------------------------------------------
(* The theorems.                                                           *)

(***************************************************************************)
(* The credit given with subscribe is never in two places, and the place   *)
(* it is in says how much of the log has been handed over.                 *)
(***************************************************************************)
THEOREM InvCorrect == Spec => []Inv
  BY InvInit, InvStep, PTL DEF Spec

\* A set of indices in which all elements are equal to one.
LEMMA CardinalitySingle ==
  ASSUME NEW S, NEW i \in S, \A j \in S : j = i
  PROVE  Cardinality(S) = 1
<1>1. S = {i}
  OBVIOUS
<1> QED
  BY <1>1, FS_Singleton

\* One holder of the credit means at most one chunk in flight.
LEMMA HolderMeansOne ==
  ASSUME TypeOK, Holder
  PROVE  OneChunkInFlight
<1> DEFINE credits == {i \in 1 .. Len(toServer) : toServer[i] = "credit"}
<1>1. NoChunk(toClient) => Cardinality(ChunkFrames) = 0
  BY FS_EmptySet DEF NoChunk, ChunkFrames
<1>2. NoCredit(toServer) => Cardinality(credits) = 0
  BY FS_EmptySet DEF NoCredit
<1>3. running = {} => Cardinality(running) = 0
  BY FS_EmptySet
<1>4. CASE CreditWithBroker
  BY <1>1, <1>2, <1>3, <1>4 DEF CreditWithBroker, OneChunkInFlight, InitialCredit
<1>5. CASE CreditInFrame
  <2>1. PICK i \in 1 .. Len(toClient) : OnlyChunk(toClient, i)
    BY <1>5 DEF CreditInFrame
  <2>2. i \in ChunkFrames /\ \A j \in ChunkFrames : j = i
    BY <2>1 DEF OnlyChunk, ChunkFrames
  <2>3. Cardinality(ChunkFrames) = 1
    BY <2>2, CardinalitySingle
  <2> QED
    BY <1>2, <1>3, <1>5, <2>3 DEF CreditInFrame, OneChunkInFlight, InitialCredit
<1>6. CASE CreditInTask
  <2>1. Cardinality(running) = 1
    BY <1>6, FS_Singleton DEF CreditInTask
  <2> QED
    BY <1>1, <1>2, <1>6, <2>1 DEF CreditInTask, OneChunkInFlight, InitialCredit
<1>7. CASE CreditInCommand
  <2>1. PICK i \in 1 .. Len(toServer) : OnlyCredit(toServer, i)
    BY <1>7 DEF CreditInCommand
  <2>2. i \in credits /\ \A j \in credits : j = i
    BY <2>1 DEF OnlyCredit
  <2>3. Cardinality(credits) = 1
    BY <2>2, CardinalitySingle
  <2> QED
    BY <1>1, <1>3, <1>7, <2>3 DEF CreditInCommand, OneChunkInFlight, InitialCredit
<1>8. CASE CreditLost
  BY <1>1, <1>2, <1>3, <1>8 DEF CreditLost, OneChunkInFlight, InitialCredit
<1> QED
  BY <1>4, <1>5, <1>6, <1>7, <1>8 DEF Holder

(***************************************************************************)
(* At most one chunk is under way, whatever the interleaving of broker,    *)
(* dispatcher and handler tasks: build subscribes with a credit of 1 and   *)
(* handle_message gives one back only after the whole chunk.               *)
(***************************************************************************)
THEOREM OneChunkAtATime == Spec => []OneChunkInFlight
<1>1. Inv => OneChunkInFlight
  BY HolderMeansOne DEF Inv
<1> QED
  BY <1>1, InvCorrect, PTL

(***************************************************************************)
(* Deliveries reach the application's channel in the order of the log,     *)
(* with any filter, single active consumer or not.                         *)
(***************************************************************************)
THEOREM DeliveredInOrder == Spec => []InOrder
<1>1. Inv => InOrder
  BY DEF Inv
<1> QED
  BY <1>1, InvCorrect, PTL

(***************************************************************************)
(* Delivery::offset is the message's own offset as long as the post filter *)
(* rejects, of any chunk, nothing but its last messages: none of them, or  *)
(* the whole chunk, included.                                              *)
(***************************************************************************)
THEOREM OffsetsAreRight ==
  ASSUME FilterCutsTails
  PROVE  Spec => []OffsetIsMessages
<1>1. Inv => OffsetIsMessages
  BY DEF Inv
<1> QED
  BY <1>1, InvCorrect, PTL

(***************************************************************************)
(* A consumer that does not ask, through its listener, for an offset after *)
(* the builder's gets nothing before the offset it asked for, whatever its *)
(* filter.                                                                 *)
(***************************************************************************)
THEOREM NothingEarly ==
  ASSUME BrokerStart <= StartOffset
  PROVE  Spec => []StartsWhereAsked
<1>1. ASSUME Inv PROVE StartsWhereAsked
  <2> SUFFICES ASSUME NEW i \in 1 .. Len(sent) PROVE sent[i].msg >= BrokerStart
    BY DEF StartsWhereAsked
  <2>1. sent[i].msg \in Nat /\ sent[i].offset \in Nat
    BY <1>1, SentAreOffsets DEF Inv
  <2>2. StartOffset <= sent[i].offset /\ sent[i].offset <= sent[i].msg
    BY <1>1 DEF Inv, SentFine
  <2>3. StartOffset \in Nat /\ BrokerStart \in Nat
    BY StartChunk, ParameterAssumption DEF Offsets
  <2> QED
    BY <2>1, <2>2, <2>3
<1>2. Inv => StartsWhereAsked
  BY <1>1
<1> QED
  BY <1>2, InvCorrect, PTL

(***************************************************************************)
(* A consumer that reads from the builder's offset on misses none of the   *)
(* messages its filter accepts, if the filter also accepts those of the    *)
(* same chunk that come before that offset.                                *)
(***************************************************************************)
THEOREM NothingMissing ==
  ASSUME BrokerStart = StartOffset, SkipsNoWanted
  PROVE  Spec => []NoGap
<1>1. Inv => NoneLeftOut
  BY DEF Inv
<1>2. BrokerStart <= StartOffset
  BY StartChunk DEF Offsets
<1>3. Spec => []StartsWhereAsked
  BY <1>2, NothingEarly
<1>4. StartsWhereAsked /\ NoneLeftOut => NoGap
  BY DEF NoGap
<1> QED
  BY <1>1, <1>3, <1>4, InvCorrect, PTL
-----------------------------------------------------------------------------
(* Consumer implements Subscription.                                       *)

\* A sequence of which one more is read.
LEMMA OneMore ==
  ASSUME NEW S, NEW n \in Nat, NEW f \in [1 .. n + 1 -> S]
  PROVE  /\ Len([i \in 1 .. n |-> f[i]]) = n
         /\ [i \in 1 .. n + 1 |-> f[i]] = Append([i \in 1 .. n |-> f[i]], f[n + 1])
<1> DEFINE g == [i \in 1 .. n |-> f[i]]
           h == [i \in 1 .. n + 1 |-> f[i]]
<1>1. g \in Seq(S) /\ Len(g) = n /\ \A i \in 1 .. n : g[i] = f[i]
  BY IsASeq, LenProperties
<1>2. h \in Seq(S) /\ Len(h) = n + 1 /\ \A i \in 1 .. n + 1 : h[i] = f[i]
  BY IsASeq, LenProperties
<1>3. f[n + 1] \in S
  OBVIOUS
<1> HIDE DEF g, h
<1>4. /\ Append(g, f[n + 1]) \in Seq(S) /\ Len(Append(g, f[n + 1])) = n + 1
      /\ \A i \in 1 .. n : Append(g, f[n + 1])[i] = g[i]
      /\ Append(g, f[n + 1])[n + 1] = f[n + 1]
  BY <1>1, <1>3, AppendProperties
<1>5. \A i \in 1 .. n + 1 : h[i] = Append(g, f[n + 1])[i]
  BY <1>1, <1>2, <1>4
<1>6. h = Append(g, f[n + 1])
  BY <1>2, <1>4, <1>5, SeqEqual
<1> QED
  BY <1>1, <1>6 DEF g, h

\* A delivery that poll_next returns is the first of those still to come.
LEMMA ReceiveRefines ==
  ASSUME Inv, BrokerStart = StartOffset, SkipsNoWanted, PollReady
  PROVE  Promise!Next
<1> DEFINE W == {m \in Passes : BrokerStart <= m}
           msg == [i \in 1 .. taken + 1 |-> sent[i].msg]
           m == msg[taken + 1]
<1>1. /\ taken \in Nat /\ taken + 1 \in 1 .. Len(sent) /\ taken' = taken + 1
      /\ Len(sent) \in Nat /\ app = "recv" /\ app' = "poll"
      /\ UNCHANGED <<sent, closed>>
  BY LenProperties DEF Inv, TypeOK, PollReady
<1>2. ASSUME NEW i \in 1 .. taken + 1
      PROVE  msg[i] = sent[i].msg /\ msg[i] \in Offsets /\ msg[i] \in W
  <2>1. i \in 1 .. Len(sent)
    BY <1>1
  <2>2. sent[i].msg \in Nat /\ sent[i].offset \in Nat /\ sent[i].msg \in Offsets
    BY <2>1, SentAreOffsets DEF Inv
  <2>3. sent[i].msg \in Passes /\ StartOffset <= sent[i].offset /\ sent[i].offset <= sent[i].msg
    BY <2>1 DEF Inv, SentFine
  <2>4. BrokerStart <= sent[i].msg
    BY <2>2, <2>3, ParameterAssumption DEF Offsets
  <2> QED
    BY <2>2, <2>3, <2>4
<1>3. msg \in [1 .. taken + 1 -> Offsets]
  BY <1>2
<1>4. {msg[i] : i \in 1 .. taken} = {n \in W : n < m}
  <2>1. ASSUME NEW i \in 1 .. taken PROVE msg[i] \in W /\ msg[i] < m
    <3>1. i \in 1 .. Len(sent) /\ i < taken + 1 /\ i \in 1 .. taken + 1
      BY <1>1
    <3>2. sent[i].msg < sent[taken + 1].msg
      BY <1>1, <3>1 DEF Inv, InOrder
    <3> QED
      BY <1>1, <1>2, <3>1, <3>2
  <2>2. ASSUME NEW n \in W, n < m PROVE \E i \in 1 .. taken : msg[i] = n
    <3>1. n \in Nat /\ m \in Nat /\ m = sent[taken + 1].msg
      BY <1>1, <1>2, ParameterAssumption DEF Offsets
    <3>2. PICK j \in 1 .. taken + 1 : sent[j].msg = n
      BY <1>1, <2>2, <3>1 DEF Inv, NoneLeftOut
    <3>3. j # taken + 1
      BY <2>2, <3>1, <3>2
    <3> QED
      BY <1>1, <1>2, <3>2, <3>3
  <2> QED
    BY <2>1, <2>2
<1> HIDE DEF msg
<1>5. /\ Len([i \in 1 .. taken |-> msg[i]]) = taken
      /\ [i \in 1 .. taken + 1 |-> msg[i]] = Append([i \in 1 .. taken |-> msg[i]], m)
  BY <1>1, <1>3, OneMore
<1>6. /\ [i \in 1 .. taken |-> sent[i].msg] = [i \in 1 .. taken |-> msg[i]]
      /\ [i \in 1 .. taken + 1 |-> sent[i].msg] = [i \in 1 .. taken + 1 |-> msg[i]]
  BY <1>1, <1>2
<1>7. [i \in 1 .. taken |-> sent[i].msg]' = Append([i \in 1 .. taken |-> sent[i].msg], m)
  BY <1>1, <1>5, <1>6
<1>8. Promise!Received = {msg[i] : i \in 1 .. taken}
  <2>1. \A i \in 1 .. taken : [j \in 1 .. taken |-> msg[j]][i] = msg[i]
    OBVIOUS
  <2> QED
    BY <1>5, <1>6, <2>1 DEF Promise!Received
<1>9. m \in W
  BY <1>1, <1>2
<1> HIDE DEF m
<1>10. PICK x \in W : x = m
  BY <1>9
<1>11. Promise!Receive(x)
  BY <1>1, <1>4, <1>7, <1>8, <1>10 DEF Promise!Receive
<1> QED
  BY <1>11 DEF Promise!Next

\* What the application has been given is not changed by a delivery that is sent.
LEMMA GivenStays ==
  ASSUME Inv, Inv', taken' = taken,
         sent' = sent \/ \E d \in Deliveries : sent' = Append(sent, d)
  PROVE  [i \in 1 .. taken |-> sent[i].msg]' = [i \in 1 .. taken |-> sent[i].msg]
<1>1. taken \in Nat /\ Len(sent) \in Nat /\ taken <= Len(sent)
  BY LenProperties DEF Inv, TypeOK
<1>2. \A i \in 1 .. Len(sent) : sent'[i] = sent[i]
  <2>1. CASE \E d \in Deliveries : sent' = Append(sent, d)
    <3>1. PICK d \in Deliveries : sent' = Append(sent, d)
      BY <2>1
    <3>2. sent \in Seq(Deliveries)
      BY DEF Inv, TypeOK
    <3> QED
      BY <3>1, <3>2, AppendFrames
  <2> QED
    BY <2>1
<1>3. \A i \in 1 .. taken : sent'[i].msg = sent[i].msg
  BY <1>1, <1>2
<1> QED
  BY <1>3

(***************************************************************************)
(* What the application sees is the Subscription: the messages it asked    *)
(* for, in order, none twice and none left out, and None only after the    *)
(* consumer was closed or its connection ended.                            *)
(***************************************************************************)
THEOREM Refinement ==
  ASSUME BrokerStart = StartOffset, SkipsNoWanted
  PROVE  Spec => ImplementsSubscription
<1>1. Init => Promise!Init
  BY DEF Init, Promise!Init
<1>2. ASSUME Inv, Inv', [Next]_vars PROVE [Promise!Next]_(Promise!vars)
  <2>1. CASE PollReady
    BY <1>2, <2>1, ReceiveRefines
  <2>2. CASE Register \/ PollPending \/ WakeUp \/ CloseStep \/ AnswerUpdate \/ ReadStep
             \/ BrokerStep \/ Disconnect \/ UNCHANGED vars
    <3>1. /\ UNCHANGED <<taken, sent, closed>>
          /\ app' = app \/ {app, app'} \subseteq {"poll", "recv", "check", "asleep"}
      BY <2>2 DEF Register, PollPending, WakeUp, CloseStep, CloseUnsubscribe, CloseWake,
         CloseDisconnect, AnswerUpdate, ReadStep, ReadChunk, ReadUpdate, ReadUnsubscribed,
         ReadRefused, ReadEnd, Read, BrokerStep, BrokerSendChunk, BrokerSendUpdate,
         BrokerReceive, BrokerUnsubscribe, Disconnect, vars, appVars
    <3> QED
      BY <3>1 DEF Promise!vars
  <2>3. CASE \E k \in Chunks : TaskStep(k)
    <3>1. PICK k \in Chunks : TaskStep(k)
      BY <2>3
    <3>2. UNCHANGED <<taken, closed, app>>
      BY <3>1 DEF TaskStep, FilterOut, SkipBelow, Forward, Finish, appVars
    <3>3. sent' = sent \/ \E d \in Deliveries : sent' = Append(sent, d)
      <4>1. CASE Forward(k)
        <5>1. [msg |-> cursor[k], offset |-> label[k]] \in Deliveries
          <6>1. cursor[k] \in Offsets /\ label[k] \in Nat
            BY <1>2, <4>1, CursorIsOffset DEF Inv, TypeOK, Forward
          <6> QED
            BY <6>1 DEF Deliveries
        <5> QED
          BY <4>1, <5>1 DEF Forward
      <4> QED
        BY <3>1, <4>1 DEF TaskStep, FilterOut, SkipBelow, Finish
    <3> QED
      BY <1>2, <3>2, <3>3, GivenStays DEF Promise!vars
  <2>4. CASE HandleNone \/ CloseBegin
    <3>1. UNCHANGED <<taken, sent, app>> /\ closed' = TRUE
      BY <2>4 DEF HandleNone, CloseBegin, appVars
    <3>2. Promise!Close
      BY <3>1 DEF Promise!Close
    <3> QED
      BY <3>2 DEF Promise!Next
  <2>5. CASE CheckClosed
    <3>1. UNCHANGED <<taken, sent, closed>> /\ app = "check"
      BY <2>5 DEF CheckClosed
    <3>2. CASE closed
      <4>1. app' = "ended"
        BY <2>5, <3>2 DEF CheckClosed
      <4>2. Promise!End
        BY <3>1, <3>2, <4>1 DEF Promise!End
      <4> QED
        BY <4>2 DEF Promise!Next
    <3>3. CASE ~closed
      <4>1. app' = "asleep"
        BY <2>5, <3>3 DEF CheckClosed
      <4> QED
        BY <3>1, <4>1 DEF Promise!vars
    <3> QED
      BY <3>2, <3>3
  <2>6. CASE DropConsumer
    <3>1. UNCHANGED <<taken, sent, closed>> /\ app \in {"poll", "asleep"} /\ app' = "dropped"
      BY <2>6 DEF DropConsumer
    <3>2. Promise!Drop
      BY <3>1 DEF Promise!Drop
    <3> QED
      BY <3>2 DEF Promise!Next
  <2> QED
    BY <1>2, <2>1, <2>2, <2>3, <2>4, <2>5, <2>6 DEF Next, AppStep
<1>3. Inv /\ Inv' /\ [Next]_vars => [Promise!Next]_(Promise!vars)
  BY <1>2
<1> QED
  BY <1>1, <1>3, InvCorrect, PTL DEF Spec, Promise!Spec, ImplementsSubscription
=============================================================================
