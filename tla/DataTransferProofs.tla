------------------------- MODULE DataTransferProofs -------------------------
(***************************************************************************)
(* Proofs about the data transfer, for every number of chunks and writes,  *)
(* every window and every threshold of the data channel.                   *)
(*                                                                         *)
(* The first part is about the sender of webrtc alone, called with         *)
(* arbitrary sizes: its buffer can grow past maxBufferedAmount only with   *)
(* the wake-ups that are left over, so the induction counts them.          *)
(*                                                                         *)
(* The second shows that the data transfer uses the sender as the module   *)
(* DCSender says: every step of the source, the sender, the sink and the   *)
(* rate callback is a step of SenderNext or leaves the sender alone.       *)
(***************************************************************************)
EXTENDS DataTransfer, FiniteSetTheorems, TLAPS

(* What may be buffered at each place of sendLoop: a message for each      *)
(* wake-up that is used already, and one for the message just sent.        *)
Used(wakeUps) == IF wakeUps = 1 THEN 0 ELSE MaxMessage
JustSent == IF loop \in {"opening", "receiving", "sending"} THEN 0 ELSE MaxMessage
Allowed == maxBufferedAmount + Used(sendMore) + Used(lowPending) + JustSent

SenderBound == bufferedAmount <= Allowed
SenderInv == SenderTypeOK /\ SenderBound

LEMMA PartsAreNumbers ==
  ASSUME SenderTypeOK
  PROVE  /\ Used(sendMore) \in Nat /\ Used(sendMore) <= MaxMessage
         /\ Used(lowPending) \in Nat /\ Used(lowPending) <= MaxMessage
         /\ JustSent \in Nat /\ JustSent <= MaxMessage
BY SenderConstantsOK DEF SenderConstantsOK, SenderTypeOK, Used, JustSent

THEOREM SenderInitInvariant == SenderInit => SenderInv
<1> SUFFICES ASSUME SenderInit PROVE SenderInv
  OBVIOUS
<1>1. SenderTypeOK
  BY SenderConstantsOK DEF SenderConstantsOK, SenderInit, SenderTypeOK
<1>2. SenderBound
  BY <1>1, PartsAreNumbers, SenderConstantsOK DEF SenderConstantsOK, SenderInit, SenderBound, Allowed
<1> QED
  BY <1>1, <1>2 DEF SenderInv

THEOREM SenderTypeStep == SenderTypeOK /\ [SenderNext]_senderVars => SenderTypeOK'
<1> SUFFICES ASSUME SenderTypeOK, [SenderNext]_senderVars PROVE SenderTypeOK'
  OBVIOUS
<1> USE SenderConstantsOK DEF SenderConstantsOK, SenderTypeOK
<1>1. CASE Open
  BY <1>1 DEF Open
<1>2. ASSUME NEW n \in 1 .. MaxMessage, Take(n) PROVE SenderTypeOK'
  BY <1>2 DEF Take
<1>3. CASE Send
  BY <1>3 DEF Send
<1>4. CASE SendFails
  BY <1>4 DEF SendFails
<1>5. CASE CheckAmount
  BY <1>5 DEF CheckAmount
<1>6. CASE Stop
  BY <1>6 DEF Stop
<1>7. CASE TakeToken
  BY <1>7 DEF TakeToken
<1>8. ASSUME NEW n \in Nat, DrainTo(n) PROVE SenderTypeOK'
  BY <1>8 DEF DrainTo
<1>9. CASE BufferedAmountLow
  BY <1>9 DEF BufferedAmountLow, SignalMore
<1>10. CASE UNCHANGED senderVars
  BY <1>10 DEF senderVars
<1> QED
  BY <1>1, <1>2, <1>3, <1>4, <1>5, <1>6, <1>7, <1>8, <1>9, <1>10
  DEF SenderNext, Wait

THEOREM SenderStepInvariant == SenderInv /\ [SenderNext]_senderVars => SenderInv'
<1> SUFFICES ASSUME SenderInv, [SenderNext]_senderVars PROVE SenderInv'
  OBVIOUS
<1>t. SenderTypeOK /\ SenderTypeOK'
  BY SenderTypeStep DEF SenderInv
<1> SUFFICES SenderBound'
  BY <1>t DEF SenderInv
<1> USE <1>t, SenderConstantsOK DEF SenderConstantsOK, SenderInv, SenderTypeOK, SenderBound, Allowed, Used, JustSent
<1>1. CASE Open
  BY <1>1 DEF Open
<1>2. ASSUME NEW n \in 1 .. MaxMessage, Take(n) PROVE SenderBound'
  BY <1>2 DEF Take
<1>3. CASE Send
  BY <1>3 DEF Send
<1>4. CASE SendFails
  BY <1>4 DEF SendFails
<1>5. CASE CheckAmount
  BY <1>5 DEF CheckAmount, IsFull
<1>6. CASE Stop
  BY <1>6 DEF Stop
<1>7. CASE TakeToken
  BY <1>7 DEF TakeToken
<1>8. ASSUME NEW n \in Nat, DrainTo(n) PROVE SenderBound'
  BY <1>8 DEF DrainTo, Crosses
<1>9. CASE BufferedAmountLow
  BY <1>9 DEF BufferedAmountLow, SignalMore
<1>10. CASE UNCHANGED senderVars
  BY <1>10 DEF senderVars
<1> QED
  BY <1>1, <1>2, <1>3, <1>4, <1>5, <1>6, <1>7, <1>8, <1>9, <1>10
  DEF SenderNext, Wait

(* The types, for every value of the constants. *)
THEOREM SenderTypeCorrect == SenderSpec => []SenderTypeOK
<1>1. SenderInv => SenderTypeOK
  BY DEF SenderInv
<1> QED
  BY <1>1, SenderInitInvariant, SenderStepInvariant, PTL DEF SenderSpec

(* The data channel never buffers more than maxBufferedAmount and three    *)
(* messages, whatever the thresholds and the message sizes.                *)
THEOREM BufferStaysBounded == SenderSpec => []BufferBounded
<1>1. SenderInv => BufferBounded
  BY PartsAreNumbers, SenderConstantsOK
  DEF SenderConstantsOK, SenderInv, SenderBound, Allowed, SenderTypeOK, BufferBounded
<1> QED
  BY <1>1, SenderInitInvariant, SenderStepInvariant, PTL DEF SenderSpec
-----------------------------------------------------------------------------
(* The steps outside the sender leave it alone. *)
LEMMA RunLeavesSender == RunStep => UNCHANGED senderVars
<1> USE DEF netVars, lowerVars
<1>1. StartAlone => UNCHANGED senderVars
  BY DEF StartAlone
<1>2. DelayCancelled => UNCHANGED senderVars
  BY DEF DelayCancelled
<1>3. StartChunk => UNCHANGED senderVars
  BY DEF StartChunk
<1>4. StopStarting => UNCHANGED senderVars
  BY DEF StopStarting
<1>5. FinishChunks => UNCHANGED senderVars
  BY DEF FinishChunks
<1>6. StartFails => UNCHANGED senderVars
  BY DEF StartFails
<1> QED
  BY <1>1, <1>2, <1>3, <1>4, <1>5, <1>6 DEF RunStep

LEMMA OthersLeaveSender ==
  LimiterFails \/ Cancel \/ Break \/ SinkStep \/ Assign \/ UpdateRate => UNCHANGED senderVars
<1> USE DEF netVars, lowerVars
<1>1. LimiterFails => UNCHANGED senderVars
  BY DEF LimiterFails
<1>2. Cancel \/ Break => UNCHANGED senderVars
  BY DEF Cancel, Break
<1>3. SinkStep => UNCHANGED senderVars
  BY DEF SinkStep, ReadHeader, ReadData
<1>4. Assign \/ UpdateRate => UNCHANGED senderVars
  BY DEF Assign, UpdateRate
<1> QED
  BY <1>1, <1>2, <1>3, <1>4

LEMMA FailuresLeaveSender ==
  ASSUME NEW w \in Workers, Fail(w)
  PROVE  UNCHANGED senderVars
BY DEF Fail, HeaderFails, WriteFails, netVars, lowerVars

(* A Write hands one message to the sender, over webrtc. *)
LEMMA PutUsesSender ==
  ASSUME NEW item, Put(item)
  PROVE  SenderNext \/ UNCHANGED senderVars
<1>1. CASE transport = "messages"
  <2>1. Take(1)
    BY <1>1 DEF Put
  <2>2. 1 \in 1 .. MaxMessage
    BY ConstantsOK DEF ConstantsOK
  <2> QED
    BY <2>1, <2>2 DEF SenderNext
<1>2. CASE transport # "messages"
  BY <1>2 DEF Put
<1> QED
  BY <1>1, <1>2

LEMMA WorkersUseSender ==
  ASSUME NEW w \in Workers, WorkerStep(w)
  PROVE  SenderNext \/ UNCHANGED senderVars
<1> USE DEF netVars, lowerVars
<1>1. CASE BeginChunk(w)
  BY <1>1 DEF BeginChunk
<1>2. CASE Check(w)
  BY <1>2 DEF Check
<1>3. CASE WriteHeader(w)
  BY <1>3, PutUsesSender DEF WriteHeader
<1>4. CASE WriteData(w)
  BY <1>4, PutUsesSender DEF WriteData
<1>5. CASE EndOfData(w)
  BY <1>5 DEF EndOfData
<1> QED
  BY <1>1, <1>2, <1>3, <1>4, <1>5 DEF WorkerStep, Write

(* The steps of the sender itself, where the sink's window is a guard more. *)
LEMMA SenderStepsAreSteps == SenderStep => SenderNext
<1> SUFFICES ASSUME SenderStep PROVE SenderNext
  OBVIOUS
<1>1. CASE SendLoopStep
  BY <1>1 DEF SendLoopStep, SenderNext
<1>2. CASE ChannelStep
  <2>1. CASE Open \/ BufferedAmountLow
    BY <2>1 DEF SenderNext
  <2>2. ASSUME NEW n \in 0 .. bufferedAmount, DrainTo(n) PROVE SenderNext
    <3>1. n \in Nat
      OBVIOUS
    <3> QED
      BY <3>1, <2>2 DEF SenderNext
  <2> QED
    BY <1>2, <2>1, <2>2 DEF ChannelStep
<1> QED
  BY <1>1, <1>2 DEF SenderStep

(* The composition implements the specification of the sender. *)
THEOREM ImplementsSender == Spec => SenderSpec
<1>1. Init => SenderInit
  BY DEF Init
<1>2. [Next]_vars => [SenderNext]_senderVars
  <2> SUFFICES ASSUME [Next]_vars PROVE SenderNext \/ UNCHANGED senderVars
    OBVIOUS
  <2>1. CASE RunStep
    BY <2>1, RunLeavesSender
  <2>2. CASE LimiterFails \/ Cancel \/ Break \/ SinkStep \/ Assign \/ UpdateRate
    BY <2>2, OthersLeaveSender
  <2>3. CASE SenderStep
    BY <2>3, SenderStepsAreSteps
  <2>4. ASSUME NEW w \in Workers, WorkerStep(w) \/ Fail(w)
        PROVE  SenderNext \/ UNCHANGED senderVars
    BY <2>4, WorkersUseSender, FailuresLeaveSender
  <2>5. CASE UNCHANGED vars
    BY <2>5 DEF vars, netVars, lowerVars
  <2> QED
    BY <2>1, <2>2, <2>3, <2>4, <2>5 DEF Next
<1> QED
  BY <1>1, <1>2, PTL DEF Spec, SenderSpec

(* Whatever the source and the sink do, and however chunks overlap, the    *)
(* buffer of the data channel stays bounded.                               *)
THEOREM SourceCannotOverfill == Spec => []BufferBounded
BY ImplementsSender, BufferStaysBounded, PTL
-----------------------------------------------------------------------------
SourceTypes ==
  /\ kind \in {"chunks", "file", "random"} /\ transport \in {"messages", "stream"}
  /\ worker \in [Workers -> {"none", "starting", "begun", "header", "check", "data", "done"}]
  /\ next \in 1 .. Chunks + 1 /\ left \in [Workers -> 0 .. Writes]

(* The file and the random source send in the goroutine of Run, and the    *)
(* chunk source in the goroutines it starts, one after the other.          *)
OnlyOneKind ==
  /\ \A w \in next .. Chunks : worker[w] = "none"
  /\ kind = "chunks" => worker[0] = "none"
  /\ kind # "chunks" => \A w \in 1 .. Chunks : worker[w] = "none"
  /\ kind # "chunks" /\ run = "called" => worker[0] = "none"

(* A closed writer: Run has returned, and unless it left goroutines of     *)
(* chunks behind, none is at work or will be.                              *)
Settled ==
  closed /\ ~(kind = "chunks" /\ cancelled) =>
    run = "returned" /\ \A w \in Workers : worker[w] \in {"none", "done"}

(* Without overlap one goroutine is at work, and unless Run has cleared    *)
(* the flag because ctx is done, it is set meanwhile.                      *)
OneAtATime == ~overlap => \A v, w \in Active : v = w
FlagWhileActive == ~overlap /\ ~cancelled => \A w \in Active : running

SourceInv == 
  /\ SourceTypes /\ OnlyOneKind /\ Settled /\ OneAtATime /\ FlagWhileActive
  /\ NoWriteAfterClose /\ MediaYieldToData

LEMMA TypesStep ==
  ASSUME SourceTypes, [Next]_vars
  PROVE  SourceTypes'
<1> USE ConstantsOK DEF ConstantsOK, SourceTypes, Workers
<1>1. CASE StartAlone \/ DelayCancelled \/ StartFails
  BY <1>1 DEF StartAlone, DelayCancelled, StartFails, Running, netVars, historyVars
<1>2. CASE StartChunk
  BY <1>2 DEF StartChunk, netVars, historyVars
<1>3. CASE StopStarting \/ FinishChunks
  BY <1>3 DEF StopStarting, FinishChunks, Close, AllDone, historyVars
<1>4. CASE LimiterFails
  BY <1>4 DEF LimiterFails, EndRun, CtxDone, historyVars
<1>5. CASE Cancel \/ Break \/ Assign \/ UpdateRate
  BY <1>5 DEF Cancel, Break, Assign, UpdateRate, sourceVars, historyVars, netVars, lowerVars
<1>6. CASE SinkStep \/ SenderStep
  BY <1>6 DEF SinkStep, ReadHeader, ReadData, SenderStep, sourceVars, historyVars, lowerVars
<1>7. ASSUME NEW w \in Workers, BeginChunk(w)
       PROVE  SourceTypes'
  BY <1>7 DEF BeginChunk, netVars
<1>8. ASSUME NEW w \in Workers, Check(w)
       PROVE  SourceTypes'
  BY <1>8 DEF Check, EndRun, EndChunk, ClearRunning, CtxDone, historyVars
<1>9. ASSUME NEW w \in Workers, Write(w)
       PROVE  SourceTypes'
  BY <1>9 DEF Write, WriteHeader, WriteData, Amount, historyVars
<1>10. ASSUME NEW w \in Workers, EndOfData(w)
       PROVE  SourceTypes'
  BY <1>10 DEF EndOfData, EndRun, EndChunk, ClearRunning, historyVars
<1>11. ASSUME NEW w \in Workers, Fail(w)
       PROVE  SourceTypes'
  <2>1. CASE HeaderFails(w)
    BY <2>1 DEF HeaderFails, EndChunk, ClearRunning, Refused, netVars, lowerVars
  <2>2. CASE WriteFails(w)
    BY <2>2 DEF WriteFails, EndRun, EndChunk, ClearRunning, Refused
  <2> QED
    BY <1>11, <2>1, <2>2 DEF Fail
<1>12. CASE UNCHANGED vars
  BY <1>12 DEF vars, sourceVars, netVars, historyVars
<1> QED
  BY <1>1, <1>2, <1>3, <1>4, <1>5, <1>6, <1>7, <1>8, <1>9, <1>10, <1>11, <1>12
  DEF Next, RunStep, WorkerStep

LEMMA KindStep ==
  ASSUME SourceTypes, OnlyOneKind, [Next]_vars
  PROVE  OnlyOneKind'
<1> USE ConstantsOK DEF ConstantsOK, SourceTypes, OnlyOneKind, Workers
<1>1. CASE StartAlone \/ DelayCancelled \/ StartFails
  BY <1>1 DEF StartAlone, DelayCancelled, StartFails, Running, netVars, historyVars
<1>2. CASE StartChunk
  BY <1>2 DEF StartChunk, netVars, historyVars
<1>3. CASE StopStarting \/ FinishChunks
  BY <1>3 DEF StopStarting, FinishChunks, Close, AllDone, historyVars
<1>4. CASE LimiterFails
  BY <1>4 DEF LimiterFails, EndRun, CtxDone, historyVars
<1>5. CASE Cancel \/ Break \/ Assign \/ UpdateRate
  BY <1>5 DEF Cancel, Break, Assign, UpdateRate, sourceVars, historyVars, netVars, lowerVars
<1>6. CASE SinkStep \/ SenderStep
  BY <1>6 DEF SinkStep, ReadHeader, ReadData, SenderStep, sourceVars, historyVars, lowerVars
<1>7. ASSUME NEW w \in Workers, BeginChunk(w)
       PROVE  OnlyOneKind'
  BY <1>7 DEF BeginChunk, netVars
<1>8. ASSUME NEW w \in Workers, Check(w)
       PROVE  OnlyOneKind'
  BY <1>8 DEF Check, EndRun, EndChunk, ClearRunning, CtxDone, historyVars
<1>9. ASSUME NEW w \in Workers, Write(w)
       PROVE  OnlyOneKind'
  BY <1>9 DEF Write, WriteHeader, WriteData, Amount, historyVars
<1>10. ASSUME NEW w \in Workers, EndOfData(w)
       PROVE  OnlyOneKind'
  BY <1>10 DEF EndOfData, EndRun, EndChunk, ClearRunning, historyVars
<1>11. ASSUME NEW w \in Workers, Fail(w)
       PROVE  OnlyOneKind'
  <2>1. CASE HeaderFails(w)
    BY <2>1 DEF HeaderFails, EndChunk, ClearRunning, Refused, netVars, lowerVars
  <2>2. CASE WriteFails(w)
    BY <2>2 DEF WriteFails, EndRun, EndChunk, ClearRunning, Refused
  <2> QED
    BY <1>11, <2>1, <2>2 DEF Fail
<1>12. CASE UNCHANGED vars
  BY <1>12 DEF vars, sourceVars, netVars, historyVars
<1> QED
  BY <1>1, <1>2, <1>3, <1>4, <1>5, <1>6, <1>7, <1>8, <1>9, <1>10, <1>11, <1>12
  DEF Next, RunStep, WorkerStep

LEMMA SettledStep ==
  ASSUME SourceTypes, OnlyOneKind, Settled, [Next]_vars
  PROVE  Settled'
<1> USE ConstantsOK DEF ConstantsOK, SourceTypes, OnlyOneKind, Settled, Workers
<1>1. CASE StartAlone \/ DelayCancelled \/ StartFails
  BY <1>1 DEF StartAlone, DelayCancelled, StartFails, Running, netVars, historyVars
<1>2. CASE StartChunk
  BY <1>2 DEF StartChunk, netVars, historyVars
<1>3. CASE StopStarting \/ FinishChunks
  <2>1. UNCHANGED <<kind, worker, cancelled>> /\ kind = "chunks" /\ run = "called"
    BY <1>3 DEF StopStarting, FinishChunks
  <2>2. closed' => closed \/ run' = "returned"
    BY <1>3 DEF StopStarting, FinishChunks, Close
  <2>3. ~cancelled => \A w \in Workers : worker[w] \in {"none", "done"}
    BY <1>3, <2>1 DEF StopStarting, FinishChunks, AllDone
  <2> QED
    BY <2>1, <2>2, <2>3
<1>4. CASE LimiterFails
  BY <1>4 DEF LimiterFails, EndRun, CtxDone, historyVars
<1>5. CASE Cancel \/ Break \/ Assign \/ UpdateRate
  BY <1>5 DEF Cancel, Break, Assign, UpdateRate, sourceVars, historyVars, netVars, lowerVars
<1>6. CASE SinkStep \/ SenderStep
  BY <1>6 DEF SinkStep, ReadHeader, ReadData, SenderStep, sourceVars, historyVars, lowerVars
<1>7. ASSUME NEW w \in Workers, BeginChunk(w)
       PROVE  Settled'
  BY <1>7 DEF BeginChunk, netVars
<1>8. ASSUME NEW w \in Workers, Check(w)
       PROVE  Settled'
  <2>1. CASE w = 0
    <3>1. kind # "chunks" /\ \A v \in Workers : v # 0 => worker[v] = "none"
      BY <1>8, <2>1 DEF Check, EndRun, EndChunk, ClearRunning, CtxDone, historyVars
    <3>2. \A v \in Workers : v # 0 => worker'[v] = worker[v]
      BY <1>8, <2>1 DEF Check, EndRun, EndChunk, ClearRunning, CtxDone, historyVars
    <3>3. worker[0] \notin {"none", "done"}
      BY <1>8, <2>1 DEF Check, EndRun, EndChunk, ClearRunning, CtxDone, historyVars
    <3>4. ~closed
      BY <3>1, <3>3
    <3>5. closed' => run' = "returned" /\ worker'[0] = "done"
      <4>1. CASE CtxDone
        BY <1>8, <2>1, <4>1 DEF Check, EndRun
      <4>2. CASE ~CtxDone
        BY <1>8, <3>4, <4>2 DEF Check
      <4> QED
        BY <4>1, <4>2
    <3>6. kind' = kind /\ SourceTypes'
      BY <1>8, TypesStep DEF Check, EndRun, EndChunk, ClearRunning, CtxDone, historyVars
    <3> QED
      BY <3>1, <3>2, <3>5, <3>6
  <2>2. CASE w # 0
    BY <1>8, <2>2 DEF Check, EndRun, EndChunk, ClearRunning, CtxDone, historyVars
  <2> QED
    BY <2>1, <2>2
<1>9. ASSUME NEW w \in Workers, Write(w)
       PROVE  Settled'
  BY <1>9 DEF Write, WriteHeader, WriteData, Amount, historyVars
<1>10. ASSUME NEW w \in Workers, EndOfData(w)
       PROVE  Settled'
  <2>1. CASE w = 0
    BY <1>10, <2>1 DEF EndOfData, EndRun, EndChunk, ClearRunning, historyVars
  <2>2. CASE w # 0
    BY <1>10, <2>2 DEF EndOfData, EndRun, EndChunk, ClearRunning, historyVars
  <2> QED
    BY <2>1, <2>2
<1>11. ASSUME NEW w \in Workers, Fail(w)
       PROVE  Settled'
  <2>1. CASE w = 0
    <3>1. kind # "chunks" /\ \A v \in Workers : v # 0 => worker[v] = "none"
      <4>1. CASE HeaderFails(w)
        BY <2>1, <4>1 DEF HeaderFails, EndChunk, ClearRunning, Refused, netVars, lowerVars
      <4>2. CASE WriteFails(w)
        BY <2>1, <4>2 DEF WriteFails, EndRun, EndChunk, ClearRunning, Refused
      <4> QED
        BY <1>11, <4>1, <4>2 DEF Fail
    <3>2. \A v \in Workers : v # 0 => worker'[v] = worker[v]
      <4>1. CASE HeaderFails(w)
        BY <2>1, <4>1 DEF HeaderFails, EndChunk, ClearRunning, Refused, netVars, lowerVars
      <4>2. CASE WriteFails(w)
        BY <2>1, <4>2 DEF WriteFails, EndRun, EndChunk, ClearRunning, Refused
      <4> QED
        BY <1>11, <4>1, <4>2 DEF Fail
    <3>3. worker[0] \notin {"none", "done"}
      <4>1. CASE HeaderFails(w)
        BY <2>1, <4>1 DEF HeaderFails, EndChunk, ClearRunning, Refused, netVars, lowerVars
      <4>2. CASE WriteFails(w)
        BY <2>1, <4>2 DEF WriteFails, EndRun, EndChunk, ClearRunning, Refused
      <4> QED
        BY <1>11, <4>1, <4>2 DEF Fail
    <3>4. ~closed
      BY <3>1, <3>3
    <3>5. closed' => run' = "returned" /\ worker'[0] = "done"
      <4>1. CASE HeaderFails(w)
        BY <2>1, <3>4, <4>1 DEF HeaderFails, netVars
      <4>2. CASE WriteFails(w)
        BY <2>1, <4>2 DEF WriteFails, EndRun
      <4> QED
        BY <1>11, <4>1, <4>2 DEF Fail
    <3>6. kind' = kind /\ SourceTypes'
      BY <1>11, TypesStep DEF Fail, HeaderFails, WriteFails, EndRun, EndChunk, ClearRunning, Refused, netVars
    <3> QED
      BY <3>1, <3>2, <3>5, <3>6
  <2>2. CASE w # 0
    <3>1. CASE HeaderFails(w)
      BY <2>2, <3>1 DEF HeaderFails, EndChunk, ClearRunning, Refused, netVars, lowerVars
    <3>2. CASE WriteFails(w)
      BY <2>2, <3>2 DEF WriteFails, EndRun, EndChunk, ClearRunning, Refused
    <3> QED
      BY <1>11, <3>1, <3>2 DEF Fail
  <2> QED
    BY <2>1, <2>2
<1>12. CASE UNCHANGED vars
  BY <1>12 DEF vars, sourceVars, netVars, historyVars
<1> QED
  BY <1>1, <1>2, <1>3, <1>4, <1>5, <1>6, <1>7, <1>8, <1>9, <1>10, <1>11, <1>12
  DEF Next, RunStep, WorkerStep

LEMMA LateWriteStep ==
  ASSUME SourceTypes, OnlyOneKind, Settled, NoWriteAfterClose, [Next]_vars
  PROVE  NoWriteAfterClose'
<1> USE ConstantsOK DEF ConstantsOK, SourceTypes, OnlyOneKind, Settled, NoWriteAfterClose, Workers
<1>1. CASE StartAlone \/ DelayCancelled \/ StartFails
  BY <1>1 DEF StartAlone, DelayCancelled, StartFails, Running, netVars, historyVars
<1>2. CASE StartChunk
  BY <1>2 DEF StartChunk, netVars, historyVars
<1>3. CASE StopStarting \/ FinishChunks
  BY <1>3 DEF StopStarting, FinishChunks, Close, AllDone, historyVars
<1>4. CASE LimiterFails
  BY <1>4 DEF LimiterFails, EndRun, CtxDone, historyVars
<1>5. CASE Cancel \/ Break \/ Assign \/ UpdateRate
  BY <1>5 DEF Cancel, Break, Assign, UpdateRate, sourceVars, historyVars, netVars, lowerVars
<1>6. CASE SinkStep \/ SenderStep
  BY <1>6 DEF SinkStep, ReadHeader, ReadData, SenderStep, sourceVars, historyVars, lowerVars
<1>7. ASSUME NEW w \in Workers, BeginChunk(w)
       PROVE  NoWriteAfterClose'
  BY <1>7 DEF BeginChunk, netVars
<1>8. ASSUME NEW w \in Workers, Check(w)
       PROVE  NoWriteAfterClose'
  BY <1>8 DEF Check, EndRun, EndChunk, ClearRunning, CtxDone, historyVars
<1>9. ASSUME NEW w \in Workers, Write(w)
       PROVE  NoWriteAfterClose'
  BY <1>9 DEF Write, WriteHeader, WriteData, Amount, historyVars
<1>10. ASSUME NEW w \in Workers, EndOfData(w)
       PROVE  NoWriteAfterClose'
  BY <1>10 DEF EndOfData, EndRun, EndChunk, ClearRunning, historyVars
<1>11. ASSUME NEW w \in Workers, Fail(w)
       PROVE  NoWriteAfterClose'
  <2>1. CASE HeaderFails(w)
    BY <2>1 DEF HeaderFails, EndChunk, ClearRunning, Refused, netVars, lowerVars
  <2>2. CASE WriteFails(w)
    BY <2>2 DEF WriteFails, EndRun, EndChunk, ClearRunning, Refused
  <2> QED
    BY <1>11, <2>1, <2>2 DEF Fail
<1>12. CASE UNCHANGED vars
  BY <1>12 DEF vars, sourceVars, netVars, historyVars
<1> QED
  BY <1>1, <1>2, <1>3, <1>4, <1>5, <1>6, <1>7, <1>8, <1>9, <1>10, <1>11, <1>12
  DEF Next, RunStep, WorkerStep

LEMMA OneStep ==
  ASSUME SourceTypes, OnlyOneKind, OneAtATime, [Next]_vars
  PROVE  OneAtATime'
<1> USE ConstantsOK DEF ConstantsOK, SourceTypes, OnlyOneKind, OneAtATime, Active, Workers
<1>1. CASE StartAlone \/ DelayCancelled \/ StartFails
  BY <1>1 DEF StartAlone, DelayCancelled, StartFails, Running, netVars, historyVars
<1>2. CASE StartChunk
  BY <1>2 DEF StartChunk, netVars, historyVars
<1>3. CASE StopStarting \/ FinishChunks
  BY <1>3 DEF StopStarting, FinishChunks, Close, AllDone, historyVars
<1>4. CASE LimiterFails
  BY <1>4 DEF LimiterFails, EndRun, CtxDone, historyVars
<1>5. CASE Cancel \/ Break \/ Assign \/ UpdateRate
  BY <1>5 DEF Cancel, Break, Assign, UpdateRate, sourceVars, historyVars, netVars, lowerVars
<1>6. CASE SinkStep \/ SenderStep
  BY <1>6 DEF SinkStep, ReadHeader, ReadData, SenderStep, sourceVars, historyVars, lowerVars
<1>7. ASSUME NEW w \in Workers, BeginChunk(w)
       PROVE  OneAtATime'
  BY <1>7 DEF BeginChunk, netVars
<1>8. ASSUME NEW w \in Workers, Check(w)
       PROVE  OneAtATime'
  BY <1>8 DEF Check, EndRun, EndChunk, ClearRunning, CtxDone, historyVars
<1>9. ASSUME NEW w \in Workers, Write(w)
       PROVE  OneAtATime'
  BY <1>9 DEF Write, WriteHeader, WriteData, Amount, historyVars
<1>10. ASSUME NEW w \in Workers, EndOfData(w)
       PROVE  OneAtATime'
  <2>1. overlap' = overlap /\ \A v \in Workers : worker'[v] \in {worker[v], "done"}
    BY <1>10 DEF EndOfData, EndRun, EndChunk, historyVars
  <2> QED
    BY <2>1
<1>11. ASSUME NEW w \in Workers, Fail(w)
       PROVE  OneAtATime'
  <2>1. CASE HeaderFails(w)
    BY <2>1 DEF HeaderFails, EndChunk, ClearRunning, Refused, netVars, lowerVars
  <2>2. CASE WriteFails(w)
    BY <2>2 DEF WriteFails, EndRun, EndChunk, ClearRunning, Refused
  <2> QED
    BY <1>11, <2>1, <2>2 DEF Fail
<1>12. CASE UNCHANGED vars
  BY <1>12 DEF vars, sourceVars, netVars, historyVars
<1> QED
  BY <1>1, <1>2, <1>3, <1>4, <1>5, <1>6, <1>7, <1>8, <1>9, <1>10, <1>11, <1>12
  DEF Next, RunStep, WorkerStep

LEMMA FlagStep ==
  ASSUME SourceTypes, OnlyOneKind, OneAtATime, FlagWhileActive, [Next]_vars
  PROVE  FlagWhileActive'
<1> USE ConstantsOK DEF ConstantsOK, SourceTypes, OnlyOneKind, OneAtATime, FlagWhileActive, Active, Workers
<1>1. CASE StartAlone \/ DelayCancelled \/ StartFails
  BY <1>1 DEF StartAlone, DelayCancelled, StartFails, Running, netVars, historyVars
<1>2. CASE StartChunk
  BY <1>2 DEF StartChunk, netVars, historyVars
<1>3. CASE StopStarting \/ FinishChunks
  BY <1>3 DEF StopStarting, FinishChunks, Close, AllDone, historyVars
<1>4. CASE LimiterFails
  BY <1>4 DEF LimiterFails, EndRun, CtxDone, historyVars
<1>5. CASE Cancel \/ Break \/ Assign \/ UpdateRate
  BY <1>5 DEF Cancel, Break, Assign, UpdateRate, sourceVars, historyVars, netVars, lowerVars
<1>6. CASE SinkStep \/ SenderStep
  BY <1>6 DEF SinkStep, ReadHeader, ReadData, SenderStep, sourceVars, historyVars, lowerVars
<1>7. ASSUME NEW w \in Workers, BeginChunk(w)
       PROVE  FlagWhileActive'
  BY <1>7 DEF BeginChunk, netVars
<1>8. ASSUME NEW w \in Workers, Check(w)
       PROVE  FlagWhileActive'
  <2>1. CASE w = 0
    BY <1>8, <2>1 DEF Check, EndRun, EndChunk, ClearRunning, CtxDone, historyVars
  <2>2. CASE w # 0
    BY <1>8, <2>2 DEF Check, EndRun, EndChunk, ClearRunning, CtxDone, historyVars
  <2> QED
    BY <2>1, <2>2
<1>9. ASSUME NEW w \in Workers, Write(w)
       PROVE  FlagWhileActive'
  BY <1>9 DEF Write, WriteHeader, WriteData, Amount, historyVars
<1>10. ASSUME NEW w \in Workers, EndOfData(w)
       PROVE  FlagWhileActive'
  <2>1. CASE w = 0
    BY <1>10, <2>1 DEF EndOfData, EndRun, historyVars
  <2>2. CASE w # 0
    <3>1. /\ overlap' = overlap /\ cancelled' = cancelled
          /\ \A v \in Workers : worker'[v] = IF v = w THEN "done" ELSE worker[v]
      BY <1>10, <2>2 DEF EndOfData, EndChunk, historyVars
    <3>2. w \in Active
      BY <1>10 DEF EndOfData
    <3> QED
      BY <3>1, <3>2
  <2> QED
    BY <2>1, <2>2
<1>11. ASSUME NEW w \in Workers, Fail(w)
       PROVE  FlagWhileActive'
  <2>1. CASE w = 0
    <3>1. CASE HeaderFails(w)
      BY <2>1, <3>1 DEF HeaderFails, EndChunk, ClearRunning, Refused, netVars, lowerVars
    <3>2. CASE WriteFails(w)
      BY <2>1, <3>2 DEF WriteFails, EndRun, EndChunk, ClearRunning, Refused
    <3> QED
      BY <1>11, <3>1, <3>2 DEF Fail
  <2>2. CASE w # 0 /\ HeaderFails(w)
    BY <2>2 DEF HeaderFails, EndChunk, ClearRunning, netVars
  <2>3. CASE w # 0 /\ WriteFails(w)
    BY <2>3 DEF WriteFails, EndChunk, ClearRunning
  <2> QED
    BY <1>11, <2>1, <2>2, <2>3 DEF Fail
<1>12. CASE UNCHANGED vars
  BY <1>12 DEF vars, sourceVars, netVars, historyVars
<1> QED
  BY <1>1, <1>2, <1>3, <1>4, <1>5, <1>6, <1>7, <1>8, <1>9, <1>10, <1>11, <1>12
  DEF Next, RunStep, WorkerStep

(* Only an update of the rate can be unyielding. *)
LEMMA YieldStep ==
  ASSUME FlagWhileActive, MediaYieldToData, [Next]_vars
  PROVE  MediaYieldToData'
<1>1. (overlap => overlap') /\ (cancelled => cancelled')
  <2> USE DEF historyVars, netVars, lowerVars, sourceVars
  <2>1. CASE RunStep
    BY <2>1 DEF RunStep, StartAlone, DelayCancelled, StartFails, StartChunk, StopStarting,
        FinishChunks
  <2>2. CASE LimiterFails \/ Cancel \/ Break
    BY <2>2 DEF LimiterFails, Cancel, Break
  <2>3. CASE SinkStep \/ SenderStep \/ Assign \/ UpdateRate
    BY <2>3 DEF SinkStep, ReadHeader, ReadData, SenderStep, Assign, UpdateRate
  <2>4. ASSUME NEW w \in Workers, WorkerStep(w)
        PROVE  (overlap => overlap') /\ (cancelled => cancelled')
    <3>1. CASE BeginChunk(w)
      BY <3>1 DEF BeginChunk
    <3>2. CASE Check(w)
      BY <3>2 DEF Check
    <3>3. CASE EndOfData(w)
      BY <3>3 DEF EndOfData
    <3>4. CASE WriteHeader(w) \/ WriteData(w)
      BY <3>4 DEF WriteHeader, WriteData
    <3> QED
      BY <2>4, <3>1, <3>2, <3>3, <3>4 DEF WorkerStep, Write
  <2>5. ASSUME NEW w \in Workers, Fail(w)
        PROVE  (overlap => overlap') /\ (cancelled => cancelled')
    <3>1. CASE HeaderFails(w)
      BY <3>1 DEF HeaderFails
    <3>2. CASE WriteFails(w)
      BY <3>2 DEF WriteFails
    <3> QED
      BY <2>5, <3>1, <3>2 DEF Fail
  <2>6. CASE UNCHANGED vars
    BY <2>6 DEF vars
  <2> QED
    BY <2>1, <2>2, <2>3, <2>4, <2>5, <2>6 DEF Next
<1>2. CASE UpdateRate
  BY <1>2 DEF UpdateRate, FlagWhileActive, MediaYieldToData, historyVars
<1>3. CASE ~UpdateRate
  <2> SUFFICES unyielded' = unyielded
    BY <1>1 DEF MediaYieldToData
  <2> USE DEF historyVars, netVars, lowerVars, sourceVars
  <2>1. CASE RunStep
    BY <2>1 DEF RunStep, StartAlone, DelayCancelled, StartFails, StartChunk, StopStarting,
        FinishChunks
  <2>2. CASE LimiterFails \/ Cancel \/ Break
    BY <2>2 DEF LimiterFails, Cancel, Break
  <2>3. CASE SinkStep \/ SenderStep \/ Assign
    BY <2>3 DEF SinkStep, ReadHeader, ReadData, SenderStep, Assign
  <2>4. ASSUME NEW w \in Workers, WorkerStep(w)
        PROVE  unyielded' = unyielded
    <3>1. CASE BeginChunk(w)
      BY <3>1 DEF BeginChunk
    <3>2. CASE Check(w)
      BY <3>2 DEF Check
    <3>3. CASE EndOfData(w)
      BY <3>3 DEF EndOfData
    <3>4. CASE WriteHeader(w) \/ WriteData(w)
      BY <3>4 DEF WriteHeader, WriteData
    <3> QED
      BY <2>4, <3>1, <3>2, <3>3, <3>4 DEF WorkerStep, Write
  <2>5. ASSUME NEW w \in Workers, Fail(w)
        PROVE  unyielded' = unyielded
    BY <2>5 DEF Fail, HeaderFails, WriteFails
  <2>6. CASE UNCHANGED vars
    BY <2>6 DEF vars
  <2> QED
    BY <1>3, <2>1, <2>2, <2>3, <2>4, <2>5, <2>6 DEF Next
<1> QED
  BY <1>2, <1>3

LEMMA SourceInit == Init => SourceInv
<1> USE ConstantsOK DEF ConstantsOK, Init, Workers, Active
<1>1. Init => SourceTypes /\ OnlyOneKind
  BY DEF SourceTypes, OnlyOneKind
<1>2. Init => Settled /\ OneAtATime /\ FlagWhileActive
  BY DEF Settled, OneAtATime, FlagWhileActive
<1>3. Init => NoWriteAfterClose /\ MediaYieldToData
  BY DEF NoWriteAfterClose, MediaYieldToData
<1> QED
  BY <1>1, <1>2, <1>3 DEF SourceInv

THEOREM SourceInvariant == Spec => []SourceInv
<1>1. SourceInv /\ [Next]_vars => SourceInv'
  BY TypesStep, KindStep, SettledStep, LateWriteStep, OneStep, FlagStep, YieldStep DEF SourceInv
<1> QED
  BY <1>1, SourceInit, PTL DEF Spec

(* Nobody writes to a closed connection, but the goroutines of chunks that *)
(* Run left behind when ctx was done.                                      *)
THEOREM ClosedIsQuiet == Spec => []NoWriteAfterClose
<1>1. SourceInv => NoWriteAfterClose
  BY DEF SourceInv
<1> QED
  BY <1>1, SourceInvariant, PTL

(* An update of the rate that gives the media everything while data are    *)
(* sent takes overlapping chunks or a cancelled source.                    *)
THEOREM RateIsShared == Spec => []MediaYieldToData
<1>1. SourceInv => MediaYieldToData
  BY DEF SourceInv
<1> QED
  BY <1>1, SourceInvariant, PTL

-----------------------------------------------------------------------------
(* The writes on the way to the sink, with the one that sendLoop holds.    *)
Pipe == IF transport = "messages" /\ loop = "sending" THEN Append(wire, held) ELSE wire

(* A chunk is a size and its Writes writes.  Where the sink is in it:      *)
(* before the size, or before as many writes as it still wants.            *)
Cycle == Writes + 1
Starts(place) == place % Cycle = 0
Place == IF want = 0 THEN 0 ELSE Cycle - want

(* What the source still has to write to end a chunk: of a goroutine that  *)
(* is past its size, of one that is before it, and of a source at rest     *)
(* that may start one.                                                     *)
Writing == {w \in Workers : worker[w] \in {"header", "check", "data"}}
Owed(w) == IF worker[w] \in {"check", "data"} THEN left[w] ELSE 0
MayStart == Writing = {} /\ (~cancelled \/ (kind = "file" /\ run = "called"))
Debt(o) == (\E w \in Writing : o = Owed(w)) \/ (MayStart /\ o = 0)

(* Nothing gets into the pipe any more.                                    *)
Dead == Refused \/ (transport = "messages" /\ loop = "failed")

Item == {Data, 0, Writes}
PipeTypes == wire \in Seq(Item) /\ held \in Item

SinkPlace ==
  /\ sink \in {"header", "data", "failed"} /\ want \in 0 .. Writes
  /\ want = 0 <=> sink # "data"

(* The pipe continues where the sink is, and the source where it ends.     *)
Pattern ==
  \A i \in 1 .. Len(Pipe) : Pipe[i] = IF Starts(Place + (i - 1)) THEN Writes ELSE Data
OneSize == transport = "stream" => \A i \in 2 .. Len(Pipe) : Pipe[i] = Data
Balance == ~Dead => \A o \in 0 .. Writes : Debt(o) => Starts(Place + Len(Pipe) + o)

Quiet == ~overlap /\ ~(transport = "stream" /\ backlog)
Aligned ==
  kind # "random" /\ Quiet =>
    ~misread /\ SinkPlace /\ (sink # "failed" => Pattern /\ OneSize /\ Balance)

(* The random source writes one size, before all data.                     *)
Endless ==
  kind = "random" =>
    /\ ~misread /\ sink \in {"header", "endless", "failed"}
    /\ sink = "header" =>
         /\ Pipe # <<>> => Pipe[1] = 0
         /\ Pipe = <<>> /\ ~Dead => \A w \in Writing : worker[w] = "header"

(* One place in a chunk out of Writes + 1 is that of the size. *)
LEMMA Division ==
  ASSUME NEW p \in Nat
  PROVE  /\ p % Cycle \in 0 .. Writes /\ p \div Cycle \in Int
         /\ p = Cycle * (p \div Cycle) + (p % Cycle)
<1>1. Cycle \in Nat \ {0} /\ Cycle - 1 = Writes
  BY ConstantsOK DEF ConstantsOK, Cycle
<1> HIDE DEF Cycle
<1> QED
  BY <1>1

LEMMA StartsOnce ==
  ASSUME NEW p \in Nat, NEW n \in 1 .. Writes, Starts(p)
  PROVE  ~Starts(p + n)
<1> DEFINE a == p \div Cycle
           b == (p + n) \div Cycle
<1> SUFFICES ASSUME Starts(p + n) PROVE FALSE
  OBVIOUS
<1>1. Cycle \in Nat /\ n \in 1 .. Cycle - 1 /\ Writes \in Nat
  BY ConstantsOK DEF ConstantsOK, Cycle
<1>2. p + n \in Nat
  BY <1>1
<1>3. a \in Int /\ b \in Int /\ p = Cycle * a /\ p + n = Cycle * b
  BY <1>1, <1>2, Division DEF Starts
<1> HIDE DEF a, b, Cycle
<1>4. Cycle * a < Cycle * b /\ Cycle * b < Cycle * a + Cycle
  BY <1>1, <1>3
<1>5. a < b
  BY <1>1, <1>3, <1>4
<1>6. Cycle * (a + 1) <= Cycle * b
  BY <1>1, <1>3, <1>5
<1> QED
  BY <1>1, <1>3, <1>4, <1>6

LEMMA StartsAgain ==
  ASSUME NEW p \in Nat
  PROVE  Starts(p + Cycle) <=> Starts(p)
<1> DEFINE a == p \div Cycle
           b == (p + Cycle) \div Cycle
           r == p % Cycle
           s == (p + Cycle) % Cycle
<1>1. Cycle \in Nat \ {0} /\ Cycle - 1 = Writes
  BY ConstantsOK DEF ConstantsOK, Cycle
<1>2. p + Cycle \in Nat
  BY <1>1
<1>3. /\ a \in Int /\ b \in Int /\ r \in 0 .. Cycle - 1 /\ s \in 0 .. Cycle - 1
      /\ p = Cycle * a + r /\ p + Cycle = Cycle * b + s
  BY <1>1, <1>2, Division
<1> HIDE DEF a, b, r, s, Cycle
<1> SUFFICES r = s
  BY DEF Starts, r, s
<1>4. Cycle * (a + 1) + r = Cycle * b + s
  BY <1>1, <1>3
<1>5. CASE a + 1 < b
  <2>1. Cycle * (a + 2) <= Cycle * b
    BY <1>1, <1>3, <1>5
  <2> QED
    BY <1>1, <1>3, <1>4, <2>1
<1>6. CASE b < a + 1
  <2>1. Cycle * (b + 1) <= Cycle * (a + 1)
    BY <1>1, <1>3, <1>6
  <2> QED
    BY <1>1, <1>3, <1>4, <2>1
<1>7. CASE b = a + 1
  BY <1>1, <1>3, <1>4, <1>7
<1> QED
  BY <1>3, <1>5, <1>6, <1>7

LEMMA StartsAtFirst == Starts(0)
<1>1. 0 % Cycle \in 0 .. Writes /\ 0 \div Cycle \in Int /\ 0 = Cycle * (0 \div Cycle) + (0 % Cycle)
  BY Division
<1>2. Cycle \in Nat \ {0} /\ Cycle - 1 = Writes
  BY ConstantsOK DEF ConstantsOK, Cycle
<1> HIDE DEF Cycle
<1> QED
  BY <1>1, <1>2 DEF Starts

(* What the steps do to the pipe: a Write adds its item to the end, the    *)
(* sender leaves it or loses the last item for good, a read takes some     *)
(* from the front, and nothing else touches it.                            *)
LEMMA SeqFacts ==
  ASSUME NEW s \in Seq(Item), NEW x \in Item
  PROVE  /\ Append(s, x) \in Seq(Item) /\ Len(Append(s, x)) = Len(s) + 1
         /\ Append(s, x)[Len(s) + 1] = x
         /\ \A i \in 1 .. Len(s) : Append(s, x)[i] = s[i]
OBVIOUS

LEMMA PipeIsSeq == PipeTypes => Pipe \in Seq(Item)
BY SeqFacts DEF PipeTypes, Pipe

LEMMA PutExtends ==
  ASSUME PipeTypes, NEW item \in Item, Put(item), UNCHANGED <<transport, closed, broken>>
  PROVE  PipeTypes' /\ ~Dead /\ Pipe' = Append(Pipe, item)
<1>1. CASE transport = "messages"
  BY <1>1 DEF Put, Take, Pipe, PipeTypes, Dead, Refused
<1>2. CASE transport # "messages"
  BY <1>2, SeqFacts DEF Put, Pipe, PipeTypes, Dead, Refused
<1> QED
  BY <1>1, <1>2

LEMMA SenderKeepsPipe ==
  ASSUME PipeTypes, SenderStep
  PROVE  /\ PipeTypes' /\ (Dead => Dead')
         /\ Pipe' = Pipe \/ (Dead' /\ Pipe = Append(Pipe', held))
<1> USE DEF SenderStep, Pipe, Dead, Refused
<1>1. CASE Send
  <2>1. wire' = Append(wire, held) /\ loop = "sending" /\ loop' = "checking"
    BY <1>1 DEF SendLoopStep, Send, SendFails, Wait, CheckAmount, Stop, TakeToken, ChannelStep,
       Open, BufferedAmountLow, DrainTo
  <2> QED
    BY <2>1, SeqFacts DEF PipeTypes
<1>2. CASE SendFails
  <2>1. wire' = wire /\ loop = "sending" /\ loop' = "failed"
    BY <1>2 DEF SendLoopStep, Send, SendFails, ChannelStep, Open, BufferedAmountLow, DrainTo
  <2> QED
    BY <2>1 DEF PipeTypes
<1>3. CASE Wait
  <2>1. wire' = wire /\ loop # "sending" /\ loop' # "sending" /\ loop # "failed"
    BY <1>3 DEF SendLoopStep, Send, SendFails, Wait, CheckAmount, Stop, TakeToken
  <2> QED
    BY <2>1 DEF PipeTypes
<1>4. CASE ChannelStep /\ UNCHANGED wire
  <2>1. loop' = loop \/ (loop = "opening" /\ loop' = "receiving")
    BY <1>4 DEF ChannelStep, Open, BufferedAmountLow, DrainTo
  <2> QED
    BY <1>4, <2>1 DEF PipeTypes
<1> QED
  BY <1>1, <1>2, <1>3, <1>4 DEF SendLoopStep

(* A read takes at least one item, and at most what has arrived. *)
Drops(n) ==
  /\ n \in 1 .. Len(wire) /\ wire' \in Seq(Item) /\ Len(wire') = Len(wire) - n
  /\ \A i \in 1 .. Len(wire') : wire'[i] = wire[i + n]

LEMMA ArrivedIsOnWire == SenderTypeOK /\ PipeTypes => Arrived <= Len(wire)
BY DEF SenderTypeOK, PipeTypes, Arrived

LEMMA HeaderDrops == SenderTypeOK /\ PipeTypes /\ ReadHeader => Drops(1)
<1> SUFFICES ASSUME SenderTypeOK, PipeTypes, ReadHeader PROVE Drops(1)
  OBVIOUS
<1>1. wire \in Seq(Item) /\ Len(wire) > 0 /\ wire' = Tail(wire)
  <2>1. Arrived > 0 /\ Arrived <= Len(wire)
    BY ArrivedIsOnWire DEF ReadHeader
  <2>2. Len(wire) \in Nat /\ Arrived \in Int
    BY DEF PipeTypes, Arrived, SenderTypeOK
  <2> QED
    BY <2>1, <2>2 DEF PipeTypes, ReadHeader
<1> QED
  BY <1>1 DEF Drops

LEMMA DataDrops ==
  ASSUME SenderTypeOK, PipeTypes, NEW n \in ReadSize, n <= Arrived,
         wire' = SubSeq(wire, n + 1, Len(wire))
  PROVE  Drops(n)
<1>1. wire \in Seq(Item) /\ n \in 1 .. Len(wire)
  <2>1. n \in Nat \ {0} /\ Len(wire) \in Nat /\ Arrived \in Int
    BY ConstantsOK DEF ConstantsOK, PipeTypes, Arrived, SenderTypeOK, ReadSize
  <2> QED
    BY <2>1, ArrivedIsOnWire DEF PipeTypes
<1> QED
  BY <1>1 DEF Drops

LEMMA PipeDrops ==
  ASSUME PipeTypes, NEW n, Drops(n), UNCHANGED <<transport, loop, held, closed, broken>>
  PROVE  /\ PipeTypes' /\ (Dead <=> Dead') /\ n \in 1 .. Len(Pipe) /\ Len(Pipe') = Len(Pipe) - n
         /\ \A i \in 1 .. Len(Pipe') : Pipe'[i] = Pipe[i + n]
         /\ \A i \in 1 .. n : Pipe[i] = wire[i]
<1>1. PipeTypes' /\ (Dead <=> Dead')
  BY DEF PipeTypes, Drops, Dead, Refused
<1>2. CASE transport = "messages" /\ loop = "sending"
  <2>1. /\ wire \in Seq(Item) /\ wire' \in Seq(Item) /\ held \in Item
        /\ Pipe = Append(wire, held) /\ Pipe' = Append(wire', held)
    BY <1>2 DEF PipeTypes, Pipe, Drops
  <2>2. /\ Len(Pipe) = Len(wire) + 1 /\ Len(Pipe') = Len(wire') + 1
        /\ Pipe[Len(wire) + 1] = held /\ Pipe'[Len(wire') + 1] = held
        /\ \A i \in 1 .. Len(wire) : Pipe[i] = wire[i]
        /\ \A i \in 1 .. Len(wire') : Pipe'[i] = wire'[i]
    BY <2>1, SeqFacts
  <2>3. /\ n \in 1 .. Len(wire) /\ Len(wire') = Len(wire) - n /\ Len(wire) \in Nat
        /\ \A i \in 1 .. Len(wire') : wire'[i] = wire[i + n]
    BY <2>1 DEF Drops
  <2> HIDE DEF Pipe
  <2>4. n \in 1 .. Len(Pipe) /\ Len(Pipe') = Len(Pipe) - n /\ \A i \in 1 .. n : Pipe[i] = wire[i]
    BY <2>2, <2>3
  <2>5. ASSUME NEW i \in 1 .. Len(Pipe') PROVE Pipe'[i] = Pipe[i + n]
    <3>1. CASE i <= Len(wire')
      <4>1. i \in 1 .. Len(wire') /\ i + n \in 1 .. Len(wire)
        BY <2>2, <2>3, <3>1
      <4> QED
        BY <2>2, <2>3, <4>1
    <3>2. CASE i = Len(wire') + 1
      <4>1. i + n = Len(wire) + 1
        BY <2>3, <3>2
      <4> QED
        BY <2>2, <3>2, <4>1
    <3>3. Len(wire') \in Nat /\ Len(Pipe') = Len(wire') + 1
      BY <2>1, <2>2
    <3>4. i <= Len(wire') \/ i = Len(wire') + 1
      BY <3>3
    <3> QED
      BY <3>1, <3>2, <3>4
  <2> QED
    BY <1>1, <2>4, <2>5
<1>3. CASE ~(transport = "messages" /\ loop = "sending")
  <2>1. Pipe = wire /\ Pipe' = wire'
    BY <1>3 DEF Pipe
  <2> QED
    BY <1>1, <2>1 DEF Drops, PipeTypes
<1> QED
  BY <1>2, <1>3

(* Reads. *)
LEMMA PlaceIsInChunk == SinkPlace => Place \in 0 .. Writes /\ (Place = 0 <=> want = 0)
BY ConstantsOK DEF ConstantsOK, SinkPlace, Place, Cycle

LEMMA ReadsShift ==
  ASSUME PipeTypes, PipeTypes', NEW n \in 1 .. Len(Pipe), Len(Pipe') = Len(Pipe) - n,
         \A i \in 1 .. Len(Pipe') : Pipe'[i] = Pipe[i + n],
         Place \in Nat, Place' \in Nat, Place' = Place + n \/ Place' + Cycle = Place + n,
         Dead <=> Dead', UNCHANGED <<transport, worker, left, cancelled, kind, run>>,
         Pattern, OneSize, Balance
  PROVE  Pattern' /\ OneSize' /\ Balance'
<1>t. Len(Pipe) \in Nat /\ Len(Pipe') \in Nat /\ n \in Nat /\ Cycle \in Nat
  BY PipeIsSeq, ConstantsOK DEF PipeTypes, Pipe, ConstantsOK, Cycle
<1>1. \A k \in Nat : Starts(Place' + k) <=> Starts(Place + n + k)
  <2> TAKE k \in Nat
  <2>1. CASE Place' = Place + n
    BY <2>1
  <2>2. CASE Place' + Cycle = Place + n
    <3>1. Place' + k \in Nat /\ (Place' + k) + Cycle = Place + n + k
      BY <1>t, <2>2
    <3> QED
      BY <3>1, StartsAgain
  <2> QED
    BY <2>1, <2>2
<1> HIDE DEF Pipe, Place, Starts, Cycle
<1>2. Pattern'
  <2> SUFFICES ASSUME NEW i \in 1 .. Len(Pipe')
               PROVE  Pipe'[i] = IF Starts(Place' + (i - 1)) THEN Writes ELSE Data
    BY DEF Pattern, Starts, Cycle, Data
  <2>1. i + n \in 1 .. Len(Pipe) /\ i - 1 \in Nat
    BY <1>t
  <2>2. Pipe[i + n] = IF Starts(Place + (i + n - 1)) THEN Writes ELSE Data
    BY <2>1 DEF Pattern
  <2>3. Place + n + (i - 1) = Place + (i + n - 1)
    BY <1>t
  <2> QED
    BY <1>1, <2>1, <2>2, <2>3
<1>3. OneSize'
  <2> SUFFICES ASSUME transport = "stream", NEW i \in 2 .. Len(Pipe') PROVE Pipe'[i] = Data
    BY DEF OneSize, Data
  <2>1. i + n \in 2 .. Len(Pipe) /\ i \in 1 .. Len(Pipe')
    BY <1>t
  <2> QED
    BY <2>1 DEF OneSize
<1>4. Balance'
  <2> SUFFICES ASSUME ~Dead, NEW o \in 0 .. Writes, Debt(o)
               PROVE  Starts(Place' + Len(Pipe') + o)
    BY DEF Balance, Starts, Cycle, Debt, MayStart, Writing, Owed
  <2>1. Starts(Place + Len(Pipe) + o) /\ o \in Nat
    BY ConstantsOK DEF ConstantsOK, Balance
  <2>2. /\ Len(Pipe') + o \in Nat
        /\ Place + n + (Len(Pipe') + o) = Place + Len(Pipe) + o
        /\ Place' + Len(Pipe') + o = Place' + (Len(Pipe') + o)
    BY <1>t, <2>1
  <2> QED
    BY <1>1, <2>1, <2>2
<1> QED
  BY <1>2, <1>3, <1>4

LEMMA ReadHeaderAligned ==
  ASSUME SenderTypeOK, PipeTypes, Aligned, ReadHeader
  PROVE  Aligned'
<1> SUFFICES ASSUME kind # "random", Quiet
             PROVE  ~misread' /\ SinkPlace' /\ (sink' # "failed" => Pattern' /\ OneSize' /\ Balance')
  BY DEF Aligned, ReadHeader, Quiet, historyVars
<1>1. ~misread /\ SinkPlace /\ sink = "header" /\ want = 0 /\ Place = 0
  BY DEF Aligned, ReadHeader, SinkPlace, Place
<1>2. Pattern /\ OneSize /\ Balance
  BY <1>1 DEF Aligned
<1>3. Drops(1) /\ UNCHANGED <<transport, loop, held, closed, broken, worker, left, cancelled, kind, run>>
  BY HeaderDrops DEF ReadHeader, lowerVars, senderVars, sourceVars
<1>4. /\ PipeTypes' /\ (Dead <=> Dead') /\ 1 \in 1 .. Len(Pipe) /\ Len(Pipe') = Len(Pipe) - 1
      /\ \A i \in 1 .. Len(Pipe') : Pipe'[i] = Pipe[i + 1]
      /\ \A i \in 1 .. 1 : Pipe[i] = wire[i]
  BY <1>3, PipeDrops
<1>5. Head(wire) = Writes
  <2>1. Starts(Place + (1 - 1))
    BY <1>1, StartsAtFirst
  <2>2. Pipe[1] = Writes
    BY <1>2, <1>4, <2>1 DEF Pattern
  <2>3. Head(wire) = wire[1]
    BY <1>3 DEF PipeTypes, Drops
  <2> QED
    BY <1>4, <2>2, <2>3
<1>6. Writes \in Nat \ {0} /\ Writes # Data
  BY ConstantsOK DEF ConstantsOK, Data
<1>7. CASE sink' = "failed" /\ want' = 0 /\ misread' = misread
  BY <1>1, <1>6, <1>7 DEF SinkPlace
<1>8. CASE sink' = "data" /\ want' = Writes /\ misread' = misread
  <2>1. Place \in Nat /\ Place' \in Nat /\ Place' = Place + 1
    BY <1>1, <1>6, <1>8 DEF Place, Cycle
  <2>2. Pattern' /\ OneSize' /\ Balance'
    BY <1>2, <1>3, <1>4, <2>1, ReadsShift
  <2> QED
    BY <1>1, <1>6, <1>8, <2>2 DEF SinkPlace
<1> QED
  BY <1>5, <1>6, <1>7, <1>8 DEF ReadHeader

LEMMA AllData ==
  ASSUME NEW n \in Nat, \A i \in 1 .. n : wire[i] = Data
  PROVE  Counted(n) = n
<1>1. {i \in 1 .. n : wire[i] = Data} = 1 .. n
  OBVIOUS
<1>2. Cardinality(1 .. n) = n
  BY FS_Interval
<1> QED
  BY <1>1, <1>2 DEF Counted

LEMMA ReadDataAligned ==
  ASSUME SourceTypes, SenderTypeOK, PipeTypes, Aligned, ReadData
  PROVE  Aligned'
<1> SUFFICES ASSUME kind # "random", Quiet
             PROVE  ~misread' /\ SinkPlace' /\ (sink' # "failed" => Pattern' /\ OneSize' /\ Balance')
  BY DEF Aligned, ReadData, Quiet, historyVars
<1>1. PICK n \in ReadSize :
        /\ n <= Arrived
        /\ wire' = SubSeq(wire, n + 1, Len(wire))
        /\ want' = IF sink = "endless" \/ Counted(n) >= want THEN 0 ELSE want - Counted(n)
  BY DEF ReadData
<1>2. ~misread /\ misread' = misread /\ SinkPlace /\ sink = "data" /\ want \in 1 .. Writes
  BY ConstantsOK DEF ConstantsOK, Aligned, ReadData, SinkPlace
<1>3. Pattern /\ OneSize /\ Balance
  BY <1>2 DEF Aligned
<1>4. Drops(n) /\ UNCHANGED <<transport, loop, held, closed, broken, worker, left, cancelled, kind, run>>
  BY <1>1, DataDrops DEF ReadData, lowerVars, senderVars, sourceVars
<1>5. /\ PipeTypes' /\ (Dead <=> Dead') /\ n \in 1 .. Len(Pipe) /\ Len(Pipe') = Len(Pipe) - n
      /\ \A i \in 1 .. Len(Pipe') : Pipe'[i] = Pipe[i + n]
      /\ \A i \in 1 .. n : Pipe[i] = wire[i]
  BY <1>4, PipeDrops
<1>6. /\ Writes \in Nat \ {0} /\ Writes # Data /\ n \in Nat \ {0} /\ Len(Pipe) \in Nat
      /\ want \in Nat /\ Place = Cycle - want /\ Cycle = Writes + 1
  BY <1>2, <1>4, PipeIsSeq, ConstantsOK DEF ConstantsOK, Data, Place, Cycle, Drops, PipeTypes
<1> HIDE DEF Pipe, Data
<1>7. Place \in 1 .. Writes /\ Place \in Nat /\ Place + want = Cycle
  BY <1>2, <1>6
<1>8. Pipe[1] = Data
  <2>1. ~Starts(0 + Place)
    BY <1>7, StartsAtFirst, StartsOnce
  <2>2. 1 \in 1 .. Len(Pipe) /\ 0 + Place = Place + (1 - 1)
    BY <1>5, <1>6, <1>7
  <2> QED
    BY <1>3, <2>1, <2>2 DEF Pattern
<1>9. \A i \in 1 .. n : Pipe[i] = Data
  <2>1. CASE transport = "messages"
    <3>1. n = 1
      BY <2>1 DEF ReadSize
    <3> QED
      BY <1>8, <3>1
  <2>2. CASE transport # "messages"
    <3> SUFFICES ASSUME NEW i \in 1 .. n, i # 1 PROVE Pipe[i] = Data
      BY <1>8
    <3>1. i \in 2 .. Len(Pipe)
      BY <1>5, <1>6
    <3>2. transport = "stream"
      BY <2>2 DEF Quiet, SourceTypes
    <3> QED
      BY <1>3, <3>1, <3>2 DEF OneSize
  <2> QED
    BY <2>1, <2>2
<1>10. n <= want
  <2> SUFFICES ASSUME want < n PROVE FALSE
    BY <1>6
  <2>1. want + 1 \in 1 .. n /\ want + 1 \in 1 .. Len(Pipe) /\ Place + ((want + 1) - 1) = 0 + Cycle
    BY <1>5, <1>6, <1>7
  <2>2. Starts(Place + ((want + 1) - 1))
    BY <2>1, StartsAtFirst, StartsAgain
  <2>3. Pipe[want + 1] = Writes
    BY <1>3, <2>1, <2>2 DEF Pattern
  <2> QED
    BY <1>6, <1>9, <2>1, <2>3
<1>11. want' = want - n
  <2>1. Counted(n) = n
    BY <1>5, <1>6, <1>9, AllData DEF Data
  <2> QED
    BY <1>1, <1>2, <1>6, <1>10, <2>1
<1>12. sink' = IF want' = 0 THEN "header" ELSE "data"
  BY <1>2 DEF ReadData
<1>13. SinkPlace'
  BY <1>2, <1>6, <1>10, <1>11, <1>12 DEF SinkPlace
<1>14. Place' \in Nat /\ (Place' = Place + n \/ Place' + Cycle = Place + n)
  BY <1>2, <1>6, <1>7, <1>10, <1>11 DEF Place, Cycle
<1>15. Pattern' /\ OneSize' /\ Balance'
  BY <1>3, <1>4, <1>5, <1>7, <1>14, ReadsShift
<1> QED
  BY <1>2, <1>13, <1>15

(* Writes. *)
LEMMA OneWriter ==
  ASSUME SourceInv, ~overlap, NEW w \in Writing, NEW v \in Writing
  PROVE  v = w
BY DEF SourceInv, OneAtATime, Writing, Active

LEMMA WriteHeaderAligned ==
  ASSUME SourceInv, PipeTypes, Aligned, NEW w \in Workers, WriteHeader(w)
  PROVE  Aligned'
<1> SUFFICES ASSUME kind # "random", Quiet'
             PROVE  ~misread' /\ SinkPlace' /\ (sink' # "failed" => Pattern' /\ OneSize' /\ Balance')
  BY DEF Aligned, WriteHeader
<1>1. /\ worker[w] = "header" /\ worker' = [worker EXCEPT ![w] = "check"]
      /\ left' = [left EXCEPT ![w] = Writes] /\ Put(Writes)
      /\ UNCHANGED <<transport, kind, closed, broken, want, sink, misread, overlap, cancelled, run>>
  BY DEF WriteHeader, SizeOf, Amount, sinkVars
<1>2. Quiet /\ (transport = "stream" => wire = <<>>)
  BY DEF Quiet, WriteHeader
<1>3. ~misread /\ SinkPlace /\ (sink # "failed" => Pattern /\ OneSize /\ Balance)
  BY <1>2 DEF Aligned
<1>4. PipeTypes' /\ ~Dead /\ Pipe' = Append(Pipe, Writes)
  BY <1>1, PutExtends DEF Item
<1>5. ~misread' /\ SinkPlace' /\ Place' = Place
  BY <1>1, <1>3 DEF SinkPlace, Place
<1> SUFFICES ASSUME sink # "failed" PROVE Pattern' /\ OneSize' /\ Balance'
  BY <1>1, <1>5
<1>6. /\ Pipe \in Seq(Item) /\ Len(Pipe') = Len(Pipe) + 1 /\ Pipe'[Len(Pipe) + 1] = Writes
      /\ \A i \in 1 .. Len(Pipe) : Pipe'[i] = Pipe[i]
  BY <1>4, PipeIsSeq, SeqFacts DEF Item
<1>7. Len(Pipe) \in Nat /\ Place \in Nat /\ Writes \in Nat \ {0} /\ Cycle = Writes + 1
  BY <1>3, <1>6, PlaceIsInChunk, ConstantsOK DEF ConstantsOK, Cycle
<1>8. Starts(Place + Len(Pipe))
  <2>1. w \in Writing /\ Owed(w) = 0
    BY <1>1 DEF Writing, Owed
  <2>2. Debt(0) /\ 0 \in 0 .. Writes
    BY <1>7, <2>1 DEF Debt
  <2>3. Starts(Place + Len(Pipe) + 0)
    BY <1>3, <1>4, <2>2 DEF Balance
  <2> QED
    BY <1>7, <2>3
<1> HIDE DEF Pipe, Place, Starts
<1>9. Pattern'
  <2> SUFFICES ASSUME NEW i \in 1 .. Len(Pipe) + 1
               PROVE  Pipe'[i] = IF Starts(Place + (i - 1)) THEN Writes ELSE Data
    BY <1>5, <1>6 DEF Pattern, Starts, Cycle, Data
  <2>1. CASE i = Len(Pipe) + 1
    <3>1. Place + (i - 1) = Place + Len(Pipe)
      BY <1>7, <2>1
    <3> QED
      BY <1>6, <1>8, <2>1, <3>1
  <2>2. CASE i # Len(Pipe) + 1
    <3>1. i \in 1 .. Len(Pipe)
      BY <1>7, <2>2
    <3> QED
      BY <1>3, <1>6, <3>1 DEF Pattern
  <2> QED
    BY <2>1, <2>2
<1>10. OneSize'
  <2> SUFFICES ASSUME transport = "stream", NEW i \in 2 .. Len(Pipe') PROVE FALSE
    BY <1>1 DEF OneSize
  <2>1. Len(Pipe) = 0
    BY <1>2 DEF Pipe
  <2> QED
    BY <1>6, <2>1
<1>11. Balance'
  <2> SUFFICES ASSUME NEW o \in 0 .. Writes, Debt(o)'
               PROVE  Starts(Place + (Len(Pipe) + 1) + o)
    BY <1>5, <1>6 DEF Balance, Starts, Cycle
  <2>1. w \in Writing /\ Writing' = Writing /\ ~MayStart'
    BY <1>1 DEF Writing, SourceInv, SourceTypes, MayStart
  <2>2. PICK v \in Writing : o = Owed(v)'
    BY <2>1 DEF Debt
  <2>3. v = w
    BY <1>2, <2>1, <2>2, OneWriter DEF Quiet
  <2>4. o = Writes
    BY <1>1, <2>2, <2>3 DEF Owed, SourceInv, SourceTypes
  <2>5. Place + Len(Pipe) \in Nat /\ Place + (Len(Pipe) + 1) + o = (Place + Len(Pipe)) + Cycle
    BY <1>7, <2>4
  <2> QED
    BY <1>8, <2>5, StartsAgain
<1> QED
  BY <1>9, <1>10, <1>11

LEMMA WriteDataAligned ==
  ASSUME SourceInv, PipeTypes, Aligned, NEW w \in Workers, WriteData(w)
  PROVE  Aligned'
<1> SUFFICES ASSUME kind # "random", Quiet'
             PROVE  ~misread' /\ SinkPlace' /\ (sink' # "failed" => Pattern' /\ OneSize' /\ Balance')
  BY DEF Aligned, WriteData
<1>1. /\ worker[w] = "data" /\ worker' = [worker EXCEPT ![w] = "check"]
      /\ left[w] \in 1 .. Writes /\ left' = [left EXCEPT ![w] = @ - 1] /\ Put(Data)
      /\ UNCHANGED <<transport, kind, closed, broken, want, sink, misread, overlap, backlog,
                     cancelled, run>>
  BY DEF WriteData, sinkVars, SourceInv, SourceTypes
<1>2. Quiet
  BY <1>1 DEF Quiet
<1>3. ~misread /\ SinkPlace /\ (sink # "failed" => Pattern /\ OneSize /\ Balance)
  BY <1>2 DEF Aligned
<1>4. PipeTypes' /\ ~Dead /\ Pipe' = Append(Pipe, Data)
  BY <1>1, PutExtends DEF Item
<1>5. ~misread' /\ SinkPlace' /\ Place' = Place
  BY <1>1, <1>3 DEF SinkPlace, Place
<1> SUFFICES ASSUME sink # "failed" PROVE Pattern' /\ OneSize' /\ Balance'
  BY <1>1, <1>5
<1>6. /\ Pipe \in Seq(Item) /\ Len(Pipe') = Len(Pipe) + 1 /\ Pipe'[Len(Pipe) + 1] = Data
      /\ \A i \in 1 .. Len(Pipe) : Pipe'[i] = Pipe[i]
  BY <1>4, PipeIsSeq, SeqFacts DEF Item
<1>7. Len(Pipe) \in Nat /\ Place \in Nat /\ left[w] \in Nat
  BY <1>1, <1>3, <1>6, PlaceIsInChunk, ConstantsOK DEF ConstantsOK
<1>8. w \in Writing /\ Owed(w) = left[w]
  BY <1>1 DEF Writing, Owed
<1>9. Starts(Place + Len(Pipe) + left[w])
  BY <1>1, <1>3, <1>4, <1>8, ConstantsOK DEF ConstantsOK, Balance, Debt
<1> HIDE DEF Pipe, Place, Starts
<1>10. ~Starts(Place + Len(Pipe))
  BY <1>1, <1>7, <1>9, StartsOnce
<1>11. Pattern'
  <2> SUFFICES ASSUME NEW i \in 1 .. Len(Pipe) + 1
               PROVE  Pipe'[i] = IF Starts(Place + (i - 1)) THEN Writes ELSE Data
    BY <1>5, <1>6 DEF Pattern, Starts, Cycle, Data
  <2>1. CASE i = Len(Pipe) + 1
    <3>1. Place + (i - 1) = Place + Len(Pipe)
      BY <1>7, <2>1
    <3> QED
      BY <1>6, <1>10, <2>1, <3>1
  <2>2. CASE i # Len(Pipe) + 1
    <3>1. i \in 1 .. Len(Pipe)
      BY <1>7, <2>2
    <3> QED
      BY <1>3, <1>6, <3>1 DEF Pattern
  <2> QED
    BY <2>1, <2>2
<1>12. OneSize'
  <2> SUFFICES ASSUME transport = "stream", NEW i \in 2 .. Len(Pipe) + 1 PROVE Pipe'[i] = Data
    BY <1>1, <1>6 DEF OneSize, Data
  <2> QED
    BY <1>3, <1>6, <1>7 DEF OneSize
<1>13. Balance'
  <2> SUFFICES ASSUME NEW o \in 0 .. Writes, Debt(o)'
               PROVE  Starts(Place + (Len(Pipe) + 1) + o)
    BY <1>5, <1>6 DEF Balance, Starts, Cycle
  <2>1. Writing' = Writing /\ ~MayStart'
    BY <1>1 DEF Writing, SourceInv, SourceTypes, MayStart
  <2>2. PICK v \in Writing : o = Owed(v)'
    BY <2>1 DEF Debt
  <2>3. v = w
    BY <1>2, <1>8, <2>2, OneWriter DEF Quiet
  <2>4. o = left[w] - 1
    BY <1>1, <2>2, <2>3 DEF Owed, SourceInv, SourceTypes
  <2>5. Place + (Len(Pipe) + 1) + o = Place + Len(Pipe) + left[w]
    BY <1>7, <2>4
  <2> QED
    BY <1>9, <2>5
<1> QED
  BY <1>11, <1>12, <1>13

(* The other steps of the source: no goroutine owes more than before. *)
LEMMA EndsOweNothing ==
  ASSUME SourceInv, ~overlap, NEW w \in Workers, worker[w] \in {"begun", "header", "check", "data"},
         \A v \in Workers : v # w => worker'[v] = worker[v] /\ left'[v] = left[v]
  PROVE  \A v \in Writing' : v = w
BY DEF SourceInv, OneAtATime, Active, Writing

LEMMA WorkersOweNoMore ==
  ASSUME SourceInv, ~overlap, kind # "random", NEW w \in Workers,
         BeginChunk(w) \/ Check(w) \/ EndOfData(w) \/ Fail(w), ~Dead', NEW o, Debt(o)'
  PROVE  Debt(o)
<1> USE DEF SourceInv, SourceTypes, Debt
<1>k. kind' = kind /\ kind \in {"chunks", "file"}
  BY DEF BeginChunk, Check, EndOfData, Fail, HeaderFails, WriteFails
<1>1. CASE BeginChunk(w)
  <2>1. /\ left' = left /\ run' = run /\ cancelled' = cancelled /\ Writing' = Writing
        /\ \A v \in Writing : worker'[v] = worker[v]
    BY <1>1 DEF BeginChunk, Writing
  <2> QED
    BY <1>k, <2>1 DEF MayStart, Owed
<1>2. CASE Check(w) /\ ~cancelled
  <2>1. /\ left' = left /\ run' = run /\ cancelled' = cancelled
        /\ worker' = [worker EXCEPT ![w] = IF @ = "check" THEN "data" ELSE "header"]
        /\ worker[w] \in {"begun", "check"}
    BY <1>2 DEF Check, CtxDone
  <2>2. w \in Writing' /\ ~MayStart'
    BY <2>1 DEF Writing, MayStart
  <2>3. o = Owed(w)'
    BY <2>1, <2>2, EndsOweNothing
  <2>4. CASE worker[w] = "check"
    <3>1. w \in Writing /\ Owed(w)' = Owed(w)
      BY <2>1, <2>4 DEF Writing, Owed
    <3> QED
      BY <2>3, <3>1
  <2>5. CASE worker[w] = "begun"
    <3>1. o = 0
      BY <2>1, <2>3, <2>5 DEF Owed
    <3>2. Writing = {}
      BY <2>5 DEF Writing, OneAtATime, Active
    <3> QED
      BY <1>2, <3>1, <3>2 DEF MayStart
  <2> QED
    BY <2>1, <2>4, <2>5
<1>3. CASE Check(w) /\ cancelled
  <2>1. /\ left' = left /\ cancelled' = cancelled /\ worker' = [worker EXCEPT ![w] = "done"]
        /\ worker[w] \in {"begun", "check"} /\ (w = 0 => run' = "returned")
    BY <1>3 DEF Check, CtxDone, EndRun, EndChunk
  <2>2. Writing' = {}
    BY <2>1, EndsOweNothing DEF Writing
  <2>3. w # 0 => kind = "chunks"
    BY <2>1 DEF OnlyOneKind, Workers
  <2> QED
    BY <1>k, <1>3, <2>1, <2>2, <2>3 DEF MayStart
<1>4. CASE EndOfData(w)
  <2>1. left' = left /\ worker' = [worker EXCEPT ![w] = "done"] /\ worker[w] = "data" /\ left[w] = 0
    BY <1>4 DEF EndOfData, EndRun, EndChunk
  <2>2. Writing' = {} /\ w \in Writing /\ Owed(w) = 0
    BY <2>1, EndsOweNothing DEF Writing, Owed
  <2> QED
    BY <2>2
<1>5. CASE Fail(w)
  <2>1. Refused
    BY <1>5 DEF Fail, HeaderFails, WriteFails
  <2>2. transport' = transport /\ broken' = broken /\ (closed => closed')
    <3>1. CASE HeaderFails(w)
      BY <3>1 DEF HeaderFails, netVars
    <3>2. CASE WriteFails(w)
      BY <3>2 DEF WriteFails, EndRun
    <3> QED
      BY <1>5, <3>1, <3>2 DEF Fail
  <2> QED
    BY <2>1, <2>2 DEF Dead, Refused
<1> QED
  BY <1>1, <1>2, <1>3, <1>4, <1>5

LEMMA RunOwesNoMore ==
  ASSUME SourceInv, kind # "random", NEW o, Debt(o)',
         \/ RunStep \/ LimiterFails \/ Cancel \/ Break \/ Assign \/ UpdateRate
         \/ SenderStep \/ UNCHANGED vars
  PROVE  Debt(o)
<1> USE DEF SourceInv, SourceTypes, Debt
<1>1. CASE StartAlone
  <2>1. /\ left' = left /\ kind' = kind /\ kind = "file" /\ run = "called"
        /\ worker' = [worker EXCEPT ![0] = "header"]
    BY <1>1 DEF StartAlone
  <2>2. Writing = {} /\ (0 \in Writing' /\ \A v \in Writing' : v = 0) /\ Owed(0)' = 0
    <3>1. 0 \in Workers /\ \A v \in Workers : worker[v] = "none"
      BY <2>1, ConstantsOK DEF ConstantsOK, OnlyOneKind, Workers
    <3>2. \A v \in Workers : worker'[v] = IF v = 0 THEN "header" ELSE "none"
      BY <2>1, <3>1
    <3> QED
      BY <3>1, <3>2 DEF Writing, Owed
  <2> QED
    BY <2>1, <2>2 DEF MayStart
<1>2. CASE StartChunk
  <2>1. /\ left' = left /\ run' = run /\ cancelled' = cancelled /\ kind' = kind
        /\ worker' = [worker EXCEPT ![next] = "starting"] /\ worker[next] = "none"
    BY <1>2 DEF StartChunk, OnlyOneKind
  <2>2. Writing' = Writing /\ \A v \in Writing : Owed(v)' = Owed(v)
    BY <2>1 DEF Writing, Owed
  <2> QED
    BY <2>1, <2>2 DEF MayStart
<1>3. CASE LimiterFails
  <2>1. /\ left' = left /\ cancelled /\ cancelled' = cancelled /\ run' = "returned"
        /\ worker' = [worker EXCEPT ![0] = "done"]
    BY <1>3 DEF LimiterFails, EndRun, CtxDone
  <2>2. Writing' \subseteq Writing /\ (\A v \in Writing' : Owed(v)' = Owed(v)) /\ ~MayStart'
    BY <2>1 DEF Writing, Owed, MayStart
  <2> QED
    BY <2>2
<1>4. ASSUME UNCHANGED <<kind, worker, left>>, cancelled => cancelled',
             run' = run \/ run' \in {"returned", "panicked"}
      PROVE  Debt(o)
  <2>1. Writing' = Writing /\ \A v \in Writing : Owed(v)' = Owed(v)
    BY <1>4 DEF Writing, Owed
  <2> QED
    BY <1>4, <2>1 DEF MayStart
<1>5. CASE DelayCancelled \/ StartFails \/ StopStarting \/ FinishChunks
  BY <1>4, <1>5 DEF DelayCancelled, StartFails, StopStarting, FinishChunks, Close
<1>6. CASE Cancel \/ Break \/ Assign \/ UpdateRate
  BY <1>4, <1>6 DEF Cancel, Break, Assign, UpdateRate, sourceVars
<1>7. CASE SenderStep \/ UNCHANGED vars
  BY <1>4, <1>7 DEF SenderStep, vars, sourceVars
<1> QED
  BY <1>1, <1>2, <1>3, <1>5, <1>6, <1>7 DEF RunStep

(* Steps that leave the pipe and the sink alone. *)
LEMMA RestAligned ==
  ASSUME SourceInv, PipeTypes, Aligned, UNCHANGED <<kind, transport, sinkVars>>,
         Quiet' => Quiet, Dead => Dead',
         Pipe' = Pipe \/ (Dead' /\ Pipe = Append(Pipe', held)), Pipe' \in Seq(Item),
         \A o : kind # "random" /\ ~overlap /\ ~Dead' /\ Debt(o)' => Debt(o)
  PROVE  Aligned'
<1> SUFFICES ASSUME kind # "random", Quiet'
             PROVE  ~misread' /\ SinkPlace' /\ (sink' # "failed" => Pattern' /\ OneSize' /\ Balance')
  BY DEF Aligned
<1>1. ~misread /\ SinkPlace /\ (sink # "failed" => Pattern /\ OneSize /\ Balance)
  BY DEF Aligned
<1>2. ~misread' /\ SinkPlace' /\ Place' = Place /\ sink' = sink
  BY <1>1 DEF SinkPlace, Place, sinkVars
<1> SUFFICES ASSUME sink # "failed" PROVE Pattern' /\ OneSize' /\ Balance'
  BY <1>2
<1>3. CASE Pipe' = Pipe
  <2>1. Pattern' /\ OneSize'
    BY <1>1, <1>2, <1>3 DEF Pattern, OneSize, Starts, Cycle, Data
  <2>2. Balance'
    <3> SUFFICES ASSUME ~Dead', NEW o \in 0 .. Writes, Debt(o)'
                 PROVE  Starts(Place + Len(Pipe) + o)
      BY <1>2, <1>3 DEF Balance, Starts, Cycle
    <3>1. ~Dead /\ Debt(o)
      BY DEF Quiet
    <3> QED
      BY <1>1, <3>1 DEF Balance
  <2> QED
    BY <2>1, <2>2
<1>4. CASE Dead' /\ Pipe = Append(Pipe', held)
  <2>1. Len(Pipe) = Len(Pipe') + 1 /\ (\A i \in 1 .. Len(Pipe') : Pipe[i] = Pipe'[i])
    BY <1>4, SeqFacts DEF PipeTypes
  <2>2. Len(Pipe') \in Nat
    OBVIOUS
  <2> HIDE DEF Pipe
  <2>3. Pattern' /\ OneSize'
    BY <1>1, <1>2, <2>1, <2>2 DEF Pattern, OneSize, Starts, Cycle, Data
  <2> QED
    BY <1>4, <2>3 DEF Balance
<1> QED
  BY <1>3, <1>4

(* The random source. *)
LEMMA RestEndless ==
  ASSUME SourceInv, PipeTypes, Endless, UNCHANGED <<kind, transport, sinkVars>>,
         Dead => Dead',
         Pipe' = Pipe \/ (Dead' /\ Pipe = Append(Pipe', held)), Pipe' \in Seq(Item),
         ~Dead' => \A w \in Writing' : worker'[w] = "header" \/ (w \in Writing /\ worker[w] # "header")
  PROVE  Endless'
<1> SUFFICES ASSUME kind = "random"
             PROVE  /\ ~misread /\ sink \in {"header", "endless", "failed"}
                    /\ sink = "header" =>
                         /\ Pipe' # <<>> => Pipe'[1] = 0
                         /\ Pipe' = <<>> /\ ~Dead' => \A w \in Writing' : worker'[w] = "header"
  BY DEF Endless, sinkVars
<1>1. /\ ~misread /\ sink \in {"header", "endless", "failed"}
      /\ sink = "header" =>
           /\ Pipe # <<>> => Pipe[1] = 0
           /\ Pipe = <<>> /\ ~Dead => \A w \in Writing : worker[w] = "header"
  BY DEF Endless
<1>2. CASE Pipe' = Pipe
  BY <1>1, <1>2
<1>3. CASE Dead' /\ Pipe = Append(Pipe', held)
  <2>1. Pipe' # <<>> => Pipe # <<>> /\ Pipe[1] = Pipe'[1]
    BY <1>3, SeqFacts DEF PipeTypes
  <2> QED
    BY <1>1, <1>3, <2>1
<1> QED
  BY <1>2, <1>3

LEMMA WriteEndless ==
  ASSUME SourceInv, PipeTypes, Endless, NEW w \in Workers, Write(w)
  PROVE  Endless'
<1> SUFFICES ASSUME kind = "random", sink = "header" PROVE Pipe' # <<>> /\ Pipe'[1] = 0
  BY DEF Endless, Write, WriteHeader, WriteData, sinkVars
<1>1. PICK item \in Item : 
        /\ Put(item) /\ UNCHANGED <<transport, closed, broken>>
        /\ item = 0 \/ worker[w] = "data"
  BY DEF Write, WriteHeader, WriteData, SizeOf, Amount, Item
<1>2. ~Dead /\ Pipe' = Append(Pipe, item) /\ Pipe \in Seq(Item)
  BY <1>1, PutExtends, PipeIsSeq
<1>3. CASE Pipe = <<>>
  <2>1. worker[w] # "data"
    BY <1>2, <1>3 DEF Endless, Writing
  <2> QED
    BY <1>1, <1>2, <1>3, <2>1
<1>4. CASE Pipe # <<>>
  <2>1. Pipe[1] = 0 /\ 1 \in 1 .. Len(Pipe)
    BY <1>2, <1>4 DEF Endless
  <2> QED
    BY <1>2, <2>1, SeqFacts
<1> QED
  BY <1>3, <1>4

LEMMA ReadEndless ==
  ASSUME SenderTypeOK, PipeTypes, Endless, SinkStep
  PROVE  Endless'
<1> SUFFICES ASSUME kind = "random"
             PROVE  ~misread' /\ sink' \in {"endless", "failed"}
  BY DEF Endless, SinkStep, ReadHeader, ReadData
<1>1. CASE ReadHeader
  <2>1. Drops(1) /\ UNCHANGED <<transport, loop, held, closed, broken>>
    BY <1>1, HeaderDrops DEF ReadHeader, lowerVars, senderVars
  <2>2. 1 \in 1 .. Len(Pipe) /\ \A i \in 1 .. 1 : Pipe[i] = wire[i]
    BY <2>1, PipeDrops
  <2>3. Head(wire) = 0
    <3>1. Pipe # <<>> /\ Pipe[1] = 0
      BY <1>1, <2>2 DEF Endless, ReadHeader
    <3>2. Head(wire) = wire[1]
      BY <2>1 DEF PipeTypes, Drops
    <3> QED
      BY <2>2, <3>1, <3>2
  <2> QED
    BY <1>1, <2>3 DEF ReadHeader, Endless, Data
<1>2. CASE ReadData
  BY <1>2 DEF ReadData, Endless
<1> QED
  BY <1>1, <1>2 DEF SinkStep

Elsewhere ==
  \/ RunStep \/ LimiterFails \/ Cancel \/ Break \/ Assign \/ UpdateRate \/ UNCHANGED vars
  \/ \E w \in Workers : BeginChunk(w) \/ Check(w) \/ EndOfData(w) \/ Fail(w)

Untouched ==
  /\ UNCHANGED <<kind, transport, wire, held, loop, sinkVars>>
  /\ (closed => closed') /\ (broken => broken')
  /\ (overlap => overlap') /\ (backlog => backlog')

LEMMA ElsewhereUntouched == Elsewhere => Untouched
<1> SUFFICES ASSUME Elsewhere PROVE Untouched
  OBVIOUS
<1> USE DEF Untouched, lowerVars, senderVars, historyVars
<1>1. CASE StartAlone \/ DelayCancelled \/ StartFails \/ StartChunk
  BY <1>1 DEF StartAlone, DelayCancelled, StartFails, StartChunk, netVars
<1>2. CASE StopStarting \/ FinishChunks
  BY <1>2 DEF StopStarting, FinishChunks, Close
<1>3. CASE LimiterFails
  BY <1>3 DEF LimiterFails, EndRun
<1>4. CASE Cancel \/ Break
  BY <1>4 DEF Cancel, Break, netVars
<1>5. CASE Assign \/ UpdateRate
  BY <1>5 DEF Assign, UpdateRate
<1>6. CASE UNCHANGED vars
  BY <1>6 DEF vars, netVars
<1>7. ASSUME NEW w \in Workers, BeginChunk(w) PROVE Untouched
  BY <1>7 DEF BeginChunk, netVars
<1>8. ASSUME NEW w \in Workers, Check(w) PROVE Untouched
  <2>1. closed => closed'
    BY <1>8 DEF Check, EndRun
  <2> QED
    BY <1>8, <2>1 DEF Check
<1>9. ASSUME NEW w \in Workers, EndOfData(w) PROVE Untouched
  <2>1. closed => closed'
    BY <1>9 DEF EndOfData, EndRun
  <2> QED
    BY <1>9, <2>1 DEF EndOfData
<1>10. ASSUME NEW w \in Workers, HeaderFails(w) PROVE Untouched
  BY <1>10 DEF HeaderFails, netVars
<1>11. ASSUME NEW w \in Workers, WriteFails(w) PROVE Untouched
  <2>1. closed => closed'
    BY <1>11 DEF WriteFails, EndRun
  <2> QED
    BY <1>11, <2>1 DEF WriteFails
<1> QED
  BY <1>1, <1>2, <1>3, <1>4, <1>5, <1>6, <1>7, <1>8, <1>9, <1>10, <1>11
  DEF Elsewhere, RunStep, Fail

LEMMA ElsewhereSameHeader ==
  ASSUME SourceInv, kind = "random", Elsewhere \/ SenderStep, ~Dead', NEW w \in Writing'
  PROVE  worker'[w] = "header" \/ (w \in Writing /\ worker[w] # "header")
<1> USE DEF SourceInv, SourceTypes, Writing, Workers
<1>1. CASE StartAlone \/ DelayCancelled \/ StartFails
  BY <1>1 DEF StartAlone, DelayCancelled, StartFails
<1>2. CASE StartChunk \/ StopStarting \/ FinishChunks
  BY <1>2 DEF StartChunk, StopStarting, FinishChunks
<1>3. CASE LimiterFails
  BY <1>3 DEF LimiterFails, EndRun
<1>4. CASE Cancel \/ Break \/ Assign \/ UpdateRate
  BY <1>4 DEF Cancel, Break, Assign, UpdateRate, sourceVars
<1>5. CASE UNCHANGED vars \/ SenderStep
  BY <1>5 DEF vars, SenderStep, sourceVars
<1>6. ASSUME NEW v \in Workers, BeginChunk(v) \/ Check(v)
      PROVE  worker'[w] = "header" \/ (w \in Writing /\ worker[w] # "header")
  BY <1>6 DEF BeginChunk, Check, EndRun, EndChunk
<1>7. ASSUME NEW v \in Workers, EndOfData(v) \/ Fail(v)
      PROVE  worker'[w] = "header" \/ (w \in Writing /\ worker[w] # "header")
  BY <1>7 DEF EndOfData, Fail, HeaderFails, WriteFails, EndRun, EndChunk
<1> QED
  BY <1>1, <1>2, <1>3, <1>4, <1>5, <1>6, <1>7 DEF Elsewhere, RunStep

PipeInv == SenderTypeOK /\ PipeTypes /\ Aligned /\ Endless

LEMMA PipeStep ==
  ASSUME SourceInv, PipeInv, [Next]_vars
  PROVE  PipeTypes' /\ Aligned' /\ Endless'
<1> USE DEF PipeInv
<1>1. CASE Elsewhere
  <2>1. Untouched
    BY <1>1, ElsewhereUntouched
  <2>2. /\ UNCHANGED <<kind, transport, sinkVars>> /\ Pipe' = Pipe /\ PipeTypes'
        /\ (Dead => Dead') /\ (Quiet' => Quiet)
    BY <2>1 DEF Untouched, Pipe, PipeTypes, Dead, Refused, Quiet
  <2>3. Pipe' \in Seq(Item)
    BY <2>2, PipeIsSeq
  <2>4. \A o : kind # "random" /\ ~overlap /\ ~Dead' /\ Debt(o)' => Debt(o)
    BY <1>1, RunOwesNoMore, WorkersOweNoMore DEF Elsewhere
  <2>5. Aligned'
    BY <2>2, <2>3, <2>4, RestAligned
  <2>6. Endless'
    <3>1. CASE kind = "random"
      BY <1>1, <2>2, <2>3, <3>1, ElsewhereSameHeader, RestEndless
    <3>2. CASE kind # "random"
      BY <2>2, <3>2 DEF Endless
    <3> QED
      BY <3>1, <3>2
  <2> QED
    BY <2>2, <2>5, <2>6
<1>2. CASE SenderStep
  <2>1. /\ PipeTypes' /\ (Dead => Dead')
        /\ Pipe' = Pipe \/ (Dead' /\ Pipe = Append(Pipe', held))
    BY <1>2, SenderKeepsPipe
  <2>2. UNCHANGED <<kind, transport, sinkVars>> /\ (Quiet' => Quiet)
    BY <1>2 DEF SenderStep, Quiet, historyVars
  <2>3. Pipe' \in Seq(Item)
    BY <2>1, PipeIsSeq, SeqFacts DEF PipeTypes, Pipe
  <2>4. \A o : kind # "random" /\ ~overlap /\ ~Dead' /\ Debt(o)' => Debt(o)
    BY <1>2, RunOwesNoMore
  <2>5. Aligned'
    BY <2>1, <2>2, <2>3, <2>4, RestAligned
  <2>6. Endless'
    <3>1. CASE kind = "random"
      BY <1>2, <2>1, <2>2, <2>3, <3>1, ElsewhereSameHeader, RestEndless
    <3>2. CASE kind # "random"
      BY <2>2, <3>2 DEF Endless
    <3> QED
      BY <3>1, <3>2
  <2> QED
    BY <2>1, <2>5, <2>6
<1>3. CASE ReadHeader
  <2>1. PipeTypes'
    BY <1>3, HeaderDrops DEF Drops, PipeTypes, ReadHeader, lowerVars
  <2> QED
    BY <1>3, <2>1, ReadHeaderAligned, ReadEndless DEF SinkStep
<1>4. CASE ReadData
  <2>1. wire' \in Seq(Item)
    BY <1>4, DataDrops DEF Drops, ReadData
  <2>2. PipeTypes'
    BY <1>4, <2>1 DEF PipeTypes, ReadData, lowerVars
  <2> QED
    BY <1>4, <2>2, ReadDataAligned, ReadEndless DEF SinkStep, SourceInv
<1>5. ASSUME NEW w \in Workers, Write(w)
      PROVE  PipeTypes' /\ Aligned' /\ Endless'
  <2>1. PICK item \in Item : Put(item) /\ UNCHANGED <<transport, closed, broken>>
    BY <1>5 DEF Write, WriteHeader, WriteData, SizeOf, Amount, Item
  <2>2. PipeTypes'
    BY <2>1, PutExtends
  <2> QED
    BY <1>5, <2>2, WriteHeaderAligned, WriteDataAligned, WriteEndless DEF Write
<1> QED
  BY <1>1, <1>2, <1>3, <1>4, <1>5 DEF Next, SinkStep, WorkerStep, Elsewhere

LEMMA PipeInit == Init => PipeTypes /\ Aligned /\ Endless
<1> SUFFICES ASSUME Init PROVE PipeTypes /\ Aligned /\ Endless
  OBVIOUS
<1>1. wire = <<>> /\ held = 0 /\ Pipe = <<>> /\ Len(Pipe) = 0 /\ want = 0 /\ Place = 0
  BY DEF Init, SenderInit, Pipe, Place
<1>2. PipeTypes
  BY <1>1 DEF PipeTypes, Item
<1>3. ~misread /\ SinkPlace /\ sink = "header"
  BY <1>1, ConstantsOK DEF ConstantsOK, Init, SinkPlace
<1>4. Writing = {}
  BY DEF Init, Writing
<1>5. Pattern /\ OneSize
  BY <1>1 DEF Pattern, OneSize
<1>6. Balance
  <2> SUFFICES ASSUME NEW o \in 0 .. Writes, Debt(o) PROVE Starts(0 + 0 + o)
    BY <1>1 DEF Balance
  <2>1. o = 0
    BY <1>4 DEF Debt
  <2> QED
    BY <2>1, StartsAtFirst
<1>7. Aligned
  BY <1>3, <1>5, <1>6 DEF Aligned
<1>8. Endless
  BY <1>1, <1>3, <1>4 DEF Endless
<1> QED
  BY <1>2, <1>7, <1>8

(* The sink never takes data for a size, unless chunks overlapped or, on a *)
(* stream, a size waited behind data.                                      *)
THEOREM SizesAreFound == Spec => []SizesAreRead
<1>1. SourceInv /\ PipeInv /\ SenderTypeOK' /\ [Next]_vars => PipeInv'
  BY PipeStep DEF PipeInv
<1>2. Init /\ SenderTypeOK => PipeInv
  BY PipeInit DEF PipeInv
<1>3. SourceInv /\ PipeInv => SizesAreRead
  BY DEF SourceInv, SourceTypes, PipeInv, Aligned, Endless, Quiet, SizesAreRead
<1>4. Spec => []SenderTypeOK
  BY ImplementsSender, SenderTypeCorrect, PTL
<1> QED
  BY <1>1, <1>2, <1>3, <1>4, SourceInvariant, PTL DEF Spec
=============================================================================
