---------------------------- MODULE DataTransfer ----------------------------
(***************************************************************************)
(* A data source (data/source.go), the sender it writes to, the data sink  *)
(* (data/sink.go) that reads at the other end, and the share of the target *)
(* rate that the program send leaves to the media meanwhile.               *)
(*                                                                         *)
(* A source sends a header with a size and then that many bytes, or, for   *)
(* size 0, bytes without end.  The file and the random source do so in the *)
(* goroutine of Run; the chunk source starts one goroutine per chunk, with *)
(* a pause before each, and all of them share the writer and the flag      *)
(* running.                                                                *)
(*                                                                         *)
(* Over quicdc the writer opens a message with its first Write, keeps what *)
(* the sink has not read, up to a window, and blocks when it is full; a    *)
(* reader gets whatever is there, across writes; Close of a writer that    *)
(* has opened no message panics.  Over webrtc the writer is the module     *)
(* DCSender, and a reader gets one write at a time.  One element of wire   *)
(* stands for one Write; bytes are left out.                               *)
(***************************************************************************)
EXTENDS DCSender, Sequences, FiniteSets

CONSTANTS
  Chunks,    \* bound: chunks the chunk source sends, 15 in the code
  Writes,    \* bound: writes per chunk or file, 100 for a chunk in the code
  Window,    \* what the receiver takes before the writer blocks
  ReadMax    \* writes that one read can return on a stream, 3 in the code

ASSUME ConstantsOK == {Chunks, Writes, Window, ReadMax} \subseteq Nat \ {0} /\ MaxMessage = 1

VARIABLES
  kind,       \* chunks, file or random
  transport,  \* messages (webrtc) or stream (quicdc)
  (* DataBin *)
  running,
  run,        \* where Run is: called, sending or returned; or panicked
  next,       \* the next chunk Run starts
  worker,     \* where the goroutine of each chunk is; number 0 is Run itself
  left,       \* writes it has still to do
  cancelled,  \* ctx
  (* the sender and the connection *)
  wire,       \* writes the sink has not read: sizes, or "data"
  closed,     \* the writer was closed
  broken,     \* the data channel has failed, and stays so
  opened,     \* the sender of quicdc has its message: mw is not nil
  held,       \* what sendLoop has taken
  (* the rate callback of the program send *)
  assigned,   \* SetSourceTargetRate is set
  share,      \* of the last target rate: none yet, whole, or split with data
  (* DataSink *)
  sink,       \* expects a header, expects data, endless, or failed
  want,       \* writes it still expects of this chunk
  (* history *)
  overlap,    \* two goroutines of the source were active at once
  unyielded,  \* an update gave media the whole rate while data were sent
  backlog,    \* a size waited behind data for the sink
  lateWrite,  \* a Write after Close
  failedHead, \* Run failed before its data: no file, or the Write of the size failed
  misread     \* the sink took data for a size

lowerVars == <<senderVars, opened, held, assigned, share, unyielded>>
netVars == <<wire, closed, broken, lowerVars>>
sourceVars == <<running, run, next, worker, left>>
sinkVars == <<sink, want, misread>>
historyVars == <<overlap, backlog, lateWrite, failedHead>>
vars == <<kind, transport, sourceVars, cancelled, netVars, sinkVars, historyVars>>

Ready == transport = "stream" \/ loop # "opening"
Workers == 0 .. Chunks
Active == {w \in Workers : worker[w] \notin {"none", "starting", "done"}}
Amount == IF kind = "random" THEN 0 ELSE Writes
SizeOfShort == IF kind = "random" THEN 0 ELSE Writes - 1
SizeOf == Amount
Data == -1
-----------------------------------------------------------------------------
(* Run of the file or the random source, after the start delay. *)
NotRunning == FALSE
Running == TRUE

StartAlone ==
  /\ run = "called" /\ Ready /\ kind # "chunks"
  /\ running' = Running
  /\ run' = "sending"
  /\ worker' = [worker EXCEPT ![0] = "header"]
  /\ UNCHANGED <<kind, transport, next, left, cancelled, netVars, sinkVars, historyVars>>

DelayCancelled ==
  /\ run = "called" /\ Ready /\ kind # "chunks" /\ cancelled
  /\ run' = "returned"
  /\ UNCHANGED <<kind, transport, running, next, worker, left, cancelled, netVars,
                 sinkVars, historyVars>>

(* The file cannot be opened, or its size not be read: the flag stays set. *)
StartFails ==
  /\ run = "called" /\ Ready /\ kind = "file"
  /\ running' = Running
  /\ run' = "returned"
  /\ failedHead' = TRUE
  /\ UNCHANGED <<kind, transport, next, worker, left, cancelled, netVars, sinkVars, overlap,
                 backlog, lateWrite>>

(* startChunkSource: after a pause, start the goroutine of the next chunk; *)
(* or see that ctx is done, close the writer and return.                   *)
StartChunk ==
  /\ run = "called" /\ Ready /\ kind = "chunks" /\ next <= Chunks
  /\ worker' = [worker EXCEPT ![next] = "starting"]
  /\ next' = next + 1
  /\ UNCHANGED <<kind, transport, running, run, left, cancelled, netVars, sinkVars,
                 historyVars>>

Close ==
  IF transport = "messages" \/ opened THEN closed' = TRUE /\ run' = "returned"
                                      ELSE run' = "panicked" /\ UNCHANGED closed

StopStarting ==
  /\ run = "called" /\ Ready /\ kind = "chunks" /\ next <= Chunks /\ cancelled
  /\ running' = FALSE
  /\ Close
  /\ UNCHANGED <<kind, transport, next, worker, left, cancelled, wire, broken, lowerVars, sinkVars,
                 historyVars>>

(* wg.Wait, and the end. *)
SomeDone == \E w \in 1 .. Chunks : worker[w] = "done"
AllDone == \A w \in 1 .. Chunks : worker[w] = "done"

FinishChunks ==
  /\ run = "called" /\ kind = "chunks" /\ next > Chunks
  /\ AllDone
  /\ running' = FALSE
  /\ Close
  /\ UNCHANGED <<kind, transport, next, worker, left, cancelled, wire, broken, lowerVars, sinkVars,
                 historyVars>>

(* The goroutine of a chunk sets the flag and looks at ctx. *)
BeginChunk(w) ==
  /\ worker[w] = "starting"
  /\ running' = TRUE
  /\ worker' = [worker EXCEPT ![w] = "begun"]
  /\ overlap' = (overlap \/ Active # {})
  /\ UNCHANGED <<kind, transport, run, next, left, cancelled, netVars, sinkVars, backlog,
                 lateWrite, failedHead>>

(* It ends, for whatever reason. *)
ClearRunning == FALSE

EndChunk(w) ==
  /\ worker' = [worker EXCEPT ![w] = "done"]
  /\ running' = ClearRunning
  /\ UNCHANGED <<run, next, left>>
-----------------------------------------------------------------------------
(* Run of the other sources ends; some paths close the writer.             *)
EndRunStillRunning(closing) ==
  /\ worker' = [worker EXCEPT ![0] = "done"]
  /\ run' = "returned"
  /\ closed' = (closed \/ closing)
  /\ UNCHANGED <<running, next, left>>
EndRun(closing) ==
  /\ worker' = [worker EXCEPT ![0] = "done"]
  /\ run' = "returned"
  /\ running' = FALSE
  /\ closed' = (closed \/ closing)
  /\ UNCHANGED <<next, left>>

NeverDone == FALSE
CtxDone == cancelled

(* The select on ctx before every write.  The chunk source leaves closing  *)
(* to Run.                                                                 *)
Check(w) ==
  /\ worker[w] \in {"begun", "check"}
  /\ IF CtxDone
     THEN IF w = 0 THEN EndRun(TRUE) ELSE EndChunk(w) /\ UNCHANGED closed
     ELSE /\ worker' = [worker EXCEPT ![w] = IF @ = "check" THEN "data" ELSE "header"]
          /\ UNCHANGED <<running, run, next, left, closed>>
  /\ UNCHANGED <<kind, transport, cancelled, wire, broken, lowerVars, sinkVars, historyVars>>

(* rateLimiter.WaitN fails because ctx is done: the random source closes   *)
(* the writer, the file source does not.  A chunk waits once, before its   *)
(* first check of ctx for data, where ending is the same as at the check.  *)
LimiterFails ==
  /\ worker[0] = "data" /\ CtxDone
  /\ EndRun(kind = "random")
  /\ UNCHANGED <<kind, transport, cancelled, wire, broken, lowerVars, sinkVars, historyVars>>

(* Write of the size, and of data.  Over webrtc it returns when sendLoop   *)
(* has taken the data, and never fails.                                    *)
Put(item) ==
  IF transport = "messages"
  THEN /\ Take(1)
       /\ held' = item
       /\ UNCHANGED <<wire, opened>>
  ELSE /\ ~closed /\ ~broken /\ Len(wire) < Window
       /\ wire' = Append(wire, item) /\ opened' = TRUE
       /\ UNCHANGED <<senderVars, held>>

WriteHeader(w) ==
  /\ worker[w] = "header" /\ Put(SizeOf)
  /\ worker' = [worker EXCEPT ![w] = "check"]
  /\ left' = [left EXCEPT ![w] = Amount]
  /\ backlog' = (backlog \/ wire # <<>>)
  /\ lateWrite' = (lateWrite \/ closed)
  /\ UNCHANGED <<kind, transport, running, run, next, cancelled, closed, broken, assigned,
                 share, unyielded, sinkVars, overlap, failedHead>>

WriteData(w) ==
  /\ worker[w] = "data" /\ (left[w] > 0 \/ kind = "random") /\ Put(Data)
  /\ left' = [left EXCEPT ![w] = IF kind = "random" THEN @ ELSE @ - 1]
  /\ worker' = [worker EXCEPT ![w] = "check"]
  /\ lateWrite' = (lateWrite \/ closed)
  /\ UNCHANGED <<kind, transport, running, run, next, cancelled, closed, broken, assigned,
                 share, unyielded, sinkVars, overlap, backlog, failedHead>>

(* The last byte was written: a chunk ends, a file ends at io.EOF.         *)
EndOfData(w) ==
  /\ worker[w] = "data" /\ left[w] = 0 /\ kind # "random"
  /\ IF w = 0 THEN EndRun(TRUE) ELSE EndChunk(w) /\ UNCHANGED closed
  /\ UNCHANGED <<kind, transport, cancelled, wire, broken, lowerVars, sinkVars, historyVars>>

(* A Write to quicdc fails because the writer was closed, or broke, before *)
(* or after the message was opened.                                        *)
(* The goroutine of Run returns at once when it was the size, and the flag *)
(* stays set; else the file source closes, the random source does not.     *)
Refused == transport = "stream" /\ (closed \/ broken)
HeaderFails(w) ==
  /\ worker[w] = "header" /\ Refused
  /\ lateWrite' = (lateWrite \/ closed)
  /\ IF w = 0
     THEN /\ run' = "returned" /\ worker' = [worker EXCEPT ![0] = "done"]
          /\ failedHead' = TRUE
          /\ UNCHANGED <<running, next, left>>
     ELSE EndChunk(w) /\ UNCHANGED failedHead
  /\ opened' \in {opened, TRUE}
  /\ UNCHANGED <<kind, transport, cancelled, wire, closed, broken, senderVars, held, assigned,
                 share, unyielded, sinkVars, overlap, backlog>>

WriteFails(w) ==
  /\ worker[w] = "data" /\ (left[w] > 0 \/ kind = "random") /\ Refused
  /\ lateWrite' = (lateWrite \/ closed)
  /\ IF w = 0 THEN EndRun(kind = "file") ELSE EndChunk(w) /\ UNCHANGED closed
  /\ UNCHANGED <<kind, transport, cancelled, wire, broken, lowerVars, sinkVars, overlap, backlog,
                 failedHead>>

Cancel ==
  /\ ~cancelled
  /\ cancelled' = TRUE
  /\ UNCHANGED <<kind, transport, sourceVars, netVars, sinkVars, historyVars>>

Break ==
  /\ ~broken
  /\ broken' = TRUE
  /\ UNCHANGED <<kind, transport, sourceVars, cancelled, wire, closed, lowerVars, sinkVars, historyVars>>
-----------------------------------------------------------------------------
(* The data channel of webrtc: the receiver takes Window messages before   *)
(* the SCTP association holds the rest back.                               *)
SendLoopStep ==
  \/ /\ Send /\ ~broken
     /\ wire' = Append(wire, held)
  \/ /\ SendFails /\ broken
     /\ UNCHANGED wire
  \/ /\ Wait
     /\ UNCHANGED wire
ChannelStep ==
  \/ Open \/ BufferedAmountLow
  \/ \E n \in 0 .. bufferedAmount : Len(wire) - n <= Window /\ DrainTo(n)
SenderStep ==
  /\ transport = "messages"
  /\ SendLoopStep \/ (ChannelStep /\ UNCHANGED wire)
  /\ UNCHANGED <<kind, transport, sourceVars, cancelled, closed, broken, opened, held, assigned,
                 share, unyielded, sinkVars, historyVars>>
-----------------------------------------------------------------------------
(* The program send assigns SetSourceTargetRate after it has started Run.  *)
Assign ==
  /\ transport = "stream" /\ ~assigned /\ run # "panicked"
  /\ assigned' = TRUE
  /\ UNCHANGED <<kind, transport, sourceVars, cancelled, wire, closed, broken, senderVars,
                 opened, held, share, unyielded, sinkVars, historyVars>>

(* A new target rate: the media get 50 % of it while data are sent, else   *)
(* 80 %.  The pace of the connection is the whole rate in both cases.      *)
UpdateRate ==
  /\ assigned /\ run # "panicked"
  /\ share' = IF running THEN "split" ELSE "whole"
  /\ unyielded' = (unyielded \/ (Active # {} /\ ~running))
  /\ UNCHANGED <<kind, transport, sourceVars, cancelled, wire, closed, broken, senderVars,
                 opened, held, assigned, sinkVars, historyVars>>
-----------------------------------------------------------------------------
(* The sink reads a size.  Data in its place are zeros, or too long for    *)
(* the buffer of 8 bytes where reads keep to the writes.  On a stream a    *)
(* read may return less than 8 bytes, and the sink gives up.               *)
Arrived == IF transport = "messages" THEN Len(wire) - bufferedAmount ELSE Len(wire)
ReadHeader ==
  /\ sink = "header" /\ Arrived > 0
  /\ \/ /\ Head(wire) # Data
        /\ sink' = IF Head(wire) = 0 THEN "endless" ELSE "data"
        /\ want' = Head(wire) /\ UNCHANGED misread
     \/ /\ Head(wire) = Data
        /\ sink' = IF transport = "messages" THEN "failed" ELSE "endless"
        /\ want' = 0 /\ misread' = TRUE
     \/ /\ transport = "stream"
        /\ sink' = "failed" /\ want' = 0 /\ UNCHANGED misread
  /\ wire' = Tail(wire)
  /\ UNCHANGED <<kind, transport, sourceVars, cancelled, closed, broken, lowerVars, historyVars>>

(* It reads data until it has as many bytes as the size says; the last     *)
(* read may take more.                                                     *)
ReadSize == IF transport = "messages" THEN {1} ELSE 1 .. ReadMax
Counted(n) == Cardinality({i \in 1 .. n : wire[i] = Data})

ReadData ==
  /\ sink \in {"data", "endless"}
  /\ \E n \in ReadSize :
       /\ n <= Arrived
       /\ wire' = SubSeq(wire, n + 1, Len(wire))
       /\ want' = IF sink = "endless" \/ Counted(n) >= want THEN 0 ELSE want - Counted(n)
  /\ sink' = IF sink = "data" /\ want' = 0 THEN "header" ELSE sink
  /\ UNCHANGED <<kind, transport, sourceVars, cancelled, closed, broken, lowerVars, misread, historyVars>>
-----------------------------------------------------------------------------
Init ==
  /\ kind \in {"chunks", "file", "random"} /\ transport \in {"messages", "stream"}
  /\ running = FALSE /\ run = "called" /\ next = 1
  /\ worker = [w \in Workers |-> "none"] /\ left = [w \in Workers |-> 0]
  /\ cancelled = FALSE /\ wire = <<>> /\ closed = FALSE /\ broken = FALSE
  /\ SenderInit /\ opened = FALSE /\ held = 0
  /\ assigned = FALSE /\ share = "none" /\ unyielded = FALSE
  /\ sink = "header" /\ want = 0
  /\ overlap = FALSE /\ backlog = FALSE /\ lateWrite = FALSE /\ failedHead = FALSE
  /\ misread = FALSE

RunStep ==
  StartAlone \/ DelayCancelled \/ StartFails \/ StartChunk \/ StopStarting \/ FinishChunks
Write(w) == WriteHeader(w) \/ WriteData(w)
Fail(w) == run # "panicked" /\ (HeaderFails(w) \/ WriteFails(w))
WorkerStep(w) == run # "panicked" /\ (BeginChunk(w) \/ Check(w) \/ Write(w) \/ EndOfData(w))
SinkStep == ReadHeader \/ ReadData

Next ==
  \/ RunStep \/ LimiterFails \/ Cancel \/ Break \/ SinkStep \/ SenderStep \/ Assign \/ UpdateRate
  \/ \E w \in Workers : WorkerStep(w) \/ Fail(w)

Spec == Init /\ [][Next]_vars

(* Timers fire, goroutines run, a Write on a closed writer fails, the data *)
(* channel opens and drains, the sink reads as long as it has not failed,  *)
(* and acknowledgements of media bring new target rates.                   *)
FairSpec ==
  /\ Spec
  /\ WF_vars(RunStep) /\ WF_vars(SinkStep) /\ WF_vars(SenderStep)
  /\ WF_vars(Assign) /\ WF_vars(UpdateRate)
  /\ \A w \in Workers : WF_vars(WorkerStep(w)) /\ WF_vars(Fail(w))
-----------------------------------------------------------------------------
(* The sink takes data for a size only if goroutines of the source wrote   *)
(* at the same time, or, on a stream, if it was so slow that the size of   *)
(* the next chunk waited behind the data of the one before.                *)
SizesAreRead == misread => overlap \/ (transport = "stream" /\ backlog)

(* Nothing is written after Close, except by goroutines of chunks that a   *)
(* cancelled Run left behind.                                              *)
NoWriteAfterClose == lateWrite => kind = "chunks" /\ cancelled

(* An update of the rate never gives the whole rate to the media while     *)
(* data are sent, unless chunks overlapped or ctx is done.                 *)
MediaYieldToData == unyielded => overlap \/ cancelled

(* When Run has returned and its goroutines are done, the media get the    *)
(* whole rate with the next update; a file that could not be opened and a  *)
(* size that could not be written make them share it with nobody for ever. *)
MediaGetTheRateBack ==
  (run = "returned" /\ (\A w \in Workers : worker[w] \in {"none", "done"}) /\ ~failedHead)
    ~> share # "split"

(* Cancelling ctx ends Run, although sendLoop may have to wait for the     *)
(* callback of the data channel, unless the sink has given up, or the data *)
(* channel of webrtc has failed: a Write then blocks for ever.  The chunk  *)
(* source over quicdc ends in a panic if no chunk has opened the message.  *)
RunEndsAfterCancel ==
  cancelled ~> \/ run = "returned" \/ sink = "failed" \/ loop = "failed"
               \/ run = "panicked" /\ kind = "chunks" /\ ~opened
=============================================================================
