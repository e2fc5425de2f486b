--------------------------- MODULE StreamReceive ---------------------------
(***************************************************************************)
(* How the streams that the peer opens reach their consumers: the accept   *)
(* loop of quictransport.Transport (receiveUniStreams), the HandleUniStream*)
(* function that the receiving program installs, and the data channels     *)
(* behind it.                                                              *)
(*                                                                         *)
(* The loop reads the flow id of a stream before it accepts the next one;  *)
(* each stream is then handled by a goroutine of its own.  The programs    *)
(* receive and receive-go install the handler before they call             *)
(* StartHandlers; receive-data, to which no RTP is sent, does it after.    *)
(* The quicdc session reports a data channel in the goroutine that handles *)
(* its first stream.  The peer writes a flow id first on every stream,     *)
(* unless it resets or ends the stream before.                             *)
(***************************************************************************)
EXTENDS DataChannels, Sequences, FiniteSets

CONSTANTS
  Streams,
  Flows,      \* the ways to give streams flow ids that are considered
  RTP,
  NoStream    \* not a stream

ASSUME StreamsOK ==
  Flows \subseteq [Streams -> Channels \cup {RTP}] /\ NoStream \notin Streams

VARIABLES
  (* the program's set-up *)
  assignFirst,   \* it installs HandleUniStream before StartHandlers
  assigned,      \* HandleUniStream is set
  started,       \* StartHandlers was called
  (* the peer and the connection *)
  flow,          \* the flow id of each stream: a data channel, or RTP
  incoming,      \* streams opened and not yet accepted, in order
  flowIDSent,    \* streams whose flow id has arrived and was not discarded
  canceled,      \* streams the peer reset before their flow id was read
  ended,         \* streams the peer ended before the flow id was complete
  closed,        \* the connection is closed
  (* receiveUniStreams *)
  loop,          \* not started, accepting, reading, returned or panicked
  current,       \* the stream whose flow id it reads
  stream         \* what became of each stream

peerVars == <<flow, incoming, flowIDSent, canceled, ended>>
setupVars == <<assignFirst, assigned, started>>
streamVars == <<dcVars, setupVars, peerVars, closed, loop, current, stream>>
-----------------------------------------------------------------------------
Running == loop # "panicked"   \* a panic ends the program

MayAssign == assignFirst \/ started
MayStartAnyTime == TRUE
MayStart == ~assignFirst \/ assigned

AssignHandlers ==
  /\ Running /\ ~assigned /\ MayAssign
  /\ assigned' = TRUE
  /\ UNCHANGED <<dcVars, assignFirst, started, peerVars, closed, loop, current, stream>>

StartHandlers ==
  /\ ~started /\ MayStart
  /\ started' = TRUE
  /\ loop' = "accepting"
  /\ UNCHANGED <<dcVars, assignFirst, assigned, peerVars, closed, current, stream>>

(* The program asks for its data channels once the handlers are started. *)
CallReceiver(c) ==
  /\ Running /\ started
  /\ AddDataChannelReceiver(c)
  /\ UNCHANGED <<setupVars, peerVars, closed, loop, current, stream>>
-----------------------------------------------------------------------------
(* The peer opens a stream, and sends its flow id, resets it, which        *)
(* discards what was not read, or ends it.                                 *)
OpenStream(s) ==
  /\ stream[s] = "none" /\ ~closed
  /\ stream' = [stream EXCEPT ![s] = "open"]
  /\ incoming' = Append(incoming, s)
  /\ UNCHANGED <<dcVars, setupVars, flow, flowIDSent, canceled, ended, closed, loop, current>>

SendFlowID(s) ==
  /\ stream[s] # "none" /\ s \notin flowIDSent \cup canceled \cup ended /\ ~closed
  /\ flowIDSent' = flowIDSent \cup {s}
  /\ UNCHANGED <<dcVars, setupVars, flow, incoming, canceled, ended, closed, loop, current,
                 stream>>

CancelStream(s) ==
  /\ stream[s] = "open" /\ s \notin canceled \cup ended /\ ~closed
  /\ canceled' = canceled \cup {s}
  /\ flowIDSent' = flowIDSent \ {s}
  /\ UNCHANGED <<dcVars, setupVars, flow, incoming, ended, closed, loop, current, stream>>

EndStream(s) ==
  /\ stream[s] # "none" /\ s \notin flowIDSent \cup canceled \cup ended /\ ~closed
  /\ ended' = ended \cup {s}
  /\ UNCHANGED <<dcVars, setupVars, flow, incoming, flowIDSent, canceled, closed, loop,
                 current, stream>>

(* Transport.Close, on either side, ends the connection. *)
Close ==
  /\ Running /\ ~closed
  /\ closed' = TRUE
  /\ UNCHANGED <<dcVars, setupVars, peerVars, loop, current, stream>>
-----------------------------------------------------------------------------
(* receiveUniStreams *)
AcceptStream ==
  /\ loop = "accepting" /\ incoming # <<>> /\ ~closed
  /\ current' = Head(incoming)
  /\ incoming' = Tail(incoming)
  /\ loop' = "reading"
  /\ UNCHANGED <<dcVars, setupVars, flow, flowIDSent, canceled, ended, closed, stream>>

ReadFlowID ==
  /\ loop = "reading" /\ current \in flowIDSent
  /\ stream' = [stream EXCEPT ![current] = "dispatched"]
  /\ loop' = "accepting" /\ current' = NoStream
  /\ UNCHANGED <<dcVars, setupVars, peerVars, closed>>

SkipReset ==
  /\ loop = "reading" /\ current \in canceled
  /\ stream' = [stream EXCEPT ![current] = "reset"]
  /\ loop' = "accepting" /\ current' = NoStream
  /\ UNCHANGED <<dcVars, setupVars, peerVars, closed>>

(* The connection ends: AcceptUniStream fails and the loop returns, but an *)
(* error while reading a flow id that is no reset is a panic, and so is    *)
(* the end of the stream.                                                  *)
LoopReturns ==
  /\ loop = "accepting" /\ closed
  /\ loop' = "returned"
  /\ UNCHANGED <<dcVars, setupVars, peerVars, closed, current, stream>>

ReadFailsOnReset == closed \/ current \in ended \cup canceled
ReadFails == closed \/ current \in ended

Panic ==
  /\ loop = "reading" /\ ReadFails
  /\ loop' = "panicked"
  /\ UNCHANGED <<dcVars, setupVars, peerVars, closed, current, stream>>
-----------------------------------------------------------------------------
(* The goroutine of a stream, and the HandleUniStream of the programs. *)
DropStream(s) ==
  /\ Running /\ stream[s] = "dispatched" /\ ~assigned
  /\ stream' = [stream EXCEPT ![s] = "dropped"]
  /\ UNCHANGED <<dcVars, setupVars, peerVars, closed, loop, current>>

HandleRTP(s) ==
  /\ Running /\ stream[s] = "dispatched" /\ assigned /\ flow[s] = RTP
  /\ stream' = [stream EXCEPT ![s] = "rtp"]
  /\ UNCHANGED <<dcVars, setupVars, peerVars, closed, loop, current>>

(* The first stream of a data channel announces it. *)
HandleFirstOfChannel(s) ==
  /\ Running /\ stream[s] = "dispatched" /\ assigned /\ flow[s] \in Channels
  /\ IncomingDataChannel(flow[s])
  /\ stream' = [stream EXCEPT ![s] = "data"]
  /\ UNCHANGED <<setupVars, peerVars, closed, loop, current>>

HandleMoreOfChannel(s) ==
  /\ Running /\ stream[s] = "dispatched" /\ assigned /\ flow[s] \in Channels
  /\ callback[flow[s]] # "none"
  /\ stream' = [stream EXCEPT ![s] = "data"]
  /\ UNCHANGED <<dcVars, setupVars, peerVars, closed, loop, current>>

Rendezvous(c) ==
  /\ Running
  /\ DCStep(c)
  /\ UNCHANGED <<setupVars, peerVars, closed, loop, current, stream>>
-----------------------------------------------------------------------------
StreamInit ==
  /\ DCInit
  /\ assignFirst \in BOOLEAN /\ assigned = FALSE /\ started = FALSE
  /\ flow \in Flows /\ (assignFirst \/ \A s \in Streams : flow[s] # RTP)
  /\ incoming = <<>> /\ flowIDSent = {} /\ canceled = {} /\ ended = {}
  /\ closed = FALSE
  /\ loop = "not started" /\ current = NoStream
  /\ stream = [s \in Streams |-> "none"]

Setup == AssignHandlers \/ StartHandlers
Peer == Running /\ \E s \in Streams : OpenStream(s) \/ SendFlowID(s) \/ CancelStream(s) \/ EndStream(s)
LoopStep == AcceptStream \/ ReadFlowID \/ SkipReset \/ LoopReturns \/ Panic
Handle(s) ==
  DropStream(s) \/ HandleRTP(s) \/ HandleFirstOfChannel(s) \/ HandleMoreOfChannel(s)

StreamNext ==
  \/ Setup \/ Peer \/ Close \/ LoopStep
  \/ \E c \in Channels : CallReceiver(c) \/ Rendezvous(c)
  \/ \E s \in Streams : Handle(s)

StreamSpec == StreamInit /\ [][StreamNext]_streamVars

(* The program's goroutines run; the peer and Close are free. *)
FairStreamSpec ==
  /\ StreamSpec
  /\ WF_streamVars(Setup) /\ WF_streamVars(LoopStep)
  /\ \A c \in Channels : WF_streamVars(CallReceiver(c)) /\ WF_streamVars(Rendezvous(c))
  /\ \A s \in Streams : WF_streamVars(Handle(s))
-----------------------------------------------------------------------------
(* No stream is thrown away for want of a handler in the programs that     *)
(* install the handler before they start the loop.                         *)
NoneDroppedIfAssignedFirst ==
  assignFirst => \A s \in Streams : stream[s] # "dropped"

(* Every stream whose flow id arrives once a handler is there reaches its  *)
(* consumer, RTP or a data channel, in each of the programs and whatever   *)
(* other streams do, unless it is reset itself, the connection ends, or    *)
(* the loop comes to a stream that ended inside its flow id, or to one     *)
(* whose peer stays silent for ever.                                       *)
Silent == loop = "reading" /\ current \notin flowIDSent \cup canceled \cup ended
EndedByStream == loop = "panicked" /\ current \in ended

(* A receiver that waits for its data channel gets it once the channel     *)
(* comes in, unless a data channel that nobody waits for blocks them all,  *)
(* or the connection or the process ends.                                  *)
WaitingReceiverIsServed ==
  \A c \in Channels :
    (receiver[c] = "waiting" /\ callback[c] = "called")
      ~> (receiver[c] = "got" \/ Unclaimed # {} \/ closed \/ ~Running)

(* AddDataChannelReceiver returns when its data channel has come in, as   *)
(* long as the process and the connection live.                            *)
ReceiverGetsItsChannel ==
  \A c \in Channels : (callback[c] # "none") ~> (receiver[c] = "got" \/ closed \/ ~Running)
=============================================================================
