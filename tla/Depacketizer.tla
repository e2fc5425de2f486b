---------------------------- MODULE Depacketizer ----------------------------
(***************************************************************************)
(* The RTP depacketizer (gopipe/rtp_depacketizer.go) with the pion jitter  *)
(* buffer it reads from.                                                   *)
(*                                                                         *)
(* The network side calls Write, which pushes a packet and then signals    *)
(* the trigger channel of capacity 1.  The goroutine Run takes the signal  *)
(* and loops in processPackets; the jitter buffer's mutex covers one call  *)
(* only, so Write may come between a failed Pop and what processPackets    *)
(* does about it, and between its last look at the buffer and its return.  *)
(* Packets are the numbers 0 .. Packets-1 in sending order; they may       *)
(* arrive in any order or not at all.  A payload is the number of its      *)
(* packet, and a frame's RTP timestamp is the number of the frame.         *)
(***************************************************************************)
EXTENDS Naturals, Sequences, FiniteSets

CONSTANTS
  Packets,   \* bound: how many packets the sender sends
  FrameOf,   \* the frame of each packet, ascending from 1
  Modulus,   \* size of the sequence number space, 2^16 in RTP
  FirstSeq,  \* sequence number of packet 0
  MinStart   \* packets the jitter buffer collects before it emits, 50 in pion

Packet == 0 .. Packets - 1

ASSUME StreamOK ==
  /\ Packets \in Nat \ {0} /\ Modulus \in Nat /\ Modulus > Packets
  /\ FirstSeq \in 0 .. Modulus - 1
  /\ MinStart \in Nat \ {0}
  /\ FrameOf \in [Packet -> 1 .. Packets]
  /\ \A i, j \in Packet : i <= j => FrameOf[i] <= FrameOf[j]

VARIABLES
  (* jitterbuffer.JitterBuffer *)
  buffer,            \* packets queued
  head,              \* playoutHead
  emitting,          \* state is Emitting (and playoutReady)
  (* rtpDepacketizer *)
  trigger,           \* the trigger channel holds a signal
  frameBuffer,       \* payloads collected for the current frame
  missedPacketTime,  \* nil, running, or older than currentTimeout
  fastSkip,
  playoutTs,         \* timestamp of the frame being collected
  closed,            \* ctx was cancelled
  (* goroutines *)
  writer,            \* Write: about to push, or to signal
  runner,            \* Run: where it is, see Runner
  droppingFrame,     \* local variable of processPackets
  (* history *)
  first,             \* the packet that arrived first and set the playout head
  late,              \* packets that came too late: the playout head had passed them
  arrived, popped, skipped, delivered

bufferVars == <<buffer, head, emitting>>
historyVars == <<first, arrived, popped, skipped, late, delivered>>
depacketizerVars ==
  <<bufferVars, trigger, frameBuffer, missedPacketTime, fastSkip, playoutTs, closed,
    writer, runner, droppingFrame, historyVars>>

SeqNr(i) == (FirstSeq + i) % Modulus
Marker(i) == i = Packets - 1 \/ FrameOf[i + 1] # FrameOf[i]
AtHead == {i \in buffer : SeqNr(i) = head}
-----------------------------------------------------------------------------
(* Write: jitterBuffer.Push.  The first packet of an empty buffer that     *)
(* never emitted sets the playout head.  Duplicates are left out: the      *)
(* sender sends each packet once.                                          *)
Push(i) ==
  /\ writer = "push" /\ i \notin arrived
  /\ buffer' = buffer \cup {i}
  /\ head' = IF ~emitting /\ buffer = {} THEN SeqNr(i) ELSE head
  /\ emitting' = (emitting \/ Cardinality(buffer \cup {i}) >= MinStart)
  /\ writer' = "signal"
  /\ arrived' = arrived \cup {i}
  /\ first' = IF arrived = {} THEN i ELSE first
  /\ late' = IF i < first' \/ \E j \in popped \cup skipped : i <= j
             THEN late \cup {i} ELSE late
  /\ UNCHANGED <<trigger, frameBuffer, missedPacketTime, fastSkip, playoutTs, closed,
                 runner, droppingFrame, popped, skipped, delivered>>

(* Write: the non-blocking send on trigger. *)
SignalDropped ==
  /\ writer = "signal"
  /\ writer' = "push"
  /\ trigger' = (trigger \/ runner = "select")
  /\ UNCHANGED <<bufferVars, frameBuffer, missedPacketTime, fastSkip, playoutTs, closed,
                 runner, droppingFrame, historyVars>>
Signal ==
  /\ writer = "signal"
  /\ writer' = "push"
  /\ trigger' = TRUE
  /\ UNCHANGED <<bufferVars, frameBuffer, missedPacketTime, fastSkip, playoutTs, closed,
                 runner, droppingFrame, historyVars>>

(* Run receives from trigger and enters processPackets, whose local        *)
(* droppingFrame starts as false in every call.                            *)
RunTriggered ==
  /\ runner = "select" /\ trigger
  /\ trigger' = FALSE
  /\ runner' = "processing"
  /\ droppingFrame' = FALSE
  /\ UNCHANGED <<bufferVars, frameBuffer, missedPacketTime, fastSkip, playoutTs, closed,
                 writer, historyVars>>
-----------------------------------------------------------------------------
(* processPackets.  Every return first leaves the loop, then is in select. *)
Runner == {"select", "processing", "missing", "returning", "returned"}
Return ==
  /\ runner = "returning"
  /\ runner' = "select"
  /\ UNCHANGED <<bufferVars, trigger, frameBuffer, missedPacketTime, fastSkip, playoutTs,
                 closed, writer, droppingFrame, historyVars>>

(* Peek finds the buffer empty. *)
Drained ==
  /\ runner = "processing" /\ buffer = {}
  /\ fastSkip' = FALSE
  /\ missedPacketTime' = "nil"
  /\ runner' = "returning"
  /\ UNCHANGED <<bufferVars, trigger, frameBuffer, playoutTs, closed, writer,
                 droppingFrame, historyVars>>

(* Pop: ErrPopWhileBuffering. *)
StillBuffering ==
  /\ runner = "processing" /\ buffer # {} /\ ~emitting
  /\ runner' = "returning"
  /\ UNCHANGED <<bufferVars, trigger, frameBuffer, missedPacketTime, fastSkip, playoutTs,
                 closed, writer, droppingFrame, historyVars>>

(* Pop: ErrNotFound. *)
HeadMissing ==
  /\ runner = "processing" /\ buffer # {} /\ emitting /\ AtHead = {}
  /\ runner' = "missing"
  /\ UNCHANGED <<bufferVars, trigger, frameBuffer, missedPacketTime, fastSkip, playoutTs,
                 closed, writer, droppingFrame, historyVars>>

(* The missing packet may still come in time: wait. *)
WaitForMissing ==
  /\ runner = "missing" /\ ~fastSkip /\ missedPacketTime # "expired"
  /\ missedPacketTime' = "running"
  /\ runner' = "returning"
  /\ UNCHANGED <<bufferVars, trigger, frameBuffer, fastSkip, playoutTs, closed, writer,
                 droppingFrame, historyVars>>

(* In fast-skip mode, or after the timeout: give the missing packet up. *)
NextHeadNoWrap == head + 1
NextHead == (head + 1) % Modulus
OneSkipOnly == FALSE
SkipMode == TRUE

SkipMissing ==
  /\ runner = "missing" /\ (fastSkip \/ missedPacketTime = "expired")
  /\ head' = NextHead
  /\ frameBuffer' = <<>>
  /\ droppingFrame' = TRUE
  /\ fastSkip' = SkipMode
  /\ runner' = "processing"
  /\ skipped' = skipped \cup {i \in Packet : SeqNr(i) = head}
  /\ late' = late \cup AtHead
  /\ UNCHANGED <<buffer, emitting, trigger, missedPacketTime, playoutTs, closed, writer,
                 first, arrived, popped, delivered>>

(* Pop returns a packet.  A new timestamp discards what was collected and  *)
(* ends the dropping; the marker hands the frame to onFrame.               *)
CollectedNoReset(i) == Append(frameBuffer, i)
Collected(i) == IF playoutTs # FrameOf[i] THEN <<i>> ELSE Append(frameBuffer, i)
StillDroppingAnyTs(i) == droppingFrame
StillDropping(i) == playoutTs = FrameOf[i] /\ droppingFrame
OldTimestamp(i) == playoutTs
FrameTimestamp(i) == FrameOf[i]

PopPacket(i) ==
  /\ runner = "processing" /\ emitting /\ i \in AtHead
  /\ buffer' = buffer \ {i}
  /\ head' = NextHead
  /\ playoutTs' = FrameOf[i]
  /\ frameBuffer' = Collected(i)
  /\ droppingFrame' = StillDropping(i)
  /\ missedPacketTime' = IF fastSkip THEN missedPacketTime ELSE "nil"
  /\ popped' = popped \cup {i}
  /\ delivered' = IF Marker(i) /\ ~StillDropping(i)
                  THEN Append(delivered,
                              [pts |-> FrameTimestamp(i), packets |-> Collected(i)])
                  ELSE delivered
  /\ UNCHANGED <<emitting, trigger, fastSkip, closed, writer, runner,
                 first, arrived, skipped, late>>
-----------------------------------------------------------------------------
(* More than currentTimeout passes since missedPacketTime. *)
TimeoutPasses ==
  /\ missedPacketTime = "running"
  /\ missedPacketTime' = "expired"
  /\ UNCHANGED <<bufferVars, trigger, frameBuffer, fastSkip, playoutTs, closed, writer,
                 runner, droppingFrame, historyVars>>

(* Close cancels ctx; Run returns when its select sees that. *)
CloseDepacketizer ==
  /\ ~closed
  /\ closed' = TRUE
  /\ UNCHANGED <<bufferVars, trigger, frameBuffer, missedPacketTime, fastSkip, playoutTs,
                 writer, runner, droppingFrame, historyVars>>

RunReturns ==
  /\ runner = "select" /\ closed
  /\ runner' = "returned"
  /\ UNCHANGED <<bufferVars, trigger, frameBuffer, missedPacketTime, fastSkip, playoutTs,
                 closed, writer, droppingFrame, historyVars>>
-----------------------------------------------------------------------------
DepacketizerInit ==
  /\ buffer = {} /\ head = 0 /\ emitting = FALSE
  /\ trigger = FALSE
  /\ frameBuffer = <<>>
  /\ missedPacketTime = "nil"
  /\ fastSkip = FALSE
  /\ playoutTs = 0
  /\ closed = FALSE
  /\ writer = "push" /\ runner = "select" /\ droppingFrame = FALSE
  /\ arrived = {} /\ popped = {} /\ skipped = {} /\ late = {} /\ delivered = <<>> /\ first = 0

ProcessPackets ==
  \/ Drained \/ StillBuffering \/ HeadMissing \/ WaitForMissing \/ SkipMissing
  \/ \E i \in Packet : PopPacket(i)
  \/ Return

DepacketizerNext ==
  \/ \E i \in Packet : Push(i)
  \/ Signal
  \/ RunTriggered
  \/ ProcessPackets
  \/ TimeoutPasses
  \/ CloseDepacketizer
  \/ RunReturns

DepacketizerSpec == DepacketizerInit /\ [][DepacketizerNext]_depacketizerVars

(* The goroutines run; nothing forces the network to deliver or the owner  *)
(* to close.                                                               *)
FairDepacketizerSpec ==
  /\ DepacketizerSpec
  /\ WF_depacketizerVars(Signal) /\ WF_depacketizerVars(RunTriggered)
  /\ WF_depacketizerVars(ProcessPackets)
-----------------------------------------------------------------------------
PacketsOf(f) == {i \in Packet : FrameOf[i] = f}
Frames == {FrameOf[i] : i \in Packet}
Contents(d) == {d.packets[k] : k \in DOMAIN d.packets}

(* The types of the variables. *)
TypeOK ==
  /\ buffer \subseteq Packet /\ head \in 0 .. Modulus - 1 /\ emitting \in BOOLEAN
  /\ trigger \in BOOLEAN /\ fastSkip \in BOOLEAN /\ closed \in BOOLEAN
  /\ frameBuffer \in Seq(Packet)
  /\ missedPacketTime \in {"nil", "running", "expired"}
  /\ playoutTs \in 0 .. Packets
  /\ writer \in {"push", "signal"}
  /\ runner \in Runner /\ droppingFrame \in BOOLEAN
  /\ arrived \subseteq Packet /\ popped \subseteq arrived
  /\ skipped \subseteq Packet /\ late \subseteq arrived /\ first \in Packet
  /\ delivered \in Seq([pts : Frames, packets : Seq(Packet)])

(* A frame whose packets were all played out, none of them skipped over    *)
(* before, reaches the callback exactly once and unchanged.                *)
IntactFramesDelivered ==
  \A f \in Frames :
    PacketsOf(f) \subseteq popped /\ PacketsOf(f) \cap (skipped \cup late) = {}
      => \E k \in DOMAIN delivered :
           /\ delivered[k].pts = f /\ Contents(delivered[k]) = PacketsOf(f)
           /\ \A m \in DOMAIN delivered : delivered[m].pts = f => m = k

(* What reaches the callback is a run of consecutive packets of one frame  *)
(* up to the one with the marker: payloads of different frames are never   *)
(* joined, and there is no hole inside.                                    *)
DeliveredIsSuffixOfFrame ==
  \A k \in DOMAIN delivered :
    LET d == delivered[k] IN
      /\ Contents(d) \subseteq PacketsOf(d.pts)
      /\ Marker(d.packets[Len(d.packets)])
      /\ \A n \in 2 .. Len(d.packets) : d.packets[n] = d.packets[n - 1] + 1

(* Frames are played in order as long as no packet arrives after playout   *)
(* has passed it.                                                          *)
InOrderUnlessLate ==
  late = {} => \A k \in 2 .. Len(delivered) : delivered[k - 1].pts < delivered[k].pts

(* The callback gets complete frames only, as its comment says, in a      *)
(* stream that was received from its first packet on: a frame of which a   *)
(* packet was given up is dropped.                                         *)
OnlyCompleteFrames ==
  first = 0 => \A k \in DOMAIN delivered :
                 Contents(delivered[k]) = PacketsOf(delivered[k].pts)

(* No wake-up is lost: a packet at the playout head is played, although    *)
(* signals coalesce in the channel, unless the depacketizer is closed; and *)
(* once a missing packet was given up, the call plays everything that is   *)
(* queued, however many further holes there are, and does not start a new  *)
(* timeout for each.                                                       *)
PlayoutGoesOn ==
  /\ \A i \in Packet : (emitting /\ i \in AtHead) ~> (i \in popped \/ closed)
  /\ (runner = "processing" /\ droppingFrame) ~> (buffer = {})
=============================================================================
