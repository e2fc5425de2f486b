---------------------------- MODULE MediaSender ----------------------------
(***************************************************************************)
(* The sending side of media without GStreamer: how a target rate reaches  *)
(* the source of frames, and how the packets of a frame reach the RTP      *)
(* sink.                                                                   *)
(*                                                                         *)
(* Two pipelines share the shape: the fake source of the simulation        *)
(* (gopipe/fake.go), whose SetTargetRate starts a goroutine that hands the *)
(* rate to the loop of StartLive, and the encoder of send-go, whose        *)
(* SetTargetRate stores the rate for the next Encode.  Each frame passes   *)
(* the packetizer, which gives all its packets at once to the frame        *)
(* spacer; the goroutine of the spacer writes them one at a time.          *)
(*                                                                         *)
(* Rates have an arbitrary unit in which 1 is the smallest rate that the   *)
(* codecs accept.  A packet is a frame number and an index; a codec may    *)
(* return an empty payload, which has no packets.  Errors of the codecs    *)
(* are left out, and an error of the sink is only logged.                  *)
(***************************************************************************)
EXTENDS Integers, Sequences

CONSTANTS
  Rates,              \* target rates that the estimator computes
  MinRate, MaxRate,   \* limits of the fake source
  InitRate,           \* of both sources
  ByteRate,           \* rate at which a fake frame has one byte, 8 times fps
  PacketSize,         \* bytes that fill one packet
  EncodedSizes,       \* packets that an encoded frame may have
  MaxFrames,          \* run time of the fake source, length of the file
  QueueSize,          \* capacity of pktChan
  MaxUpdates          \* bound: number of rates

ASSUME ConstantsOK ==
  /\ Rates \subseteq Nat /\ {MinRate, MaxRate, InitRate, ByteRate, PacketSize} \subseteq Nat \ {0}
  /\ ByteRate <= MinRate /\ ByteRate <= InitRate   \* limits of at least 240 bit/s
  /\ MinRate <= MaxRate /\ EncodedSizes \subseteq Nat
  /\ {MaxFrames, QueueSize, MaxUpdates} \subseteq Nat
  /\ MaxFrames <= QueueSize   \* a million frames fit in the queue

VARIABLES
  (* rates *)
  kind,        \* the pipeline: fake or encoder
  linked,      \* Chain has made the encoder
  updates,     \* history: the rates asked for
  waiting,     \* goroutines of SetTargetRate that wait, as indices of updates
  target,      \* targetBitrateBps, targetBitrate
  used,        \* the rate that the codec was configured with
  (* the source *)
  source,      \* StartLive: new, running, returned
  sizes,       \* history: the number of packets of each frame
  done,        \* Close has closed the channel done
  closer,      \* Close: idle, waiting, returned
  canceled,    \* ctx
  (* the spacer *)
  queue,       \* pktChan: frames, each a sequence of packets
  spacer,      \* run: select, spacing, bursting, returned; or panicked
  payloads,    \* packets left of the frame at hand
  spacerClosed,
  written      \* history: the packets given to the sink

rateVars == <<updates, waiting, target>>
sourceVars == <<source, sizes, used>>
stopVars == <<done, closer, canceled, spacerClosed>>
spacerVars == <<queue, spacer, payloads, written>>
vars == <<kind, linked, rateVars, sourceVars, stopVars, spacerVars>>
-----------------------------------------------------------------------------
(* Both SetTargetRate keep a tenth for overhead. *)
Reduced(r) == (9 * r) \div 10
ClampAbove(r) == IF r > MaxRate THEN MaxRate ELSE r
Clamp(r) == IF r < MinRate THEN MinRate ELSE IF r > MaxRate THEN MaxRate ELSE r

(* FakeSource.SetTargetRate *)
FakeSetTargetRate(r) ==
  /\ kind = "fake"
  /\ waiting' = waiting \cup {Len(updates) + 1}
  /\ UNCHANGED target

(* Encoder.SetTargetRate does nothing before Link. *)
EncoderSetTargetRate(r) ==
  /\ kind = "encoder"
  /\ target' = IF linked THEN Reduced(r) ELSE target
  /\ UNCHANGED waiting

SetTargetRate(r) ==
  /\ Len(updates) < MaxUpdates
  /\ updates' = Append(updates, r)
  /\ FakeSetTargetRate(r) \/ EncoderSetTargetRate(r)
  /\ UNCHANGED <<kind, linked, sourceVars, stopVars, spacerVars>>

(* The goroutine gives up once the source is closed. *)
NeverQuits(i) == FALSE
MayQuit(i) == done
QuitUpdate(i) ==
  /\ i \in waiting /\ MayQuit(i)
  /\ waiting' = waiting \ {i}
  /\ UNCHANGED <<kind, linked, updates, target, sourceVars, stopVars, spacerVars>>

(* The loop of StartLive takes a rate, from any goroutine that waits. *)
TakeUpdate(i) ==
  /\ source = "running" /\ i \in waiting
  /\ target' = Clamp(Reduced(updates[i]))
  /\ waiting' = waiting \ {i}
  /\ UNCHANGED <<kind, linked, updates, sourceVars, stopVars, spacerVars>>
-----------------------------------------------------------------------------
(* Chain links the encoder, the packetizer and the spacer. *)
Link ==
  /\ ~linked
  /\ linked' = TRUE
  /\ UNCHANGED <<kind, rateVars, sourceVars, stopVars, spacerVars>>

StartLive ==
  /\ source = "new" /\ linked
  /\ source' = "running"
  /\ UNCHANGED <<kind, linked, rateVars, sizes, used, stopVars, spacerVars>>

(* Encode configures the codec when the rate has changed; too small a rate *)
(* is ignored.                                                             *)
ConfiguredOnce == IF used = InitRate /\ target >= 1 THEN target ELSE used
Configured == IF target >= 1 THEN target ELSE used

FakeSize == (target \div ByteRate + PacketSize - 1) \div PacketSize
Frame(f, n) == [k \in 1 .. n |-> <<f, k>>]

(* RTPPacketizer.Write finds that the spacer is a MultiWriter. *)
HandOverSingles(frame) ==
  IF Len(frame) = 1
  THEN written' = written \o frame /\ UNCHANGED queue
  ELSE queue' = Append(queue, frame) /\ UNCHANGED written
HandOver(frame) == queue' = Append(queue, frame) /\ UNCHANGED written

WriteFrame(n) ==
  /\ source = "running" /\ Len(sizes) < MaxFrames /\ Len(queue) < QueueSize
  /\ sizes' = Append(sizes, n)
  /\ HandOver(Frame(Len(sizes) + 1, n))
  /\ UNCHANGED <<kind, linked, rateVars, source, stopVars, spacer, payloads>>

FakeFrame == kind = "fake" /\ WriteFrame(FakeSize) /\ UNCHANGED used

(* Y4MSource.StartLive looks at ctx before each frame. *)
EncodedFrame ==
  /\ kind = "encoder" /\ ~canceled
  /\ used' = Configured
  /\ \E n \in EncodedSizes : WriteFrame(n)

(* StartLive returns: at its last frame, when ctx or the source is done. *)
StartLiveReturns ==
  /\ source = "running"
  /\ Len(sizes) = MaxFrames \/ canceled \/ done
  /\ source' = "returned"
  /\ UNCHANGED <<kind, linked, rateVars, sizes, used, stopVars, spacerVars>>
-----------------------------------------------------------------------------
(* FakeSource.Close; a second call would close done again. *)
Close ==
  /\ kind = "fake" /\ closer = "idle"
  /\ done' = TRUE
  /\ closer' = "waiting"
  /\ UNCHANGED <<kind, linked, rateVars, sourceVars, canceled, spacerClosed, spacerVars>>

CloseReturns ==
  /\ closer = "waiting" /\ waiting = {}
  /\ closer' = "returned"
  /\ UNCHANGED <<kind, linked, rateVars, sourceVars, done, canceled, spacerClosed, spacerVars>>

Cancel ==
  /\ ~canceled
  /\ canceled' = TRUE
  /\ UNCHANGED <<kind, linked, rateVars, sourceVars, done, closer, spacerClosed, spacerVars>>

(* FrameSpacer.Close cancels the context of the spacer only. *)
CloseSpacer ==
  /\ ~spacerClosed
  /\ spacerClosed' = TRUE
  /\ UNCHANGED <<kind, linked, rateVars, sourceVars, done, closer, canceled, spacerVars>>
-----------------------------------------------------------------------------
SpacerDone == canceled \/ spacerClosed

(* FrameSpacer.run takes a frame; with more than two frames behind it, the *)
(* packets are written without a pause.  Else it divides the frame time by *)
(* their number, and a ticker for a frame without packets is a panic.      *)
TakeFrame ==
  /\ linked /\ spacer = "select" /\ queue # <<>>
  /\ payloads' = Head(queue)
  /\ queue' = Tail(queue)
  /\ spacer' = IF Len(Tail(queue)) > 2 THEN "bursting"
               ELSE IF Head(queue) = <<>> THEN "panicked" ELSE "spacing"
  /\ UNCHANGED <<kind, linked, rateVars, sourceVars, stopVars, written>>

WritePacket ==
  /\ written' = Append(written, Head(payloads))
  /\ payloads' = Tail(payloads)
  /\ UNCHANGED <<kind, linked, rateVars, sourceVars, stopVars, queue, spacer>>

BurstPacket == spacer = "bursting" /\ payloads # <<>> /\ WritePacket
SpacedPacket == spacer = "spacing" /\ ~SpacerDone /\ payloads # <<>> /\ WritePacket

(* The next frame.  In the loop over the ticks a break leaves the loop,    *)
(* and not only a select.                                                  *)
StaysInLoop == "spacing"
LeavesLoop == "select"
FrameWritten ==
  /\ payloads = <<>>
  /\ \/ spacer = "bursting" /\ spacer' = "select"
     \/ spacer = "spacing" /\ ~SpacerDone /\ spacer' = LeavesLoop
  /\ UNCHANGED <<kind, linked, rateVars, sourceVars, stopVars, queue, payloads, written>>

SpacerReturns ==
  /\ linked /\ spacer \in {"select", "spacing"} /\ SpacerDone
  /\ spacer' = "returned"
  /\ UNCHANGED <<kind, linked, rateVars, sourceVars, stopVars, queue, payloads, written>>
-----------------------------------------------------------------------------
Init ==
  /\ kind \in {"fake", "encoder"} /\ linked = FALSE
  /\ updates = <<>> /\ waiting = {} /\ target = InitRate /\ used = InitRate
  /\ source = "new" /\ sizes = <<>>
  /\ done = FALSE /\ closer = "idle" /\ canceled = FALSE /\ spacerClosed = FALSE
  /\ queue = <<>> /\ spacer = "select" /\ payloads = <<>> /\ written = <<>>

(* A panic of the spacer ends the program. *)
Alive == spacer # "panicked"
UpdateStep(i) == Alive /\ (TakeUpdate(i) \/ QuitUpdate(i))
LinkStep == Alive /\ Link
SourceStep == Alive /\ (StartLive \/ FakeFrame \/ EncodedFrame \/ StartLiveReturns)
SpacerStep ==
  TakeFrame \/ BurstPacket \/ SpacedPacket \/ FrameWritten \/ SpacerReturns
CloseStep == Alive /\ CloseReturns
FreeStep ==
  Alive /\ ((\E r \in Rates : SetTargetRate(r)) \/ Close \/ Cancel \/ CloseSpacer)

Next ==
  \/ FreeStep \/ LinkStep \/ SourceStep \/ SpacerStep \/ CloseStep
  \/ \E i \in 1 .. MaxUpdates : UpdateStep(i)

Spec == Init /\ [][Next]_vars

(* Tickers tick and goroutines run; rates, Close and Cancel are free.  The *)
(* select of StartLive is fair to each goroutine that waits.               *)
FairSpec ==
  /\ Spec
  /\ WF_vars(LinkStep) /\ WF_vars(SourceStep) /\ WF_vars(SpacerStep) /\ WF_vars(CloseStep)
  /\ \A i \in 1 .. MaxUpdates : WF_vars(UpdateStep(i))
-----------------------------------------------------------------------------
(* What the source has made, and when q is the packet that comes after p:  *)
(* frames without packets lie between them at most.                        *)
Made(p) == p[1] \in DOMAIN sizes /\ p[2] \in 1 .. sizes[p[1]]
EmptyUpTo(f, g) == \A e \in f .. g - 1 : sizes[e] = 0
First(q) == q[2] = 1 /\ EmptyUpTo(1, q[1])
After(p, q) ==
  \/ p[2] < sizes[p[1]] /\ q = <<p[1], p[2] + 1>>
  \/ p[2] = sizes[p[1]] /\ q[2] = 1 /\ q[1] > p[1] /\ EmptyUpTo(p[1] + 1, q[1])

(* The packets of all frames reach the sink in the order in which they     *)
(* were made, with no hole and none twice, however the spacer changes      *)
(* between its pace and bursts (frame_spacer.go 53-90), and whichever      *)
(* frames have no packets.                                                 *)
PacketsInOrder ==
  \A k \in DOMAIN written :
    /\ Made(written[k])
    /\ IF k = 1 THEN First(written[k]) ELSE After(written[k - 1], written[k])

(* The spacer finds its pace from the number of packets (frame_spacer.go   *)
(* 67-70) and panics only if the codec returned an empty payload           *)
(* (encoder.go 107-111): never for the fake source, whatever rates the     *)
(* estimator computes.                                                     *)
PanicsOnEmptyPayload ==
  spacer = "panicked" => kind = "encoder" /\ \E f \in DOMAIN sizes : sizes[f] = 0

(* Every frame is written to its end, unless the spacer was stopped or     *)
(* has panicked.                                                           *)
HasPackets(f) == f \in DOMAIN sizes /\ sizes[f] > 0
Sent(f) == HasPackets(f) /\ \E k \in DOMAIN written : written[k] = <<f, sizes[f]>>
EveryFrameIsSent ==
  \A f \in 1 .. MaxFrames : HasPackets(f) ~> (Sent(f) \/ SpacerDone \/ ~Alive)

(* Close of the fake source returns although goroutines wait to hand over  *)
(* their rate to a loop that may have returned (fake.go 74-79).            *)
CloseEventuallyReturns == (closer = "waiting") ~> (closer = "returned")

(* The codec gets the latest rate, unless a newer one comes first, the     *)
(* source is stopped or the spacer panics (encoder.go 115-125, vpx.go      *)
(* 171-178).                                                               *)
RateReachesEncoder ==
  \A u \in 1 .. MaxUpdates :
    (/\ kind = "encoder" /\ linked /\ Len(sizes) < MaxFrames
     /\ Len(updates) = u /\ target = Reduced(updates[u]) /\ target >= 1)
      ~> (Len(updates) # u \/ used = Reduced(updates[u]) \/ canceled \/ ~Alive)
=============================================================================
