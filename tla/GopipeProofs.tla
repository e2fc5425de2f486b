---------------------------- MODULE GopipeProofs ----------------------------
(***************************************************************************)
(* The two ends of the media without GStreamer.  The sender: the packets   *)
(* reach the sink in the order in which they were made, and the spacer     *)
(* panics only if the codec returned an empty payload, for all rates,      *)
(* limits and sizes.                                                       *)
(***************************************************************************)
EXTENDS MediaSender, Depacketizer, TLAPS

(* The fake source computes the size of a frame from its rate, so the     *)
(* induction follows the rate from SetTargetRate to the frame.             *)
FrameTypes ==
  /\ kind \in {"fake", "encoder"}
  /\ updates \in Seq(Rates) /\ waiting \subseteq 1 .. Len(updates)
  /\ target \in Nat /\ sizes \in Seq(Nat)

(* The fake source never runs at less than a byte per frame.               *)
FakeFramesHavePackets ==
  kind = "fake" => target >= ByteRate /\ \A f \in DOMAIN sizes : sizes[f] > 0

FrameInv == FrameTypes /\ FakeFramesHavePackets

LEMMA ReducedIsNat ==
  ASSUME NEW r \in Nat PROVE Reduced(r) \in Nat
BY DEF Reduced

LEMMA ClampIsEnough ==
  ASSUME NEW r \in Nat PROVE Clamp(r) \in Nat /\ Clamp(r) >= ByteRate
BY ConstantsOK DEF ConstantsOK, Clamp

(* Rounding down leaves at least one, as long as the dividend does.        *)
LEMMA RoundingDown ==
  ASSUME NEW a \in Nat, NEW b \in Nat, a >= b, b > 0
  PROVE  a \div b \in Nat /\ a \div b > 0
<1> DEFINE q == a \div b
           m == a % b
<1>1. q \in Int /\ m \in 0 .. b - 1 /\ a = b * q + m
  OBVIOUS
<1>2. q > 0
  <2> SUFFICES ASSUME q <= 0 PROVE FALSE
    BY <1>1
  <2>1. b * q <= 0
    BY <1>1
  <2> QED
    BY <1>1, <2>1
<1> QED
  BY <1>1, <1>2

(* A frame of the fake source fills at least one packet. *)
LEMMA FakeSizeIsPositive ==
  ASSUME FrameInv, kind = "fake"
  PROVE  FakeSize \in Nat /\ FakeSize > 0
<1>1. target \in Nat /\ target >= ByteRate
  BY DEF FrameInv, FrameTypes, FakeFramesHavePackets
<1>2. ByteRate \in Nat /\ ByteRate > 0 /\ PacketSize \in Nat /\ PacketSize > 0
  BY ConstantsOK DEF ConstantsOK
<1> PICK bytes \in Nat : bytes = target \div ByteRate /\ bytes > 0
  BY <1>1, <1>2, RoundingDown
<1>3. bytes + PacketSize - 1 \in Nat /\ bytes + PacketSize - 1 >= PacketSize
  BY <1>2
<1> QED
  BY <1>2, <1>3, RoundingDown DEF FakeSize

THEOREM FrameInitInvariant == Init => FrameInv
BY ConstantsOK DEF ConstantsOK, Init, FrameInv, FrameTypes, FakeFramesHavePackets

(* What every frame, fake or encoded, does to the invariant. *)
LEMMA WriteKeepsFrames ==
  ASSUME FrameInv, NEW n \in Nat, kind = "fake" => n > 0, WriteFrame(n)
  PROVE  FrameInv'
<1>1. sizes' = Append(sizes, n) /\ UNCHANGED <<kind, updates, waiting, target>>
  BY DEF WriteFrame, rateVars
<1>2. FrameTypes'
  BY <1>1 DEF FrameInv, FrameTypes
<1>3. ASSUME kind = "fake", NEW f \in DOMAIN sizes' PROVE sizes'[f] > 0
  <2>1. sizes \in Seq(Nat)
    BY DEF FrameInv, FrameTypes
  <2>2. CASE f \in DOMAIN sizes
    BY <1>1, <1>3, <2>1, <2>2 DEF FrameInv, FakeFramesHavePackets
  <2>3. CASE f = Len(sizes) + 1
    BY <1>1, <1>3, <2>1, <2>3
  <2> QED
    BY <1>1, <2>1, <2>2, <2>3
<1> QED
  BY <1>1, <1>2, <1>3 DEF FrameInv, FakeFramesHavePackets

LEMMA FrameStepKeeps ==
  ASSUME FrameInv, [Next]_vars
  PROVE  FrameInv'
<1> USE DEF FrameInv
<1>1. ASSUME NEW r \in Rates, SetTargetRate(r) PROVE FrameInv'
  <2>1. r \in Nat /\ Reduced(r) \in Nat
    BY ConstantsOK, ReducedIsNat DEF ConstantsOK
  <2>2. updates' \in Seq(Rates) /\ Len(updates') = Len(updates) + 1
    BY <1>1 DEF SetTargetRate, FrameTypes
  <2>3. waiting' \subseteq 1 .. Len(updates')
    <3>1. waiting \subseteq 1 .. Len(updates) /\ Len(updates) \in Nat
      BY DEF FrameTypes
    <3>2. waiting' \subseteq waiting \cup {Len(updates) + 1}
      BY <1>1 DEF SetTargetRate, FakeSetTargetRate, EncoderSetTargetRate
    <3> QED
      BY <2>2, <3>1, <3>2
  <2>4. target' \in Nat /\ (kind = "fake" => target' = target)
    BY <1>1, <2>1 DEF SetTargetRate, FakeSetTargetRate, EncoderSetTargetRate, FrameTypes
  <2>5. UNCHANGED <<kind, sizes>>
    BY <1>1 DEF SetTargetRate, sourceVars
  <2> QED
    BY <2>2, <2>3, <2>4, <2>5 DEF FrameTypes, FakeFramesHavePackets
<1>2. ASSUME NEW i \in 1 .. MaxUpdates, TakeUpdate(i) PROVE FrameInv'
  <2>1. updates[i] \in Nat
    <3>1. updates \in Seq(Rates) /\ i \in 1 .. Len(updates)
      BY <1>2 DEF TakeUpdate, FrameTypes
    <3>2. updates[i] \in Rates
      BY <3>1
    <3> QED
      BY <3>2, ConstantsOK DEF ConstantsOK
  <2>2. target' \in Nat /\ target' >= ByteRate
    BY <1>2, <2>1, ReducedIsNat, ClampIsEnough DEF TakeUpdate
  <2> QED
    BY <1>2, <2>2 DEF TakeUpdate, FrameTypes, FakeFramesHavePackets, sourceVars
<1>3. ASSUME NEW i \in 1 .. MaxUpdates, QuitUpdate(i) PROVE FrameInv'
  BY <1>3 DEF QuitUpdate, FrameTypes, FakeFramesHavePackets, sourceVars
<1>4. CASE FakeFrame
  BY <1>4, FakeSizeIsPositive, WriteKeepsFrames DEF FakeFrame
<1>5. CASE EncodedFrame
  <2>1. PICK n \in EncodedSizes : WriteFrame(n)
    BY <1>5 DEF EncodedFrame
  <2>2. n \in Nat /\ kind = "encoder"
    BY <1>5, ConstantsOK DEF ConstantsOK, EncodedFrame
  <2> QED
    BY <2>1, <2>2, WriteKeepsFrames
<1>6. ASSUME UNCHANGED <<kind, rateVars, sizes>> PROVE FrameInv'
  BY <1>6 DEF FrameTypes, FakeFramesHavePackets, rateVars
<1>7. CASE TakeFrame
  BY <1>6, <1>7 DEF TakeFrame, sourceVars
<1>8. CASE Link \/ StartLive \/ StartLiveReturns
  BY <1>6, <1>8 DEF Link, StartLive, StartLiveReturns, sourceVars
<1>9. CASE Close \/ CloseReturns \/ Cancel \/ CloseSpacer
  BY <1>6, <1>9 DEF Close, CloseReturns, Cancel, CloseSpacer, sourceVars
<1>10. CASE BurstPacket \/ SpacedPacket
  BY <1>6, <1>10 DEF BurstPacket, SpacedPacket, WritePacket, sourceVars
<1>11. CASE FrameWritten \/ SpacerReturns
  BY <1>6, <1>11 DEF FrameWritten, SpacerReturns, sourceVars
<1>12. CASE UNCHANGED vars
  BY <1>6, <1>12 DEF vars, sourceVars
<1> QED
  BY <1>1, <1>2, <1>3, <1>4, <1>5, <1>7, <1>8, <1>9, <1>10, <1>11, <1>12
  DEF Next, FreeStep, LinkStep, CloseStep, UpdateStep, SourceStep, SpacerStep
-----------------------------------------------------------------------------
(* The order of the packets.  The queue holds the frames that were made    *)
(* last, and the spacer the rest of the frame before them; what is written *)
(* ends right before that rest.                                            *)
Pairs == Nat \X Nat

PacketTypes ==
  /\ sizes \in Seq(Nat) /\ queue \in Seq(Seq(Pairs))
  /\ payloads \in Seq(Pairs) /\ written \in Seq(Pairs)

(* How many frames the spacer has taken. *)
Taken == Len(sizes) - Len(queue)

QueueIsNext ==
  /\ Taken >= 0
  /\ \A k \in DOMAIN queue : queue[k] = Frame(Taken + k, sizes[Taken + k])

RestAtHand ==
  payloads # <<>> =>
    /\ Taken >= 1 /\ Len(payloads) <= sizes[Taken]
    /\ \A k \in DOMAIN payloads :
         payloads[k] = <<Taken, sizes[Taken] - Len(payloads) + k>>

(* Nothing is written yet, or a part of the frame at hand, or the whole of *)
(* an earlier frame after which all were empty.                            *)
NoneWritten ==
  /\ written = <<>>
  /\ \/ Taken = 0 /\ payloads = <<>>
     \/ Taken >= 1 /\ Len(payloads) = sizes[Taken] /\ EmptyUpTo(1, Taken)
InsideFrame ==
  /\ written # <<>> /\ Taken >= 1 /\ Len(payloads) < sizes[Taken]
  /\ written[Len(written)] = <<Taken, sizes[Taken] - Len(payloads)>>
BetweenFrames ==
  /\ written # <<>> /\ Taken >= 2 /\ Len(payloads) = sizes[Taken]
  /\ \E f \in 1 .. Taken - 1 :
       written[Len(written)] = <<f, sizes[f]>> /\ EmptyUpTo(f + 1, Taken)
WrittenUpToHere == NoneWritten \/ InsideFrame \/ BetweenFrames

(* The spacer looks for a frame only when it is done with the last one.    *)
DoneWhenSelecting == spacer = "select" => payloads = <<>>

OrderInv ==
  /\ PacketTypes /\ QueueIsNext /\ RestAtHand /\ WrittenUpToHere /\ DoneWhenSelecting
  /\ PacketsInOrder

(* What the steps do to the packets. *)
AddsFrame(n) ==
  /\ sizes' = Append(sizes, n) /\ queue' = Append(queue, Frame(Len(sizes) + 1, n))
  /\ UNCHANGED <<payloads, written, spacer>>
TakesFrame ==
  /\ spacer = "select" /\ queue # <<>>
  /\ payloads' = Head(queue) /\ queue' = Tail(queue) /\ spacer' # "select"
  /\ spacer' = "panicked" => Head(queue) = <<>>
  /\ UNCHANGED <<sizes, written>>
WritesPacket ==
  /\ payloads # <<>> /\ spacer # "select"
  /\ written' = Append(written, Head(payloads)) /\ payloads' = Tail(payloads)
  /\ UNCHANGED <<sizes, queue, spacer>>
LeavesPackets ==
  /\ UNCHANGED <<sizes, queue, payloads, written>>
  /\ spacer' = "select" => spacer = "select" \/ payloads = <<>>
  /\ spacer' = "panicked" => spacer = "panicked"

LEMMA MediaSteps ==
  ASSUME FrameInv, [Next]_vars
  PROVE  (\E n \in Nat : AddsFrame(n)) \/ TakesFrame \/ WritesPacket \/ LeavesPackets
<1>1. CASE \E r \in Rates : SetTargetRate(r)
  BY <1>1 DEF SetTargetRate, LeavesPackets, sourceVars, spacerVars
<1>2. CASE \E i \in 1 .. MaxUpdates : UpdateStep(i)
  BY <1>2 DEF UpdateStep, TakeUpdate, QuitUpdate, LeavesPackets, sourceVars, spacerVars
<1>3. CASE FakeFrame
  BY <1>3, FakeSizeIsPositive DEF FakeFrame, WriteFrame, HandOver, AddsFrame
<1>4. CASE EncodedFrame
  <2>1. PICK n \in EncodedSizes : WriteFrame(n)
    BY <1>4 DEF EncodedFrame
  <2>2. n \in Nat
    BY ConstantsOK DEF ConstantsOK
  <2>3. UNCHANGED written
    BY <2>1 DEF WriteFrame, HandOver
  <2> QED
    BY <2>1, <2>2, <2>3 DEF WriteFrame, HandOver, AddsFrame
<1>5. CASE TakeFrame
  BY <1>5 DEF TakeFrame, TakesFrame, sourceVars
<1>6. CASE BurstPacket \/ SpacedPacket
  BY <1>6 DEF BurstPacket, SpacedPacket, WritePacket, WritesPacket, sourceVars
<1>7. CASE FrameWritten \/ SpacerReturns
  BY <1>7 DEF FrameWritten, LeavesLoop, SpacerReturns, LeavesPackets, sourceVars
<1>8. CASE Link \/ StartLive \/ StartLiveReturns
  BY <1>8 DEF Link, StartLive, StartLiveReturns, LeavesPackets, sourceVars, spacerVars
<1>9. CASE Close \/ CloseReturns \/ Cancel \/ CloseSpacer
  BY <1>9 DEF Close, CloseReturns, Cancel, CloseSpacer, LeavesPackets, sourceVars, spacerVars
<1>10. CASE UNCHANGED vars
  BY <1>10 DEF vars, LeavesPackets, sourceVars, spacerVars
<1> QED
  BY <1>1, <1>2, <1>3, <1>4, <1>5, <1>6, <1>7, <1>8, <1>9, <1>10
  DEF Next, FreeStep, LinkStep, CloseStep, SourceStep, SpacerStep

THEOREM OrderInitInvariant == Init => OrderInv
<1> SUFFICES ASSUME Init PROVE OrderInv
  OBVIOUS
<1>1. sizes = <<>> /\ queue = <<>> /\ payloads = <<>> /\ written = <<>>
  BY DEF Init
<1> QED
  BY <1>1 DEF OrderInv, PacketTypes, QueueIsNext, RestAtHand, WrittenUpToHere, NoneWritten,
     DoneWhenSelecting, PacketsInOrder, Taken

LEMMA FrameIs ==
  ASSUME NEW f \in Nat, NEW n \in Nat
  PROVE  /\ Frame(f, n) \in Seq(Pairs) /\ Len(Frame(f, n)) = n
         /\ \A k \in 1 .. n : Frame(f, n)[k] = <<f, k>>
<1>1. Frame(f, n) \in [1 .. n -> Pairs]
  BY DEF Frame, Pairs
<1> QED
  BY <1>1 DEF Frame

(* What the invariant says of the lengths. *)
LEMMA Lengths ==
  ASSUME OrderInv
  PROVE  /\ Len(sizes) \in Nat /\ DOMAIN sizes = 1 .. Len(sizes)
         /\ Len(queue) \in Nat /\ DOMAIN queue = 1 .. Len(queue)
         /\ Len(payloads) \in Nat /\ DOMAIN payloads = 1 .. Len(payloads)
         /\ Len(written) \in Nat /\ DOMAIN written = 1 .. Len(written)
         /\ Taken \in Nat /\ Taken + Len(queue) = Len(sizes)
         /\ \A f \in 1 .. Len(sizes) : sizes[f] \in Nat
<1>1. sizes \in Seq(Nat) /\ queue \in Seq(Seq(Pairs)) /\ payloads \in Seq(Pairs)
  BY DEF OrderInv, PacketTypes
<1>2. written \in Seq(Pairs)
  BY DEF OrderInv, PacketTypes
<1>3. Len(sizes) \in Nat /\ Len(queue) \in Nat
  BY <1>1
<1>4. Taken >= 0
  BY DEF OrderInv, QueueIsNext
<1>5. Taken \in Nat /\ Taken + Len(queue) = Len(sizes)
  BY <1>3, <1>4 DEF Taken
<1>6. \A f \in 1 .. Len(sizes) : sizes[f] \in Nat
  BY <1>1
<1> QED
  BY <1>1, <1>2, <1>5, <1>6

LEMMA AddKeepsOrder ==
  ASSUME OrderInv, NEW n \in Nat, AddsFrame(n)
  PROVE  OrderInv'
<1> PICK L \in Nat : L = Len(sizes)
  BY Lengths
<1> PICK Q \in Nat : Q = Len(queue)
  BY Lengths
<1> PICK frame \in Seq(Pairs) : frame = Frame(L + 1, n)
  BY FrameIs
<1>1. L >= Q /\ Taken = L - Q /\ Taken \in Nat
  BY Lengths
<1>2. /\ sizes' \in Seq(Nat) /\ Len(sizes') = L + 1 /\ sizes'[L + 1] = n
      /\ \A f \in 1 .. L : sizes'[f] = sizes[f]
  BY DEF AddsFrame, OrderInv, PacketTypes
<1>3. /\ queue' \in Seq(Seq(Pairs)) /\ Len(queue') = Q + 1 /\ queue'[Q + 1] = frame
      /\ \A k \in 1 .. Q : queue'[k] = queue[k]
  BY DEF AddsFrame, OrderInv, PacketTypes
<1>4. Taken' = Taken
  BY <1>1, <1>2, <1>3 DEF Taken
<1>5. PacketTypes'
  <2>1. payloads' \in Seq(Pairs) /\ written' \in Seq(Pairs)
    BY DEF AddsFrame, OrderInv, PacketTypes
  <2> QED
    BY <2>1, <1>2, <1>3 DEF PacketTypes
<1>6. QueueIsNext'
  <2>1. ASSUME NEW k \in 1 .. Q + 1
        PROVE  queue'[k] = Frame(Taken + k, sizes'[Taken + k])
    <3>1. CASE k \in 1 .. Q
      <4>1. queue[k] = Frame(Taken + k, sizes[Taken + k])
        BY <3>1, Lengths DEF OrderInv, QueueIsNext
      <4>2. Taken + k \in 1 .. L
        BY <1>1, <3>1
      <4> QED
        BY <4>1, <4>2, <3>1, <1>2, <1>3
    <3>2. CASE k = Q + 1
      <4>1. Taken + k = L + 1
        BY <1>1, <3>2
      <4> QED
        BY <4>1, <3>2, <1>2, <1>3
    <3> QED
      BY <3>1, <3>2
  <2>2. DOMAIN queue' = 1 .. Q + 1
    BY <1>3
  <2> QED
    BY <2>1, <2>2, <1>1, <1>4 DEF QueueIsNext
<1> PICK t \in Nat : t = Taken /\ t <= L
  <2>1. L - Q <= L
    BY <1>1
  <2> QED
    BY <2>1, <1>1
<1>7. Taken >= 1 => sizes'[Taken] = sizes[Taken]
  <2>1. t >= 1 => t \in 1 .. L
    OBVIOUS
  <2> QED
    BY <2>1, <1>2
<1>8. UNCHANGED <<payloads, written, spacer>>
  BY DEF AddsFrame
<1>9. RestAtHand'
  BY <1>4, <1>7, <1>8 DEF OrderInv, RestAtHand
<1>10. ASSUME NEW a \in Nat, NEW b \in Nat, a >= 1, b <= L + 1
       PROVE  EmptyUpTo(a, b)' <=> EmptyUpTo(a, b)
  <2>1. \A e \in a .. b - 1 : sizes'[e] = sizes[e]
    BY <1>2, <1>10
  <2> QED
    BY <2>1 DEF EmptyUpTo
<1>11. ASSUME NEW a \in Nat, a >= 1, EmptyUpTo(a, Taken)
       PROVE  EmptyUpTo(a, Taken)'
  <2>1. EmptyUpTo(a, t)
    BY <1>11
  <2>2. EmptyUpTo(a, t)'
    BY <2>1, <1>10, <1>11
  <2> QED
    BY <2>2, <1>4 DEF EmptyUpTo
<1>12. WrittenUpToHere'
  <2>1. CASE NoneWritten
    <3>1. EmptyUpTo(1, Taken) => EmptyUpTo(1, Taken)'
      BY <1>11
    <3>2. NoneWritten'
      BY <2>1, <3>1, <1>4, <1>7, <1>8 DEF NoneWritten
    <3> QED
      BY <3>2 DEF WrittenUpToHere
  <2>2. CASE InsideFrame
    BY <2>2, <1>4, <1>7, <1>8 DEF InsideFrame, WrittenUpToHere
  <2>3. CASE BetweenFrames
    <3>1. Taken >= 2 /\ Len(payloads) = sizes[Taken] /\ written # <<>>
      BY <2>3 DEF BetweenFrames
    <3> PICK f \in 1 .. Taken - 1 :
          written[Len(written)] = <<f, sizes[f]>> /\ EmptyUpTo(f + 1, Taken)
      BY <2>3 DEF BetweenFrames
    <3>2. f \in Nat /\ f + 1 >= 1 /\ f \in 1 .. L
      BY <3>1
    <3>5. sizes'[f] = sizes[f] /\ f \in 1 .. Taken' - 1
      BY <3>2, <1>2, <1>4
    <3>3. EmptyUpTo(f + 1, Taken)'
      BY <3>2, <1>11
    <3>4. BetweenFrames'
      BY <3>1, <3>3, <3>5, <1>4, <1>7, <1>8 DEF BetweenFrames
    <3> QED
      BY <3>4 DEF WrittenUpToHere
  <2> QED
    BY <2>1, <2>2, <2>3 DEF OrderInv, WrittenUpToHere
<1>13. DoneWhenSelecting'
  BY <1>8 DEF OrderInv, DoneWhenSelecting
<1>14. PacketsInOrder'
  <2>1. ASSUME NEW p \in Pairs, Made(p)
        PROVE  Made(p)' /\ (First(p) => First(p)')
    <3>1. p[1] \in 1 .. L /\ p[1] \in DOMAIN sizes'
      BY <2>1, <1>2, Lengths DEF Made
    <3>2. EmptyUpTo(1, p[1])' <=> EmptyUpTo(1, p[1])
      BY <3>1, <1>10
    <3> QED
      BY <2>1, <3>1, <3>2, <1>2 DEF Made, First
  <2>2. ASSUME NEW p \in Pairs, Made(p), NEW q \in Pairs, Made(q), After(p, q)
        PROVE  After(p, q)'
    <3>1. p[1] \in 1 .. L /\ q[1] \in 1 .. L
      BY <2>2, Lengths DEF Made
    <3>2. sizes'[p[1]] = sizes[p[1]] /\ p[1] + 1 \in Nat
      BY <3>1, <1>2
    <3>3. EmptyUpTo(p[1] + 1, q[1])' <=> EmptyUpTo(p[1] + 1, q[1])
      BY <3>1, <3>2, <1>10
    <3> QED
      BY <2>2, <3>2, <3>3 DEF After
  <2>3. ASSUME NEW k \in DOMAIN written
        PROVE  /\ Made(written[k])'
               /\ IF k = 1 THEN First(written[k])' ELSE After(written[k - 1], written[k])'
    <3>1. written[k] \in Pairs /\ Made(written[k])
      BY DEF OrderInv, PacketTypes, PacketsInOrder
    <3>2. IF k = 1 THEN First(written[k]) ELSE After(written[k - 1], written[k])
      BY DEF OrderInv, PacketsInOrder
    <3>3. k # 1 => k - 1 \in DOMAIN written
      BY DEF OrderInv, PacketTypes
    <3>4. k # 1 => written[k - 1] \in Pairs /\ Made(written[k - 1])
      BY <3>3 DEF OrderInv, PacketTypes, PacketsInOrder
    <3>5. Made(written[k])'
      BY <2>1, <3>1, <1>8
    <3>6. CASE k = 1
      BY <2>1, <3>1, <3>2, <3>5, <3>6, <1>8
    <3>7. CASE k # 1
      BY <2>2, <3>1, <3>2, <3>4, <3>5, <3>7, <1>8
    <3> QED
      BY <3>6, <3>7
  <2> QED
    BY <2>3, <1>8 DEF PacketsInOrder
<1> QED
  BY <1>5, <1>6, <1>9, <1>13, <1>14, <1>12 DEF OrderInv

LEMMA TakeKeepsOrder ==
  ASSUME OrderInv, TakesFrame
  PROVE  OrderInv'
<1> PICK t \in Nat : t = Taken
  BY Lengths
<1>1. payloads = <<>>
  BY DEF TakesFrame, OrderInv, DoneWhenSelecting
<1>2. /\ UNCHANGED <<sizes, written>> /\ payloads' = Head(queue) /\ queue' = Tail(queue)
      /\ spacer' # "select" /\ queue # <<>>
  BY DEF TakesFrame
<1>3. /\ queue' \in Seq(Seq(Pairs)) /\ Len(queue') = Len(queue) - 1
      /\ \A k \in DOMAIN queue' : k + 1 \in DOMAIN queue /\ queue'[k] = queue[k + 1]
  BY <1>2 DEF OrderInv, PacketTypes
<1>4. Taken' = t + 1 /\ t + 1 \in DOMAIN sizes
  <2>1. Len(queue) > 0
    BY <1>2 DEF OrderInv, PacketTypes
  <2>2. t = Len(sizes) - Len(queue) /\ t + 1 \in 1 .. Len(sizes)
    <3>1. t + Len(queue) = Len(sizes) /\ Len(queue) \in Nat /\ Len(sizes) \in Nat
      BY Lengths
    <3> QED
      BY <2>1, <3>1, Z3
  <2>3. Len(sizes') = Len(sizes) /\ Len(queue') = Len(queue) - 1
    BY <1>2, <1>3
  <2>4. Len(sizes) - (Len(queue) - 1) = t + 1
    BY <2>2, Lengths
  <2>5. Taken' = t + 1
    BY <2>3, <2>4 DEF Taken
  <2> QED
    BY <2>2, <2>5, Lengths
<1>5. sizes[t + 1] \in Nat
  BY <1>4, Lengths
<1>6. payloads' = Frame(t + 1, sizes[t + 1])
  <2>1. 1 \in DOMAIN queue /\ Head(queue) = queue[1]
    BY <1>2 DEF OrderInv, PacketTypes
  <2>2. queue[1] = Frame(t + 1, sizes[t + 1])
    BY <2>1 DEF OrderInv, QueueIsNext
  <2> QED
    BY <2>1, <2>2, <1>2
<1>7. /\ payloads' \in Seq(Pairs) /\ Len(payloads') = sizes[t + 1]
      /\ \A k \in 1 .. sizes[t + 1] : payloads'[k] = <<t + 1, k>>
  <2>1. t + 1 \in Nat
    OBVIOUS
  <2> QED
    BY <2>1, <1>5, <1>6, FrameIs
<1>8. PacketTypes'
  BY <1>2, <1>3, <1>7 DEF OrderInv, PacketTypes
<1>9. QueueIsNext'
  <2>1. ASSUME NEW k \in DOMAIN queue'
        PROVE  queue'[k] = Frame(t + 1 + k, sizes[t + 1 + k])
    <3>1. k \in Nat /\ t + 1 + k = t + (k + 1)
      <4>1. k \in 1 .. Len(queue')
        BY <1>3
      <4> QED
        BY <4>1
    <3>2. queue[k + 1] = Frame(t + (k + 1), sizes[t + (k + 1)])
      BY <1>3 DEF OrderInv, QueueIsNext
    <3> QED
      BY <3>1, <3>2, <1>3
  <2> QED
    BY <2>1, <1>2, <1>4 DEF QueueIsNext
<1>10. RestAtHand'
  <2>1. ASSUME NEW k \in DOMAIN payloads'
        PROVE  payloads'[k] = <<t + 1, sizes[t + 1] - Len(payloads') + k>>
    <3>1. k \in 1 .. sizes[t + 1]
      BY <1>7
    <3>2. sizes[t + 1] - Len(payloads') + k = k
      BY <3>1, <1>5, <1>7
    <3> QED
      BY <3>1, <3>2, <1>7
  <2> QED
    BY <2>1, <1>2, <1>4, <1>5, <1>7 DEF RestAtHand
<1>11. WrittenUpToHere'
  <2>0. t + 1 >= 1 /\ t + 1 \in Nat /\ Len(payloads) = 0
    BY <1>1
  <2>1. CASE NoneWritten
    <3>1. EmptyUpTo(1, t + 1)
      BY <2>0, <2>1 DEF NoneWritten, EmptyUpTo
    <3>2. EmptyUpTo(1, t + 1)'
      BY <3>1, <1>2 DEF EmptyUpTo
    <3>3. NoneWritten'
      BY <2>0, <2>1, <3>2, <1>2, <1>4, <1>7 DEF NoneWritten
    <3> QED
      BY <3>3 DEF WrittenUpToHere
  <2>2. CASE InsideFrame
    <3>1. t >= 1 /\ written # <<>> /\ written[Len(written)] = <<t, sizes[t] - 0>>
      BY <2>2, <2>0 DEF InsideFrame
    <3>2. sizes[t] \in Nat
      BY <3>1, <1>4 DEF OrderInv, PacketTypes
    <3>3. t + 1 >= 2 /\ t \in 1 .. (t + 1) - 1 /\ sizes[t] - 0 = sizes[t]
      BY <3>1, <3>2
    <3>5. EmptyUpTo(t + 1, t + 1)'
      BY DEF EmptyUpTo
    <3>4. BetweenFrames'
      BY <3>1, <3>3, <3>5, <1>2, <1>4, <1>7 DEF BetweenFrames
    <3> QED
      BY <3>4 DEF WrittenUpToHere
  <2>3. CASE BetweenFrames
    <3>1. sizes[t] = 0 /\ t >= 2 /\ written # <<>>
      BY <2>3, <2>0 DEF BetweenFrames
    <3> PICK f \in 1 .. t - 1 :
          written[Len(written)] = <<f, sizes[f]>> /\ EmptyUpTo(f + 1, t)
      BY <2>3 DEF BetweenFrames
    <3>2. EmptyUpTo(f + 1, t + 1)'
      BY <3>1, <1>2 DEF EmptyUpTo
    <3>3. t + 1 >= 2 /\ f \in 1 .. (t + 1) - 1
      BY <3>1
    <3>4. BetweenFrames'
      BY <3>1, <3>2, <3>3, <1>2, <1>4, <1>7 DEF BetweenFrames
    <3> QED
      BY <3>4 DEF WrittenUpToHere
  <2> QED
    BY <2>1, <2>2, <2>3 DEF OrderInv, WrittenUpToHere
<1>12. DoneWhenSelecting'
  BY <1>2 DEF DoneWhenSelecting
<1>13. PacketsInOrder'
  BY <1>2 DEF OrderInv, PacketsInOrder, Made, After, First, EmptyUpTo
<1> QED
  BY <1>8, <1>9, <1>10, <1>11, <1>12, <1>13 DEF OrderInv

LEMMA Shifted ==
  ASSUME NEW a \in Int, NEW b \in Int, NEW c \in Int
  PROVE  a - (b - 1) + c = a - b + (c + 1)
OBVIOUS

LEMMA WriteKeepsOrder ==
  ASSUME OrderInv, WritesPacket
  PROVE  OrderInv'
<1> PICK t \in Nat : t = Taken
  BY Lengths
<1> PICK L \in Nat : L = Len(payloads)
  BY DEF OrderInv, PacketTypes
<1> PICK w \in Nat : w = Len(written)
  BY DEF OrderInv, PacketTypes
<1>1. /\ UNCHANGED <<sizes, queue, spacer>> /\ payloads # <<>> /\ spacer # "select"
      /\ written' = Append(written, Head(payloads)) /\ payloads' = Tail(payloads)
  BY DEF WritesPacket
<1>2. L >= 1 /\ 1 \in DOMAIN payloads /\ Head(payloads) = payloads[1]
  BY <1>1 DEF OrderInv, PacketTypes
<1>3. t >= 1 /\ t \in DOMAIN sizes
  <2>1. t >= 1
    BY <1>1 DEF OrderInv, RestAtHand
  <2> QED
    BY <2>1, Lengths
<1> PICK n \in Nat : n = sizes[t]
  BY <1>3, Lengths
<1>4. L <= n /\ \A k \in 1 .. L : payloads[k] = <<t, n - L + k>>
  BY <1>1, Lengths DEF OrderInv, RestAtHand
<1> PICK p \in Pairs : p = <<t, n - L + 1>>
  <2>1. n - L + 1 \in Nat
    BY <1>4
  <2> QED
    BY <2>1 DEF Pairs
<1>5. Head(payloads) = p
  BY <1>2, <1>4
<1>6. /\ payloads' \in Seq(Pairs) /\ Len(payloads') = L - 1
      /\ \A k \in 1 .. L - 1 : payloads'[k] = payloads[k + 1]
  BY <1>1 DEF OrderInv, PacketTypes
<1>7. /\ written' \in Seq(Pairs) /\ Len(written') = w + 1 /\ written'[w + 1] = p
      /\ \A k \in 1 .. w : written'[k] = written[k]
  BY <1>1, <1>5 DEF OrderInv, PacketTypes
<1>8. Taken' = t /\ sizes' = sizes
  BY <1>1 DEF Taken
<1>9. PacketTypes'
  BY <1>1, <1>6, <1>7 DEF OrderInv, PacketTypes
<1>10. QueueIsNext'
  BY <1>1, <1>8 DEF OrderInv, QueueIsNext
<1>11. RestAtHand'
  <2>1. ASSUME NEW k \in DOMAIN payloads'
        PROVE  payloads'[k] = <<t, n - (L - 1) + k>>
    <3>1. k \in 1 .. L - 1
      BY <1>6
    <3>3. k \in Nat /\ k + 1 \in 1 .. L
      BY <3>1
    <3>2. n - (L - 1) + k = n - L + (k + 1)
      <4>1. L \in Int /\ n \in Int /\ k \in Int
        BY <3>3
      <4> QED
        BY <4>1, Shifted, Zenon
    <3>4. payloads'[k] = payloads[k + 1] /\ payloads[k + 1] = <<t, n - L + (k + 1)>>
      BY <3>1, <3>3, <1>4, <1>6
    <3> QED
      BY <3>2, <3>4
  <2>2. L - 1 <= n
    BY <1>4
  <2> QED
    BY <2>1, <2>2, <1>3, <1>6, <1>8 DEF RestAtHand
<1>12. WrittenUpToHere'
  <2>1. written' # <<>> /\ L - 1 < n /\ n - (L - 1) = n - L + 1
    BY <1>2, <1>4, <1>7
  <2>2. InsideFrame'
    BY <2>1, <1>3, <1>6, <1>7, <1>8 DEF InsideFrame
  <2> QED
    BY <2>2 DEF WrittenUpToHere
<1>13. DoneWhenSelecting'
  BY <1>1 DEF DoneWhenSelecting
<1>14. PacketsInOrder'
  <2>1. Made(p)
    BY <1>2, <1>3, <1>4 DEF Made
  <2>2. IF w = 0 THEN First(p) ELSE After(written[w], p)
    <3>1. CASE NoneWritten
      <4>1. w = 0 /\ L = n /\ EmptyUpTo(1, t)
        BY <3>1, <1>3, <1>1 DEF NoneWritten
      <4> QED
        BY <4>1 DEF First
    <3>2. CASE InsideFrame
      <4>1. w # 0 /\ written[w] = <<t, n - L>> /\ L < n
        BY <3>2 DEF InsideFrame, OrderInv, PacketTypes
      <4>2. n - L < n
        BY <1>2
      <4> QED
        BY <4>1, <4>2 DEF After
    <3>3. CASE BetweenFrames
      <4>1. w # 0 /\ L = n
        BY <3>3 DEF BetweenFrames, OrderInv, PacketTypes
      <4> PICK f \in 1 .. t - 1 : written[w] = <<f, sizes[f]>> /\ EmptyUpTo(f + 1, t)
        BY <3>3 DEF BetweenFrames
      <4>2. n - L + 1 = 1 /\ t > f
        BY <4>1
      <4> QED
        BY <4>1, <4>2 DEF After
    <3> QED
      BY <3>1, <3>2, <3>3 DEF OrderInv, WrittenUpToHere
  <2>4. ASSUME NEW k \in 1 .. w + 1
        PROVE  /\ Made(written'[k])
               /\ IF k = 1 THEN First(written'[k]) ELSE After(written'[k - 1], written'[k])
    <3>1. CASE k \in 1 .. w
      <4>1. k \in DOMAIN written /\ (k # 1 => k - 1 \in 1 .. w)
        BY <3>1 DEF OrderInv, PacketTypes
      <4>2. /\ Made(written[k])
            /\ IF k = 1 THEN First(written[k]) ELSE After(written[k - 1], written[k])
        BY <4>1 DEF OrderInv, PacketsInOrder
      <4> QED
        BY <4>1, <4>2, <3>1, <1>7
    <3>2. CASE k = w + 1
      <4>1. w # 0 => written'[w] = written[w]
        BY <1>7
      <4>2. k - 1 = w /\ (k = 1 <=> w = 0)
        BY <3>2
      <4>3. written'[k] = p
        BY <3>2, <1>7
      <4>4. CASE w = 0
        BY <4>2, <4>3, <4>4, <2>1, <2>2
      <4>5. CASE w # 0
        BY <4>1, <4>2, <4>3, <4>5, <2>1, <2>2
      <4> QED
        BY <4>4, <4>5
    <3> QED
      BY <3>1, <3>2
  <2>5. DOMAIN written' = 1 .. w + 1
    BY <1>7
  <2> QED
    BY <2>4, <2>5, <1>8 DEF PacketsInOrder, Made, After, First, EmptyUpTo
<1> QED
  BY <1>9, <1>10, <1>11, <1>12, <1>13, <1>14 DEF OrderInv

LEMMA OrderStepKeeps ==
  ASSUME FrameInv, OrderInv, [Next]_vars
  PROVE  OrderInv'
<1>1. CASE LeavesPackets
  <2>1. UNCHANGED <<sizes, queue, payloads, written>> /\ Taken' = Taken
    BY <1>1 DEF LeavesPackets, Taken
  <2>2. PacketTypes' /\ QueueIsNext' /\ RestAtHand'
    BY <2>1 DEF OrderInv, PacketTypes, QueueIsNext, RestAtHand
  <2>3. WrittenUpToHere'
    BY <2>1 DEF OrderInv, WrittenUpToHere, NoneWritten, InsideFrame, BetweenFrames, EmptyUpTo
  <2>4. PacketsInOrder'
    BY <2>1 DEF OrderInv, PacketsInOrder, Made, After, First, EmptyUpTo
  <2>5. DoneWhenSelecting'
    BY <1>1 DEF OrderInv, DoneWhenSelecting, LeavesPackets
  <2> QED
    BY <2>2, <2>3, <2>4, <2>5 DEF OrderInv
<1> QED
  BY <1>1, MediaSteps, AddKeepsOrder, TakeKeepsOrder, WriteKeepsOrder

(* The packets of all frames reach the sink in the order in which they     *)
(* were made, with no hole and none twice (frame_spacer.go 53-90).         *)
THEOREM PacketsStayInOrder == Spec => []PacketsInOrder
<1>1. OrderInv => PacketsInOrder
  BY DEF OrderInv
<1>2. FrameInv /\ OrderInv /\ [Next]_vars => FrameInv' /\ OrderInv'
  BY FrameStepKeeps, OrderStepKeeps
<1> QED
  BY FrameInitInvariant, OrderInitInvariant, <1>1, <1>2, PTL DEF Spec

(* The spacer panics over a frame of its queue, which is one that the      *)
(* source made without packets.                                            *)
LEMMA PanicStep ==
  ASSUME FrameInv, OrderInv, PanicsOnEmptyPayload, [Next]_vars
  PROVE  PanicsOnEmptyPayload'
<1>1. kind' = kind
  BY DEF Next, FreeStep, LinkStep, CloseStep, UpdateStep, SourceStep, SpacerStep, SetTargetRate,
     TakeUpdate, QuitUpdate, Link, StartLive, FakeFrame, EncodedFrame, WriteFrame,
     StartLiveReturns, TakeFrame, BurstPacket, SpacedPacket, WritePacket, FrameWritten,
     SpacerReturns, Close, CloseReturns, Cancel, CloseSpacer, vars
<1>2. CASE spacer' = "panicked" => spacer = "panicked"
  <2>1. ASSUME NEW f \in DOMAIN sizes, sizes[f] = 0
        PROVE  f \in DOMAIN sizes' /\ sizes'[f] = 0
    <3>1. sizes \in Seq(Nat)
      BY DEF OrderInv, PacketTypes
    <3>2. sizes' = sizes \/ \E n \in Nat : sizes' = Append(sizes, n)
      BY MediaSteps DEF AddsFrame, TakesFrame, WritesPacket, LeavesPackets
    <3> QED
      BY <2>1, <3>1, <3>2
  <2> QED
    BY <1>1, <1>2, <2>1 DEF PanicsOnEmptyPayload
<1>3. CASE TakesFrame /\ Head(queue) = <<>>
  <2>1. queue \in Seq(Seq(Pairs)) /\ queue # <<>> /\ sizes' = sizes
    BY <1>3 DEF OrderInv, PacketTypes, TakesFrame
  <2> PICK f \in Nat : f = Taken + 1
    BY Lengths
  <2>2. 1 \in DOMAIN queue /\ f \in DOMAIN sizes /\ sizes[f] \in Nat
    <3>1. Len(queue) >= 1
      BY <2>1
    <3>2. f \in 1 .. Len(sizes)
      BY <3>1, Lengths
    <3> QED
      BY <3>1, <3>2, Lengths
  <2>3. Frame(f, sizes[f]) = <<>>
    BY <1>3, <2>1, <2>2 DEF OrderInv, QueueIsNext
  <2>4. sizes[f] = 0
    BY <2>2, <2>3, FrameIs
  <2> QED
    BY <1>1, <2>1, <2>2, <2>4
    DEF FrameInv, FrameTypes, FakeFramesHavePackets, PanicsOnEmptyPayload
<1> QED
  BY <1>2, <1>3, MediaSteps DEF AddsFrame, TakesFrame, WritesPacket, LeavesPackets

(* The spacer never panics over a frame of the fake source, whatever rates *)
(* the estimator computes and wherever the limits lie, and over one of the *)
(* encoder only if the codec returned an empty payload (frame_spacer.go    *)
(* 67-70, fake.go 105-122).                                                *)
THEOREM SpacerPanicsOnEmptyPayload == Spec => []PanicsOnEmptyPayload
<1>1. Init => PanicsOnEmptyPayload
  BY DEF Init, PanicsOnEmptyPayload
<1>2. FrameInv /\ OrderInv /\ PanicsOnEmptyPayload /\ [Next]_vars
        => FrameInv' /\ OrderInv' /\ PanicsOnEmptyPayload'
  BY FrameStepKeeps, OrderStepKeeps, PanicStep
<1> QED
  BY FrameInitInvariant, OrderInitInvariant, <1>1, <1>2, PTL DEF Spec
-----------------------------------------------------------------------------
(* The depacketizer.  Sequence numbers are unique among the packets and    *)
(* the number after them, and NextHead counts on from one to the next.     *)
LEMMA SameRemainder ==
  ASSUME NEW m \in Nat, m > 0, NEW a \in Int, NEW b \in Int,
         NEW r \in 0 .. m - 1, NEW s \in 0 .. m - 1, m * a + r = m * b + s
  PROVE  r = s /\ a = b
<1>1. CASE a < b
  <2>1. m * (a + 1) <= m * b
    BY <1>1
  <2> QED
    BY <2>1
<1>2. CASE b < a
  <2>1. m * (b + 1) <= m * a
    BY <1>2
  <2> QED
    BY <2>1
<1> QED
  BY <1>1, <1>2

LEMMA SeqNrDivision ==
  ASSUME NEW i \in Nat
  PROVE  /\ SeqNr(i) \in 0 .. Modulus - 1
         /\ \E q \in Int : FirstSeq + i = Modulus * q + SeqNr(i)
<1> DEFINE n == FirstSeq + i
<1>1. n \in Nat /\ Modulus \in Nat /\ Modulus > 0
  BY StreamOK DEF StreamOK
<1>2. /\ n % Modulus \in 0 .. Modulus - 1 /\ n \div Modulus \in Int
      /\ n = Modulus * (n \div Modulus) + (n % Modulus)
  BY <1>1
<1> QED
  BY <1>2 DEF SeqNr

LEMMA SeqNrInjective ==
  ASSUME NEW i \in 0 .. Packets, NEW j \in 0 .. Packets, SeqNr(i) = SeqNr(j)
  PROVE  i = j
<1>0. Packets \in Nat /\ Modulus \in Nat /\ Modulus > Packets /\ FirstSeq \in Nat
  BY StreamOK DEF StreamOK
<1>. i \in Nat /\ j \in Nat
  BY <1>0
<1>1. PICK a \in Int : FirstSeq + i = Modulus * a + SeqNr(i)
  BY <1>0, SeqNrDivision
<1>2. PICK b \in Int : FirstSeq + j = Modulus * b + SeqNr(j)
  BY <1>0, SeqNrDivision
<1>3. SeqNr(i) \in 0 .. Modulus - 1
  BY <1>0, SeqNrDivision
<1> PICK s \in 0 .. Modulus - 1 : s = SeqNr(i)
  BY <1>3
<1>4. FirstSeq + i = Modulus * a + s /\ FirstSeq + j = Modulus * b + s
  BY <1>1, <1>2
<1>5. CASE a < b
  <2>1. Modulus * (a + 1) <= Modulus * b
    BY <1>0, <1>5
  <2> QED
    BY <1>0, <1>4, <2>1
<1>6. CASE b < a
  <2>1. Modulus * (b + 1) <= Modulus * a
    BY <1>0, <1>6
  <2> QED
    BY <1>0, <1>4, <2>1
<1> QED
  BY <1>0, <1>4, <1>5, <1>6

LEMMA NextRemainder ==
  ASSUME NEW m \in Nat, m > 0, NEW n \in Nat, NEW a \in Int, NEW b \in Int, NEW c \in Int,
         NEW s \in 0 .. m - 1, NEW t \in 0 .. m - 1, NEW u \in 0 .. m - 1, NEW h \in 0 .. m - 1,
         n = m * a + s, n + 1 = m * b + t, h + 1 = m * c + u
  PROVE  u = t <=> h = s
<1>1. a + c \in Int /\ m * (a + c) = m * a + m * c
  OBVIOUS
<1>2. ASSUME h = s PROVE u = t
  <2>1. m * (a + c) + u = m * b + t
    BY <1>1, <1>2
  <2> QED
    BY <1>1, <2>1, SameRemainder
<1>3. ASSUME u = t PROVE h = s
  <2>1. m * (a + c) + s = m * b + h
    BY <1>1, <1>3
  <2> QED
    BY <1>1, <2>1, SameRemainder
<1> QED
  BY <1>2, <1>3

LEMMA SeqNrNext ==
  ASSUME NEW i \in Nat, NEW h \in 0 .. Modulus - 1
  PROVE  (h + 1) % Modulus = SeqNr(i + 1) <=> h = SeqNr(i)
<1>0. Modulus \in Nat /\ Modulus > 0 /\ FirstSeq \in Nat /\ i + 1 \in Nat
  BY StreamOK DEF StreamOK
<1>1. PICK a \in Int : FirstSeq + i = Modulus * a + SeqNr(i)
  BY <1>0, SeqNrDivision
<1>2. PICK b \in Int : FirstSeq + (i + 1) = Modulus * b + SeqNr(i + 1)
  BY <1>0, SeqNrDivision
<1>3. /\ SeqNr(i) \in 0 .. Modulus - 1 /\ SeqNr(i + 1) \in 0 .. Modulus - 1
  BY <1>0, SeqNrDivision
<1>4. /\ (h + 1) % Modulus \in 0 .. Modulus - 1 /\ (h + 1) \div Modulus \in Int
      /\ h + 1 = Modulus * ((h + 1) \div Modulus) + ((h + 1) % Modulus)
  BY <1>0
<1>5. FirstSeq + i \in Nat /\ (FirstSeq + i) + 1 = Modulus * b + SeqNr(i + 1)
  BY <1>0, <1>2
<1> DEFINE n == FirstSeq + i
           s == SeqNr(i)
           t == SeqNr(i + 1)
           u == (h + 1) % Modulus
           c == (h + 1) \div Modulus
<1>6. /\ n \in Nat /\ c \in Int
      /\ s \in 0 .. Modulus - 1 /\ t \in 0 .. Modulus - 1 /\ u \in 0 .. Modulus - 1
      /\ n = Modulus * a + s /\ n + 1 = Modulus * b + t /\ h + 1 = Modulus * c + u
  BY <1>1, <1>3, <1>4, <1>5
<1> HIDE DEF n, s, t, u, c
<1>7. u = t <=> h = s
  BY <1>0, <1>6, NextRemainder
<1> QED
  BY <1>7 DEF s, t, u

(* The packets of a frame follow each other, and the marker is on the last. *)
LEMMA FrameRanges ==
  ASSUME NEW i \in Packet
  PROVE  /\ i \in Nat /\ FrameOf[i] \in Frames /\ FrameOf[i] > 0 /\ FrameOf[i] \in 0 .. Packets
         /\ i + 1 \in 0 .. Packets
         /\ \A j \in Packet : i <= j => FrameOf[i] <= FrameOf[j]
         /\ ~Marker(i) => i + 1 \in PacketsOf(FrameOf[i])
         /\ Marker(i) => \A j \in PacketsOf(FrameOf[i]) : j <= i
         /\ Marker(i) => \A j \in Packet : i < j => FrameOf[i] < FrameOf[j]
<1>0. /\ Packets \in Nat /\ FrameOf \in [Packet -> 1 .. Packets]
      /\ \A j, k \in Packet : j <= k => FrameOf[j] <= FrameOf[k]
  BY StreamOK DEF StreamOK
<1>1. i \in Nat /\ FrameOf[i] \in Frames /\ FrameOf[i] \in 1 .. Packets /\ i + 1 \in 0 .. Packets
  BY <1>0 DEF Packet, Frames
<1>2. ~Marker(i) => i + 1 \in PacketsOf(FrameOf[i])
  BY <1>0, <1>1 DEF Marker, Packet, PacketsOf
<1>3. ASSUME Marker(i), NEW j \in Packet, i < j PROVE FrameOf[i] < FrameOf[j]
  <2>1. i + 1 \in Packet /\ i + 1 <= j /\ i <= i + 1
    BY <1>0, <1>1, <1>3 DEF Packet
  <2>2. FrameOf[i] <= FrameOf[i + 1] /\ FrameOf[i + 1] <= FrameOf[j] /\ FrameOf[i] # FrameOf[i + 1]
    BY <1>0, <1>3, <2>1 DEF Marker, Packet
  <2>3. FrameOf[i + 1] \in Nat /\ FrameOf[i] \in Nat /\ FrameOf[j] \in Nat
    BY <1>0, <2>1
  <2> QED
    BY <2>2, <2>3
<1>4. ASSUME Marker(i), NEW j \in PacketsOf(FrameOf[i]) PROVE j <= i
  <2>1. j \in Packet /\ FrameOf[j] = FrameOf[i] /\ j \in Nat
    BY DEF PacketsOf, Packet
  <2>2. ~(FrameOf[i] < FrameOf[j])
    BY <1>1, <2>1
  <2> QED
    BY <1>1, <1>3, <1>4, <2>1, <2>2
<1> QED
  BY <1>0, <1>1, <1>2, <1>3, <1>4

LEMMA FramesAreRuns ==
  ASSUME NEW f, NEW i \in PacketsOf(f), NEW j \in PacketsOf(f), i < j
  PROVE  j - 1 \in PacketsOf(f)
<1>1. i \in Packet /\ j \in Packet /\ FrameOf[i] = f /\ FrameOf[j] = f
  BY DEF PacketsOf
<1>2. j - 1 \in Packet /\ i <= j - 1 /\ j - 1 <= j
  BY <1>1, StreamOK DEF Packet, StreamOK
<1>3. FrameOf[i] <= FrameOf[j - 1] /\ FrameOf[j - 1] <= FrameOf[j]
  BY <1>1, <1>2, StreamOK DEF StreamOK
<1>4. FrameOf[j - 1] \in Nat /\ FrameOf[i] \in Nat
  BY <1>1, <1>2, FrameRanges DEF Frames
<1> QED
  BY <1>1, <1>2, <1>3, <1>4 DEF PacketsOf
-----------------------------------------------------------------------------
(* What playout does, as far as the frames depend on it. *)
Played == popped \cup skipped
Records == [pts : Frames, packets : Seq(Packet)]

PlayTypes ==
  /\ buffer \subseteq Packet /\ head \in 0 .. Modulus - 1
  /\ frameBuffer \in Seq(Packet) /\ playoutTs \in 0 .. Packets
  /\ arrived \subseteq Packet /\ popped \subseteq arrived
  /\ skipped \subseteq Packet /\ late \subseteq arrived /\ first \in Packet
  /\ delivered \in Seq(Records)

ControlTypes ==
  /\ emitting \in BOOLEAN /\ trigger \in BOOLEAN /\ fastSkip \in BOOLEAN
  /\ closed \in BOOLEAN /\ droppingFrame \in BOOLEAN
  /\ missedPacketTime \in {"nil", "running", "expired"}
  /\ writer \in {"push", "signal"} /\ runner \in Runner

NothingPlayed == Played = {} /\ frameBuffer = <<>> /\ delivered = <<>>

PlayInv ==
  /\ PlayTypes
  /\ buffer = arrived \ popped
  /\ ~emitting => NothingPlayed
  /\ arrived = {} => ~emitting
  /\ runner = "missing" => emitting /\ buffer # {}
  /\ playoutTs # 0 => \E j \in popped : FrameOf[j] = playoutTs
  /\ \A k \in DOMAIN delivered :
       \E j \in popped : Marker(j) /\ FrameOf[j] = delivered[k].pts
  /\ \A i \in arrived \ late : first <= i

(* The steps, without what only decides when they happen. *)
Pushes(i) ==
  /\ i \notin arrived /\ buffer' = buffer \cup {i} /\ arrived' = arrived \cup {i}
  /\ head' = IF ~emitting /\ buffer = {} THEN SeqNr(i) ELSE head
  /\ emitting => emitting'
  /\ first' = IF arrived = {} THEN i ELSE first
  /\ late' = IF i < first' \/ \E j \in Played : i <= j THEN late \cup {i} ELSE late
  /\ UNCHANGED <<frameBuffer, playoutTs, runner, droppingFrame, popped, skipped, delivered>>
Skips ==
  /\ runner = "missing" /\ head' = NextHead /\ frameBuffer' = <<>>
  /\ skipped' = skipped \cup {i \in Packet : SeqNr(i) = head}
  /\ late' = late \cup AtHead /\ runner' # "missing"
  /\ UNCHANGED <<buffer, emitting, playoutTs, first, arrived, popped, delivered>>
Delivers(i) == Marker(i) /\ ~StillDropping(i)
Pops(i) ==
  /\ i \in buffer /\ SeqNr(i) = head /\ emitting
  /\ buffer' = buffer \ {i} /\ popped' = popped \cup {i} /\ head' = NextHead
  /\ playoutTs' = FrameOf[i] /\ frameBuffer' = Collected(i)
  /\ droppingFrame' => StillDropping(i)
  /\ IF Delivers(i)
     THEN delivered' = Append(delivered, [pts |-> FrameOf[i], packets |-> Collected(i)])
     ELSE UNCHANGED delivered
  /\ runner' # "missing"
  /\ UNCHANGED <<emitting, first, arrived, skipped, late>>
Idles ==
  /\ UNCHANGED <<bufferVars, frameBuffer, playoutTs, historyVars>>
  /\ droppingFrame' => droppingFrame
  /\ runner' = "missing" => runner = "missing" \/ (emitting /\ buffer # {})

LEMMA PlaySteps ==
  ASSUME [DepacketizerNext]_depacketizerVars
  PROVE  \/ \E i \in Packet : Pushes(i)
         \/ Skips
         \/ \E i \in Packet : Pops(i)
         \/ Idles
<1>1. ASSUME NEW i \in Packet, Push(i) PROVE Pushes(i)
  BY <1>1 DEF Push, Pushes, Played
<1>2. CASE SkipMissing
  BY <1>2 DEF SkipMissing, Skips
<1>3. ASSUME NEW i \in Packet, PopPacket(i) PROVE Pops(i)
  BY <1>3 DEF PopPacket, Pops, AtHead, Delivers, FrameTimestamp
<1>4. CASE Drained \/ StillBuffering \/ WaitForMissing \/ Return
  BY <1>4 DEF Drained, StillBuffering, WaitForMissing, Return, Idles
<1>5. CASE HeadMissing
  BY <1>5 DEF HeadMissing, Idles
<1>6. CASE Signal \/ RunTriggered
  BY <1>6 DEF Signal, RunTriggered, Idles
<1>7. CASE TimeoutPasses \/ CloseDepacketizer \/ RunReturns
  BY <1>7 DEF TimeoutPasses, CloseDepacketizer, RunReturns, Idles
<1>8. CASE UNCHANGED depacketizerVars
  BY <1>8 DEF depacketizerVars, Idles
<1> QED
  BY <1>1, <1>2, <1>3, <1>4, <1>5, <1>6, <1>7, <1>8 DEF DepacketizerNext, ProcessPackets

LEMMA CollectedIsSeq ==
  ASSUME PlayTypes, NEW i \in Packet
  PROVE  Collected(i) \in Seq(Packet)
<1>1. frameBuffer \in Seq(Packet)
  BY DEF PlayTypes
<1>2. <<i>> \in Seq(Packet) /\ Append(frameBuffer, i) \in Seq(Packet)
  BY <1>1
<1> QED
  BY <1>2 DEF Collected

LEMMA NextHeadIsNumber == NextHead \in 0 .. Modulus - 1 \/ head \notin Nat
<1>1. Modulus \in Nat /\ Modulus > 0
  BY StreamOK DEF StreamOK
<1> QED
  BY <1>1 DEF NextHead

LEMMA PlayInit == DepacketizerInit => PlayInv
<1> SUFFICES ASSUME DepacketizerInit PROVE PlayInv
  OBVIOUS
<1>1. 0 \in Packet /\ Packets \in Nat /\ 0 \in 0 .. Modulus - 1
  BY StreamOK DEF StreamOK, Packet
<1>2. PlayTypes
  BY <1>1 DEF DepacketizerInit, PlayTypes
<1> QED
  BY <1>2 DEF DepacketizerInit, PlayInv, NothingPlayed, Played

LEMMA PlayPush ==
  ASSUME PlayInv, NEW i \in Packet, Pushes(i)
  PROVE  PlayInv'
<1>1. PlayTypes'
  <2>1. SeqNr(i) \in 0 .. Modulus - 1
    BY FrameRanges, SeqNrDivision
  <2>2. head' \in 0 .. Modulus - 1
    BY <2>1 DEF Pushes, PlayInv, PlayTypes
  <2>3. first' \in Packet /\ late' \subseteq arrived'
    BY DEF Pushes, PlayInv, PlayTypes
  <2> QED
    BY <2>2, <2>3 DEF Pushes, PlayInv, PlayTypes
<1>2. buffer' = arrived' \ popped'
  BY DEF Pushes, PlayInv, PlayTypes
<1>3. ~emitting' => NothingPlayed'
  BY DEF Pushes, PlayInv, NothingPlayed, Played
<1>4. arrived' # {} /\ buffer' # {} /\ runner' = runner
  BY DEF Pushes
<1>5. playoutTs' # 0 => \E j \in popped' : FrameOf[j] = playoutTs'
  BY DEF Pushes, PlayInv
<1>6. \A k \in DOMAIN delivered' : \E j \in popped' : Marker(j) /\ FrameOf[j] = delivered'[k].pts
  BY DEF Pushes, PlayInv
<1>7. \A j \in arrived' \ late' : first' <= j
  <2>1. CASE arrived = {}
    BY <2>1, FrameRanges DEF Pushes
  <2>2. CASE arrived # {}
    <3>1. first' = first /\ late \subseteq late'
      BY <2>2 DEF Pushes
    <3>2. i \notin late' => ~(i < first)
      BY <3>1 DEF Pushes
    <3>3. i \in Nat /\ first \in Nat
      BY FrameRanges DEF PlayInv, PlayTypes
    <3>4. \A j \in arrived' \ late' : j = i \/ j \in arrived \ late
      BY <3>1 DEF Pushes
    <3>5. i \notin late' => first <= i
      BY <3>2, <3>3
    <3> QED
      BY <3>1, <3>4, <3>5 DEF PlayInv
  <2> QED
    BY <2>1, <2>2
<1>8. runner' = "missing" => emitting'
  BY <1>4 DEF Pushes, PlayInv
<1> QED
  BY <1>1, <1>2, <1>3, <1>4, <1>5, <1>6, <1>7, <1>8 DEF PlayInv

LEMMA PlaySkip ==
  ASSUME PlayInv, Skips
  PROVE  PlayInv'
<1>1. PlayTypes'
  <2>1. head \in Nat
    BY DEF PlayInv, PlayTypes
  <2>2. head' \in 0 .. Modulus - 1
    BY <2>1, NextHeadIsNumber DEF Skips
  <2>3. late' \subseteq arrived'
    BY DEF Skips, PlayInv, PlayTypes, AtHead
  <2>4. frameBuffer' \in Seq(Packet)
    BY DEF Skips
  <2> QED
    BY <2>2, <2>3, <2>4 DEF Skips, PlayInv, PlayTypes
<1>2. emitting' /\ arrived' # {}
  BY DEF Skips, PlayInv
<1>3. late \subseteq late'
  BY DEF Skips
<1>4. \A i \in arrived' \ late' : first' <= i
  BY <1>3 DEF Skips, PlayInv
<1>5. /\ buffer' = arrived' \ popped'
      /\ playoutTs' # 0 => \E j \in popped' : FrameOf[j] = playoutTs'
      /\ \A k \in DOMAIN delivered' :
           \E j \in popped' : Marker(j) /\ FrameOf[j] = delivered'[k].pts
  BY DEF Skips, PlayInv
<1>6. runner' # "missing"
  BY DEF Skips
<1> QED
  BY <1>1, <1>2, <1>4, <1>5, <1>6 DEF PlayInv

(* Pop appends at most one record, of the frame of the packet. *)
LEMMA PopDelivers ==
  ASSUME PlayTypes, NEW i \in Packet, Pops(i)
  PROVE  /\ delivered' \in Seq(Records)
         /\ ~Delivers(i) => delivered' = delivered
         /\ Delivers(i) =>
              /\ DOMAIN delivered = 1 .. Len(delivered) /\ Len(delivered) \in Nat
              /\ DOMAIN delivered' = 1 .. Len(delivered) + 1
              /\ Len(delivered') = Len(delivered) + 1
              /\ \A k \in 1 .. Len(delivered) : delivered'[k] = delivered[k]
              /\ delivered'[Len(delivered) + 1].pts = FrameOf[i]
              /\ delivered'[Len(delivered) + 1].packets = Collected(i)
<1>1. ~Delivers(i) => delivered' = delivered
  BY DEF Pops
<1> PICK c \in Seq(Packet) : c = Collected(i)
  BY CollectedIsSeq
<1> PICK r \in Records : r = [pts |-> FrameOf[i], packets |-> c]
  BY FrameRanges DEF Records
<1>2. delivered \in Seq(Records)
  BY DEF PlayTypes
<1>3. Delivers(i) => delivered' = Append(delivered, r)
  BY DEF Pops
<1>4. /\ Append(delivered, r) \in Seq(Records)
      /\ Len(Append(delivered, r)) = Len(delivered) + 1
      /\ DOMAIN delivered = 1 .. Len(delivered) /\ Len(delivered) \in Nat
      /\ DOMAIN Append(delivered, r) = 1 .. Len(delivered) + 1
      /\ \A k \in 1 .. Len(delivered) : Append(delivered, r)[k] = delivered[k]
      /\ Append(delivered, r)[Len(delivered) + 1] = r
  BY <1>2
<1>5. r.pts = FrameOf[i] /\ r.packets = Collected(i)
  OBVIOUS
<1> QED
  BY <1>1, <1>2, <1>3, <1>4, <1>5

LEMMA PlayPop ==
  ASSUME PlayInv, NEW i \in Packet, Pops(i)
  PROVE  PlayInv'
<1>0. PlayTypes /\ i \in arrived /\ i \notin popped /\ popped \subseteq popped' /\ i \in popped'
  BY DEF PlayInv, PlayTypes, Pops
<1>1. PlayTypes'
  <2>1. head \in Nat
    BY <1>0 DEF PlayTypes
  <2>2. head' \in 0 .. Modulus - 1
    BY <2>1, NextHeadIsNumber DEF Pops
  <2>3. frameBuffer' \in Seq(Packet) /\ playoutTs' \in 0 .. Packets
    BY <1>0, CollectedIsSeq, FrameRanges DEF Pops
  <2>4. delivered' \in Seq(Records)
    BY <1>0, PopDelivers
  <2>5. /\ buffer' \subseteq Packet /\ arrived' \subseteq Packet /\ popped' \subseteq arrived'
        /\ skipped' \subseteq Packet /\ late' \subseteq arrived' /\ first' \in Packet
    BY <1>0 DEF Pops, PlayTypes
  <2> QED
    BY <2>2, <2>3, <2>4, <2>5 DEF PlayTypes
<1>2. buffer' = arrived' \ popped' /\ arrived' # {} /\ emitting' /\ runner' # "missing"
  BY <1>0 DEF Pops, PlayInv
<1>3. \E j \in popped' : FrameOf[j] = playoutTs'
  BY DEF Pops
<1>4. \A k \in DOMAIN delivered' : \E j \in popped' : Marker(j) /\ FrameOf[j] = delivered'[k].pts
  <2>1. \A k \in DOMAIN delivered : \E j \in popped' : Marker(j) /\ FrameOf[j] = delivered[k].pts
    BY <1>0 DEF PlayInv
  <2>2. CASE ~Delivers(i)
    BY <1>0, <2>1, <2>2, PopDelivers
  <2>3. CASE Delivers(i)
    <3>1. Marker(i)
      BY <2>3 DEF Delivers
    <3>2. ASSUME NEW k \in DOMAIN delivered'
          PROVE  \E j \in popped' : Marker(j) /\ FrameOf[j] = delivered'[k].pts
      <4>1. CASE k \in DOMAIN delivered
        BY <4>1, <1>0, <2>1, <2>3, PopDelivers
      <4>2. CASE k = Len(delivered) + 1
        BY <4>2, <3>1, <1>0, <2>3, PopDelivers
      <4> QED
        BY <4>1, <4>2, <1>0, <2>3, PopDelivers
    <3> QED
      BY <3>2
  <2> QED
    BY <2>2, <2>3
<1>5. \A j \in arrived' \ late' : first' <= j
  BY DEF Pops, PlayInv
<1> QED
  BY <1>1, <1>2, <1>3, <1>4, <1>5 DEF PlayInv

LEMMA PlayStep ==
  ASSUME PlayInv, [DepacketizerNext]_depacketizerVars
  PROVE  PlayInv'
<1>1. CASE Idles
  <2>1. PlayTypes'
    BY <1>1 DEF Idles, PlayInv, PlayTypes, bufferVars, historyVars
  <2>2. ~emitting' => NothingPlayed'
    BY <1>1 DEF Idles, PlayInv, NothingPlayed, Played, bufferVars, historyVars
  <2> QED
    BY <1>1, <2>1, <2>2 DEF Idles, PlayInv, bufferVars, historyVars
<1> QED
  BY <1>1, PlaySteps, PlayPush, PlaySkip, PlayPop

LEMMA ControlStep ==
  ASSUME ControlTypes, [DepacketizerNext]_depacketizerVars
  PROVE  ControlTypes'
<1> USE DEF ControlTypes, Runner
<1>1. ASSUME NEW i \in Packet, Push(i) PROVE ControlTypes'
  BY <1>1 DEF Push
<1>2. CASE SkipMissing
  BY <1>2 DEF SkipMissing, SkipMode
<1>3. ASSUME NEW i \in Packet, PopPacket(i) PROVE ControlTypes'
  BY <1>3 DEF PopPacket, StillDropping
<1>4. CASE Drained \/ StillBuffering \/ WaitForMissing \/ Return
  BY <1>4 DEF Drained, StillBuffering, WaitForMissing, Return, bufferVars
<1>5. CASE HeadMissing
  BY <1>5 DEF HeadMissing, bufferVars
<1>6. CASE Signal \/ RunTriggered
  BY <1>6 DEF Signal, RunTriggered, bufferVars
<1>7. CASE TimeoutPasses \/ CloseDepacketizer \/ RunReturns
  BY <1>7 DEF TimeoutPasses, CloseDepacketizer, RunReturns, bufferVars
<1>8. CASE UNCHANGED depacketizerVars
  BY <1>8 DEF depacketizerVars, bufferVars
<1> QED
  BY <1>1, <1>2, <1>3, <1>4, <1>5, <1>6, <1>7, <1>8 DEF DepacketizerNext, ProcessPackets

(* The types of the depacketizer, for any number of packets and frames.    *)
THEOREM DepacketizerTypeCorrect == DepacketizerSpec => []TypeOK
<1>1. DepacketizerInit => ControlTypes
  BY DEF DepacketizerInit, ControlTypes, Runner
<1>2. PlayInv /\ ControlTypes => TypeOK
  <2> SUFFICES ASSUME PlayTypes, ControlTypes PROVE TypeOK
    BY DEF PlayInv
  <2>1. PlayTypes => /\ buffer \subseteq Packet /\ head \in 0 .. Modulus - 1
                     /\ frameBuffer \in Seq(Packet) /\ playoutTs \in 0 .. Packets
                     /\ arrived \subseteq Packet /\ popped \subseteq arrived
                     /\ skipped \subseteq Packet /\ late \subseteq arrived /\ first \in Packet
                     /\ delivered \in Seq([pts : Frames, packets : Seq(Packet)])
    BY DEF PlayTypes, Records
  <2> QED
    BY <2>1, Zenon DEF ControlTypes, TypeOK
<1>3. PlayInv /\ ControlTypes /\ [DepacketizerNext]_depacketizerVars => PlayInv' /\ ControlTypes'
  BY PlayStep, ControlStep
<1> QED
  BY PlayInit, <1>1, <1>2, <1>3, PTL DEF DepacketizerSpec
-----------------------------------------------------------------------------
(* What is collected is a run of packets of one frame, and the playout     *)
(* head is right behind it.                                                *)
IsRun(q, f) ==
  /\ \A k \in DOMAIN q : q[k] \in PacketsOf(f)
  /\ \A k \in 2 .. Len(q) : q[k] = q[k - 1] + 1

CollectsRun ==
  frameBuffer # <<>> =>
    IsRun(frameBuffer, playoutTs) /\ head = SeqNr(frameBuffer[Len(frameBuffer)] + 1)

RunInv == CollectsRun /\ DeliveredIsSuffixOfFrame

LEMMA CollectedIsRun ==
  ASSUME PlayInv, CollectsRun, NEW i \in Packet, Pops(i)
  PROVE  /\ Collected(i) \in Seq(Packet) /\ Len(Collected(i)) \in Nat \ {0}
         /\ IsRun(Collected(i), FrameOf[i]) /\ Collected(i)[Len(Collected(i))] = i
<1>1. i \in PacketsOf(FrameOf[i]) /\ i \in Nat /\ i \in 0 .. Packets
  BY FrameRanges, StreamOK DEF PacketsOf, Packet, StreamOK
<1>2. CASE playoutTs # FrameOf[i]
  BY <1>1, <1>2 DEF Collected, IsRun
<1>3. CASE playoutTs = FrameOf[i]
  <2> PICK q \in Seq(Packet) : q = frameBuffer
    BY DEF PlayInv, PlayTypes
  <2> PICK n \in Nat : n = Len(q)
    OBVIOUS
  <2>1. Collected(i) = Append(q, i)
    BY <1>3 DEF Collected
  <2>2. /\ Append(q, i) \in Seq(Packet) /\ Len(Append(q, i)) = n + 1
        /\ DOMAIN Append(q, i) = 1 .. n + 1
        /\ Append(q, i)[n + 1] = i /\ \A k \in 1 .. n : Append(q, i)[k] = q[k]
    OBVIOUS
  <2>3. \A k \in 1 .. n : q[k] \in PacketsOf(FrameOf[i])
    BY <1>3 DEF CollectsRun, IsRun
  <2>4. ASSUME NEW k \in 2 .. n + 1 PROVE Append(q, i)[k] = Append(q, i)[k - 1] + 1
    <3>1. CASE k \in 2 .. n
      <4>1. k - 1 \in 1 .. n /\ k \in 1 .. n /\ q # <<>>
        BY <3>1
      <4>2. q[k] = q[k - 1] + 1
        BY <3>1, <4>1 DEF CollectsRun, IsRun
      <4> QED
        BY <4>1, <4>2, <2>2
    <3>2. CASE k = n + 1
      <4>1. n \in 1 .. n /\ q # <<>> /\ k - 1 = n
        BY <3>2
      <4>2. SeqNr(q[n] + 1) = SeqNr(i)
        BY <4>1 DEF CollectsRun, Pops
      <4>3. q[n] \in Packet
        BY <4>1
      <4>4. q[n] + 1 \in 0 .. Packets
        BY <4>3, FrameRanges
      <4>5. q[n] + 1 = i
        BY <1>1, <4>2, <4>4, SeqNrInjective
      <4> QED
        BY <3>2, <4>1, <4>5, <2>2
    <3> QED
      BY <3>1, <3>2
  <2>5. IsRun(Append(q, i), FrameOf[i])
    <3>1. \A k \in 1 .. n + 1 : Append(q, i)[k] \in PacketsOf(FrameOf[i])
      BY <1>1, <2>2, <2>3
    <3> QED
      BY <3>1, <2>2, <2>4 DEF IsRun
  <2> QED
    BY <2>1, <2>2, <2>5
<1> QED
  BY <1>2, <1>3

LEMMA HeadAfterPop ==
  ASSUME PlayInv, NEW i \in Packet, head = SeqNr(i)
  PROVE  NextHead = SeqNr(i + 1)
<1>1. i \in Nat /\ head \in 0 .. Modulus - 1
  BY FrameRanges DEF PlayInv, PlayTypes
<1> QED
  BY <1>1, SeqNrNext DEF NextHead

LEMMA RunPop ==
  ASSUME PlayInv, RunInv, NEW i \in Packet, Pops(i)
  PROVE  RunInv'
<1> PICK c \in Seq(Packet) : c = Collected(i)
  BY CollectedIsRun DEF RunInv
<1>1. Len(c) \in Nat \ {0} /\ IsRun(c, FrameOf[i]) /\ c[Len(c)] = i
  BY CollectedIsRun DEF RunInv
<1>2. CollectsRun'
  <2>1. head' = SeqNr(i + 1)
    BY HeadAfterPop DEF Pops
  <2>2. frameBuffer' = c /\ playoutTs' = FrameOf[i]
    BY DEF Pops
  <2> QED
    BY <2>1, <2>2, <1>1 DEF CollectsRun
<1>3. DeliveredIsSuffixOfFrame'
  <2> DEFINE Good(d) == /\ Contents(d) \subseteq PacketsOf(d.pts)
                        /\ Marker(d.packets[Len(d.packets)])
                        /\ \A n \in 2 .. Len(d.packets) : d.packets[n] = d.packets[n - 1] + 1
  <2>1. \A k \in DOMAIN delivered : Good(delivered[k])
    BY DEF RunInv, DeliveredIsSuffixOfFrame
  <2>2. CASE ~Delivers(i)
    <3>1. delivered' = delivered
      BY <2>2, PopDelivers DEF PlayInv
    <3> QED
      BY <3>1 DEF RunInv, DeliveredIsSuffixOfFrame
  <2>3. CASE Delivers(i)
    <3>1. ASSUME NEW d, d.pts = FrameOf[i], d.packets = c PROVE Good(d)
      <4>1. Contents(d) \subseteq PacketsOf(d.pts)
        BY <3>1, <1>1 DEF Contents, IsRun
      <4>2. Marker(i)
        BY <2>3 DEF Delivers
      <4> QED
        BY <4>1, <4>2, <3>1, <1>1 DEF IsRun
    <3> HIDE DEF Good
    <3>2. ASSUME NEW k \in DOMAIN delivered' PROVE Good(delivered'[k])
      <4>1. CASE k \in DOMAIN delivered
        <5>1. delivered'[k] = delivered[k]
          BY <4>1, <2>3, PopDelivers DEF PlayInv
        <5> QED
          BY <4>1, <5>1, <2>1
      <4>2. CASE k = Len(delivered) + 1
        <5>1. delivered'[k].pts = FrameOf[i] /\ delivered'[k].packets = c
          BY <4>2, <2>3, PopDelivers DEF PlayInv
        <5> QED
          BY <5>1, <3>1
      <4> QED
        BY <4>1, <4>2, <2>3, PopDelivers DEF PlayInv
    <3> QED
      BY <3>2 DEF DeliveredIsSuffixOfFrame, Good
  <2> QED
    BY <2>2, <2>3
<1> QED
  BY <1>2, <1>3 DEF RunInv

LEMMA RunStep ==
  ASSUME PlayInv, RunInv, [DepacketizerNext]_depacketizerVars
  PROVE  RunInv'
<1>1. ASSUME NEW i \in Packet, Pushes(i) PROVE RunInv'
  <2>1. UNCHANGED <<frameBuffer, playoutTs, delivered>>
    BY <1>1 DEF Pushes
  <2>2. frameBuffer # <<>> => head' = head
    BY <1>1 DEF Pushes, PlayInv, NothingPlayed
  <2> QED
    BY <2>1, <2>2 DEF RunInv, CollectsRun, DeliveredIsSuffixOfFrame
<1>2. CASE Skips
  BY <1>2 DEF Skips, RunInv, CollectsRun, DeliveredIsSuffixOfFrame
<1>3. CASE Idles
  BY <1>3 DEF Idles, RunInv, CollectsRun, DeliveredIsSuffixOfFrame, bufferVars, historyVars
<1> QED
  BY <1>1, <1>2, <1>3, PlaySteps, RunPop

(* What reaches the callback is a run of consecutive packets of one frame  *)
(* up to its marker, in whatever order packets arrive and however the      *)
(* numbers wrap (rtp_depacketizer.go 109-217).                             *)
THEOREM SuffixesAreDelivered == DepacketizerSpec => []DeliveredIsSuffixOfFrame
<1>1. DepacketizerInit => RunInv
  BY DEF DepacketizerInit, RunInv, CollectsRun, DeliveredIsSuffixOfFrame
<1>2. RunInv => DeliveredIsSuffixOfFrame
  BY DEF RunInv
<1>3. PlayInv /\ RunInv /\ [DepacketizerNext]_depacketizerVars => PlayInv' /\ RunInv'
  BY PlayStep, RunStep
<1> QED
  BY PlayInit, <1>1, <1>2, <1>3, PTL DEF DepacketizerSpec
-----------------------------------------------------------------------------
(* As long as nothing comes late, playout sweeps over the packets from the *)
(* first that arrived: what is behind the head was played or skipped, what *)
(* is queued lies before it, and what was delivered ends behind it.        *)
SweptTo(h) ==
  /\ head = SeqNr(h) /\ first <= h /\ Played = first .. h - 1
  /\ \A i \in buffer : h <= i
Sweep == late = {} /\ arrived # {} => \E h \in 0 .. Packets : SweptTo(h)

SweepInv == Sweep /\ InOrderUnlessLate

LEMMA SweepPush ==
  ASSUME PlayInv, SweepInv, NEW i \in Packet, Pushes(i)
  PROVE  SweepInv'
<1>1. UNCHANGED <<delivered, Played>> /\ (late' = {} => late = {})
  BY DEF Pushes, Played
<1>2. InOrderUnlessLate'
  BY <1>1 DEF SweepInv, InOrderUnlessLate
<1>3. ASSUME late' = {} PROVE \E h \in 0 .. Packets : SweptTo(h)'
  <2>0. i \in 0 .. Packets /\ i \in Nat
    BY FrameRanges, StreamOK DEF Packet, StreamOK
  <2>1. ~(i < first') /\ \A j \in Played : ~(i <= j)
    BY <1>3 DEF Pushes
  <2>2. CASE arrived = {}
    <3>1. ~emitting /\ buffer = {} /\ Played = {}
      BY <2>2 DEF PlayInv, NothingPlayed
    <3>2. head' = SeqNr(i) /\ first' = i /\ buffer' = {i}
      BY <2>2, <3>1 DEF Pushes
    <3>3. i .. i - 1 = {} /\ i <= i
      BY <2>0
    <3>4. SweptTo(i)'
      BY <3>1, <3>2, <3>3, <1>1 DEF SweptTo
    <3> QED
      BY <2>0, <3>4
  <2>3. CASE arrived # {}
    <3>1. PICK h \in 0 .. Packets : SweptTo(h)
      BY <2>3, <1>1, <1>3 DEF SweepInv, Sweep
    <3>2. emitting \/ buffer # {}
      BY <2>3 DEF PlayInv, NothingPlayed, Played
    <3>3. head' = head /\ first' = first /\ buffer' = buffer \cup {i}
      BY <2>3, <3>2 DEF Pushes
    <3>4. h <= i
      <4>1. first \in Nat
        BY FrameRanges DEF PlayInv, PlayTypes
      <4>2. CASE h = first
        BY <4>1, <4>2, <2>0, <2>1, <3>3
      <4>3. CASE h # first
        <5>1. h - 1 \in Played
          BY <4>1, <4>3, <3>1 DEF SweptTo
        <5>2. ~(i <= h - 1)
          BY <5>1, <2>1
        <5> QED
          BY <5>2, <2>0
      <4> QED
        BY <4>2, <4>3
    <3>5. SweptTo(h)'
      BY <3>1, <3>3, <3>4, <1>1 DEF SweptTo
    <3> QED
      BY <3>5
  <2> QED
    BY <2>2, <2>3
<1> QED
  BY <1>2, <1>3 DEF SweepInv, Sweep

LEMMA HeadMoves ==
  ASSUME PlayInv, NEW h \in Nat, head = SeqNr(h)
  PROVE  NextHead = SeqNr(h + 1)
<1>1. head \in 0 .. Modulus - 1
  BY DEF PlayInv, PlayTypes
<1> QED
  BY <1>1, SeqNrNext DEF NextHead

LEMMA SweepSkip ==
  ASSUME PlayInv, SweepInv, Skips
  PROVE  SweepInv'
<1>1. UNCHANGED <<delivered, buffer, first, arrived, popped>> /\ (late' = {} => late = {} /\ AtHead = {})
  BY DEF Skips
<1>2. InOrderUnlessLate'
  BY <1>1 DEF SweepInv, InOrderUnlessLate
<1>3. ASSUME late' = {} PROVE \E h \in 0 .. Packets : SweptTo(h)'
  <2>1. buffer # {} /\ arrived # {} /\ buffer \subseteq Packet
    BY DEF Skips, PlayInv, PlayTypes
  <2>2. PICK h \in 0 .. Packets : SweptTo(h)
    BY <2>1, <1>1, <1>3 DEF SweepInv, Sweep
  <2>3. head = SeqNr(h) /\ first <= h /\ Played = first .. h - 1 /\ \A i \in buffer : h <= i
    BY <2>2 DEF SweptTo
  <2>4. PICK i \in Packet : h <= i /\ i \in buffer
    BY <2>1, <2>3
  <2>5. h \in Packet /\ h + 1 \in 0 .. Packets /\ h \in Nat /\ Packets \in Nat
    BY <2>4, StreamOK DEF Packet, StreamOK
  <2>6. ASSUME NEW j \in Packet, SeqNr(j) = head PROVE j = h
    <3>1. j \in 0 .. Packets
      BY <2>5 DEF Packet
    <3> QED
      BY <2>3, <2>6, <3>1, SeqNrInjective
  <2>7. {j \in Packet : SeqNr(j) = head} = {h}
    BY <2>3, <2>5, <2>6
  <2>8. first \in Nat
    BY FrameRanges DEF PlayInv, PlayTypes
  <2>9. Played' = first .. (h + 1) - 1
    <3>1. Played' = Played \cup {h}
      BY <1>1, <2>7 DEF Skips, Played
    <3>2. (first .. h - 1) \cup {h} = first .. (h + 1) - 1
      BY <2>3, <2>5, <2>8
    <3> QED
      BY <3>1, <3>2, <2>3
  <2>10. \A j \in buffer : h + 1 <= j
    <3> SUFFICES ASSUME NEW j \in buffer PROVE h + 1 <= j
      OBVIOUS
    <3>1. j # h
      BY <1>1, <1>3, <2>3 DEF AtHead
    <3>2. h <= j /\ j \in Nat
      BY <2>1, <2>3 DEF Packet
    <3> QED
      BY <2>5, <3>1, <3>2
  <2>11. head' = SeqNr(h + 1)
    BY <2>3, <2>5, HeadMoves DEF Skips
  <2>12. SweptTo(h + 1)'
    BY <1>1, <2>3, <2>5, <2>8, <2>9, <2>10, <2>11 DEF SweptTo
  <2> QED
    BY <2>5, <2>12
<1> QED
  BY <1>2, <1>3 DEF SweepInv, Sweep

LEMMA SweepPop ==
  ASSUME PlayInv, SweepInv, NEW i \in Packet, Pops(i)
  PROVE  SweepInv'
<1>1. late' = late /\ arrived' = arrived /\ first' = first /\ arrived # {}
  BY DEF Pops, PlayInv
<1> SUFFICES ASSUME late = {}
             PROVE  /\ \E h \in 0 .. Packets : SweptTo(h)'
                    /\ \A k \in 2 .. Len(delivered') : delivered'[k - 1].pts < delivered'[k].pts
  BY <1>1 DEF SweepInv, Sweep, InOrderUnlessLate
<1>2. PICK h \in 0 .. Packets : SweptTo(h)
  BY <1>1 DEF SweepInv, Sweep
<1>3. head = SeqNr(h) /\ first <= h /\ Played = first .. h - 1 /\ \A j \in buffer : h <= j
  BY <1>2 DEF SweptTo
<1>4. i \in Nat /\ i \in 0 .. Packets /\ i + 1 \in 0 .. Packets /\ Packets \in Nat
  BY FrameRanges, StreamOK DEF Packet, StreamOK
<1>5. i = h
  <2>1. SeqNr(i) = SeqNr(h)
    BY <1>3 DEF Pops
  <2> QED
    BY <1>4, <2>1, SeqNrInjective
<1>6. first \in Nat
  BY FrameRanges DEF PlayInv, PlayTypes
<1>7. SweptTo(i + 1)'
  <2>1. head' = SeqNr(i + 1)
    BY HeadAfterPop DEF Pops
  <2>2. Played' = first .. (i + 1) - 1
    <3>1. Played' = Played \cup {i}
      BY DEF Pops, Played
    <3>2. (first .. i - 1) \cup {i} = first .. (i + 1) - 1
      BY <1>3, <1>4, <1>5, <1>6
    <3> QED
      BY <3>1, <3>2, <1>3, <1>5
  <2>3. ASSUME NEW j \in buffer' PROVE i + 1 <= j
    <3>1. j \in buffer /\ j # i
      BY <2>3 DEF Pops
    <3>3. j \in Packet
      BY <3>1 DEF PlayInv, PlayTypes
    <3>4. j \in Nat
      BY <3>3, FrameRanges
    <3>2. i <= j /\ j \in Nat
      BY <3>1, <3>4, <1>3, <1>5
    <3> QED
      BY <3>1, <3>2, <1>4
  <2>4. first <= i + 1
    BY <1>3, <1>4, <1>5, <1>6
  <2> QED
    BY <2>1, <2>2, <2>3, <2>4, <1>1 DEF SweptTo
<1>8. ASSUME NEW k \in 2 .. Len(delivered') PROVE delivered'[k - 1].pts < delivered'[k].pts
  <2>0. PlayTypes /\ \A m \in 2 .. Len(delivered) : delivered[m - 1].pts < delivered[m].pts
    BY DEF PlayInv, SweepInv, InOrderUnlessLate
  <2>1. CASE ~Delivers(i)
    <3>1. delivered' = delivered
      BY <2>0, <2>1, PopDelivers
    <3> QED
      BY <3>1, <2>0
  <2>2. CASE Delivers(i)
    <3> PICK n \in Nat : n = Len(delivered)
      BY <2>0, <2>2, PopDelivers
    <3>1. /\ DOMAIN delivered = 1 .. n /\ Len(delivered') = n + 1
          /\ \A m \in 1 .. n : delivered'[m] = delivered[m]
          /\ delivered'[n + 1].pts = FrameOf[i]
      BY <2>0, <2>2, PopDelivers
    <3>2. CASE k \in 2 .. n
      <4>1. k - 1 \in 1 .. n /\ k \in 1 .. n
        BY <3>2
      <4>2. delivered[k - 1].pts < delivered[k].pts
        BY <2>0, <3>2
      <4> QED
        BY <4>1, <4>2, <3>1
    <3>3. CASE k = n + 1
      <4>1. n \in 1 .. n /\ k - 1 = n
        BY <3>3
      <4>2. PICK j \in popped : Marker(j) /\ FrameOf[j] = delivered[n].pts
        BY <3>1, <4>1 DEF PlayInv
      <4>3. j \in Packet /\ j \in Played
        BY DEF PlayInv, PlayTypes, Played
      <4>4. j < i
        BY <4>3, <1>3, <1>5, <1>4, <1>6
      <4>5. FrameOf[j] < FrameOf[i]
        BY <4>2, <4>3, <4>4, FrameRanges
      <4> QED
        BY <4>1, <4>2, <4>5, <3>1, <3>3
    <3> QED
      BY <3>1, <3>2, <3>3
  <2> QED
    BY <2>1, <2>2
<1> QED
  BY <1>4, <1>7, <1>8

LEMMA SweepStep ==
  ASSUME PlayInv, SweepInv, [DepacketizerNext]_depacketizerVars
  PROVE  SweepInv'
<1>1. CASE Idles
  <2>1. UNCHANGED <<buffer, head, first, arrived, popped, skipped, late, delivered>>
    BY <1>1 DEF Idles, bufferVars, historyVars
  <2> QED
    BY <2>1 DEF SweepInv, Sweep, SweptTo, Played, InOrderUnlessLate
<1> QED
  BY <1>1, PlaySteps, SweepPush, SweepSkip, SweepPop

(* Frames are delivered in order as long as no packet arrives after the    *)
(* playout head has passed it (rtp_depacketizer.go 122-145).               *)
THEOREM FramesStayInOrder == DepacketizerSpec => []InOrderUnlessLate
<1>1. DepacketizerInit => SweepInv
  BY DEF DepacketizerInit, SweepInv, Sweep, InOrderUnlessLate
<1>2. SweepInv => InOrderUnlessLate
  BY DEF SweepInv
<1>3. PlayInv /\ SweepInv /\ [DepacketizerNext]_depacketizerVars => PlayInv' /\ SweepInv'
  BY PlayStep, SweepStep
<1> QED
  BY PlayInit, <1>1, <1>2, <1>3, PTL DEF DepacketizerSpec
-----------------------------------------------------------------------------
(* Playout leaves no gap, not even where the numbers wrap: behind the head *)
(* and behind each packet it passed, down to the first, all were passed.   *)
NoGap ==
  \A i \in Packet :
    first < i /\ (i \in Played \/ (arrived # {} /\ head = SeqNr(i))) => i - 1 \in Played

(* A frame of which nothing was skipped or late is not begun, or begun, or *)
(* delivered once and whole.                                               *)
Clean(f) ==
  /\ PacketsOf(f) \cap (skipped \cup late) = {}
  /\ \A b \in PacketsOf(f) : first <= b
Undelivered(f) == \A k \in DOMAIN delivered : delivered[k].pts # f
NotBegun(f) == PacketsOf(f) \cap popped = {} /\ Undelivered(f)
BegunUpTo(f, b) ==
  /\ b + 1 \in PacketsOf(f) /\ head = SeqNr(b + 1)
  /\ \A j \in PacketsOf(f) : j \in popped <=> j <= b
Collecting(f) ==
  /\ playoutTs = f /\ ~droppingFrame /\ Undelivered(f)
  /\ {frameBuffer[k] : k \in DOMAIN frameBuffer} = PacketsOf(f) \cap popped
  /\ \E b \in PacketsOf(f) : BegunUpTo(f, b)
DeliveredAt(f, k) ==
  /\ delivered[k].pts = f /\ Contents(delivered[k]) = PacketsOf(f)
  /\ \A m \in DOMAIN delivered : delivered[m].pts = f => m = k
DeliveredOnce(f) ==
  PacketsOf(f) \subseteq popped /\ \E k \in DOMAIN delivered : DeliveredAt(f, k)
Fate(f) == Clean(f) => NotBegun(f) \/ Collecting(f) \/ DeliveredOnce(f)

IntactInv == NoGap /\ \A f \in Frames : Fate(f)

LEMMA BeforeNext ==
  ASSUME PlayInv, NEW i \in Packet, i > 0, NextHead = SeqNr(i)
  PROVE  head = SeqNr(i - 1)
<1>1. i - 1 \in Nat /\ i = (i - 1) + 1 /\ head \in 0 .. Modulus - 1
  BY FrameRanges DEF PlayInv, PlayTypes
<1> QED
  BY <1>1, SeqNrNext DEF NextHead

(* Whatever passes the head, the gap stays closed.                         *)
LEMMA NoGapPassing ==
  ASSUME PlayInv, NoGap, head' = NextHead, first' = first, arrived # {}, arrived' = arrived,
         Played' = Played \cup {i \in Packet : SeqNr(i) = head}
  PROVE  NoGap'
<1> SUFFICES ASSUME NEW i \in Packet, first < i, i \in Played' \/ head' = SeqNr(i)
             PROVE  i - 1 \in Played'
  BY DEF NoGap
<1>1. first \in Nat /\ i \in Nat /\ i > 0
  BY FrameRanges DEF PlayInv, PlayTypes
<1>2. i - 1 \in Packet
  BY <1>1, StreamOK DEF Packet, StreamOK
<1>3. CASE i \in Played \/ head = SeqNr(i)
  BY <1>3 DEF NoGap
<1>4. CASE NextHead = SeqNr(i)
  <2>1. head = SeqNr(i - 1)
    BY <1>1, <1>4, BeforeNext
  <2> QED
    BY <2>1, <1>2
<1> QED
  BY <1>3, <1>4

LEMMA IntactPush ==
  ASSUME PlayInv, IntactInv, NEW i \in Packet, Pushes(i)
  PROVE  IntactInv'
<1>1. UNCHANGED <<frameBuffer, playoutTs, droppingFrame, popped, skipped, delivered>>
  BY DEF Pushes
<1>2. CASE arrived = {}
  <2>1. popped = {} /\ skipped = {} /\ delivered = <<>> /\ ~emitting /\ buffer = {}
    BY <1>2 DEF PlayInv, NothingPlayed, Played
  <2>2. first' = i /\ head' = SeqNr(i)
    BY <1>2, <2>1 DEF Pushes
  <2>3. ASSUME NEW j \in Packet, i < j, head' = SeqNr(j) PROVE FALSE
    <3>1. i \in 0 .. Packets /\ j \in 0 .. Packets
      BY StreamOK DEF Packet, StreamOK
    <3>2. i = j
      BY <2>2, <2>3, <3>1, SeqNrInjective
    <3> QED
      BY <2>3, <3>1, <3>2
  <2>4. NoGap'
    BY <1>1, <2>1, <2>2, <2>3 DEF NoGap, Played
  <2>5. \A f \in Frames : NotBegun(f)'
    BY <1>1, <2>1 DEF NotBegun, Undelivered
  <2> QED
    BY <2>4, <2>5 DEF IntactInv, Fate
<1>3. CASE arrived # {}
  <2>1. head' = head /\ first' = first /\ late \subseteq late'
    BY <1>3 DEF Pushes, PlayInv, NothingPlayed, Played
  <2>2. NoGap'
    BY <1>1, <1>3, <2>1 DEF IntactInv, NoGap, Played
  <2>3. ASSUME NEW f \in Frames PROVE Fate(f)'
    <3>1. Clean(f)' => Clean(f)
      BY <1>1, <2>1 DEF Clean
    <3>2. /\ NotBegun(f)' <=> NotBegun(f)
          /\ Collecting(f)' <=> Collecting(f)
          /\ DeliveredOnce(f)' <=> DeliveredOnce(f)
      BY <1>1, <2>1
      DEF NotBegun, Collecting, DeliveredOnce, Undelivered, BegunUpTo, DeliveredAt
    <3> QED
      BY <3>1, <3>2 DEF IntactInv, Fate
  <2> QED
    BY <2>2, <2>3 DEF IntactInv
<1> QED
  BY <1>2, <1>3

LEMMA IntactSkip ==
  ASSUME PlayInv, IntactInv, Skips
  PROVE  IntactInv'
<1>1. /\ UNCHANGED <<first, arrived, popped, delivered>> /\ head' = NextHead /\ late \subseteq late'
      /\ skipped' = skipped \cup {i \in Packet : SeqNr(i) = head}
  BY DEF Skips
<1>2. arrived # {}
  BY DEF Skips, PlayInv
<1>3. NoGap'
  <2>1. Played' = Played \cup {i \in Packet : SeqNr(i) = head}
    BY <1>1 DEF Played
  <2> QED
    BY <1>1, <1>2, <2>1, NoGapPassing DEF IntactInv
<1>4. ASSUME NEW f \in Frames PROVE Fate(f)'
  <2> SUFFICES ASSUME Clean(f)' PROVE (NotBegun(f) \/ DeliveredOnce(f))'
    BY DEF Fate
  <2>1. Clean(f)
    BY <1>1 DEF Clean
  <2>2. ~Collecting(f)
    <3> SUFFICES ASSUME Collecting(f) PROVE FALSE
      OBVIOUS
    <3>1. PICK b \in PacketsOf(f) : BegunUpTo(f, b)
      BY DEF Collecting
    <3>2. b + 1 \in skipped' /\ b + 1 \in PacketsOf(f)
      BY <1>1, <3>1 DEF BegunUpTo, PacketsOf
    <3> QED
      BY <3>2 DEF Clean
  <2>3. NotBegun(f) \/ DeliveredOnce(f)
    BY <2>1, <2>2 DEF IntactInv, Fate
  <2> QED
    BY <1>1, <2>3 DEF NotBegun, DeliveredOnce, Undelivered, DeliveredAt
<1> QED
  BY <1>3, <1>4 DEF IntactInv

(* The packet that is popped continues a clean frame or begins it.         *)
LEMMA PopContinues ==
  ASSUME PlayInv, IntactInv, NEW i \in Packet, Pops(i), NEW f, f = FrameOf[i], Clean(f)
  PROVE  /\ Undelivered(f) /\ ~StillDropping(i)
         /\ {Collected(i)[k] : k \in DOMAIN Collected(i)} = PacketsOf(f) \cap popped'
         /\ \A j \in PacketsOf(f) : j \in popped' <=> j <= i
<1>0. /\ f \in Frames /\ f > 0 /\ i \in PacketsOf(f) /\ i \in Nat /\ i \in 0 .. Packets
      /\ \A j \in PacketsOf(f) : j \in Packet /\ j \in Nat
  BY FrameRanges, StreamOK DEF PacketsOf, Packet, StreamOK
<1>1. /\ i \in arrived /\ i \notin popped /\ popped' = popped \cup {i} /\ head = SeqNr(i)
  BY DEF Pops, PlayInv
<1>2. CASE NotBegun(f)
  <2>1. playoutTs # f
    <3>1. ASSUME playoutTs = f PROVE FALSE
      <4>1. PICK j \in popped : FrameOf[j] = f
        BY <1>0, <3>1 DEF PlayInv
      <4>2. j \in PacketsOf(f) \cap popped
        BY <4>1 DEF PlayInv, PlayTypes, PacketsOf
      <4> QED
        BY <1>2, <4>2 DEF NotBegun
    <3> QED
      BY <3>1
  <2>2. Collected(i) = <<i>> /\ ~StillDropping(i)
    BY <2>1 DEF Collected, StillDropping
  <2>3. PacketsOf(f) \cap popped' = {i}
    BY <1>0, <1>1, <1>2 DEF NotBegun
  <2>4. ASSUME NEW j \in PacketsOf(f), j < i PROVE FALSE
    <3>1. i - 1 \in PacketsOf(f)
      BY <1>0, <2>4, FramesAreRuns
    <3>2. first <= j /\ first \in Nat
      BY FrameRanges DEF Clean, PlayInv, PlayTypes
    <3>3. first < i
      BY <1>0, <2>4, <3>2
    <3>4. i - 1 \in Played
      BY <1>1, <3>3 DEF IntactInv, NoGap
    <3> QED
      BY <1>2, <3>1, <3>4 DEF Played, Clean, NotBegun
  <2>5. \A j \in PacketsOf(f) : j = i <=> j <= i
    BY <1>0, <2>4
  <2>6. {Collected(i)[k] : k \in DOMAIN Collected(i)} = {i}
    BY <2>2
  <2> QED
    BY <1>0, <1>2, <2>2, <2>3, <2>5, <2>6 DEF NotBegun
<1>3. CASE Collecting(f)
  <2>1. PICK b \in PacketsOf(f) : BegunUpTo(f, b)
    BY <1>3 DEF Collecting
  <2>2. b + 1 = i
    <3>1. b + 1 \in Packet /\ SeqNr(b + 1) = SeqNr(i)
      BY <1>0, <1>1, <2>1 DEF BegunUpTo
    <3>2. b + 1 \in 0 .. Packets
      BY <3>1, StreamOK DEF Packet, StreamOK
    <3> QED
      BY <1>0, <3>1, <3>2, SeqNrInjective
  <2>3. ~StillDropping(i) /\ playoutTs = f
    BY <1>3 DEF StillDropping, Collecting
  <2> PICK q \in Seq(Packet) : q = frameBuffer
    BY DEF PlayInv, PlayTypes
  <2>4. Collected(i) = Append(q, i)
    BY <2>3 DEF Collected
  <2>5. {Append(q, i)[k] : k \in DOMAIN Append(q, i)} = {q[k] : k \in DOMAIN q} \cup {i}
    <3>1. /\ DOMAIN Append(q, i) = DOMAIN q \cup {Len(q) + 1} /\ Append(q, i)[Len(q) + 1] = i
          /\ \A k \in DOMAIN q : Append(q, i)[k] = q[k]
      OBVIOUS
    <3> HIDE DEF Append
    <3> QED
      BY <3>1
  <2>6. {Collected(i)[k] : k \in DOMAIN Collected(i)} = PacketsOf(f) \cap popped'
    BY <1>0, <1>1, <1>3, <2>4, <2>5 DEF Collecting
  <2>7. ASSUME NEW j \in PacketsOf(f) PROVE j \in popped' <=> j <= i
    <3>1. j \in popped <=> j <= b
      BY <2>1 DEF BegunUpTo
    <3>2. j \in Nat /\ b \in Nat
      BY <1>0
    <3>3. j <= i <=> j <= b \/ j = i
      BY <2>2, <3>2
    <3> QED
      BY <1>1, <3>1, <3>3
  <2> QED
    BY <1>3, <2>3, <2>6, <2>7 DEF Collecting
<1>4. ~DeliveredOnce(f)
  BY <1>0, <1>1 DEF DeliveredOnce
<1> QED
  BY <1>0, <1>2, <1>3, <1>4 DEF IntactInv, Fate

(* A packet that continues a clean frame either leaves it begun or ends it. *)
LEMMA PopOfFrame ==
  ASSUME PlayInv, IntactInv, NEW i \in Packet, Pops(i), NEW f, f = FrameOf[i], Clean(f)
  PROVE  (Collecting(f) \/ DeliveredOnce(f))'
<1>0. i \in PacketsOf(f) /\ i \in Nat
  BY FrameRanges DEF PacketsOf
<1>1. /\ Undelivered(f) /\ ~StillDropping(i)
      /\ {Collected(i)[k] : k \in DOMAIN Collected(i)} = PacketsOf(f) \cap popped'
      /\ \A j \in PacketsOf(f) : j \in popped' <=> j <= i
  BY PopContinues
<1>2. CASE ~Marker(i)
  <2>1. delivered' = delivered
    BY <1>2, PopDelivers DEF PlayInv, Delivers
  <2>2. playoutTs' = f /\ ~droppingFrame' /\ frameBuffer' = Collected(i)
    BY <1>1 DEF Pops
  <2>3. head' = SeqNr(i + 1)
    BY HeadAfterPop DEF Pops
  <2>4. i + 1 \in PacketsOf(f)
    BY <1>2, FrameRanges
  <2>5. BegunUpTo(f, i)'
    BY <1>1, <2>3, <2>4 DEF BegunUpTo
  <2>6. Undelivered(f)'
    BY <1>1, <2>1 DEF Undelivered
  <2> QED
    BY <1>0, <1>1, <2>2, <2>5, <2>6 DEF Collecting
<1>3. CASE Marker(i)
  <2>0. Delivers(i)
    BY <1>1, <1>3 DEF Delivers
  <2> PICK n \in Nat : n = Len(delivered)
    BY <2>0, PopDelivers DEF PlayInv
  <2>1. /\ DOMAIN delivered = 1 .. n /\ DOMAIN delivered' = 1 .. n + 1
        /\ \A m \in 1 .. n : delivered'[m] = delivered[m]
        /\ delivered'[n + 1].pts = f /\ delivered'[n + 1].packets = Collected(i)
    BY <2>0, PopDelivers DEF PlayInv
  <2>2. PacketsOf(f) \subseteq popped'
    BY <1>1, <1>3, FrameRanges
  <2>3. Contents(delivered'[n + 1]) = PacketsOf(f)
    BY <1>1, <2>1, <2>2 DEF Contents
  <2>4. ASSUME NEW m \in DOMAIN delivered', delivered'[m].pts = f PROVE m = n + 1
    <3>1. ASSUME m \in 1 .. n PROVE FALSE
      BY <1>1, <2>1, <2>4, <3>1 DEF Undelivered
    <3> QED
      BY <2>1, <3>1
  <2>5. n + 1 \in DOMAIN delivered'
    BY <2>1
  <2>6. DeliveredAt(f, n + 1)'
    BY <2>1, <2>3, <2>4 DEF DeliveredAt, Contents
  <2> QED
    BY <2>2, <2>5, <2>6 DEF DeliveredOnce
<1> QED
  BY <1>2, <1>3

(* A packet of another frame does not touch it. *)
LEMMA PopOfOther ==
  ASSUME PlayInv, IntactInv, NEW i \in Packet, Pops(i), NEW f \in Frames, f # FrameOf[i], Clean(f)
  PROVE  (NotBegun(f) \/ DeliveredOnce(f))'
<1>0. i \notin PacketsOf(f) /\ popped' = popped \cup {i} /\ head = SeqNr(i)
  BY DEF PacketsOf, Pops
<1>1. ~Collecting(f)
  <2> SUFFICES ASSUME Collecting(f) PROVE FALSE
    OBVIOUS
  <2>1. PICK b \in PacketsOf(f) : BegunUpTo(f, b)
    BY DEF Collecting
  <2>2. b + 1 \in PacketsOf(f) /\ SeqNr(b + 1) = SeqNr(i)
    BY <1>0, <2>1 DEF BegunUpTo
  <2>3. b + 1 \in 0 .. Packets /\ i \in 0 .. Packets
    BY <2>2, StreamOK DEF PacketsOf, Packet, StreamOK
  <2>4. b + 1 = i
    BY <2>2, <2>3, SeqNrInjective
  <2> QED
    BY <1>0, <2>2, <2>4
<1> PICK n \in Nat : n = Len(delivered)
  BY DEF PlayInv, PlayTypes
<1>2. /\ DOMAIN delivered = 1 .. n
      /\ \A m \in 1 .. n : m \in DOMAIN delivered' /\ delivered'[m] = delivered[m]
      /\ \A m \in DOMAIN delivered' : delivered'[m].pts = f => m \in 1 .. n
  <2>0. PlayTypes /\ DOMAIN delivered = 1 .. n
    BY DEF PlayInv, PlayTypes
  <2>1. CASE ~Delivers(i)
    <3>1. delivered' = delivered
      BY <2>0, <2>1, PopDelivers
    <3> QED
      BY <2>0, <3>1
  <2>2. CASE Delivers(i)
    <3>1. /\ DOMAIN delivered' = 1 .. n + 1
          /\ \A m \in 1 .. n : delivered'[m] = delivered[m]
          /\ delivered'[n + 1].pts = FrameOf[i]
      BY <2>0, <2>2, PopDelivers
    <3>2. ASSUME NEW m \in 1 .. n + 1, delivered'[m].pts = f PROVE m \in 1 .. n
      <4>1. m # n + 1
        BY <3>1, <3>2
      <4> QED
        BY <4>1
    <3> QED
      BY <2>0, <3>1, <3>2
  <2> QED
    BY <2>1, <2>2
<1>3. CASE NotBegun(f)
  <2>1. PacketsOf(f) \cap popped' = {}
    BY <1>0, <1>3 DEF NotBegun
  <2>2. Undelivered(f)'
    BY <1>2, <1>3 DEF NotBegun, Undelivered
  <2> QED
    BY <2>1, <2>2 DEF NotBegun
<1>4. CASE DeliveredOnce(f)
  <2>1. PICK k \in DOMAIN delivered : DeliveredAt(f, k)
    BY <1>4 DEF DeliveredOnce
  <2>2. k \in DOMAIN delivered' /\ delivered'[k] = delivered[k]
    BY <1>2
  <2>3. \A m \in DOMAIN delivered' : delivered'[m].pts = f => m = k
    BY <1>2, <2>1 DEF DeliveredAt
  <2>4. DeliveredAt(f, k)'
    BY <2>1, <2>2, <2>3 DEF DeliveredAt, Contents
  <2>5. PacketsOf(f) \subseteq popped'
    BY <1>0, <1>4 DEF DeliveredOnce
  <2> QED
    BY <2>2, <2>4, <2>5 DEF DeliveredOnce
<1> QED
  BY <1>1, <1>3, <1>4 DEF IntactInv, Fate

LEMMA IntactPop ==
  ASSUME PlayInv, IntactInv, NEW i \in Packet, Pops(i)
  PROVE  IntactInv'
<1>1. UNCHANGED <<first, arrived, skipped, late>> /\ arrived # {} /\ head' = NextHead
  BY DEF Pops, PlayInv
<1>2. NoGap'
  <2>0. i \in 0 .. Packets /\ Packets \in Nat
    BY StreamOK DEF Packet, StreamOK
  <2>1. {j \in Packet : SeqNr(j) = head} = {i}
    <3>1. ASSUME NEW j \in Packet, SeqNr(j) = head PROVE j = i
      <4>1. j \in 0 .. Packets /\ SeqNr(j) = SeqNr(i)
        BY <2>0, <3>1 DEF Packet, Pops
      <4> QED
        BY <2>0, <4>1, SeqNrInjective
    <3> QED
      BY <3>1 DEF Pops
  <2>2. Played' = Played \cup {j \in Packet : SeqNr(j) = head}
    BY <2>1 DEF Pops, Played
  <2> QED
    BY <1>1, <2>2, NoGapPassing DEF IntactInv
<1>3. ASSUME NEW f \in Frames PROVE Fate(f)'
  <2>1. Clean(f)' => Clean(f)
    BY <1>1 DEF Clean
  <2> QED
    BY <2>1, PopOfFrame, PopOfOther DEF Fate
<1> QED
  BY <1>2, <1>3 DEF IntactInv

LEMMA IntactStep ==
  ASSUME PlayInv, IntactInv, [DepacketizerNext]_depacketizerVars
  PROVE  IntactInv'
<1>1. CASE Idles
  <2>1. /\ UNCHANGED <<frameBuffer, playoutTs, head, first, arrived, popped, skipped, late, delivered>>
        /\ droppingFrame' => droppingFrame
    BY <1>1 DEF Idles, bufferVars, historyVars
  <2>2. NoGap'
    BY <2>1 DEF IntactInv, NoGap, Played
  <2>3. ASSUME NEW f \in Frames PROVE Fate(f)'
    <3>1. /\ Clean(f)' <=> Clean(f)
          /\ NotBegun(f)' <=> NotBegun(f)
          /\ DeliveredOnce(f)' <=> DeliveredOnce(f)
      BY <2>1 DEF Clean, NotBegun, DeliveredOnce, Undelivered, DeliveredAt
    <3>2. Collecting(f) => Collecting(f)'
      BY <2>1 DEF Collecting, Undelivered, BegunUpTo
    <3> QED
      BY <3>1, <3>2 DEF IntactInv, Fate
  <2> QED
    BY <2>2, <2>3 DEF IntactInv
<1> QED
  BY <1>1, PlaySteps, IntactPush, IntactSkip, IntactPop

LEMMA IntactImplies ==
  ASSUME PlayInv, IntactInv
  PROVE  IntactFramesDelivered
<1> SUFFICES ASSUME NEW f \in Frames, PacketsOf(f) \subseteq popped,
                    PacketsOf(f) \cap (skipped \cup late) = {}
             PROVE  \E k \in DOMAIN delivered :
                      /\ delivered[k].pts = f /\ Contents(delivered[k]) = PacketsOf(f)
                      /\ \A m \in DOMAIN delivered : delivered[m].pts = f => m = k
  BY DEF IntactFramesDelivered
<1>1. Clean(f)
  <2>1. \A b \in PacketsOf(f) : b \in arrived \ late
    BY DEF PlayInv, PlayTypes
  <2> QED
    BY <2>1 DEF PlayInv, Clean
<1>2. ~NotBegun(f)
  <2>1. PICK j \in Packet : FrameOf[j] = f
    BY DEF Frames
  <2>2. j \in PacketsOf(f)
    BY <2>1 DEF PacketsOf
  <2> QED
    BY <2>2 DEF NotBegun
<1>3. ~Collecting(f)
  <2>1. ASSUME NEW b \in PacketsOf(f), BegunUpTo(f, b) PROVE FALSE
    <3>1. b + 1 <= b
      BY <2>1 DEF BegunUpTo
    <3>2. b \in Nat
      BY FrameRanges DEF PacketsOf
    <3> QED
      BY <3>1, <3>2
  <2> QED
    BY <2>1 DEF Collecting
<1> QED
  BY <1>1, <1>2, <1>3 DEF IntactInv, Fate, DeliveredOnce, DeliveredAt

(* A frame whose packets were all played out, none of them skipped or late *)
(* before, reaches the callback exactly once and unchanged, for any number *)
(* of packets and frames, also where the numbers wrap.                     *)
THEOREM IntactFramesArrive == DepacketizerSpec => []IntactFramesDelivered
<1>1. DepacketizerInit => IntactInv
  <2> SUFFICES ASSUME DepacketizerInit PROVE IntactInv
    OBVIOUS
  <2>1. NoGap
    BY DEF DepacketizerInit, NoGap, Played
  <2>2. \A f \in Frames : NotBegun(f)
    BY DEF DepacketizerInit, NotBegun, Undelivered
  <2> QED
    BY <2>1, <2>2 DEF IntactInv, Fate
<1>2. PlayInv /\ IntactInv => IntactFramesDelivered
  BY IntactImplies
<1>3. PlayInv /\ IntactInv /\ [DepacketizerNext]_depacketizerVars => PlayInv' /\ IntactInv'
  BY PlayStep, IntactStep
<1> QED
  BY PlayInit, <1>1, <1>2, <1>3, PTL DEF DepacketizerSpec
=============================================================================
