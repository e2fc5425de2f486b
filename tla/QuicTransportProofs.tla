------------------------ MODULE QuicTransportProofs ------------------------
(***************************************************************************)
(* Proofs about the QUIC transport.                                        *)
(*                                                                         *)
(* First the packet feedback tracker, for every number of packets,         *)
(* every number of handshake packets and every set of target rates.        *)
(*                                                                         *)
(* The inductive invariant says that the BWE has heard nothing about the   *)
(* numbers from lowestInFlight on, that lowestInFlight runs at most one    *)
(* ahead of highestAcked, and that a recorded fate is one that happened.   *)
(* AtMostOneReport alone is not inductive: packetFeedback keeps numbers    *)
(* that were already reported, and only the horizon tells them apart.      *)
(*                                                                         *)
(* Then the streams that the peer opens and the rendezvous of the data     *)
(* channels, for every set of streams and channels.                        *)
(***************************************************************************)
EXTENDS Feedback, StreamReceive, TLAPS

(* Nothing at or above the horizon was reported. *)
FreshAboveHorizon ==
  \A p \in PN : lowestInFlight <= p => onAck[p] = 0 /\ onLoss[p] = 0

(* The fates the tracker has recorded are facts. *)
FateHappened ==
  \A p \in PN :
    /\ packetFeedback[p] = "arrived" => p \in stamped
    /\ packetFeedback[p] = "lost" => p \in declaredLost

IInv ==
  /\ TypeOK
  /\ lowestInFlight <= highestAcked + 1
  /\ FreshAboveHorizon
  /\ AtMostOneReport
  /\ FateHappened
  /\ Truthful
-----------------------------------------------------------------------------
(* updateCongestionControl, on lists the event may have changed: what it   *)
(* may do to the tracker and what it may tell the BWE.                     *)
LEMMA TailStep ==
  ASSUME TypeOK, lowestInFlight <= highestAcked + 1, FreshAboveHorizon, AtMostOneReport,
         NEW fb \in [PN -> Fate],
         NEW high \in PN, highestAcked <= high,
         UpdateCongestionControl(fb, high)
  PROVE  /\ packetFeedback' \in [PN -> Fate]
         /\ lowestInFlight' \in 0 .. MaxPN + 1
         /\ highestAcked' = high
         /\ recent' \in BOOLEAN
         /\ rate' \in Rates
         /\ onAck' \in [PN -> Nat] /\ onLoss' \in [PN -> Nat]
         /\ lowestInFlight <= lowestInFlight' /\ lowestInFlight' <= high + 1
         /\ \A p \in PN : packetFeedback'[p] \in {fb[p], "none"}
         /\ \A p \in PN :
              IF lowestInFlight <= p /\ p < lowestInFlight'
              THEN /\ onAck'[p] = IF fb[p] = "arrived" THEN 1 ELSE 0
                   /\ onLoss'[p] = IF fb[p] = "lost" THEN 1 ELSE 0
              ELSE onAck'[p] = onAck[p] /\ onLoss'[p] = onLoss[p]
<1>. MaxPN \in Nat /\ PN \subseteq Nat
  BY ConstantsOK DEF PN
<1>1. CASE /\ ~quicConn \/ recent
           /\ packetFeedback' = fb
           /\ UNCHANGED <<lowestInFlight, bweVars>>
  BY <1>1 DEF TypeOK, UpdateCongestionControl, bweVars, PN
<1>2. CASE quicConn /\ ~recent /\ UpdateBWE(fb, high)
  <2>1. PICK target \in Rates :
          /\ onAck' = [p \in PN |-> onAck[p] +
                         IF p \in Reported(fb, high) /\ fb[p] = "arrived" THEN 1 ELSE 0]
          /\ onLoss' = [p \in PN |-> onLoss[p] +
                         IF p \in Reported(fb, high) /\ fb[p] = "lost" THEN 1 ELSE 0]
          /\ packetFeedback' = Trimmed(fb, high)
          /\ lowestInFlight' = high + 1
          /\ recent' = (target > 0)
          /\ rate' = IF target > 0 THEN target ELSE rate
    BY <1>2 DEF UpdateBWE, UpdateTo
  <2>2. highestAcked' = high
    BY DEF UpdateCongestionControl
  <2>3. /\ lowestInFlight' \in 0 .. MaxPN + 1
        /\ lowestInFlight <= lowestInFlight' /\ lowestInFlight' <= high + 1
    BY <2>1 DEF PN, TypeOK
  <2>4. recent' \in BOOLEAN /\ rate' \in Rates
    BY <2>1 DEF TypeOK
  <2>5. onAck' \in [PN -> Nat] /\ onLoss' \in [PN -> Nat]
    BY <2>1 DEF TypeOK
  <2>6. /\ packetFeedback' \in [PN -> Fate]
        /\ \A p \in PN : packetFeedback'[p] \in {fb[p], "none"}
    BY <2>1 DEF Trimmed, Fate
  <2>7. ASSUME NEW p \in PN
        PROVE  IF lowestInFlight <= p /\ p < lowestInFlight'
               THEN /\ onAck'[p] = IF fb[p] = "arrived" THEN 1 ELSE 0
                    /\ onLoss'[p] = IF fb[p] = "lost" THEN 1 ELSE 0
               ELSE onAck'[p] = onAck[p] /\ onLoss'[p] = onLoss[p]
    <3>1. CASE lowestInFlight <= p /\ p <= high
      <4>1. p \in Reported(fb, high) <=> fb[p] # "none"
        BY <3>1 DEF Reported
      <4>2. onAck[p] = 0 /\ onLoss[p] = 0
        BY <3>1 DEF FreshAboveHorizon
      <4>. QED
        BY <2>1, <3>1, <4>1, <4>2 DEF TypeOK
    <3>2. CASE ~(lowestInFlight <= p /\ p <= high)
      <4>1. p \notin Reported(fb, high)
        BY <3>2 DEF Reported
      <4>. QED
        BY <2>1, <3>2, <4>1 DEF TypeOK
    <3>. QED
      BY <3>1, <3>2
  <2>. QED
    BY <2>2, <2>3, <2>4, <2>5, <2>6, <2>7
<1>. QED
  BY <1>1, <1>2 DEF UpdateCongestionControl

(* The tail keeps the part of IInv that the events do not touch, provided  *)
(* the fates in the list it gets are facts of the new state.               *)
LEMMA TailKeepsInv ==
  ASSUME IInv,
         NEW fb \in [PN -> Fate],
         NEW high \in PN, highestAcked <= high,
         UpdateCongestionControl(fb, high),
         stamped \subseteq stamped', declaredLost \subseteq declaredLost',
         \A p \in PN : /\ fb[p] = "arrived" => p \in stamped'
                       /\ fb[p] = "lost" => p \in declaredLost'
  PROVE  /\ lowestInFlight' <= highestAcked' + 1
         /\ FreshAboveHorizon'
         /\ AtMostOneReport'
         /\ FateHappened'
         /\ Truthful'
<1>. MaxPN \in Nat /\ PN \subseteq Nat
  BY ConstantsOK DEF PN
<1>. USE DEF IInv
<1>1. /\ packetFeedback' \in [PN -> Fate]
      /\ lowestInFlight' \in 0 .. MaxPN + 1
      /\ highestAcked' = high
      /\ lowestInFlight <= lowestInFlight' /\ lowestInFlight' <= high + 1
      /\ \A p \in PN : packetFeedback'[p] \in {fb[p], "none"}
      /\ \A p \in PN :
           IF lowestInFlight <= p /\ p < lowestInFlight'
           THEN /\ onAck'[p] = IF fb[p] = "arrived" THEN 1 ELSE 0
                /\ onLoss'[p] = IF fb[p] = "lost" THEN 1 ELSE 0
           ELSE onAck'[p] = onAck[p] /\ onLoss'[p] = onLoss[p]
  BY TailStep
<1>2. lowestInFlight \in Nat /\ lowestInFlight' \in Nat
  BY <1>1 DEF TypeOK
<1>3. lowestInFlight' <= highestAcked' + 1
  BY <1>1
<1>4. FreshAboveHorizon'
  BY <1>1, <1>2 DEF FreshAboveHorizon
<1>5. AtMostOneReport'
  BY <1>1 DEF AtMostOneReport
<1>6. FateHappened'
  BY <1>1 DEF FateHappened
<1>7. Truthful'
  BY <1>1 DEF Truthful
<1>. QED
  BY <1>3, <1>4, <1>5, <1>6, <1>7
-----------------------------------------------------------------------------
LEMMA InitInv == Init => IInv
<1>. SUFFICES ASSUME Init PROVE IInv
  OBVIOUS
<1>1. 0 \in PN /\ 0 \in 0 .. MaxPN + 1
  BY ConstantsOK DEF PN
<1>2. TypeOK
  BY <1>1, ConstantsOK DEF Init, TypeOK, Fate
<1>. QED
  BY <1>1, <1>2, ConstantsOK DEF PN, Init, IInv, FreshAboveHorizon, AtMostOneReport, FateHappened, Truthful

(* Recording fates yields a list of fates that keeps every other entry. *)
LEMMA RecordedFates ==
  ASSUME TypeOK, NEW S, NEW f \in Fate
  PROVE  /\ Recorded(S, f) \in [PN -> Fate]
         /\ \A p \in PN : Recorded(S, f)[p] = IF p \in Tracked(S) THEN f ELSE packetFeedback[p]
BY DEF Recorded, TypeOK

LEMMA StepInv == IInv /\ [Next]_vars => IInv'
<1>. SUFFICES ASSUME IInv, [Next]_vars PROVE IInv'
  OBVIOUS
<1>. MaxPN \in Nat /\ PN \subseteq Nat
  BY ConstantsOK DEF PN
<1>. TypeOK /\ FateHappened /\ lowestInFlight <= highestAcked + 1
     /\ FreshAboveHorizon /\ AtMostOneReport
  BY DEF IInv
<1>0. /\ packetFeedback \in [PN -> Fate] /\ highestAcked \in PN /\ highestAcked <= highestAcked
  BY DEF TypeOK
<1>1. ASSUME NEW p \in PN, PacketSent(p) PROVE IInv'
  <2>1. UpdateCongestionControl(packetFeedback, highestAcked)
        /\ UNCHANGED <<stamped, declaredLost>>
    BY <1>1 DEF PacketSent
  <2>2. TypeOK'
    BY <1>0, <1>1, <2>1, TailStep DEF PacketSent, TypeOK
  <2>. QED
    BY <1>0, <2>1, <2>2, TailKeepsInv DEF IInv, FateHappened
<1>2. ASSUME NEW p \in PN, HandshakePacketSent(p) PROVE IInv'
  <2>1. UpdateCongestionControl(packetFeedback, highestAcked)
        /\ UNCHANGED <<stamped, declaredLost>>
    BY <1>2 DEF HandshakePacketSent
  <2>2. TypeOK'
    BY <1>0, <1>2, <2>1, TailStep DEF HandshakePacketSent, TypeOK
  <2>. QED
    BY <1>0, <2>1, <2>2, TailKeepsInv DEF IInv, FateHappened
<1>3. ASSUME NEW acked \in SUBSET sent, NEW times \in SUBSET acked, AckReceived(acked, times)
      PROVE  IInv'
  <2>. DEFINE fb == Recorded(times, "arrived")
  <2>1. PICK high \in PN :
          /\ IsMaximum(high, times \cup {highestAcked})
          /\ UpdateCongestionControl(fb, high)
          /\ ackHeld' = (ackHeld \/ ~quicConn \/ recent \/ \E p \in acked : p > high)
    BY <1>3 DEF AckReceived
  <2>7. highestAcked <= high
    BY <2>1 DEF IsMaximum
  <2>2. /\ fb \in [PN -> Fate]
        /\ \A p \in PN : fb[p] = IF p \in Tracked(times) THEN "arrived" ELSE packetFeedback[p]
    BY RecordedFates DEF Fate
  <2>3. /\ stamped' = stamped \cup times /\ declaredLost' = declaredLost
        /\ inFlightPackets' = inFlightPackets \ Tracked(times)
        /\ outstanding' = outstanding \ acked
        /\ ackHeld' \in BOOLEAN
        /\ UNCHANGED <<quicConn, sent, handshakeSent, handshakeOut>>
    BY <1>3, <2>1 DEF AckReceived, TypeOK
  <2>4. \A p \in PN : /\ fb[p] = "arrived" => p \in stamped'
                      /\ fb[p] = "lost" => p \in declaredLost'
    BY <2>2, <2>3 DEF FateHappened, Tracked
  <2>5. TypeOK'
    <3>. HIDE DEF fb
    <3>1. /\ packetFeedback' \in [PN -> Fate] /\ lowestInFlight' \in 0 .. MaxPN + 1
          /\ highestAcked' \in PN /\ recent' \in BOOLEAN /\ rate' \in Rates
          /\ onAck' \in [PN -> Nat] /\ onLoss' \in [PN -> Nat]
      BY <2>1, <2>2, <2>7, TailStep
    <3>. QED
      BY <2>3, <3>1 DEF TypeOK
  <2>. HIDE DEF fb
  <2>. QED
    BY <2>1, <2>2, <2>3, <2>4, <2>5, <2>7, TailKeepsInv DEF IInv
<1>4. ASSUME NEW p \in PN, PacketLost(p) \/ HandshakePacketLost(p) PROVE IInv'
  <2>. DEFINE fb == Recorded({p}, "lost")
  <2>1. /\ fb \in [PN -> Fate]
        /\ \A q \in PN : fb[q] = IF q \in Tracked({p}) THEN "lost" ELSE packetFeedback[q]
    BY RecordedFates DEF Fate
  <2>2. /\ UpdateCongestionControl(fb, highestAcked)
        /\ stamped' = stamped /\ declaredLost' = declaredLost \cup {p}
        /\ inFlightPackets' = inFlightPackets \ Tracked({p})
        /\ outstanding' \subseteq outstanding /\ handshakeOut' \subseteq handshakeOut
        /\ UNCHANGED <<quicConn, sent, handshakeSent, ackHeld>>
    BY <1>4 DEF PacketLost, HandshakePacketLost
  <2>3. p \in sent \cup handshakeSent
    BY <1>4 DEF PacketLost, HandshakePacketLost, TypeOK
  <2>4. \A q \in PN : /\ fb[q] = "arrived" => q \in stamped'
                      /\ fb[q] = "lost" => q \in declaredLost'
    BY <2>1, <2>2 DEF FateHappened, Tracked
  <2>5. TypeOK'
    <3>. HIDE DEF fb
    <3>1. /\ packetFeedback' \in [PN -> Fate] /\ lowestInFlight' \in 0 .. MaxPN + 1
          /\ highestAcked' \in PN /\ recent' \in BOOLEAN /\ rate' \in Rates
          /\ onAck' \in [PN -> Nat] /\ onLoss' \in [PN -> Nat]
      BY <1>0, <2>1, <2>2, TailStep
    <3>. QED
      BY <2>2, <2>3, <3>1 DEF TypeOK
  <2>. HIDE DEF fb
  <2>. QED
    BY <1>0, <2>1, <2>2, <2>4, <2>5, TailKeepsInv DEF IInv
<1>5. CASE OtherEvent
  <2>1. /\ UpdateCongestionControl(packetFeedback, highestAcked)
        /\ UNCHANGED <<inFlightPackets, quicConn, quicVars, ackHeld>>
    BY <1>5 DEF OtherEvent
  <2>2. TypeOK'
    BY <1>0, <2>1, TailStep DEF TypeOK, quicVars
  <2>. QED
    BY <1>0, <2>1, <2>2, TailKeepsInv DEF IInv, FateHappened, quicVars
<1>6. CASE Connected
  BY <1>6 DEF Connected, IInv, TypeOK, FreshAboveHorizon, AtMostOneReport, FateHappened,
              Truthful, trackerVars, bweVars, quicVars
<1>7. CASE GateOpens
  BY <1>7 DEF GateOpens, IInv, TypeOK, FreshAboveHorizon, AtMostOneReport, FateHappened,
              Truthful, trackerVars, quicVars
<1>8. CASE UNCHANGED vars
  BY <1>8 DEF vars, IInv, TypeOK, FreshAboveHorizon, AtMostOneReport, FateHappened,
              Truthful, trackerVars, bweVars, quicVars
<1>. QED
  BY <1>1, <1>2, <1>3, <1>4, <1>5, <1>6, <1>7, <1>8 DEF Next

(* The tracker's variables keep their types. *)
THEOREM TypeCorrect == Spec => []TypeOK
<1>1. IInv => TypeOK
  BY DEF IInv
<1>. QED
  BY <1>1, InitInv, StepInv, PTL DEF Spec

(* The BWE hears of every packet number at most once, by OnAck or by       *)
(* OnLoss, never both.                                                     *)
THEOREM ReportsAtMostOnce == Spec => []AtMostOneReport
<1>1. IInv => AtMostOneReport
  BY DEF IInv
<1>. QED
  BY <1>1, InitInv, StepInv, PTL DEF Spec

(* What the BWE is told about a packet is what happened to it. *)
THEOREM ReportsAreTrue == Spec => []Truthful
<1>1. IInv => Truthful
  BY DEF IInv
<1>. QED
  BY <1>1, InitInv, StepInv, PTL DEF Spec
-----------------------------------------------------------------------------
(* Every step of the tracker either leaves the BWE and the horizon alone   *)
(* or ends with the tail of an event.                                      *)
LEMMA StepEndsWithTail ==
  ASSUME IInv, Next
  PROVE  \/ UNCHANGED <<onAck, onLoss, lowestInFlight>>
         \/ \E fb \in [PN -> Fate], high \in PN :
              highestAcked <= high /\ UpdateCongestionControl(fb, high)
<1>. PN \subseteq Nat
  BY ConstantsOK DEF PN
<1>0. TypeOK /\ packetFeedback \in [PN -> Fate] /\ highestAcked \in PN
      /\ highestAcked <= highestAcked
  BY DEF IInv, TypeOK
<1>1. ASSUME NEW p \in PN, PacketSent(p) \/ HandshakePacketSent(p)
      PROVE  UpdateCongestionControl(packetFeedback, highestAcked)
  BY <1>1 DEF PacketSent, HandshakePacketSent
<1>2. ASSUME NEW acked \in SUBSET sent, NEW times \in SUBSET acked, AckReceived(acked, times)
      PROVE  \E fb \in [PN -> Fate], high \in PN :
               highestAcked <= high /\ UpdateCongestionControl(fb, high)
  <2>1. Recorded(times, "arrived") \in [PN -> Fate]
    BY <1>0, RecordedFates DEF Fate
  <2>. QED
    BY <1>2, <2>1 DEF AckReceived, IsMaximum
<1>3. ASSUME NEW p \in PN, PacketLost(p) \/ HandshakePacketLost(p)
      PROVE  /\ Recorded({p}, "lost") \in [PN -> Fate]
             /\ UpdateCongestionControl(Recorded({p}, "lost"), highestAcked)
  BY <1>0, <1>3, RecordedFates DEF PacketLost, HandshakePacketLost, Fate
<1>4. OtherEvent => UpdateCongestionControl(packetFeedback, highestAcked)
  BY DEF OtherEvent
<1>5. Connected \/ GateOpens => UNCHANGED <<onAck, onLoss, lowestInFlight>>
  BY DEF Connected, GateOpens, trackerVars, bweVars
<1>. QED
  BY <1>0, <1>1, <1>2, <1>3, <1>4, <1>5 DEF Next

LEMMA StepImplementsLedger ==
  IInv /\ IInv' /\ [Next]_vars => [Ledger!Next]_(Ledger!vars)
<1>. SUFFICES ASSUME IInv, IInv', [Next]_vars
              PROVE  [Ledger!Next]_(Ledger!vars)
  OBVIOUS
<1>. MaxPN \in Nat /\ PN \subseteq Nat /\ Ledger!PN = PN
  BY ConstantsOK DEF PN, Ledger!PN
<1>1. CASE UNCHANGED <<onAck, onLoss, lowestInFlight>>
  BY <1>1 DEF Ledger!vars
<1>2. ASSUME NEW fb \in [PN -> Fate], NEW high \in PN, highestAcked <= high,
             UpdateCongestionControl(fb, high)
      PROVE  Ledger!Next
  <2>1. /\ lowestInFlight' \in 0 .. MaxPN + 1
        /\ lowestInFlight <= lowestInFlight'
        /\ \A p \in PN :
             IF lowestInFlight <= p /\ p < lowestInFlight'
             THEN /\ onAck'[p] = IF fb[p] = "arrived" THEN 1 ELSE 0
                  /\ onLoss'[p] = IF fb[p] = "lost" THEN 1 ELSE 0
             ELSE onAck'[p] = onAck[p] /\ onLoss'[p] = onLoss[p]
    BY <1>2, TailStep DEF IInv
  <2>2. lowestInFlight' \in lowestInFlight .. MaxPN + 1
    BY <2>1 DEF IInv, TypeOK
  <2>3. onAck' \in [PN -> {0, 1}] /\ onLoss' \in [PN -> {0, 1}]
    <3>1. onAck' \in [PN -> Nat] /\ onLoss' \in [PN -> Nat]
      BY DEF IInv, TypeOK
    <3>2. \A p \in PN : onAck'[p] + onLoss'[p] <= 1
      BY DEF IInv, AtMostOneReport
    <3>3. \A p \in PN : onAck'[p] \in {0, 1} /\ onLoss'[p] \in {0, 1}
      BY <3>1, <3>2
    <3>. QED
      BY <3>1, <3>3
  <2>4. \A p \in PN :
          IF lowestInFlight <= p /\ p < lowestInFlight'
          THEN onAck'[p] + onLoss'[p] <= 1
          ELSE onAck'[p] = onAck[p] /\ onLoss'[p] = onLoss[p]
    BY <2>1 DEF IInv, AtMostOneReport
  <2>. QED
    BY <2>2, <2>3, <2>4 DEF Ledger!Next, Ledger!Settle
<1>3. CASE UNCHANGED vars
  BY <1>3 DEF vars, trackerVars, bweVars, Ledger!vars
<1>. QED
  BY <1>1, <1>2, <1>3, StepEndsWithTail

(* The tracker implements the abstract ledger: it settles the numbers in   *)
(* batches that never go back, and says at most one thing about each.      *)
THEOREM ImplementsLedger == Spec => LedgerSpec
<1>1. Init => Ledger!Init
  BY DEF Init, Ledger!Init, Ledger!PN, PN
<1>. QED
  BY <1>1, InitInv, StepInv, StepImplementsLedger, PTL DEF Spec, LedgerSpec, Ledger!Spec
-----------------------------------------------------------------------------
(* What keeps a loss from the BWE while every ACK is digested at once: all *)
(* settled 1-RTT numbers lie below the horizon, and quic-go declares lost  *)
(* only what lies below a settled number.                                  *)
SettledBelowHorizon ==
  ~ackHeld =>
    /\ \A q \in sent \ outstanding : q < lowestInFlight
    /\ \A p \in PN \ handshakeSent : packetFeedback[p] # "lost" /\ onLoss[p] = 0

LEMMA SettledBelowHorizonStep ==
  IInv /\ SettledBelowHorizon /\ [Next]_vars => SettledBelowHorizon'
<1>. SUFFICES ASSUME IInv, SettledBelowHorizon, [Next]_vars, ~ackHeld'
              PROVE  /\ \A q \in (sent \ outstanding)' : q < lowestInFlight'
                     /\ \A p \in PN \ handshakeSent' :
                          packetFeedback'[p] # "lost" /\ onLoss'[p] = 0
  BY DEF SettledBelowHorizon
<1>. MaxPN \in Nat /\ PN \subseteq Nat
  BY ConstantsOK DEF PN
<1>0. /\ TypeOK /\ packetFeedback \in [PN -> Fate] /\ highestAcked \in PN
      /\ highestAcked <= highestAcked
      /\ lowestInFlight \in Nat /\ sent \subseteq Nat
  BY DEF IInv, TypeOK
(* The tail, on a list without losses of 1-RTT packets. *)
<1>1. ASSUME NEW fb \in [PN -> Fate], NEW high \in PN, highestAcked <= high,
             UpdateCongestionControl(fb, high), ~ackHeld,
             handshakeSent \subseteq handshakeSent',
             \A p \in PN \ handshakeSent' : fb[p] # "lost"
      PROVE  /\ lowestInFlight' \in Nat /\ lowestInFlight <= lowestInFlight'
             /\ \A p \in PN \ handshakeSent' :
                  packetFeedback'[p] # "lost" /\ onLoss'[p] = 0
  <2>1. /\ lowestInFlight' \in 0 .. MaxPN + 1
        /\ lowestInFlight <= lowestInFlight'
        /\ \A p \in PN : packetFeedback'[p] \in {fb[p], "none"}
        /\ \A p \in PN : onLoss'[p] = onLoss[p] \/ onLoss'[p] = IF fb[p] = "lost" THEN 1 ELSE 0
    BY <1>0, <1>1, TailStep DEF IInv
  <2>. QED
    BY <1>1, <2>1 DEF SettledBelowHorizon
<1>2. ASSUME NEW p \in PN, PacketSent(p) \/ HandshakePacketSent(p)
      PROVE  /\ ~ackHeld
             /\ UpdateCongestionControl(packetFeedback, highestAcked)
             /\ handshakeSent \subseteq handshakeSent'
             /\ sent' \ outstanding' \subseteq sent \ outstanding
  BY <1>2 DEF PacketSent, HandshakePacketSent
<1>3. ASSUME NEW p \in PN, PacketSent(p) \/ HandshakePacketSent(p)
      PROVE  /\ \A q \in (sent \ outstanding)' : q < lowestInFlight'
             /\ \A q \in PN \ handshakeSent' :
                  packetFeedback'[q] # "lost" /\ onLoss'[q] = 0
  <2>1. /\ ~ackHeld
        /\ UpdateCongestionControl(packetFeedback, highestAcked)
        /\ handshakeSent \subseteq handshakeSent'
        /\ (sent \ outstanding)' \subseteq sent \ outstanding
    BY <1>2, <1>3
  <2>2. /\ \A q \in sent \ outstanding : q < lowestInFlight
        /\ \A q \in PN \ handshakeSent' : packetFeedback[q] # "lost"
    BY <2>1 DEF SettledBelowHorizon
  <2>3. /\ lowestInFlight' \in Nat /\ lowestInFlight <= lowestInFlight'
        /\ \A q \in PN \ handshakeSent' :
             packetFeedback'[q] # "lost" /\ onLoss'[q] = 0
    BY <1>0, <1>1, <2>1, <2>2
  <2>4. ASSUME NEW q \in (sent \ outstanding)' PROVE q < lowestInFlight'
    <3>1. q \in Nat /\ q < lowestInFlight
      BY <1>0, <2>1, <2>2
    <3>. QED
      BY <1>0, <2>3, <3>1
  <2>. QED
    BY <2>3, <2>4
<1>4. ASSUME NEW acked \in SUBSET sent, NEW times \in SUBSET acked, AckReceived(acked, times)
      PROVE  /\ \A q \in (sent \ outstanding)' : q < lowestInFlight'
             /\ \A p \in PN \ handshakeSent' :
                  packetFeedback'[p] # "lost" /\ onLoss'[p] = 0
  <2>. DEFINE fb == Recorded(times, "arrived")
  <2>1. PICK high \in PN :
          /\ IsMaximum(high, times \cup {highestAcked})
          /\ UpdateCongestionControl(fb, high)
          /\ ackHeld' = (ackHeld \/ ~quicConn \/ recent \/ \E p \in acked : p > high)
    BY <1>4 DEF AckReceived
  <2>2. /\ ~ackHeld /\ quicConn /\ ~recent
        /\ \A p \in acked : p <= high
    <3>1. ~(ackHeld \/ ~quicConn \/ recent \/ \E p \in acked : p > high)
      BY <2>1
    <3>. QED
      BY <1>0, <3>1
  <2>3. /\ fb \in [PN -> Fate] /\ highestAcked <= high
        /\ handshakeSent' = handshakeSent
        /\ \A p \in PN \ handshakeSent' : fb[p] # "lost"
    BY <1>0, <1>4, <2>1, <2>2, RecordedFates
       DEF AckReceived, IsMaximum, SettledBelowHorizon, Fate
  <2>4. lowestInFlight' = high + 1
    BY <2>1, <2>2 DEF UpdateCongestionControl, UpdateBWE, UpdateTo
  <2>5. (sent \ outstanding)' = (sent \ outstanding) \cup acked
    BY <1>4, <1>0 DEF AckReceived, TypeOK
  <2>. HIDE DEF fb
  <2>6. /\ lowestInFlight <= lowestInFlight'
        /\ \A p \in PN \ handshakeSent' :
             packetFeedback'[p] # "lost" /\ onLoss'[p] = 0
    BY <1>1, <2>1, <2>2, <2>3
  <2>7. ASSUME NEW q \in (sent \ outstanding)' PROVE q < lowestInFlight'
    <3>1. CASE q \in acked
      BY <1>0, <2>2, <2>4, <3>1
    <3>2. CASE q \in sent \ outstanding
      <4>1. q < lowestInFlight
        BY <2>2, <3>2 DEF SettledBelowHorizon
      <4>. QED
        BY <1>0, <2>4, <2>6, <3>2, <4>1
    <3>. QED
      BY <2>5, <3>1, <3>2
  <2>. QED
    BY <2>6, <2>7
<1>5. ASSUME NEW p \in PN, PacketLost(p) \/ HandshakePacketLost(p)
      PROVE  /\ \A q \in (sent \ outstanding)' : q < lowestInFlight'
             /\ \A q \in PN \ handshakeSent' :
                  packetFeedback'[q] # "lost" /\ onLoss'[q] = 0
  <2>. DEFINE fb == Recorded({p}, "lost")
  <2>1. /\ ~ackHeld /\ UpdateCongestionControl(fb, highestAcked)
        /\ handshakeSent' = handshakeSent /\ sent' = sent
        /\ fb \in [PN -> Fate]
        /\ \A q \in PN : fb[q] = IF q \in Tracked({p}) THEN "lost" ELSE packetFeedback[q]
    BY <1>0, <1>5, RecordedFates DEF PacketLost, HandshakePacketLost, Fate
  <2>2. /\ p \in handshakeSent \/ p < lowestInFlight
        /\ \A q \in (sent \ outstanding)' : q < lowestInFlight
    <3>1. CASE PacketLost(p)
      <4>1. /\ outstanding' = outstanding \ {p}
            /\ p \in outstanding /\ \E q \in sent \ outstanding : q > p
        BY <3>1 DEF PacketLost
      <4>2. p < lowestInFlight
        BY <1>0, <2>1, <4>1 DEF SettledBelowHorizon
      <4>. QED
        BY <2>1, <4>1, <4>2 DEF SettledBelowHorizon
    <3>2. CASE HandshakePacketLost(p)
      <4>1. outstanding' = outstanding /\ p \in handshakeSent
        BY <1>0, <3>2 DEF HandshakePacketLost, TypeOK
      <4>. QED
        BY <2>1, <4>1 DEF SettledBelowHorizon
    <3>. QED
      BY <1>5, <3>1, <3>2
  <2>3. \A q \in PN \ handshakeSent' : fb[q] # "lost"
    BY <1>0, <2>1, <2>2 DEF Tracked, SettledBelowHorizon
  <2>. HIDE DEF fb
  <2>4. /\ lowestInFlight' \in Nat /\ lowestInFlight <= lowestInFlight'
        /\ \A q \in PN \ handshakeSent' :
             packetFeedback'[q] # "lost" /\ onLoss'[q] = 0
    BY <1>0, <1>1, <2>1, <2>3
  <2>5. (sent \ outstanding)' \subseteq Nat
    BY <1>0, <2>1
  <2>. QED
    BY <1>0, <2>2, <2>4, <2>5
<1>6. ASSUME OtherEvent
      PROVE  /\ \A q \in (sent \ outstanding)' : q < lowestInFlight'
             /\ \A q \in PN \ handshakeSent' :
                  packetFeedback'[q] # "lost" /\ onLoss'[q] = 0
  BY <1>0, <1>1, <1>6 DEF OtherEvent, quicVars, SettledBelowHorizon
<1>7. CASE Connected \/ GateOpens \/ UNCHANGED vars
  BY <1>7 DEF Connected, GateOpens, vars, trackerVars, bweVars, quicVars, SettledBelowHorizon
<1>. QED
  BY <1>3, <1>4, <1>5, <1>6, <1>7 DEF Next

(* As long as every ACK was digested at once, the BWE heard of no loss of  *)
(* a 1-RTT packet.                                                         *)
THEOREM NoLossWhileAcksAreDigested == Spec => []LossOnlyAfterHeldAck
<1>1. Init => SettledBelowHorizon
  BY DEF Init, SettledBelowHorizon
<1>2. SettledBelowHorizon => LossOnlyAfterHeldAck
  BY DEF SettledBelowHorizon, LossOnlyAfterHeldAck
<1>. QED
  BY <1>1, <1>2, InitInv, StepInv, SettledBelowHorizonStep, PTL DEF Spec
-----------------------------------------------------------------------------
LEMMA StrandedStep ==
  IInv /\ IInv' /\ StrandedOnlyBelowHorizon /\ [Next]_vars => StrandedOnlyBelowHorizon'
<1>. SUFFICES ASSUME IInv, IInv', StrandedOnlyBelowHorizon, [Next]_vars,
                     NEW p \in inFlightPackets', p >= lowestInFlight',
                     p \notin handshakeSent'
              PROVE  p \notin (stamped \cup declaredLost)'
  BY DEF StrandedOnlyBelowHorizon
<1>. MaxPN \in Nat /\ PN \subseteq Nat
  BY ConstantsOK DEF PN
<1>0. /\ TypeOK /\ p \in Nat /\ lowestInFlight \in Nat /\ lowestInFlight' \in Nat
  BY DEF IInv, TypeOK
<1>1. lowestInFlight <= lowestInFlight'
  <2>1. CASE UNCHANGED vars
    BY <1>0, <2>1 DEF vars, trackerVars
  <2>2. ASSUME NEW fb \in [PN -> Fate], NEW high \in PN, highestAcked <= high,
               UpdateCongestionControl(fb, high)
        PROVE  lowestInFlight <= lowestInFlight'
    BY <2>2, TailStep DEF IInv
  <2>. QED
    BY <1>0, <2>1, <2>2, StepEndsWithTail
<1>2. p >= lowestInFlight
  BY <1>0, <1>1
<1>3. ASSUME p \in inFlightPackets, p \notin handshakeSent
      PROVE  p \notin stamped \cup declaredLost
  BY <1>2, <1>3 DEF StrandedOnlyBelowHorizon
<1>4. ASSUME NEW q \in PN, PacketSent(q) PROVE p \notin (stamped \cup declaredLost)'
  <2>1. CASE p = q
    <3>1. q \notin sent
      BY <1>0, <1>4 DEF PacketSent, TypeOK
    <3>. QED
      BY <1>0, <1>4, <2>1, <3>1 DEF PacketSent, TypeOK
  <2>. QED
    BY <1>3, <1>4, <2>1 DEF PacketSent
<1>5. ASSUME NEW q \in PN, HandshakePacketSent(q) PROVE p \notin (stamped \cup declaredLost)'
  BY <1>3, <1>5 DEF HandshakePacketSent
<1>6. ASSUME NEW acked \in SUBSET sent, NEW times \in SUBSET acked, AckReceived(acked, times)
      PROVE  p \notin (stamped \cup declaredLost)'
  BY <1>2, <1>3, <1>6 DEF AckReceived, Tracked
<1>7. ASSUME NEW q \in PN, PacketLost(q) \/ HandshakePacketLost(q)
      PROVE  p \notin (stamped \cup declaredLost)'
  BY <1>2, <1>3, <1>7 DEF PacketLost, HandshakePacketLost, Tracked
<1>8. CASE OtherEvent \/ Connected \/ GateOpens \/ UNCHANGED vars
  BY <1>3, <1>8 DEF OtherEvent, Connected, GateOpens, vars, trackerVars, quicVars
<1>. QED
  BY <1>4, <1>5, <1>6, <1>7, <1>8 DEF Next

(* A packet quic-go has settled stays in the in-flight list only below the *)
(* horizon, or when its ACK carried no timestamp for it.                   *)
THEOREM LeaksOnlyBelowHorizon == Spec => []StrandedOnlyBelowHorizon
<1>1. Init => StrandedOnlyBelowHorizon
  BY DEF Init, StrandedOnlyBelowHorizon
<1>. QED
  BY <1>1, InitInv, StepInv, StrandedStep, PTL DEF Spec
-----------------------------------------------------------------------------
(* Streams.  What is dispatched was accepted by the loop, so the handlers  *)
(* are started, and with them assigned in the programs that assign first.  *)
StreamStates ==
  {"none", "open", "dispatched", "reset", "dropped", "rtp", "data"}

(* A stream waits in the list once, until the loop takes it.               *)
AcceptedOnce ==
  /\ incoming \in Seq(Streams)
  /\ \A k \in DOMAIN incoming : stream[incoming[k]] = "open"
  /\ \A j, k \in DOMAIN incoming : incoming[j] = incoming[k] => j = k
  /\ loop = "reading" =>
       /\ current \in Streams /\ stream[current] = "open"
       /\ \A k \in DOMAIN incoming : incoming[k] # current

DispatchInv ==
  /\ stream \in [Streams -> StreamStates]
  /\ loop # "not started" => started
  /\ \A s \in Streams : stream[s] = "dispatched" => started
  /\ started => (assignFirst => assigned)
  /\ NoneDroppedIfAssignedFirst
  /\ AcceptedOnce

LEMMA StreamInitInv == StreamInit => DispatchInv
<1> SUFFICES ASSUME StreamInit PROVE DispatchInv
  OBVIOUS
<1>1. stream \in [Streams -> StreamStates] /\ \A s \in Streams : stream[s] = "none"
  BY DEF StreamInit, StreamStates
<1>2. incoming = <<>> /\ loop = "not started" /\ ~started
  BY DEF StreamInit
<1>3. AcceptedOnce
  <2>1. <<>> \in Seq(Streams) /\ DOMAIN <<>> = {}
    OBVIOUS
  <2>2. incoming \in Seq(Streams) /\ DOMAIN incoming = {} /\ loop # "reading"
    BY <1>2, <2>1
  <2> QED
    BY <2>2, Zenon DEF AcceptedOnce
<1> QED
  BY <1>1, <1>2, <1>3 DEF DispatchInv, NoneDroppedIfAssignedFirst

(* Only a stream that was accepted becomes dispatched, and only one that   *)
(* is dispatched before there are handlers is dropped.                     *)
LEMMA KeepsDispatch ==
  ASSUME DispatchInv, UNCHANGED setupVars, NEW s \in Streams, NEW to \in StreamStates,
         stream' = [stream EXCEPT ![s] = to],
         to = "dispatched" => started, to = "dropped" => started /\ ~assigned
  PROVE  /\ stream' \in [Streams -> StreamStates]
         /\ \A x \in Streams : stream'[x] = IF x = s THEN to ELSE stream[x]
         /\ \A x \in Streams : stream'[x] = "dispatched" => started'
         /\ NoneDroppedIfAssignedFirst'
<1>1. stream' \in [Streams -> StreamStates]
  BY DEF DispatchInv
<1>2. assignFirst' = assignFirst /\ started' = started /\ assigned' = assigned
  BY DEF setupVars
<1>3. ASSUME NEW x \in Streams PROVE stream'[x] = IF x = s THEN to ELSE stream[x]
  BY DEF DispatchInv
<1>4. \A x \in Streams : stream'[x] = "dispatched" => started'
  BY <1>2, <1>3 DEF DispatchInv
<1>5. assignFirst => to # "dropped"
  BY DEF DispatchInv
<1>6. NoneDroppedIfAssignedFirst'
  BY <1>2, <1>3, <1>5 DEF DispatchInv, NoneDroppedIfAssignedFirst
<1> QED
  BY <1>1, <1>3, <1>4, <1>6

(* The list and the loop do not notice what happens to a stream that is    *)
(* not open.                                                               *)
LEMMA KeepsAccepted ==
  ASSUME AcceptedOnce, NEW s \in Streams, stream[s] # "open", UNCHANGED <<incoming, current>>,
         loop' = "reading" => loop = "reading",
         \A x \in Streams : x # s => stream'[x] = stream[x]
  PROVE  AcceptedOnce'
<1>1. \A k \in DOMAIN incoming : incoming[k] \in Streams /\ incoming[k] # s
  BY DEF AcceptedOnce
<1>2. loop = "reading" => current # s
  BY DEF AcceptedOnce
<1> QED
  BY <1>1, <1>2 DEF AcceptedOnce

LEMMA AppendNew ==
  ASSUME NEW S, NEW q \in Seq(S), NEW e \in S, \A k \in DOMAIN q : q[k] # e,
         \A j, k \in DOMAIN q : q[j] = q[k] => j = k
  PROVE  /\ Append(q, e) \in Seq(S)
         /\ \A k \in DOMAIN Append(q, e) : Append(q, e)[k] = e \/ \E j \in DOMAIN q : q[j] = Append(q, e)[k]
         /\ \A j, k \in DOMAIN Append(q, e) : Append(q, e)[j] = Append(q, e)[k] => j = k
<1>1. /\ Append(q, e) \in Seq(S) /\ DOMAIN Append(q, e) = DOMAIN q \cup {Len(q) + 1}
      /\ Append(q, e)[Len(q) + 1] = e
      /\ \A k \in DOMAIN q : Append(q, e)[k] = q[k]
  OBVIOUS
<1> QED
  BY <1>1

LEMMA TailDistinct ==
  ASSUME NEW S, NEW q \in Seq(S), q # <<>>, \A j, k \in DOMAIN q : q[j] = q[k] => j = k
  PROVE  /\ Head(q) \in S /\ Tail(q) \in Seq(S) /\ \E k \in DOMAIN q : q[k] = Head(q)
         /\ \A k \in DOMAIN Tail(q) : /\ Tail(q)[k] # Head(q)
                                      /\ \E j \in DOMAIN q : q[j] = Tail(q)[k]
         /\ \A j, k \in DOMAIN Tail(q) : Tail(q)[j] = Tail(q)[k] => j = k
<1>1. /\ Head(q) \in S /\ Tail(q) \in Seq(S) /\ 1 \in DOMAIN q /\ Head(q) = q[1]
      /\ \A k \in DOMAIN Tail(q) : k + 1 \in DOMAIN q /\ k + 1 # 1 /\ Tail(q)[k] = q[k + 1]
  OBVIOUS
<1>2. \A j, k \in DOMAIN Tail(q) : j + 1 = k + 1 => j = k
  OBVIOUS
<1> QED
  BY <1>1, <1>2

LEMMA DispatchStep ==
  ASSUME DispatchInv, [StreamNext]_streamVars
  PROVE  DispatchInv'
<1>1. ASSUME UNCHANGED <<setupVars, stream, loop, incoming, current>>
      PROVE DispatchInv'
  <2>1. AcceptedOnce'
    BY <1>1 DEF DispatchInv, AcceptedOnce
  <2> QED
    BY <1>1, <2>1 DEF DispatchInv, setupVars, NoneDroppedIfAssignedFirst
<1>2. CASE AssignHandlers \/ StartHandlers
  <2>1. /\ UNCHANGED <<stream, assignFirst, incoming, current, closed>>
        /\ started => started'
        /\ started' => (assignFirst' => assigned')
        /\ loop' = loop \/ (loop' = "accepting" /\ started')
    <3>1. CASE AssignHandlers
      BY <3>1 DEF AssignHandlers, peerVars
    <3>2. CASE StartHandlers
      <4>1. /\ UNCHANGED <<stream, assignFirst, assigned, incoming, current, closed>>
            /\ started' /\ loop' = "accepting"
        BY <3>2 DEF StartHandlers, peerVars
      <4>2. assignFirst => assigned
        BY <3>2 DEF StartHandlers, MayStart
      <4> QED
        BY <4>1, <4>2
    <3> QED
      BY <1>2, <3>1, <3>2
  <2>2. AcceptedOnce'
    BY <2>1 DEF DispatchInv, AcceptedOnce
  <2> QED
    BY <2>1, <2>2 DEF DispatchInv, NoneDroppedIfAssignedFirst
<1>4. ASSUME NEW s \in Streams, OpenStream(s) PROVE DispatchInv'
  <2>1. /\ UNCHANGED setupVars /\ stream' = [stream EXCEPT ![s] = "open"] /\ stream[s] = "none"
        /\ UNCHANGED <<loop, current, closed>> /\ incoming' = Append(incoming, s)
    BY <1>4 DEF OpenStream
  <2>2. /\ stream' \in [Streams -> StreamStates]
        /\ \A x \in Streams : stream'[x] = IF x = s THEN "open" ELSE stream[x]
        /\ \A x \in Streams : stream'[x] = "dispatched" => started'
        /\ NoneDroppedIfAssignedFirst'
    BY <2>1, KeepsDispatch DEF StreamStates
  <2>3. AcceptedOnce'
    <3> PICK q \in Seq(Streams) : q = incoming
      BY DEF DispatchInv, AcceptedOnce
    <3>1. /\ \A k \in DOMAIN q : q[k] # s /\ stream'[q[k]] = "open"
          /\ \A j, k \in DOMAIN q : q[j] = q[k] => j = k
      <4>1. /\ \A k \in DOMAIN q : stream[q[k]] = "open"
            /\ \A j, k \in DOMAIN q : q[j] = q[k] => j = k
        BY DEF DispatchInv, AcceptedOnce
      <4>2. \A k \in DOMAIN q : q[k] \in Streams
        OBVIOUS
      <4>3. \A k \in DOMAIN q : q[k] # s
        BY <2>1, <4>1
      <4> QED
        BY <4>1, <4>2, <4>3, <2>2
    <3>2. /\ Append(q, s) \in Seq(Streams)
          /\ \A k \in DOMAIN Append(q, s) :
               Append(q, s)[k] = s \/ \E j \in DOMAIN q : q[j] = Append(q, s)[k]
          /\ \A j, k \in DOMAIN Append(q, s) : Append(q, s)[j] = Append(q, s)[k] => j = k
      BY <3>1, AppendNew
    <3>3. stream'[s] = "open"
      BY <2>2
    <3>4. \A k \in DOMAIN Append(q, s) : stream'[Append(q, s)[k]] = "open"
      BY <3>1, <3>2, <3>3
    <3>5. loop = "reading" =>
            /\ current \in Streams /\ stream[current] = "open" /\ current # s
            /\ \A j \in DOMAIN q : q[j] # current
      BY <2>1 DEF DispatchInv, AcceptedOnce
    <3>6. loop' = "reading" =>
            /\ current' \in Streams /\ stream'[current'] = "open"
            /\ \A k \in DOMAIN Append(q, s) : Append(q, s)[k] # current'
      BY <2>1, <2>2, <3>2, <3>5
    <3>7. incoming' = Append(q, s)
      BY <2>1
    <3> HIDE DEF Append
    <3> QED
      BY <3>2, <3>4, <3>6, <3>7 DEF AcceptedOnce
  <2> QED
    BY <2>1, <2>2, <2>3 DEF DispatchInv, setupVars
<1>5. ASSUME NEW s \in Streams, SendFlowID(s) \/ CancelStream(s) \/ EndStream(s) PROVE DispatchInv'
  BY <1>1, <1>5 DEF SendFlowID, CancelStream, EndStream
<1>6. CASE Close
  BY <1>1, <1>6 DEF Close, peerVars
<1>7. CASE AcceptStream
  <2>1. /\ UNCHANGED <<setupVars, stream, closed>> /\ loop = "accepting" /\ loop' = "reading"
        /\ current' = Head(incoming) /\ incoming' = Tail(incoming) /\ incoming # <<>>
    BY <1>7 DEF AcceptStream
  <2> PICK q \in Seq(Streams) : q = incoming
    BY DEF DispatchInv, AcceptedOnce
  <2>2. /\ \A k \in DOMAIN q : stream[q[k]] = "open"
        /\ \A j, k \in DOMAIN q : q[j] = q[k] => j = k
    BY DEF DispatchInv, AcceptedOnce
  <2>3. /\ Head(q) \in Streams /\ Tail(q) \in Seq(Streams) /\ \E k \in DOMAIN q : q[k] = Head(q)
        /\ \A k \in DOMAIN Tail(q) : /\ Tail(q)[k] # Head(q)
                                     /\ \E j \in DOMAIN q : q[j] = Tail(q)[k]
        /\ \A j, k \in DOMAIN Tail(q) : Tail(q)[j] = Tail(q)[k] => j = k
    BY <2>1, <2>2, TailDistinct
  <2>4. current' = Head(q) /\ incoming' = Tail(q)
    BY <2>1
  <2>5. AcceptedOnce'
    <3>0. stream' = stream
      BY <2>1
    <3>1. incoming' \in Seq(Streams) /\ current' \in Streams
      BY <2>3, <2>4
    <3>5. ASSUME NEW k \in DOMAIN Tail(q) PROVE stream[Tail(q)[k]] = "open"
      <4>1. PICK j \in DOMAIN q : q[j] = Tail(q)[k]
        BY <2>3
      <4> QED
        BY <4>1, <2>2
    <3>6. stream[Head(q)] = "open"
      <4>1. PICK j \in DOMAIN q : q[j] = Head(q)
        BY <2>3
      <4> QED
        BY <4>1, <2>2
    <3>2. \A k \in DOMAIN incoming' : stream'[incoming'[k]] = "open" /\ incoming'[k] # current'
      BY <3>0, <3>5, <2>3, <2>4
    <3>3. \A j, k \in DOMAIN incoming' : incoming'[j] = incoming'[k] => j = k
      BY <2>3, <2>4, Zenon
    <3>4. stream'[current'] = "open"
      BY <3>0, <3>6, <2>4
    <3> QED
      BY <3>1, <3>2, <3>3, <3>4, Zenon DEF AcceptedOnce
  <2> QED
    BY <2>1, <2>5 DEF DispatchInv, setupVars, NoneDroppedIfAssignedFirst
<1>8. CASE ReadFlowID \/ SkipReset
  <2>1. /\ UNCHANGED <<setupVars, incoming, closed>> /\ loop = "reading" /\ loop' = "accepting"
        /\ \E to \in {"dispatched", "reset"} : stream' = [stream EXCEPT ![current] = to]
    BY <1>8 DEF ReadFlowID, SkipReset, peerVars
  <2>2. current \in Streams /\ started /\ \A k \in DOMAIN incoming : incoming[k] # current
    BY <2>1 DEF DispatchInv, AcceptedOnce
  <2>3. PICK to \in {"dispatched", "reset"} : stream' = [stream EXCEPT ![current] = to]
    BY <2>1
  <2>4. to \in StreamStates /\ to # "dropped"
    BY DEF StreamStates
  <2>5. /\ stream' \in [Streams -> StreamStates]
        /\ \A x \in Streams : stream'[x] = IF x = current THEN to ELSE stream[x]
        /\ \A x \in Streams : stream'[x] = "dispatched" => started'
        /\ NoneDroppedIfAssignedFirst'
    BY <2>1, <2>2, <2>3, <2>4, KeepsDispatch
  <2>6. AcceptedOnce'
    BY <2>1, <2>2, <2>5 DEF DispatchInv, AcceptedOnce
  <2> QED
    BY <2>1, <2>2, <2>5, <2>6 DEF DispatchInv, setupVars
<1>9. CASE LoopReturns \/ Panic
  <2>1. /\ UNCHANGED <<setupVars, stream, incoming, current, closed>>
        /\ loop \in {"accepting", "reading"} /\ loop' \in {"returned", "panicked"}
    BY <1>9 DEF LoopReturns, Panic, peerVars
  <2>2. AcceptedOnce'
    BY <2>1 DEF DispatchInv, AcceptedOnce
  <2> QED
    BY <2>1, <2>2 DEF DispatchInv, setupVars, NoneDroppedIfAssignedFirst
<1>10. ASSUME NEW s \in Streams, Handle(s) PROVE DispatchInv'
  <2>1. /\ UNCHANGED <<setupVars, incoming, closed, loop, current>>
        /\ stream[s] = "dispatched"
        /\ \E to \in {"dropped", "rtp", "data"} :
             stream' = [stream EXCEPT ![s] = to] /\ (to = "dropped" => ~assigned)
    BY <1>10 DEF Handle, DropStream, HandleRTP, HandleFirstOfChannel, HandleMoreOfChannel, peerVars
  <2>2. PICK to \in {"dropped", "rtp", "data"} :
             stream' = [stream EXCEPT ![s] = to] /\ (to = "dropped" => ~assigned)
    BY <2>1
  <2>3. to \in StreamStates /\ to # "dispatched" /\ started
    BY <2>1 DEF StreamStates, DispatchInv
  <2>4. /\ stream' \in [Streams -> StreamStates]
        /\ \A x \in Streams : stream'[x] = IF x = s THEN to ELSE stream[x]
        /\ \A x \in Streams : stream'[x] = "dispatched" => started'
        /\ NoneDroppedIfAssignedFirst'
    BY <2>1, <2>2, <2>3, KeepsDispatch
  <2>5. AcceptedOnce'
    BY <2>1, <2>4, KeepsAccepted DEF DispatchInv
  <2> QED
    BY <2>1, <2>4, <2>5 DEF DispatchInv, setupVars
<1>11. ASSUME NEW c \in Channels, CallReceiver(c) \/ Rendezvous(c) PROVE DispatchInv'
  BY <1>1, <1>11 DEF CallReceiver, Rendezvous, peerVars
<1>12. CASE UNCHANGED streamVars
  BY <1>1, <1>12 DEF streamVars, peerVars
<1> QED
  BY <1>2, <1>4, <1>5, <1>6, <1>7, <1>8, <1>9, <1>10, <1>11, <1>12
  DEF StreamNext, Setup, Peer, LoopStep

(* A program that installs its handler before it starts the loop drops no  *)
(* stream (receive.go 233, transport.go 170-210).                          *)
THEOREM NoStreamIsDropped == StreamSpec => []NoneDroppedIfAssignedFirst
<1>1. DispatchInv => NoneDroppedIfAssignedFirst
  BY DEF DispatchInv
<1>2. DispatchInv /\ [StreamNext]_streamVars => DispatchInv'
  BY DispatchStep
<1> QED
  BY StreamInitInv, <1>1, <1>2, PTL DEF StreamSpec
-----------------------------------------------------------------------------
(* The rendezvous of data channels.  Only a callback that sends holds the  *)
(* mutex, so two never send at once; a receiver has its data channel if    *)
(* and only if the callback has returned; and the peer opened a stream for *)
(* every data channel that is announced.                                   *)
HolderSends == \A c \in Channels : callback[c] = "sending" <=> mutex = c
BothOrNone == \A c \in Channels : receiver[c] = "got" <=> callback[c] = "returned"
AnnouncedByStream ==
  \A c \in Channels :
    callback[c] # "none" => \E s \in Streams : stream[s] = "data" /\ flow[s] = c
RendezvousIsExact == HolderSends /\ BothOrNone /\ AnnouncedByStream

CallStates == {"none", "called", "sending", "waiting", "returned", "got"}
CallTypes ==
  /\ mutex \in Channels \cup {NoChannel}
  /\ callback \in [Channels -> CallStates] /\ receiver \in [Channels -> CallStates]
RendezvousInv == CallTypes /\ RendezvousIsExact

(* What happens to the calls, with the stream states left alone.           *)
LEMMA CallStep ==
  ASSUME CallTypes, HolderSends, BothOrNone, NEW c \in Channels,
         AddDataChannelReceiver(c) \/ IncomingDataChannel(c) \/ DCStep(c)
  PROVE  /\ CallTypes' /\ HolderSends' /\ BothOrNone'
         /\ \A d \in Channels : callback[d] = "none" =>
              callback'[d] = "none" \/ (d = c /\ IncomingDataChannel(c))
<1> USE DEF CallTypes, CallStates
<1>0. NoChannel \notin Channels
  BY NoChannelIsNone
<1>1. CASE AddDataChannelReceiver(c)
  BY <1>1 DEF AddDataChannelReceiver, HolderSends, BothOrNone
<1>2. CASE IncomingDataChannel(c)
  BY <1>2 DEF IncomingDataChannel, HolderSends, BothOrNone
<1>3. CASE Register(c)
  BY <1>3 DEF Register, HolderSends, BothOrNone
<1>4. CASE OfferChannel(c)
  BY <1>0, <1>4 DEF OfferChannel, HolderSends, BothOrNone
<1>5. CASE HandOver(c)
  BY <1>0, <1>5 DEF HandOver, HolderSends, BothOrNone
<1> QED
  BY <1>1, <1>2, <1>3, <1>4, <1>5 DEF DCStep

(* A stream that is data stays data: the loop reads open streams only.     *)
LEMMA DataStays ==
  ASSUME DispatchInv, [StreamNext]_streamVars
  PROVE  /\ flow' = flow
         /\ \A s \in Streams : stream[s] = "data" => stream'[s] = "data"
<1> USE DEF DispatchInv, AcceptedOnce
<1>1. CASE AssignHandlers \/ StartHandlers \/ Close \/ AcceptStream \/ LoopReturns \/ Panic
  BY <1>1 DEF AssignHandlers, StartHandlers, Close, AcceptStream, LoopReturns, Panic, peerVars
<1>2. ASSUME NEW s \in Streams, OpenStream(s) \/ SendFlowID(s) \/ CancelStream(s) \/ EndStream(s)
      PROVE  flow' = flow /\ \A x \in Streams : stream[x] = "data" => stream'[x] = "data"
  BY <1>2 DEF OpenStream, SendFlowID, CancelStream, EndStream
<1>3. CASE ReadFlowID \/ SkipReset
  BY <1>3 DEF ReadFlowID, SkipReset, peerVars
<1>4. ASSUME NEW s \in Streams, Handle(s)
      PROVE  flow' = flow /\ \A x \in Streams : stream[x] = "data" => stream'[x] = "data"
  BY <1>4 DEF Handle, DropStream, HandleRTP, HandleFirstOfChannel, HandleMoreOfChannel, peerVars
<1>5. ASSUME NEW c \in Channels, CallReceiver(c) \/ Rendezvous(c)
      PROVE  flow' = flow /\ stream' = stream
  BY <1>5 DEF CallReceiver, Rendezvous, peerVars
<1>6. CASE UNCHANGED streamVars
  BY <1>6 DEF streamVars, peerVars
<1> QED
  BY <1>1, <1>2, <1>3, <1>4, <1>5, <1>6 DEF StreamNext, Setup, Peer, LoopStep

LEMMA RendezvousStep ==
  ASSUME DispatchInv, RendezvousInv, [StreamNext]_streamVars
  PROVE  RendezvousInv'
<1> USE DEF RendezvousInv, RendezvousIsExact
<1>1. \A c \in Channels : callback[c] # "none" =>
        \E s \in Streams : stream'[s] = "data" /\ flow'[s] = c
  BY DataStays DEF AnnouncedByStream
<1>2. ASSUME UNCHANGED dcVars PROVE RendezvousInv'
  <2>1. mutex' = mutex /\ callback' = callback /\ receiver' = receiver
    BY <1>2 DEF dcVars
  <2> QED
    BY <2>1, <1>1 DEF CallTypes, HolderSends, BothOrNone, AnnouncedByStream
<1>3. ASSUME NEW c \in Channels, CallReceiver(c) \/ Rendezvous(c) PROVE RendezvousInv'
  <2>1. AddDataChannelReceiver(c) \/ DCStep(c)
    BY <1>3 DEF CallReceiver, Rendezvous
  <2>3. \A d \in Channels : callback'[d] # "none" => callback[d] # "none"
    BY <2>1 DEF AddDataChannelReceiver, DCStep, Register, OfferChannel, HandOver, CallTypes
  <2>4. AnnouncedByStream'
    BY <1>1, <2>3 DEF AnnouncedByStream
  <2> QED
    BY <2>1, <2>4, CallStep
<1>4. ASSUME NEW s \in Streams, HandleFirstOfChannel(s) PROVE RendezvousInv'
  <2>1. /\ flow[s] \in Channels /\ IncomingDataChannel(flow[s])
        /\ stream' = [stream EXCEPT ![s] = "data"] /\ flow' = flow
    BY <1>4 DEF HandleFirstOfChannel, peerVars
  <2>2. stream'[s] = "data" /\ flow'[s] = flow[s]
    BY <2>1 DEF DispatchInv
  <2>3. \A d \in Channels : d # flow[s] /\ callback'[d] # "none" => callback[d] # "none"
    BY <2>1 DEF IncomingDataChannel, CallTypes
  <2>4. AnnouncedByStream'
    BY <1>1, <2>2, <2>3 DEF AnnouncedByStream
  <2> QED
    BY <2>1, <2>4, CallStep
<1>5. CASE Setup \/ Peer \/ Close \/ LoopStep
  <2>1. UNCHANGED dcVars
    BY <1>5 DEF Setup, Peer, LoopStep, AssignHandlers, StartHandlers, OpenStream, SendFlowID,
       CancelStream, EndStream, Close, AcceptStream, ReadFlowID, SkipReset, LoopReturns, Panic
  <2> QED
    BY <2>1, <1>2
<1>6. ASSUME NEW s \in Streams, Handle(s) PROVE RendezvousInv'
  <2>1. HandleFirstOfChannel(s) \/ UNCHANGED dcVars
    BY <1>6 DEF Handle, DropStream, HandleRTP, HandleMoreOfChannel
  <2> QED
    BY <2>1, <1>2, <1>4
<1>7. CASE UNCHANGED streamVars
  <2>1. UNCHANGED dcVars
    BY <1>7 DEF streamVars
  <2> QED
    BY <2>1, <1>2
<1> QED
  BY <1>3, <1>5, <1>6, <1>7 DEF StreamNext

(* Two callbacks never send at once, a receiver gets its data channel when *)
(* and only when the callback returns, and every data channel that is      *)
(* announced has a stream (datachannels/transport.go 60-100).              *)
THEOREM DataChannelsMeet == StreamSpec => []RendezvousIsExact
<1>1. StreamInit => RendezvousInv
  <2> SUFFICES ASSUME StreamInit PROVE RendezvousInv
    OBVIOUS
  <2>1. DCInit
    BY DEF StreamInit
  <2> QED
    BY <2>1, NoChannelIsNone DEF DCInit, RendezvousInv, RendezvousIsExact, CallTypes, CallStates,
       HolderSends, BothOrNone, AnnouncedByStream
<1>2. RendezvousInv => RendezvousIsExact
  BY DEF RendezvousInv
<1>3. DispatchInv /\ RendezvousInv /\ [StreamNext]_streamVars => DispatchInv' /\ RendezvousInv'
  BY DispatchStep, RendezvousStep
<1> QED
  BY StreamInitInv, <1>1, <1>2, <1>3, PTL DEF StreamSpec
=============================================================================
