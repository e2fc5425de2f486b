------------------------------ MODULE Feedback ------------------------------
(***************************************************************************)
(* The packet feedback tracker of the QUIC transport                       *)
(* (internal/quictransport/transport.go and tracer.go).                    *)
(*                                                                         *)
(* quic-go calls RecordEvent for every packet it sends, every packet that  *)
(* it receives and every packet it declares lost.  The tracer moves a      *)
(* packet from inFlightPackets to packetFeedback when it learns its fate,  *)
(* and ends EVERY event with updateCongestionControl, which hands the      *)
(* settled packets to the bandwidth estimator (BWE) unless the connection  *)
(* is still nil or the last update is less than 20 ms old.                 *)
(*                                                                         *)
(* Both slices are kept sorted by seqNr without duplicates, so they are    *)
(* modelled by what a lookup by number returns.  Sizes and times are left  *)
(* out: no decision of the tracker depends on them, except the 20 ms gate, *)
(* which is the variable recent.                                           *)
(***************************************************************************)
EXTENDS Naturals

CONSTANTS
  MaxPN,         \* bound: the largest 1-RTT packet number
  MaxHandshake,  \* bound: handshake packet numbers 0 .. MaxHandshake - 1
  Rates          \* target rates the BWE may compute, 0 among them

ASSUME ConstantsOK ==
  /\ MaxPN \in Nat
  /\ MaxHandshake \in 0 .. MaxPN + 1
  /\ Rates \subseteq Nat /\ 0 \in Rates

VARIABLES
  (* fields of Transport *)
  inFlightPackets,  \* numbers sent whose fate the tracker has not recorded
  packetFeedback,   \* per number: no entry, or its recorded fate
  lowestInFlight,   \* numbers below it are never looked at again
  highestAcked,     \* largest number an ACK frame gave a timestamp for
  quicConn,         \* the handshake is over and New has set t.quicConn
  recent,           \* time.Since(lastBWEUpdate) < 20 ms
  rate,             \* last target set on the source and on the QUIC pacer
  (* the calls the BWE received *)
  onAck, onLoss,
  (* quic-go's own view of the connection *)
  sent,             \* 1-RTT numbers sent
  handshakeSent,    \* handshake numbers sent, which start from 0 as well
  outstanding,      \* 1-RTT numbers neither acked nor declared lost
  handshakeOut,     \* handshake numbers that may still be declared lost
  stamped,          \* 1-RTT numbers acked with a receive timestamp
  declaredLost,     \* numbers declared lost, of either kind
  (* history *)
  ackHeld           \* some ACK was not digested at once: no update followed it,
                    \* or it gave no timestamp for its largest number

trackerVars == <<inFlightPackets, packetFeedback, lowestInFlight, highestAcked>>
bweVars == <<recent, rate, onAck, onLoss>>
quicVars == <<sent, handshakeSent, outstanding, handshakeOut, stamped, declaredLost>>
vars == <<trackerVars, quicConn, bweVars, quicVars, ackHeld>>

PN == 0 .. MaxPN
Fate == {"none", "arrived", "lost"}

(* packetAcked and packetLost act on a number that is still in flight and  *)
(* not below lowestInFlight.                                               *)
TrackedAboveHorizon(S) == {p \in S \cap inFlightPackets : p > lowestInFlight}
Tracked(S) == {p \in S \cap inFlightPackets : p >= lowestInFlight}

(* They move its entry to packetFeedback with its fate f, or overwrite the *)
(* fate of the entry that is there.                                        *)
RecordedArrived(S, f) == [p \in PN |-> IF p \in Tracked(S) THEN "arrived" ELSE packetFeedback[p]]
Recorded(S, f) == [p \in PN |-> IF p \in Tracked(S) THEN f ELSE packetFeedback[p]]

IsMaximum(m, S) == m \in S /\ \A x \in S : x <= m
-----------------------------------------------------------------------------
(* updateBWE walks packetFeedback in ascending order up to highestAcked    *)
(* and skips numbers below lowestInFlight.                                 *)
ReportedNoSkip(fb, high) == {p \in PN : fb[p] # "none" /\ p <= high}
ReportedBelow(fb, high) == {p \in PN : fb[p] # "none" /\ lowestInFlight <= p /\ p < high}
Reported(fb, high) == {p \in PN : fb[p] # "none" /\ lowestInFlight <= p /\ p <= high}

(* It then cuts the slice at the first entry above highestAcked.  When     *)
(* there is none, idx is still 0 and the slice stays as it is.             *)
Trimmed(fb, high) ==
  IF \E p \in PN : fb[p] # "none" /\ p > high
  THEN [p \in PN |-> IF p > high THEN fb[p] ELSE "none"]
  ELSE fb

(* updateBWE with the gate open, and what updateCongestionControl does     *)
(* with its result: lastBWEUpdate and both rates change if it is not 0.    *)
UpdateTo(fb, high, horizon) ==
  LET reported == Reported(fb, high) IN
  \E target \in Rates :
    /\ onAck' = [p \in PN |-> onAck[p] + IF p \in reported /\ fb[p] = "arrived" THEN 1 ELSE 0]
    /\ onLoss' = [p \in PN |-> onLoss[p] + IF p \in reported /\ fb[p] = "lost" THEN 1 ELSE 0]
    /\ packetFeedback' = Trimmed(fb, high)
    /\ lowestInFlight' = horizon
    /\ recent' = (target > 0)
    /\ rate' = IF target > 0 THEN target ELSE rate

UpdateForgetsHorizon(fb, high) == UpdateTo(fb, high, lowestInFlight)
UpdateHorizonShort(fb, high) == UpdateTo(fb, high, high)
UpdateHorizonLong(fb, high) == UpdateTo(fb, high, high + 2)
UpdateBWE(fb, high) == UpdateTo(fb, high, high + 1)

(* The tail of every event, on the lists the event left. *)
UpdateCongestionControl(fb, high) ==
  /\ highestAcked' = high
  /\ \/ /\ ~quicConn \/ recent
        /\ packetFeedback' = fb
        /\ UNCHANGED <<lowestInFlight, bweVars>>
     \/ /\ quicConn /\ ~recent
        /\ UpdateBWE(fb, high)
-----------------------------------------------------------------------------
(* qlog.PacketSent: packetSent inserts the number unless it is present.    *)
(* quic-go numbers ascend within a space and may skip values.              *)
PacketSent(p) ==
  /\ \A q \in sent : q < p
  /\ sent' = sent \cup {p}
  /\ outstanding' = outstanding \cup {p}
  /\ inFlightPackets' = inFlightPackets \cup {p}
  /\ UpdateCongestionControl(packetFeedback, highestAcked)
  /\ UNCHANGED <<quicConn, handshakeSent, handshakeOut, stamped, declaredLost, ackHeld>>

(* The same event for an Initial or Handshake packet: the tracer does not  *)
(* look at the packet number space.                                        *)
HandshakePacketSent(p) ==
  /\ p < MaxHandshake
  /\ \A q \in handshakeSent : q < p
  /\ handshakeSent' = handshakeSent \cup {p}
  /\ handshakeOut' = handshakeOut \cup {p}
  /\ inFlightPackets' = inFlightPackets \cup {p}
  /\ UpdateCongestionControl(packetFeedback, highestAcked)
  /\ UNCHANGED <<quicConn, sent, outstanding, stamped, declaredLost, ackHeld>>

(* qlog.PacketReceived with an ACK frame for acked, which carries receive  *)
(* timestamps for the numbers in times only.  packetAcked runs for these.  *)
(* An ACK may cover numbers that earlier ACKs covered already, and numbers *)
(* that were declared lost.                                                *)
AckReceived(acked, times) ==
  /\ acked \subseteq sent /\ acked # {}
  /\ times \subseteq acked
  /\ outstanding' = outstanding \ acked
  /\ stamped' = stamped \cup times
  /\ inFlightPackets' = inFlightPackets \ Tracked(times)
  /\ \E high \in PN :
       /\ IsMaximum(high, times \cup {highestAcked})
       /\ UpdateCongestionControl(Recorded(times, "arrived"), high)
       /\ ackHeld' = (ackHeld \/ ~quicConn \/ recent \/ \E p \in acked : p > high)
  /\ UNCHANGED <<quicConn, sent, handshakeSent, handshakeOut, declaredLost>>

(* qlog.PacketLost.  quic-go declares a 1-RTT packet lost only when a      *)
(* later one was acked.                                                    *)
PacketLost(p) ==
  /\ p \in outstanding
  /\ \E q \in sent \ outstanding : q > p
  /\ outstanding' = outstanding \ {p}
  /\ declaredLost' = declaredLost \cup {p}
  /\ inFlightPackets' = inFlightPackets \ Tracked({p})
  /\ UpdateCongestionControl(Recorded({p}, "lost"), highestAcked)
  /\ UNCHANGED <<quicConn, sent, handshakeSent, handshakeOut, stamped, ackHeld>>

HandshakePacketLost(p) ==
  /\ p \in handshakeOut
  /\ handshakeOut' = handshakeOut \ {p}
  /\ declaredLost' = declaredLost \cup {p}
  /\ inFlightPackets' = inFlightPackets \ Tracked({p})
  /\ UpdateCongestionControl(Recorded({p}, "lost"), highestAcked)
  /\ UNCHANGED <<quicConn, sent, handshakeSent, outstanding, stamped, ackHeld>>

(* Any other event: the type switch has no case, the tail runs. *)
OtherEvent ==
  /\ UpdateCongestionControl(packetFeedback, highestAcked)
  /\ UNCHANGED <<inFlightPackets, quicConn, quicVars, ackHeld>>

(* New returns from the handshake and assigns t.quicConn. *)
Connected ==
  /\ ~quicConn
  /\ quicConn' = TRUE
  /\ UNCHANGED <<trackerVars, bweVars, quicVars, ackHeld>>

(* 20 ms pass since lastBWEUpdate. *)
GateOpens ==
  /\ recent
  /\ recent' = FALSE
  /\ UNCHANGED <<trackerVars, quicConn, rate, onAck, onLoss, quicVars, ackHeld>>
-----------------------------------------------------------------------------
Init ==
  /\ inFlightPackets = {}
  /\ packetFeedback = [p \in PN |-> "none"]
  /\ lowestInFlight = 0
  /\ highestAcked = 0
  /\ quicConn = FALSE
  /\ recent = FALSE
  /\ rate = 0
  /\ onAck = [p \in PN |-> 0]
  /\ onLoss = [p \in PN |-> 0]
  /\ sent = {} /\ handshakeSent = {}
  /\ outstanding = {} /\ handshakeOut = {}
  /\ stamped = {} /\ declaredLost = {}
  /\ ackHeld = FALSE

Next ==
  \/ \E p \in PN : PacketSent(p)
  \/ \E p \in PN : HandshakePacketSent(p)
  \/ \E acked \in SUBSET sent : \E times \in SUBSET acked : AckReceived(acked, times)
  \/ \E p \in PN : PacketLost(p)
  \/ \E p \in PN : HandshakePacketLost(p)
  \/ OtherEvent
  \/ Connected
  \/ GateOpens

Spec == Init /\ [][Next]_vars

(* Time passes, and quic-go logs further events on a connection that       *)
(* carries media.                                                          *)
FairSpec == Spec /\ WF_vars(GateOpens) /\ WF_vars(OtherEvent)
-----------------------------------------------------------------------------
(* The types of the variables. *)
TypeOK ==
  /\ inFlightPackets \subseteq PN
  /\ packetFeedback \in [PN -> Fate]
  /\ lowestInFlight \in 0 .. MaxPN + 1
  /\ highestAcked \in PN
  /\ quicConn \in BOOLEAN /\ recent \in BOOLEAN
  /\ rate \in Rates
  /\ onAck \in [PN -> Nat] /\ onLoss \in [PN -> Nat]
  /\ sent \subseteq PN /\ handshakeSent \subseteq PN
  /\ outstanding \subseteq sent /\ handshakeOut \subseteq handshakeSent
  /\ stamped \subseteq sent
  /\ declaredLost \subseteq sent \cup handshakeSent
  /\ ackHeld \in BOOLEAN

(* The BWE hears of a packet number at most once, however often ACK frames *)
(* repeat it, whether it is declared lost as well, and although            *)
(* packetFeedback still holds numbers that were reported before.           *)
AtMostOneReport == \A p \in PN : onAck[p] + onLoss[p] <= 1

(* What the BWE is told happened: no OnAck without a timestamp from the    *)
(* peer, no OnLoss without a loss declared by quic-go.                     *)
Truthful ==
  \A p \in PN :
    /\ onAck[p] > 0 => p \in stamped
    /\ onLoss[p] > 0 => p \in declaredLost

(* The estimator learns of losses by accident.  A loss is declared after   *)
(* the ACK that revealed it, and that ACK, if its event updates the BWE,   *)
(* has already moved lowestInFlight above the lost number.  So as long as  *)
(* no ACK was held back and each one stamped its largest number, the BWE   *)
(* never hears of a lost 1-RTT packet.                                     *)
LossOnlyAfterHeldAck ==
  ~ackHeld => \A p \in PN \ handshakeSent : onLoss[p] = 0

(* The in-flight list loses track of packets only below lowestInFlight:    *)
(* an entry above it that quic-go has settled was acked without a          *)
(* timestamp.                                                              *)
StrandedOnlyBelowHorizon ==
  \A p \in inFlightPackets :
    p >= lowestInFlight => \/ p \notin stamped \cup declaredLost
                           \/ p \in handshakeSent

(* The tracker implements the promise of FeedbackLedger. *)
Ledger == INSTANCE FeedbackLedger WITH horizon <- lowestInFlight
LedgerSpec == Ledger!Spec

(* A settled packet the tracker has recorded is reported in the end, once  *)
(* the connection is up and a number at least as large was acked.          *)
SettledIsReported ==
  \A p \in PN :
    (/\ quicConn /\ packetFeedback[p] # "none"
     /\ lowestInFlight <= p /\ p <= highestAcked) ~> (onAck[p] + onLoss[p] = 1)
=============================================================================
