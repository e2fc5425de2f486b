------------------------- MODULE CongestionFeedback -------------------------
(***************************************************************************)
(* The way of an ECN mark in the program webrtc: from the IP header of a   *)
(* packet through the map of webrtc.Net into the feedback of RFC 8888, and *)
(* back to Transport.onCCFB, which tells the bandwidth estimator.          *)
(*                                                                         *)
(* udpConn.ReadFrom stores the mark under the number of the packet, which  *)
(* wraps, before pion has looked at the packet: a copy that pion drops     *)
(* stores its mark too.  The mark is looked up when the pipeline reads the *)
(* packet, by which time a packet of another cycle of numbers may have     *)
(* stored its own.  The network may mark, lose, duplicate and reorder      *)
(* packets and lose reports.                                               *)
(***************************************************************************)
EXTENDS Integers, Sequences

CONSTANTS
  Packets,      \* bound: number of packets sent
  Modulus,      \* sequence numbers are taken modulo this, 2^16 in the code
  MaxBuffer,    \* packets the receive buffer holds
  MaxCopies     \* bound: extra copies the network delivers

ASSUME FeedbackConstantsOK ==
  {Packets, Modulus, MaxBuffer} \subseteq Nat \ {0} /\ MaxCopies \in Nat

NotECT == 0
ECT0 == 2
CE == 3
Packet == 1 .. Packets

VARIABLES
  family,     \* of the addresses: 4 or 6
  sent,       \* number of packets sent
  copies,     \* extra copies delivered
  network,    \* packets on their way
  ecnMap,     \* Net.ecnMap of the receiver: a mark, or -1 where there is no entry
  buffer,     \* packets that wait for the pipeline of the receiver
  recorded,   \* mark that goes into the feedback, or -1
  report,     \* packets in the report on its way to the sender; bound: one at a time
  told,       \* packets that onCCFB told the estimator about
  ended,      \* the source of RTCP has seen an error and reads no more
  (* history *)
  arrived,    \* marks of the copies of each packet that arrived, as far as understood
  overwritten,  \* packets that waited while another one of their number arrived
  lost        \* packets in lost reports

feedbackVars == <<family, sent, copies, network, ecnMap, buffer, recorded, report, told,
                  ended, arrived, overwritten, lost>>

Number(p) == p % Modulus
Queued == {buffer[k] : k \in DOMAIN buffer}
Recorded == {p \in Packet : recorded[p] # -1}

(* RTPSender.Write: packets leave with ECT(0), which newUDPConn has set;   *)
(* nobody waits for the receiver.                                          *)
SendPacket ==
  /\ sent < Packets
  /\ sent' = sent + 1
  /\ network' = network \cup {sent + 1}
  /\ UNCHANGED <<family, copies, ecnMap, buffer, recorded, report, told, ended, arrived,
                 overwritten, lost>>

(* udpConn.ReadFrom of a packet that came with a mark: only the control    *)
(* message of IPv4 is understood.  Then pion takes the packet, unless it   *)
(* was there before, or the buffer is full.                                *)
MarkRead(mark) == IF family = 4 THEN mark ELSE NotECT
KeepFirst(p, mark) == IF ecnMap[Number(p)] = -1 THEN MarkRead(mark) ELSE ecnMap[Number(p)]
StoredMark(p, mark) == MarkRead(mark)
Fresh(p) == arrived[p] = {} /\ Len(buffer) < MaxBuffer
ReadFrom(p, mark) ==
  /\ ecnMap' = [ecnMap EXCEPT ![Number(p)] = StoredMark(p, mark)]
  /\ arrived' = [arrived EXCEPT ![p] = @ \cup {MarkRead(mark)}]
  /\ buffer' = IF Fresh(p) THEN Append(buffer, p) ELSE buffer
  /\ overwritten' = overwritten \cup {q \in Queued \ {p} : Number(q) = Number(p)}
  /\ UNCHANGED <<family, sent, recorded, report, told, ended, lost>>
Deliver(p, mark) ==
  /\ ReadFrom(p, mark)
  /\ \/ network' = network \ {p} /\ UNCHANGED copies
     \/ copies < MaxCopies /\ copies' = copies + 1 /\ UNCHANGED network

(* RTPReceiver.Read, called by the pipeline: the interceptor looks the     *)
(* mark up with GetECN and records the packet.                             *)
ReadPacket ==
  /\ buffer # <<>>
  /\ recorded' = [recorded EXCEPT ![Head(buffer)] = ecnMap[Number(Head(buffer))]]
  /\ buffer' = Tail(buffer)
  /\ UNCHANGED <<family, sent, copies, network, ecnMap, report, told, ended, arrived,
                 overwritten, lost>>

(* The interceptor sends a report about the packets it has recorded since  *)
(* the last one; it may get lost.                                          *)
Unreported == Recorded \ (told \cup lost)
SendReport ==
  /\ report = {} /\ Unreported # {}
  /\ report' = Unreported
  /\ UNCHANGED <<family, sent, copies, network, ecnMap, buffer, recorded, told, ended, arrived,
                 overwritten, lost>>
LoseReport ==
  /\ report # {}
  /\ report' = {}
  /\ lost' = lost \cup report
  /\ UNCHANGED <<family, sent, copies, network, ecnMap, buffer, recorded, told, ended, arrived,
                 overwritten>>

(* RTCPReceiver.Read of the sender, called by its pipeline, calls onCCFB:  *)
(* OnAck for each packet, then a target rate to the encoder and half as    *)
(* much again to the pacer.  When the encoder refuses the rate the Read    *)
(* fails, and the source of RTCP ends for good.                            *)
OnCCFB ==
  /\ ~ended /\ report # {}
  /\ report' = {}
  /\ told' = told \cup report
  /\ ended' \in BOOLEAN
  /\ UNCHANGED <<family, sent, copies, network, ecnMap, buffer, recorded, arrived, overwritten,
                 lost>>

FeedbackInit ==
  /\ family \in {4, 6}
  /\ sent = 0 /\ copies = 0 /\ network = {} /\ buffer = <<>> /\ report = {} /\ told = {}
  /\ ecnMap = [k \in 0 .. Modulus - 1 |-> -1] /\ recorded = [p \in Packet |-> -1]
  /\ ended = FALSE /\ arrived = [p \in Packet |-> {}] /\ overwritten = {} /\ lost = {}
-----------------------------------------------------------------------------
(* The types of the variables. *)
Marks == {NotECT, ECT0, CE}
FeedbackTypeOK ==
  /\ family \in {4, 6} /\ sent \in 0 .. Packets /\ copies \in 0 .. MaxCopies
  /\ network \subseteq Packet
  /\ ecnMap \in [0 .. Modulus - 1 -> Marks \cup {-1}] /\ buffer \in Seq(Packet)
  /\ recorded \in [Packet -> Marks \cup {-1}]
  /\ report \subseteq Packet /\ told \subseteq Packet /\ ended \in BOOLEAN
  /\ arrived \in [Packet -> SUBSET Marks] /\ overwritten \subseteq Packet
  /\ lost \subseteq Packet

(* The mark the estimator hears of is the mark of a copy of that very      *)
(* packet that arrived, although numbers wrap and copies that pion drops   *)
(* store theirs, unless a packet of another cycle arrived while it waited  *)
(* for the pipeline: then it may be that packet's, also if the full buffer *)
(* dropped it.  It is never the mark of another number; with IPv6 it is    *)
(* always "not ECT", a CE mark or not.                                     *)
MarkIsOfThePacket ==
  \A p \in told :
    /\ p \notin overwritten => recorded[p] \in arrived[p]
    /\ \E q \in Packet : Number(q) = Number(p) /\ recorded[p] \in arrived[q]
    /\ family = 6 => recorded[p] = NotECT
=============================================================================
