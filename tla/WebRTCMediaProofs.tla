------------------------- MODULE WebRTCMediaProofs -------------------------
(***************************************************************************)
(* The mark that the estimator hears of is that of the packet, unless one  *)
(* of another cycle has overwritten it, for any number of packets, any     *)
(* modulus of their numbers and any buffer, whatever the pipelines do.     *)
(* And the pipelines are whole, for every pair of programs that makes its  *)
(* calls as ProgramsOK of RTPBin says.                                     *)
(***************************************************************************)
EXTENDS WebRTCMedia, TLAPS

(* A mark of a packet with the number of p. *)
OfNumber(mark, p) == \E q \in Packet : Number(q) = Number(p) /\ mark \in arrived[q]

(* The entry for a packet that waits is the mark of one of its copies, or  *)
(* of another packet of its number.                                        *)
Stored ==
  \A p \in Queued :
    /\ p \notin overwritten => ecnMap[Number(p)] \in arrived[p]
    /\ OfNumber(ecnMap[Number(p)], p)

(* Marks are understood with IPv4 only. *)
Unmarked == family = 6 => \A p \in Packet : arrived[p] \subseteq {NotECT}

(* What was read has that mark, and only what was read is told. *)
ReadMarks ==
  \A p \in Recorded :
    /\ p \notin overwritten => recorded[p] \in arrived[p]
    /\ OfNumber(recorded[p], p)
OnlyRecorded == report \cup told \subseteq Recorded

IInv == FeedbackTypeOK /\ Stored /\ Unmarked /\ ReadMarks /\ OnlyRecorded

(* The invariant gives the property. *)
LEMMA InvariantSuffices == IInv => MarkIsOfThePacket
<1> SUFFICES ASSUME IInv, NEW p \in told
             PROVE  /\ p \notin overwritten => recorded[p] \in arrived[p]
                    /\ \E q \in Packet : Number(q) = Number(p) /\ recorded[p] \in arrived[q]
                    /\ family = 6 => recorded[p] = NotECT
  BY DEF MarkIsOfThePacket
<1>1. p \in Recorded
  BY DEF IInv, OnlyRecorded
<1>2. (p \notin overwritten => recorded[p] \in arrived[p]) /\ OfNumber(recorded[p], p)
  BY <1>1 DEF IInv, ReadMarks
<1> QED
  BY <1>2 DEF OfNumber, IInv, Unmarked

(* Numbers are below the modulus. *)
LEMMA Division == ASSUME NEW p \in Nat PROVE p % Modulus \in 0 .. Modulus - 1
BY FeedbackConstantsOK DEF FeedbackConstantsOK

LEMMA PacketTypes == \A p \in Packet : p \in Nat /\ Number(p) \in 0 .. Modulus - 1
BY Division, FeedbackConstantsOK DEF FeedbackConstantsOK, Packet, Number

(* A buffer that grows by one packet, and that loses its first. *)
LEMMA BufferGrows ==
  ASSUME NEW s \in Seq(Packet), NEW p \in Packet
  PROVE  /\ Append(s, p) \in Seq(Packet)
         /\ \A k \in DOMAIN Append(s, p) : Append(s, p)[k] \in {s[i] : i \in DOMAIN s} \cup {p}
<1>1. \A k \in DOMAIN Append(s, p) : k \in DOMAIN s \/ k = Len(s) + 1
  OBVIOUS
<1>2. Append(s, p)[Len(s) + 1] = p /\ \A k \in DOMAIN s : Append(s, p)[k] = s[k]
  OBVIOUS
<1> QED
  BY <1>1, <1>2

LEMMA BufferShrinks ==
  ASSUME NEW s \in Seq(Packet), s # <<>>
  PROVE  /\ Tail(s) \in Seq(Packet) /\ Head(s) \in {s[i] : i \in DOMAIN s}
         /\ \A k \in DOMAIN Tail(s) : Tail(s)[k] \in {s[i] : i \in DOMAIN s}
<1>1. Head(s) = s[1] /\ 1 \in DOMAIN s
  OBVIOUS
<1>2. \A k \in DOMAIN Tail(s) : k + 1 \in DOMAIN s /\ Tail(s)[k] = s[k + 1]
  OBVIOUS
<1>3. Tail(s) \in Seq(Packet)
  OBVIOUS
<1> QED
  BY <1>1, <1>2, <1>3

(* The invariant holds at the start. *)
LEMMA Initially == FeedbackInit => IInv
<1> SUFFICES ASSUME FeedbackInit PROVE IInv
  OBVIOUS
<1>1. Queued = {} /\ Recorded = {}
  BY DEF FeedbackInit, Queued, Recorded
<1>2. FeedbackTypeOK
  <2>1. <<>> \in Seq(Packet)
    OBVIOUS
  <2>2. 0 \in 0 .. Packets /\ 0 \in 0 .. MaxCopies
    BY FeedbackConstantsOK DEF FeedbackConstantsOK
  <2>3. ended \in BOOLEAN
    BY DEF FeedbackInit
  <2> QED
    BY <2>1, <2>2, <2>3 DEF FeedbackInit, FeedbackTypeOK
<1> QED
  BY <1>1, <1>2
  DEF FeedbackInit, IInv, Stored, Unmarked, ReadMarks, OnlyRecorded, NotECT
-----------------------------------------------------------------------------
(* A packet leaves. *)
LEMMA SendStep == IInv /\ SendPacket => IInv'
<1> SUFFICES ASSUME IInv, SendPacket PROVE IInv'
  OBVIOUS
<1>1. Queued' = Queued /\ Recorded' = Recorded
  BY DEF SendPacket, Queued, Recorded
<1>2. sent \in Nat /\ sent + 1 \in Packet /\ Packets \in Nat
  BY FeedbackConstantsOK DEF IInv, FeedbackTypeOK, SendPacket, FeedbackConstantsOK, Packet
<1>3. FeedbackTypeOK'
  <2>1. sent' \in 0 .. Packets /\ network' \subseteq Packet
    BY <1>2 DEF IInv, FeedbackTypeOK, SendPacket
  <2> QED
    BY <2>1 DEF IInv, FeedbackTypeOK, SendPacket
<1> QED
  BY <1>1, <1>3
  DEF SendPacket, IInv, Stored, Unmarked, ReadMarks, OnlyRecorded, OfNumber, Number

(* A copy arrives: it stores its mark, and what waits with its number is   *)
(* overwritten.                                                            *)
LEMMA DeliverStep ==
  ASSUME IInv, NEW p \in network, NEW mark \in {ECT0, CE}, Deliver(p, mark)
  PROVE  IInv'
<1>1. p \in Packet /\ MarkRead(mark) \in Marks /\ (family = 6 => MarkRead(mark) = NotECT)
  BY DEF IInv, FeedbackTypeOK, MarkRead, Marks
<1>2. /\ ecnMap' = [ecnMap EXCEPT ![Number(p)] = MarkRead(mark)]
      /\ arrived' = [arrived EXCEPT ![p] = @ \cup {MarkRead(mark)}]
      /\ buffer' = Append(buffer, p) \/ buffer' = buffer
      /\ network' \subseteq network
      /\ copies' \in 0 .. MaxCopies
      /\ overwritten' = overwritten \cup {q \in Queued \ {p} : Number(q) = Number(p)}
      /\ UNCHANGED <<family, sent, recorded, report, told, ended, lost>>
  <2>1. copies' \in 0 .. MaxCopies
    BY FeedbackConstantsOK DEF Deliver, IInv, FeedbackTypeOK, FeedbackConstantsOK
  <2> QED
    BY <2>1 DEF Deliver, ReadFrom, StoredMark
<1>3. buffer \in Seq(Packet) /\ Queued' \subseteq Queued \cup {p} /\ buffer' \in Seq(Packet)
  <2>1. buffer \in Seq(Packet)
    BY DEF IInv, FeedbackTypeOK
  <2>2. Append(buffer, p) \in Seq(Packet) /\
        \A k \in DOMAIN Append(buffer, p) : Append(buffer, p)[k] \in Queued \cup {p}
    BY <2>1, <1>1, BufferGrows DEF Queued
  <2>3. CASE buffer' = buffer
    BY <2>1, <2>3 DEF Queued
  <2>4. CASE buffer' = Append(buffer, p)
    BY <2>1, <2>2, <2>4 DEF Queued
  <2> QED
    BY <1>2, <2>3, <2>4
<1>4. Recorded' = Recorded /\ Queued \subseteq Packet
  BY <1>2, <1>3 DEF Recorded, Queued
<1>5. /\ \A q \in Packet : arrived[q] \subseteq arrived'[q]
      /\ \A q \in Packet : q # p => arrived'[q] = arrived[q]
      /\ arrived'[p] = arrived[p] \cup {MarkRead(mark)}
  BY <1>1, <1>2 DEF IInv, FeedbackTypeOK
<1>6. FeedbackTypeOK'
  <2>1. ecnMap' \in [0 .. Modulus - 1 -> Marks \cup {-1}] /\ arrived' \in [Packet -> SUBSET Marks]
    BY <1>1, <1>2, PacketTypes DEF IInv, FeedbackTypeOK
  <2>2. overwritten' \subseteq Packet
    BY <1>2, <1>4 DEF IInv, FeedbackTypeOK
  <2> QED
    BY <2>1, <2>2, <1>2, <1>3 DEF IInv, FeedbackTypeOK
<1>8. Stored'
  <2> SUFFICES ASSUME NEW q \in Queued'
               PROVE  /\ q \notin overwritten' => ecnMap'[Number(q)] \in arrived'[q]
                      /\ \E o \in Packet : /\ Number(o) = Number(q)
                                          /\ ecnMap'[Number(q)] \in arrived'[o]
    BY DEF Stored, Number, OfNumber
  <2>1. ecnMap \in [0 .. Modulus - 1 -> Marks \cup {-1}]
    BY DEF IInv, FeedbackTypeOK
  <2>2. ecnMap'[Number(p)] = MarkRead(mark)
    BY <1>1, <1>2, <2>1, PacketTypes
  <2>3. CASE q = p
    BY <1>1, <1>5, <2>2, <2>3
  <2>4. CASE q # p /\ Number(q) = Number(p)
    <3>1. q \in Queued
      BY <1>3, <2>4
    <3>2. q \in overwritten'
      BY <1>2, <2>4, <3>1
    <3>3. ecnMap'[Number(q)] = MarkRead(mark) /\ MarkRead(mark) \in arrived'[p]
      BY <2>2, <2>4, <1>5
    <3> QED
      BY <1>1, <2>4, <3>2, <3>3
  <2>5. CASE q # p /\ Number(q) # Number(p)
    <3>1. q \in Queued /\ q \in Packet
      BY <1>3, <1>4, <2>5
    <3>2. ecnMap'[Number(q)] = ecnMap[Number(q)]
      BY <3>1, <2>5, <1>1, <1>2, <2>1, PacketTypes
    <3>3. (q \notin overwritten => ecnMap[Number(q)] \in arrived[q])
          /\ OfNumber(ecnMap[Number(q)], q)
      BY <3>1 DEF IInv, Stored
    <3>4. PICK o \in Packet : Number(o) = Number(q) /\ ecnMap[Number(q)] \in arrived[o]
      BY <3>3 DEF OfNumber
    <3>5. ecnMap'[Number(q)] \in arrived'[o]
      BY <3>2, <3>4, <1>5
    <3>6. q \notin overwritten' => ecnMap'[Number(q)] \in arrived'[q]
      BY <3>1, <3>2, <3>3, <1>2, <1>5
    <3> QED
      BY <3>4, <3>5, <3>6
  <2> QED
    BY <2>3, <2>4, <2>5
<1>9. Unmarked'
  BY <1>1, <1>2, <1>5 DEF IInv, Unmarked
<1>10. ReadMarks'
  <2> SUFFICES ASSUME NEW q \in Recorded
               PROVE  /\ q \notin overwritten' => recorded[q] \in arrived'[q]
                      /\ OfNumber(recorded[q], q)'
    BY <1>2, <1>4 DEF ReadMarks, OfNumber, Number
  <2>1. q \in Packet /\ (q \notin overwritten => recorded[q] \in arrived[q])
        /\ OfNumber(recorded[q], q)
    BY DEF IInv, ReadMarks, Recorded
  <2>2. PICK o \in Packet : Number(o) = Number(q) /\ recorded[q] \in arrived[o]
    BY <2>1 DEF OfNumber
  <2>3. recorded'[q] = recorded[q]
    BY <1>2
  <2> QED
    BY <2>1, <2>2, <2>3, <1>2, <1>5 DEF OfNumber, Number
<1>11. OnlyRecorded'
  BY <1>2, <1>4 DEF IInv, OnlyRecorded
<1> QED
  BY <1>6, <1>8, <1>9, <1>10, <1>11 DEF IInv

(* The pipeline reads the first packet that waits. *)
LEMMA ReadStep == IInv /\ ReadPacket => IInv'
<1> SUFFICES ASSUME IInv, ReadPacket PROVE IInv'
  OBVIOUS
<1> DEFINE p == Head(buffer)
           mark == ecnMap[Number(p)]
<1>1. /\ p \in Queued /\ Queued' \subseteq Queued
      /\ buffer' \in Seq(Packet) /\ Queued \subseteq Packet
  <2>1. buffer \in Seq(Packet) /\ buffer # <<>> /\ buffer' = Tail(buffer)
    BY DEF IInv, FeedbackTypeOK, ReadPacket
  <2>2. Queued \subseteq Packet
    BY <2>1 DEF Queued
  <2> QED
    BY <2>1, <2>2, BufferShrinks DEF Queued
<1>2. /\ recorded' = [recorded EXCEPT ![p] = mark]
      /\ UNCHANGED <<family, sent, copies, network, ecnMap, report, told, ended, arrived,
                     overwritten, lost>>
  BY DEF ReadPacket
<1> HIDE DEF p
<1>3. /\ p \in Packet /\ mark \in Marks /\ OfNumber(mark, p)
      /\ p \notin overwritten => mark \in arrived[p]
  <2>1. /\ p \in Packet /\ OfNumber(mark, p)
        /\ p \notin overwritten => mark \in arrived[p]
    BY <1>1 DEF IInv, Stored
  <2>2. mark \in Marks
    BY <2>1 DEF OfNumber, IInv, FeedbackTypeOK
  <2> QED
    BY <2>1, <2>2
<1> HIDE DEF mark
<1>4. recorded'[p] = mark /\ \A q \in Packet : q # p => recorded'[q] = recorded[q]
  BY <1>2, <1>3 DEF IInv, FeedbackTypeOK
<1>5. mark # -1
  BY <1>3 DEF Marks, NotECT, ECT0, CE
<1>6. Recorded' = Recorded \cup {p}
  BY <1>3, <1>4, <1>5 DEF Recorded
<1>7. FeedbackTypeOK'
  <2>1. recorded' \in [Packet -> Marks \cup {-1}]
    BY <1>2, <1>3 DEF IInv, FeedbackTypeOK
  <2> QED
    BY <2>1, <1>1, <1>2 DEF IInv, FeedbackTypeOK
<1>8. Stored' /\ Unmarked'
  BY <1>1, <1>2 DEF IInv, Stored, Unmarked, Number, OfNumber
<1>9. ReadMarks'
  <2> SUFFICES ASSUME NEW q \in Recorded'
               PROVE  /\ q \notin overwritten => recorded'[q] \in arrived[q]
                      /\ OfNumber(recorded'[q], q)
    BY <1>2 DEF ReadMarks, OfNumber, Number
  <2>1. q \in Packet
    BY DEF Recorded
  <2>2. CASE q = p
    BY <2>2, <1>3, <1>4
  <2>3. CASE q # p
    BY <2>1, <2>3, <1>4, <1>6 DEF IInv, ReadMarks
  <2> QED
    BY <2>2, <2>3
<1>10. OnlyRecorded'
  BY <1>2, <1>6 DEF IInv, OnlyRecorded
<1> QED
  BY <1>7, <1>8, <1>9, <1>10 DEF IInv

(* Reports are about what was recorded. *)
LEMMA ReportStep == IInv /\ (SendReport \/ LoseReport \/ OnCCFB) => IInv'
<1> SUFFICES ASSUME IInv, SendReport \/ LoseReport \/ OnCCFB PROVE IInv'
  OBVIOUS
<1>1. /\ UNCHANGED <<family, sent, copies, network, ecnMap, buffer, recorded, arrived,
                     overwritten>>
      /\ ended' \in BOOLEAN
  BY DEF SendReport, LoseReport, OnCCFB, IInv, FeedbackTypeOK
<1>2. report' \cup told' \subseteq Recorded /\ lost' \subseteq Packet
  BY DEF SendReport, LoseReport, OnCCFB, IInv, OnlyRecorded, FeedbackTypeOK, Unreported
<1>3. Recorded \subseteq Packet /\ Recorded' = Recorded /\ Queued' = Queued
  BY <1>1 DEF Recorded, Queued
<1>4. FeedbackTypeOK'
  BY <1>1, <1>2, <1>3 DEF IInv, FeedbackTypeOK
<1> QED
  BY <1>1, <1>2, <1>3, <1>4
  DEF IInv, Stored, Unmarked, ReadMarks, OnlyRecorded, Number, OfNumber
-----------------------------------------------------------------------------
(* A step of the composition is one of these, or leaves feedback alone. *)
LEMMA Step == IInv /\ [Next]_vars => IInv'
<1> SUFFICES ASSUME IInv, [Next]_vars PROVE IInv'
  OBVIOUS
<1>1. CASE UNCHANGED feedbackVars
  BY <1>1
  DEF feedbackVars, IInv, FeedbackTypeOK, Stored, Unmarked, ReadMarks, OnlyRecorded,
      Queued, Recorded, Number, OfNumber
<1>2. CASE UNCHANGED vars
  BY <1>1, <1>2 DEF vars
<1>3. ASSUME NEW b \in Bins, Call(b) \/ Crash(b) PROVE IInv'
  BY <1>1, <1>3 DEF Call, Crash
<1>4. CASE End \/ PadAdded
  BY <1>1, <1>4 DEF End, PadAdded
<1>5. CASE Send
  BY <1>5, SendStep DEF Send
<1>6. CASE Arrive
  BY <1>6, DeliverStep DEF Arrive
<1>7. CASE Read
  BY <1>7, ReadStep DEF Read
<1>8. CASE Report \/ Lose \/ Feed
  BY <1>8, ReportStep DEF Report, Lose, Feed
<1> QED
  BY <1>2, <1>3, <1>4, <1>5, <1>6, <1>7, <1>8 DEF Next

(* The types of the way of the marks, and the rest of the invariant.       *)
THEOREM Invariant == Spec => []IInv
<1>1. Init => IInv
  BY Initially DEF Init
<1> QED
  BY <1>1, Step, PTL DEF Spec

(* The estimator hears of the mark of the very packet, or, if another one  *)
(* of its number came while it waited, of that one's; "not ECT" with IPv6. *)
THEOREM MarksAreOfThePacket == Spec => []MarkIsOfThePacket
BY Invariant, InvariantSuffices, PTL
-----------------------------------------------------------------------------
(* The pipelines.  Shapes of the variables, with their domains. *)
Funnels == {"funnel of main", "funnel of onTrack"}
BinShape ==
  /\ setup \in Setups
  /\ pc \in [Bins -> [Threads -> Nat \ {0}]]
  /\ at \in [Bins -> [Threads -> Places]]
  /\ funnel \in [Bins -> [Threads -> {"none"} \cup Funnels]]
  /\ element \in [Bins -> [Elements -> {"absent", "idle", "playing"}]]
  /\ links \in [Bins -> SUBSET (Elements \X Elements)]
  /\ streams \subseteq Bins /\ transports \subseteq Bins
  /\ rtcpFunnels \in [Bins -> {"none"} \cup Funnels]
  /\ pipeline \in [Bins -> {"null", "playing", "returned"}]
  /\ crashed \subseteq Bins /\ raced \subseteq Bins /\ stalled \subseteq Bins

(* Where a thread is within a call, which call that is, and its funnel.    *)
FunnelPlaces == {"missing", "stored", "found"}
ScreamPlaces == FunnelPlaces \cup {"looking up", "filter plays", "scream plays"}
AfterLink == {"chained", "linked", "source plays", "filter plays", "scream plays"}
AfterFunnel == {"found"} \cup AfterLink
InCall(b, t) ==
  /\ pc[b][t] <= Len(setup[b][t]) + 1
  /\ at[b][t] # "called" =>
       \/ Called(b, t, "ReceiveRTPStreamFrom")
       \/ Called(b, t, "SendRTCPForStream") /\ at[b][t] \in FunnelPlaces
  /\ at[b][t] \in ScreamPlaces /\ Called(b, t, "ReceiveRTPStreamFrom") => setup[b].ccfb
  /\ at[b][t] \in {"missing", "stored"} => funnel[b][t] = FunnelOf(t)
  /\ at[b][t] = "found" => funnel[b][t] \in Funnels
  /\ at[b][t] \in AfterLink /\ setup[b].ccfb => funnel[b][t] \in Funnels
  /\ Did(b, t, "AddRTPSink") => b \in streams
PlaceInv == \A b \in Bins, t \in Threads : InCall(b, t)

(* Once main has called Run it makes no other call, and what is idle in a  *)
(* pipeline that plays OnTrack is about to synchronise.                    *)
BeforeSource ==
  {"source added", "looking up", "missing", "stored", "found", "chained", "linked"}
MayIdle(b, e) ==
  LET place == at[b]["onTrack"]
  IN \/ e = "rtpsrc" /\ place \in BeforeSource
     \/ e = "capsfilter" /\ place \in BeforeSource \cup {"source plays"}
     \/ /\ e = "screamrx" /\ setup[b].ccfb
        /\ place \in BeforeSource \cup {"source plays", "filter plays"}
     \/ e = funnel[b]["onTrack"] /\ setup[b].ccfb /\ place \in AfterFunnel
RunWasLast == \A b \in Bins : pipeline[b] # "null" => pc[b]["main"] > Len(setup[b]["main"])
NothingPlaysBefore ==
  \A b \in Bins : pipeline[b] = "null" => \A e \in Elements : element[b][e] # "playing"
IdleAwaitsSync ==
  \A b \in Bins : pipeline[b] = "playing" =>
    \A e \in Elements : element[b][e] = "idle" => MayIdle(b, e)
PlayInv == RunWasLast /\ NothingPlaysBefore /\ IdleAwaitsSync

(* What is linked is in the pipeline, and so is every funnel in the map or *)
(* found there, unless its thread has only stored it so far.               *)
LinkedIsThere ==
  \A b \in Bins :
    /\ element[b]["rtpbin"] # "absent"
    /\ \A e, f \in Elements : <<e, f>> \in links[b] => element[b][f] # "absent"
FunnelIsThere ==
  \A b \in Bins : \A u \in Threads : element[b][FunnelOf(u)] = "absent" =>
    /\ rtcpFunnels[b] = FunnelOf(u) => at[b][u] = "stored"
    /\ \A t \in Threads : at[b][t] = "found" /\ funnel[b][t] = FunnelOf(u) => at[b][u] = "stored"
GraphInv == LinkedIsThere /\ FunnelIsThere

(* Unless the threads have met, at most one of them is about to store the  *)
(* first funnel, so that there is one for all links.                       *)
OneStores ==
  \A b \in Bins \ raced : \A t \in Threads :
    Storing(b, t) => rtcpFunnels[b] = "none" /\ ~Storing(b, Other(t))
HoldsMap ==
  \A b \in Bins \ raced : \A t \in Threads :
    at[b][t] \in {"stored", "found"} => rtcpFunnels[b] # "none" /\ funnel[b][t] = rtcpFunnels[b]
RTCPGoesOut(b) ==
  /\ rtcpFunnels[b] # "none"
  /\ <<"rtpbin", rtcpFunnels[b]>> \in links[b] /\ <<rtcpFunnels[b], "rtcpsink">> \in links[b]
CCFBGoesOut(b) == rtcpFunnels[b] # "none" /\ <<"screamrx", rtcpFunnels[b]>> \in links[b]
SendsRTCP ==
  \A b \in Bins \ raced :
    Did(b, "main", "SendRTCPForStream") => RTCPGoesOut(b)
SendsCCFB ==
  \A b \in Bins \ raced : \A t \in Threads :
    setup[b].ccfb /\ (Did(b, t, "ReceiveRTPStreamFrom") \/ at[b][t] \in AfterLink) =>
      CCFBGoesOut(b)
SharedInv == OneStores /\ HoldsMap /\ SendsRTCP /\ SendsCCFB

CrashInv ==
  /\ \A b \in crashed \cup raced : setup[b].ccfb /\ setup[b]["onTrack"] # << >>
  /\ \A b \in stalled : setup[b]["onTrack"] # << >>

BinInv == BinShape /\ PlaceInv /\ PlayInv /\ GraphInv /\ SharedInv /\ CrashInv
-----------------------------------------------------------------------------
(* What the invariants say of the end. *)
LEMMA CallsOf ==
  ASSUME BinShape, NEW b \in Bins
  PROVE  /\ setup[b].main = setup[b]["main"] /\ setup[b].onTrack = setup[b]["onTrack"]
         /\ \A t \in Threads : setup[b][t] \in Seq(STRING)
BY SetupsOK DEF BinShape, Threads

LEMMA Programs ==
  ASSUME BinShape, NEW b \in Bins
  PROVE  /\ \A k \in DOMAIN setup[b]["main"] :
              setup[b]["main"][k] = "Run" => k = Len(setup[b]["main"])
         /\ \E k \in DOMAIN setup[b]["main"] : setup[b]["main"][k] = "SendRTCPForStream"
         /\ setup[b].ccfb =>
              \E t \in Threads : \E k \in DOMAIN setup[b][t] :
                 setup[b][t][k] = "ReceiveRTPStreamFrom"
         /\ \A t \in Threads : \A k \in DOMAIN setup[b][t] :
              setup[b][t][k] = "ReceiveRTPStreamFrom" =>
                \E i \in 1 .. k - 1 : setup[b][t][i] = "AddRTPSink"
         /\ \A k \in DOMAIN setup[b]["onTrack"] :
              setup[b]["onTrack"][k] \in {"AddRTPSink", "ReceiveRTPStreamFrom", "ReceiveRTCPFrom"}
         /\ setup[b].scream => setup[b]["onTrack"] = << >>
<1>1. setup \in Setups
  BY DEF BinShape
<1> QED
  BY <1>1, CallsOf, ProgramsOK DEF Threads

(* A call that a thread is in is one of its calls. *)
LEMMA CalledIsInProgram ==
  ASSUME BinShape, NEW b \in Bins, NEW t \in Threads, NEW call, Called(b, t, call)
  PROVE  pc[b][t] \in DOMAIN setup[b][t] /\ setup[b][t][pc[b][t]] = call /\ setup[b][t] # << >>
<1>1. setup[b][t] \in Seq(STRING) /\ pc[b][t] \in Nat \ {0}
  BY CallsOf DEF BinShape
<1>2. pc[b][t] \in 1 .. Len(setup[b][t])
  BY <1>1 DEF Called
<1> QED
  BY <1>1, <1>2 DEF Called

(* A thread that is through has made every one of its calls. *)
LEMMA ThroughDidAll ==
  ASSUME BinShape, NEW b \in Bins, NEW t \in Threads, pc[b][t] > Len(setup[b][t]),
         NEW call, NEW k \in DOMAIN setup[b][t], setup[b][t][k] = call
  PROVE  Did(b, t, call)
<1>1. setup[b][t] \in Seq(STRING) /\ pc[b][t] \in Nat
  BY CallsOf DEF BinShape
<1>2. k < pc[b][t]
  BY <1>1
<1> QED
  BY <1>2 DEF Did

LEMMA WholeIfInvariant == BinInv => PipelineIsWhole
<1> SUFFICES ASSUME BinInv, NEW b \in Bins
             PROVE  /\ b \in crashed \cup raced => setup[b].ccfb /\ setup[b].onTrack # << >>
                    /\ b \in stalled => setup[b].onTrack # << >>
                    /\ Finished(b) /\ pipeline[b] = "playing" /\ b \notin crashed =>
                         /\ \A e \in Elements : element[b][e] # "idle"
                         /\ b \notin raced =>
                              \E f \in Elements :
                                /\ Path(b, <<"rtpbin", f, "rtcpsink">>)
                                /\ setup[b].ccfb => Path(b, <<"screamrx", f, "rtcpsink">>)
  BY DEF PipelineIsWhole
<1> USE DEF BinInv
<1>1. /\ b \in crashed \cup raced => setup[b].ccfb /\ setup[b].onTrack # << >>
      /\ b \in stalled => setup[b].onTrack # << >>
  BY CallsOf DEF CrashInv
<1>2. ASSUME Finished(b), pipeline[b] = "playing", NEW e \in Elements PROVE element[b][e] # "idle"
  <2>1. "onTrack" \in Threads
    BY DEF Threads
  <2>2. \A call : ~Called(b, "onTrack", call)
    BY <1>2, <2>1, CallsOf DEF Finished, Called, BinShape
  <2>3. at[b]["onTrack"] = "called"
    BY <2>1, <2>2 DEF PlaceInv, InCall
  <2>4. ~MayIdle(b, e)
    BY <2>3 DEF MayIdle, BeforeSource, AfterFunnel, AfterLink
  <2> QED
    BY <1>2, <2>4 DEF PlayInv, IdleAwaitsSync
<1>3. ASSUME Finished(b), b \notin raced
      PROVE  \E f \in Elements :
               /\ Path(b, <<"rtpbin", f, "rtcpsink">>)
               /\ setup[b].ccfb => Path(b, <<"screamrx", f, "rtcpsink">>)
  <2> DEFINE f == rtcpFunnels[b]
  <2>1. \A t \in Threads : pc[b][t] > Len(setup[b][t])
    BY <1>3 DEF Finished
  <2>2. "main" \in Threads
    BY DEF Threads
  <2>3. Did(b, "main", "SendRTCPForStream")
    BY <2>1, <2>2, Programs, ThroughDidAll
  <2>4. f # "none" /\ <<"rtpbin", f>> \in links[b] /\ <<f, "rtcpsink">> \in links[b]
    BY <1>3, <2>3 DEF SharedInv, SendsRTCP, RTCPGoesOut
  <2>5. setup[b].ccfb => <<"screamrx", f>> \in links[b]
    <3> SUFFICES ASSUME setup[b].ccfb PROVE <<"screamrx", f>> \in links[b]
      OBVIOUS
    <3>1. PICK t \in Threads : \E k \in DOMAIN setup[b][t] :
                                 setup[b][t][k] = "ReceiveRTPStreamFrom"
      BY Programs
    <3>2. Did(b, t, "ReceiveRTPStreamFrom")
      BY <2>1, <3>1, ThroughDidAll
    <3> QED
      BY <1>3, <3>2 DEF SharedInv, SendsCCFB, CCFBGoesOut
  <2>6. f \in Elements
    BY <2>4 DEF BinShape, Funnels, Elements
  <2> HIDE DEF f
  <2>7. Path(b, <<"rtpbin", f, "rtcpsink">>)
    BY <2>4 DEF Path
  <2>8. setup[b].ccfb => Path(b, <<"screamrx", f, "rtcpsink">>)
    BY <2>4, <2>5 DEF Path
  <2> QED
    BY <2>6, <2>7, <2>8
<1> QED
  BY <1>1, <1>2, <1>3
-----------------------------------------------------------------------------
(* The invariant holds at the start. *)
LEMMA BinsInitially == BinInit => BinInv
<1> SUFFICES ASSUME BinInit PROVE BinInv
  OBVIOUS
<1>1. BinShape
  <2>1. "called" \in Places /\ 1 \in Nat \ {0}
    BY DEF Places
  <2> QED
    BY <2>1 DEF BinInit, BinShape
<1>2. \A b \in Bins, t \in Threads : at[b][t] = "called" /\ pc[b][t] = 1
  BY DEF BinInit
<1>3. \A b \in Bins, t \in Threads :
        pc[b][t] <= Len(setup[b][t]) + 1 /\ \A call : ~Did(b, t, call)
  <2> SUFFICES ASSUME NEW b \in Bins, NEW t \in Threads
               PROVE  pc[b][t] <= Len(setup[b][t]) + 1 /\ \A call : ~Did(b, t, call)
    OBVIOUS
  <2>1. setup[b][t] \in Seq(STRING) /\ DOMAIN setup[b][t] = 1 .. Len(setup[b][t])
        /\ Len(setup[b][t]) \in Nat
    BY <1>1, CallsOf
  <2> QED
    BY <1>2, <2>1 DEF Did
<1>4. PlaceInv
  BY <1>2, <1>3 DEF PlaceInv, InCall, ScreamPlaces, FunnelPlaces, AfterLink
<1>5. PlayInv
  BY DEF BinInit, PlayInv, RunWasLast, NothingPlaysBefore, IdleAwaitsSync
<1>6. GraphInv
  <2>1. "rtpbin" \in Elements
    BY DEF Elements
  <2> QED
    BY <1>2, <2>1 DEF BinInit, GraphInv, LinkedIsThere, FunnelIsThere, FunnelOf
<1>7. SharedInv
  BY <1>2, <1>3
  DEF SharedInv, OneStores, HoldsMap, SendsRTCP, SendsCCFB, Storing, AfterLink, Threads, Other
<1>8. CrashInv
  BY DEF BinInit, CrashInv
<1> QED
  BY <1>1, <1>4, <1>5, <1>6, <1>7, <1>8 DEF BinInv
-----------------------------------------------------------------------------
(* How a thread moves: to another place of its call, or to its next call.  *)
Elsewhere(b, t) ==
  \A c \in Bins, u \in Threads : c # b \/ u # t =>
    pc'[c][u] = pc[c][u] /\ at'[c][u] = at[c][u] /\ funnel'[c][u] = funnel[c][u]

LEMMA GoMoves ==
  ASSUME BinShape, NEW b \in Bins, NEW t \in Threads, NEW place \in Places, GoesTo(b, t, place)
  PROVE  /\ pc' = pc /\ funnel' = funnel /\ at' \in [Bins -> [Threads -> Places]]
         /\ at'[b][t] = place /\ Elsewhere(b, t)
BY DEF BinShape, GoesTo, Elsewhere

LEMMA ReturnMoves ==
  ASSUME BinShape, NEW b \in Bins, NEW t \in Threads, Returns(b, t)
  PROVE  /\ pc' \in [Bins -> [Threads -> Nat \ {0}]] /\ at' \in [Bins -> [Threads -> Places]]
         /\ funnel' \in [Bins -> [Threads -> {"none"} \cup Funnels]]
         /\ pc'[b][t] = pc[b][t] + 1 /\ at'[b][t] = "called" /\ funnel'[b][t] = "none"
         /\ \A c \in Bins, u \in Threads : pc'[c][u] >= pc[c][u]
         /\ Elsewhere(b, t)
<1>1. "called" \in Places
  BY DEF Places
<1> QED
  BY <1>1 DEF BinShape, Returns, Elsewhere

LEMMA DidNow ==
  ASSUME BinShape, NEW b \in Bins, NEW t \in Threads, Returns(b, t), setup' = setup,
         NEW c \in Bins, NEW u \in Threads, NEW call, Did(c, u, call)'
  PROVE  Did(c, u, call) \/ (c = b /\ u = t /\ Called(b, t, call))
<1>1. PICK k \in DOMAIN setup[c][u] : k < pc'[c][u] /\ setup[c][u][k] = call
  BY DEF Did
<1>2. setup[c][u] \in Seq(STRING) /\ pc[c][u] \in Nat
  BY CallsOf DEF BinShape
<1>3. CASE c # b \/ u # t
  BY <1>1, <1>3, ReturnMoves DEF Did, Elsewhere
<1>4. CASE c = b /\ u = t
  <2>1. k < pc[c][u] \/ k = pc[c][u]
    BY <1>1, <1>2, <1>4, ReturnMoves
  <2>2. k <= Len(setup[c][u])
    BY <1>1, <1>2
  <2> QED
    BY <1>1, <1>4, <2>1, <2>2 DEF Did, Called
<1> QED
  BY <1>3, <1>4

(* One call is called at a time; after Run main makes none; OnTrack makes  *)
(* three calls only.                                                       *)
LEMMA OneCall ==
  ASSUME NEW b, NEW t, NEW call, NEW other, Called(b, t, call), Called(b, t, other)
  PROVE  call = other
BY DEF Called

LEMMA NoCallAfterRun ==
  ASSUME BinShape, PlayInv, NEW b \in Bins, pipeline[b] # "null", NEW call
  PROVE  ~Called(b, "main", call)
<1>1. setup[b]["main"] \in Seq(STRING) /\ pc[b]["main"] \in Nat
  BY CallsOf DEF BinShape, Threads
<1> QED
  BY <1>1 DEF PlayInv, RunWasLast, Called

LEMMA OnTrackReceives ==
  ASSUME BinShape, NEW b \in Bins, NEW call, Called(b, "onTrack", call)
  PROVE  /\ call \in {"AddRTPSink", "ReceiveRTPStreamFrom", "ReceiveRTCPFrom"}
         /\ ~setup[b].scream
<1>1. "onTrack" \in Threads
  BY DEF Threads
<1> QED
  BY <1>1, CalledIsInProgram, Programs

(* What a thread is in the midst of. *)
LEMMA CallAt ==
  ASSUME BinShape, PlaceInv, NEW b \in Bins, NEW t \in Threads, at[b][t] # "called"
  PROVE  /\ \/ Called(b, t, "ReceiveRTPStreamFrom")
            \/ Called(b, t, "SendRTCPForStream") /\ at[b][t] \in FunnelPlaces
         /\ t = "onTrack" => /\ Called(b, t, "ReceiveRTPStreamFrom")
                             /\ setup[b]["onTrack"] # << >>
                             /\ at[b][t] \in ScreamPlaces => setup[b].ccfb
<1>1. \/ Called(b, t, "ReceiveRTPStreamFrom")
      \/ Called(b, t, "SendRTCPForStream") /\ at[b][t] \in FunnelPlaces
  BY DEF PlaceInv, InCall
<1>2. t = "onTrack" => Called(b, t, "ReceiveRTPStreamFrom")
  BY <1>1, OnTrackReceives
<1>3. t = "onTrack" => setup[b]["onTrack"] # << >>
  BY <1>2, CalledIsInProgram
<1> QED
  BY <1>1, <1>2, <1>3 DEF PlaceInv, InCall
-----------------------------------------------------------------------------
(* What a step may do to the thread it belongs to, to the elements of its  *)
(* bin and to their links.                                                 *)
Moves(b, t) ==
  /\ pc' \in [Bins -> [Threads -> Nat \ {0}]] /\ at' \in [Bins -> [Threads -> Places]]
  /\ funnel' \in [Bins -> [Threads -> {"none"} \cup Funnels]]
  /\ pc'[b][t] >= pc[b][t] /\ Elsewhere(b, t)
Grows(b, idle, synced) ==
  /\ element' \in [Bins -> [Elements -> {"absent", "idle", "playing"}]]
  /\ \A c \in Bins \ {b} : element'[c] = element[c]
  /\ \A e \in Elements : element'[b][e] = "absent" =>
       element[b][e] = "absent" /\ e \notin idle \cup synced
  /\ pipeline[b] = "playing" =>
       \A e \in Elements : element'[b][e] = "idle" =>
         e \notin synced /\ (e \in idle \/ element[b][e] = "idle")
  /\ pipeline[b] = "null" => \A e \in Elements : element'[b][e] # "playing"
Connects(b, pairs) ==
  /\ links' \in [Bins -> SUBSET (Elements \X Elements)]
  /\ \A c \in Bins \ {b} : links'[c] = links[c]
  /\ links'[b] = links[b] \cup pairs

LEMMA Stays == BinShape /\ UNCHANGED threadVars => \A b \in Bins, t \in Threads : Moves(b, t)
<1> SUFFICES ASSUME BinShape, UNCHANGED threadVars, NEW b \in Bins, NEW t \in Threads
             PROVE  Moves(b, t)
  OBVIOUS
<1>1. pc[b][t] \in Nat
  BY DEF BinShape
<1> QED
  BY <1>1 DEF BinShape, threadVars, Moves, Elsewhere

LEMMA Goes ==
  ASSUME BinShape, NEW b \in Bins, NEW t \in Threads, NEW place \in Places, GoesTo(b, t, place)
  PROVE  Moves(b, t) /\ at'[b][t] = place /\ pc' = pc /\ funnel' = funnel
<1>1. pc[b][t] \in Nat
  BY DEF BinShape
<1> QED
  BY <1>1, GoMoves DEF BinShape, Moves

LEMMA ReturnsMoves ==
  ASSUME BinShape, NEW b \in Bins, NEW t \in Threads, Returns(b, t)
  PROVE  Moves(b, t) /\ at'[b][t] = "called" /\ pc'[b][t] = pc[b][t] + 1
BY ReturnMoves DEF Moves

LEMMA Adding ==
  ASSUME BinShape, PlayInv, NEW b \in Bins,
         NEW idle \in SUBSET Elements, NEW synced \in SUBSET Elements,
         Add(b, idle, synced)
  PROVE  Grows(b, idle, synced)
<1> DEFINE f == With(b, idle, synced)
<1>1. element' = [element EXCEPT ![b] = f]
  BY DEF Add
<1>2. f \in [Elements -> {"absent", "idle", "playing"}]
  BY DEF With, Synced, StateOfPipeline, BinShape
<1>3. \A e \in Elements :
        /\ f[e] = "absent" => element[b][e] = "absent" /\ e \notin idle \cup synced
        /\ pipeline[b] = "playing" /\ f[e] = "idle" =>
             e \notin synced /\ (e \in idle \/ element[b][e] = "idle")
        /\ pipeline[b] = "null" => f[e] # "playing"
  BY DEF With, Synced, StateOfPipeline, PlayInv, NothingPlaysBefore
<1> HIDE DEF f
<1>4. element' \in [Bins -> [Elements -> {"absent", "idle", "playing"}]] /\ element'[b] = f
      /\ \A c \in Bins \ {b} : element'[c] = element[c]
  BY <1>1, <1>2 DEF BinShape
<1> QED
  BY <1>3, <1>4 DEF Grows

LEMMA NothingAdded ==
  BinShape /\ PlayInv /\ element' = element => \A b \in Bins : Grows(b, {}, {})
BY DEF BinShape, PlayInv, NothingPlaysBefore, Grows

LEMMA Linking ==
  ASSUME BinShape, NEW b \in Bins, NEW pairs \in SUBSET (Elements \X Elements), Link(b, pairs)
  PROVE  Connects(b, pairs)
BY DEF BinShape, Link, Connects

LEMMA NothingLinked == BinShape /\ links' = links => \A b \in Bins : Connects(b, {})
BY DEF BinShape, Connects

(* What the parts of the invariant ask of a step. *)
LEMMA PlacesKept ==
  ASSUME BinShape, PlaceInv, NEW b \in Bins, NEW t \in Threads, Moves(b, t), InCall(b, t)',
         setup' = setup, streams \subseteq streams'
  PROVE  PlaceInv'
<1> SUFFICES ASSUME NEW c \in Bins, NEW u \in Threads, c # b \/ u # t PROVE InCall(c, u)'
  BY DEF PlaceInv
<1>1. pc'[c][u] = pc[c][u] /\ at'[c][u] = at[c][u] /\ funnel'[c][u] = funnel[c][u]
  BY DEF Moves, Elsewhere
<1>2. InCall(c, u)
  BY DEF PlaceInv
<1> QED
  BY <1>1, <1>2 DEF InCall, Called, Did

LEMMA PlayKept ==
  ASSUME BinShape, PlayInv, NEW b \in Bins, NEW t \in Threads,
         NEW idle \in SUBSET Elements, NEW synced \in SUBSET Elements,
         Moves(b, t), Grows(b, idle, synced), setup' = setup, pipeline' = pipeline,
         t = "main" => pipeline[b] = "null",
         t = "onTrack" =>
           \A e \in Elements :
             e \notin synced /\ (e \in idle \/ MayIdle(b, e)) => MayIdle(b, e)'
  PROVE  PlayInv'
<1>1. t \in {"main", "onTrack"}
  BY DEF Threads
<1>2. RunWasLast'
  <2> SUFFICES ASSUME NEW c \in Bins, pipeline[c] # "null"
               PROVE  pc'[c]["main"] > Len(setup[c]["main"])
    BY DEF RunWasLast
  <2>1. pc[c]["main"] > Len(setup[c]["main"])
    BY DEF PlayInv, RunWasLast
  <2>2. c # b \/ t # "main"
    OBVIOUS
  <2> QED
    BY <2>1, <2>2 DEF Moves, Elsewhere, Threads
<1>3. NothingPlaysBefore'
  BY DEF PlayInv, NothingPlaysBefore, Grows
<1>4. IdleAwaitsSync'
  <2> SUFFICES ASSUME NEW c \in Bins, pipeline[c] = "playing",
                      NEW e \in Elements, element'[c][e] = "idle"
               PROVE  MayIdle(c, e)'
    BY DEF IdleAwaitsSync
  <2>1. CASE c # b
    <3>1. MayIdle(c, e)
      BY <2>1 DEF PlayInv, IdleAwaitsSync, Grows
    <3>2. at'[c]["onTrack"] = at[c]["onTrack"] /\ funnel'[c]["onTrack"] = funnel[c]["onTrack"]
      BY <2>1 DEF Moves, Elsewhere, Threads
    <3> QED
      BY <3>1, <3>2 DEF MayIdle
  <2>2. CASE c = b
    <3>1. t = "onTrack"
      BY <1>1, <2>2
    <3>2. e \notin synced /\ (e \in idle \/ element[b][e] = "idle")
      BY <2>2 DEF Grows
    <3>3. element[b][e] = "idle" => MayIdle(b, e)
      BY <2>2 DEF PlayInv, IdleAwaitsSync
    <3> QED
      BY <2>2, <3>1, <3>2, <3>3
  <2> QED
    BY <2>1, <2>2
<1> QED
  BY <1>2, <1>3, <1>4 DEF PlayInv

LEMMA LinksKept ==
  ASSUME BinShape, LinkedIsThere, NEW b \in Bins,
         NEW idle \in SUBSET Elements, NEW synced \in SUBSET Elements,
         NEW pairs \in SUBSET (Elements \X Elements),
         Grows(b, idle, synced), Connects(b, pairs),
         \A e, f \in Elements : <<e, f>> \in pairs => element'[b][f] # "absent"
  PROVE  LinkedIsThere'
<1> SUFFICES ASSUME NEW c \in Bins
             PROVE  /\ element'[c]["rtpbin"] # "absent"
                    /\ \A e, f \in Elements : <<e, f>> \in links'[c] => element'[c][f] # "absent"
  BY DEF LinkedIsThere
<1>1. "rtpbin" \in Elements
  BY DEF Elements
<1>2. \A e \in Elements : element'[c][e] = "absent" => element[c][e] = "absent"
  BY DEF Grows
<1>3. \A e, f \in Elements : <<e, f>> \in links'[c] =>
        <<e, f>> \in links[c] \/ (c = b /\ <<e, f>> \in pairs)
  BY DEF Connects
<1> QED
  BY <1>1, <1>2, <1>3 DEF LinkedIsThere

(* A step that neither looks up, stores nor adds the shared funnel. *)
Orderly(b, t, idle, synced, pairs) ==
  /\ Moves(b, t) /\ InCall(b, t)' /\ Grows(b, idle, synced) /\ Connects(b, pairs)
  /\ UNCHANGED threadVars \/ (at[b][t] # "stored" /\ at'[b][t] \notin FunnelPlaces)
  /\ setup' = setup /\ rtcpFunnels' = rtcpFunnels /\ UNCHANGED endVars
  /\ streams \subseteq streams' /\ streams' \subseteq Bins /\ transports' \subseteq Bins
  /\ t = "main" => pipeline[b] = "null"
  /\ t = "onTrack" =>
       \A e \in Elements : e \notin synced /\ (e \in idle \/ MayIdle(b, e)) => MayIdle(b, e)'
  /\ \A e, f \in Elements : <<e, f>> \in pairs => element'[b][f] # "absent"
  /\ b \notin raced =>
       /\ t = "main" /\ Did(b, "main", "SendRTCPForStream")' =>
            Did(b, "main", "SendRTCPForStream") \/ RTCPGoesOut(b)'
       /\ setup[b].ccfb /\ (Did(b, t, "ReceiveRTPStreamFrom")' \/ at'[b][t] \in AfterLink) =>
            Did(b, t, "ReceiveRTPStreamFrom") \/ at[b][t] \in AfterLink \/ CCFBGoesOut(b)'

LEMMA OrderlyStep ==
  ASSUME BinInv, NEW b \in Bins, NEW t \in Threads,
         NEW idle \in SUBSET Elements, NEW synced \in SUBSET Elements,
         NEW pairs \in SUBSET (Elements \X Elements),
         Orderly(b, t, idle, synced, pairs)
  PROVE  BinInv'
<1> USE DEF BinInv
<1>1. BinShape'
  BY DEF Orderly, BinShape, Moves, Grows, Connects, endVars
<1>2. PlaceInv'
  BY PlacesKept DEF Orderly
<1>3. PlayInv'
  BY PlayKept DEF Orderly, endVars
<1>4. LinkedIsThere'
  BY LinksKept DEF Orderly, GraphInv
<1>5. \A u \in Threads : at[b][u] = "stored" => at'[b][u] = "stored"
  <2>1. CASE UNCHANGED threadVars
    BY <2>1 DEF threadVars
  <2>2. CASE at[b][t] # "stored" /\ at'[b][t] \notin FunnelPlaces
    BY <2>2 DEF Orderly, Moves, Elsewhere
  <2> QED
    BY <2>1, <2>2 DEF Orderly
<1>6. \A c \in Bins, u \in Threads : at'[c][u] \in FunnelPlaces =>
        at[c][u] = at'[c][u] /\ funnel[c][u] = funnel'[c][u]
  <2>1. CASE UNCHANGED threadVars
    BY <2>1 DEF threadVars
  <2>2. CASE at'[b][t] \notin FunnelPlaces
    BY <2>2 DEF Orderly, Moves, Elsewhere
  <2> QED
    BY <2>1, <2>2 DEF Orderly
<1>7. FunnelIsThere'
  <2> SUFFICES ASSUME NEW c \in Bins, NEW u \in Threads, element'[c][FunnelOf(u)] = "absent"
               PROVE  /\ rtcpFunnels[c] = FunnelOf(u) => at'[c][u] = "stored"
                      /\ \A s \in Threads : at'[c][s] = "found" /\ funnel'[c][s] = FunnelOf(u)
                                            => at'[c][u] = "stored"
    BY DEF FunnelIsThere, Orderly, FunnelOf
  <2>1. FunnelOf(u) \in Elements
    BY DEF FunnelOf, Elements
  <2>2. element[c][FunnelOf(u)] = "absent"
    BY <2>1 DEF Orderly, Grows
  <2>3. at[c][u] = "stored" => at'[c][u] = "stored"
    BY <1>5 DEF Orderly, Moves, Elsewhere
  <2>4. \A s \in Threads : at'[c][s] = "found" /\ funnel'[c][s] = FunnelOf(u)
                           => at[c][u] = "stored"
    BY <1>6, <2>2 DEF GraphInv, FunnelIsThere, FunnelPlaces
  <2>5. rtcpFunnels[c] = FunnelOf(u) => at[c][u] = "stored"
    BY <2>2 DEF GraphInv, FunnelIsThere
  <2> QED
    BY <2>3, <2>4, <2>5
<1>8. OneStores' /\ HoldsMap'
  <2>1. raced' = raced /\ rtcpFunnels' = rtcpFunnels
    BY DEF Orderly, endVars
  <2>2. \A u \in Threads : Other(u) \in Threads
    BY DEF Threads, Other
  <2> QED
    BY <1>6, <2>1, <2>2 DEF SharedInv, OneStores, HoldsMap, Storing, FunnelPlaces
<1>9. \A c \in Bins : /\ RTCPGoesOut(c) => RTCPGoesOut(c)'
                      /\ CCFBGoesOut(c) => CCFBGoesOut(c)'
  BY DEF Orderly, Connects, RTCPGoesOut, CCFBGoesOut
<1>10. SendsRTCP'
  <2> SUFFICES ASSUME NEW c \in Bins \ raced, Did(c, "main", "SendRTCPForStream")'
               PROVE  RTCPGoesOut(c)'
    BY DEF SendsRTCP, Orderly, endVars
  <2>1. CASE c = b /\ t = "main"
    BY <1>9, <2>1 DEF Orderly, SharedInv, SendsRTCP
  <2>2. CASE c # b \/ t # "main"
    <3>1. Did(c, "main", "SendRTCPForStream")
      BY <2>2 DEF Orderly, Moves, Elsewhere, Did, Threads
    <3> QED
      BY <1>9, <3>1 DEF SharedInv, SendsRTCP
  <2> QED
    BY <2>1, <2>2
<1>11. SendsCCFB'
  <2> SUFFICES ASSUME NEW c \in Bins \ raced, NEW u \in Threads, setup[c].ccfb,
                      Did(c, u, "ReceiveRTPStreamFrom")' \/ at'[c][u] \in AfterLink
               PROVE  CCFBGoesOut(c)'
    BY DEF SendsCCFB, Orderly, endVars
  <2>1. CASE c = b /\ u = t
    BY <1>9, <2>1 DEF Orderly, SharedInv, SendsCCFB
  <2>2. CASE c # b \/ u # t
    <3>1. Did(c, u, "ReceiveRTPStreamFrom") \/ at[c][u] \in AfterLink
      BY <2>2 DEF Orderly, Moves, Elsewhere, Did
    <3> QED
      BY <1>9, <3>1 DEF SharedInv, SendsCCFB
  <2> QED
    BY <2>1, <2>2
<1>12. CrashInv'
  BY DEF Orderly, endVars, CrashInv
<1> QED
  BY <1>1, <1>2, <1>3, <1>4, <1>7, <1>8, <1>10, <1>11, <1>12 DEF GraphInv, SharedInv
-----------------------------------------------------------------------------
(* A thread in a call: main before Run, OnTrack with nothing idle as long  *)
(* as it has not begun.                                                    *)
LEMMA MainBeforeRun ==
  ASSUME BinShape, PlayInv, NEW b \in Bins, NEW call, Called(b, "main", call)
  PROVE  pipeline[b] = "null"
BY NoCallAfterRun DEF BinShape

LEMMA NothingIdleYet ==
  ASSUME NEW b, NEW e, at[b]["onTrack"] = "called" PROVE ~MayIdle(b, e)
BY DEF MayIdle, BeforeSource, AfterFunnel, AfterLink

LEMMA Returning ==
  ASSUME BinInv, NEW b \in Bins, NEW t \in Threads, NEW call, Called(b, t, call), Returns(b, t),
         setup' = setup, streams \subseteq streams', call = "AddRTPSink" => b \in streams'
  PROVE  /\ InCall(b, t)'
         /\ \A other : Did(b, t, other)' => Did(b, t, other) \/ other = call
<1> USE DEF BinInv
<1>1. \A other : Did(b, t, other)' => Did(b, t, other) \/ other = call
  BY DidNow, OneCall
<1>2. pc'[b][t] <= Len(setup'[b][t]) + 1
  <2>1. setup[b][t] \in Seq(STRING) /\ pc[b][t] \in Nat
    BY CallsOf DEF BinShape
  <2> QED
    BY <2>1, ReturnsMoves DEF Called
<1>3. at'[b][t] = "called"
  BY ReturnsMoves
<1>4. Did(b, t, "AddRTPSink")' => b \in streams'
  BY <1>1 DEF PlaceInv, InCall
<1> QED
  BY <1>1, <1>2, <1>3, <1>4 DEF InCall, ScreamPlaces, FunnelPlaces, AfterLink

(* The calls other than SendRTCPForStream and ReceiveRTPStreamFrom.        *)
LEMMA WholeCall ==
  ASSUME BinInv, NEW b \in Bins, NEW t \in Threads, NEW call, Calls(b, t, call),
         call \notin {"SendRTCPForStream", "ReceiveRTPStreamFrom"}, Returns(b, t),
         NEW idle \in SUBSET Elements, NEW synced \in SUBSET Elements,
         NEW pairs \in SUBSET (Elements \X Elements),
         Grows(b, idle, synced), Connects(b, pairs),
         \A e, f \in Elements : <<e, f>> \in pairs => element'[b][f] # "absent",
         t = "onTrack" => idle \subseteq synced,
         setup' = setup, rtcpFunnels' = rtcpFunnels, UNCHANGED endVars,
         streams \subseteq streams', streams' \subseteq Bins, transports' \subseteq Bins,
         call = "AddRTPSink" => b \in streams'
  PROVE  BinInv'
<1>1. BinShape /\ PlayInv /\ Called(b, t, call) /\ at[b][t] = "called"
  BY DEF BinInv, Calls
<1>2. InCall(b, t)' /\ \A other : Did(b, t, other)' => Did(b, t, other) \/ other = call
  BY <1>1, Returning
<1>3. Moves(b, t) /\ at'[b][t] = "called"
  BY <1>1, ReturnsMoves
<1>4. t = "main" => pipeline[b] = "null"
  BY <1>1, MainBeforeRun
<1>5. t = "onTrack" =>
        \A e \in Elements : e \notin synced /\ (e \in idle \/ MayIdle(b, e)) => MayIdle(b, e)'
  BY <1>1, NothingIdleYet
<1>6. Orderly(b, t, idle, synced, pairs)
  BY <1>1, <1>2, <1>3, <1>4, <1>5 DEF Orderly, FunnelPlaces, AfterLink
<1> QED
  BY <1>6, OrderlyStep

(* The places within ReceiveRTPStreamFrom where it leaves the funnel.      *)
GoesOn(b, t, place) ==
  /\ Called(b, t, "ReceiveRTPStreamFrom") /\ GoesTo(b, t, place)
  /\ place \in ScreamPlaces => setup[b].ccfb
  /\ at[b][t] # "stored" /\ place \notin FunnelPlaces
  /\ place \in AfterLink /\ setup[b].ccfb => at[b][t] \in AfterFunnel
  /\ b \notin raced /\ setup[b].ccfb /\ place \in AfterLink =>
       at[b][t] \in AfterLink \/ CCFBGoesOut(b)'
  /\ UNCHANGED <<setup, mapVars, endVars>>
Idles(b, t, idle, synced) ==
  t = "onTrack" =>
    \A e \in Elements : e \notin synced /\ (e \in idle \/ MayIdle(b, e)) => MayIdle(b, e)'

LEMMA Onward ==
  ASSUME BinInv, NEW b \in Bins, NEW t \in Threads, NEW place \in Places,
         NEW idle \in SUBSET Elements, NEW synced \in SUBSET Elements,
         NEW pairs \in SUBSET (Elements \X Elements),
         GoesOn(b, t, place), Idles(b, t, idle, synced),
         Grows(b, idle, synced), Connects(b, pairs),
         \A e, f \in Elements : <<e, f>> \in pairs => element'[b][f] # "absent"
  PROVE  BinInv'
<1> USE DEF GoesOn, Idles
<1>1. BinShape /\ PlayInv
  BY DEF BinInv
<1>2. Moves(b, t) /\ at'[b][t] = place /\ pc' = pc /\ funnel' = funnel
  BY <1>1, Goes
<1>3. \A call : Did(b, t, call)' <=> Did(b, t, call)
  BY <1>2 DEF Did
<1>4. InCall(b, t)'
  BY <1>2 DEF BinInv, PlaceInv, InCall, Called, Did, FunnelPlaces, mapVars, AfterFunnel
<1>5. t = "main" => pipeline[b] = "null"
  BY <1>1, MainBeforeRun
<1>6. Orderly(b, t, idle, synced, pairs)
  BY <1>1, <1>2, <1>3, <1>4, <1>5 DEF Orderly, mapVars, BinShape
<1> QED
  BY <1>6, OrderlyStep

(* Its last step.                                                          *)
LEMMA ReceiveReturns ==
  ASSUME BinInv, NEW b \in Bins, NEW t \in Threads, Called(b, t, "ReceiveRTPStreamFrom"),
         Returns(b, t), at[b][t] # "stored", setup[b].ccfb => at[b][t] \in AfterLink,
         NEW synced \in SUBSET Elements, Grows(b, {}, synced), links' = links,
         t = "onTrack" => \A e \in Elements \ synced : ~MayIdle(b, e),
         UNCHANGED <<setup, mapVars, endVars>>
  PROVE  BinInv'
<1>1. BinShape /\ PlayInv
  BY DEF BinInv
<1>2. InCall(b, t)'
      /\ \A other : Did(b, t, other)' => Did(b, t, other) \/ other = "ReceiveRTPStreamFrom"
  BY <1>1, Returning DEF mapVars
<1>3. Moves(b, t) /\ at'[b][t] = "called"
  BY <1>1, ReturnsMoves
<1>4. t = "main" => pipeline[b] = "null"
  BY <1>1, MainBeforeRun
<1>5. Connects(b, {})
  BY <1>1, NothingLinked
<1>6. Orderly(b, t, {}, synced, {})
  BY <1>1, <1>2, <1>3, <1>4, <1>5 DEF Orderly, FunnelPlaces, mapVars, BinShape
<1> QED
  BY <1>6, OrderlyStep
-----------------------------------------------------------------------------
(* The calls that are one step.                                            *)
LEMMA SinkSteps ==
  ASSUME BinInv, NEW b \in Bins, NEW t \in Threads,
         AddRTPTransportSink(b, t) \/ AddRTPSink(b, t) PROVE BinInv'
<1>1. Grows(b, {}, {}) /\ Connects(b, {})
  BY NothingAdded, NothingLinked
  DEF BinInv, AddRTPTransportSink, AddRTPSink, graphVars
<1>2. /\ UNCHANGED <<setup, rtcpFunnels, endVars>> /\ Returns(b, t)
      /\ streams \subseteq streams' /\ streams' \subseteq Bins /\ transports' \subseteq Bins
  BY DEF BinInv, BinShape, AddRTPTransportSink, AddRTPSink
<1>3. CASE AddRTPTransportSink(b, t)
  BY <1>1, <1>2, <1>3, WholeCall DEF AddRTPTransportSink
<1>4. CASE AddRTPSink(b, t)
  <2>1. b \in streams'
    BY <1>4 DEF AddRTPSink
  <2> QED
    BY <1>1, <1>2, <1>4, <2>1, WholeCall DEF AddRTPSink
<1> QED
  BY <1>3, <1>4

LEMMA SourceStep ==
  ASSUME BinInv, NEW b \in Bins, NEW t \in Threads, AddRTPSourceStream(b, t) PROVE BinInv'
<1> DEFINE idle == {"source"} \cup (IF setup[b].scream THEN {"screamtx"} ELSE {})
           synced == SendPadAdded(b)
           pairs == {<<"rtpbin", e>> : e \in SendPadAdded(b)} \cup
                    (IF setup[b].scream THEN {<<"source", "screamtx">>, <<"screamtx", "rtpbin">>}
                                        ELSE {<<"source", "rtpbin">>})
<1>1. Calls(b, t, "AddRTPSourceStream") /\ Returns(b, t) /\ UNCHANGED <<setup, mapVars, endVars>>
      /\ Add(b, idle, synced) /\ Link(b, pairs)
  BY DEF AddRTPSourceStream
<1>2. idle \in SUBSET Elements /\ synced \in SUBSET Elements
      /\ pairs \in SUBSET (Elements \X Elements)
  <2>1. {"rtpbin", "source", "screamtx", "rtpsink"} \subseteq Elements
    BY DEF Elements
  <2>2. SendPadAdded(b) \subseteq {"rtpsink"}
    BY DEF SendPadAdded
  <2>3. \A e, f \in {"rtpbin", "source", "screamtx", "rtpsink"} : <<e, f>> \in Elements \X Elements
    BY <2>1
  <2>4. \A p \in pairs : \E e, f \in {"rtpbin", "source", "screamtx", "rtpsink"} : p = <<e, f>>
    BY <2>2
  <2>5. pairs \subseteq Elements \X Elements
    BY <2>3, <2>4
  <2> QED
    BY <2>1, <2>2, <2>5
<1>3. \A e, f \in Elements : <<e, f>> \in pairs => f \in idle \cup synced \cup {"rtpbin"}
  BY DEF SendPadAdded
<1> HIDE DEF idle, synced, pairs
<1>4. Grows(b, idle, synced) /\ Connects(b, pairs)
  BY <1>1, <1>2, Adding, Linking DEF BinInv
<1>5. \A e, f \in Elements : <<e, f>> \in pairs => element'[b][f] # "absent"
  BY <1>3, <1>4 DEF Grows, BinInv, GraphInv, LinkedIsThere
<1>6. t # "onTrack"
  BY <1>1, OnTrackReceives DEF Calls, BinInv
<1>7. /\ UNCHANGED <<setup, rtcpFunnels, endVars>>
      /\ streams \subseteq streams' /\ streams' \subseteq Bins /\ transports' \subseteq Bins
  BY <1>1 DEF BinInv, BinShape, mapVars
<1> QED
  BY <1>1, <1>2, <1>4, <1>5, <1>6, <1>7, WholeCall

LEMMA RTCPSourceStep ==
  ASSUME BinInv, NEW b \in Bins, NEW t \in Threads, ReceiveRTCPFrom(b, t) PROVE BinInv'
<1> DEFINE idle == IF setup[b].scream THEN {"rtcpsrc"} ELSE {}
           synced == IF setup[b].scream THEN {"screamtx"} ELSE {"rtcpsrc"}
           pairs == IF setup[b].scream
                    THEN {<<"rtcpsrc", "screamtx">>, <<"screamtx", "rtpbin">>}
                    ELSE {<<"rtcpsrc", "rtpbin">>}
<1>1. Calls(b, t, "ReceiveRTCPFrom") /\ Returns(b, t) /\ UNCHANGED <<setup, mapVars, endVars>>
      /\ Add(b, idle, synced) /\ Link(b, pairs)
  BY DEF ReceiveRTCPFrom
<1>2. idle \in SUBSET Elements /\ synced \in SUBSET Elements
      /\ pairs \in SUBSET (Elements \X Elements)
  <2>1. {"rtpbin", "rtcpsrc", "screamtx"} \subseteq Elements
    BY DEF Elements
  <2>2. \A e, f \in {"rtpbin", "rtcpsrc", "screamtx"} : <<e, f>> \in Elements \X Elements
    BY <2>1
  <2>3. \A p \in pairs : \E e, f \in {"rtpbin", "rtcpsrc", "screamtx"} : p = <<e, f>>
    OBVIOUS
  <2>4. pairs \subseteq Elements \X Elements
    BY <2>2, <2>3
  <2> QED
    BY <2>1, <2>4
<1>3. \A e, f \in Elements : <<e, f>> \in pairs => f \in idle \cup synced \cup {"rtpbin"}
  OBVIOUS
<1>4. t = "onTrack" => idle \subseteq synced
  BY <1>1, OnTrackReceives DEF Calls, BinInv
<1> HIDE DEF idle, synced, pairs
<1>5. Grows(b, idle, synced) /\ Connects(b, pairs)
  BY <1>1, <1>2, Adding, Linking DEF BinInv
<1>6. \A e, f \in Elements : <<e, f>> \in pairs => element'[b][f] # "absent"
  BY <1>3, <1>5 DEF Grows, BinInv, GraphInv, LinkedIsThere
<1>7. /\ UNCHANGED <<setup, rtcpFunnels, endVars>>
      /\ streams \subseteq streams' /\ streams' \subseteq Bins /\ transports' \subseteq Bins
  BY <1>1 DEF BinInv, BinShape, mapVars
<1> QED
  BY <1>1, <1>2, <1>4, <1>5, <1>6, <1>7, WholeCall

LEMMA MainSteps ==
  ASSUME BinInv, NEW b \in Bins, AddTrack(b) \/ WaitConnected(b) PROVE BinInv'
<1>1. PICK call : Calls(b, "main", call)
                  /\ call \notin {"SendRTCPForStream", "ReceiveRTPStreamFrom", "AddRTPSink"}
  BY DEF AddTrack, WaitConnected
<1>2. Returns(b, "main") /\ UNCHANGED <<setup, graphVars, mapVars, endVars>>
      /\ "main" \in Threads
  BY DEF AddTrack, WaitConnected, Threads
<1>3. Grows(b, {}, {}) /\ Connects(b, {})
  BY <1>2, NothingAdded, NothingLinked DEF BinInv, graphVars
<1>4. /\ UNCHANGED <<setup, rtcpFunnels, endVars>>
      /\ streams \subseteq streams' /\ streams' \subseteq Bins /\ transports' \subseteq Bins
  BY <1>2 DEF BinInv, BinShape, mapVars
<1> QED
  BY <1>1, <1>2, <1>3, <1>4, WholeCall
-----------------------------------------------------------------------------
(* The steps of ReceiveRTPStreamFrom. *)
LEMMA InReceive ==
  ASSUME BinInv, NEW b \in Bins, NEW t \in Threads, at[b][t] \notin {"called"} \cup FunnelPlaces
  PROVE  /\ Called(b, t, "ReceiveRTPStreamFrom") /\ at[b][t] # "stored"
         /\ at[b][t] \in ScreamPlaces => setup[b].ccfb
<1>1. Called(b, t, "ReceiveRTPStreamFrom") /\ at[b][t] # "stored"
  BY CallAt DEF BinInv, FunnelPlaces
<1> QED
  BY <1>1 DEF BinInv, PlaceInv, InCall

(* A step that only links, and one that only synchronises.                 *)
LEMMA ReceiveLinks ==
  ASSUME BinInv, NEW b \in Bins, NEW pairs \in SUBSET (Elements \X Elements),
         Link(b, pairs), element' = element
  PROVE  Grows(b, {}, {}) /\ Connects(b, pairs)
BY NothingAdded, Linking DEF BinInv

LEMMA ReceiveAdds ==
  ASSUME BinInv, NEW b \in Bins, links' = links,
         NEW idle \in SUBSET Elements, NEW synced \in SUBSET Elements, Add(b, idle, synced)
  PROVE  Grows(b, idle, synced) /\ Connects(b, {})
BY Adding, NothingLinked DEF BinInv

LEMMA AddSourceStep ==
  ASSUME BinInv, NEW b \in Bins, NEW t \in Threads, AddReceiveSource(b, t) PROVE BinInv'
<1>1. /\ Called(b, t, "ReceiveRTPStreamFrom") /\ at[b][t] = "called"
      /\ Add(b, {"rtpsrc"}, {}) /\ GoesTo(b, t, "source added")
      /\ UNCHANGED <<setup, links, mapVars, endVars>>
  BY DEF AddReceiveSource, Calls
<1>2. {"rtpsrc"} \in SUBSET Elements /\ {} \in SUBSET Elements
      /\ "source added" \in Places \ FunnelPlaces /\ "source added" \notin ScreamPlaces
      /\ "source added" \notin AfterLink /\ {} \in SUBSET (Elements \X Elements)
  BY DEF Elements, Places, FunnelPlaces, ScreamPlaces, AfterLink
<1>3. Grows(b, {"rtpsrc"}, {}) /\ Connects(b, {})
  BY <1>1, <1>2, ReceiveAdds
<1>4. Idles(b, t, {"rtpsrc"}, {})
  <2> SUFFICES ASSUME t = "onTrack" PROVE MayIdle(b, "rtpsrc")'
    BY <1>1, NothingIdleYet DEF Idles
  <2>1. at'[b][t] = "source added"
    BY <1>1, <1>2, Goes DEF BinInv
  <2> QED
    BY <2>1 DEF MayIdle, BeforeSource
<1>5. GoesOn(b, t, "source added")
  BY <1>1, <1>2 DEF GoesOn
<1> QED
  BY <1>2, <1>3, <1>4, <1>5, Onward

LEMMA AddChainStep ==
  ASSUME BinInv, NEW b \in Bins, NEW t \in Threads, AddReceiveChain(b, t) PROVE BinInv'
<1>1. Called(b, t, "ReceiveRTPStreamFrom") /\ at[b][t] = "source added"
      /\ UNCHANGED <<setup, mapVars, endVars>>
  BY InReceive DEF AddReceiveChain, FunnelPlaces
<1> DEFINE idle == IF setup[b].ccfb THEN {"capsfilter", "screamrx"} ELSE {"capsfilter"}
           pairs == IF setup[b].ccfb
                    THEN {<<"rtpsrc", "screamrx">>, <<"screamrx", "capsfilter">>}
                    ELSE {<<"rtpsrc", "capsfilter">>}
           place == IF setup[b].ccfb THEN "looking up" ELSE "chained"
<1>2. Add(b, idle, {}) /\ Link(b, pairs) /\ GoesTo(b, t, place)
  BY DEF AddReceiveChain
<1>3. idle \in SUBSET Elements /\ {} \in SUBSET Elements /\ pairs \in SUBSET (Elements \X Elements)
  <2>1. {"rtpsrc", "screamrx", "capsfilter"} \subseteq Elements
    BY DEF Elements
  <2>2. \A e, f \in {"rtpsrc", "screamrx", "capsfilter"} : <<e, f>> \in Elements \X Elements
    BY <2>1
  <2>3. \A p \in pairs : \E e, f \in {"rtpsrc", "screamrx", "capsfilter"} : p = <<e, f>>
    OBVIOUS
  <2>4. pairs \subseteq Elements \X Elements
    BY <2>2, <2>3
  <2> QED
    BY <2>1, <2>4
<1>4. place \in Places \ FunnelPlaces /\ (place \in ScreamPlaces => setup[b].ccfb)
      /\ (setup[b].ccfb => place \notin AfterLink)
  BY DEF Places, FunnelPlaces, ScreamPlaces, AfterLink
<1>5. \A e, f \in Elements : <<e, f>> \in pairs => f \in idle
  OBVIOUS
<1>6. Idles(b, t, idle, {})
  <2> SUFFICES ASSUME t = "onTrack", NEW e \in Elements, e \in idle \/ MayIdle(b, e)
               PROVE  MayIdle(b, e)'
    BY DEF Idles
  <2>1. at'[b][t] = place /\ funnel' = funnel /\ setup' = setup
    BY <1>1, <1>2, <1>4, Goes DEF BinInv
  <2>2. e \in {"rtpsrc", "capsfilter"} \/ (e = "screamrx" /\ setup[b].ccfb)
    BY <1>1 DEF MayIdle, AfterFunnel, AfterLink
  <2> QED
    BY <2>1, <2>2 DEF MayIdle, BeforeSource
<1> HIDE DEF idle, pairs, place
<1>7. Grows(b, idle, {}) /\ Connects(b, pairs)
  BY <1>2, <1>3, Adding, Linking DEF BinInv
<1>8. \A e, f \in Elements : <<e, f>> \in pairs => element'[b][f] # "absent"
  BY <1>5, <1>7 DEF Grows
<1>9. GoesOn(b, t, place)
  BY <1>1, <1>2, <1>4 DEF GoesOn
<1> QED
  BY <1>3, <1>4, <1>6, <1>7, <1>8, <1>9, Onward

LEMMA LinkScreamStep ==
  ASSUME BinInv, NEW b \in Bins, NEW t \in Threads, LinkScream(b, t) PROVE BinInv'
<1>1. /\ Called(b, t, "ReceiveRTPStreamFrom") /\ at[b][t] = "found"
      /\ element[b][funnel[b][t]] # "absent" /\ GoesTo(b, t, "chained")
      /\ Link(b, {<<"screamrx", funnel[b][t]>>})
      /\ UNCHANGED <<setup, element, mapVars, endVars>>
  BY DEF LinkScream, HasFunnel
<1>2. setup[b].ccfb /\ funnel[b][t] \in Funnels
  BY <1>1 DEF BinInv, PlaceInv, InCall, ScreamPlaces, FunnelPlaces
<1>3. {} \in SUBSET Elements /\ {<<"screamrx", funnel[b][t]>>} \in SUBSET (Elements \X Elements)
      /\ "chained" \in Places \ FunnelPlaces /\ "chained" \notin ScreamPlaces
      /\ "found" \in AfterFunnel
  <2>1. "screamrx" \in Elements /\ funnel[b][t] \in Elements
    BY <1>2 DEF Elements, Funnels
  <2>2. <<"screamrx", funnel[b][t]>> \in Elements \X Elements
    BY <2>1
  <2> QED
    BY <2>2 DEF Places, FunnelPlaces, ScreamPlaces, AfterFunnel
<1>4. Grows(b, {}, {}) /\ Connects(b, {<<"screamrx", funnel[b][t]>>})
  BY <1>1, <1>3, ReceiveLinks
<1>5. Idles(b, t, {}, {})
  <2> SUFFICES ASSUME t = "onTrack", NEW e \in Elements, MayIdle(b, e) PROVE MayIdle(b, e)'
    BY DEF Idles
  <2>1. at'[b][t] = "chained" /\ funnel' = funnel /\ setup' = setup
    BY <1>1, <1>3, Goes DEF BinInv
  <2> QED
    BY <1>1, <2>1 DEF MayIdle, BeforeSource, AfterFunnel, AfterLink
<1>6. b \notin raced => CCFBGoesOut(b)'
  <2> SUFFICES ASSUME b \notin raced PROVE CCFBGoesOut(b)'
    OBVIOUS
  <2>1. rtcpFunnels[b] # "none" /\ funnel[b][t] = rtcpFunnels[b]
    BY <1>1 DEF BinInv, SharedInv, HoldsMap
  <2> QED
    BY <1>1, <1>4, <2>1 DEF Connects, CCFBGoesOut, mapVars
<1>7. \A e, f \in Elements : <<e, f>> \in {<<"screamrx", funnel[b][t]>>} =>
        element'[b][f] # "absent"
  BY <1>1
<1>8. GoesOn(b, t, "chained")
  BY <1>1, <1>3, <1>6 DEF GoesOn
<1> QED
  BY <1>3, <1>4, <1>5, <1>7, <1>8, Onward

LEMMA LinkChainStep ==
  ASSUME BinInv, NEW b \in Bins, NEW t \in Threads, LinkChain(b, t) PROVE BinInv'
<1>1. /\ at[b][t] = "chained" /\ GoesTo(b, t, "linked")
      /\ Link(b, {<<"capsfilter", "rtpbin">>})
      /\ UNCHANGED <<setup, element, mapVars, endVars>>
  BY DEF LinkChain
<1>2. Called(b, t, "ReceiveRTPStreamFrom")
  BY <1>1, InReceive DEF FunnelPlaces
<1>3. {} \in SUBSET Elements /\ {<<"capsfilter", "rtpbin">>} \in SUBSET (Elements \X Elements)
      /\ "linked" \in Places \ FunnelPlaces /\ "linked" \notin ScreamPlaces
      /\ "chained" \in AfterLink /\ "chained" \in AfterFunnel
  <2>1. "capsfilter" \in Elements /\ "rtpbin" \in Elements
    BY DEF Elements
  <2>2. <<"capsfilter", "rtpbin">> \in Elements \X Elements
    BY <2>1
  <2> QED
    BY <2>2 DEF Places, FunnelPlaces, ScreamPlaces, AfterLink, AfterFunnel
<1>4. Grows(b, {}, {}) /\ Connects(b, {<<"capsfilter", "rtpbin">>})
  BY <1>1, <1>3, ReceiveLinks
<1>5. Idles(b, t, {}, {})
  <2> SUFFICES ASSUME t = "onTrack", NEW e \in Elements, MayIdle(b, e) PROVE MayIdle(b, e)'
    BY DEF Idles
  <2>1. at'[b][t] = "linked" /\ funnel' = funnel /\ setup' = setup
    BY <1>1, <1>3, Goes DEF BinInv
  <2> QED
    BY <1>1, <2>1 DEF MayIdle, BeforeSource, AfterFunnel, AfterLink
<1>6. \A e, f \in Elements : <<e, f>> \in {<<"capsfilter", "rtpbin">>} =>
        element'[b][f] # "absent"
  BY <1>1 DEF BinInv, GraphInv, LinkedIsThere
<1>7. GoesOn(b, t, "linked")
  BY <1>1, <1>2, <1>3 DEF GoesOn
<1> QED
  BY <1>3, <1>4, <1>5, <1>6, <1>7, Onward

(* The syncs that go on to another place: what they make play is no longer *)
(* excused there, and all else still is.                                   *)
LEMMA SyncOnward ==
  ASSUME BinInv, NEW b \in Bins, NEW t \in Threads, NEW e \in Elements, NEW next \in Places,
         \/ at[b][t] = "linked" /\ e = "rtpsrc" /\ next = "source plays"
         \/ at[b][t] = "source plays" /\ e = "capsfilter" /\ next = "filter plays" /\ setup[b].ccfb
         \/ at[b][t] = "filter plays" /\ e = "screamrx" /\ next = "scream plays",
         Add(b, {}, {e}), GoesTo(b, t, next), UNCHANGED <<setup, links, mapVars, endVars>>
  PROVE  BinInv'
<1>1. Called(b, t, "ReceiveRTPStreamFrom") /\ (at[b][t] = "filter plays" => setup[b].ccfb)
  BY InReceive DEF FunnelPlaces, ScreamPlaces
<1>2. {} \in SUBSET Elements /\ {e} \in SUBSET Elements /\ {} \in SUBSET (Elements \X Elements)
      /\ next \notin FunnelPlaces /\ at[b][t] \in AfterLink \cap AfterFunnel
      /\ (next \in ScreamPlaces => setup[b].ccfb) /\ at[b][t] # "stored"
  BY <1>1 DEF FunnelPlaces, ScreamPlaces, AfterLink, AfterFunnel
<1>3. Grows(b, {}, {e}) /\ Connects(b, {})
  BY <1>2, ReceiveAdds
<1>4. Idles(b, t, {}, {e})
  <2> SUFFICES ASSUME t = "onTrack", NEW d \in Elements, d # e, MayIdle(b, d)
               PROVE  MayIdle(b, d)'
    BY DEF Idles
  <2>1. at'[b][t] = next /\ funnel' = funnel /\ setup' = setup
    BY Goes DEF BinInv
  <2> QED
    BY <2>1 DEF MayIdle, BeforeSource, AfterFunnel, AfterLink
<1>5. GoesOn(b, t, next)
  BY <1>1, <1>2 DEF GoesOn
<1> QED
  BY <1>2, <1>3, <1>4, <1>5, Onward

LEMMA SyncSteps ==
  ASSUME BinInv, NEW b \in Bins, NEW t \in Threads,
         SyncSource(b, t) \/ SyncCapsfilter(b, t) \/ SyncScream(b, t) \/ SyncFunnel(b, t)
  PROVE  BinInv'
<1> USE DEF FunnelPlaces
<1>1. {"rtpsrc", "capsfilter", "screamrx"} \subseteq Elements
      /\ {"source plays", "filter plays", "scream plays"} \subseteq Places
  BY DEF Elements, Places
<1>2. CASE SyncSource(b, t)
  BY <1>1, <1>2, SyncOnward DEF SyncSource
<1>3. CASE SyncScream(b, t)
  BY <1>1, <1>3, SyncOnward DEF SyncScream
<1>4. CASE SyncCapsfilter(b, t) /\ setup[b].ccfb
  BY <1>1, <1>4, SyncOnward DEF SyncCapsfilter
<1>5. CASE SyncCapsfilter(b, t) /\ ~setup[b].ccfb
  <2>1. at[b][t] = "source plays" /\ Add(b, {}, {"capsfilter"}) /\ Returns(b, t)
        /\ UNCHANGED <<setup, links, mapVars, endVars>>
    BY <1>5 DEF SyncCapsfilter
  <2>2. Called(b, t, "ReceiveRTPStreamFrom")
    BY <2>1, InReceive
  <2>3. Grows(b, {}, {"capsfilter"}) /\ {"capsfilter"} \in SUBSET Elements
    BY <1>1, <2>1, ReceiveAdds
  <2>4. t = "onTrack" => \A e \in Elements \ {"capsfilter"} : ~MayIdle(b, e)
    BY <1>5, <2>1 DEF MayIdle, BeforeSource
  <2> QED
    BY <1>5, <2>1, <2>2, <2>3, <2>4, ReceiveReturns
<1>6. CASE SyncFunnel(b, t)
  <2>1. at[b][t] = "scream plays" /\ Add(b, {}, {funnel[b][t]}) /\ Returns(b, t)
        /\ UNCHANGED <<setup, links, mapVars, endVars>>
    BY <1>6 DEF SyncFunnel
  <2>2. Called(b, t, "ReceiveRTPStreamFrom") /\ at[b][t] \in AfterLink
    BY <2>1, InReceive DEF AfterLink
  <2>3. {funnel[b][t]} \in SUBSET Elements
    <3>1. setup[b].ccfb
      BY <2>1, InReceive DEF ScreamPlaces
    <3> QED
      BY <2>2, <3>1 DEF BinInv, PlaceInv, InCall, Funnels, Elements
  <2>4. Grows(b, {}, {funnel[b][t]})
    BY <2>1, <2>3, ReceiveAdds
  <2>5. t = "onTrack" => \A e \in Elements \ {funnel[b][t]} : ~MayIdle(b, e)
    BY <2>1 DEF MayIdle, BeforeSource
  <2> QED
    BY <2>1, <2>2, <2>3, <2>4, <2>5, ReceiveReturns
<1> QED
  BY <1>2, <1>3, <1>4, <1>5, <1>6
-----------------------------------------------------------------------------
(* The two threads have funnels of their own. *)
LEMMA OwnFunnels ==
  ASSUME NEW t \in Threads, NEW u \in Threads, FunnelOf(t) = FunnelOf(u) PROVE t = u
<1>1. FunnelOf("main") # FunnelOf("onTrack")
  BY DEF FunnelOf
<1> QED
  BY <1>1 DEF Threads

(* Both threads in rtcpFunnels: one of them is OnTrack, which gets there   *)
(* with SCReAM feedback only.                                              *)
LEMMA OnTrackInFunnels ==
  ASSUME BinInv, NEW b \in Bins, at[b]["onTrack"] \in {"looking up", "missing", "stored", "found"}
  PROVE  setup[b].ccfb /\ setup[b]["onTrack"] # << >>
<1>1. "onTrack" \in Threads /\ at[b]["onTrack"] # "called" /\ at[b]["onTrack"] \in ScreamPlaces
  BY DEF Threads, ScreamPlaces, FunnelPlaces
<1> QED
  BY <1>1, CallAt DEF BinInv

LEMMA Together ==
  ASSUME BinInv, NEW b \in Bins, NEW t \in Threads, LooksUp(b, t) \/ Storing(b, t),
         Storing(b, Other(t))
  PROVE  setup[b].ccfb /\ setup[b]["onTrack"] # << >>
<1>1. CASE t = "onTrack"
  <2>1. ~Called(b, "onTrack", "SendRTCPForStream")
    BY OnTrackReceives DEF BinInv
  <2>2. at[b][t] = "looking up" \/ Storing(b, t)
    BY <1>1, <2>1 DEF LooksUp, Calls
  <2> QED
    BY <1>1, <2>2, OnTrackInFunnels DEF Storing
<1>2. CASE t = "main"
  BY <1>2, OnTrackInFunnels DEF Storing, Other
<1> QED
  BY <1>1, <1>2 DEF Threads

(* Elements and links as they were. *)
LEMMA GraphKept ==
  ASSUME BinInv, NEW b \in Bins, NEW t \in Threads, Moves(b, t), InCall(b, t)',
         setup' = setup, pipeline' = pipeline, UNCHANGED graphVars, streams' = streams,
         t = "main" => pipeline[b] = "null", Idles(b, t, {}, {})
  PROVE  PlaceInv' /\ PlayInv' /\ LinkedIsThere'
<1>1. Grows(b, {}, {}) /\ {} \in SUBSET Elements
  BY NothingAdded DEF BinInv, graphVars
<1>2. PlaceInv'
  BY PlacesKept DEF BinInv
<1>3. PlayInv'
  BY <1>1, PlayKept DEF BinInv, Idles
<1> QED
  BY <1>2, <1>3 DEF BinInv, GraphInv, LinkedIsThere, graphVars

LEMMA LookUpStep ==
  ASSUME BinInv, NEW b \in Bins, NEW t \in Threads, LookUpFunnel(b, t) PROVE BinInv'
<1> DEFINE found == rtcpFunnels[b] # "none"
           place == IF found THEN "found" ELSE "missing"
           local == IF found THEN rtcpFunnels[b] ELSE FunnelOf(t)
<1>1. /\ LooksUp(b, t)
      /\ at' = [at EXCEPT ![b][t] = place] /\ funnel' = [funnel EXCEPT ![b][t] = local]
      /\ raced' = IF Storing(b, Other(t)) THEN raced \cup {b} ELSE raced
      /\ UNCHANGED <<setup, pc, graphVars, mapVars, pipeline, crashed, stalled>>
  BY DEF LookUpFunnel
<1>2. /\ at[b][t] \in {"called", "looking up"}
      /\ \/ Called(b, t, "ReceiveRTPStreamFrom") /\ setup[b].ccfb /\ at[b][t] = "looking up"
         \/ Called(b, t, "SendRTCPForStream")
  <2>1. CASE at[b][t] = "looking up"
    BY <2>1, InReceive DEF FunnelPlaces, ScreamPlaces
  <2>2. CASE at[b][t] # "looking up"
    BY <1>1, <2>2 DEF LooksUp, Calls
  <2> QED
    BY <2>1, <2>2
<1>3. place \in Places /\ local \in Funnels /\ (place = "missing" => local = FunnelOf(t))
      /\ place \in {"missing", "found"}
  BY DEF Places, Funnels, FunnelOf, BinInv, BinShape
<1>4. found => local = rtcpFunnels[b] /\ place = "found"
  OBVIOUS
<1>5. ~found => place = "missing"
  OBVIOUS
<1> HIDE DEF place, local
<1>6. at'[b][t] = place /\ funnel'[b][t] = local
  BY <1>1 DEF BinInv, BinShape
<1>7. Moves(b, t) /\ \A u \in Threads : u # t => at'[b][u] = at[b][u] /\ funnel'[b][u] = funnel[b][u]
  BY <1>1, <1>3 DEF BinInv, BinShape, Moves, Elsewhere
<1>8. BinShape'
  <2>1. raced' \subseteq Bins
    BY <1>1 DEF BinInv, BinShape
  <2> QED
    BY <1>1, <1>7, <2>1 DEF BinInv, BinShape, Moves, graphVars, mapVars
<1>9. InCall(b, t)'
  <2>1. /\ Called(b, t, "ReceiveRTPStreamFrom")' <=> Called(b, t, "ReceiveRTPStreamFrom")
        /\ Called(b, t, "SendRTCPForStream")' <=> Called(b, t, "SendRTCPForStream")
        /\ Did(b, t, "AddRTPSink")' <=> Did(b, t, "AddRTPSink")
        /\ setup' = setup /\ pc' = pc /\ streams' = streams
    BY <1>1 DEF Called, Did, mapVars
  <2>2. InCall(b, t)
    BY DEF BinInv, PlaceInv
  <2>3. Called(b, t, "ReceiveRTPStreamFrom") => setup[b].ccfb
    BY <1>2, OneCall
  <2> QED
    BY <1>2, <1>3, <1>6, <2>1, <2>2, <2>3 DEF InCall, FunnelPlaces, AfterLink
<1>10. t = "main" => pipeline[b] = "null"
  BY <1>2, MainBeforeRun DEF BinInv
<1>11. Idles(b, t, {}, {})
  BY <1>1, <1>2, <1>3, <1>6 DEF Idles, MayIdle, BeforeSource, AfterFunnel, AfterLink
<1>12. PlaceInv' /\ PlayInv' /\ LinkedIsThere'
  BY <1>1, <1>7, <1>9, <1>10, <1>11, GraphKept DEF mapVars
<1>13. FunnelIsThere'
  <2> SUFFICES ASSUME NEW c \in Bins, NEW u \in Threads, element[c][FunnelOf(u)] = "absent"
               PROVE  /\ rtcpFunnels[c] = FunnelOf(u) => at'[c][u] = "stored"
                      /\ \A s \in Threads : at'[c][s] = "found" /\ funnel'[c][s] = FunnelOf(u)
                                            => at'[c][u] = "stored"
    BY <1>1 DEF FunnelIsThere, FunnelOf, graphVars, mapVars
  <2>1. /\ rtcpFunnels[c] = FunnelOf(u) => at[c][u] = "stored"
        /\ \A s \in Threads : at[c][s] = "found" /\ funnel[c][s] = FunnelOf(u)
                              => at[c][u] = "stored"
    BY DEF BinInv, GraphInv, FunnelIsThere
  <2>2. at[c][u] = "stored" => at'[c][u] = "stored"
    BY <1>2, <1>7 DEF Moves, Elsewhere
  <2>3. \A s \in Threads : c # b \/ s # t => at'[c][s] = at[c][s] /\ funnel'[c][s] = funnel[c][s]
    BY <1>7 DEF Moves, Elsewhere
  <2>4. at'[b][t] = "found" => funnel'[b][t] = rtcpFunnels[b]
    BY <1>4, <1>5, <1>6
  <2> QED
    BY <2>1, <2>2, <2>3, <2>4
<1>14. SharedInv'
  <2>1. \A c \in Bins \ raced' : c \notin raced /\ (c = b => ~Storing(b, Other(t)))
    BY <1>1
  <2>2. OneStores' /\ HoldsMap'
    <3>1. \A c \in Bins, u \in Threads : c # b \/ u # t =>
            at'[c][u] = at[c][u] /\ funnel'[c][u] = funnel[c][u]
      BY <1>7 DEF Moves, Elsewhere
    <3>2. \A u \in Threads : Other(u) \in Threads /\ Other(u) # u /\ (u # t => u = Other(t))
      BY DEF Other, Threads
    <3>3. at'[b][t] = "missing" => rtcpFunnels[b] = "none"
      BY <1>3, <1>4, <1>6
    <3>4. at'[b][t] # "stored"
          /\ (at'[b][t] = "found" => rtcpFunnels[b] # "none" /\ funnel'[b][t] = rtcpFunnels[b])
      BY <1>3, <1>4, <1>5, <1>6
    <3>5. rtcpFunnels' = rtcpFunnels
      BY <1>1 DEF mapVars
    <3>6. OneStores'
      BY <2>1, <3>1, <3>2, <3>3, <3>5 DEF BinInv, SharedInv, OneStores, Storing
    <3>7. HoldsMap'
      BY <2>1, <3>1, <3>4, <3>5 DEF BinInv, SharedInv, HoldsMap
    <3> QED
      BY <3>6, <3>7
  <2>3. SendsRTCP'
    BY <1>1, <2>1 DEF BinInv, SharedInv, SendsRTCP, Did, RTCPGoesOut, graphVars, mapVars
  <2>4. SendsCCFB'
    <3>1. \A c \in Bins, u \in Threads : at'[c][u] \in AfterLink => at'[c][u] = at[c][u]
      BY <1>3, <1>6, <1>7 DEF Moves, Elsewhere, AfterLink
    <3> QED
      BY <1>1, <2>1, <3>1 DEF BinInv, SharedInv, SendsCCFB, Did, CCFBGoesOut, graphVars, mapVars
  <2> QED
    BY <2>2, <2>3, <2>4 DEF SharedInv
<1>15. CrashInv'
  BY <1>1, Together DEF BinInv, CrashInv
<1> QED
  BY <1>8, <1>12, <1>13, <1>14, <1>15 DEF BinInv, GraphInv

LEMMA StoreStep ==
  ASSUME BinInv, NEW b \in Bins, NEW t \in Threads, StoreFunnel(b, t) PROVE BinInv'
<1>1. /\ at[b][t] = "missing" /\ rtcpFunnels' = [rtcpFunnels EXCEPT ![b] = funnel[b][t]]
      /\ GoesTo(b, t, "stored")
      /\ UNCHANGED <<setup, graphVars, streams, transports, endVars>>
  BY DEF StoreFunnel, Storing
<1>2. funnel[b][t] = FunnelOf(t) /\ FunnelOf(t) \in Funnels
  BY <1>1 DEF BinInv, PlaceInv, InCall, FunnelOf, Funnels
<1>3. "stored" \in Places
  BY DEF Places
<1>4. Moves(b, t) /\ at'[b][t] = "stored" /\ pc' = pc /\ funnel' = funnel
  BY <1>1, <1>3, Goes DEF BinInv
<1>5. \A c \in Bins, u \in Threads : c # b \/ u # t => at'[c][u] = at[c][u]
  BY <1>4 DEF Moves, Elsewhere
<1>6. rtcpFunnels'[b] = FunnelOf(t) /\ \A c \in Bins : c # b => rtcpFunnels'[c] = rtcpFunnels[c]
  BY <1>1, <1>2 DEF BinInv, BinShape
<1>7. BinShape'
  <2>1. rtcpFunnels' \in [Bins -> {"none"} \cup Funnels]
    BY <1>1, <1>2 DEF BinInv, BinShape
  <2> QED
    BY <1>1, <1>4, <2>1 DEF BinInv, BinShape, Moves, graphVars, endVars
<1>8. InCall(b, t)'
  <2>1. /\ Called(b, t, "ReceiveRTPStreamFrom")' <=> Called(b, t, "ReceiveRTPStreamFrom")
        /\ Called(b, t, "SendRTCPForStream")' <=> Called(b, t, "SendRTCPForStream")
        /\ Did(b, t, "AddRTPSink")' <=> Did(b, t, "AddRTPSink")
        /\ setup' = setup /\ pc' = pc /\ streams' = streams
    BY <1>1, <1>4 DEF Called, Did
  <2>2. InCall(b, t)
    BY DEF BinInv, PlaceInv
  <2> QED
    BY <1>1, <1>2, <1>4, <2>1, <2>2 DEF InCall, FunnelPlaces, ScreamPlaces, AfterLink
<1>9. t = "main" => pipeline[b] = "null"
  BY <1>1, CallAt, MainBeforeRun DEF BinInv
<1>10. Idles(b, t, {}, {})
  BY <1>1, <1>4 DEF Idles, MayIdle, BeforeSource, AfterFunnel, AfterLink
<1>11. PlaceInv' /\ PlayInv' /\ LinkedIsThere'
  BY <1>1, <1>4, <1>8, <1>9, <1>10, GraphKept DEF endVars
<1>12. FunnelIsThere'
  <2> SUFFICES ASSUME NEW c \in Bins, NEW u \in Threads, element[c][FunnelOf(u)] = "absent"
               PROVE  /\ rtcpFunnels'[c] = FunnelOf(u) => at'[c][u] = "stored"
                      /\ \A s \in Threads : at'[c][s] = "found" /\ funnel[c][s] = FunnelOf(u)
                                            => at'[c][u] = "stored"
    BY <1>1, <1>4 DEF FunnelIsThere, FunnelOf, graphVars
  <2>1. /\ rtcpFunnels[c] = FunnelOf(u) => at[c][u] = "stored"
        /\ \A s \in Threads : at[c][s] = "found" /\ funnel[c][s] = FunnelOf(u)
                              => at[c][u] = "stored"
    BY DEF BinInv, GraphInv, FunnelIsThere
  <2>2. FunnelOf(t) = FunnelOf(u) => t = u
    BY OwnFunnels
  <2> QED
    BY <1>1, <1>4, <1>5, <1>6, <2>1, <2>2
<1>13. b \notin raced => rtcpFunnels[b] = "none" /\ at[b][Other(t)] # "missing"
  BY <1>1 DEF BinInv, SharedInv, OneStores, Storing
<1>14. raced' = raced /\ \A u \in Threads : Other(u) \in Threads /\ (u # t => u = Other(t))
  BY <1>1 DEF endVars, Other, Threads
<1>15. OneStores'
  BY <1>4, <1>5, <1>6, <1>13, <1>14 DEF BinInv, SharedInv, OneStores, Storing
<1>16. HoldsMap'
  <2> SUFFICES ASSUME NEW c \in Bins \ raced, NEW u \in Threads, at'[c][u] \in {"stored", "found"}
               PROVE  rtcpFunnels'[c] # "none" /\ funnel[c][u] = rtcpFunnels'[c]
    BY <1>4, <1>14 DEF HoldsMap
  <2>1. CASE c = b /\ u = t
    BY <1>2, <1>6, <2>1 DEF Funnels
  <2>2. CASE c # b \/ u # t
    <3>1. rtcpFunnels[c] # "none" /\ funnel[c][u] = rtcpFunnels[c]
      BY <1>5, <2>2 DEF BinInv, SharedInv, HoldsMap
    <3> QED
      BY <1>6, <1>13, <3>1
  <2> QED
    BY <2>1, <2>2
<1>17. \A c \in Bins \ raced :
         /\ c = b => ~RTCPGoesOut(c) /\ ~CCFBGoesOut(c)
         /\ c # b => (RTCPGoesOut(c)' <=> RTCPGoesOut(c)) /\ (CCFBGoesOut(c)' <=> CCFBGoesOut(c))
  BY <1>1, <1>6, <1>13 DEF RTCPGoesOut, CCFBGoesOut, graphVars
<1>18. SendsRTCP'
  BY <1>1, <1>4, <1>14, <1>17 DEF BinInv, SharedInv, SendsRTCP, Did
<1>19. SendsCCFB'
  <2>1. \A c \in Bins, u \in Threads : at'[c][u] \in AfterLink => at'[c][u] = at[c][u]
    BY <1>4, <1>5 DEF AfterLink
  <2> QED
    BY <1>1, <1>4, <1>14, <1>17, <2>1 DEF BinInv, SharedInv, SendsCCFB, Did
<1>20. CrashInv'
  BY <1>1 DEF BinInv, CrashInv, endVars
<1> QED
  BY <1>7, <1>11, <1>12, <1>15, <1>16, <1>18, <1>19, <1>20 DEF BinInv, GraphInv, SharedInv

LEMMA AddFunnelStep ==
  ASSUME BinInv, NEW b \in Bins, NEW t \in Threads, AddFunnel(b, t) PROVE BinInv'
<1> DEFINE f == FunnelOf(t)
           idle == IF Called(b, t, "SendRTCPForStream") THEN {} ELSE {f}
           synced == IF Called(b, t, "SendRTCPForStream") THEN {f} ELSE {}
<1>1. /\ at[b][t] = "stored" /\ funnel[b][t] = f /\ f \in Funnels
      /\ GoesTo(b, t, "found")
      /\ UNCHANGED <<setup, links, mapVars, endVars>>
  BY DEF AddFunnel, BinInv, PlaceInv, InCall, FunnelOf, Funnels
<1>2. Add(b, idle, synced)
  BY <1>1 DEF AddFunnel
<1>3. idle \in SUBSET Elements /\ synced \in SUBSET Elements /\ idle \cup synced = {f}
  BY <1>1 DEF Funnels, Elements
<1>4. Called(b, t, "SendRTCPForStream") \/ idle = {f}
  OBVIOUS
<1> HIDE DEF f, idle, synced
<1>5. Grows(b, idle, synced)
  BY <1>2, <1>3, Adding DEF BinInv
<1>6. "found" \in Places
  BY DEF Places
<1>7. Moves(b, t) /\ at'[b][t] = "found" /\ pc' = pc /\ funnel' = funnel
  BY <1>1, <1>6, Goes DEF BinInv
<1>8. \A c \in Bins, u \in Threads : c # b \/ u # t => at'[c][u] = at[c][u]
  BY <1>7 DEF Moves, Elsewhere
<1>9. BinShape'
  BY <1>1, <1>5, <1>7 DEF BinInv, BinShape, Moves, Grows, mapVars, endVars
<1>10. InCall(b, t)'
  <2>1. /\ Called(b, t, "ReceiveRTPStreamFrom")' <=> Called(b, t, "ReceiveRTPStreamFrom")
        /\ Called(b, t, "SendRTCPForStream")' <=> Called(b, t, "SendRTCPForStream")
        /\ Did(b, t, "AddRTPSink")' <=> Did(b, t, "AddRTPSink")
        /\ setup' = setup /\ pc' = pc /\ streams' = streams
    BY <1>1, <1>7 DEF Called, Did, mapVars
  <2>2. InCall(b, t)
    BY DEF BinInv, PlaceInv
  <2> QED
    BY <1>1, <1>7, <2>1, <2>2 DEF InCall, FunnelPlaces, ScreamPlaces, AfterLink
<1>11. t = "main" => pipeline[b] = "null"
  BY <1>1, CallAt, MainBeforeRun DEF BinInv
<1>12. t = "onTrack" =>
         \A e \in Elements : e \notin synced /\ (e \in idle \/ MayIdle(b, e)) => MayIdle(b, e)'
  <2> SUFFICES ASSUME t = "onTrack", NEW e \in Elements, e = f \/ MayIdle(b, e)
               PROVE  MayIdle(b, e)'
    BY <1>3
  <2>1. setup[b].ccfb
    BY <1>1, OnTrackInFunnels
  <2> QED
    BY <1>1, <1>7, <2>1 DEF MayIdle, BeforeSource, AfterFunnel, AfterLink
<1>13. PlaceInv'
  BY <1>1, <1>7, <1>10, PlacesKept DEF BinInv, mapVars
<1>14. PlayInv'
  BY <1>1, <1>3, <1>5, <1>7, <1>11, <1>12, PlayKept DEF BinInv, endVars
<1>15. LinkedIsThere'
  <2>1. \A c \in Bins : \A e \in Elements : element'[c][e] = "absent" => element[c][e] = "absent"
    BY <1>5 DEF Grows
  <2>2. "rtpbin" \in Elements
    BY DEF Elements
  <2> QED
    BY <1>1, <2>1, <2>2 DEF BinInv, GraphInv, LinkedIsThere
<1>16. FunnelIsThere'
  <2> SUFFICES ASSUME NEW c \in Bins, NEW u \in Threads, element'[c][FunnelOf(u)] = "absent"
               PROVE  /\ rtcpFunnels[c] = FunnelOf(u) => at'[c][u] = "stored"
                      /\ \A s \in Threads : at'[c][s] = "found" /\ funnel[c][s] = FunnelOf(u)
                                            => at'[c][u] = "stored"
    BY <1>1, <1>7 DEF FunnelIsThere, FunnelOf, mapVars
  <2>1. FunnelOf(u) \in Elements
    BY DEF FunnelOf, Elements
  <2>2. element[c][FunnelOf(u)] = "absent" /\ (c = b => FunnelOf(u) # f)
    BY <1>3, <1>5, <2>1 DEF Grows
  <2>3. c # b \/ u # t
    BY <2>2 DEF f
  <2>4. /\ rtcpFunnels[c] = FunnelOf(u) => at[c][u] = "stored"
        /\ \A s \in Threads : at[c][s] = "found" /\ funnel[c][s] = FunnelOf(u)
                              => at[c][u] = "stored"
    BY <2>2 DEF BinInv, GraphInv, FunnelIsThere
  <2> QED
    BY <1>1, <1>8, <2>2, <2>3, <2>4
<1>17. SharedInv'
  <2>1. UNCHANGED <<setup, pc, links, rtcpFunnels, raced, funnel>>
    BY <1>1, <1>7 DEF mapVars, endVars
  <2>2. \A u \in Threads : Other(u) \in Threads
    BY DEF Other, Threads
  <2>3. OneStores'
    BY <1>7, <1>8, <2>1, <2>2 DEF BinInv, SharedInv, OneStores, Storing
  <2>4. HoldsMap'
    BY <1>1, <1>8, <2>1 DEF BinInv, SharedInv, HoldsMap
  <2>5. SendsRTCP'
    BY <2>1 DEF BinInv, SharedInv, SendsRTCP, Did, RTCPGoesOut
  <2>6. \A c \in Bins, u \in Threads : at'[c][u] \in AfterLink => at'[c][u] = at[c][u]
    BY <1>7, <1>8 DEF AfterLink
  <2>7. SendsCCFB'
    BY <2>1, <2>6 DEF BinInv, SharedInv, SendsCCFB, Did, CCFBGoesOut
  <2> QED
    BY <2>3, <2>4, <2>5, <2>7 DEF SharedInv
<1>18. CrashInv'
  BY <1>1 DEF BinInv, CrashInv, endVars
<1> QED
  BY <1>9, <1>13, <1>14, <1>15, <1>16, <1>17, <1>18 DEF BinInv, GraphInv

LEMMA SendRTCPStep ==
  ASSUME BinInv, NEW b \in Bins, NEW t \in Threads, SendRTCPForStream(b, t) PROVE BinInv'
<1> DEFINE f == funnel[b][t]
           pairs == {<<"rtpbin", f>>, <<f, "rtcpsink">>}
<1>1. /\ Called(b, t, "SendRTCPForStream") /\ at[b][t] = "found" /\ element[b][f] # "absent"
      /\ Returns(b, t) /\ Add(b, {"rtcpsink"}, {}) /\ Link(b, pairs)
      /\ UNCHANGED <<setup, mapVars, endVars>>
  BY DEF SendRTCPForStream, HasFunnel
<1>2. f \in Funnels
  BY <1>1 DEF BinInv, PlaceInv, InCall
<1>3. {"rtcpsink"} \in SUBSET Elements /\ {} \in SUBSET Elements
      /\ pairs \in SUBSET (Elements \X Elements) /\ f \in Elements
  <2>1. "rtpbin" \in Elements /\ "rtcpsink" \in Elements /\ f \in Elements
    BY <1>2 DEF Elements, Funnels
  <2>2. <<"rtpbin", f>> \in Elements \X Elements /\ <<f, "rtcpsink">> \in Elements \X Elements
    BY <2>1
  <2> QED
    BY <2>1, <2>2
<1>4. Grows(b, {"rtcpsink"}, {}) /\ Connects(b, pairs)
  BY <1>1, <1>3, Adding, Linking DEF BinInv
<1>5. \A e, g \in Elements : <<e, g>> \in pairs => element'[b][g] # "absent"
  BY <1>1, <1>3, <1>4 DEF Grows
<1>6. t = "main" /\ pipeline[b] = "null"
  BY <1>1, OnTrackReceives, MainBeforeRun DEF BinInv, Threads
<1>7. InCall(b, t)'
      /\ \A other : Did(b, t, other)' => Did(b, t, other) \/ other = "SendRTCPForStream"
  BY <1>1, Returning DEF mapVars
<1>8. Moves(b, t) /\ at'[b][t] = "called"
  BY <1>1, ReturnsMoves DEF BinInv
<1>9. b \notin raced => RTCPGoesOut(b)'
  <2> SUFFICES ASSUME b \notin raced PROVE RTCPGoesOut(b)'
    OBVIOUS
  <2>1. rtcpFunnels[b] # "none" /\ f = rtcpFunnels[b]
    BY <1>1 DEF BinInv, SharedInv, HoldsMap
  <2>2. rtcpFunnels' = rtcpFunnels
    BY <1>1 DEF mapVars
  <2> QED
    BY <1>4, <2>1, <2>2 DEF Connects, RTCPGoesOut
<1> HIDE DEF f, pairs
<1>10. Orderly(b, t, {"rtcpsink"}, {}, pairs)
  BY <1>1, <1>4, <1>5, <1>6, <1>7, <1>8, <1>9
  DEF Orderly, FunnelPlaces, AfterLink, mapVars, BinInv, BinShape
<1> QED
  BY <1>3, <1>10, OrderlyStep
-----------------------------------------------------------------------------
(* Run and its return. *)
LEMMA RunStep == ASSUME BinInv, NEW b \in Bins, Run(b) PROVE BinInv'
<1>1. /\ Called(b, "main", "Run") /\ at[b]["main"] = "called" /\ Returns(b, "main")
      /\ pipeline' = [pipeline EXCEPT ![b] = "playing"]
      /\ UNCHANGED <<setup, links, mapVars, crashed, raced, stalled>>
      /\ "main" \in Threads
  BY DEF Run, Calls, Threads
<1>2. /\ element' \in [Bins -> [Elements -> {"absent", "idle", "playing"}]]
      /\ \A c \in Bins \ {b} : element'[c] = element[c]
      /\ \A e \in Elements : element'[b][e] = IF element[b][e] = "absent" THEN "absent"
                                                                          ELSE "playing"
  BY DEF Run, BinInv, BinShape
<1>3. Moves(b, "main") /\ at'[b]["main"] = "called" /\ pc'[b]["main"] = pc[b]["main"] + 1
  BY <1>1, ReturnsMoves DEF BinInv
<1>4. InCall(b, "main")'
      /\ \A other : Did(b, "main", other)' => Did(b, "main", other) \/ other = "Run"
  BY <1>1, Returning DEF mapVars
<1>5. BinShape'
  BY <1>1, <1>2, <1>3 DEF BinInv, BinShape, Moves, mapVars
<1>6. PlaceInv'
  BY <1>1, <1>3, <1>4, PlacesKept DEF BinInv, mapVars
<1>7. pipeline'[b] = "playing" /\ \A c \in Bins : c # b => pipeline'[c] = pipeline[c]
  BY <1>1 DEF BinInv, BinShape
<1>8. \A c \in Bins, u \in Threads : c # b \/ u # "main" =>
        pc'[c][u] = pc[c][u] /\ at'[c][u] = at[c][u] /\ funnel'[c][u] = funnel[c][u]
  BY <1>3 DEF Moves, Elsewhere
<1>9. PlayInv'
  <2>1. pc'[b]["main"] > Len(setup[b]["main"])
    <3>1. pc[b]["main"] = Len(setup[b]["main"])
      BY <1>1, CalledIsInProgram, Programs DEF BinInv
    <3>2. pc[b]["main"] \in Nat
      BY <1>1 DEF BinInv, BinShape
    <3> QED
      BY <1>3, <3>1, <3>2
  <2>2. RunWasLast'
    BY <1>1, <1>7, <1>8, <2>1 DEF BinInv, PlayInv, RunWasLast
  <2>3. NothingPlaysBefore'
    BY <1>2, <1>7 DEF BinInv, PlayInv, NothingPlaysBefore
  <2>4. IdleAwaitsSync'
    <3> SUFFICES ASSUME NEW c \in Bins, pipeline'[c] = "playing",
                        NEW e \in Elements, element'[c][e] = "idle"
                 PROVE  MayIdle(c, e)'
      BY DEF IdleAwaitsSync
    <3>1. c # b
      BY <1>2
    <3>2. MayIdle(c, e)
      BY <1>2, <1>7, <3>1 DEF BinInv, PlayInv, IdleAwaitsSync
    <3>3. at'[c]["onTrack"] = at[c]["onTrack"] /\ funnel'[c]["onTrack"] = funnel[c]["onTrack"]
      BY <1>8, <3>1 DEF Threads
    <3> QED
      BY <1>1, <3>2, <3>3 DEF MayIdle
  <2> QED
    BY <2>2, <2>3, <2>4 DEF PlayInv
<1>10. \A c \in Bins : \A e \in Elements : element'[c][e] = "absent" <=> element[c][e] = "absent"
  BY <1>2
<1>11. LinkedIsThere'
  <2>1. "rtpbin" \in Elements
    BY DEF Elements
  <2> QED
    BY <1>1, <1>10, <2>1 DEF BinInv, GraphInv, LinkedIsThere
<1>12. FunnelIsThere'
  <2> SUFFICES ASSUME NEW c \in Bins, NEW u \in Threads, element'[c][FunnelOf(u)] = "absent"
               PROVE  /\ rtcpFunnels[c] = FunnelOf(u) => at'[c][u] = "stored"
                      /\ \A s \in Threads : at'[c][s] = "found" /\ funnel'[c][s] = FunnelOf(u)
                                            => at'[c][u] = "stored"
    BY <1>1 DEF FunnelIsThere, FunnelOf, mapVars
  <2>1. FunnelOf(u) \in Elements
    BY DEF FunnelOf, Elements
  <2>2. /\ rtcpFunnels[c] = FunnelOf(u) => at[c][u] = "stored"
        /\ \A s \in Threads : at[c][s] = "found" /\ funnel[c][s] = FunnelOf(u)
                              => at[c][u] = "stored"
    BY <1>10, <2>1 DEF BinInv, GraphInv, FunnelIsThere
  <2> QED
    BY <1>1, <1>3, <1>8, <2>2
<1>13. SharedInv'
  <2>1. UNCHANGED <<setup, links, rtcpFunnels, raced>>
    BY <1>1 DEF mapVars
  <2>2. \A u \in Threads : Other(u) \in Threads
    BY DEF Other, Threads
  <2>3. OneStores' /\ HoldsMap'
    BY <1>3, <1>8, <2>1, <2>2 DEF BinInv, SharedInv, OneStores, HoldsMap, Storing
  <2>4. \A c \in Bins, u \in Threads, call \in {"SendRTCPForStream", "ReceiveRTPStreamFrom"} :
          Did(c, u, call)' => Did(c, u, call)
    BY <1>4, <1>8, <2>1 DEF Did
  <2>5. SendsRTCP'
    BY <1>1, <2>1, <2>4 DEF BinInv, SharedInv, SendsRTCP, RTCPGoesOut
  <2>6. SendsCCFB'
    <3>1. \A c \in Bins, u \in Threads : at'[c][u] \in AfterLink => at'[c][u] = at[c][u]
      BY <1>3, <1>8 DEF AfterLink
    <3> QED
      BY <2>1, <2>4, <3>1 DEF BinInv, SharedInv, SendsCCFB, CCFBGoesOut
  <2> QED
    BY <2>3, <2>5, <2>6 DEF SharedInv
<1>14. CrashInv'
  BY <1>1 DEF BinInv, CrashInv
<1> QED
  BY <1>5, <1>6, <1>9, <1>11, <1>12, <1>13, <1>14 DEF BinInv, GraphInv

LEMMA RunReturnsStep == ASSUME BinInv, NEW b \in Bins, RunReturns(b) PROVE BinInv'
<1>1. /\ pipeline[b] = "playing" /\ pipeline' = [pipeline EXCEPT ![b] = "returned"]
      /\ UNCHANGED <<setup, pc, at, funnel, element, links, streams, transports, rtcpFunnels,
                     crashed, raced, stalled>>
  BY DEF RunReturns, threadVars, graphVars, mapVars
<1>2. pipeline'[b] = "returned" /\ \A c \in Bins : c # b => pipeline'[c] = pipeline[c]
  BY <1>1 DEF BinInv, BinShape
<1>3. BinShape'
  BY <1>1 DEF BinInv, BinShape
<1>4. PlaceInv' /\ GraphInv'
  <2>1. PlaceInv'
    BY <1>1 DEF BinInv, PlaceInv, InCall, Called, Did
  <2>2. LinkedIsThere' /\ FunnelIsThere'
    BY <1>1 DEF BinInv, GraphInv, LinkedIsThere, FunnelIsThere, FunnelOf
  <2> QED
    BY <2>1, <2>2 DEF GraphInv
<1>5. PlayInv'
  BY <1>1, <1>2
  DEF BinInv, PlayInv, RunWasLast, NothingPlaysBefore, IdleAwaitsSync, MayIdle
<1>6. SharedInv' /\ CrashInv'
  BY <1>1
  DEF BinInv, SharedInv, OneStores, HoldsMap, SendsRTCP, SendsCCFB, Storing, Did,
      RTCPGoesOut, CCFBGoesOut, CrashInv
<1> QED
  BY <1>3, <1>4, <1>5, <1>6 DEF BinInv
-----------------------------------------------------------------------------
(* A pipeline whose source plays has been run. *)
LEMMA PlaysAfterRun ==
  ASSUME BinInv, NEW b \in Bins, Alive(b), SourceReads(b) PROVE pipeline[b] = "playing"
<1>1. element[b]["rtpsrc"] = "playing" /\ "rtpsrc" \in Elements
  BY DEF SourceReads, Playing, Elements
<1> QED
  BY <1>1 DEF Alive, BinInv, BinShape, PlayInv, NothingPlaysBefore

LEMMA PadStep == ASSUME BinInv, NEW b \in Bins, Alive(b), RecvPadAdded(b) PROVE BinInv'
<1>1. pipeline[b] = "playing"
  BY PlaysAfterRun DEF RecvPadAdded, Receiving
<1>2. UNCHANGED <<setup, threadVars, mapVars, endVars>>
  BY DEF RecvPadAdded
<1> DEFINE synced == IF b \in streams THEN {"decoder"} ELSE {}
           pairs == IF b \in streams THEN {<<"rtpbin", "decoder">>} ELSE {}
<1>3. {} \in SUBSET Elements /\ synced \in SUBSET Elements
      /\ pairs \in SUBSET (Elements \X Elements)
  <2>1. "rtpbin" \in Elements /\ "decoder" \in Elements
    BY DEF Elements
  <2>2. <<"rtpbin", "decoder">> \in Elements \X Elements
    BY <2>1
  <2> QED
    BY <2>1, <2>2
<1>4. Grows(b, {}, synced) /\ Connects(b, pairs)
  <2>1. CASE b \in streams
    BY <1>3, <2>1, Adding, Linking DEF RecvPadAdded, BinInv
  <2>2. CASE b \notin streams
    BY <2>2, NothingAdded, NothingLinked DEF RecvPadAdded, graphVars, BinInv
  <2> QED
    BY <2>1, <2>2
<1>5. \A e, f \in Elements : <<e, f>> \in pairs => element'[b][f] # "absent"
  BY <1>4 DEF Grows
<1> HIDE DEF synced, pairs
<1>6. "onTrack" \in Threads /\ "onTrack" # "main"
  BY DEF Threads
<1>7. Moves(b, "onTrack")
  BY <1>2, <1>6, Stays DEF BinInv
<1>8. \A e \in Elements : MayIdle(b, e) => MayIdle(b, e)'
  BY <1>2 DEF MayIdle, threadVars
<1>9. InCall(b, "onTrack")'
  <2>1. InCall(b, "onTrack")
    BY <1>6 DEF BinInv, PlaceInv
  <2> QED
    BY <1>2, <2>1 DEF InCall, Called, Did, threadVars, mapVars
<1>10. \A call : Did(b, "onTrack", call)' <=> Did(b, "onTrack", call)
  BY <1>2 DEF Did, threadVars
<1>11. at' = at
  BY <1>2 DEF threadVars
<1>12. Orderly(b, "onTrack", {}, synced, pairs)
  BY <1>2, <1>4, <1>5, <1>6, <1>7, <1>8, <1>9, <1>10, <1>11
  DEF Orderly, mapVars, BinInv, BinShape
<1> QED
  BY <1>3, <1>6, <1>12, OrderlyStep

LEMMA BinsStutter == BinInv /\ UNCHANGED binVars => BinInv'
<1> SUFFICES ASSUME BinInv, UNCHANGED binVars PROVE BinInv'
  OBVIOUS
<1>1. UNCHANGED <<setup, pc, at, funnel, element, links, streams, transports, rtcpFunnels,
                  pipeline, crashed, raced, stalled>>
  BY DEF binVars, threadVars, graphVars, mapVars, endVars
<1>2. BinShape' /\ CrashInv'
  BY <1>1 DEF BinInv, BinShape, CrashInv
<1>3. PlaceInv'
  BY <1>1 DEF BinInv, PlaceInv, InCall, Called, Did
<1>4. PlayInv'
  BY <1>1 DEF BinInv, PlayInv, RunWasLast, NothingPlaysBefore, IdleAwaitsSync, MayIdle
<1>5. GraphInv'
  BY <1>1 DEF BinInv, GraphInv, LinkedIsThere, FunnelIsThere, FunnelOf
<1>6. SharedInv'
  BY <1>1
  DEF BinInv, SharedInv, OneStores, HoldsMap, SendsRTCP, SendsCCFB, Storing, Did,
      RTCPGoesOut, CCFBGoesOut
<1> QED
  BY <1>2, <1>3, <1>4, <1>5, <1>6 DEF BinInv

(* A source that stops pushes into an element that OnTrack has linked and  *)
(* not yet made play.                                                      *)
LEMMA PushStep == ASSUME BinInv, NEW b \in Bins, Alive(b), SourcePushes(b) PROVE BinInv'
<1>1. CASE UNCHANGED binVars
  BY <1>1, BinsStutter
<1>2. CASE RunReturns(b)
  BY <1>2, RunReturnsStep
<1>3. ASSUME Flushing(b), stalled' = stalled \cup {b},
             UNCHANGED <<setup, threadVars, graphVars, mapVars, pipeline, crashed, raced>>
      PROVE  BinInv'
  <2>1. PICK k \in Hops(b) : Linked(b, k) /\ ~Playing(b, {Chain(b)[k + 1]})
    BY <1>3 DEF Flushing
  <2> DEFINE e == Chain(b)[k]
             f == Chain(b)[k + 1]
  <2>2. e \in Elements /\ f \in Elements
    <3>1. CASE setup[b].ccfb
      <4>1. Chain(b) = <<"rtpsrc", "screamrx", "capsfilter", "rtpbin">> /\ k \in 1 .. 3
        BY <2>1, <3>1 DEF Chain, Hops
      <4>2. k = 1 => e = "rtpsrc" /\ f = "screamrx"
        BY <4>1
      <4>3. k = 2 => e = "screamrx" /\ f = "capsfilter"
        BY <4>1
      <4>4. k = 3 => e = "capsfilter" /\ f = "rtpbin"
        BY <4>1
      <4>5. k = 1 \/ k = 2 \/ k = 3
        BY <4>1
      <4> HIDE DEF e, f
      <4> QED
        BY <4>2, <4>3, <4>4, <4>5 DEF Elements
    <3>2. CASE ~setup[b].ccfb
      <4>1. Chain(b) = <<"rtpsrc", "capsfilter", "rtpbin">> /\ k \in 1 .. 2
        BY <2>1, <3>2 DEF Chain, Hops
      <4>2. k = 1 => e = "rtpsrc" /\ f = "capsfilter"
        BY <4>1
      <4>3. k = 2 => e = "capsfilter" /\ f = "rtpbin"
        BY <4>1
      <4>4. k = 1 \/ k = 2
        BY <4>1
      <4> HIDE DEF e, f
      <4> QED
        BY <4>2, <4>3, <4>4 DEF Elements
    <3> QED
      BY <3>1, <3>2
  <2>3. <<e, f>> \in links[b] /\ element[b][f] # "playing"
    BY <2>1 DEF Linked, Playing
  <2> HIDE DEF e, f
  <2>4. element[b][f] # "absent"
    BY <2>2, <2>3 DEF BinInv, GraphInv, LinkedIsThere
  <2>5. element[b][f] = "idle"
    BY <2>2, <2>3, <2>4 DEF BinInv, BinShape
  <2>6. pipeline[b] = "playing"
    BY PlaysAfterRun DEF SourcePushes
  <2>7. MayIdle(b, f)
    BY <2>2, <2>5, <2>6 DEF BinInv, PlayInv, IdleAwaitsSync
  <2>8. at[b]["onTrack"] # "called" /\ "onTrack" \in Threads
    BY <2>7, NothingIdleYet DEF Threads
  <2>9. setup[b]["onTrack"] # << >>
    BY <2>8, CallAt DEF BinInv
  <2>10. BinShape' /\ CrashInv'
    BY <1>3, <2>9
    DEF threadVars, graphVars, mapVars, BinInv, BinShape, CrashInv
  <2>11. PlaceInv'
    BY <1>3 DEF threadVars, graphVars, mapVars, BinInv, PlaceInv, InCall, Called, Did
  <2>12. PlayInv'
    BY <1>3
    DEF threadVars, graphVars, mapVars, BinInv, PlayInv, RunWasLast, NothingPlaysBefore,
        IdleAwaitsSync, MayIdle
  <2>13. GraphInv'
    BY <1>3
    DEF threadVars, graphVars, mapVars, BinInv, GraphInv, LinkedIsThere, FunnelIsThere, FunnelOf
  <2>14. SharedInv'
    BY <1>3
    DEF threadVars, graphVars, mapVars, BinInv, SharedInv, OneStores, HoldsMap, SendsRTCP,
        SendsCCFB, Storing, Did, RTCPGoesOut, CCFBGoesOut
  <2> QED
    BY <2>10, <2>11, <2>12, <2>13, <2>14 DEF BinInv
<1> QED
  BY <1>1, <1>2, <1>3 DEF SourcePushes

(* A program crashes only in the meeting of its threads. *)
LEMMA CrashStep ==
  ASSUME BinInv, NEW b \in Bins, NEW t \in Threads, Crashes(b, t) PROVE BinInv'
<1>1. setup[b].ccfb /\ setup[b]["onTrack"] # << >>
  <2>1. CASE MapCrashes(b, t)
    BY <2>1, Together DEF MapCrashes
  <2>2. CASE LinkFails(b, t)
    <3>1. at[b][t] = "found" /\ element[b][funnel[b][t]] = "absent"
      BY <2>2 DEF LinkFails
    <3>2. funnel[b][t] \in Funnels
      BY <3>1 DEF BinInv, PlaceInv, InCall
    <3>3. PICK u \in Threads : funnel[b][t] = FunnelOf(u)
      BY <3>2 DEF Funnels, FunnelOf, Threads
    <3>4. at[b][u] = "stored"
      BY <3>1, <3>3 DEF BinInv, GraphInv, FunnelIsThere
    <3>5. t = "onTrack" \/ u = "onTrack"
      BY <3>1, <3>4 DEF Threads
    <3> QED
      BY <3>1, <3>4, <3>5, OnTrackInFunnels
  <2>3. CASE UnknownStream(b, t)
    <3>1. Called(b, t, "ReceiveRTPStreamFrom") /\ b \notin streams
      BY <2>3 DEF UnknownStream, Calls
    <3>2. pc[b][t] \in DOMAIN setup[b][t] /\ setup[b][t][pc[b][t]] = "ReceiveRTPStreamFrom"
      BY <3>1, CalledIsInProgram DEF BinInv
    <3>3. PICK i \in 1 .. pc[b][t] - 1 : setup[b][t][i] = "AddRTPSink"
      BY <3>2, Programs DEF BinInv
    <3>4. setup[b][t] \in Seq(STRING) /\ pc[b][t] \in Nat
      BY CallsOf DEF BinInv, BinShape
    <3>5. i \in DOMAIN setup[b][t] /\ i < pc[b][t]
      BY <3>2, <3>3, <3>4
    <3>6. Did(b, t, "AddRTPSink")
      BY <3>3, <3>5 DEF Did
    <3> QED
      BY <3>1, <3>6 DEF BinInv, PlaceInv, InCall
  <2> QED
    BY <2>1, <2>2, <2>3 DEF Crashes
<1>2. /\ crashed' = crashed \cup {b}
      /\ UNCHANGED <<setup, pc, at, funnel, element, links, streams, transports, rtcpFunnels,
                     pipeline, raced, stalled>>
  BY DEF Crashes, threadVars, graphVars, mapVars
<1>3. BinShape' /\ CrashInv'
  BY <1>1, <1>2 DEF BinInv, BinShape, CrashInv
<1>4. PlaceInv'
  BY <1>2 DEF BinInv, PlaceInv, InCall, Called, Did
<1>5. PlayInv'
  BY <1>2 DEF BinInv, PlayInv, RunWasLast, NothingPlaysBefore, IdleAwaitsSync, MayIdle
<1>6. GraphInv'
  BY <1>2 DEF BinInv, GraphInv, LinkedIsThere, FunnelIsThere, FunnelOf
<1>7. SharedInv'
  BY <1>2
  DEF BinInv, SharedInv, OneStores, HoldsMap, SendsRTCP, SendsCCFB, Storing, Did,
      RTCPGoesOut, CCFBGoesOut
<1> QED
  BY <1>3, <1>4, <1>5, <1>6, <1>7 DEF BinInv
-----------------------------------------------------------------------------
(* Every call and every step. *)
LEMMA BinCallStep ==
  ASSUME BinInv, NEW b \in Bins, NEW t \in Threads, BinCall(b, t) PROVE BinInv'
<1>1. CASE AddRTPTransportSink(b, t) \/ AddRTPSink(b, t)
  BY <1>1, SinkSteps
<1>2. CASE AddRTPSourceStream(b, t)
  BY <1>2, SourceStep
<1>3. CASE ReceiveRTCPFrom(b, t)
  BY <1>3, RTCPSourceStep
<1>4. CASE FunnelStep(b, t)
  BY <1>4, LookUpStep, StoreStep, AddFunnelStep, SendRTCPStep DEF FunnelStep
<1>5. CASE ReceiveStep(b, t)
  BY <1>5, AddSourceStep, AddChainStep, LinkScreamStep, LinkChainStep, SyncSteps DEF ReceiveStep
<1> QED
  BY <1>1, <1>2, <1>3, <1>4, <1>5 DEF BinCall

LEMMA BinsStep == BinInv /\ [Next]_vars => BinInv'
<1> SUFFICES ASSUME BinInv, [Next]_vars PROVE BinInv'
  OBVIOUS
<1> USE DEF Threads
<1>1. CASE UNCHANGED binVars
  BY <1>1, BinsStutter
<1>2. CASE UNCHANGED vars
  BY <1>1, <1>2 DEF vars
<1>3. ASSUME NEW b \in Bins, Call(b) PROVE BinInv'
  BY <1>3, MainSteps, RunStep, BinCallStep DEF Call
<1>4. ASSUME NEW b \in Bins, Crash(b) PROVE BinInv'
  BY <1>4, CrashStep DEF Crash
<1>5. S \in Bins /\ R \in Bins
  BY TwoBins
<1>6. CASE End
  BY <1>5, <1>6, RunReturnsStep DEF End
<1>7. CASE Read
  BY <1>5, <1>7, PushStep DEF Read, Both
<1>8. CASE PadAdded
  BY <1>5, <1>8, PadStep DEF PadAdded
<1>9. CASE Send \/ Lose \/ Arrive \/ Report \/ Feed
  BY <1>1, <1>9 DEF Send, Lose, Arrive, Report, Feed
<1> QED
  BY <1>2, <1>3, <1>4, <1>6, <1>7, <1>8, <1>9 DEF Next

THEOREM BinInvariant == Spec => []BinInv
<1>1. Init => BinInv
  BY BinsInitially DEF Init
<1> QED
  BY <1>1, BinsStep, PTL DEF Spec

(* A program fails to put its pipeline together, and a source stops for    *)
(* good, only where OnTrack works beside main; what is put together plays  *)
(* and sends RTCP and feedback, unless the two met in rtcpFunnels.         *)
THEOREM PipelinesAreWhole == Spec => []PipelineIsWhole
BY BinInvariant, WholeIfInvariant, PTL

(* The types of the pipelines and of the way of the marks.                 *)
THEOREM TypesCorrect == Spec => [](BinTypeOK /\ FeedbackTypeOK)
<1>1. BinInv => BinTypeOK
  <2> SUFFICES ASSUME BinInv PROVE BinTypeOK
    OBVIOUS
  <2>1. ASSUME NEW b \in Bins, NEW t \in Threads
        PROVE  /\ pc[b][t] \in 1 .. Len(setup[b][t]) + 1 /\ at[b][t] \in Places
               /\ funnel[b][t] \in {"none", "funnel of main", "funnel of onTrack"}
    <3>1. pc[b][t] \in Nat \ {0} /\ pc[b][t] <= Len(setup[b][t]) + 1
      BY DEF BinInv, BinShape, PlaceInv, InCall
    <3>2. Len(setup[b][t]) \in Nat
      BY CallsOf DEF BinInv
    <3>3. at[b][t] \in Places /\ funnel[b][t] \in {"none"} \cup Funnels
      BY DEF BinInv, BinShape
    <3>4. pc[b][t] \in 1 .. Len(setup[b][t]) + 1
      BY <3>1, <3>2
    <3>5. funnel[b][t] \in {"none", "funnel of main", "funnel of onTrack"}
      BY <3>3 DEF Funnels
    <3> QED
      BY <3>3, <3>4, <3>5
  <2>2. rtcpFunnels \in [Bins -> {"none", "funnel of main", "funnel of onTrack"}]
    <3>1. {"none"} \cup Funnels = {"none", "funnel of main", "funnel of onTrack"}
      BY DEF Funnels
    <3> QED
      BY <3>1 DEF BinInv, BinShape
  <2> QED
    BY <2>1, <2>2 DEF BinInv, BinShape, BinTypeOK
<1>2. IInv => FeedbackTypeOK
  BY DEF IInv
<1> QED
  BY <1>1, <1>2, BinInvariant, Invariant, PTL
=============================================================================
