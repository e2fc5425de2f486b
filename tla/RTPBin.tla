------------------------------- MODULE RTPBin -------------------------------
(***************************************************************************)
(* gstreamer.RTPBin: a pipeline around GStreamer's rtpbin, and the         *)
(* programs that put one together (send, receive, webrtc), one bin each.   *)
(*                                                                         *)
(* main calls the methods of the bin and then Run.  In the program webrtc  *)
(* the callback OnTrack calls them from a goroutine of pion's, before,     *)
(* during or after Run, on the same maps, and no lock guards them.         *)
(*                                                                         *)
(* GStreamer is external: Run makes the elements play that are in the      *)
(* pipeline, one that comes later plays only after SyncStateWithParent,    *)
(* and rtpbin announces its source pads with pad-added: send_rtp_src while *)
(* its sink pad is requested, recv_rtp_src when packets come in.  Pads of  *)
(* elements link only within one pipeline.  A source that plays reads and  *)
(* pushes: into a pad without a peer it is an error on the bus, into an    *)
(* element that does not play yet it makes the source stop for good.       *)
(***************************************************************************)
EXTENDS Naturals, Sequences

CONSTANTS
  Bins,
  Setups      \* functions from Bins to records of options and calls

Threads == {"main", "onTrack"}
Elements == {"rtpbin", "source", "screamtx", "rtpsink", "rtpsrc", "capsfilter", "screamrx",
             "funnel of main", "funnel of onTrack", "rtcpsink", "rtcpsrc", "decoder"}

ASSUME SetupsOK ==
  Setups \subseteq
    [Bins -> [main : Seq(STRING), onTrack : Seq(STRING), ccfb : BOOLEAN, scream : BOOLEAN]]

(* The programs: Run is the last call of main, every main sends RTCP, what *)
(* understands SCReAM feedback receives a stream, what receives a stream   *)
(* has added its sink before, and OnTrack only receives, without SCReAM.   *)
ASSUME ProgramsOK ==
  \A s \in Setups : \A b \in Bins :
    /\ \A k \in DOMAIN s[b].main : s[b].main[k] = "Run" => k = Len(s[b].main)
    /\ \E k \in DOMAIN s[b].main : s[b].main[k] = "SendRTCPForStream"
    /\ s[b].ccfb => \/ \E k \in DOMAIN s[b].main : s[b].main[k] = "ReceiveRTPStreamFrom"
                    \/ \E k \in DOMAIN s[b].onTrack : s[b].onTrack[k] = "ReceiveRTPStreamFrom"
    /\ \A t \in Threads : \A k \in DOMAIN s[b][t] :
         s[b][t][k] = "ReceiveRTPStreamFrom" => \E i \in 1 .. k - 1 : s[b][t][i] = "AddRTPSink"
    /\ \A k \in DOMAIN s[b].onTrack :
         s[b].onTrack[k] \in {"AddRTPSink", "ReceiveRTPStreamFrom", "ReceiveRTCPFrom"}
    /\ s[b].scream => s[b].onTrack = << >>

VARIABLES
  setup,
  pc,           \* the call each thread comes to next, or is in
  at,           \* how far it is in that call
  funnel,       \* its local variable of that name
  element,      \* of each bin: absent, idle or playing
  links,        \* pairs of elements whose pads are linked
  streams, transports,   \* bins with an entry for stream 0
  rtcpFunnels,  \* of each bin: the funnel in the map, or none
  pipeline,     \* null, playing, or returned: Run has returned
  crashed,      \* bins whose program panicked, or main gave up before Run
  raced,        \* both threads looked before one of them stored a funnel
  stalled       \* bins whose source of RTP has stopped for good

threadVars == <<pc, at, funnel>>
graphVars == <<element, links>>
mapVars == <<streams, transports, rtcpFunnels>>
endVars == <<pipeline, crashed, raced, stalled>>
binVars == <<setup, threadVars, graphVars, mapVars, endVars>>

Called(b, t, call) == pc[b][t] <= Len(setup[b][t]) /\ setup[b][t][pc[b][t]] = call
Calls(b, t, call) == Called(b, t, call) /\ at[b][t] = "called"
Has(b, call) == \E k \in DOMAIN setup[b].main : setup[b].main[k] = call
Did(b, t, call) == \E k \in DOMAIN setup[b][t] : k < pc[b][t] /\ setup[b][t][k] = call
Alive(b) == b \notin crashed /\ pipeline[b] # "returned"

GoesTo(b, t, place) == at' = [at EXCEPT ![b][t] = place] /\ UNCHANGED <<pc, funnel>>
Returns(b, t) ==
  /\ pc' = [pc EXCEPT ![b][t] = @ + 1]
  /\ at' = [at EXCEPT ![b][t] = "called"]
  /\ funnel' = [funnel EXCEPT ![b][t] = "none"]

(* Pipeline.Add, with and without SyncStateWithParent. *)
StateOfPipeline(b) == IF pipeline[b] = "playing" THEN "playing" ELSE "idle"
Unsynced(b) == "idle"
Synced(b) == StateOfPipeline(b)
With(b, idle, synced) ==
  [e \in Elements |-> IF e \in synced THEN Synced(b)
                      ELSE IF e \in idle THEN "idle" ELSE element[b][e]]
Link(b, pairs) == links' = [links EXCEPT ![b] = @ \cup pairs]

Add(b, idle, synced) == element' = [element EXCEPT ![b] = With(b, idle, synced)]

FunnelOf(t) == IF t = "main" THEN "funnel of main" ELSE "funnel of onTrack"
Other(t) == IF t = "main" THEN "onTrack" ELSE "main"
-----------------------------------------------------------------------------
(* AddRTPTransportSink and AddRTPSink: an entry in a map.                  *)
AddRTPTransportSink(b, t) ==
  /\ Calls(b, t, "AddRTPTransportSink") /\ Returns(b, t)
  /\ transports' = transports \cup {b}
  /\ UNCHANGED <<setup, graphVars, streams, rtcpFunnels, endVars>>

AddRTPSink(b, t) ==
  /\ Calls(b, t, "AddRTPSink") /\ Returns(b, t)
  /\ streams' = streams \cup {b}
  /\ UNCHANGED <<setup, graphVars, transports, rtcpFunnels, endVars>>

(* AddRTPSourceStreamGst.  The pad for sending appears meanwhile, and its  *)
(* callback adds the sink of the transport.                                *)
SendPadAdded(b) == IF b \in transports THEN {"rtpsink"} ELSE {}
AddRTPSourceStream(b, t) ==
  /\ Calls(b, t, "AddRTPSourceStream") /\ Returns(b, t)
  /\ Add(b, {"source"} \cup (IF setup[b].scream THEN {"screamtx"} ELSE {}), SendPadAdded(b))
  /\ Link(b, {<<"rtpbin", e>> : e \in SendPadAdded(b)} \cup
             (IF setup[b].scream THEN {<<"source", "screamtx">>, <<"screamtx", "rtpbin">>}
                                 ELSE {<<"source", "rtpbin">>}))
  /\ UNCHANGED <<setup, mapVars, endVars>>

(* ReceiveRTCPFromGst links the source to rtpbin, or to screamtx, which is *)
(* synchronised in its place.  One step: what the source of RTCP reads     *)
(* before it is linked is not followed.                                    *)
ReceiveRTCPFrom(b, t) ==
  /\ Calls(b, t, "ReceiveRTCPFrom") /\ Returns(b, t)
  /\ IF setup[b].scream
     THEN /\ Add(b, {"rtcpsrc"}, {"screamtx"})
          /\ Link(b, {<<"rtcpsrc", "screamtx">>, <<"screamtx", "rtpbin">>})
     ELSE /\ Add(b, {}, {"rtcpsrc"})
          /\ Link(b, {<<"rtcpsrc", "rtpbin">>})
  /\ UNCHANGED <<setup, mapVars, endVars>>
-----------------------------------------------------------------------------
(* ReceiveRTPStreamFromGst adds its source, then the other elements, and   *)
(* links them.  Without AddRTPSink it returns an error, which is a panic   *)
(* in OnTrack.                                                             *)
AddReceiveSource(b, t) ==
  /\ Calls(b, t, "ReceiveRTPStreamFrom") /\ b \in streams
  /\ Add(b, {"rtpsrc"}, {}) /\ GoesTo(b, t, "source added")
  /\ UNCHANGED <<setup, links, mapVars, endVars>>
UnknownStream(b, t) == Calls(b, t, "ReceiveRTPStreamFrom") /\ b \notin streams
AddReceiveChain(b, t) ==
  /\ at[b][t] = "source added"
  /\ IF setup[b].ccfb
     THEN /\ Add(b, {"capsfilter", "screamrx"}, {})
          /\ Link(b, {<<"rtpsrc", "screamrx">>, <<"screamrx", "capsfilter">>})
          /\ GoesTo(b, t, "looking up")
     ELSE /\ Add(b, {"capsfilter"}, {})
          /\ Link(b, {<<"rtpsrc", "capsfilter">>})
          /\ GoesTo(b, t, "chained")
  /\ UNCHANGED <<setup, mapVars, endVars>>

(* rtcpFunnels is looked up and, if the funnel is missing, a new one is    *)
(* stored and only then added.  A look-up or a store while the other       *)
(* thread stores may end the process.                                      *)
LooksUp(b, t) == Calls(b, t, "SendRTCPForStream") \/ at[b][t] = "looking up"
Storing(b, t) == at[b][t] = "missing"
MapCrashes(b, t) == (LooksUp(b, t) \/ Storing(b, t)) /\ Storing(b, Other(t))

LookUpFunnel(b, t) ==
  LET found == rtcpFunnels[b] # "none"
  IN /\ LooksUp(b, t)
     /\ at' = [at EXCEPT ![b][t] = IF found THEN "found" ELSE "missing"]
     /\ funnel' = [funnel EXCEPT ![b][t] = IF found THEN rtcpFunnels[b] ELSE FunnelOf(t)]
     /\ raced' = IF Storing(b, Other(t)) THEN raced \cup {b} ELSE raced
     /\ UNCHANGED <<setup, pc, graphVars, mapVars, pipeline, crashed, stalled>>
StoreFunnel(b, t) ==
  /\ Storing(b, t)
  /\ rtcpFunnels' = [rtcpFunnels EXCEPT ![b] = funnel[b][t]]
  /\ GoesTo(b, t, "stored")
  /\ UNCHANGED <<setup, graphVars, streams, transports, endVars>>
AddFunnel(b, t) ==
  /\ at[b][t] = "stored"
  /\ IF Called(b, t, "SendRTCPForStream") THEN Add(b, {}, {funnel[b][t]})
                                          ELSE Add(b, {funnel[b][t]}, {})
  /\ GoesTo(b, t, "found")
  /\ UNCHANGED <<setup, links, mapVars, endVars>>

(* A funnel that the other thread has stored and not added cannot be       *)
(* linked: an error.                                                       *)
HasFunnel(b, t) == at[b][t] = "found" /\ element[b][funnel[b][t]] # "absent"
LinkFails(b, t) == at[b][t] = "found" /\ element[b][funnel[b][t]] = "absent"

(* SendRTCPForStreamGst: the sink of the transport is not synchronised.    *)
SendRTCPForStream(b, t) ==
  /\ Called(b, t, "SendRTCPForStream") /\ HasFunnel(b, t) /\ Returns(b, t)
  /\ Add(b, {"rtcpsink"}, {})
  /\ Link(b, {<<"rtpbin", funnel[b][t]>>, <<funnel[b][t], "rtcpsink">>})
  /\ UNCHANGED <<setup, mapVars, endVars>>

(* The rest of ReceiveRTPStreamFromGst: it synchronises all it has added,  *)
(* and the funnel, the source first.                                       *)
LinkScream(b, t) ==
  /\ Called(b, t, "ReceiveRTPStreamFrom") /\ HasFunnel(b, t)
  /\ Link(b, {<<"screamrx", funnel[b][t]>>}) /\ GoesTo(b, t, "chained")
  /\ UNCHANGED <<setup, element, mapVars, endVars>>
LinkChain(b, t) ==
  /\ at[b][t] = "chained"
  /\ Link(b, {<<"capsfilter", "rtpbin">>}) /\ GoesTo(b, t, "linked")
  /\ UNCHANGED <<setup, element, mapVars, endVars>>
SyncSource(b, t) ==
  /\ at[b][t] = "linked"
  /\ Add(b, {}, {"rtpsrc"}) /\ GoesTo(b, t, "source plays")
  /\ UNCHANGED <<setup, links, mapVars, endVars>>
CapsfilterForgotten(b, t) ==
  /\ at[b][t] = "source plays"
  /\ IF setup[b].ccfb THEN GoesTo(b, t, "filter plays") ELSE Returns(b, t)
  /\ UNCHANGED <<setup, graphVars, mapVars, endVars>>
SyncCapsfilter(b, t) ==
  /\ at[b][t] = "source plays"
  /\ Add(b, {}, {"capsfilter"})
  /\ IF setup[b].ccfb THEN GoesTo(b, t, "filter plays") ELSE Returns(b, t)
  /\ UNCHANGED <<setup, links, mapVars, endVars>>
SyncScream(b, t) ==
  /\ at[b][t] = "filter plays"
  /\ Add(b, {}, {"screamrx"}) /\ GoesTo(b, t, "scream plays")
  /\ UNCHANGED <<setup, links, mapVars, endVars>>
SyncFunnel(b, t) ==
  /\ at[b][t] = "scream plays"
  /\ Add(b, {}, {funnel[b][t]}) /\ Returns(b, t)
  /\ UNCHANGED <<setup, links, mapVars, endVars>>

Crashes(b, t) ==
  /\ MapCrashes(b, t) \/ LinkFails(b, t) \/ UnknownStream(b, t)
  /\ crashed' = crashed \cup {b}
  /\ UNCHANGED <<setup, threadVars, graphVars, mapVars, pipeline, raced, stalled>>
-----------------------------------------------------------------------------
(* Run: everything in the pipeline plays. *)
Run(b) ==
  /\ Calls(b, "main", "Run") /\ Returns(b, "main")
  /\ pipeline' = [pipeline EXCEPT ![b] = "playing"]
  /\ element' = [element EXCEPT
       ![b] = [e \in Elements |-> IF @[e] = "absent" THEN "absent" ELSE "playing"]]
  /\ UNCHANGED <<setup, links, mapVars, crashed, raced, stalled>>

(* An error on the bus, such as a Write of an appsink that fails, or the   *)
(* source ends: runPipeline returns nil, and the program ends.             *)
RunReturns(b) ==
  /\ pipeline[b] = "playing"
  /\ pipeline' = [pipeline EXCEPT ![b] = "returned"]
  /\ UNCHANGED <<setup, threadVars, graphVars, mapVars, crashed, raced, stalled>>

(* How far a packet gets that the source of RTP reads. *)
Playing(b, es) == \A e \in es : element[b][e] = "playing"
Chain(b) == IF setup[b].ccfb THEN <<"rtpsrc", "screamrx", "capsfilter", "rtpbin">>
                             ELSE <<"rtpsrc", "capsfilter", "rtpbin">>
Linked(b, k) == <<Chain(b)[k], Chain(b)[k + 1]>> \in links[b]
Passes(b, k) == \A i \in 1 .. k : Linked(b, i) /\ Playing(b, {Chain(b)[i + 1]})
Hops(b) == 1 .. Len(Chain(b)) - 1
NotLinked(b) == \E k \in Hops(b) : Passes(b, k - 1) /\ ~Linked(b, k)
Flushing(b) ==
  \E k \in Hops(b) : Passes(b, k - 1) /\ Linked(b, k) /\ ~Playing(b, {Chain(b)[k + 1]})

SourceReads(b) == Playing(b, {"rtpsrc"}) /\ b \notin stalled
Receiving(b) == SourceReads(b) /\ Passes(b, Len(Chain(b)) - 1)
SourcePushes(b) ==
  /\ SourceReads(b)
  /\ \/ Receiving(b) /\ UNCHANGED binVars
     \/ NotLinked(b) /\ RunReturns(b)
     \/ /\ Flushing(b)
        /\ stalled' = stalled \cup {b}
        /\ UNCHANGED <<setup, threadVars, graphVars, mapVars, pipeline, crashed, raced>>

(* The pad of a received stream appears: its sink is added. *)
RecvPadAdded(b) ==
  /\ Receiving(b) /\ element[b]["decoder"] = "absent"
  /\ IF b \in streams
     THEN Add(b, {}, {"decoder"}) /\ Link(b, {<<"rtpbin", "decoder">>})
     ELSE UNCHANGED graphVars
  /\ UNCHANGED <<setup, threadVars, mapVars, endVars>>
Sending(b) == Playing(b, {"rtpbin", "source", "rtpsink"}) /\ <<"rtpbin", "rtpsink">> \in links[b]
-----------------------------------------------------------------------------
BinInit ==
  /\ setup \in Setups
  /\ pc = [b \in Bins |-> [t \in Threads |-> 1]]
  /\ at = [b \in Bins |-> [t \in Threads |-> "called"]]
  /\ funnel = [b \in Bins |-> [t \in Threads |-> "none"]]
  /\ element = [b \in Bins |-> [e \in Elements |-> IF e = "rtpbin" THEN "idle" ELSE "absent"]]
  /\ links = [b \in Bins |-> {}]
  /\ streams = {} /\ transports = {}
  /\ rtcpFunnels = [b \in Bins |-> "none"]
  /\ pipeline = [b \in Bins |-> "null"] /\ crashed = {} /\ raced = {} /\ stalled = {}

ReceiveStep(b, t) ==
  \/ AddReceiveSource(b, t) \/ AddReceiveChain(b, t) \/ LinkScream(b, t) \/ LinkChain(b, t)
  \/ SyncSource(b, t) \/ SyncCapsfilter(b, t) \/ SyncScream(b, t) \/ SyncFunnel(b, t)
FunnelStep(b, t) ==
  LookUpFunnel(b, t) \/ StoreFunnel(b, t) \/ AddFunnel(b, t) \/ SendRTCPForStream(b, t)
BinCall(b, t) ==
  \/ AddRTPTransportSink(b, t) \/ AddRTPSink(b, t) \/ AddRTPSourceStream(b, t)
  \/ ReceiveRTCPFrom(b, t) \/ FunnelStep(b, t) \/ ReceiveStep(b, t)
-----------------------------------------------------------------------------
(* The types of the variables. *)
Places == {"called", "source added", "looking up", "missing", "stored", "found", "chained",
           "linked", "source plays", "filter plays", "scream plays"}
BinTypeOK ==
  /\ setup \in Setups
  /\ \A b \in Bins, t \in Threads :
       /\ pc[b][t] \in 1 .. Len(setup[b][t]) + 1 /\ at[b][t] \in Places
       /\ funnel[b][t] \in {"none", "funnel of main", "funnel of onTrack"}
  /\ element \in [Bins -> [Elements -> {"absent", "idle", "playing"}]]
  /\ links \in [Bins -> SUBSET (Elements \X Elements)]
  /\ streams \subseteq Bins /\ transports \subseteq Bins
  /\ rtcpFunnels \in [Bins -> {"none", "funnel of main", "funnel of onTrack"}]
  /\ pipeline \in [Bins -> {"null", "playing", "returned"}]
  /\ crashed \subseteq Bins /\ raced \subseteq Bins /\ stalled \subseteq Bins

Finished(b) == \A t \in Threads : pc[b][t] > Len(setup[b][t])
Path(b, es) == \A k \in 1 .. Len(es) - 1 : <<es[k], es[k + 1]>> \in links[b]

(* A program fails to put its pipeline together only where OnTrack does it *)
(* beside main, and then only with SCReAM feedback, whose funnel the two   *)
(* share; and only there a source stops because it plays before what       *)
(* follows it.  When all calls are done and the pipeline plays, every      *)
(* element in it plays, those that OnTrack added after Run included, and   *)
(* everything is linked: RTCP goes out, and SCReAM feedback goes the same  *)
(* way, unless main and OnTrack met in rtcpFunnels.                        *)
PipelineIsWhole ==
  \A b \in Bins :
    /\ b \in crashed \cup raced => setup[b].ccfb /\ setup[b].onTrack # << >>
    /\ b \in stalled => setup[b].onTrack # << >>
    /\ Finished(b) /\ pipeline[b] = "playing" /\ b \notin crashed =>
         /\ \A e \in Elements : element[b][e] # "idle"
         /\ b \notin raced =>
              \E f \in Elements :
                /\ Path(b, <<"rtpbin", f, "rtcpsink">>)
                /\ setup[b].ccfb => Path(b, <<"screamrx", f, "rtcpsink">>)
=============================================================================
