---------------------------- MODULE WebRTCMedia ----------------------------
(***************************************************************************)
(* Media and feedback between two programs: packets leave when the         *)
(* pipeline of the sender plays, are read when that of the receiver does,  *)
(* and feedback is read by the source of RTCP in the pipeline of the       *)
(* sender.  In the program webrtc the track appears at the receiver after  *)
(* the sender has added it, and each main waits for the connection before  *)
(* it calls Run.  For the programs send and receive only the pipelines are *)
(* of interest here.                                                       *)
(***************************************************************************)
EXTENDS RTPBin, CongestionFeedback

CONSTANTS
  S, R,          \* the sender and the receiver
  MaxTraffic(_, _)  \* bound: packets sent and extra copies, of a setup with a family;
                    \* 0 for the programs send and receive

ASSUME TwoBins == Bins = {S, R} /\ S # R

vars == <<binVars, feedbackVars>>

IsWebRTC == Has(S, "AddLocalTrack")
Negotiated == Did(S, "main", "AddLocalTrack")

(* The steps of main in webrtc that are no calls of the bin: adding the    *)
(* tracks, and the wait for OnConnected.                                   *)
AddTrack(b) ==
  /\ \E call \in {"AddLocalTrack", "AddRemoteVideoTrack"} : Calls(b, "main", call)
  /\ Returns(b, "main")
  /\ UNCHANGED <<setup, graphVars, mapVars, endVars>>
WaitConnected(b) ==
  /\ Calls(b, "main", "<-connectedCtx.Done()") /\ Negotiated
  /\ Returns(b, "main")
  /\ UNCHANGED <<setup, graphVars, mapVars, endVars>>

Call(b) ==
  /\ Alive(b)
  /\ \/ AddTrack(b) \/ WaitConnected(b) \/ Run(b) \/ BinCall(b, "main")
     \/ Negotiated /\ BinCall(b, "onTrack")
  /\ UNCHANGED feedbackVars
Crash(b) ==
  /\ Alive(b)
  /\ Crashes(b, "main") \/ (Negotiated /\ Crashes(b, "onTrack"))
  /\ UNCHANGED feedbackVars
(* The source of the sender ends.  Bound: the receiver, which ends when    *)
(* the connection does, is not followed so far.                            *)
End == Alive(S) /\ RunReturns(S) /\ UNCHANGED feedbackVars

(* Bound: packets and reports move only while both programs run; what one *)
(* does without the other concerns no property.                            *)
Both == Alive(S) /\ Alive(R)
Send ==
  /\ Both /\ Sending(S) /\ sent + copies < MaxTraffic(setup, family)
  /\ SendPacket /\ UNCHANGED binVars
Arrive ==
  /\ Both
  /\ \E p \in network, mark \in {ECT0, CE} : Deliver(p, mark)
  /\ sent + copies' <= MaxTraffic(setup, family)
  /\ UNCHANGED binVars
Read == Both /\ ReadPacket /\ SourcePushes(R)
Report == Both /\ SendReport /\ UNCHANGED binVars
Lose == Both /\ LoseReport /\ UNCHANGED binVars
Feed ==
  /\ Both /\ Playing(S, {"rtcpsrc"}) /\ <<"rtcpsrc", "rtpbin">> \in links[S]
  /\ OnCCFB /\ UNCHANGED binVars

(* The first packet that the pipeline of the receiver has read. *)
PadAdded ==
  /\ Alive(R) /\ IF IsWebRTC THEN Recorded # {} ELSE Alive(S) /\ Sending(S)
  /\ RecvPadAdded(R)
  /\ UNCHANGED feedbackVars

Init == BinInit /\ FeedbackInit
Next ==
  \/ \E b \in Bins : Call(b) \/ Crash(b)
  \/ End \/ Send \/ Lose \/ Arrive \/ Read \/ Report \/ Feed \/ PadAdded

Spec == Init /\ [][Next]_vars

(* Threads run, pipelines read, and the interceptor sends its reports.     *)
(* Each of these steps comes a bounded number of times, so that fairness   *)
(* of all together is fairness of each.  The network need not deliver      *)
(* anything, and no pipeline has to end.                                   *)
Progress == Read \/ Report \/ Feed \/ PadAdded \/ \E b \in Bins : Call(b)
FairSpec == Spec /\ WF_vars(Progress)
-----------------------------------------------------------------------------
(* What has arrived is read and gets a decoder, whichever of main and      *)
(* OnTrack is first, and the estimator is told about it, unless a report   *)
(* is lost, the encoder has refused a rate, a program ends, or the source  *)
(* of the receiver has read before what follows it was playing.            *)
MediaAndFeedbackFlow ==
  \A p \in Packet :
    p \in Queued ~>
      \/ ~Both \/ R \in stalled
      \/ /\ Path(R, <<"capsfilter", "rtpbin", "decoder">>)
         /\ p \in told \cup lost \/ ended
=============================================================================
