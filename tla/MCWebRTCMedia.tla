--------------------------- MODULE MCWebRTCMedia ---------------------------
EXTENDS WebRTCMedia

(* The calls of the programs, in their order. *)
Program(calls, track, withCCFB, withScream) ==
  [main |-> calls, onTrack |-> track, ccfb |-> withCCFB, scream |-> withScream]

WebRTCSender ==
  Program(<<"AddLocalTrack", "AddRTPTransportSink", "AddRTPSourceStream", "ReceiveRTCPFrom",
            "SendRTCPForStream", "<-connectedCtx.Done()", "Run">>, <<>>, FALSE, FALSE)
WebRTCReceiver(ccfbOn) ==
  Program(<<"AddRemoteVideoTrack", "SendRTCPForStream", "<-connectedCtx.Done()", "Run">>,
          <<"AddRTPSink", "ReceiveRTPStreamFrom", "ReceiveRTCPFrom">>, ccfbOn, FALSE)
SendProgram(screamOn) ==
  Program(<<"AddRTPTransportSink", "AddRTPSourceStream", "SendRTCPForStream",
            "ReceiveRTCPFrom", "Run">>, <<>>, FALSE, screamOn)
ReceiveProgram(ccfbOn) ==
  Program(<<"AddRTPSink", "ReceiveRTPStreamFrom", "SendRTCPForStream", "ReceiveRTCPFrom",
            "Run">>, <<>>, ccfbOn, FALSE)

MCSetups ==
  {[b \in {S, R} |-> IF b = S THEN WebRTCSender ELSE WebRTCReceiver(on)] : on \in BOOLEAN}
  \cup {[b \in {S, R} |-> IF b = S THEN SendProgram(on) ELSE ReceiveProgram(on)] :
          on \in BOOLEAN}

(* Three packets, more than a cycle of numbers, or two with a copy of one; *)
(* two packets, or one and its copy, where there may be two funnels or     *)
(* where marks are not understood.                                         *)
MCMaxTraffic(s, f) ==
  IF "AddLocalTrack" \notin {s[S].main[k] : k \in DOMAIN s[S].main} THEN 0
  ELSE IF s[R].ccfb \/ f = 6 THEN 2 ELSE 3
=============================================================================
