-------------------------- MODULE MCStreamReceive --------------------------
(* Three streams: of two data channels, or of RTP and one data channel. *)
EXTENDS StreamReceive, TLC

CONSTANTS c1, c2, x, y, z

MCFlows == {x :> c1 @@ y :> c1 @@ z :> c2, x :> RTP @@ y :> RTP @@ z :> c2}
=============================================================================
