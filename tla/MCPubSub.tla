------------------------------ MODULE MCPubSub ------------------------------
(* Two streams and two Subscribers; either one of them uses both streams,  *)
(* or both use the first.                                                  *)
EXTENDS PubSub, TLC

CONSTANTS s1, s2, u1, u2

BothStreams == {<<u1, s1>>, <<u1, s2>>}
OneStream == {<<u1, s1>>, <<u2, s1>>}
OneOrBoth == {BothStreams, OneStream}

ThreeAndOne == s1 :> 3 @@ s2 :> 1
=============================================================================
