---------------------------- MODULE MCHttpServer ----------------------------
EXTENDS HttpServer

CONSTANTS c1, c2, t1, t2

(* The options of the programs serve and webrtc. *)
Serve == [h2 |-> TRUE, h3 |-> TRUE]
WebRTC == [h2 |-> FALSE, h3 |-> FALSE]
Programs == {Serve, WebRTC}
=============================================================================
