----------------------------- MODULE MCFeedback -----------------------------
(* The tracker with four 1-RTT numbers, the first of which the handshake   *)
(* used as well, and a BWE that may return no new target.                  *)
EXTENDS Feedback

MCRates == {0, 1}
=============================================================================
