--------------------------- MODULE MCMediaSender ---------------------------
(* A rate below the smallest of the codecs, one within the limits of the   *)
(* fake source and one above them; enough frames for a burst.              *)
EXTENDS MediaSender

MCRates == {1, 5, 20}
=============================================================================
