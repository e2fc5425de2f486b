--------------------------- MODULE MCDataTransfer ---------------------------
(* Two chunks of two writes each, and a window of two writes. *)
EXTENDS DataTransfer
=============================================================================
