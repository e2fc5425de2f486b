----------------------------- MODULE MCSignaling -----------------------------
(* Three candidates on each side, two negotiations, two failing calls. *)
EXTENDS Signaling
=============================================================================
