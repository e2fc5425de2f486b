--------------------------- MODULE MCDepacketizer ---------------------------
(* Frames of one, three and one packets, in a sequence number space that   *)
(* wraps inside the second frame; and a frame of four packets with another *)
(* behind it.                                                              *)
EXTENDS Depacketizer

MCFrameOf == [i \in 0 .. 4 |-> <<1, 2, 2, 2, 3>>[i + 1]]
MCLongFrame == [i \in 0 .. 4 |-> <<1, 1, 1, 1, 2>>[i + 1]]
=============================================================================
