--------------------------- MODULE MCMessageRing ----------------------------
(* A ring of a few slots; a size_t of sixteen values is wide enough for every *)
(* difference the offsets can make, and narrow enough to see it wrap.         *)
EXTENDS MessageRing

WordOfFourBits == 16
=============================================================================
