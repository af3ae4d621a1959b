--------------------------- MODULE MCNifPipeline ----------------------------
(* Two nodes in a row, the second with two inputs, so that a ring that is linked over at
   one end is still on a pad at the other.  A ring of size 2 holds one task, and a
   size of 4 does not fit an i32 of MCNifPipeline.cfg: enif_get_int refuses it. *)
EXTENDS NifPipeline

CONSTANTS a, b

MCFlow == {<<a, b>>}
MCMaxPads == [n \in {a, b} |-> [i |-> IF n = b THEN 2 ELSE 1, o |-> 1]]
MCInts == {-1, 0, 1}
MCSizes == {2, 4}
=============================================================================
