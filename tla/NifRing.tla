------------------------------ MODULE NifRing -------------------------------
(***************************************************************************)
(* src/tpl/erlang_nif/message_ring.hpp: the operations of a ring, each in  *)
(* one piece.  What two threads at work see, access by access, is in       *)
(* MessageRing: the code is the same, and what it shows is that only a     *)
(* drain whose two reads of the receiver's offset disagree does something  *)
(* else than the operation in one piece.  That drain is DrainedTorn.       *)
(***************************************************************************)
EXTENDS Integers, Sequences

CONSTANT Nothing                \* nullptr, and what no one has written

NewRing(size) ==
    [size |-> size, slot |-> [i \in 0..(size - 1) |-> Nothing], send |-> 0, recv |-> 0,
     overflow |-> <<>>, idx |-> 0]

Available(r) == IF r.send >= r.recv THEN r.send - r.recv ELSE r.size + r.send - r.recv

FreePush(r)            == r.size - 1 - Available(r)
FreeNonbackpressure(r) == IF r.overflow # <<>> THEN 0 ELSE FreePush(r)

\* _push: there is room.
Store(r, task) == [r EXCEPT !.slot = [@ EXCEPT ![r.send] = task], !.send = (@ + 1) % r.size]

\* Mutation: the overflow list is dropped whatever is left of it.
DrainedDrops(r) ==
    LET n == IF FreePush(r) < Len(r.overflow) - r.idx THEN FreePush(r)
             ELSE Len(r.overflow) - r.idx
    IN  [r EXCEPT !.slot = [i \in DOMAIN @ |->
                               LET d == (i - r.send + r.size) % r.size IN
                               IF d < n THEN r.overflow[r.idx + 1 + d] ELSE @[i]],
                  !.send = (@ + n) % r.size,
                  !.overflow = IF n > 0 THEN <<>> ELSE @]

(* push_and_get_free_nonbackpressure_push_size: as much of the overflow as *)
(* there is room for; the list is dropped when its last task has moved.    *)
(* It returns FreePush of the ring it leaves.                              *)
Drained(r) ==
    LET n == IF FreePush(r) < Len(r.overflow) - r.idx THEN FreePush(r)
             ELSE Len(r.overflow) - r.idx
        all == r.idx + n = Len(r.overflow)
    IN  [r EXCEPT !.slot = [i \in DOMAIN @ |->
                               LET d == (i - r.send + r.size) % r.size IN
                               IF d < n THEN r.overflow[r.idx + 1 + d] ELSE @[i]],
                  !.send = (@ + n) % r.size,
                  !.overflow = IF all THEN <<>> ELSE @,
                  !.idx = IF all THEN 0 ELSE @ + n]

\* The receiver went round between the two reads of its offset, and there is more in the
\* overflow than room.
CanTear(r) ==
    r.recv = 0 /\ r.send < r.size - 1 /\ FreePush(r) < Len(r.overflow) - r.idx

\* Then the count underflows, and all of the overflow is written, round after round, over
\* what has not been pulled: of a slot's tasks the last one is left.
DrainedTorn(r) ==
    LET n == Len(r.overflow) - r.idx
    IN  [r EXCEPT !.slot = [i \in DOMAIN @ |->
                               LET after == (r.send + n - 1 - i) % r.size IN
                               IF after < n THEN r.overflow[Len(r.overflow) - after] ELSE @[i]],
                  !.send = (@ + n) % r.size,
                  !.overflow = <<>>,
                  !.idx = 0]

Pushed(r, task) ==
    LET d == Drained(r) IN
    IF FreePush(d) > 0 THEN Store(d, task)
    ELSE [d EXCEPT !.overflow = Append(@, task)]

CanPull(r) == r.send # r.recv
First(r)   == r.slot[r.recv]
Pulled(r)  == [r EXCEPT !.recv = (@ + 1) % r.size]

\* The tasks of a ring, in the order they will leave it.
Inside(r) ==
    [i \in 1..Available(r) |-> r.slot[(r.recv + i - 1) % r.size]]
        \o SubSeq(r.overflow, r.idx + 1, Len(r.overflow))
=============================================================================
