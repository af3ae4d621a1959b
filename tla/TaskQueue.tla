----------------------------- MODULE TaskQueue ------------------------------
(***************************************************************************)
(* What a ring of src/tpl/napi/message_ring.hpp promises to the threads at *)
(* its ends: one task goes in or one comes out at a time, in order, and    *)
(* nothing else ever happens to it.  The promise is void once it broke.    *)
(***************************************************************************)
EXTENDS Sequences

CONSTANT Task   \* the tasks there are

VARIABLES
    queue,      \* the tasks pushed and not pulled, the oldest first
    got,        \* the tasks pulled, in the order they came out
    broken      \* nothing is promised any more

vars == <<queue, got, broken>>

Put ==
    /\ ~broken
    /\ \E task \in Task : queue' = Append(queue, task)
    /\ UNCHANGED <<got, broken>>

Get ==
    /\ ~broken /\ queue # <<>>
    /\ got' = Append(got, Head(queue)) /\ queue' = Tail(queue)
    /\ UNCHANGED broken

Break == ~broken /\ broken' = TRUE /\ queue' = <<>> /\ got' = <<>>

Init == queue = <<>> /\ got = <<>> /\ broken = FALSE
Next == Put \/ Get \/ Break
Spec == Init /\ [][Next]_vars
=============================================================================
