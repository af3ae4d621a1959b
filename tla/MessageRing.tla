---------------------------- MODULE MessageRing -----------------------------
(***************************************************************************)
(* src/tpl/napi/message_ring.hpp: the ring of task pointers between two    *)
(* threads of a pipeline, one that sends and one that receives, with the   *)
(* sender's overflow list behind it.  Offsets are volatile and each access *)
(* to the other thread's offset is a step of its own; memory is            *)
(* sequentially consistent, which the two fences give on x86.              *)
(*                                                                         *)
(* Tasks are the numbers 1, 2, 3 ... in the order they are pushed.         *)
(***************************************************************************)
EXTENDS Integers, Sequences

CONSTANTS
    Size,       \* _size, the slots of the ring
    Word,       \* 2^w, the values of a size_t
    MaxTask     \* bound: tasks pushed in a behaviour

ASSUME SizeAssumption == Size \in Nat \ {0}
ASSUME WordAssumption == Word \in Nat /\ Word >= 2 * Size
ASSUME MaxTaskAssumption == MaxTask \in Nat

VARIABLES
    ring,       \* _ring; 0 is a slot never written
    send, recv, \* _send_offset, _recv_offset
    overflow,   \* _overflow_list
    idx,        \* _overflow_idx
    ppc, op,    \* where the sender stands, in which of its operations
    pge,        \* what the sender read first: _send_offset >= _recv_offset
    pfree,      \* free_push_count
    cpc,        \* where the receiver stands
    cge,        \* what the receiver read first
    held,       \* the task pull() has read
    counted,    \* what get_available_pull_size told the receiver last
    next,       \* history: tasks pushed
    pulled,     \* history: tasks pulled
    torn        \* history: overflow was drained on a free space that is not there

senderVars   == <<send, overflow, idx, ppc, op, pge, pfree, next, torn>>
receiverVars == <<recv, cpc, cge, held, counted, pulled>>
vars == <<ring, senderVars, receiverVars>>

Offsets == 0..(Size - 1)

-----------------------------------------------------------------------------
(* A difference of two size_t, each below the width.                       *)
Unsigned(x) == IF x >= 0 THEN x ELSE x + Word

\* Mutation: the last slot is never used.
SuccShort(offset) == IF offset + 2 >= Size THEN 0 ELSE offset + 1
Succ(offset) == (offset + 1) % Size

\* get_available_pull_size, after its comparison; the offsets are read again.
Available(ge) == IF ge THEN send - recv ELSE Size + send - recv

\* Mutation: the slot that keeps full from empty is given away.
FreeAll(ge) == Unsigned(Size - Available(ge))
\* _get_free_push_size
Free(ge) == Unsigned(Size - 1 - Available(ge))

-----------------------------------------------------------------------------
(* The sender.                                                             *)

\* push(task): the free space comes first.
Push ==
    /\ ppc = "idle" /\ next < MaxTask
    /\ next' = next + 1
    /\ op' = "push" /\ ppc' = "compare"
    /\ UNCHANGED <<ring, send, overflow, idx, pge, pfree, torn, receiverVars>>

\* push_and_get_free_nonbackpressure_push_size() with no task at hand.
Poll ==
    /\ ppc = "idle"
    /\ op' = "poll" /\ ppc' = "compare"
    /\ UNCHANGED <<ring, send, overflow, idx, pge, pfree, next, torn, receiverVars>>

\* get_free_nonbackpressure_push_size(): 0 at once when there is an overflow.
Ask ==
    /\ ppc = "idle" /\ overflow = <<>>
    /\ op' = "ask" /\ ppc' = "compare"
    /\ UNCHANGED <<ring, send, overflow, idx, pge, pfree, next, torn, receiverVars>>

\* The first read of _recv_offset.
Compare ==
    /\ ppc = "compare"
    /\ pge' = (send >= recv) /\ ppc' = "measure"
    /\ UNCHANGED <<ring, send, overflow, idx, op, pfree, next, torn, receiverVars>>

\* Mutation: the overflow leaves only ahead of a push.
MeasurePush ==
    /\ ppc = "measure"
    /\ pfree' = Free(pge)
    /\ IF pfree' > 0 /\ op = "push" /\ overflow # <<>>
       THEN ppc' = "drain" /\ torn' = (torn \/ pfree' > Size - 1)
       ELSE ppc' = "settle" /\ torn' = torn
    /\ UNCHANGED <<ring, send, overflow, idx, op, pge, next, receiverVars>>

\* The second read of _recv_offset, and the two early returns.
Measure ==
    /\ ppc = "measure"
    /\ pfree' = Free(pge)
    /\ IF pfree' > 0 /\ op # "ask" /\ overflow # <<>>
       THEN ppc' = "drain" /\ torn' = (torn \/ pfree' > Size - 1)
       ELSE ppc' = "settle" /\ torn' = torn
    /\ UNCHANGED <<ring, send, overflow, idx, op, pge, next, receiverVars>>

\* Mutation: the newest of the overflow first.
DrainLast ==
    /\ ppc = "drain"
    /\ ring' = [ring EXCEPT ![send] = overflow[Len(overflow) - idx]]
    /\ idx' = idx + 1 /\ pfree' = pfree - 1 /\ ppc' = "drained"
    /\ UNCHANGED <<send, overflow, op, pge, next, torn, receiverVars>>

\* One turn of the loop: _push writes the slot ...
Drain ==
    /\ ppc = "drain"
    /\ ring' = [ring EXCEPT ![send] = overflow[idx + 1]]
    /\ idx' = idx + 1 /\ pfree' = pfree - 1 /\ ppc' = "drained"
    /\ UNCHANGED <<send, overflow, op, pge, next, torn, receiverVars>>

\* Mutation: the list is emptied, the index into it is not.
DrainedKeepsIdx ==
    /\ ppc = "drained"
    /\ send' = Succ(send)
    /\ IF idx = Len(overflow)
       THEN overflow' = <<>> /\ idx' = idx /\ ppc' = "settle"
       ELSE /\ ppc' = IF pfree > 0 THEN "drain" ELSE "settle"
            /\ UNCHANGED <<overflow, idx>>
    /\ UNCHANGED <<ring, op, pge, pfree, next, torn, receiverVars>>

\* ... and publishes it; the list is given up when its last task has left.
Drained ==
    /\ ppc = "drained"
    /\ send' = Succ(send)
    /\ IF idx = Len(overflow)
       THEN overflow' = <<>> /\ idx' = 0 /\ ppc' = "settle"
       ELSE /\ ppc' = IF pfree > 0 THEN "drain" ELSE "settle"
            /\ UNCHANGED <<overflow, idx>>
    /\ UNCHANGED <<ring, op, pge, pfree, next, torn, receiverVars>>

\* push finds free space: _push writes the slot ...
WriteSlot ==
    /\ ppc = "settle" /\ op = "push" /\ pfree > 0
    /\ ring' = [ring EXCEPT ![send] = next] /\ ppc' = "publish"
    /\ UNCHANGED <<send, overflow, idx, op, pge, pfree, next, torn, receiverVars>>

\* ... and publishes it.
Publish ==
    /\ ppc = "publish"
    /\ send' = Succ(send) /\ ppc' = "idle"
    /\ UNCHANGED <<ring, overflow, idx, op, pge, pfree, next, torn, receiverVars>>

\* push finds none.
Overflow ==
    /\ ppc = "settle" /\ op = "push" /\ pfree = 0
    /\ overflow' = Append(overflow, next) /\ ppc' = "idle"
    /\ UNCHANGED <<ring, send, idx, op, pge, pfree, next, torn, receiverVars>>

\* The count is the answer.
Told ==
    /\ ppc = "settle" /\ op # "push"
    /\ ppc' = "idle"
    /\ UNCHANGED <<ring, send, overflow, idx, op, pge, pfree, next, torn, receiverVars>>

-----------------------------------------------------------------------------
(* The receiver.                                                           *)

\* can_pull() says yes.
CanPull ==
    /\ cpc = "idle" /\ send # recv
    /\ cpc' = "take"
    /\ UNCHANGED <<ring, senderVars, recv, cge, held, counted, pulled>>

\* pull() reads the slot ...
Take ==
    /\ cpc = "take"
    /\ held' = ring[recv] /\ cpc' = "advance"
    /\ UNCHANGED <<ring, senderVars, recv, cge, counted, pulled>>

\* ... and gives it back to the sender.
Advance ==
    /\ cpc = "advance"
    /\ recv' = Succ(recv) /\ pulled' = Append(pulled, held) /\ cpc' = "idle"
    /\ UNCHANGED <<ring, senderVars, cge, held, counted>>

\* get_available_pull_size(): the first read of _send_offset ...
CountBegin ==
    /\ cpc = "idle"
    /\ cge' = (send >= recv) /\ cpc' = "count"
    /\ UNCHANGED <<ring, senderVars, recv, held, counted, pulled>>

\* ... and the second.
Count ==
    /\ cpc = "count"
    /\ counted' = Unsigned(Available(cge)) /\ cpc' = "idle"
    /\ UNCHANGED <<ring, senderVars, recv, cge, held, pulled>>

-----------------------------------------------------------------------------
Init ==
    /\ ring = [o \in Offsets |-> 0]
    /\ send = 0 /\ recv = 0
    /\ overflow = <<>> /\ idx = 0
    /\ ppc = "idle" /\ op = "poll" /\ pge = TRUE /\ pfree = 0
    /\ cpc = "idle" /\ cge = TRUE /\ held = 0 /\ counted = 0
    /\ next = 0 /\ pulled = <<>> /\ torn = FALSE

\* What an operation of the sender does once it has begun.
Sending == Compare \/ Measure \/ Drain \/ Drained \/ WriteSlot \/ Publish \/ Overflow \/ Told

Next ==
    \/ Push \/ Poll \/ Ask \/ Sending
    \/ CanPull \/ Take \/ Advance \/ CountBegin \/ Count

(* An operation that has begun goes on, and the receiver pulls again       *)
(* between the counts it asks for (the loop of a node tries on every pass).*)
(* No sender has to begin an operation: one whose node produces nothing,   *)
(* and never asks for room, does not.                                      *)
Fairness ==
    /\ WF_vars(Sending)
    /\ SF_vars(CanPull) /\ WF_vars(Take) /\ WF_vars(Advance) /\ WF_vars(Count)

Spec == Init /\ [][Next]_vars
LiveSpec == Spec /\ Fairness

-----------------------------------------------------------------------------
(* Properties.                                                             *)

\* Offsets stay inside the ring, the index inside the overflow list, and a thread that is
\* in the middle of an operation holds what that operation has read.
TypeOK ==
    /\ ring \in [Offsets -> Nat]
    /\ send \in Offsets /\ recv \in Offsets
    /\ overflow \in Seq(Nat) /\ idx \in Nat
    /\ idx <= Len(overflow)
    /\ idx = Len(overflow) => ppc = "drained" \/ overflow = <<>>
    /\ ppc \in {"idle", "compare", "measure", "drain", "drained", "settle", "publish"}
    /\ ppc \in {"drain", "drained"} => overflow # <<>>
    /\ ppc = "drained" => idx > 0
    /\ op \in {"push", "poll", "ask"}
    /\ pge \in BOOLEAN /\ pfree \in Nat
    /\ ppc = "drain" => pfree > 0
    /\ cpc \in {"idle", "take", "advance", "count"}
    /\ cge \in BOOLEAN /\ held \in Nat /\ counted \in Nat
    /\ next \in Nat /\ pulled \in Seq(Nat) /\ torn \in BOOLEAN

\* The tasks of the ring, as the two offsets tell them, and the slot of the k-th.
Occupied == IF send >= recv THEN send - recv ELSE Size + send - recv
Slot(k) == IF recv + k < Size THEN recv + k ELSE recv + k - Size

\* The tasks that are in the ring are followed by the one in the slot at send.
Unpublished == IF ppc \in {"drained", "publish"} THEN 1 ELSE 0
\* A push has taken its task and not yet placed it.
InHand == IF op = "push" /\ ppc \in {"compare", "measure", "drain", "drained", "settle"} THEN 1 ELSE 0

\* The receiver gets the tasks in the order they were pushed, none lost and none twice,
\* through wrap-around, overflow and draining, unless a drain trusted a torn read.
InOrder == ~torn => \A i \in 1..Len(pulled) : pulled[i] = i

\* At every step, every task pushed and not pulled is in its place: in the ring, in the
\* slot being written, in the overflow behind it or in the sender's hand.
Conserved ==
    ~torn =>
        /\ next = Len(pulled) + Occupied + Unpublished + (Len(overflow) - idx) + InHand
        /\ \A k \in 0..(Occupied - 1) : ring[Slot(k)] = Len(pulled) + 1 + k
        /\ Unpublished = 1 => ring[send] = Len(pulled) + Occupied + 1
        /\ \A j \in (idx + 1)..Len(overflow) :
              overflow[j] = Len(pulled) + Occupied + Unpublished + (j - idx)

\* The free space a sender is told is there when it uses it, whatever the receiver did
\* meanwhile; or a read was torn and the count is absurd, Word - Size or more: no count is
\* a little too large.  The slot a sender is about to publish leaves one free, so that a
\* full ring never looks empty.
RoomHonest ==
    ~torn =>
        /\ ppc \in {"drain", "settle"} => pfree <= Size - 1 - Occupied \/ pfree >= Word - Size
        /\ Unpublished = 1 => Occupied < Size - 1

(* What makes them inductive: where each side stands, the other is not.    *)
SenderKnows ==
    ~torn =>
        /\ ppc = "measure" => IF pge THEN recv <= send ELSE send + 1 < Size
        /\ ppc = "drain" => pfree < Size - Occupied
        /\ ppc = "drained" => pfree + 1 < Size - Occupied
        /\ ppc = "settle" /\ op = "push" /\ pfree > 0 => overflow = <<>> /\ Occupied < Size - 1
        /\ ppc = "publish" => op = "push" /\ overflow = <<>>

ReceiverKnows ==
    ~torn =>
        /\ cpc \in {"take", "advance"} => Occupied > 0
        /\ cpc = "advance" => held = Len(pulled) + 1

Inv == TypeOK /\ InOrder /\ Conserved /\ RoomHonest /\ SenderKnows /\ ReceiverKnows

\* What a sender has published comes out without the sender doing anything more; what is
\* in its overflow comes out if the sender goes on pushing or polling for ever, and only
\* then, for nobody else moves it.
GoesOn == []<>(ppc = "compare" /\ op \in {"push", "poll"})
Delivered ==
    /\ \A i \in 1..MaxTask : Len(pulled) + Occupied >= i ~> torn \/ Len(pulled) >= i
    /\ GoesOn => []<>(torn \/ Len(pulled) = next)

(* The abstract queue: what is in the ring, in the slot being written, in  *)
(* the overflow and in the sender's hand, read in this order.              *)
InRing == Occupied + Unpublished
Behind == InRing + Len(overflow) - idx
Contents ==
    [k \in 1..(Behind + InHand) |->
        IF k <= Occupied THEN ring[Slot(k - 1)]
        ELSE IF k <= InRing THEN ring[send]
        ELSE IF k <= Behind THEN overflow[idx + k - InRing]
        ELSE next]

Queue == INSTANCE TaskQueue WITH Task   <- 1..MaxTask,
                                 queue  <- IF torn THEN <<>> ELSE Contents,
                                 got    <- IF torn THEN <<>> ELSE pulled,
                                 broken <- torn

\* To the threads at its ends a ring is a queue: every step of an operation is a push, a
\* pull or nothing to the tasks it holds, wherever they are moved, unless a read was torn.
IsQueue == Queue!Spec

\* Circular FIFO, without the proviso.
Fifo == \A i \in 1..Len(pulled) : pulled[i] = i
=============================================================================
