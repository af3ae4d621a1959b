------------------------------ MODULE Pipeline ------------------------------
(***************************************************************************)
(* The runtime of a native pipeline: src/tpl/napi/pipeline.coffee (main    *)
(* thread) with the nodes and threads that napi_pipeline.coffee generates, *)
(* in the default layout: a system thread that runs the nodes err, in and  *)
(* out, and worker threads with one node each,                             *)
(*                                                                         *)
(*    In -> [in] -> To(w) -> [worker w] -> From(w) -> [Sink] -> endpoint   *)
(*                               |                                         *)
(*                             Err(w) -------------> [err] -> Failed       *)
(*                                                                         *)
(* The endpoint of node out is Ready, that of node err Failed.  The        *)
(* generated callers chain a worker to node_o_list[0], which is node err.  *)
(* A ring is a queue of at most Cap tasks with the sender's overflow       *)
(* behind it: what MessageRing gives as long as no read is torn.  A step   *)
(* of a thread moves one task; what it has read of a ring before only gets *)
(* better meanwhile, because the other end is one thread too.              *)
(*                                                                         *)
(* A count whose two reads of the other side's offset disagree underflows. *)
(* Where that does harm it is a step of its own, recorded in torn: a drain *)
(* writes a whole overflow over the ring (DrainTorn), and phase 1 of       *)
(* stop_soft ends with tasks inside (StopScheduleTorn).  After a torn      *)
(* drain the model goes no further: MessageRing has what becomes of such a *)
(* ring.                                                                   *)
(***************************************************************************)
EXTENDS Naturals, Sequences, FiniteSets, SequencesExt

CONSTANTS
    Workers,     \* worker threads are 1..Workers; 0 is the system thread
    Cap,         \* default_msg_ring_size - 1
    Threshold,   \* task_saturation_threshold
    Rounds,      \* tasks that node in moves in a call
    Sink,        \* the node the workers are chained to
    Pinned,      \* worker threads whose core affinity the system may refuse
    Failing,     \* threads that the system may fail to create
    Errors,      \* does the function of the workers report errors
    Tasks        \* bound: the task objects that are ever made

ASSUME SizesAssumption ==
    /\ Workers \in Nat \ {0} /\ Cap \in Nat \ {0} /\ Rounds \in Nat \ {0}
    /\ Threshold \in 1..Cap
ASSUME LayoutAssumption ==
    /\ Sink \in {"err", "out"}
    /\ Errors \in BOOLEAN /\ Pinned \subseteq 1..Workers /\ Failing \subseteq 1..Workers

VARIABLES
    ring,        \* per ring: the queue and the overflow list
    task_wip_count,
    task_free_list,   \* objects that can be used again (as a set: they are alike)
    fresh,       \* objects not made yet
    got,         \* the task whose callback runs: pulled, not acknowledged
    thread,      \* per thread: "off", "run", or "dead" (affinity refused)
    started,     \* per thread: the flag started
    need_shutdown,
    sys,         \* where the system thread stands: node, step, chosen worker ring
    pc,          \* where each worker stands: "call", "loop" or "work"
    hand,        \* per worker: the tasks it has pulled and not pushed
    stop,        \* stop_soft: "none", "wait", "scheduling", "ending", "ended" or "crashed"
    late,        \* history: tasks pushed since the threads were told to stop
    torn         \* history: "drain", a torn drain; "count", a torn count in this stop_soft

rings   == <<ring>>
objects == <<task_wip_count, task_free_list, fresh, got, late, torn>>
control == <<thread, started, need_shutdown, stop>>
vars == <<rings, objects, control, sys, pc, hand>>

W       == 1..Workers
Threads == 0..Workers
In      == <<"in", 0>>
To(w)   == <<"to", w>>
From(w) == <<"from", w>>
Err(w)  == <<"err", w>>     \* Err(0) belongs to node in, which never uses it
Ready   == <<"ready", 0>>
Failed  == <<"failed", 0>>
Inner   == {In} \cup {To(w) : w \in W} \cup {From(w) : w \in W} \cup {Err(w) : w \in Threads}
Rings   == Inner \cup {Ready, Failed}

-----------------------------------------------------------------------------
(* Rings.                                                                  *)

CanPull(r) == r.queue # <<>>
Available(r) == Len(r.queue)

\* push_and_get_free_nonbackpressure_push_size: the overflow moves up, as far as it goes.
Drain(r) ==
    LET n == IF Cap - Len(r.queue) < Len(r.overflow) THEN Cap - Len(r.queue) ELSE Len(r.overflow)
    IN  [queue    |-> r.queue \o SubSeq(r.overflow, 1, n),
         overflow |-> SubSeq(r.overflow, n + 1, Len(r.overflow))]

\* get_free_nonbackpressure_push_size
GetFree(r) == IF r.overflow # <<>> THEN 0 ELSE Cap - Len(r.queue)

\* The same when the receiver goes back to the start of the ring between the two reads: the
\* free space underflows, all of the overflow is written to the Cap + 1 slots, and of what
\* was there the tasks of the last round are left.
DrainedTorn(r) ==
    LET all  == r.queue \o r.overflow
        kept == Len(all) % (Cap + 1)
    IN  [queue |-> SubSeq(all, Len(all) - kept + 1, Len(all)), overflow |-> <<>>]

\* The receiver has pulled meanwhile, and the overflow is more than there is room for.
CanTear(r) == Len(r.queue) < Cap /\ Len(r.queue) + Len(r.overflow) > Cap

PushTo(r, t) ==
    LET d == Drain(r) IN
    IF Len(d.queue) < Cap THEN [d EXCEPT !.queue = Append(@, t)]
    ELSE [d EXCEPT !.overflow = Append(@, t)]
Pulled(r) == [r EXCEPT !.queue = Tail(@)]

Move(from, to) == [ring EXCEPT ![from] = Pulled(@), ![to] = PushTo(@, Head(ring[from].queue))]

-----------------------------------------------------------------------------
(* The main thread.                                                        *)

Alive == stop # "crashed" /\ "drain" \notin torn
Unblocked == Alive /\ stop # "scheduling"     \* phase 2 of stop_soft has no await

\* task_get and task_push, through node in.
Push ==
    /\ Unblocked /\ task_free_list \cup fresh # {}
    /\ LET t == IF task_free_list # {} THEN CHOOSE x \in task_free_list : TRUE
                ELSE CHOOSE x \in fresh : TRUE
       IN  /\ task_free_list' = task_free_list \ {t} /\ fresh' = fresh \ {t}
           /\ ring' = [ring EXCEPT ![In] = PushTo(Drain(@), t)]
           /\ late' = IF stop \in {"ending", "ended"} THEN late \cup {t} ELSE late
    /\ task_wip_count' = task_wip_count + 1
    /\ UNCHANGED <<got, torn, control, sys, pc, hand>>

\* The drain an operation of a sender begins with, torn: task_push of the main thread, or
\* a worker that is called or pushes an error.  No other ring has an overflow.
DrainTorn ==
    /\ Alive
    /\ \E r \in {In} \cup {Err(w) : w \in W} :
        /\ CanTear(ring[r])
        /\ \/ r = In /\ Unblocked /\ task_free_list \cup fresh # {}
           \/ \E w \in W : /\ r = Err(w) /\ thread[w] = "run"
                           /\ pc[w] = "work" \/ (pc[w] = "call" /\ CanPull(ring[To(w)]))
        /\ ring' = [ring EXCEPT ![r] = DrainedTorn(@)]
    /\ torn' = torn \cup {"drain"}
    /\ UNCHANGED <<task_wip_count, task_free_list, fresh, got, late, control, sys, pc, hand>>

\* Mutation: only results are counted out, not failed tasks.
PullNotCounted ==
    /\ Unblocked /\ got = {}
    /\ \E node \in {Failed, Ready} :
        /\ CanPull(ring[node])
        /\ got' = {Head(ring[node].queue)}
        /\ ring' = [ring EXCEPT ![node] = Pulled(@)]
        /\ task_wip_count' = IF node = Failed THEN task_wip_count ELSE task_wip_count - 1
    /\ UNCHANGED <<task_free_list, fresh, late, torn, control, sys, pc, hand>>

\* task_pull of the poll loop, then the callback.  node_err is asked first, and may get a
\* task while node_out is asked.
Pull ==
    /\ Unblocked /\ got = {}
    /\ \E node \in {Failed, Ready} :
        /\ CanPull(ring[node])
        /\ got' = {Head(ring[node].queue)}
        /\ ring' = [ring EXCEPT ![node] = Pulled(@)]
    /\ task_wip_count' = task_wip_count - 1
    /\ UNCHANGED <<task_free_list, fresh, late, torn, control, sys, pc, hand>>

\* task_pull_ack, after the callback.
PullAck ==
    /\ Unblocked /\ got # {}
    /\ task_free_list' = task_free_list \cup got /\ got' = {} /\ late' = late \ got
    /\ UNCHANGED <<rings, task_wip_count, fresh, torn, control, sys, pc, hand>>

\* start: the threads are created in turn, up to the first that fails.  A thread that
\* cannot have its core returns at once, and stays "started".
Start ==
    /\ Alive /\ stop \in {"none", "ended"} /\ \A t \in Threads : ~started[t]
    /\ \E failed \in Failing \cup {Workers + 1}, refused \in SUBSET Pinned :
        /\ started' = [t \in Threads |-> t < failed]
        /\ thread' = [t \in Threads |-> IF t >= failed THEN "off"
                                        ELSE IF t \in refused THEN "dead" ELSE "run"]
        /\ need_shutdown' = [t \in Threads |-> t > failed /\ need_shutdown[t]]
    /\ stop' = "none" /\ late' = {} /\ torn' = torn \ {"count"}
    /\ UNCHANGED <<rings, task_wip_count, task_free_list, fresh, got, sys, pc, hand>>

StopSoft ==
    /\ Alive /\ stop = "none" /\ started[0]
    /\ stop' = "wait"
    /\ UNCHANGED <<rings, objects, thread, started, need_shutdown, sys, pc, hand>>

\* Mutation: tasks that wait in the overflow of node in are not waited for.
StopScheduleEarly ==
    /\ Alive /\ stop = "wait"
    /\ task_wip_count <= Available(ring[Failed]) + Available(ring[Ready]) + Len(ring[In].overflow)
    /\ stop' = "scheduling"
    /\ UNCHANGED <<rings, objects, thread, started, need_shutdown, sys, pc, hand>>

\* Mutation: the flag started is cleared by the one who asks, as in stop_hard_term.
StopScheduleCleared ==
    /\ Alive /\ stop = "wait"
    /\ task_wip_count <= Available(ring[Failed]) + Available(ring[Ready])
    /\ started' = [t \in Threads |-> FALSE] /\ stop' = "scheduling"
    /\ UNCHANGED <<rings, objects, thread, need_shutdown, sys, pc, hand>>

\* Mutation: `break if task_wip_count < 0`.
StopScheduleBelow ==
    /\ Alive /\ stop = "wait"
    /\ task_wip_count < Available(ring[Failed]) + Available(ring[Ready])
    /\ stop' = "scheduling"
    /\ UNCHANGED <<rings, objects, thread, started, need_shutdown, sys, pc, hand>>

\* The end of phase 1.
StopSchedule ==
    /\ Alive /\ stop = "wait"
    /\ task_wip_count <= Available(ring[Failed]) + Available(ring[Ready])
    /\ stop' = "scheduling"
    /\ UNCHANGED <<rings, objects, thread, started, need_shutdown, sys, pc, hand>>

\* The end of phase 1 on a torn count: between the two reads the system thread has pushed to
\* the endpoint and gone back to the start of its ring, and the u32 is above all tasks.
StopScheduleTorn ==
    /\ Alive /\ stop = "wait" /\ thread[0] = "run"
    /\ CanPull(ring[Failed]) \/ CanPull(ring[Ready])
    /\ stop' = "scheduling" /\ torn' = torn \cup {"count"}
    /\ UNCHANGED <<rings, task_wip_count, task_free_list, fresh, got, late, thread, started,
                   need_shutdown, sys, pc, hand>>

\* Phase 2: one thread after the other is told.
StopShutdown ==
    /\ Alive /\ stop = "scheduling"
    /\ \/ /\ \A t \in Threads : need_shutdown[t]
          /\ stop' = "ending" /\ UNCHANGED need_shutdown
       \/ \E t \in Threads :
             /\ ~need_shutdown[t] /\ \A u \in Threads : u < t => need_shutdown[u]
             /\ need_shutdown' = [need_shutdown EXCEPT ![t] = TRUE] /\ UNCHANGED stop
    /\ UNCHANGED <<rings, objects, thread, started, sys, pc, hand>>

\* Phase 3: no thread is alive, and the caller is answered.
StopEnd ==
    /\ Alive /\ stop = "ending" /\ \A t \in Threads : ~started[t]
    /\ stop' = "ended"
    /\ UNCHANGED <<rings, objects, thread, started, need_shutdown, sys, pc, hand>>

\* Phase 4: after stop_hard_timeout with a thread that does not end.  There is no
\* method thread_stop_hard: the exception ends the process.
StopHard ==
    /\ Alive /\ stop = "ending"
    /\ \E t \in Threads : started[t] /\ (thread[t] = "dead" \/ (t \in W /\ pc[t] = "work"))
    /\ stop' = "crashed"
    /\ UNCHANGED <<rings, objects, thread, started, need_shutdown, sys, pc, hand>>

-----------------------------------------------------------------------------
(* The system thread.  sys = <<node, k, w>>: k is 0 before the call of a    *)
(* node, then the input ring or the round it is at; w is the worker that   *)
(* is to get the next task, 0 for none yet.                                *)

Running(t) == Alive /\ thread[t] = "run"
NodeAfter  == [err |-> "in", in |-> "out", out |-> "err"]
SysOff ==
    /\ sys' = <<"err", 0, 0>>
    /\ thread' = [thread EXCEPT ![0] = "off"] /\ started' = [started EXCEPT ![0] = FALSE]

\* A node returns: the thread ends (`if (need_shutdown) break`) or calls the next one.
SysReturn ==
    IF need_shutdown[0] THEN SysOff
    ELSE sys' = <<NodeAfter[sys[1]], 0, 0>> /\ UNCHANGED <<thread, started>>
Goto(k, w) == sys' = <<sys[1], k, w>> /\ UNCHANGED <<thread, started>>

\* `while (!need_shutdown)`, before the first node.
SysEnd ==
    /\ Running(0) /\ sys = <<"err", 0, 0>> /\ need_shutdown[0]
    /\ SysOff
    /\ UNCHANGED <<rings, objects, need_shutdown, stop, pc, hand>>

\* pad_i_list: node in and then each worker with its error ring first.
ErrInputs ==
    IF Sink = "out" THEN [k \in 1..(Workers + 1) |-> Err(k - 1)]
    ELSE [k \in 1..(2 * Workers + 1) |-> IF k % 2 = 1 /\ k > 1 THEN From(k \div 2) ELSE Err(k \div 2)]
OutInputs == IF Sink = "out" THEN [k \in W |-> From(k)] ELSE <<>>
Inputs    == IF sys[1] = "err" THEN ErrInputs ELSE OutInputs
Endpoint  == IF sys[1] = "err" THEN Failed ELSE Ready

\* fan_n1_mod_out begins: nothing to do without inputs or while its endpoint is full.
FanN1 ==
    /\ Running(0) /\ sys[1] \in {"err", "out"} /\ sys[2] = 0
    /\ LET drained == [ring EXCEPT ![Endpoint] = Drain(@)] IN
        \/ Inputs = <<>> /\ ring' = ring /\ SysReturn
        \/ /\ Inputs # <<>> /\ ring' = drained
           /\ IF GetFree(drained[Endpoint]) = 0 THEN SysReturn ELSE Goto(1, 0)
    /\ UNCHANGED <<objects, need_shutdown, stop, pc, hand>>

\* Mutation: the last input ring is never looked at.
FanN1MoveShort ==
    /\ Running(0) /\ sys[1] \in {"err", "out"} /\ sys[2] > 0
    /\ IF sys[2] >= Len(Inputs) THEN SysReturn /\ UNCHANGED ring
       ELSE IF ~CanPull(ring[Inputs[sys[2]]]) THEN Goto(sys[2] + 1, 0) /\ UNCHANGED ring
       ELSE IF GetFree(ring[Endpoint]) = 0 THEN SysReturn /\ UNCHANGED ring
       ELSE ring' = Move(Inputs[sys[2]], Endpoint) /\ Goto(sys[2], 0)
    /\ UNCHANGED <<objects, need_shutdown, stop, pc, hand>>

\* Mutation: the room in the endpoint is asked for once, before the loop.
FanN1MoveUnchecked ==
    /\ Running(0) /\ sys[1] \in {"err", "out"} /\ sys[2] > 0
    /\ IF sys[2] > Len(Inputs) THEN SysReturn /\ UNCHANGED ring
       ELSE IF ~CanPull(ring[Inputs[sys[2]]]) THEN Goto(sys[2] + 1, 0) /\ UNCHANGED ring
       ELSE ring' = Move(Inputs[sys[2]], Endpoint) /\ Goto(sys[2], 0)
    /\ UNCHANGED <<objects, need_shutdown, stop, pc, hand>>

\* One task from the input ring it is at, or on to the next ring.
FanN1Move ==
    /\ Running(0) /\ sys[1] \in {"err", "out"} /\ sys[2] > 0
    /\ IF sys[2] > Len(Inputs) THEN SysReturn /\ UNCHANGED ring
       ELSE IF ~CanPull(ring[Inputs[sys[2]]]) THEN Goto(sys[2] + 1, 0) /\ UNCHANGED ring
       ELSE IF GetFree(ring[Endpoint]) = 0 THEN SysReturn /\ UNCHANGED ring
       ELSE ring' = Move(Inputs[sys[2]], Endpoint) /\ Goto(sys[2], 0)
    /\ UNCHANGED <<objects, need_shutdown, stop, pc, hand>>

\* The rings are looked at one after another while the workers empty them: which of the
\* unsaturated is the first, and which of those with room has most, depends on when.  A torn
\* count is above every threshold: an unsaturated ring may be taken for a saturated one.
Unsaturated(r) == {w \in W : Available(r[To(w)]) < Threshold}
Roomy(r)       == {w \in W : GetFree(r[To(w)]) > 0}
Fallback       == Workers + 1

\* fan_1n_mod_in: a round moves up the overflow of each ring and takes an unsaturated one.
Fan1N ==
    /\ Running(0) /\ sys[1] = "in" /\ sys[3] = 0
    /\ IF ~CanPull(ring[In]) \/ sys[2] > Rounds THEN SysReturn /\ UNCHANGED ring
       ELSE IF sys[2] = 0 THEN Goto(1, 0) /\ UNCHANGED ring
       ELSE LET drained == [r \in Rings |-> IF \E w \in W : r = To(w) THEN Drain(ring[r]) ELSE ring[r]]
            IN  /\ ring' = drained
                /\ \/ \E w \in Unsaturated(drained) : Goto(sys[2], w)
                   \/ Goto(sys[2], Fallback)
    /\ UNCHANGED <<objects, need_shutdown, stop, pc, hand>>

\* No ring is unsaturated: the one with most room, or none in this round.
Fan1NFallback ==
    /\ Running(0) /\ sys[1] = "in" /\ sys[3] = Fallback
    /\ \/ \E w \in Roomy(ring) : Goto(sys[2], w)
       \/ Roomy(ring) = {} /\ Goto(sys[2] + 1, 0)
    /\ UNCHANGED <<rings, objects, need_shutdown, stop, pc, hand>>

\* The task goes to the ring that was chosen.
Fan1NMove ==
    /\ Running(0) /\ sys[1] = "in" /\ sys[3] \in W
    /\ ring' = Move(In, To(sys[3])) /\ Goto(sys[2] + 1, 0)
    /\ UNCHANGED <<objects, need_shutdown, stop, pc, hand>>

-----------------------------------------------------------------------------
(* A worker thread and its node.                                           *)

WorkerOff(w) == thread' = [thread EXCEPT ![w] = "off"] /\ started' = [started EXCEPT ![w] = FALSE]
WorkerReturn(w) ==
    /\ pc' = [pc EXCEPT ![w] = "call"]
    /\ IF need_shutdown[w] THEN WorkerOff(w) ELSE UNCHANGED <<thread, started>>
WorkerOn(w, where) == pc' = [pc EXCEPT ![w] = where] /\ UNCHANGED <<thread, started>>

\* `while (!need_shutdown)`, before the node.
WorkerEnd(w) ==
    /\ Running(w) /\ pc[w] = "call" /\ need_shutdown[w]
    /\ WorkerOff(w)
    /\ UNCHANGED <<rings, objects, need_shutdown, stop, sys, pc, hand>>

\* The checks before the function: something to do, room for an error, room for a result.
WorkerCall(w) ==
    /\ Running(w) /\ pc[w] = "call"
    /\ LET noWork  == ~CanPull(ring[To(w)])
           drainE  == [ring EXCEPT ![Err(w)] = Drain(@)]
           drainEO == [drainE EXCEPT ![From(w)] = Drain(@)]
       IN  \/ noWork /\ ring' = ring /\ WorkerReturn(w)
           \/ ~noWork /\ GetFree(drainE[Err(w)]) = 0 /\ ring' = drainE /\ WorkerReturn(w)
           \/ /\ ~noWork /\ GetFree(drainE[Err(w)]) > 0
              /\ ring' = drainEO
              /\ IF GetFree(drainEO[From(w)]) = 0 THEN WorkerReturn(w) ELSE WorkerOn(w, "loop")
    /\ UNCHANGED <<objects, need_shutdown, stop, sys, hand>>

\* The loop of the function: pull a task while there is room for its result.
WorkerPull(w) ==
    /\ Running(w) /\ pc[w] = "loop"
    /\ IF CanPull(ring[To(w)]) /\ GetFree(ring[From(w)]) > 0
       THEN /\ hand' = [hand EXCEPT ![w] = {Head(ring[To(w)].queue)}]
            /\ ring' = [ring EXCEPT ![To(w)] = Pulled(@)]
            /\ WorkerOn(w, "work")
       ELSE UNCHANGED <<ring, hand>> /\ WorkerReturn(w)
    /\ UNCHANGED <<objects, need_shutdown, stop, sys>>

\* Mutation: the worker keeps its task after it has pushed it.
WorkerPushKept(w) ==
    /\ Running(w) /\ pc[w] = "work"
    /\ \E to \in {From(w)} \cup (IF Errors THEN {Err(w)} ELSE {}) : \E t \in hand[w] :
        ring' = [ring EXCEPT ![to] = PushTo(@, t)]
    /\ WorkerOn(w, "loop")
    /\ UNCHANGED <<objects, need_shutdown, stop, sys, hand>>

\* Mutation: a failed task goes to the result ring as well.
WorkerPushTwice(w) ==
    /\ Running(w) /\ pc[w] = "work"
    /\ \E ok \in {TRUE, ~Errors} : \E t \in hand[w] :
        ring' = [ring EXCEPT ![From(w)] = PushTo(@, t),
                             ![Err(w)] = IF ok THEN @ ELSE PushTo(@, t)]
    /\ hand' = [hand EXCEPT ![w] = {}]
    /\ WorkerOn(w, "loop")
    /\ UNCHANGED <<objects, need_shutdown, stop, sys>>

\* The task is done: pushed to the result ring or, on error, to the error ring.
WorkerPush(w) ==
    /\ Running(w) /\ pc[w] = "work"
    /\ \E to \in {From(w)} \cup (IF Errors THEN {Err(w)} ELSE {}) : \E t \in hand[w] :
        ring' = [ring EXCEPT ![to] = PushTo(@, t)]
    /\ hand' = [hand EXCEPT ![w] = {}]
    /\ WorkerOn(w, "loop")
    /\ UNCHANGED <<objects, need_shutdown, stop, sys>>

-----------------------------------------------------------------------------
Init ==
    /\ ring = [r \in Rings |-> [queue |-> <<>>, overflow |-> <<>>]]
    /\ task_wip_count = 0 /\ task_free_list = {} /\ fresh = Tasks /\ got = {} /\ late = {}
    /\ thread = [t \in Threads |-> "off"] /\ started = [t \in Threads |-> FALSE]
    /\ need_shutdown = [t \in Threads |-> FALSE] /\ stop = "none" /\ torn = {}
    /\ sys = <<"err", 0, 0>> /\ pc = [w \in W |-> "call"] /\ hand = [w \in W |-> {}]

Main      == \/ Push \/ Pull \/ PullAck \/ Start
             \/ StopSoft \/ StopSchedule \/ StopScheduleTorn \/ StopShutdown \/ StopEnd \/ StopHard
System    == SysEnd \/ FanN1 \/ FanN1Move \/ Fan1N \/ Fan1NFallback \/ Fan1NMove
Worker(w) == WorkerEnd(w) \/ WorkerCall(w) \/ WorkerPull(w) \/ WorkerPush(w)
Over      == ~Alive /\ UNCHANGED vars

Next == Main \/ System \/ (\E w \in W : Worker(w)) \/ DrainTorn \/ Over

(* Threads are scheduled and the function of a node returns; the loops of  *)
(* the main thread (poll, stop_soft) go round.  Nobody has to push, start  *)
(* or stop, and no read has to be torn.                                    *)
Fairness ==
    /\ WF_vars(System) /\ \A w \in W : WF_vars(Worker(w))
    /\ WF_vars(Pull) /\ WF_vars(PullAck) /\ WF_vars(StopSchedule)
    /\ WF_vars(StopShutdown) /\ WF_vars(StopEnd)

Spec == Init /\ [][Next]_vars /\ Fairness

-----------------------------------------------------------------------------
(* Properties.                                                             *)

Content(r) == ToSet(ring[r].queue) \cup ToSet(ring[r].overflow)
Held       == UNION {hand[w] : w \in W}
Inside     == Held \cup UNION {Content(r) : r \in Inner}
Outside    == Content(Ready) \cup Content(Failed)

\* Queues hold tasks and respect their size, a worker holds a task exactly while it works.
TypeOK ==
    /\ \A r \in Rings : Len(ring[r].queue) <= Cap /\ Content(r) \subseteq Tasks
    /\ \A w \in W : hand[w] \subseteq Tasks /\ (hand[w] # {} <=> pc[w] = "work")
    /\ fresh \cup task_free_list \cup got \cup late \subseteq Tasks
    /\ task_wip_count \in Nat
    /\ thread \in [Threads -> {"off", "run", "dead"}] /\ started \in [Threads -> BOOLEAN]
    /\ need_shutdown \in [Threads -> BOOLEAN]
    /\ sys \in {"err", "in", "out"} \X Nat \X (0..Fallback)
    /\ pc \in [W -> {"call", "loop", "work"}]
    /\ stop \in {"none", "wait", "scheduling", "ending", "ended", "crashed"}
    /\ torn \subseteq {"drain", "count"}

\* Until a drain is torn, a task object is in one place: free, with its callback, in the
\* hand of one worker or once in one ring; none is lost and none handed out while a thread
\* still holds it.
NoneTwice(s) == \A i, j \in 1..Len(s) : s[i] = s[j] => i = j
Apart(S)     == \A x, y \in DOMAIN S : x # y => S[x] \cap S[y] = {}
OnePlace ==
    "drain" \notin torn =>
        /\ fresh \cup task_free_list \cup got \cup Inside \cup Outside = Tasks
        /\ \A r \in Rings : NoneTwice(ring[r].queue \o ring[r].overflow)
        /\ Apart([r \in Rings |-> Content(r)]) /\ Apart(hand)
        /\ Apart(<<fresh, task_free_list, got, Held, UNION {Content(r) : r \in Rings}>>)

\* Until a drain is torn, the count that stop_soft goes by is the number of tasks pushed and
\* not yet pulled.
WipHonest == "drain" \notin torn => task_wip_count = Cardinality(Inside \cup Outside)

\* Backpressure holds inside: only the ring the main thread pushes to and the error
\* rings, to which a worker pushes without asking, ever use their overflow: nothing else is
\* there for a torn count to push.
Backpressure ==
    \A r \in Rings : ring[r].overflow # <<>> => r = In \/ \E w \in W : r = Err(w)

\* stop_soft "wait for all tasks done": when the threads are told to stop, and after, no
\* task that was pushed before is left inside, unless the count was torn.
StopClean ==
    stop \in {"scheduling", "ending", "ended"} /\ torn = {} => Inside \subseteq late

\* When stop_soft answers no thread runs any more, and each has finished its task.
StopTrue == stop = "ended" => \A t \in Threads : thread[t] = "off" /\ (t \in W => hand[t] = {})

\* While all threads run and nobody pushes for ever, a task that is queued inside gets to
\* an endpoint, or to the overflow of an error ring: no saturated worker, no full ring and
\* no torn count of the system thread holds it up for ever.
Queued(t) == t \in Held \/ \E r \in Inner : t \in ToSet(ring[r].queue)
Halted    == \E t \in Threads : ~Running(t)
Progress  == []<><<Push>>_vars \/ \A t \in Tasks : Queued(t) ~> (~Queued(t) \/ Halted)

\* stop_soft answers once nobody pushes, whatever it has counted, except when a thread could
\* not start or a task is left in an overflow, which waits for another push.
Stuck    == \/ \E r \in Rings : ring[r].overflow # <<>>
            \/ \E t \in Threads : thread[t] = "dead" \/ (stop = "wait" /\ thread[t] = "off")
StopEnds ==
    \/ []<><<Push>>_vars
    \/ stop \in {"wait", "scheduling", "ending"} ~> (stop = "ended" \/ ~Alive \/ Stuck)
=============================================================================
