---------------------------- MODULE NifPipeline -----------------------------
(***************************************************************************)
(* The pipeline as the Erlang bindings build it: the functions that        *)
(* src/src/block/nodejs/erlang_nif/erlang_nif_pipeline.coffee generates    *)
(* for a node (pads, links, push and pull), the resources that             *)
(* class_generator.coffee makes of its objects, and the macros of          *)
(* src/tpl/erlang_nif/macro.hpp that read the arguments.  One Erlang       *)
(* process builds the pipeline, and one thread runs fan_n1_mod_out on all  *)
(* its nodes.  Nothing in the code keeps the process from changing pads    *)
(* once the thread runs and tasks are on their way.  What is between the   *)
(* calls of the thread is a step like the others, what falls into one is a *)
(* data race (Race); what the process drops with tasks inside is recorded  *)
(* in relinked.                                                            *)
(***************************************************************************)
EXTENDS NifRing, FiniteSets

CONSTANTS
    Node,       \* the nodes
    Flow,       \* the pairs of nodes a program links; no cycles
    Tasks,      \* bound: tasks are 1..Tasks, pushed in this order
    Rings,      \* bound: the rings that are ever made are 1..Rings
    MaxPads,    \* bound: for each node, the pads on its sides "i" and "o"
    Changes,    \* bound: the calls that change pads
    Forgets,    \* bound: the tasks Erlang may forget are 1..Forgets
    Ints,       \* the indices Erlang passes
    Sizes,      \* the ring sizes
    Fns,        \* the number of registered functions
    Half32      \* 2^31

\* No cycles: round a cycle a task overtakes the ones behind it.
ASSUME PipelineAssumption ==
    /\ Tasks \in Nat /\ Rings \in Nat /\ Half32 \in Nat \ {0}
    /\ MaxPads \in [Node -> [i : Nat, o : Nat]]
    /\ Fns \in 0..(Half32 - 1)
    /\ Flow \subseteq Node \X Node /\ Ints \subseteq Int
    /\ Nothing \notin (1..Rings) \cup (1..Tasks)
    /\ IsFiniteSet(Node)
    /\ \E rank \in [Node -> 0..Cardinality(Node)] : \A e \in Flow : rank[e[1]] < rank[e[2]]

Task   == 1..Tasks
Object == Node \cup Task
RingId == 1..Rings

VARIABLES
    refs,       \* each object: its resource's reference count, -1 before it is made
    term,       \* the objects Erlang has a term of
    gone,       \* the objects whose destructor has run
    pads,       \* each node: its pads, by side "i" and "o", a ring or Nothing
    ring,       \* each ring: its slots, its offsets and its overflow list
    ref_count,  \* each ring: what link, ep_i and ep_o count of its pads
    life,       \* each ring: "unmade", "made" or "deleted"
    fn_index,   \* each node: its function, 0 before it has one
    started,
    pushed,     \* history: where each task was pushed
    pulled,     \* history: [task, at] as they left
    relinked,   \* history: a pad let go of a ring after the first task was pushed
    changes,    \* the calls that changed pads, which Changes bounds
    broken      \* the first undefined behaviour or torn drain, or "none"; the end

build == <<pads, fn_index, started>>
heap  == <<ref_count, life>>
moved == <<pushed, pulled>>
hist  == <<moved, relinked, changes>>
vars  == <<refs, term, gone, build, ring, heap, hist, broken>>

Going    == broken = "none"
Made(r)  == life[r] = "made"
Fresh(r) == life[r] = "unmade" /\ \A q \in 1..(r - 1) : life[q] # "unmade"

-----------------------------------------------------------------------------
(* Arguments and resources                                                 *)

\* enif_get_int, for an i32 and for a u32 alike: what has no sign wraps.
IntArg(x)  == x \in (-Half32)..(Half32 - 1)
Unsigned(x) == x % (2 * Half32)

\* FN_ARG_CLASS, FN_ARG_THIS: Erlang has a term of it; nothing sets _deleted.
ClassArg(o) == o \in term

\* Mutation: the constructor gives its own reference back.
MadeRefsReleased == 1

\* enif_alloc_resource and enif_make_resource: one reference each, and the
\* constructor does not give the first one back.
MadeRefs == 2

\* NAME_constructor_cpp_nif; a program makes a task when it has one to push.
New(o) ==
    /\ Going /\ refs[o] = -1
    /\ o \in Task => o = Len(pushed) + 1
    /\ refs' = [refs EXCEPT ![o] = MadeRefs]
    /\ term' = term \cup {o}
    /\ UNCHANGED <<gone, build, ring, heap, hist, broken>>

\* Erlang collects its last term of a task it has pushed; without references
\* the destructor runs.  A program keeps its nodes, to push and pull with.
Forget(o) ==
    /\ Going /\ o \in term /\ o \in 1..Len(pushed) /\ o <= Forgets
    /\ term' = term \ {o}
    /\ refs' = [refs EXCEPT ![o] = @ - 1]
    /\ gone' = IF refs[o] = 1 THEN gone \cup {o} ELSE gone
    /\ UNCHANGED <<build, ring, heap, hist, broken>>

-----------------------------------------------------------------------------
(* Building                                                                *)

Init ==
    /\ refs = [o \in Object |-> -1] /\ term = {} /\ gone = {}
    /\ pads = [n \in Node |-> [i |-> <<>>, o |-> <<>>]]
    /\ ring = [r \in RingId |-> NewRing(0)]
    /\ ref_count = [r \in RingId |-> 0] /\ life = [r \in RingId |-> "unmade"]
    /\ fn_index = [n \in Node |-> 0] /\ started = FALSE
    /\ pushed = <<>> /\ pulled = <<>> /\ relinked = FALSE /\ changes = 0
    /\ broken = "none"

\* The rings that the pads of a node hold.
HeldBy(n) ==
    (UNION {{pads[n][s][k] : k \in DOMAIN pads[n][s]} : s \in {"i", "o"}}) \ {Nothing}

\* A call that changes pads, before or after start, with or without tasks on the way.
Building(n) == Going /\ ClassArg(n) /\ changes < Changes /\ changes' = changes + 1

LetGo(rings) == relinked' = (relinked \/ (pushed # <<>> /\ rings \ {Nothing} # {}))

\* pad_i_add, pad_o_add
PadAdd(n, side) ==
    /\ Building(n) /\ Len(pads[n][side]) < MaxPads[n][side]
    /\ pads' = [pads EXCEPT ![n][side] = Append(@, Nothing)]
    /\ UNCHANGED <<refs, term, gone, fn_index, started, ring, heap, moved, relinked, broken>>

\* pad_reset: the rings are forgotten, their count is not changed.
PadReset(n) ==
    /\ Building(n) /\ pads[n] # [i |-> <<>>, o |-> <<>>]
    /\ pads' = [pads EXCEPT ![n] = [i |-> <<>>, o |-> <<>>]]
    /\ LetGo(HeldBy(n))
    /\ UNCHANGED <<refs, term, gone, fn_index, started, ring, heap, moved, broken>>

\* ep_i, ep_o: a ring that is nobody else's, with count 0.
Ep(n, side, size) ==
    /\ Building(n) /\ IntArg(size) /\ pads[n][side] = <<>> /\ MaxPads[n][side] > 0
    /\ \E r \in RingId :
          /\ Fresh(r)
          /\ ring' = [ring EXCEPT ![r] = NewRing(Unsigned(size))]
          /\ life' = [life EXCEPT ![r] = "made"]
          /\ pads' = [pads EXCEPT ![n][side] = <<r>>]
    /\ UNCHANGED <<refs, term, gone, fn_index, started, ref_count, moved, relinked, broken>>

\* A pad lets go of its ring.
Released(count, r) == IF r = Nothing THEN count ELSE [count EXCEPT ![r] = @ - 1]

\* Mutations: the count is not looked at; a count that was 0 goes below it.
FreedAlways(count, rings) == rings \ {Nothing}
FreedAtZero(count, rings) == {r \in rings \ {Nothing} : count[r] = 0}

\* The rings that are deleted with that; their count may have been 0 already.
Freed(count, rings) == {r \in rings \ {Nothing} : count[r] <= 0}

\* link: an index is compared without its sign.  The tasks inside a ring that goes, or that
\* is left on one pad alone, are not moved anywhere.
Link(n, dst, i, j, size) ==
    /\ Building(n) /\ ClassArg(dst) /\ <<n, dst>> \in Flow
    /\ IntArg(i) /\ IntArg(j) /\ IntArg(size)
    /\ Unsigned(i) < Len(pads[n].o) /\ Unsigned(j) < Len(pads[dst].i)
    /\ \E r \in RingId, x \in {Unsigned(i) + 1}, y \in {Unsigned(j) + 1} :
          /\ Fresh(r)
          /\ LET there == pads[n].o[x]
                 here  == pads[dst].i[y]
                 left  == Released(Released(ref_count, there), here)
                 freed == Freed(left, {there, here})
             IN  /\ LetGo({there, here})
                 /\ ref_count' = [left EXCEPT ![r] = 2]
                 /\ life' = [q \in RingId |-> IF q = r THEN "made"
                                              ELSE IF q \in freed THEN "deleted" ELSE life[q]]
          /\ ring' = [ring EXCEPT ![r] = NewRing(Unsigned(size))]
          /\ pads' = [pads EXCEPT ![n].o[x] = r, ![dst].i[y] = r]
    /\ UNCHANGED <<refs, term, gone, fn_index, started, moved, broken>>

\* fn_set: 0 - 1 has no sign either, so 0 is out of range and unsets nothing.
FnSet(n, k) ==
    /\ Going /\ ClassArg(n) /\ IntArg(k)
    /\ Unsigned(Unsigned(k) - 1) < Fns
    /\ fn_index' = [fn_index EXCEPT ![n] = k]
    /\ UNCHANGED <<refs, term, gone, pads, started, ring, heap, hist, broken>>

\* start: every node of the thread has its function.
Start ==
    /\ Going /\ ~started /\ term \cap Node # {}
    /\ \A n \in Node : refs[n] # -1 => fn_index[n] # 0
    /\ started' = TRUE
    /\ UNCHANGED <<refs, term, gone, pads, fn_index, ring, heap, hist, broken>>

-----------------------------------------------------------------------------
(* Running                                                                 *)

Break(what) == broken' = what /\ UNCHANGED <<refs, term, gone, build, ring, heap, hist>>

\* Erlang at the pads of a node, or at the end of a ring, that fan_n1_mod_out is at:
\* neither the vectors nor the rings are made for that.
Race(n) ==
    /\ Going /\ started /\ fn_index[n] # 0
    /\ \/ ClassArg(n) /\ changes < Changes
       \/ \E m \in term \cap Node :
             LET out(k)  == 1 \in DOMAIN pads[k].o /\ pads[k].o[1] # Nothing
                 in(k, j) == j \in DOMAIN pads[k].i
             IN  \/ out(n) /\ in(m, 1) /\ pads[m].i[1] = pads[n].o[1]
                 \/ out(m) /\ \E j \in 1..MaxPads[n].i : in(n, j) /\ pads[n].i[j] = pads[m].o[1]
    /\ Break("race")

\* task_push: a ring without a slot is written to all the same.
TaskPush(n) ==
    /\ Going /\ ClassArg(n) /\ Len(pushed) < Tasks /\ ClassArg(Len(pushed) + 1)
    /\ pads[n].i # <<>> /\ pads[n].i[1] # Nothing
    /\ LET r == pads[n].i[1] IN
       IF ~Made(r) THEN Break("deleted ring")
       ELSE IF ring[r].size = 0 THEN Break("ring of size 0")
       ELSE /\ ring' = [ring EXCEPT ![r] = Pushed(Drained(@), Len(pushed) + 1)]
            /\ pushed' = Append(pushed, n)
            /\ UNCHANGED <<refs, term, gone, build, heap, pulled, relinked, changes, broken>>

\* task_pull: the uid is read from the task.
TaskPull(n) ==
    /\ Going /\ ClassArg(n) /\ pads[n].o # <<>> /\ pads[n].o[1] # Nothing
    /\ LET r == pads[n].o[1] IN
       IF ~Made(r) THEN Break("deleted ring")
       ELSE /\ CanPull(ring[r])
            /\ IF First(ring[r]) \in gone THEN Break("deleted task")
               ELSE /\ pulled' = Append(pulled, [task |-> First(ring[r]), at |-> n])
                    /\ ring' = [ring EXCEPT ![r] = Pulled(@)]
                    /\ UNCHANGED <<refs, term, gone, build, heap, pushed, relinked, changes, broken>>

\* fan_n1_mod_out, for the pad j: it drains its output, and moves a task if there is one and
\* room for it.  Its call goes on while it can.
Fan(n, j) ==
    /\ Going /\ started /\ fn_index[n] # 0 /\ j \in DOMAIN pads[n].i
    /\ pads[n].o # <<>> /\ pads[n].o[1] # Nothing
    /\ LET i == pads[n].i[j]
           o == pads[n].o[1]
           drained == Drained(ring[o])
       IN  IF ~Made(o) THEN Break("deleted ring")
           ELSE IF ring[o].size = 0 THEN Break("ring of size 0")
           ELSE IF FreeNonbackpressure(drained) = 0 \/ i = Nothing \/ (Made(i) /\ ~CanPull(ring[i]))
           THEN /\ ring' = [ring EXCEPT ![o] = drained]
                /\ UNCHANGED <<refs, term, gone, build, heap, hist, broken>>
           ELSE IF ~Made(i) THEN Break("deleted ring")
           ELSE /\ LET filled == [ring EXCEPT ![o] = Pushed(drained, First(ring[i]))]
                   IN  ring' = [filled EXCEPT ![i] = Pulled(@)]
                /\ UNCHANGED <<refs, term, gone, build, heap, hist, broken>>

\* The drain that task_push or fan_n1_mod_out begins with, torn because the thread or
\* Erlang's task_pull takes the task of the last slot meanwhile.
DrainTorn(n, side) ==
    /\ Going /\ started /\ pads[n][side] # <<>>
    /\ LET r == pads[n][side][1] IN
       /\ r # Nothing /\ Made(r) /\ CanTear(ring[r])
       /\ fn_index[n] # 0
       /\ \/ side = "i" /\ ClassArg(n) /\ Len(pushed) < Tasks /\ ClassArg(Len(pushed) + 1)
          \/ side = "o" /\ pads[n].i # <<>>
       /\ ring' = [ring EXCEPT ![r] = DrainedTorn(@)]
    /\ broken' = "torn drain"
    /\ UNCHANGED <<refs, term, gone, build, heap, hist>>

Next ==
    \/ \E o \in Object : New(o) \/ Forget(o)
    \/ \E n \in Node : \/ \E side \in {"i", "o"} :
                             \/ PadAdd(n, side) \/ DrainTorn(n, side)
                             \/ \E size \in Sizes : Ep(n, side, size)
                       \/ PadReset(n)
                       \/ \E k \in Ints : FnSet(n, k)
                       \/ TaskPush(n) \/ TaskPull(n) \/ Race(n)
                       \/ \E j \in 1..MaxPads[n].i : Fan(n, j)
                       \/ \E dst \in Node, i, j \in Ints, size \in Sizes : Link(n, dst, i, j, size)
    \/ Start

Spec == Init /\ [][Next]_vars

-----------------------------------------------------------------------------

\* Where a task can be in the rings.
Places == {r \in RingId : Made(r)} \X Task
TaskAt(x) == LET s == Inside(ring[x[1]]) IN IF x[2] \in DOMAIN s THEN s[x[2]] ELSE Nothing

\* The variables' domains.
TypeOK ==
    /\ refs \in [Object -> -1..MadeRefs] /\ term \subseteq Object /\ gone \subseteq Object
    /\ \A n \in Node : HeldBy(n) \subseteq RingId
    /\ life \in [RingId -> {"unmade", "made", "deleted"}]
    /\ \A r \in RingId : Made(r) =>
          /\ ring[r].idx <= Len(ring[r].overflow)
          /\ ref_count[r] \in 0..2
          /\ ring[r].size > 0 => ring[r].send < ring[r].size /\ ring[r].recv < ring[r].size
    /\ fn_index \in [Node -> 0..Fns] /\ started \in BOOLEAN

\* erlang_nif_pipeline.coffee 139-164: whatever is linked, linked again and
\* reset, no pad is left with a ring that was deleted; class_generator.coffee
\* 112-121: no ring holds a task that was deleted, though it keeps no
\* reference to it and Erlang may forget it.
Alive ==
    /\ \A n \in Node : \A r \in HeldBy(n) : Made(r)
    /\ \A r \in RingId : Made(r) =>
          \A k \in DOMAIN Inside(ring[r]) : Inside(ring[r])[k] \notin gone

\* message_ring.hpp 123-186, erlang_nif_pipeline.coffee 139-160: until a pad
\* lets go of a ring (link and pad_reset move no task out of it) or a drain
\* is torn, every task that was pushed is in one ring or came out of one,
\* however often the overflow list is begun, moved and dropped on the way and
\* whatever is linked meanwhile; and what was pushed at one node and pulled at
\* one node came in the order it was pushed.
Kept ==
    ~relinked /\ Going =>
        /\ \A t \in DOMAIN pushed :
              Cardinality({x \in Places : TaskAt(x) = t})
                  + Cardinality({k \in DOMAIN pulled : pulled[k].task = t}) = 1
        /\ \A x, y \in DOMAIN pulled :
              x < y /\ pulled[x].at = pulled[y].at
                  /\ pushed[pulled[x].task] = pushed[pulled[y].task]
              => pulled[x].task < pulled[y].task
=============================================================================
