------------------------------ MODULE TopoSort ------------------------------
(***************************************************************************)
(* src/src/util/topo_sort.coffee: the cycle check and the layered sort of  *)
(* a list of nodes by their _i_link_list, as the two depth-first walks of  *)
(* the code, one step per call, link and return.                           *)
(***************************************************************************)
EXTENDS Naturals, Sequences, FiniteSets, SequencesExt

CONSTANT Graphs      \* what callers give: [n, link, strict]

\* The nodes of the list by their _i, per node the sequence of its links, which are nodes
\* of the list, and the negation of allow_non_strict_order.
ASSUME GraphsAssumption ==
    \A g \in Graphs : /\ g.n \in Nat \ {0}
                      /\ g.link \in [1..g.n -> Seq(1..g.n)]
                      /\ g.strict \in BOOLEAN

VARIABLES
    graph,
    at,                 \* where topo_sort stands, or how it ended
    index,              \* the loop over the list
    visited_list,
    in_recursion_list,
    calls,              \* calls of is_cyclic_util, or of topological_sort_util
    topo_depth,         \* _topo_depth, of the nodes that have it
    list                \* the list when it is sorted

lists     == <<visited_list, in_recursion_list>>
topo_vars == <<graph, at, index, lists, calls, topo_depth, list>>

List    == 1..graph.n
LinkList(i) == graph.link[i]

\* A call: its node, the link its loop is at, req_depth.  A call that returns finds that
\* link visited, and goes on.
Call(i)      == [node |-> i, pos |-> 1, req_depth |-> 0]
This         == Last(calls)
MoreLinks    == calls # <<>> /\ This.pos <= Len(LinkList(This.node))
NoMoreLinks  == calls # <<>> /\ This.pos > Len(LinkList(This.node))
LinkHere     == LinkList(This.node)[This.pos]
NextLink(r)  == calls' = Append(Front(calls), [node |-> This.node, pos |-> This.pos + 1,
                                                 req_depth |-> r])

TopoGiven ==
    /\ at = "idle"
    /\ graph' \in Graphs
    /\ at' = "cycle" /\ index' = 1
    /\ UNCHANGED <<lists, calls, topo_depth, list>>

-----------------------------------------------------------------------------
(* The cycle check.                                                        *)

\* is_cyclic_util of a node that was not visited.
IsCyclicUtil(i) ==
    /\ calls' = Append(calls, Call(i))
    /\ visited_list' = visited_list \cup {i}
    /\ in_recursion_list' = in_recursion_list \cup {i}

\* for v,i in list; no call is active, so that nothing is in recursion.
CycleLoop ==
    /\ at = "cycle" /\ calls = <<>> /\ index <= graph.n
    /\ index' = index + 1
    /\ IF index \in visited_list THEN UNCHANGED <<calls, lists>> ELSE IsCyclicUtil(index)
    /\ UNCHANGED <<graph, at, topo_depth, list>>

\* Mutation: visited_list is tested before in_recursion_list, and hides it.
CycleLinkHidden ==
    /\ at = "cycle" /\ MoreLinks
    /\ IF LinkHere \in visited_list THEN NextLink(0) /\ UNCHANGED lists
       ELSE IsCyclicUtil(LinkHere)
    /\ UNCHANGED <<graph, at, index, topo_depth, list>>

\* for loc_v in node._i_link_list; a cycle is returned up to the loop, which throws.
CycleLink ==
    /\ at = "cycle" /\ MoreLinks
    /\ IF LinkHere \in in_recursion_list
       THEN at' = "cyclic" /\ UNCHANGED <<calls, lists>>
       ELSE /\ IF LinkHere \in visited_list THEN NextLink(0) /\ UNCHANGED lists
               ELSE IsCyclicUtil(LinkHere)
            /\ UNCHANGED at
    /\ UNCHANGED <<graph, index, topo_depth, list>>

CycleReturn ==
    /\ at = "cycle" /\ NoMoreLinks
    /\ calls' = Front(calls)
    /\ in_recursion_list' = in_recursion_list \ {This.node}
    /\ UNCHANGED <<graph, at, index, visited_list, topo_depth, list>>

\* visited_list.fill 0
CycleEnd ==
    /\ at = "cycle" /\ calls = <<>> /\ index > graph.n
    /\ at' = "depth" /\ index' = 1 /\ visited_list' = {}
    /\ UNCHANGED <<graph, in_recursion_list, calls, topo_depth, list>>

-----------------------------------------------------------------------------
(* The depths.                                                             *)

\* Mutation: a node of the same depth as what it links to.
StepDepthFlat(req_depth, d) == IF d > req_depth THEN d ELSE req_depth
\* req_depth = Math.max req_depth, loc_v._topo_depth+1
StepDepth(req_depth, d) == IF d + 1 > req_depth THEN d + 1 ELSE req_depth

TopologicalSortUtil(i) ==
    /\ calls' = Append(calls, Call(i))
    /\ visited_list' = visited_list \cup {i}

DepthLoop ==
    /\ at = "depth" /\ calls = <<>> /\ index <= graph.n
    /\ index' = index + 1
    /\ IF index \in visited_list THEN UNCHANGED <<calls, visited_list>>
       ELSE TopologicalSortUtil(index)
    /\ UNCHANGED <<graph, at, in_recursion_list, topo_depth, list>>

\* A link that was visited has its depth: no call on it is active, there is no cycle.
DepthLink ==
    /\ at = "depth" /\ MoreLinks
    /\ IF LinkHere \in visited_list
       THEN NextLink(StepDepth(This.req_depth, topo_depth[LinkHere])) /\ UNCHANGED visited_list
       ELSE TopologicalSortUtil(LinkHere)
    /\ UNCHANGED <<graph, at, index, in_recursion_list, topo_depth, list>>

DepthReturn ==
    /\ at = "depth" /\ NoMoreLinks
    /\ topo_depth' = [i \in DOMAIN topo_depth \cup {This.node} |->
                        IF i = This.node THEN This.req_depth ELSE topo_depth[i]]
    /\ calls' = Front(calls)
    /\ UNCHANGED <<graph, at, index, lists, list>>

DepthEnd ==
    /\ at = "depth" /\ calls = <<>> /\ index > graph.n
    /\ at' = IF graph.strict THEN "strict" ELSE "sort"
    /\ UNCHANGED <<graph, index, lists, calls, topo_depth, list>>

\* stack_list_list[d] holds the nodes of depth d; _o_link_list is the reverse of the links.
Orphaned == graph.n > 1 /\ \E i \in List : /\ topo_depth[i] = 0
                                           /\ \A j \in List : ~Contains(LinkList(j), i)
\* Mutation: only orphans are refused.
GroupedNever == FALSE
Grouped == \E i, j \in List : i # j /\ topo_depth[i] = topo_depth[j]

\* What is checked unless allow_non_strict_order is given.
Strict ==
    /\ at = "strict"
    /\ at' = IF Orphaned THEN "orphaned" ELSE IF Grouped THEN "unordered" ELSE "sort"
    /\ UNCHANGED <<graph, index, lists, calls, topo_depth, list>>

\* list.sort by _topo_depth: the whole list, and nodes of one depth in the order they had.
SortedBy(l, depth) ==
    /\ {l[k] : k \in DOMAIN l} = DOMAIN l
    /\ \A a, b \in DOMAIN l : a < b => \/ depth[l[a]] < depth[l[b]]
                                       \/ depth[l[a]] = depth[l[b]] /\ l[a] < l[b]
ListSort ==
    /\ at = "sort"
    /\ \E l \in [List -> List] : SortedBy(l, topo_depth) /\ list' = l
    /\ at' = "sorted"
    /\ UNCHANGED <<graph, index, lists, calls, topo_depth>>

TopoInit ==
    /\ graph = [n |-> 0, link |-> <<>>, strict |-> FALSE]
    /\ at = "idle" /\ index = 1
    /\ visited_list = {} /\ in_recursion_list = {} /\ calls = <<>>
    /\ topo_depth = <<>> /\ list = <<>>

TopoNext == TopoGiven \/ CycleLoop \/ CycleLink \/ CycleReturn \/ CycleEnd
            \/ DepthLoop \/ DepthLink \/ DepthReturn \/ DepthEnd \/ Strict \/ ListSort
TopoSpec == TopoInit /\ [][TopoNext]_topo_vars

-----------------------------------------------------------------------------
(* Properties.                                                             *)

\* The reference: a cycle is a set of nodes of which each links to one of them.
Cyclic(n, link) ==
    \E s \in SUBSET (1..n) : /\ s # {}
                             /\ \A i \in s : \E j \in s : Contains(link[i], j)

\* The cycle check throws exactly for the graphs with a cycle, self links and cycles
\* behind nodes already visited included.
CycleFound ==
    /\ at = "cyclic" => Cyclic(graph.n, graph.link)
    /\ at \notin {"idle", "cycle", "cyclic"} => ~Cyclic(graph.n, graph.link)

\* The sorted list is a permutation in which every node comes after all it links to.
DependenciesFirst ==
    at = "sorted" =>
        /\ Len(list) = graph.n /\ ToSet(list) = List
        /\ \A i, j \in List : Contains(LinkList(list[i]), list[j]) => j < i

\* In strict mode an accepted graph leaves no choice of order: any two neighbours of
\* the list are joined by a link.
StrictIsTotal ==
    at = "sorted" /\ graph.strict =>
        \A i \in 1..(graph.n - 1) : Contains(LinkList(list[i + 1]), list[i])
=============================================================================
