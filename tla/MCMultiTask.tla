---------------------------- MODULE MCMultiTask -----------------------------
(***************************************************************************)
(* Five repositories; a single project has none of them.  After the build  *)
(* of a single project topo_sort is given any list of at most MaxNode      *)
(* nodes: the walks that order the tasks of a monorepo, on every graph a   *)
(* caller could give.                                                      *)
(***************************************************************************)
EXTENDS MultiTask, TopoSort

CONSTANT MaxNode          \* bound: nodes of a list given to topo_sort

MCRepos == <<"core", "lib", "app", "ops", "site">>

Order(c, m) == [command |-> c, monorepo |-> m]
Build1Orders == {Order("build1", TRUE), Order("build1", FALSE), Order("build2", FALSE)}
Build2Orders == {Order("build2", TRUE)}

Lists(n) == {SetToSeq(s) : s \in SUBSET (1..n)}
MCGraphs == UNION {[n : {n}, link : [1..n -> Lists(n)], strict : BOOLEAN] : n \in 1..MaxNode}

\* What topo_sort gives multi_task, by the properties of TopoSort: a cycle is thrown, and
\* a list that is returned is whole, every node after all it links to.
Sort(n, link, allow_non_strict_order) ==
    IF Cyclic(n, link) THEN [thrown |-> "cycle", list |-> <<>>]
    ELSE [thrown |-> "no",
          list   |-> CHOOSE l \in [1..n -> 1..n] :
                        /\ ToSet(l) = 1..n
                        /\ \A i, j \in 1..n : Contains(link[l[i]], l[j]) => j < i]

Built == order = Order("build1", FALSE) /\ answers = <<"ok">>

MCInit == Init /\ TopoInit
MCNext == (Next /\ UNCHANGED topo_vars) \/ (Built /\ TopoNext /\ UNCHANGED vars)
MCSpec == MCInit /\ [][MCNext]_<<vars, topo_vars>> /\ WF_vars(Step)
=============================================================================
