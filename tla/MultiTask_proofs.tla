-------------------------- MODULE MultiTask_proofs --------------------------
(***************************************************************************)
(* Proofs about MultiTask, for any repositories, any orders and any order  *)
(* of the tasks that topo_sort returns.  What the lock and the answer rest *)
(* on is a balance: every task_repo is waiting, running or done, never two *)
(* of these, and the error remembered is that of the ones done.            *)
(* After them, proofs about TopoSort, for any list and any links.          *)
(***************************************************************************)
EXTENDS MultiTask, TopoSort, SequenceTheorems, FiniteSetTheorems, TLAPS

\* The task_repo of the command, and how many they are.
Todo  == Range(TaskRepo(order.command))
Total == Len(TaskRepo(order.command))

InHand == IF in_progress = {} THEN 0 ELSE 1
Done   == {finished[i].task : i \in DOMAIN finished}

Domains ==
    /\ order \in Orders
    /\ stage \in Final \cup {"direct", "direct2", "monorepo", "run"}
    /\ queue \in Seq(Todo) /\ in_progress \subseteq Todo
    /\ finished \in Seq([task : Todo, ok : BOOLEAN])
    /\ err_throw \in BOOLEAN /\ answers \in Seq({"ok", "err"})

\* The lock is held by one task_repo or by nobody.
Locked == \A x, y \in in_progress : x = y

\* Before the graph is there nothing has run, and before the answer nothing is answered.
Quiet ==
    /\ stage \in {"direct", "direct2", "monorepo"}
          => queue = <<>> /\ in_progress = {} /\ finished = <<>> /\ ~err_throw
    /\ stage \in {"direct", "direct2", "monorepo", "run"} => answers = <<>>

\* Every task_repo waits, runs or has run, each once.
Balance ==
    stage = "run" \/ finished # <<>> =>
        /\ Len(queue) + InHand + Len(finished) = Total
        /\ Todo \subseteq Range(queue) \cup in_progress \cup Done
        /\ err_throw <=> \E i \in DOMAIN finished : ~finished[i].ok

\* An answer after a run comes when none is left, and says what is remembered.
Told ==
    stage = "answered" /\ finished # <<>> =>
        /\ queue = <<>> /\ in_progress = {}
        /\ answers = <<IF err_throw THEN "err" ELSE "ok">>

IInv == Domains /\ Locked /\ Quiet /\ Balance /\ Told

-----------------------------------------------------------------------------

LEMMA ToSetRange == ASSUME NEW s PROVE ToSet(s) = Range(s)
  BY DEF ToSet, Range

LEMMA TaskRepoSeq ==
    ASSUME NEW o \in Orders
    PROVE  TaskRepo(o.command) \in Seq(Range(TaskRepo(o.command)))
<1> DEFINE n == Len(ClTaskList(o.command)) * Len(Repos)
           tr(i) == <<ClTaskList(o.command)[((i - 1) \div Len(Repos)) + 1],
                      Repos[((i - 1) % Len(Repos)) + 1]>>
           s == [i \in 1..n |-> tr(i)]
<1>1. n \in Nat
  BY GraphAssumption
<1>2. TaskRepo(o.command) = s
  BY DEF TaskRepo
<1> HIDE DEF n, tr
<1>3. s \in [1..n -> Range(s)]
  BY DEF Range
<1> HIDE DEF s
<1>4. s \in Seq(Range(s))
  BY <1>1, <1>3
<1> QED BY <1>2, <1>4

LEMMA InitIInv == Init => IInv
<1> SUFFICES ASSUME Init PROVE IInv
  OBVIOUS
<1>1. order \in Orders /\ stage = "direct" /\ queue = <<>> /\ in_progress = {}
      /\ finished = <<>> /\ err_throw = FALSE /\ answers = <<>>
  BY DEF Init
<1>2. Domains
  <2>1. /\ <<>> \in Seq(Todo) /\ <<>> \in Seq([task : Todo, ok : BOOLEAN])
        /\ <<>> \in Seq({"ok", "err"})
    OBVIOUS
  <2> QED BY <1>1, <2>1 DEF Domains, Final
<1>3. Locked /\ Quiet /\ Balance /\ Told
  BY <1>1 DEF Locked, Quiet, Balance, Told
<1> QED BY <1>2, <1>3 DEF IInv

\* The list topo_sort returns names every task_repo, each once.
LEMMA SequencedAll ==
    ASSUME order \in Orders, order.monorepo, Sorting(order.command).thrown = "no"
    PROVE  /\ Sequenced(order.command) \in Seq(Todo) /\ Len(Sequenced(order.command)) = Total
           /\ Todo \subseteq Range(Sequenced(order.command))
<1> DEFINE sorted == Sorting(order.command).list
           todo == TaskRepo(order.command)
           s == Sequenced(order.command)
           n == Len(todo)
<1>1. todo \in Seq(Range(todo)) /\ n \in Nat /\ DOMAIN todo = 1..n
  <2>1. todo \in Seq(Range(todo))
    BY TaskRepoSeq
  <2> HIDE DEF todo
  <2> QED BY <2>1
<1>2. sorted \in [1..n -> 1..n] /\ 1..n \subseteq ToSet(sorted)
  BY GraphAssumption
<1>3. s = [k \in DOMAIN sorted |-> todo[sorted[k]]]
  BY DEF Sequenced
<1> HIDE DEF sorted, todo, s
<1>4. s = [k \in 1..n |-> todo[sorted[k]]]
  BY <1>2, <1>3
<1>5. s \in [1..n -> Range(todo)]
  BY <1>1, <1>2, <1>4
<1>6. s \in Seq(Range(todo)) /\ Len(s) = n
  BY <1>1, <1>5
<1>7. Range(todo) \subseteq Range(s)
  <2> SUFFICES ASSUME NEW i \in 1..n PROVE \E k \in 1..n : s[k] = todo[i]
    BY <1>1, <1>5 DEF Range
  <2>1. PICK k \in 1..n : sorted[k] = i
    BY <1>2 DEF ToSet
  <2> QED BY <1>4, <2>1
<1> QED BY <1>6, <1>7 DEF s, todo, Todo, Total

LEMMA AnswerStep ==
    ASSUME Domains, answers = <<>>, NEW a \in {"ok", "err"}, Answer(a)
    PROVE  answers' = <<a>> /\ stage' = "answered" /\ answers' \in Seq({"ok", "err"})
BY DEF Domains, Answer

\* Until the graph is there.
LEMMA BeforeStep ==
    ASSUME IInv, Direct \/ Direct2 \/ MultiTaskStart
    PROVE  IInv'
<1>1. /\ stage \in {"direct", "direct2", "monorepo"} /\ order \in Orders
      /\ queue = <<>> /\ in_progress = {} /\ finished = <<>> /\ err_throw = FALSE /\ answers = <<>>
  BY DEF IInv, Domains, Quiet, Direct, Direct2, MultiTaskStart
<1>2. UNCHANGED <<order, in_progress, finished, err_throw>>
  BY DEF Direct, Direct2, MultiTaskStart
<1>3. CASE UNCHANGED queue /\ stage' \in {"direct2", "monorepo", "exited", "crashed", "silent"} /\ UNCHANGED answers
  BY <1>1, <1>2, <1>3 DEF IInv, Domains, Locked, Quiet, Balance, Told, Final, Todo
<1>4. CASE UNCHANGED queue /\ \E a \in {"ok", "err"} : Answer(a)
  <2>1. PICK a \in {"ok", "err"} : answers' = <<a>> /\ stage' = "answered"
    BY <1>1, <1>4, AnswerStep DEF IInv
  <2>2. answers' \in Seq({"ok", "err"})
    BY <2>1
  <2>3. Domains'
    <3>1. /\ queue \in Seq(Todo) /\ finished \in Seq([task : Todo, ok : BOOLEAN]) /\ Todo' = Todo
      BY <1>2 DEF IInv, Domains, Todo
    <3> QED BY <1>1, <1>2, <1>4, <2>1, <2>2, <3>1 DEF Domains, Final
  <2>4. Locked' /\ Quiet' /\ Balance' /\ Told'
    BY <1>1, <1>2, <2>1 DEF Locked, Quiet, Balance, Told
  <2> QED BY <2>3, <2>4 DEF IInv
<1>5. CASE /\ stage' = "run" /\ queue' = Sequenced(order.command) /\ UNCHANGED answers
           /\ order.monorepo /\ Sorting(order.command).thrown = "no"
  <2>1. /\ queue' \in Seq(Todo) /\ Len(queue') = Total /\ Todo \subseteq Range(queue')
    BY <1>1, <1>5, SequencedAll
  <2>2. Todo' = Todo /\ Total' = Total
    BY <1>2 DEF Todo, Total
  <2>3. Domains'
    <3>1. /\ answers \in Seq({"ok", "err"}) /\ finished \in Seq([task : Todo, ok : BOOLEAN])
      BY DEF IInv, Domains
    <3> QED BY <1>1, <1>2, <1>5, <2>1, <2>2, <3>1 DEF Domains
  <2>4. Locked' /\ Quiet' /\ Told'
    BY <1>1, <1>2, <1>5 DEF Locked, Quiet, Told
  <2>5. Balance'
    <3>1. Len(queue') + 0 + 0 = Total
      <4>1. Len(queue') \in Nat
        BY <2>1
      <4> QED BY <2>1, <4>1
    <3>2. InHand' = 0 /\ Len(finished') = 0
      BY <1>1, <1>2 DEF InHand
    <3>3. err_throw' <=> \E i \in DOMAIN finished' : ~finished'[i].ok
      BY <1>1, <1>2
    <3> QED BY <2>1, <2>2, <3>1, <3>2, <3>3 DEF Balance
  <2> QED BY <2>3, <2>4, <2>5 DEF IInv
<1>6. CASE Direct
  BY <1>3, <1>4, <1>6 DEF Direct
<1>7. CASE Direct2
  BY <1>3, <1>7 DEF Direct2
<1>8. CASE MultiTaskStart
  BY <1>3, <1>4, <1>5, <1>8 DEF MultiTaskStart
<1> QED BY <1>6, <1>7, <1>8

LEMMA TaskBeginStep == ASSUME IInv, TaskBegin PROVE IInv'
<1>1. /\ stage = "run" /\ queue # <<>> /\ in_progress = {}
      /\ in_progress' = {Head(queue)} /\ queue' = Tail(queue)
      /\ UNCHANGED <<order, stage, finished, err_throw, answers>>
  BY DEF TaskBegin
<1>2. Todo' = Todo /\ Total' = Total /\ Done' = Done
  BY <1>1 DEF Todo, Total, Done
<1>3. queue \in Seq(Todo) /\ Head(queue) \in Todo /\ Tail(queue) \in Seq(Todo)
      /\ Len(Tail(queue)) = Len(queue) - 1 /\ Len(queue) \in Nat
  BY <1>1 DEF IInv, Domains
<1>4. Range(queue) \subseteq Range(Tail(queue)) \cup {Head(queue)}
  <2> SUFFICES ASSUME NEW x \in Range(queue) PROVE x \in Range(Tail(queue)) \cup {Head(queue)}
    OBVIOUS
  <2>0. PICK i \in 1..Len(queue) : x = queue[i]
    BY <1>3, RangeEquality
  <2>1. CASE i = 1
    BY <1>3, <2>0, <2>1
  <2>2. CASE i > 1
    <3>1. i - 1 \in 1..Len(Tail(queue))
      BY <1>3, <2>2
    <3>2. Tail(queue)[i - 1] = queue[i]
      BY <1>1, <1>3, <2>2, <3>1
    <3>3. Tail(queue)[i - 1] \in Range(Tail(queue))
      BY <1>3, <3>1, RangeEquality
    <3> QED BY <2>0, <3>2, <3>3
  <2>3. i = 1 \/ i > 1
    BY <1>3
  <2> QED BY <2>1, <2>2, <2>3
<1>5. Domains'
  BY <1>1, <1>2, <1>3 DEF IInv, Domains
<1>6. Locked' /\ Quiet' /\ Told'
  BY <1>1 DEF IInv, Locked, Quiet, Told
<1>7. Balance'
  <2>1. Len(queue') + InHand' + Len(finished') = Total'
    <3>1. Len(finished) \in Nat /\ Len(queue) + 0 + Len(finished) = Total
      BY <1>1 DEF IInv, Domains, Balance, InHand
    <3>2. InHand' = 1
      BY <1>1 DEF InHand
    <3> QED BY <1>1, <1>2, <1>3, <3>1, <3>2
  <2>2. Todo' \subseteq Range(queue') \cup in_progress' \cup Done'
    BY <1>1, <1>2, <1>4 DEF IInv, Balance
  <2> QED BY <1>1, <2>1, <2>2 DEF IInv, Balance
<1> QED BY <1>5, <1>6, <1>7 DEF IInv

\* The process ends while a task runs: nothing is told any more.
LEMMA TaskLostStep == ASSUME IInv, TaskEnd, stage' # stage PROVE IInv'
<1>1. /\ stage = "run" /\ stage' \in {"crashed", "exited"}
      /\ UNCHANGED <<order, queue, in_progress, finished, err_throw, answers>>
  BY DEF TaskEnd
<1>2. Todo' = Todo /\ Total' = Total /\ InHand' = InHand /\ Done' = Done
  BY <1>1 DEF Todo, Total, InHand, Done
<1>3. Domains'
  BY <1>1, <1>2 DEF IInv, Domains, Final
<1>4. Balance'
  BY <1>1, <1>2 DEF IInv, Balance
<1>5. Locked' /\ Quiet' /\ Told'
  BY <1>1 DEF IInv, Locked, Quiet, Told
<1> QED BY <1>3, <1>4, <1>5 DEF IInv

LEMMA TaskEndStep == ASSUME IInv, TaskEnd, UNCHANGED stage PROVE IInv'
<1>1. /\ stage = "run" /\ UNCHANGED <<order, stage, queue, answers>>
  BY DEF TaskEnd
<1>2. PICK tr \in in_progress, ok \in BOOLEAN :
         /\ in_progress' = in_progress \ {tr}
         /\ finished' = Append(finished, [task |-> tr, ok |-> ok])
         /\ err_throw' = (err_throw \/ ~ok)
  BY DEF TaskEnd
<1> DEFINE e == [task |-> tr, ok |-> ok]
<1>3. Todo' = Todo /\ Total' = Total
  BY <1>1 DEF Todo, Total
<1>4. in_progress = {tr} /\ in_progress' = {} /\ tr \in Todo
  BY <1>2 DEF IInv, Locked, Domains
<1>5. e \in [task : Todo, ok : BOOLEAN] /\ e.task = tr /\ e.ok = ok
  BY <1>2, <1>4
<1>6. finished \in Seq([task : Todo, ok : BOOLEAN])
  BY DEF IInv, Domains
<1>7. finished' = Append(finished, e)
  BY <1>2
<1> HIDE DEF e
<1>8. /\ finished' \in Seq([task : Todo, ok : BOOLEAN]) /\ finished' # <<>>
      /\ Len(finished') = Len(finished) + 1 /\ Len(finished) \in Nat
      /\ DOMAIN finished' = 1..(Len(finished) + 1) /\ DOMAIN finished = 1..Len(finished)
      /\ \A i \in DOMAIN finished : finished'[i] = finished[i]
      /\ finished'[Len(finished) + 1] = e
  BY <1>5, <1>6, <1>7
<1>9. Done \cup {tr} \subseteq Done'
  BY <1>5, <1>8 DEF Done
<1>10. Domains'
  BY <1>1, <1>2, <1>3, <1>4, <1>8 DEF IInv, Domains
<1>11. Locked' /\ Quiet' /\ Told'
  BY <1>1, <1>4 DEF IInv, Locked, Quiet, Told
<1>12. Balance'
  <2>0. Balance /\ Len(queue) \in Nat
    BY DEF IInv, Domains
  <2>1. Len(queue') + InHand' + Len(finished') = Total'
    <3>1. Len(queue) + 1 + Len(finished) = Total
      BY <1>1, <1>4, <2>0 DEF Balance, InHand
    <3>2. InHand' = 0
      BY <1>4 DEF InHand
    <3> QED BY <1>1, <1>3, <1>8, <2>0, <3>1, <3>2
  <2>2. Todo' \subseteq Range(queue') \cup in_progress' \cup Done'
    BY <1>1, <1>3, <1>4, <1>9, <2>0 DEF Balance
  <2>3. err_throw' <=> \E i \in DOMAIN finished' : ~finished'[i].ok
    <3>1. err_throw <=> \E i \in DOMAIN finished : ~finished[i].ok
      BY <1>1, <2>0 DEF Balance
    <3>2. CASE ok
      <4>1. (\E i \in DOMAIN finished' : ~finished'[i].ok) <=> \E i \in DOMAIN finished : ~finished[i].ok
        <5>1. finished'[Len(finished) + 1].ok
          BY <1>5, <1>8, <3>2
        <5>2. DOMAIN finished' = DOMAIN finished \cup {Len(finished) + 1}
          BY <1>8
        <5> QED BY <1>8, <5>1, <5>2
      <4> QED BY <1>2, <3>1, <3>2, <4>1
    <3>3. CASE ~ok
      <4>1. \E i \in DOMAIN finished' : ~finished'[i].ok
        BY <1>5, <1>8, <3>3
      <4> QED BY <1>2, <3>3, <4>1
    <3> QED BY <3>2, <3>3
  <2> QED BY <2>1, <2>2, <2>3 DEF Balance
<1> QED BY <1>10, <1>11, <1>12 DEF IInv

LEMMA AllDoneStep == ASSUME IInv, AllDone PROVE IInv'
<1>1. /\ stage = "run" /\ queue = <<>> /\ in_progress = {} /\ answers = <<>>
      /\ UNCHANGED <<order, queue, in_progress, finished, err_throw>>
  BY DEF AllDone, IInv, Quiet
<1>2. answers' = <<IF err_throw THEN "err" ELSE "ok">> /\ stage' = "answered"
  BY <1>1, AnswerStep DEF AllDone, IInv
<1>3. answers' \in Seq({"ok", "err"})
  BY <1>2
<1>4. Domains'
  BY <1>1, <1>2, <1>3 DEF IInv, Domains, Final, Todo
<1>5. Locked' /\ Quiet' /\ Told'
  BY <1>1, <1>2 DEF IInv, Locked, Quiet, Told
<1>6. Balance'
  BY <1>1, <1>2 DEF IInv, Balance, InHand, Total, Todo, Done
<1> QED BY <1>4, <1>5, <1>6 DEF IInv

LEMMA IInvStep == IInv /\ [Next]_vars => IInv'
<1> SUFFICES ASSUME IInv, [Next]_vars PROVE IInv'
  OBVIOUS
<1>1. CASE UNCHANGED vars
  BY <1>1 DEF vars, IInv, Domains, Locked, Quiet, Balance, Told, InHand, Total, Todo, Done
<1> QED BY <1>1, BeforeStep, TaskBeginStep, TaskLostStep, TaskEndStep, AllDoneStep DEF Next, Step, Over

LEMMA Invariance == Spec => []IInv
BY InitIInv, IInvStep, PTL DEF Spec

-----------------------------------------------------------------------------

(* task.coffee 128-233: what waits and what runs are tasks of the graph.   *)
THEOREM TaskTypes == Spec => []TypeOK
<1>1. IInv => TypeOK
  <2> SUFFICES ASSUME IInv PROVE TypeOK
    OBVIOUS
  <2>1. ToSet(queue) \subseteq Todo /\ Todo = ToSet(TaskRepo(order.command))
    BY ToSetRange DEF IInv, Domains, Todo, ToSet
  <2> QED BY <2>1 DEF IInv, Domains, TypeOK
<1> QED BY <1>1, Invariance, PTL

(* task.coffee 197-233: the answer of a run comes after every repository   *)
(* was built once and is an error exactly when one of them failed.         *)
THEOREM AnswerIsTrue == Spec => []AnswerTells
<1>1. IInv => AnswerTells
  <2> SUFFICES ASSUME IInv, stage = "answered", finished # <<>>
               PROVE  /\ Len(finished) = Len(TaskRepo(order.command))
                      /\ {finished[i].task : i \in DOMAIN finished} = ToSet(TaskRepo(order.command))
                      /\ answers = <<IF \E i \in DOMAIN finished : ~finished[i].ok THEN "err" ELSE "ok">>
    BY DEF AnswerTells
  <2>1. /\ queue = <<>> /\ in_progress = {}
        /\ answers = <<IF err_throw THEN "err" ELSE "ok">>
        /\ Len(queue) + InHand + Len(finished) = Total
        /\ Todo \subseteq Range(queue) \cup in_progress \cup Done
        /\ err_throw <=> \E i \in DOMAIN finished : ~finished[i].ok
    BY DEF IInv, Told, Balance
  <2>2. Len(finished) \in Nat /\ Done \subseteq Todo
    <3>1. finished \in Seq([task : Todo, ok : BOOLEAN])
      BY DEF IInv, Domains
    <3> DEFINE S == [task : Todo, ok : BOOLEAN]
    <3>2. \A i \in DOMAIN finished : finished[i] \in S
      <4>1. finished \in Seq(S)
        BY <3>1
      <4> HIDE DEF S
      <4> QED BY <4>1
    <3> QED BY <3>1, <3>2 DEF Done
  <2>3. Len(finished) = Total
    BY <2>1, <2>2 DEF InHand
  <2>4. Done = Todo
    <3>1. Range(<<>>) = {}
      BY DEF Range
    <3> QED BY <2>1, <2>2, <3>1
  <2> QED BY <2>1, <2>3, <2>4, ToSetRange DEF Total, Done, Todo
<1> QED BY <1>1, Invariance, PTL

-----------------------------------------------------------------------------
(* topo_sort.  The calls of a walk are a path in the graph.  In the cycle  *)
(* check a link to a node of the path closes a cycle; what was left has    *)
(* links to what was left only, and no cycle.  In the second walk the      *)
(* depths given so far are those of complete nodes.                        *)

\* The nodes whose call is active, and those of the cycle check whose call has returned.
Active == {calls[k].node : k \in 1..Len(calls)}
Black  == visited_list \ in_recursion_list

Walks  == {"cycle", "depth"}
Layers == {"strict", "sort", "sorted", "orphaned", "unordered"}
Frame  == [node : List, pos : Nat \ {0}, req_depth : Nat]

Walking ==
    /\ at \in {"idle", "cyclic"} \cup Walks \cup Layers
    /\ at = "idle" => /\ visited_list = {} /\ in_recursion_list = {} /\ calls = <<>>
                      /\ topo_depth = <<>>
    /\ at # "idle" =>
        /\ graph \in Graphs /\ index \in Nat \ {0} /\ calls \in Seq(Frame)
        /\ visited_list \subseteq List /\ Active \subseteq visited_list
        /\ DOMAIN topo_depth \subseteq List /\ \A i \in DOMAIN topo_depth : topo_depth[i] \in Nat
    /\ at \in Walks => \A i \in List : i < index => i \in visited_list

\* Every call but the first is that of the link at which the loop of its caller stands, and
\* no node has two calls.
Chained ==
    /\ \A k \in 1..(Len(calls) - 1) :
        /\ calls[k].pos <= Len(LinkList(calls[k].node))
        /\ calls[k + 1].node = LinkList(calls[k].node)[calls[k].pos]
    /\ \A k \in 1..Len(calls) : calls[k].pos <= Len(LinkList(calls[k].node)) + 1
    /\ \A k, m \in 1..Len(calls) : calls[k].node = calls[m].node => k = m

\* Every node of s has a link in s.
Looping(s) == s # {} /\ \A i \in s : \E j \in s : Contains(LinkList(i), j)

\* The check so far: links that were passed, and the links of nodes that were left, lead to
\* nodes that were left, and among these there is no cycle.
Checked ==
    at = "cycle" =>
        /\ in_recursion_list = Active /\ topo_depth = <<>>
        /\ \A k \in 1..Len(calls) : \A q \in 1..(calls[k].pos - 1) :
                LinkList(calls[k].node)[q] \in Black
        /\ \A i \in Black : \A q \in 1..Len(LinkList(i)) : LinkList(i)[q] \in Black
        /\ \A s \in SUBSET Black : ~Looping(s)

\* The depth d is one more than the largest of the links of i before p, if there is any.
Above(link, depth, i, p, d) ==
    /\ \A q \in 1..(p - 1) : link[i][q] \in DOMAIN depth /\ depth[link[i][q]] < d
    /\ d > 0 => \E q \in 1..(p - 1) : depth[link[i][q]] + 1 = d

Deep ==
    /\ at = "depth" =>
        /\ visited_list = DOMAIN topo_depth \cup Active
        /\ DOMAIN topo_depth \cap Active = {}
        /\ \A k \in 1..Len(calls) :
                Above(graph.link, topo_depth, calls[k].node, calls[k].pos, calls[k].req_depth)
    /\ at \in {"depth"} \cup Layers =>
        \A i \in DOMAIN topo_depth :
            Above(graph.link, topo_depth, i, Len(LinkList(i)) + 1, topo_depth[i])
    /\ at \in Layers => DOMAIN topo_depth = List

Listed ==
    /\ at \in {"sort", "sorted"} /\ graph.strict => ~Grouped
    /\ at = "sorted" => list \in [List -> List] /\ SortedBy(list, topo_depth)

TopoInv == Walking /\ Chained /\ Checked /\ CycleFound /\ Deep /\ Listed

LEMMA GraphIs ==
    ASSUME graph \in Graphs
    PROVE  /\ graph.n \in Nat \ {0} /\ List = 1..graph.n
           /\ \A i \in List : LinkList(i) \in Seq(List)
           /\ graph.strict \in BOOLEAN
BY GraphsAssumption DEF List, LinkList

LEMMA CyclicIs == Cyclic(graph.n, graph.link) <=> \E s \in SUBSET List : Looping(s)
BY DEF Cyclic, Looping, List, LinkList

\* The link at which the loop of the last call stands is a node of the list.
LEMMA LinkHereIs ==
    ASSUME graph \in Graphs, calls \in Seq(Frame), MoreLinks
    PROVE  /\ calls # <<>> /\ This = calls[Len(calls)] /\ This \in Frame /\ Len(calls) \in Nat \ {0}
           /\ This.pos \in 1..Len(LinkList(This.node)) /\ LinkHere \in List
<1>1. calls # <<>> /\ This = calls[Len(calls)]
  BY DEF MoreLinks, This, Last
<1>2. Len(calls) \in Nat \ {0} /\ This \in Frame
  <2> HIDE DEF Frame
  <2> QED BY <1>1
<1>3. This.node \in List /\ This.pos \in Nat \ {0} /\ This.pos <= Len(LinkList(This.node))
  BY <1>2 DEF Frame, MoreLinks
<1>4. LinkList(This.node) \in Seq(List)
  BY <1>3, GraphIs
<1>5. This.pos \in 1..Len(LinkList(This.node))
  BY <1>3, <1>4
<1>6. LinkHere \in List
  BY <1>4, <1>5 DEF LinkHere
<1> QED BY <1>1, <1>2, <1>5, <1>6

LEMMA ThisIs ==
    ASSUME calls \in Seq(Frame), calls # <<>>
    PROVE  /\ This = calls[Len(calls)] /\ This \in Frame /\ Len(calls) \in Nat \ {0}
           /\ Front(calls) \in Seq(Frame) /\ Len(Front(calls)) = Len(calls) - 1
           /\ \A k \in 1..(Len(calls) - 1) : Front(calls)[k] = calls[k]
<1> HIDE DEF Frame
<1>1. Len(calls) \in Nat \ {0} /\ This = calls[Len(calls)] /\ This \in Frame
  BY DEF This, Last
<1>2. Front(calls) \in Seq(Frame) /\ Len(Front(calls)) = Len(calls) - 1
      /\ \A k \in 1..(Len(calls) - 1) : Front(calls)[k] = calls[k]
  <2> DEFINE l == Len(calls) - 1
             f == SubSeq(calls, 1, l)
  <2>1. l \in Nat /\ l < Len(calls) /\ \A k \in 1..l : calls[k] \in Frame
    BY <1>1
  <2> HIDE DEF l
  <2>2. /\ f \in Seq(Frame) /\ Len(f) = IF 1 <= l THEN l - 1 + 1 ELSE 0
        /\ \A k \in 1..(l - 1 + 1) : f[k] = calls[1 + k - 1]
    BY <2>1, SubSeqProperties
  <2> HIDE DEF f
  <2>3. /\ f \in Seq(Frame) /\ Len(f) = l /\ \A k \in 1..l : f[k] = calls[k]
    BY <2>1, <2>2
  <2> QED BY <2>3 DEF Front, f, l
<1> QED BY <1>1, <1>2

LEMMA CallIs == ASSUME NEW i \in List PROVE Call(i) \in Frame
  BY DEF Call, Frame

\* A new call.
LEMMA Pushed ==
    ASSUME calls \in Seq(Frame), NEW i \in List, calls' = Append(calls, Call(i))
    PROVE  /\ calls' \in Seq(Frame) /\ Len(calls') = Len(calls) + 1 /\ Len(calls) \in Nat
           /\ \A k \in 1..Len(calls) : calls'[k] = calls[k]
           /\ calls'[Len(calls) + 1] = Call(i)
           /\ Active' = Active \cup {i}
<1>1. Call(i) \in Frame
  BY CallIs
<1>2. /\ calls' \in Seq(Frame) /\ Len(calls') = Len(calls) + 1 /\ Len(calls) \in Nat
      /\ \A k \in 1..Len(calls) : calls'[k] = calls[k]
      /\ calls'[Len(calls) + 1] = Call(i)
  <2> HIDE DEF Frame
  <2> QED BY <1>1
<1>3. Active' = {calls'[k].node : k \in 1..Len(calls')}
  BY DEF Active
<1>4. \A x : x \in Active' <=> x \in Active \cup {i}
  BY <1>2, <1>3 DEF Active, Call
<1> QED BY <1>2, <1>4

\* The loop of the last call goes on.
LEMMA Passed ==
    ASSUME calls \in Seq(Frame), calls # <<>>, NEW r \in Nat, NextLink(r)
    PROVE  /\ calls' \in Seq(Frame) /\ Len(calls') = Len(calls)
           /\ \A k \in 1..(Len(calls) - 1) : calls'[k] = calls[k]
           /\ \A k \in 1..Len(calls) : calls'[k].node = calls[k].node
           /\ calls'[Len(calls)].pos = This.pos + 1 /\ calls'[Len(calls)].req_depth = r
           /\ Active' = Active
<1> DEFINE x == [node |-> This.node, pos |-> This.pos + 1, req_depth |-> r]
<1>1. This \in Frame /\ This = calls[Len(calls)] /\ Front(calls) \in Seq(Frame)
      /\ Len(calls) \in Nat \ {0} /\ Len(Front(calls)) = Len(calls) - 1
      /\ \A k \in 1..(Len(calls) - 1) : Front(calls)[k] = calls[k]
  BY ThisIs
<1>2. x \in Frame /\ x.node = This.node /\ x.pos = This.pos + 1 /\ x.req_depth = r
  BY <1>1 DEF Frame
<1>3. calls' = Append(Front(calls), x)
  BY DEF NextLink
<1> HIDE DEF x
<1>4. calls' \in Seq(Frame) /\ Len(calls') = Len(calls) /\ calls'[Len(calls)] = x
      /\ \A k \in 1..(Len(calls) - 1) : calls'[k] = calls[k]
  <2> HIDE DEF Frame
  <2> QED BY <1>1, <1>2, <1>3
<1>5. \A k \in 1..Len(calls) : calls'[k].node = calls[k].node
  <2> TAKE k \in 1..Len(calls)
  <2>1. k \in 1..(Len(calls) - 1) \/ k = Len(calls)
    BY <1>1
  <2> QED BY <2>1, <1>1, <1>2, <1>4
<1>6. Active' = {calls'[k].node : k \in 1..Len(calls')}
  BY DEF Active
<1>7. Active' = Active
  BY <1>4, <1>5, <1>6 DEF Active
<1> QED BY <1>2, <1>4, <1>5, <1>7

\* The last call returns.
LEMMA Popped ==
    ASSUME calls \in Seq(Frame), calls # <<>>, Chained, calls' = Front(calls)
    PROVE  /\ calls' \in Seq(Frame) /\ Len(calls') = Len(calls) - 1 /\ Len(calls) \in Nat \ {0}
           /\ \A k \in 1..(Len(calls) - 1) : calls'[k] = calls[k]
           /\ Active' = Active \ {This.node} /\ This.node \in Active
<1>1. This = calls[Len(calls)] /\ Front(calls) \in Seq(Frame)
      /\ Len(calls) \in Nat \ {0} /\ Len(Front(calls)) = Len(calls) - 1
      /\ \A k \in 1..(Len(calls) - 1) : Front(calls)[k] = calls[k]
  BY ThisIs
<1>2. Active' = {calls'[k].node : k \in 1..Len(calls')}
  BY DEF Active
<1>3. ASSUME NEW x PROVE x \in Active' <=> x \in Active \ {This.node}
  <2>1. ASSUME x \in Active' PROVE x \in Active \ {This.node}
    <3>1. PICK k \in 1..(Len(calls) - 1) : calls[k].node = x
      BY <1>1, <1>2, <2>1
    <3>2. k \in 1..Len(calls) /\ k # Len(calls) /\ Len(calls) \in 1..Len(calls)
      BY <1>1
    <3>3. calls[k].node # calls[Len(calls)].node
      BY <3>2 DEF Chained
    <3> QED BY <1>1, <3>1, <3>2, <3>3 DEF Active
  <2>2. ASSUME x \in Active, x # This.node PROVE x \in Active'
    <3>1. PICK k \in 1..Len(calls) : calls[k].node = x
      BY <2>2 DEF Active
    <3>2. k \in 1..(Len(calls) - 1)
      BY <1>1, <2>2, <3>1
    <3>3. k \in 1..Len(calls') /\ calls'[k].node = x
      BY <1>1, <3>1, <3>2
    <3> QED BY <1>2, <3>3
  <2> QED BY <2>1, <2>2
<1>4. This.node \in Active
  BY <1>1 DEF Active
<1> QED BY <1>1, <1>3, <1>4

LEMMA ChainPushed ==
    ASSUME graph \in Graphs, calls \in Seq(Frame), Chained, NEW i \in List, i \notin Active,
           calls = <<>> \/ (MoreLinks /\ i = LinkHere),
           calls' = Append(calls, Call(i)), graph' = graph
    PROVE  Chained'
<1>1. /\ Len(calls') = Len(calls) + 1 /\ Len(calls) \in Nat
      /\ \A k \in 1..Len(calls) : calls'[k] = calls[k]
      /\ calls'[Len(calls) + 1] = Call(i) /\ Call(i).node = i
  BY Pushed DEF Call
<1>2. ASSUME NEW k \in 1..(Len(calls') - 1)
      PROVE  /\ calls'[k].pos <= Len(LinkList(calls'[k].node))
             /\ calls'[k + 1].node = LinkList(calls'[k].node)[calls'[k].pos]
  <2>1. k \in 1..Len(calls) /\ calls'[k] = calls[k]
    BY <1>1
  <2>2. CASE k = Len(calls)
    <3>1. calls # <<>>
      BY <2>1
    <3>2. MoreLinks /\ i = LinkHere /\ This = calls[k]
      BY <2>2, <3>1, LinkHereIs
    <3>3. calls[k].pos <= Len(LinkList(calls[k].node)) /\ i = LinkList(calls[k].node)[calls[k].pos]
      BY <3>2 DEF MoreLinks, LinkHere
    <3> QED BY <1>1, <2>1, <2>2, <3>3
  <2>3. CASE k # Len(calls)
    <3>1. k \in 1..(Len(calls) - 1) /\ k + 1 \in 1..Len(calls)
      BY <1>1, <2>1, <2>3
    <3> QED BY <1>1, <2>1, <3>1 DEF Chained
  <2> QED BY <2>2, <2>3
<1>3. ASSUME NEW k \in 1..Len(calls'), NEW m \in 1..Len(calls'), calls'[k].node = calls'[m].node
      PROVE  k = m
  <2>1. \A p \in 1..Len(calls) : calls'[p].node # i
    BY <1>1 DEF Active
  <2>2. \A p \in 1..Len(calls') : p \in 1..Len(calls) \/ p = Len(calls) + 1
    BY <1>1
  <2> QED BY <1>1, <1>3, <2>1, <2>2 DEF Chained
<1>4. ASSUME NEW k \in 1..Len(calls') PROVE calls'[k].pos <= Len(LinkList(calls'[k].node)) + 1
  <2>1. CASE k \in 1..Len(calls)
    BY <1>1, <2>1 DEF Chained
  <2>2. CASE k = Len(calls) + 1
    <3>1. Len(LinkList(i)) \in Nat
      BY GraphIs
    <3> QED BY <1>1, <2>2, <3>1 DEF Call
  <2> QED BY <1>1, <2>1, <2>2
<1> QED BY <1>2, <1>3, <1>4 DEF Chained, LinkList

LEMMA ChainPassed ==
    ASSUME graph \in Graphs, calls \in Seq(Frame), MoreLinks, Chained, NEW r \in Nat, NextLink(r),
           graph' = graph
    PROVE  Chained'
<1>1. /\ This = calls[Len(calls)] /\ Len(calls) \in Nat \ {0}
      /\ This.pos \in 1..Len(LinkList(This.node)) /\ This.node \in List
  BY LinkHereIs DEF Frame
<1>2. /\ Len(calls') = Len(calls) /\ calls'[Len(calls)].pos = This.pos + 1
      /\ \A k \in 1..(Len(calls) - 1) : calls'[k] = calls[k]
      /\ \A k \in 1..Len(calls) : calls'[k].node = calls[k].node
  BY Passed, LinkHereIs
<1>3. \A k \in 1..(Len(calls) - 1) : k \in 1..Len(calls) /\ k + 1 \in 1..Len(calls)
  BY <1>1
<1>4. ASSUME NEW k \in 1..Len(calls') PROVE calls'[k].pos <= Len(LinkList(calls'[k].node)) + 1
  <2>1. CASE k = Len(calls)
    <3>1. Len(LinkList(This.node)) \in Nat
      BY <1>1, GraphIs
    <3> QED BY <1>1, <1>2, <2>1, <3>1
  <2>2. CASE k # Len(calls)
    <3>1. k \in 1..(Len(calls) - 1) /\ k \in 1..Len(calls)
      BY <1>1, <1>2, <2>2
    <3> QED BY <1>2, <3>1 DEF Chained
  <2> QED BY <2>1, <2>2
<1>5. \A k \in 1..(Len(calls') - 1) :
        /\ calls'[k].pos <= Len(LinkList(calls'[k].node))
        /\ calls'[k + 1].node = LinkList(calls'[k].node)[calls'[k].pos]
  BY <1>2, <1>3 DEF Chained
<1>6. \A k, m \in 1..Len(calls') : calls'[k].node = calls'[m].node => k = m
  BY <1>2 DEF Chained
<1> QED BY <1>4, <1>5, <1>6 DEF Chained, LinkList

LEMMA ChainPopped ==
    ASSUME calls \in Seq(Frame), calls # <<>>, Chained, calls' = Front(calls), graph' = graph
    PROVE  Chained'
<1>1. /\ Len(calls') = Len(calls) - 1 /\ Len(calls) \in Nat \ {0}
      /\ \A k \in 1..(Len(calls) - 1) : calls'[k] = calls[k]
  BY Popped
<1>2. \A k \in 1..(Len(calls') - 1) : k \in 1..(Len(calls) - 1) /\ k + 1 \in 1..(Len(calls) - 1)
  BY <1>1
<1>3. \A k \in 1..Len(calls') : k \in 1..(Len(calls) - 1) /\ k \in 1..Len(calls)
  BY <1>1
<1>4. \A k \in 1..Len(calls') : calls'[k].pos <= Len(LinkList(calls'[k].node)) + 1
  BY <1>1, <1>3 DEF Chained
<1>5. \A k \in 1..(Len(calls') - 1) :
        /\ calls'[k].pos <= Len(LinkList(calls'[k].node))
        /\ calls'[k + 1].node = LinkList(calls'[k].node)[calls'[k].pos]
  BY <1>1, <1>2 DEF Chained
<1>6. \A k, m \in 1..Len(calls') : calls'[k].node = calls'[m].node => k = m
  BY <1>1, <1>3 DEF Chained
<1> QED BY <1>4, <1>5, <1>6 DEF Chained, LinkList

\* A link to a node whose call is active closes a cycle: the calls from that one on.
LEMMA CycleOfCalls ==
    ASSUME graph \in Graphs, calls \in Seq(Frame), Active \subseteq List, Chained,
           MoreLinks, LinkHere \in Active
    PROVE  Cyclic(graph.n, graph.link)
<1>1. /\ This = calls[Len(calls)] /\ Len(calls) \in Nat \ {0}
      /\ This.pos \in 1..Len(LinkList(This.node))
  BY LinkHereIs
<1>2. PICK m \in 1..Len(calls) : calls[m].node = LinkHere
  BY DEF Active
<1> DEFINE s == {calls[k].node : k \in m..Len(calls)}
<1>3. \A k \in m..Len(calls) : k \in 1..Len(calls)
  BY <1>1, <1>2
<1>4. s \subseteq List /\ s # {}
  <2>1. calls[m].node \in s
    BY <1>1, <1>2
  <2> QED BY <1>3, <2>1 DEF Active
<1>5. ASSUME NEW i \in s PROVE \E j \in s : Contains(LinkList(i), j)
  <2>1. PICK k \in m..Len(calls) : calls[k].node = i
    OBVIOUS
  <2>2. i \in List
    BY <1>4
  <2>3. LinkList(i) \in Seq(List) /\ Len(LinkList(i)) \in Nat
    BY <2>2, GraphIs
  <2>4. CASE k = Len(calls)
    <3>1. LinkHere \in s /\ LinkHere = LinkList(i)[This.pos] /\ This.pos \in 1..Len(LinkList(i))
      BY <1>1, <1>2, <2>1, <2>4 DEF LinkHere
    <3> QED BY <3>1 DEF Contains
  <2>5. CASE k # Len(calls)
    <3>1. k \in 1..(Len(calls) - 1) /\ k + 1 \in m..Len(calls) /\ k \in 1..Len(calls)
      BY <1>1, <1>2, <2>1, <2>5
    <3>2. calls[k] \in Frame
      <4> HIDE DEF Frame
      <4> QED BY <3>1
    <3>3. calls[k].pos <= Len(LinkList(i)) /\ calls[k + 1].node = LinkList(i)[calls[k].pos]
      BY <2>1, <3>1 DEF Chained
    <3>4. calls[k].pos \in 1..Len(LinkList(i))
      <4>1. calls[k].pos \in Nat \ {0}
        BY <3>2 DEF Frame
      <4> QED BY <2>3, <3>3, <4>1
    <3>5. calls[k + 1].node \in s
      BY <3>1
    <3> QED BY <3>3, <3>4, <3>5 DEF Contains
  <2> QED BY <2>4, <2>5
<1>6. Looping(s)
  BY <1>4, <1>5 DEF Looping
<1> QED BY <1>4, <1>6, CyclicIs

LEMMA InitTopoInv == TopoInit => TopoInv
<1> SUFFICES ASSUME TopoInit PROVE TopoInv
  OBVIOUS
<1>1. /\ at = "idle" /\ index = 1 /\ visited_list = {} /\ in_recursion_list = {} /\ calls = <<>>
      /\ topo_depth = <<>>
  BY DEF TopoInit
<1>2. Walking /\ Checked /\ CycleFound /\ Deep /\ Listed
  BY <1>1 DEF Walking, Walks, Layers, Checked, CycleFound, Deep, Listed
<1>3. Chained
  BY <1>1 DEF Chained
<1> QED BY <1>2, <1>3 DEF TopoInv

LEMMA GivenStep == TopoInv /\ TopoGiven => TopoInv'
<1> SUFFICES ASSUME TopoInv, TopoGiven PROVE TopoInv'
  OBVIOUS
<1>1. /\ visited_list' = {} /\ in_recursion_list' = {} /\ calls' = <<>> /\ topo_depth' = <<>>
      /\ graph' \in Graphs /\ at' = "cycle" /\ index' = 1
  BY DEF TopoInv, Walking, TopoGiven, lists
<1>2. List' = 1..graph'.n /\ Active' = {} /\ Black' = {} /\ Len(calls') = 0
      /\ DOMAIN topo_depth' = {}
  BY <1>1 DEF List, Active, Black
<1>3. Walking'
  <2>1. \A i \in List' : ~(i < index')
    BY <1>1, <1>2
  <2>2. calls' \in Seq(Frame')
    BY <1>1
  <2> QED BY <1>1, <1>2, <2>1, <2>2 DEF Walking, Walks
<1>4. Chained'
  BY <1>1 DEF Chained
<1>5. Checked'
  BY <1>1, <1>2 DEF Checked, Looping
<1>6. CycleFound' /\ Deep' /\ Listed'
  BY <1>1 DEF CycleFound, Deep, Listed, Layers
<1> QED BY <1>3, <1>4, <1>5, <1>6 DEF TopoInv

\* While the check goes on.
LEMMA CycleOn ==
    ASSUME TopoInv, at = "cycle"
    PROVE  /\ graph \in Graphs /\ index \in Nat \ {0} /\ calls \in Seq(Frame)
           /\ visited_list \subseteq List /\ Active \subseteq visited_list /\ Active \subseteq List
           /\ topo_depth = <<>> /\ in_recursion_list = Active /\ Chained
           /\ at' = "cycle" => CycleFound' /\ Deep' /\ Listed'
BY DEF TopoInv, Walking, Checked, CycleFound, Deep, Listed, Layers

\* A call on a node that was not visited.
LEMMA CheckPush ==
    ASSUME TopoInv, at = "cycle", at' = "cycle", graph' = graph, topo_depth' = topo_depth,
           NEW i \in List, i \notin visited_list, calls = <<>> \/ (MoreLinks /\ i = LinkHere),
           IsCyclicUtil(i), index' \in Nat \ {0}, \A j \in List : j < index' => j < index \/ j = i
    PROVE  TopoInv'
<1>1. /\ calls \in Seq(Frame) /\ calls' = Append(calls, Call(i)) /\ i \notin Active
      /\ visited_list' = visited_list \cup {i} /\ in_recursion_list' = in_recursion_list \cup {i}
      /\ graph \in Graphs /\ visited_list \subseteq List /\ Active \subseteq visited_list
      /\ topo_depth = <<>> /\ in_recursion_list = Active
      /\ CycleFound' /\ Deep' /\ Listed'
  BY CycleOn DEF IsCyclicUtil
<1>2. /\ calls' \in Seq(Frame) /\ Len(calls') = Len(calls) + 1 /\ Len(calls) \in Nat
      /\ \A k \in 1..Len(calls) : calls'[k] = calls[k]
      /\ calls'[Len(calls) + 1] = Call(i) /\ Call(i).pos = 1
      /\ Active' = Active \cup {i}
  BY <1>1, Pushed DEF Call
<1>3. Chained'
  BY <1>1, CycleOn, ChainPushed
<1>4. List' = List /\ Frame' = Frame /\ Black' = Black /\ \A j : LinkList(j)' = LinkList(j)
  BY <1>1 DEF List, Frame, Black, LinkList
<1>5. Walking'
  <2>1. \A j \in List : j < index' => j \in visited_list'
    BY <1>1 DEF TopoInv, Walking, Walks
  <2>2. DOMAIN topo_depth' = {}
    BY <1>1
  <2> QED BY <1>1, <1>2, <1>4, <2>1, <2>2 DEF Walking, Walks
<1>6. Checked'
  <2>1. ASSUME NEW k \in 1..Len(calls'), NEW q \in 1..(calls'[k].pos - 1)
        PROVE  LinkList(calls'[k].node)[q] \in Black
    <3>1. k \in 1..Len(calls)
      BY <1>2
    <3> QED BY <1>2, <2>1, <3>1 DEF TopoInv, Checked
  <2>2. /\ \A j \in Black : \A q \in 1..Len(LinkList(j)) : LinkList(j)[q] \in Black
        /\ \A s \in SUBSET Black : ~Looping(s)
    BY DEF TopoInv, Checked
  <2>3. \A s : Looping(s)' = Looping(s)
    BY <1>4 DEF Looping
  <2>4. in_recursion_list' = Active' /\ topo_depth' = <<>>
    BY <1>1, <1>2
  <2> QED BY <1>1, <1>4, <2>1, <2>2, <2>3, <2>4 DEF Checked, LinkList
<1> QED BY <1>1, <1>3, <1>5, <1>6 DEF TopoInv

LEMMA CycleLoopStep == TopoInv /\ CycleLoop => TopoInv'
<1> SUFFICES ASSUME TopoInv, CycleLoop PROVE TopoInv'
  OBVIOUS
<1>1. /\ at = "cycle" /\ at' = "cycle" /\ calls = <<>> /\ index' = index + 1 /\ graph' = graph
      /\ topo_depth' = topo_depth /\ index <= graph.n
      /\ IF index \in visited_list THEN UNCHANGED <<calls, lists>> ELSE IsCyclicUtil(index)
  BY DEF CycleLoop
<1>2. index \in Nat \ {0} /\ graph.n \in Nat /\ List = 1..graph.n
  BY <1>1, CycleOn, GraphIs
<1>3. index \in List /\ index' \in Nat \ {0} /\ \A j \in List : j < index' => j < index \/ j = index
  BY <1>1, <1>2
<1>4. CASE index \in visited_list
  <2>1. /\ calls' = calls /\ visited_list' = visited_list /\ in_recursion_list' = in_recursion_list
    BY <1>1, <1>4 DEF lists
  <2>2. List' = List /\ Frame' = Frame /\ Black' = Black /\ Active' = Active
    BY <1>1, <2>1 DEF List, Frame, Black, Active
  <2>3. Walking'
    <3>1. \A j \in List : j < index' => j \in visited_list
      BY <1>1, <1>3, <1>4 DEF TopoInv, Walking, Walks
    <3> QED BY <1>1, <1>3, <2>1, <2>2, <3>1 DEF TopoInv, Walking, Walks
  <2>4. Chained' /\ Checked'
    BY <1>1, <2>1 DEF TopoInv, Chained, Checked, LinkList, Black, Active, Looping
  <2> QED BY <1>1, <2>3, <2>4, CycleOn DEF TopoInv
<1>5. CASE index \notin visited_list
  BY <1>1, <1>3, <1>5, CheckPush
<1> QED BY <1>4, <1>5

LEMMA CycleLinkStep == TopoInv /\ CycleLink => TopoInv'
<1> SUFFICES ASSUME TopoInv, CycleLink PROVE TopoInv'
  OBVIOUS
<1>1. /\ at = "cycle" /\ MoreLinks /\ index' = index /\ graph' = graph
      /\ topo_depth' = topo_depth
      /\ \/ LinkHere \in in_recursion_list /\ at' = "cyclic" /\ UNCHANGED <<calls, lists>>
         \/ /\ LinkHere \notin in_recursion_list /\ LinkHere \in visited_list
            /\ at' = "cycle" /\ NextLink(0) /\ UNCHANGED lists
         \/ LinkHere \notin visited_list /\ at' = "cycle" /\ IsCyclicUtil(LinkHere)
  BY DEF CycleLink
<1>2. /\ graph \in Graphs /\ index \in Nat \ {0} /\ calls \in Seq(Frame)
      /\ visited_list \subseteq List /\ Active \subseteq visited_list /\ Active \subseteq List
      /\ topo_depth = <<>> /\ in_recursion_list = Active /\ Chained
      /\ at' = "cycle" => CycleFound' /\ Deep' /\ Listed'
  BY <1>1, CycleOn
<1>3. /\ calls # <<>> /\ This = calls[Len(calls)] /\ Len(calls) \in Nat \ {0}
      /\ LinkHere \in List /\ This.pos \in Nat
  BY <1>1, <1>2, LinkHereIs DEF Frame
<1>4. List' = List /\ Frame' = Frame /\ \A j : LinkList(j)' = LinkList(j)
  BY <1>1 DEF List, Frame, LinkList
<1>5. CASE LinkHere \in in_recursion_list /\ at' = "cyclic" /\ UNCHANGED <<calls, lists>>
  <2>1. /\ calls' = calls /\ visited_list' = visited_list /\ in_recursion_list' = in_recursion_list
        /\ Active' = Active
    BY <1>5 DEF lists, Active
  <2>2. Cyclic(graph.n, graph.link)
    BY <1>1, <1>2, <1>5, CycleOfCalls
  <2>3. Walking'
    BY <1>1, <1>2, <1>4, <1>5, <2>1 DEF TopoInv, Walking, Walks
  <2>4. Chained'
    BY <1>2, <1>4, <2>1 DEF Chained
  <2>5. Checked' /\ CycleFound' /\ Deep' /\ Listed'
    BY <1>1, <1>5, <2>2 DEF Checked, CycleFound, Deep, Listed, Layers
  <2> QED BY <2>3, <2>4, <2>5 DEF TopoInv
<1>6. CASE /\ LinkHere \notin in_recursion_list /\ LinkHere \in visited_list
           /\ at' = "cycle" /\ NextLink(0) /\ UNCHANGED lists
  <2>1. /\ visited_list' = visited_list /\ in_recursion_list' = in_recursion_list /\ Black' = Black
    BY <1>6 DEF lists, Black
  <2>2. /\ calls' \in Seq(Frame) /\ Len(calls') = Len(calls)
        /\ \A k \in 1..(Len(calls) - 1) : calls'[k] = calls[k]
        /\ \A k \in 1..Len(calls) : calls'[k].node = calls[k].node
        /\ calls'[Len(calls)].pos = This.pos + 1
        /\ Active' = Active
    BY <1>2, <1>3, <1>6, Passed
  <2>3. Chained'
    BY <1>1, <1>2, <1>6, ChainPassed
  <2>4. Walking'
    BY <1>1, <1>2, <1>4, <1>6, <2>1, <2>2 DEF TopoInv, Walking, Walks
  <2>5. Checked'
    <3>1. ASSUME NEW k \in 1..Len(calls'), NEW q \in 1..(calls'[k].pos - 1)
          PROVE  LinkList(calls'[k].node)[q] \in Black
      <4>1. calls'[k].node = calls[k].node /\ k \in 1..Len(calls)
        BY <2>2
      <4>2. CASE k # Len(calls)
        <5>1. calls'[k] = calls[k]
          BY <1>3, <2>2, <4>1, <4>2
        <5> QED BY <1>1, <3>1, <4>1, <5>1 DEF TopoInv, Checked
      <4>3. CASE k = Len(calls)
        <5>1. q \in 1..This.pos
          BY <1>3, <2>2, <4>3
        <5>2. CASE q = This.pos
          BY <1>3, <1>6, <4>1, <4>3, <5>2 DEF LinkHere, Black
        <5>3. CASE q # This.pos
          <6>1. q \in 1..(calls[k].pos - 1)
            BY <1>3, <4>3, <5>1, <5>3
          <6> QED BY <1>1, <4>1, <6>1 DEF TopoInv, Checked
        <5> QED BY <5>2, <5>3
      <4> QED BY <4>2, <4>3
    <3>2. /\ \A j \in Black : \A q \in 1..Len(LinkList(j)) : LinkList(j)[q] \in Black
          /\ \A s \in SUBSET Black : ~Looping(s)
      BY <1>1 DEF TopoInv, Checked
    <3>3. \A s : Looping(s)' = Looping(s)
      BY <1>4 DEF Looping
    <3> QED BY <1>1, <1>2, <1>4, <2>1, <2>2, <3>1, <3>2, <3>3 DEF Checked, LinkList
  <2> QED BY <1>2, <1>6, <2>3, <2>4, <2>5 DEF TopoInv
<1>7. CASE LinkHere \notin visited_list /\ at' = "cycle" /\ IsCyclicUtil(LinkHere)
  BY <1>1, <1>2, <1>3, <1>7, CheckPush
<1> QED BY <1>1, <1>5, <1>6, <1>7

LEMMA CycleReturnStep == TopoInv /\ CycleReturn => TopoInv'
<1> SUFFICES ASSUME TopoInv, CycleReturn PROVE TopoInv'
  OBVIOUS
<1> DEFINE u == This.node
<1>1. /\ at = "cycle" /\ at' = "cycle" /\ NoMoreLinks /\ index' = index /\ graph' = graph
      /\ topo_depth' = topo_depth /\ calls' = Front(calls) /\ calls # <<>>
      /\ in_recursion_list' = in_recursion_list \ {u} /\ visited_list' = visited_list
  BY DEF CycleReturn, NoMoreLinks
<1>2. /\ graph \in Graphs /\ index \in Nat \ {0} /\ calls \in Seq(Frame)
      /\ visited_list \subseteq List /\ Active \subseteq visited_list /\ Active \subseteq List
      /\ topo_depth = <<>> /\ in_recursion_list = Active /\ Chained
      /\ CycleFound' /\ Deep' /\ Listed'
  BY <1>1, CycleOn
<1>3. /\ calls' \in Seq(Frame) /\ Len(calls') = Len(calls) - 1 /\ Len(calls) \in Nat \ {0}
      /\ \A k \in 1..(Len(calls) - 1) : calls'[k] = calls[k]
      /\ Active' = Active \ {u} /\ u \in Active
  BY <1>1, <1>2, Popped
<1>4. List' = List /\ Frame' = Frame /\ \A j : LinkList(j)' = LinkList(j)
  BY <1>1 DEF List, Frame, LinkList
<1>5. Chained'
  BY <1>1, <1>2, ChainPopped
<1>6. Walking'
  BY <1>1, <1>2, <1>3, <1>4 DEF TopoInv, Walking, Walks
<1>7. PICK v : v = u
  OBVIOUS
<1>8. Black' = Black \cup {v} /\ v \notin Black /\ v \in List
  BY <1>1, <1>2, <1>3, <1>7 DEF Black
<1>9. \A q \in 1..Len(LinkList(v)) : LinkList(v)[q] \in Black
  <2>1. This = calls[Len(calls)] /\ This \in Frame /\ Len(calls) \in 1..Len(calls)
    BY <1>1, <1>2, <1>3, ThisIs
  <2>2. This.pos > Len(LinkList(v)) /\ Len(LinkList(v)) \in Nat /\ This.pos \in Nat
    BY <1>1, <1>2, <1>7, <1>8, <2>1, GraphIs DEF NoMoreLinks, Frame
  <2>3. \A q \in 1..Len(LinkList(v)) : q \in 1..(This.pos - 1)
    BY <2>2
  <2> QED BY <1>1, <1>7, <2>1, <2>3 DEF TopoInv, Checked
<1>10. /\ \A k \in 1..Len(calls) : \A q \in 1..(calls[k].pos - 1) :
                LinkList(calls[k].node)[q] \in Black
       /\ \A i \in Black : \A q \in 1..Len(LinkList(i)) : LinkList(i)[q] \in Black
       /\ \A s \in SUBSET Black : ~Looping(s)
  BY <1>1 DEF TopoInv, Checked
<1>11. ASSUME NEW s \in SUBSET Black', Looping(s) PROVE FALSE
  <2>1. \A i \in s : \E j \in s : Contains(LinkList(i), j)
    BY <1>11 DEF Looping
  <2>2. \A i \in s : \E j \in s \ {v} : Contains(LinkList(i), j)
    <3> SUFFICES ASSUME NEW i \in s PROVE \E j \in s \ {v} : Contains(LinkList(i), j)
      OBVIOUS
    <3>1. PICK j \in s : Contains(LinkList(i), j)
      BY <2>1
    <3>2. j \in Black
      BY <1>8, <1>9, <1>10, <3>1 DEF Contains
    <3> QED BY <1>8, <3>1, <3>2
  <2>3. s \ {v} # {}
    BY <1>11, <2>2 DEF Looping
  <2>4. Looping(s \ {v}) /\ s \ {v} \in SUBSET Black
    BY <1>8, <2>2, <2>3 DEF Looping
  <2> QED BY <1>10, <2>4
<1>12. Checked'
  <2>1. \A s : Looping(s)' = Looping(s)
    BY <1>4 DEF Looping
  <2>2. \A k \in 1..Len(calls') : k \in 1..(Len(calls) - 1) /\ k \in 1..Len(calls)
    BY <1>3
  <2>3. \A k \in 1..Len(calls') : \A q \in 1..(calls'[k].pos - 1) :
            LinkList(calls'[k].node)[q] \in Black'
    BY <1>3, <1>8, <1>10, <2>2
  <2>4. \A i \in Black' : \A q \in 1..Len(LinkList(i)) : LinkList(i)[q] \in Black'
    BY <1>8, <1>9, <1>10
  <2>5. \A s \in SUBSET Black' : ~Looping(s)'
    BY <1>11, <2>1
  <2>6. in_recursion_list' = Active' /\ topo_depth' = <<>>
    BY <1>1, <1>2, <1>3
  <2> QED BY <1>1, <2>3, <2>4, <2>5, <2>6 DEF Checked, LinkList
<1> QED BY <1>2, <1>5, <1>6, <1>12 DEF TopoInv

LEMMA CycleEndStep == TopoInv /\ CycleEnd => TopoInv'
<1> SUFFICES ASSUME TopoInv, CycleEnd PROVE TopoInv'
  OBVIOUS
<1>1. /\ at = "cycle" /\ at' = "depth" /\ calls = <<>> /\ index > graph.n /\ index' = 1
      /\ visited_list' = {} /\ calls' = <<>> /\ graph' = graph /\ topo_depth' = topo_depth
  BY DEF CycleEnd
<1>2. /\ graph \in Graphs /\ index \in Nat \ {0} /\ topo_depth = <<>>
      /\ in_recursion_list = Active
  BY <1>1, CycleOn
<1>3. graph.n \in Nat /\ List = 1..graph.n /\ List' = List
  BY <1>1, <1>2, GraphIs DEF List
<1>4. ~Cyclic(graph.n, graph.link)
  <2>1. \A i \in List : i < index
    BY <1>1, <1>2, <1>3
  <2>2. List \subseteq visited_list
    BY <1>1, <2>1 DEF TopoInv, Walking, Walks
  <2>3. in_recursion_list = {}
    BY <1>1, <1>2 DEF Active
  <2>4. List \subseteq Black
    BY <2>2, <2>3 DEF Black
  <2>5. \A s \in SUBSET Black : ~Looping(s)
    BY <1>1 DEF TopoInv, Checked
  <2> QED BY <2>4, <2>5, CyclicIs
<1>5. Walking'
  <2>1. \A i \in List : ~(i < index')
    BY <1>1, <1>3
  <2>2. calls' \in Seq(Frame') /\ Active' = {} /\ DOMAIN topo_depth' = {}
    BY <1>1, <1>2 DEF Active
  <2> QED BY <1>1, <1>2, <1>3, <2>1, <2>2 DEF Walking, Walks
<1>6. Chained' /\ Checked' /\ Listed'
  BY <1>1 DEF Chained, Checked, Listed
<1>7. CycleFound'
  BY <1>1, <1>4 DEF CycleFound
<1>8. Deep'
  <2>1. Len(calls') = 0 /\ Active' = {} /\ DOMAIN topo_depth' = {}
    BY <1>1, <1>2 DEF Active
  <2> QED BY <1>1, <2>1 DEF Deep, Layers
<1> QED BY <1>5, <1>6, <1>7, <1>8 DEF TopoInv

\* While the depths are made.
LEMMA DepthOn ==
    ASSUME TopoInv, at = "depth"
    PROVE  /\ graph \in Graphs /\ index \in Nat \ {0} /\ calls \in Seq(Frame)
           /\ visited_list = DOMAIN topo_depth \cup Active /\ DOMAIN topo_depth \cap Active = {}
           /\ visited_list \subseteq List /\ Active \subseteq List
           /\ \A i \in DOMAIN topo_depth : topo_depth[i] \in Nat
           /\ ~Cyclic(graph.n, graph.link) /\ Chained
           /\ \A i \in List : i < index => i \in visited_list
           /\ \A k \in 1..Len(calls) :
                Above(graph.link, topo_depth, calls[k].node, calls[k].pos, calls[k].req_depth)
           /\ \A i \in DOMAIN topo_depth :
                Above(graph.link, topo_depth, i, Len(LinkList(i)) + 1, topo_depth[i])
           /\ graph' = graph /\ at' = "depth" => CycleFound' /\ Checked' /\ Listed'
BY DEF TopoInv, Walking, Walks, Checked, CycleFound, Deep, Listed

LEMMA DepthPush ==
    ASSUME TopoInv, at = "depth", at' = "depth", graph' = graph, topo_depth' = topo_depth,
           NEW i \in List, i \notin visited_list, calls = <<>> \/ (MoreLinks /\ i = LinkHere),
           TopologicalSortUtil(i), index' \in Nat \ {0},
           \A j \in List : j < index' => j < index \/ j = i
    PROVE  TopoInv'
<1>1. /\ graph \in Graphs /\ calls \in Seq(Frame)
      /\ visited_list = DOMAIN topo_depth \cup Active /\ DOMAIN topo_depth \cap Active = {}
      /\ visited_list \subseteq List /\ Active \subseteq List
      /\ \A j \in DOMAIN topo_depth : topo_depth[j] \in Nat
      /\ CycleFound' /\ Checked' /\ Listed'
  BY DepthOn
<1>2. calls' = Append(calls, Call(i)) /\ visited_list' = visited_list \cup {i} /\ i \notin Active
  BY <1>1 DEF TopologicalSortUtil
<1>3. /\ calls' \in Seq(Frame) /\ Len(calls') = Len(calls) + 1 /\ Len(calls) \in Nat
      /\ \A k \in 1..Len(calls) : calls'[k] = calls[k]
      /\ calls'[Len(calls) + 1] = Call(i) /\ Call(i).pos = 1 /\ Call(i).req_depth = 0
      /\ Active' = Active \cup {i}
  BY <1>1, <1>2, Pushed DEF Call
<1>4. Chained'
  BY <1>1, <1>2, DepthOn, ChainPushed
<1>5. List' = List /\ Frame' = Frame
  BY DEF List, Frame
<1>6. Walking'
  <2>1. \A j \in List : j < index' => j \in visited_list'
    BY <1>2, DepthOn
  <2> QED BY <1>1, <1>2, <1>3, <1>5, <2>1 DEF Walking, Walks
<1>7. Deep'
  <2>1. ASSUME NEW k \in 1..Len(calls')
        PROVE  Above(graph.link, topo_depth, calls'[k].node, calls'[k].pos, calls'[k].req_depth)
    <3>1. CASE k \in 1..Len(calls)
      BY <1>3, <3>1, DepthOn
    <3>2. CASE k = Len(calls) + 1
      BY <1>3, <3>2 DEF Above
    <3> QED BY <1>3, <3>1, <3>2
  <2>2. \A j \in DOMAIN topo_depth :
            Above(graph.link, topo_depth, j, Len(LinkList(j)) + 1, topo_depth[j])
    BY DepthOn
  <2> QED BY <1>1, <1>2, <1>3, <2>1, <2>2 DEF Deep, LinkList, Layers
<1> QED BY <1>1, <1>4, <1>6, <1>7 DEF TopoInv

LEMMA DepthLoopStep == TopoInv /\ DepthLoop => TopoInv'
<1> SUFFICES ASSUME TopoInv, DepthLoop PROVE TopoInv'
  OBVIOUS
<1>1. /\ at = "depth" /\ at' = "depth" /\ calls = <<>> /\ index' = index + 1 /\ graph' = graph
      /\ topo_depth' = topo_depth /\ index <= graph.n
      /\ IF index \in visited_list THEN UNCHANGED <<calls, visited_list>>
         ELSE TopologicalSortUtil(index)
  BY DEF DepthLoop
<1>2. index \in Nat \ {0} /\ graph.n \in Nat /\ List = 1..graph.n
  BY <1>1, DepthOn, GraphIs
<1>3. index \in List /\ index' \in Nat \ {0} /\ \A j \in List : j < index' => j < index \/ j = index
  BY <1>1, <1>2
<1>4. CASE index \in visited_list
  <2>1. calls' = calls /\ visited_list' = visited_list
    BY <1>1, <1>4
  <2>2. List' = List /\ Frame' = Frame /\ Active' = Active
    BY <1>1, <2>1 DEF List, Frame, Active
  <2>3. Walking'
    <3>1. \A j \in List : j < index' => j \in visited_list
      BY <1>1, <1>3, <1>4, DepthOn
    <3> QED BY <1>1, <1>3, <2>1, <2>2, <3>1 DEF TopoInv, Walking, Walks
  <2>4. Chained' /\ Deep'
    BY <1>1, <2>1, <2>2 DEF TopoInv, Chained, Deep, LinkList
  <2> QED BY <1>1, <2>3, <2>4, DepthOn DEF TopoInv
<1>5. CASE index \notin visited_list
  BY <1>1, <1>3, <1>5, DepthPush
<1> QED BY <1>4, <1>5

LEMMA AboveNext ==
    ASSUME NEW link, NEW depth, NEW i, NEW p \in Nat \ {0}, NEW d \in Nat, NEW e \in Nat,
           Above(link, depth, i, p, d), link[i][p] \in DOMAIN depth, depth[link[i][p]] = e,
           \A j \in DOMAIN depth : depth[j] \in Nat
    PROVE  Above(link, depth, i, p + 1, StepDepth(d, e)) /\ StepDepth(d, e) \in Nat
<1> DEFINE r == StepDepth(d, e)
<1>1. r \in Nat /\ r >= d /\ r > e /\ (r = d \/ r = e + 1)
  BY DEF StepDepth
<1> HIDE DEF r
<1>2. ASSUME NEW q \in 1..(p + 1 - 1) PROVE link[i][q] \in DOMAIN depth /\ depth[link[i][q]] < r
  <2>1. CASE q = p
    BY <1>1, <2>1
  <2>2. CASE q # p
    <3>1. q \in 1..(p - 1)
      BY <2>2
    <3>2. link[i][q] \in DOMAIN depth /\ depth[link[i][q]] < d /\ depth[link[i][q]] \in Nat
      BY <3>1 DEF Above
    <3> QED BY <1>1, <3>2
  <2> QED BY <2>1, <2>2
<1>3. ASSUME r > 0 PROVE \E q \in 1..(p + 1 - 1) : depth[link[i][q]] + 1 = r
  <2>1. CASE r = e + 1
    <3>1. p \in 1..(p + 1 - 1)
      OBVIOUS
    <3> QED BY <2>1, <3>1
  <2>2. CASE r = d
    <3>1. PICK q \in 1..(p - 1) : depth[link[i][q]] + 1 = d
      BY <1>3, <2>2 DEF Above
    <3>2. q \in 1..(p + 1 - 1)
      OBVIOUS
    <3> QED BY <2>2, <3>1, <3>2
  <2> QED BY <1>1, <2>1, <2>2
<1>4. Above(link, depth, i, p + 1, r)
  BY <1>2, <1>3 DEF Above
<1> QED BY <1>1, <1>4 DEF r

LEMMA DepthLinkStep == TopoInv /\ DepthLink => TopoInv'
<1> SUFFICES ASSUME TopoInv, DepthLink PROVE TopoInv'
  OBVIOUS
<1>1. /\ at = "depth" /\ at' = "depth" /\ MoreLinks /\ index' = index /\ graph' = graph
      /\ topo_depth' = topo_depth
      /\ \/ /\ LinkHere \in visited_list /\ visited_list' = visited_list
            /\ NextLink(StepDepth(This.req_depth, topo_depth[LinkHere]))
         \/ LinkHere \notin visited_list /\ TopologicalSortUtil(LinkHere)
  BY DEF DepthLink
<1>2. /\ graph \in Graphs /\ index \in Nat \ {0} /\ calls \in Seq(Frame)
      /\ visited_list = DOMAIN topo_depth \cup Active /\ DOMAIN topo_depth \cap Active = {}
      /\ visited_list \subseteq List /\ Active \subseteq List
      /\ \A i \in DOMAIN topo_depth : topo_depth[i] \in Nat
      /\ ~Cyclic(graph.n, graph.link) /\ Chained
      /\ CycleFound' /\ Checked' /\ Listed'
  BY <1>1, DepthOn
<1>3. /\ calls # <<>> /\ This = calls[Len(calls)] /\ Len(calls) \in Nat \ {0}
      /\ LinkHere \in List /\ This.pos \in Nat \ {0} /\ This.req_depth \in Nat
  BY <1>1, <1>2, LinkHereIs DEF Frame
<1>4. List' = List /\ Frame' = Frame
  BY <1>1 DEF List, Frame
<1>5. CASE /\ LinkHere \in visited_list /\ visited_list' = visited_list
           /\ NextLink(StepDepth(This.req_depth, topo_depth[LinkHere]))
  <2>1. PICK e : e = topo_depth[LinkHere]
    OBVIOUS
  <2>2. PICK r : r = StepDepth(This.req_depth, e)
    OBVIOUS
  <2>3. LinkHere \in DOMAIN topo_depth /\ e \in Nat
    <3>1. LinkHere \notin Active
      BY <1>1, <1>2, CycleOfCalls
    <3> QED BY <1>2, <1>5, <2>1, <3>1
  <2>4. Above(graph.link, topo_depth, This.node, This.pos + 1, r) /\ r \in Nat
    <3>1. Len(calls) \in 1..Len(calls)
      BY <1>3
    <3>2. Above(graph.link, topo_depth, This.node, This.pos, This.req_depth)
      BY <1>1, <1>3, <3>1, DepthOn
    <3>3. LinkHere = graph.link[This.node][This.pos]
      BY DEF LinkHere, LinkList
    <3> QED BY <1>2, <1>3, <2>1, <2>2, <2>3, <3>2, <3>3, AboveNext
  <2>5. /\ calls' \in Seq(Frame) /\ Len(calls') = Len(calls)
        /\ \A k \in 1..(Len(calls) - 1) : calls'[k] = calls[k]
        /\ \A k \in 1..Len(calls) : calls'[k].node = calls[k].node
        /\ calls'[Len(calls)].pos = This.pos + 1 /\ calls'[Len(calls)].req_depth = r
        /\ Active' = Active
    BY <1>2, <1>3, <1>5, <2>1, <2>2, <2>4, Passed
  <2>6. Chained'
    BY <1>1, <1>2, <1>5, <2>1, <2>2, <2>4, ChainPassed
  <2>7. Walking'
    BY <1>1, <1>2, <1>4, <1>5, <2>5 DEF TopoInv, Walking, Walks
  <2>8. Deep'
    <3>1. ASSUME NEW k \in 1..Len(calls')
          PROVE  Above(graph.link, topo_depth, calls'[k].node, calls'[k].pos, calls'[k].req_depth)
      <4>1. CASE k = Len(calls)
        <5>1. calls'[k].node = This.node /\ calls'[k].pos = This.pos + 1 /\ calls'[k].req_depth = r
          BY <1>3, <2>5, <4>1
        <5> QED BY <2>4, <5>1
      <4>2. CASE k # Len(calls)
        <5>1. k \in 1..Len(calls) /\ calls'[k] = calls[k]
          BY <1>3, <2>5, <4>2
        <5> QED BY <1>1, <5>1, DepthOn
      <4> QED BY <4>1, <4>2
    <3>2. \A j \in DOMAIN topo_depth :
              Above(graph.link, topo_depth, j, Len(LinkList(j)) + 1, topo_depth[j])
      BY <1>1, DepthOn
    <3> QED BY <1>1, <1>2, <1>5, <2>5, <3>1, <3>2 DEF Deep, LinkList, Layers
  <2> QED BY <1>2, <2>6, <2>7, <2>8 DEF TopoInv
<1>6. CASE LinkHere \notin visited_list /\ TopologicalSortUtil(LinkHere)
  BY <1>1, <1>2, <1>3, <1>6, DepthPush
<1> QED BY <1>1, <1>5, <1>6

\* What another node is given does not change what stands above the depths there are.
LEMMA AboveKept ==
    ASSUME NEW depth, NEW more, DOMAIN depth \subseteq DOMAIN more,
           \A j \in DOMAIN depth : more[j] = depth[j],
           NEW link, NEW i, NEW p, NEW d, Above(link, depth, i, p, d)
    PROVE  Above(link, more, i, p, d)
BY DEF Above

LEMMA DepthReturnStep == TopoInv /\ DepthReturn => TopoInv'
<1> SUFFICES ASSUME TopoInv, DepthReturn PROVE TopoInv'
  OBVIOUS
<1>1. /\ at = "depth" /\ at' = "depth" /\ NoMoreLinks /\ index' = index /\ graph' = graph
      /\ topo_depth' = [i \in DOMAIN topo_depth \cup {This.node} |->
                            IF i = This.node THEN This.req_depth ELSE topo_depth[i]]
      /\ calls' = Front(calls) /\ calls # <<>> /\ visited_list' = visited_list
  BY DEF DepthReturn, NoMoreLinks, lists
<1>2. /\ graph \in Graphs /\ index \in Nat \ {0} /\ calls \in Seq(Frame)
      /\ visited_list = DOMAIN topo_depth \cup Active /\ DOMAIN topo_depth \cap Active = {}
      /\ visited_list \subseteq List /\ Active \subseteq List
      /\ \A i \in DOMAIN topo_depth : topo_depth[i] \in Nat
      /\ ~Cyclic(graph.n, graph.link) /\ Chained
      /\ CycleFound' /\ Checked' /\ Listed'
  BY <1>1, DepthOn
<1>3. /\ calls' \in Seq(Frame) /\ Len(calls') = Len(calls) - 1 /\ Len(calls) \in Nat \ {0}
      /\ \A k \in 1..(Len(calls) - 1) : calls'[k] = calls[k]
      /\ Active' = Active \ {This.node} /\ This.node \in Active
  BY <1>1, <1>2, Popped
<1>4. List' = List /\ Frame' = Frame
  BY <1>1 DEF List, Frame
<1>5. Chained'
  BY <1>1, <1>2, ChainPopped
<1>6. PICK v, r : v = This.node /\ r = This.req_depth
  OBVIOUS
<1>7. v \in List /\ v \notin DOMAIN topo_depth /\ r \in Nat /\ This \in Frame
      /\ This = calls[Len(calls)]
  <2>1. This \in Frame /\ This = calls[Len(calls)]
    BY <1>1, <1>2, ThisIs
  <2> QED BY <1>2, <1>3, <1>6, <2>1 DEF Frame
<1>8. /\ DOMAIN topo_depth' = DOMAIN topo_depth \cup {v} /\ topo_depth'[v] = r
      /\ \A j \in DOMAIN topo_depth : topo_depth'[j] = topo_depth[j]
  BY <1>1, <1>6, <1>7
<1>9. Walking'
  <2>1. \A j \in DOMAIN topo_depth' : topo_depth'[j] \in Nat /\ j \in List
    BY <1>2, <1>7, <1>8
  <2> QED BY <1>1, <1>2, <1>3, <1>4, <2>1 DEF TopoInv, Walking, Walks
<1>10. Above(graph.link, topo_depth, v, Len(LinkList(v)) + 1, r)
  <2>1. Len(calls) \in 1..Len(calls) /\ Len(LinkList(v)) \in Nat
    BY <1>2, <1>3, <1>7, GraphIs
  <2>2. This.pos = Len(LinkList(v)) + 1
    <3>1. This.pos > Len(LinkList(v)) /\ This.pos <= Len(LinkList(v)) + 1 /\ This.pos \in Nat
      BY <1>1, <1>2, <1>6, <1>7, <2>1 DEF Chained, NoMoreLinks, Frame
    <3> QED BY <2>1, <3>1
  <2> QED BY <1>1, <1>6, <1>7, <2>1, <2>2, DepthOn
<1>11. Deep'
  <2>1. ASSUME NEW k \in 1..Len(calls')
        PROVE  Above(graph.link, topo_depth', calls'[k].node, calls'[k].pos, calls'[k].req_depth)
    <3>1. k \in 1..Len(calls) /\ calls'[k] = calls[k]
      BY <1>3
    <3>2. Above(graph.link, topo_depth, calls'[k].node, calls'[k].pos, calls'[k].req_depth)
      BY <1>1, <3>1, DepthOn
    <3> QED BY <1>8, <3>2, AboveKept
  <2>2. ASSUME NEW j \in DOMAIN topo_depth'
        PROVE  Above(graph.link, topo_depth', j, Len(LinkList(j)) + 1, topo_depth'[j])
    <3>1. Above(graph.link, topo_depth, j, Len(LinkList(j)) + 1, topo_depth'[j])
      BY <1>1, <1>8, <1>10, DepthOn
    <3> QED BY <1>8, <3>1, AboveKept
  <2>3. visited_list' = DOMAIN topo_depth' \cup Active' /\ DOMAIN topo_depth' \cap Active' = {}
    BY <1>1, <1>2, <1>3, <1>6, <1>8
  <2> QED BY <1>1, <2>1, <2>2, <2>3 DEF Deep, LinkList, Layers
<1> QED BY <1>2, <1>5, <1>9, <1>11 DEF TopoInv

LEMMA DepthEndStep == TopoInv /\ DepthEnd => TopoInv'
<1> SUFFICES ASSUME TopoInv, DepthEnd PROVE TopoInv'
  OBVIOUS
<1>1. /\ at = "depth" /\ calls = <<>> /\ index > graph.n /\ index' = index /\ graph' = graph
      /\ calls' = calls /\ topo_depth' = topo_depth /\ visited_list' = visited_list
      /\ IF graph.strict THEN at' = "strict" ELSE at' = "sort"
  BY DEF DepthEnd, lists
<1>2. /\ graph \in Graphs /\ index \in Nat \ {0}
      /\ visited_list = DOMAIN topo_depth \cup Active /\ visited_list \subseteq List
      /\ ~Cyclic(graph.n, graph.link) /\ Chained
      /\ \A i \in List : i < index => i \in visited_list
  BY <1>1, DepthOn
<1>3. List' = List /\ Frame' = Frame /\ Active' = {} /\ Active = {}
  BY <1>1 DEF List, Frame, Active
<1>4. DOMAIN topo_depth = List
  <2>1. \A i \in List : i < index
    BY <1>1, <1>2, GraphIs
  <2> QED BY <1>2, <1>3, <2>1
<1>5. at' \in Layers /\ at' # "depth" /\ at' # "cycle" /\ at' # "idle" /\ at' # "cyclic"
      /\ at' # "sorted" /\ at' \notin Walks
  BY <1>1 DEF Layers, Walks
<1>6. Walking'
  BY <1>1, <1>3, <1>5 DEF TopoInv, Walking
<1>7. Chained' /\ Checked' /\ CycleFound'
  BY <1>1, <1>2, <1>5 DEF Chained, Checked, CycleFound, LinkList
<1>8. Deep'
  BY <1>1, <1>3, <1>4, <1>5 DEF TopoInv, Deep, LinkList
<1>9. Listed'
  BY <1>1, <1>5 DEF Listed
<1> QED BY <1>6, <1>7, <1>8, <1>9 DEF TopoInv

\* After the walks only where topo_sort stands and the list change.
LEMMA LayerStep ==
    ASSUME TopoInv, at \in Layers, at' \in Layers, UNCHANGED <<graph, index, lists, calls, topo_depth>>
    PROVE  Walking' /\ Chained' /\ Checked' /\ CycleFound' /\ Deep'
<1>1. /\ graph' = graph /\ index' = index /\ visited_list' = visited_list /\ calls' = calls
      /\ topo_depth' = topo_depth
  BY DEF lists
<1>2. List' = List /\ Frame' = Frame /\ Active' = Active
  BY <1>1 DEF List, Frame, Active
<1>3. at # "idle" /\ at' # "idle" /\ at' # "depth" /\ at' # "cycle" /\ at' # "cyclic"
      /\ at \notin {"idle", "cycle", "cyclic"} /\ at' \notin Walks
  BY DEF Layers, Walks
<1>4. Walking'
  BY <1>1, <1>2, <1>3 DEF TopoInv, Walking
<1>5. Chained' /\ Checked' /\ CycleFound'
  BY <1>1, <1>3 DEF TopoInv, Chained, Checked, CycleFound, LinkList
<1>6. Deep'
  BY <1>1, <1>2, <1>3 DEF TopoInv, Deep, LinkList
<1> QED BY <1>4, <1>5, <1>6

LEMMA StrictStep == TopoInv /\ Strict => TopoInv'
<1> SUFFICES ASSUME TopoInv, Strict PROVE TopoInv'
  OBVIOUS
<1>1. /\ at = "strict" /\ UNCHANGED <<graph, index, lists, calls, topo_depth>>
      /\ at' \in {"orphaned", "unordered", "sort"} /\ (at' = "sort" => ~Grouped)
  BY DEF Strict
<1>2. Grouped' = Grouped
  BY <1>1 DEF Grouped, List
<1>3. Listed'
  BY <1>1, <1>2 DEF Listed
<1>4. at \in Layers /\ at' \in Layers
  BY <1>1 DEF Layers
<1> QED BY <1>1, <1>3, <1>4, LayerStep DEF TopoInv

LEMMA ListSortStep == TopoInv /\ ListSort => TopoInv'
<1> SUFFICES ASSUME TopoInv, ListSort PROVE TopoInv'
  OBVIOUS
<1>1. /\ at = "sort" /\ at' = "sorted" /\ UNCHANGED <<graph, index, lists, calls, topo_depth>>
      /\ list' \in [List -> List] /\ SortedBy(list', topo_depth)
  BY DEF ListSort
<1>2. List' = List /\ Grouped' = Grouped
  BY <1>1 DEF Grouped, List
<1>3. SortedBy(list, topo_depth)'
  BY <1>1 DEF SortedBy
<1>4. Listed'
  BY <1>1, <1>2, <1>3 DEF TopoInv, Listed
<1>5. at \in Layers /\ at' \in Layers
  BY <1>1 DEF Layers
<1> QED BY <1>1, <1>4, <1>5, LayerStep DEF TopoInv

LEMMA TopoInvariance == TopoSpec => []TopoInv
<1>1. TopoInv /\ [TopoNext]_topo_vars => TopoInv'
  <2> SUFFICES ASSUME TopoInv, [TopoNext]_topo_vars PROVE TopoInv'
    OBVIOUS
  <2>1. CASE UNCHANGED topo_vars
    <3>1. /\ graph' = graph /\ at' = at /\ index' = index /\ visited_list' = visited_list
          /\ in_recursion_list' = in_recursion_list /\ calls' = calls
          /\ topo_depth' = topo_depth /\ list' = list
      BY <2>1 DEF topo_vars, lists
    <3>2. List' = List /\ Frame' = Frame /\ Active' = Active /\ Black' = Black
          /\ Grouped' = Grouped
      BY <3>1 DEF List, Frame, Active, Black, Grouped
    <3>3. Walking' /\ Chained'
      BY <3>1, <3>2 DEF TopoInv, Walking, Chained, LinkList
    <3>4. Checked' /\ CycleFound'
      BY <3>1, <3>2 DEF TopoInv, Checked, CycleFound, Looping, LinkList
    <3>5. Deep'
      BY <3>1, <3>2 DEF TopoInv, Deep, LinkList
    <3>6. SortedBy(list, topo_depth)' <=> SortedBy(list, topo_depth)
      BY <3>1 DEF SortedBy
    <3>7. Listed'
      BY <3>1, <3>2, <3>6 DEF TopoInv, Listed
    <3> QED BY <3>3, <3>4, <3>5, <3>7 DEF TopoInv
  <2> QED BY <2>1, GivenStep, CycleLoopStep, CycleLinkStep, CycleReturnStep, CycleEndStep,
             DepthLoopStep, DepthLinkStep, DepthReturnStep, DepthEndStep, StrictStep, ListSortStep
             DEF TopoNext
<1> QED BY <1>1, InitTopoInv, PTL DEF TopoSpec

(* topo_sort.coffee 19-45: is_cyclic_util reports a cycle exactly when     *)
(* there is one, for every list and every links.                           *)
THEOREM CycleIsFound == TopoSpec => []CycleFound
<1>1. TopoInv => CycleFound
  BY DEF TopoInv
<1> QED BY <1>1, TopoInvariance, PTL

(* topo_sort.coffee 55-96: the list that is returned is the whole list, and *)
(* every node of it comes after all it links to.                           *)
THEOREM LinksComeFirst == TopoSpec => []DependenciesFirst
<1>1. ASSUME TopoInv, at = "sorted" PROVE DependenciesFirst
  <2>1. /\ list \in [List -> List] /\ DOMAIN topo_depth = List /\ graph \in Graphs
        /\ \A i \in List : Above(graph.link, topo_depth, i, Len(LinkList(i)) + 1, topo_depth[i])
        /\ \A i \in List : topo_depth[i] \in Nat
    BY <1>1 DEF TopoInv, Walking, Deep, Listed, Layers
  <2>2. graph.n \in Nat /\ List = 1..graph.n /\ \A i \in List : LinkList(i) \in Seq(List)
    BY <2>1, GraphIs
  <2>3. DOMAIN list = List /\ SortedBy(list, topo_depth)
    BY <1>1, <2>1 DEF TopoInv, Listed
  <2>4. Len(list) = graph.n /\ ToSet(list) = List
    BY <2>1, <2>2, <2>3 DEF SortedBy, ToSet
  <2>5. ASSUME NEW i \in List, NEW j \in List, Contains(LinkList(list[i]), list[j]) PROVE j < i
    <3>1. list[i] \in List /\ list[j] \in List
      BY <2>1
    <3>2. PICK q \in 1..Len(LinkList(list[i])) : LinkList(list[i])[q] = list[j]
      BY <2>5 DEF Contains
    <3>3. Len(LinkList(list[i])) \in Nat
      BY <2>2, <3>1
    <3>4. q \in 1..(Len(LinkList(list[i])) + 1 - 1)
      BY <3>3
    <3>5. topo_depth[list[j]] < topo_depth[list[i]]
      BY <2>1, <3>1, <3>2, <3>4 DEF Above, LinkList
    <3>6. topo_depth[list[i]] \in Nat /\ topo_depth[list[j]] \in Nat
      BY <2>1, <3>1
    <3>7. ~(i < j) /\ i # j
      BY <2>3, <3>5, <3>6 DEF SortedBy
    <3> QED BY <2>2, <3>7
  <2> QED BY <2>4, <2>5 DEF DependenciesFirst
<1>2. TopoInv => DependenciesFirst
  BY <1>1 DEF DependenciesFirst
<1> QED BY <1>2, TopoInvariance, PTL

(* topo_sort.coffee 76-96: a list that passes the strict checks has one    *)
(* order only, neighbours being linked.                                    *)
THEOREM StrictLeavesNoChoice == TopoSpec => []StrictIsTotal
<1>1. ASSUME TopoInv, at = "sorted", graph.strict, NEW i \in 1..(graph.n - 1)
      PROVE  Contains(LinkList(list[i + 1]), list[i])
  <2>1. /\ list \in [List -> List] /\ DOMAIN topo_depth = List /\ graph \in Graphs /\ ~Grouped
        /\ \A j \in List : Above(graph.link, topo_depth, j, Len(LinkList(j)) + 1, topo_depth[j])
        /\ \A j \in List : topo_depth[j] \in Nat
    BY <1>1 DEF TopoInv, Walking, Deep, Listed, Layers
  <2>2. graph.n \in Nat /\ List = 1..graph.n /\ \A j \in List : LinkList(j) \in Seq(List)
    BY <2>1, GraphIs
  <2>3. DOMAIN list = List /\ SortedBy(list, topo_depth)
    BY <1>1, <2>1 DEF TopoInv, Listed
  <2>4. \A a, b \in List : a < b => topo_depth[list[a]] < topo_depth[list[b]]
    <3> SUFFICES ASSUME NEW a \in List, NEW b \in List, a < b
                 PROVE  topo_depth[list[a]] < topo_depth[list[b]]
      OBVIOUS
    <3>1. \/ topo_depth[list[a]] < topo_depth[list[b]]
          \/ topo_depth[list[a]] = topo_depth[list[b]] /\ list[a] < list[b]
      BY <2>3 DEF SortedBy
    <3>2. list[a] \in List /\ list[b] \in List
      BY <2>1
    <3>3. list[a] < list[b] => list[a] # list[b]
      BY <2>2, <3>2
    <3>4. list[a] # list[b] => topo_depth[list[a]] # topo_depth[list[b]]
      BY <2>1, <3>2 DEF Grouped
    <3> QED BY <3>1, <3>3, <3>4
  <2>5. i \in List /\ i + 1 \in List /\ i < i + 1
    BY <2>2
  <2>6. list[i] \in List /\ list[i + 1] \in List
    BY <2>1, <2>5
  <2>7. PICK d, e : /\ d = topo_depth[list[i + 1]] /\ e = topo_depth[list[i]]
                    /\ d \in Nat /\ e \in Nat /\ e < d /\ d > 0
    <3>1. topo_depth[list[i + 1]] \in Nat /\ topo_depth[list[i]] \in Nat
      BY <2>1, <2>6
    <3>2. topo_depth[list[i]] < topo_depth[list[i + 1]]
      BY <2>4, <2>5
    <3> QED BY <3>1, <3>2
  <2>8. PICK q \in 1..(Len(LinkList(list[i + 1])) + 1 - 1) :
                topo_depth[LinkList(list[i + 1])[q]] + 1 = d
    <3>1. Above(graph.link, topo_depth, list[i + 1], Len(LinkList(list[i + 1])) + 1, d)
      BY <2>1, <2>6, <2>7
    <3> QED BY <2>7, <3>1 DEF Above, LinkList
  <2>9. q \in 1..Len(LinkList(list[i + 1])) /\ LinkList(list[i + 1])[q] \in List
    <3>1. LinkList(list[i + 1]) \in Seq(List) /\ Len(LinkList(list[i + 1])) \in Nat
      BY <2>2, <2>6
    <3>2. q \in 1..Len(LinkList(list[i + 1]))
      BY <3>1
    <3> QED BY <3>1, <3>2
  <2>10. PICK m \in List : list[m] = LinkList(list[i + 1])[q]
    BY <2>3, <2>9, <2>1 DEF SortedBy
  <2>11. topo_depth[list[m]] \in Nat /\ topo_depth[list[m]] + 1 = d
    BY <2>1, <2>8, <2>9, <2>10
  <2>12. m = i
    <3>1. ~(m < i)
      <4>1. m < i => topo_depth[list[m]] < e
        BY <2>4, <2>5, <2>7
      <4> QED BY <2>7, <2>11, <4>1
    <3>2. ~(i + 1 < m) /\ i + 1 # m
      <4>1. i + 1 < m => d < topo_depth[list[m]]
        BY <2>4, <2>5, <2>7
      <4>2. i + 1 = m => d = topo_depth[list[m]]
        BY <2>7
      <4> QED BY <2>7, <2>11, <4>1, <4>2
    <3> QED BY <2>2, <2>5, <3>1, <3>2
  <2> QED BY <2>9, <2>10, <2>12 DEF Contains
<1>2. TopoInv => StrictIsTotal
  BY <1>1 DEF StrictIsTotal
<1> QED BY <1>2, TopoInvariance, PTL
=============================================================================
