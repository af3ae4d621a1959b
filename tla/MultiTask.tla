----------------------------- MODULE MultiTask ------------------------------
(***************************************************************************)
(* src/src/util/task.coffee: the build1 and build2 commands of a root      *)
(* project and, when it is a monorepo, multi_task over its repositories:   *)
(* the task graph, topo_sort and the run under the global lock.            *)
(* Lock_mixin is an external package: a lock of one holder, first in first *)
(* out, released by the callback that wrap hands back.                     *)
(*                                                                         *)
(* The engine answers inside the try of runner.coffee as long as it has    *)
(* not suspended.  An exception in what follows such an answer is caught   *)
(* there, and the second answer the catch gives goes to a deferral already *)
(* used, which iced only warns of: the command stops without a word.       *)
(***************************************************************************)
EXTENDS Naturals, Sequences, FiniteSets, SequencesExt

CONSTANTS
    Repos,       \* repositories, in the order of monorepo.json (a sequence)
    Orders,      \* the orders of the command: [command, monorepo]
    Topo_sort(_, _, _)   \* topo_sort of n nodes with these links: [thrown, list]

VARIABLES
    order,       \* the command, and is it given in a monorepo
    stage,       \* what the command awaits
    queue,       \* task_repo that wait for the lock, first come first
    in_progress, \* task_in_progress_list
    finished,    \* history: task_repo run, with their outcome
    err_throw,   \* the error multi_task will answer with
    answers      \* answers given to the callback of the command

vars == <<order, stage, queue, in_progress, finished, err_throw, answers>>

\* crashed: an exception nobody catches ends the process; exited: process.exit(1) of a
\* payload; silent: the exception is dropped and nothing is left to do.
Final == {"answered", "crashed", "exited", "silent"}

\* task_dep_cl_list_hash
TaskDepClList(task) == IF task = "build2" THEN <<"build1">> ELSE <<>>
TaskList(command) == IF command = "build1" THEN <<"build1">> ELSE <<"build1", "build2">>

\* uappend of what each task depends on, then upush of the task.
ClTaskList(command) ==
    FoldLeft(LAMBDA list, t : FoldLeft(LAMBDA acc, x : IF Contains(acc, x) THEN acc ELSE Append(acc, x),
                                       list, Append(TaskDepClList(t), t)),
             <<>>, TaskList(command))

TaskRepo(command) ==
    LET all == ClTaskList(command) IN
    [i \in 1..(Len(all) * Len(Repos)) |->
        <<all[((i - 1) \div Len(Repos)) + 1], Repos[((i - 1) % Len(Repos)) + 1]>>]
IndexOf(command, tr) == CHOOSE i \in DOMAIN TaskRepo(command) : TaskRepo(command)[i] = tr

(* _i_link_list.  The loop over task_require_hash says `for k, src in` of  *)
(* an object, which has no length: it adds nothing.  The loop over         *)
(* task_list reuses the name task for the tasks of cl_task_list, so that   *)
(* every one of them, the dependencies themselves too, gets their link.    *)
Link(command) ==
    [i \in DOMAIN TaskRepo(command) |->
        LET from(t) == [k \in DOMAIN TaskDepClList(t) |->
                            IndexOf(command, <<TaskDepClList(t)[k], TaskRepo(command)[i][2]>>)]
        IN  FoldLeft(LAMBDA acc, t : acc \o from(t), <<>>, TaskList(command))]

Sorting(command)   == Topo_sort(Len(TaskRepo(command)), Link(command), TRUE)
Sequenced(command) == [k \in DOMAIN Sorting(command).list |-> TaskRepo(command)[Sorting(command).list[k]]]

\* The orders are of the two commands.  What the graph needs of topo_sort: the
\* list it returns is the whole list.  (A fold over lists gives a list.)
ASSUME GraphAssumption ==
    /\ Orders \subseteq [command : {"build1", "build2"}, monorepo : BOOLEAN]
    /\ \A o \in Orders :
          LET s == Sorting(o.command)
              n == Len(TaskRepo(o.command))
          IN  /\ Len(ClTaskList(o.command)) * Len(Repos) \in Nat
              /\ o.monorepo /\ s.thrown = "no" =>
                    s.list \in [1..n -> 1..n] /\ 1..n \subseteq ToSet(s.list)

-----------------------------------------------------------------------------
Answer(a) == answers' = Append(answers, a) /\ stage' = "answered"

\* task_build1_direct on the root: the engine answers, or throws after a suspension
\* and never does.
Direct ==
    /\ stage = "direct"
    /\ \/ Answer("err")
       \/ /\ stage' \in {"crashed", IF order.command = "build2" THEN "direct2" ELSE "monorepo"}
          /\ UNCHANGED answers
    /\ UNCHANGED <<order, queue, in_progress, finished, err_throw>>

\* task_build2_direct on the root: a payload that fails ends the process.
Direct2 ==
    /\ stage = "direct2"
    /\ stage' \in {"monorepo", "exited"}
    /\ UNCHANGED <<order, queue, in_progress, finished, err_throw, answers>>

\* check_monorepo; a monorepo.json that cannot be read; no repositories; the
\* graph, and a throw of topo_sort, in what follows the answer of the engine.
MultiTaskStart ==
    /\ stage = "monorepo"
    /\ \/ (order.monorepo => Repos = <<>>) /\ Answer("ok") /\ UNCHANGED queue
       \/ order.monorepo /\ Answer("err") /\ UNCHANGED queue
       \/ /\ order.monorepo /\ Repos # <<>> /\ UNCHANGED answers
          /\ IF Sorting(order.command).thrown = "no"
             THEN stage' = "run" /\ queue' = Sequenced(order.command)
             ELSE stage' \in {"crashed", "silent"} /\ UNCHANGED queue
    /\ UNCHANGED <<order, in_progress, finished, err_throw>>

\* Mutation: the whole list is taken for its head.
TaskBeginList ==
    /\ stage = "run" /\ queue # <<>> /\ in_progress = {}
    /\ in_progress' = {queue} /\ queue' = Tail(queue)
    /\ UNCHANGED <<order, stage, finished, err_throw, answers>>

\* The lock is free: the next task_repo starts.
TaskBegin ==
    /\ stage = "run" /\ queue # <<>> /\ in_progress = {}
    /\ in_progress' = {Head(queue)} /\ queue' = Tail(queue)
    /\ UNCHANGED <<order, stage, finished, err_throw, answers>>

\* Mutation: the outcome of the last task decides.
TaskEndLast ==
    /\ stage = "run"
    /\ \E tr \in in_progress, ok \in BOOLEAN :
         /\ in_progress' = in_progress \ {tr}
         /\ finished' = Append(finished, [task |-> tr, ok |-> ok])
         /\ err_throw' = ~ok
    /\ UNCHANGED <<order, stage, queue, answers>>


\* A task answers: a failure is remembered and the others still run.  Or it never does:
\* its engine throws after a suspension, or a payload fails; the process ends.
TaskEnd ==
    /\ stage = "run"
    /\ \E tr \in in_progress :
         \/ /\ in_progress' = in_progress \ {tr}
            /\ \E ok \in BOOLEAN : /\ finished' = Append(finished, [task |-> tr, ok |-> ok])
                                  /\ err_throw' = (err_throw \/ ~ok)
            /\ UNCHANGED stage
         \/ /\ stage' \in {"crashed", IF tr[1] = "build2" THEN "exited" ELSE "crashed"}
            /\ UNCHANGED <<in_progress, finished, err_throw>>
    /\ UNCHANGED <<order, queue, answers>>

\* All callbacks of the await came.
AllDone ==
    /\ stage = "run" /\ queue = <<>> /\ in_progress = {}
    /\ Answer(IF err_throw THEN "err" ELSE "ok")
    /\ UNCHANGED <<order, queue, in_progress, finished, err_throw>>

Init ==
    /\ order \in Orders
    /\ stage = "direct"
    /\ queue = <<>> /\ in_progress = {} /\ finished = <<>>
    /\ err_throw = FALSE /\ answers = <<>>

Step == Direct \/ Direct2 \/ MultiTaskStart \/ TaskBegin \/ TaskEnd \/ AllDone
Over == stage \in Final /\ UNCHANGED vars
Next == Step \/ Over
Spec == Init /\ [][Next]_vars /\ WF_vars(Step)

-----------------------------------------------------------------------------
(* Properties.                                                             *)

\* What runs and what has run are tasks of the graph; the errors are those of the runs.
TypeOK ==
    /\ order \in Orders
    /\ stage \in Final \cup {"direct", "direct2", "monorepo", "run"}
    /\ ToSet(queue) \cup in_progress \subseteq ToSet(TaskRepo(order.command))
    /\ err_throw \in BOOLEAN
    /\ answers \in Seq({"ok", "err"})

\* A monorepo build answers only after every repository was built exactly once, and
\* with an error exactly when one of them failed, whichever came last.
AnswerTells ==
    stage = "answered" /\ finished # <<>> =>
        /\ Len(finished) = Len(TaskRepo(order.command))
        /\ {finished[i].task : i \in DOMAIN finished} = ToSet(TaskRepo(order.command))
        /\ answers = <<IF \E i \in DOMAIN finished : ~finished[i].ok THEN "err" ELSE "ok">>

\* No command stops without a word: it comes to an answer, or a failed payload or an
\* exception of an engine that had suspended ends the process.
Answered == <>(stage \in {"answered", "exited", "crashed"})
=============================================================================
