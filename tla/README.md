# t2c: specifications, model checks and proofs

t2c ("text to code") reads a folder of `gen/` scripts, builds a tree of nodes from
them, and walks the tree phase by phase to emit a project: source files, package
files, start scripts, native add-ons. Beside the generator the repository holds the
runtime templates that end up in the generated projects (`tpl/`): the ring and the
worker threads of native pipelines, a websocket client, pub/sub end points, an LLM
request queue, search mirrors, a task tracker.

This directory holds TLA+ modules of the parts that keep state, the TLC
configurations that check them on small instances, and proofs checked by TLAPS.
`PROJECT.json` lists every component, run, mutant, mapped line, hazard and theorem.

## Inventory

| component | state | operations | interacts with | what is hard | what makes it correct |
|---|---|---|---|---|---|
| generation engine (`src/engine`, `folder_wrap`, `monorepo`) | node tree, `_nodegen_pass` marks, `root_stack_list`, `curr_folder`, `current_runner` | `go`, the phases, `walk`, `walk_async`, `inject_to`, `root_push/pop`, `folder_push/pop` | blocks (handlers called by the walk, which call back into it), task graph | handlers grow the tree while it is walked, some walk their own children, some answer later | every node gets every handler in its folder, stacks balanced, one answer, the fixpoint ends |
| task graph (`src/util/task`, `topo_sort`) | `task_repo` list, links, lock, `err_throw` | `task_build1/2`, `multi_task`, `topo_sort` | engine (one global runner), file system | many builds share one runner; one of several fails | each repository built once, failures told, an answer or the end of the process |
| commands and watch (`src/cmd`) | `need_refresh`, timers, watchers, the build loop | directory loops, handlers, build loop | chokidar, task graph | changes while a build runs, missing directories, builds that end the process or never answer | no change is lost while builds come back |
| message ring (`tpl/napi/message_ring.hpp`) | slots, two volatile offsets, overflow list | push, poll for free space, pull, counts | two threads of a pipeline | no lock: every read of the other offset is a race | order, nothing lost, nothing twice, backpressure honest |
| native pipeline runtime (`tpl/napi/pipeline.coffee`, `napi_pipeline.coffee`) | threads, nodes, links, `task_wip_count` | link, start, stop_soft, stop_hard, task_push, task_pull | message ring | termination, torn counts, saturation, threads that do not start | tasks in one place each, what is queued comes out, stop ends and leaves nothing, as far as no read is torn |
| native bindings (`napi` and `erlang_nif` generators, `tpl/napi/macro.hpp`, `tpl/erlang_nif/macro.hpp`) | per call: context, work item, references, copied text; per object: native memory, references, `_deleted`; per Erlang pipeline: pads, `ref_count` of rings | synchronous and asynchronous calls, arguments, results, constructors, free, destructors, `link`, `ep_i/o`, `pad_reset`, `fn_set` | JavaScript's and Erlang's collectors, the thread pool, the main loop, message ring | objects collected or freed during a call, N-API calls that fail half way, callbacks that throw, signs of integers, shared counts, pads changed under a running thread | arguments live while used, a call leaves behind only what is listed, one answer per call, no dangling ring or task |
| websocket client (`tpl/browser_ext/generic`) | socket, queue, reconnect timer, open requests | send, close, reconnect, request, timeouts | server, event mixin | lost connections, late answers | each request answered once |
| end point channels (`tpl/back/util`) | connections per key, last message, intervals | sub, unsub, broadcast | websocket server | awaits between check and use | subscribers get what is current |
| llm queue (`tpl/llm`) | rows of `llm_state`, callbacks per id, waiting and running requests | task_push, call, resume, generate | database, vendor | crash, rate limits, equal requests | each request done once, each caller answered |
| database generators (`src/block/db`, hydrators) | schema, migrations, level storage | generated code | engine | migrations after a crash | idempotent migrations |
| search (`tpl/search`) | index queue, counts | create, update, delete, sync | search server, database | lost updates, restarts | index equals data |
| task tracker (`tpl/task_tracker`) | tree of tasks, actions | move, rename, undo, redo | database | undo after later changes | tree stays a tree, undo inverts |
| file buffers (`tpl/misc`) | queue, pool | push, flush, alloc, free | file system | pushes during a flush | every byte written once |
| blocks that only emit text, screens, third-party code | none of their own | | engine | | |

The pipeline in the default layout is the one place where three kinds of threads meet
the ring; the engine is the one place where handlers change the structure that is being
walked. These two, with the two loops that start generations (the task graph and the
watch) and the native code that every generated add-on goes through, are the core.

## Modules

| module | models | checked by | proved in |
|---|---|---|---|
| `Runner` | `engine/runner.coffee`, `ast.coffee`, `ast_handler.coffee`, `hydrator.coffee`, `block/folder_wrap.coffee`, `block/monorepo.coffee` | `MCRunner` | `Runner_proofs` |
| `TopoSort` | `util/topo_sort.coffee` | `MCMultiTask` | `MultiTask_proofs` |
| `MultiTask` (`Topo_sort` is a constant) | `util/task.coffee` | `MCMultiTask` | `MultiTask_proofs` |
| `WatchWrap` | `cmd/_watch_wrap.coffee` | `MCWatchWrap` | `WatchWrap_proofs` |
| `TaskQueue` | what a ring promises: an unbounded queue | `MCMessageRing` (`IsQueue`) | `MessageRing_proofs` |
| `MessageRing` (implements `TaskQueue`) | `tpl/napi/message_ring.hpp`, two threads | `MCMessageRing` | `MessageRing_proofs` |
| `Pipeline` | `tpl/napi/pipeline.coffee` and the run time that `block/nodejs/napi/napi_pipeline.coffee` generates | `MCPipeline` | `Pipeline_proofs` |
| `Marshal` | numbers through `FN_ARG_*` and `FN_RET_*` of `tpl/napi/macro.hpp`, `type.hpp` | `MCNapiCall` | `NapiCall_proofs` |
| `NapiCall` (extends `Marshal`) | what `block/nodejs/napi/fn_generator.coffee` and `class_generator.coffee` write, `macro.hpp`, `macro.cpp` | `MCNapiCall` | `NapiCall_proofs` |
| `NifRing` | `tpl/erlang_nif/message_ring.hpp`: an operation in one piece, and the torn drain | `MCNifPipeline` | `NifRing_proofs` |
| `NifPipeline` (extends `NifRing`) | `block/nodejs/erlang_nif/erlang_nif_pipeline.coffee`, its `class_generator.coffee`, `tpl/erlang_nif/macro.hpp` | `MCNifPipeline` | `NifPipeline_proofs` |

An `MC` module gives the constants values; `MCMultiTask` also runs `topo_sort` on
every small graph. Definitions whose comment begins with
"Mutation:" belong to no specification: each is a plausible bug of the definition below
it, and shows that the property named with it in `PROJECT.json` would catch that bug.

### Runner

`child_list` is the tree, `pass` the `_nodegen_pass` marks, `hydrated` the nodes whose
handlers a hydrator set. `walk` and the handlers call one another recursively and the
handlers come from many blocks, so the module interprets: `stack` holds the frames of
`walk` and of the handlers, and a handler is a short program of what handlers do to the
engine, such as "make a child through `tr_get`", "make one under the nearest project",
"make one inside the scope of another" (`wrap`), "make one and walk it at once" (`run`),
"inject into another subtree", "walk my children myself". `folder_wrap` and `monorepo`
are such programs with operations of their own. `Load`, `NodegenPass`, `Check`,
`NextPhase` and `Finish` are the stages of `Runner.go`. An exception (`Throw`) is
delivered to the callback when it is thrown inside the `try` of `module.go`, and ends the
process when it is thrown later, from a handler that answered asynchronously. The
callback of the caller may throw too (`Answer`, phase "thrown"): called inside the `try`,
by a run that no command has suspended, it is then called a second time by the `catch`.
`gen_folder`, `runs` and `run_folder` are history.

`ShapesAssumption` says what a document is, and next to nothing of what its blocks do: the
tree is one that `tr_get` builds from the root down (a child listed once, parents there), the
keys a handler creates are keys the document has blocks for, only `folder_wrap` and
`monorepo` loop over folders, a handler that walks its children itself in a phase does not
also skip them in that phase, and what a handler injects into (`hydrator/db.coffee:587, 689`,
`llm.coffee:68`, `project_progress.coffee:37`, `task_tracker.coffee:65`,
`search_db_backend_frontend.coffee:360`) or walks by `walk_fn` (`project_progress.coffee:35`,
`task_tracker.coffee:63`) is not a project or a monorepo (`CalledOK`): a frontend, a migration,
a connector. An `llm_db` put directly into a project would inject into that; the struct it
adds there has no hydrator and the run ends in `Check`. Every such document is in the
theorems, also those whose blocks inject, nest and throw in ways no block of the
repository does today.

### TopoSort and MultiTask

`TopoSort` is the two walks of `topo_sort`, one step per call, link and return: `CycleLoop`,
`CycleLink`, `CycleReturn` for `is_cyclic_util`, whose frames are `calls` and whose marks are
`visited_list` and `in_recursion_list`; `DepthLoop`, `DepthLink`, `DepthReturn` for
`topological_sort_util`, which gives each node its `topo_depth` and the running maximum
of a call is `req_depth`; then the strict checks (`Strict`) and `list.sort` (`ListSort`). The
variable `at` says where it stands, and in the end how it ended. A cycle that is found ends
the walk in one step, all its calls return it. `stack_list_list` is not a variable: its
list d is the nodes of depth d.

`MultiTask` starts with `build1_direct`
(`Direct`), which answers, or ends the process by an exception after a suspend. It links the task graph exactly as the nested loops do (`Link`, the reused loop
variable included), sorts it, and then starts everything at once behind the lock
(`TaskBegin`, `TaskEnd`). A build of a repository is one step with the outcomes `Runner` has
and those of a payload: an answer, an error, an exception that nobody catches
("crashed"), `process.exit(1)` ("exited"). When `topo_sort` throws before a command has
suspended, `runner.coffee:53` catches it and calls a deferral that was used already, and
nothing is left to do ("silent"). The sort is the constant `Topo_sort`, so that the proofs rest only on what
the graph needs of it (`GraphAssumption`: the list returned is the whole list, which is a
part of `DependenciesFirst`), and the configurations give it `Sort` of `MCMultiTask`, any list
that `TopoSort` may return: nothing for a graph with a cycle, else a whole list with
dependencies first. `build2_direct` is one step. The extra
locks of `task_mex_group_hash` are left out: each is made for one `task_repo` and taken by
that one only, so nobody ever waits for one.

### WatchWrap

Per directory, where its loop stands: `poll` (before the look at the disk), `sleep`,
`init` (chokidar started, "ready" awaited), `ready`; events not handled, timers, the
flag and the build loop. `stale` and `reported` are history: changes since the last
build began, and those a ready watcher saw. A synchronous round of the loop
(`Spinning`) keeps the process from serving anything else (`Served`). A run comes back,
ends the process ("dead"), or is never heard of ("lost", the silent case of `MultiTask`);
then no build follows (`Stopped`).

### MessageRing

One step per access of the other thread's offset, so every interleaving of the two
threads' reads and writes is a behaviour; `ppc` and `cpc` say where each stands.
Arithmetic is that of `size_t` (`Unsigned`, `% Word`). Memory is sequentially consistent:
on x86 a store is seen in order and both fences are only barriers for the compiler;
weaker machines are outside the model. `torn` is history: some drain went by a free
space computed from two reads of `_recv_offset` with the receiver's wrap between them.
`RoomHonest` says of a count that it is right while it is used, or off by the whole width of
a `size_t`: nothing in between is ever told. `Delivered` says apart what needs nobody (the
tasks that are published) and what needs the sender to go on (those in the overflow).
`TaskQueue` has the tasks of a ring in one sequence; `IsQueue` maps the slots between the
offsets, the overflow list and the half-done operation of either thread to it.

### Pipeline

The threads of the default layout over rings that are queues with an overflow list:
what `MessageRing` proves of a ring as long as no read was torn. What a torn read does is
a step of its own, recorded in `torn`: `DrainTorn` writes a whole overflow over the ring,
which the input ring and the error rings can meet, and the model stops there;
`StopScheduleTorn` ends phase 1 of `stop_soft` on an absurd count, and the model goes on. In
all other places a torn count does no harm: it makes a worker look saturated or a full
ring roomy, `Backpressure` shows that there is then no overflow to write, and the choice of a
worker is open anyway. Phase 2 tells one thread after the other (`StopShutdown`), while
those not told go on. `sys` is where the
system thread stands in `fan_n1_mod_out` and `fan_1n_mod_in`, `pc` and `hand` where a
worker stands. A step moves one task. Reading before that step is not a step of its own
where the other end of the ring is one thread: room only grows and a task that could be
pulled stays, so the thread may as well have read at the moment it acts. Where several
rings are compared (the choice of a worker) this does not hold and the choice is left
open among the rings that could have been seen best. `Start` includes the thread that is
not created (`Failing`) and the one that gets no core (`Pinned`), `StopSoft` to
`StopHard` are the four phases of `stop_soft`. It is assumed that `start` is not called
while a `stop_soft` is under way. `Sink` is the node the workers are chained to: both
generated callers use `node_o_list[0]`, which is node err.

### Marshal and NapiCall

`Read` is what the `FN_ARG_*` macro of a type makes of a JavaScript value, `Create` what
`FN_RET_*_CREATE` gives back, `Native` the values of the C++ type. Of each call `at` is the
stage, `ctx` the arguments in its context, `mem` what it holds (text, references, the work
item, the context itself), `out` what the native function left and `answer` what JavaScript
was told. `Parsed`, `Refs`, `Allocated`, `Returned` and `Cleared` follow the generated text;
`fault` is the N-API call that fails (one of `Failing`), because what was done before it
has to be undone. `CallSync` is a whole synchronous call; an asynchronous one is `CallAsync`
(`Start` and the ways it is refused) on the main loop, `Run` and `Finish` on the pool (at
most `Pool` at a time), `Complete` back on the main loop, and `Return` when the callback has
returned or thrown. Meanwhile JavaScript makes, drops and frees objects (`New`, `Drop`,
`Free`) and the collector takes what has neither a term nor a reference (`Collect`). A result
that the native function does not assign is whatever was in the memory (`Unassigned`,
`Wild`): a number of its type, or a pointer or a length that nobody may read. `broken` is the
first undefined behaviour the code runs into, after which nothing is claimed: a collected
`this`, a field or a result read that was never assigned (see Divergences). The code does
leave things behind; `MayStay` lists what and when, and `Settled` says that no end of
any call, refused, synchronous or on the pool, leaves anything else.

### NifRing and NifPipeline

`NifRing` has each operation of a ring as one function of it, `NifPipeline` the functions
an Erlang process calls to build a pipeline (`PadAdd`, `PadReset`, `Ep`, `Link`, `FnSet`,
`Start`), to push and pull, and the thread in `fan_n1_mod_out` (`Fan`). `ref_count` and
`life` are a ring's count and whether it was made or deleted, `refs`, `term` and `gone` the
references, terms and destructors of Erlang's resources. `Flow` is which node is linked
behind which; it has no cycle (`PipelineAssumption`): round a cycle a task would overtake
those behind it, and the layouts that `pipeline.coffee` makes have none. Integers are of `Half32`: an
index or a size is read as `int` and compared as `size_t`.

Pads may be changed at any time: before the first task, with tasks inside, with the thread
running. `link` and `pad_reset` drop the tasks of a ring they let go of (the TODOs at 145 and
156); `relinked` records it, and `Kept` holds until then, also when new pads and links are
made meanwhile. An operation of a ring is one step where the other thread is at the other end of
that ring: the sender alone moves `_send_offset` and the overflow, the receiver alone
`_recv_offset`, and a task is in its slot before it is published, so an operation that is
done in between changes only how much room or how many tasks are seen, and the same is
seen when the step is a little earlier or later. The exception is the drain by a torn count
(`DrainTorn`, in the words of `ring_fifo`), and the model stops there. Where both threads are at
the same end of a ring, or Erlang changes the vectors that the thread reads by reference,
the code has a data race (`Race`), and the model stops there too.

## Runs

| run | instance | states | shows |
|---|---|---|---|
| `runner` | 25 documents: connectors that inject into subtrees already left, into one another and into a subtree not reached yet; `folder_wrap` with and without children; a monorepo of two projects; failing, slow and unknown blocks; files that do not load | 12k | the fixpoint is reached, each handler of an emit phase runs exactly once in the folder of its node, both stacks are empty between walks, one answer unless the callback itself throws, and generation ends |
| `runner_gen_folder` (violation) | one document with `folder_wrap` | | nodegen visits the children of a `folder_wrap` again outside its folder |
| `multi_task` | build1 of a monorepo of 5 repositories with every outcome of every build; build1 and build2 of a project; then `topo_sort` on every graph of at most 4 nodes, strict and not | 548k | everything built once, errors told, an answer or the end of the process; cycles are found exactly, dependencies come first, strict mode leaves no choice |
| `multi_task_build2` (violation) | build2 of a monorepo | | no answer and no end: the graph has a cycle |
| `watch` | 3 directories, one may be missing, 3 edits | 7k | no change that a watcher saw is lost, and it is built as long as builds come back |
| `watch_spin` (violation) | the same | | a missing directory stops the process |
| `ring` | 3 slots, `size_t` of 16 values, 8 tasks | 128k | order, conservation, honest room, delivery, and that the ring is a `TaskQueue` |
| `ring_fifo` (violation) | the same | | a torn read overwrites tasks |
| `pipeline` | 2 workers, rings of 1, 3 task objects used again for ever, start and stop for ever, torn counts and drains | 1.17M | each object in one place, the count of `stop_soft` right, overflow only where nobody asks, nothing lost on stopping; as far as nothing was torn |
| `pipeline_live` | 1 worker, rings of 2, 3 task objects | 139k | what is queued gets out, `stop_soft` answers |
| `napi_call` | 2 calls of functions of every form, synchronous and asynchronous, with an object and a buffer made, dropped, freed and collected meanwhile, every N-API call failing in turn | 1.05M | arguments live until the callback returned, every end of a call leaves only what is listed, one answer, values are of their types |
| `nif_pipeline` | 2 nodes, the second with two inputs; 5 calls that change pads, at any time; integers with a sign, 4 tasks, 3 rings, torn drains | 1.49M | no dangling ring or task, counts and offsets in range, no task lost, doubled or overtaken until a pad lets go of a ring or a drain is torn |

Bounds and why they are enough. `Runner`: a document is finite and its handlers are
programs, so the only bound is the choice of documents; each operation a handler can do
occurs in one, also where the order of the walk makes it hard (an injection behind the
walk, a walk of the rest after new children). `MaxNode = 4` has every cycle behind a
visited node, every diamond and orphan that the algorithm tells apart. `MaxEdits = 3`
lets one change come during a build, one with the timer of another running, and one
before the watcher is ready. `Size = 3` is the smallest ring in which full, empty and
wrapped around differ, `MaxTask = 8` fills it with an overflow behind it twice, and a word
of 16 values is more than twice the size. `pipeline` has rings of one task (`Cap = 1`) and
three task objects: a ring is full at once, two tasks more are an overflow that a drain
can tear, a worker with a task is saturated with no room, and both workers can be. A
ring of one task cannot be saturated and have room (`Threshold = 1`); that needs `Cap = 2`, which
`pipeline_live` has: its worker is saturated with room left, so the fallback of
`fan_1n_mod_in` is what moves the next task, and with its ring full the third waits. There one
worker is enough: what could hold a task up is that worker, its ring, or the turns of the
system thread. Task objects are used again, so a behaviour is not bounded in length.
`napi_call`: a width of 2 and 4 for the halves of 32 and 64 bits, and the inputs -5 and 3: the
one fits no integer type and changes its sign in a signed one, also in the context of an
asynchronous call (`i64`, `u64`); the other fits all but an `i32`. Two calls can share an
object, and with one thread of the pool one waits while the other runs; more calls only
repeat that. `Failing` has each N-API call that can fail while memory is held; those of the
argument count (`FN_ARG_HEAD`) and the deletes of `_clear` are not among them. `nif_pipeline`:
`Half32 = 4`, indices that are negative, right and too large, sizes 2 and 4 of which the
second does not fit an `i32` and is refused. `MaxPads` gives the second node two inputs, so that
an output linked over leaves its ring on a pad that no link has replaced, and `Changes = 5`
calls are what it takes to make these pads, link them and link over once; `Rings = 3`. A ring of one
slot overflows at the second task, and four tasks have the list begun, partly moved, and
moved to its end. A task is made just before its push; `Forgets = 1` of them is forgotten,
which is what a ring could still hold.

Deadlock is checked except where the edits, calls or tasks are bounded and the process
comes to rest when they are used up (`watch`, `napi_call`, `nif_pipeline`).

Fairness. `Runner` and `MultiTask`: code runs on and an asynchronous command ends
(weak fairness of the whole step, no choice is favoured). `WatchWrap`: node serves its
queues in order, so each handler, timer and loop that stays ready is served; the user
need not do anything, and while the process spins nothing else is ready. `MessageRing`:
an operation that has begun goes on, and the receiver pulls again between the counts it
asks for, which is what the loop of a node does (strong fairness of `CanPull`, as it finds the
other thread anywhere). No sender has to begin an operation: a node that produces
nothing does not, so `Delivered` says of the overflow only what happens if its sender goes
on. `Pipeline`: threads are scheduled, the function of a node returns,
the poll loop and the timers of `stop_soft` go round; nobody has to push, start or stop,
and no read has to be torn.
`Progress` and `StopEnds` are claimed once pushing ceases: with a caller that pushes for
ever, `fan_n1_mod_out` begins at its first input in every call and may never get to the
last while its endpoint keeps filling up.

## Proofs

All are for every value of the constants, under the named assumptions of the modules:
`SizeAssumption` and `WordAssumption` (`Word >= 2 * Size`, which every ring that fits in
memory satisfies), `EditsAssumption`, `GraphAssumption` (see `MultiTask`), and that counts,
widths and sizes are natural numbers and that functions and values are what JavaScript
and the generators have (`SizesAssumption`, `LayoutAssumption`, `PipelineAssumption`,
`CallAssumption`, `HalfAssumption`), and that the links of a list are nodes of it
(`GraphsAssumption`).

- `MessageRing_proofs`: `TypeCorrect` (`TypeOK` is inductive by itself, torn reads included),
  `FifoUnlessTorn`, `NothingLost`, `RoomIsThere` and `RingIsQueue`. That a task pulled is the next one needs
  the content of every slot between the offsets (`Conserved`), that a write leaves those
  slots alone needs that the free space a sender believes in is there (`RoomHonest`), and
  that needs what each thread knows in the middle of an operation (`SenderKnows`,
  `ReceiverKnows`). `Inv` is their conjunction (`InvHolds`); `InvStep` goes through the actions. The
  refinement maps the step that advances an offset to the push or pull of `TaskQueue` and
  every other step to a stutter.
- `Pipeline_proofs`: `TypesCorrect`, `EachObjectOnce`, `CountIsHonest`, `BackpressureHolds`,
  `StopLeavesNothing`, `StopAnswersTrue`, all safety properties of the module. One inductive
  invariant, `Types /\ PlacesHold /\ Control /\ Backpressure /\ Room /\ Counted /\ CleanInside`:
  the rings are read as one function of sequences (`All`), and a step moves one task from
  one place to another (`Moves`), so that counting the places a task is in is the same
  lemma for every action. `Room` is why a thread that looked may push: between its look
  and its push nobody else pushes to that ring. `Counted` relates `task_wip_count` to what is
  inside, and `CleanInside` what phase 1 of `stop_soft` has read to what is left. What
`TypesCorrect`, `BackpressureHolds` and `StopAnswersTrue` say holds of torn reads too; the other
three say up to which tear.
- `WatchWrap_proofs`: `WatchTypes` and `NoLostWakeUp`: `WakeKept` with `TypeOK`, which is
  inductive; a build that begins forgets everything because it reads everything (`BuildForgets`).
- `MultiTask_proofs`: `AnswerIsTrue`, `TaskTypes`. The invariant is a balance:
  each `task_repo` waits, runs or is done, together as many as the graph has, and the error
  remembered is that of those done.
  `CycleIsFound`, `LinksComeFirst` and `StrictLeavesNoChoice` are about `TopoSort`, with the
  invariant `TopoInv`. The calls of a walk are a path in the graph (`Chained`), so a link back to
  one of them closes a cycle (`CycleOfCalls`). The nodes the cycle check has left link to
  nodes it has left, and there is no cycle among these (`Checked`): a node that is left next
  is in no such cycle, as nothing left before links to it. When all are left there is no
  cycle in the graph. The second walk rests on that: a link that was visited is not on the
  path, so it has its depth, and every depth is one more than the largest of its links
  (`Above`). In a sorted list that passed the strict checks depths grow by one, so each
  node links to its neighbour.
- `NapiCall_proofs`: `RoundTrip` about the operators of `Marshal`, and `CallTypes`; `ArgumentsLive` (an argument of a queued call is alive because the
  call holds a reference, the reference is counted by the object, and a counted object is
  not collected: `HeldLive`, `Referenced`, `Given2`), `MemorySettled` and `EachCallAnsweredOnce`
  (one invariant per call and stage, `CallsInv`: what is assigned while it is pending, what
  is told while it is telling, and of each way a call can end what is left).
- `NifRing_proofs`: `DrainKeeps`, `PushAppends`, `PullTakes`: for every size, every offset and
  every state of the overflow list a ring is a queue. The arithmetic is in `Wrap`, `Grows`
  and `AheadOf`; `InsideAt` says where the k-th task of a ring lies.
- `NifPipeline_proofs`: `NothingDangles` and `PipelineTypes`. On each side at most one pad has a
  ring (`OneEnd`), one with pads on both sides has a count of 2 (`BothEnds`), so a link that
  takes a ring from one pad leaves it 1 if another has it; a ring is deleted before its
  count is below 0. No task is destroyed because the constructor keeps a reference.
  `TasksKept` is about the ways of tasks. As long as no pad lets go of a ring, pads and links
  that are made meanwhile only add to the ways (`Grown`). A ring has one input pad and the node behind it
  writes each function's tasks to one output, so behind a ring there is at most one ring;
  the flow has no cycle, so none comes again on a way (`NeverBack`). Then a task that was
  sent and is not out lies in one ring or overflow list of its way (`OnePlace`,
  `Somewhere`), and of two tasks sent into one node the earlier is at every moment as far
  or further (`InLine`, `LeftInLine`, `OutInLine`). That `Fan` finds a place for the task
  in the lists of `Kept` is a pigeonhole argument (`FewInside`).

- `Runner_proofs`, for every document of `ShapesAssumption`:
  - `TypesHold`: `tr_get` keeps a tree a tree (`GrownTree`) and only extends it (`Extends`),
    and the frames, the roots and the marks are about nodes of it.
  - `StacksBalanced` and `EmittedInFolder`: the frames determine both stacks. `Ctx` reads the
    stack from the bottom and says which root and which folder each frame must have found
    and what it has put on top; `Stacked` holds of every prefix. So when the last frame
    returns nothing is left over, and an emit handler finds the folder of its own path
    because each frame below it is for an ancestor (`Chain`).
  - `HandlersRunOnce`: while a walk is under way the frames say which nodes had their
    handler (`Ran`): those in subtrees to the left of the frames' next children. A step
    changes that set by the one node whose handler starts. At the end of the walk it is the
    whole tree but what is below a handler that claimed its children; that last part is an
    induction over the length of a path, by the least path that would be wrong (`LeastOf`).
  - `AnswerOnce`: `phase` tells what was answered, whatever is thrown, when, and by whom,
    the callback included.
  - `EverythingGenerated`: `AllGenerated` does not follow from the marks, since the walk of a
    pass has gone by when a handler adds to the left of it. The invariant `Generates` says of
    a pass of nodegen three things. `Guided`: the walks under a frame are those of all the
    ancestors of its node, and each is in the range of its loop. `AllSettled`: what a marked
    handler makes under its own node or injects is in the tree. `Unmissed`: as long as the
    pass found nothing new and only marked handlers are at work (`Calm`), some frame will
    still get to every unmarked node (`Reached`). A handler adds under `curr_root`, and
    below it stands a walk that has not come to its children (`SafeRoot`, `Covers`); or
    under an ancestor, which has a walk that will see a new last child (`Held`); or under
    its own or an injected node, where a marked handler finds what it makes (`Settled`).
    Each of these keeps `Reached` (`ReachedGrows`). When `found_count` is 0 with no frame left,
    no node is unmarked.

The provers cannot use the library's induction theorems whose parameter is an operator,
but a set of naturals has a least element (`LeastOf`, from `WFMin`), which is as good where
what is proved by induction can be written as a set; `Runner_proofs` and
`NifPipeline_proofs` use it for paths, ranks and stacks.

Every invariant a passing run checks is stated by a theorem. Only model-checked is all
liveness (`Ends`, `Answered`, `Noticed`, `Delivered`, `Progress`, `StopEnds`), which
needs fairness and `ENABLED` and is out of the prover's reach.

## Divergences

Four have a run and an entry under "findings" (`runner_gen_folder`, `multi_task_build2`,
`watch_spin`, `ring_fifo`). These were met while modelling and have no run:

- `monorepo.coffee:22` calls the handler of a child before `root_push`, so a block call in
  that handler adds to the caller's node.
- `task.coffee:151` loops over an empty range: the order between repositories that the
  requirements ask for is never linked.
- `_watch_wrap.coffee:17`: what changes before a watcher is ready is not built until
  something else changes.
- `message_ring.hpp:168`: the count told to a receiver can be torn like that told to a
  sender. `stop_soft` subtracts such a count, so it can end phase 1 too early and stop the
  threads with tasks inside (`StopScheduleTorn`); `StopClean` excepts it.
- `message_ring.hpp:133`, in a pipeline: the input ring and the error rings can have an overflow
  when the count is torn, and lose tasks as in `ring_fifo` (`DrainTorn` in `Pipeline` and
  `NifPipeline`).
- `message_ring.hpp:154`: the overflow list shrinks only when it was drained to its end, so
  a ring that is never idle keeps growing it; the note at line 124 relies on backpressure,
  which the first ring (`task_push`) and the error rings do not have.
- `pipeline.coffee:155` calls `thread_stop_hard_sync` and line 115 `stop_sync`; the generated
  class has neither (`stop_hard_term`, `stop_hard_kill`). `Pipeline` ends in "crashed" there.
- `default_layout` makes node err first, so the `node_o_list[0]` to which the generated
  callers chain their workers (`napi_pipeline.coffee:729`, `:1036`) is node err: results
  come out of it too, `_node_o_idx` cannot tell a failed task from a finished one, and node
  out has no input. With `Errors = FALSE` and `Sink = "err"` `Content(Failed)` is not empty.
- A task that overflows an error ring stays there until the same worker gets another
  task (`napi_pipeline.coffee:649-658` returns before the overflow is moved up), and one in
  the overflow of the input ring until another push: `stop_soft` then waits for ever
  (`Stuck` in `StopEnds`).
- `runner.coffee:302` passes `fn`, which that function does not have, to `walk_async`: the min
  deps phase of a `folder_wrap` with children throws.
- `runner.coffee:47-54`: the callback is called inside the `try`, so what it throws
  synchronously is told to it again as an error of the generation.
- `napi_pipeline.coffee:520`: a worker that cannot have its core returns without resetting
  `started`; `stop_soft` waits for it until its time limit and then ends the process.
- `erlang_nif_pipeline.coffee:139-160`: a ring that is linked over goes with the tasks inside,
  and `pad_reset` forgets rings without counting; nothing keeps a process from either, or from
  changing a node's pads under the thread (`relinked`, `Race`).
- `fn_generator.coffee:434`: `this` of an asynchronous method is kept as a bare pointer; when
  JavaScript drops and collects the object the pool works on freed memory (`broken =
  "collected this"` in `NapiCall`).
- `fn_generator.coffee:751`, `:759`: `_clear` after a failed reference or work item deletes
  fields that were never assigned (`broken = "unassigned field"`). The result fields of the
  context (`:487-515`) have no first value either: a function that leaves a pointer alone
  has it read.
- `napi/macro.hpp:508`: `FN_ARG_THIS` has no check of the object's class; `:182-206`: text that
  was copied is not freed when a later argument is refused; `:166`: `FN_ARG_F32` lacks a
  semicolon. The results of type str and buf are freed by a synchronous call and not by
  an asynchronous one, whose pointer the craft form leaves uninitialised and whose type
  does not fit the parameter it is passed to.
- `erlang_nif/macro.hpp:87-92` reads a `u32` with `enif_get_int`; `:353-359` gives back the term of
  a wrapper that may be stale.
- `erlang_nif_pipeline.coffee:103`, `napi_pipeline.coffee:100`: `fn_set` of 0 is meant to unset a
  function, but 0 - 1 has no sign and is out of range.
- `erlang_nif/class_generator.coffee:106-121`: the constructor never gives its own reference
  back, and the destructor is where it is released, so no resource is ever freed. What
  `Alive` shows rests on it: the rings keep no reference to their tasks.
- A ring of size 0, which every size argument allows, is written past its end by the
  first push (`broken = "ring of size 0"`).

## Not modelled

Policies and `file_render` candidates of the engine, `build2.json` recursion, directories
that disappear while watched. Of the native layer: `buf_val`, `f32` arguments, results of
several values, cancelled work, the fan-in classes and `task_clear` of the ring (nothing
uses them), the overflow of `task_uid`, rebuilding an N-API pipeline while it runs, the Erlang
macros marked "TODO LATER" and the Windows paths of the thread helpers. Building and
makefiles, text generation by the blocks, screens, assets and third-party code have no
state of their own. The runtime templates for browsers and servers are not modelled.

## Plan

What a next step would add, in this order:

1. `WsClient` (`tpl/browser_ext/generic`: reconnect, send queue, request timeouts, events)
   composed with `EndpointChannelKey` (`tpl/back/util`): each request answered once,
   subscribers get what is current, a closed connection is in no channel.
2. `LlmQueue` (`tpl/llm`): rows that survive a crash, limits, retries, equal requests.
3. `SearchMirror` (`tpl/search`), `TaskTree` (`tpl/task_tracker`: the tree stays a tree, undo
   inverts), migrations and level storage of the database generators, `FsWriteBuf`.
4. The rest of the engine: policies, `file_render`, `build2.json`, and the effects of the
   blocks as handler programs read from each block's source.
5. The ring of `Pipeline` as an instance of `TaskQueue`, and `Topo_sort` of `MultiTask` as the
   outcome of `TopoSort` on its graph.
