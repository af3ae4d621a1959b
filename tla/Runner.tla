------------------------------- MODULE Runner -------------------------------
(***************************************************************************)
(* One generation run of the engine: src/src/engine/runner.coffee with the *)
(* tree of ast.coffee, the folder stack of ast_handler.coffee, the         *)
(* hydrators and the two blocks that steer a walk, folder_wrap and         *)
(* monorepo.                                                               *)
(*                                                                         *)
(* A node is named by its path from the document root: the keys (type and  *)
(* name) under which tr_get created it and its ancestors.  What a handler  *)
(* of a block does to the tree is a short program of operations, so that   *)
(* one interpreter stands for every block; the programs come from a shape, *)
(* which Init chooses among Shapes.                                        *)
(***************************************************************************)
EXTENDS Naturals, Sequences, FiniteSets, SequencesExt

CONSTANT Shapes       \* the documents that are generated

(***************************************************************************)
(* A shape: top is the key of the root, declared the tree of the gen       *)
(* files (node |-> keys of its children), loads whether those files load,  *)
(* block gives per key                                                     *)
(*   type      : the node type, a key being a type with a name             *)
(*   nodegen   : what its nodegen handler does                             *)
(*   walks     : the phases whose handler walks the children itself and    *)
(*               returns true (already_processed_child_list)               *)
(*   skips     : the phases whose handler returns true without a walk      *)
(*   early     : def itself assigns the handlers (else a hydrator does)    *)
(*   known     : some hydrator of the project's policies matches the node  *)
(*   fails     : the phases in which the handler throws                    *)
(*   slow      : emit_min_deps answers after an asynchronous command       *)
(*                                                                         *)
(* An operation of a nodegen program:                                      *)
(*   make, own : a block call under curr_root; under the handler's node    *)
(*   wrap      : a block call in the scope of a wrapping block `in`        *)
(*   above     : a block call under the nearest node of a type             *)
(*   run       : a block call under curr_root, then ctx.walk_fn on its node*)
(*   inject    : ctx.inject_to a node of the project                       *)
(*   only, mark, rest : walk_child_list_only_fn; idx = child_list.length;  *)
(*               walk_child_list_only_fn from idx                          *)
(* Only the two blocks of Program enter, leave and loop over folders.      *)
(***************************************************************************)
OpFields == [make |-> {"key"}, own |-> {"key"}, wrap |-> {"in", "key"},
             above |-> {"type", "key"}, run |-> {"key"}, inject |-> {"to", "key"},
             only |-> {}, mark |-> {}, rest |-> {}]

\* A block is what def and the handlers assigned with it make of a node; a node that
\* walks its children itself in a phase does not skip them, and the two blocks that
\* walk in every phase never do.
BlockOK(b, keys) ==
    /\ b.nodegen \in Seq(Range(b.nodegen))
    /\ \A o \in Range(b.nodegen) :
          /\ o.op \in DOMAIN OpFields
          /\ "key" \in OpFields[o.op] => o.key \in keys
          /\ o.op = "wrap" => o.in \in keys
    /\ b.walks \cap b.skips = {}
    /\ b.type \in {"folder_wrap", "monorepo"} => b.skips = {}

\* A tree as tr_get builds it: from the root down, a child listed once.
TreeOK(t, keys) ==
    /\ <<>> \in DOMAIN t
    /\ t = [n \in DOMAIN t |-> t[n]]
    /\ \A n \in DOMAIN t :
          /\ n \in Seq(keys) /\ t[n] \in Seq(keys)
          /\ \A i, j \in 1..Len(t[n]) : t[n][i] = t[n][j] => i = j
          /\ \A i \in 1..Len(t[n]) : Append(n, t[n][i]) \in DOMAIN t
          /\ \A i \in 0..Len(n) : SubSeq(n, 1, i) \in DOMAIN t
          /\ n # <<>> => Contains(t[Front(n)], Last(n))

\* Handlers inject into frontends and migrations and walk connectors: never a project
\* or a monorepo, whose walk is the business of what stands above them.
Looping == {"project", "monorepo"}
CalledOK(block) ==
    \A b \in Range(block) : \A o \in Range(b.nodegen) :
        /\ o.op = "inject" /\ o.to \in DOMAIN block => block[o.to].type \notin Looping
        /\ o.op = "run" => block[o.key].type \notin Looping

ASSUME ShapesAssumption ==
    \A s \in Shapes :
        /\ s.top \in DOMAIN s.block
        /\ TreeOK(s.declared, DOMAIN s.block)
        /\ \A k \in DOMAIN s.block : BlockOK(s.block[k], DOMAIN s.block)
        /\ CalledOK(s.block)

VARIABLES
    shape,
    phase,                        \* where Runner.go stands
    child_list,                   \* per node, the keys of its children
    pass,                         \* nodes with data_hash._nodegen_pass
    hydrated,                     \* nodes a hydrator gave their handlers
    hydrator_on,                  \* ctx_nodegen.hydrator_fn is set
    found_count,
    stack,                        \* the frames of walk and of handlers
    curr_root, root_stack_list,   \* where a block call adds its node
    curr_folder, folder_stack_list,
    gen_folder,    \* per node, the curr_folder its last nodegen recorded
    runs,          \* history: per node, calls of its handler in this phase
    run_folder,    \* history: per node, curr_folder at the last such call
    outcome,       \* the answers given to the callback, in order
    sync           \* still inside the try of module.go

tree   == <<child_list, pass, hydrated, hydrator_on, found_count>>
roots  == <<curr_root, root_stack_list>>
folds  == <<curr_folder, folder_stack_list>>
hist   == <<gen_folder, runs, run_folder>>
vars   == <<shape, phase, tree, stack, roots, folds, hist, outcome, sync>>

Null      == <<"null">>
DocRoot   == <<>>
PhaseList == <<"load", "nodegen", "check", "validator", "codebub", "codegen", "min_deps">>
Emitting  == {"validator", "codebub", "codegen", "min_deps"}
Final     == {"done", "failed", "crashed", "thrown"}  \* thrown: by the caller's callback
Nodes     == DOMAIN child_list
KeyIn(s, n)  == IF n = DocRoot THEN s.top ELSE Last(n)
TypeIn(s, n) == s.block[KeyIn(s, n)].type
KeyOf(n)     == KeyIn(shape, n)
Block(n)     == shape.block[KeyOf(n)]

\* type_filter_search: the nearest of a type among a node and its ancestors.
TypeFilterSearch(n, type) ==
    LET hit == {i \in 0..Len(n) : Block(SubSeq(n, 1, i)).type = type}
    IN  IF hit = {} THEN Null ELSE SubSeq(n, 1, Max(hit))

\* The handlers of folder_wrap and of monorepo, the same in every phase.
FolderWrapProgram == <<[op |-> "enter"], [op |-> "only"], [op |-> "leave"]>>
MonorepoProgram   == <<[op |-> "each"]>>

Program(n) ==
    IF Block(n).type = "folder_wrap" THEN FolderWrapProgram
    ELSE IF Block(n).type = "monorepo" THEN MonorepoProgram
    ELSE IF phase = "nodegen" THEN Block(n).nodegen
    ELSE IF phase \in Block(n).walks THEN <<[op |-> "only"]>>
    ELSE <<>>

\* Mutation: what a handler returns is dropped, as walk_fn of nodegen does.
ProcessedNever(n) == FALSE

\* already_processed_child_list; walk_fn of nodegen drops what the handler returned.
Processed(n) ==
    /\ phase # "nodegen"
    /\ \/ Block(n).type \in {"folder_wrap", "monorepo"}
       \/ phase \in Block(n).walks \cup Block(n).skips

\* hydrator_apply gives handlers to the nodes that def left without.
HasHandlers(n) == Block(n).early \/ n \in hydrated
Hydrates(n)    == hydrator_on /\ Block(n).known

-----------------------------------------------------------------------------
(* The tree, the root stack and the folder stack.                          *)

\* Mutation: the child is listed and never made.
GrownListedOnly(t, p, k) == [t EXCEPT ![p] = Append(@, k)]

\* The tree after tr_get of key k at p.
Grown(t, p, k) ==
    IF Contains(t[p], k) THEN t
    ELSE [m \in DOMAIN t \cup {Append(p, k)} |->
            CASE m = p -> Append(t[p], k)
              [] m = Append(p, k) -> <<>>
              [] OTHER -> t[m]]
TrGet(p, k) == child_list' = Grown(child_list, p, k)

RootPush(n) == /\ root_stack_list' = Append(root_stack_list, curr_root)
               /\ curr_root' = n
RootPop     == /\ curr_root' = Last(root_stack_list)
               /\ root_stack_list' = Front(root_stack_list)

FolderPush(f) == /\ folder_stack_list' = Append(folder_stack_list, curr_folder)
                 /\ curr_folder' = Append(curr_folder, f)
FolderPop     == /\ curr_folder' = Last(folder_stack_list)
                 /\ folder_stack_list' = Front(folder_stack_list)

(* Frames of the call stack: "walk" and "only" are walk (walk_async) and   *)
(* walk_child_list_only of Runner.go, "mono" the walk of monorepo.coffee,  *)
(* "each" that block's loop over its projects, "fn" a handler.  pc counts  *)
(* the operations of a handler and the children of a walk; mark is the     *)
(* child count a handler or the loop of a monorepo remembered.             *)
Frame(k, n, pc) == [k |-> k, n |-> n, pc |-> pc, mark |-> 0]
Top       == Last(stack)
Under     == Front(stack)
Moved     == Append(Under, [Top EXCEPT !.pc = @ + 1])
Call(f)   == stack' = Append(Moved, f)
Return    == stack' = Under
At(k)     == phase \notin Final /\ stack # <<>> /\ Top.k = k

\* cb2 of module.go deletes the runner and calls the caller's callback.  It returns; or
\* it throws, and when cb2 was called in the try of module.go the catch calls it again.
Answer(end, a, in_try) ==
    /\ \/ phase' = end /\ outcome' = Append(outcome, a)
       \/ phase' = "thrown" /\ outcome' = outcome \o (IF in_try THEN <<a, "err">> ELSE <<a>>)
    /\ stack' = <<>>
    /\ child_list' = <<>>
    /\ curr_root' = Null /\ root_stack_list' = <<>>
    /\ UNCHANGED <<shape, pass, hydrated, hydrator_on, found_count, folds, hist, sync>>

\* An exception: module.go catches it while no command suspended the run.
Throw ==
    \/ sync /\ Answer("failed", "err", FALSE)
    \/ /\ ~sync /\ phase' = "crashed" /\ stack' = <<>>
       /\ UNCHANGED <<shape, tree, roots, folds, hist, outcome, sync>>

-----------------------------------------------------------------------------
(* Handlers.                                                               *)

\* The call: walk_fn hydrates the node first; then the handler starts.
FnCall ==
    /\ At("fn") /\ Top.pc = 0
    /\ LET n == Top.n IN
       IF /\ HasHandlers(n) \/ (phase = "nodegen" /\ Hydrates(n))
          /\ phase \notin Block(n).fails
       THEN /\ stack' = Moved
            /\ hydrated' = IF phase = "nodegen" /\ Hydrates(n)
                           THEN hydrated \cup {n} ELSE hydrated
            /\ hydrator_on' = (hydrator_on \/ (phase = "nodegen" /\ Block(n).type = "project"))
            /\ IF phase = "nodegen"
               THEN /\ gen_folder' = [m \in DOMAIN gen_folder \cup {n} |->
                                        IF m = n THEN curr_folder ELSE gen_folder[m]]
                    /\ UNCHANGED <<runs, run_folder>>
               ELSE /\ runs' = [runs EXCEPT ![n] = @ + 1]
                    /\ run_folder' = [run_folder EXCEPT ![n] = curr_folder]
                    /\ UNCHANGED gen_folder
            /\ UNCHANGED <<shape, phase, child_list, pass, found_count, roots, folds,
                           outcome, sync>>
       ELSE IF phase = "min_deps"
       THEN Answer("failed", "err", sync)         \* an error passed to the callback
       ELSE Throw

AtOp(o) == At("fn") /\ Top.pc \in 1..Len(Program(Top.n)) /\ Program(Top.n)[Top.pc].op = o
Op      == Program(Top.n)[Top.pc]

\* What a handler does beside the tree and its own place: nothing.
MadeOnly == UNCHANGED <<shape, phase, pass, hydrated, hydrator_on, found_count, roots,
                        folds, hist, outcome, sync>>

\* A block call that adds its node under curr_root.
MakeHere ==
    /\ AtOp("make")
    /\ TrGet(curr_root, Op.key)
    /\ stack' = Moved
    /\ MadeOnly

\* A block call in the scope of a block that adds itself under curr_root.
MakeWrapped ==
    /\ AtOp("wrap")
    /\ LET wrapped == Grown(child_list, curr_root, Op.in)
       IN  child_list' = Grown(wrapped, Append(curr_root, Op.in), Op.key)
    /\ stack' = Moved
    /\ MadeOnly

\* A block call inside root_wrap of the handler's own node.
MakeOwn ==
    /\ AtOp("own")
    /\ TrGet(Top.n, Op.key)
    /\ stack' = Moved
    /\ MadeOnly

\* A block call that adds its node under the nearest ancestor of a type: tr_get of
\* undefined when there is none.
MakeAbove ==
    /\ AtOp("above")
    /\ LET p == TypeFilterSearch(curr_root, Op.type) IN
       IF p = Null THEN Throw
       ELSE /\ TrGet(p, Op.key)
            /\ stack' = Moved
            /\ MadeOnly

\* A block call under curr_root whose node the handler then walks by ctx.walk_fn.
RunMade ==
    /\ AtOp("run")
    /\ TrGet(curr_root, Op.key)
    /\ Call(Frame("fn", Append(curr_root, Op.key), 0))
    /\ MadeOnly

\* inject_to a node of the project: add a child there, then call its handler.
InjectTo ==
    /\ AtOp("inject")
    /\ LET p == TypeFilterSearch(Top.n, "project") IN
       IF p = Null \/ ~Contains(child_list[p], Op.to) THEN Throw
       ELSE /\ TrGet(Append(p, Op.to), Op.key)
            /\ Call(Frame("fn", Append(p, Op.to), 0))
            /\ MadeOnly

\* ctx.walk_child_list_only_fn root.  In min deps it names a variable `fn` that no
\* enclosing scope has: the block fn, which adds a child to every node it is given.
WalkOnly ==
    /\ AtOp("only")
    /\ IF phase = "min_deps" /\ child_list[Top.n] # <<>> THEN Throw
       ELSE /\ Call(Frame("only", Top.n, 1))
            /\ RootPush(Top.n)
            /\ UNCHANGED <<shape, phase, tree, folds, hist, outcome, sync>>

\* idx = root.child_list.length
Mark ==
    /\ AtOp("mark")
    /\ stack' = Append(Under, [Top EXCEPT !.pc = @ + 1, !.mark = Len(child_list[Top.n])])
    /\ UNCHANGED <<shape, phase, tree, roots, folds, hist, outcome, sync>>

\* ctx.walk_child_list_only_fn root, idx
WalkRest ==
    /\ AtOp("rest")
    /\ Call(Frame("only", Top.n, Top.mark + 1))
    /\ RootPush(Top.n)
    /\ UNCHANGED <<shape, phase, tree, folds, hist, outcome, sync>>

EnterFolder ==
    /\ AtOp("enter")
    /\ FolderPush(KeyOf(Top.n)) /\ stack' = Moved
    /\ UNCHANGED <<shape, phase, tree, roots, hist, outcome, sync>>

\* Mutation: the folder is never left.
LeaveFolderKept ==
    /\ AtOp("leave") /\ stack' = Moved
    /\ UNCHANGED <<shape, phase, tree, roots, folds, hist, outcome, sync>>

LeaveFolder ==
    /\ AtOp("leave")
    /\ FolderPop /\ stack' = Moved
    /\ UNCHANGED <<shape, phase, tree, roots, hist, outcome, sync>>

\* The loop of a monorepo, each project walked in its folder: `for child in` reads the
\* length of the list once, when it starts.
EachProject ==
    /\ AtOp("each")
    /\ Call([Frame("each", Top.n, 1) EXCEPT !.mark = Len(child_list[Top.n])])
    /\ UNCHANGED <<shape, phase, tree, roots, folds, hist, outcome, sync>>

\* The walk under the handler skips the children when the handler processed them.
Below(n) ==
    IF Under # <<>> /\ Last(Under).k \in {"walk", "mono"}
    THEN Append(Front(Under),
                [Last(Under) EXCEPT !.pc = IF Processed(n) THEN Len(child_list[n]) + 1 ELSE 1])
    ELSE Under

\* The handler returned.  In min deps the answer pops the root before the children.
FnReturn ==
    /\ At("fn") /\ Top.pc > Len(Program(Top.n))
    /\ stack' = Below(Top.n)
    /\ IF phase = "nodegen" /\ Top.n \notin pass
       THEN pass' = pass \cup {Top.n} /\ found_count' = found_count + 1
       ELSE UNCHANGED <<pass, found_count>>
    /\ IF phase = "min_deps" /\ Last(Under).k = "walk" THEN RootPop ELSE UNCHANGED roots
    /\ sync' = (sync /\ ~(phase = "min_deps" /\ Block(Top.n).slow))
    /\ UNCHANGED <<shape, phase, child_list, hydrated, hydrator_on, folds, hist, outcome>>

-----------------------------------------------------------------------------
(* Walks.                                                                  *)

\* walk: root_push t, then the handler.  The walk of monorepo pushes afterwards.
WalkStart ==
    /\ At("walk") /\ Top.pc = 0
    /\ stack' = Append(stack, Frame("fn", Top.n, 0))
    /\ RootPush(Top.n)
    /\ UNCHANGED <<shape, phase, tree, folds, hist, outcome, sync>>

MonoStart ==
    /\ At("mono") /\ Top.pc = 0
    /\ stack' = Append(stack, Frame("fn", Top.n, 0))
    /\ UNCHANGED <<shape, phase, tree, roots, folds, hist, outcome, sync>>

MoreKids == Top.pc \in 1..Len(child_list[Top.n])
NextKid  == Append(Top.n, child_list[Top.n][Top.pc])

\* These child lists are read anew at every iteration: they may have grown.
KidOfWalk ==
    /\ At("walk") \/ At("only")
    /\ MoreKids
    /\ Call(Frame("walk", NextKid, 0))
    /\ UNCHANGED <<shape, phase, tree, roots, folds, hist, outcome, sync>>

KidOfMono ==
    /\ At("mono") /\ MoreKids
    /\ stack' = Append(Append(Under, [Top EXCEPT !.pc = @ + 1, !.mark = 1]),
                       Frame("mono", NextKid, 0))
    /\ IF Top.mark = 0 /\ phase # "min_deps" THEN RootPush(Top.n) ELSE UNCHANGED roots
    /\ UNCHANGED <<shape, phase, tree, folds, hist, outcome, sync>>

KidOfEach ==
    /\ At("each") /\ Top.pc <= Top.mark
    /\ IF phase = "nodegen" /\ Block(NextKid).type # "project" THEN Throw
       ELSE /\ Call(Frame("mono", NextKid, 0))
            /\ FolderPush(Last(NextKid))
            /\ UNCHANGED <<shape, phase, tree, roots, hist, outcome, sync>>

NoMoreKids == Top.pc > Len(child_list[Top.n])

\* Mutation: walk_child_list_only without its root_pop.
WalkEndKept ==
    /\ At("walk") \/ At("only")
    /\ NoMoreKids
    /\ Return
    /\ IF phase = "min_deps" \/ Top.k = "only" THEN UNCHANGED roots ELSE RootPop
    /\ UNCHANGED <<shape, phase, tree, folds, hist, outcome, sync>>

WalkEnd ==
    /\ At("walk") \/ At("only")
    /\ NoMoreKids
    /\ Return
    /\ IF phase = "min_deps" /\ Top.k = "walk" THEN UNCHANGED roots ELSE RootPop
    /\ UNCHANGED <<shape, phase, tree, folds, hist, outcome, sync>>

\* The walk of monorepo ends; the frame under it is its loop when it leaves the folder.
MonoEnd ==
    /\ At("mono") /\ NoMoreKids
    /\ Return
    /\ IF Top.mark = 1 /\ phase # "min_deps" THEN RootPop ELSE UNCHANGED roots
    /\ IF Last(Under).k = "each" THEN FolderPop ELSE UNCHANGED folds
    /\ UNCHANGED <<shape, phase, tree, hist, outcome, sync>>

EachEnd ==
    /\ At("each") /\ Top.pc > Top.mark
    /\ Return
    /\ UNCHANGED <<shape, phase, tree, roots, folds, hist, outcome, sync>>

-----------------------------------------------------------------------------
(* Runner.go and module.go.                                                *)

WalkRoot == <<Frame("walk", DocRoot, 0)>>
PhaseDone(p) == phase = p /\ stack = <<>>
FreshContext ==                   \* a phase starts with a context of its own
    /\ curr_folder' = <<>> /\ folder_stack_list' = <<>>
    /\ runs' = [n \in Nodes |-> 0] /\ run_folder' = [n \in Nodes |-> <<>>]
    /\ UNCHANGED gen_folder

\* The gen files are required; an error there answers without deleting the runner and
\* before the try.
Load ==
    /\ PhaseDone("load")
    /\ IF shape.loads
       THEN phase' = "nodegen" /\ stack' = WalkRoot /\ UNCHANGED outcome
       ELSE /\ phase' \in {"failed", "thrown"} /\ outcome' = Append(outcome, "err")
            /\ UNCHANGED stack
    /\ UNCHANGED <<shape, tree, roots, folds, hist, sync>>

\* Mutation: one pass of nodegen.
NodegenPassOnce ==
    /\ PhaseDone("nodegen")
    /\ phase' = "check"
    /\ UNCHANGED <<shape, tree, stack, roots, folds, hist, outcome, sync>>

\* Mutation: found_count is not reset before the next pass.
NodegenPassUnreset ==
    /\ PhaseDone("nodegen")
    /\ IF found_count > 0 THEN stack' = WalkRoot /\ UNCHANGED phase
       ELSE phase' = "check" /\ UNCHANGED stack
    /\ UNCHANGED <<shape, tree, roots, folds, hist, outcome, sync>>

\* while found_count: walk again.
NodegenPass ==
    /\ PhaseDone("nodegen")
    /\ IF found_count > 0
       THEN stack' = WalkRoot /\ found_count' = 0 /\ UNCHANGED phase
       ELSE phase' = "check" /\ UNCHANGED <<stack, found_count>>
    /\ UNCHANGED <<shape, child_list, pass, hydrated, hydrator_on, roots, folds, hist,
                   outcome, sync>>

\* The four walks that look for missing handlers change nothing.
Check ==
    /\ PhaseDone("check")
    /\ IF \A n \in Nodes : HasHandlers(n)
       THEN /\ phase' = "validator" /\ stack' = WalkRoot
            /\ FreshContext
            /\ UNCHANGED <<shape, tree, roots, outcome, sync>>
       ELSE Throw

NextPhase ==
    /\ phase \in {"validator", "codebub", "codegen"} /\ stack = <<>>
    /\ phase' = CASE phase = "validator" -> "codebub"
                  [] phase = "codebub"   -> "codegen"
                  [] phase = "codegen"   -> "min_deps"
    /\ stack' = WalkRoot
    /\ FreshContext
    /\ UNCHANGED <<shape, tree, roots, outcome, sync>>

\* Mutation: the catch of module.go answers what the run already answered, though the
\* callback returned.
FinishTwice ==
    /\ PhaseDone("min_deps")
    /\ phase' = "done" /\ stack' = <<>> /\ child_list' = <<>>
    /\ outcome' = outcome \o <<"ok", "err">>
    /\ UNCHANGED <<shape, pass, hydrated, hydrator_on, found_count, roots, folds, hist, sync>>

Finish ==
    /\ PhaseDone("min_deps")
    /\ Answer("done", "ok", sync)

-----------------------------------------------------------------------------
Init ==
    /\ shape \in Shapes
    /\ phase = "load"
    /\ child_list = shape.declared
    /\ pass = {} /\ hydrated = {} /\ hydrator_on = FALSE /\ found_count = 0
    /\ stack = <<>>
    /\ curr_root = Null /\ root_stack_list = <<>>
    /\ curr_folder = <<>> /\ folder_stack_list = <<>>
    /\ gen_folder = <<>> /\ runs = <<>> /\ run_folder = <<>>
    /\ outcome = <<>> /\ sync = TRUE

Making  == MakeHere \/ MakeWrapped \/ MakeOwn \/ MakeAbove \/ RunMade \/ InjectTo
Handler == FnCall \/ Making \/ WalkOnly \/ Mark \/ WalkRest
           \/ EnterFolder \/ LeaveFolder \/ EachProject \/ FnReturn
Walk    == WalkStart \/ MonoStart \/ KidOfWalk \/ KidOfMono \/ KidOfEach \/ WalkEnd
           \/ MonoEnd \/ EachEnd
Go      == Load \/ NodegenPass \/ Check \/ NextPhase \/ Finish
Over    == phase \in Final /\ UNCHANGED vars
Next    == Handler \/ Walk \/ Go \/ Over

Spec == Init /\ [][Next]_vars /\ WF_vars(Handler \/ Walk \/ Go)

-----------------------------------------------------------------------------
(* Properties.                                                             *)

\* A well-formed state: the tree is closed under parents, every frame and every
\* root is a node of it, and the sets speak of nodes.
TypeOK ==
    /\ shape \in Shapes
    /\ phase \in ToSet(PhaseList) \cup Final
    /\ phase \notin Final =>
         /\ DocRoot \in Nodes
         /\ \A n \in Nodes : \A k \in ToSet(child_list[n]) : Append(n, k) \in Nodes
         /\ \A n \in Nodes \ {DocRoot} : Front(n) \in Nodes
         /\ pass \cup hydrated \subseteq Nodes
         /\ curr_root \in Nodes \cup {Null}
    /\ found_count \in Nat
    /\ outcome \in Seq({"ok", "err"})

\* The fixpoint of nodegen is reached: when the walks of nodegen end, the nodegen
\* handler of every node of the tree has run to its end, those that other handlers
\* added to subtrees already left included.
AllGenerated == phase \in {"check"} \cup Emitting => Nodes \subseteq pass

\* At the end of an emit phase the handler of every node ran exactly once, except
\* below a handler that claims its children without walking them, where it ran never.
Ancestors(n) == {SubSeq(n, 1, i) : i \in 0..(Len(n) - 1)}
Skipped(n)   == \E a \in Ancestors(n) : phase \in Block(a).skips
RunOnce ==
    PhaseDone(phase) /\ phase \in Emitting =>
        \A n \in Nodes : runs[n] = IF Skipped(n) THEN 0 ELSE 1

\* The folder a node belongs to: folder_wrap's name is the folder of its children,
\* a monorepo has a folder per project.
Segment(s, p, k) ==
    CASE TypeIn(s, p) = "folder_wrap" -> <<KeyIn(s, p)>>
      [] TypeIn(s, p) = "monorepo"    -> <<k>>
      [] OTHER -> <<>>
FolderIn(s, n) ==
    LET f[i \in 0..Len(n)] ==
            IF i = 0 THEN <<>> ELSE f[i - 1] \o Segment(s, SubSeq(n, 1, i - 1), n[i])
    IN  f[Len(n)]
FolderOf(n) == FolderIn(shape, n)

\* Every validator and emit handler works in the folder its node belongs to.
EmitFolder ==
    phase \in Emitting => \A n \in Nodes : runs[n] > 0 => run_folder[n] = FolderOf(n)

\* Between two walks the root stack and the folder stack are empty again: no
\* handler, walk or wrap leaves an entry behind or pops one of a caller.
Balanced ==
    stack = <<>> /\ phase \notin Final =>
        /\ curr_root = Null /\ root_stack_list = <<>>
        /\ curr_folder = <<>> /\ folder_stack_list = <<>>

\* A caller whose callback returns is answered once, and "ok" only after every phase; not
\* at all when an exception escapes after a command suspended the run.  A callback that
\* throws is called at most twice, the second time with an error, and only by a run that
\* no command suspended.
AnsweredOnce ==
    /\ phase = "done" => outcome = <<"ok">>
    /\ phase = "failed" => outcome = <<"err">>
    /\ phase = "thrown" =>
          outcome \in {<<"err">>} \cup IF sync THEN {<<"ok", "err">>, <<"err", "err">>} ELSE {<<"ok">>}
    /\ phase \notin {"done", "failed", "thrown"} => outcome = <<>>

\* The loop `while found_count` and the walks end, whatever the blocks add.
Ends == <>(phase \in Final)

\* What nodegen records of curr_folder (napi_module.folder, the cd of a starter
\* script) is the folder in which the emit phases place the node.
GenFolder == phase = "check" => \A n \in Nodes : gen_folder[n] = FolderOf(n)
=============================================================================
