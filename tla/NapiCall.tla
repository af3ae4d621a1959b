------------------------------ MODULE NapiCall ------------------------------
(***************************************************************************)
(* src/tpl/napi/macro.hpp, macro.cpp and the functions and classes that    *)
(* src/src/block/nodejs/napi/fn_generator.coffee and class_generator.coffee*)
(* write with them: a JavaScript call of a native function, synchronous    *)
(* or on the thread pool with a callback, the memory and the references it *)
(* takes, and the native objects it works on.  JavaScript runs on the main *)
(* thread, alone or inside a callback; the pool runs the native function.  *)
(***************************************************************************)
EXTENDS Marshal, FiniteSets, Sequences

CONSTANTS
    Object,     \* the native objects and the buffers a program can create
    ClassOf,    \* the class of each of them, "buf" for a buffer
    Fn,         \* the declared functions: [async, this, args, ret]
    Call,       \* the calls JavaScript makes
    Plain,      \* the JavaScript values that are not objects: [kind, v]
    Pool,       \* the threads of the pool
    Failing,    \* the N-API calls that may fail
    Nothing,    \* nullptr, and the "this" of a plain function
    Wild        \* what is in a pointer or a length that nobody assigned

StrTypes == {"str", "str_no_free"}

IsObject(type) == type \notin NumberTypes \cup StrTypes

ASSUME CallAssumption ==
    /\ Pool \in Nat \ {0}
    /\ Nothing \notin Object /\ Nothing \notin Fn
    /\ Wild \notin Object \cup {Nothing}
    /\ \A js \in Plain : /\ js.kind # "object" /\ js.v \in Int
                         /\ js.kind = "boolean" => js.v \in {0, 1}
    /\ \A sig \in Fn : sig.args \in Seq(STRING) /\ sig.async \in BOOLEAN

VARIABLES
    loaded,     \* the exports of the module: "no", "functions", "yes", "failed"
    phase,      \* each object: "unborn", "live" or "gone"
    held,       \* the objects JavaScript can reach
    deleted,    \* the objects whose _deleted is set
    at,         \* each call: "unused", "queued", "running", "ran", "answering", "over"
    ctx,        \* each call's worker_ctx: [fn, this, arg, cb]
    out,        \* what the native function left in it: [err, v]
    mem,        \* what each call holds: memory, references, the work item
    answer,     \* what JavaScript was told of each call
    fault,      \* the N-API call that failed, or "none"
    broken      \* the first undefined behaviour, or "none": nothing happens after it

objects == <<phase, held, deleted>>
vars    == <<loaded, objects, at, ctx, out, mem, answer, fault, broken>>

Said(kind)   == [kind |-> kind, v |-> 0]
JsObject(o)  == [kind |-> "object", v |-> o]
JsValues     == Plain \cup {JsObject(o) : o \in held}
Going        == broken = "none" /\ loaded = "yes"
Busy(c)      == at[c] \in {"queued", "running", "ran", "answering"}
MainFree     == \A c \in Call : at[c] # "answering"

-----------------------------------------------------------------------------
(* Arguments                                                               *)

\* FN_ARG_CLASS compares the tag, then _deleted; a buffer has no wrapped object.
Accepted(type, js) ==
    IF type \in ArgTypes THEN js.kind = Kind(type)
    ELSE IF type \in StrTypes THEN js.kind = "string"
    ELSE /\ js.kind = "object"
         /\ ClassOf[js.v] = type
         /\ js.v \notin deleted

NativeArgs(sig, js) ==
    [k \in DOMAIN js |-> IF sig.args[k] \in ArgTypes THEN Read(sig.args[k], js[k].v)
                         ELSE js[k].v]

\* FN_ARG_THIS compares no tag: any wrapped object that is not freed will do.
ThisAccepted(sig, this) ==
    sig.this # Nothing => ClassOf[this] # "buf" /\ this \notin deleted

\* FN_ARG_HEAD(COUNT) refuses another count; FN_ARG_HEAD_EMPTY counts nothing.
Counted(sig, js) == Len(js) = Len(sig.args)

Admitted(sig, this, js) ==
    /\ Counted(sig, js) /\ ThisAccepted(sig, this)
    /\ \A k \in DOMAIN sig.args : Accepted(sig.args[k], js[k])

\* The arguments read before the first one that is refused.
Parsed(sig, this, js) ==
    IF Counted(sig, js) /\ ThisAccepted(sig, this)
    THEN {k \in DOMAIN js : \A j \in 1..k : Accepted(sig.args[j], js[j])}
    ELSE {}

\* The text read for these arguments, by the type that says who frees it.
Strings(sig, S, types) == {<<sig.args[k], k>> : k \in {j \in S : sig.args[j] \in types}}

\* Mutation: a buffer is passed to the pool without a reference.
RefsOfClasses(sig) ==
    {<<"ref", k>> : k \in {j \in DOMAIN sig.args :
                              IsObject(sig.args[j]) /\ sig.args[j] # "buf"}}

Refs(sig) == {<<"ref", k>> : k \in {j \in DOMAIN sig.args : IsObject(sig.args[j])}}

Inputs(sig)   == UNION {[1..n -> JsValues] : n \in 0..Len(sig.args)}
ThisOf(sig)   == IF sig.this = Nothing THEN {Nothing} ELSE held
WrongThis(sig, this) == sig.this # Nothing /\ ClassOf[this] # sig.this

-----------------------------------------------------------------------------
(* Results                                                                 *)

\* What the native function may return: any number of its type (one it does
\* not assign is what was there), an object it was given, or none; text and
\* bytes are new.
Given(sig, arg) == {arg[k] : k \in {j \in DOMAIN sig.args : sig.args[j] = sig.ret}}
Results(sig, arg) ==
    IF sig.ret \in NumberTypes THEN Native(sig.ret)
    ELSE IF sig.ret \in StrTypes \cup {"buf"} THEN {Nothing}
    ELSE {Nothing} \cup Given(sig, arg)

\* The fields of worker_ctx have no first value; in NAME_sync only the lengths
\* have none, and a buffer is copied by its length whatever its pointer.
Unassigned(sig) ==
    IF sig.async THEN sig.ret \notin NumberTypes \cup {"void"} ELSE sig.ret = "buf"

Allocated(ret) == ret \in {"str", "buf", "str_simple_craft"}

\* FN_RET_*_CREATE: the JavaScript value of a result.
Returned(ret, v) ==
    IF ret \in NumberTypes THEN Create(ret, v)
    ELSE IF ret \in {"str", "str_static", "str_simple_craft"} THEN Said("string")
    ELSE IF ret = "buf" THEN Said("buffer")
    ELSE IF v = Nothing THEN Said("undefined")
    ELSE JsObject(v)

\* FN_RET: what a synchronous call without a result returns.
RetDummy == Said("number")
ReturnedSync(ret, v) == IF ret = "void" THEN RetDummy ELSE Returned(ret, v)

\* JavaScript reaches an object it is given.
HeldWith(ret, v) == IF IsObject(ret) THEN held \cup ({v} \ {Nothing}) ELSE held

-----------------------------------------------------------------------------
(* The module, its objects and the collector                               *)

Unused == [fn |-> Nothing, this |-> Nothing, arg |-> <<>>, cb |-> "none"]

Init ==
    /\ loaded = "no"
    /\ phase = [o \in Object |-> "unborn"]
    /\ held = {} /\ deleted = {}
    /\ at = [c \in Call |-> "unused"]
    /\ ctx = [c \in Call |-> Unused]
    /\ out = [c \in Call |-> [err |-> FALSE, v |-> Nothing]]
    /\ mem = [c \in Call |-> {}]
    /\ answer = [c \in Call |-> <<>>]
    /\ fault = [c \in Call |-> "none"]
    /\ broken = "none"

(* init exports the functions, then the classes; a failure is thrown and   *)
(* require() has no module.                                                *)
ExportFunctions ==
    /\ loaded = "no"
    /\ \/ loaded' = "functions"
       \/ "export" \in Failing /\ loaded' = "failed"
    /\ UNCHANGED <<objects, at, ctx, out, mem, answer, fault, broken>>

ExportClasses ==
    /\ loaded = "functions"
    /\ \/ loaded' = "yes"
       \/ "export" \in Failing /\ loaded' = "failed"
    /\ UNCHANGED <<objects, at, ctx, out, mem, answer, fault, broken>>

\* The constructor: the native object lives as long as its wrapper.
New(o) ==
    /\ Going /\ phase[o] = "unborn"
    /\ phase' = [phase EXCEPT ![o] = "live"]
    /\ held' = held \cup {o}
    /\ UNCHANGED <<loaded, deleted, at, ctx, out, mem, answer, fault, broken>>

\* JavaScript drops its last way to reach the object.
Drop(o) ==
    /\ Going /\ o \in held
    /\ held' = held \ {o}
    /\ UNCHANGED <<loaded, phase, deleted, at, ctx, out, mem, answer, fault, broken>>

\* A native function the program wrote calls free() on an object.
Free(o) ==
    /\ Going /\ o \in held /\ ClassOf[o] # "buf" /\ o \notin deleted
    /\ deleted' = deleted \cup {o}
    /\ UNCHANGED <<loaded, phase, held, at, ctx, out, mem, answer, fault, broken>>

Pinned(o) == \E c \in Call : \E k \in DOMAIN ctx[c].arg :
                 <<"ref", k>> \in mem[c] /\ ctx[c].arg[k] = o

\* The collector runs the destructor: free(), then delete.
Collect(o) ==
    /\ Going /\ phase[o] = "live" /\ o \notin held /\ ~Pinned(o)
    /\ phase' = [phase EXCEPT ![o] = "gone"]
    /\ deleted' = deleted \cup {o}
    /\ UNCHANGED <<loaded, held, at, ctx, out, mem, answer, fault, broken>>

-----------------------------------------------------------------------------
(* Calling                                                                 *)

\* Both forms throw at the first argument refused; the text read stays.
Refuse(c, sig, this, js) ==
    /\ ~Admitted(sig, this, js)
    /\ at' = [at EXCEPT ![c] = "over"]
    /\ answer' = [answer EXCEPT ![c] = <<Said("thrown")>>]
    /\ mem' = [mem EXCEPT ![c] = Strings(sig, Parsed(sig, this, js), StrTypes)]
    /\ UNCHANGED <<loaded, objects, ctx, out, fault, broken>>

Break(what) ==
    /\ broken' = what
    /\ UNCHANGED <<loaded, objects, at, ctx, out, mem, answer, fault>>

(* NAME_sync after its arguments.  An error is thrown before the text is   *)
(* freed; a result that FN_RET_*_FREE makes is freed whatever happens.     *)
RunSync(c, sig, arg) ==
    LET all == DOMAIN sig.args
        kept == Strings(sig, all, {"str_no_free"})
    IN /\ at' = [at EXCEPT ![c] = "over"]
       /\ \/ /\ answer' = [answer EXCEPT ![c] = <<Said("thrown")>>]
             /\ mem' = [mem EXCEPT ![c] = Strings(sig, all, StrTypes)
                            \cup IF sig.ret = "str_simple_craft" THEN {<<"result", 0>>} ELSE {}]
             /\ UNCHANGED <<held, fault>>
          \/ \E v \in Results(sig, arg) :
                /\ answer' = [answer EXCEPT ![c] = <<ReturnedSync(sig.ret, v)>>]
                /\ mem' = [mem EXCEPT ![c] = kept]
                /\ held' = HeldWith(sig.ret, v)
                /\ UNCHANGED fault
          \/ /\ "result" \in Failing /\ sig.ret # "void"
             /\ answer' = [answer EXCEPT ![c] = <<Said("thrown")>>]
             /\ fault' = [fault EXCEPT ![c] = "result"]
             /\ mem' = [mem EXCEPT ![c] = kept]
             /\ UNCHANGED held
       /\ UNCHANGED <<loaded, phase, deleted, ctx, out, broken>>

CallSync(c) ==
    /\ Going /\ at[c] = "unused"
    /\ \E sig \in {f \in Fn : ~f.async} : \E this \in ThisOf(sig), js \in Inputs(sig) :
          \/ Refuse(c, sig, this, js)
          \/ /\ Admitted(sig, this, js)
             /\ IF WrongThis(sig, this) THEN Break("wrong this")
                ELSE \/ RunSync(c, sig, NativeArgs(sig, js))
                     \/ Unassigned(sig) /\ Break("unassigned length")

-----------------------------------------------------------------------------
(* NAME: on the pool, with a callback                                      *)

Callable(cb)  == cb = "function"
Text(sig)     == Strings(sig, DOMAIN sig.args, StrTypes)
Ctx(sig)      == {<<"ctx", 0>>, <<"work", 0>>} \cup Refs(sig)
                    \cup Strings(sig, DOMAIN sig.args, {"str"})

\* Mutation: the text stays.
ClearedKeepsText(m, sig) == m \ (Ctx(sig) \ Text(sig))

\* _worker_ctx_NAME_clear: not the result, nor a str_no_free.
Cleared(m, sig) == m \ Ctx(sig)

\* A callback that no reference can be made of; napi_helper_error_cb calls it.
StartNoCallback(c, sig, cb) ==
    /\ \/ /\ cb = "primitive"
          /\ answer' = [answer EXCEPT ![c] = <<Said("thrown")>>]
          /\ UNCHANGED fault
       \/ /\ cb # "primitive" /\ "callback" \in Failing
          /\ fault' = [fault EXCEPT ![c] = "callback"]
          /\ answer' = [answer EXCEPT ![c] =
                <<Said(IF Callable(cb) THEN "error" ELSE "thrown")>>]
    /\ at' = [at EXCEPT ![c] = "over"]
    /\ mem' = [mem EXCEPT ![c] = Text(sig)]
    /\ UNCHANGED <<loaded, objects, ctx, out, broken>>

(* A call of N-API fails and NAME throws.  Before the fields are assigned  *)
(* the context alone is deleted; afterwards _clear releases it, and the    *)
(* work item it deletes was assigned only if it could be created.          *)
StartFails(c, sig, cb) ==
    /\ cb # "primitive"
    /\ \/ /\ "name" \in Failing
          /\ fault' = [fault EXCEPT ![c] = "name"]
          /\ mem' = [mem EXCEPT ![c] = Text(sig) \cup {<<"callback", 0>>}]
          /\ UNCHANGED broken
       \/ /\ "reference" \in Failing /\ Refs(sig) # {}
          /\ fault' = [fault EXCEPT ![c] = "reference"]
          /\ broken' = "unassigned field"
          /\ UNCHANGED mem
       \/ /\ "work" \in Failing
          /\ fault' = [fault EXCEPT ![c] = "work"]
          /\ broken' = "unassigned field"
          /\ UNCHANGED mem
       \/ /\ "queue" \in Failing
          /\ fault' = [fault EXCEPT ![c] = "queue"]
          /\ mem' = [mem EXCEPT ![c] =
                Cleared(Text(sig) \cup Ctx(sig), sig) \cup {<<"callback", 0>>}]
          /\ UNCHANGED broken
    /\ at' = [at EXCEPT ![c] = "over"]
    /\ answer' = [answer EXCEPT ![c] = <<Said("thrown")>>]
    /\ UNCHANGED <<loaded, objects, ctx, out>>

\* "this" is stored as it is: no reference keeps its object.
Start(c, sig, this, arg, cb) ==
    /\ cb # "primitive"
    /\ at' = [at EXCEPT ![c] = "queued"]
    /\ ctx' = [ctx EXCEPT ![c] = [fn |-> sig, this |-> this, arg |-> arg, cb |-> cb]]
    /\ mem' = [mem EXCEPT ![c] =
          Text(sig) \cup {<<"ctx", 0>>, <<"work", 0>>, <<"callback", 0>>} \cup Refs(sig)]
    /\ UNCHANGED <<loaded, objects, out, answer, fault, broken>>

CallAsync(c) ==
    /\ Going /\ at[c] = "unused"
    /\ \E sig \in {f \in Fn : f.async} : \E this \in ThisOf(sig), js \in Inputs(sig) :
          \/ Refuse(c, sig, this, js)
          \/ /\ Admitted(sig, this, js)
             /\ \E cb \in {"function", "object", "primitive"} :
                   \/ StartNoCallback(c, sig, cb)
                   \/ StartFails(c, sig, cb)
                   \/ Start(c, sig, this, NativeArgs(sig, js), cb)

\* The pool takes the work; str_simple_craft has no string to write to.
Run(c) ==
    /\ Going /\ at[c] = "queued"
    /\ Cardinality({d \in Call : at[d] = "running"}) < Pool
    /\ LET this == ctx[c].this IN
       IF this # Nothing /\ phase[this] # "live" THEN Break("collected this")
       ELSE IF WrongThis(ctx[c].fn, this) THEN Break("wrong this")
       ELSE IF ctx[c].fn.ret = "str_simple_craft" THEN Break("unassigned field")
       ELSE /\ at' = [at EXCEPT ![c] = "running"]
            /\ UNCHANGED <<loaded, objects, ctx, out, mem, answer, fault, broken>>

\* The native function returns, with an error, with a result, or without
\* having assigned one.
Finish(c) ==
    /\ Going /\ at[c] = "running"
    /\ IF ctx[c].this # Nothing /\ phase[ctx[c].this] # "live" THEN Break("collected this")
       ELSE /\ at' = [at EXCEPT ![c] = "ran"]
            /\ \/ /\ out' = [out EXCEPT ![c] = [err |-> TRUE, v |-> Nothing]]
                  /\ UNCHANGED mem
               \/ /\ Unassigned(ctx[c].fn)
                  /\ out' = [out EXCEPT ![c] = [err |-> FALSE, v |-> Wild]]
                  /\ UNCHANGED mem
               \/ \E v \in Results(ctx[c].fn, ctx[c].arg) :
                     /\ out' = [out EXCEPT ![c] = [err |-> FALSE, v |-> v]]
                     /\ mem' = [mem EXCEPT ![c] = @ \cup
                           IF Allocated(ctx[c].fn.ret) THEN {<<"result", 0>>} ELSE {}]
            /\ UNCHANGED <<loaded, objects, ctx, answer, fault, broken>>

\* An exception nobody catches, then _clear.
Uncaught(c, m, site) ==
    /\ at' = [at EXCEPT ![c] = "over"]
    /\ answer' = [answer EXCEPT ![c] = Append(@, Said("uncaught"))]
    /\ mem' = [mem EXCEPT ![c] = Cleared(m, ctx[c].fn)]
    /\ fault' = [fault EXCEPT ![c] = site]
    /\ UNCHANGED <<loaded, objects, ctx, out, broken>>

\* The callback begins: it may do what JavaScript can, until it returns.
Tell(c, js, v) ==
    /\ at' = [at EXCEPT ![c] = "answering"]
    /\ answer' = [answer EXCEPT ![c] = Append(@, js)]
    /\ mem' = [mem EXCEPT ![c] = @ \ {<<"callback", 0>>}]
    /\ held' = HeldWith(ctx[c].fn.ret, v)
    /\ UNCHANGED <<loaded, phase, deleted, ctx, out, fault, broken>>

\* _complete_NAME up to the answer; napi_helper_error_cb tells an error.
TellError(c, done) ==
    \/ Callable(ctx[c].cb) /\ Tell(c, Said("error"), Nothing)
    \/ ~Callable(ctx[c].cb) /\ Uncaught(c, done, "none")
    \/ "helper" \in Failing /\ Uncaught(c, done, "helper")

TellResult(c, done) ==
    LET sig == ctx[c].fn IN
    IF out[c].v = Wild THEN Break("unassigned field")
    ELSE \/ "result" \in Failing /\ sig.ret # "void" /\ Uncaught(c, done, "result")
         \/ Callable(ctx[c].cb) /\ Tell(c, Returned(sig.ret, out[c].v), out[c].v)
         \/ ~Callable(ctx[c].cb) /\ Uncaught(c, done, "none")

\* Mutation: no return after the error was told.
CompleteBoth(c) ==
    /\ Going /\ at[c] = "ran" /\ MainFree
    /\ LET done == mem[c] \ {<<"callback", 0>>} IN
       \/ out[c].err /\ answer[c] = <<>>
             /\ answer' = [answer EXCEPT ![c] = Append(@, Said("error"))]
             /\ UNCHANGED <<loaded, objects, at, ctx, out, mem, fault, broken>>
       \/ (out[c].err => answer[c] # <<>>) /\ TellResult(c, done)

Complete(c) ==
    /\ Going /\ at[c] = "ran" /\ MainFree
    /\ LET done == mem[c] \ {<<"callback", 0>>} IN
       \/ "get" \in Failing /\ Uncaught(c, mem[c], "get")
       \/ out[c].err /\ TellError(c, done)
       \/ ~out[c].err /\ TellResult(c, done)

\* The callback returns or throws: the context goes either way.
Return(c) ==
    /\ Going /\ at[c] = "answering"
    /\ at' = [at EXCEPT ![c] = "over"]
    /\ mem' = [mem EXCEPT ![c] = Cleared(@, ctx[c].fn)]
    /\ UNCHANGED <<loaded, objects, ctx, out, answer, fault, broken>>

Next ==
    \/ ExportFunctions \/ ExportClasses
    \/ \E o \in Object : New(o) \/ Drop(o) \/ Free(o) \/ Collect(o)
    \/ \E c \in Call : \/ CallSync(c) \/ CallAsync(c)
                       \/ Run(c) \/ Finish(c) \/ Complete(c) \/ Return(c)

Spec == Init /\ [][Next]_vars

-----------------------------------------------------------------------------

Kinds == {"thrown", "error", "uncaught", "boolean", "number", "bigint",
          "string", "buffer", "undefined", "object"}

\* The variables' domains; a number a call holds fits the type it was read as
\* (FN_ARG_*), and what JavaScript reaches was built and not collected.
TypeOK ==
    /\ loaded \in {"no", "functions", "yes", "failed"}
    /\ phase \in [Object -> {"unborn", "live", "gone"}]
    /\ held \subseteq {o \in Object : phase[o] = "live"}
    /\ deleted \subseteq {o \in Object : phase[o] # "unborn"}
    /\ at \in [Call -> {"unused", "queued", "running", "ran", "answering", "over"}]
    /\ \A c \in Call : ctx[c].fn # Nothing =>
          /\ ctx[c].fn \in Fn
          /\ \A k \in DOMAIN ctx[c].arg : ctx[c].fn.args[k] \in ArgTypes =>
                ctx[c].arg[k] \in Native(ctx[c].fn.args[k])
    /\ \A c \in Call : \A i \in DOMAIN answer[c] : answer[c][i].kind \in Kinds

\* fn_generator.coffee 533-541: from the moment a call is queued until its
\* callback has returned, the buffers and objects it was given are not
\* collected, whatever JavaScript drops meanwhile.
ArgsAlive ==
    \A c \in Call : Busy(c) =>
        \A k \in DOMAIN ctx[c].arg :
            IsObject(ctx[c].fn.args[k]) => phase[ctx[c].arg[k]] = "live"

\* What the code leaves behind a call that is over, and when.
MayStay(c, m) ==
    \/ m[1] = "str_no_free"
    \/ m[1] = "str" /\ (answer[c] = <<Said("thrown")>> \/ fault[c] = "callback")
    \/ m[1] = "callback" /\ fault[c] \in {"name", "queue", "get"}
    \/ /\ m[1] = "result"
       /\ answer[c] = <<Said("thrown")>> \/ (ctx[c].fn # Nothing /\ ~out[c].err)

\* fn_generator.coffee 751-765: what the pool and the callback read is there
\* while they may read it; and however a call ends, whichever of its N-API
\* calls fail, its context, its work item and the references to its arguments
\* are given back.  A text that should be freed stays only behind an exception
\* thrown by the call itself or a callback that was not stored, the reference
\* to the callback only behind three failures, and a result that was allocated
\* behind a synchronous exception or an asynchronous success.
Settled ==
    \A c \in Call :
        /\ Busy(c) => Ctx(ctx[c].fn) \subseteq mem[c]
        /\ at[c] \in {"queued", "running", "ran"} => <<"callback", 0>> \in mem[c]
        /\ at[c] = "over" => \A m \in mem[c] : MayStay(c, m)

\* fn_generator.coffee 772-881: a call is answered exactly once, by what its
\* function returned, an error or an exception, and not before it is done.
AnsweredOnce ==
    \A c \in Call :
        /\ Len(answer[c]) <= 1
        /\ at[c] \in {"answering", "over"} => Len(answer[c]) = 1
        /\ at[c] \in {"queued", "running", "ran"} => answer[c] = <<>>
        /\ answer[c] # <<>> /\ ctx[c].fn # Nothing =>
              answer[c][1] \in {Said("error"), Said("uncaught")}
                 \cup (IF out[c].err THEN {}
                       ELSE {Returned(ctx[c].fn.ret, out[c].v)})
=============================================================================
