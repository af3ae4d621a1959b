-------------------------- MODULE NapiCall_proofs ---------------------------
(* What a call that is under way was given stays alive, for every set of
   functions, objects, calls and threads; and what the number macros keep, for
   every width of the integers. *)
EXTENDS NapiCall, TLAPS

(* Two's complement: what fits stays, and what comes out fits.             *)
LEMMA SignedFits ==
    ASSUME NEW half \in Nat \ {0}, NEW v \in Int
    PROVE  /\ Signed(v, half) \in (-half)..(half - 1)
           /\ v \in (-half)..(half - 1) => Signed(v, half) = v
<1>1. (v + half) % (2 * half) \in 0..(2 * half - 1)
  OBVIOUS
<1>2. ASSUME v \in (-half)..(half - 1) PROVE (v + half) % (2 * half) = v + half
  <2>1. v + half \in 0..(2 * half - 1)
    BY <1>2
  <2> QED BY <2>1
<1> QED BY <1>1, <1>2 DEF Signed

LEMMA UnsignedFits ==
    ASSUME NEW half \in Nat \ {0}, NEW v \in Int
    PROVE  /\ Unsigned(v, half) \in 0..(2 * half - 1)
           /\ v \in 0..(2 * half - 1) => Unsigned(v, half) = v
BY DEF Unsigned

(* A native function never gets a number outside its type, whatever the    *)
(* caller passes (FN_ARG_I32 to FN_ARG_F64).                               *)
LEMMA ReadFits ==
    ASSUME NEW type \in ArgTypes, NEW v \in Int, type = "bool" => v \in {0, 1}
    PROVE  Read(type, v) \in Native(type)
BY HalfAssumption, SignedFits, UnsignedFits DEF ArgTypes, Read, Native

(* What a native function returns can be passed to one that takes the same *)
(* type and arrives unchanged: FN_RET_*_CREATE after FN_ARG_*.             *)
THEOREM RoundTrip ==
    ASSUME NEW type \in ArgTypes, NEW v \in Native(type)
    PROVE  /\ Create(type, v).kind = Kind(type)
           /\ Read(type, Create(type, v).v) = v
<1>1. v \in Int
  BY HalfAssumption DEF ArgTypes, Native
<1> QED BY <1>1, HalfAssumption, SignedFits, UnsignedFits DEF ArgTypes, Native, Read, Create

-----------------------------------------------------------------------------

\* f is a function on D.
OnDomain(f, D) == f = [x \in D |-> f[x]]

Shape ==
    /\ OnDomain(phase, Object) /\ OnDomain(at, Call) /\ OnDomain(ctx, Call)
    /\ OnDomain(out, Call) /\ OnDomain(mem, Call)

HeldLive == \A o \in held : o \in Object /\ phase[o] = "live"

\* A call under way holds a reference to each object it was given.
Referenced(c) ==
    /\ ctx[c].fn \in Fn
    /\ DOMAIN ctx[c].arg = DOMAIN ctx[c].fn.args
    /\ Refs(ctx[c].fn) \subseteq mem[c]
    /\ \A k \in DOMAIN ctx[c].arg : IsObject(ctx[c].fn.args[k]) =>
          ctx[c].arg[k] \in Object /\ phase[ctx[c].arg[k]] = "live"

\* What a function returned is nothing, a number, an object it was given, or
\* what the field it did not assign held.
Given2(c) == ~out[c].err => out[c].v \in Results(ctx[c].fn, ctx[c].arg) \cup {Wild}

IInv ==
    /\ Shape /\ HeldLive
    /\ \A c \in Call : Busy(c) => Referenced(c)
    /\ \A c \in Call : at[c] = "ran" => Given2(c)

-----------------------------------------------------------------------------

\* The object arguments a function accepts are objects JavaScript holds.
LEMMA AdmittedHeld ==
    ASSUME NEW sig \in Fn, NEW this, NEW js \in Inputs(sig), Admitted(sig, this, js)
    PROVE  /\ DOMAIN NativeArgs(sig, js) = DOMAIN sig.args
           /\ \A k \in DOMAIN sig.args : IsObject(sig.args[k]) =>
                 NativeArgs(sig, js)[k] \in held
<1>1. sig.args \in Seq(STRING)
  BY CallAssumption
<1>2. PICK n \in 0..Len(sig.args) : js \in [1..n -> JsValues]
  BY DEF Inputs
<1>3. Len(js) = n /\ DOMAIN js = 1..n
  BY <1>1, <1>2
<1>4. DOMAIN js = DOMAIN sig.args
  <2>1. Len(js) = Len(sig.args)
    BY DEF Admitted, Counted
  <2>2. DOMAIN sig.args = 1..Len(sig.args)
    BY <1>1
  <2> QED BY <1>3, <2>1, <2>2
<1>5. ASSUME NEW k \in DOMAIN sig.args, IsObject(sig.args[k])
      PROVE  NativeArgs(sig, js)[k] \in held
  <2>1. sig.args[k] \notin ArgTypes /\ sig.args[k] \notin StrTypes
    BY <1>5 DEF IsObject, NumberTypes
  <2>2. js[k].kind = "object"
    BY <2>1 DEF Admitted, Accepted
  <2>3. js[k] \in JsValues
    BY <1>2, <1>3, <1>4
  <2>4. PICK o \in held : js[k] = JsObject(o)
    <3>1. \A p \in Plain : p.kind # "object"
      BY CallAssumption, Zenon
    <3> QED BY <2>2, <2>3, <3>1 DEF JsValues
  <2>5. js[k].v \in held
    BY <2>4 DEF JsObject
  <2>6. NativeArgs(sig, js)[k] = js[k].v
    BY <1>4, <2>1 DEF NativeArgs
  <2> QED BY <2>5, <2>6
<1> QED BY <1>4, <1>5 DEF NativeArgs

\* JavaScript is only handed objects that the function was given.
LEMMA HandedLive ==
    ASSUME NEW sig, NEW arg, NEW v \in Results(sig, arg), HeldLive,
           DOMAIN arg = DOMAIN sig.args,
           \A k \in DOMAIN arg : IsObject(sig.args[k]) =>
               arg[k] \in Object /\ phase[arg[k]] = "live"
    PROVE  \A o \in HeldWith(sig.ret, v) : o \in Object /\ phase[o] = "live"
<1>1. CASE IsObject(sig.ret)
  <2>1. v = Nothing \/ v \in Given(sig, arg)
    BY <1>1 DEF Results, IsObject
  <2>2. v # Nothing => v \in Object /\ phase[v] = "live"
    BY <1>1, <2>1 DEF Given
  <2> QED BY <1>1, <2>2 DEF HeldWith, HeldLive
<1>2. CASE ~IsObject(sig.ret)
  BY <1>2 DEF HeldWith, HeldLive
<1> QED BY <1>1, <1>2

LEMMA InitInv == Init => IInv
<1> SUFFICES ASSUME Init PROVE IInv
  OBVIOUS
<1>1. Shape
  BY DEF Init, Shape, OnDomain
<1>2. HeldLive
  BY DEF Init, HeldLive
<1>3. \A c \in Call : at[c] = "unused"
  BY DEF Init
<1> QED BY <1>1, <1>2, <1>3 DEF IInv, Busy

-----------------------------------------------------------------------------
(* Steps of the objects                                                    *)

LEMMA NewStep ==
    ASSUME IInv, NEW o \in Object, New(o)
    PROVE  IInv'
<1> USE DEF IInv
<1>1. Shape'
  BY DEF Shape, OnDomain, New
<1>2. \A p \in Object : phase[p] = "live" => phase'[p] = "live"
  BY DEF New, Shape, OnDomain
<1>3. HeldLive'
  BY <1>2 DEF HeldLive, New, Shape, OnDomain
<1>4. ASSUME NEW c \in Call, Busy(c)' PROVE Referenced(c)'
  <2>1. Referenced(c)
    BY <1>4 DEF New, Busy
  <2> QED BY <1>2, <2>1 DEF New, Referenced
<1>5. \A c \in Call : at'[c] = "ran" => Given2(c)'
  BY DEF New, Given2
<1> QED BY <1>1, <1>3, <1>4, <1>5

LEMMA DropStep ==
    ASSUME IInv, NEW o \in Object, Drop(o)
    PROVE  IInv'
<1> USE DEF IInv
<1>1. Shape' /\ HeldLive'
  BY DEF Shape, OnDomain, HeldLive, Drop
<1>2. \A c \in Call : Busy(c)' => Referenced(c)'
  BY DEF Drop, Busy, Referenced
<1>3. \A c \in Call : at'[c] = "ran" => Given2(c)'
  BY DEF Drop, Given2
<1> QED BY <1>1, <1>2, <1>3

LEMMA FreeStep ==
    ASSUME IInv, NEW o \in Object, Free(o)
    PROVE  IInv'
<1> USE DEF IInv
<1>1. Shape' /\ HeldLive'
  BY DEF Shape, OnDomain, HeldLive, Free
<1>2. \A c \in Call : Busy(c)' => Referenced(c)'
  BY DEF Free, Busy, Referenced
<1>3. \A c \in Call : at'[c] = "ran" => Given2(c)'
  BY DEF Free, Given2
<1> QED BY <1>1, <1>2, <1>3

\* Only what no call refers to is collected.
LEMMA CollectStep ==
    ASSUME IInv, NEW o \in Object, Collect(o)
    PROVE  IInv'
<1> USE DEF IInv
<1>1. Shape'
  BY DEF Shape, OnDomain, Collect
<1>2. \A p \in Object : p # o => phase'[p] = phase[p]
  BY DEF Collect, Shape, OnDomain
<1>3. HeldLive'
  BY <1>2 DEF HeldLive, Collect
<1>4. ASSUME NEW c \in Call, Busy(c)' PROVE Referenced(c)'
  <2>1. Referenced(c) /\ ctx' = ctx /\ mem' = mem
    BY <1>4 DEF Collect, Busy
  <2>2. ASSUME NEW k \in DOMAIN ctx[c].arg, IsObject(ctx[c].fn.args[k])
        PROVE  ctx[c].arg[k] # o
    <3>1. <<"ref", k>> \in Refs(ctx[c].fn)
      BY <2>1, <2>2 DEF Refs, Referenced
    <3>2. <<"ref", k>> \in mem[c]
      BY <2>1, <3>1 DEF Referenced
    <3> QED BY <3>2 DEF Collect, Pinned
  <2> QED BY <1>2, <2>1, <2>2 DEF Referenced
<1>5. \A c \in Call : at'[c] = "ran" => Given2(c)'
  BY DEF Collect, Given2
<1> QED BY <1>1, <1>3, <1>4, <1>5

-----------------------------------------------------------------------------
(* Steps of a call                                                         *)

\* A step of one call that ends it, or leaves what it holds as it was, and
\* that touches no object keeps the invariant.
LEMMA CallFrame ==
    ASSUME IInv, NEW c \in Call, Shape', HeldLive', phase' = phase,
           \A d \in Call \ {c} : /\ at'[d] = at[d] /\ ctx'[d] = ctx[d]
                                 /\ out'[d] = out[d] /\ mem'[d] = mem[d],
           Busy(c)' => Referenced(c)',
           at'[c] = "ran" => Given2(c)'
    PROVE  IInv'
<1>1. ASSUME NEW d \in Call, d # c, Busy(d)' PROVE Referenced(d)'
  <2>1. Referenced(d)
    BY <1>1 DEF IInv, Busy
  <2> QED BY <1>1, <2>1 DEF Referenced
<1>2. ASSUME NEW d \in Call, d # c, at'[d] = "ran" PROVE Given2(d)'
  <2>1. Given2(d)
    BY <1>2 DEF IInv
  <2> QED BY <1>2, <2>1 DEF Given2
<1> QED BY <1>1, <1>2 DEF IInv

\* A call that ends with its objects as they were.
LEMMA Ends ==
    ASSUME IInv, NEW c \in Call, Shape', HeldLive', phase' = phase,
           \A d \in Call \ {c} : /\ at'[d] = at[d] /\ ctx'[d] = ctx[d]
                                 /\ out'[d] = out[d] /\ mem'[d] = mem[d],
           at'[c] = "over"
    PROVE  IInv'
<1>1. ~Busy(c)'
  BY DEF Busy
<1> QED BY <1>1, CallFrame

LEMMA RefuseStep ==
    ASSUME IInv, NEW c \in Call, NEW sig, NEW this, NEW js, Refuse(c, sig, this, js)
    PROVE  IInv'
<1>1. Shape /\ HeldLive
  BY DEF IInv
<1>2. Shape' /\ HeldLive' /\ phase' = phase
  BY <1>1 DEF Refuse, Shape, OnDomain, HeldLive, objects
<1>3. \A d \in Call \ {c} : /\ at'[d] = at[d] /\ ctx'[d] = ctx[d]
                            /\ out'[d] = out[d] /\ mem'[d] = mem[d]
  BY <1>1 DEF Refuse, Shape, OnDomain
<1>4. at'[c] = "over"
  BY <1>1 DEF Refuse, Shape, OnDomain
<1> QED BY <1>2, <1>3, <1>4, Ends

LEMMA BreakStep ==
    ASSUME IInv, NEW what, Break(what)
    PROVE  IInv'
BY DEF IInv, Break, Shape, OnDomain, HeldLive, objects, Busy, Referenced, Given2

LEMMA RunSyncStep ==
    ASSUME IInv, NEW c \in Call, NEW sig \in Fn, NEW this, NEW js \in Inputs(sig),
           Admitted(sig, this, js), RunSync(c, sig, NativeArgs(sig, js))
    PROVE  IInv'
<1>1. Shape /\ HeldLive
  BY DEF IInv
<1>2. Shape' /\ phase' = phase
  BY <1>1 DEF RunSync, Shape, OnDomain
<1>3. \A d \in Call \ {c} : /\ at'[d] = at[d] /\ ctx'[d] = ctx[d]
                            /\ out'[d] = out[d] /\ mem'[d] = mem[d]
  BY <1>1 DEF RunSync, Shape, OnDomain
<1>4. at'[c] = "over"
  BY <1>1 DEF RunSync, Shape, OnDomain
<1>5. HeldLive'
  <2>1. \/ held' = held
        \/ \E v \in Results(sig, NativeArgs(sig, js)) : held' = HeldWith(sig.ret, v)
    BY DEF RunSync
  <2>2. \A k \in DOMAIN NativeArgs(sig, js) : IsObject(sig.args[k]) =>
           NativeArgs(sig, js)[k] \in Object /\ phase[NativeArgs(sig, js)[k]] = "live"
    BY <1>1, AdmittedHeld DEF HeldLive
  <2>3. DOMAIN NativeArgs(sig, js) = DOMAIN sig.args
    BY AdmittedHeld
  <2>4. \A v \in Results(sig, NativeArgs(sig, js)) :
           \A o \in HeldWith(sig.ret, v) : o \in Object /\ phase[o] = "live"
    BY <1>1, <2>2, <2>3, HandedLive
  <2>5. \A o \in held' : o \in Object /\ phase[o] = "live"
    BY <1>1, <2>1, <2>4 DEF HeldLive
  <2> QED BY <1>2, <2>5 DEF HeldLive
<1> QED BY <1>2, <1>3, <1>4, <1>5, Ends

LEMMA StartFailsStep ==
    ASSUME IInv, NEW c \in Call, NEW sig, NEW cb,
           StartNoCallback(c, sig, cb) \/ StartFails(c, sig, cb)
    PROVE  IInv'
<1>1. Shape /\ HeldLive
  BY DEF IInv
<1>2. phase' = phase /\ held' = held /\ ctx' = ctx /\ out' = out
  BY DEF StartNoCallback, StartFails, objects
<1>3. at' = [at EXCEPT ![c] = "over"]
  BY DEF StartNoCallback, StartFails
<1>4. mem' = mem \/ \E m : mem' = [mem EXCEPT ![c] = m]
  <2>1. CASE StartNoCallback(c, sig, cb)
    BY <2>1 DEF StartNoCallback
  <2>2. CASE StartFails(c, sig, cb)
    BY <2>2 DEF StartFails
  <2> QED BY <2>1, <2>2
<1>5. Shape'
  BY <1>1, <1>2, <1>3, <1>4 DEF Shape, OnDomain
<1>6. HeldLive'
  BY <1>1, <1>2 DEF HeldLive
<1>7. \A d \in Call \ {c} : /\ at'[d] = at[d] /\ ctx'[d] = ctx[d]
                            /\ out'[d] = out[d] /\ mem'[d] = mem[d]
  BY <1>1, <1>2, <1>3, <1>4 DEF Shape, OnDomain
<1>8. at'[c] = "over"
  BY <1>1, <1>3 DEF Shape, OnDomain
<1> QED BY <1>2, <1>5, <1>6, <1>7, <1>8, Ends

\* A queued call has taken the references of its arguments.
LEMMA StartStep ==
    ASSUME IInv, NEW c \in Call, NEW sig \in Fn, NEW this, NEW js \in Inputs(sig), NEW cb,
           Admitted(sig, this, js), Start(c, sig, this, NativeArgs(sig, js), cb)
    PROVE  IInv'
<1>1. Shape /\ HeldLive
  BY DEF IInv
<1>2. Shape' /\ HeldLive' /\ phase' = phase
  BY <1>1 DEF Start, Shape, OnDomain, HeldLive, objects
<1>3. \A d \in Call \ {c} : /\ at'[d] = at[d] /\ ctx'[d] = ctx[d]
                            /\ out'[d] = out[d] /\ mem'[d] = mem[d]
  BY <1>1 DEF Start, Shape, OnDomain
<1>4. at'[c] = "queued"
  BY <1>1 DEF Start, Shape, OnDomain
<1>5. Referenced(c)'
  <2> DEFINE arg == NativeArgs(sig, js)
  <2>1. ctx'[c] = [fn |-> sig, this |-> this, arg |-> arg, cb |-> cb]
    BY <1>1 DEF Start, Shape, OnDomain
  <2>2. Refs(sig) \subseteq mem'[c]
    BY <1>1 DEF Start, Shape, OnDomain
  <2>3. DOMAIN arg = DOMAIN sig.args
    BY AdmittedHeld
  <2>4. \A k \in DOMAIN arg : IsObject(sig.args[k]) =>
           arg[k] \in Object /\ phase'[arg[k]] = "live"
    BY <1>1, <1>2, <2>3, AdmittedHeld DEF HeldLive
  <2>5. ctx'[c].fn = sig /\ ctx'[c].arg = arg
    BY <2>1
  <2> HIDE DEF arg
  <2> QED BY <2>2, <2>3, <2>4, <2>5 DEF Referenced
<1> QED BY <1>2, <1>3, <1>4, <1>5, CallFrame

LEMMA RunStep ==
    ASSUME IInv, NEW c \in Call, Run(c)
    PROVE  IInv'
<1>1. CASE \E what : Break(what)
  BY <1>1, BreakStep
<1>2. CASE /\ at' = [at EXCEPT ![c] = "running"]
           /\ UNCHANGED <<loaded, objects, ctx, out, mem, answer, fault, broken>>
  <2>1. Shape /\ HeldLive /\ Referenced(c)
    BY DEF IInv, Run, Busy
  <2>2. Shape' /\ HeldLive' /\ phase' = phase
    BY <1>2, <2>1 DEF Shape, OnDomain, HeldLive, objects
  <2>3. at'[c] = "running" /\ \A d \in Call \ {c} : at'[d] = at[d]
    BY <1>2, <2>1 DEF Shape, OnDomain
  <2>4. ctx' = ctx /\ out' = out /\ mem' = mem
    BY <1>2
  <2>5. Referenced(c)'
    BY <2>1, <2>2, <2>4 DEF Referenced
  <2> QED BY <2>2, <2>3, <2>4, <2>5, CallFrame
<1> QED BY <1>1, <1>2 DEF Run

LEMMA FinishStep ==
    ASSUME IInv, NEW c \in Call, Finish(c)
    PROVE  IInv'
<1>1. CASE \E what : Break(what)
  BY <1>1, BreakStep
<1>2. CASE ~\E what : Break(what)
  <2>1. Shape /\ HeldLive /\ Referenced(c)
    BY DEF IInv, Finish, Busy
  <2>2. /\ at' = [at EXCEPT ![c] = "ran"]
        /\ UNCHANGED <<loaded, objects, ctx, answer, fault, broken>>
    BY <1>2 DEF Finish
  <2>3. \/ out' = [out EXCEPT ![c] = [err |-> TRUE, v |-> Nothing]] /\ mem' = mem
        \/ \E v \in Results(ctx[c].fn, ctx[c].arg) \cup {Wild} : \E S :
              /\ out' = [out EXCEPT ![c] = [err |-> FALSE, v |-> v]]
              /\ mem' = [mem EXCEPT ![c] = @ \cup S]
    <3>1. CASE out' = [out EXCEPT ![c] = [err |-> FALSE, v |-> Wild]] /\ mem' = mem
      <4>1. mem' = [mem EXCEPT ![c] = @ \cup {}]
        BY <2>1, <3>1 DEF Shape, OnDomain
      <4> QED BY <3>1, <4>1
    <3>2. CASE \E v \in Results(ctx[c].fn, ctx[c].arg) : \E S :
              /\ out' = [out EXCEPT ![c] = [err |-> FALSE, v |-> v]]
              /\ mem' = [mem EXCEPT ![c] = @ \cup S]
      BY <3>2
    <3> QED BY <1>2, <3>1, <3>2 DEF Finish
  <2>4. Shape' /\ HeldLive' /\ phase' = phase /\ ctx' = ctx
    BY <2>1, <2>2, <2>3 DEF Shape, OnDomain, HeldLive, objects
  <2>5. \A d \in Call \ {c} : at'[d] = at[d] /\ out'[d] = out[d] /\ mem'[d] = mem[d]
    BY <2>1, <2>2, <2>3 DEF Shape, OnDomain
  <2>6. mem[c] \subseteq mem'[c]
    BY <2>1, <2>3 DEF Shape, OnDomain
  <2>7. Referenced(c)'
    BY <2>1, <2>4, <2>6 DEF Referenced
  <2>8. Given2(c)'
    BY <2>1, <2>3, <2>4 DEF Given2, Shape, OnDomain
  <2> QED BY <2>4, <2>5, <2>7, <2>8, CallFrame
<1> QED BY <1>1, <1>2

LEMMA UncaughtStep ==
    ASSUME IInv, NEW c \in Call, NEW m, NEW site, Uncaught(c, m, site)
    PROVE  IInv'
<1>1. Shape /\ HeldLive
  BY DEF IInv
<1>2. Shape' /\ HeldLive' /\ phase' = phase
  BY <1>1 DEF Uncaught, Shape, OnDomain, HeldLive, objects
<1>3. \A d \in Call \ {c} : /\ at'[d] = at[d] /\ ctx'[d] = ctx[d]
                            /\ out'[d] = out[d] /\ mem'[d] = mem[d]
  BY <1>1 DEF Uncaught, Shape, OnDomain
<1>4. at'[c] = "over"
  BY <1>1 DEF Uncaught, Shape, OnDomain
<1> QED BY <1>2, <1>3, <1>4, Ends

\* JavaScript is told a result while the arguments are still referenced.
LEMMA TellStep ==
    ASSUME IInv, NEW c \in Call, at[c] = "ran", NEW js, NEW v, Tell(c, js, v),
           v = Nothing \/ v \in Results(ctx[c].fn, ctx[c].arg)
    PROVE  IInv'
<1>1. Shape /\ HeldLive /\ Referenced(c)
  BY DEF IInv, Busy
<1>2. Shape' /\ phase' = phase /\ ctx' = ctx /\ out' = out
  BY <1>1 DEF Tell, Shape, OnDomain
<1>3. \A d \in Call \ {c} : at'[d] = at[d] /\ mem'[d] = mem[d]
  BY <1>1 DEF Tell, Shape, OnDomain
<1>4. at'[c] = "answering" /\ mem'[c] = mem[c] \ {<<"callback", 0>>}
  BY <1>1 DEF Tell, Shape, OnDomain
<1>5. HeldLive'
  <2>1. held' = HeldWith(ctx[c].fn.ret, v)
    BY DEF Tell
  <2>2. CASE v = Nothing
    BY <1>1, <1>2, <2>1, <2>2 DEF HeldWith, HeldLive
  <2>3. CASE v \in Results(ctx[c].fn, ctx[c].arg)
    <3>1. \A o \in HeldWith(ctx[c].fn.ret, v) : o \in Object /\ phase[o] = "live"
      BY <1>1, <2>3, HandedLive DEF Referenced
    <3> QED BY <1>2, <2>1, <3>1 DEF HeldLive
  <2> QED BY <2>2, <2>3
<1>6. Refs(ctx[c].fn) \subseteq mem'[c]
  BY <1>1, <1>4 DEF Referenced, Refs
<1>7. Referenced(c)'
  BY <1>1, <1>2, <1>6 DEF Referenced
<1> QED BY <1>2, <1>3, <1>4, <1>5, <1>7, CallFrame

LEMMA CompleteStep ==
    ASSUME IInv, NEW c \in Call, Complete(c)
    PROVE  IInv'
<1>1. at[c] = "ran" /\ Given2(c)
  BY DEF Complete, IInv
<1>2. CASE \E m, site : Uncaught(c, m, site)
  BY <1>2, UncaughtStep
<1>3. CASE Tell(c, Said("error"), Nothing)
  BY <1>1, <1>3, TellStep
<1>4. CASE /\ ~out[c].err /\ out[c].v # Wild
           /\ Tell(c, Returned(ctx[c].fn.ret, out[c].v), out[c].v)
  BY <1>1, <1>4, TellStep DEF Given2
<1>5. CASE \E what : Break(what)
  BY <1>5, BreakStep
<1> QED BY <1>2, <1>3, <1>4, <1>5 DEF Complete, TellError, TellResult

LEMMA ReturnStep ==
    ASSUME IInv, NEW c \in Call, Return(c)
    PROVE  IInv'
<1>1. Shape /\ HeldLive
  BY DEF IInv
<1>2. Shape' /\ HeldLive' /\ phase' = phase
  BY <1>1 DEF Return, Shape, OnDomain, HeldLive, objects
<1>3. \A d \in Call \ {c} : /\ at'[d] = at[d] /\ ctx'[d] = ctx[d]
                            /\ out'[d] = out[d] /\ mem'[d] = mem[d]
  BY <1>1 DEF Return, Shape, OnDomain
<1>4. at'[c] = "over"
  BY <1>1 DEF Return, Shape, OnDomain
<1> QED BY <1>2, <1>3, <1>4, Ends

-----------------------------------------------------------------------------

LEMMA NextInv == IInv /\ [Next]_vars => IInv'
<1> SUFFICES ASSUME IInv, [Next]_vars PROVE IInv'
  OBVIOUS
<1>1. CASE UNCHANGED <<objects, at, ctx, out, mem>>
  BY <1>1 DEF objects, IInv, Shape, OnDomain, HeldLive, Busy, Referenced, Given2
<1>2. CASE ExportFunctions \/ ExportClasses
  <2>1. UNCHANGED <<objects, at, ctx, out, mem>>
    BY <1>2 DEF ExportFunctions, ExportClasses
  <2> QED BY <1>1, <2>1
<1>3. ASSUME NEW o \in Object, New(o) \/ Drop(o) \/ Free(o) \/ Collect(o) PROVE IInv'
  BY <1>3, NewStep, DropStep, FreeStep, CollectStep
<1>4. ASSUME NEW c \in Call, CallSync(c) PROVE IInv'
  <2>1. PICK sig \in Fn : \E this \in ThisOf(sig), js \in Inputs(sig) :
           \/ Refuse(c, sig, this, js)
           \/ /\ Admitted(sig, this, js)
              /\ \/ \E what : Break(what)
                 \/ RunSync(c, sig, NativeArgs(sig, js))
    BY <1>4 DEF CallSync
  <2>2. PICK js \in Inputs(sig) : \E this :
           \/ Refuse(c, sig, this, js)
           \/ \E what : Break(what)
           \/ Admitted(sig, this, js) /\ RunSync(c, sig, NativeArgs(sig, js))
    BY <2>1
  <2> QED BY <2>2, RefuseStep, BreakStep, RunSyncStep
<1>5. ASSUME NEW c \in Call, CallAsync(c) PROVE IInv'
  <2>1. PICK sig \in Fn : \E this \in ThisOf(sig), js \in Inputs(sig) :
           \/ Refuse(c, sig, this, js)
           \/ /\ Admitted(sig, this, js)
              /\ \E cb \in {"function", "object", "primitive"} :
                    \/ StartNoCallback(c, sig, cb)
                    \/ StartFails(c, sig, cb)
                    \/ Start(c, sig, this, NativeArgs(sig, js), cb)
    BY <1>5 DEF CallAsync
  <2>2. PICK js \in Inputs(sig) : \E this, cb :
           \/ Refuse(c, sig, this, js)
           \/ StartNoCallback(c, sig, cb) \/ StartFails(c, sig, cb)
           \/ /\ Admitted(sig, this, js)
              /\ Start(c, sig, this, NativeArgs(sig, js), cb)
    BY <2>1
  <2> QED BY <2>2, RefuseStep, StartFailsStep, StartStep
<1>6. ASSUME NEW c \in Call, Run(c) \/ Finish(c) \/ Complete(c) \/ Return(c) PROVE IInv'
  BY <1>6, RunStep, FinishStep, CompleteStep, ReturnStep
<1> QED BY <1>1, <1>2, <1>3, <1>4, <1>5, <1>6 DEF Next, vars

\* Whatever JavaScript drops and the collector collects, the objects given to
\* a call live until its callback has returned (fn_generator.coffee 533-541).
THEOREM ArgumentsLive == Spec => []ArgsAlive
<1>1. Spec => []IInv
  BY InitInv, NextInv, PTL DEF Spec
<1>2. IInv => ArgsAlive
  BY DEF IInv, ArgsAlive, Referenced
<1> QED BY <1>1, <1>2, PTL

-----------------------------------------------------------------------------
(* What a call holds and what JavaScript is told: each call by itself.     *)

Tables ==
    /\ OnDomain(at, Call) /\ OnDomain(ctx, Call) /\ OnDomain(out, Call)
    /\ OnDomain(mem, Call) /\ OnDomain(answer, Call) /\ OnDomain(fault, Call)

Callback == <<"callback", 0>>
Result   == <<"result", 0>>

\* The only answers a call that got as far as the pool may give.
Honest(c) ==
    answer[c][1] \in {Said("error"), Said("uncaught")}
        \cup (IF out[c].err THEN {} ELSE {Returned(ctx[c].fn.ret, out[c].v)})

\* On the pool: nothing is told, and all the call needs is there.
Pending(c) ==
    /\ answer[c] = <<>> /\ fault[c] = "none" /\ ctx[c].fn # Nothing
    /\ Ctx(ctx[c].fn) \cup {Callback} \subseteq mem[c]
    /\ mem[c] \subseteq Text(ctx[c].fn) \cup Ctx(ctx[c].fn) \cup {Callback, Result}
    /\ Result \in mem[c] => at[c] = "ran" /\ ~out[c].err

\* In its callback: one answer, the callback's reference is given back.
Telling(c) ==
    /\ Len(answer[c]) = 1 /\ Honest(c) /\ fault[c] = "none" /\ ctx[c].fn # Nothing
    /\ Ctx(ctx[c].fn) \subseteq mem[c]
    /\ mem[c] \subseteq Text(ctx[c].fn) \cup Ctx(ctx[c].fn) \cup {Result}
    /\ Result \in mem[c] => ~out[c].err

\* At its end; a call that was refused has no context.
Ended(c) ==
    /\ Len(answer[c]) = 1
    /\ ctx[c].fn # Nothing => Honest(c)
    /\ \A m \in mem[c] : MayStay(c, m)

CallInv(c) ==
    /\ at[c] \in {"unused", "queued", "running", "ran", "answering", "over"}
    /\ at[c] = "unused" => /\ answer[c] = <<>> /\ fault[c] = "none"
                           /\ ctx[c] = Unused /\ mem[c] = {}
    /\ at[c] \in {"queued", "running", "ran"} => Pending(c)
    /\ at[c] = "answering" => Telling(c)
    /\ at[c] = "over" => Ended(c)

CallsInv == Tables /\ \A c \in Call : CallInv(c)

\* A step of one call: the others are as they were.
Only(c) ==
    \A d \in Call \ {c} : /\ at'[d] = at[d] /\ ctx'[d] = ctx[d] /\ out'[d] = out[d]
                          /\ mem'[d] = mem[d] /\ answer'[d] = answer[d] /\ fault'[d] = fault[d]

LEMMA OneCall ==
    ASSUME CallsInv, NEW c \in Call, Tables', Only(c), CallInv(c)'
    PROVE  CallsInv'
<1>1. ASSUME NEW d \in Call, d # c PROVE CallInv(d)'
  <2>1. CallInv(d)
    BY DEF CallsInv
  <2>2. /\ at'[d] = at[d] /\ ctx'[d] = ctx[d] /\ out'[d] = out[d]
        /\ mem'[d] = mem[d] /\ answer'[d] = answer[d] /\ fault'[d] = fault[d]
    BY <1>1 DEF Only
  <2> QED BY <2>1, <2>2 DEF CallInv, Pending, Telling, Ended, Honest, MayStay
<1> QED BY <1>1 DEF CallsInv

LEMMA NoCall ==
    ASSUME CallsInv, UNCHANGED <<at, ctx, out, mem, answer, fault>>
    PROVE  CallsInv'
BY DEF CallsInv, Tables, OnDomain, CallInv, Pending, Telling, Ended, Honest, MayStay

\* What is written down of a text is its type.
LEMMA StringsTyped ==
    ASSUME NEW sig, NEW S, NEW types
    PROVE  \A m \in Strings(sig, S, types) : m[1] \in types
BY DEF Strings

\* A call that is over before it was queued: it has an answer, and no context.
LEMMA OverAtOnce ==
    ASSUME CallsInv, NEW c \in Call, at[c] = "unused", UNCHANGED <<ctx, out>>, Tables', Only(c),
           at'[c] = "over", Len(answer'[c]) = 1, \A m \in mem'[c] : MayStay(c, m)'
    PROVE  CallsInv'
<1>1. ctx[c] = Unused
  BY DEF CallsInv, CallInv
<1>2. ctx'[c].fn = Nothing
  BY <1>1 DEF Unused
<1>3. Ended(c)'
  BY <1>2 DEF Ended
<1>4. CallInv(c)'
  BY <1>3 DEF CallInv
<1> QED BY <1>4, OneCall

LEMMA RefuseOnce ==
    ASSUME CallsInv, NEW c \in Call, at[c] = "unused",
           NEW sig, NEW this, NEW js, Refuse(c, sig, this, js)
    PROVE  CallsInv'
<1>1. Tables
  BY DEF CallsInv
<1>2. Tables' /\ Only(c) /\ at'[c] = "over" /\ answer'[c] = <<Said("thrown")>>
  BY <1>1 DEF Refuse, Tables, OnDomain, Only
<1>3. UNCHANGED <<ctx, out>>
  BY DEF Refuse
<1>4. mem'[c] = Strings(sig, Parsed(sig, this, js), StrTypes)
  BY <1>1 DEF Refuse, Tables, OnDomain
<1>5. \A m \in mem'[c] : MayStay(c, m)'
  BY <1>2, <1>4, StringsTyped DEF StrTypes, MayStay
<1>6. Len(answer'[c]) = 1
  BY <1>2
<1> QED BY <1>2, <1>3, <1>5, <1>6, OverAtOnce

LEMMA RunSyncOnce ==
    ASSUME CallsInv, NEW c \in Call, at[c] = "unused", NEW sig, NEW arg, RunSync(c, sig, arg)
    PROVE  CallsInv'
<1>1. Tables
  BY DEF CallsInv
<1>2. /\ at' = [at EXCEPT ![c] = "over"]
      /\ \E v : answer' = [answer EXCEPT ![c] = <<v>>]
      /\ \E m : mem' = [mem EXCEPT ![c] = m]
      /\ fault' = fault \/ \E f : fault' = [fault EXCEPT ![c] = f]
      /\ UNCHANGED <<ctx, out>>
  BY DEF RunSync
<1>3. Tables' /\ at'[c] = "over"
  BY <1>1, <1>2 DEF Tables, OnDomain
<1>4. Only(c)
  BY <1>1, <1>2 DEF Tables, OnDomain, Only
<1>5. \E v : answer'[c] = <<v>>
  BY <1>1, <1>2 DEF Tables, OnDomain
<1>6. Len(answer'[c]) = 1
  BY <1>5
<1>7. \/ answer'[c] = <<Said("thrown")>>
      \/ mem'[c] = Strings(sig, DOMAIN sig.args, {"str_no_free"})
  BY <1>1 DEF RunSync, Tables, OnDomain
<1>8. mem'[c] \subseteq Strings(sig, DOMAIN sig.args, StrTypes) \cup {Result}
  <2>1. Strings(sig, DOMAIN sig.args, {"str_no_free"}) \subseteq Strings(sig, DOMAIN sig.args, StrTypes)
    BY DEF Strings, StrTypes
  <2>2. \/ mem'[c] = Strings(sig, DOMAIN sig.args, StrTypes)
                \cup IF sig.ret = "str_simple_craft" THEN {Result} ELSE {}
        \/ mem'[c] = Strings(sig, DOMAIN sig.args, {"str_no_free"})
    BY <1>1 DEF RunSync, Tables, OnDomain, Result
  <2> QED BY <2>1, <2>2
<1>9. ASSUME NEW m \in mem'[c] PROVE MayStay(c, m)'
  <2>1. CASE m[1] = "str_no_free"
    BY <2>1 DEF MayStay
  <2>2. CASE answer'[c] = <<Said("thrown")>>
    <3>1. m[1] \in {"str", "str_no_free", "result"}
      BY <1>8, StringsTyped DEF StrTypes, Result
    <3> QED BY <2>2, <3>1 DEF MayStay
  <2> QED BY <1>7, <2>1, <2>2, StringsTyped
<1> QED BY <1>2, <1>3, <1>4, <1>6, <1>9, OverAtOnce

LEMMA StartFailsOnce ==
    ASSUME CallsInv, NEW c \in Call, at[c] = "unused", NEW sig, NEW cb,
           StartNoCallback(c, sig, cb) \/ StartFails(c, sig, cb)
    PROVE  CallsInv'
<1>1. Tables
  BY DEF CallsInv
<1>2. /\ at' = [at EXCEPT ![c] = "over"]
      /\ UNCHANGED <<ctx, out>>
  BY DEF StartNoCallback, StartFails
<1>3. \E v : answer' = [answer EXCEPT ![c] = <<v>>]
  BY DEF StartNoCallback, StartFails
<1>4. mem' = mem \/ \E m : mem' = [mem EXCEPT ![c] = m]
  <2>1. CASE StartNoCallback(c, sig, cb)
    BY <2>1 DEF StartNoCallback
  <2>2. CASE StartFails(c, sig, cb)
    BY <2>2 DEF StartFails
  <2> QED BY <2>1, <2>2
<1>5. fault' = fault \/ \E f : fault' = [fault EXCEPT ![c] = f]
  <2>1. CASE StartNoCallback(c, sig, cb)
    BY <2>1 DEF StartNoCallback
  <2>2. CASE StartFails(c, sig, cb)
    BY <2>2 DEF StartFails
  <2> QED BY <2>1, <2>2
<1>6. Tables' /\ at'[c] = "over"
  BY <1>1, <1>2, <1>3, <1>4, <1>5 DEF Tables, OnDomain
<1>7. Only(c)
  BY <1>1, <1>2, <1>3, <1>4, <1>5 DEF Tables, OnDomain, Only
<1>8. \E v : answer'[c] = <<v>>
  BY <1>1, <1>3 DEF Tables, OnDomain
<1>9. Len(answer'[c]) = 1
  BY <1>8
<1>10. ASSUME NEW m \in mem'[c] PROVE MayStay(c, m)'
  <2>1. mem[c] = {}
    BY DEF CallsInv, CallInv
  <2>2. CASE StartNoCallback(c, sig, cb)
    <3>1. mem'[c] = Text(sig)
      BY <1>1, <2>2 DEF StartNoCallback, Tables, OnDomain
    <3>2. m[1] \in StrTypes
      BY <3>1, StringsTyped DEF Text
    <3>3. answer'[c] = <<Said("thrown")>> \/ fault'[c] = "callback"
      BY <1>1, <2>2 DEF StartNoCallback, Tables, OnDomain
    <3> QED BY <3>2, <3>3 DEF StrTypes, MayStay
  <2>3. CASE StartFails(c, sig, cb)
    <3>1. answer'[c] = <<Said("thrown")>>
      BY <1>1, <2>3 DEF StartFails, Tables, OnDomain
    <3>2. \/ mem'[c] = Text(sig) \cup {Callback} /\ fault'[c] = "name"
          \/ mem'[c] = {}
          \/ /\ mem'[c] = Cleared(Text(sig) \cup Ctx(sig), sig) \cup {Callback}
             /\ fault'[c] = "queue"
      BY <1>1, <2>1, <2>3 DEF StartFails, Tables, OnDomain, Callback
    <3>3. mem'[c] \subseteq Text(sig) \cup {Callback} /\ (mem'[c] = {} \/ fault'[c] \in {"name", "queue"})
      BY <3>2 DEF Cleared
    <3>4. m[1] \in StrTypes \/ m[1] = "callback"
      BY <3>3, StringsTyped DEF Text, Callback
    <3> QED BY <3>1, <3>3, <3>4 DEF StrTypes, MayStay
  <2> QED BY <2>2, <2>3
<1> QED BY <1>2, <1>6, <1>7, <1>9, <1>10, OverAtOnce

\* What is queued has taken all it needs and told nothing.
LEMMA StartOnce ==
    ASSUME CallsInv, NEW c \in Call, at[c] = "unused",
           NEW sig \in Fn, NEW this, NEW arg, NEW cb, Start(c, sig, this, arg, cb)
    PROVE  CallsInv'
<1>1. Tables /\ answer[c] = <<>> /\ fault[c] = "none"
  BY DEF CallsInv, CallInv
<1>2. Tables' /\ Only(c)
  BY <1>1 DEF Start, Tables, OnDomain, Only
<1>3. /\ at'[c] = "queued" /\ answer'[c] = <<>> /\ fault'[c] = "none"
      /\ mem'[c] = Text(sig) \cup {<<"ctx", 0>>, <<"work", 0>>, <<"callback", 0>>} \cup Refs(sig)
      /\ ctx'[c] = [fn |-> sig, this |-> this, arg |-> arg, cb |-> cb]
  BY <1>1 DEF Start, Tables, OnDomain
<1>4. ctx'[c].fn = sig
  BY <1>3
<1>5. Ctx(sig) \subseteq mem'[c] /\ Callback \in mem'[c]
  BY <1>3 DEF Ctx, Text, Strings, StrTypes, Callback
<1>6. mem'[c] \subseteq Text(sig) \cup Ctx(sig) \cup {Callback, Result}
  BY <1>3 DEF Ctx, Callback
<1>7. Pending(c)'
  <2>1. sig # Nothing
    BY CallAssumption, Zenon
  <2>2. Result \notin Text(sig)
    BY StringsTyped DEF Text, StrTypes, Result
  <2>3. Result \notin mem'[c]
    BY <1>3, <2>2 DEF Refs, Result
  <2> QED BY <1>3, <1>4, <1>5, <1>6, <2>1, <2>3 DEF Pending
<1>8. CallInv(c)'
  BY <1>3, <1>7 DEF CallInv
<1> QED BY <1>2, <1>8, OneCall

LEMMA RunOnce ==
    ASSUME CallsInv, NEW c \in Call, Run(c)
    PROVE  CallsInv'
<1>1. CASE \E what : Break(what)
  BY <1>1, NoCall DEF Break
<1>2. CASE /\ at' = [at EXCEPT ![c] = "running"]
           /\ UNCHANGED <<loaded, objects, ctx, out, mem, answer, fault, broken>>
  <2>1. Tables /\ Pending(c)
    BY DEF CallsInv, CallInv, Run
  <2>2. Tables' /\ Only(c) /\ at'[c] = "running"
    BY <1>2, <2>1 DEF Tables, OnDomain, Only
  <2>3. Pending(c)'
    BY <1>2, <2>1 DEF Pending, Run
  <2>4. CallInv(c)'
    BY <2>2, <2>3 DEF CallInv
  <2> QED BY <2>2, <2>4, OneCall
<1> QED BY <1>1, <1>2 DEF Run

LEMMA FinishOnce ==
    ASSUME CallsInv, NEW c \in Call, Finish(c)
    PROVE  CallsInv'
<1>1. CASE \E what : Break(what)
  BY <1>1, NoCall DEF Break
<1>2. CASE ~\E what : Break(what)
  <2>1. Tables /\ Pending(c)
    BY DEF CallsInv, CallInv, Finish
  <2>2. /\ at' = [at EXCEPT ![c] = "ran"]
        /\ UNCHANGED <<ctx, answer, fault>>
    BY <1>2 DEF Finish
  <2> DEFINE Left(e, v, S) == /\ out' = [out EXCEPT ![c] = [err |-> e, v |-> v]]
                              /\ mem' = [mem EXCEPT ![c] = mem[c] \cup S]
                              /\ S \subseteq {Result} /\ (e = FALSE \/ S = {})
  <2>3. PICK e, v, S : Left(e, v, S)
    <3>1. CASE \E e \in BOOLEAN : \E v : /\ out' = [out EXCEPT ![c] = [err |-> e, v |-> v]]
                                       /\ mem' = mem
      <4>1. mem' = [mem EXCEPT ![c] = mem[c] \cup {}]
        BY <2>1, <3>1 DEF Tables, OnDomain
      <4>2. PICK e, v : out' = [out EXCEPT ![c] = [err |-> e, v |-> v]]
        BY <3>1
      <4>3. Left(e, v, {})
        BY <4>1, <4>2
      <4> HIDE DEF Left
      <4> QED BY <4>3
    <3>2. CASE \E v : /\ out' = [out EXCEPT ![c] = [err |-> FALSE, v |-> v]]
                      /\ mem' = [mem EXCEPT ![c] = @ \cup
                            IF Allocated(ctx[c].fn.ret) THEN {<<"result", 0>>} ELSE {}]
      <4> DEFINE S == IF Allocated(ctx[c].fn.ret) THEN {<<"result", 0>>} ELSE {}
      <4>1. S \in SUBSET {Result}
        BY DEF Result
      <4>2. PICK v : /\ out' = [out EXCEPT ![c] = [err |-> FALSE, v |-> v]]
                     /\ mem' = [mem EXCEPT ![c] = mem[c] \cup S]
        BY <3>2
      <4> HIDE DEF S
      <4>3. Left(FALSE, v, S)
        BY <4>1, <4>2
      <4> HIDE DEF Left
      <4> QED BY <4>3
    <3> QED BY <1>2, <3>1, <3>2 DEF Finish
  <2>4. Tables' /\ at'[c] = "ran"
    BY <2>1, <2>2, <2>3 DEF Tables, OnDomain
  <2>5. Only(c)
    BY <2>1, <2>2, <2>3 DEF Tables, OnDomain, Only
  <2>6. mem[c] \subseteq mem'[c] /\ mem'[c] \subseteq mem[c] \cup {Result}
    BY <2>1, <2>3 DEF Tables, OnDomain
  <2>7. Result \in mem'[c] => ~out'[c].err
    <3>1. Result \notin mem[c]
      BY <2>1 DEF Pending, Finish
    <3>2. mem'[c] = mem[c] \cup S /\ out'[c].err = e
      BY <2>1, <2>3 DEF Tables, OnDomain
    <3> QED BY <2>3, <3>1, <3>2
  <2>9. Pending(c)'
    BY <2>1, <2>2, <2>4, <2>6, <2>7 DEF Pending
  <2>10. CallInv(c)'
    BY <2>4, <2>9 DEF CallInv
  <2> QED BY <2>4, <2>5, <2>10, OneCall
<1> QED BY <1>1, <1>2

\* _clear leaves the text nobody frees, and the result of the call.
LEMMA ClearedLeaves ==
    ASSUME NEW sig, NEW m, NEW x \in Cleared(m, sig),
           m \subseteq Text(sig) \cup Ctx(sig) \cup {Callback, Result}
    PROVE  x \in {Callback, Result} \/ x[1] = "str_no_free"
<1> SUFFICES ASSUME x \notin {Callback, Result} PROVE x[1] = "str_no_free"
  OBVIOUS
<1>1. x \in Text(sig) /\ x \notin Ctx(sig)
  BY DEF Cleared
<1>2. PICK k \in DOMAIN sig.args : sig.args[k] \in StrTypes /\ x = <<sig.args[k], k>>
  BY <1>1 DEF Text, Strings
<1>3. sig.args[k] # "str"
  BY <1>1, <1>2 DEF Ctx, Strings
<1> QED BY <1>2, <1>3 DEF StrTypes

LEMMA UncaughtOnce ==
    ASSUME CallsInv, NEW c \in Call, at[c] = "ran", NEW m, NEW site, Uncaught(c, m, site),
           m \subseteq mem[c], site # "get" => Callback \notin m
    PROVE  CallsInv'
<1>1. Tables /\ Pending(c)
  BY DEF CallsInv, CallInv
<1>2. Tables' /\ Only(c)
  BY <1>1 DEF Uncaught, Tables, OnDomain, Only
<1>3. /\ at'[c] = "over" /\ answer'[c] = <<Said("uncaught")>> /\ fault'[c] = site
      /\ mem'[c] = Cleared(m, ctx[c].fn) /\ ctx' = ctx
  BY <1>1 DEF Uncaught, Tables, OnDomain, Pending
<1>4. Len(answer'[c]) = 1 /\ Honest(c)'
  BY <1>3 DEF Honest
<1>5. ASSUME NEW x \in mem'[c] PROVE MayStay(c, x)'
  <2>1. m \subseteq Text(ctx[c].fn) \cup Ctx(ctx[c].fn) \cup {Callback, Result}
    BY <1>1 DEF Pending
  <2>2. x \in Cleared(m, ctx[c].fn) /\ x \in m
    BY <1>3, <1>5 DEF Cleared
  <2>3. x \in {Callback, Result} \/ x[1] = "str_no_free"
    BY <2>1, <2>2, ClearedLeaves
  <2>4. CASE x = Callback
    BY <1>3, <2>2, <2>4 DEF MayStay, Callback
  <2>5. CASE x = Result
    <3>1. x[1] = "result" /\ ~out[c].err /\ ctx[c].fn # Nothing
      BY <1>1, <2>2, <2>5 DEF Pending, Result
    <3>2. out' = out
      BY DEF Uncaught
    <3> QED BY <1>3, <3>1, <3>2 DEF MayStay
  <2>6. CASE x[1] = "str_no_free"
    BY <2>6 DEF MayStay
  <2> QED BY <2>3, <2>4, <2>5, <2>6
<1>6. Ended(c)'
  BY <1>3, <1>4, <1>5 DEF Ended
<1>7. CallInv(c)'
  BY <1>3, <1>6 DEF CallInv
<1> QED BY <1>2, <1>7, OneCall

LEMMA TellOnce ==
    ASSUME CallsInv, NEW c \in Call, at[c] = "ran", NEW js, NEW v, Tell(c, js, v),
           js = Said("error") \/ (~out[c].err /\ js = Returned(ctx[c].fn.ret, out[c].v))
    PROVE  CallsInv'
<1>1. Tables /\ Pending(c)
  BY DEF CallsInv, CallInv
<1>2. Tables' /\ Only(c)
  BY <1>1 DEF Tell, Tables, OnDomain, Only
<1>3. /\ at'[c] = "answering" /\ answer'[c] = <<js>> /\ fault'[c] = "none"
      /\ mem'[c] = mem[c] \ {Callback} /\ ctx' = ctx /\ out' = out
  BY <1>1 DEF Tell, Tables, OnDomain, Pending, Callback
<1>4. Len(answer'[c]) = 1 /\ Honest(c)'
  BY <1>3 DEF Honest
<1>5. Callback \notin Ctx(ctx[c].fn)
  <2>1. Callback \notin Strings(ctx[c].fn, DOMAIN ctx[c].fn.args, {"str"})
    BY StringsTyped DEF Callback
  <2> QED BY <2>1 DEF Callback, Ctx, Refs
<1>6. Telling(c)'
  BY <1>1, <1>3, <1>4, <1>5 DEF Pending, Telling
<1>7. CallInv(c)'
  BY <1>3, <1>6 DEF CallInv
<1> QED BY <1>2, <1>7, OneCall

LEMMA CompleteOnce ==
    ASSUME CallsInv, NEW c \in Call, Complete(c)
    PROVE  CallsInv'
<1>1. at[c] = "ran"
  BY DEF Complete
<1>2. CASE \E m, site : /\ Uncaught(c, m, site) /\ m \subseteq mem[c]
                        /\ site # "get" => Callback \notin m
  BY <1>1, <1>2, UncaughtOnce
<1>3. CASE Tell(c, Said("error"), Nothing)
  BY <1>1, <1>3, TellOnce
<1>4. CASE ~out[c].err /\ Tell(c, Returned(ctx[c].fn.ret, out[c].v), out[c].v)
  BY <1>1, <1>4, TellOnce
<1>5. CASE \E what : Break(what)
  BY <1>5, NoCall DEF Break
<1>6. CASE "get" \in Failing /\ Uncaught(c, mem[c], "get")
  BY <1>2, <1>6
<1>7. CASE \E site : Uncaught(c, mem[c] \ {Callback}, site)
  BY <1>2, <1>7
<1> QED BY <1>3, <1>4, <1>5, <1>6, <1>7 DEF Complete, TellError, TellResult, Callback

\* The callback returned; what is left is what nobody frees.
LEMMA ReturnOnce ==
    ASSUME CallsInv, NEW c \in Call, Return(c)
    PROVE  CallsInv'
<1>1. Tables /\ Telling(c)
  BY DEF CallsInv, CallInv, Return
<1>2. Tables' /\ Only(c)
  BY <1>1 DEF Return, Tables, OnDomain, Only
<1>3. /\ at'[c] = "over" /\ mem'[c] = Cleared(mem[c], ctx[c].fn)
      /\ UNCHANGED <<ctx, out, answer, fault>>
  BY <1>1 DEF Return, Tables, OnDomain
<1>4. ASSUME NEW x \in mem'[c] PROVE MayStay(c, x)'
  <2>1. x \in Cleared(mem[c], ctx[c].fn) /\ x \in mem[c]
    BY <1>3, <1>4 DEF Cleared
  <2>2. Callback \notin Text(ctx[c].fn) \cup Ctx(ctx[c].fn) \cup {Result}
    <3>1. Callback \notin Text(ctx[c].fn)
      BY StringsTyped DEF Text, StrTypes, Callback
    <3>2. Callback \notin Strings(ctx[c].fn, DOMAIN ctx[c].fn.args, {"str"})
      BY StringsTyped DEF Callback
    <3> QED BY <3>1, <3>2 DEF Ctx, Refs, Callback, Result
  <2>3. x = Result \/ x[1] = "str_no_free"
    BY <1>1, <2>1, <2>2, ClearedLeaves DEF Telling
  <2>4. CASE x = Result
    BY <1>1, <1>3, <2>1, <2>4 DEF Telling, MayStay, Result
  <2>5. CASE x[1] = "str_no_free"
    BY <2>5 DEF MayStay
  <2> QED BY <2>3, <2>4, <2>5
<1>5. Ended(c)'
  BY <1>1, <1>3, <1>4 DEF Telling, Ended, Honest
<1>6. CallInv(c)'
  BY <1>3, <1>5 DEF CallInv
<1> QED BY <1>2, <1>6, OneCall

LEMMA CallsStep == CallsInv /\ [Next]_vars => CallsInv'
<1> SUFFICES ASSUME CallsInv, [Next]_vars PROVE CallsInv'
  OBVIOUS
<1>1. CASE ExportFunctions \/ ExportClasses
  BY <1>1, NoCall DEF ExportFunctions, ExportClasses
<1>2. CASE \E o \in Object : New(o) \/ Drop(o) \/ Free(o) \/ Collect(o)
  BY <1>2, NoCall DEF New, Drop, Free, Collect
<1>3. CASE UNCHANGED vars
  BY <1>3, NoCall DEF vars
<1>4. ASSUME NEW c \in Call, CallSync(c) PROVE CallsInv'
  <2>1. at[c] = "unused"
    BY <1>4 DEF CallSync
  <2>2. CASE \E what : Break(what)
    BY <2>2, NoCall DEF Break
  <2>3. CASE \E sig, this, js : Refuse(c, sig, this, js)
    BY <2>1, <2>3, RefuseOnce
  <2>4. CASE \E sig, arg : RunSync(c, sig, arg)
    BY <2>1, <2>4, RunSyncOnce
  <2> QED BY <1>4, <2>2, <2>3, <2>4 DEF CallSync
<1>5. ASSUME NEW c \in Call, CallAsync(c) PROVE CallsInv'
  <2>1. at[c] = "unused"
    BY <1>5 DEF CallAsync
  <2>2. CASE \E sig, this, js : Refuse(c, sig, this, js)
    BY <2>1, <2>2, RefuseOnce
  <2>3. CASE \E sig, cb : StartNoCallback(c, sig, cb) \/ StartFails(c, sig, cb)
    BY <2>1, <2>3, StartFailsOnce
  <2>4. CASE \E sig \in Fn : \E this, arg, cb : Start(c, sig, this, arg, cb)
    BY <2>1, <2>4, StartOnce
  <2> QED BY <1>5, <2>2, <2>3, <2>4 DEF CallAsync
<1>6. ASSUME NEW c \in Call, Run(c) \/ Finish(c) \/ Complete(c) \/ Return(c) PROVE CallsInv'
  BY <1>6, RunOnce, FinishOnce, CompleteOnce, ReturnOnce
<1> QED BY <1>1, <1>2, <1>3, <1>4, <1>5, <1>6 DEF Next

LEMMA CallsAlways == Spec => []CallsInv
<1>1. Init => CallsInv
  BY DEF Init, CallsInv, Tables, OnDomain, CallInv
<1> QED BY <1>1, CallsStep, PTL DEF Spec

\* fn_generator.coffee 751-765: what the pool and the callback read is there
\* while they may read it, and however a call ends, refused, synchronous or on
\* the pool and whichever N-API call failed, it has given back its context, its
\* work item and its references, and left only what MayStay names.
THEOREM MemorySettled == Spec => []Settled
<1>1. CallsInv => Settled
  <2> SUFFICES ASSUME CallsInv, NEW c \in Call
               PROVE  /\ Busy(c) => Ctx(ctx[c].fn) \subseteq mem[c]
                      /\ at[c] \in {"queued", "running", "ran"} => <<"callback", 0>> \in mem[c]
                      /\ at[c] = "over" => \A m \in mem[c] : MayStay(c, m)
    BY DEF Settled
  <2>1. CallInv(c)
    BY DEF CallsInv
  <2>2. Busy(c) => Ctx(ctx[c].fn) \subseteq mem[c]
    BY <2>1 DEF CallInv, Pending, Telling, Busy
  <2>3. at[c] \in {"queued", "running", "ran"} => <<"callback", 0>> \in mem[c]
    BY <2>1 DEF CallInv, Pending, Callback
  <2> QED BY <2>1, <2>2, <2>3 DEF CallInv, Ended
<1> QED BY <1>1, CallsAlways, PTL

\* fn_generator.coffee 772-881: a call is answered exactly once, by what its
\* function returned, an error or an exception, and not before it is done.
THEOREM EachCallAnsweredOnce == Spec => []AnsweredOnce
<1>1. CallsInv => AnsweredOnce
  <2> SUFFICES ASSUME CallsInv, NEW c \in Call
               PROVE  /\ Len(answer[c]) <= 1
                      /\ at[c] \in {"answering", "over"} => Len(answer[c]) = 1
                      /\ at[c] \in {"queued", "running", "ran"} => answer[c] = <<>>
                      /\ answer[c] # <<>> /\ ctx[c].fn # Nothing =>
                            answer[c][1] \in {Said("error"), Said("uncaught")}
                               \cup (IF out[c].err THEN {}
                                     ELSE {Returned(ctx[c].fn.ret, out[c].v)})
    BY DEF AnsweredOnce
  <2>1. CallInv(c)
    BY DEF CallsInv
  <2>2. \/ at[c] \in {"answering", "over"} /\ Len(answer[c]) = 1
        \/ at[c] \notin {"answering", "over"} /\ answer[c] = <<>>
    BY <2>1 DEF CallInv, Pending, Telling, Ended
  <2>3. at[c] \in {"answering", "over"} /\ ctx[c].fn # Nothing => Honest(c)
    BY <2>1 DEF CallInv, Telling, Ended
  <2>4. Len(answer[c]) <= 1
    <3>1. Len(<<>>) = 0
      OBVIOUS
    <3> DEFINE n == Len(answer[c])
    <3>2. n = 0 \/ n = 1
      BY <2>2, <3>1, Zenon
    <3> HIDE DEF n
    <3>3. n <= 1
      BY <3>2
    <3> QED BY <3>3 DEF n
  <2>5. answer[c] # <<>> /\ ctx[c].fn # Nothing => Honest(c)
    BY <2>2, <2>3
  <2>6. at[c] \in {"queued", "running", "ran"} => answer[c] = <<>>
    BY <2>2
  <2> QED BY <2>2, <2>4, <2>5, <2>6 DEF Honest
<1> QED BY <1>1, CallsAlways, PTL

-----------------------------------------------------------------------------
(* The domains of the variables, and the types of the numbers.             *)

\* The numbers a call holds are of their types, and JavaScript is told
\* something of a kind it knows.
Typed(c) ==
    /\ ctx[c].fn # Nothing =>
          /\ ctx[c].fn \in Fn
          /\ \A k \in DOMAIN ctx[c].arg : ctx[c].fn.args[k] \in ArgTypes =>
                ctx[c].arg[k] \in Native(ctx[c].fn.args[k])
    /\ \A i \in DOMAIN answer[c] : answer[c][i].kind \in Kinds

Domains ==
    /\ loaded \in {"no", "functions", "yes", "failed"}
    /\ phase \in [Object -> {"unborn", "live", "gone"}]
    /\ deleted \subseteq {o \in Object : phase[o] # "unborn"}
    /\ \A c \in Call : Typed(c)

LEMMA ReturnedKind ==
    ASSUME NEW ret, NEW v
    PROVE  Returned(ret, v).kind \in Kinds /\ ReturnedSync(ret, v).kind \in Kinds
<1>1. Returned(ret, v).kind \in Kinds
  <2>1. CASE ret \in NumberTypes
    BY <2>1 DEF Returned, Create, Kind, Kinds, NumberTypes, ArgTypes
  <2>2. CASE ret \notin NumberTypes
    BY <2>2 DEF Returned, Said, JsObject, Kinds
  <2> QED BY <2>1, <2>2
<1> QED BY <1>1 DEF ReturnedSync, RetDummy, Said, Kinds

\* The numbers that FN_ARG_* reads of what was accepted fit their types.
LEMMA ReadTyped ==
    ASSUME NEW sig \in Fn, NEW this, NEW js \in Inputs(sig), Admitted(sig, this, js),
           NEW k \in DOMAIN NativeArgs(sig, js), sig.args[k] \in ArgTypes
    PROVE  NativeArgs(sig, js)[k] \in Native(sig.args[k])
<1>1. k \in DOMAIN js /\ k \in DOMAIN sig.args
  BY AdmittedHeld DEF NativeArgs
<1>2. js[k].kind = Kind(sig.args[k])
  BY <1>1 DEF Admitted, Accepted
<1>3. js[k] \in JsValues
  BY <1>1 DEF Inputs
<1>4. js[k] \in Plain
  BY <1>2, <1>3 DEF JsValues, JsObject, Kind, ArgTypes
<1>5. js[k].v \in Int /\ (sig.args[k] = "bool" => js[k].v \in {0, 1})
  <2>1. \A p \in Plain : p.v \in Int /\ (p.kind = "boolean" => p.v \in {0, 1})
    BY CallAssumption, Zenon
  <2>2. sig.args[k] = "bool" => js[k].kind = "boolean"
    BY <1>2 DEF Kind
  <2> QED BY <1>4, <2>1, <2>2
<1>6. NativeArgs(sig, js)[k] = Read(sig.args[k], js[k].v)
  BY <1>1 DEF NativeArgs
<1> QED BY <1>5, <1>6, ReadFits

\* A step of one call that tells at most one thing more, the first.
LEMMA TypedFrame ==
    ASSUME CallsInv, Domains, NEW c \in Call, Only(c), UNCHANGED <<loaded, phase, deleted>>,
           ctx'[c] = ctx[c] \/ Typed(c)',
           answer'[c] = answer[c] \/ \E js : answer'[c] = <<js>> /\ js.kind \in Kinds
    PROVE  Domains'
<1>1. ASSUME NEW d \in Call, d # c PROVE Typed(d)'
  <2>1. Typed(d) /\ ctx'[d] = ctx[d] /\ answer'[d] = answer[d]
    BY <1>1 DEF Domains, Only
  <2> QED BY <2>1 DEF Typed
<1>2. Typed(c)'
  BY DEF Domains, Typed
<1>3. \A d \in Call : Typed(d)'
  BY <1>1, <1>2
<1>4. /\ loaded' \in {"no", "functions", "yes", "failed"}
      /\ phase' \in [Object -> {"unborn", "live", "gone"}]
      /\ deleted' \subseteq {o \in Object : phase'[o] # "unborn"}
  BY DEF Domains
<1> QED BY <1>3, <1>4 DEF Domains

\* A step that tells nothing and starts nothing.
LEMMA TypedStill ==
    ASSUME Domains, UNCHANGED <<ctx, answer>>,
           loaded' \in {"no", "functions", "yes", "failed"},
           phase' \in [Object -> {"unborn", "live", "gone"}],
           deleted' \subseteq {o \in Object : phase'[o] # "unborn"}
    PROVE  Domains'
BY DEF Domains, Typed

LEMMA SyncTyped ==
    ASSUME CallsInv, Domains, NEW c \in Call, NEW sig, NEW arg, RunSync(c, sig, arg)
    PROVE  Domains'
<1>1. Tables
  BY DEF CallsInv
<1>2. PICK js : answer' = [answer EXCEPT ![c] = <<js>>] /\ js.kind \in Kinds
  <2>1. Said("thrown").kind \in Kinds
    BY DEF Said, Kinds
  <2> QED BY <2>1, ReturnedKind DEF RunSync
<1>3. /\ at' = [at EXCEPT ![c] = "over"]
      /\ \E m : mem' = [mem EXCEPT ![c] = m]
      /\ fault' = fault \/ \E f : fault' = [fault EXCEPT ![c] = f]
      /\ UNCHANGED <<loaded, phase, deleted, ctx, out>>
  BY DEF RunSync
<1>4. Only(c)
  BY <1>1, <1>2, <1>3 DEF Tables, OnDomain, Only
<1>5. answer'[c] = <<js>>
  BY <1>1, <1>2 DEF Tables, OnDomain
<1> QED BY <1>2, <1>3, <1>4, <1>5, TypedFrame

LEMMA RefuseTyped ==
    ASSUME CallsInv, Domains, NEW c \in Call, NEW sig, NEW this, NEW js, Refuse(c, sig, this, js)
    PROVE  Domains'
<1>1. Tables
  BY DEF CallsInv
<1>2. Only(c) /\ answer'[c] = <<Said("thrown")>> /\ UNCHANGED <<loaded, phase, deleted, ctx>>
  BY <1>1 DEF Refuse, Tables, OnDomain, Only, objects
<1>3. Said("thrown").kind \in Kinds
  BY DEF Said, Kinds
<1> QED BY <1>2, <1>3, TypedFrame

LEMMA StartFailsTyped ==
    ASSUME CallsInv, Domains, NEW c \in Call, NEW sig, NEW cb,
           StartNoCallback(c, sig, cb) \/ StartFails(c, sig, cb)
    PROVE  Domains'
<1>1. Tables
  BY DEF CallsInv
<1>2. /\ at' = [at EXCEPT ![c] = "over"]
      /\ UNCHANGED <<loaded, phase, deleted, ctx, out>>
  BY DEF StartNoCallback, StartFails, objects
<1>3. PICK js : answer' = [answer EXCEPT ![c] = <<js>>] /\ js.kind \in Kinds
  <2>1. Said("thrown").kind \in Kinds /\ Said("error").kind \in Kinds
    BY DEF Said, Kinds
  <2>2. CASE StartNoCallback(c, sig, cb)
    <3>1. \E kind \in {"thrown", "error"} : answer' = [answer EXCEPT ![c] = <<Said(kind)>>]
      BY <2>2 DEF StartNoCallback
    <3> QED BY <2>1, <3>1
  <2>3. CASE StartFails(c, sig, cb)
    BY <2>1, <2>3 DEF StartFails
  <2> QED BY <2>2, <2>3
<1>4. mem' = mem \/ \E m : mem' = [mem EXCEPT ![c] = m]
  <2>1. CASE StartNoCallback(c, sig, cb)
    BY <2>1 DEF StartNoCallback
  <2>2. CASE StartFails(c, sig, cb)
    BY <2>2 DEF StartFails
  <2> QED BY <2>1, <2>2
<1>5. fault' = fault \/ \E f : fault' = [fault EXCEPT ![c] = f]
  <2>1. CASE StartNoCallback(c, sig, cb)
    BY <2>1 DEF StartNoCallback
  <2>2. CASE StartFails(c, sig, cb)
    BY <2>2 DEF StartFails
  <2> QED BY <2>1, <2>2
<1>6. Only(c)
  BY <1>1, <1>2, <1>3, <1>4, <1>5 DEF Tables, OnDomain, Only
<1>7. answer'[c] = <<js>>
  BY <1>1, <1>3 DEF Tables, OnDomain
<1> QED BY <1>2, <1>3, <1>6, <1>7, TypedFrame

LEMMA StartTyped ==
    ASSUME CallsInv, Domains, NEW c \in Call, NEW sig \in Fn, NEW this, NEW js \in Inputs(sig), NEW cb,
           Admitted(sig, this, js), Start(c, sig, this, NativeArgs(sig, js), cb)
    PROVE  Domains'
<1> DEFINE arg == NativeArgs(sig, js)
<1>1. Tables
  BY DEF CallsInv
<1>2. \A k \in DOMAIN arg : sig.args[k] \in ArgTypes => arg[k] \in Native(sig.args[k])
  BY ReadTyped
<1> HIDE DEF arg
<1>3. /\ Only(c) /\ answer' = answer
      /\ ctx'[c] = [fn |-> sig, this |-> this, arg |-> arg, cb |-> cb]
      /\ UNCHANGED <<loaded, phase, deleted>>
  BY <1>1 DEF Start, Tables, OnDomain, Only, objects, arg
<1>4. ctx'[c].fn = sig /\ ctx'[c].arg = arg
  BY <1>3
<1>5. Typed(c)'
  BY <1>2, <1>3, <1>4 DEF Domains, Typed
<1> QED BY <1>3, <1>5, TypedFrame

LEMMA CompleteTyped ==
    ASSUME CallsInv, Domains, NEW c \in Call, Complete(c)
    PROVE  Domains'
<1>1. Tables /\ answer[c] = <<>>
  BY DEF CallsInv, CallInv, Pending, Complete
<1>2. CASE \E m, site : Uncaught(c, m, site)
  <2>1. Only(c) /\ answer'[c] = <<Said("uncaught")>> /\ UNCHANGED <<loaded, phase, deleted, ctx>>
    BY <1>1, <1>2 DEF Uncaught, Tables, OnDomain, Only, objects
  <2>2. Said("uncaught").kind \in Kinds
    BY DEF Said, Kinds
  <2> QED BY <2>1, <2>2, TypedFrame
<1>3. ASSUME NEW js, NEW v, Tell(c, js, v), js.kind \in Kinds PROVE Domains'
  <2>1. Only(c) /\ answer'[c] = <<js>> /\ UNCHANGED <<loaded, phase, deleted, ctx>>
    BY <1>1, <1>3 DEF Tell, Tables, OnDomain, Only
  <2> QED BY <1>3, <2>1, TypedFrame
<1>4. Said("error").kind \in Kinds
  BY DEF Said, Kinds
<1>5. CASE Tell(c, Said("error"), Nothing)
  BY <1>3, <1>4, <1>5
<1>6. CASE Tell(c, Returned(ctx[c].fn.ret, out[c].v), out[c].v)
  BY <1>3, <1>6, ReturnedKind
<1>7. CASE \E what : Break(what)
  BY <1>7, TypedStill DEF Break, objects, Domains
<1> QED BY <1>2, <1>5, <1>6, <1>7 DEF Complete, TellError, TellResult

LEMMA DomainsStep == HeldLive /\ CallsInv /\ Domains /\ [Next]_vars => Domains'
<1> SUFFICES ASSUME HeldLive, CallsInv, Domains, [Next]_vars PROVE Domains'
  OBVIOUS
<1>1. CASE ExportFunctions \/ ExportClasses
  <2>1. /\ loaded' \in {"no", "functions", "yes", "failed"}
        /\ UNCHANGED <<ctx, answer, phase, deleted>>
    BY <1>1 DEF ExportFunctions, ExportClasses, objects
  <2> QED BY <2>1, TypedStill DEF Domains
<1>2. ASSUME NEW o \in Object, New(o) PROVE Domains'
  BY <1>2, TypedStill DEF New, Domains
<1>3. ASSUME NEW o \in Object, Drop(o) \/ Free(o) PROVE Domains'
  BY <1>3, TypedStill DEF Drop, Free, Domains, HeldLive
<1>4. ASSUME NEW o \in Object, Collect(o) PROVE Domains'
  BY <1>4, TypedStill DEF Collect, Domains
<1>5. CASE UNCHANGED <<loaded, phase, deleted, ctx, answer>>
  BY <1>5, TypedStill DEF Domains
<1>6. CASE \E what : Break(what)
  BY <1>5, <1>6 DEF Break, objects
<1>7. ASSUME NEW c \in Call, CallSync(c) PROVE Domains'
  <2>1. CASE \E sig, this, js : Refuse(c, sig, this, js)
    BY <2>1, RefuseTyped
  <2>2. CASE \E sig, arg : RunSync(c, sig, arg)
    BY <2>2, SyncTyped
  <2> QED BY <1>6, <1>7, <2>1, <2>2 DEF CallSync
<1>8. ASSUME NEW c \in Call, CallAsync(c) PROVE Domains'
  <2>1. CASE \E sig, this, js : Refuse(c, sig, this, js)
    BY <2>1, RefuseTyped
  <2>2. CASE \E sig, cb : StartNoCallback(c, sig, cb) \/ StartFails(c, sig, cb)
    BY <2>2, StartFailsTyped
  <2>3. CASE \E sig \in Fn : \E js \in Inputs(sig) : \E this, cb :
                Admitted(sig, this, js) /\ Start(c, sig, this, NativeArgs(sig, js), cb)
    BY <2>3, StartTyped
  <2> QED BY <1>8, <2>1, <2>2, <2>3 DEF CallAsync
<1>9. ASSUME NEW c \in Call, Run(c) \/ Finish(c) \/ Return(c) PROVE Domains'
  <2>1. UNCHANGED <<loaded, phase, deleted, ctx, answer>>
    BY <1>9 DEF Run, Finish, Return, Break, objects
  <2> QED BY <1>5, <2>1
<1>10. ASSUME NEW c \in Call, Complete(c) PROVE Domains'
  BY <1>10, CompleteTyped
<1>11. CASE UNCHANGED vars
  BY <1>5, <1>11 DEF vars, objects
<1> QED BY <1>1, <1>2, <1>3, <1>4, <1>7, <1>8, <1>9, <1>10, <1>11 DEF Next

\* The variables keep their domains: what a native function is given is a
\* number of its C++ type (macro.hpp 90-179), what JavaScript reaches is built
\* and not collected, and what it is told is of a kind it knows.
THEOREM CallTypes == Spec => []TypeOK
<1>1. Spec => []IInv
  BY InitInv, NextInv, PTL DEF Spec
<1>2. Init => Domains
  BY DEF Init, Domains, Typed, Unused
<1>3. HeldLive /\ CallsInv /\ Domains /\ [Next]_vars => Domains'
  BY DomainsStep
<1>4. IInv => HeldLive
  BY DEF IInv
<1>5. Spec => []Domains
  BY <1>1, <1>2, <1>3, <1>4, CallsAlways, PTL DEF Spec
<1>6. HeldLive /\ CallsInv /\ Domains => TypeOK
  <2> SUFFICES ASSUME HeldLive, CallsInv, Domains PROVE TypeOK
    OBVIOUS
  <2>1. held \subseteq {o \in Object : phase[o] = "live"}
    BY DEF HeldLive
  <2>2. at \in [Call -> {"unused", "queued", "running", "ran", "answering", "over"}]
    BY DEF CallsInv, Tables, OnDomain, CallInv
  <2> QED BY <2>1, <2>2 DEF Domains, Typed, TypeOK
<1> QED BY <1>1, <1>4, <1>5, <1>6, CallsAlways, PTL
=============================================================================
