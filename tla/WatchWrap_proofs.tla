------------------------- MODULE WatchWrap_proofs ---------------------------
(***************************************************************************)
(* Proofs about WatchWrap, for every set of directories, every choice of   *)
(* those that may be missing at the start, and every number of edits.      *)
(***************************************************************************)
EXTENDS WatchWrap, TLAPS

Inv == TypeOK /\ WakeKept

(* A build that begins has nothing to remember: it reads what there is.    *)
LEMMA BuildForgets ==
    ASSUME TypeOK, Build, UNCHANGED <<exists, edits, watch>>,
           event' \subseteq event, timer' \subseteq timer
    PROVE  Inv'
BY DEF Build, Inv, TypeOK, WakeKept

(* Each action keeps the invariant.                                        *)
LEMMA InvStep == Inv /\ [Next]_vars => Inv'
<1> SUFFICES ASSUME TypeOK, WakeKept, [Next]_vars PROVE Inv'
  BY DEF Inv
<1>1. CASE Boot
  BY <1>1, BuildForgets DEF Boot
<1>2. CASE RunEnd
  <2>1. CASE Build
    BY <1>2, <2>1, BuildForgets DEF RunEnd
  <2>2. CASE loop' \in {"waiting", "dead", "lost"} /\ UNCHANGED <<need_refresh, stale, reported>>
    BY <1>2, <2>2 DEF RunEnd, Inv, TypeOK, WakeKept
  <2> QED BY <1>2, <2>1, <2>2 DEF RunEnd
<1>3. ASSUME NEW d \in Dirs, PollSleep(d) PROVE Inv'
  BY <1>3 DEF PollSleep, dirs, Inv, TypeOK, WakeKept
<1>4. ASSUME NEW d \in Dirs, PollLook(d) PROVE Inv'
  BY <1>4 DEF PollLook, dirs, Inv, TypeOK, WakeKept
<1>5. ASSUME NEW d \in Dirs, Ready(d) PROVE Inv'
  BY <1>5 DEF Ready, dirs, Inv, TypeOK, WakeKept
<1>6. ASSUME NEW d \in Dirs, HandleEvent(d) PROVE Inv'
  BY <1>6 DEF HandleEvent, Inv, TypeOK, WakeKept
<1>7. ASSUME NEW d \in Dirs, Timeout(d) PROVE Inv'
  <2>1. CASE loop = "waiting"
    BY <1>7, <2>1, BuildForgets DEF Timeout
  <2>2. CASE loop # "waiting"
    BY <1>7, <2>2 DEF Timeout, Inv, TypeOK, WakeKept
  <2> QED BY <2>1, <2>2
<1>8. ASSUME NEW d \in Dirs, Edit(d) PROVE Inv'
  <2>1. edits' \in 0..MaxEdits
    BY <1>8, EditsAssumption DEF Edit, TypeOK
  <2>2. CASE watch[d] = "ready"
    BY <1>8, <2>1, <2>2 DEF Edit, Inv, TypeOK, WakeKept
  <2>3. CASE watch[d] # "ready"
    BY <1>8, <2>1, <2>3 DEF Edit, Inv, TypeOK, WakeKept
  <2> QED BY <2>2, <2>3
<1>9. ASSUME NEW d \in Dirs, MakeDir(d) PROVE Inv'
  <2>1. edits' \in 0..MaxEdits
    BY <1>9, EditsAssumption DEF MakeDir, TypeOK
  <2> QED BY <1>9, <2>1 DEF MakeDir, Inv, TypeOK, WakeKept
<1>10. CASE UNCHANGED vars
  BY <1>10 DEF vars, Inv, TypeOK, WakeKept
<1> QED
  BY <1>1, <1>2, <1>3, <1>4, <1>5, <1>6, <1>7, <1>8, <1>9, <1>10 DEF Next, Loop, User

(* No wake-up is lost: from the moment a watcher has seen a change until a *)
(* build starts after it, an event, a timeout or need_refresh remembers    *)
(* the change (the handlers and the build loop of _watch_wrap.coffee).     *)
THEOREM NoLostWakeUp == Spec => [](TypeOK /\ WakeKept)
<1>1. Init => Inv
  BY EditsAssumption DEF Init, Inv, TypeOK, WakeKept
<1>2. Inv /\ [Next]_vars => Inv'
  BY InvStep
<1>3. Inv => TypeOK /\ WakeKept
  BY DEF Inv
<1> QED BY <1>1, <1>2, <1>3, PTL DEF Spec

(* The types of WatchWrap: a timer runs only for a watcher that is ready    *)
(* and the number of edits keeps its bound, whatever the directories do.    *)
THEOREM WatchTypes == Spec => []TypeOK
<1> QED BY NoLostWakeUp, PTL
=============================================================================
