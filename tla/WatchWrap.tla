----------------------------- MODULE WatchWrap ------------------------------
(***************************************************************************)
(* src/src/cmd/_watch_wrap.coffee with the run of build1_watch and         *)
(* build2_watch: one loop per directory that sets up its watcher, and one  *)
(* loop that runs the build when something changed.                        *)
(*                                                                         *)
(* One thread runs everything: an action is a piece of code between two    *)
(* awaits.  chokidar (external) compares a directory with what it held     *)
(* when the watcher became ready and delivers an event some time after a   *)
(* change.  A build reads the directories when it starts and may then wait *)
(* for commands (min deps).                                                *)
(***************************************************************************)
EXTENDS Naturals, FiniteSets

CONSTANTS
    Dirs,        \* gen, code_bubble, override
    MayMiss,     \* those that need not exist when the command starts
    MaxEdits     \* bound: changes made to the directories

ASSUME EditsAssumption == MaxEdits \in Nat

VARIABLES
    exists,      \* directories on disk
    stale,       \* directories changed since the last build read them
    reported,    \* history: those of them whose watcher was ready to see it
    edits,       \* changes so far
    watch,       \* per directory: "poll", "sleep", "init" or "ready"
    event,       \* directories with an event chokidar has not delivered
    timer,       \* directories whose 100 ms timeout is set
    need_refresh,
    loop         \* the build loop: "start", "running" or "waiting"; "lost" in a run
                 \* that never answers, "dead" when the process ended

vars == <<exists, stale, reported, edits, watch, event, timer, need_refresh, loop>>
dirs == <<exists, stale, reported, edits, event>>

\* Only a directory that exists is watched, and only a watcher that is ready has events
\* or a timer; what a watcher has seen is a change not built yet.
TypeOK ==
    /\ stale \subseteq exists /\ exists \subseteq Dirs /\ reported \subseteq stale
    /\ edits \in 0..MaxEdits
    /\ watch \in [Dirs -> {"poll", "sleep", "init", "ready"}]
    /\ \A d \in Dirs : watch[d] \in {"init", "ready"} => d \in exists
    /\ \A d \in event \cup timer : watch[d] = "ready"
    /\ need_refresh \in BOOLEAN
    /\ loop \in {"start", "running", "waiting", "lost", "dead"}

(* `continue if !fs.existsSync dir` goes round without an await while      *)
(* need_refresh is set.  The trampoline of iced leaves the synchronous     *)
(* code once in 500 rounds, but only into process.nextTick, before which   *)
(* no timer, event or completed command is served.                         *)
Spinning == \E d \in Dirs : watch[d] = "poll" /\ need_refresh /\ d \notin exists
Polling  == loop \notin {"start", "dead"}
Served   == ~Spinning /\ Polling

\* A build begins: it reads every directory.
Build == /\ need_refresh' = FALSE /\ loop' = "running" /\ stale' = {} /\ reported' = {}

-----------------------------------------------------------------------------
\* The rest of the script after the first rounds of the directory loops.
Boot ==
    /\ loop = "start"
    /\ Build
    /\ UNCHANGED <<exists, edits, watch, event, timer>>

\* `if !need_refresh` the loop of a directory sleeps for a second first.
PollSleep(d) ==
    /\ Polling /\ watch[d] = "poll" /\ ~need_refresh
    /\ watch' = [watch EXCEPT ![d] = "sleep"]
    /\ UNCHANGED <<dirs, timer, need_refresh, loop>>

\* Mutation: the look at the disk is left out.
PollLookBlind(d) ==
    /\ \/ watch[d] = "poll" /\ need_refresh /\ Polling
       \/ watch[d] = "sleep" /\ Served
    /\ watch' = [watch EXCEPT ![d] = "init"]
    /\ UNCHANGED <<dirs, timer, need_refresh, loop>>

\* The directory is there: chokidar starts.  It is not: around again.
PollLook(d) ==
    /\ \/ watch[d] = "poll" /\ need_refresh /\ Polling
       \/ watch[d] = "sleep" /\ Served
    /\ watch' = [watch EXCEPT ![d] = IF d \in exists THEN "init" ELSE "poll"]
    /\ UNCHANGED <<dirs, timer, need_refresh, loop>>

\* await watcher.on "ready", then the three handlers.
Ready(d) ==
    /\ Served /\ watch[d] = "init"
    /\ watch' = [watch EXCEPT ![d] = "ready"]
    /\ UNCHANGED <<dirs, timer, need_refresh, loop>>

\* A handler sets the timeout, or sets it anew.
HandleEvent(d) ==
    /\ Served /\ d \in event
    /\ event' = event \ {d} /\ timer' = timer \cup {d}
    /\ UNCHANGED <<exists, stale, reported, edits, watch, need_refresh, loop>>

\* Mutation: the flag is not set, the waiting loop is only woken.
TimeoutNoFlag(d) ==
    /\ Served /\ d \in timer
    /\ timer' = timer \ {d}
    /\ IF loop = "waiting" THEN Build
       ELSE UNCHANGED <<need_refresh, loop, stale, reported>>
    /\ UNCHANGED <<exists, edits, watch, event>>

\* The timeout: need_refresh, and a waiting build loop is woken (on_end_wait).
Timeout(d) ==
    /\ Served /\ d \in timer
    /\ timer' = timer \ {d}
    /\ IF loop = "waiting" THEN Build
       ELSE need_refresh' = TRUE /\ UNCHANGED <<loop, stale, reported>>
    /\ UNCHANGED <<exists, edits, watch, event>>

\* Mutation: the flag is cleared after the run instead of before it.
RunEndCleared ==
    /\ Served /\ loop = "running"
    /\ loop' = "waiting" /\ need_refresh' = FALSE
    /\ UNCHANGED <<exists, stale, reported, edits, watch, event, timer>>

\* The run answers, with an error or without, and what came meanwhile is built next; a
\* payload that fails or an exception after a suspension ends the process; or the run
\* throws in what follows the engine's answer, whose catch drops that: no answer comes.
RunEnd ==
    /\ Served /\ loop = "running"
    /\ \/ IF need_refresh THEN Build
          ELSE loop' = "waiting" /\ UNCHANGED <<need_refresh, stale, reported>>
       \/ loop' \in {"dead", "lost"} /\ UNCHANGED <<need_refresh, stale, reported>>
    /\ UNCHANGED <<exists, edits, watch, event, timer>>

-----------------------------------------------------------------------------
(* The user.                                                               *)

\* A file is added, changed or removed in a directory.
Edit(d) ==
    /\ edits < MaxEdits /\ d \in exists /\ Polling
    /\ edits' = edits + 1
    /\ stale' = stale \cup {d}
    /\ IF watch[d] = "ready" THEN event' = event \cup {d} /\ reported' = reported \cup {d}
       ELSE UNCHANGED <<event, reported>>
    /\ UNCHANGED <<exists, watch, timer, need_refresh, loop>>

\* The directory is made, with files in it.
MakeDir(d) ==
    /\ edits < MaxEdits /\ d \notin exists /\ Polling
    /\ edits' = edits + 1
    /\ exists' = exists \cup {d} /\ stale' = stale \cup {d}
    /\ UNCHANGED <<reported, watch, event, timer, need_refresh, loop>>

-----------------------------------------------------------------------------
Init ==
    /\ exists \in {Dirs \ a : a \in SUBSET MayMiss}
    /\ stale = exists /\ reported = {} /\ edits = 0
    /\ watch = [d \in Dirs |-> IF d \in exists THEN "init" ELSE "poll"]
    /\ event = {} /\ timer = {}
    /\ need_refresh = TRUE /\ loop = "start"

Loop(d) == PollSleep(d) \/ PollLook(d) \/ Ready(d) \/ HandleEvent(d) \/ Timeout(d)
User    == \E d \in Dirs : Edit(d) \/ MakeDir(d)
Next    == Boot \/ RunEnd \/ User \/ \E d \in Dirs : Loop(d)

(* Node serves its queues in order, so that whatever stays ready is served;*)
(* the commands a run waits for end.  The user need not do anything.       *)
Fairness ==
    /\ WF_vars(Boot) /\ WF_vars(RunEnd)
    /\ \A d \in Dirs : /\ WF_vars(PollSleep(d)) /\ WF_vars(PollLook(d)) /\ WF_vars(Ready(d))
                       /\ WF_vars(HandleEvent(d)) /\ WF_vars(Timeout(d))
Spec == Init /\ [][Next]_vars /\ Fairness

-----------------------------------------------------------------------------
(* Properties.                                                             *)

\* No wake-up is lost: a change a watcher saw leads to a build that starts after it,
\* even when it comes while a build runs, between its end and the wait, or while the
\* timeout of an earlier change is pending: until then something remembers it.
WakeKept == \A d \in reported : d \in event \cup timer \/ need_refresh

\* Every change that a watcher saw is built in the end, unless the loop of a missing
\* directory keeps the process from serving anything, or a run ended the process or
\* never answered: a run that answers with an error stops nothing.
Stopped == loop \in {"dead", "lost"}
Noticed == \A d \in Dirs : d \in reported ~> (d \notin reported \/ Spinning \/ Stopped)

\* What came while a build ran is built after it: a set flag is taken, unless a run
\* ended the process or never answered.
FlagTaken == need_refresh ~> (~need_refresh \/ Stopped)
=============================================================================
