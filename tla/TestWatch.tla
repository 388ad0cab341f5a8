----------------------------- MODULE TestWatch -----------------------------
(***************************************************************************)
(* `ghi test --watch': Tests of internal/watch/tests.go.                   *)
(*                                                                         *)
(* One goroutine polls the project and runs the tests, one run at a time,  *)
(* in a goroutine of its own: compiler.Test prepares the project, which    *)
(* reads the sources, and runs `go test' under proctree.Run (ProcTree).    *)
(* A version stands for the contents that snapshot hashes.                 *)
(***************************************************************************)
EXTENDS Naturals, FiniteSets

CONSTANTS
    MaxEdits,       \* saves in a behaviour
    MaxScanErrors,  \* snapshots that fail in a behaviour
    Version,        \* contents of the project
    Helper,         \* processes that a test may start
    None            \* no version

ASSUME ConstantsAssumption ==
    /\ MaxEdits \in Nat /\ MaxScanErrors \in Nat
    /\ Version \subseteq Nat
    /\ None \notin Version

VARIABLES
    disk,        \* the version on disk
    edits,       \* saves so far
    scanErrors,  \* failed snapshots so far
    cancelled,   \* ctx is done, and with it the context of a run
    \* Locals of Tests.
    pc,          \* where it is
    observed,    \* the version of the last snapshot that counted
    pending,     \* a run is due
    quiet,       \* Debounce has elapsed since lastChange
    \* The run and its result in the channel.
    stage,       \* "none" if done is nil
    read,        \* the version it runs
    \* proctree.Run.
    at, child, group, strays, done, outcome,
    \* History.
    undone,      \* has a save restored earlier contents?
    disturbed,   \* a poll saw a change during the run
    runs,        \* runs started since the last save
    shown        \* the version of the last verdict

tree == <<at, child, group, strays, done, outcome>>
world == <<disk, edits, scanErrors, cancelled>>
loop == <<pc, observed, pending, quiet>>
run == <<stage, read>>
vars == <<world, loop, run, tree, undone, disturbed, runs, shown>>

P == INSTANCE ProcTree WITH ctx <- cancelled

Init ==
    /\ disk \in Version
    /\ edits = 0 /\ scanErrors = 0 /\ cancelled = FALSE
    /\ pc = "top" /\ observed = disk
    /\ pending = TRUE /\ quiet = TRUE
    /\ stage = "none" /\ read = None
    /\ P!Init
    /\ undone = FALSE /\ disturbed = FALSE /\ runs = 0 /\ shown = None

-----------------------------------------------------------------------------
(* The world.                                                              *)

Edit ==
    /\ edits < MaxEdits
    /\ edits' = edits + 1
    /\ disk' \in Version \ {disk}
    /\ undone' = (undone \/ disk' < disk)
    /\ runs' = 0
    /\ UNCHANGED <<scanErrors, cancelled, loop, run, tree, disturbed, shown>>

Cancel ==
    /\ ~cancelled
    /\ cancelled' = TRUE
    /\ UNCHANGED <<disk, edits, scanErrors, loop, run, tree, disturbed, runs, shown,
                   undone>>

\* time.Since(lastChange) reaches Debounce.
Elapse ==
    /\ ~quiet
    /\ quiet' = TRUE
    /\ UNCHANGED <<world, pc, observed, pending, run, tree, disturbed, runs, shown,
                   undone>>

-----------------------------------------------------------------------------
(* The run: compiler.Test, then the send of its result.                    *)

\* The project is loaded, and go test is called; or it does not compile.
Prepared ==
    /\ stage = "preparing"
    /\ read' = disk
    /\ \/ stage' = "testing" /\ P!Again
       \/ stage' = "failed" /\ UNCHANGED tree
    /\ UNCHANGED <<world, loop, disturbed, runs, shown, undone>>

\* The preparation notices the cancellation.
Aborted ==
    /\ stage = "preparing" /\ cancelled
    /\ stage' = "failed"
    /\ UNCHANGED <<world, loop, read, tree, disturbed, runs, shown, undone>>

Testing(A) == /\ stage = "testing" /\ A
              /\ UNCHANGED <<world, loop, run, disturbed, runs, shown, undone>>

\* The coverage report may fail after tests that passed.
Reported ==
    /\ stage = "testing" /\ at = "returned"
    /\ \/ stage' = "failed"
       \/ outcome = "passed" /\ stage' = "passed"
    /\ UNCHANGED <<world, loop, read, tree, disturbed, runs, shown, undone>>

-----------------------------------------------------------------------------
(* The loop.                                                               *)

Sent == stage \in {"passed", "failed"}

Due == pending /\ stage = "none" /\ quiet

Start ==
    /\ pc = "top" /\ Due
    /\ pc' = "select" /\ pending' = FALSE
    /\ stage' = "preparing" /\ read' = None
    /\ disturbed' = FALSE /\ runs' = runs + 1
    /\ UNCHANGED <<world, observed, quiet, tree, shown, undone>>

Skip ==
    /\ pc = "top" /\ ~Due
    /\ pc' = "select"
    /\ UNCHANGED <<world, observed, pending, quiet, run, tree, disturbed, runs, shown,
                   undone>>

Done ==
    /\ pc = "select" /\ cancelled
    /\ pc' = "await"
    /\ UNCHANGED <<world, observed, pending, quiet, run, tree, disturbed, runs, shown,
                   undone>>

\* A snapshot shows another version than the last one.
Changed == disk # observed

\* Mutant: what was seen is not remembered.
SeeChange_Forgets == /\ Changed
                     /\ pending' = TRUE /\ quiet' = FALSE
                     /\ disturbed' = (disturbed \/ stage # "none")
                     /\ UNCHANGED observed

SeeChange == /\ Changed
             /\ observed' = disk /\ pending' = TRUE /\ quiet' = FALSE
             /\ disturbed' = (disturbed \/ stage # "none")

SeeNone == ~Changed /\ UNCHANGED <<observed, pending, quiet, disturbed>>

ScanError == scanErrors < MaxScanErrors /\ scanErrors' = scanErrors + 1

\* Mutant: a change is forgotten while tests are running.
Tick_OnlyIdle ==
    /\ pc = "select"
    /\ pc' = "top"
    /\ observed' = disk /\ UNCHANGED disturbed
    /\ IF Changed /\ stage = "none" THEN pending' = TRUE /\ quiet' = FALSE
                                    ELSE UNCHANGED <<pending, quiet>>
    /\ UNCHANGED <<world, run, tree, runs, shown, undone>>

Tick ==
    /\ pc = "select"
    /\ pc' = "top"
    /\ \/ (SeeChange \/ SeeNone) /\ UNCHANGED scanErrors
       \/ ScanError /\ UNCHANGED <<observed, pending, quiet, disturbed>>
    /\ UNCHANGED <<disk, edits, cancelled, run, tree, runs, shown, undone>>

\* Mutant: the project is not scanned again.
Result_NoScan ==
    /\ pc = "select" /\ Sent
    /\ pc' = "top" /\ stage' = "none"
    /\ shown' = IF pending THEN shown ELSE read
    /\ UNCHANGED <<world, observed, pending, quiet, disturbed, read, tree, runs, undone>>

\* The result has come, and the project is scanned once more. A verdict is printed
\* unless a run is due by then.
Result ==
    /\ pc = "select" /\ Sent
    /\ pc' = "top" /\ stage' = "none"
    /\ \/ (SeeChange \/ SeeNone) /\ UNCHANGED scanErrors
       \/ /\ ScanError
          /\ pending' = TRUE /\ quiet' = FALSE
          /\ UNCHANGED <<observed, disturbed>>
    /\ shown' = IF pending' THEN shown ELSE read
    /\ UNCHANGED <<disk, edits, cancelled, read, tree, runs, undone>>

\* Mutant: the run is cancelled but not awaited.
Await_Leaves ==
    /\ pc = "await"
    /\ pc' = "returned" /\ stage' = "none"
    /\ UNCHANGED <<world, observed, pending, quiet, read, tree, disturbed, runs, shown,
                   undone>>

\* The deferred cancel and receive.
Await ==
    /\ pc = "await" /\ (stage = "none" \/ Sent)
    /\ pc' = "returned" /\ stage' = "none"
    /\ UNCHANGED <<world, observed, pending, quiet, read, tree, disturbed, runs, shown,
                   undone>>

Next ==
    \/ Edit \/ Cancel \/ Elapse
    \/ Prepared \/ Aborted \/ Testing(P!Step) \/ Testing(P!Waited)
    \/ Testing(P!Processes) \/ Reported
    \/ Start \/ Skip \/ Done \/ Tick \/ Result \/ Await

Spec == Init /\ [][Next]_vars

\* The loop goes on, and its select passes no case over for ever; time passes. The run's
\* goroutine goes on, but a preparation may hang until it is cancelled, and tests may
\* hang until they are killed.
Fairness ==
    /\ WF_vars(Start) /\ WF_vars(Skip) /\ WF_vars(Await) /\ WF_vars(Elapse)
    /\ SF_vars(Done) /\ SF_vars(Tick) /\ SF_vars(Result)
    /\ WF_vars(Aborted) /\ WF_vars(Reported)
    /\ WF_vars(Testing(P!Step)) /\ WF_vars(Testing(P!Waited))

FairSpec == Spec /\ Fairness

-----------------------------------------------------------------------------
(* Properties.                                                             *)

TypeOK ==
    /\ disk \in Version /\ observed \in Version
    /\ edits \in Nat /\ scanErrors \in Nat /\ runs \in Nat
    /\ {cancelled, pending, quiet, undone, disturbed} \subseteq BOOLEAN
    /\ pc \in {"top", "select", "await", "returned"}
    /\ stage \in {"none", "preparing", "testing", "passed", "failed"}
    /\ {read, shown} \subseteq Version \cup {None}
    /\ P!TypeOK

\* "Runs are serialized" (README.md:168): when a run starts, no test of an earlier
\* one, nor a process such a test has started, is still running, unless it has left the
\* process group on purpose (process.go:46, 53).
StartStep == stage = "none" /\ stage' # "none" => child # "running" /\ group = {}
Serialized == [][StartStep]_vars

\* "Ctrl+C cancels the active test process tree" (README.md:168): when Tests returns,
\* nothing of it is running.
CleanReturn ==
    pc = "returned" => stage = "none" /\ child # "running" /\ group = {}

\* "A result from a run with observed source changes is marked as outdated"
\* (README.md:168). If no save is undone, more holds: a verdict is about what is on
\* disk when it is printed, although polls, saves and the run's reading of the sources
\* come in any order.
VerdictStep ==
    pc = "select" /\ Sent /\ stage' = "none" /\ ~pending' /\ ~cancelled =>
        ~disturbed /\ (undone \/ read = disk)
CurrentVerdict == [][VerdictStep]_vars

\* "edits during a run schedule one subsequent run" (README.md:168): after the last save
\* at most two runs start, one that was due already and one for the save, and one more
\* for each failed scan.
RunsBounded == runs <= 2 + scanErrors

\* A cancelled session returns, whatever the tests and their processes do.
Returns == cancelled ~> pc = "returned"

\* If the runs come to an end, the last save gets its verdict, unless the session is
\* cancelled. Only contents that came and went between two polls can be left without
\* one: a run may have read them, and no poll has seen a change.
EventuallyJudged ==
    []<>(stage # "preparing" /\ child # "running") =>
        <>[](cancelled \/ undone \/ shown = disk)
=============================================================================
