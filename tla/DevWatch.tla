------------------------------ MODULE DevWatch ------------------------------
(***************************************************************************)
(* `ghi watch' and `ghi run --watch': internal/watch/watch.go.             *)
(*                                                                         *)
(* One goroutine runs the loop of Run; it polls the project, starts at     *)
(* most one build goroutine, and owns at most one child process.  Editors  *)
(* save, the build reads the sources, the child exits and the context is   *)
(* cancelled whenever they like.                                           *)
(*                                                                         *)
(* A version stands for the contents of everything snapshot hashes; a      *)
(* snapshot reads one version.  An executable is its path, the sequence    *)
(* number of the build, with the version its build read.                   *)
(***************************************************************************)
EXTENDS Naturals, FiniteSets

CONSTANTS
    Faults,        \* what may go wrong in a session
    MaxScanErrors, \* snapshots that fail in a behaviour
    Versions,      \* contents of the project
    Broken,        \* versions that do not compile
    None           \* no build, no child

\* How often files are saved; whether a save may restore an earlier version; whether
\* --debug is given; whether the child may fail to start, a debug build to write its
\* metadata, and a file to be removed.
Fault == [edits : Nat, reverts : BOOLEAN, debug : BOOLEAN, start : BOOLEAN,
          metadata : BOOLEAN, remove : BOOLEAN]

Exe == [path : Nat, version : Versions]

\* "reading": the sources are not loaded yet; "compiling": they are;
\* "done": the result is in the channel.
Build == [stage : {"reading", "compiling", "done"}, path : Nat,
          source : Versions, generation : Nat, read : Versions, ok : BOOLEAN,
          disturbed : BOOLEAN]

ASSUME ConstantsAssumption ==
    /\ Faults \subseteq Fault /\ MaxScanErrors \in Nat
    /\ Versions \subseteq Nat /\ Versions # {}
    /\ Broken \subseteq Versions
    /\ None \notin Exe /\ None \notin Build

VARIABLES
    faults,        \* those of this session
    disk,          \* the version on disk
    edits,         \* saves so far
    scanErrors,    \* failed snapshots so far
    cancelled,     \* ctx is done
    \* Run's locals.
    pc,            \* where Run is
    observed,      \* the version of the last snapshot that counted
    generation,    \* changes seen by polls
    pending,       \* a build is due
    quiet,         \* Debounce has elapsed since lastChange
    sequence,      \* builds started
    running,       \* the child, or None
    next,          \* the executable that is to replace it, or None
    \* The build goroutine.
    build,         \* what the goroutine and its buffered result hold, or None
    \* The world.
    staging,       \* executables in the staging directory
    metadata,      \* builds whose debug metadata is there
    apps,          \* children that are alive
    judged         \* the version of the last build that was not discarded

world == <<disk, edits, scanErrors, cancelled, faults>>
loop  == <<observed, generation, pending, quiet, sequence>>
files == <<staging, metadata>>
vars  == <<world, pc, loop, running, next, build, files, apps, judged>>

Pcs == {"top", "select", "stop", "start", "cancel", "stopLast", "cleanup",
        "returned"}

\* Saves go upward unless they may restore an earlier version.
Reverts == faults.reverts
\* Every executable that is installed is run, or removed when its build is discarded.
NoneLeft == ~faults.start /\ ~faults.metadata /\ ~faults.remove

InLoop == pc \in {"top", "select", "stop", "start"}
Snapshot == disk
App == [path |-> build.path, version |-> build.read]

-----------------------------------------------------------------------------

Init ==
    /\ faults \in Faults
    /\ disk \in Versions
    /\ edits = 0 /\ scanErrors = 0 /\ cancelled = FALSE
    /\ pc = "top"
    /\ observed = disk
    /\ generation = 0
    /\ pending = TRUE /\ quiet = TRUE
    /\ sequence = 0
    /\ running = None /\ next = None
    /\ build = None
    /\ staging = {} /\ metadata = {} /\ apps = {}
    /\ judged = None

-----------------------------------------------------------------------------
(* The world.                                                              *)

Edit ==
    /\ edits < faults.edits
    /\ edits' = edits + 1
    /\ disk' \in {v \in Versions : v > disk \/ (Reverts /\ v # disk)}
    /\ UNCHANGED <<scanErrors, cancelled, faults, pc, loop, running, next, build,
                   files, apps, judged>>

Cancel ==
    /\ ~cancelled
    /\ cancelled' = TRUE
    /\ UNCHANGED <<disk, edits, scanErrors, faults, pc, loop, running, next, build,
                   files, apps, judged>>

\* time.Since(lastChange) reaches Debounce.
Elapse ==
    /\ ~quiet
    /\ quiet' = TRUE
    /\ UNCHANGED <<world, pc, observed, generation, pending, sequence, running, next,
                   build, files, apps, judged>>

\* A child ends on its own.
ChildExits(a) ==
    /\ a \in apps
    /\ apps' = apps \ {a}
    /\ UNCHANGED <<world, pc, loop, running, next, build, files, judged>>

-----------------------------------------------------------------------------
(* The build goroutine: compiler.Build, then the send of the result.       *)

BuildReads ==
    /\ build # None /\ build.stage = "reading"
    /\ build' = [build EXCEPT !.stage = "compiling", !.read = disk]
    /\ UNCHANGED <<world, pc, loop, running, next, files, apps, judged>>

\* The executable appears by a rename, in one step, or not at all. A debug build then
\* writes its metadata to a file beside it, which may fail, and leave part of the file.
BuildEnds ==
    /\ build # None /\ build.stage = "compiling"
    /\ \E ok \in BOOLEAN, installed \in BOOLEAN, described \in BOOLEAN :
          /\ installed => build.read \notin Broken
          /\ installed /\ ~ok => faults.debug /\ faults.metadata
          /\ described => installed /\ faults.debug
          /\ ok => installed /\ (faults.debug => described)
          /\ build' = [build EXCEPT !.stage = "done", !.ok = ok]
          /\ staging' = IF installed THEN staging \cup {App} ELSE staging
          /\ metadata' = IF described THEN metadata \cup {build.path} ELSE metadata
    /\ UNCHANGED <<world, pc, loop, running, next, apps, judged>>

\* Build returns early: an error before the sources are read, or a cancelled
\* context.
BuildAborts ==
    /\ build # None /\ build.stage # "done"
    /\ build' = [build EXCEPT !.stage = "done", !.ok = FALSE,
                              !.read = IF build.stage = "reading" THEN disk ELSE @]
    /\ UNCHANGED <<world, pc, loop, running, next, files, apps, judged>>

-----------------------------------------------------------------------------
(* The loop of Run.                                                        *)

\* os.Remove of an executable; its error is dropped.
Remove(exe) ==
    /\ \/ staging' = staging \ {exe}
       \/ faults.remove /\ UNCHANGED staging
    /\ UNCHANGED metadata

BuildDue == pending /\ build = None /\ quiet

\* The top of the loop, with startBuild.
Top ==
    /\ pc = "top"
    /\ pc' = "select"
    /\ IF BuildDue
         THEN /\ pending' = FALSE
              /\ sequence' = sequence + 1
              /\ build' = [stage |-> "reading", path |-> sequence + 1,
                           source |-> observed, generation |-> generation,
                           read |-> observed, ok |-> FALSE, disturbed |-> FALSE]
         ELSE UNCHANGED <<pending, sequence, build>>
    /\ UNCHANGED <<world, observed, generation, quiet, running, next, files, apps,
                   judged>>

\* case err := <-exited
Exited ==
    /\ pc = "select"
    /\ running # None /\ running \notin apps
    /\ Remove(running)
    /\ running' = None
    /\ pc' = "top"
    /\ UNCHANGED <<world, loop, next, build, apps, judged>>

ScanFails ==
    /\ scanErrors < MaxScanErrors
    /\ scanErrors' = scanErrors + 1
    /\ UNCHANGED <<disk, edits, cancelled, faults>>

\* Plausible bugs: the executable stays; the next build is forgotten.
Discard_KeepsExecutable ==
    /\ pending' = TRUE
    /\ quiet' = FALSE
    /\ build' = None
    /\ pc' = "top"
    /\ UNCHANGED <<generation, sequence, running, next, files, apps, judged>>

Discard_NotPending ==
    /\ quiet' = FALSE
    /\ Remove(App)
    /\ build' = None
    /\ pc' = "top"
    /\ UNCHANGED <<pending, generation, sequence, running, next, apps, judged>>

Discard ==
    /\ pending' = TRUE
    /\ quiet' = FALSE
    /\ Remove(App)
    /\ build' = None
    /\ pc' = "top"
    /\ UNCHANGED <<generation, sequence, running, next, apps, judged>>

ResultReady == pc = "select" /\ build # None /\ build.stage = "done"

\* Plausible bugs: no rescan when a build ends; no count of the changes seen.
Outdated_ByPolls == observed # build.source \/ generation # build.generation
Outdated_ByContent == Snapshot # build.source

\* The project is no longer what the build was started for.
Outdated == Snapshot # build.source \/ generation # build.generation

\* case result := <-builds, when the rescan fails
ResultUnscanned ==
    /\ ResultReady
    /\ ScanFails
    /\ Discard
    /\ UNCHANGED observed

\* ... when the project has changed since the build was started
ResultOutdated ==
    /\ ResultReady
    /\ Outdated
    /\ observed' = Snapshot
    /\ Discard
    /\ UNCHANGED world

\* A plausible bug: a failed build is run like a good one.
ResultFailed_Runs ==
    /\ ResultReady
    /\ ~Outdated
    /\ ~build.ok
    /\ next' = App
    /\ build' = None
    /\ judged' = build.read
    /\ pc' = "stop"
    /\ UNCHANGED <<world, loop, running, files, apps>>

\* ... when the build failed
ResultFailed ==
    /\ ResultReady
    /\ ~Outdated
    /\ ~build.ok
    /\ build' = None
    /\ judged' = build.read
    /\ pc' = "top"
    /\ UNCHANGED <<world, loop, running, next, files, apps>>

\* ... when there is a new executable to run
ResultAccepted ==
    /\ ResultReady
    /\ ~Outdated
    /\ build.ok
    /\ pending' = FALSE
    /\ next' = App
    /\ build' = None
    /\ judged' = build.read
    /\ pc' = "stop"
    /\ UNCHANGED <<world, observed, generation, quiet, sequence, running, files,
                   apps>>

\* A plausible bug: the child is asked to stop, but never made to.
Stopped_OnlySignalled(killed) == running \notin apps /\ UNCHANGED apps

\* child.stop returns: the child took the signal, or was gone already, or it is
\* killed after a second.
Stopped(killed) ==
    \/ running \notin apps /\ UNCHANGED apps
    \/ killed /\ apps' = apps \ {running}

\* Plausible bugs: the old child is forgotten instead of stopped; is stopped but
\* not forgotten.
StopOld_Forgets(killed) ==
    /\ pc = "stop"
    /\ running' = None
    /\ Remove(running)
    /\ pc' = "start"
    /\ UNCHANGED <<world, loop, next, build, apps, judged>>

StopOld_Remembers(killed) ==
    /\ pc = "stop"
    /\ IF running = None
         THEN UNCHANGED <<apps, files>>
         ELSE /\ Stopped(killed)
              /\ Remove(running)
    /\ pc' = "start"
    /\ UNCHANGED <<world, loop, running, next, build, judged>>

StopOld(killed) ==
    /\ pc = "stop"
    /\ IF running = None
         THEN UNCHANGED <<apps, running, files>>
         ELSE /\ Stopped(killed)
              /\ running' = None
              /\ Remove(running)
    /\ pc' = "start"
    /\ UNCHANGED <<world, loop, next, build, judged>>

StartNew ==
    /\ pc = "start"
    /\ \/ running' = next /\ apps' = apps \cup {next}
       \/ faults.start /\ running' = None /\ UNCHANGED apps
    /\ next' = None
    /\ pc' = "top"
    /\ UNCHANGED <<world, loop, build, files, judged>>

\* case <-ticker.C
Tick ==
    /\ pc = "select"
    /\ \/ /\ ScanFails
          /\ UNCHANGED <<observed, generation, pending, quiet, build>>
       \/ /\ Snapshot # observed
          /\ generation' = generation + 1
          /\ observed' = Snapshot
          /\ pending' = TRUE
          /\ quiet' = FALSE
          /\ build' = IF build = None THEN None ELSE [build EXCEPT !.disturbed = TRUE]
          /\ UNCHANGED world
       \/ /\ Snapshot = observed
          /\ UNCHANGED <<world, observed, generation, pending, quiet, build>>
    /\ pc' = "top"
    /\ UNCHANGED <<sequence, running, next, files, apps, judged>>

-----------------------------------------------------------------------------
(* Run returns: the deferred calls, last in, first out.                    *)

Done ==
    /\ pc = "select"
    /\ cancelled
    /\ pc' = "cancel"
    /\ UNCHANGED <<world, loop, running, next, build, files, apps, judged>>

\* A plausible bug: the build is cancelled but not waited for.
AwaitBuild_Leaves ==
    /\ pc = "cancel"
    /\ pc' = "stopLast"
    /\ UNCHANGED <<world, loop, running, next, build, files, apps, judged>>

\* cancelBuild, and the wait for the goroutine's result.
AwaitBuild ==
    /\ pc = "cancel"
    /\ build # None => build.stage = "done"
    /\ build' = None
    /\ pc' = "stopLast"
    /\ UNCHANGED <<world, loop, running, next, files, apps, judged>>

StopLast(killed) ==
    /\ pc = "stopLast"
    /\ IF running = None THEN UNCHANGED apps ELSE Stopped(killed)
    /\ pc' = "cleanup"
    /\ UNCHANGED <<world, loop, running, next, build, files, judged>>

\* os.RemoveAll of the staging directory; its error is dropped as well.
RemoveStaging ==
    /\ pc = "cleanup"
    /\ \/ staging' = {} /\ metadata' = {}
       \/ faults.remove /\ staging' \in SUBSET staging /\ metadata' \in SUBSET metadata
    /\ pc' = "returned"
    /\ UNCHANGED <<world, loop, running, next, build, apps, judged>>

-----------------------------------------------------------------------------
(* The specification.                                                      *)

Result == ResultUnscanned \/ ResultOutdated \/ ResultFailed \/ ResultAccepted
Stop == \E killed \in BOOLEAN : StopOld(killed) \/ StopLast(killed)

Next ==
    \/ Edit \/ Cancel \/ Elapse
    \/ \E a \in apps : ChildExits(a)
    \/ BuildReads \/ BuildEnds \/ BuildAborts
    \/ Top \/ Exited \/ Result \/ Tick
    \/ Stop \/ StartNew
    \/ Done \/ AwaitBuild \/ RemoveStaging

Spec == Init /\ [][Next]_vars

\* The loop and its deferred calls go on. Go's select picks among the ready cases
\* at random, so no case that keeps coming up is passed over for ever. Time
\* passes, and a child that was sent SIGKILL is gone.
LoopFairness ==
    /\ WF_vars(Top) /\ WF_vars(StartNew) /\ WF_vars(AwaitBuild)
    /\ WF_vars(RemoveStaging)
    /\ SF_vars(Result) /\ SF_vars(Tick) /\ SF_vars(Exited) /\ SF_vars(Done)
    /\ WF_vars(StopOld(TRUE)) /\ WF_vars(StopLast(TRUE))
    /\ WF_vars(Elapse)

\* A build ends, if only because its context was cancelled.
BuildFairness == WF_vars(BuildReads \/ BuildEnds \/ BuildAborts)
CancelledBuildFairness == WF_vars(cancelled /\ BuildAborts)

\* Builds may hang until they are cancelled.
HangingSpec == Spec /\ LoopFairness /\ CancelledBuildFairness

-----------------------------------------------------------------------------
(* Properties.                                                             *)

TypeOK ==
    /\ faults \in Faults
    /\ disk \in Versions /\ observed \in Versions
    /\ edits \in Nat /\ scanErrors \in Nat
    /\ cancelled \in BOOLEAN
    /\ pc \in Pcs
    /\ generation \in Nat /\ sequence \in Nat
    /\ pending \in BOOLEAN /\ quiet \in BOOLEAN
    /\ running \in Exe \cup {None} /\ next \in Exe \cup {None}
    /\ build \in Build \cup {None}
    /\ staging \subseteq Exe /\ metadata \subseteq Nat /\ apps \subseteq Exe
    /\ judged \in Versions \cup {None}

\* The old process is gone before the new one starts: two applications never
\* hold the port, the database or the terminal together.
OneChild == \A a, b \in apps : a = b

\* When Run returns it leaves nothing behind: no child, no build that could
\* still write into the staging directory, and, if removing works, no file in it.
CleanReturn ==
    pc = "returned" =>
        /\ apps = {} /\ build = None
        /\ ~faults.remove => staging = {} /\ metadata = {}

\* The executables in the staging directory: the one that runs, the one about to, and
\* that of the build in flight.
FewExecutables ==
    InLoop /\ NoneLeft =>
        staging \subseteq {running, next} \cup IF build = None THEN {} ELSE {App}

\* Only debug sessions keep more, and never more than one metadata file for each build:
\* it stays when its executable goes, so that it is there for as long as that runs.
MetadataKept ==
    /\ metadata \subseteq IF faults.debug THEN 1 .. sequence ELSE {}
    /\ InLoop /\ faults.debug =>
          \A e \in {running, next} : e # None => e.path \in metadata

\* However long the session, no executable of an earlier build stays behind, and what a
\* debug session gathers is bounded by its builds; a debugger finds the metadata of what
\* runs. (A debug build that fails after its rename, an application that cannot be started
\* and a removal that fails do leave an executable until Run returns.)
OnlyMetadataStays == FewExecutables /\ MetadataKept

\* "An obsolete build is not started" (README.md:154): an executable that is
\* accepted was built from what is on disk at that moment, as long as no save restores
\* an earlier version: what is undone between two polls goes unnoticed.
AcceptStep == pc = "select" /\ pc' = "stop" => next'.version = disk
NoObsoleteStart == [][~Reverts => AcceptStep]_vars

\* A build during which a poll saw the project change is never started, even if
\* the change was undone before the build ended.
DisturbedStep == pc = "select" /\ pc' = "stop" => ~build.disturbed
DisturbedDiscarded == [][DisturbedStep]_vars

\* "A failed build ... leaves the previous service running" (README.md:154): a
\* child goes by itself, for an executable that compiled, or with Run.
KeepStep ==
    \A a \in apps \ apps' :
        \/ ChildExits(a)
        \/ pc = "stop" /\ next \in staging /\ next.version \notin Broken
        \/ pc = "stopLast"
ServiceKept == [][KeepStep]_vars

\* Once the saves stop, what is on disk is built and judged, unless a build hangs, a
\* save restores an earlier version or the session ends: no save is lost between a poll,
\* the debounce and a build in flight.
EventuallyJudged == ~Reverts /\ BuildFairness => <>[](InLoop => judged = disk)

\* A cancelled session returns, also from a build that hangs and a child that
\* ignores its signal.
Returns == cancelled ~> pc = "returned"

-----------------------------------------------------------------------------
(* The inductive invariant.                                                *)

\* At most the child that Run knows of is alive, and none where Run has just
\* stopped it.
ChildInv ==
    /\ apps \subseteq {running}
    /\ running = None => apps = {}
    /\ pc = "start" => running = None
    /\ pc \in {"stop", "start"} <=> next # None
    /\ pc \in {"cleanup", "returned"} => apps = {}
    /\ pc \in {"stop", "start", "stopLast", "cleanup", "returned"} => build = None
    /\ pc = "returned" /\ ~faults.remove => staging = {} /\ metadata = {}

\* Versions only grow from the snapshot a build is started for, through what it
\* reads, to what is on disk; a poll that sees a change leaves its mark on the
\* generation.
FreshInv ==
    /\ ~Reverts => observed <= disk
    /\ build # None =>
        /\ ~Reverts => build.source <= disk
        /\ ~Reverts /\ build.stage # "reading" =>
              build.source <= build.read /\ build.read <= disk
        /\ build.generation <= generation
        /\ build.disturbed => build.generation < generation

\* Paths are never used twice, so what is removed from the staging directory is
\* never the executable that is needed.
PathInv ==
    /\ running # None => running.path <= sequence
    /\ build # None => /\ build.path = sequence
                       /\ running # None => running.path < sequence
    /\ pc = "stop" /\ running # None => running.path < next.path
    /\ next # None => next.path <= sequence

\* What an accepted build vouches for, and what else is in the staging directory.
StagingInv ==
    /\ build # None /\ build.ok =>
          build.stage = "done" /\ App \in staging /\ build.read \notin Broken
    /\ pc = "stop" => next \in staging /\ next.version \notin Broken
    /\ InLoop /\ NoneLeft /\ (build = None \/ ~build.ok) =>
          staging \subseteq {running, next}

\* A build that is accepted has written its metadata.
MetadataInv ==
    /\ MetadataKept
    /\ build # None =>
          /\ build.path \in 1 .. sequence
          /\ build.ok /\ faults.debug => build.path \in metadata

Inv ==
    /\ TypeOK /\ ChildInv /\ FreshInv /\ PathInv
    /\ StagingInv /\ FewExecutables /\ MetadataInv
=============================================================================
