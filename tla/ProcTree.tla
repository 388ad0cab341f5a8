------------------------------ MODULE ProcTree ------------------------------
(***************************************************************************)
(* proctree.Run, internal/proctree/process.go: one command with its        *)
(* descendants, under a context that can be cancelled.                     *)
(*                                                                         *)
(* The descendants are in the command's process group (a job object on     *)
(* Windows) until they leave it, which only a process that wants to does.  *)
(***************************************************************************)
EXTENDS Naturals, FiniteSets

CONSTANT Helper     \* the processes that the command may start

VARIABLES
    ctx,        \* is the context done?
    at,         \* where Run is
    child,      \* the command
    group,      \* its descendants in the process group
    strays,     \* those that have left it
    done,       \* the channel: what cmd.Wait returned
    outcome     \* what Run returns

tree == <<at, child, group, strays, done, outcome>>

TypeOK ==
    /\ at \in {"idle", "start", "select", "killed", "release", "returned"}
    /\ child \in {"none", "running", "passed", "failed", "killed"}
    /\ group \subseteq Helper /\ strays \subseteq Helper
    /\ done \in {"none", "passed", "failed"}
    /\ outcome \in {"none", "passed", "failed", "cancelled"}

\* No command yet.
Init == /\ at = "idle" /\ child = "none" /\ done = "none" /\ outcome = "none"
        /\ group = {} /\ strays = {}

\* The next call of Run.
Again == /\ at' = "idle" /\ child' = "none" /\ done' = "none" /\ outcome' = "none"
         /\ group' = {} /\ strays' = {}

-----------------------------------------------------------------------------
\* Run.

Return(r) == at' = "returned" /\ outcome' = r

Refuse ==
    /\ at = "idle" /\ ctx
    /\ Return("cancelled")
    /\ UNCHANGED <<child, group, strays, done>>

Accept ==
    /\ at = "idle" /\ ~ctx
    /\ at' = "start"
    /\ UNCHANGED <<child, group, strays, done, outcome>>

\* No process, or one that could not be attached; that is killed and waited for, and
\* has not run: where attaching can fail it is suspended.
StartFails ==
    /\ at = "start"
    /\ Return("failed")
    /\ UNCHANGED <<child, group, strays, done>>

Started ==
    /\ at = "start"
    /\ at' = "select" /\ child' = "running"
    /\ UNCHANGED <<group, strays, done, outcome>>

TakeResult ==
    /\ at = "select" /\ done # "none"
    /\ at' = "release" /\ outcome' = done
    /\ UNCHANGED <<child, group, strays, done>>

\* control.Kill reaches the group, the command included.
TakeCancel ==
    /\ at = "select" /\ ctx
    /\ at' = "killed"
    /\ child' = IF child = "running" THEN "killed" ELSE child
    /\ group' = {}
    /\ UNCHANGED <<strays, done, outcome>>

Collect ==
    /\ at = "killed" /\ done # "none"
    /\ at' = "release" /\ outcome' = "cancelled"
    /\ UNCHANGED <<child, group, strays, done>>

\* Mutant: the group is left alone when the command has ended by itself.
Release_Nothing ==
    /\ at = "release"
    /\ at' = "returned"
    /\ UNCHANGED <<child, group, strays, done, outcome>>

\* The deferred control.Release.
Release ==
    /\ at = "release"
    /\ at' = "returned" /\ group' = {}
    /\ UNCHANGED <<child, strays, done, outcome>>

Step == \/ Refuse \/ Accept \/ StartFails \/ Started
        \/ TakeResult \/ TakeCancel \/ Collect \/ Release

\* Mutant: without WaitDelay, Wait stays as long as somebody holds the output.
Waited_NoDelay ==
    /\ at \in {"select", "killed"} /\ done = "none"
    /\ child \in {"passed", "failed", "killed"}
    /\ group \cup strays = {}
    /\ done' = IF child = "passed" THEN "passed" ELSE "failed"
    /\ UNCHANGED <<at, child, group, strays, outcome>>

\* The goroutine in cmd.Wait. A descendant that still holds the output a second later
\* makes it an error.
Waited ==
    /\ at \in {"select", "killed"} /\ done = "none"
    /\ child \in {"passed", "failed", "killed"}
    /\ \/ done' = IF child = "passed" THEN "passed" ELSE "failed"
       \/ group \cup strays # {} /\ done' = "failed"
    /\ UNCHANGED <<at, child, group, strays, outcome>>

-----------------------------------------------------------------------------
\* The processes.

Exit ==
    /\ child = "running"
    /\ child' \in {"passed", "failed"}
    /\ UNCHANGED <<at, group, strays, done, outcome>>

Fork(h) ==
    /\ child = "running" \/ group # {}
    /\ h \notin group \cup strays
    /\ group' = group \cup {h}
    /\ UNCHANGED <<at, child, strays, done, outcome>>

Detach(h) ==
    /\ h \in group
    /\ group' = group \ {h} /\ strays' = strays \cup {h}
    /\ UNCHANGED <<at, child, done, outcome>>

HelperExits(h) ==
    /\ h \in group \cup strays
    /\ group' = group \ {h} /\ strays' = strays \ {h}
    /\ UNCHANGED <<at, child, done, outcome>>

Processes == Exit \/ \E h \in Helper : Fork(h) \/ Detach(h) \/ HelperExits(h)

Next == Step \/ Waited \/ Processes
=============================================================================
