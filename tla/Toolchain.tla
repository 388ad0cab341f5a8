----------------------------- MODULE Toolchain -----------------------------
(***************************************************************************)
(* Manager.Ensure of internal/toolchain: several calls, of one compiler or *)
(* of compilers that support different Go branches, share one directory of *)
(* managed toolchains without any lock.  A call probes what is installed,  *)
(* newest first, and otherwise downloads the newest release it supports    *)
(* into a staging directory of its own, verifies, unpacks and probes it    *)
(* there, and renames it into place.                                       *)
(***************************************************************************)
EXTENDS Integers, FiniteSets

CONSTANTS Call,        \* calls of Ensure, each by a compiler process
          Version,     \* Go releases for this platform, ordered as numbers
          Supported,   \* Supported[c]: releases of the language branch of c
          Managed,     \* calls made with SkipSystem
          MaxFaults    \* bound on failures of network, disk, probe and user

ASSUME VersionAssumption == Version \subseteq Nat
ASSUME SupportedAssumption == Supported \in [Call -> SUBSET Version]
ASSUME ManagedAssumption == Managed \subseteq Call
ASSUME FaultsAssumption == MaxFaults \in Nat

\* No release yet; and outcomes that are not a version.
None == -1
Undecided == -1
Failed == -2
System == -3

VARIABLES dirs,        \* CacheDir/<version>: "absent" or the state of its tree
          published,   \* stable releases in the metadata of the Go site
          faults,      \* failures so far
          pc,          \* where each call is
          entries,     \* the directory listing of the call
          tried,       \* the entries it has probed
          release,     \* the release it selected
          staging,     \* its .install- directory
          outcome,     \* what it is going to return
          cancelled    \* its context is done

vars == <<dirs, published, faults, pc, entries, tried, release, staging, outcome,
          cancelled>>

Tree == {"partial", "tampered", "whole", "damaged"}
Installing == {"stage", "download", "extract", "vet", "commit", "lost"}
Control == {"start", "probe", "ask", "clean", "returned", "crashed"} \cup Installing

TypeOK ==
    /\ dirs \in [Version -> {"absent"} \cup Tree]
    /\ published \in SUBSET Version
    /\ faults \in 0 .. MaxFaults
    /\ pc \in [Call -> Control]
    /\ entries \in [Call -> SUBSET Version]
    /\ tried \in [Call -> SUBSET Version]
    /\ release \in [Call -> Version \cup {None}]
    /\ staging \in [Call -> {"none", "empty", "archive"} \cup Tree]
    /\ outcome \in [Call -> Version \cup {Undecided, System, Failed}]
    /\ cancelled \in [Call -> BOOLEAN]
    /\ \A c \in Call : pc[c] \in Installing => release[c] \in Version

Init ==
    /\ dirs \in [Version -> {"absent", "whole"}]
    /\ published \in SUBSET Version
    /\ faults = 0
    /\ pc = [c \in Call |-> "start"]
    /\ entries = [c \in Call |-> {}]
    /\ tried = [c \in Call |-> {}]
    /\ release = [c \in Call |-> None]
    /\ staging = [c \in Call |-> "none"]
    /\ outcome = [c \in Call |-> Undecided]
    /\ cancelled = [c \in Call |-> FALSE]

-----------------------------------------------------------------------------
\* One more failure of the surroundings.
Fault == faults < MaxFaults /\ faults' = faults + 1

Goto(c, l) == pc' = [pc EXCEPT ![c] = l]

\* Every return after MkdirTemp runs the deferred RemoveAll of the staging directory.
Return(c, r) == Goto(c, "clean") /\ outcome' = [outcome EXCEPT ![c] = r]

Fail(c) == Return(c, Failed)

\* Mutant: the listing is sorted the other way round.
Newest_Oldest(v, S) == v \in S /\ \A u \in S : v <= u

\* version.Compare(x, y) > 0 puts the newest first.
Newest(v, S) == v \in S /\ \A u \in S : u <= v

\* `go version` of a tree of release v, run under the call's context and a time limit:
\* a complete tree answers unless the run fails, an incomplete one may or may not.
Compatible(c, v, tree, ok) ==
    IF cancelled[c] \/ v \notin Supported[c] \/ tree = "absent"
    THEN ~ok /\ UNCHANGED faults
    ELSE \/ ok /\ UNCHANGED faults
         \/ ~ok /\ tree # "whole" /\ UNCHANGED faults
         \/ ~ok /\ Fault

\* Mutant: only the size is compared.
Verified_SizeOnly(bytes) == bytes \in {"whole", "tampered"}

\* Size and SHA-256 are those of the metadata.
Verified(bytes) == bytes = "whole"

-----------------------------------------------------------------------------
\* GHI_GO decides alone; otherwise a compatible go on PATH is taken.
SystemGo(c) ==
    /\ pc[c] = "start" /\ c \notin Managed
    /\ \E r \in {System, Failed} : Return(c, r)
    /\ UNCHANGED <<dirs, published, faults, entries, tried, release, staging, cancelled>>

\* The listing; a directory that cannot be read counts as empty.
List(c) ==
    /\ pc[c] = "start"
    /\ \/ entries' = [entries EXCEPT ![c] = {v \in Version : dirs[v] # "absent"}]
          /\ UNCHANGED faults
       \/ UNCHANGED entries /\ Fault
    /\ Goto(c, "probe")
    /\ UNCHANGED <<dirs, published, tried, release, staging, outcome, cancelled>>

\* The next installed version, as it is now: it was listed some time ago.
ProbeInstalled(c) ==
    /\ pc[c] = "probe"
    /\ \E v \in entries[c] \ tried[c], ok \in BOOLEAN :
          /\ Newest(v, entries[c] \ tried[c])
          /\ Compatible(c, v, dirs[v], ok)
          /\ tried' = [tried EXCEPT ![c] = @ \cup {v}]
          /\ IF ok THEN Return(c, v) ELSE UNCHANGED <<pc, outcome>>
    /\ UNCHANGED <<dirs, published, entries, release, staging, cancelled>>

\* No installed version will do: ctx.Err, and the metadata request.
NoneInstalled(c) ==
    /\ pc[c] = "probe" /\ entries[c] \subseteq tried[c]
    /\ IF cancelled[c] THEN Fail(c) ELSE Goto(c, "ask") /\ UNCHANGED outcome
    /\ UNCHANGED <<dirs, published, faults, entries, tried, release, staging, cancelled>>

\* The releases this compiler supports.
Offered(c) == published \cap Supported[c]

\* The metadata answer: the newest release on offer, if there is any.
Select(c) ==
    /\ pc[c] = "ask"
    /\ \/ \E v \in Offered(c) :
             /\ ~cancelled[c] /\ Newest(v, Offered(c))
             /\ release' = [release EXCEPT ![c] = v]
             /\ Goto(c, "stage") /\ UNCHANGED <<outcome, faults>>
       \/ (cancelled[c] \/ Offered(c) = {}) /\ Fail(c) /\ UNCHANGED <<release, faults>>
       \/ Fault /\ Fail(c) /\ UNCHANGED release
    /\ UNCHANGED <<dirs, published, entries, tried, staging, cancelled>>

\* MkdirTemp in CacheDir: every call has a staging directory of its own.
Stage(c) ==
    /\ pc[c] = "stage"
    /\ \/ staging' = [staging EXCEPT ![c] = "empty"] /\ Goto(c, "download")
          /\ UNCHANGED <<outcome, faults>>
       \/ Fault /\ Fail(c) /\ UNCHANGED staging
    /\ UNCHANGED <<dirs, published, entries, tried, release, cancelled>>

\* The archive arrives as published, or cut, or altered; or it does not arrive.
Download(c) ==
    /\ pc[c] = "download"
    /\ \/ \E bytes \in {"whole", "tampered"} :
             /\ ~cancelled[c]
             /\ IF bytes = "whole" THEN UNCHANGED faults ELSE Fault
             /\ IF Verified(bytes)
                THEN /\ Goto(c, "extract") /\ UNCHANGED outcome
                     /\ staging' = [staging EXCEPT ![c] =
                                       IF bytes = "whole" THEN "archive" ELSE "tampered"]
                ELSE Fail(c) /\ UNCHANGED staging
       \/ (IF cancelled[c] THEN UNCHANGED faults ELSE Fault) /\ Fail(c) /\ UNCHANGED staging
    /\ UNCHANGED <<dirs, published, entries, tried, release, cancelled>>

\* Unpacking, file by file, below the staging directory.
ExtractSome(c) ==
    /\ pc[c] = "extract" /\ staging[c] = "archive"
    /\ staging' = [staging EXCEPT ![c] = "partial"]
    /\ UNCHANGED <<dirs, published, faults, pc, entries, tried, release, outcome, cancelled>>

ExtractRest(c) ==
    /\ pc[c] = "extract" /\ staging[c] \in {"partial", "tampered"}
    /\ \/ /\ staging' = [staging EXCEPT ![c] = IF @ = "partial" THEN "whole" ELSE @]
          /\ Goto(c, "vet") /\ UNCHANGED <<outcome, faults>>
       \/ Fault /\ Fail(c) /\ UNCHANGED staging
    /\ UNCHANGED <<dirs, published, entries, tried, release, cancelled>>

\* The unpacked executable is probed before anybody else can see it.
Vet(c) ==
    /\ pc[c] = "vet"
    /\ \E ok \in BOOLEAN :
          /\ Compatible(c, release[c], staging[c], ok)
          /\ IF ok THEN Goto(c, "commit") /\ UNCHANGED outcome ELSE Fail(c)
    /\ UNCHANGED <<dirs, published, entries, tried, release, staging, cancelled>>

\* Mutant: losing the rename is an error.
Commit_LoserFails(c) ==
    /\ pc[c] = "commit"
    /\ LET v == release[c] IN
       \/ /\ dirs[v] = "absent"
          /\ dirs' = [dirs EXCEPT ![v] = staging[c]]
          /\ staging' = [staging EXCEPT ![c] = "empty"]
          /\ Return(c, v) /\ UNCHANGED faults
       \/ /\ IF dirs[v] # "absent" THEN UNCHANGED faults ELSE Fault
          /\ Fail(c) /\ UNCHANGED <<dirs, staging>>
    /\ UNCHANGED <<published, entries, tried, release, cancelled>>

\* The rename, which an existing directory refuses.
Commit(c) ==
    /\ pc[c] = "commit"
    /\ LET v == release[c] IN
       \/ /\ dirs[v] = "absent"
          /\ dirs' = [dirs EXCEPT ![v] = staging[c]]
          /\ staging' = [staging EXCEPT ![c] = "empty"]
          /\ Return(c, v) /\ UNCHANGED faults
       \/ /\ IF dirs[v] # "absent" THEN UNCHANGED faults ELSE Fault
          /\ Goto(c, "lost") /\ UNCHANGED <<dirs, staging, outcome>>
    /\ UNCHANGED <<published, entries, tried, release, cancelled>>

\* "A concurrent installer may have completed this exact version."
ProbeExisting(c) ==
    /\ pc[c] = "lost"
    /\ \E ok \in BOOLEAN :
          /\ Compatible(c, release[c], dirs[release[c]], ok)
          /\ IF ok THEN Return(c, release[c]) ELSE Fail(c)
    /\ UNCHANGED <<dirs, published, entries, tried, release, staging, cancelled>>

\* The return, and the deferred removal of the staging directory, which may fail; its
\* error is dropped, and the directory stays.
Clean(c) ==
    /\ pc[c] = "clean"
    /\ \/ staging' = [staging EXCEPT ![c] = "none"] /\ UNCHANGED faults
       \/ staging[c] # "none" /\ Fault /\ UNCHANGED staging
    /\ Goto(c, "returned")
    /\ UNCHANGED <<dirs, published, entries, tried, release, outcome, cancelled>>

Step(c) ==
    \/ SystemGo(c) \/ List(c) \/ ProbeInstalled(c) \/ NoneInstalled(c) \/ Select(c)
    \/ Stage(c) \/ Download(c) \/ ExtractSome(c) \/ ExtractRest(c) \/ Vet(c)
    \/ Commit(c) \/ ProbeExisting(c) \/ Clean(c)

-----------------------------------------------------------------------------
\* The surroundings: a killed compiler, a cancelled command, a new Go release,
\* a toolchain damaged or removed by its owner.
Crash(c) ==
    /\ pc[c] \notin {"start", "returned", "crashed"}
    /\ Goto(c, "crashed")
    /\ UNCHANGED <<dirs, published, faults, entries, tried, release, staging, outcome,
                   cancelled>>

Cancel(c) ==
    /\ ~cancelled[c] /\ pc[c] \notin {"clean", "returned", "crashed"}
    /\ cancelled' = [cancelled EXCEPT ![c] = TRUE]
    /\ UNCHANGED <<dirs, published, faults, pc, entries, tried, release, staging, outcome>>

Publish ==
    /\ \E v \in Version \ published : published' = published \cup {v}
    /\ UNCHANGED <<dirs, faults, pc, entries, tried, release, staging, outcome, cancelled>>

Harm ==
    /\ \E v \in Version, h \in {"absent", "damaged"} :
          dirs[v] # "absent" /\ dirs' = [dirs EXCEPT ![v] = h]
    /\ Fault
    /\ UNCHANGED <<published, pc, entries, tried, release, staging, outcome, cancelled>>

Next == Publish \/ Harm \/ \E c \in Call : Step(c) \/ Crash(c) \/ Cancel(c)

Spec == Init /\ [][Next]_vars

\* Every call runs in a process of its own, which the operating system schedules.
FairSpec == Spec /\ \A c \in Call : WF_vars(Step(c))

-----------------------------------------------------------------------------
\* The shelf of whole toolchains: what lies in CacheDir under a version's name was
\* complete when it appeared there, no call exchanges it, and every answer of Ensure
\* is a version of its compiler's branch that was on the shelf at that moment.
Shelf == INSTANCE GoShelf WITH shelf <- dirs, answer <- outcome
ShelfSpec == Shelf!Spec

\* The supported versions a call listed and should have preferred to what it does: those
\* newer than its answer, or all of them if it answers none of them.
Preferred(c) == {v \in entries[c] \cap Supported[c] :
                    outcome[c] \in entries[c] => v > outcome[c]}

\* The newest supported version a call has listed is the one it takes, and it goes to the
\* network only when it listed none (lines 123-133); what makes it pass over one, a toolchain
\* damaged or removed since it was listed or a probe that fails, is a failure of its own for
\* every version, whatever other calls install meanwhile and other failures leave behind.
FirstChoice == \A c \in Call :
    ~cancelled[c] /\ pc[c] \notin {"start", "probe", "crashed"} =>
        Cardinality(Preferred(c)) <= faults

\* A call with a supported release on the Go site returns a toolchain, also when another
\* call wins the rename (lines 222-229), unless it is cancelled or killed or a new failure
\* strikes: as long as there was none, and also after the last of many. What they left
\* behind, the staging directories of killed calls and of failed removals included, is not
\* in its way; only a damaged toolchain is.
Served == \A c \in Managed, n \in {0, MaxFaults} :
    /\ pc[c] = "start" /\ Offered(c) # {} /\ faults = n
    /\ \A v \in Supported[c] : dirs[v] # "damaged"
    ~>  \/ pc[c] = "returned" /\ outcome[c] \in Version
        \/ cancelled[c] \/ pc[c] = "crashed" \/ faults > n
=============================================================================
