-------------------------- MODULE DependencyVerify --------------------------
(***************************************************************************)
(* The verification of downloaded Go modules that runs beside a build:     *)
(* internal/compiler/dependency_verify.go, started and awaited in          *)
(* dependencies.go.  Each module is two jobs, its archive and its          *)
(* directory; the jobs are dealt to workers, and the files of a job to     *)
(* workers of its own, who share one semaphore.                            *)
(***************************************************************************)
EXTENDS Integers, FiniteSets

CONSTANTS
    Modules,    \* how many there are
    Files,      \* how many files each job has
    Limit,      \* places of the semaphore
    Workers,    \* workers for jobs: at most 4, and at most Limit
    Listings,   \* the lists of modules `go mod download' may give
    Contents    \* what may be on the disk

Job == 1 .. 2 * Modules
File == 1 .. Files
IsDirectory(j) == j % 2 = 0

\* An entry of the download list, read with the locked sums.
Entry == {"valid", "error", "mismatch", "incomplete"}
\* Can the files of a job be listed, and what is in each?
Content == [lists : BOOLEAN,
            file : [File -> {"good", "modified", "unreadable", "newline"}]]

ASSUME ConstantsAssumption ==
    /\ Modules \in Nat /\ Files \in Nat
    /\ Limit \in Nat \ {0} /\ Workers \in 1 .. Limit
    /\ Listings \subseteq [1 .. Modules -> Entry]
    /\ Contents \subseteq [Job -> Content]

VARIABLES
    listing,    \* the list of downloads
    content,    \* what is on the disk
    cancelled,  \* the context is done
    job,        \* Waiting, Hashing, or how each job has ended
    file,       \* how far each file of each job is
    held,       \* places of the semaphore that are taken
    answer      \* of verifyDependencies, or NoAnswer

vars == <<listing, content, cancelled, job, file, held, answer>>

\* How far a job is, or how it, or all of it, has ended: Good, or an error with its place.
Waiting == <<"waiting", 0, 0>>
Hashing == <<"hashing", 0, 0>>
NoAnswer == <<"none", 0, 0>>
Good == <<"good", 0, 0>>
Refused(m) == <<"refused", m, 0>>
Failed(j, f) == <<"failed", j, f>>
Modified(j) == <<"modified", j, 0>>
Stopped(j) == <<"stopped", j, 0>>

Ended(j) == job[j] \notin {Waiting, Hashing}
Read(j, f) == file[j][f] \notin {"waiting", "open"}

\* parallelIndices deals indices in turn: one is started when the one before it, of the
\* same worker, is through.
JobTurn(j) == j - Workers \in Job => Ended(j - Workers)
FileTurn(j, f) == f - Limit \in File => Read(j, f - Limit)

First(S) == CHOOSE x \in S : \A y \in S : x <= y

-----------------------------------------------------------------------------

Init ==
    /\ listing \in Listings /\ content \in Contents
    /\ cancelled = FALSE
    /\ job = [j \in Job |-> Waiting]
    /\ file = [j \in Job |-> [f \in File |-> "waiting"]]
    /\ held = 0 /\ answer = NoAnswer

\* downloadedModules: the first entry that is not what was locked.
Flawed(entries) == {m \in 1 .. Modules : entries[m] # "valid"}

Refuse ==
    /\ answer = NoAnswer /\ Flawed(listing) # {}
    /\ answer' = Refused(First(Flawed(listing)))
    /\ UNCHANGED <<listing, content, cancelled, job, file, held>>

Cancel ==
    /\ ~cancelled /\ cancelled' = TRUE
    /\ UNCHANGED <<listing, content, job, file, held, answer>>

\* The files of a job are listed; the walk of a directory looks at the context.
List(j) ==
    /\ Flawed(listing) = {} /\ job[j] = Waiting /\ JobTurn(j)
    /\ job' = [job EXCEPT ![j] =
          IF IsDirectory(j) /\ cancelled THEN Stopped(j)
          ELSE IF content[j].lists THEN Hashing ELSE Failed(j, 0)]
    /\ UNCHANGED <<listing, content, cancelled, file, held, answer>>

\* A worker takes a place of the semaphore, or sees that the context is done.
Acquire(j, f) ==
    /\ job[j] = Hashing /\ file[j][f] = "waiting" /\ FileTurn(j, f)
    /\ \/ /\ content[j].file[f] = "newline"
          /\ file' = [file EXCEPT ![j][f] = "failed"] /\ held' = held
       \/ /\ content[j].file[f] # "newline" /\ held < Limit
          /\ file' = [file EXCEPT ![j][f] = "open"] /\ held' = held + 1
       \/ /\ content[j].file[f] # "newline" /\ cancelled
          /\ file' = [file EXCEPT ![j][f] = "stopped"] /\ held' = held
    /\ UNCHANGED <<listing, content, cancelled, job, answer>>

\* What reading a file gives; the context is looked at before each part is read.
Outcomes(j, f) ==
    {IF content[j].file[f] = "unreadable" THEN "failed" ELSE content[j].file[f]} \cup
    (IF cancelled THEN {"stopped"} ELSE {})

\* Mutant: a file that cannot be read keeps its place of the semaphore.
Hash_KeepsPlace(j, f) ==
    /\ file[j][f] = "open"
    /\ \E outcome \in Outcomes(j, f) :
          /\ file' = [file EXCEPT ![j][f] = outcome]
          /\ held' = IF outcome = "failed" THEN held ELSE held - 1
    /\ UNCHANGED <<listing, content, cancelled, job, answer>>

Hash(j, f) ==
    /\ file[j][f] = "open"
    /\ \E outcome \in Outcomes(j, f) : file' = [file EXCEPT ![j][f] = outcome]
    /\ held' = held - 1
    /\ UNCHANGED <<listing, content, cancelled, job, answer>>

\* The end of a job whose files ended as they did: the first error in the order of the
\* names, or else whether the sum is that of the lock file.
Sum(j, ends) ==
    LET wrong == {f \in File : ends[f] \in {"failed", "stopped"}} IN
    IF wrong # {} THEN IF ends[First(wrong)] = "failed" THEN Failed(j, First(wrong))
                       ELSE Stopped(j)
    ELSE IF \E f \in File : ends[f] = "modified" THEN Modified(j) ELSE Good

\* Mutant: any of the errors, as when the first to come is kept.
Finish_AnyError(j) ==
    /\ job[j] = Hashing /\ \A f \in File : Read(j, f)
    /\ \E end \in {Failed(j, f) : f \in {g \in File : file[j][g] = "failed"}} \cup
                  {Sum(j, file[j])} :
          job' = [job EXCEPT ![j] = IF cancelled /\ end = Good THEN Stopped(j) ELSE end]
    /\ UNCHANGED <<listing, content, cancelled, file, held, answer>>

Finish(j) ==
    /\ job[j] = Hashing /\ \A f \in File : Read(j, f)
    /\ LET end == Sum(j, file[j]) IN
       job' = [job EXCEPT ![j] = IF cancelled /\ end \in {Good, Modified(j)} THEN Stopped(j)
                                 ELSE end]
    /\ UNCHANGED <<listing, content, cancelled, file, held, answer>>

\* The first error of all jobs, in the order of the modules.
Total(ends) ==
    LET wrong == {j \in Job : ends[j] # Good} IN
    IF wrong # {} THEN ends[First(wrong)] ELSE Good

\* verifyDependencies has waited for all workers.
Report ==
    /\ answer = NoAnswer /\ Flawed(listing) = {} /\ \A j \in Job : Ended(j)
    /\ answer' = IF Total(job) = Good /\ cancelled THEN Stopped(0) ELSE Total(job)
    /\ UNCHANGED <<listing, content, cancelled, job, file, held>>

Work ==
    \/ Refuse \/ Report
    \/ \E j \in Job : List(j) \/ Finish(j) \/ \E f \in File : Acquire(j, f) \/ Hash(j, f)

Next == Cancel \/ Work

Spec == Init /\ [][Next]_vars

\* Workers and the goroutine that waits for them go on while they can.
FairSpec == Spec /\ WF_vars(Work)

-----------------------------------------------------------------------------

JobEnds(j) == {Good, Modified(j), Stopped(j)} \cup {Failed(j, f) : f \in {0} \cup File}
FileState == {"waiting", "open", "good", "modified", "failed", "stopped"}

TypeOK ==
    /\ listing \in Listings /\ content \in Contents
    /\ cancelled \in BOOLEAN
    /\ DOMAIN job = Job /\ \A j \in Job : job[j] \in {Waiting, Hashing} \cup JobEnds(j)
    /\ file \in [Job -> [File -> FileState]]
    /\ held \in Int /\ held <= Limit

\* The answer when nothing is cancelled.
FileEnds(j) == [f \in File |->
    IF content[j].file[f] \in {"unreadable", "newline"} THEN "failed" ELSE content[j].file[f]]
Sums == [j \in Job |-> IF content[j].lists THEN Sum(j, FileEnds(j)) ELSE Failed(j, 0)]

Judgement == IF Flawed(listing) # {} THEN Refused(First(Flawed(listing))) ELSE Total(Sums)

\* "Completion order never affects the digest" (dependency_verify.go:166): the answer, be
\* it good or the error that is told, is that of the downloads alone, however many
\* workers read them in whatever order; a build that is cancelled is never told that they
\* are good.
Told == INSTANCE OneAnswer WITH right <- Judgement, None <- NoAnswer
Promised == Told!Spec

\* Whoever waits for the verification is answered: no error and no cancellation leaves a
\* worker waiting for a place of the semaphore.
Answered == <>(answer # NoAnswer)
=============================================================================
