----------------------- MODULE DependencyVerifyProofs -----------------------
(***************************************************************************)
(* Proofs about DependencyVerify, for every number of modules, files,      *)
(* workers and places, and whatever is on the disk.                        *)
(***************************************************************************)
EXTENDS DependencyVerify, TLAPS, WellFoundedInduction

\* While nothing is cancelled, what has ended has ended as what is on the disk says.
FileInv == ~cancelled => \A j \in Job, f \in File : Read(j, f) => file[j][f] = FileEnds(j)[f]
JobInv == ~cancelled => \A j \in Job :
    /\ job[j] = Hashing => content[j].lists
    /\ Ended(j) => job[j] = Sums[j]

\* A file with such a name is never opened.
OpenInv == \A j \in Job, f \in File :
    file[j][f] = "open" => content[j].file[f] # "newline"

IInv == TypeOK /\ FileInv /\ JobInv /\ OpenInv

-----------------------------------------------------------------------------

\* The first number of a set that is not empty is in it.
LEMMA FirstIsIn ==
    ASSUME NEW S, S \subseteq Nat, S # {}
    PROVE  First(S) \in S
<1> DEFINE Less == {ss \in Nat \X Nat : ss[1] < ss[2]}
<1>1. OpToRel(<, Nat) = Less
  BY Zenon DEF OpToRel
<1>2. IsWellFoundedOn(Less, Nat)
  BY <1>1, NatLessThanWellFounded, Zenon
<1>3. PICK x \in S : \A y \in S : <<y, x>> \notin Less
  BY <1>2, WFMin, Zenon
<1>4. ASSUME NEW y \in S PROVE x <= y
  <2>1. <<y, x>> \in Nat \X Nat /\ <<y, x>>[1] = y /\ <<y, x>>[2] = x /\ <<y, x>> \notin Less
    BY <1>3
  <2>2. ~(y < x)
    BY <2>1, Zenon DEF Less
  <2> QED
    BY <2>2
<1> QED
  BY <1>4 DEF First

\* The result of a job is one of those it may have.
LEMMA SumType ==
    ASSUME NEW j \in Job, NEW ends
    PROVE  Sum(j, ends) \in JobEnds(j)
<1> DEFINE wrong == {f \in File : ends[f] \in {"failed", "stopped"}}
<1>0. wrong \subseteq Nat /\ wrong \subseteq File
  BY ConstantsAssumption DEF File
<1> HIDE DEF wrong
<1>1. wrong # {} => First(wrong) \in File
  BY <1>0, FirstIsIn, Zenon
<1> USE DEF wrong
<1> QED
  BY <1>1 DEF Sum, JobEnds

\* The ways to end are none of the states before it.
LEMMA EndsDiffer ==
    ASSUME NEW j \in Job, NEW end \in JobEnds(j)
    PROVE  end \notin {Waiting, Hashing, NoAnswer}
BY DEF JobEnds, Waiting, Hashing, NoAnswer, Good, Modified, Stopped, Failed

\* The invariant holds at first.
LEMMA Initial == Init => IInv
<1> SUFFICES ASSUME Init PROVE IInv
  OBVIOUS
<1>1. file \in [Job -> [File -> FileState]]
  BY DEF Init, FileState
<1>2. DOMAIN job = Job /\ \A j \in Job : job[j] = Waiting
  BY DEF Init
<1>3. held \in Int /\ held <= Limit
  BY ConstantsAssumption DEF Init
<1>4. TypeOK
  BY <1>1, <1>2, <1>3 DEF Init, TypeOK
<1>5. FileInv /\ JobInv /\ OpenInv
  BY DEF Init, FileInv, JobInv, OpenInv, Read, Ended, Waiting, Hashing
<1> QED
  BY <1>4, <1>5 DEF IInv

\* Cancellation keeps the invariant.
LEMMA CancelKeeps == IInv /\ Cancel => IInv'
<1> SUFFICES ASSUME IInv, Cancel PROVE IInv'
  OBVIOUS
<1>1. TypeOK'
  BY DEF IInv, Cancel, TypeOK
<1> QED
  BY <1>1 DEF IInv, Cancel, FileInv, JobInv, OpenInv

\* The answer keeps it.
LEMMA AnswersKeep == IInv /\ (Refuse \/ Report \/ UNCHANGED vars) => IInv'
<1> SUFFICES ASSUME IInv, Refuse \/ Report \/ UNCHANGED vars PROVE IInv'
  OBVIOUS
<1>1. UNCHANGED <<listing, content, cancelled, job, file, held>>
  BY DEF Refuse, Report, vars
<1>2. TypeOK'
  BY <1>1 DEF IInv, TypeOK
<1>3. FileInv' /\ OpenInv'
  BY <1>1 DEF IInv, FileInv, OpenInv, Read, FileEnds
<1>4. Sums' = Sums
  BY <1>1 DEF Sums, FileEnds
<1>5. JobInv'
  BY <1>1, <1>4 DEF IInv, JobInv, Ended
<1> QED
  BY <1>2, <1>3, <1>5 DEF IInv

\* Listing the files of a job keeps it.
LEMMA ListKeeps == ASSUME IInv, NEW j \in Job, List(j) PROVE IInv'
<1>1. /\ UNCHANGED <<listing, content, cancelled, file, held>>
      /\ job[j] = Waiting
      /\ \A i \in Job \ {j} : job'[i] = job[i]
      /\ job'[j] = IF IsDirectory(j) /\ cancelled THEN Stopped(j)
                   ELSE IF content[j].lists THEN Hashing ELSE Failed(j, 0)
      /\ DOMAIN job' = Job
  BY DEF IInv, TypeOK, List
<1>2. job'[j] \in {Hashing} \cup JobEnds(j)
  BY <1>1 DEF JobEnds
<1>3. TypeOK'
  BY <1>1, <1>2 DEF IInv, TypeOK, JobEnds
<1>4. FileInv' /\ OpenInv'
  BY <1>1 DEF IInv, FileInv, OpenInv, Read, FileEnds
<1>5. Sums' = Sums
  BY <1>1 DEF Sums, FileEnds
<1>6. ~cancelled => /\ job'[j] = Hashing => content[j].lists
                    /\ Ended(j)' => job'[j] = Sums[j]
  BY <1>1 DEF Ended, Sums, Hashing, Failed
<1>7. JobInv'
  BY <1>1, <1>5, <1>6 DEF IInv, JobInv, Ended
<1> QED
  BY <1>3, <1>4, <1>7 DEF IInv

\* A step of one file.
LEMMA FileStepKeeps ==
    ASSUME IInv, NEW j \in Job, NEW f \in File, NEW state \in FileState,
           file' = [file EXCEPT ![j][f] = state],
           ~cancelled /\ state \notin {"waiting", "open"} => state = FileEnds(j)[f],
           state = "open" => content[j].file[f] # "newline",
           held' \in Int, held' <= Limit,
           UNCHANGED <<listing, content, cancelled, job, answer>>
    PROVE  IInv'
<1>1. TypeOK'
  BY DEF IInv, TypeOK, JobEnds
<1>2. \A i \in Job, g \in File : file'[i][g] = IF i = j /\ g = f THEN state ELSE file[i][g]
  BY DEF IInv, TypeOK
<1>3. \A i \in Job : FileEnds(i)' = FileEnds(i)
  BY DEF FileEnds
<1>4. FileInv' /\ OpenInv'
  BY <1>2, <1>3 DEF IInv, FileInv, OpenInv, Read
<1>5. Sums' = Sums
  BY DEF Sums, FileEnds
<1>6. JobInv'
  BY <1>5 DEF IInv, JobInv, Ended
<1> QED
  BY <1>1, <1>4, <1>6 DEF IInv

\* Taking a place of the semaphore keeps it.
LEMMA AcquireKeeps == ASSUME IInv, NEW j \in Job, NEW f \in File, Acquire(j, f) PROVE IInv'
<1>1. CASE file' = [file EXCEPT ![j][f] = "failed"] /\ content[j].file[f] = "newline" /\ held' = held
  <2>1. FileEnds(j)[f] = "failed"
    BY <1>1 DEF FileEnds
  <2> QED
    BY <1>1, <2>1, FileStepKeeps DEF IInv, TypeOK, Acquire, FileState
<1>2. CASE file' = [file EXCEPT ![j][f] = "open"] /\ content[j].file[f] # "newline" /\ held < Limit /\ held' = held + 1
  <2>1. held' \in Int /\ held' <= Limit
    BY <1>2, ConstantsAssumption DEF IInv, TypeOK
  <2> QED
    BY <1>2, <2>1, FileStepKeeps DEF Acquire, FileState
<1>3. CASE file' = [file EXCEPT ![j][f] = "stopped"] /\ cancelled /\ held' = held
  BY <1>3, FileStepKeeps DEF IInv, TypeOK, Acquire, FileState
<1> QED
  BY <1>1, <1>2, <1>3 DEF Acquire

\* Hashing a file keeps it.
LEMMA HashKeeps == ASSUME IInv, NEW j \in Job, NEW f \in File, Hash(j, f) PROVE IInv'
<1>1. PICK outcome \in Outcomes(j, f) : file' = [file EXCEPT ![j][f] = outcome]
  BY DEF Hash
<1>2. content[j].file[f] \in {"good", "modified", "unreadable", "newline"}
  BY ConstantsAssumption DEF IInv, TypeOK, Content
<1>3. \/ outcome = "stopped" /\ cancelled
      \/ outcome = FileEnds(j)[f] /\ outcome \in {"good", "modified", "failed"}
  <2>1. FileEnds(j)[f] = IF content[j].file[f] \in {"unreadable", "newline"} THEN "failed"
                         ELSE content[j].file[f]
    BY DEF FileEnds
  <2>2. content[j].file[f] # "newline"
    BY DEF IInv, OpenInv, Hash
  <2> QED
    BY <1>2, <2>1, <2>2 DEF Outcomes
<1>4. held' \in Int /\ held' <= Limit
  BY ConstantsAssumption DEF IInv, TypeOK, Hash
<1> QED
  BY <1>1, <1>3, <1>4, FileStepKeeps DEF Hash, FileState

\* The end of a job keeps it.
LEMMA FinishKeeps == ASSUME IInv, NEW j \in Job, Finish(j) PROVE IInv'
<1> DEFINE end == Sum(j, file[j])
           ended == IF cancelled /\ end \in {Good, Modified(j)} THEN Stopped(j) ELSE end
<1>1. /\ UNCHANGED <<listing, content, cancelled, file, held>>
      /\ \A i \in Job \ {j} : job'[i] = job[i]
      /\ job'[j] = ended /\ DOMAIN job' = Job
  BY DEF IInv, TypeOK, Finish
<1>2. job'[j] \in JobEnds(j)
  BY <1>1, SumType DEF JobEnds
<1>3. TypeOK'
  BY <1>1, <1>2 DEF IInv, TypeOK, JobEnds
<1>4. FileInv' /\ OpenInv'
  BY <1>1 DEF IInv, FileInv, OpenInv, Read, FileEnds
<1>5. Sums' = Sums
  BY <1>1 DEF Sums, FileEnds
<1>6. ASSUME ~cancelled PROVE job'[j] = Sums[j]
  <2>1. content[j].lists
    BY <1>6 DEF IInv, JobInv, Finish
  <2>2. \A f \in File : file[j][f] = FileEnds(j)[f]
    BY <1>6 DEF IInv, FileInv, Finish
  <2>3. file[j] = FileEnds(j)
    BY <2>2 DEF IInv, TypeOK, FileEnds
  <2> QED
    BY <1>1, <1>6, <2>1, <2>3 DEF Sums
<1>7. job'[j] # Hashing
  BY <1>2, EndsDiffer
<1>8. JobInv'
  BY <1>1, <1>5, <1>6, <1>7 DEF IInv, JobInv, Ended
<1> QED
  BY <1>3, <1>4, <1>8 DEF IInv

\* Every step keeps it.
LEMMA Step == IInv /\ [Next]_vars => IInv'
<1> SUFFICES ASSUME IInv, [Next]_vars PROVE IInv'
  OBVIOUS
<1>1. CASE Cancel
  BY <1>1, CancelKeeps
<1>2. CASE Refuse \/ Report \/ UNCHANGED vars
  BY <1>2, AnswersKeep
<1>3. ASSUME NEW j \in Job, List(j) \/ Finish(j) PROVE IInv'
  BY <1>3, ListKeeps, FinishKeeps
<1>4. ASSUME NEW j \in Job, NEW f \in File, Acquire(j, f) \/ Hash(j, f) PROVE IInv'
  BY <1>4, AcquireKeeps, HashKeeps
<1> QED
  BY <1>1, <1>2, <1>3, <1>4 DEF Next, Work

\* The types of all variables are right: the states of files and jobs, and the places
\* that are taken, never more than there are.
THEOREM TypeCorrect == Spec => []TypeOK
<1>1. Spec => []IInv
  BY Initial, Step, PTL DEF Spec
<1> QED
  BY <1>1, PTL DEF IInv

-----------------------------------------------------------------------------

\* A total is an answer.
LEMMA TotalType ==
    ASSUME NEW ends, \A j \in Job : ends[j] \in JobEnds(j)
    PROVE  Total(ends) # NoAnswer
<1> DEFINE wrong == {j \in Job : ends[j] # Good}
<1>0. wrong \subseteq Nat
  BY ConstantsAssumption DEF Job
<1> HIDE DEF wrong
<1>1. wrong # {} => First(wrong) \in wrong
  BY <1>0, FirstIsIn, Zenon
<1> USE DEF wrong
<1>2. wrong # {} => ends[First(wrong)] # NoAnswer
  BY <1>1, EndsDiffer
<1> QED
  BY <1>2 DEF Total, Good, NoAnswer

\* Equal results of the jobs give equal totals.
LEMMA SameTotal ==
    ASSUME NEW a, NEW b, \A j \in Job : a[j] = b[j]
    PROVE  Total(a) = Total(b)
<1> DEFINE wrong == {j \in Job : a[j] # Good}
<1>1. wrong = {j \in Job : b[j] # Good}
  BY Zenon
<1>2. CASE wrong = {}
  BY <1>1, <1>2 DEF Total
<1>3. CASE wrong # {}
  <2>0. wrong \subseteq Nat /\ wrong \subseteq Job
    BY ConstantsAssumption DEF Job
  <2> HIDE DEF wrong
  <2>1. First(wrong) \in Job
    BY <1>3, <2>0, FirstIsIn, Zenon
  <2> USE DEF wrong
  <2>2. a[First(wrong)] = b[First(wrong)]
    BY <2>1
  <2>3. Total(a) = a[First(wrong)]
    BY <1>3 DEF Total
  <2>4. Total(b) = b[First(wrong)]
    BY <1>1, <1>3 DEF Total
  <2> QED
    BY <2>2, <2>3, <2>4
<1> QED
  BY <1>2, <1>3

\* The only step that answers gives what is right, unless it is cancelled.
LEMMA ReportTells == IInv /\ Report => Told!Answer
<1> SUFFICES ASSUME IInv, Report PROVE Told!Answer
  OBVIOUS
<1>1. UNCHANGED <<Judgement, cancelled>>
  BY DEF Report, Judgement, Flawed, Total, Sums, FileEnds
<1>2. \A j \in Job : job[j] \in JobEnds(j)
  BY DEF IInv, TypeOK, Report, Ended
<1>3. Total(job) # NoAnswer
  BY <1>2, TotalType
<1>4. CASE cancelled
  BY <1>1, <1>3, <1>4 DEF Report, Told!Answer, Stopped, NoAnswer, Good
<1>5. CASE ~cancelled
  <2>1. \A j \in Job : job[j] = Sums[j]
    BY <1>5 DEF IInv, JobInv, Report
  <2>2. Total(job) = Total(Sums)
    BY <2>1, SameTotal
  <2> QED
    BY <1>1, <1>5, <2>2 DEF Report, Told!Answer, Judgement
<1> QED
  BY <1>4, <1>5

\* A refusal is an answer of OneAnswer.
LEMMA RefuseTells == IInv /\ Refuse => Told!Answer
<1> SUFFICES ASSUME IInv, Refuse PROVE Told!Answer
  OBVIOUS
<1>1. UNCHANGED <<Judgement, cancelled>>
  BY DEF Refuse, Judgement, Flawed, Total, Sums, FileEnds
<1>2. answer' = Judgement /\ answer' \notin {Good, NoAnswer}
  BY DEF Refuse, Judgement, Refused, Good, NoAnswer
<1> QED
  BY <1>1, <1>2 DEF Refuse, Told!Answer

\* The verification implements one answer that depends on the downloads alone: however
\* many workers read however many files in whatever order, and whenever it is cancelled.
THEOREM Implements == Spec => Promised
<1>1. Init => Told!Init
  BY DEF Init, Told!Init
<1>2. IInv /\ [Next]_vars => [Told!Cancel \/ Told!Answer]_<<Judgement, cancelled, answer>>
  <2> SUFFICES ASSUME IInv, [Next]_vars
               PROVE  [Told!Cancel \/ Told!Answer]_<<Judgement, cancelled, answer>>
    OBVIOUS
  <2>1. CASE Refuse
    BY <2>1, RefuseTells
  <2>2. CASE Report
    BY <2>2, ReportTells
  <2>3. UNCHANGED <<listing, content>> => UNCHANGED Judgement
    BY DEF Judgement, Flawed, Total, Sums, FileEnds
  <2>4. CASE Cancel
    BY <2>3, <2>4 DEF Cancel, Told!Cancel
  <2>5. CASE UNCHANGED vars
    BY <2>3, <2>5 DEF vars
  <2>6. ASSUME NEW j \in Job, List(j) \/ Finish(j)
        PROVE  UNCHANGED <<Judgement, cancelled, answer>>
    BY <2>3, <2>6 DEF List, Finish
  <2>7. ASSUME NEW j \in Job, NEW f \in File, Acquire(j, f) \/ Hash(j, f)
        PROVE  UNCHANGED <<Judgement, cancelled, answer>>
    BY <2>3, <2>7 DEF Acquire, Hash
  <2> QED
    BY <2>1, <2>2, <2>4, <2>5, <2>6, <2>7 DEF Next, Work
<1>3. Spec => []IInv
  BY Initial, Step, PTL DEF Spec
<1> QED
  BY <1>1, <1>2, <1>3, PTL DEF Spec, Promised, Told!Spec
=============================================================================
