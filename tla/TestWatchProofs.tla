-------------------------- MODULE TestWatchProofs --------------------------
(***************************************************************************)
(* Proofs about TestWatch, for any number of saves, failed scans and       *)
(* processes, and any versions.                                            *)
(*                                                                         *)
(* Tree says where in proctree.Run processes can be left; Loop ties it to  *)
(* the loop; Fresh orders the versions seen, read and on disk; Owed counts *)
(* the runs that are still to come.                                        *)
(***************************************************************************)
EXTENDS TestWatch, TLAPS

Tree ==
    /\ at \in {"idle", "start", "returned"} => child # "running" /\ group = {}
    /\ at \in {"idle", "start"} => done = "none"
    /\ at \in {"killed", "release"} => child # "running"
    /\ done # "none" => child # "running"

Loop ==
    /\ stage # "testing" => at \in {"idle", "returned"}
    /\ pc = "returned" => stage = "none"

Fresh ==
    /\ disturbed /\ stage # "none" => pending
    /\ stage \in {"testing", "passed", "failed"} /\ ~cancelled => read \in Version
    /\ ~undone =>
        /\ observed <= disk
        /\ read \in Version => read <= disk
        /\ read \in Version /\ stage # "none" /\ ~pending => observed <= read

Owed == runs + (IF pending THEN 1 ELSE 0) + (IF observed # disk THEN 1 ELSE 0)
            <= 2 + scanErrors

Inv == TypeOK /\ Tree /\ Loop /\ Fresh /\ Owed

-----------------------------------------------------------------------------
(* The steps of a run keep the types and the tree in order.                *)

RunStep == P!Step \/ P!Waited \/ P!Processes

\* The steps of a run keep the types of its process tree.
LEMMA TreeTypes ==
    ASSUME P!TypeOK, RunStep
    PROVE  P!TypeOK'
<1>1. CASE P!Step
  BY <1>1 DEF P!TypeOK, P!Step, P!Refuse, P!Accept, P!StartFails, P!Started,
     P!TakeResult, P!TakeCancel, P!Collect, P!Release, P!Return
<1>2. CASE P!Waited
  BY <1>2 DEF P!TypeOK, P!Waited
<1>3. CASE P!Exit
  BY <1>3 DEF P!TypeOK, P!Exit
<1>4. ASSUME NEW h \in Helper, P!Fork(h) \/ P!Detach(h) \/ P!HelperExits(h)
      PROVE  P!TypeOK'
  BY <1>4 DEF P!TypeOK, P!Fork, P!Detach, P!HelperExits
<1>5. QED
  BY <1>1, <1>2, <1>3, <1>4 DEF RunStep, P!Processes

\* They keep what is alive where.
LEMMA TreeKept ==
    ASSUME P!TypeOK, Tree, RunStep
    PROVE  Tree'
<1>1. CASE P!Refuse \/ P!Accept \/ P!StartFails
  BY <1>1 DEF Tree, P!Refuse, P!Accept, P!StartFails, P!Return
<1>2. CASE P!Started
  BY <1>2 DEF Tree, P!Started
<1>3. CASE P!TakeResult
  BY <1>3 DEF Tree, P!TakeResult
<1>4. CASE P!TakeCancel
  BY <1>4 DEF Tree, P!TakeCancel
<1>5. CASE P!Collect
  BY <1>5 DEF Tree, P!Collect
<1>6. CASE P!Release
  BY <1>6 DEF Tree, P!Release
<1>7. CASE P!Waited
  BY <1>7 DEF Tree, P!Waited
<1>8. CASE P!Exit
  BY <1>8 DEF Tree, P!Exit
<1>9. ASSUME NEW h \in Helper, P!Fork(h) \/ P!Detach(h) \/ P!HelperExits(h)
      PROVE  Tree'
  BY <1>9 DEF Tree, P!Fork, P!Detach, P!HelperExits
<1>10. QED
  BY <1>1, <1>2, <1>3, <1>4, <1>5, <1>6, <1>7, <1>8, <1>9
  DEF RunStep, P!Step, P!Processes

-----------------------------------------------------------------------------
(* What a snapshot does.                                                   *)

\* A scan in the loop: it fails, or it leaves nothing unseen, and it only adds to what
\* is due.
Scan == (SeeChange \/ SeeNone) /\ UNCHANGED scanErrors

\* What a scan makes of a change.
LEMMA ScanSees ==
    ASSUME TypeOK, Scan
    PROVE  /\ observed' = disk /\ observed' \in Version
           /\ {pending', quiet', disturbed'} \subseteq BOOLEAN
           /\ pending => pending'
           /\ observed # disk => pending'
           /\ observed = disk => pending' = pending /\ disturbed' = disturbed
           /\ disturbed' /\ ~disturbed => pending'
<1>1. CASE SeeNone
  BY <1>1 DEF TypeOK, SeeNone, Changed
<1>2. CASE SeeChange
  <2>1. disturbed' \in BOOLEAN
    BY <1>2 DEF SeeChange
  <2>2. QED
    BY <1>2, <2>1 DEF TypeOK, SeeChange, Changed
<1>3. QED
  BY <1>1, <1>2 DEF Scan

-----------------------------------------------------------------------------
(* The parts of the invariant, one lemma each.                             *)

\* Every step keeps the types.
LEMMA TypeStep ==
    ASSUME TypeOK, [Next]_vars
    PROVE  TypeOK'
<1> USE ConstantsAssumption
<1> SUFFICES ASSUME Next PROVE TypeOK'
  BY DEF TypeOK, P!TypeOK, vars, world, loop, run, tree
<1>0. P!TypeOK
  BY DEF TypeOK
<1>1. CASE Edit
  BY <1>1 DEF TypeOK, P!TypeOK, Edit, loop, run, tree
<1>2. CASE Cancel
  BY <1>2 DEF TypeOK, P!TypeOK, Cancel, loop, run, tree
<1>3. CASE Elapse
  BY <1>3 DEF TypeOK, P!TypeOK, Elapse, world, run, tree
<1>4. CASE Prepared
  <2>1. P!TypeOK'
    BY <1>4, <1>0 DEF Prepared, P!Again, P!TypeOK, tree
  <2>2. QED
    BY <1>4, <2>1 DEF TypeOK, Prepared, world, loop
<1>5. CASE Aborted
  BY <1>5 DEF TypeOK, P!TypeOK, Aborted, world, loop, tree
<1>6. CASE Testing(P!Step) \/ Testing(P!Waited) \/ Testing(P!Processes)
  <2>1. P!TypeOK'
    BY <1>6, <1>0, TreeTypes DEF Testing, RunStep
  <2>2. QED
    BY <1>6, <2>1 DEF TypeOK, Testing, world, loop, run
<1>7. CASE Reported
  BY <1>7 DEF TypeOK, P!TypeOK, Reported, world, loop, tree
<1>8. CASE Start
  <2>1. P!TypeOK'
    BY <1>8, <1>0 DEF P!TypeOK, Start, tree
  <2>2. {cancelled', pending', quiet', undone', disturbed'} \subseteq BOOLEAN
    BY <1>8 DEF TypeOK, Start, world
  <2>3. QED
    BY <1>8, <2>1, <2>2 DEF TypeOK, Start, world
<1>9. CASE Skip
  BY <1>9 DEF TypeOK, P!TypeOK, Skip, world, run, tree
<1>10. CASE Done
  BY <1>10 DEF TypeOK, P!TypeOK, Done, world, run, tree
<1>11. CASE Tick
  <2>1. P!TypeOK'
    BY <1>11, <1>0 DEF Tick, tree, P!TypeOK
  <2>2. CASE Scan
    BY <1>11, <2>1, <2>2, ScanSees DEF TypeOK, Tick, Scan, run
  <2>3. CASE ScanError /\ UNCHANGED <<observed, pending, quiet, disturbed>>
    BY <1>11, <2>1, <2>3 DEF TypeOK, Tick, ScanError, run
  <2>4. QED
    BY <1>11, <2>2, <2>3 DEF Tick, Scan
<1>12. CASE Result
  <2>1. P!TypeOK'
    BY <1>12, <1>0 DEF Result, tree, P!TypeOK
  <2>2. CASE Scan
    BY <1>12, <2>1, <2>2, ScanSees DEF TypeOK, Result, Scan
  <2>3. CASE ScanError /\ pending' = TRUE /\ quiet' = FALSE
             /\ UNCHANGED <<observed, disturbed>>
    <3>1. {cancelled', pending', quiet', undone', disturbed'} \subseteq BOOLEAN
      BY <1>12, <2>3 DEF TypeOK, Result
    <3>2. {read', shown'} \subseteq Version \cup {None}
      BY <1>12 DEF TypeOK, Result
    <3>3. QED
      BY <1>12, <2>1, <2>3, <3>1, <3>2 DEF TypeOK, Result, ScanError
  <2>4. QED
    BY <1>12, <2>2, <2>3 DEF Result, Scan
<1>13. CASE Await
  BY <1>13 DEF TypeOK, P!TypeOK, Await, world, tree
<1>14. QED
  BY <1>1, <1>2, <1>3, <1>4, <1>5, <1>6, <1>7, <1>8, <1>9, <1>10, <1>11, <1>12, <1>13
  DEF Next

\* Every step keeps what is alive where, and the loop's own state.
LEMMA LoopStep ==
    ASSUME TypeOK, Tree, Loop, [Next]_vars
    PROVE  Tree' /\ Loop'
<1> SUFFICES ASSUME Next PROVE Tree' /\ Loop'
  BY DEF Tree, Loop, vars, loop, run, tree
<1>1. CASE Edit \/ Cancel \/ Elapse
  BY <1>1 DEF Tree, Loop, Edit, Cancel, Elapse, loop, run, tree
<1>2. CASE Prepared
  BY <1>2 DEF Tree, Loop, Prepared, P!Again, loop, tree
<1>3. CASE Aborted
  BY <1>3 DEF Tree, Loop, Aborted, loop, tree
<1>4. CASE Testing(P!Step) \/ Testing(P!Waited) \/ Testing(P!Processes)
  <2>1. Tree'
    BY <1>4, TreeKept DEF Testing, RunStep, TypeOK
  <2>2. QED
    BY <1>4, <2>1 DEF Loop, Testing, loop, run
<1>5. CASE Reported
  BY <1>5 DEF Tree, Loop, Reported, loop, tree
<1>6. CASE Start
  BY <1>6 DEF Tree, Loop, Start, Due, tree
<1>7. CASE Skip \/ Done
  BY <1>7 DEF Tree, Loop, Skip, Done, run, tree
<1>8. CASE Tick
  BY <1>8 DEF Tree, Loop, Tick, run, tree
<1>9. CASE Result
  BY <1>9 DEF Tree, Loop, Result, Sent, tree
<1>10. CASE Await
  BY <1>10 DEF Tree, Loop, Await, Sent, tree
<1>11. QED
  BY <1>1, <1>2, <1>3, <1>4, <1>5, <1>6, <1>7, <1>8, <1>9, <1>10 DEF Next

\* Every step keeps the order of the versions observed, read and on disk.
LEMMA FreshStep ==
    ASSUME TypeOK, Fresh, [Next]_vars
    PROVE  Fresh'
<1> USE ConstantsAssumption
<1> SUFFICES ASSUME Next PROVE Fresh'
  BY DEF Fresh, vars, world, loop, run
<1>1. CASE Edit
  <2>1. disk \in Nat /\ disk' \in Nat /\ observed \in Nat
    BY <1>1 DEF TypeOK, Edit
  <2>2. ~undone' => ~undone /\ disk <= disk'
    <3>1. ~undone' => ~(undone \/ disk' < disk)
      BY <1>1, Zenon DEF Edit
    <3>2. QED
      BY <2>1, <3>1
  <2>3. read \in Version => read \in Nat
    OBVIOUS
  <2>4. UNCHANGED <<observed, pending, disturbed, stage, read, cancelled>>
    BY <1>1 DEF Edit, loop, run
  <2>5. QED
    BY <2>1, <2>2, <2>3, <2>4 DEF Fresh
<1>2. CASE Cancel \/ Elapse
  BY <1>2 DEF TypeOK, Fresh, Cancel, Elapse, loop, world, run
<1>3. CASE Prepared
  BY <1>3 DEF TypeOK, Fresh, Prepared, world, loop
<1>4. CASE Aborted
  BY <1>4 DEF TypeOK, Fresh, Aborted, world, loop
<1>5. CASE Testing(P!Step) \/ Testing(P!Waited) \/ Testing(P!Processes)
  BY <1>5 DEF Fresh, Testing, world, loop, run
<1>6. CASE Reported
  BY <1>6 DEF TypeOK, Fresh, Reported, world, loop
<1>7. CASE Start
  BY <1>7 DEF TypeOK, Fresh, Start, world
<1>8. CASE Skip \/ Done
  BY <1>8 DEF Fresh, Skip, Done, world, run
<1>9. CASE Tick
  <2>1. CASE Scan
    BY <1>9, <2>1, ScanSees DEF TypeOK, Fresh, Tick, run
  <2>2. CASE ScanError /\ UNCHANGED <<observed, pending, quiet, disturbed>>
    BY <1>9, <2>2 DEF Fresh, Tick, run
  <2>3. QED
    BY <1>9, <2>1, <2>2 DEF Tick, Scan
<1>10. CASE Result
  <2>1. observed' = observed \/ observed' = disk
    BY <1>10 DEF Result, SeeChange, SeeNone
  <2>2. QED
    BY <1>10, <2>1 DEF TypeOK, Fresh, Result
<1>11. CASE Await
  BY <1>11 DEF TypeOK, Fresh, Await, world
<1>12. QED
  BY <1>1, <1>2, <1>3, <1>4, <1>5, <1>6, <1>7, <1>8, <1>9, <1>10, <1>11 DEF Next

\* Every step keeps the count of runs that are owed.
LEMMA OwedStep ==
    ASSUME TypeOK, Owed, [Next]_vars
    PROVE  Owed'
<1> USE ConstantsAssumption
<1> SUFFICES ASSUME Next PROVE Owed'
  BY DEF Owed, vars, world, loop
<1>1. CASE Edit
  BY <1>1 DEF TypeOK, Owed, Edit, loop
<1>2. CASE Cancel \/ Elapse
  BY <1>2 DEF Owed, Cancel, Elapse, loop, world
<1>3. CASE Prepared \/ Aborted \/ Reported \/ Skip \/ Done \/ Await
  BY <1>3 DEF Owed, Prepared, Aborted, Reported, Skip, Done, Await, world, loop
<1>4. CASE Testing(P!Step) \/ Testing(P!Waited) \/ Testing(P!Processes)
  BY <1>4 DEF Owed, Testing, world, loop
<1>5. CASE Start
  BY <1>5 DEF TypeOK, Owed, Start, Due, world
<1>6. CASE Tick
  <2>1. CASE Scan
    BY <1>6, <2>1, ScanSees DEF TypeOK, Owed, Tick, Scan
  <2>2. CASE ScanError /\ UNCHANGED <<observed, pending, quiet, disturbed>>
    BY <1>6, <2>2 DEF TypeOK, Owed, Tick, ScanError
  <2>3. QED
    BY <1>6, <2>1, <2>2 DEF Tick, Scan
<1>7. CASE Result
  <2>1. CASE Scan
    BY <1>7, <2>1, ScanSees DEF TypeOK, Owed, Result, Scan
  <2>2. CASE ScanError /\ pending' = TRUE /\ UNCHANGED observed
    BY <1>7, <2>2 DEF TypeOK, Owed, Result, ScanError
  <2>3. QED
    BY <1>7, <2>1, <2>2 DEF Result, Scan
<1>8. QED
  BY <1>1, <1>2, <1>3, <1>4, <1>5, <1>6, <1>7 DEF Next

-----------------------------------------------------------------------------
(* The theorems.                                                           *)

\* The invariant holds at first.
LEMMA InitInv == Init => Inv
<1> USE ConstantsAssumption
<1> SUFFICES ASSUME Init PROVE Inv
  OBVIOUS
<1>1. TypeOK
  BY DEF Init, P!Init, TypeOK, P!TypeOK
<1>2. Tree /\ Loop
  BY DEF Init, P!Init, Tree, Loop
<1>3. Fresh /\ Owed
  BY DEF Init, Fresh, Owed
<1>4. QED
  BY <1>1, <1>2, <1>3 DEF Inv

\* Every step keeps the invariant.
LEMMA NextInv == Inv /\ [Next]_vars => Inv'
BY TypeStep, LoopStep, FreshStep, OwedStep DEF Inv

\* The inductive invariant of a test session (tests.go:41-129).
THEOREM Invariant == Spec => []Inv
BY InitInv, NextInv, PTL DEF Spec

\* Every variable of the loop, the run and the process tree keeps its type.
THEOREM TypeCorrect == Spec => []TypeOK
<1>1. Inv => TypeOK
  BY DEF Inv
<1>2. QED
  BY <1>1, Invariant, PTL

\* When Tests has returned, no process of a run is left in its group.
THEOREM NothingLeft == Spec => []CleanReturn
<1>1. Inv => CleanReturn
  BY DEF Inv, Loop, Tree, CleanReturn
<1>2. QED
  BY <1>1, Invariant, PTL

\* After the last save at most two runs start, and one for each failed scan.
THEOREM FewRuns == Spec => []RunsBounded
<1>1. Inv => RunsBounded
  BY DEF Inv, Owed, RunsBounded, TypeOK
<1>2. QED
  BY <1>1, Invariant, PTL

\* No run starts beside what is left of an earlier one.
THEOREM OneAtATime == Spec => Serialized
<1>1. Inv /\ [Next]_vars => [StartStep]_vars
  <2> SUFFICES ASSUME Inv, stage = "none" PROVE child # "running" /\ group = {}
    BY DEF StartStep
  <2>1. QED
    BY DEF Inv, Loop, Tree
<1>2. QED
  BY <1>1, Invariant, PTL DEF Spec, Serialized

\* A verdict is printed only if no poll saw a change during the run, and, unless a save
\* was undone, it is about the version on disk.
THEOREM UpToDate == Spec => CurrentVerdict
<1>1. Inv /\ [Next]_vars => [VerdictStep]_vars
  <2> USE ConstantsAssumption
  <2> SUFFICES ASSUME Inv, Next, pc = "select", Sent, stage' = "none", ~pending',
                      ~cancelled
               PROVE  ~disturbed /\ (undone \/ read = disk)
    BY DEF VerdictStep
  <2>1. CASE Result
    <3>1. Scan
      BY <2>1 DEF Result, Scan
    <3>2. observed = disk /\ ~pending
      BY <3>1, ScanSees DEF Inv, TypeOK
    <3>3. ~disturbed /\ read \in Version
      BY <3>2 DEF Inv, Fresh, Sent
    <3>4. ~undone => read <= disk /\ observed <= read
      BY <3>2, <3>3 DEF Inv, Fresh, Sent
    <3>5. QED
      BY <3>2, <3>3, <3>4 DEF Inv, TypeOK
  <2>2. CASE Next /\ ~Result
    <3>1. stage' = stage \/ stage' \in {"preparing", "testing", "failed", "passed"}
          \/ pc = "await"
      BY <2>2 DEF Next, Edit, Cancel, Elapse, Prepared, Aborted, Testing, Reported,
         Start, Skip, Done, Tick, Await, run
    <3>2. QED
      BY <3>1 DEF Sent
  <2>3. QED
    BY <2>1, <2>2
<1>2. QED
  BY <1>1, Invariant, PTL DEF Spec, CurrentVerdict
=============================================================================
