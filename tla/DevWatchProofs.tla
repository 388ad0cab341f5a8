--------------------------- MODULE DevWatchProofs ---------------------------
(***************************************************************************)
(* Proofs about DevWatch, for any number of saves and versions.            *)
(***************************************************************************)
EXTENDS DevWatch, TLAPS

-----------------------------------------------------------------------------
(* The inductive invariant.                                                *)

\* The invariant holds at first.
LEMMA InitInv == Init => Inv
<1> SUFFICES ASSUME Init PROVE Inv
  OBVIOUS
<1>1. TypeOK
  BY ConstantsAssumption DEF Init, TypeOK, Pcs
<1>2. FreshInv
  BY <1>1, ConstantsAssumption DEF Init, FreshInv, TypeOK
<1>3. ChildInv /\ PathInv /\ StagingInv /\ FewExecutables
  BY ConstantsAssumption DEF Init, ChildInv, PathInv, StagingInv, FewExecutables
<1>4. MetadataInv
  BY DEF Init, MetadataInv, MetadataKept
<1>q. QED
  BY <1>1, <1>2, <1>3, <1>4 DEF Inv

\* The executable of a build in flight.
LEMMA AppFacts ==
    ASSUME TypeOK, build # None
    PROVE  /\ build \in Build
           /\ App \in Exe /\ App # None
           /\ App.path = build.path /\ App.version = build.read
BY ConstantsAssumption DEF TypeOK, App, Build, Exe

\* What may go wrong stays the same.
LEMMA FaultsStay ==
    ASSUME [Next]_vars
    PROVE  faults' = faults /\ (Reverts' <=> Reverts) /\ (NoneLeft' <=> NoneLeft)
<1>1. faults' = faults
  BY DEF Next, vars, world, Edit, Cancel, Elapse, ChildExits, BuildReads, BuildEnds,
         BuildAborts, Top, Exited, Result, ResultUnscanned, ResultOutdated, ResultFailed,
         ResultAccepted, ScanFails, Tick, Stop, StopOld, StopLast, StartNew, Done,
         AwaitBuild, RemoveStaging
<1>q. QED
  BY <1>1 DEF Reverts, NoneLeft

\* Metadata is written by builds alone, each under a path of its own, and goes with the
\* whole staging directory; a build that is accepted has written it.
LEMMA MetadataNext ==
    ASSUME Inv, [Next]_vars
    PROVE  MetadataInv' /\ metadata' \subseteq Nat
<1> USE ConstantsAssumption
<1>0. TypeOK /\ ChildInv /\ MetadataInv /\ faults' = faults
  BY FaultsStay DEF Inv
<1>1. sequence \in Nat /\ metadata \subseteq Nat
  BY <1>0 DEF TypeOK
<1>2. CASE BuildEnds
  <2>1. PICK ok \in BOOLEAN, described \in BOOLEAN :
           /\ described => faults.debug
           /\ ok => (faults.debug => described)
           /\ build' = [build EXCEPT !.stage = "done", !.ok = ok]
           /\ metadata' = IF described THEN metadata \cup {build.path} ELSE metadata
    BY <1>2 DEF BuildEnds
  <2>2. build # None /\ build \in Build /\ UNCHANGED <<pc, sequence, running, next>>
    BY <1>0, <1>2 DEF BuildEnds, loop, TypeOK
  <2>3. build'.ok = ok /\ build'.path = build.path
    BY <2>1, <2>2 DEF Build
  <2>4. MetadataKept'
    BY <1>0, <2>1, <2>2 DEF MetadataInv, MetadataKept, InLoop
  <2>5. metadata' \subseteq Nat
    BY <1>0, <1>1, <2>1, <2>2 DEF MetadataInv
  <2>q. QED
    BY <1>0, <2>1, <2>2, <2>3, <2>4, <2>5 DEF MetadataInv
<1>3. CASE Top
  <2>1. UNCHANGED <<metadata, running, next>> /\ InLoop
    BY <1>3 DEF Top, InLoop, files
  <2>2. CASE BuildDue
    <3>1. /\ sequence' = sequence + 1
          /\ build' = [stage |-> "reading", path |-> sequence + 1,
                       source |-> observed, generation |-> generation,
                       read |-> observed, ok |-> FALSE, disturbed |-> FALSE]
      BY <1>3, <2>2, Zenon DEF Top
    <3>2. build'.path = sequence + 1 /\ ~build'.ok
      BY <3>1
    <3>q. QED
      BY <1>0, <1>1, <2>1, <3>1, <3>2 DEF MetadataInv, MetadataKept
  <2>3. CASE ~BuildDue
    <3>1. UNCHANGED <<sequence, build>>
      BY <1>3, <2>3 DEF Top
    <3>q. QED
      BY <1>0, <1>1, <2>1, <3>1 DEF MetadataInv, MetadataKept
  <2>q. QED
    BY <2>2, <2>3
<1>4. CASE ResultAccepted
  <2>1. /\ build # None /\ build.ok /\ build' = None /\ next' = App /\ InLoop
        /\ UNCHANGED <<metadata, running, sequence>>
    BY <1>4 DEF ResultAccepted, ResultReady, InLoop, files
  <2>2. App.path = build.path
    BY DEF App
  <2>q. QED
    BY <1>0, <1>1, <2>1, <2>2 DEF MetadataInv, MetadataKept
<1>5. CASE Tick
  <2>1. /\ UNCHANGED <<metadata, running, next, sequence>>
        /\ build = None <=> build' = None
        /\ build # None => build'.path = build.path /\ build'.ok = build.ok
        /\ InLoop
    BY ZenonT(30), <1>0, <1>5, AppFacts DEF Tick, files, InLoop, Build
  <2>q. QED
    BY <1>0, <1>1, <2>1 DEF MetadataInv, MetadataKept
<1>6. CASE BuildReads \/ BuildAborts
  <2>1. /\ UNCHANGED <<metadata, running, next, sequence, pc>>
        /\ build # None /\ build \in Build
        /\ build'.path = build.path
        /\ build'.ok => build.ok
    BY <1>0, <1>6 DEF BuildReads, BuildAborts, files, loop, TypeOK, Build
  <2>q. QED
    BY <1>0, <1>1, <2>1 DEF MetadataInv, MetadataKept, InLoop
<1>7. CASE RemoveStaging
  <2>1. UNCHANGED <<sequence, build>> /\ metadata' \subseteq metadata /\ ~InLoop'
    BY <1>7 DEF RemoveStaging, InLoop, loop
  <2>2. build = None
    BY <1>0, <1>7 DEF RemoveStaging, ChildInv
  <2>q. QED
    BY <1>0, <1>1, <2>1, <2>2 DEF MetadataInv, MetadataKept
<1>8. CASE \/ Edit \/ Cancel \/ Elapse \/ \E a \in apps : ChildExits(a)
           \/ Exited \/ ResultUnscanned \/ ResultOutdated \/ ResultFailed \/ Stop
           \/ StartNew \/ Done \/ AwaitBuild \/ UNCHANGED vars
  <2>1. /\ UNCHANGED <<metadata, sequence>>
        /\ build' = build \/ build' = None
        /\ running' \in {running, next, None} /\ next' \in {next, None}
        /\ InLoop' => InLoop
    BY <1>8
       DEF Edit, Cancel, Elapse, ChildExits, Exited, Remove, ResultReady,
           ResultUnscanned, ResultOutdated, ResultFailed, Discard, Stop, StopOld,
           StopLast, StartNew, Done, AwaitBuild, vars, files, loop, InLoop
  <2>q. QED
    BY <1>0, <1>1, <2>1 DEF MetadataInv, MetadataKept
<1>q. QED
  BY <1>2, <1>3, <1>4, <1>5, <1>6, <1>7, <1>8 DEF Next, Result

\* Each step of the world, of the build or of the loop preserves each part.
LEMMA NextInv == Inv /\ [Next]_vars => Inv'
<1> USE ConstantsAssumption
<1> SUFFICES ASSUME Inv, [Next]_vars PROVE Inv'
  OBVIOUS
<1>0. /\ TypeOK /\ ChildInv /\ FreshInv /\ PathInv /\ StagingInv /\ FewExecutables
      /\ faults' = faults /\ (Reverts' <=> Reverts) /\ (NoneLeft' <=> NoneLeft)
      /\ MetadataInv' /\ metadata' \subseteq Nat
  BY FaultsStay, MetadataNext DEF Inv
<1>1. CASE Edit
  <2>1. TypeOK'
    BY <1>0, <1>1
       DEF Edit, world, loop, files, TypeOK, Exe, Build, Pcs, App
  <2>2. ChildInv'
    BY <1>0, <1>1
       DEF Edit, world, loop, files, TypeOK, Exe, Build, ChildInv
  <2>3. FreshInv'
    <3>1. ~Reverts => disk' > disk
      BY <1>1 DEF Edit
    <3>2. disk' \in Nat /\ disk \in Nat /\ observed \in Nat
      BY <1>0, <1>1 DEF Edit, TypeOK
    <3>3. UNCHANGED <<observed, generation, build>>
      BY <1>1 DEF Edit, loop
    <3>4. build # None => build.source \in Nat /\ build.read \in Nat
      BY <1>0 DEF TypeOK, Build
    <3>5. ~Reverts => observed <= disk'
      BY <1>0, <3>1, <3>2 DEF FreshInv
    <3>6. build # None /\ ~Reverts => build.source <= disk'
      BY <1>0, <3>1, <3>2, <3>4 DEF FreshInv
    <3>7. build # None /\ ~Reverts /\ build.stage # "reading" =>
             build.source <= build.read /\ build.read <= disk'
      BY <1>0, <3>1, <3>2, <3>4 DEF FreshInv
    <3>q. QED
      BY <1>0, <3>3, <3>5, <3>6, <3>7 DEF FreshInv
  <2>4. PathInv'
    BY <1>0, <1>1
       DEF Edit, world, loop, files, TypeOK, Exe, Build, PathInv, ChildInv, App
  <2>5. StagingInv'
    BY <1>0, <1>1
       DEF Edit, world, loop, files, TypeOK, Exe, Build, StagingInv, PathInv,
           ChildInv, App, InLoop
  <2>6. FewExecutables'
    BY <1>0, <1>1
       DEF Edit, world, loop, files, TypeOK, Exe, Build, StagingInv,
           FewExecutables, PathInv, ChildInv, App, InLoop
  <2>q. QED
    BY <1>0, <2>1, <2>2, <2>3, <2>4, <2>5, <2>6 DEF Inv
<1>2. CASE Cancel
  <2>1. TypeOK'
    BY <1>0, <1>2
       DEF Cancel, world, loop, files, TypeOK, Exe, Build, Pcs, App
  <2>2. ChildInv'
    BY <1>0, <1>2
       DEF Cancel, world, loop, files, TypeOK, Exe, Build, ChildInv
  <2>3. FreshInv'
    BY <1>0, <1>2
       DEF Cancel, world, loop, files, TypeOK, Exe, Build, FreshInv, ChildInv
  <2>4. PathInv'
    BY <1>0, <1>2
       DEF Cancel, world, loop, files, TypeOK, Exe, Build, PathInv, ChildInv, App
  <2>5. StagingInv'
    BY <1>0, <1>2
       DEF Cancel, world, loop, files, TypeOK, Exe, Build, StagingInv, PathInv,
           ChildInv, App, InLoop
  <2>6. FewExecutables'
    BY <1>0, <1>2
       DEF Cancel, world, loop, files, TypeOK, Exe, Build, StagingInv,
           FewExecutables, PathInv, ChildInv, App, InLoop
  <2>q. QED
    BY <1>0, <2>1, <2>2, <2>3, <2>4, <2>5, <2>6 DEF Inv
<1>3. CASE Elapse
  <2>1. TypeOK'
    BY <1>0, <1>3
       DEF Elapse, world, loop, files, TypeOK, Exe, Build, Pcs, App
  <2>2. ChildInv'
    BY <1>0, <1>3
       DEF Elapse, world, loop, files, TypeOK, Exe, Build, ChildInv
  <2>3. FreshInv'
    BY <1>0, <1>3
       DEF Elapse, world, loop, files, TypeOK, Exe, Build, FreshInv, ChildInv
  <2>4. PathInv'
    BY <1>0, <1>3
       DEF Elapse, world, loop, files, TypeOK, Exe, Build, PathInv, ChildInv, App
  <2>5. StagingInv'
    BY <1>0, <1>3
       DEF Elapse, world, loop, files, TypeOK, Exe, Build, StagingInv, PathInv,
           ChildInv, App, InLoop
  <2>6. FewExecutables'
    BY <1>0, <1>3
       DEF Elapse, world, loop, files, TypeOK, Exe, Build, StagingInv,
           FewExecutables, PathInv, ChildInv, App, InLoop
  <2>q. QED
    BY <1>0, <2>1, <2>2, <2>3, <2>4, <2>5, <2>6 DEF Inv
<1>4. CASE BuildReads
  <2>1. TypeOK'
    BY <1>0, <1>4
       DEF BuildReads, world, loop, files, TypeOK, Exe, Build, Pcs, App
  <2>2. ChildInv'
    BY <1>0, <1>4
       DEF BuildReads, world, loop, files, TypeOK, Exe, Build, ChildInv
  <2>3. FreshInv'
    BY <1>0, <1>4
       DEF BuildReads, world, loop, files, TypeOK, Exe, Build, FreshInv, ChildInv
  <2>4. PathInv'
    BY <1>0, <1>4
       DEF BuildReads, world, loop, files, TypeOK, Exe, Build, PathInv, ChildInv, App
  <2>5. StagingInv'
    BY <1>0, <1>4
       DEF BuildReads, world, loop, files, TypeOK, Exe, Build, StagingInv,
           PathInv, ChildInv, App, InLoop
  <2>6. FewExecutables'
    BY <1>0, <1>4
       DEF BuildReads, world, loop, files, TypeOK, Exe, Build, StagingInv,
           FewExecutables, PathInv, ChildInv, App, InLoop
  <2>q. QED
    BY <1>0, <2>1, <2>2, <2>3, <2>4, <2>5, <2>6 DEF Inv
<1>5. CASE BuildEnds
  <2>1. TypeOK'
    <3>1. PICK ok \in BOOLEAN :
             /\ build' = [build EXCEPT !.stage = "done", !.ok = ok]
             /\ staging' \in {staging, staging \cup {App}}
      BY <1>5 DEF BuildEnds
    <3>2. build' \in Build /\ staging' \subseteq Exe
      BY <1>0, <1>5, <3>1, AppFacts DEF BuildEnds, TypeOK, Build
    <3>q. QED
      BY <1>0, <1>5, <3>2 DEF BuildEnds, TypeOK, world, loop, files
  <2>2. ChildInv'
    BY <1>0, <1>5
       DEF BuildEnds, world, loop, files, TypeOK, Exe, Build, ChildInv
  <2>3. FreshInv'
    BY <1>0, <1>5
       DEF BuildEnds, world, loop, files, TypeOK, Exe, Build, FreshInv, ChildInv
  <2>4. PathInv'
    BY <1>0, <1>5
       DEF BuildEnds, world, loop, files, TypeOK, Exe, Build, PathInv, ChildInv, App
  <2>5. StagingInv'
    <3>1. PICK ok \in BOOLEAN, installed \in BOOLEAN :
             /\ ok => installed
             /\ installed => build.read \notin Broken /\ (ok \/ faults.metadata)
             /\ build' = [build EXCEPT !.stage = "done", !.ok = ok]
             /\ staging' = IF installed THEN staging \cup {App} ELSE staging
      BY <1>5 DEF BuildEnds
    <3>2. build \in Build /\ ~build.ok
      BY <1>0, <1>5, AppFacts DEF BuildEnds, StagingInv
    <3>3. build'.ok = ok /\ build'.stage = "done" /\ build'.read = build.read
          /\ build'.path = build.path
      BY <3>1, <3>2 DEF Build
    <3>4. App' = App
      BY <3>3 DEF App
    <3>5. UNCHANGED <<pc, running, next>>
      BY <1>5 DEF BuildEnds
    <3>6. ok => App' \in staging' /\ build'.read \notin Broken
      BY <3>1, <3>3, <3>4
    <3>7. pc' = "stop" => next' \in staging' /\ next'.version \notin Broken
      BY <1>0, <3>1, <3>5 DEF StagingInv
    <3>8. InLoop' /\ NoneLeft /\ ~ok =>
             staging' \subseteq {running, next}'
      BY <1>0, <3>1, <3>2, <3>5 DEF StagingInv, InLoop, NoneLeft
    <3>9. build' # None
      BY <3>1, <3>2 DEF Build
    <3>q. QED
      BY <1>0, <3>3, <3>6, <3>7, <3>8, <3>9 DEF StagingInv
  <2>6. FewExecutables'
    <3>1. /\ build' # None
          /\ build'.read = build.read /\ build'.path = build.path
          /\ staging' \subseteq staging \cup {App}
          /\ UNCHANGED <<pc, running, next>>
      BY <1>0, <1>5, AppFacts DEF BuildEnds, Build
    <3>2. App' = App
      BY <3>1 DEF App
    <3>3. InLoop' /\ NoneLeft => staging \subseteq {running, next, App}
      BY <1>0, <1>5, <3>1 DEF FewExecutables, InLoop, BuildEnds
    <3>q. QED
      BY <1>0, <3>1, <3>2, <3>3 DEF FewExecutables
  <2>q. QED
    BY <1>0, <2>1, <2>2, <2>3, <2>4, <2>5, <2>6 DEF Inv
<1>6. CASE BuildAborts
  <2>1. TypeOK'
    BY ZenonT(30), <1>0, <1>6
       DEF BuildAborts, world, loop, files, TypeOK, Exe, Build, Pcs, App
  <2>2. ChildInv'
    BY <1>0, <1>6
       DEF BuildAborts, world, loop, files, TypeOK, Exe, Build, ChildInv
  <2>3. FreshInv'
    BY <1>0, <1>6
       DEF BuildAborts, world, loop, files, TypeOK, Exe, Build, FreshInv, ChildInv
  <2>4. PathInv'
    BY <1>0, <1>6
       DEF BuildAborts, world, loop, files, TypeOK, Exe, Build, PathInv, ChildInv, App
  <2>5. StagingInv'
    BY <1>0, <1>6
       DEF BuildAborts, world, loop, files, TypeOK, Exe, Build, StagingInv,
           PathInv, ChildInv, App, InLoop
  <2>6. FewExecutables'
    BY <1>0, <1>6
       DEF BuildAborts, world, loop, files, TypeOK, Exe, Build, StagingInv,
           FewExecutables, PathInv, ChildInv, App, InLoop
  <2>q. QED
    BY <1>0, <2>1, <2>2, <2>3, <2>4, <2>5, <2>6 DEF Inv
<1>7. CASE Top
  <2>1. TypeOK'
    <3>1. CASE BuildDue
      <4>1. build' = [stage |-> "reading", path |-> sequence + 1,
                      source |-> observed, generation |-> generation,
                      read |-> observed, ok |-> FALSE, disturbed |-> FALSE]
        BY <1>7, <3>1, Zenon DEF Top
      <4>2. build' \in Build
        BY <1>0, <4>1 DEF TypeOK, Build
      <4>3. /\ pc' = "select"
            /\ UNCHANGED <<disk, edits, scanErrors, cancelled, observed, generation,
                           quiet, running, next, staging, apps, judged>>
        BY <1>7 DEF Top, world, files
      <4>4. ~pending' /\ sequence' = sequence + 1
        BY <1>7, <3>1, Zenon DEF Top
      <4>5. pending' \in BOOLEAN
        BY <1>7, <3>1, Zenon DEF Top
      <4>6. sequence' \in Nat
        BY <1>0, <4>4 DEF TypeOK
      <4>q. QED
        BY <1>0, <4>2, <4>3, <4>5, <4>6 DEF TypeOK, Pcs
    <3>2. CASE ~BuildDue
      BY <1>0, <1>7, <3>2 DEF Top, TypeOK, Pcs, world, files
    <3>q. QED
      BY <3>1, <3>2
  <2>2. ChildInv'
    BY <1>0, <1>7
       DEF Top, BuildDue, world, loop, files, TypeOK, Exe, Build, ChildInv
  <2>3. FreshInv'
    BY <1>0, <1>7
       DEF Top, BuildDue, world, loop, files, TypeOK, Exe, Build, FreshInv, ChildInv
  <2>4. PathInv'
    BY <1>0, <1>7
       DEF Top, BuildDue, world, loop, files, TypeOK, Exe, Build, PathInv, ChildInv, App
  <2>5. StagingInv'
    BY <1>0, <1>7
       DEF Top, BuildDue, world, loop, files, TypeOK, Exe, Build, StagingInv,
           PathInv, ChildInv, App, InLoop
  <2>6. FewExecutables'
    BY <1>0, <1>7
       DEF Top, BuildDue, world, loop, files, TypeOK, Exe, Build, StagingInv,
           FewExecutables, PathInv, ChildInv, App, InLoop
  <2>q. QED
    BY <1>0, <2>1, <2>2, <2>3, <2>4, <2>5, <2>6 DEF Inv
<1>8. CASE Exited
  <2>1. TypeOK'
    BY <1>0, <1>8
       DEF Exited, Remove, world, loop, files, TypeOK, Exe, Build, Pcs, App
  <2>2. ChildInv'
    BY <1>0, <1>8
       DEF Exited, Remove, world, loop, files, TypeOK, Exe, Build, ChildInv
  <2>3. FreshInv'
    BY <1>0, <1>8
       DEF Exited, Remove, world, loop, files, TypeOK, Exe, Build, FreshInv, ChildInv
  <2>4. PathInv'
    BY <1>0, <1>8
       DEF Exited, Remove, world, loop, files, TypeOK, Exe, Build, PathInv, ChildInv, App
  <2>5. StagingInv'
    BY <1>0, <1>8
       DEF Exited, Remove, NoneLeft, world, loop, files, TypeOK, Exe, Build,
           StagingInv, PathInv, ChildInv, App, InLoop
  <2>6. FewExecutables'
    BY <1>0, <1>8
       DEF Exited, Remove, NoneLeft, world, loop, files, TypeOK, Exe, Build, StagingInv,
           FewExecutables, PathInv, ChildInv, App, InLoop
  <2>q. QED
    BY <1>0, <2>1, <2>2, <2>3, <2>4, <2>5, <2>6 DEF Inv
<1>9. CASE ResultUnscanned
  <2>1. TypeOK'
    <3>1. scanErrors' \in Nat
      BY <1>0, <1>9 DEF ResultUnscanned, ScanFails, TypeOK
    <3>2. staging' \subseteq Exe
      BY <1>0, <1>9 DEF ResultUnscanned, Discard, Remove, TypeOK
    <3>q. QED
      BY <1>0, <1>9, <3>1, <3>2
         DEF ResultUnscanned, ScanFails, Discard, Remove, TypeOK, Pcs
  <2>2. ChildInv'
    BY <1>0, <1>9
       DEF ResultUnscanned, ResultReady, ScanFails, Discard, Remove, world, loop, files,
           TypeOK, Exe, Build, ChildInv
  <2>3. FreshInv'
    BY <1>0, <1>9
       DEF ResultUnscanned, ResultReady, ScanFails, Discard, Remove, world, loop, files,
           TypeOK, Exe, Build, FreshInv, ChildInv
  <2>4. PathInv'
    BY <1>0, <1>9
       DEF ResultUnscanned, ResultReady, ScanFails, Discard, Remove, world, loop, files,
           TypeOK, Exe, Build, PathInv, ChildInv, App
  <2>5. StagingInv'
    <3>1. /\ build # None /\ build' = None
          /\ pc = "select" /\ pc' = "top"
          /\ staging' \subseteq staging
          /\ ~faults.remove => staging' = staging \ {App}
          /\ UNCHANGED <<running, next>>
      BY <1>9 DEF ResultUnscanned, ResultReady, Discard, Remove
    <3>2. InLoop /\ NoneLeft =>
             staging \subseteq {running, next, App}
      BY <1>0, <3>1 DEF FewExecutables
    <3>q. QED
      BY <1>0, <3>1, <3>2 DEF StagingInv, InLoop, NoneLeft
  <2>6. FewExecutables'
    BY <1>0, <1>9
       DEF ResultUnscanned, ResultReady, ScanFails, Discard, Remove, NoneLeft, world,
           loop, files, TypeOK, Exe, Build, StagingInv, FewExecutables, PathInv,
           ChildInv, App, InLoop
  <2>q. QED
    BY <1>0, <2>1, <2>2, <2>3, <2>4, <2>5, <2>6 DEF Inv
<1>10. CASE ResultOutdated
  <2>1. TypeOK'
    BY <1>0, <1>10
       DEF ResultOutdated, ResultReady, Outdated, Snapshot, Discard, Remove,
           world, loop, files, TypeOK, Exe, Build, Pcs, App
  <2>2. ChildInv'
    BY <1>0, <1>10
       DEF ResultOutdated, ResultReady, Outdated, Snapshot, Discard, Remove,
           world, loop, files, TypeOK, Exe, Build, ChildInv
  <2>3. FreshInv'
    BY <1>0, <1>10
       DEF ResultOutdated, ResultReady, Outdated, Snapshot, Discard, Remove,
           world, loop, files, TypeOK, Exe, Build, FreshInv, ChildInv
  <2>4. PathInv'
    BY <1>0, <1>10
       DEF ResultOutdated, ResultReady, Outdated, Snapshot, Discard, Remove,
           world, loop, files, TypeOK, Exe, Build, PathInv, ChildInv, App
  <2>5. StagingInv'
    <3>1. /\ build # None /\ build' = None
          /\ pc = "select" /\ pc' = "top"
          /\ staging' \subseteq staging
          /\ ~faults.remove => staging' = staging \ {App}
          /\ UNCHANGED <<running, next>>
      BY <1>10 DEF ResultOutdated, ResultReady, Discard, Remove
    <3>2. InLoop /\ NoneLeft =>
             staging \subseteq {running, next, App}
      BY <1>0, <3>1 DEF FewExecutables
    <3>q. QED
      BY <1>0, <3>1, <3>2 DEF StagingInv, InLoop, NoneLeft
  <2>6. FewExecutables'
    BY <1>0, <1>10
       DEF ResultOutdated, ResultReady, Outdated, Snapshot, Discard, Remove, NoneLeft,
           world, loop, files, TypeOK, Exe, Build, StagingInv, FewExecutables,
           PathInv, ChildInv, App, InLoop
  <2>q. QED
    BY <1>0, <2>1, <2>2, <2>3, <2>4, <2>5, <2>6 DEF Inv
<1>11. CASE ResultFailed
  <2>1. TypeOK'
    BY <1>0, <1>11
       DEF ResultFailed, ResultReady, Outdated, Snapshot, world, loop, files,
           TypeOK, Exe, Build, Pcs, App
  <2>2. ChildInv'
    BY <1>0, <1>11
       DEF ResultFailed, ResultReady, Outdated, Snapshot, world, loop, files,
           TypeOK, Exe, Build, ChildInv
  <2>3. FreshInv'
    BY <1>0, <1>11
       DEF ResultFailed, ResultReady, Outdated, Snapshot, world, loop, files,
           TypeOK, Exe, Build, FreshInv, ChildInv
  <2>4. PathInv'
    BY <1>0, <1>11
       DEF ResultFailed, ResultReady, Outdated, Snapshot, world, loop, files,
           TypeOK, Exe, Build, PathInv, ChildInv, App
  <2>5. StagingInv'
    BY <1>0, <1>11
       DEF ResultFailed, ResultReady, Outdated, Snapshot, world, loop, files,
           TypeOK, Exe, Build, StagingInv, PathInv, ChildInv, App, InLoop
  <2>6. FewExecutables'
    BY <1>0, <1>11
       DEF ResultFailed, ResultReady, Outdated, Snapshot, world, loop, files,
           TypeOK, Exe, Build, StagingInv, FewExecutables, PathInv,
           ChildInv, App, InLoop
  <2>q. QED
    BY <1>0, <2>1, <2>2, <2>3, <2>4, <2>5, <2>6 DEF Inv
<1>12. CASE ResultAccepted
  <2>1. TypeOK'
    BY <1>0, <1>12
       DEF ResultAccepted, ResultReady, Outdated, Snapshot, world, loop, files,
           TypeOK, Exe, Build, Pcs, App
  <2>2. ChildInv'
    <3>1. App # None
      BY <1>0, <1>12, AppFacts DEF ResultAccepted, ResultReady
    <3>q. QED
      BY <1>0, <1>12, <3>1 DEF ResultAccepted, ResultReady, ChildInv
  <2>3. FreshInv'
    BY <1>0, <1>12
       DEF ResultAccepted, ResultReady, Outdated, Snapshot, world, loop, files,
           TypeOK, Exe, Build, FreshInv, ChildInv
  <2>4. PathInv'
    BY <1>0, <1>12
       DEF ResultAccepted, ResultReady, Outdated, Snapshot, world, loop, files,
           TypeOK, Exe, Build, PathInv, ChildInv, App
  <2>5. StagingInv'
    <3>1. /\ build # None /\ build.ok /\ build' = None
          /\ pc = "select" /\ pc' = "stop" /\ next' = App
          /\ UNCHANGED <<running, staging>>
      BY <1>12 DEF ResultAccepted, ResultReady, files
    <3>2. App \in staging /\ App.version \notin Broken
      BY <1>0, <3>1, AppFacts DEF StagingInv
    <3>3. InLoop /\ NoneLeft =>
             staging \subseteq {running, next, App}
      BY <1>0, <3>1 DEF FewExecutables
    <3>4. next = None /\ None \notin staging
      BY <1>0, <3>1 DEF ChildInv, TypeOK
    <3>q. QED
      BY <1>0, <3>1, <3>2, <3>3, <3>4 DEF StagingInv, InLoop
  <2>6. FewExecutables'
    BY <1>0, <1>12
       DEF ResultAccepted, ResultReady, Outdated, Snapshot, world, loop, files,
           TypeOK, Exe, Build, StagingInv, FewExecutables, PathInv,
           ChildInv, App, InLoop
  <2>q. QED
    BY <1>0, <2>1, <2>2, <2>3, <2>4, <2>5, <2>6 DEF Inv
<1>13. CASE Tick
  <2>1. TypeOK'
    <3>1. build' \in Build \cup {None}
      BY <1>0, <1>13 DEF Tick, TypeOK, Build
    <3>2. scanErrors' \in Nat /\ generation' \in Nat /\ observed' \in Versions
      BY <1>0, <1>13 DEF Tick, ScanFails, Snapshot, TypeOK, world
    <3>q. QED
      BY <1>0, <1>13, <3>1, <3>2 DEF Tick, ScanFails, TypeOK, Pcs, world, files
  <2>2. ChildInv'
    BY <1>0, <1>13
       DEF Tick, ScanFails, Snapshot, world, loop, files, TypeOK, Exe, Build, ChildInv
  <2>3. FreshInv'
    BY <1>0, <1>13
       DEF Tick, ScanFails, Snapshot, world, loop, files, TypeOK, Exe, Build,
           FreshInv, ChildInv
  <2>4. PathInv'
    BY <1>0, <1>13
       DEF Tick, ScanFails, Snapshot, world, loop, files, TypeOK, Exe, Build,
           PathInv, ChildInv, App
  <2>5. StagingInv'
    <3>1. /\ build = None <=> build' = None
          /\ build # None => /\ build'.stage = build.stage /\ build'.ok = build.ok
                             /\ build'.read = build.read
                             /\ build'.path = build.path
      BY ZenonT(30), <1>0, <1>13, AppFacts DEF Tick, Build
    <3>2. build # None => App' = App
      BY <3>1 DEF App
    <3>3. pc = "select" /\ pc' = "top" /\ UNCHANGED <<running, next, staging>>
      BY <1>13 DEF Tick, files
    <3>q. QED
      BY <1>0, <3>1, <3>2, <3>3 DEF StagingInv, InLoop
  <2>6. FewExecutables'
    <3>1. /\ build = None <=> build' = None
          /\ build # None => /\ build'.stage = build.stage /\ build'.ok = build.ok
                             /\ build'.read = build.read
                             /\ build'.path = build.path
      BY ZenonT(30), <1>0, <1>13, AppFacts DEF Tick, Build
    <3>2. build # None => App' = App
      BY <3>1 DEF App
    <3>3. pc = "select" /\ pc' = "top" /\ UNCHANGED <<running, next, staging>>
      BY <1>13 DEF Tick, files
    <3>q. QED
      BY <1>0, <3>1, <3>2, <3>3 DEF FewExecutables, InLoop
  <2>q. QED
    BY <1>0, <2>1, <2>2, <2>3, <2>4, <2>5, <2>6 DEF Inv
<1>14. CASE StartNew
  <2>1. TypeOK'
    <3>1. next \in Exe
      BY <1>0, <1>14 DEF StartNew, TypeOK, ChildInv
    <3>2. running' \in Exe \cup {None} /\ apps' \subseteq Exe
      BY <1>0, <1>14, <3>1 DEF StartNew, TypeOK
    <3>q. QED
      BY <1>0, <1>14, <3>2 DEF StartNew, TypeOK, Pcs, world, loop, files
  <2>2. ChildInv'
    BY <1>0, <1>14
       DEF StartNew, world, loop, files, TypeOK, Exe, Build, ChildInv
  <2>3. FreshInv'
    BY <1>0, <1>14
       DEF StartNew, world, loop, files, TypeOK, Exe, Build, FreshInv, ChildInv
  <2>4. PathInv'
    BY <1>0, <1>14
       DEF StartNew, world, loop, files, TypeOK, Exe, Build, PathInv, ChildInv, App
  <2>5. StagingInv'
    BY <1>0, <1>14
       DEF StartNew, world, loop, files, TypeOK, Exe, Build, StagingInv,
           PathInv, ChildInv, App, InLoop, NoneLeft
  <2>6. FewExecutables'
    BY <1>0, <1>14
       DEF StartNew, world, loop, files, TypeOK, Exe, Build, StagingInv,
           FewExecutables, PathInv, ChildInv, App, InLoop, NoneLeft
  <2>q. QED
    BY <1>0, <2>1, <2>2, <2>3, <2>4, <2>5, <2>6 DEF Inv
<1>15. CASE Done
  <2>1. TypeOK'
    BY <1>0, <1>15
       DEF Done, world, loop, files, TypeOK, Exe, Build, Pcs, App
  <2>2. ChildInv'
    BY <1>0, <1>15
       DEF Done, world, loop, files, TypeOK, Exe, Build, ChildInv
  <2>3. FreshInv'
    BY <1>0, <1>15
       DEF Done, world, loop, files, TypeOK, Exe, Build, FreshInv, ChildInv
  <2>4. PathInv'
    BY <1>0, <1>15
       DEF Done, world, loop, files, TypeOK, Exe, Build, PathInv, ChildInv, App
  <2>5. StagingInv'
    BY <1>0, <1>15
       DEF Done, world, loop, files, TypeOK, Exe, Build, StagingInv, PathInv,
           ChildInv, App, InLoop
  <2>6. FewExecutables'
    BY <1>0, <1>15
       DEF Done, world, loop, files, TypeOK, Exe, Build, StagingInv,
           FewExecutables, PathInv, ChildInv, App, InLoop
  <2>q. QED
    BY <1>0, <2>1, <2>2, <2>3, <2>4, <2>5, <2>6 DEF Inv
<1>16. CASE AwaitBuild
  <2>1. TypeOK'
    BY <1>0, <1>16
       DEF AwaitBuild, world, loop, files, TypeOK, Exe, Build, Pcs, App
  <2>2. ChildInv'
    BY <1>0, <1>16
       DEF AwaitBuild, world, loop, files, TypeOK, Exe, Build, ChildInv
  <2>3. FreshInv'
    BY <1>0, <1>16
       DEF AwaitBuild, world, loop, files, TypeOK, Exe, Build, FreshInv, ChildInv
  <2>4. PathInv'
    BY <1>0, <1>16
       DEF AwaitBuild, world, loop, files, TypeOK, Exe, Build, PathInv, ChildInv, App
  <2>5. StagingInv'
    BY <1>0, <1>16
       DEF AwaitBuild, world, loop, files, TypeOK, Exe, Build, StagingInv,
           PathInv, ChildInv, App, InLoop
  <2>6. FewExecutables'
    BY <1>0, <1>16
       DEF AwaitBuild, world, loop, files, TypeOK, Exe, Build, StagingInv,
           FewExecutables, PathInv, ChildInv, App, InLoop
  <2>q. QED
    BY <1>0, <2>1, <2>2, <2>3, <2>4, <2>5, <2>6 DEF Inv
<1>17. CASE RemoveStaging
  <2>1. TypeOK'
    BY <1>0, <1>17
       DEF RemoveStaging, world, loop, files, TypeOK, Exe, Build, Pcs, App
  <2>2. ChildInv'
    BY <1>0, <1>17
       DEF RemoveStaging, world, loop, files, TypeOK, Exe, Build, ChildInv
  <2>3. FreshInv'
    BY <1>0, <1>17
       DEF RemoveStaging, world, loop, files, TypeOK, Exe, Build, FreshInv, ChildInv
  <2>4. PathInv'
    BY <1>0, <1>17
       DEF RemoveStaging, world, loop, files, TypeOK, Exe, Build, PathInv, ChildInv, App
  <2>5. StagingInv'
    BY <1>0, <1>17
       DEF RemoveStaging, world, loop, files, TypeOK, Exe, Build, StagingInv,
           PathInv, ChildInv, App, InLoop
  <2>6. FewExecutables'
    BY <1>0, <1>17
       DEF RemoveStaging, world, loop, files, TypeOK, Exe, Build, StagingInv,
           FewExecutables, PathInv, ChildInv, App, InLoop
  <2>q. QED
    BY <1>0, <2>1, <2>2, <2>3, <2>4, <2>5, <2>6 DEF Inv
<1>18. ASSUME NEW a \in apps, ChildExits(a) PROVE Inv'
  <2>1. TypeOK'
    BY <1>0, <1>18
       DEF ChildExits, world, loop, files, TypeOK, Exe, Build, Pcs, App
  <2>2. ChildInv'
    BY <1>0, <1>18
       DEF ChildExits, world, loop, files, TypeOK, Exe, Build, ChildInv
  <2>3. FreshInv'
    BY <1>0, <1>18
       DEF ChildExits, world, loop, files, TypeOK, Exe, Build, FreshInv, ChildInv
  <2>4. PathInv'
    BY <1>0, <1>18
       DEF ChildExits, world, loop, files, TypeOK, Exe, Build, PathInv, ChildInv, App
  <2>5. StagingInv'
    BY <1>0, <1>18
       DEF ChildExits, world, loop, files, TypeOK, Exe, Build, StagingInv,
           PathInv, ChildInv, App, InLoop
  <2>6. FewExecutables'
    BY <1>0, <1>18
       DEF ChildExits, world, loop, files, TypeOK, Exe, Build, StagingInv,
           FewExecutables, PathInv, ChildInv, App, InLoop
  <2>q. QED
    BY <1>0, <2>1, <2>2, <2>3, <2>4, <2>5, <2>6 DEF Inv
<1>19. ASSUME NEW killed \in BOOLEAN, StopOld(killed) PROVE Inv'
  <2>1. TypeOK'
    BY <1>0, <1>19
       DEF StopOld, Remove, Stopped, world, loop, files, TypeOK, Exe, Build, Pcs, App
  <2>2. ChildInv'
    BY <1>0, <1>19
       DEF StopOld, Remove, Stopped, world, loop, files, TypeOK, Exe, Build, ChildInv
  <2>3. FreshInv'
    BY <1>0, <1>19
       DEF StopOld, Remove, Stopped, world, loop, files, TypeOK, Exe, Build,
           FreshInv, ChildInv
  <2>4. PathInv'
    BY <1>0, <1>19
       DEF StopOld, Remove, Stopped, world, loop, files, TypeOK, Exe, Build,
           PathInv, ChildInv, App
  <2>5. StagingInv'
    BY <1>0, <1>19
       DEF StopOld, Remove, NoneLeft, Stopped, world, loop, files, TypeOK, Exe, Build,
           StagingInv, PathInv, ChildInv, App, InLoop
  <2>6. FewExecutables'
    BY <1>0, <1>19
       DEF StopOld, Remove, NoneLeft, Stopped, world, loop, files, TypeOK, Exe, Build,
           StagingInv, FewExecutables, PathInv, ChildInv, App, InLoop
  <2>q. QED
    BY <1>0, <2>1, <2>2, <2>3, <2>4, <2>5, <2>6 DEF Inv
<1>20. ASSUME NEW killed \in BOOLEAN, StopLast(killed) PROVE Inv'
  <2>1. TypeOK'
    BY <1>0, <1>20
       DEF StopLast, Stopped, world, loop, files, TypeOK, Exe, Build, Pcs, App
  <2>2. ChildInv'
    BY <1>0, <1>20
       DEF StopLast, Stopped, world, loop, files, TypeOK, Exe, Build, ChildInv
  <2>3. FreshInv'
    BY <1>0, <1>20
       DEF StopLast, Stopped, world, loop, files, TypeOK, Exe, Build, FreshInv, ChildInv
  <2>4. PathInv'
    BY <1>0, <1>20
       DEF StopLast, Stopped, world, loop, files, TypeOK, Exe, Build, PathInv,
           ChildInv, App
  <2>5. StagingInv'
    BY <1>0, <1>20
       DEF StopLast, Stopped, world, loop, files, TypeOK, Exe, Build,
           StagingInv, PathInv, ChildInv, App, InLoop
  <2>6. FewExecutables'
    BY <1>0, <1>20
       DEF StopLast, Stopped, world, loop, files, TypeOK, Exe, Build,
           StagingInv, FewExecutables, PathInv, ChildInv, App, InLoop
  <2>q. QED
    BY <1>0, <2>1, <2>2, <2>3, <2>4, <2>5, <2>6 DEF Inv
<1>21. CASE UNCHANGED vars
  BY <1>0, <1>21 DEF vars, world, loop, files, Inv, TypeOK, ChildInv, FreshInv, PathInv,
      StagingInv, FewExecutables, InLoop, App, ChildExits
<1>q. QED
  BY <1>1, <1>2, <1>3, <1>4, <1>5, <1>6, <1>7, <1>8, <1>9, <1>10, <1>11,
      <1>12, <1>13, <1>14, <1>15, <1>16, <1>17, <1>18, <1>19, <1>20, <1>21 DEF
      Next, Result, Stop

-----------------------------------------------------------------------------
(* The theorems.                                                           *)

\* The inductive invariant holds of every behaviour: any number of saves, scan
\* errors, builds and children.
THEOREM Invariance == Spec => []Inv
<1>q. QED
  BY InitInv, NextInv, PTL DEF Spec

\* Every variable keeps its type.
THEOREM TypeCorrect == Spec => []TypeOK
BY Invariance, PTL DEF Inv

\* There are never two children.
THEOREM Single == Spec => []OneChild
<1>1. Inv => OneChild
  BY DEF Inv, ChildInv, OneChild
<1>q. QED
  BY <1>1, Invariance, PTL

\* Run leaves nothing behind: no child, no build and, if removing works, no file.
THEOREM Clean == Spec => []CleanReturn
<1>1. Inv => CleanReturn
  BY DEF Inv, ChildInv, CleanReturn
<1>q. QED
  BY <1>1, Invariance, PTL

\* No executable of an earlier build stays in the staging directory, and a debug session
\* adds to it at most one metadata file for each of its builds.
THEOREM Bounded == Spec => []OnlyMetadataStays
<1>1. Inv => OnlyMetadataStays
  BY DEF Inv, MetadataInv, OnlyMetadataStays
<1>q. QED
  BY <1>1, Invariance, PTL

\* As long as no save restores an earlier version, no obsolete build is started.
THEOREM Fresh == Spec => NoObsoleteStart
<1>1. Inv /\ [Next]_vars => [~Reverts => AcceptStep]_vars
  <2> SUFFICES ASSUME Inv, Next, ~Reverts, pc = "select", pc' = "stop"
               PROVE  next'.version = disk
    BY DEF AcceptStep
  <2>1. ResultAccepted
    BY DEF Next, Edit, Cancel, Elapse, ChildExits, BuildReads, BuildEnds,
           BuildAborts, Top, Exited, Result, ResultUnscanned, ResultOutdated,
           ResultFailed, Discard, Tick, Stop, StopOld, StopLast, StartNew, Done,
           AwaitBuild, RemoveStaging
  <2>2. build # None /\ build.stage = "done" /\ disk = build.source /\ next' = App
    BY <2>1 DEF ResultAccepted, ResultReady, Outdated, Snapshot
  <2>3. build.source <= build.read /\ build.read <= disk
    BY <2>2 DEF Inv, FreshInv
  <2>4. build.source \in Nat /\ build.read \in Nat
    BY <2>2, AppFacts, ConstantsAssumption DEF Inv, Build
  <2>q. QED
    BY <2>2, <2>3, <2>4, AppFacts DEF Inv
<1>q. QED
  BY <1>1, Invariance, PTL DEF Spec, NoObsoleteStart

\* Saves may restore earlier versions: a build during which a poll saw a change
\* is not started all the same.
THEOREM Undisturbed == Spec => DisturbedDiscarded
<1>1. Inv /\ [Next]_vars => [DisturbedStep]_vars
  <2> SUFFICES ASSUME Inv, Next, pc = "select", pc' = "stop"
               PROVE  ~build.disturbed
    BY DEF DisturbedStep
  <2>1. ResultAccepted
    BY DEF Next, Edit, Cancel, Elapse, ChildExits, BuildReads, BuildEnds,
           BuildAborts, Top, Exited, Result, ResultUnscanned, ResultOutdated,
           ResultFailed, Discard, Tick, Stop, StopOld, StopLast, StartNew, Done,
           AwaitBuild, RemoveStaging
  <2>2. build # None /\ generation = build.generation
    BY <2>1 DEF ResultAccepted, ResultReady, Outdated
  <2>q. QED
    BY <2>2 DEF Inv, FreshInv, TypeOK
<1>q. QED
  BY <1>1, Invariance, PTL DEF Spec, DisturbedDiscarded

\* A failed build leaves the previous child running.
THEOREM Kept == Spec => ServiceKept
<1>1. Inv /\ [Next]_vars => [KeepStep]_vars
  <2> SUFFICES ASSUME Inv, Next, NEW a \in apps, a \notin apps',
                      ~ChildExits(a), pc # "stopLast"
               PROVE  pc = "stop" /\ next \in staging /\ next.version \notin Broken
    BY DEF KeepStep
  <2>1. CASE \E b \in apps : ChildExits(b)
    BY <2>1 DEF ChildExits
  <2>2. CASE pc = "stop"
    BY <2>2 DEF Inv, StagingInv
  <2>3. CASE pc # "stop" /\ ~\E b \in apps : ChildExits(b)
    BY <2>3
       DEF Next, Edit, Cancel, Elapse, BuildReads, BuildEnds, BuildAborts, Top,
           Exited, Result, ResultUnscanned, ResultOutdated, ResultFailed,
           ResultAccepted, Discard, Tick, Stop, StopOld, StopLast, StartNew, Done,
           AwaitBuild, RemoveStaging
  <2>q. QED
    BY <2>1, <2>2, <2>3
<1>q. QED
  BY <1>1, Invariance, PTL DEF Spec, ServiceKept
=============================================================================
