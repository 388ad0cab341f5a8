-------------------------- MODULE ToolchainProofs --------------------------
(***************************************************************************)
(* Proofs about Toolchain, for any calls, releases, branches and number of *)
(* failures.                                                               *)
(***************************************************************************)
EXTENDS Toolchain, FiniteSetTheorems, TLAPS

-----------------------------------------------------------------------------
(* The inductive invariant.                                                *)

\* A call is undecided until it returns.
Open(c) == pc[c] \notin {"clean", "returned", "crashed"}

\* What a call has staged is of a release it supports, comes from a verified archive,
\* and is complete once it has been probed.
StagedRight(c) ==
    /\ Open(c) => outcome[c] = Undecided
    /\ pc[c] \in Installing => release[c] \in Supported[c]
    /\ pc[c] = "extract" => staging[c] \in {"archive", "partial"}
    /\ pc[c] \in {"vet", "commit"} => staging[c] = "whole"

\* The versions that a failure has cost call c: supported ones it tried in vain, and
\* others that are damaged, or gone since they were listed.
Lost(c) == {v \in tried[c] \cap Supported[c] : v # outcome[c]} \cup
           {v \in Version : dirs[v] = "damaged"} \cup
           {v \in entries[c] : dirs[v] # "whole"}

\* Each of them has cost a failure of its own, and what a call passes over is among them.
LostInv(c) ==
    /\ IsFiniteSet(Lost(c))
    /\ ~cancelled[c] => Cardinality(Lost(c)) <= faults
    /\ pc[c] = "start" => entries[c] = {} /\ tried[c] = {}
    /\ pc[c] \notin {"start", "probe", "crashed"} =>
           Preferred(c) \subseteq {v \in tried[c] : v # outcome[c]}

Inv == /\ TypeOK
       /\ \A v \in Version : dirs[v] \in {"absent", "whole", "damaged"}
       /\ \A c \in Call : StagedRight(c) /\ LostInv(c)

-----------------------------------------------------------------------------
(* The steps of a call.                                                    *)

\* A successful probe is of a supported version that is there, and costs no failure.
LEMMA ProbeSound ==
    ASSUME NEW c \in Call, NEW v \in Version, NEW tree, NEW ok \in BOOLEAN,
           Compatible(c, v, tree, ok), ok
    PROVE  v \in Supported[c] /\ tree # "absent" /\ UNCHANGED faults /\ ~cancelled[c]
BY DEF Compatible

\* A probe of a supported complete tree fails only by a failure or a cancellation.
LEMMA ProbeComplete ==
    ASSUME NEW c \in Call, NEW v \in Supported[c], NEW tree, NEW ok \in BOOLEAN,
           Compatible(c, v, tree, ok), ~ok, tree = "whole", ~cancelled[c]
    PROVE  faults' = faults + 1
BY DEF Compatible, Fault

\* No probe makes the count of failures leave its range or fall.
LEMMA ProbeCounts ==
    ASSUME NEW c \in Call, NEW v \in Version, NEW tree, NEW ok \in BOOLEAN,
           faults \in 0 .. MaxFaults, Compatible(c, v, tree, ok)
    PROVE  faults' \in 0 .. MaxFaults /\ faults <= faults'
BY FaultsAssumption DEF Compatible, Fault

\* Every step leads from a well-typed state to a well-typed one.
LEMMA TypeStep ==
    ASSUME Inv, [Next]_vars
    PROVE  TypeOK' /\ faults <= faults'
<1> USE FaultsAssumption, VersionAssumption, SupportedAssumption
<1>t. TypeOK /\ \A c \in Call : StagedRight(c)
  BY DEF Inv
<1>u. CASE UNCHANGED vars
  BY <1>t, <1>u DEF TypeOK, vars
<1>1. CASE Publish
  BY <1>1, <1>t DEF TypeOK, Publish
<1>2. CASE Harm
  <2>1. dirs' \in [Version -> {"absent"} \cup Tree]
    BY <1>2, <1>t DEF TypeOK, Harm, Tree
  <2>q. QED
    BY <1>2, <1>t, <2>1 DEF TypeOK, Harm, Fault
<1>3. ASSUME NEW c \in Call, Step(c) PROVE TypeOK' /\ faults <= faults'
  <2>1. CASE SystemGo(c)
    BY <1>t, <2>1 DEF TypeOK, SystemGo, Return, Goto, Control, Installing
  <2>2. CASE List(c)
    BY <1>t, <2>2 DEF TypeOK, List, Goto, Fault, Control, Installing
  <2>3. CASE ProbeInstalled(c)
    <3>1. PICK v \in entries[c] \ tried[c], ok \in BOOLEAN :
             /\ Compatible(c, v, dirs[v], ok)
             /\ tried' = [tried EXCEPT ![c] = @ \cup {v}]
             /\ IF ok THEN Return(c, v) ELSE UNCHANGED <<pc, outcome>>
      BY <2>3 DEF ProbeInstalled
    <3>2. v \in Version
      BY <1>t, <3>1 DEF TypeOK
    <3>3. faults' \in 0 .. MaxFaults /\ faults <= faults'
      BY <1>t, <3>1, <3>2, ProbeCounts DEF TypeOK
    <3>4. pc' \in [Call -> Control] /\ outcome' \in [Call -> Version \cup {Undecided, System, Failed}]
      BY <1>t, <3>1, <3>2 DEF TypeOK, Return, Goto, Control
    <3>5. tried' \in [Call -> SUBSET Version]
      BY <1>t, <3>1, <3>2 DEF TypeOK
    <3>6. \A d \in Call : pc'[d] \in Installing => pc[d] \in Installing
      BY <1>t, <3>1 DEF TypeOK, Return, Goto, Installing
    <3>q. QED
      BY <1>t, <2>3, <3>3, <3>4, <3>5, <3>6 DEF TypeOK, ProbeInstalled
  <2>4. CASE NoneInstalled(c)
    BY <1>t, <2>4 DEF TypeOK, NoneInstalled, Fail, Return, Goto, Control, Installing
  <2>5. CASE Select(c)
    <3>1. CASE \E v \in Offered(c) :
                 /\ release' = [release EXCEPT ![c] = v]
                 /\ Goto(c, "stage") /\ UNCHANGED <<outcome, faults>>
      BY <1>t, <2>5, <3>1 DEF TypeOK, Select, Offered, Goto, Control, Installing
    <3>2. CASE Fail(c) /\ UNCHANGED release /\ (UNCHANGED faults \/ Fault)
      BY <1>t, <2>5, <3>2 DEF TypeOK, Select, Fail, Return, Goto, Fault, Control, Installing
    <3>q. QED
      BY <2>5, <3>1, <3>2 DEF Select
  <2>6. CASE Stage(c)
    BY <1>t, <2>6 DEF TypeOK, Stage, Fail, Return, Goto, Fault, Control, Installing
  <2>7. CASE Download(c)
    <3>1. CASE /\ Goto(c, "extract") /\ UNCHANGED outcome
               /\ staging'[c] \in {"archive", "tampered"}
               /\ staging' = [staging EXCEPT ![c] = staging'[c]]
               /\ (UNCHANGED faults \/ Fault)
      BY <1>t, <2>7, <3>1 DEF TypeOK, Download, Goto, Fault, Control, Installing, Tree
    <3>2. CASE Fail(c) /\ UNCHANGED staging /\ (UNCHANGED faults \/ Fault)
      BY <1>t, <2>7, <3>2 DEF TypeOK, Download, Fail, Return, Goto, Fault, Control, Installing
    <3>q. QED
      BY <1>t, <2>7, <3>1, <3>2 DEF TypeOK, Download
  <2>8. CASE ExtractSome(c)
    BY <1>t, <2>8 DEF TypeOK, ExtractSome, Tree
  <2>9. CASE ExtractRest(c)
    BY <1>t, <2>9 DEF TypeOK, ExtractRest, Fail, Return, Goto, Fault, Control, Installing, Tree
  <2>10. CASE Vet(c)
    <3>1. PICK ok \in BOOLEAN :
             /\ Compatible(c, release[c], staging[c], ok)
             /\ IF ok THEN Goto(c, "commit") /\ UNCHANGED outcome ELSE Fail(c)
      BY <2>10 DEF Vet
    <3>2. pc[c] = "vet" /\ release[c] \in Version
      BY <1>t, <2>10 DEF Vet, TypeOK, Installing
    <3>3. faults' \in 0 .. MaxFaults /\ faults <= faults'
      BY <1>t, <3>1, <3>2, ProbeCounts DEF TypeOK
    <3>q. QED
      BY <1>t, <2>10, <3>1, <3>2, <3>3 DEF TypeOK, Vet, Fail, Return, Goto, Control, Installing
  <2>11. CASE Commit(c)
    <3>1. pc[c] = "commit" /\ release[c] \in Version /\ staging[c] = "whole"
      BY <1>t, <2>11 DEF Commit, TypeOK, Installing, StagedRight
    <3>q. QED
      BY <1>t, <2>11, <3>1 DEF TypeOK, Commit, Return, Goto, Fault, Control, Installing, Tree
  <2>12. CASE ProbeExisting(c)
    <3>1. PICK ok \in BOOLEAN :
             /\ Compatible(c, release[c], dirs[release[c]], ok)
             /\ IF ok THEN Return(c, release[c]) ELSE Fail(c)
      BY <2>12 DEF ProbeExisting
    <3>2. pc[c] = "lost" /\ release[c] \in Version
      BY <1>t, <2>12 DEF ProbeExisting, TypeOK, Installing
    <3>3. faults' \in 0 .. MaxFaults /\ faults <= faults'
      BY <1>t, <3>1, <3>2, ProbeCounts DEF TypeOK
    <3>q. QED
      BY <1>t, <2>12, <3>1, <3>2, <3>3 DEF TypeOK, ProbeExisting, Fail, Return, Goto, Control, Installing
  <2>13. CASE Clean(c)
    BY <1>t, <2>13 DEF TypeOK, Clean, Goto, Fault, Control, Installing
  <2>q. QED
    BY <1>3, <2>1, <2>2, <2>3, <2>4, <2>5, <2>6, <2>7, <2>8, <2>9, <2>10, <2>11, <2>12, <2>13
       DEF Step
<1>4. ASSUME NEW c \in Call, Crash(c) PROVE TypeOK' /\ faults <= faults'
  BY <1>4, <1>t DEF TypeOK, Crash, Goto, Control, Installing
<1>5. ASSUME NEW c \in Call, Cancel(c) PROVE TypeOK' /\ faults <= faults'
  BY <1>5, <1>t DEF TypeOK, Cancel
<1>q. QED
  BY <1>u, <1>1, <1>2, <1>3, <1>4, <1>5 DEF Next

\* A step of one call leaves the others' control alone.
LEMMA OtherCalls ==
    ASSUME TypeOK, NEW c \in Call, NEW d \in Call, c # d,
           Step(c) \/ Crash(c) \/ Cancel(c)
    PROVE  /\ pc'[d] = pc[d] /\ entries'[d] = entries[d] /\ tried'[d] = tried[d]
           /\ release'[d] = release[d] /\ staging'[d] = staging[d]
           /\ outcome'[d] = outcome[d] /\ cancelled'[d] = cancelled[d]
<1> USE DEF TypeOK, Return, Fail, Goto
<1>1. CASE SystemGo(c) \/ List(c) \/ NoneInstalled(c) \/ Select(c) \/ Stage(c)
  BY <1>1 DEF SystemGo, List, NoneInstalled, Select, Stage
<1>2. CASE ProbeInstalled(c)
  BY <1>2 DEF ProbeInstalled
<1>3. CASE Download(c) \/ ExtractSome(c) \/ ExtractRest(c)
  BY <1>3 DEF Download, ExtractSome, ExtractRest
<1>4. CASE Vet(c) \/ Commit(c) \/ ProbeExisting(c) \/ Clean(c)
  BY <1>4 DEF Vet, Commit, ProbeExisting, Clean
<1>5. CASE Crash(c) \/ Cancel(c)
  BY <1>5 DEF Crash, Cancel
<1>q. QED
  BY <1>1, <1>2, <1>3, <1>4, <1>5 DEF Step

-----------------------------------------------------------------------------
(* What a call stages is right.                                            *)

\* A call's own step keeps its staging directory right for where it is.
LEMMA StagedOwn ==
    ASSUME Inv, NEW c \in Call, Step(c) \/ Crash(c) \/ Cancel(c)
    PROVE  StagedRight(c)'
<1>t. TypeOK /\ StagedRight(c)
  BY DEF Inv
<1> USE <1>t, SupportedAssumption DEF TypeOK, StagedRight, Open, Return, Fail, Goto, Installing
<1>1. CASE SystemGo(c) \/ List(c) \/ NoneInstalled(c)
  BY <1>1 DEF SystemGo, List, NoneInstalled
<1>2. CASE ProbeInstalled(c)
  BY <1>2 DEF ProbeInstalled
<1>3. CASE Select(c)
  BY <1>3 DEF Select, Offered
<1>4. CASE Stage(c)
  BY <1>4 DEF Stage
<1>5. CASE Download(c)
  <2>1. CASE Fail(c)
    BY <1>5, <2>1 DEF Download
  <2>2. CASE /\ Goto(c, "extract") /\ UNCHANGED outcome
             /\ staging' = [staging EXCEPT ![c] = "archive"]
    BY <1>5, <2>2 DEF Download
  <2>q. QED
    BY <1>5, <2>1, <2>2 DEF Download, Verified
<1>6. CASE ExtractSome(c)
  BY <1>6 DEF ExtractSome
<1>7. CASE ExtractRest(c)
  BY <1>7 DEF ExtractRest
<1>8. CASE Vet(c)
  BY <1>8 DEF Vet
<1>9. CASE Commit(c)
  BY <1>9 DEF Commit
<1>10. CASE ProbeExisting(c)
  BY <1>10 DEF ProbeExisting
<1>11. CASE Clean(c)
  BY <1>11 DEF Clean
<1>12. CASE Crash(c) \/ Cancel(c)
  BY <1>12 DEF Crash, Cancel
<1>q. QED
  BY <1>1, <1>2, <1>3, <1>4, <1>5, <1>6, <1>7, <1>8, <1>9, <1>10, <1>11, <1>12 DEF Step

\* So does every step of anyone.
LEMMA StagedStep ==
    ASSUME Inv, [Next]_vars
    PROVE  \A c \in Call : StagedRight(c)'
<1> SUFFICES ASSUME NEW d \in Call PROVE StagedRight(d)'
  OBVIOUS
<1>t. TypeOK /\ StagedRight(d)
  BY DEF Inv
<1>1. CASE Publish \/ Harm \/ UNCHANGED vars
  BY <1>t, <1>1 DEF Publish, Harm, vars, StagedRight, Open
<1>2. ASSUME NEW c \in Call, Step(c) \/ Crash(c) \/ Cancel(c) PROVE StagedRight(d)'
  <2>1. CASE c = d
    BY <1>2, <2>1, StagedOwn
  <2>2. CASE c # d
    BY <1>2, <2>2, <1>t, OtherCalls DEF StagedRight, Open
  <2>q. QED
    BY <2>1, <2>2
<1>q. QED
  BY <1>1, <1>2 DEF Next

-----------------------------------------------------------------------------
(* What is passed over has cost a failure.                                 *)

\* Only a rename and its owner change what is on the shelf, and a rename puts a whole
\* toolchain on an empty place.
LEMMA ShelfStep ==
    ASSUME Inv, [Next]_vars
    PROVE  /\ \A v \in Version : dirs'[v] \in {"absent", "whole", "damaged"}
           /\ \/ \A v \in Version : dirs'[v] = dirs[v] \/ dirs'[v] = "whole"
              \/ \E x \in Version :
                    /\ \A v \in Version : v # x => dirs'[v] = dirs[v]
                    /\ faults' = faults + 1
                    /\ UNCHANGED <<pc, entries, tried, release, outcome, cancelled>>
<1>t. TypeOK /\ \A v \in Version : dirs[v] \in {"absent", "whole", "damaged"}
  BY DEF Inv
<1>1. CASE Harm
  BY <1>1, <1>t DEF Harm, Fault, TypeOK
<1>2. ASSUME NEW c \in Call, Commit(c)
      PROVE  \A v \in Version : dirs'[v] = dirs[v] \/ dirs'[v] = "whole"
  <2>1. staging[c] = "whole"
    BY <1>2 DEF Commit, Inv, StagedRight
  <2>q. QED
    BY <1>2, <1>t, <2>1 DEF Commit, TypeOK
<1>3. ASSUME NEW c \in Call, Step(c), ~Commit(c) PROVE UNCHANGED dirs
  BY <1>3 DEF Step, SystemGo, List, ProbeInstalled, NoneInstalled, Select, Stage, Download,
     ExtractSome, ExtractRest, Vet, ProbeExisting, Clean
<1>4. ASSUME NEW c \in Call, Crash(c) \/ Cancel(c) PROVE UNCHANGED dirs
  BY <1>4 DEF Crash, Cancel
<1>5. ASSUME Publish \/ UNCHANGED vars PROVE UNCHANGED dirs
  BY <1>5 DEF Publish, vars
<1>6. CASE UNCHANGED dirs
  BY <1>t, <1>6
<1>7. ASSUME NEW c \in Call, Commit(c)
      PROVE  \A v \in Version : dirs'[v] \in {"absent", "whole", "damaged"}
  BY <1>t, <1>2, <1>7
<1>8. ASSUME NEW c \in Call, Step(c) \/ Crash(c) \/ Cancel(c), ~Commit(c)
      PROVE  UNCHANGED dirs
  BY <1>3, <1>4, <1>8
<1>q. QED
  BY <1>1, <1>2, <1>5, <1>6, <1>7, <1>8 DEF Next

\* A call's own step: once it has looked through what it listed, it only decides.
Decides(c) ==
    /\ UNCHANGED <<entries, tried>>
    /\ outcome'[c] # outcome[c] => outcome[c] = Undecided
    /\ pc'[c] \in {"start", "probe", "crashed"} \/ pc[c] \notin {"start", "probe", "crashed"}
    /\ pc'[c] # "start"  \/ pc[c] = "start"

\* Every step of a call is a look at the shelf or a decision.
LEMMA StepKinds ==
    ASSUME Inv, NEW c \in Call, Step(c) \/ Crash(c) \/ Cancel(c)
    PROVE  SystemGo(c) \/ List(c) \/ ProbeInstalled(c) \/ NoneInstalled(c) \/ Decides(c)
<1>t. TypeOK /\ StagedRight(c)
  BY DEF Inv
<1> USE <1>t DEF TypeOK, StagedRight, Open, Decides, Return, Fail, Goto
<1>1. CASE Select(c) \/ Stage(c)
  BY <1>1 DEF Select, Stage
<1>2. CASE Download(c) \/ ExtractSome(c) \/ ExtractRest(c)
  BY <1>2 DEF Download, ExtractSome, ExtractRest
<1>3. CASE Vet(c) \/ ProbeExisting(c)
  BY <1>3 DEF Vet, ProbeExisting
<1>4. CASE Commit(c)
  BY <1>4 DEF Commit
<1>5. CASE Clean(c)
  BY <1>5 DEF Clean
<1>6. CASE Crash(c) \/ Cancel(c)
  BY <1>6 DEF Crash, Cancel
<1>q. QED
  BY <1>1, <1>2, <1>3, <1>4, <1>5, <1>6 DEF Step

\* A call's own step has cost at most one version more, by a failure or a cancellation.
CostsOne(c) ==
    \/ Lost(c)' \subseteq Lost(c)
    \/ \E x \in Version : /\ Lost(c)' \subseteq Lost(c) \cup {x}
                          /\ cancelled[c] \/ faults' = faults + 1

\* What a call has lost before, in particular what it has tried, as long as it is
\* undecided.
LEMMA LostFacts ==
    ASSUME Inv, NEW c \in Call
    PROVE  /\ Undecided \notin Version /\ Failed \notin Version
           /\ Open(c) => outcome[c] = Undecided
           /\ \A v \in Version : dirs[v] \in {"absent", "whole", "damaged"}
           /\ Lost(c) \subseteq Version
BY VersionAssumption, SupportedAssumption
   DEF Inv, TypeOK, StagedRight, Undecided, Failed, Lost

\* A probe that fails has met a tree that was not whole, or is a failure itself; one
\* that succeeds leaves only newer versions behind, which it has tried.
LEMMA ProbeCosts ==
    ASSUME Inv, NEW c \in Call, ProbeInstalled(c)
    PROVE  /\ CostsOne(c)
           /\ pc'[c] # "start"
           /\ pc'[c] # "probe" => Preferred(c)' \subseteq {v \in tried'[c] : v # outcome'[c]}
<1>t. TypeOK /\ StagedRight(c)
  BY DEF Inv
<1>1. PICK v \in entries[c] \ tried[c], ok \in BOOLEAN :
         /\ Newest(v, entries[c] \ tried[c])
         /\ Compatible(c, v, dirs[v], ok)
         /\ tried' = [tried EXCEPT ![c] = @ \cup {v}]
         /\ IF ok THEN Return(c, v) ELSE UNCHANGED <<pc, outcome>>
  BY DEF ProbeInstalled
<1>2. /\ v \in Version /\ pc[c] = "probe" /\ UNCHANGED <<dirs, entries, cancelled>>
      /\ outcome[c] = Undecided /\ tried'[c] = tried[c] \cup {v}
  BY <1>1, <1>t DEF ProbeInstalled, TypeOK, StagedRight, Open
<1>3. CASE ok
  <2>1. pc'[c] = "clean" /\ outcome'[c] = v
    BY <1>1, <1>3, <1>t DEF Return, Goto, TypeOK
  <2>2. Lost(c)' \subseteq Lost(c)
    <3>1. Undecided \notin Version /\ tried[c] \subseteq Version
      BY LostFacts, <1>t DEF TypeOK
    <3>q. QED
      BY <1>2, <2>1, <3>1 DEF Lost
  <2>3. ASSUME NEW u \in entries[c], u > v PROVE u \in tried[c]
    BY <1>1, <1>2, <2>3, <1>t, VersionAssumption DEF Newest, TypeOK
  <2>4. Preferred(c)' \subseteq {u \in entries[c] : u > v}
    BY <1>1, <1>2, <2>1 DEF Preferred
  <2>5. \A u \in entries[c] : u > v => u # v
    BY <1>2, <1>t, VersionAssumption DEF TypeOK
  <2>q. QED
    BY <1>2, <2>1, <2>2, <2>3, <2>4, <2>5 DEF CostsOne
<1>4. CASE ~ok
  <2>1. pc'[c] = "probe" /\ outcome' = outcome
    BY <1>1, <1>2, <1>4
  <2>2. Lost(c)' \subseteq Lost(c) \cup ({v} \cap Supported[c])
    BY <1>2, <2>1 DEF Lost
  <2>3. dirs[v] # "whole" => v \in Lost(c)
    BY <1>1 DEF Lost
  <2>4. dirs[v] = "whole" /\ ~cancelled[c] /\ v \in Supported[c] => faults' = faults + 1
    BY <1>1, <1>4, ProbeComplete
  <2>q. QED
    BY <1>2, <2>1, <2>2, <2>3, <2>4 DEF CostsOne
<1>q. QED
  BY <1>3, <1>4

\* So does every step of a call.
LEMMA LostOwn ==
    ASSUME Inv, NEW c \in Call, Step(c) \/ Crash(c) \/ Cancel(c), Next
    PROVE  /\ CostsOne(c)
           /\ pc'[c] = "start" => entries'[c] = {} /\ tried'[c] = {}
           /\ pc'[c] \notin {"start", "probe", "crashed"} =>
                  Preferred(c)' \subseteq {v \in tried'[c] : v # outcome'[c]}
<1>t. TypeOK /\ LostInv(c) /\ StagedRight(c)
  BY DEF Inv
<1>v. /\ Undecided \notin Version /\ Failed \notin Version
      /\ Open(c) => outcome[c] = Undecided
      /\ \A v \in Version : dirs[v] \in {"absent", "whole", "damaged"}
      /\ entries[c] \subseteq Version /\ tried[c] \subseteq Version
  BY LostFacts, <1>t DEF TypeOK
<1>1. CASE SystemGo(c)
  <2>1. pc[c] = "start" /\ pc'[c] = "clean" /\ UNCHANGED <<dirs, entries, tried>>
    BY <1>1, <1>t DEF SystemGo, Return, Goto, TypeOK
  <2>q. QED
    BY <2>1, <1>t DEF LostInv, Lost, CostsOne, Preferred
<1>2. CASE List(c)
  <2>1. /\ pc[c] = "start" /\ pc'[c] = "probe" /\ UNCHANGED <<dirs, tried, outcome>>
        /\ entries'[c] \subseteq {v \in Version : dirs[v] # "absent"}
    BY <1>2, <1>t DEF List, Goto, TypeOK, LostInv
  <2>2. Lost(c)' \subseteq Lost(c)
    BY <2>1, <1>t, <1>v DEF Lost, LostInv
  <2>q. QED
    BY <2>1, <2>2 DEF CostsOne
<1>3. CASE ProbeInstalled(c)
  BY <1>3, ProbeCosts
<1>4. CASE NoneInstalled(c)
  <2>1. /\ entries[c] \subseteq tried[c] /\ UNCHANGED <<dirs, entries, tried>>
        /\ outcome'[c] \in {Undecided, Failed} /\ outcome[c] = Undecided
        /\ pc'[c] # "start"
    BY <1>4, <1>t, <1>v DEF NoneInstalled, Fail, Return, Goto, TypeOK, Open
  <2>2. Lost(c)' \subseteq Lost(c)
    BY <2>1, <1>v DEF Lost
  <2>q. QED
    BY <2>1, <2>2, <1>v DEF CostsOne, Preferred
<1>5. CASE Decides(c)
  <2>1. /\ UNCHANGED <<entries, tried>>
        /\ outcome'[c] = outcome[c] \/ outcome[c] \notin Version
    BY <1>5, <1>v DEF Decides
  <2>2. \/ \A v \in Version : dirs'[v] = dirs[v] \/ dirs'[v] = "whole"
        \/ \E x \in Version : /\ \A v \in Version : v # x => dirs'[v] = dirs[v]
                              /\ faults' = faults + 1
    BY ShelfStep
  <2>3. ASSUME \A v \in Version : dirs'[v] = dirs[v] \/ dirs'[v] = "whole"
        PROVE  CostsOne(c)
    <3>1. Lost(c)' \subseteq Lost(c)
      BY <2>1, <2>3, <1>v DEF Lost
    <3>q. QED
      BY <3>1 DEF CostsOne
  <2>4. ASSUME NEW x \in Version, \A v \in Version : v # x => dirs'[v] = dirs[v],
               faults' = faults + 1
        PROVE  CostsOne(c)
    <3>1. Lost(c)' \subseteq Lost(c) \cup {x}
      BY <2>1, <2>4, <1>v DEF Lost
    <3>q. QED
      BY <2>4, <3>1 DEF CostsOne
  <2>5. pc'[c] = "start" => pc[c] = "start"
    BY <1>5 DEF Decides
  <2>6. ASSUME pc'[c] \notin {"start", "probe", "crashed"}
        PROVE  Preferred(c)' \subseteq {v \in tried'[c] : v # outcome'[c]}
    <3>1. Preferred(c) \subseteq {v \in tried[c] : v # outcome[c]}
      BY <1>5, <1>t, <2>6 DEF Decides, LostInv
    <3>2. CASE outcome'[c] = outcome[c]
      BY <2>1, <3>1, <3>2 DEF Preferred
    <3>3. CASE outcome[c] \notin Version
      <4>1. entries[c] \cap Supported[c] \subseteq tried[c]
        BY <3>1, <3>3, <1>v DEF Preferred
      <4>2. ASSUME NEW u \in entries[c], NEW v \in entries[c], u > v PROVE u # v
        <5>1. u \in Nat /\ v \in Nat
          BY <1>v, VersionAssumption
        <5>q. QED
          BY <4>2, <5>1
      <4>q. QED
        BY <2>1, <4>1, <4>2 DEF Preferred
    <3>q. QED
      BY <2>1, <3>2, <3>3
  <2>q. QED
    BY <1>t, <2>1, <2>2, <2>3, <2>4, <2>5, <2>6 DEF LostInv
<1>q. QED
  BY <1>1, <1>2, <1>3, <1>4, <1>5, StepKinds

\* A set bounded by the failures stays so when an element more comes with a failure more.
LEMMA CountStep ==
    ASSUME NEW S, NEW T, NEW x, NEW m \in Nat, NEW n \in Nat, IsFiniteSet(S), m <= n,
           T \subseteq S \/ T \subseteq S \cup {x}
    PROVE  /\ IsFiniteSet(T)
           /\ Cardinality(S) <= m /\ (T \subseteq S \/ n = m + 1) => Cardinality(T) <= n
<1>1. /\ IsFiniteSet(S \cup {x}) /\ Cardinality(S) \in Nat
      /\ Cardinality(S \cup {x}) \in {Cardinality(S), Cardinality(S) + 1}
  BY FS_AddElement, FS_CardinalityType
<1>2. T \subseteq S => IsFiniteSet(T) /\ Cardinality(T) <= Cardinality(S)
  BY FS_Subset
<1>3. T \subseteq S \cup {x} => IsFiniteSet(T) /\ Cardinality(T) <= Cardinality(S \cup {x})
  BY <1>1, FS_Subset
<1>4. IsFiniteSet(T) /\ Cardinality(T) \in Nat
  BY <1>2, <1>3, FS_CardinalityType
<1>q. QED
  BY <1>1, <1>2, <1>3, <1>4

\* Every step of anyone keeps the count, and who has looked through the shelf has tried
\* all that it passed over.
LEMMA LostStep ==
    ASSUME Inv, [Next]_vars
    PROVE  \A c \in Call : LostInv(c)'
<1> SUFFICES ASSUME NEW d \in Call PROVE LostInv(d)'
  OBVIOUS
<1>t. /\ TypeOK /\ LostInv(d) /\ faults \in Nat /\ faults' \in Nat /\ faults <= faults'
      /\ entries[d] \subseteq Version
  BY TypeStep, FaultsAssumption DEF Inv, TypeOK
<1>1. cancelled[d] => cancelled'[d]
  <2>1. CASE \E c \in Call : Cancel(c)
    BY <1>t, <2>1 DEF Cancel, TypeOK
  <2>2. CASE ~\E c \in Call : Cancel(c)
    BY <2>2 DEF Next, Publish, Harm, Step, SystemGo, List, ProbeInstalled, NoneInstalled,
       Select, Stage, Download, ExtractSome, ExtractRest, Vet, Commit, ProbeExisting, Clean,
       Crash, vars
  <2>q. QED
    BY <2>1, <2>2
<1>2. /\ CostsOne(d)
      /\ pc'[d] = "start" => entries'[d] = {} /\ tried'[d] = {}
      /\ pc'[d] \notin {"start", "probe", "crashed"} =>
             Preferred(d)' \subseteq {v \in tried'[d] : v # outcome'[d]}
  <2>1. ASSUME pc'[d] = pc[d], entries'[d] = entries[d], tried'[d] = tried[d],
               outcome'[d] = outcome[d]
        PROVE  /\ CostsOne(d)
               /\ pc'[d] = "start" => entries'[d] = {} /\ tried'[d] = {}
               /\ pc'[d] \notin {"start", "probe", "crashed"} =>
                      Preferred(d)' \subseteq {v \in tried'[d] : v # outcome'[d]}
    <3>1. \/ \A v \in Version : dirs'[v] = dirs[v] \/ dirs'[v] = "whole"
          \/ \E x \in Version : /\ \A v \in Version : v # x => dirs'[v] = dirs[v]
                                /\ faults' = faults + 1
      BY ShelfStep
    <3>2. ASSUME \A v \in Version : dirs'[v] = dirs[v] \/ dirs'[v] = "whole"
          PROVE  CostsOne(d)
      <4>1. Lost(d)' \subseteq Lost(d)
        BY <1>t, <2>1, <3>2 DEF Lost
      <4>q. QED
        BY <4>1 DEF CostsOne
    <3>3. ASSUME NEW x \in Version, \A v \in Version : v # x => dirs'[v] = dirs[v],
                 faults' = faults + 1
          PROVE  CostsOne(d)
      <4>1. Lost(d)' \subseteq Lost(d) \cup {x}
        BY <1>t, <2>1, <3>3 DEF Lost
      <4>q. QED
        BY <3>3, <4>1 DEF CostsOne
    <3>4. Preferred(d)' = Preferred(d)
      BY <2>1 DEF Preferred
    <3>q. QED
      BY <1>t, <2>1, <3>1, <3>2, <3>3, <3>4 DEF LostInv
  <2>2. CASE Publish \/ Harm \/ UNCHANGED vars
    BY <2>1, <2>2 DEF Publish, Harm, vars
  <2>3. ASSUME NEW c \in Call, Step(c) \/ Crash(c) \/ Cancel(c), c # d
        PROVE  /\ pc'[d] = pc[d] /\ entries'[d] = entries[d]
               /\ tried'[d] = tried[d] /\ outcome'[d] = outcome[d]
    BY <1>t, <2>3, OtherCalls
  <2>4. CASE Next /\ (Step(d) \/ Crash(d) \/ Cancel(d))
    BY <2>4, LostOwn
  <2>q. QED
    BY <2>1, <2>2, <2>3, <2>4 DEF Next
<1>3. /\ IsFiniteSet(Lost(d)')
      /\ ~cancelled'[d] => Cardinality(Lost(d)') <= faults'
  BY <1>t, <1>1, <1>2, CountStep DEF CostsOne, LostInv
<1>q. QED
  BY <1>2, <1>3 DEF LostInv

-----------------------------------------------------------------------------
(* The theorems.                                                           *)

\* The conjunction above is inductive.
THEOREM Invariance == Spec => []Inv
<1>1. Init => Inv
  <2> SUFFICES ASSUME Init PROVE Inv
    OBVIOUS
  <2> USE FaultsAssumption DEF Init, Installing
  <2>1. TypeOK
    BY DEF TypeOK, Control, Tree, None, Undecided
  <2>2. \A v \in Version : dirs[v] \in {"absent", "whole", "damaged"}
    OBVIOUS
  <2>3. ASSUME NEW c \in Call PROVE StagedRight(c)
    BY DEF StagedRight
  <2>4. ASSUME NEW c \in Call PROVE LostInv(c)
    <3>1. Lost(c) = {}
      BY DEF Lost
    <3>q. QED
      BY <3>1, FS_EmptySet DEF LostInv
  <2>q. QED
    BY <2>1, <2>2, <2>3, <2>4 DEF Inv
<1>2. Inv /\ [Next]_vars => Inv'
  <2> SUFFICES ASSUME Inv, [Next]_vars PROVE Inv'
    OBVIOUS
  <2>q. QED
    BY TypeStep, ShelfStep, StagedStep, LostStep DEF Inv
<1>q. QED
  BY <1>1, <1>2, PTL DEF Spec

\* Every variable keeps to its type, and a call that installs has selected a release
\* (lines 166-168).
THEOREM TypeCorrect == Spec => []TypeOK
<1>1. Inv => TypeOK
  BY DEF Inv
<1>q. QED
  BY <1>1, Invariance, PTL

\* Every supported version that a call listed and passed over for an older one, or for the
\* network (lines 123-133), has cost a failure of its own, whatever the other calls do.
THEOREM NewestFirst == Spec => []FirstChoice
<1>1. Inv => FirstChoice
  <2> SUFFICES ASSUME Inv, NEW c \in Call, ~cancelled[c],
                      pc[c] \notin {"start", "probe", "crashed"}
               PROVE  Cardinality(Preferred(c)) <= faults
    BY DEF FirstChoice
  <2>1. Preferred(c) \subseteq Lost(c)
    BY DEF Inv, LostInv, Lost, Preferred
  <2>2. IsFiniteSet(Lost(c)) /\ Cardinality(Lost(c)) <= faults /\ faults \in Nat
    BY FaultsAssumption DEF Inv, LostInv, TypeOK
  <2>3. /\ IsFiniteSet(Preferred(c)) /\ Cardinality(Preferred(c)) <= Cardinality(Lost(c))
    BY <2>1, <2>2, FS_Subset
  <2>q. QED
    BY <2>2, <2>3, FS_CardinalityType
<1>q. QED
  BY <1>1, Invariance, PTL

-----------------------------------------------------------------------------
(* The manager implements the shelf.                                       *)

\* A step of a call puts one whole toolchain on an empty place, takes one that is
\* there, declines, or changes nothing that the shelf shows.
LEMMA CallRefines ==
    ASSUME Inv, NEW c \in Call, Step(c) \/ Crash(c) \/ Cancel(c)
    PROVE  Shelf!Next \/ UNCHANGED <<dirs, outcome>>
<1>t. TypeOK /\ StagedRight(c)
  BY DEF Inv
<1>f. ASSUME Open(c), Fail(c), UNCHANGED dirs PROVE Shelf!Decline(c)
  BY <1>t, <1>f DEF Shelf!Decline, Shelf!Decide, Shelf!Undecided, Shelf!Failed, Shelf!System,
     StagedRight, Undecided, Fail, Failed, Return
<1>r. ASSUME NEW v \in Supported[c], Open(c), Return(c, v), dirs[v] # "absent", UNCHANGED dirs
      PROVE Shelf!Reuse(c)
  BY <1>t, <1>r DEF Shelf!Reuse, Shelf!Decide, Shelf!Undecided, StagedRight, Undecided, Return
<1>n. Shelf!Decline(c) \/ Shelf!Reuse(c) \/ Shelf!Stock(c) => Shelf!Next
  BY DEF Shelf!Next
<1>1. CASE SystemGo(c)
  <2>1. PICK r \in {System, Failed} : Return(c, r)
    BY <1>1 DEF SystemGo
  <2>2. Shelf!Decline(c)
    BY <1>t, <1>1, <2>1 DEF SystemGo, Shelf!Decline, Shelf!Decide, Shelf!Undecided, Shelf!Failed,
       Shelf!System, StagedRight, Open, Undecided, Failed, System, Return
  <2>q. QED
    BY <2>2, <1>n
<1>2. CASE List(c) \/ ExtractSome(c) \/ Clean(c) \/ Crash(c) \/ Cancel(c)
  BY <1>2 DEF List, ExtractSome, Clean, Crash, Cancel
<1>3. CASE ProbeInstalled(c)
  <2>1. PICK v \in entries[c] \ tried[c], ok \in BOOLEAN :
           /\ Compatible(c, v, dirs[v], ok)
           /\ IF ok THEN Return(c, v) ELSE UNCHANGED <<pc, outcome>>
    BY <1>3 DEF ProbeInstalled
  <2>2. v \in Version /\ Open(c) /\ UNCHANGED dirs
    BY <1>t, <1>3, <2>1 DEF TypeOK, ProbeInstalled, Open
  <2>3. CASE ok
    <3>1. v \in Supported[c] /\ dirs[v] # "absent"
      BY <2>1, <2>2, <2>3, ProbeSound
    <3>q. QED
      BY <3>1, <2>1, <2>2, <2>3, <1>r, <1>n
  <2>q. QED
    BY <2>1, <2>2, <2>3
<1>4. CASE NoneInstalled(c) \/ Select(c) \/ Stage(c) \/ Download(c) \/ ExtractRest(c) \/ Vet(c)
  <2>1. Open(c) /\ UNCHANGED dirs
    BY <1>4 DEF Open, NoneInstalled, Select, Stage, Download, ExtractRest, Vet
  <2>2. Fail(c) \/ UNCHANGED outcome
    BY <1>4 DEF NoneInstalled, Select, Stage, Download, ExtractRest, Vet
  <2>q. QED
    BY <2>1, <2>2, <1>f, <1>n
<1>5. CASE Commit(c)
  <2>1. /\ release[c] \in Supported[c] /\ staging[c] = "whole" /\ Open(c)
        /\ outcome[c] = Undecided
    BY <1>t, <1>5 DEF Commit, StagedRight, Installing, Open
  <2>2. CASE UNCHANGED <<dirs, outcome>>
    BY <2>2
  <2>3. CASE /\ dirs[release[c]] = "absent"
             /\ dirs' = [dirs EXCEPT ![release[c]] = staging[c]]
             /\ Return(c, release[c])
    <3>1. Shelf!Stock(c)
      BY <2>1, <2>3 DEF Shelf!Stock, Shelf!Decide, Shelf!Undecided, Undecided, Return
    <3>q. QED
      BY <3>1, <1>n
  <2>q. QED
    BY <1>5, <2>2, <2>3 DEF Commit
<1>6. CASE ProbeExisting(c)
  <2>1. PICK ok \in BOOLEAN :
           /\ Compatible(c, release[c], dirs[release[c]], ok)
           /\ IF ok THEN Return(c, release[c]) ELSE Fail(c)
    BY <1>6 DEF ProbeExisting
  <2>2. Open(c) /\ release[c] \in Supported[c] /\ release[c] \in Version /\ UNCHANGED dirs
    BY <1>t, <1>6 DEF ProbeExisting, Open, StagedRight, TypeOK, Installing
  <2>3. CASE ok
    BY <2>1, <2>2, <2>3, ProbeSound, <1>r, <1>n
  <2>4. CASE ~ok
    BY <2>1, <2>2, <2>4, <1>f, <1>n
  <2>q. QED
    BY <2>3, <2>4
<1>q. QED
  BY <1>1, <1>2, <1>3, <1>4, <1>5, <1>6 DEF Step

\* Manager.Ensure implements the shelf of whole toolchains: unverified or unfinished
\* trees never get a version's name, and no call replaces what is installed.
THEOREM Implements == Spec => ShelfSpec
<1>1. Init => Shelf!Init
  BY DEF Init, Shelf!Init, Undecided, Shelf!Undecided
<1>2. Inv /\ [Next]_vars => [Shelf!Next]_(Shelf!vars)
  <2> SUFFICES ASSUME Inv, [Next]_vars PROVE Shelf!Next \/ UNCHANGED <<dirs, outcome>>
    BY DEF Shelf!vars
  <2>1. CASE Publish \/ UNCHANGED vars
    BY <2>1 DEF Publish, vars
  <2>2. CASE Harm
    BY <2>2 DEF Harm, Shelf!Next, Shelf!Harm
  <2>3. ASSUME NEW c \in Call, Step(c) \/ Crash(c) \/ Cancel(c)
        PROVE  Shelf!Next \/ UNCHANGED <<dirs, outcome>>
    BY <2>3, CallRefines
  <2>q. QED
    BY <2>1, <2>2, <2>3 DEF Next
<1>q. QED
  BY <1>1, <1>2, Invariance, PTL DEF Spec, ShelfSpec, Shelf!Spec
=============================================================================
