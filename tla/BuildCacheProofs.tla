-------------------------- MODULE BuildCacheProofs --------------------------
(***************************************************************************)
(* Proofs about BuildCache, for any number of processes, revisions and     *)
(* files.                                                                  *)
(***************************************************************************)
EXTENDS BuildCache, TLAPS

-----------------------------------------------------------------------------
(* Type correctness.                                                       *)

\* The initial process state is well typed: the values AnySource and AnyConfig
\* choose exist.
LEMMA Defaults ==
    /\ AnySource \in Sources /\ AnyConfig \in Configs
    /\ (CHOOSE m \in Modes : TRUE) \in Modes
    /\ NoTree \in Trees /\ NoTree \in Disk
    /\ Trees \subseteq Disk
    /\ \A s \in Sources, c \in Configs : Gen[<<s, c>>] \in Trees
BY ConstantsAssumption DEF AnySource, AnyConfig, NoTree, Trees, Disk, Stamps

\* A process that ends forgets its state, whatever pc it was at.
LEMMA ForgetType ==
    ASSUME TypeOK, NEW p \in Procs, Forget(p)
    PROVE  /\ pc' \in [Procs -> Pcs]
           /\ mode' \in [Procs -> Modes]
           /\ src' \in [Procs -> Sources] /\ cfg' \in [Procs -> Configs]
           /\ key' \in [Procs -> Keys \cup {NoKey}]
           /\ verify' \in [Procs -> {"none", "running", "ok", "bad"}]
           /\ staging' \in [Procs -> Trees]
           /\ stale' \in [Procs -> SUBSET Files] /\ todo' \in [Procs -> SUBSET Files]
           /\ cached' \in [Procs -> BOOLEAN]
           /\ objects' \in [Procs -> Disk]
           /\ candidate' \in [Procs -> Binaries \cup {NoBinary}]
BY Defaults DEF TypeOK, Forget, Goto, Pcs

\* Cutting a store leaves a manifest and a tree of the right shape.
LEMMA CutType ==
    ASSUME TypeOK, NEW p \in Procs, StoreCut(p), KeyInv(p)
    PROVE  /\ manifest' \in Manifests \cup {Missing, Torn}
           /\ work' \in Disk
<1>1. CASE UNCHANGED <<manifest, work>>
  BY <1>1 DEF TypeOK
<1>2. CASE \E f \in todo[p] : work' = [work EXCEPT ![f] = Torn] /\ UNCHANGED manifest
  BY <1>2 DEF TypeOK, Disk
<1>3. CASE /\ pc[p] = "publish"
           /\ manifest' \in {Torn, [key |-> key[p], files |-> staging[p]]}
           /\ UNCHANGED work
  BY <1>3 DEF TypeOK, Manifests, KeyInv, StorePcs
<1>q. QED
  BY <1>1, <1>2, <1>3 DEF StoreCut, At

\* Every step leads from a well-typed state to a well-typed one.
LEMMA TypeStep ==
    ASSUME Inv, [Next]_vars
    PROVE  TypeOK'
<1> USE ConstantsAssumption, Defaults
<1> SUFFICES ASSUME Next PROVE TypeOK'
  BY DEF Inv, TypeOK, vars, shared, locals
<1>1. CASE Edit
  BY <1>1 DEF Inv, TypeOK, Edit, shared, locals
<1>2. ASSUME NEW f \in Files, Damage(f) PROVE TypeOK'
  BY <1>2 DEF Inv, TypeOK, Damage, locals, Disk
<1>3. ASSUME NEW p \in Procs, NEW m \in Modes, Start(p, m) PROVE TypeOK'
  BY <1>3 DEF Inv, TypeOK, Start, shared, Goto, Pcs
<1>4. ASSUME NEW p \in Procs, Progress(p) PROVE TypeOK'
  <2>1. CASE Stage(p)
    BY <2>1 DEF Inv, TypeOK, Stage, shared, Goto, Pcs
  <2>2. CASE OpenCache(p)
    BY <2>2 DEF Inv, TypeOK, OpenCache, locals, Goto, Pcs, At
  <2>3. CASE ComputeKey(p)
    BY <2>3 DEF Inv, TypeOK, ComputeKey, shared, Goto, Pcs, Keys
  <2>4. CASE Lookup(p)
    BY <2>4 DEF Inv, TypeOK, Lookup, shared, locals, Goto, Pcs
  <2>5. CASE Hit(p)
    BY <2>5 DEF Inv, TypeOK, Hit, shared, Goto, Pcs
  <2>6. CASE Generate(p)
    BY <2>6 DEF Inv, TypeOK, Generate, shared, Goto, Pcs
  <2>7. CASE Await(p)
    BY <2>7 DEF Inv, TypeOK, Await, shared, locals, Goto, Pcs, StorePcs
  <2>8. CASE StoreScan(p)
    BY <2>8 DEF Inv, TypeOK, StoreScan, shared, Goto, Pcs, StorePcs
  <2>9. CASE StoreInvalidate(p)
    BY <2>9 DEF Inv, TypeOK, StoreInvalidate, locals, Goto, Pcs, StorePcs
  <2>10. CASE StoreRemove(p)
    <3>1. work' \in Disk
      BY <2>10 DEF Inv, TypeOK, StoreRemove, Disk
    <3>2. stale' \in [Procs -> SUBSET Files] /\ pc' \in [Procs -> Pcs]
      BY <2>10 DEF Inv, TypeOK, StoreRemove, Goto, Pcs, StorePcs
    <3>q. QED
      BY <2>10, <3>1, <3>2 DEF Inv, TypeOK, StoreRemove
  <2>11. CASE StoreWrite(p)
    BY <2>11 DEF Inv, TypeOK, StoreWrite, Goto, Pcs, Disk, Trees
  <2>12. CASE StoreRecheck(p)
    BY <2>12 DEF Inv, TypeOK, StoreRecheck, locals, Goto, Pcs, StorePcs
  <2>13. CASE StorePublish(p)
    BY <2>13 DEF Inv, TypeOK, StorePublish, Goto, Pcs, Manifests, At, KeyInv, StorePcs
  <2>14. CASE StoreFail(p)
    <3>1. StoreCut(p) /\ UNCHANGED <<source, config, lock, damaged, output, metadata>>
      BY <2>14 DEF StoreFail
    <3>2. /\ manifest' \in Manifests \cup {Missing, Torn}
          /\ work' \in Disk
      BY <3>1, CutType DEF Inv
    <3>q. QED
      BY <2>14, <3>1, <3>2 DEF StoreFail, Inv, TypeOK, Goto, Pcs
  <2>15. CASE Return(p)
    BY <2>15 DEF Inv, TypeOK, Return, locals, Goto, Pcs, BuildPcs
  <2>16. CASE Seed(p)
    BY <2>16 DEF Inv, TypeOK, Seed, shared, Goto, Pcs, BuildPcs
  <2>17. CASE Compile(p)
    <3>1. \A f \in Files : Workspace(p)[f] \in Contents \cup {Absent, Torn}
      BY DEF Inv, TypeOK, Workspace, Trees, Disk
    <3>2. objects' \in [Procs -> Disk]
      BY <2>17, <3>1 DEF Inv, TypeOK, Compile, Disk
    <3>q. QED
      BY <2>17, <3>2 DEF Inv, TypeOK, Compile, shared
  <2>18. CASE Link(p)
    BY <2>18 DEF Inv, TypeOK, Link, shared, Goto, Pcs, BuildPcs, Binaries
  <2>19. CASE Install(p)
    BY <2>19 DEF Inv, TypeOK, Install, shared, locals, Goto, Pcs, BuildPcs
  <2>20. CASE WriteMetadata(p)
    BY <2>20 DEF Inv, TypeOK, WriteMetadata, shared, locals, Goto, Pcs, Stamps
  <2>21. CASE Fail(p)
    BY <2>21 DEF Inv, TypeOK, Fail, shared, locals, Goto, Pcs
  <2>22. CASE Close(p)
    BY <2>22, ForgetType DEF Inv, TypeOK, Close
  <2>q. QED
    BY <1>4, <2>1, <2>2, <2>3, <2>4, <2>5, <2>6, <2>7, <2>8, <2>9, <2>10, <2>11, <2>12, <2>13, <2>14, <2>15, <2>16, <2>17, <2>18, <2>19, <2>20, <2>21, <2>22 DEF Progress
<1>5. ASSUME NEW p \in Procs, FinishVerify(p) PROVE TypeOK'
  BY <1>5 DEF Inv, TypeOK, FinishVerify, shared
<1>6. ASSUME NEW p \in Procs, Crash(p) PROVE TypeOK'
  <2>1. Forget(p) /\ StoreCut(p) /\ UNCHANGED <<source, config, damaged, output, metadata>>
    BY <1>6 DEF Crash
  <2>2. lock' \in Procs \cup {Free}
    BY <1>6 DEF Crash, Inv, TypeOK
  <2>3. /\ manifest' \in Manifests \cup {Missing, Torn}
        /\ work' \in Disk
    BY <2>1, CutType DEF Inv
  <2>q. QED
    BY <2>1, <2>2, <2>3, ForgetType DEF Inv, TypeOK
<1>q. QED
  BY <1>1, <1>2, <1>3, <1>4, <1>5, <1>6 DEF Next


-----------------------------------------------------------------------------
(* A step of one process and the others.                                   *)

\* Nothing of q changes: it is not q that moves.
Bystander(q) ==
    /\ pc'[q] = pc[q] /\ src'[q] = src[q] /\ cfg'[q] = cfg[q] /\ key'[q] = key[q]
    /\ verify'[q] = verify[q] /\ staging'[q] = staging[q] /\ todo'[q] = todo[q]
    /\ cached'[q] = cached[q] /\ objects'[q] = objects[q]
    /\ candidate'[q] = candidate[q]

\* The lock passes only from its holder to nobody and from nobody to a taker,
\* so a step of another process p, which changes the cache only under the lock,
\* breaks nothing q relies on.
LEMMA Others ==
    ASSUME Inv, NEW p \in Procs, NEW q \in Procs, p # q, Bystander(q),
           \/ lock' = lock
           \/ lock = Free /\ lock' = p
           \/ lock = p /\ lock' = Free,
           \/ UNCHANGED <<manifest, work, damaged>>
           \/ lock = p
    PROVE  LockInv(q)' /\ KeyInv(q)' /\ PrivateInv(q)' /\ CacheInv(q)'
<1>0. LockInv(q) /\ KeyInv(q) /\ PrivateInv(q) /\ CacheInv(q)
  BY DEF Inv
<1>1. UsesCache(q)' = UsesCache(q)
  BY DEF UsesCache, Bystander
<1>2. UsesCache(q) => lock = q /\ UNCHANGED <<manifest, work, damaged, lock>>
  BY <1>0, ConstantsAssumption DEF LockInv
<1>3. LockInv(q)'
  BY <1>0, <1>1, <1>2, ConstantsAssumption DEF LockInv, Bystander
<1>4. KeyInv(q)'
  BY <1>0 DEF KeyInv, Bystander
<1>5. PrivateInv(q)'
  BY <1>0 DEF PrivateInv, Bystander
<1>6. CacheInv(q)'
  BY <1>0, <1>2 DEF CacheInv, Bystander, UsesCache, Valid, StorePcs
<1>q. QED
  BY <1>3, <1>4, <1>5, <1>6

\* A step of p that leaves the files of the project's build alone leaves the
\* properties of those files alone.
LEMMA Untouched ==
    ASSUME Inv, UNCHANGED <<manifest, work, damaged, output>>
    PROVE  (ManifestFaithful /\ ManifestComplete /\ OutputFaithful)'
BY DEF Inv, ManifestFaithful, ManifestComplete, OutputFaithful

-----------------------------------------------------------------------------
(* A step of one process and itself.                                       *)

Own(p) == LockInv(p) /\ KeyInv(p) /\ PrivateInv(p) /\ CacheInv(p)

\* Ending, in whatever way, gives the lock back and forgets the rest.
LEMMA OwnForget ==
    ASSUME Inv, NEW p \in Procs, Forget(p),
           lock' = IF lock = p THEN Free ELSE lock
    PROVE  Own(p)'
BY ConstantsAssumption
   DEF Inv, TypeOK, Forget, Goto, Own, LockInv, KeyInv, PrivateInv, CacheInv,
       UsesCache, StorePcs, BuildPcs

\* Every step of p leads from what p relies on to what p relies on.
LEMMA OwnStep ==
    ASSUME Inv, NEW p \in Procs,
           \/ \E m \in Modes : Start(p, m)
           \/ Progress(p)
           \/ FinishVerify(p)
           \/ Crash(p)
    PROVE  Own(p)'
<1> USE ConstantsAssumption
<1>0. TypeOK /\ Own(p)
  BY DEF Inv, Own
<1>1. ASSUME NEW m \in Modes, Start(p, m) PROVE Own(p)'
  BY <1>0, <1>1
     DEF TypeOK, Own, Start, shared, At, Goto, LockInv, KeyInv, PrivateInv,
         CacheInv, UsesCache, StorePcs, BuildPcs
<1>2. CASE FinishVerify(p)
  BY <1>0, <1>2
     DEF TypeOK, Own, FinishVerify, shared, LockInv, KeyInv, PrivateInv,
         CacheInv, UsesCache, Valid, StorePcs, BuildPcs
<1>3. CASE Crash(p)
  BY <1>3, OwnForget DEF Crash
<1>4. CASE Progress(p)
  <2>1. CASE Stage(p)
    <3>1. LockInv(p)'
      BY <1>0, <2>1 DEF TypeOK, Own, Stage, shared, At, Goto, LockInv, KeyInv, CacheInv, UsesCache, StorePcs, BuildPcs
    <3>2. KeyInv(p)'
      BY <1>0, <2>1 DEF TypeOK, Own, Stage, shared, At, Goto, KeyInv, StorePcs, BuildPcs
    <3>3. PrivateInv(p)'
      BY <1>0, <2>1 DEF TypeOK, Own, Stage, shared, At, Goto, PrivateInv, CacheInv, KeyInv, StorePcs, BuildPcs
    <3>4. CacheInv(p)'
      BY <1>0, <2>1 DEF TypeOK, Own, Stage, shared, At, Goto, CacheInv, KeyInv, PrivateInv, LockInv, UsesCache, Valid, StorePcs, BuildPcs
    <3>q. QED
      BY <3>1, <3>2, <3>3, <3>4 DEF Own
  <2>2. CASE OpenCache(p)
    <3>1. LockInv(p)'
      BY <1>0, <2>2 DEF TypeOK, Own, OpenCache, locals, At, Goto, LockInv, KeyInv, CacheInv, UsesCache, StorePcs, BuildPcs
    <3>2. KeyInv(p)'
      BY <1>0, <2>2 DEF TypeOK, Own, OpenCache, locals, At, Goto, KeyInv, StorePcs, BuildPcs
    <3>3. PrivateInv(p)'
      BY <1>0, <2>2 DEF TypeOK, Own, OpenCache, locals, At, Goto, PrivateInv, CacheInv, KeyInv, StorePcs, BuildPcs
    <3>4. CacheInv(p)'
      BY <1>0, <2>2 DEF TypeOK, Own, OpenCache, locals, At, Goto, CacheInv, KeyInv, PrivateInv, LockInv, UsesCache, Valid, StorePcs, BuildPcs
    <3>q. QED
      BY <3>1, <3>2, <3>3, <3>4 DEF Own
  <2>3. CASE ComputeKey(p)
    <3>1. LockInv(p)'
      BY <1>0, <2>3 DEF TypeOK, Own, ComputeKey, shared, At, Goto, LockInv, KeyInv, CacheInv, UsesCache, StorePcs, BuildPcs
    <3>2. KeyInv(p)'
      <4>1. CASE UNCHANGED key /\ Goto(p, "generate")
        BY <1>0, <2>3, <4>1 DEF TypeOK, Own, ComputeKey, At, Goto, KeyInv, StorePcs
      <4>2. CASE /\ key' = [key EXCEPT ![p] = [src |-> src[p], staged |-> cfg[p],
                                               root |-> config]]
                 /\ Goto(p, "lookup")
        <5>1. key'[p] = [src |-> src[p], staged |-> cfg[p], root |-> config]
          BY <1>0, <4>2 DEF TypeOK
        <5>2. key'[p] \in Keys
          BY <1>0, <5>1 DEF TypeOK, Keys
        <5>3. pc'[p] = "lookup" /\ src'[p] = src[p] /\ cfg'[p] = cfg[p]
          BY <1>0, <2>3, <4>2 DEF TypeOK, ComputeKey, Goto
        <5>q. QED
          BY <5>1, <5>2, <5>3 DEF KeyInv
      <4>q. QED
        BY <2>3, <4>1, <4>2 DEF ComputeKey
    <3>3. PrivateInv(p)'
      BY <1>0, <2>3 DEF TypeOK, Own, ComputeKey, shared, At, Goto, PrivateInv, CacheInv, KeyInv, StorePcs, BuildPcs
    <3>4. CacheInv(p)'
      BY <1>0, <2>3 DEF TypeOK, Own, ComputeKey, shared, At, Goto, CacheInv, KeyInv, PrivateInv, LockInv, UsesCache, Valid, StorePcs, BuildPcs
    <3>q. QED
      BY <3>1, <3>2, <3>3, <3>4 DEF Own
  <2>4. CASE Lookup(p)
    <3>1. LockInv(p)'
      BY <1>0, <2>4 DEF TypeOK, Own, Lookup, shared, locals, At, Goto, LockInv, KeyInv, CacheInv, UsesCache, StorePcs, BuildPcs
    <3>2. KeyInv(p)'
      BY <1>0, <2>4 DEF TypeOK, Own, Lookup, shared, locals, At, Goto, KeyInv, StorePcs, BuildPcs
    <3>3. PrivateInv(p)'
      BY <1>0, <2>4 DEF TypeOK, Own, Lookup, shared, locals, At, Goto, PrivateInv, CacheInv, KeyInv, StorePcs, BuildPcs
    <3>4. CacheInv(p)'
      BY <1>0, <2>4 DEF TypeOK, Own, Lookup, shared, locals, At, Goto, CacheInv, KeyInv, PrivateInv, LockInv, UsesCache, Valid, StorePcs, BuildPcs
    <3>q. QED
      BY <3>1, <3>2, <3>3, <3>4 DEF Own
  <2>5. CASE Hit(p)
    <3>1. LockInv(p)'
      BY <1>0, <2>5 DEF TypeOK, Own, Hit, shared, At, Goto, LockInv, KeyInv, CacheInv, UsesCache, StorePcs, BuildPcs
    <3>2. KeyInv(p)'
      BY <1>0, <2>5 DEF TypeOK, Own, Hit, shared, At, Goto, KeyInv, StorePcs, BuildPcs
    <3>3. PrivateInv(p)'
      BY <1>0, <2>5 DEF TypeOK, Own, Hit, shared, At, Goto, PrivateInv, CacheInv, KeyInv, StorePcs, BuildPcs
    <3>4. CacheInv(p)'
      <4>1. work = Gen[<<src[p], cfg[p]>>]
        BY <1>0, <2>5
           DEF Inv, Own, Hit, At, CacheInv, KeyInv, Valid, ManifestFaithful
      <4>q. QED
        BY <1>0, <2>5, <4>1 DEF TypeOK, Own, Hit, shared, At, Goto, CacheInv
    <3>q. QED
      BY <3>1, <3>2, <3>3, <3>4 DEF Own
  <2>6. CASE Generate(p)
    <3>1. LockInv(p)'
      BY <1>0, <2>6 DEF TypeOK, Own, Generate, shared, At, Goto, LockInv, KeyInv, CacheInv, UsesCache, StorePcs, BuildPcs
    <3>2. KeyInv(p)'
      BY <1>0, <2>6 DEF TypeOK, Own, Generate, shared, At, Goto, KeyInv, StorePcs, BuildPcs
    <3>3. PrivateInv(p)'
      BY <1>0, <2>6 DEF TypeOK, Own, Generate, shared, At, Goto, PrivateInv, CacheInv, KeyInv, StorePcs, BuildPcs
    <3>4. CacheInv(p)'
      BY <1>0, <2>6 DEF TypeOK, Own, Generate, shared, At, Goto, CacheInv, KeyInv, PrivateInv, LockInv, UsesCache, Valid, StorePcs, BuildPcs
    <3>q. QED
      BY <3>1, <3>2, <3>3, <3>4 DEF Own
  <2>7. CASE Await(p)
    <3>1. LockInv(p)'
      BY <1>0, <2>7 DEF TypeOK, Own, Await, shared, locals, At, Goto, LockInv, KeyInv, CacheInv, UsesCache, StorePcs, BuildPcs
    <3>2. KeyInv(p)'
      BY <1>0, <2>7 DEF TypeOK, Own, Await, shared, locals, At, Goto, KeyInv, StorePcs, BuildPcs
    <3>3. PrivateInv(p)'
      <4>1. /\ pc'[p] \in {"return", "scan", "close"}
            /\ pc'[p] # "close" => verify[p] = "ok"
        BY <1>0, <2>7 DEF TypeOK, Await, Goto
      <4>2. staging[p] = Gen[<<src[p], cfg[p]>>]
        BY <1>0, <2>7 DEF Own, Await, At, PrivateInv, CacheInv, BuildPcs
      <4>q. QED
        BY <2>7, <4>1, <4>2 DEF Await, locals, PrivateInv, StorePcs, BuildPcs
    <3>4. CacheInv(p)'
      BY <1>0, <2>7 DEF TypeOK, Own, Await, shared, locals, At, Goto, CacheInv, KeyInv, PrivateInv, LockInv, UsesCache, Valid, StorePcs, BuildPcs
    <3>q. QED
      BY <3>1, <3>2, <3>3, <3>4 DEF Own
  <2>8. CASE StoreScan(p)
    <3>1. LockInv(p)'
      BY <1>0, <2>8 DEF TypeOK, Own, StoreScan, shared, At, Goto, LockInv, KeyInv, CacheInv, UsesCache, StorePcs, BuildPcs
    <3>2. KeyInv(p)'
      BY <1>0, <2>8 DEF TypeOK, Own, StoreScan, shared, At, Goto, KeyInv, StorePcs, BuildPcs
    <3>3. PrivateInv(p)'
      BY <1>0, <2>8 DEF TypeOK, Own, StoreScan, shared, At, Goto, PrivateInv, CacheInv, KeyInv, StorePcs, BuildPcs
    <3>4. CacheInv(p)'
      BY <1>0, <2>8 DEF TypeOK, Own, StoreScan, shared, At, Goto, CacheInv, KeyInv, PrivateInv, LockInv, UsesCache, Valid, StorePcs, BuildPcs
    <3>q. QED
      BY <3>1, <3>2, <3>3, <3>4 DEF Own
  <2>9. CASE StoreInvalidate(p)
    <3>1. LockInv(p)'
      BY <1>0, <2>9 DEF TypeOK, Own, StoreInvalidate, locals, At, Goto, LockInv, KeyInv, CacheInv, UsesCache, StorePcs, BuildPcs
    <3>2. KeyInv(p)'
      BY <1>0, <2>9 DEF TypeOK, Own, StoreInvalidate, locals, At, Goto, KeyInv, StorePcs, BuildPcs
    <3>3. PrivateInv(p)'
      BY <1>0, <2>9 DEF TypeOK, Own, StoreInvalidate, locals, At, Goto, PrivateInv, CacheInv, KeyInv, StorePcs, BuildPcs
    <3>4. CacheInv(p)'
      BY <1>0, <2>9 DEF TypeOK, Own, StoreInvalidate, locals, At, Goto, CacheInv, KeyInv, PrivateInv, LockInv, UsesCache, Valid, StorePcs, BuildPcs
    <3>q. QED
      BY <3>1, <3>2, <3>3, <3>4 DEF Own
  <2>10. CASE StoreRemove(p)
    <3>1. LockInv(p)'
      BY <1>0, <2>10 DEF TypeOK, Own, StoreRemove, At, Goto, LockInv, KeyInv, CacheInv, UsesCache, StorePcs, BuildPcs
    <3>2. KeyInv(p)'
      BY <1>0, <2>10 DEF TypeOK, Own, StoreRemove, At, Goto, KeyInv, StorePcs, BuildPcs
    <3>3. PrivateInv(p)'
      BY <1>0, <2>10 DEF TypeOK, Own, StoreRemove, At, Goto, PrivateInv, CacheInv, KeyInv, StorePcs, BuildPcs
    <3>4. CacheInv(p)'
      BY <1>0, <2>10 DEF TypeOK, Own, StoreRemove, At, Goto, CacheInv, KeyInv, PrivateInv, LockInv, UsesCache, Valid, StorePcs, BuildPcs
    <3>q. QED
      BY <3>1, <3>2, <3>3, <3>4 DEF Own
  <2>11. CASE StoreWrite(p)
    <3>1. LockInv(p)'
      BY <1>0, <2>11 DEF TypeOK, Own, StoreWrite, At, Goto, LockInv, KeyInv, CacheInv, UsesCache, StorePcs, BuildPcs
    <3>2. KeyInv(p)'
      BY <1>0, <2>11 DEF TypeOK, Own, StoreWrite, At, Goto, KeyInv, StorePcs, BuildPcs
    <3>3. PrivateInv(p)'
      BY <1>0, <2>11 DEF TypeOK, Own, StoreWrite, At, Goto, PrivateInv, CacheInv, KeyInv, StorePcs, BuildPcs
    <3>4. CacheInv(p)'
      BY <1>0, <2>11 DEF TypeOK, Own, StoreWrite, At, Goto, CacheInv, KeyInv, PrivateInv, LockInv, UsesCache, Valid, StorePcs, BuildPcs
    <3>q. QED
      BY <3>1, <3>2, <3>3, <3>4 DEF Own
  <2>12. CASE StoreRecheck(p)
    <3>1. LockInv(p)'
      BY <1>0, <2>12 DEF TypeOK, Own, StoreRecheck, locals, At, Goto, LockInv, KeyInv, CacheInv, UsesCache, StorePcs, BuildPcs
    <3>2. KeyInv(p)'
      BY <1>0, <2>12 DEF TypeOK, Own, StoreRecheck, locals, At, Goto, KeyInv, StorePcs, BuildPcs
    <3>3. PrivateInv(p)'
      BY <1>0, <2>12 DEF TypeOK, Own, StoreRecheck, locals, At, Goto, PrivateInv, CacheInv, KeyInv, StorePcs, BuildPcs
    <3>4. CacheInv(p)'
      BY <1>0, <2>12 DEF TypeOK, Own, StoreRecheck, locals, At, Goto, CacheInv, KeyInv, PrivateInv, LockInv, UsesCache, Valid, StorePcs, BuildPcs
    <3>q. QED
      BY <3>1, <3>2, <3>3, <3>4 DEF Own
  <2>13. CASE StorePublish(p)
    <3>1. LockInv(p)'
      BY <1>0, <2>13 DEF TypeOK, Own, StorePublish, At, Goto, LockInv, KeyInv, CacheInv, UsesCache, StorePcs, BuildPcs
    <3>2. KeyInv(p)'
      BY <1>0, <2>13 DEF TypeOK, Own, StorePublish, At, Goto, KeyInv, StorePcs, BuildPcs
    <3>3. PrivateInv(p)'
      BY <1>0, <2>13 DEF TypeOK, Own, StorePublish, At, Goto, PrivateInv, CacheInv, KeyInv, StorePcs, BuildPcs
    <3>4. CacheInv(p)'
      <4>1. work = Gen[<<src[p], cfg[p]>>]
        BY <1>0, <2>13 DEF Own, StorePublish, At, CacheInv, PrivateInv, StorePcs, BuildPcs
      <4>q. QED
        BY <1>0, <2>13, <4>1 DEF TypeOK, StorePublish, At, Goto, CacheInv
    <3>q. QED
      BY <3>1, <3>2, <3>3, <3>4 DEF Own
  <2>14. CASE StoreFail(p)
    <3>1. LockInv(p)'
      BY <1>0, <2>14 DEF TypeOK, Own, StoreFail, StoreCut, At, Goto, LockInv, KeyInv, CacheInv, UsesCache, StorePcs, BuildPcs
    <3>2. KeyInv(p)'
      BY <1>0, <2>14 DEF TypeOK, Own, StoreFail, StoreCut, At, Goto, KeyInv, StorePcs, BuildPcs
    <3>3. PrivateInv(p)'
      <4>1. pc'[p] = "return" /\ verify[p] = "ok"
        BY <1>0, <2>14 DEF TypeOK, Own, StoreFail, Goto, PrivateInv
      <4>2. staging[p] = Gen[<<src[p], cfg[p]>>]
        BY <1>0, <2>14 DEF Own, StoreFail, PrivateInv, CacheInv, StorePcs, BuildPcs
      <4>q. QED
        BY <2>14, <4>1, <4>2 DEF StoreFail, PrivateInv, StorePcs, BuildPcs
    <3>4. CacheInv(p)'
      BY <1>0, <2>14 DEF TypeOK, Own, StoreFail, StoreCut, At, Goto, CacheInv, KeyInv, PrivateInv, LockInv, UsesCache, Valid, StorePcs, BuildPcs
    <3>q. QED
      BY <3>1, <3>2, <3>3, <3>4 DEF Own
  <2>15. CASE Return(p)
    <3>1. LockInv(p)'
      BY <1>0, <2>15 DEF TypeOK, Own, Return, locals, At, Goto, LockInv, KeyInv, CacheInv, UsesCache, StorePcs, BuildPcs
    <3>2. KeyInv(p)'
      BY <1>0, <2>15 DEF TypeOK, Own, Return, locals, At, Goto, KeyInv, StorePcs, BuildPcs
    <3>3. PrivateInv(p)'
      BY <1>0, <2>15 DEF TypeOK, Own, Return, locals, At, Goto, PrivateInv, CacheInv, KeyInv, StorePcs, BuildPcs
    <3>4. CacheInv(p)'
      BY <1>0, <2>15 DEF TypeOK, Own, Return, locals, At, Goto, CacheInv, KeyInv, PrivateInv, LockInv, UsesCache, Valid, StorePcs, BuildPcs
    <3>q. QED
      BY <3>1, <3>2, <3>3, <3>4 DEF Own
  <2>16. CASE Seed(p)
    <3>1. LockInv(p)'
      BY <1>0, <2>16 DEF TypeOK, Own, Seed, shared, At, Goto, LockInv, KeyInv, CacheInv, UsesCache, StorePcs, BuildPcs
    <3>2. KeyInv(p)'
      BY <1>0, <2>16 DEF TypeOK, Own, Seed, shared, At, Goto, KeyInv, StorePcs, BuildPcs
    <3>3. PrivateInv(p)'
      BY <1>0, <2>16 DEF TypeOK, Own, Seed, shared, At, Goto, PrivateInv, CacheInv, KeyInv, StorePcs, BuildPcs
    <3>4. CacheInv(p)'
      BY <1>0, <2>16 DEF TypeOK, Own, Seed, shared, At, Goto, CacheInv, KeyInv, PrivateInv, LockInv, UsesCache, Valid, StorePcs, BuildPcs
    <3>q. QED
      BY <3>1, <3>2, <3>3, <3>4 DEF Own
  <2>17. CASE Compile(p)
    <3>1. LockInv(p)'
      BY <1>0, <2>17 DEF TypeOK, Own, Compile, shared, At, Goto, LockInv, KeyInv, CacheInv, UsesCache, StorePcs, BuildPcs
    <3>2. KeyInv(p)'
      BY <1>0, <2>17 DEF TypeOK, Own, Compile, shared, At, Goto, KeyInv, StorePcs, BuildPcs
    <3>3. PrivateInv(p)'
      <4> DEFINE tree == Gen[<<src[p], cfg[p]>>]
      <4>1. Workspace(p) = tree /\ verify[p] = "ok"
        BY <1>0, <2>17
           DEF Own, Compile, At, Workspace, CacheInv, PrivateInv, BuildPcs
      <4>2. \A f \in Files \ todo[p]' : objects'[p][f] = tree[f]
        <5>1. \A f \in Files \ todo[p] : objects[p][f] = tree[f]
          BY <1>0, <2>17 DEF Own, Compile, At, PrivateInv
        <5>2. PICK f \in todo[p] :
                 /\ objects' = [objects EXCEPT ![p][f] = Workspace(p)[f]]
                 /\ todo' = [todo EXCEPT ![p] = @ \ {f}]
          BY <2>17 DEF Compile
        <5>3. todo'[p] = todo[p] \ {f}
          BY <1>0, <5>2 DEF TypeOK
        <5>4. \A g \in Files :
                 objects'[p][g] = IF g = f THEN tree[f] ELSE objects[p][g]
          BY <1>0, <4>1, <5>2 DEF TypeOK, Disk
        <5>q. QED
          BY <5>1, <5>3, <5>4
      <4>q. QED
        BY <1>0, <2>17, <4>1, <4>2
           DEF Own, Compile, At, PrivateInv, BuildPcs, StorePcs
    <3>4. CacheInv(p)'
      BY <1>0, <2>17 DEF TypeOK, Own, Compile, shared, At, Goto, CacheInv, KeyInv, PrivateInv, LockInv, UsesCache, Valid, StorePcs, BuildPcs
    <3>q. QED
      BY <3>1, <3>2, <3>3, <3>4 DEF Own
  <2>18. CASE Link(p)
    <3>1. LockInv(p)'
      BY <1>0, <2>18 DEF TypeOK, Own, Link, shared, At, Goto, LockInv, KeyInv, CacheInv, UsesCache, StorePcs, BuildPcs
    <3>2. KeyInv(p)'
      BY <1>0, <2>18 DEF TypeOK, Own, Link, shared, At, Goto, KeyInv, StorePcs, BuildPcs
    <3>3. PrivateInv(p)'
      <4>1. \A f \in Files : objects[p][f] = Gen[<<src[p], cfg[p]>>][f]
        BY <1>0, <2>18 DEF Own, Link, At, PrivateInv
      <4>2. objects[p] = Gen[<<src[p], cfg[p]>>]
        <5>1. objects[p] \in Disk /\ Gen[<<src[p], cfg[p]>>] \in Disk
          BY <1>0, Defaults DEF TypeOK
        <5>q. QED
          BY <4>1, <5>1 DEF Disk
      <4>3. pc'[p] = "install" /\ candidate'[p] = [src |-> src[p], cfg |-> cfg[p],
                                                   tree |-> objects[p]]
        BY <1>0, <2>18 DEF TypeOK, Link, Goto
      <4>q. QED
        BY <1>0, <2>18, <4>2, <4>3
           DEF Own, Link, At, PrivateInv, BuildPcs, StorePcs
    <3>4. CacheInv(p)'
      BY <1>0, <2>18 DEF TypeOK, Own, Link, shared, At, Goto, CacheInv, KeyInv, PrivateInv, LockInv, UsesCache, Valid, StorePcs, BuildPcs
    <3>q. QED
      BY <3>1, <3>2, <3>3, <3>4 DEF Own
  <2>19. CASE Install(p)
    <3>1. LockInv(p)'
      BY <1>0, <2>19 DEF TypeOK, Own, Install, shared, locals, At, Goto, LockInv, KeyInv, CacheInv, UsesCache, StorePcs, BuildPcs
    <3>2. KeyInv(p)'
      BY <1>0, <2>19 DEF TypeOK, Own, Install, shared, locals, At, Goto, KeyInv, StorePcs, BuildPcs
    <3>3. PrivateInv(p)'
      BY <1>0, <2>19 DEF TypeOK, Own, Install, shared, locals, At, Goto, PrivateInv, CacheInv, KeyInv, StorePcs, BuildPcs
    <3>4. CacheInv(p)'
      BY <1>0, <2>19 DEF TypeOK, Own, Install, shared, locals, At, Goto, CacheInv, KeyInv, PrivateInv, LockInv, UsesCache, Valid, StorePcs, BuildPcs
    <3>q. QED
      BY <3>1, <3>2, <3>3, <3>4 DEF Own
  <2>20. CASE WriteMetadata(p)
    <3>1. LockInv(p)'
      BY <1>0, <2>20 DEF TypeOK, Own, WriteMetadata, shared, locals, At, Goto, LockInv, KeyInv, CacheInv, UsesCache, StorePcs, BuildPcs
    <3>2. KeyInv(p)'
      BY <1>0, <2>20 DEF TypeOK, Own, WriteMetadata, shared, locals, At, Goto, KeyInv, StorePcs, BuildPcs
    <3>3. PrivateInv(p)'
      BY <1>0, <2>20 DEF TypeOK, Own, WriteMetadata, shared, locals, At, Goto, PrivateInv, CacheInv, KeyInv, StorePcs, BuildPcs
    <3>4. CacheInv(p)'
      BY <1>0, <2>20 DEF TypeOK, Own, WriteMetadata, shared, locals, At, Goto, CacheInv, KeyInv, PrivateInv, LockInv, UsesCache, Valid, StorePcs, BuildPcs
    <3>q. QED
      BY <3>1, <3>2, <3>3, <3>4 DEF Own
  <2>21. CASE Fail(p)
    <3>1. LockInv(p)'
      BY <1>0, <2>21 DEF TypeOK, Own, Fail, shared, locals, At, Goto, LockInv, KeyInv, CacheInv, UsesCache, StorePcs, BuildPcs
    <3>2. KeyInv(p)'
      BY <1>0, <2>21 DEF TypeOK, Own, Fail, shared, locals, At, Goto, KeyInv, StorePcs, BuildPcs
    <3>3. PrivateInv(p)'
      BY <1>0, <2>21 DEF TypeOK, Own, Fail, shared, locals, At, Goto, PrivateInv, CacheInv, KeyInv, StorePcs, BuildPcs
    <3>4. CacheInv(p)'
      BY <1>0, <2>21 DEF TypeOK, Own, Fail, shared, locals, At, Goto, CacheInv, KeyInv, PrivateInv, LockInv, UsesCache, Valid, StorePcs, BuildPcs
    <3>q. QED
      BY <3>1, <3>2, <3>3, <3>4 DEF Own
  <2>22. CASE Close(p)
    BY <2>22, OwnForget DEF Close
  <2>q. QED
    BY <1>4, <2>1, <2>2, <2>3, <2>4, <2>5, <2>6, <2>7, <2>8, <2>9, <2>10, <2>11, <2>12, <2>13, <2>14, <2>15, <2>16, <2>17, <2>18, <2>19, <2>20, <2>21, <2>22 DEF Progress
<1>q. QED
  BY <1>1, <1>2, <1>3, <1>4

-----------------------------------------------------------------------------
(* The cache entry and the executable.                                     *)

\* The steps of p that touch the manifest, the tree or the executable.
LEMMA FilesStep ==
    ASSUME Inv, NEW p \in Procs,
           \/ \E m \in Modes : Start(p, m)
           \/ Progress(p)
           \/ FinishVerify(p)
           \/ Crash(p)
    PROVE  (ManifestFaithful /\ ManifestComplete /\ OutputFaithful)'
<1> USE ConstantsAssumption
<1>0. /\ TypeOK /\ Own(p)
      /\ ManifestFaithful /\ ManifestComplete /\ OutputFaithful
  BY DEF Inv, Own
<1>1. CASE StoreInvalidate(p)
  BY <1>0, <1>1
     DEF StoreInvalidate, ManifestFaithful, ManifestComplete, OutputFaithful
<1>2. CASE StoreRemove(p) \/ StoreWrite(p)
  <2>1. manifest' \notin Manifests
    BY <1>0, <1>2 DEF Own, StoreRemove, StoreWrite, At, CacheInv
  <2>q. QED
    BY <1>0, <1>2, <2>1
       DEF StoreRemove, StoreWrite, ManifestFaithful, ManifestComplete,
           OutputFaithful
<1>3. CASE StoreRecheck(p)
  BY <1>0, <1>3
     DEF StoreRecheck, Own, At, CacheInv, ManifestFaithful, ManifestComplete,
         OutputFaithful
<1>4. CASE StorePublish(p)
  <2>1. /\ manifest' = [key |-> key[p], files |-> staging[p]]
        /\ key[p].src = src[p] /\ key[p].staged = cfg[p]
        /\ work = staging[p] /\ staging[p] = Gen[<<src[p], cfg[p]>>]
    BY <1>0, <1>4
       DEF StorePublish, Own, At, KeyInv, PrivateInv, CacheInv, StorePcs, BuildPcs
  <2>q. QED
    BY <1>0, <1>4, <2>1
       DEF StorePublish, ManifestFaithful, ManifestComplete, OutputFaithful
<1>5. CASE StoreCut(p) /\ UNCHANGED <<damaged, output>>
  <2>1. CASE UNCHANGED <<manifest, work>>
    BY <1>5, <2>1, Untouched
  <2>2. CASE At(p, "write") /\ UNCHANGED manifest
    BY <1>0, <1>5, <2>2
       DEF Own, At, CacheInv, ManifestFaithful, ManifestComplete, OutputFaithful
  <2>3. CASE /\ At(p, "publish")
             /\ manifest' \in {Torn, [key |-> key[p], files |-> staging[p]]}
             /\ UNCHANGED work
    <3>1. /\ key[p].src = src[p] /\ key[p].staged = cfg[p]
          /\ work = staging[p] /\ staging[p] = Gen[<<src[p], cfg[p]>>]
      BY <1>0, <2>3
         DEF Own, At, KeyInv, PrivateInv, CacheInv, StorePcs, BuildPcs
    <3>q. QED
      BY <1>0, <1>5, <2>3, <3>1
         DEF ManifestFaithful, ManifestComplete, OutputFaithful
  <2>q. QED
    BY <1>5, <2>1, <2>2, <2>3 DEF StoreCut
<1>6. CASE Install(p)
  <2>1. output' = [src |-> src[p], cfg |-> cfg[p], tree |-> Gen[<<src[p], cfg[p]>>]]
    BY <1>0, <1>6 DEF Install, Own, At, PrivateInv
  <2>q. QED
    BY <1>0, <1>6, <2>1
       DEF Install, shared, ManifestFaithful, ManifestComplete, OutputFaithful
<1>7. ASSUME \/ \E m \in Modes : Start(p, m)
             \/ Stage(p) \/ OpenCache(p) \/ ComputeKey(p) \/ Lookup(p) \/ Hit(p)
             \/ Generate(p) \/ Await(p) \/ StoreScan(p) \/ Return(p) \/ Seed(p)
             \/ Compile(p) \/ Link(p) \/ WriteMetadata(p) \/ Fail(p) \/ Close(p)
             \/ FinishVerify(p)
      PROVE  (ManifestFaithful /\ ManifestComplete /\ OutputFaithful)'
  <2>1. UNCHANGED <<manifest, work, damaged, output>>
    BY <1>7 DEF Start, Stage, OpenCache, ComputeKey, Lookup, Hit, Generate, Await,
                StoreScan, Return, Seed, Compile, Link, WriteMetadata, Fail, Close,
                FinishVerify, shared
  <2>q. QED
    BY <2>1, Untouched
<1>8. CASE StoreFail(p) \/ Crash(p)
  BY <1>5, <1>8 DEF StoreFail, Crash
<1>q. QED
  BY <1>1, <1>2, <1>3, <1>4, <1>6, <1>7, <1>8 DEF Progress

\* A step of p concerns no other process, moves the lock only to or from p,
\* and touches the cache only if p holds the lock.
LEMMA StepFrame ==
    ASSUME Inv, NEW p \in Procs, NEW q \in Procs, p # q,
           \/ \E m \in Modes : Start(p, m)
           \/ Progress(p)
           \/ FinishVerify(p)
           \/ Crash(p)
    PROVE  /\ Bystander(q)
           /\ \/ lock' = lock
              \/ lock = Free /\ lock' = p
              \/ lock = p /\ lock' = Free
           /\ \/ UNCHANGED <<manifest, work, damaged>>
              \/ lock = p
<1>0. TypeOK /\ Own(p)
  BY DEF Inv, Own
<1>1. Bystander(q)
  <2>1. CASE \/ \E m \in Modes : Start(p, m)
             \/ Stage(p) \/ OpenCache(p) \/ ComputeKey(p) \/ Lookup(p) \/ Hit(p)
             \/ Generate(p) \/ Await(p) \/ FinishVerify(p) \/ Return(p)
    BY <1>0, <2>1
       DEF TypeOK, Start, Stage, OpenCache, ComputeKey, Lookup, Hit, Generate,
           Await, FinishVerify, Return, locals, Goto, Bystander
  <2>2. CASE \/ StoreScan(p) \/ StoreInvalidate(p) \/ StoreRemove(p)
             \/ StoreWrite(p) \/ StoreRecheck(p) \/ StorePublish(p) \/ StoreFail(p)
    BY <1>0, <2>2
       DEF TypeOK, StoreScan, StoreInvalidate, StoreRemove, StoreWrite,
           StoreRecheck, StorePublish, StoreFail, locals, Goto, Bystander
  <2>3. CASE \/ Seed(p) \/ Compile(p) \/ Link(p) \/ Install(p) \/ WriteMetadata(p)
             \/ Fail(p)
    BY <1>0, <2>3
       DEF TypeOK, Seed, Compile, Link, Install, WriteMetadata, Fail, locals, Goto,
           Bystander
  <2>4. CASE Close(p) \/ Crash(p)
    BY <1>0, <2>4 DEF TypeOK, Close, Crash, Forget, Goto, Bystander
  <2>q. QED
    BY <2>1, <2>2, <2>3, <2>4 DEF Progress
<1>2. \/ UNCHANGED <<manifest, work, damaged>>
      \/ pc[p] \in StorePcs
  BY DEF Start, Progress, Stage, OpenCache, ComputeKey, Lookup, Hit, Generate,
         Await, FinishVerify, Return, StoreScan, StoreInvalidate, StoreRemove,
         StoreWrite, StoreRecheck, StorePublish, StoreFail, StoreCut, Seed, Compile,
         Link, Install, WriteMetadata, Fail, Close, Crash, shared, At, StorePcs
<1>3. \/ lock' = lock
      \/ lock = Free /\ lock' = p
      \/ lock = p /\ lock' = Free
  BY DEF Start, Progress, Stage, OpenCache, ComputeKey, Lookup, Hit, Generate,
         Await, FinishVerify, Return, StoreScan, StoreInvalidate, StoreRemove,
         StoreWrite, StoreRecheck, StorePublish, StoreFail, Seed, Compile,
         Link, Install, WriteMetadata, Fail, Close, Crash, shared
<1>q. QED
  BY <1>0, <1>1, <1>2, <1>3 DEF Own, LockInv, UsesCache

-----------------------------------------------------------------------------
(* The theorems.                                                           *)

\* The invariant holds at first.
LEMMA InitInv == Init => Inv
<1> SUFFICES ASSUME Init PROVE Inv
  OBVIOUS
<1> USE ConstantsAssumption, Defaults
<1>1. TypeOK
  BY DEF Init, TypeOK, Pcs
<1>2. \A p \in Procs : LockInv(p) /\ KeyInv(p) /\ PrivateInv(p) /\ CacheInv(p)
  BY DEF Init, LockInv, KeyInv, PrivateInv, CacheInv, UsesCache, StorePcs, BuildPcs
<1>3. ManifestFaithful /\ ManifestComplete /\ OutputFaithful
  BY DEF Init, ManifestFaithful, ManifestComplete, OutputFaithful
<1>q. QED
  BY <1>1, <1>2, <1>3 DEF Inv

\* Every step of a compiler, an editor or the kernel keeps the invariant.
LEMMA NextInv == Inv /\ [Next]_vars => Inv'
<1> SUFFICES ASSUME Inv, [Next]_vars PROVE Inv'
  OBVIOUS
<1>1. TypeOK'
  BY TypeStep
<1>2. CASE UNCHANGED vars \/ Edit
  <2>1. UNCHANGED <<shared, output, pc, locals>>
    BY <1>2 DEF vars, Edit
  <2>2. \A p \in Procs : (LockInv(p) /\ KeyInv(p) /\ PrivateInv(p) /\ CacheInv(p))'
    BY <2>1 DEF Inv, shared, locals, LockInv, KeyInv, PrivateInv, CacheInv,
                UsesCache, Valid
  <2>q. QED
    BY <1>1, <2>1, <2>2, Untouched DEF Inv, shared
<1>3. ASSUME NEW f \in Files, Damage(f) PROVE Inv'
  <2>1. \A p \in Procs : ~UsesCache(p)
    BY <1>3, ConstantsAssumption DEF Damage, Inv, LockInv
  <2>2. \A p \in Procs : (LockInv(p) /\ KeyInv(p) /\ PrivateInv(p) /\ CacheInv(p))'
    BY <1>3, <2>1
       DEF Inv, Damage, locals, LockInv, KeyInv, PrivateInv, CacheInv, UsesCache,
           StorePcs
  <2>3. (ManifestFaithful /\ ManifestComplete /\ OutputFaithful)'
    BY <1>3 DEF Inv, Damage, ManifestFaithful, ManifestComplete, OutputFaithful
  <2>q. QED
    BY <1>1, <2>2, <2>3 DEF Inv
<1>4. ASSUME NEW p \in Procs,
             \/ \E m \in Modes : Start(p, m)
             \/ Progress(p)
             \/ FinishVerify(p)
             \/ Crash(p)
      PROVE  Inv'
  <2>1. \A q \in Procs : (LockInv(q) /\ KeyInv(q) /\ PrivateInv(q) /\ CacheInv(q))'
    <3> TAKE q \in Procs
    <3>1. CASE q = p
      BY <1>4, <3>1, OwnStep DEF Own
    <3>2. CASE q # p
      BY <1>4, <3>2, StepFrame, Others
    <3>q. QED
      BY <3>1, <3>2
  <2>2. (ManifestFaithful /\ ManifestComplete /\ OutputFaithful)'
    BY <1>4, FilesStep
  <2>q. QED
    BY <1>1, <2>1, <2>2 DEF Inv
<1>q. QED
  BY <1>2, <1>3, <1>4 DEF Next

\* The inductive invariant holds of every behaviour, for any number of
\* processes, revisions and files.
THEOREM Invariance == Spec => []Inv
<1>1. Init => Inv
  BY InitInv
<1>2. Inv /\ [Next]_vars => Inv'
  BY NextInv
<1>q. QED
  BY <1>1, <1>2, PTL DEF Spec

\* Every variable keeps its type.
THEOREM TypeCorrect == Spec => []TypeOK
BY Invariance, PTL DEF Inv

\* However many compilers run, stop or are killed, whoever is in the cache
\* holds its lock.
THEOREM Locking == Spec => []LockedAccess
<1>1. Inv => LockedAccess
  BY DEF Inv, LockInv, LockedAccess
<1>q. QED
  BY <1>1, Invariance, PTL

\* The lock is not left behind.
THEOREM NoLeak == Spec => []NoKeptLock
<1>1. Inv => NoKeptLock
  BY DEF Inv, LockInv, NoKeptLock, At
<1>q. QED
  BY <1>1, Invariance, PTL

\* A build in the cache compiles its own tree.
THEOREM NoStaleHit == Spec => []CachedTreeIsOwn
<1>1. Inv => CachedTreeIsOwn
  BY DEF Inv, CacheInv, CachedTreeIsOwn
<1>q. QED
  BY <1>1, Invariance, PTL

\* Manifests are those of complete generations, whatever is interrupted.
THEOREM Manifest == Spec => [](ManifestFaithful /\ ManifestComplete)
<1>1. Inv => ManifestFaithful /\ ManifestComplete
  BY DEF Inv
<1>q. QED
  BY <1>1, Invariance, PTL

\* The executable is always one complete build of one revision.
THEOREM Executables == Spec => []OutputFaithful
<1>1. Inv => OutputFaithful
  BY DEF Inv
<1>q. QED
  BY <1>1, Invariance, PTL

\* Manifests and executables come from verified processes only.
THEOREM Acceptance == Spec => AcceptedOnlyVerified
<1>1. Inv /\ [Next]_vars => [AcceptStep]_vars
  <2> SUFFICES ASSUME Inv, Next, NEW A,
                      A = (manifest' # manifest /\ manifest' \in Manifests),
                      A \/ output' # output
               PROVE  \E p \in Procs : pc'[p] # pc[p] /\ verify[p] = "ok"
    BY DEF AcceptStep
  <2>0. TypeOK /\ \A p \in Procs : PrivateInv(p)
    BY DEF Inv
  <2>1. PICK p \in Procs : StorePublish(p) \/ StoreFail(p) \/ Install(p) \/ Crash(p)
    BY ConstantsAssumption
       DEF Next, Progress, Edit, Damage, Start, Stage, OpenCache, ComputeKey,
           Lookup, Hit, Generate, Await, FinishVerify, Return, StoreScan,
           StoreInvalidate, StoreRemove, StoreWrite, StoreRecheck, Seed, Compile,
           Link, WriteMetadata, Fail, Close, shared
  <2>2. pc[p] \in {"publish", "install"}
    BY <2>1, ConstantsAssumption
       DEF StorePublish, StoreFail, Install, Crash, StoreCut, At
  <2>3. pc'[p] # pc[p]
    BY <2>0, <2>1, <2>2
       DEF TypeOK, StorePublish, StoreFail, Install, Crash, Forget, Goto
  <2>q. QED
    BY <2>0, <2>2, <2>3 DEF PrivateInv, StorePcs, BuildPcs
<1>q. QED
  BY <1>1, Invariance, PTL DEF Spec, AcceptedOnlyVerified

\* Seen from outside, stores and installations are atomic: the code implements
\* AtomicBuild.
THEOREM Implements == Spec => Refinement
<1>1. Init => AB!Init
  BY ConstantsAssumption DEF Init, AB!Init, Entry
<1>2. Inv /\ Inv' /\ [Next]_vars => [AB!Next]_<<Entry, output>>
  <2> SUFFICES ASSUME Inv, Inv', Next, ~UNCHANGED <<Entry, output>>
               PROVE  AB!Next
    BY DEF vars, shared, Entry
  <2> USE ConstantsAssumption
  <2>0. TypeOK /\ ManifestFaithful /\ ManifestComplete
    BY DEF Inv
  <2>1. ASSUME Entry = NoBinary, Entry' # NoBinary, output' = output
        PROVE  AB!Next
    <3>1. manifest' \in Manifests /\ Entry' = manifest'
      BY <2>1 DEF Entry
    <3>2. manifest'.key \in Keys
      BY <3>1 DEF Manifests
    <3>3. manifest' = [key |-> manifest'.key,
                       files |-> Gen[<<manifest'.key.src, manifest'.key.staged>>]]
      BY <3>1 DEF Inv, ManifestFaithful, Manifests
    <3>q. QED
      BY <2>1, <3>1, <3>2, <3>3 DEF AB!Next, AB!Publish, AB!Entry
  <2>2. ASSUME Entry # NoBinary, Entry' = NoBinary, output' = output
        PROVE  AB!Next
    BY <2>2 DEF AB!Next, AB!Drop
  <2>3. ASSUME NEW p \in Procs, Install(p)
        PROVE  AB!Next
    <3>1. output' = [src |-> src[p], cfg |-> cfg[p], tree |-> Gen[<<src[p], cfg[p]>>]]
      BY <2>3 DEF Inv, PrivateInv, Install, At
    <3>2. <<src[p], cfg[p]>> \in Stamps /\ UNCHANGED Entry
      BY <2>0, <2>3 DEF TypeOK, Stamps, Install, shared, Entry
    <3>q. QED
      BY <3>1, <3>2 DEF AB!Next, AB!Install, AB!Executable
  <2>4. output' = output \/ \E p \in Procs : Install(p)
    BY DEF Next, Progress, Edit, Damage, Start, Stage, OpenCache, ComputeKey,
           Lookup, Hit, Generate, Await, FinishVerify, Return, StoreScan,
           StoreInvalidate, StoreRemove, StoreWrite, StoreRecheck, StorePublish,
           StoreFail, Seed, Compile, Link, WriteMetadata, Fail, Close, Crash
  <2>5. Entry' = Entry \/ Entry' = NoBinary \/ Entry = NoBinary
    <3> SUFFICES ASSUME Entry # NoBinary, Entry' # NoBinary PROVE Entry' = Entry
      OBVIOUS
    <3>1. manifest \in Manifests /\ manifest.files = work
      BY DEF Entry
    <3>2. manifest' \in Manifests
      BY DEF Entry
    <3>3. \A p \in Procs : pc[p] # "publish"
      BY <3>1 DEF Inv, CacheInv
    <3>4. UNCHANGED manifest
      BY ZenonT(30), <3>2, <3>3
         DEF Next, Progress, Edit, Damage, Start, Stage, OpenCache, ComputeKey,
             Lookup, Hit, Generate, Await, FinishVerify, Return, StoreScan,
             StoreInvalidate, StoreRemove, StoreWrite, StoreRecheck, StorePublish,
             StoreFail, StoreCut, Seed, Compile, Link, Install, WriteMetadata, Fail,
             Close, Crash, shared, At
    <3>q. QED
      BY <3>1, <3>2, <3>4 DEF Entry
  <2>q. QED
    BY <2>1, <2>2, <2>3, <2>4, <2>5
<1>q. QED
  BY <1>1, <1>2, Invariance, PTL DEF Spec, Refinement, AB!Spec
=============================================================================
