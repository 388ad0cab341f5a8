----------------------------- MODULE BuildCache -----------------------------
(***************************************************************************)
(* Compiler processes (`ghi build', `ghi run', `ghi check', the builds of  *)
(* `ghi watch') working on one project: internal/compiler/build.go,        *)
(* check.go, build_cache.go and build_cache_unix.go.                       *)
(*                                                                         *)
(* The processes share the project's files, the generated tree kept under  *)
(* .ghi/build/work with its manifest state.json, an OS lock on             *)
(* .ghi/build/lock, and the executable they install.  A process may be     *)
(* killed between any two of its steps, files may be edited at any time,   *)
(* and any I/O step may fail.                                              *)
(*                                                                         *)
(* A source revision stands for everything the front end reads when it     *)
(* loads the project (line 55 of check.go), a configuration for the        *)
(* manifests that are read later, when the module files are staged, and    *)
(* again, from the project, when the key is computed.  The toolchain, the  *)
(* environment and the export data do not change during a run.             *)
(***************************************************************************)
EXTENDS Naturals, FiniteSets

CONSTANTS
    Procs,        \* compiler processes
    Modes,        \* what they are run for: "build", "check", "debug"
    Sources,      \* source revisions of the project
    Configs,      \* revisions of mojave.json, mojave.lock, go.mod and go.sum
    Files,        \* file names of generated trees
    Contents,     \* what a generated file may hold
    Gen,          \* Gen[<<s, c>>]: the tree generated from s staged with c
    Absent, Torn, \* a file that does not exist; one half written or damaged
    Free,         \* the lock's holder when nobody holds it
    NoKey,        \* buildCacheKey's "": no key could be computed
    Missing,      \* no state.json
    NoBinary      \* no executable, or an empty candidate

Stamps == Sources \X Configs
Trees  == [Files -> Contents \cup {Absent}]
Disk   == [Files -> Contents \cup {Absent, Torn}]

\* A cache key: the sources, the configuration staged in the workspace and
\* the configuration found in the project when the key was computed.
Keys      == [src : Sources, staged : Configs, root : Configs]
Manifests == [key : Keys, files : Trees]
Binaries  == [src : Sources, cfg : Configs, tree : Disk]

ASSUME ConstantsAssumption ==
    /\ Sources # {} /\ Configs # {}
    /\ Modes # {} /\ Modes \subseteq {"build", "check", "debug"}
    /\ Gen \in [Stamps -> Trees]
    /\ Absent \notin Contents /\ Torn \notin Contents /\ Torn # Absent
    /\ Free \notin Procs
    /\ NoKey \notin Keys
    /\ Missing \notin Stamps /\ Torn \notin Stamps
    /\ Missing \notin Manifests /\ Torn \notin Manifests /\ Missing # Torn
    /\ NoBinary \notin Binaries

VARIABLES
    source, config,  \* the project's files as they are now
    lock,            \* holder of .ghi/build/lock
    manifest,        \* .ghi/build/state.json
    work,            \* .ghi/build/work
    damaged,         \* a file of work was changed from outside since it was stored
    output,          \* the installed executable
    metadata,        \* the stamp <output>.ghi-debug.json describes
    \* Per process.
    pc, mode,
    src, cfg,        \* the sources it loaded, the configuration it staged
    key,
    verify,          \* dependency verification, a goroutine of the process
    staging,         \* its temporary workspace
    stale, todo,     \* files still to be removed; to be written or compiled
    cached,          \* prepared.cache # nil: it builds in .ghi/build/work
    objects,         \* what `go build' has read so far
    candidate        \* its .ghi-output-* file

shared == <<lock, manifest, work, damaged>>
locals == <<mode, src, cfg, key, verify, staging, stale, todo, cached, objects,
            candidate>>
vars == <<source, config, shared, output, metadata, pc, locals>>

StorePcs == {"scan", "invalidate", "remove", "write", "publish"}
BuildPcs == {"candidate", "compile", "link", "install", "metadata"}
Pcs == {"idle", "stage", "open", "key", "lookup", "hit", "generate", "await",
        "return", "close"} \cup StorePcs \cup BuildPcs

NoTree == [f \in Files |-> Absent]
AnySource == CHOOSE s \in Sources : TRUE
AnyConfig == CHOOSE c \in Configs : TRUE

At(p, l) == pc[p] = l
Goto(p, l) == pc' = [pc EXCEPT ![p] = l]

\* The tree `go build' is run in.
Workspace(p) == IF cached[p] THEN work ELSE staging[p]

\* Debug builds use a fresh workspace.
Cacheable(p) == mode[p] # "debug"

\* A plausible bug: trusting the manifest without hashing the tree.
Valid_ByKeyOnly(k) == manifest \in Manifests /\ manifest.key = k

\* buildCache.valid: the manifest is complete, every file of the workspace has
\* the digest it records, and it was stored under this key.
Valid(k) ==
    /\ manifest \in Manifests
    /\ manifest.files = work
    /\ manifest.key = k

-----------------------------------------------------------------------------
(* Initial state: a fresh checkout.                                        *)

Init ==
    /\ source \in Sources
    /\ config \in Configs
    /\ lock = Free
    /\ manifest = Missing
    /\ work = NoTree
    /\ damaged = FALSE
    /\ output = NoBinary
    /\ metadata = Missing
    /\ pc = [p \in Procs |-> "idle"]
    /\ mode = [p \in Procs |-> CHOOSE m \in Modes : TRUE]
    /\ src = [p \in Procs |-> AnySource]
    /\ cfg = [p \in Procs |-> AnyConfig]
    /\ key = [p \in Procs |-> NoKey]
    /\ verify = [p \in Procs |-> "none"]
    /\ staging = [p \in Procs |-> NoTree]
    /\ stale = [p \in Procs |-> {}]
    /\ todo = [p \in Procs |-> {}]
    /\ cached = [p \in Procs |-> FALSE]
    /\ objects = [p \in Procs |-> NoTree]
    /\ candidate = [p \in Procs |-> NoBinary]

-----------------------------------------------------------------------------
(* The world outside the compiler.                                         *)

Edit ==
    /\ \/ source' \in Sources \ {source} /\ UNCHANGED config
       \/ config' \in Configs \ {config} /\ UNCHANGED source
    /\ UNCHANGED <<shared, output, metadata, pc, locals>>

\* Something other than the compiler damages a file of the idle cache.
Damage(f) ==
    /\ lock = Free
    /\ work' = [work EXCEPT ![f] = Torn]
    /\ damaged' = TRUE
    /\ UNCHANGED <<source, config, lock, manifest, output, metadata, pc, locals>>

-----------------------------------------------------------------------------
(* prepareProjectMode, up to the choice between hit and generation.        *)

\* The sources are read before the cache is locked.
Start(p, m) ==
    /\ At(p, "idle")
    /\ mode' = [mode EXCEPT ![p] = m]
    /\ src' = [src EXCEPT ![p] = source]
    /\ Goto(p, "stage")
    /\ UNCHANGED <<source, config, shared, output, metadata, cfg, key, verify,
                   staging, stale, todo, cached, objects, candidate>>

\* prepareGeneration: the staged go.mod is written from the configuration of
\* this moment, and verification of the downloaded modules starts.
Stage(p) ==
    /\ At(p, "stage")
    /\ cfg' = [cfg EXCEPT ![p] = config]
    /\ verify' = [verify EXCEPT ![p] = "running"]
    /\ Goto(p, IF Cacheable(p) THEN "open" ELSE "generate")
    /\ UNCHANGED <<source, config, shared, output, metadata, mode, src, key,
                   staging, stale, todo, cached, objects, candidate>>

\* The verification goroutine. Being cancelled counts as failing.
FinishVerify(p) ==
    /\ verify[p] = "running"
    /\ \E result \in {"ok", "bad"} : verify' = [verify EXCEPT ![p] = result]
    /\ UNCHANGED <<source, config, shared, output, metadata, pc, mode, src, cfg,
                   key, staging, stale, todo, cached, objects, candidate>>

\* Plausible bugs: no lock; a lock that is waited for.
OpenCache_NoLock(p) ==
    /\ At(p, "open")
    /\ \/ lock' = p /\ Goto(p, "key")
       \/ UNCHANGED lock /\ Goto(p, "generate")
    /\ UNCHANGED <<source, config, manifest, work, damaged, output, metadata, locals>>

OpenCache_Waits(p) ==
    /\ At(p, "open")
    /\ lock = Free /\ lock' = p /\ Goto(p, "key")
    /\ UNCHANGED <<source, config, manifest, work, damaged, output, metadata, locals>>

\* openBuildCache. The lock is not waited for: a busy, read-only or
\* unavailable cache is done without.
OpenCache(p) ==
    /\ At(p, "open")
    /\ \/ lock = Free /\ lock' = p /\ Goto(p, "key")
       \/ UNCHANGED lock /\ Goto(p, "generate")
    /\ UNCHANGED <<source, config, manifest, work, damaged, output, metadata, locals>>

\* A plausible bug: hashing the project's manifests but not the staged ones.
ComputeKey_NotStaged(p) ==
    /\ At(p, "key")
    /\ key' = [key EXCEPT ![p] = [src |-> src[p], staged |-> config, root |-> config]]
    /\ Goto(p, "lookup")
    /\ UNCHANGED <<source, config, shared, output, metadata, mode, src, cfg,
                   verify, staging, stale, todo, cached, objects, candidate>>

\* buildCacheKey reads the manifests of the project again and hashes them
\* with the staged ones; any failure, or a cancelled context, gives "".
ComputeKey(p) ==
    /\ At(p, "key")
    /\ \/ /\ key' = [key EXCEPT ![p] = [src |-> src[p], staged |-> cfg[p],
                                        root |-> config]]
          /\ Goto(p, "lookup")
       \/ UNCHANGED key /\ Goto(p, "generate")
    /\ UNCHANGED <<source, config, shared, output, metadata, mode, src, cfg,
                   verify, staging, stale, todo, cached, objects, candidate>>

Lookup(p) ==
    /\ At(p, "lookup")
    /\ Goto(p, IF Valid(key[p]) THEN "hit" ELSE "generate")
    /\ UNCHANGED <<source, config, shared, output, metadata, locals>>

\* A plausible bug: a hit returns before verification has ended.
Hit_Unverified(p) ==
    /\ At(p, "hit")
    /\ cached' = [cached EXCEPT ![p] = TRUE]
    /\ Goto(p, "return")
    /\ UNCHANGED <<source, config, shared, output, metadata, mode, src, cfg, key,
                   verify, staging, stale, todo, objects, candidate>>

\* A hit is used only after verification has succeeded.
Hit(p) ==
    /\ At(p, "hit")
    /\ \/ verify[p] = "ok" /\ cached' = [cached EXCEPT ![p] = TRUE] /\ Goto(p, "return")
       \/ verify[p] = "bad" /\ UNCHANGED cached /\ Goto(p, "close")
    /\ UNCHANGED <<source, config, shared, output, metadata, mode, src, cfg, key,
                   verify, staging, stale, todo, objects, candidate>>

-----------------------------------------------------------------------------
(* prepareProjectMode: generation in a private workspace, then the store.  *)

Generate(p) ==
    /\ At(p, "generate")
    /\ staging' = [staging EXCEPT ![p] = Gen[<<src[p], cfg[p]>>]]
    /\ Goto(p, "await")
    /\ UNCHANGED <<source, config, shared, output, metadata, mode, src, cfg, key,
                   verify, stale, todo, cached, objects, candidate>>

\* Verification is waited for before anything generated is published.
Await(p) ==
    /\ At(p, "await")
    /\ \/ verify[p] = "ok" /\ Goto(p, IF key[p] = NoKey THEN "return" ELSE "scan")
       \/ verify[p] = "bad" /\ Goto(p, "close")
    /\ UNCHANGED <<source, config, shared, output, metadata, locals>>

\* store compares the staged tree with the cached one.
StoreScan(p) ==
    /\ At(p, "scan")
    /\ stale' = [stale EXCEPT ![p] =
                    {f \in Files : work[f] # Absent /\ staging[p][f] = Absent}]
    /\ todo' = [todo EXCEPT ![p] =
                    {f \in Files : staging[p][f] \notin {Absent, work[f]}}]
    /\ Goto(p, "invalidate")
    /\ UNCHANGED <<source, config, shared, output, metadata, mode, src, cfg, key,
                   verify, staging, cached, objects, candidate>>

\* A plausible bug: the old manifest stays until the new one replaces it.
StoreInvalidate_Later(p) ==
    /\ At(p, "invalidate")
    /\ Goto(p, "remove")
    /\ UNCHANGED <<source, config, shared, output, metadata, locals>>

\* The manifest goes before the first change of the workspace.
StoreInvalidate(p) ==
    /\ At(p, "invalidate")
    /\ manifest' = Missing
    /\ Goto(p, "remove")
    /\ UNCHANGED <<source, config, lock, work, damaged, output, metadata, locals>>

StoreRemove(p) ==
    /\ At(p, "remove")
    /\ \/ /\ stale[p] = {}
          /\ Goto(p, "write")
          /\ UNCHANGED <<work, stale>>
       \/ \E f \in stale[p] :
             /\ work' = [work EXCEPT ![f] = Absent]
             /\ stale' = [stale EXCEPT ![p] = @ \ {f}]
             /\ UNCHANGED pc
    /\ UNCHANGED <<source, config, lock, manifest, damaged, output, metadata, mode,
                   src, cfg, key, verify, staging, todo, cached, objects, candidate>>

StoreWrite(p) ==
    /\ At(p, "write")
    /\ \E f \in todo[p] :
          /\ work' = [work EXCEPT ![f] = staging[p][f]]
          /\ todo' = [todo EXCEPT ![p] = @ \ {f}]
    /\ UNCHANGED <<source, config, lock, manifest, damaged, output, metadata, pc,
                   mode, src, cfg, key, verify, staging, stale, cached, objects,
                   candidate>>

\* The workspace is hashed again; a mismatch makes the store fail.
StoreRecheck(p) ==
    /\ At(p, "write")
    /\ todo[p] = {}
    /\ work = staging[p]
    /\ damaged' = FALSE
    /\ Goto(p, "publish")
    /\ UNCHANGED <<source, config, lock, manifest, work, output, metadata, locals>>

StorePublish(p) ==
    /\ At(p, "publish")
    /\ manifest' = [key |-> key[p], files |-> staging[p]]
    /\ cached' = [cached EXCEPT ![p] = TRUE]
    /\ staging' = [staging EXCEPT ![p] = NoTree]
    /\ Goto(p, "return")
    /\ UNCHANGED <<source, config, lock, work, damaged, output, metadata, mode, src,
                   cfg, key, verify, stale, todo, objects, candidate>>

\* What an I/O error, or a kill, in the middle of a store leaves behind: the
\* file that was being written may be truncated; the manifest may also have
\* been written completely by then.
StoreCut(p) ==
    \/ UNCHANGED <<manifest, work>>
    \/ /\ At(p, "write")
       /\ \E f \in todo[p] : work' = [work EXCEPT ![f] = Torn]
       /\ UNCHANGED manifest
    \/ /\ At(p, "publish")
       /\ manifest' \in {Torn, [key |-> key[p], files |-> staging[p]]}
       /\ UNCHANGED work

\* The error of store is dropped: the process goes on in its own workspace.
StoreFail(p) ==
    /\ pc[p] \in StorePcs
    /\ StoreCut(p)
    /\ stale' = [stale EXCEPT ![p] = {}]
    /\ todo' = [todo EXCEPT ![p] = {}]
    /\ Goto(p, "return")
    /\ UNCHANGED <<source, config, lock, damaged, output, metadata, mode, src, cfg,
                   key, verify, staging, cached, objects, candidate>>

\* Plausible bugs: the deferred release runs for every process; or for none.
Return_AlwaysReleases(p) ==
    /\ At(p, "return")
    /\ lock' = IF lock = p THEN Free ELSE lock
    /\ Goto(p, IF mode[p] = "check" THEN "close" ELSE "candidate")
    /\ UNCHANGED <<source, config, manifest, work, damaged, output, metadata, locals>>

Return_KeepsLock(p) ==
    /\ At(p, "return")
    /\ Goto(p, IF mode[p] = "check" THEN "close" ELSE "candidate")
    /\ UNCHANGED <<source, config, shared, output, metadata, locals>>

\* The deferred release: a process that does not use the cache gives it back
\* when preparation returns.
Return(p) ==
    /\ At(p, "return")
    /\ lock' = IF lock = p /\ ~cached[p] THEN Free ELSE lock
    /\ Goto(p, IF mode[p] = "check" THEN "close" ELSE "candidate")
    /\ UNCHANGED <<source, config, manifest, work, damaged, output, metadata, locals>>

-----------------------------------------------------------------------------
(* Build.                                                                  *)

\* A plausible bug: the executable is built in place.
Seed_InPlace(p) ==
    /\ At(p, "candidate")
    /\ output' = NoBinary
    /\ todo' = [todo EXCEPT ![p] = Files]
    /\ Goto(p, "compile")
    /\ UNCHANGED <<source, config, shared, metadata, mode, src, cfg, key,
                   verify, staging, stale, cached, objects, candidate>>

\* The candidate is seeded with the previous executable when that can be read.
Seed(p) ==
    /\ At(p, "candidate")
    /\ \E seed \in {output, NoBinary} : candidate' = [candidate EXCEPT ![p] = seed]
    /\ todo' = [todo EXCEPT ![p] = Files]
    /\ Goto(p, "compile")
    /\ UNCHANGED <<source, config, shared, output, metadata, mode, src, cfg, key,
                   verify, staging, stale, cached, objects>>

\* `go build' reads the workspace a file at a time ...
Compile(p) ==
    /\ At(p, "compile")
    /\ \E f \in todo[p] :
          /\ objects' = [objects EXCEPT ![p][f] = Workspace(p)[f]]
          /\ todo' = [todo EXCEPT ![p] = @ \ {f}]
    /\ UNCHANGED <<source, config, shared, output, metadata, pc, mode, src, cfg,
                   key, verify, staging, stale, cached, candidate>>

\* ... and links the candidate.
Link(p) ==
    /\ At(p, "compile")
    /\ todo[p] = {}
    /\ candidate' = [candidate EXCEPT ![p] =
                        [src |-> src[p], cfg |-> cfg[p], tree |-> objects[p]]]
    /\ Goto(p, "install")
    /\ UNCHANGED <<source, config, shared, output, metadata, mode, src, cfg, key,
                   verify, staging, stale, todo, cached, objects>>

\* One rename; debug builds then describe what they installed.
Install(p) ==
    /\ At(p, "install")
    /\ output' = candidate[p]
    /\ Goto(p, IF mode[p] = "debug" THEN "metadata" ELSE "close")
    /\ UNCHANGED <<source, config, shared, metadata, locals>>

WriteMetadata(p) ==
    /\ At(p, "metadata")
    /\ metadata' \in {<<src[p], cfg[p]>>, metadata, Torn}
    /\ Goto(p, "close")
    /\ UNCHANGED <<source, config, shared, output, locals>>

-----------------------------------------------------------------------------
(* The ends of a process.                                                  *)

\* An error anywhere else: preparation is undone, or Build returns.
Fail(p) ==
    /\ pc[p] \in {"stage", "generate", "await", "candidate", "compile", "install"}
    /\ At(p, "await") => verify[p] # "running"
    /\ Goto(p, "close")
    /\ UNCHANGED <<source, config, shared, output, metadata, locals>>

Forget(p) ==
    /\ Goto(p, "idle")
    /\ mode' = [mode EXCEPT ![p] = CHOOSE m \in Modes : TRUE]
    /\ src' = [src EXCEPT ![p] = AnySource]
    /\ cfg' = [cfg EXCEPT ![p] = AnyConfig]
    /\ key' = [key EXCEPT ![p] = NoKey]
    /\ verify' = [verify EXCEPT ![p] = "none"]
    /\ staging' = [staging EXCEPT ![p] = NoTree]
    /\ stale' = [stale EXCEPT ![p] = {}]
    /\ todo' = [todo EXCEPT ![p] = {}]
    /\ cached' = [cached EXCEPT ![p] = FALSE]
    /\ objects' = [objects EXCEPT ![p] = NoTree]
    /\ candidate' = [candidate EXCEPT ![p] = NoBinary]

\* A plausible bug: the error path removes the workspace but keeps the lock.
Close_KeepsLock(p) ==
    /\ At(p, "close")
    /\ Forget(p)
    /\ UNCHANGED <<source, config, shared, output, metadata>>

\* preparedProject.close cancels the verification and waits for it, then
\* releases the lock or removes the workspace.
Close(p) ==
    /\ At(p, "close")
    /\ lock' = IF lock = p THEN Free ELSE lock
    /\ Forget(p)
    /\ UNCHANGED <<source, config, manifest, work, damaged, output, metadata>>

\* The process is killed: the OS releases its lock.
Crash(p) ==
    /\ ~At(p, "idle")
    /\ StoreCut(p)
    /\ lock' = IF lock = p THEN Free ELSE lock
    /\ Forget(p)
    /\ UNCHANGED <<source, config, damaged, output, metadata>>

-----------------------------------------------------------------------------
(* The specification.                                                      *)

\* What process p does when nothing goes wrong, and what it does otherwise.
Progress(p) ==
    \/ Stage(p) \/ OpenCache(p) \/ ComputeKey(p) \/ Lookup(p) \/ Hit(p)
    \/ Generate(p) \/ Await(p)
    \/ StoreScan(p) \/ StoreInvalidate(p) \/ StoreRemove(p) \/ StoreWrite(p)
    \/ StoreRecheck(p) \/ StorePublish(p) \/ StoreFail(p)
    \/ Return(p)
    \/ Seed(p) \/ Compile(p) \/ Link(p) \/ Install(p) \/ WriteMetadata(p)
    \/ Fail(p) \/ Close(p)

Next ==
    \/ Edit
    \/ \E f \in Files : Damage(f)
    \/ \E p \in Procs :
          \/ \E m \in Modes : Start(p, m)
          \/ Progress(p)
          \/ FinishVerify(p)
          \/ Crash(p)

Spec == Init /\ [][Next]_vars

\* A process that was started keeps running, and so does its goroutine. Files
\* need not be edited, nor processes started or killed.
Fairness(p) == WF_vars(Progress(p)) /\ WF_vars(FinishVerify(p))

-----------------------------------------------------------------------------
(* Properties.                                                             *)

TypeOK ==
    /\ source \in Sources /\ config \in Configs
    /\ lock \in Procs \cup {Free}
    /\ manifest \in Manifests \cup {Missing, Torn}
    /\ work \in Disk
    /\ damaged \in BOOLEAN
    /\ output \in Binaries \cup {NoBinary}
    /\ metadata \in Stamps \cup {Missing, Torn}
    /\ pc \in [Procs -> Pcs]
    /\ mode \in [Procs -> Modes]
    /\ src \in [Procs -> Sources] /\ cfg \in [Procs -> Configs]
    /\ key \in [Procs -> Keys \cup {NoKey}]
    /\ verify \in [Procs -> {"none", "running", "ok", "bad"}]
    /\ staging \in [Procs -> Trees]
    /\ stale \in [Procs -> SUBSET Files] /\ todo \in [Procs -> SUBSET Files]
    /\ cached \in [Procs -> BOOLEAN]
    /\ objects \in [Procs -> Disk]
    /\ candidate \in [Procs -> Binaries \cup {NoBinary}]

\* A process looks into the shared cache, generates with what it may reuse from
\* there, writes it or builds in it.
UsesCache(p) ==
    \/ pc[p] \in {"key", "lookup", "hit"} \cup StorePcs
    \/ pc[p] \in {"generate", "await"} /\ key[p] # NoKey
    \/ cached[p]

\* Whoever looks into the shared cache, writes it or builds in it holds the
\* lock, from openBuildCache to the release, whatever others do.
LockedAccess == \A p \in Procs : UsesCache(p) => lock = p

\* The lock is held only by a live process that is preparing or is building in
\* the cache: no early return, failed store or crash leaves it behind, and a
\* process that fell back to its own workspace does not keep others out while
\* it compiles.
NoKeptLock ==
    \A p \in Procs :
        lock = p => /\ ~At(p, "idle")
                    /\ pc[p] \in BuildPcs => cached[p]

\* What a process that builds in the cache compiles is exactly the tree its
\* own sources and configuration generate, although another process stored
\* it, perhaps was killed in the middle, and files have been edited since.
CachedTreeIsOwn ==
    \A p \in Procs : cached[p] => work = Gen[<<src[p], cfg[p]>>]

\* A complete manifest lists what its key's sources, staged with its key's
\* configuration, generate: a later hit on that key is not a stale hit.
ManifestFaithful ==
    manifest \in Manifests =>
        manifest.files = Gen[<<manifest.key.src, manifest.key.staged>>]

\* "An interrupted sync can never be mistaken for a complete cached
\* generation" (build_cache.go:196): unless the tree was damaged from outside,
\* a complete manifest describes the tree that is there.
ManifestComplete ==
    manifest \in Manifests /\ ~damaged => manifest.files = work

\* The installed executable was linked from one complete generated tree, that
\* of the revision its builder had loaded: never from a mixture of two
\* revisions, from half a tree or from a seed.
OutputFaithful ==
    output # NoBinary => output.tree = Gen[<<output.src, output.cfg>>]

\* Verification runs beside generation, but nothing is accepted without it:
\* the process whose step publishes a manifest or changes the executable has
\* verified its dependencies successfully.
AcceptStep ==
    (manifest' # manifest /\ manifest' \in Manifests) \/ output' # output =>
        \E p \in Procs : pc'[p] # pc[p] /\ verify[p] = "ok"
AcceptedOnlyVerified == [][AcceptStep]_vars

-----------------------------------------------------------------------------
(* The inductive invariant.                                                *)

\* What holds of the lock while p is anywhere.
LockInv(p) ==
    /\ UsesCache(p) => lock = p
    /\ lock = p => pc[p] \notin {"idle", "stage", "open"}
    /\ lock = p /\ pc[p] \in BuildPcs => cached[p]

\* Where p uses its key, and what the key is of.
KeyInv(p) ==
    /\ key[p] # NoKey => /\ pc[p] \notin {"idle", "stage", "open", "key"}
                         /\ key[p].src = src[p] /\ key[p].staged = cfg[p]
    /\ pc[p] \in {"lookup", "hit"} \cup StorePcs => key[p] # NoKey

\* What p has verified and what its private files hold.
PrivateInv(p) ==
    /\ pc[p] \in StorePcs \cup {"return"} \cup BuildPcs => verify[p] = "ok"
    /\ pc[p] \in {"await", "return"} \cup StorePcs \cup BuildPcs /\ ~cached[p] =>
          staging[p] = Gen[<<src[p], cfg[p]>>]
    /\ pc[p] = "compile" =>
          \A f \in Files \ todo[p] : objects[p][f] = Gen[<<src[p], cfg[p]>>][f]
    /\ pc[p] = "install" =>
          candidate[p] = [src |-> src[p], cfg |-> cfg[p],
                          tree |-> Gen[<<src[p], cfg[p]>>]]

\* How the shared tree and its manifest relate to where p is.
CacheInv(p) ==
    /\ cached[p] => /\ pc[p] \in {"return", "close"} \cup BuildPcs
                    /\ work = Gen[<<src[p], cfg[p]>>]
    /\ pc[p] = "hit" => Valid(key[p])
    /\ pc[p] \in {"remove", "write", "publish"} => manifest = Missing
    /\ pc[p] = "publish" => work = staging[p] /\ ~damaged

Inv ==
    /\ TypeOK
    /\ \A p \in Procs : LockInv(p) /\ KeyInv(p) /\ PrivateInv(p) /\ CacheInv(p)
    /\ ManifestFaithful /\ ManifestComplete /\ OutputFaithful

-----------------------------------------------------------------------------
(* Refinement.                                                             *)

\* The entry a lookup could hit: a complete manifest that describes the tree.
Entry == IF manifest \in Manifests /\ manifest.files = work
         THEN manifest ELSE NoBinary

AB == INSTANCE AtomicBuild WITH
        None <- NoBinary,
        entry <- Entry,
        executable <- output

\* Seen from outside, stores and installations are atomic.
Refinement == AB!Spec
=============================================================================
