# Ghi, modelled in TLA+

Ghi is a class-based language that is translated to Go. The repository holds its
compiler (`internal/compiler`), the command line (`cmd/ghi`), the development
loops `ghi watch` and `ghi test --watch` (`internal/watch`), control of process
trees (`internal/proctree`), the installer of Go toolchains
(`internal/toolchain`), and the runtime that the compiler emits into every
generated program (`internal/compiler/runtime_emit.go`).

The modules here are translated from that code. Line numbers are those of the
commit this directory belongs to; the table of definitions and lines is `map` in
`PROJECT.json`. References to the README are to the repository's own.

## The system

| component | state it keeps | operations | it talks to | what is hard | what makes it correct |
|---|---|---|---|---|---|
| build cache (`build_cache*.go`, `check.go`) | `.ghi/build/work`, `state.json`, an OS lock | lock, key, hit test, store, publish, release | other compilers through the file system and the lock | two compilers, kills and I/O errors inside a store, configuration read twice, outside changes | a hit is never stale, torn or someone else's; the lock is held exactly while the cache is used |
| build pipeline (`check.go`, `build.go`) | temporary workspace, output candidate, verification goroutine | load, stage, generate, verify, compile, install, debug metadata | cache, toolchain, `go build` | verification beside generation, failing steps, concurrent installs | the executable is always one complete verified build |
| `ghi watch` (`watch/watch.go`) | observed hash, generation, pending, debounce time, running child, build in flight, staging directory | poll, build, judge, replace, stop, clean up | editors, `compiler.Build`, the child | edits during builds, events in any order, hanging builds and children, cancellation | one child, no obsolete start, nothing lost, nothing left behind |
| `ghi test --watch` (`watch/tests.go`) | observed hash, pending, run in flight | poll, run, judge | editors, `compiler.Test` | as above, without a child | a verdict is shown only for what is on disk, nothing lost |
| process trees (`proctree`) | process group or job object | start, signal, kill, release, run under a context | OS, watch, compiler | cancellation racing the exit | no descendant outlives its owner |
| Go toolchains (`toolchain`) | cache directory with one directory per version | find, download, verify, extract, install | go.dev, other installers | concurrent installers, corrupt downloads, kills | what is returned was verified and runs |
| dependency verification (`dependencies.go`, `dependency_verify.go`) | worker pools, a semaphore, results by index | hash archives and directories against the lock file | module cache, context | parallel completion order, cancellation | accepted only if every archive and directory has its locked sum |
| semantic cache (`semantic_cache.go`) | certificates per namespace | key, look up, invalidate by inheritance | build cache | a change that must reach every dependent | a reused body is what checking again would give |
| control-flow lowering (`control_flow.go`, `defer_scope.go`, `native_deferred.go`, `exception_parse.go`) | signal variable, saved signals, targets by depth | lower try/catch/finally, return, break, continue, defer | emitted `Try`, `Raise`, `RunDefers` | jumps and exceptions that cross several try blocks and finalizers | the lowered Go does what the Ghi source says |
| stack-trace caches of the emitted runtime (`runtime_emit.go`) | two maps with rings of keys, RW mutexes | capture, look up, decode, store with eviction | goroutines of the generated program | decoding outside the lock, full caches, full PC buffers | a trace is complete and its own; the caches stay bounded |
| class model and inheritance (`class_*.go`, `inheritance.go`) | class table, exact receivers and copied bodies | resolve names, check overrides and interfaces, substitute type arguments, specialize | front end, semantic cache | overrides through several generic parents, namespaces, bodies made exact | an object may stand for its ancestors; calls run the bodies the source says |
| construction check (`construction*.go`, `class_emit.go`) | exits of the constructor with what they have initialized | follow statements, merge exits, require fields and the parent | type checker | returns, jumps, loops and exceptions | no field that must not be nil is read or left uninitialized |
| nullability flow (`nullable_*.go`, `nonnull.go`, `zero_results.go`) | the variables proved non-nil at a point | prove, merge, invalidate, make reads nullable, refuse | type checker | loops, jumps, closures, reads that have nothing to give | no use of a nil object |
| front end (`frontend.go`, `*_parse.go`, `enums.go`, `match_*.go`, `collections.go`, ...) | syntax trees | scan, parse, rewrite | everything below | grammar, not state | the trees say what the source says |
| formatter, analyzer, diagnostics (`format*.go`, `analyze*.go`, `diagnostic*.go`) | none | text in, text or JSON out | editor | text | same program, stable output |
| coverage (`coverage*.go`) | counters, the profile | place probes, merge, write | tests | gotos, chained ifs, exceptions | exactly what was entered is counted |
| project creation (`cmd/ghi/init.go`) | new directory | create, undo | file system | failing half way | undone completely |

`PROJECT.json` lists for each of them what is modelled, and under `hazards` the
places where this code can go wrong in a way a test would hardly reach, with the
properties that cover them.

## Modules

### BuildCache

Several compiler processes work on one project. Each goes through the steps of
`prepareProjectMode` (`check.go:36`) and of `Build` (`build.go:36`); the
program counter names them. Between any two steps other processes run, files are
edited (`Edit`), the process is killed (`Crash`), and, while no compiler has the
cache, a file of it is changed from outside (`Damage`). So the second look of `store` at the
tree (`build_cache.go:245-255`), which guards against changes from outside while the cache
is held, always finds what it has just written.

| model | code |
|---|---|
| `source`, `config` | the project's files; module manifests are read apart from the rest, and twice |
| `lock`, `OpenCache`, `Return`, `Close`, `Crash` | the flock of `build_cache_unix.go`, its deferred release when preparation returns, `preparedProject.close`, the kernel's release when a process dies |
| `manifest`, `work`, `Valid` | `state.json`, the files under `work`, `buildCache.valid`: the digests of the tree are those of the manifest |
| `key`, `ComputeKey` | `buildCacheKey`: sources, the staged manifests and the manifests read again from the project |
| `verify`, `FinishVerify`, `Hit`, `Await` | the verification goroutine and the two places that wait for it |
| `StoreScan` ... `StorePublish` | `buildCache.store`, one action per file system operation; `StoreCut` is what an error or a kill leaves |
| `Seed`, `Compile`, `Link`, `Install`, `WriteMetadata` | the candidate seeded with the old executable, `go build` reading the tree file by file, the rename, the debug metadata |

The front end and the lowering are one constant, `Gen`, the tree a revision
generates; a digest is represented by the contents it is of. Of the processes'
environment and the toolchain the model has one value. Temporary workspaces of
killed processes are left to the operating system, as in the code.

**AtomicBuild** is the abstract specification: an entry is published whole under
its key or dropped, and the executable is replaced whole. `BuildCache` implements
it with `entry` mapped to the manifest when it describes the tree (`Entry`).

### DevWatch

`watch.Run`: one goroutine in a select loop, at most one build goroutine, at
most one child. Each case of the select is an action (`Exited`, `Tick`,
`Done`, and the four ways a build result is judged), `Top` is the head of the
loop with `startBuild`, and the deferred calls are the actions `AwaitBuild`,
`StopLast` and `RemoveStaging`. A version stands for the contents that
`snapshot` hashes. The build reads the project some time after it was started
(`BuildReads`), which is where the hazards come from; it leaves an executable in the staging
directory and, with `--debug`, a metadata file beside it (`BuildEnds`, `build.go:103-115`).
`staging` holds the executables, `metadata` the builds whose metadata file is there:
`os.Remove` is called for the former only (`Remove`). `child.stop` is the
disjunction of a child that goes by itself and one that is killed after a second.
`judged`, and the field `disturbed` of a build, are history variables.
A scan and the front end's loading read one version each: a scan that mixes two
versions differs from the next scan and then counts as one more version.

### TestWatch and ProcTree

`watch.Tests` (`tests.go:41`): the loop that polls, starts a run when one is due, and
judges results (`Start`, `Tick`, `Result`), with its deferred cancellation and receive
(`Await`). The run is `compiler.Test`: it reads the project (`Prepared`) and calls
`proctree.Run`, which is the module **ProcTree**, instantiated with the session's
cancellation as its context. There the command runs beside the goroutine in `cmd.Wait`;
it may fork, its descendants may leave the process group, hang, and outlive it. A kill,
of the group or the job object, takes effect in one step; `process_other.go`, for systems
with neither, is not modelled. `undone`, `disturbed`, `runs` and `shown` are history
variables. As in DevWatch a version is what `snapshot` hashes, and a scan and the run's
reading of the project are one step each.

### StackCache

`CaptureStack` and `frameCache` of the emitted runtime: goroutines look up,
decode outside the lock and store under it. The comparisons with 64 and 256, the
re-check under the lock, the ring and its wrapping index are those of the code. A
stack is its sequence of PCs. **FifoCache** is what README.md:304 promises,
replacement in insertion order; each of the two caches implements it.

### Toolchain

`Manager.Ensure` (`toolchain.go:87`), for several calls that share a cache
directory without a lock. The program counter of a call names the step: the system's
Go, the listing of the directory, a probe of each installed version, the metadata, the
archive, unpacking, the probe of the new tree, the rename. Other calls, releases
(`Publish`), damage by the directory's owner (`Harm`), cancellation and kills come in
between. A directory entry is absent, whole or damaged, a staging directory nothing,
partial, altered or complete; `Download` is the transfer with the comparison of size and
SHA-256, after which `Verified` decides. `MaxFaults` bounds failures of probes, network
and disk, which may strike at any step, the deferred removal of the staging directory
(`toolchain.go:186`) included: its error is dropped, so a call that has returned may leave
that directory, as one that was killed does. **GoShelf** is the abstract specification: a
version's name appears on a whole, verified tree in one step, no call replaces it, and an
answer is a supported version that was there. A damaged toolchain is never repaired by
the code: every rename onto it fails until somebody removes the directory, and the
module says so too.

### ExceptionFlow

The control-flow pass is a translation, so it is modelled as operators.
**ControlFlow** lowers a body as `control_flow.go` does: closures for the blocks of a
try, codes for loops and switches, signals for what leaves a closure, and the tests after
each call. **ExceptionSemantics** runs bodies: as the language defines them, and as
the emitted Go with the emitted runtime's `Try`, `RegisterDefer` and `RunDefers`.
**ExceptionFlow** grows bodies statement by statement, by putting simple statements beside
what there is or by wrapping it in `if`, a shadowing block, a loop, a switch, or one of the
places of a try; the states are the bodies, and the invariants compare both executions.

A statement is a tree of records, and a list of statements is a statement `then` with a
first one and the rest, so that every statement has its level: `Statement[n]` are those of
at most n. What goes through statements, the two executions (`Running`), the pass
(`Lowering`), `blockTerminates` (`Terminating`) and the validity of a body (`Flawed`), is
a function of statements for each level, made from the one of the level below. The rules
themselves (`Do`, `Lower`, `Terminates`, `Flaws`) take that function as a parameter and know
nothing of levels. `Nesting` bounds the levels of a body, `Size` the steps it grows in;
`Written` keeps out bodies that Go or Ghi would refuse for a label in use twice.

What the language says of `finally` in Ghi is taken from the usual meaning of the three
statements, in the one point that is open from the code: a jump out of a finalizer
abandons a pending return or jump, but not an exception in flight (the emitted deferred
call cannot stop a panic). A function that runs to its end returns 0.

### DependencyVerify

`verifyDownloadedModules` and what starts and awaits it. The archive and the directory of
each module are two jobs; jobs are dealt to workers in stripes, and the files of a job to
workers of its own, all of whom take places of one semaphore (`Acquire`, `Hash`). The
context may be done at any step. **OneAnswer** is the abstract specification, in one
step: the answer is a function of what was downloaded (`Judgement`), or, if the build was
cancelled, something other than "good". The order in which workers run, and how many there
are, does not occur in it.

### Executions, GrownBodies: what the static checks are held against

Three passes decide about function bodies without running them. **Executions** runs a body
from a *set* of environments and gives, for each way it can end (`next`, `return`,
`break`, a label, a break that names one, `raised`, `bad`), the environments it can end
with: loops are run to the fixed point, and `try`, `switch` with fallthrough, blocks,
labels and `goto` are there. (A `continue` that names a label is not. It never leaves
the outermost labelled statement, so the check of constructors does not see it either way.)
What a simple
statement and a condition do is a parameter. **GrownBodies** makes bodies from one simple
statement by putting statements beside or around it; the states of a run are the bodies.

* **NullableFlow** is `narrowFunction` (`nullable_flow.go`): the proof before and after
  each statement (`Flow`), conditions with `&&`, `||` and `!` (`Assume`), what loops,
  labels and switch cases may keep (`AtHead`, `Incoming`), the locals that closures and
  pointers write (`Unstable`). A read that may have nothing to give is made nullable as
  `zero_results.go` and `collections.go` do (`MapRead`, `ZeroResult`), and what
  `validateNonNull` refuses is `Refused`. An environment is the set of variables that are
  nil; a use of one of them is `bad`.
* **ConstructionFlow** is `validateConstruction`: exits with the fields initialized on the
  way, merged by intersection (`Merge`), through blocks, loops, switches and
  `catch`/`finally`, and the types that must be initialized (`Required`). A jump to a
  label is refused, but statements without a rule, which are type switches, selects and
  everything with a label, are only searched for expressions (`StepOther`).
* **CoverageProbes** is `instrumentCoverage`: a body is instrumented, both are run, and the
  probes' counts are compared with the statements entered.

### ClassModel and SemanticCache

**ClassModel** is the table of classes of a project: names resolved through imports
(`ClassNamed`), parents, overrides, interfaces, visibility (`Accepted`), type arguments
carried along a chain of parents (`AncestorArguments`), the methods a class is emitted
with, and the two optimizations that move bodies: a receiver made concrete in classes
without descendants (`Exact`), and an inherited body copied for the concrete class
(`Copied`). The executions of the emitted code are sets of the bodies a call enters.
**SemanticCache** edits and builds a project: classes are saved and deleted, imports
redirected, files of the cache lost; a build uses again the code of namespaces
whose certificates hold (`Key`, `Kept`, `Reused`) and checks the rest. The code that is
then linked must run as the sources say (`ReuseSound`). What a class gets from its parent is
written as a walk up the parents (`Inherited`), and what bodies lead to as a closure
(`Closure`), both functions of a number of steps, so that they can be reasoned about; the
number is that of the classes, or bodies, there are. **MCStatic** gives all of these
their instances, since all are decided before Go compiles: a *kit* says which part
a behaviour is about.

## Runs

| run | instance | what it shows |
|---|---|---|
| `cache_concurrent` | 2 compilers, 2 source revisions, 2 files | mutual exclusion on the cache, no stale or torn hit, no mixed executable, nothing accepted unverified |
| `cache_config` | 1 compiler after another in all modes, 2 configurations | the inductive invariant itself; manifests are filed under the configuration they were generated from; refinement of AtomicBuild |
| `cache_progress` | 2 compilers, only one scheduled fairly | a compiler never waits for another one |
| `watch` | 3 versions, one of them broken, 2 saves, 1 failing scan; sessions where every save is new and nothing else fails, and sessions where saves are undone and starts and debug metadata fail, and shorter ones in which removals do; with `--debug` and without; builds that hang, children that ignore signals | the inductive invariant itself; one child, clean return, no executable of an earlier build stays and at most one metadata file per debug build, no obsolete start, disturbed builds discarded, service kept; the last save is judged; cancellation always ends the session |
| `test_session` | 2 saves among 3 versions, 1 failing scan, 1 descendant | runs do not overlap, verdicts are current, a save leads to at most two runs and in the end to a verdict; cancellation always ends the session, with nothing left running |
| `stack_caches` | 2 goroutines; buffers of 3 and 4, limits 2 and 1 | map and ring agree, traces are whole and their own, replacement is first in, first out |
| `toolchain_shared` | 2 calls of different compilers, one managed; 2 versions, one too old for the second compiler; 2 failures | only whole and verified toolchains get a name, no call replaces one; the newest is taken, and every newer one that is passed over has cost a failure of its own; a managed call that goes on gets a toolchain, the loser of the rename too, as long as nothing has failed and also after the last failure, unless a toolchain is damaged |
| `deps` | 2 modules with 3 files, 2 workers and 2 places; downloads that are listed wrongly, unreadable, modified, named with a newline | the answer is that of the downloads alone and is always given, also when cancelled |
| `flow_lowered` | bodies of 2 growth steps, from 11 simple statements with a named result (`Wide`) and from 5 with an unnamed one (`Unnamed`); bodies of 3 growth steps with throws and labelled jumps (`Deep`) and with throws among returns of different values (`Twice`) | emitted code and source behave alike and no signal is left over; exactly the dangling branches are refused |
| `flow_shadowed` | returns and shadowing blocks, a named result | **violated**: see below |
| `static` | bodies of 2 and 3 growth steps with two nullable locals, a global and an object; constructors of 3 classes, with blocks, labels, type switches and jumps out of them; functions with 2 labels; projects of a line of 3 generic classes after 3 saves, and of 3 namespaces after 4 saves with builds and lost files in between | accepted bodies use no nil object; accepted constructors initialize; probes count exactly what was entered; objects may stand for their ancestors; what is reused runs as the sources say |
| `null_post` | the same | **violated**: see below |

Bounds. Two compilers are enough for every conflict on the lock and the tree,
since a third could only take a role one of the two has left. The two files are
chosen so that a store must keep, overwrite and remove a file. In `DevWatch` only
saves and failing scans are counted; two saves put one before a build has read the
sources and one after, or one on each side of the poll that saw the first. Generation and
sequence numbers follow from those. In `TestWatch` two saves put one before and one after
a run's reading, or one beside the poll that saw the other; three versions let a save be
undone or not; one descendant is in the group, detached or gone. The stacks of `StackCache` lie on both sides
of both comparisons, two of them agree in all PCs that fit the buffer, and both
limits are exceeded.
Two calls of `Ensure`
are the two of the race for a name; two versions allow an installed one and a newer one
that is released meanwhile, of which one compiler supports only the newer; two failures let an error path meet
another. Bodies of two steps put a try in a try or in a loop, bodies of three nest two
tries with a loop between them, which the pass's own cases (signal, saved signal,
handler, tests by depth) need at most;
"if" means "in the first iteration" and loops run twice, so that a branch is taken and not
taken. One result and one variable that shadows it stand for all. In `deps` three files for two
places make workers wait for one another, and an error may come before, between and after
others, in one job and in two. In `static` two steps put a statement before, after and
inside another one, three put a jump or a guard into a nested loop; a loop's fixed point is
exact, since environments are finite. A line of three classes is the shortest in which a
method is inherited, overridden and inherited again and two argument lists are composed;
three namespaces hold a class, its parent, and a parent that an import may be redirected to.

`CHECK_DEADLOCK FALSE` is set for `DevWatch`, and `TestWatch`, where the session returns, for
`Toolchain` and `DependencyVerify`, where the calls return, and for `ExceptionFlow` and
`MCStatic`, where bodies and projects are grown as far as the bound allows.

### Disagreements with the documentation

README.md:702 says "Check for `nil` before accessing a nullable object." The post statement
of a `for` is checked with the proof that holds at the end of the body
(`nullable_flow.go:296-297`), but a `continue` reaches it too. In

    for ; x == nil; x.use() {
        if skip() { continue }
        if x == nil { return }
    }

`x.use()` is accepted and can run with `x` nil. Run `null_post` shows it; `NilSafe`, which
holds, leaves out exactly the post statements with a use in loops with a `continue`
(`SkipsToPost`).

`exception_parse.go:10` says that the control-flow pass "restores Ghi
return/break/continue semantics". Two returns are not restored. Below a try a
`return v` becomes an assignment to the result's name (`control_flow.go:181`); where
the return stands in a block that shadows the name, the shadow is assigned and the
function returns something else (`flow_shadowed`). And a finalizer saves the
signal but not the slots of unnamed results (`control_flow.go:342`): in
`try { return 4 } finally { for ... { try { return 3 } finally { break } } }` the
abandoned `return 3` overwrites the pending 4. `LoweringCorrect` leaves out the
returned value in exactly these cases, a return in a try and a shadowing block (the flaw
"shadowed") and a return after one that was abandoned (`lost`); without either exception
`flow_lowered` finds the disagreement. A return counts as abandoned whether it was pending
when a finalizer jumped or returned, or stands in a finalizer itself and gives way to an
exception in flight: the latter, too, leaves its value in the slot.

Smaller ones are stated as exceptions of properties and have no run of their own:

* README.md:154 says "an obsolete build is not started." `watch.go:226` compares the hash
  at the end of the build with the one at its start, and counts the changes polls have
  seen. A save that the build reads and that is undone before the next poll (250 ms)
  changes neither. `NoObsoleteStart` therefore speaks of sessions without undone saves;
  `DisturbedDiscarded` shows that one poll in between is enough. `ghi test --watch` is in
  the same position, but its documentation speaks of *observed* changes (README.md:168):
  `CurrentVerdict` and `EventuallyJudged` of TestWatch except contents that came and went
  between two polls.
* README.md:730 says "Constructors must initialize nonnullable fields on every successful
  path." Three kinds of exit are not followed. Type switches and selects have no rule
  (`construction_flow.go:187`), so neither has a `return` or `continue` out of them. Nor
  have labelled statements, so the refusal of labelled jumps (`:83-85`) does not reach
  the jumps in them: `L: for { if a() { break L }; return }; this.f = v` is accepted and
  can return with `f` nil. And an exception of a `catch` block is not followed on its way
  through `finally` (`:214`). `Unseen` names these bodies and `ConstructionSafe` leaves
  them out; without any one of its three parts, run `static` finds a constructor that is accepted
  and does not initialize.
* In a session of `ghi watch --debug` every successful build leaves its
  `app-N.ghi-debug.json` (`build.go:111`) in the staging directory until Run returns, since
  `watch.go:210`, `:223`, `:230` and `:242` remove the executable alone.
  `OnlyMetadataStays` says that this is all that stays.

### Fairness

* `HangingSpec` (DevWatch): weak fairness of the loop's own steps and of the debounce
  time. A select with several ready cases picks one at random, so a case that is ready
  again and again is taken: strong fairness of each case. A child that was sent SIGKILL
  ends, and so does a build that was cancelled (`proctree.Run` kills its process tree).
  Editors, cancellation and children that exit by themselves have no fairness, and a build
  may hang: that it does not is an assumption of `EventuallyJudged` alone.
* `FairSpec` (DependencyVerify): weak fairness of the workers and of the goroutine that
  waits for them, taken together: something goes on while something can. Cancellation has
  none.
* `FairSpec` (TestWatch): the same for its loop, the waiting goroutine and the steps of
  `proctree.Run`. A preparation may hang until it is cancelled and a test until it is
  killed; descendants have no fairness. `EventuallyJudged` assumes that runs come to an
  end again and again.
* `FairSpec` (Toolchain): weak fairness of each call's steps; other calls, releases
  and owners have none.
* `OneFairSpec` (MCBuildCache): weak fairness of the steps of one compiler and of
  its verification goroutine only.

## Proofs

`BuildCacheProofs`, `DevWatchProofs`, `TestWatchProofs`, `StackCacheProofs`,
`ToolchainProofs` and `DependencyVerifyProofs` hold for every value of the constants that
satisfies the `ConstantsAssumption` of the module. Each proves the type invariant too,
which is therefore not repeated in the runs (that of DevWatch is a part of `Inv`).
`SemanticCacheProofs` holds for every set of projects of any size that the parser can
produce (`ClassTable`) and every set of declarations that are saved (`SourcesAssumption`);
its first part is about tables of classes alone. `ExceptionFlowProofs` holds for bodies of
any size, with any simple statements, labels, exceptions and printed items, under
`RaisedAssumption`, `LabelAssumption`, `NestingAssumption` and `SizeAssumption`, which say
of the constants no more than their types and that Ghi exceptions are none of the three
other kinds.

* **BuildCache.** `Inv` adds to the properties, per process: the lock is held
  wherever the cache is used and nowhere else (`LockInv`), the key is that of the
  revision the process has loaded and staged (`KeyInv`), its private files hold
  that revision's tree and past a certain step verification has succeeded
  (`PrivateInv`), and the shared tree is its own while it uses it, with no manifest
  while it is being changed (`CacheInv`). `CachedTreeIsOwn` alone is not inductive:
  it needs the manifest to be faithful to its key, the key to be faithful to the
  revision, and the lock to exclude the others between the hit and the compilation.
  From `Inv`: locking, no leaked lock, no stale hit, faithful and complete
  manifests, faithful executables, acceptance only after verification (an action
  property), and that the specification implements AtomicBuild.
* **DevWatch.** `Inv` says that the live child is the one Run knows of, that
  versions grow from a build's snapshot through what it read to what is on disk
  (when saves are never undone), that paths are never reused, and what an accepted
  build vouches for, its metadata included (`MetadataInv`). From it: one child, clean
  return, what stays in the staging directory (`OnlyMetadataStays`), no obsolete start
  (assuming `~Reverts`), disturbed builds discarded, service kept.
* **TestWatch.** `Tree` says in which places of `proctree.Run` the command and its group
  can be alive, `Loop` that outside "testing" Run is idle or has returned, `Fresh` that
  the versions observed, read and on disk are in this order unless a run is due or a save
  was undone, and `Owed` counts, on top of the runs started since the last save, the one
  that is due and the one an unseen change will cause. From them: serialized runs, clean
  return, current verdicts, and few runs.
* **StackCache.** The inductive invariant adds that every entry is the description
  of its own key and that a goroutine on its way to a cache has a stack that fits
  it. The lemma `EnterKeeps` says what inserting a new key does to ring and map.
  From them: ring and map agree, and every trace is its own. For the order of
  replacement, `FillInv` says that the map holds as many entries as the ring has slots in
  use; the abstract queue is the ring rotated by the next slot, and `RotatedItems` says
  that overwriting that slot and advancing it drops the queue's head and appends the new
  key. So each cache implements FifoCache.
* **Toolchain.** `Inv` ties a call's program counter to its staging directory: a call
  that vets or commits has a complete tree of a verified archive of a supported
  release (`StagedRight`). For the choice of the newest version it adds what failures
  have cost a call (`Lost`): supported versions it tried in vain, and versions that are
  damaged or gone since they were listed. They never outnumber the failures (`LostInv`),
  because a step that adds one is a failure (`LostStep`), and what a call passes over is
  among them. From it: the choice of the newest version, and that the specification
  implements GoShelf.

* **DependencyVerify.** `IInv` says that, while nothing is cancelled, every file that was
  read and every job that has ended has ended as what is on the disk says (`FileInv`,
  `JobInv`), whatever the others do; so the first error in the order of the jobs is a
  function of the downloads. From it, and from the fact that a set of numbers that is not
  empty has a first one: the specification implements OneAnswer, for any number of
  modules, files, workers and places.

* **ClassModel** (in `SemanticCacheProofs`). Without cycles a walk up the parents meets a new class at each step, so
  after as many steps as there are classes nothing changes any more (`WalksEnd`): every
  operator defined by a walk equals what it makes of the parent's result
  (`AncestorsWalk`, `MethodWalk`, `AllMethodsWalk`, `ArgumentsWalk`). `ClassInduct`, the
  induction from the classes without a parent to their descendants, follows. With it:
  substituting an ancestor's arguments edge by edge is substituting once
  (`SubstituteThrough`, `TypeBelow`), hence a type of an ancestor is seen below as the
  arguments of the nearer ancestor say; the checks of `prepareClasses`, which look at one
  edge, give what is promised of all ancestors (`DescendantStandsFor`,
  `AcceptedIsSubstitutable`). For the code, `ClassFits` says what a class may be emitted
  with, whichever of its bodies are exact and whichever are copied; on an object of an
  accepted class every body it can reach is then entered without being `Stuck` and leads
  where its source leads (`EnterRuns`, `CallRuns`, `RanLeads`), so the two closures agree
  step by step (`FittingDispatches`).
* **SemanticCache.** `CacheInv`: what is published was made from some accepted project,
  under the keys of that project, and every class of it fits, and from the present project
  if nothing was edited since. That a build preserves it is the point: equal keys mean
  equal graphs, imports and declarations in the namespace itself (`KeyCovers`); `Reused`
  comes to rest, and then no edge leads out of what is reused (`ReusedSettled`); so a
  reused class has its ancestors, and its descendants, in reused namespaces, their methods
  and calls are those of the earlier project (`SameMethods`, `SameCalls`), and the kept code fits
  the present one (`SameFit`). The proof does not use that a key covers the sources of
  imported namespaces; that matters for the types in bodies, which the model does not have.

* **ExceptionFlow.** A body that is grown is one that Go and Ghi take (`BodyInv`); all else
  is about one such body. The levels are first done away with: `Every` is the set of all
  statements and `Run` what any of them does, whatever its level (`RunLevel`), and the rules
  of execution hold of them as they stand.
  For `DanglingRejected`, a context of the pass matches a scope of the language when the
  same labels can be used in both (`Matches`); loops, switches and closures keep that, and
  by induction over the levels the pass refuses a statement exactly if it has a branch
  without a target.
  `LoweringCorrect` is a simulation. `Alike` relates the states of the two executions:
  equal in all that the source can see, with deferred calls in the Go function's list or
  in `ghi_defers`. A statement and its lowered code enter in such states, without a signal
  (`Entering`), and leave in such states (`Leaving`): both go on; or both throw the same; or
  the source returns, and the code has set signal 1 and the slot; or the source jumps, and
  the code jumps to the same target if it is in the same closure, and otherwise returns with
  the code of that target. What holds after a call of `Try` is the same with all jumps
  still signalled (`Called`). The argument has four parts. Contexts are well nested
  (`WellNested`): codes of inner targets are larger and labels differ, so a signal has
  one meaning. A `Try` with its closures leaves as `Called` says (`TrySim`): here the
  handler's reset, the finalizer's saved signal, and which completion gives way to which are
  compared, with one case for each pair. The tests after the call lead from `Called` to
  `Leaving` (`DispatchSim`): a test that is not meant lets the signal pass, the one that
  is meant takes it back, and it is among the tests, because an outer target without a label
  can only be meant if no inner one is at the same depth. And `LoweringSimulates` puts them
  together by induction over the levels. Where `blockTerminates`
  says that a body ends, the source does not go on (`TerminatingEnds`), so by the simulation
  the emitted code does not reach the panic at its end. That a value is right whenever
  no return was abandoned and no shadow was assigned is carried along in the same relations
  (`SameValue`, `Hidden`).

tlapm has no induction theorem to offer that takes a predicate, so inductions are over the
set of the numbers (`NatInduct`), or of the classes, that a statement is true of, and a
function that is defined recursively is first shown to exist (`Repetition`).

Only model-checked: the liveness properties (`NeverWaitsForOthers`,
`EventuallyJudged`, `Returns`, `Served`, `Answered`), which need ENABLED, and the three
static checks `NilSafe`, `ConstructionSafe` and `CoverageExact`, which hold bodies against
sets of executions: their operators are RECURSIVE over statements, and loops and `goto` in
them are fixed points. Proofs like that of ExceptionFlow would need them level by level,
and an induction over the rounds of a fixed point inside the one over the levels.

## Not modelled

* *Front end, formatter, analyzer, diagnostics*: functions from text to trees and from
  trees to text, without state; their correctness is about grammar and layout, which a
  model of a few kinds of statements would not touch. The type checker is Go's own.
* *Deferred native calls* (`native_deferred.go`): one call is rewritten to a literal with
  its operands evaluated first. No state, one actor.
* *Project loading, test runner, command line*: single passes over files and flags; a
  step of BuildCache, of TestWatch and of the callers.
* *Within modelled parts*: of nullability, fields, pointers and the syntax of `?T`; of
  classes, fields, default arguments, constraints and generic interfaces; of coverage,
  positions, the merging of counters and the file; of control flow, several results and
  function literals; of process trees, `process_other.go`.

Hazards without a model, for whoever changes these places:

* `build.go:111`: the executable is renamed before its debug metadata is written; a crash,
  or another debug build, may leave one of each. BuildCache has the two steps and states
  nothing about the pair.
* `toolchain.go:228`: an installed toolchain that is damaged refuses every later rename;
  each call downloads the release again and fails. `ShelfSpec` allows it.
* `process_unix.go:14`: `Release` signals the group of a process that was waited for; by
  then the number may be another group's.
* `coverage.go:321`: the profile is written beside the old one and renamed; nothing
  coordinates two test runs of one project.
* `cmd/ghi/init.go:65`: creation takes back what it made when a step fails, beside others
  who may write to the same directory.
* `class_model.go:109`: names of generated methods are concatenations that a program's own
  names might equal; `class_model.go:28`: a class of the namespace and an import alias of
  one name. ClassModel's names are distinct.
* `nullable_flow.go:217`: the target of a write is looked up as an identifier; one in
  parentheses, and the operand of `&(x)`, are not found. The model has no parentheses.

What could come next: the merging of coverage counters with concurrent runs, project
creation with roll-back, the static checks proved as the control-flow pass is, and the
composition of SemanticCache with the store of BuildCache.
