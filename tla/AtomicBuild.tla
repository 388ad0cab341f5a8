----------------------------- MODULE AtomicBuild ----------------------------
(***************************************************************************)
(* What the build cache and the installed executable promise to whoever    *)
(* looks at them from outside (README, "Incremental builds"; the comments  *)
(* of build_cache.go and build.go): a cache entry appears whole or not at  *)
(* all, is never changed in place, and the executable changes in one step  *)
(* from one complete build to another.                                     *)
(***************************************************************************)
CONSTANTS
    Keys,          \* what entries are filed under: sources and configurations
    Stamps,        \* revisions of the project, <<sources, configuration>>
    Gen,           \* Gen[s]: the tree generated for revision s
    None           \* no entry; no executable

VARIABLES
    entry,         \* the cache entry a lookup may hit
    executable     \* the installed executable

Entry(k)      == [key |-> k, files |-> Gen[<<k.src, k.staged>>]]
Executable(s) == [src |-> s[1], cfg |-> s[2], tree |-> Gen[s]]

Init == entry = None /\ executable = None

Publish(k) ==
    /\ entry = None
    /\ entry' = Entry(k)
    /\ UNCHANGED executable

\* Invalidated by a compiler that is about to store, or damaged from outside.
Drop ==
    /\ entry # None
    /\ entry' = None
    /\ UNCHANGED executable

Install(s) ==
    /\ executable' = Executable(s)
    /\ UNCHANGED entry

Next ==
    \/ \E k \in Keys : Publish(k)
    \/ Drop
    \/ \E s \in Stamps : Install(s)

Spec == Init /\ [][Next]_<<entry, executable>>
=============================================================================
