---------------------------- MODULE MCBuildCache ----------------------------
(* Small instances of BuildCache.                                           *)
EXTENDS BuildCache, TLC

CONSTANTS
    p1, p2,        \* processes
    s1, s2,        \* source revisions
    c1, c2,        \* configurations
    f1, f2,        \* generated files
    x, y, z        \* contents

\* s1 generates two files; s2 keeps the first, changed by the configuration
\* alone, and has no second one, so that a store has to keep, write and remove.
MCGen ==
    [st \in Stamps |->
        [f \in Files |->
            CASE f = f1 -> IF st[2] = c1 THEN x ELSE z
              [] f = f2 -> IF st[1] = s1 THEN y ELSE Absent]]

\* Only p1 is sure to go on; p2 may stop anywhere, holding the lock or not.
OneFairSpec == Spec /\ Fairness(p1)

\* A build comes to an end on its own: it waits for no other process, be that
\* one stopped with the lock, or starting over and over again.
NeverWaitsForOthers == pc[p1] # "idle" ~> pc[p1] = "idle"

Symmetry == Permutations(Procs)
=============================================================================
