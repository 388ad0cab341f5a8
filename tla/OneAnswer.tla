----------------------------- MODULE OneAnswer -----------------------------
(***************************************************************************)
(* What the verification of downloaded modules promises to a build         *)
(* (comments of dependency_verify.go and dependencies.go): one answer,     *)
(* which depends on what was downloaded and never on the order in which it *)
(* is read.  Only a build that is cancelled may be told something else,    *)
(* and never that all is well.                                             *)
(***************************************************************************)
CONSTANTS Good,       \* the answer that lets the build go on
          None        \* there is no answer yet

VARIABLES right,      \* the answer that what was downloaded deserves
          cancelled,
          answer      \* the answer, or None

Init == cancelled = FALSE /\ answer = None

Cancel == ~cancelled /\ cancelled' = TRUE /\ UNCHANGED <<right, answer>>

Answer ==
    /\ answer = None
    /\ IF cancelled THEN answer' \notin {Good, None} ELSE answer' = right
    /\ UNCHANGED <<right, cancelled>>

Spec == Init /\ [][Cancel \/ Answer]_<<right, cancelled, answer>>
=============================================================================
