----------------------------- MODULE MCDevWatch -----------------------------
(* Small instances of DevWatch.                                             *)
EXTENDS DevWatch

\* Sessions in which all goes well and every save is new, without --debug and with it;
\* debug sessions in which saves may be undone and everything but a removal may fail; and
\* shorter ones in which removals may fail as well.
Smooth == [edits |-> 2, reverts |-> FALSE, debug |-> FALSE, start |-> FALSE,
           metadata |-> FALSE, remove |-> FALSE]
Rough == [edits |-> 2, reverts |-> TRUE, debug |-> TRUE, start |-> TRUE,
          metadata |-> TRUE, remove |-> FALSE]
MCFaults == {Smooth, [Smooth EXCEPT !.debug = TRUE], Rough,
             [Rough EXCEPT !.edits = 1, !.remove = TRUE]}
=============================================================================
