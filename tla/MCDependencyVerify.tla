------------------------- MODULE MCDependencyVerify -------------------------
(* Two modules with three files each, some of them not as they should be.   *)
EXTENDS DependencyVerify, TLC

MCListings == {[m \in 1 .. 2 |-> IF m < n THEN "valid" ELSE flaw] :
                  n \in 1 .. 3, flaw \in {"error", "mismatch", "incomplete"}}

\* Two errors in one job and in two, a listing that fails before or after an error, and
\* contents that have changed.
Flaws == {<<>>, <<1, 1>> :> "unreadable" @@ <<1, 3>> :> "newline",
          <<1, 3>> :> "unreadable" @@ <<4, 1>> :> "unreadable",
          <<3, 0>> :> "lists" @@ <<4, 1>> :> "newline", <<3, 0>> :> "lists" @@ <<2, 2>> :> "modified",
          <<2, 1>> :> "modified" @@ <<2, 2>> :> "unreadable", <<4, 3>> :> "modified"}
MCContents ==
    {[j \in Job |-> [lists |-> <<j, 0>> \notin DOMAIN flaws,
        file |-> [f \in File |-> IF <<j, f>> \in DOMAIN flaws THEN flaws[<<j, f>>] ELSE "good"]]] :
     flaws \in Flaws}
=============================================================================
