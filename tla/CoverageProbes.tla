--------------------------- MODULE CoverageProbes ---------------------------
(***************************************************************************)
(* Statement coverage, internal/compiler/coverage.go: a call of            *)
(* CoverageHit is put before each statement of a list.  A goto goes past   *)
(* the probe before its label, so the probe is repeated before the goto.   *)
(***************************************************************************)
EXTENDS Naturals, SequencesExt, TLC

CONSTANT Labels

-----------------------------------------------------------------------------
(* Executions: an environment has the statements that were begun and the   *)
(* probes that were hit.  A call may throw.                                *)

Entry == {[entered |-> {}, hit |-> {}]}

\* Braces and labels are no statements of their own, and the parts of a loop's head, which
\* have no place in a list, are none.
Plain(st) == st.op \in {"block", "mark", "hit"}

Enter(st, e) == IF Plain(st) \/ "at" \notin DOMAIN st THEN e ELSE [e EXCEPT !.entered = @ \cup {st.at}]

Test(c, e) == {"yes", "no"}

Effect(st, e) ==
    {<<"next", IF st.op = "hit" THEN [e EXCEPT !.hit = @ \cup {st.of}] ELSE e>>} \cup
    IF st.op = "call" THEN {<<"raised", e>>} ELSE {}

INSTANCE Executions

-----------------------------------------------------------------------------
(* A statement is known by its place in the source.                        *)

RECURSIVE Placed(_, _)
Placed(block, path) == [i \in 1 .. Len(block) |->
    LET st == block[i]
        at == Append(path, i)
        Part(n, b) == Placed(b, Append(at, n))
        Optional(n, b) == [j \in 1 .. Len(b) |-> Part(n, b[j])]
    IN  ("at" :> at) @@
        CASE st.op = "if" -> [st EXCEPT !.body = Part(1, @), !.else = Part(2, @)]
          [] st.op \in {"for", "range", "block"} -> [st EXCEPT !.body = Part(1, @)]
          [] st.op = "switch" -> [st EXCEPT !.cases =
                [j \in 1 .. Len(@) |-> [@[j] EXCEPT !.body = Part(j, @)]]]
          [] st.op = "try" -> [st EXCEPT !.body = Part(1, @),
                !.handler = Optional(2, @), !.finalizer = Optional(3, @)]
          [] st.op = "mark" -> [st EXCEPT !.stmt = Part(1, <<@>>)[1]]
          [] OTHER -> st]

RECURSIVE Unlabelled(_)
Unlabelled(st) == IF st.op = "mark" THEN Unlabelled(st.stmt) ELSE st

Probe(st) == LET s == Unlabelled(st) IN
    IF Plain(s) THEN <<>> ELSE <<[op |-> "hit", of |-> s.at]>>

\* The statement that a goto goes to, if that is what a statement is.
Target(source, st) == LET s == Unlabelled(st) IN
    {m \in source : m.op = "mark" /\ s.op = "branch" /\ s.tok = m.label}

\* Mutant: a goto whose target is a goto is not followed further.
Jumps_Once(source, st, seen) ==
    FlattenSeq([m \in 1 .. Cardinality(Target(source, st)) |->
        Probe(CHOOSE t \in Target(source, st) : TRUE)])

\* The probes of the statements that gotos lead to, one after the other.
RECURSIVE Jumps(_, _, _)
Jumps(source, st, seen) ==
    LET targets == Target(source, st) \ seen IN
    IF targets = {} THEN <<>>
    ELSE LET t == CHOOSE m \in targets : TRUE IN
         Probe(t) \o Jumps(source, t, seen \cup {t})

\* Mutant: an if that follows else is no statement of a block.
ElseBlock_Chained(st, else, probed) == IF st.chained THEN else ELSE probed

\* Such an if is put into one.
ElseBlock(st, else, probed) == probed

\* source: all statements of the function.
RECURSIVE Probed(_, _), Instrumented(_, _)

Instrumented(st, source) ==
    CASE st.op = "if" -> [st EXCEPT !.body = Probed(@, source), !.else =
            ElseBlock(st, [i \in 1 .. Len(@) |-> Instrumented(@[i], source)], Probed(@, source))]
      [] st.op \in {"for", "range", "block"} -> [st EXCEPT !.body = Probed(@, source)]
      [] st.op = "switch" -> [st EXCEPT !.cases =
            [j \in 1 .. Len(@) |-> [@[j] EXCEPT !.body = Probed(@, source)]]]
      [] st.op = "try" -> [st EXCEPT !.body = Probed(@, source),
            !.handler = [j \in 1 .. Len(@) |-> Probed(@[j], source)],
            !.finalizer = [j \in 1 .. Len(@) |-> Probed(@[j], source)]]
      [] st.op = "mark" -> [st EXCEPT !.stmt = Instrumented(@, source)]
      [] OTHER -> st

Probed(block, source) == FlattenSeq([i \in 1 .. Len(block) |->
    Probe(block[i]) \o Jumps(source, block[i], {}) \o <<Instrumented(block[i], source)>>])

-----------------------------------------------------------------------------
Unambiguous(source) == \A m, n \in source :
    m.op = "mark" /\ n.op = "mark" /\ m.label = n.label => m = n

\* Every goto that is taken finds its label, as Go requires of every goto.
Closed(outcome) == \A x \in outcome : x[1] \notin Labels

\* "Coverage probes run before a statement, so a statement that throws is counted as
\* entered" (README.md:226), and one that is not reached is not: however a function is
\* left, its probes have counted the statements it entered, and it is left no other way.
CoverageExact(code) ==
    LET block == Placed(code, <<>>)
        source == Inside(block)
        plain == Run(block, Entry)
        counted == Run(Probed(block, source), Entry)
        Entered(o) == {<<x[1], x[2].entered>> : x \in o}
    IN  Unambiguous(source) /\ Closed(plain) =>
            /\ Entered(counted) = Entered(plain)
            /\ \A x \in counted : x[2].hit = x[2].entered
=============================================================================
