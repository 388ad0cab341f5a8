----------------------------- MODULE Executions -----------------------------
(***************************************************************************)
(* Function bodies and all their executions at once.  A body is run from a *)
(* set of environments, and the outcome says in which environments it can  *)
(* end each way.  What simple statements and conditions do is given by the *)
(* analysis that uses this module.                                         *)
(***************************************************************************)
EXTENDS Naturals, SequencesExt

CONSTANTS Effect(_, _),  \* the outcome of a simple statement in an environment
          Test(_, _),    \* of "yes", "no" and "bad", what a condition may give
          Enter(_, _)    \* the environment in which a statement of a list begins

\* An outcome is a set of pairs, of how an execution ends and of the environment in which
\* it does: "next", "break", "continue", "return", "raised", the label it goes to, the
\* break that names one, or "bad" when it has done what no accepted program may do.
At(o, end) == {x[2] : x \in {y \in o : y[1] = end}}
Only(end, S) == {<<end, e>> : e \in S}
Except(o, ends) == {x \in o : x[1] \notin ends}

Decide(cond, S, v) == {e \in S : v \in Test(cond, e)}

\* The conditions of a switch in the order they are evaluated, each with its case.
Questions(cases) == FlattenSeq([i \in 1 .. Len(cases) |->
    [j \in 1 .. Len(cases[i].conds) |-> [to |-> i, cond |-> cases[i].conds[j]]]])

\* The cases an environment may choose; without a default it may be the one after the
\* last, and "bad" is the one after that.
RECURSIVE Picks(_, _, _, _)
Picks(questions, default, bad, e) ==
    IF questions = <<>> THEN {default}
    ELSE LET q == Head(questions)
             v == Test(q.cond, e)
         IN  (IF "yes" \in v THEN {q.to} ELSE {}) \cup (IF "bad" \in v THEN {bad} ELSE {}) \cup
             (IF "no" \in v THEN Picks(Tail(questions), default, bad, e) ELSE {})

Default(cases) == LET d == {i \in 1 .. Len(cases) : cases[i].conds = <<>>} IN
    IF d = {} THEN Len(cases) + 1 ELSE CHOOSE i \in d : TRUE

\* All statements of a block, at any depth.
RECURSIVE Inside(_)
Inside(block) == UNION {{block[i]} \cup
    LET st == block[i] IN
    CASE st.op = "if" -> Inside(st.body) \cup Inside(st.else)
      [] st.op = "for" -> Inside(st.body) \cup Inside(st.post)
      [] st.op \in {"switch", "typeswitch"} ->
            UNION {Inside(st.cases[j].body) : j \in 1 .. Len(st.cases)}
      [] st.op = "try" -> Inside(st.body \o FlattenSeq(st.handler \o st.finalizer))
      [] st.op \in {"range", "label", "block"} -> Inside(st.body)
      [] st.op = "mark" -> Inside(<<st.stmt>>)
      [] OTHER -> {} : i \in 1 .. Len(block)}

RECURSIVE Straight(_, _), Follow(_, _), Do(_, _), DoLoop(_, _), DoLabel(_, _),
          DoMarked(_, _), RunCases(_, _, _, _)

\* Without the jumps to labels of the list itself.
Straight(block, S) ==
    IF block = <<>> \/ S = {} THEN Only("next", S)
    ELSE LET o == Do(Head(block), {Enter(Head(block), e) : e \in S}) IN
         Except(o, {"next"}) \cup Straight(Tail(block), At(o, "next"))

Marks(block) == {i \in 1 .. Len(block) : block[i].op = "mark"}

\* With them; at: pairs of a place to begin at and an environment.
Follow(block, at) ==
    LET o == UNION {Straight(SubSeq(block, i, Len(block)), At(at, i)) : i \in {x[1] : x \in at}}
        more == UNION {Only(i, At(o, block[i].label)) : i \in Marks(block)}
    IN  IF more \subseteq at THEN Except(o, {block[i].label : i \in Marks(block)})
        ELSE Follow(block, at \cup more)

Run(block, S) == Follow(block, Only(1, S))

\* One round of a loop from the environments at its head.
Round(st, S) ==
    LET body == Run(st.body, Decide(st.cond, S, "yes"))
        post == Run(st.post, At(body, "next") \cup At(body, "continue"))
    IN  Except(body, {"next", "continue"}) \cup post \cup
        Only("break", Decide(st.cond, S, "no")) \cup Only("bad", Decide(st.cond, S, "bad"))

\* S: the environments in which a loop can be at its head.
DoLoop(st, S) ==
    LET o == Round(st, S) IN
    IF At(o, "next") \subseteq S
    THEN Except(o, {"next", "break"}) \cup Only("next", At(o, "break"))
    ELSE DoLoop(st, S \cup At(o, "next"))

\* A break that names the label of the statement it leaves.
BreakOf(label) == "break " \o label

DoMarked(st, S) ==
    LET o == Run(<<st.stmt>>, S) IN
    Except(o, {BreakOf(st.label)}) \cup Only("next", At(o, BreakOf(st.label)))

\* A label that the end of its block may jump back to.
DoLabel(body, S) ==
    LET o == Run(body, S) IN
    IF At(o, "next") \subseteq S THEN o ELSE DoLabel(body, S \cup At(o, "next"))

RunCases(cases, i, arrive, fallen) ==
    IF i > Len(cases) THEN {}
    ELSE LET o == Run(cases[i].body, At(arrive, i) \cup fallen) IN
         (IF cases[i].falls THEN Except(o, {"next"}) ELSE o) \cup
         RunCases(cases, i + 1, arrive, IF cases[i].falls THEN At(o, "next") ELSE {})

DoSwitch(st, S) ==
    LET last == Len(st.cases)
        Chosen(e) == Picks(Questions(st.cases), Default(st.cases), last + 2, e)
        arrive == UNION {{<<i, e>> : i \in Chosen(e)} : e \in S}
        o == RunCases(st.cases, 1, arrive, {})
    IN  Except(o, {"break"}) \cup Only("bad", At(arrive, last + 2)) \cup
        Only("next", At(o, "break") \cup At(arrive, last + 1))

\* A finalizer runs however the statement ends, and its own end comes first.
Finally(finalizer, o) ==
    LET After(end) == Run(finalizer, At(o, end))
        Left(end) == Except(After(end), {"next"}) \cup Only(end, At(After(end), "next"))
    IN  Only("bad", At(o, "bad")) \cup UNION {Left(end) : end \in {x[1] : x \in o} \ {"bad"}}

DoTry(st, S) ==
    LET body == Run(st.body, S)
        caught == IF st.handler = <<>> THEN body
                  ELSE Except(body, {"raised"}) \cup Run(st.handler[1], At(body, "raised"))
    IN  IF st.finalizer = <<>> THEN caught ELSE Finally(st.finalizer[1], caught)

Do(st, S) ==
    CASE st.op = "if"     -> Only("bad", Decide(st.cond, S, "bad"))
            \cup Run(st.body, Decide(st.cond, S, "yes")) \cup Run(st.else, Decide(st.cond, S, "no"))
      [] st.op = "for"    -> DoLoop(st, S)
      [] st.op \in {"switch", "typeswitch"} -> DoSwitch(st, S)
      [] st.op = "try"    -> DoTry(st, S)
      [] st.op = "label"  -> DoLabel(st.body, S)
      [] st.op = "block"  -> Run(st.body, S)
      [] st.op = "mark"   -> DoMarked(st, S)
      [] st.op = "range"  -> DoLoop([op |-> "for", cond |-> [op |-> "any"], post |-> <<>>,
                                     body |-> <<[op |-> "bind", to |-> st.key]>> \o st.body], S)
      [] st.op = "return" -> Only("return", S)
      [] st.op = "throw"  -> Only("raised", S)
      [] st.op = "branch" -> Only(st.tok, S)
      [] OTHER -> UNION {Effect(st, e) : e \in S}
=============================================================================
