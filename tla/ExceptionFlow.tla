--------------------------- MODULE ExceptionFlow ---------------------------
(***************************************************************************)
(* Function bodies grown statement by statement, each run as the language  *)
(* defines it and as the control-flow pass emits it.                       *)
(***************************************************************************)
EXTENDS ControlFlow

CONSTANTS Size,      \* how to grow: sets of simple statements (leaf) and of blocks to put
                     \* beside the grown one in a try (filler), the types of catches,
                     \* growth steps, and whether the function names its result
          Nesting    \* how many levels a body may have

ASSUME NestingAssumption == Nesting \in Nat
ASSUME SizeAssumption == \A s \in Size : s.named \in BOOLEAN

VARIABLES code,      \* the body of the function
          size,      \* one of Size
          steps      \* growth so far

vars == <<code, size, steps>>

\* The labels that a break and a continue may use, and what is around.
Scope == [breaks : SUBSET Label, continues : SUBSET Label,
          inTry : BOOLEAN, inShadow : BOOLEAN]
Outermost == [breaks |-> {}, continues |-> {}, inTry |-> FALSE, inShadow |-> FALSE]

When(condition, flaw) == IF condition THEN {flaw} ELSE {}

\* What is odd about a statement: a branch without a target (dangling), a return inside a
\* try where the result is shadowed (shadowed), a label that is in use around (reused), and
\* what no programmer writes (emitted).
Flaws(inner, st, scope) ==
    LET labels == {"", st.label}
        usable == IF st.tok = "break" THEN scope.breaks ELSE scope.continues
        Within(block) == inner[<<block, [scope EXCEPT !.inTry = TRUE]>>]
    IN
    CASE st.op \in {"none", "emit", "bump", "throw", "defer"} -> {}
      [] st.op = "return" -> When(scope.inTry /\ scope.inShadow, "shadowed")
      [] st.op = "branch" -> When(st.label \notin usable, "dangling")
      [] st.op = "then"   -> inner[<<st.first, scope>>] \cup inner[<<st.rest, scope>>]
      [] st.op = "shadow" -> inner[<<st.body, [scope EXCEPT !.inShadow = TRUE]>>]
      [] st.op = "loop"   ->
            When(st.label # "" /\ st.label \in scope.breaks, "reused") \cup
            inner[<<st.body, [scope EXCEPT !.breaks = @ \cup labels,
                                           !.continues = @ \cup labels]>>]
      [] st.op = "switch" ->
            When(st.label # "" /\ st.label \in scope.breaks, "reused") \cup
            inner[<<st.body, [scope EXCEPT !.breaks = @ \cup labels]>>]
      [] st.op \in {"if", "catch"} -> inner[<<st.body, scope>>]
      [] st.op = "try"    -> Within(st.body) \cup Within(st.handler) \cup Within(st.finalizer)
      [] OTHER -> {"emitted"}

Flawed[n \in Nat] ==
    [x \in Statement[n] \X Scope |->
        Flaws(IF n = 0 THEN <<>> ELSE Flawed[n - 1], x[1], x[2])]

Has(body, flaw) == flaw \in Flawed[Nesting][<<body, Outermost>>]

\* What Go and Ghi take for a body.
Written(body) ==
    body \in Statement[Nesting] /\ ~Has(body, "reused") /\ ~Has(body, "emitted")

-----------------------------------------------------------------------------
Init == /\ size \in Size
        /\ code \in {st \in size.leaf : Written(st)}
        /\ steps = 0

Grow(body) ==
    /\ steps < size.steps
    /\ Written(body)
    /\ steps' = steps + 1 /\ code' = body /\ UNCHANGED size

Follow == \E st \in size.leaf : Grow(Then(code, st)) \/ Grow(Then(st, code))

Enclose == Grow(If(code)) \/ Grow(Shadow(code))

Breakable == \E l \in Label : Grow(Loop(l, code)) \/ Grow(Switch(l, code))

\* No handler, or one that catches some types.
Handlers(blocks) ==
    {None} \cup {Catch(types, b) : types \in size.types, b \in blocks}
Finalizers(blocks) == {None} \cup blocks

\* The grown block becomes the body, the handler or the finalizer of a try.
Protect ==
    \/ \E h \in Handlers(size.filler), f \in Finalizers(size.filler) :
          (h # None \/ f # None) /\ Grow(Try(code, h, f))
    \/ \E b \in size.filler, h \in Handlers({code}), f \in Finalizers(size.filler) :
          h # None /\ Grow(Try(b, h, f))
    \/ \E b \in size.filler, h \in Handlers(size.filler) : Grow(Try(b, h, code))

Next == Follow \/ Enclose \/ Breakable \/ Protect

Spec == Init /\ [][Next]_vars

-----------------------------------------------------------------------------
Rejected == LowerFunction(Nesting, code).rejected

\* The levels of what is emitted, and the ends of the two runs.
EmittedLevels == 3 * Nesting + 3
Start(routed) == Fresh(size.named, routed)
RunAsWritten == Running[Nesting][<<code, Start(FALSE)>>]
RunAsEmitted == Running[EmittedLevels][
    <<Emitted(Nesting, code), Start(LowerFunction(Nesting, code).scoped)>>]

\* The emitted code prints the same, in the same order, and ends the same way as the
\* function does as written, whatever returns, branches, exceptions, faults and
\* deferred calls cross its try statements; and it returns the same value, unless the
\* result has no name and an earlier pending return was abandoned, or has one and a return
\* does not see it (lines 162-380).  Code that goes on after a try sees no signal
\* of an earlier one (lines 362, 366), so that a function that runs to its end has none
\* left.
LoweringCorrect ==
    LET written == RunAsWritten
        emitted == RunAsEmitted
        exact == IF size.named THEN ~Has(code, "shadowed")
                 ELSE written.lost => written.kind # "return"
    IN  ~Rejected =>
        /\ Outcome(emitted).how = Outcome(written).how
        /\ Outcome(emitted).trace = Outcome(written).trace
        /\ exact => Outcome(emitted).value = Outcome(written).value
        /\ emitted.kind = "next" => emitted.flow = 0

\* "restores Ghi return/break/continue semantics" (exception_parse.go:9-11): a return
\* hands the caller the value it was written with.
ReturnsRestored == ~Rejected => Outcome(RunAsEmitted).value = Outcome(RunAsWritten).value

\* The pass refuses exactly the branches that have no target, closures or not
\* (line 216).
DanglingRejected == Rejected <=> Has(code, "dangling")
=============================================================================
