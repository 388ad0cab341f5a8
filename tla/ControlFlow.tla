---------------------------- MODULE ControlFlow ----------------------------
(***************************************************************************)
(* The control-flow pass, internal/compiler/control_flow.go: every block   *)
(* of a try becomes a Go closure, and a return, break or continue that     *)
(* would leave a closure becomes a signal in ghi_flow, which the code      *)
(* after each emitted Try call tests.                                      *)
(***************************************************************************)
EXTENDS ExceptionSemantics

Signal(code) == [op |-> "signal", code |-> code]
Test(code, body) == [op |-> "test", code |-> code, body |-> body]
Assign(v) == [op |-> "assign", value |-> v]
Exit == [op |-> "exit"]
Pass == [op |-> "pass"]
ReturnSlots == [op |-> "returnSlots"]

\* A loop or switch around the statement: the closure depth it is at, and its codes;
\* continueCode 0 marks a switch.
Targets == [label : Label, depth : Nat, breakCode : Nat, continueCode : Nat]

\* Where a statement stands: inside depth closures and these targets, and next is the
\* next unused code.
Context == [depth : Nat, targets : Seq(Targets), next : Nat]

\* A lowered statement.
Lowered(code, next, rejected, scoped, used) ==
    [code |-> code, next |-> next, rejected |-> rejected, scoped |-> scoped, used |-> used]
Plain(code, c) == Lowered(code, c.next, FALSE, FALSE, FALSE)

\* A return below depth 0 leaves its value in the result slots.
LowerReturn(st, c) ==
    IF c.depth = 0 THEN st ELSE Then(Assign(st.value), Then(Signal(1), Exit))

\* Mutant: the label is not asked for.
Candidates_AnyLabel(tok, label, targets) == {i \in 1 .. Len(targets) :
    tok = "continue" => targets[i].continueCode # 0}

\* The targets a branch may mean; it means the innermost.
Candidates(tok, label, targets) == {i \in 1 .. Len(targets) :
    /\ label \in {"", targets[i].label}
    /\ tok = "continue" => targets[i].continueCode # 0}

CodeOf(tok, target) == IF tok = "break" THEN target.breakCode ELSE target.continueCode

LowerBranch(st, c) ==
    LET candidates == Candidates(st.tok, st.label, c.targets)
        target == c.targets[Max(candidates)]
    IN  IF candidates = {} THEN Lowered(st, c.next, TRUE, FALSE, FALSE)
        ELSE IF target.depth = c.depth THEN Plain(st, c)
        ELSE Plain(Then(Signal(CodeOf(st.tok, target)), Exit), c)

\* Mutant: the signal is not taken back.
TestFor_SignalStays(tok, target) == Test(CodeOf(tok, target), Branch(tok, target.label))

TestFor(tok, target) ==
    Test(CodeOf(tok, target), Then(Signal(0), Branch(tok, target.label)))

\* The tests after a Try for target i. Of the targets at this depth the innermost is
\* tested, and so are those with a label; outer ones without cannot be meant.
TestsFor(c, i) ==
    LET t == c.targets[i]
        loops == {j \in 1 .. Len(c.targets) : c.targets[j].continueCode # 0}
        Meant(S) == /\ i \in S
                    /\ t.label = "" => ~\E j \in S : j > i /\ c.targets[j].depth = c.depth
    IN  IF t.depth # c.depth THEN None
        ELSE Then(IF Meant(1 .. Len(c.targets)) THEN TestFor("break", t) ELSE None,
                  IF Meant(loops) THEN TestFor("continue", t) ELSE None)

\* What comes after the tests.
Onward(c) == IF c.depth > 0 THEN Pass ELSE Test(1, ReturnSlots)

\* The tests for the n outermost targets, from the inside out.
Dispatch(c, n) ==
    LET tests[i \in Nat] ==
            IF i = 0 THEN Onward(c) ELSE Then(TestsFor(c, i), tests[i - 1])
    IN  tests[n]

\* Mutants: the code of a block is used as it is.
LowerHandler_KeepsSignal(code) == code

LowerFinalizer_Unguarded(code) == code

\* What is put in front of a handler, and around a finalizer.
LowerHandler(code) == Then(Signal(0), code)

LowerFinalizer(code) == [op |-> "guarded", body |-> code]

-----------------------------------------------------------------------------
(* low is the function that lowers the statements inside a statement.      *)

\* Two statements, or blocks, in the order they are lowered in.
LowerThen(low, st, c) ==
    LET a == low[<<st.first, c>>]
        b == low[<<st.rest, [c EXCEPT !.next = a.next]>>]
    IN  Lowered(Then(a.code, b.code), b.next, a.rejected \/ b.rejected,
                a.scoped \/ b.scoped, a.used \/ b.used)

\* The closures of a try, in the order of the arguments: next and the flags go through.
LowerTry(low, st, c) ==
    LET Closure(block, next) == low[<<block, [c EXCEPT !.depth = @ + 1, !.next = next]>>]
        body == Closure(st.body, c.next)
        handler == Closure(st.handler, body.next)
        finalizer == Closure(st.finalizer, handler.next)
        call == [op |-> "Try", body |-> body.code,
                 handler |-> IF st.handler = None THEN None ELSE LowerHandler(handler.code),
                 finalizer |-> IF st.finalizer = None THEN None
                               ELSE LowerFinalizer(finalizer.code)]
    IN  Lowered(Then(call, Dispatch(c, Len(c.targets))), finalizer.next,
                body.rejected \/ handler.rejected \/ finalizer.rejected,
                body.scoped \/ handler.scoped \/ finalizer.scoped, TRUE)

\* A statement with one block inside.
LowerInner(low, st, c) ==
    LET b == low[<<st.body, c>>] IN [b EXCEPT !.code = [st EXCEPT !.body = b.code]]

\* Around the block of a loop or switch there is one more target.
Inside(st, c) ==
    LET loop == st.op = "loop"
        target == [label |-> st.label, depth |-> c.depth, breakCode |-> c.next,
                   continueCode |-> IF loop THEN c.next + 1 ELSE 0]
    IN  [c EXCEPT !.targets = Append(@, target), !.next = @ + IF loop THEN 2 ELSE 1]

Lower(low, st, c) ==
    CASE st.op = "then"   -> LowerThen(low, st, c)
      [] st.op = "try"    -> LowerTry(low, st, c)
      [] st.op = "return" -> Plain(LowerReturn(st, c), c)
      [] st.op = "branch" -> LowerBranch(st, c)
      [] st.op \in {"loop", "switch"} -> LowerInner(low, st, Inside(st, c))
      [] st.op \in {"if", "shadow", "catch"} -> LowerInner(low, st, c)
      [] st.op = "defer"  -> Lowered(st, c.next, FALSE, c.depth > 0, FALSE)
      [] OTHER            -> Plain(st, c)

\* What a statement of at most n levels is lowered to in a context.
Lowering[n \in Nat] ==
    [x \in Statement[n] \X Context |->
        Lower(IF n = 0 THEN <<>> ELSE Lowering[n - 1], x[1], x[2])]

\* Mutant: a try terminates where its try block does.
Terminates_BodyOnly(ends, st) ==
    \/ st.op \in {"return", "throw"}
    \/ st.op = "then" /\ ends[st.rest]
    \/ st.op \in {"shadow", "try", "catch"} /\ ends[st.body]

\* Go accepts a function with results if its body ends in a terminating statement; the
\* emitted call of Try is none.
Terminates(ends, st) ==
    \/ st.op \in {"return", "throw"}
    \/ st.op = "then" /\ ends[st.rest]
    \/ st.op = "shadow" /\ ends[st.body]
    \/ st.op = "try" /\ \/ ends[st.finalizer]
                        \/ ends[st.body] /\ (st.handler = None \/ ends[st.handler])
    \* if the exception matches, the catch block; else a throw
    \/ st.op = "catch" /\ ends[st.body]

Terminating[n \in Nat] ==
    [st \in Statement[n] |-> Terminates(IF n = 0 THEN <<>> ELSE Terminating[n - 1], st)]

\* A function body of at most n levels, and what is emitted for it.
LowerFunction(n, body) ==
    Lowering[n][<<body, [depth |-> 0, targets |-> <<>>, next |-> 2]>>]

Emitted(n, body) ==
    LET l == LowerFunction(n, body) IN
    IF l.used /\ Terminating[n][body] THEN Then(l.code, [op |-> "unreachable"]) ELSE l.code
=============================================================================
