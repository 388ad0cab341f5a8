---------------------------- MODULE NullableFlow ----------------------------
(***************************************************************************)
(* Narrowing of nullable objects, internal/compiler/nullable_flow.go: the  *)
(* locals that are proved not to be nil where they are used.  A use stands *)
(* for every place that needs the object: a selector, an index, a slice, a *)
(* range, an argument, a result; without a proof validateNonNull refuses it.*)
(***************************************************************************)
EXTENDS Naturals, SequencesExt, FiniteSetsExt

CONSTANTS Locals,   \* nullable variables of the function
          Globals,  \* nullable variables of packages
          Objects   \* variables of the function that are not nullable

Variables == Locals \cup Globals

-----------------------------------------------------------------------------
(* Executions: an environment has the variables that are nil, and those    *)
(* that a function literal or a pointer made so far can write.             *)

Entry == [nil : SUBSET Variables, caught : {{}}]

Opposite(v) == CASE v = "yes" -> "no" [] v = "no" -> "yes" [] OTHER -> v

RECURSIVE Test(_, _)
Test(c, e) ==
    CASE c.op = "any"    -> {"yes", "no"}
      [] c.op = "nonnil" -> IF c.of \in e.nil THEN {"no"} ELSE {"yes"}
      [] c.op = "field"  -> IF c.of \in e.nil THEN {"bad"} ELSE {"yes", "no"}
      [] c.op = "not"    -> {Opposite(v) : v \in Test(c.arg, e)}
      [] c.op \in {"and", "or"} ->
            LET on == IF c.op = "and" THEN "yes" ELSE "no"
                left == Test(c.left, e)
            IN  (left \ {on}) \cup (IF on \in left THEN Test(c.right, e) ELSE {})

\* The places of an array or a slice (len = 0): a literal with some of them, make, new.
Places(st) == 0 .. (IF st.len = 0 THEN Max(st.filled) + 1 ELSE st.len) - 1

\* May there be nothing to read: a closed channel, an absent key, another type?  An
\* assertion with one result panics.
Missing(st) == IF st.of = "assertion" /\ ~st.pair THEN {FALSE} ELSE BOOLEAN

Write(e, x, nil) == [e EXCEPT !.nil = IF nil THEN @ \cup {x} ELSE @ \ {x}]

\* A call may run every literal there is, and any code of other packages.
Effect(st, e) ==
    LET open == (e.caught \ Objects) \cup Globals
        next == CASE st.op = "use" -> IF st.of \in e.nil THEN {} ELSE {e}
                  [] st.op = "set" -> {Write(e, st.to, st.nil)}
                  [] st.op = "copy" -> {Write(e, st.to, st.from \in e.nil)}
                  [] st.op = "take" -> {Write(e, st.to, b) : b \in Missing(st)}
                  [] st.op = "element" -> {Write(e, st.to, i \notin st.filled) : i \in Places(st)}
                  [] st.op = "declare" -> {Write(e, st.of, TRUE)}
                  [] st.op = "bind" -> {Write(e, st.to, b) : b \in BOOLEAN}
                  [] st.op = "capture" -> {[e EXCEPT !.caught = @ \cup {st.of}]}
                  [] st.op = "call" -> {[e EXCEPT !.nil = (@ \ open) \cup N] : N \in SUBSET open}
        good == {f \in next : f.nil \cap Objects = {}}
    IN  {<<"next", f>> : f \in good} \cup
        IF next = {} \/ good # next THEN {<<"bad", e>>} ELSE {}

Enter(st, e) == e

INSTANCE Executions

-----------------------------------------------------------------------------
(* The analysis.  A proof is the set of variables known not to be nil.     *)

Unstable(body) == {st.of : st \in {s \in Inside(body) : s.op = "capture"}}

Assignments == {"set", "copy", "take", "element"}

Writes(block) == {st.to : st \in {s \in Inside(block) : s.op \in Assignments}} \cup
                 {st.key : st \in {s \in Inside(block) : s.op = "range"}}

\* stable: the locals that a proof may be about.
Prove(c, truth, proof, stable) ==
    IF c.of \notin stable THEN proof
    ELSE IF truth THEN proof \cup {c.of} ELSE proof \ {c.of}

\* Mutant: the operands of a failed || are not told apart from those of a passed one.
RECURSIVE Assume_EitherWay(_, _, _, _)
Assume_EitherWay(c, truth, proof, stable) ==
    CASE c.op = "not" -> Assume_EitherWay(c.arg, ~truth, proof, stable)
      [] c.op \in {"and", "or"} ->
            Assume_EitherWay(c.right, truth, Assume_EitherWay(c.left, truth, proof, stable), stable)
      [] c.op = "nonnil" -> Prove(c, truth, proof, stable)
      [] OTHER -> proof

\* What a condition adds to a proof where it holds, or does not.
RECURSIVE Assume(_, _, _, _)
Assume(c, truth, proof, stable) ==
    CASE c.op = "not" -> Assume(c.arg, ~truth, proof, stable)
      [] c.op = "and" /\ truth ->
            Assume(c.right, TRUE, Assume(c.left, TRUE, proof, stable), stable)
      [] c.op = "or" /\ ~truth ->
            Assume(c.right, FALSE, Assume(c.left, FALSE, proof, stable), stable)
      [] c.op = "nonnil" -> Prove(c, truth, proof, stable)
      [] OTHER -> proof

\* Is every use in an expression covered?
RECURSIVE Covered(_, _, _)
Covered(c, proof, stable) ==
    CASE c.op = "field" -> c.of \in proof
      [] c.op = "not"   -> Covered(c.arg, proof, stable)
      [] c.op \in {"and", "or"} ->
            /\ Covered(c.left, proof, stable)
            /\ Covered(c.right, Assume(c.left, c.op = "and", proof, stable), stable)
      [] OTHER -> TRUE

\* blockTerminates, for the statements here.
RECURSIVE Terminates(_)
Terminates(block) == block # <<>> /\
    LET st == Last(block) IN
    \/ st.op \in {"return", "throw"}
    \/ st.op = "if" /\ Terminates(st.body) /\ Terminates(st.else)

\* The reads whose result becomes nullable, because the value may be missing: receives
\* and tested assertions, and map reads.
ZeroResult(st) == st.op = "take" /\ (st.of = "channel" \/ (st.of = "assertion" /\ st.pair))

\* Mutant: only the reads that ask whether there was a value.
MapRead_Asked(st) == st.op = "take" /\ st.of = "map" /\ st.pair

MapRead(st) == st.op = "take" /\ st.of = "map"

\* A proof lets a nullable variable stand where an object is required...
Required(st, proof) == st.op = "copy" /\ st.from \in proof

\* ...and an object may always stand where it is not: it is boxed.
Boxed(st) == st.op = "copy" /\ st.from \in Objects

\* Does a collection with nonnullable elements lack some of them?
Zeroed(st) == st.op = "element" /\ Cardinality(st.filled) # Cardinality(Places(st))

\* validateNonNull, for what is written to a variable that is not nullable.
Refused(st) == st.op = "declare" \/ (st.op = "set" /\ st.nil) \/ Zeroed(st)

\* With Go's own rules, after the lowering above: no nullable value for an object.
Writable(st, proof) == st.to \in Objects =>
    /\ ~Refused(st) /\ ~ZeroResult(st) /\ ~MapRead(st)
    /\ st.op = "copy" => Boxed(st) \/ Required(st, proof)

Verdict(proof, ok) == [proof |-> proof, ok |-> ok]

\* The proof each case starts from, and what the default starts from: f.switchCases
\* passes through the conditions in the order they are evaluated.
RECURSIVE CaseProofs(_, _, _)
CaseProofs(questions, remaining, stable) ==
    IF questions = <<>> THEN [cases |-> {}, rest |-> remaining, ok |-> TRUE]
    ELSE LET q == Head(questions)
             t == CaseProofs(Tail(questions), Assume(q.cond, FALSE, remaining, stable), stable)
         IN  [t EXCEPT !.cases = @ \cup {[to |-> q.to,
                                          proof |-> Assume(q.cond, TRUE, remaining, stable)]},
                       !.ok = @ /\ Covered(q.cond, remaining, stable)]

\* Mutant: a case that is fallen into starts from its own condition.
Incoming_Own(cases, i, proofs) ==
    IF cases[i].conds = <<>> THEN proofs.rest
    ELSE {x \in Variables : \A p \in proofs.cases : p.to = i => x \in p.proof}

Incoming(cases, i, proofs) ==
    IF i > 1 /\ cases[i - 1].falls THEN {}
    ELSE IF cases[i].conds = <<>> THEN proofs.rest
    ELSE {x \in Variables : \A p \in proofs.cases : p.to = i => x \in p.proof}

\* Mutant: what a loop writes is taken to be as before it.
AtHead_Kept(st, proof) == proof

\* What is left of a proof at the head of a loop and after a switch.
AtHead(st, proof) == proof \ Writes(<<st>>)

\* Mutant: the branch that goes on is not asked for.
AfterIf_Both(st, yes, no) == yes \cup no

AfterIf(st, yes, no) ==
    IF Terminates(st.body) THEN no
    ELSE IF Terminates(st.else) THEN yes
    ELSE yes \cap no

RECURSIVE Flow(_, _, _), FlowBlock(_, _, _)

FlowBlock(block, proof, stable) ==
    IF block = <<>> THEN Verdict(proof, TRUE)
    ELSE LET h == Flow(Head(block), proof, stable)
             t == FlowBlock(Tail(block), h.proof, stable)
         IN  Verdict(t.proof, h.ok /\ t.ok)

FlowIf(st, proof, stable) ==
    LET yes == FlowBlock(st.body, Assume(st.cond, TRUE, proof, stable), stable)
        no == FlowBlock(st.else, Assume(st.cond, FALSE, proof, stable), stable)
    IN  Verdict(AfterIf(st, yes.proof, no.proof),
                Covered(st.cond, proof, stable) /\ yes.ok /\ no.ok)

\* The post statement starts from the proof at the body's end.
FlowFor(st, proof, stable) ==
    LET head == AtHead(st, proof)
        body == FlowBlock(st.body, Assume(st.cond, TRUE, head, stable), stable)
    IN  Verdict(head, /\ Covered(st.cond, head, stable)
                      /\ body.ok
                      /\ FlowBlock(st.post, body.proof, stable).ok)

FlowSwitch(st, proof, stable) ==
    LET proofs == CaseProofs(Questions(st.cases), proof, stable) IN
    Verdict(AtHead(st, proof), proofs.ok /\ \A i \in 1 .. Len(st.cases) :
        FlowBlock(st.cases[i].body, Incoming(st.cases, i, proofs), stable).ok)

Flow(st, proof, stable) ==
    CASE st.op = "use" -> Verdict(proof, st.of \in proof \cup Objects)
      [] st.op \in Assignments -> Verdict(proof \ {st.to}, Writable(st, proof))
      [] st.op = "declare" -> Verdict(proof, ~Refused(st))
      [] st.op = "if"     -> FlowIf(st, proof, stable)
      [] st.op = "for"    -> FlowFor(st, proof, stable)
      [] st.op = "range"  ->
            Verdict(AtHead(st, proof), FlowBlock(st.body, AtHead(st, proof), stable).ok)
      [] st.op = "switch" -> FlowSwitch(st, proof, stable)
      [] st.op = "typeswitch" -> Verdict(AtHead(st, proof), \A i \in 1 .. Len(st.cases) :
            FlowBlock(st.cases[i].body, AtHead(st, proof), stable).ok)
      [] st.op = "label"  -> FlowBlock(st.body, {}, stable)
      [] OTHER -> Verdict(proof, TRUE)

Narrow(body) == FlowBlock(body, {}, Locals \ Unstable(body))

-----------------------------------------------------------------------------
\* A loop in which a continue can reach a post statement that uses a variable.
SkipsToPost(body) == \E st \in Inside(body) :
    /\ st.op = "for" /\ \E u \in Inside(st.post) : u.op = "use"
    /\ \E b \in Inside(st.body) : b.op = "branch" /\ b.tok = "continue"

\* "Check for nil before accessing a nullable object" (README.md:702): an accepted body
\* uses no nil object, whatever its conditions, calls and callbacks do, but for a post
\* statement of a loop that a continue jumps to (line 297).
NilSafe(body) == Narrow(body).ok /\ ~SkipsToPost(body) => At(Run(body, Entry), "bad") = {}

\* Without the exception.
NilSafeEverywhere(body) == Narrow(body).ok => At(Run(body, Entry), "bad") = {}
=============================================================================
