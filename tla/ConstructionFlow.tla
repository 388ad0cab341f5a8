-------------------------- MODULE ConstructionFlow --------------------------
(***************************************************************************)
(* The check of constructors, internal/compiler/construction.go and        *)
(* construction_flow.go, with the parent calls of class_emit.go.  A class  *)
(* has fields of its own, and may have a parent: "bare" if the parent's    *)
(* constructor takes no arguments, "args" if it does, "none" without.      *)
(***************************************************************************)
EXTENDS Naturals, SequencesExt, FiniteSets

CONSTANT Definitions   \* the named types of the project

VARIABLE class         \* the class of the constructor

\* "@parent" stands for what the parent's constructor initializes.
Parent == "@parent"

-----------------------------------------------------------------------------
(* Executions: an environment is the set of what is initialized.  Anything  *)
(* that calls something may raise an exception before it has its effect.    *)

\* Does a field that is never assigned hold a nil object that may not be nil?
RECURSIVE HoldsNil(_)
HoldsNil(type) ==
    CASE type.op \in {"class", "generic"} -> TRUE
      [] type.op = "array"  -> type.len > 0 /\ HoldsNil(type.elt)
      [] type.op = "struct" -> \E t \in type.fields : HoldsNil(t)
      [] type.op = "named"  -> HoldsNil(Definitions[type.name])
      [] OTHER -> FALSE

Entry == IF class.parent = "none" THEN {Parent} ELSE {}
MayBeNil == {f \in DOMAIN class.types : ~HoldsNil(class.types[f])}

Readable(f, e) == Parent \in e /\ f \in e \cup MayBeNil

Test(c, e) ==
    CASE c.op = "any"  -> {"yes", "no"}
      [] c.op = "true" -> {"yes"}
      [] c.op = "field" -> IF Readable(c.of, e) THEN {"yes", "no"} ELSE {"bad"}

Effect(st, e) ==
    LET done == CASE st.op = "init" /\ Parent \in e -> {e \cup {st.field}}
                  [] st.op = "read" /\ Readable(st.field, e) -> {e}
                  [] st.op = "parent" /\ Parent \notin e -> {e \cup {Parent}}
                  [] st.op \in {"call", "bind"} -> {e}
                  [] OTHER -> {}
    IN  (IF done = {} THEN {<<"bad", e>>} ELSE {<<"next", f>> : f \in done}) \cup
        (IF st.op \in {"init", "parent", "call"} THEN {<<"raised", e>>} ELSE {})

Enter(st, e) == e

INSTANCE Executions

-----------------------------------------------------------------------------
(* The check: the ways a block can be left, with the fields initialized on *)
(* every path to it.                                                       *)

RECURSIVE SourceNeedsInitialization(_, _)
SourceNeedsInitialization(type, seen) ==
    CASE type.op \in {"class", "generic"} -> TRUE
      [] type.op = "array"  -> type.len # 0 /\ SourceNeedsInitialization(type.elt, seen)
      [] type.op = "struct" -> \E t \in type.fields : SourceNeedsInitialization(t, seen)
      [] type.op = "named"  -> /\ type.name \notin seen
                               /\ SourceNeedsInitialization(Definitions[type.name],
                                                            seen \cup {type.name})
      [] OTHER -> FALSE

ParentCalls(block) == {i \in 1 .. Len(block) : block[i].op = "parent"}

Required(body) ==
    {f \in DOMAIN class.types : SourceNeedsInitialization(class.types[f], {})} \cup
    (IF class.parent # "none" /\ ParentCalls(body) # {} THEN {Parent} ELSE {})

Exit(state, flow) == [state |-> state, flow |-> flow]
Found(exits, ok) == [exits |-> exits, ok |-> ok]
Normal(state) == {Exit(state, "next")}

\* Mutant: what one path has initialized counts for all.
Merge_Any(exits) == {Exit(UNION {x.state : x \in {y \in exits : y.flow = k}}, k) :
                        k \in {x.flow : x \in exits}}

Merge(exits) ==
    LET Of(k) == {x.state : x \in {y \in exits : y.flow = k}}
        All(S) == {f \in UNION S : \A s \in S : f \in s}
    IN  {Exit(All(Of(k)), k) : k \in {x.flow : x \in exits}}

Leaving(exits, ks) == {x \in exits : x.flow \in ks}
Resumed(exits, ks) == {Exit(x.state, "next") : x \in Leaving(exits, ks)}

Read(names, state, required) == names \cap required \subseteq state
Asks(c) == IF c.op = "field" THEN {c.of} ELSE {}

RECURSIVE Step(_, _, _), Paths(_, _, _), CasePaths(_, _, _, _, _)

\* One statement after the other; nothing after an exit is looked at.
Paths(block, exits, required) ==
    LET going == Leaving(exits, {"next"}) IN
    IF block = <<>> \/ going = {} THEN Found(exits, TRUE)
    ELSE LET h == Step(Head(block), (CHOOSE x \in going : TRUE).state, required)
             t == Paths(Tail(block), Merge((exits \ going) \cup h.exits), required)
         IN  Found(t.exits, h.ok /\ t.ok)

StepIf(st, state, required) ==
    LET yes == Paths(st.body, Normal(state), required)
        no == Paths(st.else, Normal(state), required)
    IN  Found(Merge(yes.exits \cup no.exits),
              Read(Asks(st.cond), state, required) /\ yes.ok /\ no.ok)

\* Mutant: a loop runs at least once.
StepFor_Once(st, state, required) ==
    LET body == Paths(st.body, Normal(state), required) IN
    Found(Merge(Resumed(body.exits, {"next", "break"}) \cup
                Leaving(body.exits, {"return", "raised"})), body.ok)

StepFor(st, state, required) ==
    LET body == Paths(st.body, Normal(state), required)
        past == IF st.cond.op = "true" THEN {} ELSE Normal(state)
    IN  Found(Merge(past \cup Resumed(body.exits, {"break"}) \cup
                    Leaving(body.exits, {"return", "raised"})),
              /\ Read(Asks(st.cond), state, required) /\ body.ok
              /\ \A x \in Leaving(body.exits, {"next", "continue"}) :
                    Paths(st.post, Normal(x.state), required).ok)

StepRange(st, state, required) ==
    LET body == Paths(st.body, Normal(state), required) IN
    Found(Merge(Normal(state) \cup Leaving(body.exits, {"return", "raised"})), body.ok)

\* The cases from i on; fallen is what falls into the first of them.
CasePaths(cases, i, state, fallen, required) ==
    IF i > Len(cases) THEN Found({}, TRUE)
    ELSE LET r == Paths(cases[i].body, Merge(Normal(state) \cup fallen), required)
             falls == IF cases[i].falls THEN Leaving(r.exits, {"next"}) ELSE {}
             t == CasePaths(cases, i + 1, state, falls, required)
         IN  Found((r.exits \ (falls \cup Leaving(r.exits, {"break"}))) \cup
                       Resumed(r.exits, {"break"}) \cup t.exits,
                   /\ \A j \in 1 .. Len(cases[i].conds) :
                         Read(Asks(cases[i].conds[j]), state, required)
                   /\ r.ok /\ t.ok)

StepSwitch(st, state, required) ==
    LET r == CasePaths(st.cases, 1, state, {}, required)
        none == IF \E i \in 1 .. Len(st.cases) : st.cases[i].conds = <<>> THEN {}
                ELSE Normal(state)
    IN  Found(Merge(r.exits \cup none), r.ok)

\* The fields a statement mentions, itself.
Mentions(st) ==
    CASE st.op \in {"init", "read"} -> {st.field}
      [] st.op \in {"if", "for"} -> Asks(st.cond)
      [] st.op \in {"switch", "typeswitch"} ->
            UNION {Asks(q.cond) : q \in Range(Questions(st.cases))}
      [] OTHER -> {}

\* A statement that has no rule, a type switch or a labelled one, is searched for
\* expressions.
StepOther(st, state, required) ==
    Found(Normal(state), Read(UNION {Mentions(s) : s \in Inside(<<st>>)}, state, required))

\* Mutant: the catch block starts with what the try block has initialized.
Caught_AtEnd(body, state) == Merge(Resumed(body, {"next", "raised"}))

\* "Any expression in try can throw before a field assignment completes."
Caught(body, state) == Normal(state)

StepTry(st, state, required) ==
    LET body == Paths(st.body, Normal(state), required)
        handled == Paths(FlattenSeq(st.handler), Caught(body.exits, state), required)
        exits == IF st.handler # <<>>
                 THEN Merge((body.exits \ Leaving(body.exits, {"raised"})) \cup handled.exits)
                 ELSE body.exits \cup {Exit(state, "raised") : f \in {1} \cap 1 .. Len(st.finalizer)}
        after == [x \in exits |-> Paths(FlattenSeq(st.finalizer), Normal(x.state), required)]
        Left(x) == {IF y.flow = "next" THEN Exit(y.state, x.flow) ELSE y : y \in after[x].exits}
    IN  Found(IF st.finalizer = <<>> THEN exits ELSE Merge(UNION {Left(x) : x \in exits}),
              body.ok /\ handled.ok /\ \A x \in exits : after[x].ok)

\* Labelled jumps and goto are refused, where they are seen.
Step(st, state, required) ==
    CASE st.op = "init"   -> Found(Normal(state \cup {st.field}), TRUE)
      [] st.op = "read"   -> Found(Normal(state), Read({st.field}, state, required))
      [] st.op = "parent" -> Found(Normal(state \cup {Parent}), TRUE)
      [] st.op = "throw"  -> Found({Exit(state, "raised")}, TRUE)
      [] st.op = "return" -> Found({Exit(state, "return")}, TRUE)
      [] st.op = "branch" -> Found({Exit(state, st.tok)}, st.tok \in {"break", "continue"})
      [] st.op = "block"  -> Paths(st.body, Normal(state), required)
      [] st.op = "if"     -> StepIf(st, state, required)
      [] st.op = "for"    -> StepFor(st, state, required)
      [] st.op = "range"  -> StepRange(st, state, required)
      [] st.op = "switch" -> StepSwitch(st, state, required)
      [] st.op = "try"    -> StepTry(st, state, required)
      [] OTHER -> StepOther(st, state, required)

Validated(body) ==
    LET required == Required(body)
        r == Paths(body, Normal({}), required)
    IN  r.ok /\ \A x \in Leaving(r.exits, {"next", "return"}) : required \subseteq x.state

MentionsThis(block) == \E st \in Inside(block) : Mentions(st) # {}

\* parent(...) is called once, before anything of this, in the outermost block (elsewhere
\* the name is unknown to Go); where it may be left out, it comes first.
Prepared(body) ==
    /\ \A i \in 1 .. Len(body) \ ParentCalls(body) :
          \A st \in Inside(<<body[i]>>) : st.op # "parent"
    /\ Cardinality(ParentCalls(body)) <= IF class.parent = "none" THEN 0 ELSE 1
    /\ \A i \in ParentCalls(body) : ~MentionsThis(SubSeq(body, 1, i - 1))
    /\ class.parent = "args" => ParentCalls(body) # {}

Emitted(body) ==
    IF class.parent = "bare" /\ ParentCalls(body) = {} THEN <<[op |-> "parent"]>> \o body
    ELSE body

-----------------------------------------------------------------------------
\* The ways out of a statement, wherever it begins.
Ends(st) == {x[1] : x \in Run(<<st>>, SUBSET ({Parent} \cup DOMAIN class.types))}

\* Exits the check does not see: a return or a jump out of a type switch or of a labelled
\* statement, and an exception out of a catch block that a finalizer has to expect.
Unseen(body) == \E st \in Inside(body) :
    \/ st.op \in {"typeswitch", "mark"} /\ Ends(st) \ {"next", "raised", "bad"} # {}
    \/ /\ st.op = "try" /\ st.handler # <<>> /\ st.finalizer # <<>>
       /\ \E s \in Inside(st.handler[1]) : s.op \in {"init", "call"}

\* "Constructors must initialize nonnullable fields on every successful path"
\* (README.md:730): whatever conditions, loops, jumps, exceptions and finalizers do, but
\* for the three kinds of exit of Unseen, an accepted constructor reads no field before it
\* is initialized, touches nothing before its parent's constructor has run, once, and
\* ends with every field initialized that must not be nil.
ConstructionSafe(body) ==
    Prepared(body) /\ Validated(body) /\ ~Unseen(body) =>
        LET o == Run(Emitted(body), {Entry}) IN
        /\ At(o, "bad") = {}
        /\ \A e \in At(o, "next") \cup At(o, "return") :
              {Parent} \cup (DOMAIN class.types \ MayBeNil) \subseteq e
=============================================================================
