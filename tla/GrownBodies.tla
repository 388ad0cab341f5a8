---------------------------- MODULE GrownBodies ----------------------------
(***************************************************************************)
(* Bodies of functions and constructors, grown from one simple statement:  *)
(* what comes before and after it, and the statements around it.           *)
(***************************************************************************)
EXTENDS Naturals, SequencesExt

\* kit: the simple statements (leaf), conditions (cond) and other blocks (filler) to grow
\* with, the forms of statement to enclose a block in, and the number of steps.
VARIABLES kit, code, steps

Grow(block) ==
    steps < kit.steps /\ steps' = steps + 1 /\ code' = block /\ UNCHANGED kit

\* chained: what follows `else' is an if statement and no block.
If(c, body, else) == [op |-> "if", cond |-> c, body |-> body, else |-> else, chained |-> FALSE]

Case(conds, body, falls) == [conds |-> conds, body |-> body, falls |-> falls]

Follow == \E st \in kit.leaf : Grow(Append(code, st)) \/ Grow(<<st>> \o code)

Branch == "if" \in kit.forms /\ \E c \in kit.cond, other \in kit.filler \cup {<<>>} :
    \/ Grow(<<If(c, code, other)>>)
    \/ other # <<>> /\ Grow(<<If(c, other, code)>>)
    \/ "chain" \in kit.forms /\ code[1].op = "if" /\ Len(code) = 1 /\
          Grow(<<[If(c, other, code) EXCEPT !.chained = TRUE]>>)

\* A post statement is a simple one.
Posts(blocks) == {<<>>} \cup {b \in blocks : Len(b) = 1 /\ b[1].op \notin
    {"return", "throw", "branch", "if", "for", "range", "label", "block", "mark", "switch",
     "typeswitch", "try"}}

Loop == "for" \in kit.forms /\ \E c \in kit.cond :
    \/ \E post \in Posts(kit.filler) :
          Grow(<<[op |-> "for", cond |-> c, post |-> post, body |-> code]>>)
    \/ \E body \in kit.filler : code \in Posts({code}) /\
          Grow(<<[op |-> "for", cond |-> c, post |-> code, body |-> body]>>)

Around == \/ \E x \in kit.keys : Grow(<<[op |-> "range", key |-> x, body |-> code]>>)
          \/ \E form \in kit.forms \cap {"label", "block"} : Grow(<<[op |-> form, body |-> code]>>)
          \/ Len(code) = 1 /\ \E l \in kit.forms \cap {"K", "L"} :
                Grow(<<[op |-> "mark", label |-> l, stmt |-> code[1]]>>)

\* The default may come first; a case may have two conditions, and may fall through.
Switch == \E form \in kit.forms \cap {"switch", "typeswitch"}, c, d \in kit.cond,
             other \in kit.filler, falls \in BOOLEAN :
    LET Of(cases) == Grow(<<[op |-> form, cases |-> cases]>>) IN
    \/ falls /\ Of(<<Case(<<c>>, other, TRUE), Case(<<d>>, code, FALSE)>>)
    \/ Of(<<Case(<<c>>, other, falls), Case(<<>>, code, FALSE)>>)
    \/ ~falls /\ Of(<<Case(<<c, d>>, code, FALSE)>>)
    \/ ~falls /\ Of(<<Case(<<>>, other, FALSE), Case(<<c>>, code, FALSE)>>)

Protect == "try" \in kit.forms /\ \E h, f \in {<<>>} \cup {<<b>> : b \in kit.filler} :
    LET Of(b, handler, finalizer) ==
            Grow(<<[op |-> "try", body |-> b, handler |-> handler, finalizer |-> finalizer]>>)
    IN  \/ (h # <<>> \/ f # <<>>) /\ Of(code, h, f)
        \/ h # <<>> /\ Of(h[1], <<code>>, f)
        \/ h # <<>> /\ Of(h[1], f, <<code>>)

GrowStep == Follow \/ Branch \/ Loop \/ Around \/ Switch \/ Protect
=============================================================================
