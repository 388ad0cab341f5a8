------------------------------ MODULE MCStatic ------------------------------
(* Small instances of what is decided before Go compiles: bodies that are   *)
(* grown and given to the checks of nullability and of constructors, and    *)
(* projects of classes that are edited and built.  A kit says which part    *)
(* of the program a behaviour is about, and what it is made of.             *)
EXTENDS GrownBodies, SemanticCache, TLC

Kit(part, leaf, cond, filler, forms, keys, n) ==
    [part |-> part, class |-> "none", leaf |-> leaf, cond |-> cond, filler |-> filler,
     forms |-> forms, keys |-> keys, steps |-> n]

Op(op) == [op |-> op]
Field(x) == [op |-> "field", of |-> x]
Maybe == Op("any")
Return == <<Op("return")>>
Jump(tok) == <<[op |-> "branch", tok |-> tok]>>
Goto(l) == [op |-> "branch", tok |-> l]
Marked(l, st) == [op |-> "mark", label |-> l, stmt |-> st]

-----------------------------------------------------------------------------
(* Nullable variables: two locals and a global.                            *)

N == INSTANCE NullableFlow WITH Locals <- {"x", "y"}, Globals <- {"g"}, Objects <- {"o"}

Is(x) == [op |-> "nonnil", of |-> x]
Not(c) == [op |-> "not", arg |-> c]
Either(c, d) == [op |-> "or", left |-> c, right |-> d]
Both(c, d) == [op |-> "and", left |-> c, right |-> d]
Use(x) == [op |-> "use", of |-> x]
Set(x, nil) == [op |-> "set", to |-> x, nil |-> nil]

Copy(x, y) == [op |-> "copy", to |-> x, from |-> y]
Take(x, from, pair) == [op |-> "take", to |-> x, of |-> from, pair |-> pair]
Element(x, len, filled) == [op |-> "element", to |-> x, len |-> len, filled |-> filled]

\* What may be written to an object.
Stores == {Set("o", TRUE), Copy("o", "x"), [op |-> "declare", of |-> "o"], Element("o", 2, {1}),
           Element("o", 2, {0, 1}), Element("o", 0, {0, 2}), Element("o", 0, {0})} \cup
          {Take("o", from, pair) : from \in {"channel", "assertion", "map"}, pair \in BOOLEAN}

Plain == {Is("x"), Not(Is("x"))}
Compound == {Is("g"), Either(Not(Is("x")), Maybe), Both(Is("x"), Field("x")),
             Either(Not(Is("x")), Field("x")), Not(Both(Is("x"), Maybe)), Either(Is("x"), Is("y"))}
Guard == If(Not(Is("x")), Return, <<>>)

NullKits == {
    Kit("nullable", {Use("x")}, Plain \cup Compound, {Return}, {"if", "for"}, {}, 2),
    Kit("nullable", {Use("x"), Use("g"), Set("x", TRUE), Set("x", FALSE), Op("call"),
                     Copy("x", "y"), [op |-> "capture", of |-> "x"]},
        Plain, {Return, <<Set("x", TRUE)>>}, {"if", "for", "label"}, {"x"}, 2),
    Kit("nullable", {Use("x"), Set("x", TRUE)}, Plain \cup {Either(Not(Is("x")), Maybe)},
        {Return, <<Set("x", TRUE)>>}, {"switch", "typeswitch"}, {}, 2),
    Kit("nullable", Stores \cup {Use("x"), Copy("x", "o"), Take("x", "map", FALSE),
                                 [op |-> "capture", of |-> "o"], Op("call")},
        Plain, {Return, <<Copy("o", "x")>>}, {"if", "for"}, {}, 2),
    Kit("nullable", {Use("x"), Set("x", TRUE)}, Plain,
        {Return, Jump("break"), Jump("continue"), <<Guard>>, <<If(Maybe, Jump("continue"), <<>>), Guard>>},
        {"if", "for"}, {}, 3)}

-----------------------------------------------------------------------------
(* Constructors: of classes with two fields f and g.                       *)

C == INSTANCE ConstructionFlow WITH class <- kit.class, Definitions <-
        [Alias |-> Op("class"),
         Pair |-> [op |-> "struct", fields |-> {Op("basic"), [op |-> "named", name |-> "Alias"]}]]

Array(n, type) == [op |-> "array", len |-> n, elt |-> type]
Pair == [op |-> "named", name |-> "Pair"]
ClassOf(parent, f, g) == [parent |-> parent, types |-> [f |-> f, g |-> g]]
Constructed == {ClassOf("bare", Op("class"), Op("basic")),
                ClassOf("none", Array(2, Pair), Array(0, Op("class"))),
                ClassOf("args", Pair, Op("class"))}

Sets(f) == [op |-> "init", field |-> f]
Reads(f) == [op |-> "read", field |-> f]

ConstructionKits == {[k EXCEPT !.class = class] : class \in Constructed, k \in {
    Kit("construction", {Sets("f"), Reads("f"), Op("parent"), Op("call")},
        {Maybe, Op("true"), Field("f")}, {Return, Jump("break"), Jump("continue")},
        {"if", "for"}, {}, 2),
    Kit("construction", {Sets("f"), Reads("f"), Op("throw"), Op("call"),
                         Marked("K", Op("throw"))}, {Maybe},
        {Return, <<Sets("f")>>, <<Reads("f")>>}, {"if", "try", "block"}, {}, 2),
    Kit("construction", {Sets("f"), Sets("g"), Reads("f")}, {Maybe, Field("f")},
        {Return, <<Sets("f")>>, Jump("break")}, {"switch", "typeswitch", "for"}, {"f"}, 2),
    Kit("construction", {Sets("f")}, {Maybe}, {Return, <<Sets("f")>>, <<Op("call")>>},
        {"if", "try", "block"}, {}, 3),
    Kit("construction", {Sets("f"), If(Maybe, Jump(C!BreakOf("L")), Return),
                         If(Maybe, Jump(C!BreakOf("L")), <<>>), Marked("K", Goto("L"))},
        {Op("true"), Maybe}, {Return, <<Sets("f")>>, Jump("continue")},
        {"if", "for", "block", "L"}, {}, 3),
    Kit("construction", {Sets("f"), If(Maybe, Jump(C!BreakOf("L")), Return),
                         If(Maybe, <<Goto("K")>>, <<>>), Marked("K", Op("call"))},
        {Maybe}, {Return, Jump("break")}, {"switch", "L"}, {}, 3)}}

-----------------------------------------------------------------------------
(* Statement coverage: of functions with at most two labels.               *)

P == INSTANCE CoverageProbes WITH Labels <- {"K", "L"}

CoverageKits == {
    Kit("coverage", {Op("call"), Goto("K")}, {Maybe}, {Return, <<Op("call")>>, <<Goto("K")>>},
        {"if", "chain", "for", "block", "K"}, {}, 3),
    Kit("coverage", {Op("call"), Goto("K"), Marked("K", Goto("L")), Marked("L", Goto("K"))},
        {Maybe}, {<<Goto("L")>>}, {"if", "K", "L"}, {}, 3),
    Kit("coverage", {Op("call")}, {Maybe}, {Return, <<Op("throw")>>, Jump("break")},
        {"if", "chain", "switch", "try"}, {"x"}, 2)}

-----------------------------------------------------------------------------
(* Projects.                                                               *)

App == <<"app">>
Lib == <<"lib">>
Other == <<"other">>
MCRuntime == <<"ghi">>
MCNamespaces == {App, Lib, Other, MCRuntime}

ThisN == [via |-> "this", name |-> "n"]
ParentN == [via |-> "parent", name |-> "n"]
Visible(visibility, override, type, kind, calls) ==
    [visibility |-> visibility, override |-> override, type |-> type, kind |-> kind,
     calls |-> calls]
Public(override, kind, calls) == Visible("public", override, "int", kind, calls)
Class(params, parent, args, implements, methods) ==
    [interface |-> FALSE, params |-> params, parent |-> parent, args |-> args,
     implements |-> implements, methods |-> methods]
MN(m, n) == Class(<<>>, <<>>, <<>>, {}, "m" :> m @@ "n" :> n)
Kinds == {"plain", "rebinds", "large", "hidden"}

\* A line of three classes with type parameters, an interface, and a method m of any
\* visibility and type.
Overrides == {<<>>} \cup {"m" :> Visible(v, o, t, "plain", {}) :
    v \in {"public", "protected", "private"}, o \in BOOLEAN, t \in {"K", "int"}}
Line3 ==
    {<<App \o <<"A">>, Class(<<"K", "V">>, <<>>, <<>>, {}, ms)>> : ms \in Overrides} \cup
    {<<App \o <<"B">>, Class(<<"K", "V">>, <<"A">>, args, interfaces, ms)>> : ms \in Overrides,
        args \in {<<"V", "K">>, <<"K", "int">>, <<"int">>}, interfaces \in {{}, {<<"I">>}}} \cup
    {<<App \o <<"C">>, Class(<<"K", "V">>, <<"B">>, args, {}, ms)>> : ms \in Overrides,
        args \in {<<"V", "K">>, <<"int", "V">>}}

\* m calls n, and an override of n calls that of the parent; the parent of app.B is
\* that of the namespace imported as lib.
Line2 ==
    {<<Lib \o <<"A">>, MN(Public(FALSE, k, {ThisN}), Public(FALSE, "plain", {}))>> : k \in Kinds}
    \cup {<<Other \o <<"A">>, MN(Public(FALSE, "plain", {ThisN}), Public(FALSE, k, {}))>> : k \in Kinds}
    \cup {<<App \o <<"B">>, Class(<<>>, <<"lib", "A">>, <<>>, {}, ms)>> :
            ms \in {<<>>} \cup {"n" :> Public(TRUE, k, {ParentN}) : k \in Kinds}}
    \cup {<<App \o <<"C">>, Class(<<>>, parent, <<>>, {}, "n" :> Public(TRUE, "plain", {ParentN}))>> :
            parent \in {<<"B">>, <<"lib", "A">>, <<"Exception">>}}

KitSaves == [hierarchy |-> Line3, caches |-> Line2]
MCSaves == Line3 \cup Line2

Base == MN(Public(FALSE, "plain", {ThisN}), Public(FALSE, "plain", {}))
Interface == [Class(<<>>, <<>>, <<>>, {}, "m" :> Public(FALSE, "plain", {}))
                EXCEPT !.interface = TRUE]
NoImports == [ns \in MCNamespaces |-> <<>>]
NoProject == [imports |-> <<>>, classes |-> <<>>]
KitProjects == [
    hierarchy |-> [imports |-> NoImports, classes |-> (App \o <<"I">>) :> Interface],
    caches |-> [imports |-> [NoImports EXCEPT ![App] = "lib" :> Lib],
                classes |-> (Lib \o <<"A">>) :> Base @@ (MCRuntime \o <<"Exception">>) :> Base]]
MCProjects == {NoProject, KitProjects.hierarchy, KitProjects.caches}

ProjectKits == {Kit("hierarchy", {}, {}, {}, {}, {}, 3), Kit("caches", {}, {}, {}, {}, {}, 4)}

-----------------------------------------------------------------------------

Sources == <<project, published, current>>

\* A behaviour grows a body, or edits and builds a project as SemanticCache does.
MCInit ==
    /\ \/ /\ kit \in NullKits \cup ConstructionKits \cup CoverageKits
          /\ code \in {<<st>> : st \in kit.leaf}
          /\ project = NoProject
       \/ /\ kit \in ProjectKits /\ code = <<>>
          /\ project = KitProjects[kit.part]
    /\ steps = 0 /\ Init

GrowBody == GrowStep /\ UNCHANGED Sources

Save == /\ kit \in ProjectKits /\ steps < kit.steps /\ steps' = steps + 1
        /\ UNCHANGED <<kit, code>>
        /\ \/ \E save \in KitSaves[kit.part] : SaveClass(save[1], save[2])
           \/ \E c \in DOMAIN project.classes : DeleteClass(c)
           \/ \E ns \in {Lib, Other} : SaveImport(App, "lib", ns)

BuildProject == /\ kit \in ProjectKits /\ UNCHANGED <<kit, code, steps>>
                /\ \E lost \in SUBSET {Lib} : Build(lost)

MCNext == GrowBody \/ Save \/ BuildProject
MCSpec == MCInit /\ [][MCNext]_<<kit, code, steps, Sources>>

\* "Check for nil before accessing a nullable object" (README.md:702): no accepted body
\* uses a nil object, whatever its conditions, calls and callbacks do; see NullableFlow.
NilSafe == kit.part = "nullable" => N!NilSafe(code)

\* "Constructors must initialize nonnullable fields on every successful path"
\* (README.md:730); see ConstructionFlow.
ConstructionSafe == kit.part = "construction" => C!ConstructionSafe(code)

\* "Coverage probes run before a statement, so a statement that throws is counted as
\* entered" (README.md:226): exactly the statements that were entered; see CoverageProbes.
CoverageExact == kit.part = "coverage" => P!CoverageExact(code)

\* Without the exception that NilSafe makes for post statements: `continue' reaches them
\* with less than the end of the body has proved.
NilSafeEverywhere == kit.part = "nullable" => N!NilSafeEverywhere(code)
=============================================================================
