----------------------------- MODULE ClassModel -----------------------------
(***************************************************************************)
(* Classes of a project: how names are resolved, what a class inherits,    *)
(* which hierarchies are accepted and what code is made of them, in        *)
(* class_model.go, class_emit.go, class_optimize.go, inheritance.go and    *)
(* class_inherited_optimize.go of internal/compiler.                       *)
(*                                                                         *)
(* A name is a sequence of identifiers, and a class has the name of its    *)
(* namespace and its own.  A project p has the imports of each namespace,  *)
(* alias by alias, and the declarations of its classes.  A type is "int"   *)
(* or a type parameter.  Of a body there are the calls through `this' and  *)
(* `parent', and its kind: "plain", or what keeps it from being copied,    *)
(* "rebinds" (of this), "large" and "hidden" (it uses unexported names).   *)
(***************************************************************************)
EXTENDS Naturals, SequencesExt, FiniteSets

CONSTANT Runtime   \* the namespace of the classes that need no import

Nowhere == <<>>    \* no class

Namespace(c) == Front(c)
Classes(p) == {c \in DOMAIN p.classes : ~p.classes[c].interface}
Params(p, c) == p.classes[c].params

-----------------------------------------------------------------------------
(* Names and members.                                                      *)

\* A name is looked for under the namespace it is used in, dots and all, before its
\* first part is taken for an alias.
ClassNamed(p, ref, ns) ==
    IF ref = <<>> THEN Nowhere
    ELSE IF ns \o ref \in DOMAIN p.classes THEN ns \o ref
    ELSE IF Len(ref) = 1 /\ Runtime \o ref \in DOMAIN p.classes THEN Runtime \o ref
    ELSE IF /\ Len(ref) = 2 /\ ref[1] \in DOMAIN p.imports[ns]
            /\ Append(p.imports[ns][ref[1]], ref[2]) \in DOMAIN p.classes
         THEN Append(p.imports[ns][ref[1]], ref[2])
    ELSE Nowhere

Parent(p, c) == ClassNamed(p, p.classes[c].parent, Namespace(c))

\* A walk up the parents: Of is what a class makes of what its parent has.  No walk that
\* ends meets more classes than there are.
Inherited(p, c, none, Of(_, _)) ==
    LET level[n \in Nat] == [d \in DOMAIN p.classes \cup {Nowhere} |->
            IF d = Nowhere THEN none
            ELSE Of(d, IF n = 0 THEN none ELSE level[n - 1][Parent(p, d)])]
    IN  level[Cardinality(DOMAIN p.classes)][c]

\* A class is the first of its ancestors.
Ancestors(p, c) == Inherited(p, c, {}, LAMBDA d, above : {d} \cup above)

\* Above c, a class comes again.
Cyclic(p, c) == \E a \in Ancestors(p, c) : a \in Ancestors(p, Parent(p, a))

Declares(p, c, name) == name \in DOMAIN p.classes[c].methods

\* The class whose method of that name c has.
Method(p, c, name) ==
    Inherited(p, c, Nowhere, LAMBDA d, above : IF Declares(p, d, name) THEN d ELSE above)

Decl(p, owner, name) == p.classes[owner].methods[name]

\* Mutant: what is inherited keeps its place.
AllMethods_Inherited(p, c) ==
    Inherited(p, c, <<>>, LAMBDA d, above :
        [m \in DOMAIN above \cup DOMAIN p.classes[d].methods |->
            IF m \in DOMAIN above THEN above[m] ELSE d])

\* The methods a class is emitted with, each with the class whose body it is.
AllMethods(p, c) ==
    Inherited(p, c, <<>>, LAMBDA d, above :
        [m \in DOMAIN above \cup DOMAIN p.classes[d].methods |->
            IF Declares(p, d, m) THEN d ELSE above[m]])

Rank(visibility) == CASE visibility = "public" -> 2 [] visibility = "protected" -> 1 [] OTHER -> 0

Accessible(p, visibility, owner, caller) ==
    \/ visibility = "public" \/ owner = caller
    \/ visibility = "protected" /\ owner \in Ancestors(p, caller)

-----------------------------------------------------------------------------
(* Type parameters.                                                        *)

SubstituteType(type, names, args) ==
    IF type \in Range(names) THEN args[CHOOSE i \in DOMAIN names : names[i] = type] ELSE type

\* Mutant: the arguments of the last edge only.
AncestorArguments_Direct(p, child, ancestor) ==
    IF child = ancestor THEN Params(p, child) ELSE p.classes[child].args

\* The arguments of an ancestor, in terms of the parameters of a descendant.
AncestorArguments(p, child, ancestor) ==
    Inherited(p, child, <<>>, LAMBDA d, above :
        IF d = ancestor THEN Params(p, d)
        ELSE [i \in DOMAIN above |->
                 SubstituteType(above[i], Params(p, Parent(p, d)), p.classes[d].args)])

\* A type in a declaration of a class, as one that inherits it sees it.
TypeSeen(p, type, owner, where) ==
    IF owner = where \/ owner \notin Ancestors(p, where) THEN type
    ELSE SubstituteType(type, Params(p, owner), AncestorArguments(p, where, owner))

Signature(p, owner, name, where) == TypeSeen(p, Decl(p, owner, name).type, owner, where)

\* The types in scope in a class, and what the parser and Go's type checker require of a
\* declaration and of the table of classes.
InScope(decl) == {"int"} \cup Range(decl.params)

WellFormed(decl) ==
    /\ decl.params \in Seq(Range(decl.params)) /\ "int" \notin Range(decl.params)
    /\ \A i, j \in DOMAIN decl.params : decl.params[i] = decl.params[j] => i = j
    /\ decl.args \in Seq(InScope(decl)) /\ IsFiniteSet(DOMAIN decl.methods)
    /\ \A m \in DOMAIN decl.methods : decl.methods[m].type \in InScope(decl)
    /\ decl.interface => decl.params = <<>>

ClassTable(p) ==
    /\ IsFiniteSet(DOMAIN p.classes) /\ Nowhere \notin DOMAIN p.classes
    /\ \A c \in DOMAIN p.classes : WellFormed(p.classes[c])

-----------------------------------------------------------------------------
(* prepareClasses, and the access checks of rewrite.                       *)

ParentKnown(p, c) ==
    p.classes[c].parent # <<>> =>
        /\ Parent(p, c) # Nowhere /\ ~p.classes[Parent(p, c)].interface
        /\ Len(p.classes[c].args) = Len(Params(p, Parent(p, c)))

\* Mutant: an override may reduce the visibility.
OverrideAllowed_Hiding(p, c, name) ==
    LET method == Decl(p, c, name)
        base == IF Parent(p, c) = Nowhere THEN Nowhere ELSE Method(p, Parent(p, c), name)
    IN  IF base = Nowhere THEN ~method.override
        ELSE /\ method.override
             /\ Decl(p, base, name).visibility # "private"
             /\ Signature(p, c, name, c) = Signature(p, base, name, c)

OverrideAllowed(p, c, name) ==
    LET method == Decl(p, c, name)
        base == IF Parent(p, c) = Nowhere THEN Nowhere ELSE Method(p, Parent(p, c), name)
    IN  IF base = Nowhere THEN ~method.override
        ELSE /\ method.override
             /\ Decl(p, base, name).visibility # "private"
             /\ Signature(p, c, name, c) = Signature(p, base, name, c)
             /\ Rank(method.visibility) >= Rank(Decl(p, base, name).visibility)

Implements(p, c, ref) ==
    LET target == ClassNamed(p, ref, Namespace(c)) IN
    /\ target # Nowhere /\ p.classes[target].interface
    /\ \A name \in DOMAIN p.classes[target].methods :
          LET owner == Method(p, c, name) IN
          /\ owner # Nowhere /\ Decl(p, owner, name).visibility = "public"
          /\ Signature(p, owner, name, c) = Signature(p, target, name, c)

\* A call names the method that the caller's class, or its parent, has.
CallAllowed(p, c, call) ==
    LET from == IF call.via = "this" THEN c ELSE Parent(p, c)
        owner == IF from = Nowhere THEN Nowhere ELSE Method(p, from, call.name)
    IN  owner # Nowhere /\ Accessible(p, Decl(p, owner, call.name).visibility, owner, c)

Accepted(p) ==
    /\ \A c \in DOMAIN p.classes : ParentKnown(p, c)
    /\ \A c \in DOMAIN p.classes : ~Cyclic(p, c)
    /\ \A c \in DOMAIN p.classes :
          /\ \A name \in DOMAIN p.classes[c].methods : OverrideAllowed(p, c, name)
          /\ \A ref \in p.classes[c].implements : Implements(p, c, ref)
    /\ \A c \in Classes(p) : \A name \in DOMAIN p.classes[c].methods :
          \A call \in Decl(p, c, name).calls : CallAllowed(p, c, call)

-----------------------------------------------------------------------------
(* The code of a namespace: of each class the wrappers through which its   *)
(* methods are called, and its bodies.  A body that is exact, and any copy *)
(* of one, takes a receiver of its own class only.  reused: the namespaces *)
(* whose code is that of an earlier build.                                 *)

Parents(p) == {Parent(p, c) : c \in Classes(p)}

\* specializeReceiver refuses a body that assigns to this or takes its address.
Specializable(body) == body.kind # "rebinds"

\* A call through parent is bound to a body.
Bound(p, c, call) ==
    IF call.via = "this" THEN call
    ELSE [via |-> "body", owner |-> Method(p, Parent(p, c), call.name), name |-> call.name]

Calls(p, c, name) == {Bound(p, c, call) : call \in Decl(p, c, name).calls}

\* relocateSpecialization: may the copy refer to what the body refers to?
Movable(p, c, owner, body) ==
    body.kind = "hidden" => Namespace(owner) = Namespace(c)

\* Does the wrapper of an inherited method, or one that descendants may call, get a copy
\* of the body?
Copied(p, c, owner, name, reused) ==
    LET body == Decl(p, owner, name) IN
    /\ Namespace(owner) \notin reused
    /\ owner = c => c \in Parents(p)
    /\ body.kind # "large" /\ Specializable(body) /\ Movable(p, c, owner, body)

Wrapper(p, c, owner, name, reused) ==
    IF Copied(p, c, owner, name, reused)
    THEN [copy |-> TRUE, owner |-> owner, kind |-> Decl(p, owner, name).kind,
          calls |-> Calls(p, owner, name)]
    ELSE [copy |-> FALSE, owner |-> owner]

\* Mutant: the body of a class with descendants is made exact.
Exact_Parents(p, c, name) == Specializable(Decl(p, c, name))

\* specializeLeafReceivers.
Exact(p, c, name) == c \notin Parents(p) /\ Specializable(Decl(p, c, name))

Body(p, c, name) == [exact |-> Exact(p, c, name), kind |-> Decl(p, c, name).kind,
                     calls |-> Calls(p, c, name)]

Code(p, ns, reused) ==
    [c \in {d \in Classes(p) : Namespace(d) = ns} |->
        [wrappers |-> LET all == AllMethods(p, c) IN
                      [m \in DOMAIN all |-> Wrapper(p, c, all[m], m, reused)],
         bodies |-> [m \in DOMAIN p.classes[c].methods |-> Body(p, c, m)]]]

-----------------------------------------------------------------------------
(* Executions.  What a call runs is a set of bodies; Stuck is among them   *)
(* if code is missing, does not take the receiver, or is none that Go      *)
(* accepts: an exact body cannot rebind this, and a copy in another        *)
(* namespace cannot use what is not exported.                              *)

\* What start leads to in n steps at most.
Closure(start, Leads(_), n) ==
    LET reached[i \in Nat] ==
            IF i = 0 THEN start
            ELSE LET before == reached[i - 1] IN before \cup UNION {Leads(x) : x \in before}
    IN  reached[n]

\* No run meets more bodies than there are.
Bodies(p) == UNION {{<<c, m>> : m \in DOMAIN p.classes[c].methods} : c \in DOMAIN p.classes}

Source(p, object, name) ==
    Closure({<<Method(p, object, name), name>>},
            LAMBDA b : {<<Method(p, IF k.via = "this" THEN object ELSE Parent(p, b[1]), k.name),
                          k.name>> : k \in Decl(p, b[1], b[2]).calls},
            Cardinality(Bodies(p)))

Stuck == [body |-> <<Nowhere, "stuck">>, calls |-> {}]
Run(owner, name, calls) == [body |-> <<owner, name>>, calls |-> calls]

Enter(code, object, owner, name) ==
    IF owner \notin DOMAIN code \/ name \notin DOMAIN code[owner].bodies THEN Stuck
    ELSE LET body == code[owner].bodies[name] IN
         IF body.exact /\ (object # owner \/ body.kind = "rebinds") THEN Stuck
         ELSE Run(owner, name, body.calls)

Call(code, object, name) ==
    IF object \notin DOMAIN code \/ name \notin DOMAIN code[object].wrappers THEN Stuck
    ELSE LET w == code[object].wrappers[name] IN
         IF ~w.copy THEN Enter(code, object, w.owner, name)
         ELSE IF \/ w.kind = "rebinds"
                 \/ w.kind = "hidden" /\ Namespace(w.owner) # Namespace(object) THEN Stuck
         ELSE Run(w.owner, name, w.calls)

Called(p, code, object, name) ==
    {r.body : r \in
        Closure({Call(code, object, name)},
                LAMBDA r : {IF k.via = "this" THEN Call(code, object, k.name)
                            ELSE Enter(code, object, k.owner, k.name) : k \in r.calls},
                Cardinality(Bodies(p)))}

-----------------------------------------------------------------------------
\* An object may stand for any of its ancestors: an accepted class has each of their
\* methods, with the type it has for the ancestor's own arguments and no less visible,
\* and with it all their interfaces; what is private is not replaced.
Substitutable(p) == Accepted(p) =>
    \A c \in Classes(p), a \in DOMAIN p.classes : a \in Ancestors(p, c) =>
        LET has == AllMethods(p, c)
            args == AncestorArguments(p, c, a)
            Seen(m) == Signature(p, AllMethods(p, a)[m], m, a)
        IN  /\ \A m \in DOMAIN AllMethods(p, a) :
                  LET owner == AllMethods(p, a)[m]
                      visibility == Decl(p, owner, m).visibility
                  IN  /\ m \in DOMAIN has
                      /\ Signature(p, has[m], m, c) = SubstituteType(Seen(m), Params(p, a), args)
                      /\ Rank(Decl(p, has[m], m).visibility) >= Rank(visibility)
                      /\ visibility = "private" => has[m] = owner
            /\ \A ref \in p.classes[a].implements :
                  LET wanted == p.classes[ClassNamed(p, ref, Namespace(a))].methods IN
                  \A m \in DOMAIN wanted :
                      /\ m \in DOMAIN has /\ Decl(p, has[m], m).visibility = "public"
                      /\ Signature(p, has[m], m, c) = wanted[m].type

\* A call runs the bodies the source says: those of the object's own class, whatever
\* copies and exact receivers the code has.
DispatchPreserved(p, code) ==
    \A c \in Classes(p) : \A m \in DOMAIN AllMethods(p, c) :
        Called(p, code, c, m) = Source(p, c, m)
=============================================================================
