--------------------------- MODULE SemanticCache ---------------------------
(***************************************************************************)
(* Builds of a project that is edited in between, with the checked code of *)
(* namespaces kept: internal/compiler/semantic_cache.go, and its place in  *)
(* lower (typecheck.go).  The code that the last build published is kept   *)
(* with the keys of its namespaces; that of a namespace whose key is the   *)
(* same is used again, and its bodies are not checked.                     *)
(***************************************************************************)
EXTENDS ClassModel

CONSTANTS
    Saves,      \* <<class, declaration>>: what is saved in an editor
    Projects    \* the sources there may be to begin with

VARIABLES
    project,    \* the sources, as ClassModel has them
    published,  \* the keys and the code of the last build that succeeded
    current     \* it has built the sources as they are

Nothing == [keys |-> <<>>, code |-> <<>>]

Namespaces(p) == DOMAIN p.imports

\* The classes are in the project's namespaces, and these import one another.
IsProject(p) ==
    /\ p = [imports |-> p.imports, classes |-> p.classes]
    /\ p.imports = [ns \in Namespaces(p) |->
                       [alias \in DOMAIN p.imports[ns] |-> p.imports[ns][alias]]]
    /\ IsFiniteSet(Namespaces(p))
    /\ \A ns \in Namespaces(p) : Range(p.imports[ns]) \subseteq Namespaces(p)
    /\ \A c \in DOMAIN p.classes : Namespace(c) \in Namespaces(p)
    /\ ClassTable(p)

ASSUME SourcesAssumption ==
    /\ \A save \in Saves : save[1] # Nowhere /\ WellFormed(save[2])
    /\ \A p \in Projects : IsProject(p)

\* The namespaces a namespace imports, directly or not.
Reached(p, ns) ==
    Closure({ns}, LAMBDA m : Range(p.imports[m]), Cardinality(Namespaces(p)))

Own(p, ns) == [c \in {d \in DOMAIN p.classes : Namespace(d) = ns} |-> p.classes[c]]

\* "A changed inheritance graph invalidates every certificate conservatively": the names
\* of the parents, as they are written.
Graph(p) == [c \in DOMAIN p.classes |-> p.classes[c].parent]

\* The hash of a namespace covers its sources and, import by import, their hashes.
Key(p, ns) == [graph |-> Graph(p),
               sources |-> [m \in Reached(p, ns) |-> <<p.imports[m], Own(p, m)>>]]

Keys(p) == [ns \in Namespaces(p) |-> Key(p, ns)]

\* prepareSemanticCache; lost: the namespaces that have a file that cannot be read.
Kept(p, old, lost) ==
    {ns \in Namespaces(p) \ (lost \cup {Runtime}) :
        ns \in DOMAIN old.keys /\ old.keys[ns] = Key(p, ns)}

\* Mutant: the namespaces of ancestors and descendants are not looked at.
Reused_ByKey(p, kept) == kept

\* The namespaces of a class and its parent.
Edges(p) == {{Namespace(c), Namespace(Parent(p, c))} :
                c \in {d \in Classes(p) : Parent(p, d) # Nowhere}}
Split(p, kept) == {e \in Edges(p) : e \cap kept # {} /\ ~(e \subseteq kept)}

\* "Recheck the affected inheritance component, retaining unrelated reuse": round by
\* round, and no more rounds change anything than there are namespaces.
Reused(p, kept) ==
    LET left[n \in Nat] ==
            IF n = 0 THEN kept
            ELSE LET before == left[n - 1] IN before \ UNION Split(p, before)
    IN  left[Cardinality(Namespaces(p))]

Lowered(p, old, reused) ==
    [ns \in Namespaces(p) |-> IF ns \in reused THEN old.code[ns] ELSE Code(p, ns, reused)]

-----------------------------------------------------------------------------

\* A build that is accepted publishes what it made. Go does not check the bodies of reused
\* namespaces again (typecheck.go:140); Accepted asks for their calls all the same, which
\* changes nothing: they were accepted under the same keys, of the same classes.
Build(lost) ==
    /\ ~current
    /\ Accepted(project)
    /\ published' = [keys |-> Keys(project), code |->
          Lowered(project, published, Reused(project, Kept(project, published, lost)))]
    /\ current' = TRUE
    /\ UNCHANGED project

\* Somebody saves a class, deletes one, or imports another namespace under an alias.
SaveClass(c, decl) ==
    /\ Namespace(c) \in Namespaces(project)
    /\ project' = [project EXCEPT !.classes =
          [d \in DOMAIN @ \cup {c} |-> IF d = c THEN decl ELSE @[d]]]
    /\ project' # project
    /\ current' = FALSE
    /\ UNCHANGED published

DeleteClass(c) ==
    /\ c \in DOMAIN project.classes
    /\ project' = [project EXCEPT !.classes = [d \in DOMAIN @ \ {c} |-> @[d]]]
    /\ current' = FALSE
    /\ UNCHANGED published

SaveImport(ns, alias, target) ==
    /\ alias \in DOMAIN project.imports[ns] /\ project.imports[ns][alias] # target
    /\ project' = [project EXCEPT !.imports[ns][alias] = target]
    /\ current' = FALSE
    /\ UNCHANGED published

Edit ==
    \/ \E save \in Saves : SaveClass(save[1], save[2])
    \/ \E c \in DOMAIN project.classes : DeleteClass(c)
    \/ \E ns, target \in Namespaces(project) : \E alias \in DOMAIN project.imports[ns] :
          SaveImport(ns, alias, target)

Init == project \in Projects /\ published = Nothing /\ current = FALSE

Next == Edit \/ \E lost \in SUBSET Namespaces(project) : Build(lost)

Spec == Init /\ [][Next]_<<project, published, current>>

-----------------------------------------------------------------------------
\* The code of all namespaces together.
Linked(code) == [c \in UNION {DOMAIN code[ns] : ns \in DOMAIN code} |-> code[Namespace(c)][c]]

\* Whatever was built, kept and lost before, the code of a build runs as its sources say.
ReuseSound == current => DispatchPreserved(project, Linked(published.code))

\* Every accepted project has objects that may stand for their ancestors; see ClassModel.
HierarchySound == Substitutable(project)
=============================================================================
