------------------------ MODULE SemanticCacheProofs ------------------------
(***************************************************************************)
(* Proofs about ClassModel, for every table of classes, and about          *)
(* SemanticCache, for every project, every edit and every loss of a file.  *)
(* No induction theorem is used that takes an operator: an induction is    *)
(* over the set of the numbers, or of the classes, that a statement is     *)
(* true of.                                                                *)
(***************************************************************************)
EXTENDS SemanticCache, FiniteSetTheorems, WellFoundedInduction, TLAPS

-----------------------------------------------------------------------------
(* Natural numbers.                                                        *)

\* A set of naturals that is not empty has a least element.
LEMMA LeastNat ==
    ASSUME NEW S, S \subseteq Nat, S # {}
    PROVE  \E x \in S : \A y \in S : x <= y
<1> DEFINE Less == {ss \in Nat \X Nat : ss[1] < ss[2]}
<1>1. OpToRel(<, Nat) = Less
  BY Zenon DEF OpToRel
<1>2. IsWellFoundedOn(Less, Nat)
  BY <1>1, NatLessThanWellFounded, Zenon
<1>3. PICK x \in S : \A y \in S : <<y, x>> \notin Less
  BY <1>2, WFMin, Zenon
<1>4. ASSUME NEW y \in S PROVE x <= y
  <2>1. <<y, x>> \in Nat \X Nat /\ <<y, x>>[1] = y /\ <<y, x>>[2] = x /\ <<y, x>> \notin Less
    BY <1>3
  <2>2. ~(y < x)
    BY <2>1, Zenon DEF Less
  <2> QED
    BY <2>2
<1> QED
  BY <1>4

\* Induction over the set of the numbers that a statement is true of.
LEMMA NatInduct ==
    ASSUME NEW S, 0 \in S, \A n \in Nat : n \in S => n + 1 \in S
    PROVE  \A n \in Nat : n \in S
<1> SUFFICES ASSUME Nat \ S # {} PROVE FALSE
  OBVIOUS
<1>1. PICK x \in Nat \ S : \A y \in Nat \ S : x <= y
  BY LeastNat
<1>2. x # 0 /\ x - 1 \in Nat /\ x - 1 \in S /\ (x - 1) + 1 = x
  BY <1>1
<1> QED
  BY <1>1, <1>2

\* A step on a set can be repeated.
Repeats(g, S, s, step) ==
    g \in [Nat -> S] /\ g[0] = s /\ \A n \in Nat : g[n + 1] = step[g[n]]

\* Repeating a step gives a function of the number of steps.
LEMMA Repetition ==
    ASSUME NEW S, NEW s, s \in S, NEW step, \A x \in S : step[x] \in S
    PROVE  \E g : Repeats(g, S, s, step)
<1> DEFINE Until(n) == {h \in [0..n -> S] :
                           h[0] = s /\ \A i \in 0..n : i # n => h[i + 1] = step[h[i]]}
<1>1. \A n \in Nat : Until(n) # {}
  <2> DEFINE T == {n \in Nat : Until(n) # {}}
  <2>1. 0 \in T
    <3>1. [i \in 0..0 |-> s] \in Until(0)
      OBVIOUS
    <3> QED
      BY <3>1
  <2>2. ASSUME NEW n \in Nat, n \in T PROVE n + 1 \in T
    <3>1. PICK h \in Until(n) : TRUE
      BY <2>2
    <3> DEFINE k == [i \in 0..(n + 1) |-> IF i = n + 1 THEN step[h[n]] ELSE h[i]]
    <3>2. h \in [0..n -> S] /\ h[0] = s /\ \A i \in 0..n : i # n => h[i + 1] = step[h[i]]
      BY <3>1
    <3>3. n \in 0..n /\ step[h[n]] \in S
      BY <3>2
    <3>4. k \in [0..(n + 1) -> S] /\ k[0] = s
      BY <3>2, <3>3
    <3>5. ASSUME NEW i \in 0..(n + 1), i # n + 1 PROVE k[i + 1] = step[k[i]]
      BY <3>2, <3>5
    <3>6. k \in Until(n + 1)
      BY <3>4, <3>5
    <3> QED
      BY <3>6
  <2> HIDE DEF T
  <2>3. \A n \in Nat : n \in T
    BY <2>1, <2>2, NatInduct
  <2> QED
    BY <2>3 DEF T
<1> DEFINE H(n) == CHOOSE h \in Until(n) : TRUE
           g == [n \in Nat |-> H(n)[n]]
<1>2. \A n \in Nat : H(n) \in Until(n)
  BY <1>1
<1> HIDE DEF H
<1>3. \A n \in Nat : /\ H(n) \in [0..n -> S] /\ H(n)[0] = s
                     /\ \A i \in 0..n : i # n => H(n)[i + 1] = step[H(n)[i]]
  BY <1>2
<1> HIDE DEF Until
<1>4. ASSUME NEW n \in Nat, NEW m \in Nat
      PROVE  \A i \in Nat : i <= n /\ i <= m => H(n)[i] = H(m)[i]
  <2> DEFINE T == {i \in Nat : i <= n /\ i <= m => H(n)[i] = H(m)[i]}
  <2>1. 0 \in T
    BY <1>3
  <2>2. ASSUME NEW i \in Nat, i \in T PROVE i + 1 \in T
    <3> SUFFICES ASSUME i + 1 <= n, i + 1 <= m PROVE H(n)[i + 1] = H(m)[i + 1]
      OBVIOUS
    <3>1. H(n)[i] = H(m)[i]
      BY <2>2
    <3>2. H(n)[i + 1] = step[H(n)[i]] /\ H(m)[i + 1] = step[H(m)[i]]
      BY <1>3
    <3> QED
      BY <3>1, <3>2
  <2> HIDE DEF T
  <2>3. \A i \in Nat : i \in T
    BY <2>1, <2>2, NatInduct
  <2> QED
    BY <2>3 DEF T
<1>5. g \in [Nat -> S] /\ g[0] = s
  BY <1>3
<1>6. ASSUME NEW n \in Nat PROVE g[n + 1] = step[g[n]]
  <2>1. H(n + 1)[n + 1] = step[H(n + 1)[n]]
    BY <1>3
  <2>2. H(n + 1)[n] = H(n)[n]
    BY <1>4
  <2> QED
    BY <2>1, <2>2
<1> QED
  BY <1>5, <1>6 DEF Repeats

-----------------------------------------------------------------------------
(* Walks up the parents.                                                   *)

\* C has the classes, none is no class, and up is what they have for a parent.
Table(C, none, up) == IsFiniteSet(C) /\ none \notin C /\ up \in [C -> C \cup {none}]

\* What a walk computes, level by level: F makes a value of a class of that of its parent.
Levels(g, C, none, up, V, v, F) ==
    /\ g \in [Nat -> [C \cup {none} -> V]]
    /\ g = [n \in Nat |-> [d \in C \cup {none} |->
               IF d = none THEN v ELSE F[d][IF n = 0 THEN v ELSE g[n - 1][up[d]]]]]

Closed(C, V, v, F) == v \in V /\ \A d \in C : \A x \in V : F[d][x] \in V

\* A function that is defined by walks up a table exists.
LEMMA LevelsExist ==
    ASSUME NEW C, NEW none, NEW up, Table(C, none, up),
           NEW V, NEW v, NEW F, Closed(C, V, v, F)
    PROVE  \E g : Levels(g, C, none, up, V, v, F)
<1> USE DEF Table, Closed, Levels
<1> DEFINE D == C \cup {none}
           S == [D -> V]
           s == [d \in D |-> IF d = none THEN v ELSE F[d][v]]
           step == [x \in S |-> [d \in D |-> IF d = none THEN v ELSE F[d][x[up[d]]]]]
<1>1. s \in S /\ \A x \in S : step[x] \in S
  OBVIOUS
<1> HIDE DEF S, s, step
<1>2. PICK g : Repeats(g, S, s, step)
  BY <1>1, Repetition
<1>3. g \in [Nat -> S] /\ g[0] = s /\ \A n \in Nat : g[n + 1] = step[g[n]]
  BY <1>2 DEF Repeats
<1> USE DEF S, s, step
<1> DEFINE L(n) == [d \in D |-> IF d = none THEN v
                                ELSE F[d][IF n = 0 THEN v ELSE g[n - 1][up[d]]]]
<1>4. ASSUME NEW n \in Nat PROVE g[n] = L(n)
  <2>1. CASE n = 0
    BY <1>3, <2>1
  <2>2. CASE n # 0
    <3>1. n - 1 \in Nat /\ (n - 1) + 1 = n
      BY <2>2
    <3>2. g[n] = step[g[n - 1]] /\ g[n - 1] \in S
      BY <1>3, <3>1
    <3>3. step[g[n - 1]] = [d \in D |-> IF d = none THEN v ELSE F[d][g[n - 1][up[d]]]]
      BY <3>2
    <3> QED
      BY <2>2, <3>2, <3>3
  <2> QED
    BY <2>1, <2>2
<1>5. g = [n \in Nat |-> L(n)]
  BY <1>3, <1>4
<1> QED
  BY ZenonT(30), <1>3, <1>5

\* Without cycles no walk goes on for more classes than there are: at the level of their
\* number nothing changes any more.
Ancestry(A, C, none, up) ==     \* the ancestors of a class, level by level
    /\ \A n \in Nat : A[n][none] = {}
    /\ \A d \in C : A[0][d] = {d}
    /\ \A n \in Nat : \A d \in C : A[n + 1][d] = {d} \cup A[n][up[d]]

Rootward(A, C, up) == \A d \in C : d \notin A[Cardinality(C)][up[d]]

Walks(g, C, none, up) ==        \* what a class has depends on what its parent has
    /\ \A n \in Nat : g[n][none] = g[0][none]
    /\ \A n \in Nat : \A d \in C :
          g[n][up[d]] = g[n + 1][up[d]] => g[n + 1][d] = g[n + 2][d]

\* A walk along a table without cycles has come to rest after as many steps as there are entries.
LEMMA WalksEnd ==
    ASSUME NEW C, NEW none, NEW up, Table(C, none, up),
           NEW A, Ancestry(A, C, none, up), Rootward(A, C, up),
           NEW g, Walks(g, C, none, up)
    PROVE  \A d \in C \cup {none} : g[Cardinality(C)][d] = g[Cardinality(C) + 1][d]
<1> USE DEF Table, Ancestry, Rootward, Walks
<1> DEFINE D == C \cup {none}
           N == Cardinality(C)
<1>1. N \in Nat
  BY FS_CardinalityType
<1>2. \A n \in Nat : \A d \in D : A[n][d] \subseteq A[n + 1][d]
  <2> DEFINE T == {n \in Nat : \A d \in D : A[n][d] \subseteq A[n + 1][d]}
  <2>1. 0 \in T
    <3>1. A[0][none] = {} /\ \A d \in C : A[0 + 1][d] = {d} \cup A[0][up[d]]
      BY 0 \in Nat
    <3> QED
      BY <3>1
  <2>2. ASSUME NEW n \in Nat, n \in T PROVE n + 1 \in T
    <3>1. n + 1 \in Nat
      OBVIOUS
    <3>2. ASSUME NEW d \in C PROVE A[n + 1][d] \subseteq A[(n + 1) + 1][d]
      <4>1. up[d] \in D /\ A[n][up[d]] \subseteq A[n + 1][up[d]]
        BY <2>2
      <4>2. A[n + 1][d] = {d} \cup A[n][up[d]]
        OBVIOUS
      <4>3. A[(n + 1) + 1][d] = {d} \cup A[n + 1][up[d]]
        BY <3>1
      <4> QED
        BY <4>1, <4>2, <4>3
    <3>3. A[n + 1][none] = {}
      BY <3>1
    <3> QED
      BY <3>1, <3>2, <3>3
  <2> HIDE DEF T
  <2>3. \A n \in Nat : n \in T
    BY <2>1, <2>2, NatInduct
  <2> QED
    BY <2>3 DEF T
<1>3. \A k \in Nat : \A n \in Nat : \A d \in D : A[n][d] \subseteq A[n + k][d]
  <2> DEFINE T == {k \in Nat : \A n \in Nat : \A d \in D : A[n][d] \subseteq A[n + k][d]}
  <2>1. 0 \in T
    OBVIOUS
  <2>2. ASSUME NEW k \in Nat, k \in T PROVE k + 1 \in T
    <3>1. ASSUME NEW n \in Nat, NEW d \in D PROVE A[n][d] \subseteq A[n + (k + 1)][d]
      <4>1. A[n][d] \subseteq A[n + k][d]
        BY <2>2
      <4>2. n + k \in Nat /\ (n + k) + 1 = n + (k + 1)
        OBVIOUS
      <4>3. A[n + k][d] \subseteq A[(n + k) + 1][d]
        BY <1>2, <4>2
      <4> QED
        BY <4>1, <4>2, <4>3
    <3> QED
      BY <3>1
  <2> HIDE DEF T
  <2>3. \A k \in Nat : k \in T
    BY <2>1, <2>2, NatInduct
  <2> QED
    BY <2>3 DEF T
<1>4. \A n \in Nat : n <= N => \A d \in C : d \notin A[n][up[d]]
  <2> TAKE n \in Nat
  <2> HAVE n <= N
  <2> TAKE d \in C
  <2>1. N - n \in Nat /\ n + (N - n) = N
    BY <1>1
  <2>2. A[n][up[d]] \subseteq A[n + (N - n)][up[d]]
    BY <1>3, <2>1
  <2> QED
    BY <2>1, <2>2
<1>5. \A n \in Nat : \A d \in D : A[n][d] \subseteq C
  <2> DEFINE T == {n \in Nat : \A d \in D : A[n][d] \subseteq C}
  <2>1. 0 \in T
    OBVIOUS
  <2>2. ASSUME NEW n \in Nat, n \in T PROVE n + 1 \in T
    BY <2>2
  <2> HIDE DEF T
  <2>3. \A n \in Nat : n \in T
    BY <2>1, <2>2, NatInduct
  <2> QED
    BY <2>3 DEF T
\* A walk that goes on has met one more class at each level.
<1> DEFINE Goes(n, d) == Cardinality(A[n][d]) = n + 1
           Ends(n, d) == g[n][d] = g[n + 1][d]
           T == {n \in Nat : n <= N => \A d \in D : Goes(n, d) \/ Ends(n, d)}
<1>6. 0 \in T
  <2>1. \A d \in C : Cardinality(A[0][d]) = 1
    <3>1. \A d : Cardinality({d}) = 1
      BY FS_Singleton
    <3> QED
      BY ZenonT(30), <3>1
  <2>2. g[0][none] = g[0 + 1][none]
    BY 0 + 1 \in Nat
  <2> QED
    BY <2>1, <2>2
<1>7. ASSUME NEW n \in Nat, n \in T PROVE n + 1 \in T
  <2> SUFFICES ASSUME n + 1 <= N, NEW d \in D PROVE Goes(n + 1, d) \/ Ends(n + 1, d)
    OBVIOUS
  <2>1. n <= N
    BY <1>1
  <2>2. CASE d = none
    BY <2>2, n + 1 \in Nat, (n + 1) + 1 \in Nat
  <2>3. CASE d \in C
    <3>1. up[d] \in D
      BY <2>3
    <3>2. CASE Ends(n, up[d])
      <4>1. g[n + 1][d] = g[n + 2][d]
        BY <2>3, <3>2
      <4>2. (n + 1) + 1 = n + 2
        OBVIOUS
      <4> QED
        BY <4>1, <4>2
    <3>3. CASE Goes(n, up[d])
      <4>1. A[n + 1][d] = A[n][up[d]] \cup {d}
        BY <2>3
      <4>2. d \notin A[n][up[d]]
        BY <1>4, <2>1, <2>3
      <4>3. IsFiniteSet(A[n][up[d]])
        BY <1>5, <3>1, FS_Subset
      <4>4. Cardinality(A[n][up[d]] \cup {d}) = Cardinality(A[n][up[d]]) + 1
        BY <4>2, <4>3, FS_AddElement
      <4> QED
        BY <3>3, <4>1, <4>4
    <3> QED
      BY <1>7, <2>1, <3>1, <3>2, <3>3
  <2> QED
    BY <2>2, <2>3
<1>8. N \in T
  <2> HIDE DEF T
  <2> QED
    BY <1>1, <1>6, <1>7, NatInduct
<1>9. \A d \in D : ~Goes(N, d)
  <2> TAKE d \in D
  <2>1. Cardinality(A[N][d]) <= N
    BY <1>1, <1>5, FS_Subset
  <2>2. Cardinality(A[N][d]) \in Nat
    BY <1>1, <1>5, FS_Subset, FS_CardinalityType
  <2> QED
    BY <1>1, <2>1, <2>2
<1> QED
  BY <1>1, <1>8, <1>9

-----------------------------------------------------------------------------
(* The walks of ClassModel, each in terms of the one from the parent.      *)

Named(p) == DOMAIN p.classes \cup {Nowhere}
Up(p) == [c \in DOMAIN p.classes |-> Parent(p, c)]
Acyclic(p) == \A c \in DOMAIN p.classes : ~Cyclic(p, c)

\* A parent is a class of the project or none.
LEMMA ParentType ==
    ASSUME NEW p, NEW c
    PROVE  Parent(p, c) \in Named(p)
BY DEF Parent, ClassNamed, Named

\* Parents are a table.
LEMMA UpType ==
    ASSUME NEW p, ClassTable(p)
    PROVE  /\ Table(DOMAIN p.classes, Nowhere, Up(p))
           /\ \A c \in DOMAIN p.classes : Up(p)[c] = Parent(p, c)
BY ParentType DEF Up, Named, Table, ClassTable

\* The ancestors are those of the walks up the parents.
LEMMA AncestorLevels ==
    ASSUME NEW p, ClassTable(p)
    PROVE  \E A : /\ Ancestry(A, DOMAIN p.classes, Nowhere, Up(p))
                  /\ \A c : Ancestors(p, c) = A[Cardinality(DOMAIN p.classes)][c]
<1> DEFINE C == DOMAIN p.classes
           V == SUBSET C
           F == [d \in C |-> [x \in V |-> {d} \cup x]]
           Made(f) == f = [n \in Nat |-> [d \in C \cup {Nowhere} |->
                            IF d = Nowhere THEN {}
                            ELSE {d} \cup (IF n = 0 THEN {} ELSE f[n - 1][Parent(p, d)])]]
           h == CHOOSE f : Made(f)
<1>1. Nowhere \notin C
  BY DEF ClassTable
<1>2. PICK g : Levels(g, C, Nowhere, Up(p), V, {}, F)
  <2>1. Closed(C, V, {}, F)
    BY DEF Closed
  <2> HIDE DEF C, V, F
  <2>2. Table(C, Nowhere, Up(p))
    BY UpType DEF C
  <2> QED
    BY <2>1, <2>2, LevelsExist
<1>3. Made(g)
  <2> DEFINE R(n) == [d \in C \cup {Nowhere} |->
                        IF d = Nowhere THEN {}
                        ELSE F[d][IF n = 0 THEN {} ELSE g[n - 1][Up(p)[d]]]]
             Q(n) == [d \in C \cup {Nowhere} |->
                        IF d = Nowhere THEN {}
                        ELSE {d} \cup (IF n = 0 THEN {} ELSE g[n - 1][Parent(p, d)])]
  <2>1. g \in [Nat -> [C \cup {Nowhere} -> V]] /\ g = [n \in Nat |-> R(n)]
    BY <1>2 DEF Levels
  <2>2. ASSUME NEW n \in Nat PROVE R(n) = Q(n)
    <3>1. n # 0 => n - 1 \in Nat
      OBVIOUS
    <3>2. \A d \in C : n # 0 => g[n - 1][Parent(p, d)] \in V
      <4>1. \A d : Parent(p, d) \in C \cup {Nowhere}
        BY ParentType DEF Named
      <4>2. n # 0 => g[n - 1] \in [C \cup {Nowhere} -> V]
        BY <2>1, <3>1
      <4> HIDE DEF C, V
      <4> QED
        BY <4>1, <4>2
    <3> QED
      BY <3>2, UpType
  <2> QED
    BY <2>1, <2>2
<1>4. Made(h)
  <2> HIDE DEF Made
  <2> QED
    BY <1>3, Zenon
<1>5. \A c : Ancestors(p, c) = h[Cardinality(C)][c]
  BY DEF Ancestors, Inherited
<1> HIDE DEF h
<1>6. \A n \in Nat :
        /\ h[n][Nowhere] = {}
        /\ \A d \in C : h[n][d] = {d} \cup (IF n = 0 THEN {} ELSE h[n - 1][Parent(p, d)])
  <2> TAKE n \in Nat
  <2>1. h[n] = [d \in C \cup {Nowhere} |->
                   IF d = Nowhere THEN {}
                   ELSE {d} \cup (IF n = 0 THEN {} ELSE h[n - 1][Parent(p, d)])]
    BY <1>4
  <2> QED
    BY <1>1, <2>1
<1>7. ASSUME NEW n \in Nat, NEW d \in C
      PROVE  h[n + 1][d] = {d} \cup h[n][Up(p)[d]]
  <2>1. n + 1 \in Nat /\ n + 1 # 0 /\ (n + 1) - 1 = n
    OBVIOUS
  <2>2. h[n + 1][d] = {d} \cup (IF n + 1 = 0 THEN {} ELSE h[(n + 1) - 1][Parent(p, d)])
    BY <1>6, <2>1
  <2> QED
    BY <2>1, <2>2, UpType
<1>8. Ancestry(h, C, Nowhere, Up(p))
  BY <1>6, <1>7 DEF Ancestry
<1> QED
  BY <1>5, <1>8

\* Without cycles no class is among the ancestors of its parent, at any level.
LEMMA Ascent ==
    ASSUME NEW p, ClassTable(p), Acyclic(p)
    PROVE  \E A : /\ Ancestry(A, DOMAIN p.classes, Nowhere, Up(p))
                  /\ Rootward(A, DOMAIN p.classes, Up(p))
                  /\ \A c : Ancestors(p, c) = A[Cardinality(DOMAIN p.classes)][c]
<1> DEFINE C == DOMAIN p.classes
           N == Cardinality(C)
<1>1. PICK A : /\ Ancestry(A, C, Nowhere, Up(p))
               /\ \A c : Ancestors(p, c) = A[N][c]
  BY AncestorLevels
<1>2. N \in Nat
  BY FS_CardinalityType DEF ClassTable
<1>3. /\ \A d \in C : A[0][d] = {d}
      /\ \A n \in Nat : \A d \in C : A[n + 1][d] = {d} \cup A[n][Parent(p, d)]
  BY <1>1, UpType DEF Ancestry
<1>4. \A c \in C : c \in A[N][c]
  <2>1. N = 0 \/ (N - 1 \in Nat /\ (N - 1) + 1 = N)
    BY <1>2
  <2> QED
    BY <1>3, <2>1
<1>5. \A c \in C : c \notin A[N][Parent(p, c)]
  BY <1>1, <1>4 DEF Acyclic, Cyclic
<1>6. Rootward(A, C, Up(p))
  BY <1>5, UpType DEF Rootward
<1> QED
  BY <1>1, <1>6

\* A walk h, level by level: at is what it makes of a class and of what its parent has.
\* At the level that Inherited takes, a class has what its parent's result makes.
LEMMA WalkResult ==
    ASSUME NEW p, ClassTable(p), Acyclic(p), NEW h, Walks(h, DOMAIN p.classes, Nowhere, Up(p))
    PROVE  LET N == Cardinality(DOMAIN p.classes) IN
           /\ N \in Nat
           /\ h[N][Nowhere] = h[0][Nowhere]
           /\ \A d \in DOMAIN p.classes : h[N][d] = h[N + 1][d]
<1> DEFINE C == DOMAIN p.classes
           N == Cardinality(C)
<1>1. PICK A : Ancestry(A, C, Nowhere, Up(p)) /\ Rootward(A, C, Up(p))
  BY Ascent
<1>2. Table(C, Nowhere, Up(p)) /\ N \in Nat
  BY UpType, FS_CardinalityType DEF ClassTable
<1>3. \A d \in C \cup {Nowhere} : h[N][d] = h[N + 1][d]
  BY <1>1, <1>2, WalksEnd
<1>4. h[N][Nowhere] = h[0][Nowhere]
  BY <1>2 DEF Walks
<1> QED
  BY <1>2, <1>3, <1>4

\* A class is its own ancestor and has those of its parent, and is not among them.
LEMMA AncestorsWalk ==
    ASSUME NEW p, ClassTable(p), Acyclic(p)
    PROVE  /\ Ancestors(p, Nowhere) = {}
           /\ \A c \in DOMAIN p.classes :
                 /\ Ancestors(p, c) = {c} \cup Ancestors(p, Parent(p, c))
                 /\ c \notin Ancestors(p, Parent(p, c))
<1> DEFINE C == DOMAIN p.classes
           N == Cardinality(C)
<1>1. PICK A : /\ Ancestry(A, C, Nowhere, Up(p))
               /\ Rootward(A, C, Up(p))
               /\ \A c : Ancestors(p, c) = A[N][c]
  BY Ascent
<1>2. /\ \A n \in Nat : A[n][Nowhere] = {}
      /\ \A n \in Nat : \A d \in C : A[n + 1][d] = {d} \cup A[n][Parent(p, d)]
      /\ \A d \in C : d \notin A[N][Parent(p, d)]
  BY <1>1, UpType DEF Ancestry, Rootward
<1>3. Walks(A, C, Nowhere, Up(p))
  <2>1. ASSUME NEW n \in Nat, NEW d \in C,
               A[n][Up(p)[d]] = A[n + 1][Up(p)[d]]
        PROVE  A[n + 1][d] = A[n + 2][d]
    <3>1. n + 1 \in Nat /\ (n + 1) + 1 = n + 2
      OBVIOUS
    <3>2. A[n + 1][d] = {d} \cup A[n][Parent(p, d)]
      BY <1>2
    <3>3. A[(n + 1) + 1][d] = {d} \cup A[n + 1][Parent(p, d)]
      BY <1>2, <3>1
    <3> QED
      BY <2>1, <3>1, <3>2, <3>3, UpType
  <2>2. \A n \in Nat : A[n][Nowhere] = A[0][Nowhere]
    BY <1>2
  <2> QED
    BY <2>1, <2>2 DEF Walks
<1>4. N \in Nat /\ \A d \in C : A[N][d] = A[N + 1][d]
  BY <1>3, WalkResult
<1> QED
  BY <1>1, <1>2, <1>4

\* The owner of a method is the class itself if it declares one, or that of its parent.
LEMMA MethodWalk ==
    ASSUME NEW p, ClassTable(p), Acyclic(p), NEW name
    PROVE  /\ Method(p, Nowhere, name) = Nowhere
           /\ \A c \in DOMAIN p.classes :
                 Method(p, c, name) = IF Declares(p, c, name) THEN c
                                      ELSE Method(p, Parent(p, c), name)
<1> DEFINE C == DOMAIN p.classes
           N == Cardinality(C)
           V == C \cup {Nowhere}
           F == [d \in C |-> [x \in V |-> IF Declares(p, d, name) THEN d ELSE x]]
           Made(f) == f = [n \in Nat |-> [d \in C \cup {Nowhere} |->
                 IF d = Nowhere THEN Nowhere
                 ELSE IF Declares(p, d, name) THEN d
                 ELSE IF n = 0 THEN Nowhere ELSE f[n - 1][Parent(p, d)]]]
           h == CHOOSE f : Made(f)
<1>1. Nowhere \notin C
  BY DEF ClassTable
<1>2. PICK g : Levels(g, C, Nowhere, Up(p), V, Nowhere, F)
  <2>1. Closed(C, V, Nowhere, F)
    BY DEF Closed
  <2> HIDE DEF C, V, F
  <2>2. Table(C, Nowhere, Up(p))
    BY UpType DEF C
  <2> QED
    BY <2>1, <2>2, LevelsExist
<1>3. Made(g)
  <2> DEFINE R(n) == [d \in C \cup {Nowhere} |->
                        IF d = Nowhere THEN Nowhere
                        ELSE F[d][IF n = 0 THEN Nowhere ELSE g[n - 1][Up(p)[d]]]]
             Q(n) == [d \in C \cup {Nowhere} |->
                        IF d = Nowhere THEN Nowhere
                        ELSE IF Declares(p, d, name) THEN d
                        ELSE IF n = 0 THEN Nowhere ELSE g[n - 1][Parent(p, d)]]
  <2>1. g \in [Nat -> [C \cup {Nowhere} -> V]] /\ g = [n \in Nat |-> R(n)]
    BY <1>2 DEF Levels
  <2>2. ASSUME NEW n \in Nat PROVE R(n) = Q(n)
    <3>1. n # 0 => n - 1 \in Nat
      OBVIOUS
    <3>2. \A d \in C : n # 0 => g[n - 1][Parent(p, d)] \in V
      <4>1. \A d : Parent(p, d) \in C \cup {Nowhere}
        BY ParentType DEF Named
      <4>2. n # 0 => g[n - 1] \in [C \cup {Nowhere} -> V]
        BY <2>1, <3>1
      <4> HIDE DEF C, V
      <4> QED
        BY <4>1, <4>2
    <3> QED
      BY <3>2, UpType
  <2> QED
    BY <2>1, <2>2
<1>4. Made(h)
  <2> HIDE DEF Made
  <2> QED
    BY <1>3, Zenon
<1>5. \A c : Method(p, c, name) = h[N][c]
  BY DEF Method, Inherited
<1> HIDE DEF h
<1>6. \A n \in Nat :
        /\ h[n][Nowhere] = Nowhere
        /\ \A d \in C : h[n][d] = IF Declares(p, d, name) THEN d
                                  ELSE IF n = 0 THEN Nowhere ELSE h[n - 1][Parent(p, d)]
  <2> TAKE n \in Nat
  <2>1. h[n] = [d \in C \cup {Nowhere} |->
                   IF d = Nowhere THEN Nowhere
                   ELSE IF Declares(p, d, name) THEN d
                   ELSE IF n = 0 THEN Nowhere ELSE h[n - 1][Parent(p, d)]]
    BY <1>4
  <2> QED
    BY <1>1, <2>1
<1>7. ASSUME NEW n \in Nat, NEW d \in C
      PROVE  h[n + 1][d] = IF Declares(p, d, name) THEN d ELSE h[n][Parent(p, d)]
  <2>1. n + 1 \in Nat /\ n + 1 # 0 /\ (n + 1) - 1 = n
    OBVIOUS
  <2> QED
    BY <1>6, <2>1
<1>8. Walks(h, C, Nowhere, Up(p))
  <2>1. ASSUME NEW n \in Nat, NEW d \in C, h[n][Up(p)[d]] = h[n + 1][Up(p)[d]]
        PROVE  h[n + 1][d] = h[n + 2][d]
    <3>1. n + 1 \in Nat /\ (n + 1) + 1 = n + 2
      OBVIOUS
    <3>2. h[(n + 1) + 1][d] = IF Declares(p, d, name) THEN d ELSE h[n + 1][Parent(p, d)]
      BY <1>7, <3>1
    <3> QED
      BY <1>7, <2>1, <3>1, <3>2, UpType
  <2>2. \A n \in Nat : h[n][Nowhere] = h[0][Nowhere]
    BY <1>6
  <2> QED
    BY <2>1, <2>2 DEF Walks
<1>9. N \in Nat /\ h[N][Nowhere] = Nowhere /\ \A d \in C : h[N][d] = h[N + 1][d]
  BY <1>6, <1>8, WalkResult
<1> QED
  BY <1>5, <1>7, <1>9

\* What a class is emitted with: its own methods, and of its parent's those it has not.
WithOwn(p, d, x) ==
    [m \in DOMAIN x \cup DOMAIN p.classes[d].methods |-> IF Declares(p, d, m) THEN d ELSE x[m]]

\* A class has its parent's methods and its own.
LEMMA AllMethodsWalk ==
    ASSUME NEW p, ClassTable(p), Acyclic(p)
    PROVE  /\ AllMethods(p, Nowhere) = <<>>
           /\ \A c \in DOMAIN p.classes :
                 AllMethods(p, c) = WithOwn(p, c, AllMethods(p, Parent(p, c)))
<1> DEFINE C == DOMAIN p.classes
           N == Cardinality(C)
           M == UNION {DOMAIN p.classes[d].methods : d \in C}
           V == UNION {[D -> C] : D \in SUBSET M}
           F == [d \in C |-> [x \in V |-> WithOwn(p, d, x)]]
           Made(f) == f = [n \in Nat |-> [d \in C \cup {Nowhere} |->
                 IF d = Nowhere THEN <<>>
                 ELSE WithOwn(p, d, IF n = 0 THEN <<>> ELSE f[n - 1][Parent(p, d)])]]
           h == CHOOSE f : Made(f)
<1>1. Nowhere \notin C
  BY DEF ClassTable
<1>2. PICK g : Levels(g, C, Nowhere, Up(p), V, <<>>, F)
  <2>1. <<>> \in V
    <3>1. <<>> \in [{} -> C] /\ {} \in SUBSET M
      OBVIOUS
    <3> QED
      BY <3>1
  <2>2. ASSUME NEW d \in C, NEW x \in V PROVE WithOwn(p, d, x) \in V
    <3>1. PICK D \in SUBSET M : x \in [D -> C]
      OBVIOUS
    <3> DEFINE D2 == D \cup DOMAIN p.classes[d].methods
    <3>2. D2 \in SUBSET M /\ DOMAIN x = D
      BY <3>1
    <3>3. WithOwn(p, d, x) \in [D2 -> C]
      BY <3>1, <3>2 DEF WithOwn, Declares
    <3> QED
      BY <3>2, <3>3
  <2>3. Closed(C, V, <<>>, F)
    <3> HIDE DEF V
    <3> QED
      BY <2>1, <2>2 DEF Closed
  <2> HIDE DEF C, V, F
  <2>4. Table(C, Nowhere, Up(p))
    BY UpType DEF C
  <2> QED
    BY <2>3, <2>4, LevelsExist
<1>3. Made(g)
  <2> DEFINE R(n) == [d \in C \cup {Nowhere} |->
                        IF d = Nowhere THEN <<>>
                        ELSE F[d][IF n = 0 THEN <<>> ELSE g[n - 1][Up(p)[d]]]]
             Q(n) == [d \in C \cup {Nowhere} |->
                        IF d = Nowhere THEN <<>>
                        ELSE WithOwn(p, d, IF n = 0 THEN <<>> ELSE g[n - 1][Parent(p, d)])]
  <2>1. g \in [Nat -> [C \cup {Nowhere} -> V]] /\ g = [n \in Nat |-> R(n)]
    BY <1>2 DEF Levels
  <2>2. <<>> \in V
    <3>1. <<>> \in [{} -> C] /\ {} \in SUBSET M
      OBVIOUS
    <3> QED
      BY <3>1
  <2>3. ASSUME NEW n \in Nat PROVE R(n) = Q(n)
    <3> HIDE DEF V
    <3>1. n # 0 => n - 1 \in Nat
      OBVIOUS
    <3>2. \A d \in C : n # 0 => g[n - 1][Parent(p, d)] \in V
      <4>1. \A d : Parent(p, d) \in C \cup {Nowhere}
        BY ParentType DEF Named
      <4>2. n # 0 => g[n - 1] \in [C \cup {Nowhere} -> V]
        BY <2>1, <3>1
      <4> HIDE DEF C, V
      <4> QED
        BY <4>1, <4>2
    <3> QED
      BY <2>2, <3>2, UpType
  <2> QED
    BY <2>1, <2>3
<1>4. Made(h)
  <2> HIDE DEF Made
  <2> QED
    BY <1>3, Zenon
<1>5. \A c : AllMethods(p, c) = h[N][c]
  BY DEF AllMethods, Inherited, WithOwn
<1> HIDE DEF h
<1>6. \A n \in Nat :
        /\ h[n][Nowhere] = <<>>
        /\ \A d \in C :
              h[n][d] = WithOwn(p, d, IF n = 0 THEN <<>> ELSE h[n - 1][Parent(p, d)])
  <2> TAKE n \in Nat
  <2>1. h[n] = [d \in C \cup {Nowhere} |->
                   IF d = Nowhere THEN <<>>
                   ELSE WithOwn(p, d, IF n = 0 THEN <<>> ELSE h[n - 1][Parent(p, d)])]
    BY <1>4
  <2> QED
    BY <1>1, <2>1
<1>7. ASSUME NEW n \in Nat, NEW d \in C
      PROVE  h[n + 1][d] = WithOwn(p, d, h[n][Parent(p, d)])
  <2>1. n + 1 \in Nat /\ n + 1 # 0 /\ (n + 1) - 1 = n
    OBVIOUS
  <2> QED
    BY <1>6, <2>1
<1>8. Walks(h, C, Nowhere, Up(p))
  <2>1. ASSUME NEW n \in Nat, NEW d \in C, h[n][Up(p)[d]] = h[n + 1][Up(p)[d]]
        PROVE  h[n + 1][d] = h[n + 2][d]
    <3>1. n + 1 \in Nat /\ (n + 1) + 1 = n + 2
      OBVIOUS
    <3>2. h[(n + 1) + 1][d] = WithOwn(p, d, h[n + 1][Parent(p, d)])
      BY <1>7, <3>1
    <3> QED
      BY <1>7, <2>1, <3>1, <3>2, UpType
  <2>2. \A n \in Nat : h[n][Nowhere] = h[0][Nowhere]
    BY <1>6
  <2> QED
    BY <2>1, <2>2 DEF Walks
<1>9. N \in Nat /\ h[N][Nowhere] = <<>> /\ \A d \in C : h[N][d] = h[N + 1][d]
  BY <1>6, <1>8, WalkResult
<1> QED
  BY <1>5, <1>7, <1>9

\* What an ancestor's arguments become on the way from the parent to the class.
Through(p, d, x) ==
    [i \in DOMAIN x |-> SubstituteType(x[i], Params(p, Parent(p, d)), p.classes[d].args)]

ParentsKnown(p) == \A c \in DOMAIN p.classes : ParentKnown(p, c)

\* A class that has a parent has an argument for each of the parent's parameters.
LEMMA ArgumentsFit ==
    ASSUME NEW p, ClassTable(p), ParentsKnown(p), NEW c \in DOMAIN p.classes,
           Parent(p, c) # Nowhere
    PROVE  /\ Parent(p, c) \in DOMAIN p.classes /\ ~p.classes[Parent(p, c)].interface
           /\ DOMAIN p.classes[c].args = DOMAIN Params(p, Parent(p, c))
           /\ \A i \in DOMAIN Params(p, Parent(p, c)) :
                 p.classes[c].args[i] \in InScope(p.classes[c])
<1>1. Parent(p, c) \in DOMAIN p.classes
  BY ParentType DEF Named
<1>2. p.classes[c].parent # <<>>
  BY DEF Parent, ClassNamed
<1>3. /\ ~p.classes[Parent(p, c)].interface
      /\ Len(p.classes[c].args) = Len(Params(p, Parent(p, c)))
  BY <1>2 DEF ParentsKnown, ParentKnown
<1> DEFINE args == p.classes[c].args
           names == Params(p, Parent(p, c))
<1>4. args \in Seq(InScope(p.classes[c])) /\ names \in Seq(Range(names))
  BY <1>1 DEF ClassTable, WellFormed, Params
<1> HIDE DEF args, names
<1>5. DOMAIN args = DOMAIN names /\ \A i \in DOMAIN names : args[i] \in InScope(p.classes[c])
  BY <1>3, <1>4 DEF args, names
<1> QED
  BY <1>1, <1>3, <1>5 DEF args, names

\* A type with arguments of a kind put in is of that kind.
LEMMA SubstituteIn ==
    ASSUME NEW type, NEW names, NEW args, NEW T,
           \A i \in DOMAIN names : args[i] \in T,
           type \notin Range(names) => type \in T
    PROVE  SubstituteType(type, names, args) \in T
BY DEF SubstituteType, Range

\* The arguments for an ancestor are those the parent passes on.
LEMMA ArgumentsWalk ==
    ASSUME NEW p, ClassTable(p), Acyclic(p), ParentsKnown(p), NEW a
    PROVE  /\ AncestorArguments(p, Nowhere, a) = <<>>
           /\ \A c \in DOMAIN p.classes :
                 AncestorArguments(p, c, a) =
                    IF c = a THEN Params(p, c)
                    ELSE Through(p, c, AncestorArguments(p, Parent(p, c), a))
<1> DEFINE C == DOMAIN p.classes
           N == Cardinality(C)
           T == UNION {InScope(p.classes[d]) : d \in C}
           V == UNION {[D -> T] : D \in SUBSET Nat}
           F == [d \in C |-> [x \in V |->
                   IF d = a THEN Params(p, d)
                   ELSE IF Parent(p, d) = Nowhere THEN <<>> ELSE Through(p, d, x)]]
           Made(f) == f = [n \in Nat |-> [d \in C \cup {Nowhere} |->
                 IF d = Nowhere THEN <<>>
                 ELSE IF d = a THEN Params(p, d)
                 ELSE Through(p, d, IF n = 0 THEN <<>> ELSE f[n - 1][Parent(p, d)])]]
           h == CHOOSE f : Made(f)
<1>1. Nowhere \notin C
  BY DEF ClassTable
<1>2. <<>> \in V
  <2>1. <<>> \in [{} -> T] /\ {} \in SUBSET Nat
    OBVIOUS
  <2> QED
    BY <2>1
<1>3. PICK g : Levels(g, C, Nowhere, Up(p), V, <<>>, F)
  <2>1. ASSUME NEW d \in C, NEW x \in V, Parent(p, d) # Nowhere PROVE Through(p, d, x) \in V
    <3>1. PICK D \in SUBSET Nat : x \in [D -> T]
      OBVIOUS
    <3>2. \A i \in DOMAIN Params(p, Parent(p, d)) : p.classes[d].args[i] \in T
      BY <2>1, ArgumentsFit
    <3> HIDE DEF T
    <3>3. ASSUME NEW i \in D
          PROVE SubstituteType(x[i], Params(p, Parent(p, d)), p.classes[d].args) \in T
      BY <3>1, <3>2, SubstituteIn
    <3>4. Through(p, d, x) \in [D -> T]
      BY <3>1, <3>3 DEF Through
    <3> QED
      BY <3>4
  <2>2. ASSUME NEW d \in C PROVE Params(p, d) \in V
    <3>1. Params(p, d) \in Seq(Range(Params(p, d))) /\ Range(Params(p, d)) \subseteq T
      <4>1. WellFormed(p.classes[d]) /\ Range(Params(p, d)) \subseteq InScope(p.classes[d])
        BY DEF ClassTable, Params, InScope
      <4>2. Params(p, d) \in Seq(Range(Params(p, d)))
        BY <4>1 DEF WellFormed, Params
      <4> QED
        BY <4>1, <4>2
    <3>2. Params(p, d) \in [1..Len(Params(p, d)) -> T]
      BY <3>1
    <3> QED
      BY <3>1, <3>2
  <2>3. Closed(C, V, <<>>, F)
    <3> HIDE DEF V
    <3> QED
      BY <1>2, <2>1, <2>2 DEF Closed
  <2> HIDE DEF C, V, F
  <2>4. Table(C, Nowhere, Up(p))
    BY UpType DEF C
  <2> QED
    BY <2>3, <2>4, LevelsExist
<1>4. Made(g)
  <2> DEFINE R(n) == [d \in C \cup {Nowhere} |->
                        IF d = Nowhere THEN <<>>
                        ELSE F[d][IF n = 0 THEN <<>> ELSE g[n - 1][Up(p)[d]]]]
             Q(n) == [d \in C \cup {Nowhere} |->
                        IF d = Nowhere THEN <<>>
                        ELSE IF d = a THEN Params(p, d)
                        ELSE Through(p, d, IF n = 0 THEN <<>> ELSE g[n - 1][Parent(p, d)])]
  <2>1. g \in [Nat -> [C \cup {Nowhere} -> V]] /\ g = [n \in Nat |-> R(n)]
    BY <1>3 DEF Levels
  <2>2. \A n \in Nat : g[n][Nowhere] = <<>>
    BY <2>1
  <2>3. \A d : Through(p, d, <<>>) = <<>>
    BY DEF Through
  <2>4. ASSUME NEW n \in Nat PROVE R(n) = Q(n)
    <3> HIDE DEF V
    <3>1. n # 0 => n - 1 \in Nat
      OBVIOUS
    <3>2. \A d \in C : n # 0 => g[n - 1][Parent(p, d)] \in V
      <4>1. \A d : Parent(p, d) \in C \cup {Nowhere}
        BY ParentType DEF Named
      <4>2. n # 0 => g[n - 1] \in [C \cup {Nowhere} -> V]
        BY <2>1, <3>1
      <4> HIDE DEF C, V
      <4> QED
        BY <4>1, <4>2
    <3>3. \A d \in C : n # 0 /\ Parent(p, d) = Nowhere => g[n - 1][Parent(p, d)] = <<>>
      BY <2>2, <3>1
    <3>4. ASSUME NEW d \in C
          PROVE  R(n)[d] = Q(n)[d]
      <4> DEFINE x == IF n = 0 THEN <<>> ELSE g[n - 1][Parent(p, d)]
      <4>1. x \in V /\ (Parent(p, d) = Nowhere => x = <<>>)
        BY <1>2, <3>2, <3>3
      <4>2. R(n)[d] = F[d][x] /\ Q(n)[d] = IF d = a THEN Params(p, d) ELSE Through(p, d, x)
        BY <1>1, UpType
      <4> HIDE DEF x, R, Q
      <4>3. F[d][x] = IF d = a THEN Params(p, d)
                      ELSE IF Parent(p, d) = Nowhere THEN <<>> ELSE Through(p, d, x)
        BY <4>1
      <4> QED
        BY <2>3, <4>1, <4>2, <4>3
    <3>5. R(n)[Nowhere] = Q(n)[Nowhere]
      OBVIOUS
    <3> HIDE DEF F
    <3> QED
      BY <3>4, <3>5
  <2> QED
    BY <2>1, <2>4
<1>5. Made(h)
  <2> HIDE DEF Made
  <2> QED
    BY <1>4, Zenon
<1>6. \A c : AncestorArguments(p, c, a) = h[N][c]
  BY DEF AncestorArguments, Inherited, Through
<1> HIDE DEF h
<1>7. \A n \in Nat :
        /\ h[n][Nowhere] = <<>>
        /\ \A d \in C :
              h[n][d] = IF d = a THEN Params(p, d)
                        ELSE Through(p, d, IF n = 0 THEN <<>> ELSE h[n - 1][Parent(p, d)])
  <2> TAKE n \in Nat
  <2>1. h[n] = [d \in C \cup {Nowhere} |->
                   IF d = Nowhere THEN <<>>
                   ELSE IF d = a THEN Params(p, d)
                   ELSE Through(p, d, IF n = 0 THEN <<>> ELSE h[n - 1][Parent(p, d)])]
    BY <1>5
  <2> QED
    BY <1>1, <2>1
<1>8. ASSUME NEW n \in Nat, NEW d \in C
      PROVE  h[n + 1][d] = IF d = a THEN Params(p, d) ELSE Through(p, d, h[n][Parent(p, d)])
  <2>1. n + 1 \in Nat /\ n + 1 # 0 /\ (n + 1) - 1 = n
    OBVIOUS
  <2> QED
    BY <1>7, <2>1
<1>9. Walks(h, C, Nowhere, Up(p))
  <2>1. ASSUME NEW n \in Nat, NEW d \in C, h[n][Up(p)[d]] = h[n + 1][Up(p)[d]]
        PROVE  h[n + 1][d] = h[n + 2][d]
    <3>1. n + 1 \in Nat /\ (n + 1) + 1 = n + 2
      OBVIOUS
    <3>2. h[(n + 1) + 1][d] = IF d = a THEN Params(p, d)
                              ELSE Through(p, d, h[n + 1][Parent(p, d)])
      BY <1>8, <3>1
    <3> QED
      BY <1>8, <2>1, <3>1, <3>2, UpType
  <2>2. \A n \in Nat : h[n][Nowhere] = h[0][Nowhere]
    BY <1>7
  <2> QED
    BY <2>1, <2>2 DEF Walks
<1>10. N \in Nat /\ h[N][Nowhere] = <<>> /\ \A d \in C : h[N][d] = h[N + 1][d]
  BY <1>7, <1>9, WalkResult
<1> QED
  BY <1>6, <1>8, <1>10

-----------------------------------------------------------------------------
(* Induction from the classes that have no parent to their descendants.    *)

\* Ancestors are classes of the project.
LEMMA AncestorsIn ==
    ASSUME NEW p, ClassTable(p)
    PROVE  \A c \in Named(p) : Ancestors(p, c) \subseteq DOMAIN p.classes
<1> DEFINE C == DOMAIN p.classes
           N == Cardinality(C)
<1>1. PICK A : /\ Ancestry(A, C, Nowhere, Up(p))
               /\ \A c : Ancestors(p, c) = A[N][c]
  BY AncestorLevels
<1>2. /\ \A n \in Nat : A[n][Nowhere] = {}
      /\ \A d \in C : A[0][d] = {d}
      /\ \A n \in Nat : \A d \in C : A[n + 1][d] = {d} \cup A[n][Parent(p, d)]
  BY <1>1, UpType DEF Ancestry
<1> DEFINE T == {n \in Nat : \A d \in Named(p) : A[n][d] \subseteq C}
<1>3. 0 \in T
  BY <1>2 DEF Named
<1>4. ASSUME NEW n \in Nat, n \in T PROVE n + 1 \in T
  BY <1>2, <1>4, ParentType DEF Named
<1>5. \A n \in Nat : n \in T
  <2> HIDE DEF T
  <2> QED
    BY <1>3, <1>4, NatInduct
<1>6. N \in Nat
  BY FS_CardinalityType DEF ClassTable
<1> QED
  BY <1>1, <1>5, <1>6

\* What is true of a class if its parent has none or is one it is true of, is of all.
LEMMA ClassInduct ==
    ASSUME NEW p, ClassTable(p), Acyclic(p), NEW S,
           \A c \in DOMAIN p.classes : Parent(p, c) \in S \cup {Nowhere} => c \in S
    PROVE  DOMAIN p.classes \subseteq S
<1> DEFINE C == DOMAIN p.classes
           Height(c) == Cardinality(Ancestors(p, c))
           K == {Height(c) : c \in C \ S}
<1> SUFFICES ASSUME C \ S # {} PROVE FALSE
  OBVIOUS
<1>1. \A c \in C : IsFiniteSet(Ancestors(p, c)) /\ Height(c) \in Nat
  BY AncestorsIn, FS_Subset, FS_CardinalityType DEF ClassTable, Named
<1>2. PICK x \in K : \A y \in K : x <= y
  <2>1. K \subseteq Nat /\ K # {}
    BY <1>1
  <2> HIDE DEF K
  <2> QED
    BY <2>1, LeastNat
<1>3. PICK c \in C \ S : Height(c) = x
  BY <1>2
<1> DEFINE q == Parent(p, c)
<1>4. q \in C \ S
  BY <1>3, ParentType DEF Named
<1>5. Ancestors(p, c) = Ancestors(p, q) \cup {c} /\ c \notin Ancestors(p, q)
  BY <1>3, AncestorsWalk
<1>6. Height(c) = Height(q) + 1
  BY <1>1, <1>4, <1>5, FS_AddElement
<1>7. Height(q) \in K /\ Height(q) \in Nat /\ x <= Height(q)
  BY <1>1, <1>2, <1>4
<1> HIDE DEF q, K, Height
<1> QED
  BY <1>3, <1>6, <1>7

\* The methods a class is emitted with are those it has by name, each declared by an
\* ancestor.
LEMMA Owners ==
    ASSUME NEW p, ClassTable(p), Acyclic(p), NEW c \in DOMAIN p.classes
    PROVE  /\ \A m \in DOMAIN AllMethods(p, c) :
                 /\ AllMethods(p, c)[m] \in DOMAIN p.classes
                 /\ AllMethods(p, c)[m] \in Ancestors(p, c)
                 /\ Declares(p, AllMethods(p, c)[m], m)
           /\ \A m : Method(p, c, m) = IF m \in DOMAIN AllMethods(p, c)
                                       THEN AllMethods(p, c)[m] ELSE Nowhere
<1> DEFINE C == DOMAIN p.classes
           Found(d) == /\ \A m \in DOMAIN AllMethods(p, d) :
                             /\ AllMethods(p, d)[m] \in C
                             /\ AllMethods(p, d)[m] \in Ancestors(p, d)
                             /\ Declares(p, AllMethods(p, d)[m], m)
                       /\ \A m : Method(p, d, m) = IF m \in DOMAIN AllMethods(p, d)
                                                   THEN AllMethods(p, d)[m] ELSE Nowhere
           S == {d \in C : Found(d)}
<1>1. Found(Nowhere)
  BY AllMethodsWalk, MethodWalk
<1>2. ASSUME NEW d \in C, Found(Parent(p, d)) PROVE Found(d)
  <2> DEFINE q == Parent(p, d)
  <2>1. AllMethods(p, d) = WithOwn(p, d, AllMethods(p, q))
    BY AllMethodsWalk
  <2>2. /\ DOMAIN AllMethods(p, d) = DOMAIN AllMethods(p, q) \cup DOMAIN p.classes[d].methods
        /\ \A m \in DOMAIN AllMethods(p, d) :
              AllMethods(p, d)[m] = IF Declares(p, d, m) THEN d ELSE AllMethods(p, q)[m]
    BY <2>1 DEF WithOwn
  <2>3. Ancestors(p, d) = {d} \cup Ancestors(p, q)
    BY AncestorsWalk
  <2>4. ASSUME NEW m \in DOMAIN AllMethods(p, d)
        PROVE  /\ AllMethods(p, d)[m] \in C
               /\ AllMethods(p, d)[m] \in Ancestors(p, d)
               /\ Declares(p, AllMethods(p, d)[m], m)
    <3>1. CASE Declares(p, d, m)
      BY <2>2, <2>3, <3>1
    <3>2. CASE ~Declares(p, d, m)
      <4>1. m \in DOMAIN AllMethods(p, q) /\ AllMethods(p, d)[m] = AllMethods(p, q)[m]
        BY <2>2, <3>2 DEF Declares
      <4> QED
        BY <1>2, <2>3, <4>1
    <3> QED
      BY <3>1, <3>2
  <2>5. ASSUME NEW m
        PROVE  Method(p, d, m) = IF m \in DOMAIN AllMethods(p, d)
                                 THEN AllMethods(p, d)[m] ELSE Nowhere
    <3>1. Method(p, d, m) = IF Declares(p, d, m) THEN d ELSE Method(p, q, m)
      BY MethodWalk
    <3>2. Declares(p, d, m) => m \in DOMAIN AllMethods(p, d)
      BY <2>2 DEF Declares
    <3>3. ~Declares(p, d, m) =>
             (m \in DOMAIN AllMethods(p, d) <=> m \in DOMAIN AllMethods(p, q))
      BY <2>2 DEF Declares
    <3> QED
      BY <1>2, <2>2, <3>1, <3>2, <3>3
  <2> QED
    BY <2>4, <2>5
<1> HIDE DEF Found
<1>3. \A d \in C : Parent(p, d) \in S \cup {Nowhere} => d \in S
  BY <1>1, <1>2
<1>4. C \subseteq S
  <2> HIDE DEF S
  <2> QED
    BY <1>3, ClassInduct
<1>5. Found(c)
  BY <1>4
<1> QED
  BY <1>5 DEF Found

\* The arguments of an ancestor are one for each of its parameters, in the scope of the
\* descendant.
LEMMA ArgumentsType ==
    ASSUME NEW p, ClassTable(p), Acyclic(p), ParentsKnown(p),
           NEW c \in DOMAIN p.classes, NEW a \in Ancestors(p, c)
    PROVE  /\ a \in DOMAIN p.classes
           /\ DOMAIN AncestorArguments(p, c, a) = DOMAIN Params(p, a)
           /\ \A i \in DOMAIN Params(p, a) :
                 AncestorArguments(p, c, a)[i] \in InScope(p.classes[c])
<1> DEFINE C == DOMAIN p.classes
           Args(d) == AncestorArguments(p, d, a)
           Fits(d) == a \in Ancestors(p, d) =>
                         /\ DOMAIN Args(d) = DOMAIN Params(p, a)
                         /\ \A i \in DOMAIN Params(p, a) : Args(d)[i] \in InScope(p.classes[d])
           S == {d \in C : Fits(d)}
<1>1. Fits(Nowhere)
  BY AncestorsWalk
<1>2. ASSUME NEW d \in C, Fits(Parent(p, d)) PROVE Fits(d)
  <2> DEFINE q == Parent(p, d)
  <2>1. Args(d) = IF d = a THEN Params(p, d) ELSE Through(p, d, Args(q))
    BY ArgumentsWalk
  <2>2. CASE d = a
    <3>1. \A i \in DOMAIN Params(p, a) : Params(p, a)[i] \in InScope(p.classes[a])
      BY DEF Params, InScope, Range
    <3> QED
      BY <2>1, <2>2, <3>1
  <2>3. CASE d # a
    <3> SUFFICES ASSUME a \in Ancestors(p, d)
                 PROVE  /\ DOMAIN Args(d) = DOMAIN Params(p, a)
                        /\ \A i \in DOMAIN Params(p, a) : Args(d)[i] \in InScope(p.classes[d])
      OBVIOUS
    <3>1. a \in Ancestors(p, q) /\ q # Nowhere
      BY <2>3, AncestorsWalk
    <3>2. /\ DOMAIN Args(q) = DOMAIN Params(p, a)
          /\ \A i \in DOMAIN Params(p, a) : Args(q)[i] \in InScope(p.classes[q])
      BY <1>2, <3>1
    <3>3. /\ DOMAIN Args(d) = DOMAIN Params(p, a)
          /\ \A i \in DOMAIN Params(p, a) :
                Args(d)[i] = SubstituteType(Args(q)[i], Params(p, q), p.classes[d].args)
      BY <2>1, <2>3, <3>2 DEF Through
    <3>4. \A i \in DOMAIN Params(p, q) : p.classes[d].args[i] \in InScope(p.classes[d])
      BY <3>1, ArgumentsFit
    <3>5. ASSUME NEW i \in DOMAIN Params(p, a) PROVE Args(d)[i] \in InScope(p.classes[d])
      <4>1. Args(q)[i] \notin Range(Params(p, q)) => Args(q)[i] \in InScope(p.classes[d])
        BY <3>2 DEF InScope, Params
      <4> HIDE DEF Args
      <4> QED
        BY <3>3, <3>4, <4>1, SubstituteIn
    <3> QED
      BY <3>3, <3>5
  <2> QED
    BY <2>2, <2>3
<1> HIDE DEF Fits
<1>3. \A d \in C : Parent(p, d) \in S \cup {Nowhere} => d \in S
  BY <1>1, <1>2
<1>4. C \subseteq S
  <2> HIDE DEF S
  <2> QED
    BY <1>3, ClassInduct
<1>5. Fits(c) /\ a \in C
  BY <1>4, AncestorsIn DEF Named
<1> QED
  BY <1>5 DEF Fits

-----------------------------------------------------------------------------
(* Types, from class to class.                                             *)

\* A class's own parameters stand for themselves.
LEMMA SubstituteOwn ==
    ASSUME NEW type, NEW names
    PROVE  SubstituteType(type, names, names) = type
BY DEF SubstituteType, Range

\* What is substituted on the way to the parent, and then on the way to the class, is
\* substituted in one step by the arguments that Through has.
LEMMA SubstituteThrough ==
    ASSUME NEW p, ClassTable(p), NEW c, Parent(p, c) \in DOMAIN p.classes,
           NEW a \in DOMAIN p.classes, NEW type \in InScope(p.classes[a]),
           NEW args, DOMAIN args = DOMAIN Params(p, a)
    PROVE  SubstituteType(SubstituteType(type, Params(p, a), args),
                          Params(p, Parent(p, c)), p.classes[c].args)
           = SubstituteType(type, Params(p, a), Through(p, c, args))
<1> DEFINE names == Params(p, a)
           above == Params(p, Parent(p, c))
<1>1. "int" \notin Range(above)
  BY DEF ClassTable, WellFormed, Params
<1>2. CASE type \in Range(names)
  <2> DEFINE i == CHOOSE i \in DOMAIN names : names[i] = type
  <2>1. i \in DOMAIN names
    BY <1>2 DEF Range
  <2>2. SubstituteType(type, names, args) = args[i]
    BY <1>2 DEF SubstituteType
  <2>3. SubstituteType(type, names, Through(p, c, args)) = Through(p, c, args)[i]
    BY <1>2 DEF SubstituteType
  <2> HIDE DEF i
  <2>4. Through(p, c, args)[i] = SubstituteType(args[i], above, p.classes[c].args)
    BY <2>1 DEF Through
  <2> QED
    BY <2>2, <2>3, <2>4
<1>3. CASE type \notin Range(names)
  <2>1. type = "int"
    BY <1>3 DEF InScope, Params
  <2> QED
    BY <1>1, <1>3, <2>1 DEF SubstituteType
<1> QED
  BY <1>2, <1>3

\* A type of an ancestor, as any descendant sees it.
LEMMA TypeInherited ==
    ASSUME NEW p, ClassTable(p), Acyclic(p), ParentsKnown(p),
           NEW c \in DOMAIN p.classes, NEW o \in Ancestors(p, c), NEW type
    PROVE  TypeSeen(p, type, o, c) = SubstituteType(type, Params(p, o), AncestorArguments(p, c, o))
<1>1. CASE o = c
  <2>1. AncestorArguments(p, c, o) = Params(p, o)
    BY <1>1, ArgumentsWalk
  <2> QED
    BY <1>1, <2>1, SubstituteOwn DEF TypeSeen
<1>2. CASE o # c
  BY <1>2 DEF TypeSeen
<1> QED
  BY <1>1, <1>2

\* A type of an ancestor, seen from a class, is made of the class's own parameters.
LEMMA TypeSeenIn ==
    ASSUME NEW p, ClassTable(p), Acyclic(p), ParentsKnown(p),
           NEW c \in DOMAIN p.classes, NEW o \in Ancestors(p, c),
           NEW type \in InScope(p.classes[o])
    PROVE  TypeSeen(p, type, o, c) \in InScope(p.classes[c])
<1>1. \A i \in DOMAIN Params(p, o) : AncestorArguments(p, c, o)[i] \in InScope(p.classes[c])
  BY ArgumentsType
<1>2. type \notin Range(Params(p, o)) => type \in InScope(p.classes[c])
  BY DEF InScope, Params
<1>3. SubstituteType(type, Params(p, o), AncestorArguments(p, c, o)) \in InScope(p.classes[c])
  BY <1>1, <1>2, SubstituteIn
<1> QED
  BY <1>3, TypeInherited

\* From the parent to the class: what is seen of an ancestor's type there.
LEMMA TypeBelow ==
    ASSUME NEW p, ClassTable(p), Acyclic(p), ParentsKnown(p),
           NEW c \in DOMAIN p.classes, Parent(p, c) # Nowhere,
           NEW o \in Ancestors(p, Parent(p, c)), NEW type \in InScope(p.classes[o])
    PROVE  TypeSeen(p, type, o, c) =
              SubstituteType(TypeSeen(p, type, o, Parent(p, c)), Params(p, Parent(p, c)),
                             p.classes[c].args)
<1> DEFINE q == Parent(p, c)
<1>1. q \in DOMAIN p.classes
  BY ParentType DEF Named
<1>2. o \in Ancestors(p, c) /\ o # c /\ o \in DOMAIN p.classes
  BY <1>1, AncestorsWalk, AncestorsIn DEF Named
<1>3. AncestorArguments(p, c, o) = Through(p, c, AncestorArguments(p, q, o))
  BY <1>2, ArgumentsWalk
<1>4. DOMAIN AncestorArguments(p, q, o) = DOMAIN Params(p, o)
  BY <1>1, ArgumentsType
<1>5. /\ TypeSeen(p, type, o, c) =
            SubstituteType(type, Params(p, o), AncestorArguments(p, c, o))
      /\ TypeSeen(p, type, o, q) =
            SubstituteType(type, Params(p, o), AncestorArguments(p, q, o))
  BY <1>1, <1>2, TypeInherited
<1> QED
  BY <1>1, <1>2, <1>3, <1>4, <1>5, SubstituteThrough

-----------------------------------------------------------------------------
(* An object may stand for its ancestors.                                  *)

\* What c has in place of a method of a.
StandsFor(p, c, a, m) ==
    LET has == AllMethods(p, c)
        owner == AllMethods(p, a)[m]
    IN  /\ m \in DOMAIN has
        /\ Signature(p, has[m], m, c) =
              SubstituteType(Signature(p, owner, m, a), Params(p, a), AncestorArguments(p, c, a))
        /\ Rank(Decl(p, has[m], m).visibility) >= Rank(Decl(p, owner, m).visibility)
        /\ Decl(p, owner, m).visibility = "private" => has[m] = owner

\* An accepted table has all its parents and no cycle.
LEMMA AcceptedShape ==
    ASSUME NEW p, Accepted(p)
    PROVE  ParentsKnown(p) /\ Acyclic(p)
BY DEF Accepted, ParentsKnown, Acyclic

\* A method of the parent, where the class overrides it and where it does not.
LEMMA ChildStandsForParent ==
    ASSUME NEW p, ClassTable(p), Accepted(p),
           NEW c \in DOMAIN p.classes, Parent(p, c) # Nowhere,
           NEW m \in DOMAIN AllMethods(p, Parent(p, c))
    PROVE  LET q == Parent(p, c)
               has == AllMethods(p, c)
               owner == AllMethods(p, q)[m]
           IN  /\ m \in DOMAIN has
               /\ Signature(p, has[m], m, c) =
                     SubstituteType(Signature(p, owner, m, q), Params(p, q), p.classes[c].args)
               /\ Rank(Decl(p, has[m], m).visibility) >= Rank(Decl(p, owner, m).visibility)
               /\ Decl(p, owner, m).visibility = "private" => has[m] = owner
<1> DEFINE q == Parent(p, c)
           has == AllMethods(p, c)
           owner == AllMethods(p, q)[m]
<1>1. ParentsKnown(p) /\ Acyclic(p) /\ q \in DOMAIN p.classes
  BY AcceptedShape, ParentType DEF Named
<1>2. owner \in DOMAIN p.classes /\ owner \in Ancestors(p, q) /\ Declares(p, owner, m)
  BY <1>1, Owners
<1>3. Decl(p, owner, m).type \in InScope(p.classes[owner])
  BY <1>2 DEF ClassTable, WellFormed, Decl, Declares
<1>4. Signature(p, owner, m, c) =
         SubstituteType(Signature(p, owner, m, q), Params(p, q), p.classes[c].args)
  BY <1>1, <1>2, <1>3, TypeBelow DEF Signature
<1>5. m \in DOMAIN has /\ has[m] = IF Declares(p, c, m) THEN c ELSE owner
  <2>1. has = WithOwn(p, c, AllMethods(p, q))
    BY <1>1, AllMethodsWalk
  <2> QED
    BY <2>1 DEF WithOwn
<1>6. CASE ~Declares(p, c, m)
  <2>1. Rank(Decl(p, owner, m).visibility) >= Rank(Decl(p, owner, m).visibility)
    BY DEF Rank
  <2> QED
    BY <1>4, <1>5, <1>6, <2>1
<1>7. CASE Declares(p, c, m)
  <2>1. OverrideAllowed(p, c, m)
    BY <1>7 DEF Accepted, Declares
  <2>2. Method(p, q, m) = owner /\ owner # Nowhere
    BY <1>1, <1>2, Owners DEF ClassTable
  <2>3. /\ Decl(p, owner, m).visibility # "private"
        /\ Signature(p, c, m, c) = Signature(p, owner, m, c)
        /\ Rank(Decl(p, c, m).visibility) >= Rank(Decl(p, owner, m).visibility)
    BY <2>1, <2>2 DEF OverrideAllowed, Decl
  <2> QED
    BY <1>4, <1>5, <1>7, <2>3
<1> QED
  BY <1>6, <1>7

\* An accepted class stands for each of its ancestors, method by method.
LEMMA DescendantStandsFor ==
    ASSUME NEW p, ClassTable(p), Accepted(p),
           NEW c \in DOMAIN p.classes, NEW a \in Ancestors(p, c),
           NEW m \in DOMAIN AllMethods(p, a)
    PROVE  StandsFor(p, c, a, m)
<1> DEFINE C == DOMAIN p.classes
           own == AllMethods(p, a)[m]
           type == Signature(p, own, m, a)
           S == {d \in C : a \in Ancestors(p, d) => StandsFor(p, d, a, m)}
<1>1. ParentsKnown(p) /\ Acyclic(p)
  BY AcceptedShape
<1>2. a \in C
  BY AncestorsIn DEF Named
<1>3. type \in InScope(p.classes[a])
  <2>1. own \in C /\ own \in Ancestors(p, a) /\ Declares(p, own, m)
    BY <1>1, <1>2, Owners
  <2>2. Decl(p, own, m).type \in InScope(p.classes[own])
    BY <2>1 DEF ClassTable, WellFormed, Decl, Declares
  <2> QED
    BY <1>1, <1>2, <2>1, <2>2, TypeSeenIn DEF Signature
<1>4. ASSUME NEW d \in C, Parent(p, d) \in S \cup {Nowhere}, a \in Ancestors(p, d)
      PROVE  StandsFor(p, d, a, m)
  <2> DEFINE q == Parent(p, d)
             has == AllMethods(p, d)
             above == AllMethods(p, q)
  <2>1. CASE d = a
    <3>1. AncestorArguments(p, d, a) = Params(p, a)
      BY <1>1, <2>1, ArgumentsWalk
    <3>2. SubstituteType(type, Params(p, a), AncestorArguments(p, d, a)) = type
      BY <3>1, SubstituteOwn
    <3>3. Rank(Decl(p, own, m).visibility) >= Rank(Decl(p, own, m).visibility)
      BY DEF Rank
    <3> QED
      BY <2>1, <3>2, <3>3 DEF StandsFor
  <2>2. CASE d # a
    <3>1. a \in Ancestors(p, q) /\ q # Nowhere
      BY <1>1, <2>2, <1>4, AncestorsWalk
    <3>2. StandsFor(p, q, a, m) /\ q \in C
      BY <1>4, <3>1
    <3>3. /\ m \in DOMAIN above
          /\ Signature(p, above[m], m, q) =
                SubstituteType(type, Params(p, a), AncestorArguments(p, q, a))
          /\ Rank(Decl(p, above[m], m).visibility) >= Rank(Decl(p, own, m).visibility)
          /\ Decl(p, own, m).visibility = "private" => above[m] = own
      BY <3>2 DEF StandsFor
    <3>4. /\ m \in DOMAIN has
          /\ Signature(p, has[m], m, d) =
                SubstituteType(Signature(p, above[m], m, q), Params(p, q), p.classes[d].args)
          /\ Rank(Decl(p, has[m], m).visibility) >= Rank(Decl(p, above[m], m).visibility)
          /\ Decl(p, above[m], m).visibility = "private" => has[m] = above[m]
      BY <3>1, <3>3, ChildStandsForParent
    <3>5. AncestorArguments(p, d, a) = Through(p, d, AncestorArguments(p, q, a))
      BY <1>1, <2>2, ArgumentsWalk
    <3>6. DOMAIN AncestorArguments(p, q, a) = DOMAIN Params(p, a)
      BY <1>1, <3>1, <3>2, ArgumentsType
    <3>7. Signature(p, has[m], m, d) =
             SubstituteType(type, Params(p, a), AncestorArguments(p, d, a))
      <4> HIDE DEF type, has, above
      <4> QED
        BY <1>2, <1>3, <3>2, <3>3, <3>4, <3>5, <3>6, SubstituteThrough
    <3>8. Rank(Decl(p, has[m], m).visibility) >= Rank(Decl(p, own, m).visibility)
      BY <3>3, <3>4 DEF Rank
    <3> QED
      BY <3>3, <3>4, <3>7, <3>8 DEF StandsFor
  <2> QED
    BY <2>1, <2>2
<1>5. \A d \in C : Parent(p, d) \in S \cup {Nowhere} => d \in S
  BY <1>4
<1>6. C \subseteq S
  <2> HIDE DEF S
  <2> QED
    BY <1>1, <1>5, ClassInduct
<1> QED
  BY <1>6

\* An interface is nobody's parent.
LEMMA AncestorIsClass ==
    ASSUME NEW p, ClassTable(p), Accepted(p), NEW c \in Classes(p), NEW a \in Ancestors(p, c)
    PROVE  a \in Classes(p)
<1> DEFINE C == DOMAIN p.classes
           S == {d \in C : d \in Classes(p) => Ancestors(p, d) \subseteq Classes(p)}
<1>1. ParentsKnown(p) /\ Acyclic(p)
  BY AcceptedShape
<1>2. ASSUME NEW d \in C, Parent(p, d) \in S \cup {Nowhere} PROVE d \in S
  <2>1. CASE Parent(p, d) = Nowhere
    BY <1>1, <2>1, AncestorsWalk
  <2>2. CASE Parent(p, d) # Nowhere
    <3>1. Parent(p, d) \in Classes(p)
      BY <1>1, <2>2, ArgumentsFit DEF Classes
    <3> QED
      BY <1>1, <1>2, <2>2, <3>1, AncestorsWalk
  <2> QED
    BY <2>1, <2>2
<1>3. C \subseteq S
  <2> HIDE DEF S
  <2> QED
    BY <1>1, <1>2, ClassInduct
<1> QED
  BY <1>3 DEF Classes

\* What an interface wants, an ancestor has, public, and so has the class.
LEMMA ImplementsInherited ==
    ASSUME NEW p, ClassTable(p), Accepted(p), NEW c \in Classes(p), NEW a \in Ancestors(p, c),
           NEW ref \in p.classes[a].implements,
           NEW m \in DOMAIN p.classes[ClassNamed(p, ref, Namespace(a))].methods
    PROVE  LET has == AllMethods(p, c) IN
           /\ m \in DOMAIN has /\ Decl(p, has[m], m).visibility = "public"
           /\ Signature(p, has[m], m, c) =
                 p.classes[ClassNamed(p, ref, Namespace(a))].methods[m].type
<1> DEFINE target == ClassNamed(p, ref, Namespace(a))
           owner == AllMethods(p, a)[m]
           has == AllMethods(p, c)
           type == p.classes[target].methods[m].type
<1>1. /\ ParentsKnown(p) /\ Acyclic(p)
      /\ c \in DOMAIN p.classes /\ a \in DOMAIN p.classes /\ a \in Classes(p)
  BY AcceptedShape, AncestorIsClass DEF Classes
<1>2. Implements(p, a, ref)
  BY <1>1 DEF Accepted
<1>3. /\ target \in DOMAIN p.classes /\ p.classes[target].interface
      /\ Method(p, a, m) # Nowhere /\ Decl(p, Method(p, a, m), m).visibility = "public"
      /\ Signature(p, Method(p, a, m), m, a) = Signature(p, target, m, a)
  <2>1. target # Nowhere => target \in DOMAIN p.classes
    BY DEF ClassNamed
  <2> QED
    BY <1>2, <2>1 DEF Implements
<1>4. m \in DOMAIN AllMethods(p, a) /\ Method(p, a, m) = owner
  BY <1>1, <1>3, Owners
<1>5. Signature(p, target, m, a) = type
  <2>1. target \notin Ancestors(p, a)
    BY <1>1, <1>3, AncestorIsClass DEF Classes
  <2> QED
    BY <2>1 DEF Signature, TypeSeen, Decl
<1>6. type = "int"
  <2>1. p.classes[target].params = <<>> /\ type \in InScope(p.classes[target])
    BY <1>3 DEF ClassTable, WellFormed
  <2> QED
    BY <2>1 DEF InScope, Range
<1>7. StandsFor(p, c, a, m)
  BY <1>1, <1>4, DescendantStandsFor
<1>8. /\ m \in DOMAIN has
      /\ Signature(p, has[m], m, c) =
            SubstituteType(type, Params(p, a), AncestorArguments(p, c, a))
      /\ Rank(Decl(p, has[m], m).visibility) >= Rank("public")
  BY <1>3, <1>4, <1>5, <1>7 DEF StandsFor
<1>9. SubstituteType(type, Params(p, a), AncestorArguments(p, c, a)) = type
  BY <1>1, <1>6 DEF SubstituteType, ClassTable, WellFormed, Params
<1>10. Decl(p, has[m], m).visibility = "public"
  BY <1>8 DEF Rank
<1> QED
  BY <1>8, <1>9, <1>10

\* Every table of classes that is accepted: an object may stand for any of its ancestors.
THEOREM AcceptedIsSubstitutable ==
    ASSUME NEW p, ClassTable(p)
    PROVE  Substitutable(p)
<1> SUFFICES ASSUME Accepted(p),
                    NEW c \in Classes(p), NEW a \in DOMAIN p.classes, a \in Ancestors(p, c)
             PROVE  /\ \A m \in DOMAIN AllMethods(p, a) : StandsFor(p, c, a, m)
                    /\ \A ref \in p.classes[a].implements :
                          \A m \in DOMAIN p.classes[ClassNamed(p, ref, Namespace(a))].methods :
                             /\ m \in DOMAIN AllMethods(p, c)
                             /\ Decl(p, AllMethods(p, c)[m], m).visibility = "public"
                             /\ Signature(p, AllMethods(p, c)[m], m, c) =
                                   p.classes[ClassNamed(p, ref, Namespace(a))].methods[m].type
  BY Zenon DEF Substitutable, StandsFor
<1>1. \A m \in DOMAIN AllMethods(p, a) : StandsFor(p, c, a, m)
  BY DescendantStandsFor DEF Classes
<1>2. ASSUME NEW ref \in p.classes[a].implements,
             NEW m \in DOMAIN p.classes[ClassNamed(p, ref, Namespace(a))].methods
      PROVE  /\ m \in DOMAIN AllMethods(p, c)
             /\ Decl(p, AllMethods(p, c)[m], m).visibility = "public"
             /\ Signature(p, AllMethods(p, c)[m], m, c) =
                   p.classes[ClassNamed(p, ref, Namespace(a))].methods[m].type
  BY ImplementsInherited
<1> QED
  BY <1>1, <1>2

-----------------------------------------------------------------------------
(* The bodies a call runs.                                                 *)

\* The ancestors of an ancestor are ancestors, and all but the class itself have a child
\* among them.
LEMMA AncestorsAbove ==
    ASSUME NEW p, ClassTable(p), Acyclic(p), NEW c \in DOMAIN p.classes,
           NEW a \in Ancestors(p, c)
    PROVE  /\ Ancestors(p, a) \subseteq Ancestors(p, c)
           /\ a # c => \E d \in Ancestors(p, c) : Parent(p, d) = a
<1> DEFINE C == DOMAIN p.classes
           Above(d) == a \in Ancestors(p, d) =>
                          /\ Ancestors(p, a) \subseteq Ancestors(p, d)
                          /\ a # d => \E e \in Ancestors(p, d) : Parent(p, e) = a
           S == {d \in C : Above(d)}
<1>1. ASSUME NEW d \in C, Parent(p, d) \in S \cup {Nowhere} PROVE Above(d)
  <2> DEFINE q == Parent(p, d)
  <2>1. Ancestors(p, d) = {d} \cup Ancestors(p, q)
    BY AncestorsWalk
  <2>2. CASE a \in Ancestors(p, q)
    <3>1. Above(q)
      BY <1>1, <2>2, AncestorsWalk
    <3>2. Ancestors(p, a) \subseteq Ancestors(p, d)
      BY <2>1, <2>2, <3>1
    <3>3. \E e \in Ancestors(p, d) : Parent(p, e) = a
      <4>1. CASE a = q
        BY <2>1, <4>1
      <4>2. CASE a # q
        BY <2>1, <2>2, <3>1, <4>2
      <4> QED
        BY <4>1, <4>2
    <3> QED
      BY <3>2, <3>3
  <2>3. CASE a \notin Ancestors(p, q)
    BY <2>1, <2>3
  <2> QED
    BY <2>2, <2>3
<1> HIDE DEF Above
<1>2. C \subseteq S
  <2>1. \A d \in C : Parent(p, d) \in S \cup {Nowhere} => d \in S
    BY <1>1
  <2> HIDE DEF S
  <2> QED
    BY <2>1, ClassInduct
<1>3. Above(c)
  BY <1>2
<1> QED
  BY <1>3 DEF Above

\* Sets that grow by what their members lead to.
Grows(f, U, start, leads) ==
    /\ f \in [Nat -> SUBSET U]
    /\ f = [i \in Nat |-> IF i = 0 THEN start
                          ELSE f[i - 1] \cup UNION {leads[x] : x \in f[i - 1]}]

\* A set that grows by what its elements lead to is a function of the number of steps.
LEMMA GrowthExists ==
    ASSUME NEW U, NEW start \in SUBSET U, NEW leads \in [U -> SUBSET U]
    PROVE  \E f : Grows(f, U, start, leads)
<1> DEFINE S == SUBSET U
           step == [X \in S |-> X \cup UNION {leads[x] : x \in X}]
<1>1. \A X \in S : step[X] \in S
  OBVIOUS
<1> HIDE DEF S, step
<1>2. start \in S
  BY DEF S
<1>3. PICK f : Repeats(f, S, start, step)
  BY <1>1, <1>2, Repetition
<1>4. f \in [Nat -> S] /\ f[0] = start /\ \A n \in Nat : f[n + 1] = step[f[n]]
  BY <1>3 DEF Repeats
<1>5. ASSUME NEW i \in Nat, i # 0
      PROVE  f[i] = f[i - 1] \cup UNION {leads[x] : x \in f[i - 1]}
  <2>1. i - 1 \in Nat /\ (i - 1) + 1 = i
    BY <1>5
  <2>2. f[i] = step[f[i - 1]] /\ f[i - 1] \in S
    BY <1>4, <2>1
  <2> QED
    BY <2>2 DEF step
<1>6. f = [i \in Nat |-> IF i = 0 THEN start
                         ELSE f[i - 1] \cup UNION {leads[x] : x \in f[i - 1]}]
  BY <1>4, <1>5
<1> QED
  BY <1>4, <1>6 DEF Grows, S

\* One step of such growth.
LEMMA GrowthStep ==
    ASSUME NEW U, NEW start, NEW leads, NEW f, Grows(f, U, start, leads)
    PROVE  /\ f[0] = start
           /\ \A n \in Nat : f[n] \subseteq U
           /\ \A n \in Nat : f[n + 1] = f[n] \cup UNION {leads[x] : x \in f[n]}
<1>1. f[0] = start
  BY DEF Grows
<1>2. \A n \in Nat : f[n] \subseteq U
  BY DEF Grows
<1>3. ASSUME NEW n \in Nat PROVE f[n + 1] = f[n] \cup UNION {leads[x] : x \in f[n]}
  <2>1. n + 1 \in Nat /\ n + 1 # 0 /\ (n + 1) - 1 = n
    OBVIOUS
  <2>2. f[n + 1] = IF n + 1 = 0 THEN start
                   ELSE f[(n + 1) - 1] \cup UNION {leads[x] : x \in f[(n + 1) - 1]}
    BY <2>1 DEF Grows
  <2> QED
    BY <2>1, <2>2
<1> QED
  BY <1>1, <1>2, <1>3

\* The bodies that a call on an object of class c may run, those that one of them calls as
\* the source has it, and a body as it is run.
Live(p, c) == {b \in Bodies(p) : b[1] \in Ancestors(p, c)}

Target(p, c, b, k) ==
    <<Method(p, IF k.via = "this" THEN c ELSE Parent(p, b[1]), k.name), k.name>>

Targets(p, c, b) == {Target(p, c, b, k) : k \in Decl(p, b[1], b[2]).calls}

Ran(p, b) == Run(b[1], b[2], Calls(p, b[1], b[2]))

\* What Code makes of a class, whichever copies and exact bodies it has.
ClassFits(p, c, made) ==
    /\ DOMAIN made.wrappers = DOMAIN AllMethods(p, c)
    /\ \A m \in DOMAIN AllMethods(p, c) :
          LET w == made.wrappers[m] IN
          /\ w.copy \in BOOLEAN
          /\ w.owner = AllMethods(p, c)[m]
          /\ w.copy => /\ w.kind # "rebinds"
                       /\ w.kind = "hidden" => Namespace(w.owner) = Namespace(c)
                       /\ w.calls = Calls(p, w.owner, m)
    /\ DOMAIN made.bodies = DOMAIN p.classes[c].methods
    /\ \A m \in DOMAIN p.classes[c].methods :
          LET body == made.bodies[m] IN
          /\ body.exact \in BOOLEAN
          /\ body.exact => c \notin Parents(p) /\ body.kind # "rebinds"
          /\ body.calls = Calls(p, c, m)

CodeFits(p, code) ==
    /\ DOMAIN code = Classes(p)
    /\ \A c \in Classes(p) : ClassFits(p, c, code[c])

\* A live body is one of an ancestor.
LEMMA LiveBody ==
    ASSUME NEW p, ClassTable(p), Accepted(p), NEW c \in Classes(p), NEW b \in Live(p, c)
    PROVE  /\ b[1] \in Classes(p) /\ b[1] \in Ancestors(p, c)
           /\ b[2] \in DOMAIN p.classes[b[1]].methods
           /\ b = <<b[1], b[2]>>
BY AncestorIsClass DEF Live, Bodies

\* The method an ancestor's code calls is live.
LEMMA LiveMethod ==
    ASSUME NEW p, ClassTable(p), Accepted(p), NEW c \in Classes(p),
           NEW a \in Ancestors(p, c), NEW m, Method(p, a, m) # Nowhere
    PROVE  /\ m \in DOMAIN AllMethods(p, a) /\ Method(p, a, m) = AllMethods(p, a)[m]
           /\ <<Method(p, a, m), m>> \in Live(p, c)
<1>1. Acyclic(p) /\ c \in DOMAIN p.classes /\ a \in DOMAIN p.classes
  BY AcceptedShape, AncestorIsClass DEF Classes
<1>2. m \in DOMAIN AllMethods(p, a) /\ Method(p, a, m) = AllMethods(p, a)[m]
  BY <1>1, Owners
<1> DEFINE o == AllMethods(p, a)[m]
<1>3. o \in DOMAIN p.classes /\ o \in Ancestors(p, a) /\ Declares(p, o, m)
  BY <1>1, <1>2, Owners
<1>4. o \in Ancestors(p, c)
  BY <1>1, <1>3, AncestorsAbove
<1>5. <<o, m>> \in Bodies(p)
  BY <1>3 DEF Bodies, Declares
<1> QED
  BY <1>2, <1>4, <1>5 DEF Live

\* A call of a live body, checked where the body is declared, finds a method in the class
\* of the object.
LEMMA TargetLive ==
    ASSUME NEW p, ClassTable(p), Accepted(p), NEW c \in Classes(p), NEW b \in Live(p, c),
           NEW k \in Decl(p, b[1], b[2]).calls
    PROVE  /\ Target(p, c, b, k) \in Live(p, c)
           /\ k.via = "this" => k.name \in DOMAIN AllMethods(p, c)
<1> DEFINE o == b[1]
<1>1. ParentsKnown(p) /\ Acyclic(p) /\ c \in DOMAIN p.classes
  BY AcceptedShape DEF Classes
<1>2. o \in Classes(p) /\ o \in DOMAIN p.classes /\ o \in Ancestors(p, c)
  BY LiveBody DEF Classes
<1>3. CallAllowed(p, o, k)
  BY <1>2, LiveBody DEF Accepted
<1>4. CASE k.via = "this"
  <2>1. Method(p, o, k.name) # Nowhere
    BY <1>3, <1>4 DEF CallAllowed
  <2>2. k.name \in DOMAIN AllMethods(p, o)
    BY <1>2, <2>1, LiveMethod
  <2>3. k.name \in DOMAIN AllMethods(p, c)
    BY <1>1, <1>2, <2>2, DescendantStandsFor DEF StandsFor
  <2>4. Method(p, c, k.name) # Nowhere
    BY <1>1, <2>3, Owners DEF ClassTable
  <2>5. <<Method(p, c, k.name), k.name>> \in Live(p, c)
    BY <1>1, <2>4, LiveMethod, AncestorsWalk
  <2> QED
    BY <1>4, <2>3, <2>5 DEF Target
<1>5. CASE k.via # "this"
  <2> DEFINE q == Parent(p, o)
  <2>1. q # Nowhere /\ Method(p, q, k.name) # Nowhere
    BY <1>3, <1>5 DEF CallAllowed
  <2>2. q \in DOMAIN p.classes
    BY <2>1, ParentType DEF Named
  <2>3. q \in Ancestors(p, o)
    BY <1>1, <1>2, <2>2, AncestorsWalk
  <2>4. q \in Ancestors(p, c)
    BY <1>1, <1>2, <2>3, AncestorsAbove
  <2>5. <<Method(p, q, k.name), k.name>> \in Live(p, c)
    BY <2>1, <2>4, LiveMethod
  <2> QED
    BY <1>5, <2>5 DEF Target
<1> QED
  BY <1>4, <1>5

\* Emitted code that fits, when a live body is entered, runs what its source leads to.
LEMMA EnterRuns ==
    ASSUME NEW p, ClassTable(p), Accepted(p), NEW code, CodeFits(p, code),
           NEW c \in Classes(p), NEW b \in Live(p, c)
    PROVE  Enter(code, c, b[1], b[2]) = Ran(p, b)
<1> DEFINE o == b[1]
           body == code[o].bodies[b[2]]
<1>1. o \in Classes(p) /\ b[2] \in DOMAIN p.classes[o].methods /\ o \in Ancestors(p, c)
  BY LiveBody
<1>2. /\ o \in DOMAIN code /\ b[2] \in DOMAIN code[o].bodies
      /\ body.exact \in BOOLEAN
      /\ body.exact => o \notin Parents(p) /\ body.kind # "rebinds"
      /\ body.calls = Calls(p, o, b[2])
  BY <1>1 DEF CodeFits, ClassFits
<1>3. c # o => o \in Parents(p)
  <2> SUFFICES ASSUME c # o PROVE o \in Parents(p)
    OBVIOUS
  <2>1. Acyclic(p) /\ c \in DOMAIN p.classes
    BY AcceptedShape DEF Classes
  <2>2. PICK d \in Ancestors(p, c) : Parent(p, d) = o
    BY <1>1, <2>1, AncestorsAbove
  <2>3. d \in Classes(p)
    BY AncestorIsClass
  <2> QED
    BY <2>2, <2>3 DEF Parents
<1> HIDE DEF body
<1>4. ~(body.exact /\ (c # o \/ body.kind = "rebinds"))
  BY <1>2, <1>3
<1> QED
  BY <1>2, <1>4 DEF Enter, Ran, body

\* So does a call of a method.
LEMMA CallRuns ==
    ASSUME NEW p, ClassTable(p), Accepted(p), NEW code, CodeFits(p, code),
           NEW c \in Classes(p), NEW m \in DOMAIN AllMethods(p, c)
    PROVE  /\ Call(code, c, m) = Ran(p, <<Method(p, c, m), m>>)
           /\ <<Method(p, c, m), m>> \in Live(p, c)
<1> DEFINE o == AllMethods(p, c)[m]
           w == code[c].wrappers[m]
<1>1. Acyclic(p) /\ c \in DOMAIN p.classes
  BY AcceptedShape DEF Classes
<1>2. Method(p, c, m) = o /\ o # Nowhere
  BY <1>1, Owners DEF ClassTable
<1>3. <<o, m>> \in Live(p, c)
  BY <1>1, <1>2, LiveMethod, AncestorsWalk
<1>4. /\ c \in DOMAIN code /\ m \in DOMAIN code[c].wrappers
      /\ w.copy \in BOOLEAN /\ w.owner = o
      /\ w.copy => /\ w.kind # "rebinds"
                   /\ w.kind = "hidden" => Namespace(w.owner) = Namespace(c)
                   /\ w.calls = Calls(p, w.owner, m)
  BY DEF CodeFits, ClassFits
<1>5. Enter(code, c, o, m) = Ran(p, <<o, m>>)
  BY <1>3, EnterRuns
<1> HIDE DEF o
<1>6. Call(code, c, m) =
         IF ~w.copy THEN Enter(code, c, w.owner, m)
         ELSE IF \/ w.kind = "rebinds"
                 \/ w.kind = "hidden" /\ Namespace(w.owner) # Namespace(c) THEN Stuck
         ELSE Run(w.owner, m, w.calls)
  BY <1>4 DEF Call
<1> HIDE DEF w
<1>7. CASE w.copy = TRUE
  BY <1>2, <1>3, <1>4, <1>6, <1>7 DEF Ran
<1>8. CASE w.copy = FALSE
  BY <1>2, <1>3, <1>4, <1>5, <1>6, <1>8
<1> QED
  BY <1>4, <1>7, <1>8

\* What the code of a live body leads to is what its source leads to.
LEMMA RanLeads ==
    ASSUME NEW p, ClassTable(p), Accepted(p), NEW code, CodeFits(p, code),
           NEW c \in Classes(p), NEW b \in Live(p, c)
    PROVE  {IF k.via = "this" THEN Call(code, c, k.name)
            ELSE Enter(code, c, k.owner, k.name) : k \in Ran(p, b).calls}
           = {Ran(p, t) : t \in Targets(p, c, b)}
<1> DEFINE Leads(k) == IF k.via = "this" THEN Call(code, c, k.name)
                       ELSE Enter(code, c, k.owner, k.name)
           calls == Decl(p, b[1], b[2]).calls
<1>1. Ran(p, b).calls = {Bound(p, b[1], k) : k \in calls}
  BY DEF Ran, Run, Calls
<1>2. ASSUME NEW k \in calls PROVE Leads(Bound(p, b[1], k)) = Ran(p, Target(p, c, b, k))
  <2>1. /\ Target(p, c, b, k) \in Live(p, c)
        /\ k.via = "this" => k.name \in DOMAIN AllMethods(p, c)
    BY TargetLive
  <2>2. CASE k.via = "this"
    <3>1. Bound(p, b[1], k) = k /\ Target(p, c, b, k) = <<Method(p, c, k.name), k.name>>
      BY <2>2 DEF Bound, Target
    <3> QED
      BY <2>1, <2>2, <3>1, CallRuns
  <2>3. CASE k.via # "this"
    <3> DEFINE t == Target(p, c, b, k)
    <3>1. Bound(p, b[1], k) = [via |-> "body", owner |-> t[1], name |-> t[2]]
      BY <2>3 DEF Bound, Target
    <3>2. Enter(code, c, t[1], t[2]) = Ran(p, t)
      BY <2>1, EnterRuns
    <3> HIDE DEF t
    <3>3. Leads(Bound(p, b[1], k)) = Enter(code, c, t[1], t[2])
      BY <3>1
    <3> QED
      BY <3>2, <3>3 DEF t
  <2> QED
    BY <2>2, <2>3
<1>3. {Leads(k) : k \in Ran(p, b).calls} = {Leads(Bound(p, b[1], k)) : k \in calls}
  <2> HIDE DEF Leads, calls
  <2> QED
    BY <1>1
<1>4. {Leads(Bound(p, b[1], k)) : k \in calls} = {Ran(p, t) : t \in Targets(p, c, b)}
  <2> HIDE DEF Leads
  <2> QED
    BY <1>2 DEF Targets
<1> QED
  BY <1>3, <1>4

\* There are finitely many bodies.
LEMMA BodiesFinite ==
    ASSUME NEW p, ClassTable(p)
    PROVE  Cardinality(Bodies(p)) \in Nat
<1> DEFINE C == DOMAIN p.classes
           Of(c) == {<<c, m>> : m \in DOMAIN p.classes[c].methods}
           all == {Of(c) : c \in C}
<1>1. ASSUME NEW c \in C PROVE IsFiniteSet(Of(c))
  <2>1. IsFiniteSet(DOMAIN p.classes[c].methods)
    BY DEF ClassTable, WellFormed
  <2> DEFINE f == [m \in DOMAIN p.classes[c].methods |-> <<c, m>>]
  <2>2. f \in Surjection(DOMAIN p.classes[c].methods, Of(c))
    BY DEF Surjection
  <2> HIDE DEF f, Of
  <2> QED
    BY <2>1, <2>2, FS_Surjection
<1>2. IsFiniteSet(all)
  <2>1. IsFiniteSet(C)
    BY DEF ClassTable
  <2> DEFINE f == [c \in C |-> Of(c)]
  <2> HIDE DEF Of
  <2>2. f \in Surjection(C, all)
    BY DEF Surjection
  <2> HIDE DEF f, all
  <2> QED
    BY <2>1, <2>2, FS_Surjection
<1>3. IsFiniteSet(UNION all)
  <2>1. \A X \in all : IsFiniteSet(X)
    BY <1>1
  <2> HIDE DEF all
  <2> QED
    BY <1>2, <2>1, FS_UNION
<1>4. Bodies(p) = UNION all
  BY DEF Bodies
<1> QED
  BY <1>3, <1>4, FS_CardinalityType

\* Source, level by level.
LEMMA SourceLevels ==
    ASSUME NEW p, ClassTable(p), Accepted(p), NEW c \in Classes(p),
           NEW m, <<Method(p, c, m), m>> \in Live(p, c)
    PROVE  \E s : /\ Grows(s, Live(p, c), {<<Method(p, c, m), m>>},
                           [b \in Live(p, c) |-> Targets(p, c, b)])
                  /\ Source(p, c, m) = s[Cardinality(Bodies(p))]
<1> DEFINE U == Live(p, c)
           start == {<<Method(p, c, m), m>>}
           leads == [b \in U |-> Targets(p, c, b)]
           N == Cardinality(Bodies(p))
           Made(f) == f = [i \in Nat |-> IF i = 0 THEN start
                              ELSE f[i - 1] \cup UNION {Targets(p, c, x) : x \in f[i - 1]}]
           h == CHOOSE f : Made(f)
<1>1. leads \in [U -> SUBSET U] /\ start \in SUBSET U
  <2>1. ASSUME NEW b \in U PROVE Targets(p, c, b) \in SUBSET U
    BY TargetLive DEF Targets
  <2> QED
    BY <2>1
<1>2. PICK s : Grows(s, U, start, leads)
  <2> HIDE DEF U, start, leads
  <2> QED
    BY <1>1, GrowthExists
<1>3. Made(s)
  <2>1. /\ s \in [Nat -> SUBSET U]
        /\ s = [i \in Nat |-> IF i = 0 THEN start
                              ELSE s[i - 1] \cup UNION {leads[x] : x \in s[i - 1]}]
    BY <1>2 DEF Grows
  <2> DEFINE R(i) == IF i = 0 THEN start ELSE s[i - 1] \cup UNION {leads[x] : x \in s[i - 1]}
             Q(i) == IF i = 0 THEN start
                     ELSE s[i - 1] \cup UNION {Targets(p, c, x) : x \in s[i - 1]}
  <2>2. ASSUME NEW i \in Nat PROVE R(i) = Q(i)
    <3>1. i # 0 => s[i - 1] \subseteq U
      BY <2>1
    <3> QED
      BY <3>1
  <2> HIDE DEF U, start, leads
  <2> QED
    BY <2>1, <2>2
<1>4. Made(h)
  <2> HIDE DEF Made
  <2> QED
    BY <1>3, Zenon
<1>5. Source(p, c, m) = h[N]
  BY DEF Source, Closure, Targets, Target
<1> HIDE DEF h
<1> DEFINE T == {i \in Nat : h[i] = s[i]}
<1>6. 0 \in T
  BY <1>3, <1>4
<1>7. ASSUME NEW i \in Nat, i \in T PROVE i + 1 \in T
  <2>1. i + 1 \in Nat /\ i + 1 # 0 /\ (i + 1) - 1 = i
    OBVIOUS
  <2>2. h[i + 1] = h[i] \cup UNION {Targets(p, c, x) : x \in h[i]}
    BY <1>4, <2>1
  <2>3. s[i + 1] = s[i] \cup UNION {Targets(p, c, x) : x \in s[i]}
    BY <1>3, <2>1
  <2> QED
    BY <1>7, <2>1, <2>2, <2>3
<1>8. \A i \in Nat : i \in T
  <2> HIDE DEF T
  <2> QED
    BY <1>6, <1>7, NatInduct
<1>9. h[N] = s[N]
  BY <1>8, BodiesFinite
<1> QED
  BY <1>2, <1>5, <1>9

\* Code that fits runs, of each call, the bodies the source says.
LEMMA FittingDispatches ==
    ASSUME NEW p, ClassTable(p), Accepted(p), NEW code, CodeFits(p, code),
           NEW c \in Classes(p), NEW m \in DOMAIN AllMethods(p, c)
    PROVE  Called(p, code, c, m) = Source(p, c, m)
<1> DEFINE U == Live(p, c)
           b0 == <<Method(p, c, m), m>>
           N == Cardinality(Bodies(p))
           Leads(r) == {IF k.via = "this" THEN Call(code, c, k.name)
                        ELSE Enter(code, c, k.owner, k.name) : k \in r.calls}
           Made(f) == f = [i \in Nat |-> IF i = 0 THEN {Call(code, c, m)}
                              ELSE f[i - 1] \cup UNION {Leads(r) : r \in f[i - 1]}]
           h == CHOOSE f : Made(f)
<1>1. Call(code, c, m) = Ran(p, b0) /\ b0 \in U
  BY CallRuns
<1>2. PICK s : /\ Grows(s, U, {b0}, [b \in U |-> Targets(p, c, b)])
               /\ Source(p, c, m) = s[N]
  BY <1>1, SourceLevels
<1>3. /\ s[0] = {b0} /\ \A n \in Nat : s[n] \subseteq U
      /\ \A n \in Nat : s[n + 1] = s[n] \cup UNION {Targets(p, c, b) : b \in s[n]}
  <2> DEFINE leads == [b \in U |-> Targets(p, c, b)]
  <2>1. /\ s[0] = {b0} /\ \A n \in Nat : s[n] \subseteq U
        /\ \A n \in Nat : s[n + 1] = s[n] \cup UNION {leads[b] : b \in s[n]}
    <3> HIDE DEF U, b0, leads
    <3>1. Grows(s, U, {b0}, leads)
      BY <1>2 DEF leads
    <3> QED
      BY <3>1, GrowthStep
  <2>2. ASSUME NEW n \in Nat
        PROVE  s[n + 1] = s[n] \cup UNION {Targets(p, c, b) : b \in s[n]}
    <3>1. s[n] \subseteq U
      BY <2>1
    <3>2. \A b \in s[n] : leads[b] = Targets(p, c, b)
      BY <3>1
    <3> HIDE DEF leads, U
    <3> QED
      BY <2>1, <3>2
  <2> QED
    BY <2>1, <2>2
<1>4. \A b \in U : Leads(Ran(p, b)) = {Ran(p, t) : t \in Targets(p, c, b)}
  BY RanLeads
<1> DEFINE Image(n) == {Ran(p, b) : b \in s[n]}
           g == [n \in Nat |-> Image(n)]
<1> HIDE DEF Leads
<1>5. ASSUME NEW n \in Nat PROVE Image(n + 1) = Image(n) \cup UNION {Leads(r) : r \in Image(n)}
  <2>1. UNION {Leads(r) : r \in Image(n)} = UNION {Leads(Ran(p, b)) : b \in s[n]}
    OBVIOUS
  <2>2. UNION {Leads(Ran(p, b)) : b \in s[n]} =
           UNION {{Ran(p, t) : t \in Targets(p, c, b)} : b \in s[n]}
    <3>1. \A b \in s[n] : Leads(Ran(p, b)) = {Ran(p, t) : t \in Targets(p, c, b)}
      BY <1>3, <1>4
    <3> QED
      BY <3>1
  <2>3. Image(n + 1) =
           Image(n) \cup UNION {{Ran(p, t) : t \in Targets(p, c, b)} : b \in s[n]}
    BY <1>3
  <2> QED
    BY <2>1, <2>2, <2>3
<1>6. Image(0) = {Call(code, c, m)}
  BY <1>1, <1>3
<1>7. Made(g)
  <2> DEFINE Q(i) == IF i = 0 THEN {Call(code, c, m)}
                     ELSE g[i - 1] \cup UNION {Leads(r) : r \in g[i - 1]}
  <2>1. ASSUME NEW i \in Nat PROVE Image(i) = Q(i)
    <3>1. CASE i = 0
      BY <1>6, <3>1
    <3>2. CASE i # 0
      <4>1. i - 1 \in Nat /\ (i - 1) + 1 = i
        BY <3>2
      <4>2. Image(i) = Image(i - 1) \cup UNION {Leads(r) : r \in Image(i - 1)}
        BY <1>5, <4>1
      <4>3. g[i - 1] = Image(i - 1)
        BY <4>1
      <4> HIDE DEF Image, g
      <4> QED
        BY <3>2, <4>2, <4>3
    <3> QED
      BY <3>1, <3>2
  <2> QED
    BY <2>1
<1>8. Made(h)
  <2> HIDE DEF Made
  <2> QED
    BY <1>7, Zenon
<1>9. Called(p, code, c, m) = {r.body : r \in h[N]}
  BY DEF Called, Closure, Leads
<1> HIDE DEF h
<1> DEFINE T == {i \in Nat : h[i] = Image(i)}
<1>10. 0 \in T
  BY <1>6, <1>8
<1>11. ASSUME NEW i \in Nat, i \in T PROVE i + 1 \in T
  <2>1. i + 1 \in Nat /\ i + 1 # 0 /\ (i + 1) - 1 = i
    OBVIOUS
  <2>2. h[i + 1] = h[i] \cup UNION {Leads(r) : r \in h[i]}
    BY <1>8, <2>1
  <2> QED
    BY <1>5, <1>11, <2>1, <2>2
<1>12. \A i \in Nat : i \in T
  <2> HIDE DEF T
  <2> QED
    BY <1>10, <1>11, NatInduct
<1>13. N \in Nat /\ h[N] = Image(N)
  BY <1>12, BodiesFinite
<1>14. {r.body : r \in Image(N)} = {Ran(p, b).body : b \in s[N]}
  OBVIOUS
<1>15. \A b \in s[N] : Ran(p, b).body = b
  <2>1. s[N] \subseteq U
    BY <1>3, <1>13
  <2>2. ASSUME NEW b \in U PROVE Ran(p, b).body = b
    <3>1. b = <<b[1], b[2]>>
      BY LiveBody
    <3> QED
      BY <3>1 DEF Ran, Run
  <2> QED
    BY <2>1, <2>2
<1>16. {Ran(p, b).body : b \in s[N]} = s[N]
  BY <1>15
<1> HIDE DEF Image, g, T, N
<1> QED
  BY <1>2, <1>9, <1>13, <1>14, <1>16

\* Whichever copies and exact bodies the code of a project has, as long as they are those
\* that ClassFits lets it have: a call runs what the source says.
THEOREM FittingCodeDispatches ==
    ASSUME NEW p, ClassTable(p), Accepted(p), NEW code, CodeFits(p, code)
    PROVE  DispatchPreserved(p, code)
BY FittingDispatches DEF DispatchPreserved


-----------------------------------------------------------------------------
(* The semantic cache.                                                     *)

vars == <<project, published, current>>

-----------------------------------------------------------------------------
(* The sources stay those of a project.                                    *)

ProjectInv == IsProject(project)

\* The project is one that the parser can produce, at first,
LEMMA ProjectInitially == Init => IsProject(project)
BY SourcesAssumption DEF Init

\* after a class is saved,
LEMMA SavedProject ==
    ASSUME NEW save \in Saves, IsProject(project), SaveClass(save[1], save[2])
    PROVE  IsProject(project')
<1> DEFINE c == save[1]
           decl == save[2]
           C == DOMAIN project.classes
           classes == [d \in C \cup {c} |-> IF d = c THEN decl ELSE project.classes[d]]
<1>1. project' = [imports |-> project.imports, classes |-> classes]
  BY DEF SaveClass, IsProject
<1>2. c # Nowhere /\ WellFormed(decl) /\ Namespace(c) \in Namespaces(project)
  BY SourcesAssumption DEF SaveClass
<1>3. IsFiniteSet(C \cup {c})
  BY FS_AddElement DEF IsProject, ClassTable
<1>4. ClassTable(project')
  BY <1>1, <1>2, <1>3 DEF IsProject, ClassTable
<1> QED
  BY <1>1, <1>2, <1>4 DEF IsProject, Namespaces

\* after one is deleted,
LEMMA DeletedProject ==
    ASSUME NEW c \in DOMAIN project.classes, IsProject(project), DeleteClass(c)
    PROVE  IsProject(project')
<1> DEFINE C == DOMAIN project.classes
           classes == [d \in C \ {c} |-> project.classes[d]]
<1>1. project' = [imports |-> project.imports, classes |-> classes]
  BY DEF DeleteClass, IsProject
<1>2. IsFiniteSet(C \ {c})
  BY FS_Subset DEF IsProject, ClassTable
<1>3. ClassTable(project')
  BY <1>1, <1>2 DEF IsProject, ClassTable
<1> QED
  BY <1>1, <1>3 DEF IsProject, Namespaces

\* after an import is redirected,
LEMMA ImportedProject ==
    ASSUME NEW ns \in Namespaces(project), NEW target \in Namespaces(project),
           NEW alias \in DOMAIN project.imports[ns],
           IsProject(project), SaveImport(ns, alias, target)
    PROVE  IsProject(project')
<1> DEFINE imports == [project.imports EXCEPT ![ns][alias] = target]
<1>1. project' = [imports |-> imports, classes |-> project.classes]
  BY DEF SaveImport, IsProject
<1>2. /\ DOMAIN imports = Namespaces(project)
      /\ imports = [m \in Namespaces(project) |->
                      [x \in DOMAIN project.imports[m] |->
                         IF m = ns /\ x = alias THEN target ELSE project.imports[m][x]]]
  BY DEF IsProject, Namespaces
<1>3. imports = [m \in DOMAIN imports |-> [x \in DOMAIN imports[m] |-> imports[m][x]]]
  BY <1>2
<1>4. \A m \in Namespaces(project) : Range(imports[m]) \subseteq Namespaces(project)
  <2>1. \A m \in Namespaces(project) : Range(project.imports[m]) \subseteq Namespaces(project)
    BY DEF IsProject
  <2> QED
    BY <1>2, <2>1 DEF Range
<1>5. ClassTable(project')
  BY <1>1 DEF IsProject, ClassTable
<1> HIDE DEF imports
<1> QED
  BY <1>1, <1>2, <1>3, <1>4, <1>5 DEF IsProject, Namespaces

\* and so after every step.
LEMMA ProjectKept ==
    ASSUME IsProject(project), [Next]_vars
    PROVE  IsProject(project')
<1>1. CASE \E save \in Saves : SaveClass(save[1], save[2])
  BY <1>1, SavedProject
<1>2. CASE \E c \in DOMAIN project.classes : DeleteClass(c)
  BY <1>2, DeletedProject
<1>3. CASE \E ns, target \in Namespaces(project) : \E alias \in DOMAIN project.imports[ns] :
              SaveImport(ns, alias, target)
  BY <1>3, ImportedProject
<1>4. CASE \E lost \in SUBSET Namespaces(project) : Build(lost)
  BY <1>4 DEF Build
<1>5. CASE UNCHANGED vars
  BY <1>5 DEF vars
<1> QED
  BY <1>1, <1>2, <1>3, <1>4, <1>5 DEF Next, Edit

\* However the project is edited: if its hierarchy is accepted, every object may stand for
\* its ancestors.
THEOREM Hierarchies == Spec => []HierarchySound
<1>1. Init => ProjectInv
  BY ProjectInitially DEF ProjectInv
<1>2. ProjectInv /\ [Next]_vars => ProjectInv'
  BY ProjectKept DEF ProjectInv
<1>3. ProjectInv => HierarchySound
  BY AcceptedIsSubstitutable DEF ProjectInv, IsProject, HierarchySound
<1> QED
  BY <1>1, <1>2, <1>3, PTL DEF Spec, vars

-----------------------------------------------------------------------------
(* The namespaces whose code is used again.                                *)

\* Rounds of Reused.
Narrows(f, p, kept) ==
    f = [n \in Nat |-> IF n = 0 THEN kept ELSE f[n - 1] \ UNION Split(p, f[n - 1])]

\* The rounds that drop what is not reused are a function of their number.
LEMMA RoundsExist ==
    ASSUME NEW p, NEW kept
    PROVE  \E f : f \in [Nat -> SUBSET kept] /\ Narrows(f, p, kept)
<1> DEFINE S == SUBSET kept
           step == [X \in S |-> X \ UNION Split(p, X)]
<1>1. kept \in S /\ \A X \in S : step[X] \in S
  OBVIOUS
<1> HIDE DEF S, step
<1>2. PICK f : Repeats(f, S, kept, step)
  BY <1>1, Repetition
<1>3. f \in [Nat -> S] /\ f[0] = kept /\ \A n \in Nat : f[n + 1] = step[f[n]]
  BY <1>2 DEF Repeats
<1>4. ASSUME NEW n \in Nat, n # 0
      PROVE  f[n] = f[n - 1] \ UNION Split(p, f[n - 1])
  <2>1. n - 1 \in Nat /\ (n - 1) + 1 = n
    BY <1>4
  <2>2. f[n] = step[f[n - 1]] /\ f[n - 1] \in S
    BY <1>3, <2>1
  <2> QED
    BY <2>2 DEF step
<1>5. Narrows(f, p, kept)
  BY <1>3, <1>4 DEF Narrows
<1> QED
  BY <1>3, <1>5 DEF S

\* The rounds come to an end: none of the edges left has an end outside.
LEMMA ReusedSettled ==
    ASSUME NEW p, IsProject(p), NEW kept \in SUBSET Namespaces(p)
    PROVE  Reused(p, kept) \subseteq kept /\ Split(p, Reused(p, kept)) = {}
<1> DEFINE N == Cardinality(Namespaces(p))
           h == CHOOSE f : Narrows(f, p, kept)
<1>1. PICK g : g \in [Nat -> SUBSET kept] /\ Narrows(g, p, kept)
  BY RoundsExist
<1>2. Narrows(h, p, kept)
  BY <1>1, Zenon
<1>3. Reused(p, kept) = h[N]
  BY DEF Reused, Narrows
<1> HIDE DEF h
<1>4. /\ h[0] = kept
      /\ \A n \in Nat : h[n + 1] = h[n] \ UNION Split(p, h[n])
  <2>1. h[0] = kept
    BY <1>2 DEF Narrows
  <2>2. ASSUME NEW n \in Nat PROVE h[n + 1] = h[n] \ UNION Split(p, h[n])
    <3>1. n + 1 \in Nat /\ n + 1 # 0 /\ (n + 1) - 1 = n
      OBVIOUS
    <3>2. h[n + 1] = IF n + 1 = 0 THEN kept
                     ELSE h[(n + 1) - 1] \ UNION Split(p, h[(n + 1) - 1])
      BY <1>2, <3>1 DEF Narrows
    <3> QED
      BY <3>1, <3>2
  <2> QED
    BY <2>1, <2>2
<1>5. IsFiniteSet(Namespaces(p)) /\ N \in Nat /\ Cardinality(kept) <= N /\ IsFiniteSet(kept)
  BY FS_Subset, FS_CardinalityType DEF IsProject
<1> DEFINE T1 == {n \in Nat : h[n] \subseteq kept}
<1>6. \A n \in Nat : h[n] \subseteq kept
  <2>1. 0 \in T1
    BY <1>4
  <2>2. ASSUME NEW n \in Nat, n \in T1 PROVE n + 1 \in T1
    BY <1>4, <2>2
  <2>3. \A n \in Nat : n \in T1
    <3> HIDE DEF T1
    <3> QED
      BY <2>1, <2>2, NatInduct
  <2> QED
    BY <2>3
<1>7. \A n \in Nat : IsFiniteSet(h[n]) /\ Cardinality(h[n]) \in Nat
  BY <1>5, <1>6, FS_Subset, FS_CardinalityType
<1> DEFINE Settled(n) == h[n + 1] = h[n]
           T2 == {n \in Nat : Cardinality(h[n]) + n <= N \/ Settled(n)}
<1>8. 0 \in T2
  BY <1>4, <1>5, <1>7
<1>9. ASSUME NEW n \in Nat, n \in T2 PROVE n + 1 \in T2
  <2>1. n + 1 \in Nat /\ h[n + 1] = h[n] \ UNION Split(p, h[n])
        /\ h[(n + 1) + 1] = h[n + 1] \ UNION Split(p, h[n + 1])
    BY <1>4
  <2>2. CASE Settled(n)
    <3>1. h[(n + 1) + 1] = h[n] \ UNION Split(p, h[n])
      BY <2>1, <2>2
    <3> QED
      BY <2>1, <2>2, <3>1
  <2>3. CASE ~Settled(n)
    <3>1. h[n + 1] \subseteq h[n] /\ h[n + 1] # h[n]
      BY <2>1, <2>3
    <3>2. Cardinality(h[n + 1]) < Cardinality(h[n])
      BY <1>7, <3>1, FS_Subset
    <3>3. Cardinality(h[n]) + n <= N
      BY <1>9, <2>3
    <3>4. Cardinality(h[n + 1]) + (n + 1) <= N
      <4> HIDE DEF N
      <4>1. Cardinality(h[n]) \in Nat /\ Cardinality(h[n + 1]) \in Nat
        BY <1>7, <2>1
      <4> QED
        BY <1>5, <3>2, <3>3, <4>1
    <3> QED
      BY <2>1, <3>4
  <2> QED
    BY <2>2, <2>3
<1>10. N \in T2
  <2>1. \A n \in Nat : n \in T2
    <3> HIDE DEF T2
    <3> QED
      BY <1>8, <1>9, NatInduct
  <2> QED
    BY <1>5, <2>1
<1>11. Settled(N)
  <2> SUFFICES ASSUME Cardinality(h[N]) + N <= N PROVE Settled(N)
    BY <1>10
  <2>1. Cardinality(h[N]) = 0
    <3>1. Cardinality(h[N]) \in Nat
      BY <1>5, <1>7
    <3> HIDE DEF N
    <3> QED
      BY <1>5, <3>1
  <2>2. h[N] = {}
    BY <1>5, <1>7, <2>1, FS_EmptySet
  <2>3. h[N + 1] = h[N] \ UNION Split(p, h[N])
    BY <1>4, <1>5
  <2> QED
    BY <2>2, <2>3
<1>12. h[N] = h[N] \ UNION Split(p, h[N])
  BY <1>4, <1>5, <1>11
<1>13. ASSUME NEW e \in Split(p, h[N]) PROVE FALSE
  BY <1>12, <1>13 DEF Split
<1>14. h[N] \subseteq kept
  BY <1>5, <1>6
<1> QED
  BY <1>3, <1>13, <1>14

\* A namespace's own sources are among those its key covers.
LEMMA ReachedSelf ==
    ASSUME NEW p, IsProject(p), NEW ns \in Namespaces(p)
    PROVE  ns \in Reached(p, ns)
<1> DEFINE U == Namespaces(p)
           N == Cardinality(U)
           leads == [m \in U |-> Range(p.imports[m])]
           Made(f) == f = [i \in Nat |-> IF i = 0 THEN {ns}
                              ELSE f[i - 1] \cup UNION {Range(p.imports[m]) : m \in f[i - 1]}]
           h == CHOOSE f : Made(f)
<1>1. PICK g : Grows(g, U, {ns}, leads)
  <2>1. leads \in [U -> SUBSET U] /\ {ns} \in SUBSET U
    BY DEF IsProject
  <2> HIDE DEF U, leads
  <2> QED
    BY <2>1, GrowthExists
<1>2. Made(g)
  <2>1. /\ g \in [Nat -> SUBSET U]
        /\ g = [i \in Nat |-> IF i = 0 THEN {ns}
                              ELSE g[i - 1] \cup UNION {leads[x] : x \in g[i - 1]}]
    BY <1>1 DEF Grows
  <2> DEFINE R(i) == IF i = 0 THEN {ns} ELSE g[i - 1] \cup UNION {leads[x] : x \in g[i - 1]}
             Q(i) == IF i = 0 THEN {ns}
                     ELSE g[i - 1] \cup UNION {Range(p.imports[m]) : m \in g[i - 1]}
  <2>2. ASSUME NEW i \in Nat PROVE R(i) = Q(i)
    <3>1. i # 0 => g[i - 1] \subseteq U
      BY <2>1
    <3> QED
      BY <3>1
  <2> HIDE DEF U, leads
  <2> QED
    BY <2>1, <2>2
<1>3. Made(h)
  <2> HIDE DEF Made
  <2> QED
    BY <1>2, Zenon
<1>4. Reached(p, ns) = h[N]
  BY DEF Reached, Closure
<1> HIDE DEF h
<1> DEFINE T == {i \in Nat : ns \in h[i]}
<1>5. 0 \in T
  BY <1>3
<1>6. ASSUME NEW i \in Nat, i \in T PROVE i + 1 \in T
  <2>1. i + 1 \in Nat /\ i + 1 # 0 /\ (i + 1) - 1 = i
    OBVIOUS
  <2>2. h[i + 1] = h[i] \cup UNION {Range(p.imports[m]) : m \in h[i]}
    BY <1>3, <2>1
  <2> QED
    BY <1>6, <2>1, <2>2
<1>7. \A i \in Nat : i \in T
  <2> HIDE DEF T
  <2> QED
    BY <1>5, <1>6, NatInduct
<1>8. N \in Nat
  BY FS_CardinalityType DEF IsProject
<1> QED
  BY <1>4, <1>7, <1>8

\* What two projects have in common if a namespace has the same key in both.
SameNamespace(p, q, ns) ==
    /\ DOMAIN p.classes = DOMAIN q.classes
    /\ \A c \in DOMAIN p.classes : Namespace(c) = ns =>
          p.classes[c] = q.classes[c] /\ Parent(p, c) = Parent(q, c)

\* Equal keys mean equal declarations, parents and imports in the namespace itself.
LEMMA KeyCovers ==
    ASSUME NEW p, IsProject(p), NEW q, IsProject(q), NEW ns \in Namespaces(p),
           Key(p, ns) = Key(q, ns)
    PROVE  SameNamespace(p, q, ns)
<1>1. /\ Graph(p) = Graph(q)
      /\ [m \in Reached(p, ns) |-> <<p.imports[m], Own(p, m)>>] =
            [m \in Reached(q, ns) |-> <<q.imports[m], Own(q, m)>>]
  BY DEF Key
<1>2. DOMAIN p.classes = DOMAIN q.classes
  <2>1. DOMAIN Graph(p) = DOMAIN p.classes /\ DOMAIN Graph(q) = DOMAIN q.classes
    BY DEF Graph
  <2> QED
    BY <1>1, <2>1
<1>3. ns \in Reached(p, ns)
  BY ReachedSelf
<1>4. p.imports[ns] = q.imports[ns] /\ Own(p, ns) = Own(q, ns)
  <2> DEFINE f == [m \in Reached(p, ns) |-> <<p.imports[m], Own(p, m)>>]
             g == [m \in Reached(q, ns) |-> <<q.imports[m], Own(q, m)>>]
  <2>1. DOMAIN f = Reached(p, ns) /\ DOMAIN g = Reached(q, ns) /\ f = g
    BY <1>1
  <2>2. f[ns] = <<p.imports[ns], Own(p, ns)>> /\ g[ns] = <<q.imports[ns], Own(q, ns)>>
    BY <1>3, <2>1
  <2> QED
    BY <2>1, <2>2
<1>5. ASSUME NEW c \in DOMAIN p.classes, Namespace(c) = ns
      PROVE  p.classes[c] = q.classes[c]
  <2>1. Own(p, ns)[c] = p.classes[c] /\ Own(q, ns)[c] = q.classes[c]
    BY <1>2, <1>5 DEF Own
  <2> QED
    BY <1>4, <2>1
<1>6. \A ref : ClassNamed(p, ref, ns) = ClassNamed(q, ref, ns)
  BY <1>2, <1>4 DEF ClassNamed
<1> QED
  BY <1>2, <1>5, <1>6 DEF SameNamespace, Parent

-----------------------------------------------------------------------------
(* What is the same of a class that is in such a namespace, together with  *)
(* all those its code depends on.                                          *)

Agree(p, q, R) ==
    /\ \A ns \in R : SameNamespace(p, q, ns)
    /\ Split(p, R) = {}

\* No edge leads out of the namespaces.
LEMMA EdgeInside ==
    ASSUME NEW p, NEW R, Split(p, R) = {}, NEW c \in Classes(p), Parent(p, c) # Nowhere
    PROVE  Namespace(c) \in R <=> Namespace(Parent(p, c)) \in R
<1> DEFINE e == {Namespace(c), Namespace(Parent(p, c))}
<1>1. e \in Edges(p)
  BY DEF Edges
<1>2. e \cap R # {} => e \subseteq R
  BY <1>1 DEF Split
<1> QED
  BY <1>2

\* Where two projects agree, a class is declared alike in both.
LEMMA SameDeclaration ==
    ASSUME NEW p, NEW q, NEW R, Agree(p, q, R), NEW c \in DOMAIN p.classes, Namespace(c) \in R
    PROVE  /\ c \in DOMAIN q.classes
           /\ p.classes[c] = q.classes[c] /\ Parent(p, c) = Parent(q, c)
           /\ c \in Classes(p) <=> c \in Classes(q)
<1>1. /\ DOMAIN p.classes = DOMAIN q.classes
      /\ p.classes[c] = q.classes[c] /\ Parent(p, c) = Parent(q, c)
  BY DEF Agree, SameNamespace
<1> QED
  BY <1>1 DEF Classes

\* Its ancestors are there, and its methods are the same.
LEMMA SameMethods ==
    ASSUME NEW p, ClassTable(p), Accepted(p), NEW q, ClassTable(q), Accepted(q),
           NEW R, Agree(p, q, R), NEW c \in Classes(p), Namespace(c) \in R
    PROVE  /\ \A a \in Ancestors(p, c) : Namespace(a) \in R
           /\ AllMethods(p, c) = AllMethods(q, c)
           /\ \A m : Method(p, c, m) = Method(q, c, m)
<1> DEFINE C == DOMAIN p.classes
           Same(d) == /\ \A a \in Ancestors(p, d) : Namespace(a) \in R
                      /\ AllMethods(p, d) = AllMethods(q, d)
                      /\ \A m : Method(p, d, m) = Method(q, d, m)
           S == {d \in C : d \in Classes(p) /\ Namespace(d) \in R => Same(d)}
<1>1. Acyclic(p) /\ ParentsKnown(p) /\ Acyclic(q)
  BY AcceptedShape
<1>2. Same(Nowhere)
  BY <1>1, AncestorsWalk, AllMethodsWalk, MethodWalk
<1>3. ASSUME NEW d \in C, Parent(p, d) \in S \cup {Nowhere},
             d \in Classes(p), Namespace(d) \in R
      PROVE  Same(d)
  <2> DEFINE a == Parent(p, d)
  <2>1. Same(a)
    <3>1. CASE a = Nowhere
      BY <1>2, <3>1
    <3>2. CASE a # Nowhere
      <4>1. a \in Classes(p)
        BY <1>1, <3>2, ArgumentsFit DEF Classes
      <4>2. Namespace(a) \in R
        BY <1>3, <3>2, EdgeInside DEF Agree
      <4> QED
        BY <1>3, <3>2, <4>1, <4>2
    <3> QED
      BY <3>1, <3>2
  <2>2. d \in DOMAIN q.classes /\ p.classes[d] = q.classes[d] /\ a = Parent(q, d)
    BY <1>3, SameDeclaration
  <2>3. \A b \in Ancestors(p, d) : Namespace(b) \in R
    BY <1>1, <1>3, <2>1, AncestorsWalk
  <2>4. \A m : Declares(p, d, m) <=> Declares(q, d, m)
    BY <2>2 DEF Declares
  <2>5. \A m : Method(p, d, m) = Method(q, d, m)
    <3> TAKE m
    <3>1. Method(p, d, m) = IF Declares(p, d, m) THEN d ELSE Method(p, a, m)
      BY <1>1, MethodWalk
    <3>2. Method(q, d, m) = IF Declares(q, d, m) THEN d ELSE Method(q, a, m)
      BY <1>1, <2>2, MethodWalk
    <3> QED
      BY <2>1, <2>4, <3>1, <3>2
  <2>6. AllMethods(p, d) = AllMethods(q, d)
    <3> DEFINE above == AllMethods(p, a)
    <3>1. AllMethods(p, d) = WithOwn(p, d, above)
      BY <1>1, AllMethodsWalk
    <3>2. AllMethods(q, d) = WithOwn(q, d, above)
      BY <1>1, <2>1, <2>2, AllMethodsWalk
    <3> HIDE DEF above
    <3>3. WithOwn(p, d, above) = WithOwn(q, d, above)
      BY <2>2 DEF WithOwn, Declares
    <3> QED
      BY <3>1, <3>2, <3>3
  <2> QED
    BY <2>3, <2>5, <2>6
<1> HIDE DEF Same
<1>4. \A d \in C : Parent(p, d) \in S \cup {Nowhere} => d \in S
  BY <1>3
<1>5. C \subseteq S
  <2> HIDE DEF S
  <2> QED
    BY <1>1, <1>4, ClassInduct
<1>6. Same(c)
  BY <1>5 DEF Classes
<1> QED
  BY <1>6 DEF Same

\* Where two projects agree, a method calls the same in both.
LEMMA SameCalls ==
    ASSUME NEW p, ClassTable(p), Accepted(p), NEW q, ClassTable(q), Accepted(q),
           NEW R, Agree(p, q, R), NEW c \in Classes(p), Namespace(c) \in R, NEW m
    PROVE  Calls(p, c, m) = Calls(q, c, m)
<1> DEFINE a == Parent(p, c)
<1>1. Acyclic(p) /\ ParentsKnown(p) /\ Acyclic(q)
  BY AcceptedShape
<1>2. c \in DOMAIN p.classes /\ p.classes[c] = q.classes[c] /\ a = Parent(q, c)
  BY SameDeclaration DEF Classes
<1>3. \A n : Method(p, a, n) = Method(q, a, n)
  <2>1. CASE a = Nowhere
    BY <1>1, <2>1, MethodWalk
  <2>2. CASE a # Nowhere
    <3>1. a \in Classes(p)
      BY <1>1, <1>2, <2>2, ArgumentsFit DEF Classes
    <3>2. Namespace(a) \in R
      BY <2>2, EdgeInside DEF Agree
    <3> QED
      BY <3>1, <3>2, SameMethods
  <2> QED
    BY <2>1, <2>2
<1>4. \A k : Bound(p, c, k) = Bound(q, c, k)
  BY <1>2, <1>3 DEF Bound
<1> QED
  BY <1>2, <1>4 DEF Calls, Decl

\* So its code fits in the other project too.
LEMMA SameFit ==
    ASSUME NEW p, ClassTable(p), Accepted(p), NEW q, ClassTable(q), Accepted(q),
           NEW R, Agree(p, q, R), NEW c \in Classes(p), Namespace(c) \in R,
           NEW made, ClassFits(q, c, made)
    PROVE  ClassFits(p, c, made)
<1>1. c \in DOMAIN p.classes /\ Acyclic(p)
  BY AcceptedShape DEF Classes
<1>2. p.classes[c] = q.classes[c] /\ AllMethods(p, c) = AllMethods(q, c)
  BY <1>1, SameDeclaration, SameMethods
<1>3. ASSUME NEW m \in DOMAIN AllMethods(p, c)
      PROVE  Calls(p, AllMethods(p, c)[m], m) = Calls(q, AllMethods(p, c)[m], m)
  <2>1. AllMethods(p, c)[m] \in Ancestors(p, c)
    BY <1>1, Owners
  <2>2. AllMethods(p, c)[m] \in Classes(p) /\ Namespace(AllMethods(p, c)[m]) \in R
    BY <2>1, AncestorIsClass, SameMethods
  <2> QED
    BY <2>2, SameCalls
<1>4. \A m : Calls(p, c, m) = Calls(q, c, m)
  BY SameCalls
<1>5. c \in Parents(p) => c \in Parents(q)
  <2> SUFFICES ASSUME NEW d \in Classes(p), Parent(p, d) = c PROVE c \in Parents(q)
    BY DEF Parents
  <2>1. c # Nowhere
    BY <1>1 DEF ClassTable
  <2>2. Namespace(d) \in R
    BY <2>1, EdgeInside DEF Agree
  <2>3. d \in Classes(q) /\ Parent(q, d) = c
    BY <2>2, SameDeclaration DEF Classes
  <2> QED
    BY <2>3 DEF Parents
<1>6. /\ DOMAIN made.wrappers = DOMAIN AllMethods(p, c)
      /\ \A m \in DOMAIN AllMethods(p, c) :
            LET w == made.wrappers[m] IN
            /\ w.copy \in BOOLEAN
            /\ w.owner = AllMethods(p, c)[m]
            /\ w.copy => /\ w.kind # "rebinds"
                         /\ w.kind = "hidden" => Namespace(w.owner) = Namespace(c)
                         /\ w.calls = Calls(p, w.owner, m)
  BY <1>2, <1>3 DEF ClassFits
<1>7. /\ DOMAIN made.bodies = DOMAIN p.classes[c].methods
      /\ \A m \in DOMAIN p.classes[c].methods :
            LET body == made.bodies[m] IN
            /\ body.exact \in BOOLEAN
            /\ body.exact => c \notin Parents(p) /\ body.kind # "rebinds"
            /\ body.calls = Calls(p, c, m)
  BY <1>2, <1>4, <1>5 DEF ClassFits
<1> QED
  BY <1>6, <1>7 DEF ClassFits

\* New code fits.
LEMMA NewFits ==
    ASSUME NEW p, NEW ns, NEW reused, NEW c \in Classes(p), Namespace(c) = ns
    PROVE  ClassFits(p, c, Code(p, ns, reused)[c])
<1> DEFINE all == AllMethods(p, c)
           made == [wrappers |-> [m \in DOMAIN all |-> Wrapper(p, c, all[m], m, reused)],
                    bodies |-> [m \in DOMAIN p.classes[c].methods |-> Body(p, c, m)]]
<1>1. Code(p, ns, reused)[c] = made
  BY DEF Code
<1>2. ASSUME NEW m \in DOMAIN all
      PROVE  LET w == made.wrappers[m] IN
             /\ w.copy \in BOOLEAN
             /\ w.owner = all[m]
             /\ w.copy => /\ w.kind # "rebinds"
                          /\ w.kind = "hidden" => Namespace(w.owner) = Namespace(c)
                          /\ w.calls = Calls(p, w.owner, m)
  <2>1. made.wrappers[m] = Wrapper(p, c, all[m], m, reused)
    OBVIOUS
  <2> HIDE DEF made, all
  <2>2. CASE Copied(p, c, all[m], m, reused)
    BY <2>1, <2>2 DEF Wrapper, Copied, Specializable, Movable
  <2>3. CASE ~Copied(p, c, all[m], m, reused)
    BY <2>1, <2>3 DEF Wrapper
  <2> QED
    BY <2>2, <2>3
<1>3. ASSUME NEW m \in DOMAIN p.classes[c].methods
      PROVE  LET body == made.bodies[m] IN
             /\ body.exact \in BOOLEAN
             /\ body.exact => c \notin Parents(p) /\ body.kind # "rebinds"
             /\ body.calls = Calls(p, c, m)
  BY DEF Body, Exact, Specializable
<1>4. DOMAIN made.wrappers = DOMAIN all /\ DOMAIN made.bodies = DOMAIN p.classes[c].methods
  OBVIOUS
<1> HIDE DEF made
<1> QED
  BY <1>1, <1>2, <1>3, <1>4 DEF ClassFits

-----------------------------------------------------------------------------
(* Builds.                                                                 *)

\* What a build of the project p publishes.
Built(p, old) ==
    /\ IsProject(p) /\ Accepted(p)
    /\ old.keys = Keys(p)
    /\ DOMAIN old.code = Namespaces(p)
    /\ \A ns \in Namespaces(p) :
          /\ DOMAIN old.code[ns] = {c \in Classes(p) : Namespace(c) = ns}
          /\ \A c \in DOMAIN old.code[ns] : ClassFits(p, c, old.code[ns][c])

\* Code that is kept from a build of q is code of p.
LEMMA ReusedFits ==
    ASSUME NEW p, IsProject(p), Accepted(p), NEW q, NEW old, Built(q, old),
           NEW lost, NEW ns \in Reused(p, Kept(p, old, lost))
    PROVE  /\ ns \in DOMAIN old.code
           /\ DOMAIN old.code[ns] = {c \in Classes(p) : Namespace(c) = ns}
           /\ \A c \in DOMAIN old.code[ns] : ClassFits(p, c, old.code[ns][c])
<1> DEFINE R == Reused(p, Kept(p, old, lost))
<1>1. Kept(p, old, lost) \subseteq Namespaces(p)
  BY DEF Kept
<1>2. R \subseteq Kept(p, old, lost) /\ Split(p, R) = {}
  BY <1>1, ReusedSettled
<1>3. ASSUME NEW m \in R PROVE m \in Namespaces(q) /\ SameNamespace(p, q, m)
  <2>1. m \in Namespaces(p) /\ m \in DOMAIN old.keys /\ old.keys[m] = Key(p, m)
    BY <1>2 DEF Kept
  <2>2. m \in Namespaces(q) /\ Key(p, m) = Key(q, m)
    BY <2>1 DEF Built, Keys
  <2> QED
    BY <2>1, <2>2, KeyCovers DEF Built
<1>4. Agree(p, q, R)
  BY <1>2, <1>3 DEF Agree
<1>5. ns \in R /\ ns \in Namespaces(q)
  BY <1>3
<1> HIDE DEF R
<1>6. ClassTable(p) /\ ClassTable(q) /\ Accepted(q)
  BY DEF IsProject, Built
<1>7. {c \in Classes(p) : Namespace(c) = ns} = {c \in Classes(q) : Namespace(c) = ns}
  BY <1>4, <1>5 DEF Agree, SameNamespace, Classes
<1>8. DOMAIN old.code[ns] = {c \in Classes(p) : Namespace(c) = ns}
  BY <1>5, <1>7 DEF Built
<1>9. ASSUME NEW c \in DOMAIN old.code[ns] PROVE ClassFits(p, c, old.code[ns][c])
  <2>1. ClassFits(q, c, old.code[ns][c])
    BY <1>5 DEF Built
  <2>2. c \in Classes(p) /\ Namespace(c) \in R
    BY <1>5, <1>8
  <2> QED
    BY <1>4, <1>6, <2>1, <2>2, SameFit
<1> QED
  BY <1>5, <1>8, <1>9 DEF Built

\* A build publishes what fits the project, whatever was published before.
LEMMA BuildFits ==
    ASSUME NEW p, IsProject(p), Accepted(p), NEW old, NEW lost,
           old = Nothing \/ \E q : Built(q, old)
    PROVE  Built(p, [keys |-> Keys(p), code |-> Lowered(p, old, Reused(p, Kept(p, old, lost)))])
<1> DEFINE R == Reused(p, Kept(p, old, lost))
           code == Lowered(p, old, R)
<1>1. ASSUME NEW ns \in R
      PROVE  /\ DOMAIN old.code[ns] = {c \in Classes(p) : Namespace(c) = ns}
             /\ \A c \in DOMAIN old.code[ns] : ClassFits(p, c, old.code[ns][c])
  <2>1. CASE old = Nothing
    <3>1. Kept(p, old, lost) = {}
      BY <2>1 DEF Kept, Nothing
    <3>2. R \subseteq {}
      BY <3>1, ReusedSettled
    <3> QED
      BY <3>2
  <2>2. CASE \E q : Built(q, old)
    BY <2>2, ReusedFits
  <2> QED
    BY <2>1, <2>2
<1> HIDE DEF R
<1>2. ASSUME NEW ns \in Namespaces(p)
      PROVE  /\ DOMAIN code[ns] = {c \in Classes(p) : Namespace(c) = ns}
             /\ \A c \in DOMAIN code[ns] : ClassFits(p, c, code[ns][c])
  <2>1. CASE ns \in R
    <3>1. code[ns] = old.code[ns]
      BY <2>1 DEF Lowered
    <3> QED
      BY <1>1, <2>1, <3>1
  <2>2. CASE ns \notin R
    <3>1. code[ns] = Code(p, ns, R)
      BY <2>2 DEF Lowered
    <3>2. DOMAIN Code(p, ns, R) = {c \in Classes(p) : Namespace(c) = ns}
      BY DEF Code
    <3> QED
      BY <3>1, <3>2, NewFits
  <2> QED
    BY <2>1, <2>2
<1>3. DOMAIN code = Namespaces(p)
  BY DEF Lowered
<1> HIDE DEF code
<1> QED
  BY <1>2, <1>3 DEF Built, R, code

\* The code that is linked fits the project it was built from.
LEMMA LinkedFits ==
    ASSUME NEW p, NEW old, Built(p, old)
    PROVE  CodeFits(p, Linked(old.code))
<1> DEFINE all == UNION {DOMAIN old.code[ns] : ns \in DOMAIN old.code}
<1>1. /\ DOMAIN old.code = Namespaces(p)
      /\ \A ns \in Namespaces(p) :
            /\ DOMAIN old.code[ns] = {c \in Classes(p) : Namespace(c) = ns}
            /\ \A c \in DOMAIN old.code[ns] : ClassFits(p, c, old.code[ns][c])
      /\ \A c \in Classes(p) : Namespace(c) \in Namespaces(p)
  BY DEF Built, IsProject, Classes
<1>2. all = Classes(p)
  BY <1>1
<1>3. /\ DOMAIN Linked(old.code) = Classes(p)
      /\ \A c \in Classes(p) : Linked(old.code)[c] = old.code[Namespace(c)][c]
  BY <1>2 DEF Linked
<1> QED
  BY <1>1, <1>3 DEF CodeFits

-----------------------------------------------------------------------------
(* The invariant: what is published was built from a project that was      *)
(* accepted, and from the present one if nothing was edited since.         *)

CacheInv ==
    /\ IsProject(project)
    /\ published = Nothing \/ \E q : Built(q, published)
    /\ current => Built(project, published)

\* The invariant of the cache holds at first.
LEMMA CacheInitially == Init => CacheInv
BY ProjectInitially DEF Init, CacheInv

\* Every edit, build and loss of files keeps it.
LEMMA CacheKept ==
    ASSUME CacheInv, [Next]_vars
    PROVE  CacheInv'
<1>1. IsProject(project')
  BY ProjectKept DEF CacheInv
<1>2. CASE Edit
  <2>1. published' = published /\ current' = FALSE
    BY <1>2 DEF Edit, SaveClass, DeleteClass, SaveImport
  <2> QED
    BY <1>1, <2>1 DEF CacheInv
<1>3. ASSUME NEW lost \in SUBSET Namespaces(project), Build(lost) PROVE CacheInv'
  <2>1. PICK p, old : p = project /\ old = published
    OBVIOUS
  <2>2. IsProject(p) /\ Accepted(p) /\ (old = Nothing \/ \E q : Built(q, old))
    BY <1>3, <2>1 DEF CacheInv, Build
  <2>3. Built(p, [keys |-> Keys(p),
                  code |-> Lowered(p, old, Reused(p, Kept(p, old, lost)))])
    BY <2>2, BuildFits
  <2>4. /\ project' = p
        /\ published' = [keys |-> Keys(p),
                         code |-> Lowered(p, old, Reused(p, Kept(p, old, lost)))]
    BY <1>3, <2>1 DEF Build
  <2> QED
    BY <1>1, <2>3, <2>4 DEF CacheInv
<1>4. CASE UNCHANGED vars
  BY <1>4 DEF CacheInv, vars
<1> QED
  BY <1>2, <1>3, <1>4 DEF Next

\* Whatever was built, edited and lost before: the code of a build, with what it uses again
\* of earlier ones, runs the bodies that the sources say.
THEOREM Reuse == Spec => []ReuseSound
<1>1. Init => CacheInv
  BY CacheInitially
<1>2. CacheInv /\ [Next]_vars => CacheInv'
  BY CacheKept
<1>3. CacheInv => ReuseSound
  <2> SUFFICES ASSUME Built(project, published)
               PROVE  DispatchPreserved(project, Linked(published.code))
    BY DEF CacheInv, ReuseSound
  <2>1. CodeFits(project, Linked(published.code))
    BY LinkedFits
  <2>2. ClassTable(project) /\ Accepted(project)
    BY DEF Built, IsProject
  <2> QED
    BY <2>1, <2>2, FittingCodeDispatches
<1> QED
  BY <1>1, <1>2, <1>3, PTL DEF Spec, vars

=============================================================================
