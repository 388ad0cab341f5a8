------------------------ MODULE ExceptionFlowProofs ------------------------
(***************************************************************************)
(* Proofs about the control-flow pass, for bodies of any size and depth.   *)
(* No induction theorem is used that takes an operator: an induction is    *)
(* over the set of the levels that a statement is true of.                 *)
(***************************************************************************)
EXTENDS ExceptionFlow, WellFoundedInduction, TLAPS

-----------------------------------------------------------------------------
(* Natural numbers.                                                        *)

\* A set of naturals that is not empty has a least element.
LEMMA LeastNat ==
    ASSUME NEW S, S \subseteq Nat, S # {}
    PROVE  \E x \in S : \A y \in S : x <= y
<1> DEFINE Less == {ss \in Nat \X Nat : ss[1] < ss[2]}
<1>1. OpToRel(<, Nat) = Less
  BY Zenon DEF OpToRel
<1>2. IsWellFoundedOn(Less, Nat)
  BY <1>1, NatLessThanWellFounded, Zenon
<1>3. PICK x \in S : \A y \in S : <<y, x>> \notin Less
  BY <1>2, WFMin, Zenon
<1>4. ASSUME NEW y \in S PROVE x <= y
  <2>1. <<y, x>> \in Nat \X Nat /\ <<y, x>>[1] = y /\ <<y, x>>[2] = x /\ <<y, x>> \notin Less
    BY <1>3
  <2>2. ~(y < x)
    BY <2>1, Zenon DEF Less
  <2> QED
    BY <2>2
<1> QED
  BY <1>4

\* Induction over the set of the numbers that a statement is true of.
LEMMA NatInduct ==
    ASSUME NEW S, 0 \in S, \A n \in Nat : n \in S => n + 1 \in S
    PROVE  \A n \in Nat : n \in S
<1> SUFFICES ASSUME Nat \ S # {} PROVE FALSE
  OBVIOUS
<1>1. PICK x \in Nat \ S : \A y \in Nat \ S : x <= y
  BY LeastNat
<1>2. x # 0 /\ x - 1 \in Nat /\ x - 1 \in S /\ (x - 1) + 1 = x
  BY <1>1
<1> QED
  BY <1>1, <1>2

-----------------------------------------------------------------------------
(* The functions that are defined level by level.                          *)

Below(f, n) == IF n = 0 THEN <<>> ELSE f[n - 1]

\* Level n of each of them, made of the level below; c is the context of a dispatch.
Level(which, c, n, below) ==
    CASE which = "statement"   -> IF n = 0 THEN Simple ELSE Simple \cup Compound(below)
      [] which = "running"     -> [x \in Statement[n] \X State |-> Do(below, x[1], x[2])]
      [] which = "lowering"    -> [x \in Statement[n] \X Context |-> Lower(below, x[1], x[2])]
      [] which = "terminating" -> [st \in Statement[n] |-> Terminates(below, st)]
      [] which = "dispatch"    -> IF n = 0 THEN Onward(c) ELSE Then(TestsFor(c, n), below)
      [] which = "flawed"      -> [x \in Statement[n] \X Scope |-> Flaws(below, x[1], x[2])]

\* A function that is defined by its levels exists.
LEMMA LevelsExist ==
    ASSUME NEW which, NEW c
    PROVE  \E f : f = [n \in Nat |-> Level(which, c, n, Below(f, n))]
<1> DEFINE Upto(h, m) == h = [n \in 0 .. m |-> Level(which, c, n, Below(h, n))]
           T == {m \in Nat : \E h : Upto(h, m)}
           H(m) == CHOOSE h : Upto(h, m)
           f == [n \in Nat |-> H(n)[n]]
<1>1. 0 \in T
  <2> DEFINE h == [n \in 0 .. 0 |-> Level(which, c, 0, <<>>)]
  <2>1. h = [n \in 0 .. 0 |-> Level(which, c, n, Below(h, n))]
    BY DEF Below
  <2> QED
    BY <2>1
<1>2. ASSUME NEW m \in Nat, m \in T PROVE m + 1 \in T
  <2>1. PICK h : Upto(h, m)
    BY <1>2
  <2> DEFINE L == Level(which, c, m + 1, h[m])
             k == [n \in 0 .. (m + 1) |-> IF n = m + 1 THEN L ELSE h[n]]
  <2> HIDE DEF L
  <2>2. ASSUME NEW n \in 0 .. (m + 1) PROVE k[n] = Level(which, c, n, Below(k, n))
    <3>1. CASE n = m + 1
      <4>1. Below(k, n) = h[m]
        BY <3>1 DEF Below
      <4> QED
        BY <3>1, <4>1 DEF L
    <3>2. CASE n # m + 1
      <4>1. n \in 0 .. m /\ k[n] = h[n]
        BY <3>2
      <4>2. Below(k, n) = Below(h, n)
        BY <4>1 DEF Below
      <4>3. h[n] = Level(which, c, n, Below(h, n))
        BY <2>1, <4>1
      <4> QED
        BY <4>1, <4>2, <4>3
    <3> QED
      BY <3>1, <3>2
  <2>3. Upto(k, m + 1)
    BY <2>2
  <2> HIDE DEF Upto, k
  <2>4. \E g : Upto(g, m + 1)
    BY <2>3, Zenon
  <2> QED
    BY <2>4
<1> HIDE DEF T
<1>3. \A m \in Nat : m \in T
  BY <1>1, <1>2, NatInduct
<1> USE DEF T
<1>4. \A m \in Nat : Upto(H(m), m)
  BY <1>3
<1> HIDE DEF H, T
<1>5. ASSUME NEW m \in Nat, NEW j \in Nat
      PROVE  \A n \in Nat : n <= m /\ n <= j => H(m)[n] = H(j)[n]
  <2> DEFINE S == {n \in Nat : n <= m /\ n <= j => H(m)[n] = H(j)[n]}
  <2>1. ASSUME NEW n \in Nat, n <= m
        PROVE  H(m)[n] = Level(which, c, n, Below(H(m), n))
    BY <1>4, <2>1
  <2>2. ASSUME NEW n \in Nat, n <= j
        PROVE  H(j)[n] = Level(which, c, n, Below(H(j), n))
    BY <1>4, <2>2
  <2>3. 0 \in S
    BY <2>1, <2>2 DEF Below
  <2>4. ASSUME NEW n \in Nat, n \in S PROVE n + 1 \in S
    <3> SUFFICES ASSUME n + 1 <= m, n + 1 <= j PROVE H(m)[n + 1] = H(j)[n + 1]
      OBVIOUS
    <3>1. Below(H(m), n + 1) = H(m)[n] /\ Below(H(j), n + 1) = H(j)[n]
      BY DEF Below
    <3>2. H(m)[n] = H(j)[n]
      BY <2>4
    <3> QED
      BY <2>1, <2>2, <3>1, <3>2
  <2> HIDE DEF S
  <2>5. \A n \in Nat : n \in S
    BY <2>3, <2>4, NatInduct
  <2> QED
    BY <2>5 DEF S
<1>6. ASSUME NEW n \in Nat PROVE f[n] = Level(which, c, n, Below(f, n))
  <2>1. H(n)[n] = Level(which, c, n, Below(H(n), n))
    BY <1>4
  <2>2. n # 0 => H(n)[n - 1] = H(n - 1)[n - 1]
    BY <1>5
  <2>3. Below(H(n), n) = Below(f, n)
    BY <2>2 DEF Below
  <2> QED
    BY <2>1, <2>3
<1>7. f = [n \in Nat |-> Level(which, c, n, Below(f, n))]
  BY <1>6
<1> QED
  BY <1>7

\* The levels of statements.
LEMMA StatementLevels ==
    /\ Statement[0] = Simple
    /\ \A n \in Nat : Statement[n + 1] = Simple \cup Compound(Statement[n])
<1> DEFINE Made(f) == f = [n \in Nat |-> IF n = 0 THEN Simple ELSE Simple \cup Compound(f[n - 1])]
           h == CHOOSE f : Made(f)
<1>1. PICK g : g = [n \in Nat |-> Level("statement", 0, n, Below(g, n))]
  BY LevelsExist
<1>2. Made(g)
  <2>1. \A n \in Nat : Level("statement", 0, n, Below(g, n)) =
                       IF n = 0 THEN Simple ELSE Simple \cup Compound(g[n - 1])
    BY DEF Level, Below
  <2> QED
    BY <1>1, <2>1
<1>3. Made(h)
  <2> HIDE DEF Made
  <2> QED
    BY <1>2, Zenon
<1>4. Statement = h
  BY DEF Statement
<1> HIDE DEF h
<1>5. \A n \in Nat : h[n] = IF n = 0 THEN Simple ELSE Simple \cup Compound(h[n - 1])
  BY <1>3
<1>6. \A n \in Nat : n + 1 \in Nat /\ n + 1 # 0 /\ (n + 1) - 1 = n
  OBVIOUS
<1>7. ASSUME NEW n \in Nat PROVE h[n + 1] = Simple \cup Compound(h[n])
  BY <1>5, <1>6
<1> QED
  BY <1>4, <1>5, <1>7

\* Each level of the execution follows the rules of Do.
LEMMA RunningLevels ==
    \A n \in Nat : \A st \in Statement[n] : \A s \in State :
        Running[n][<<st, s>>] = Do(Below(Running, n), st, s)
<1> DEFINE G(n, below) == [x \in Statement[n] \X State |-> Do(below, x[1], x[2])]
           Made(f) == f = [n \in Nat |-> G(n, IF n = 0 THEN <<>> ELSE f[n - 1])]
           h == CHOOSE f : Made(f)
<1>1. PICK g : g = [n \in Nat |-> Level("running", 0, n, Below(g, n))]
  BY ZenonT(30), LevelsExist
<1>2. Made(g)
  <2>1. \A n \in Nat : Level("running", 0, n, Below(g, n)) = G(n, IF n = 0 THEN <<>> ELSE g[n - 1])
    BY DEF Level, Below
  <2> HIDE DEF G
  <2> QED
    BY <1>1, <2>1
<1>3. Made(h)
  <2> HIDE DEF Made
  <2> QED
    BY <1>2, Zenon
<1>4. Running = h
  BY DEF Running
<1>5. \A n \in Nat : Running[n] = G(n, Below(Running, n))
  <2> HIDE DEF G, h
  <2> QED
    BY <1>3, <1>4 DEF Below
<1> QED
  BY <1>5

\* What every statement leaves as it is.
Keeps(s, r) ==
    /\ r \in State
    /\ r.named = s.named /\ r.routed = s.routed
    /\ r.shadowed = s.shadowed /\ r.iter = s.iter
    /\ s.lost => r.lost

\* A simple statement keeps types and what belongs to the blocks around it.
LEMMA SimpleKeeps ==
    ASSUME NEW run, NEW st \in Simple, NEW s \in State
    PROVE  Keeps(s, Do(run, st, s))
<1> USE DEF Kinds
<1>1. Visible(s) \in Int /\ s.slot \in Int /\ s.trace \in Seq(Printed)
      /\ s.defers \in Seq(Printed) /\ s.registered \in Seq(Printed)
  BY DEF State, Visible
<1>2. CASE st.op = "none"
  BY <1>2 DEF Do, Keeps
<1>3. CASE st.op = "emit"
  <2>1. Append(s.trace, st.id) \in Seq(Printed)
    BY <1>1, <1>3 DEF Simple
  <2> QED
    BY <1>3, <2>1 DEF Do, Keeps, State
<1>4. CASE st.op = "bump"
  <2>1. Visible(s) + 1 \in Int
    BY <1>1
  <2> HIDE DEF Visible
  <2> QED
    BY <1>4, <2>1 DEF Do, Keeps, State, SetVisible
<1>5. CASE st.op = "return"
  BY <1>5 DEF Do, Keeps, State, Simple, Returns
<1>6. CASE st.op = "branch"
  BY <1>6 DEF Do, Keeps, State, Simple, Kinds
<1>7. CASE st.op = "throw"
  BY <1>7 DEF Do, Keeps, State, Simple, Throws
<1>8. CASE st.op = "defer"
  <2>1. st.id \in Printed
    BY <1>8 DEF Simple
  <2>2. Append(s.defers, st.id) \in Seq(Printed) /\ Append(s.registered, st.id) \in Seq(Printed)
    BY <1>1, <2>1
  <2> QED
    BY <1>8, <2>2 DEF Do, Keeps, State
<1>9. CASE st.op \in {"signal", "pass", "exit"}
  BY <1>9 DEF Do, Keeps, State, Simple, Completes
<1>10. CASE st.op = "assign"
  BY ZenonT(30), <1>10 DEF Do, Keeps, State, Simple, SetVisible
<1>11. CASE st.op = "returnSlots"
  <2> HIDE DEF Visible
  <2> QED
    BY <1>1, <1>11 DEF Do, Keeps, State, Returns
<1>12. CASE st.op = "unreachable"
  <2>1. "unreachable" \in Exceptions
    BY DEF Exceptions
  <2> QED
    BY <1>12, <2>1 DEF Do, Keeps, State, Throws
<1> QED
  BY <1>2, <1>3, <1>4, <1>5, <1>6, <1>7, <1>8, <1>9, <1>10, <1>11, <1>12 DEF Simple

\* The inner statements of one.
LEMMA CompoundParts ==
    ASSUME NEW S, NEW st \in Compound(S)
    PROVE  /\ st.op \in {"then", "if", "shadow", "guarded", "loop", "switch", "catch", "test",
                          "try", "Try"}
           /\ st.op = "then" => st.first \in S /\ st.rest \in S
           /\ st.op # "then" => st.body \in S
           /\ st.op \in {"loop", "switch"} => st.label \in Label
           /\ st.op = "test" => st.code \in Nat
           /\ st.op = "catch" => st.types \in SUBSET Raised
           /\ st.op \in {"try", "Try"} => st.handler \in S /\ st.finalizer \in S
BY DEF Compound

\* What two executions keep, one after the other keeps.
LEMMA KeepsChain ==
    ASSUME NEW s, NEW r, NEW t, Keeps(s, r), Keeps(r, t)
    PROVE  Keeps(s, t)
BY DEF Keeps

\* Changes of what no statement has to keep.
LEMMA KeepsUpdates ==
    ASSUME NEW s, NEW r, Keeps(s, r)
    PROVE  /\ \A k \in Kinds : Keeps(s, [r EXCEPT !.kind = k]) /\ Keeps(s, Completes(r, k))
           /\ \A k \in Kinds : \A e \in Exceptions :
                 /\ Keeps(s, [r EXCEPT !.kind = k, !.caught = e])
                 /\ Keeps(s, [r EXCEPT !.kind = k, !.exc = e])
           /\ \A f \in Nat : Keeps(s, [r EXCEPT !.flow = f])
           /\ \A e \in Exceptions : Keeps(s, Throws(r, e))
           /\ \A d \in Seq(Printed) : Keeps(s, [r EXCEPT !.defers = d])
<1> USE DEF Keeps, State, Kinds
<1>1. \A k \in Kinds : Keeps(s, [r EXCEPT !.kind = k]) /\ Keeps(s, Completes(r, k))
  BY DEF Completes
<1>2. \A k \in Kinds : \A e \in Exceptions : Keeps(s, [r EXCEPT !.kind = k, !.caught = e])
  OBVIOUS
<1>3. \A k \in Kinds : \A e \in Exceptions : Keeps(s, [r EXCEPT !.kind = k, !.exc = e])
  OBVIOUS
<1>4. \A f \in Nat : Keeps(s, [r EXCEPT !.flow = f])
  OBVIOUS
<1>5. \A e \in Exceptions : Keeps(s, Throws(r, e))
  BY DEF Throws
<1>6. \A d \in Seq(Printed) : Keeps(s, [r EXCEPT !.defers = d])
  OBVIOUS
<1> HIDE DEF Keeps, State, Kinds
<1> QED
  BY <1>1, <1>2, <1>3, <1>4, <1>5, <1>6

Keeping(run, S) == \A st \in S : \A s \in State : Keeps(s, run[<<st, s>>])

\* The end of a try keeps it.
LEMMA FinallyKeeps ==
    ASSUME NEW S, NEW run, Keeping(run, S), NEW st, st.finalizer \in S, NEW r \in State
    PROVE  Keeps(r, Finally(run, st, r))
<1> USE DEF Kinds
<1> DEFINE f == run[<<st.finalizer, Completes(r, "next")>>]
<1>1. Keeps(r, r)
  BY DEF Keeps
<1>2. Keeps(r, Completes(r, "next"))
  BY <1>1, KeepsUpdates DEF Kinds
<1>3. Keeps(r, f)
  BY <1>2, KeepsChain DEF Keeping, Keeps
<1> HIDE DEF f
<1> QED
  BY <1>3 DEF Finally, Keeps, State, f

\* The call of a closure keeps it.
LEMMA ClosureKeeps ==
    ASSUME NEW S, NEW run, Keeping(run, S), NEW block \in S, NEW s \in State
    PROVE  Keeps(s, CallClosure(run, block, s))
<1> USE DEF Kinds
<1> DEFINE s1 == [s EXCEPT !.defers = <<>>]
           r == run[<<block, s1>>]
<1>1. <<>> \in Seq(Printed)
  OBVIOUS
<1>2. Keeps(s, s1)
  BY <1>1, KeepsUpdates DEF Keeps
<1>3. Keeps(s, r)
  BY <1>2, KeepsChain DEF Keeping, Keeps
<1> HIDE DEF r
<1>4. r.trace \o Reverse(r.defers) \in Seq(Printed)
  <2>1. r.trace \in Seq(Printed) /\ r.defers \in Seq(Printed)
    BY <1>3 DEF Keeps, State
  <2>2. Reverse(r.defers) \in Seq(Printed)
    BY <2>1 DEF Reverse
  <2> QED
    BY <2>1, <2>2
<1>5. s.defers \in Seq(Printed)
  BY DEF State
<1>6. CallClosure(run, block, s) =
        [r EXCEPT !.kind = CASE @ = "return" -> "next"
                             [] @ \in {"break", "continue"} -> "illegal"
                             [] OTHER -> @,
                  !.trace = r.trace \o Reverse(r.defers), !.defers = s.defers]
  BY DEF CallClosure, r
<1> QED
  BY ZenonT(30), <1>3, <1>4, <1>5, <1>6 DEF Keeps, State

\* The types of what an execution leaves.
LEMMA KeptTypes ==
    ASSUME NEW s, NEW r, Keeps(s, r)
    PROVE  r \in State /\ r.kind \in Kinds /\ r.exc \in Exceptions /\ r.caught \in Exceptions
BY DEF Keeps, State

\* A new shadowing variable gives a state.
LEMMA ShadowType ==
    ASSUME NEW s \in State
    PROVE  [s EXCEPT !.shadowed = TRUE, !.shadow = 0] \in State
<1>1. \A b \in BOOLEAN : \A v \in Int : [s EXCEPT !.shadowed = b, !.shadow = v] \in State
  BY DEF State
<1>2. TRUE \in BOOLEAN /\ 0 \in Int
  OBVIOUS
<1> QED
  BY <1>1, <1>2, Zenon

\* A statement keeps it if its parts do.
LEMMA CompoundKeeps ==
    ASSUME NEW S, NEW run, Keeping(run, S), NEW st \in Compound(S), NEW s \in State
    PROVE  Keeps(s, Do(run, st, s))
<1>a. /\ st.op \in {"then", "if", "shadow", "guarded", "loop", "switch", "catch", "test", "try",
                    "Try"}
      /\ st.op = "then" => st.first \in S /\ st.rest \in S
      /\ st.op # "then" => st.body \in S
      /\ st.op \in {"try", "Try"} => st.handler \in S /\ st.finalizer \in S
  BY CompoundParts
<1>1. Keeps(s, s)
  BY DEF Keeps
<1>2. ASSUME NEW b \in S, NEW t, Keeps(s, t) PROVE Keeps(s, run[<<b, t>>])
  BY <1>2, KeepsChain DEF Keeping, Keeps
<1>3. CASE st.op = "then"
  <2>1. Keeps(s, run[<<st.first, s>>])
    BY <1>a, <1>1, <1>2, <1>3
  <2>2. Keeps(s, run[<<st.rest, run[<<st.first, s>>]>>])
    BY <1>a, <1>2, <1>3, <2>1
  <2> QED
    BY <1>3, <2>1, <2>2 DEF Do
<1>4. CASE st.op = "if"
  BY <1>a, <1>1, <1>2, <1>4 DEF Do
<1>5. CASE st.op = "shadow"
  <2> DEFINE s1 == [s EXCEPT !.shadowed = TRUE, !.shadow = 0]
             r == run[<<st.body, s1>>]
  <2>1. /\ s1 \in State
        /\ s1.lost = s.lost /\ s1.named = s.named /\ s1.routed = s.routed /\ s1.iter = s.iter
    <3>1. s1 \in State
      BY ShadowType
    <3>2. s1.lost = s.lost /\ s1.named = s.named
      BY DEF State
    <3>3. s1.routed = s.routed /\ s1.iter = s.iter
      BY DEF State
    <3> QED
      BY <3>1, <3>2, <3>3
  <2>2. Keeps(s1, r)
    BY <1>a, <1>5, <2>1 DEF Keeping
  <2> HIDE DEF r, s1
  <2>3. Keeps(s, [r EXCEPT !.shadowed = s.shadowed, !.shadow = s.shadow])
    BY <2>1, <2>2 DEF Keeps, State
  <2> QED
    BY <1>5, <2>3 DEF Do, Shadowing, r, s1
<1>6. ASSUME NEW r, Keeps(s, r) PROVE Keeps(s, Breaks(r, st))
  BY <1>6, KeepsUpdates DEF Breaks, Kinds
<1>7. CASE st.op = "loop"
  <2>1. ASSUME NEW i \in Nat, NEW r \in State, Keeps(s, [r EXCEPT !.iter = s.iter])
        PROVE  /\ Iteration(run, st, i, r) \in State
               /\ Keeps(s, [Iteration(run, st, i, r) EXCEPT !.iter = s.iter])
    <3> DEFINE r1 == [r EXCEPT !.iter = i]
               q == run[<<st.body, r1>>]
    <3>1. r1 \in State /\ Keeps(s, [r1 EXCEPT !.iter = s.iter])
      BY <2>1 DEF Keeps, State
    <3>2. Keeps(r1, q)
      BY <1>a, <1>7, <3>1 DEF Keeping
    <3> HIDE DEF q, r1
    <3>3. q \in State /\ Keeps(s, [q EXCEPT !.iter = s.iter])
      <4>1. q \in State /\ s.iter \in Nat
        BY <3>2 DEF Keeps, State
      <4>2. /\ q.named = s.named /\ q.routed = s.routed /\ q.shadowed = s.shadowed
            /\ s.lost => q.lost
        BY <3>1, <3>2 DEF Keeps, State
      <4> QED
        BY <4>1, <4>2 DEF Keeps, State
    <3>4. /\ Completes(q, "next") \in State
          /\ Keeps(s, [Completes(q, "next") EXCEPT !.iter = s.iter])
      BY <3>3 DEF Keeps, State, Completes, Kinds
    <3> QED
      BY <3>3, <3>4 DEF Iteration, q, r1
  <2> DEFINE one == Iteration(run, st, 1, s)
             two == IF one.kind = "next" THEN Iteration(run, st, 2, one) ELSE one
  <2>2. Keeps(s, [s EXCEPT !.iter = s.iter])
    BY DEF Keeps, State
  <2>3. one \in State /\ Keeps(s, [one EXCEPT !.iter = s.iter])
    BY <2>1, <2>2
  <2>4. two \in State /\ Keeps(s, [two EXCEPT !.iter = s.iter])
    BY <2>1, <2>3
  <2> HIDE DEF two
  <2>5. Keeps(s, [Completes(two, "next") EXCEPT !.iter = s.iter])
    BY <2>4 DEF Keeps, State, Completes, Kinds
  <2>6. Keeps(s, [Breaks(two, st) EXCEPT !.iter = s.iter])
    BY <2>4, <2>5 DEF Breaks
  <2> QED
    BY <1>7, <2>6 DEF Do, Looping, two
<1>8. CASE st.op = "switch"
  BY <1>a, <1>1, <1>2, <1>6, <1>8 DEF Do
<1>9. CASE st.op = "catch"
  <2>1. s.caught \in Exceptions
    BY DEF State
  <2>2. Keeps(s, Throws(s, s.caught))
    BY <1>1, <2>1, KeepsUpdates
  <2> QED
    BY <1>a, <1>1, <1>2, <1>9, <2>2 DEF Do
<1>10. CASE st.op = "try"
  <2> DEFINE body == run[<<st.body, s>>]
             s1 == [body EXCEPT !.kind = "next", !.caught = body.exc]
             caught == body.kind = "throw" /\ body.exc \in Raised /\ st.handler # None
             r == IF ~caught THEN body ELSE run[<<st.handler, s1>>]
  <2>1. Keeps(s, body) /\ body.exc \in Exceptions
    BY <1>a, <1>1, <1>2, <1>10, KeptTypes
  <2> HIDE DEF body
  <2>2. Keeps(s, s1)
    BY <2>1, KeepsUpdates DEF Kinds
  <2> HIDE DEF s1
  <2>3. Keeps(s, r)
    BY <1>a, <1>2, <1>10, <2>1, <2>2
  <2>4. Keeps(r, Finally(run, st, r))
    BY <1>a, <1>10, <2>3, FinallyKeeps DEF Keeps
  <2>5. Do(run, st, s) = Finally(run, st, r)
    BY <1>10 DEF Do, Trying, s1, body
  <2> QED
    BY <2>3, <2>4, <2>5, KeepsChain
<1>11. CASE st.op = "test"
  BY <1>a, <1>1, <1>2, <1>11 DEF Do
<1>12. CASE st.op = "guarded"
  <2> DEFINE s1 == [s EXCEPT !.flow = 0]
             r == run[<<st.body, s1>>]
  <2>1. Keeps(s, s1)
    BY <1>1, KeepsUpdates
  <2> HIDE DEF s1
  <2>2. Keeps(s, r)
    BY <1>a, <1>2, <1>12, <2>1
  <2> HIDE DEF r
  <2>3. Keeps(s, [r EXCEPT !.flow = IF @ = 0 THEN s.flow ELSE @])
    BY <2>2 DEF Keeps, State
  <2> QED
    BY <1>12, <2>3 DEF Do, Guarded, r, s1
<1>13. CASE st.op = "Try"
  <2>1. ASSUME NEW b \in S, NEW t, Keeps(s, t) PROVE Keeps(s, CallClosure(run, b, t))
    BY <2>1, ClosureKeeps, KeepsChain DEF Keeps
  <2> DEFINE body == CallClosure(run, st.body, s)
             s1 == [body EXCEPT !.kind = "next", !.caught = body.exc]
             caught == body.kind = "throw" /\ body.exc \in Raised /\ st.handler # None
             handled == IF ~caught THEN body ELSE CallClosure(run, st.handler, s1)
             s2 == Completes(handled, "next")
             f == CallClosure(run, st.finalizer, s2)
             r == IF f.kind = "next" THEN [f EXCEPT !.kind = handled.kind, !.exc = handled.exc]
                  ELSE f
  <2>2. Do(run, st, s) = r
    BY <1>13 DEF Do, CallTry
  <2>3. Keeps(s, body) /\ body.exc \in Exceptions
    BY <1>a, <1>1, <1>13, <2>1, KeptTypes
  <2> HIDE DEF body
  <2>4. Keeps(s, s1)
    BY <2>3, KeepsUpdates DEF Kinds
  <2> HIDE DEF s1
  <2>5. Keeps(s, handled)
    BY <1>a, <1>13, <2>1, <2>3, <2>4
  <2> HIDE DEF handled
  <2>6. Keeps(s, s2)
    BY <2>5, KeepsUpdates DEF Kinds
  <2> HIDE DEF s2
  <2>7. Keeps(s, f)
    BY <1>a, <1>13, <2>1, <2>6
  <2> HIDE DEF f
  <2>8. handled.kind \in Kinds /\ handled.exc \in Exceptions
    BY <2>5, KeptTypes
  <2>9. Keeps(s, [f EXCEPT !.kind = handled.kind, !.exc = handled.exc])
    BY <2>7, <2>8, KeepsUpdates
  <2> QED
    BY <2>2, <2>7, <2>9
<1> QED
  BY <1>a, <1>3, <1>4, <1>5, <1>7, <1>8, <1>9, <1>10, <1>11, <1>12, <1>13

\* A statement makes a state of a state, and keeps what statements keep.
LEMMA RunningKeeps ==
    \A n \in Nat : Keeping(Running[n], Statement[n])
<1> DEFINE T == {n \in Nat : Keeping(Running[n], Statement[n])}
<1>1. 0 \in T
  BY StatementLevels, RunningLevels, SimpleKeeps DEF Keeping
<1>2. ASSUME NEW n \in Nat, n \in T PROVE n + 1 \in T
  <2>1. Below(Running, n + 1) = Running[n]
    BY DEF Below
  <2>2. ASSUME NEW st \in Statement[n + 1], NEW s \in State
        PROVE  Keeps(s, Running[n + 1][<<st, s>>])
    <3>1. Running[n + 1][<<st, s>>] = Do(Running[n], st, s)
      BY <2>1, RunningLevels, n + 1 \in Nat
    <3>2. st \in Simple \/ st \in Compound(Statement[n])
      BY StatementLevels
    <3> QED
      BY <1>2, <3>1, <3>2, SimpleKeeps, CompoundKeeps
  <2> QED
    BY <2>2 DEF Keeping
<1> HIDE DEF T
<1>3. \A n \in Nat : n \in T
  BY <1>1, <1>2, NatInduct
<1> QED
  BY <1>3 DEF T

-----------------------------------------------------------------------------
(* What is lowered.                                                        *)

\* Each level of the pass follows the rules of Lower.
LEMMA LoweringLevels ==
    \A n \in Nat : \A st \in Statement[n] : \A c \in Context :
        Lowering[n][<<st, c>>] = Lower(Below(Lowering, n), st, c)
<1> DEFINE G(n, below) == [x \in Statement[n] \X Context |-> Lower(below, x[1], x[2])]
           Made(f) == f = [n \in Nat |-> G(n, IF n = 0 THEN <<>> ELSE f[n - 1])]
           h == CHOOSE f : Made(f)
<1>1. PICK g : g = [n \in Nat |-> Level("lowering", 0, n, Below(g, n))]
  BY LevelsExist
<1>2. Made(g)
  <2>1. \A n \in Nat : Level("lowering", 0, n, Below(g, n)) =
                       G(n, IF n = 0 THEN <<>> ELSE g[n - 1])
    BY DEF Level, Below
  <2> HIDE DEF G
  <2> QED
    BY <1>1, <2>1
<1>3. Made(h)
  <2> HIDE DEF Made
  <2> QED
    BY <1>2, Zenon
<1>4. Lowering = h
  BY DEF Lowering
<1>5. \A n \in Nat : Lowering[n] = G(n, Below(Lowering, n))
  <2> HIDE DEF G, h
  <2> QED
    BY <1>3, <1>4 DEF Below
<1> QED
  BY <1>5

\* The tests after a Try, from the inside out.
LEMMA DispatchLevels ==
    ASSUME NEW c
    PROVE  /\ Dispatch(c, 0) = Onward(c)
           /\ \A n \in Nat : Dispatch(c, n + 1) = Then(TestsFor(c, n + 1), Dispatch(c, n))
<1> DEFINE E(n, below) == IF n = 0 THEN Onward(c) ELSE Then(TestsFor(c, n), below)
           Made(f) == f = [n \in Nat |-> IF n = 0 THEN Onward(c)
                                         ELSE Then(TestsFor(c, n), f[n - 1])]
           h == CHOOSE f : Made(f)
<1>1. PICK g : g = [n \in Nat |-> Level("dispatch", c, n, Below(g, n))]
  BY ZenonT(30), LevelsExist
<1>2. Made(g)
  <2>1. \A n \in Nat : Level("dispatch", c, n, Below(g, n)) =
                       IF n = 0 THEN Onward(c) ELSE Then(TestsFor(c, n), g[n - 1])
    BY DEF Level, Below
  <2> QED
    BY <1>1, <2>1
<1>3. Made(h)
  <2> HIDE DEF Made
  <2> QED
    BY <1>2, Zenon
<1>4. \A n : Dispatch(c, n) = h[n]
  BY DEF Dispatch
<1> HIDE DEF h
<1>5. \A n \in Nat : h[n] = IF n = 0 THEN Onward(c) ELSE Then(TestsFor(c, n), h[n - 1])
  BY <1>3
<1>6. \A n \in Nat : n + 1 \in Nat /\ n + 1 # 0 /\ (n + 1) - 1 = n
  OBVIOUS
<1>7. ASSUME NEW n \in Nat PROVE h[n + 1] = Then(TestsFor(c, n + 1), h[n])
  BY <1>5, <1>6
<1> QED
  BY <1>4, <1>5, <1>7

\* A statement of m levels is one of more levels.
LEMMA StatementsGrow ==
    ASSUME NEW m \in Nat, NEW n \in Nat, m <= n
    PROVE  Statement[m] \subseteq Statement[n]
<1> DEFINE T == {k \in Nat : Statement[k] \subseteq Statement[k + 1]}
           U == {k \in Nat : Statement[m] \subseteq Statement[m + k]}
<1>1. 0 \in T
  BY StatementLevels, 0 \in Nat
<1>2. ASSUME NEW k \in Nat, k \in T PROVE k + 1 \in T
  <2>1. Statement[k + 1] = Simple \cup Compound(Statement[k])
    BY StatementLevels
  <2>2. Statement[(k + 1) + 1] = Simple \cup Compound(Statement[k + 1])
    BY StatementLevels, k + 1 \in Nat
  <2>3. \A A, B : A \subseteq B => Compound(A) \subseteq Compound(B)
    BY DEF Compound
  <2> QED
    BY <1>2, <2>1, <2>2, <2>3
<1> HIDE DEF T
<1>3. \A k \in Nat : k \in T
  BY <1>1, <1>2, NatInduct
<1>4. 0 \in U
  BY m + 0 = m
<1>5. ASSUME NEW k \in Nat, k \in U PROVE k + 1 \in U
  <2>1. m + k \in Nat /\ m + (k + 1) = (m + k) + 1
    OBVIOUS
  <2>2. Statement[m + k] \subseteq Statement[(m + k) + 1]
    BY <1>3, <2>1 DEF T
  <2> QED
    BY <1>5, <2>1, <2>2
<1> HIDE DEF U
<1>6. \A k \in Nat : k \in U
  BY <1>4, <1>5, NatInduct
<1>7. n - m \in Nat /\ m + (n - m) = n
  OBVIOUS
<1> QED
  BY <1>6, <1>7 DEF U

\* Simple statements are statements of every level.
LEMMA SimpleStatements ==
    ASSUME NEW n \in Nat
    PROVE  /\ Simple \subseteq Statement[n]
           /\ None \in Statement[n] /\ Exit \in Statement[n] /\ Pass \in Statement[n]
           /\ ReturnSlots \in Statement[n]
           /\ \A k \in Nat : Signal(k) \in Statement[n]
           /\ \A v \in Int : Assign(v) \in Statement[n]
           /\ \A tok \in {"break", "continue"} : \A l \in Label : Branch(tok, l) \in Statement[n]
<1>1. Simple \subseteq Statement[n]
  BY StatementLevels, StatementsGrow, 0 \in Nat
<1>2. None \in Simple /\ Exit \in Simple /\ Pass \in Simple /\ ReturnSlots \in Simple
  BY DEF Simple, None, Exit, Pass, ReturnSlots
<1>3. \A k \in Nat : Signal(k) \in Simple
  BY DEF Simple, Signal
<1>4. \A v \in Int : Assign(v) \in Simple
  BY DEF Simple, Assign
<1>5. \A tok \in {"break", "continue"} : \A l \in Label : Branch(tok, l) \in Simple
  BY DEF Simple, Branch
<1> QED
  BY <1>1, <1>2, <1>3, <1>4, <1>5

\* A statement made of statements is one level up.
LEMMA CompoundStatements ==
    ASSUME NEW n \in Nat, NEW m \in Nat, n < m
    PROVE  /\ Compound(Statement[n]) \subseteq Statement[m]
           /\ \A a, b \in Statement[n] : Then(a, b) \in Statement[m]
           /\ \A k \in Nat : \A a \in Statement[n] : Test(k, a) \in Statement[m]
           /\ \A a \in Statement[n] : LowerFinalizer(a) \in Statement[m]
<1>1. Compound(Statement[n]) \subseteq Statement[m]
  BY StatementLevels, StatementsGrow, n + 1 \in Nat, n + 1 <= m
<1>2. \A S : \A a, b \in S : Then(a, b) \in Compound(S)
  BY DEF Compound, Then
<1>3. \A S : \A k \in Nat : \A a \in S : Test(k, a) \in Compound(S)
  BY DEF Compound, Test
<1>4. \A S : \A a \in S : LowerFinalizer(a) \in Compound(S)
  BY DEF Compound, LowerFinalizer
<1> QED
  BY <1>1, <1>2, <1>3, <1>4

\* The tests for one target are a statement.
LEMMA TestsTyped ==
    ASSUME NEW c \in Context, NEW i \in 1 .. Len(c.targets)
    PROVE  TestsFor(c, i) \in Statement[3]
<1>1. /\ 0 \in Nat /\ 1 \in Nat /\ 2 \in Nat /\ 3 \in Nat
      /\ 0 < 1 /\ 1 < 2 /\ 2 < 3
  OBVIOUS
<1> DEFINE t == c.targets[i]
<1>2. t \in Targets
  BY DEF Context
<1> HIDE DEF t
<1>3. ASSUME NEW tok \in {"break", "continue"} PROVE TestFor(tok, t) \in Statement[2]
  <2>1. CodeOf(tok, t) \in Nat /\ t.label \in Label
    BY <1>2 DEF CodeOf, Targets
  <2>2. Then(Signal(0), Branch(tok, t.label)) \in Statement[1]
    BY <1>1, <2>1, SimpleStatements, CompoundStatements
  <2> QED
    BY <1>1, <2>1, <2>2, CompoundStatements DEF TestFor
<1>4. None \in Statement[2] /\ None \in Statement[3]
  BY <1>1, SimpleStatements
<1>5. \A a, b \in Statement[2] : Then(a, b) \in Statement[3]
  BY <1>1, CompoundStatements
<1> QED
  BY <1>3, <1>4, <1>5 DEF TestsFor, t

\* The tests for n targets are a statement of n more levels.
LEMMA DispatchTyped ==
    ASSUME NEW c \in Context
    PROVE  \A n \in Nat : n <= Len(c.targets) => Dispatch(c, n) \in Statement[3 + n]
<1> DEFINE T == {n \in Nat : n <= Len(c.targets) => Dispatch(c, n) \in Statement[3 + n]}
<1>0. Len(c.targets) \in Nat
  BY DEF Context
<1>1. 0 \in T
  <2>1. Onward(c) \in Statement[3]
    BY SimpleStatements, CompoundStatements, 0 \in Nat, 3 \in Nat, 1 \in Nat, 0 < 3 DEF Onward
  <2> QED
    BY <2>1, DispatchLevels, 3 + 0 = 3
<1>2. ASSUME NEW n \in Nat, n \in T PROVE n + 1 \in T
  <2> SUFFICES ASSUME n + 1 <= Len(c.targets)
               PROVE  Dispatch(c, n + 1) \in Statement[3 + (n + 1)]
    OBVIOUS
  <2>1. n + 1 \in 1 .. Len(c.targets) /\ n <= Len(c.targets)
    BY <1>0
  <2>2. TestsFor(c, n + 1) \in Statement[3 + n]
    BY <2>1, TestsTyped, StatementsGrow, 3 \in Nat, 3 + n \in Nat, 3 <= 3 + n
  <2>3. 3 + n \in Nat /\ 3 + (n + 1) \in Nat /\ 3 + n < 3 + (n + 1)
    OBVIOUS
  <2> QED
    BY <1>2, <2>1, <2>2, <2>3, DispatchLevels, CompoundStatements
<1> HIDE DEF T
<1>3. \A n \in Nat : n \in T
  BY <1>1, <1>2, NatInduct
<1> QED
  BY <1>3 DEF T

\* How many levels a lowered statement of n levels has at most.
Room(n, c) == 3 * n + Len(c.targets) + 2

\* Is l something that a statement of n levels is lowered to?
Fits(n, c, l) ==
    /\ l.code \in Statement[Room(n, c)]
    /\ l.next \in Nat /\ l.next >= c.next
    /\ l.rejected \in BOOLEAN /\ l.scoped \in BOOLEAN /\ l.used \in BOOLEAN

\* Room and what it is computed from are natural numbers.
LEMMA RoomType ==
    ASSUME NEW n \in Nat, NEW c \in Context
    PROVE  /\ Len(c.targets) \in Nat /\ c.next \in Nat /\ c.depth \in Nat
           /\ c.targets \in Seq(Targets)
           /\ Room(n, c) \in Nat /\ Room(n, c) >= n /\ Room(n, c) >= 2
           /\ Room(n + 1, c) \in Nat /\ Room(n + 1, c) = Room(n, c) + 3
BY DEF Context, Room

\* What stays as it is, or becomes code that fits, fits.
LEMMA PlainFits ==
    ASSUME NEW n \in Nat, NEW c \in Context, NEW made \in Statement[Room(n, c)]
    PROVE  /\ Fits(n, c, Plain(made, c))
           /\ \A rejected, scoped \in BOOLEAN :
                 Fits(n, c, Lowered(made, c.next, rejected, scoped, FALSE))
<1>1. c.next \in Nat /\ c.next >= c.next
  <2>1. c.next \in Nat
    BY RoomType
  <2>2. \A k \in Nat : k >= k
    OBVIOUS
  <2> QED
    BY <2>1, <2>2
<1>2. \A rejected, scoped \in BOOLEAN :
          Fits(n, c, Lowered(made, c.next, rejected, scoped, FALSE))
  BY <1>1 DEF Lowered, Fits
<1>3. FALSE \in BOOLEAN
  OBVIOUS
<1> QED
  BY <1>2, <1>3 DEF Plain

\* The context of the block of a loop or switch.
LEMMA InsideType ==
    ASSUME NEW c \in Context, NEW st, st.label \in Label
    PROVE  /\ Inside(st, c) \in Context
           /\ Len(Inside(st, c).targets) = Len(c.targets) + 1
           /\ Inside(st, c).next \in Nat /\ Inside(st, c).next > c.next
           /\ Inside(st, c).depth = c.depth
<1> DEFINE target == [label |-> st.label, depth |-> c.depth, breakCode |-> c.next,
                      continueCode |-> IF st.op = "loop" THEN c.next + 1 ELSE 0]
           next == c.next + IF st.op = "loop" THEN 2 ELSE 1
<1>1. c.next \in Nat /\ c.depth \in Nat /\ c.targets \in Seq(Targets)
  BY DEF Context
<1>2. target \in Targets
  BY <1>1 DEF Targets
<1>3. next \in Nat /\ next > c.next
  BY <1>1
<1>4. Inside(st, c) = [c EXCEPT !.targets = Append(c.targets, target), !.next = next]
  BY DEF Inside
<1> HIDE DEF target, next
<1>5. Append(c.targets, target) \in Seq(Targets)
      /\ Len(Append(c.targets, target)) = Len(c.targets) + 1
  BY <1>1, <1>2
<1> QED
  BY <1>3, <1>4, <1>5 DEF Context

\* The innermost of a set of targets.
LEMMA Innermost ==
    ASSUME NEW N \in Nat, NEW S, S \subseteq 1 .. N, S # {}
    PROVE  Max(S) \in S /\ \A i \in S : i <= Max(S)
<1> DEFINE R == {N - i : i \in S}
<1>1. R \subseteq Nat /\ R # {}
  <2>1. \A i \in S : N - i \in Nat
    OBVIOUS
  <2>2. PICK i \in S : TRUE
    OBVIOUS
  <2>3. N - i \in R
    OBVIOUS
  <2> QED
    BY <2>1, <2>3
<1>2. PICK r \in R : \A q \in R : r <= q
  BY <1>1, LeastNat
<1>3. PICK m \in S : r = N - m
  BY <1>2
<1>4. \A i \in S : N - i \in R
  OBVIOUS
<1>5. \A i \in S : i <= m
  BY <1>2, <1>3, <1>4
<1>6. \E x \in S : \A y \in S : x >= y
  BY <1>5
<1> DEFINE M == CHOOSE x \in S : \A y \in S : x >= y
<1>7. M \in S /\ \A y \in S : M >= y
  BY <1>6
<1> QED
  BY <1>7 DEF Max

\* A simple statement is lowered to a statement of few levels.
LEMMA SimpleFits ==
    ASSUME NEW n \in Nat, NEW low, NEW st \in Simple, NEW c \in Context
    PROVE  Fits(n, c, Lower(low, st, c))
<1>1. st \in Statement[Room(n, c)]
  BY RoomType, SimpleStatements
<1>2. CASE st.op = "return"
  <2>1. /\ st.value \in Int
    BY <1>2 DEF Simple
  <2>2. 0 \in Nat /\ 1 \in Nat /\ 2 \in Nat /\ 0 < 1 /\ 1 < 2
    OBVIOUS
  <2>3. Then(Signal(1), Exit) \in Statement[1]
    BY <2>2, SimpleStatements, CompoundStatements
  <2>4. Assign(st.value) \in Statement[1]
    BY <2>1, <2>2, SimpleStatements
  <2>5. Then(Assign(st.value), Then(Signal(1), Exit)) \in Statement[2]
    BY <2>2, <2>3, <2>4, CompoundStatements
  <2>6. LowerReturn(st, c) \in Statement[Room(n, c)]
    BY <1>1, <2>2, <2>5, RoomType, StatementsGrow DEF LowerReturn
  <2> QED
    BY <1>2, <2>6, PlainFits DEF Lower
<1>3. CASE st.op = "branch"
  <2> DEFINE C == Candidates(st.tok, st.label, c.targets)
             t == c.targets[Max(C)]
             jump == Then(Signal(CodeOf(st.tok, t)), Exit)
  <2>1. ASSUME C # {} PROVE jump \in Statement[Room(n, c)]
    <3>1. C \subseteq 1 .. Len(c.targets) /\ Len(c.targets) \in Nat
      BY RoomType DEF Candidates
    <3> HIDE DEF C
    <3>2. Max(C) \in 1 .. Len(c.targets)
      BY <2>1, <3>1, Innermost
    <3>3. t \in Targets
      <4>1. c.targets \in Seq(Targets)
        BY RoomType
      <4> QED
        BY <3>2, <4>1
    <3> HIDE DEF t
    <3>4. CodeOf(st.tok, t) \in Nat
      BY <3>3 DEF CodeOf, Targets
    <3>5. jump \in Statement[1]
      BY <3>4, 0 \in Nat, 1 \in Nat, 0 < 1, SimpleStatements, CompoundStatements
    <3> QED
      <4>1. 1 \in Nat /\ Room(n, c) \in Nat /\ 1 <= Room(n, c)
        BY RoomType
      <4> QED
        BY <3>5, <4>1, StatementsGrow
  <2>2. Lower(low, st, c) = LowerBranch(st, c)
    BY <1>3 DEF Lower
  <2>3. LowerBranch(st, c) = IF C = {} THEN Lowered(st, c.next, TRUE, FALSE, FALSE)
                             ELSE IF t.depth = c.depth THEN Plain(st, c) ELSE Plain(jump, c)
    BY DEF LowerBranch
  <2> HIDE DEF C, t, jump
  <2> QED
    BY <1>1, <2>1, <2>2, <2>3, PlainFits
<1>4. CASE st.op = "defer"
  <2>1. Lower(low, st, c) = Lowered(st, c.next, FALSE, c.depth > 0, FALSE)
    BY <1>4 DEF Lower
  <2>2. (c.depth > 0) \in BOOLEAN
    BY RoomType
  <2> QED
    BY <1>1, <2>1, <2>2, PlainFits
<1>5. CASE st.op \notin {"return", "branch", "defer"}
  <2>1. Lower(low, st, c) = Plain(st, c)
    BY <1>5 DEF Lower, Simple
  <2> QED
    BY <1>1, <2>1, PlainFits
<1> QED
  BY <1>2, <1>3, <1>4, <1>5

Fitting(low, n) ==
    \A st \in Statement[n] : \A c \in Context : Fits(n, c, low[<<st, c>>])

\* A try in terms of what its blocks are lowered to.
ClosureContext(c, next) == [c EXCEPT !.depth = @ + 1, !.next = next]
Calling(st, body, handler, finalizer) ==
    [op |-> "Try", body |-> body.code,
     handler |-> IF st.handler = None THEN None ELSE LowerHandler(handler.code),
     finalizer |-> IF st.finalizer = None THEN None ELSE LowerFinalizer(finalizer.code)]

\* The context inside a closure.
LEMMA ClosureContextType ==
    ASSUME NEW c \in Context, NEW next \in Nat
    PROVE  /\ ClosureContext(c, next) \in Context
           /\ ClosureContext(c, next).targets = c.targets
           /\ ClosureContext(c, next).depth = c.depth + 1
           /\ ClosureContext(c, next).next = next
<1> DEFINE d == c.depth + 1
<1>1. d \in Nat
  BY DEF Context
<1>2. ClosureContext(c, next) = [c EXCEPT !.depth = d, !.next = next]
  BY DEF ClosureContext
<1> HIDE DEF d
<1>3. ASSUME NEW e \in Nat
      PROVE  /\ [c EXCEPT !.depth = e, !.next = next] \in Context
             /\ [c EXCEPT !.depth = e, !.next = next].targets = c.targets
             /\ [c EXCEPT !.depth = e, !.next = next].depth = e
             /\ [c EXCEPT !.depth = e, !.next = next].next = next
  BY DEF Context
<1> QED
  BY <1>1, <1>2, <1>3 DEF d

\* The context of what comes next.
LEMMA NextContextType ==
    ASSUME NEW c \in Context, NEW next \in Nat
    PROVE  /\ [c EXCEPT !.next = next] \in Context
           /\ [c EXCEPT !.next = next].targets = c.targets
           /\ [c EXCEPT !.next = next].depth = c.depth
           /\ [c EXCEPT !.next = next].next = next
BY DEF Context

\* A statement is lowered to a statement if its parts are.
LEMMA CompoundFits ==
    ASSUME NEW n \in Nat, NEW low, Fitting(low, n),
           NEW st \in Compound(Statement[n]), NEW c \in Context
    PROVE  Fits(n + 1, c, Lower(low, st, c))
<1>a. /\ st.op \in {"then", "if", "shadow", "guarded", "loop", "switch", "catch", "test", "try",
                    "Try"}
      /\ st.op = "then" => st.first \in Statement[n] /\ st.rest \in Statement[n]
      /\ st.op # "then" => st.body \in Statement[n]
      /\ st.op \in {"loop", "switch"} => st.label \in Label
      /\ st.op \in {"try", "Try"} => st.handler \in Statement[n] /\ st.finalizer \in Statement[n]
  BY CompoundParts
<1>b. n + 1 \in Nat
  OBVIOUS
<1>c. /\ Room(n, c) \in Nat /\ Room(n + 1, c) \in Nat /\ Room(n, c) < Room(n + 1, c)
      /\ Room(n + 1, c) = Room(n, c) + 3 /\ c.next \in Nat /\ c.next >= c.next
  <2>1. \A k \in Nat : k >= k /\ k < k + 3
    OBVIOUS
  <2>2. /\ Room(n, c) \in Nat /\ Room(n + 1, c) \in Nat
        /\ Room(n + 1, c) = Room(n, c) + 3 /\ c.next \in Nat
    BY RoomType
  <2> QED
    BY <2>1, <2>2
<1>1. CASE st.op = "then"
  <2> DEFINE a == low[<<st.first, c>>]
             d == [c EXCEPT !.next = a.next]
             b == low[<<st.rest, d>>]
  <2>1. Fits(n, c, a)
    BY <1>a, <1>1 DEF Fitting
  <2>2. a.next \in Nat
    BY <2>1 DEF Fits
  <2> HIDE DEF a
  <2>3. d \in Context /\ d.targets = c.targets /\ d.next = a.next
    BY <2>2, NextContextType
  <2> HIDE DEF d
  <2>4. Fits(n, d, b) /\ Room(n, d) = Room(n, c)
    BY <1>a, <1>1, <2>3 DEF Fitting, Room
  <2> HIDE DEF b
  <2>5. Then(a.code, b.code) \in Statement[Room(n + 1, c)]
    BY <1>c, <2>1, <2>4, CompoundStatements DEF Fits
  <2>6. Lower(low, st, c) = Lowered(Then(a.code, b.code), b.next, a.rejected \/ b.rejected,
                                    a.scoped \/ b.scoped, a.used \/ b.used)
    BY <1>1 DEF Lower, LowerThen, a, b, d
  <2>7. b.next \in Nat /\ b.next >= c.next
    BY <1>c, <2>1, <2>3, <2>4 DEF Fits
  <2> QED
    BY <2>5, <2>6, <2>7 DEF Fits, Lowered
<1>2. ASSUME NEW d \in Context, Room(n, d) < Room(n + 1, c), d.next >= c.next,
             st.op \in {"if", "shadow", "catch", "loop", "switch"},
             Lower(low, st, c) = LowerInner(low, st, d)
      PROVE  Fits(n + 1, c, Lower(low, st, c))
  <2> DEFINE l == low[<<st.body, d>>]
  <2>1. Fits(n, d, l)
    BY <1>a, <1>2 DEF Fitting
  <2>2. Lower(low, st, c) = [l EXCEPT !.code = [st EXCEPT !.body = l.code]]
    BY <1>2 DEF LowerInner
  <2> HIDE DEF l
  <2>3. Room(n, d) \in Nat /\ l.code \in Statement[Room(n, d)] /\ d.next \in Nat
    BY <2>1, RoomType DEF Fits
  <2>4. ASSUME NEW S, NEW b \in S PROVE [st EXCEPT !.body = b] \in Compound(S)
    BY <1>2, <2>4 DEF Compound
  <2>5. [st EXCEPT !.body = l.code] \in Statement[Room(n + 1, c)]
    BY <1>2, <1>c, <2>3, <2>4, CompoundStatements
  <2>6. l.next \in Nat /\ l.next >= c.next
    BY <1>2, <1>c, <2>1, <2>3 DEF Fits
  <2> QED
    BY <2>1, <2>2, <2>5, <2>6 DEF Fits
<1>3. CASE st.op \in {"if", "shadow", "catch"}
  BY <1>2, <1>3, <1>c DEF Lower
<1>4. CASE st.op \in {"loop", "switch"}
  <2>1. /\ Inside(st, c) \in Context /\ Inside(st, c).next >= c.next
        /\ Len(Inside(st, c).targets) = Len(c.targets) + 1
    BY <1>a, <1>c, <1>4, InsideType
  <2>2. Room(n, Inside(st, c)) < Room(n + 1, c)
    <3>1. \A k \in Nat : 3 * n + (k + 1) + 2 < 3 * (n + 1) + k + 2
      OBVIOUS
    <3>2. Len(c.targets) \in Nat
      BY RoomType
    <3> QED
      BY <2>1, <3>1, <3>2 DEF Room
  <2>3. Lower(low, st, c) = LowerInner(low, st, Inside(st, c))
    BY <1>4 DEF Lower
  <2> QED
    BY <1>2, <1>4, <2>1, <2>2, <2>3
<1>5. CASE st.op = "try"
  <2> DEFINE c1 == ClosureContext(c, c.next)
             body == low[<<st.body, c1>>]
             c2 == ClosureContext(c, body.next)
             handler == low[<<st.handler, c2>>]
             c3 == ClosureContext(c, handler.next)
             finalizer == low[<<st.finalizer, c3>>]
             tests == Dispatch(c, Len(c.targets))
             R == Room(n, c)
  <2>1. Lower(low, st, c) =
            Lowered(Then(Calling(st, body, handler, finalizer), tests), finalizer.next,
                    body.rejected \/ handler.rejected \/ finalizer.rejected,
                    body.scoped \/ handler.scoped \/ finalizer.scoped, TRUE)
    BY <1>5 DEF Lower, LowerTry, Calling, ClosureContext
  <2>2. ASSUME NEW next \in Nat, next >= c.next, NEW b \in Statement[n], NEW l,
               l = low[<<b, ClosureContext(c, next)>>]
        PROVE  /\ l.code \in Statement[R] /\ l.next \in Nat /\ l.next >= c.next
               /\ l.rejected \in BOOLEAN /\ l.scoped \in BOOLEAN
    <3>1. Fits(n, ClosureContext(c, next), l)
      BY <2>2, ClosureContextType DEF Fitting
    <3>2. Room(n, ClosureContext(c, next)) = R
      BY ClosureContextType DEF Room
    <3>3. l.next \in Nat /\ l.next >= next
      BY <3>1, ClosureContextType DEF Fits
    <3>4. l.next >= c.next
      BY <1>c, <2>2, <3>3
    <3> QED
      BY <3>1, <3>2, <3>3, <3>4 DEF Fits
  <2>3. /\ body.code \in Statement[R] /\ body.next \in Nat /\ body.next >= c.next
        /\ body.rejected \in BOOLEAN /\ body.scoped \in BOOLEAN
    BY <1>a, <1>c, <1>5, <2>2
  <2> HIDE DEF body
  <2>4. /\ handler.code \in Statement[R] /\ handler.next \in Nat /\ handler.next >= c.next
        /\ handler.rejected \in BOOLEAN /\ handler.scoped \in BOOLEAN
    BY <1>a, <1>5, <2>2, <2>3
  <2> HIDE DEF handler
  <2>5. /\ finalizer.code \in Statement[R] /\ finalizer.next \in Nat
        /\ finalizer.next >= c.next
        /\ finalizer.rejected \in BOOLEAN /\ finalizer.scoped \in BOOLEAN
    BY <1>a, <1>5, <2>2, <2>4
  <2> HIDE DEF finalizer
  <2>6. R \in Nat /\ R + 1 \in Nat /\ R + 2 \in Nat /\ R + 3 \in Nat /\ 0 \in Nat
        /\ R < R + 1 /\ R + 1 < R + 2 /\ R + 2 < R + 3 /\ R <= R + 1
    BY <1>c
  <2>7. /\ LowerHandler(handler.code) \in Statement[R + 1]
        /\ LowerFinalizer(finalizer.code) \in Statement[R + 1]
        /\ None \in Statement[R + 1] /\ body.code \in Statement[R + 1]
    <3>1. /\ Signal(0) \in Statement[R] /\ None \in Statement[R + 1]
          /\ Statement[R] \subseteq Statement[R + 1]
      BY <2>6, SimpleStatements, StatementsGrow
    <3>2. /\ \A a, b \in Statement[R] : Then(a, b) \in Statement[R + 1]
          /\ \A a \in Statement[R] : LowerFinalizer(a) \in Statement[R + 1]
      BY <2>6, CompoundStatements
    <3> HIDE DEF R
    <3> QED
      BY <2>3, <2>4, <2>5, <3>1, <3>2 DEF LowerHandler
  <2>8. Calling(st, body, handler, finalizer) \in Compound(Statement[R + 1])
    BY <2>7 DEF Calling, Compound
  <2>9. Calling(st, body, handler, finalizer) \in Statement[R + 2]
    BY <2>6, <2>8, CompoundStatements
  <2>10. tests \in Statement[R + 2]
    <3>1. Len(c.targets) \in Nat
      BY RoomType
    <3>2. Len(c.targets) <= Len(c.targets)
      BY <3>1
    <3>3. tests \in Statement[3 + Len(c.targets)]
      BY <3>1, <3>2, DispatchTyped
    <3>4. 3 + Len(c.targets) <= R + 2 /\ 3 + Len(c.targets) \in Nat
      <4>1. \A k \in Nat : 3 + k <= (3 * n + k + 2) + 2 /\ 3 + k \in Nat
        OBVIOUS
      <4> QED
        BY <3>1, <4>1 DEF Room
    <3> QED
      BY <2>6, <3>3, <3>4, StatementsGrow
  <2> HIDE DEF tests
  <2>11. Then(Calling(st, body, handler, finalizer), tests) \in Statement[Room(n + 1, c)]
    BY <1>c, <2>6, <2>9, <2>10, CompoundStatements
  <2> HIDE DEF R
  <2> QED
    BY <2>1, <2>3, <2>4, <2>5, <2>11 DEF Fits, Lowered
<1>6. CASE st.op \in {"guarded", "test", "Try"}
  <2>1. Lower(low, st, c) = Plain(st, c)
    BY <1>6 DEF Lower
  <2>2. st \in Statement[n + 1]
    BY StatementLevels
  <2>3. st \in Statement[Room(n + 1, c)]
    BY <1>b, <2>2, RoomType, StatementsGrow
  <2> QED
    BY <1>b, <2>1, <2>3, PlainFits
<1> QED
  BY <1>a, <1>1, <1>3, <1>4, <1>5, <1>6

\* What is emitted for a statement is a statement again.
LEMMA LoweringFits ==
    \A n \in Nat : Fitting(Lowering[n], n)
<1> DEFINE T == {n \in Nat : Fitting(Lowering[n], n)}
<1>1. 0 \in T
  BY StatementLevels, LoweringLevels, SimpleFits DEF Fitting
<1>2. ASSUME NEW n \in Nat, n \in T PROVE n + 1 \in T
  <2>1. Below(Lowering, n + 1) = Lowering[n]
    BY DEF Below
  <2>2. ASSUME NEW st \in Statement[n + 1], NEW c \in Context
        PROVE  Fits(n + 1, c, Lowering[n + 1][<<st, c>>])
    <3>1. Lowering[n + 1][<<st, c>>] = Lower(Lowering[n], st, c)
      BY <2>1, LoweringLevels, n + 1 \in Nat
    <3>2. st \in Simple \/ st \in Compound(Statement[n])
      BY StatementLevels
    <3> QED
      BY <1>2, <3>1, <3>2, SimpleFits, CompoundFits, n + 1 \in Nat
  <2> QED
    BY <2>2 DEF Fitting
<1> HIDE DEF T
<1>3. \A n \in Nat : n \in T
  BY <1>1, <1>2, NatInduct
<1> QED
  BY <1>3 DEF T

\* Each level of the flaws follows the rules of Flaws.
LEMMA FlawedLevels ==
    \A n \in Nat : \A st \in Statement[n] : \A scope \in Scope :
        Flawed[n][<<st, scope>>] = Flaws(Below(Flawed, n), st, scope)
<1> DEFINE G(n, below) == [x \in Statement[n] \X Scope |-> Flaws(below, x[1], x[2])]
           Made(f) == f = [n \in Nat |-> G(n, IF n = 0 THEN <<>> ELSE f[n - 1])]
           h == CHOOSE f : Made(f)
<1>1. PICK g : g = [n \in Nat |-> Level("flawed", 0, n, Below(g, n))]
  BY LevelsExist
<1>2. Made(g)
  <2>1. \A n \in Nat : Level("flawed", 0, n, Below(g, n)) =
                       G(n, IF n = 0 THEN <<>> ELSE g[n - 1])
    BY DEF Level, Below
  <2> HIDE DEF G
  <2> QED
    BY <1>1, <2>1
<1>3. Made(h)
  <2> HIDE DEF Made
  <2> QED
    BY <1>2, Zenon
<1>4. Flawed = h
  BY DEF Flawed
<1>5. \A n \in Nat : Flawed[n] = G(n, Below(Flawed, n))
  <2> HIDE DEF G, h
  <2> QED
    BY <1>3, <1>4 DEF Below
<1> QED
  BY <1>5

\* Each level of blockTerminates (lines 382-415) follows the rules of Terminates.
LEMMA TerminatingLevels ==
    \A n \in Nat : \A st \in Statement[n] :
        Terminating[n][st] = Terminates(Below(Terminating, n), st)
<1> DEFINE G(n, below) == [st \in Statement[n] |-> Terminates(below, st)]
           Made(f) == f = [n \in Nat |-> G(n, IF n = 0 THEN <<>> ELSE f[n - 1])]
           h == CHOOSE f : Made(f)
<1>1. PICK g : g = [n \in Nat |-> Level("terminating", 0, n, Below(g, n))]
  BY LevelsExist
<1>2. Made(g)
  <2>1. \A n \in Nat : Level("terminating", 0, n, Below(g, n)) =
                       G(n, IF n = 0 THEN <<>> ELSE g[n - 1])
    BY DEF Level, Below
  <2> HIDE DEF G
  <2> QED
    BY <1>1, <2>1
<1>3. Made(h)
  <2> HIDE DEF Made
  <2> QED
    BY <1>2, Zenon
<1>4. Terminating = h
  BY DEF Terminating
<1>5. \A n \in Nat : Terminating[n] = G(n, Below(Terminating, n))
  <2> HIDE DEF G, h
  <2> QED
    BY <1>3, <1>4 DEF Below
<1> QED
  BY <1>5

-----------------------------------------------------------------------------
(* What is rejected.                                                       *)

\* The labels that a branch may use among these targets.
Usable(tok, targets) == {l \in Label : Candidates(tok, l, targets) # {}}

Matches(c, scope) == /\ scope.breaks = Usable("break", c.targets)
                     /\ scope.continues = Usable("continue", c.targets)

\* Inside a loop or switch its label and no label can be used as well (lines 225-254).
LEMMA UsableInside ==
    ASSUME NEW c \in Context, NEW st, st.label \in Label
    PROVE  /\ Usable("break", Inside(st, c).targets) =
                  Usable("break", c.targets) \cup {"", st.label}
           /\ Usable("continue", Inside(st, c).targets) =
                  IF st.op = "loop" THEN Usable("continue", c.targets) \cup {"", st.label}
                  ELSE Usable("continue", c.targets)
<1> DEFINE target == [label |-> st.label, depth |-> c.depth, breakCode |-> c.next,
                      continueCode |-> IF st.op = "loop" THEN c.next + 1 ELSE 0]
           ts == Inside(st, c).targets
           N == Len(c.targets)
<1>1. N \in Nat /\ c.next \in Nat /\ c.targets \in Seq(Targets) /\ c.depth \in Nat
  BY RoomType, 0 \in Nat
<1>2. ts = Append(c.targets, target)
  BY DEF Inside, Context
<1>3. target.label = st.label /\ (target.continueCode # 0 <=> st.op = "loop")
  BY <1>1
<1>4. target \in Targets
  BY <1>1 DEF Targets
<1> HIDE DEF target
<1>5. /\ Len(ts) = N + 1 /\ ts[N + 1] = target
      /\ \A i \in 1 .. N : ts[i] = c.targets[i]
  BY <1>1, <1>2, <1>4
<1> HIDE DEF ts
<1>6. 1 .. (N + 1) = (1 .. N) \cup {N + 1}
  BY <1>1
<1>7. ASSUME NEW tok, NEW l
      PROVE  Candidates(tok, l, ts) # {} <=>
                \/ Candidates(tok, l, c.targets) # {}
                \/ l \in {"", st.label} /\ (tok = "continue" => st.op = "loop")
  <2>1. N + 1 \in Candidates(tok, l, ts) <=>
            l \in {"", st.label} /\ (tok = "continue" => st.op = "loop")
    BY <1>1, <1>3, <1>5, <1>6 DEF Candidates
  <2>2. \A i \in 1 .. N : i \in Candidates(tok, l, ts) <=> i \in Candidates(tok, l, c.targets)
    BY <1>1, <1>5, <1>6 DEF Candidates
  <2>3. Candidates(tok, l, c.targets) \subseteq 1 .. N
    BY DEF Candidates
  <2>4. Candidates(tok, l, ts) \subseteq (1 .. N) \cup {N + 1}
    BY <1>5, <1>6 DEF Candidates
  <2> QED
    BY <2>1, <2>2, <2>3, <2>4
<1>8. "" \in Label
  BY LabelAssumption
<1>9. ASSUME NEW tok, tok = "continue" => st.op = "loop"
      PROVE  Usable(tok, ts) = Usable(tok, c.targets) \cup {"", st.label}
  BY <1>7, <1>8, <1>9 DEF Usable
<1>10. ASSUME st.op # "loop"
       PROVE  Usable("continue", ts) = Usable("continue", c.targets)
  BY <1>7, <1>10 DEF Usable
<1> QED
  BY <1>9, <1>10 DEF ts

\* The scope of the block of a loop or switch.
Around(st, scope) ==
    IF st.op = "loop"
    THEN [scope EXCEPT !.breaks = @ \cup {"", st.label}, !.continues = @ \cup {"", st.label}]
    ELSE [scope EXCEPT !.breaks = @ \cup {"", st.label}]

\* Context and scope keep matching inside a loop or switch.
LEMMA AroundMatches ==
    ASSUME NEW c \in Context, NEW scope \in Scope, Matches(c, scope), NEW st, st.label \in Label
    PROVE  Around(st, scope) \in Scope /\ Matches(Inside(st, c), Around(st, scope))
<1>1. {"", st.label} \subseteq Label
  BY LabelAssumption
<1>2. scope.breaks \subseteq Label /\ scope.continues \subseteq Label
  BY DEF Scope
<1>3. \A b, d \in SUBSET Label :
          /\ [scope EXCEPT !.breaks = b, !.continues = d] \in Scope
          /\ [scope EXCEPT !.breaks = b, !.continues = d].breaks = b
          /\ [scope EXCEPT !.breaks = b, !.continues = d].continues = d
          /\ [scope EXCEPT !.breaks = b] \in Scope
          /\ [scope EXCEPT !.breaks = b].breaks = b
          /\ [scope EXCEPT !.breaks = b].continues = scope.continues
  BY DEF Scope
<1>4. scope.breaks \cup {"", st.label} \in SUBSET Label
      /\ scope.continues \cup {"", st.label} \in SUBSET Label
  BY <1>1, <1>2
<1> DEFINE b1 == scope.breaks \cup {"", st.label}
           d1 == scope.continues \cup {"", st.label}
<1>a. scope.breaks = Usable("break", c.targets) /\ scope.continues = Usable("continue", c.targets)
  BY DEF Matches
<1>b. /\ Usable("break", Inside(st, c).targets) = b1
      /\ Usable("continue", Inside(st, c).targets) =
            IF st.op = "loop" THEN d1 ELSE scope.continues
  BY <1>a, UsableInside
<1>c. Around(st, scope) = IF st.op = "loop" THEN [scope EXCEPT !.breaks = b1, !.continues = d1]
                          ELSE [scope EXCEPT !.breaks = b1]
  BY DEF Around
<1>d. b1 \in SUBSET Label /\ d1 \in SUBSET Label
  BY <1>4
<1> HIDE DEF b1, d1
<1> DEFINE x == Around(st, scope)
<1>5. CASE st.op = "loop"
  <2>a. x = [scope EXCEPT !.breaks = b1, !.continues = d1]
    BY <1>c, <1>5
  <2> HIDE DEF x
  <2>b. x \in Scope
    BY <1>3, <1>d, <2>a
  <2>c. x.breaks = b1 /\ x.continues = d1
    BY <2>a DEF Scope
  <2>1. x \in Scope /\ x.breaks = b1 /\ x.continues = d1
    BY <2>b, <2>c
  <2> QED
    BY <1>b, <1>5, <2>1 DEF Matches, x
<1>6. CASE st.op # "loop"
  <2>1. x \in Scope /\ x.breaks = b1 /\ x.continues = scope.continues
    BY <1>3, <1>c, <1>d, <1>6
  <2> HIDE DEF x
  <2> QED
    BY <1>b, <1>6, <2>1 DEF Matches, x
<1> QED
  BY <1>5, <1>6

\* A statement is rejected exactly when it dangles.
Deciding(low, flaws, n) ==
    \A st \in Statement[n] : \A c \in Context : \A scope \in Scope :
        Matches(c, scope) /\ "emitted" \notin flaws[<<st, scope>>] =>
            (low[<<st, c>>].rejected <=> "dangling" \in flaws[<<st, scope>>])

\* A branch is refused exactly when no target is usable (lines 197-217).
LEMMA SimpleDecided ==
    ASSUME NEW low, NEW flaws, NEW st \in Simple, NEW c \in Context, NEW scope \in Scope,
           Matches(c, scope), "emitted" \notin Flaws(flaws, st, scope)
    PROVE  Lower(low, st, c).rejected <=> "dangling" \in Flaws(flaws, st, scope)
<1>1. CASE st.op = "branch"
  <2> DEFINE C == Candidates(st.tok, st.label, c.targets)
  <2>1. st.tok \in {"break", "continue"} /\ st.label \in Label
    BY <1>1 DEF Simple
  <2>2. Flaws(flaws, st, scope) =
            When(st.label \notin (IF st.tok = "break" THEN scope.breaks ELSE scope.continues),
                 "dangling")
    BY <1>1 DEF Flaws
  <2>3. "dangling" \in Flaws(flaws, st, scope) <=> C = {}
    BY <2>1, <2>2 DEF When, Matches, Usable
  <2>4. Lower(low, st, c).rejected <=> C = {}
    BY <1>1 DEF Lower, LowerBranch, Lowered, Plain
  <2> QED
    BY <2>3, <2>4
<1>2. CASE st.op = "return"
  BY <1>2 DEF Lower, LowerReturn, Plain, Lowered, Flaws, When
<1>3. CASE st.op \in {"none", "emit", "bump", "throw", "defer"}
  BY <1>3 DEF Lower, Plain, Lowered, Flaws
<1>4. CASE st.op \in {"pass", "exit", "returnSlots", "unreachable", "assign", "signal"}
  BY <1>4 DEF Flaws
<1> QED
  BY <1>1, <1>2, <1>3, <1>4 DEF Simple

\* A statement is refused exactly when one of its parts is.
LEMMA CompoundDecided ==
    ASSUME NEW n \in Nat, NEW low, NEW flaws, Fitting(low, n), Deciding(low, flaws, n),
           NEW st \in Compound(Statement[n]), NEW c \in Context, NEW scope \in Scope,
           Matches(c, scope), "emitted" \notin Flaws(flaws, st, scope)
    PROVE  Lower(low, st, c).rejected <=> "dangling" \in Flaws(flaws, st, scope)
<1>a. /\ st.op \in {"then", "if", "shadow", "guarded", "loop", "switch", "catch", "test", "try",
                    "Try"}
      /\ st.op = "then" => st.first \in Statement[n] /\ st.rest \in Statement[n]
      /\ st.op # "then" => st.body \in Statement[n]
      /\ st.op \in {"loop", "switch"} => st.label \in Label
      /\ st.op \in {"try", "Try"} => st.handler \in Statement[n] /\ st.finalizer \in Statement[n]
  BY CompoundParts
<1>b. ASSUME NEW b \in Statement[n], NEW d \in Context, NEW around \in Scope,
             Matches(d, around), "emitted" \notin flaws[<<b, around>>]
      PROVE  low[<<b, d>>].rejected <=> "dangling" \in flaws[<<b, around>>]
  BY <1>b DEF Deciding
<1>c. ASSUME NEW b \in Statement[n], NEW d \in Context
      PROVE  low[<<b, d>>].next \in Nat /\ low[<<b, d>>].rejected \in BOOLEAN
  BY <1>c DEF Fitting, Fits
<1>d. ASSUME NEW d \in Context
      PROVE  LowerInner(low, st, d).rejected = low[<<st.body, d>>].rejected
  <2> DEFINE l == low[<<st.body, d>>]
  <2>1. PICK x : x = l.code
    OBVIOUS
  <2> QED
    BY DEF LowerInner
<1>1. CASE st.op = "then"
  <2> DEFINE a == low[<<st.first, c>>]
             d == [c EXCEPT !.next = a.next]
             b == low[<<st.rest, d>>]
  <2>1. Flaws(flaws, st, scope) = flaws[<<st.first, scope>>] \cup flaws[<<st.rest, scope>>]
    BY <1>1 DEF Flaws
  <2>2. a.rejected <=> "dangling" \in flaws[<<st.first, scope>>]
    BY <1>a, <1>b, <1>1, <2>1
  <2>3. a.next \in Nat /\ a.rejected \in BOOLEAN
    BY <1>a, <1>c, <1>1
  <2>4. d \in Context /\ d.targets = c.targets
    BY <2>3, NextContextType
  <2>5. b.rejected \in BOOLEAN
    BY <1>a, <1>c, <1>1, <2>4
  <2>6. b.rejected <=> "dangling" \in flaws[<<st.rest, scope>>]
    BY <1>a, <1>b, <1>1, <2>1, <2>4 DEF Matches
  <2>7. Lower(low, st, c).rejected = (a.rejected \/ b.rejected)
    BY <1>1 DEF Lower, LowerThen, Lowered
  <2> HIDE DEF a, b
  <2> QED
    BY <2>1, <2>2, <2>6, <2>7
<1>2. CASE st.op \in {"if", "catch"}
  <2>1. Lower(low, st, c).rejected = low[<<st.body, c>>].rejected
    BY <1>d, <1>2 DEF Lower
  <2>2. Flaws(flaws, st, scope) = flaws[<<st.body, scope>>]
    BY <1>2 DEF Flaws
  <2> QED
    BY <1>a, <1>b, <1>2, <2>1, <2>2
<1>3. CASE st.op = "shadow"
  <2> DEFINE around == [scope EXCEPT !.inShadow = TRUE]
  <2>1. Lower(low, st, c).rejected = low[<<st.body, c>>].rejected
    BY <1>d, <1>3 DEF Lower
  <2>2. Flaws(flaws, st, scope) = flaws[<<st.body, around>>]
    BY <1>3 DEF Flaws
  <2>3. around \in Scope /\ around.breaks = scope.breaks /\ around.continues = scope.continues
    BY DEF Scope
  <2> QED
    BY ZenonT(30), <1>a, <1>b, <1>3, <2>1, <2>2, <2>3 DEF Matches
<1>4. CASE st.op \in {"loop", "switch"}
  <2>1. Lower(low, st, c).rejected = low[<<st.body, Inside(st, c)>>].rejected
    BY <1>a, <1>d, <1>4, InsideType DEF Lower
  <2>2. \A k \in {"dangling", "emitted"} :
            k \in Flaws(flaws, st, scope) <=> k \in flaws[<<st.body, Around(st, scope)>>]
    BY <1>4 DEF Flaws, When, Around
  <2>3. Inside(st, c) \in Context
    BY <1>a, <1>4, InsideType
  <2>4. Around(st, scope) \in Scope /\ Matches(Inside(st, c), Around(st, scope))
    BY <1>a, <1>4, AroundMatches
  <2> QED
    BY <1>a, <1>b, <1>4, <2>1, <2>2, <2>3, <2>4
<1>5. CASE st.op = "try"
  <2> DEFINE around == [scope EXCEPT !.inTry = TRUE]
             body == low[<<st.body, ClosureContext(c, c.next)>>]
             handler == low[<<st.handler, ClosureContext(c, body.next)>>]
             finalizer == low[<<st.finalizer, ClosureContext(c, handler.next)>>]
  <2>1. Flaws(flaws, st, scope) = flaws[<<st.body, around>>] \cup flaws[<<st.handler, around>>]
                                    \cup flaws[<<st.finalizer, around>>]
    BY <1>5 DEF Flaws
  <2>2. around \in Scope /\ around.breaks = scope.breaks /\ around.continues = scope.continues
    BY DEF Scope
  <2> HIDE DEF around
  <2>3. Lower(low, st, c).rejected = (body.rejected \/ handler.rejected \/ finalizer.rejected)
    BY <1>5 DEF Lower, LowerTry, Lowered, ClosureContext
  <2>4. ASSUME NEW next \in Nat, NEW b \in {st.body, st.handler, st.finalizer}
        PROVE  /\ low[<<b, ClosureContext(c, next)>>].next \in Nat
               /\ low[<<b, ClosureContext(c, next)>>].rejected <=> "dangling" \in flaws[<<b, around>>]
    <3>1. b \in Statement[n] /\ "emitted" \notin flaws[<<b, around>>]
      BY <1>a, <1>5, <2>1
    <3>2. ClosureContext(c, next) \in Context /\ Matches(ClosureContext(c, next), around)
      BY <2>2, ClosureContextType DEF Matches
    <3> QED
      BY <1>b, <1>c, <2>2, <3>1, <3>2
  <2>5. c.next \in Nat
    BY DEF Context
  <2>6. body.next \in Nat /\ (body.rejected <=> "dangling" \in flaws[<<st.body, around>>])
    BY <2>4, <2>5
  <2> HIDE DEF body
  <2>7. handler.next \in Nat
        /\ (handler.rejected <=> "dangling" \in flaws[<<st.handler, around>>])
    BY <2>4, <2>6
  <2> HIDE DEF handler
  <2>8. finalizer.rejected <=> "dangling" \in flaws[<<st.finalizer, around>>]
    BY <2>4, <2>7
  <2> HIDE DEF finalizer
  <2> QED
    BY <2>1, <2>3, <2>6, <2>7, <2>8
<1>6. CASE st.op \in {"guarded", "test", "Try"}
  BY <1>6 DEF Flaws
<1> QED
  BY <1>a, <1>1, <1>2, <1>3, <1>4, <1>5, <1>6

\* Every statement is refused exactly when it dangles.
LEMMA LoweringDecides ==
    \A n \in Nat : Deciding(Lowering[n], Flawed[n], n)
<1> DEFINE T == {n \in Nat : Deciding(Lowering[n], Flawed[n], n)}
<1>1. 0 \in T
  BY StatementLevels, LoweringLevels, FlawedLevels, SimpleDecided DEF Deciding
<1>2. ASSUME NEW n \in Nat, n \in T PROVE n + 1 \in T
  <2>1. Below(Lowering, n + 1) = Lowering[n] /\ Below(Flawed, n + 1) = Flawed[n]
    BY DEF Below
  <2>2. ASSUME NEW st \in Statement[n + 1], NEW c \in Context, NEW scope \in Scope,
               Matches(c, scope), "emitted" \notin Flawed[n + 1][<<st, scope>>]
        PROVE  Lowering[n + 1][<<st, c>>].rejected <=> "dangling" \in Flawed[n + 1][<<st, scope>>]
    <3>1. /\ Lowering[n + 1][<<st, c>>] = Lower(Lowering[n], st, c)
          /\ Flawed[n + 1][<<st, scope>>] = Flaws(Flawed[n], st, scope)
      BY <2>1, LoweringLevels, FlawedLevels, n + 1 \in Nat
    <3>2. st \in Simple \/ st \in Compound(Statement[n])
      BY StatementLevels
    <3>3. Fitting(Lowering[n], n)
      BY LoweringFits
    <3> QED
      BY <1>2, <2>2, <3>1, <3>2, <3>3, SimpleDecided, CompoundDecided
  <2> QED
    BY <2>2 DEF Deciding
<1> HIDE DEF T
<1>3. \A n \in Nat : n \in T
  BY <1>1, <1>2, NatInduct
<1> QED
  BY <1>3 DEF T

-----------------------------------------------------------------------------
(* Invariants of the growth of a body.                                     *)

BodyInv == size \in Size /\ Written(code)

\* Every body that is grown is one that Go and Ghi take.
LEMMA BodyWritten == Spec => []BodyInv
<1>1. Init => BodyInv
  BY DEF Init, BodyInv
<1>2. BodyInv /\ [Next]_vars => BodyInv'
  <2>1. ASSUME NEW body, Grow(body), BodyInv PROVE BodyInv'
    BY <2>1 DEF Grow, BodyInv, Written, Has
  <2>2. ASSUME UNCHANGED vars, BodyInv PROVE BodyInv'
    BY <2>2 DEF vars, BodyInv, Written, Has
  <2>3. ASSUME Next PROVE \E body : Grow(body)
    BY <2>3 DEF Next, Follow, Enclose, Breakable, Protect
  <2> QED
    BY <2>1, <2>2, <2>3
<1> QED
  BY <1>1, <1>2, PTL DEF Spec

\* The function body's own context and scope.
Entry == [depth |-> 0, targets |-> <<>>, next |-> 2]

\* The context of a whole body matches the outermost scope.
LEMMA EntryType ==
    Entry \in Context /\ Outermost \in Scope /\ Matches(Entry, Outermost)
<1>1. Entry \in Context
  BY DEF Entry, Context
<1>2. Outermost \in Scope
  BY DEF Outermost, Scope
<1>3. \A tok, l : Candidates(tok, l, <<>>) = {}
  BY DEF Candidates
<1> QED
  BY <1>1, <1>2, <1>3 DEF Matches, Entry, Outermost, Usable

\* The pass refuses exactly the branches that have no target, in every body of any size
\* (line 216).
THEOREM RejectsDangling == Spec => []DanglingRejected
<1>1. BodyInv => DanglingRejected
  <2> SUFFICES ASSUME BodyInv PROVE DanglingRejected
    OBVIOUS
  <2>1. code \in Statement[Nesting] /\ Nesting \in Nat
        /\ "emitted" \notin Flawed[Nesting][<<code, Outermost>>]
    BY NestingAssumption DEF BodyInv, Written, Has
  <2>2. Rejected = Lowering[Nesting][<<code, Entry>>].rejected
    BY DEF Rejected, LowerFunction, Entry
  <2>3. Rejected <=> "dangling" \in Flawed[Nesting][<<code, Outermost>>]
    BY <2>1, <2>2, EntryType, LoweringDecides DEF Deciding
  <2> QED
    BY <2>3 DEF DanglingRejected, Has
<1> QED
  BY <1>1, BodyWritten, PTL

-----------------------------------------------------------------------------
(* What a statement does, whatever the level it is looked at.              *)

\* What a simple statement does depends on no other statements.
LEMMA SimpleAgree ==
    ASSUME NEW f, NEW g, NEW st \in Simple, NEW s
    PROVE  Do(f, st, s) = Do(g, st, s)
<1>1. st.op \in {"none", "bump", "pass", "exit", "returnSlots", "unreachable", "emit", "defer",
                 "return", "assign", "branch", "throw", "signal"}
  BY DEF Simple
<1> QED
  BY <1>1 DEF Do

\* What a statement does depends on its parts only.
LEMMA CompoundAgree ==
    ASSUME NEW S, NEW f, NEW g, Keeping(f, S),
           \A st \in S : \A s \in State : f[<<st, s>>] = g[<<st, s>>],
           NEW st \in Compound(S), NEW s \in State
    PROVE  Do(f, st, s) = Do(g, st, s)
<1>a. /\ st.op \in {"then", "if", "shadow", "guarded", "loop", "switch", "catch", "test", "try",
                    "Try"}
      /\ st.op = "then" => st.first \in S /\ st.rest \in S
      /\ st.op # "then" => st.body \in S
      /\ st.op \in {"try", "Try"} => st.handler \in S /\ st.finalizer \in S
  BY CompoundParts
<1>b. ASSUME NEW b \in S, NEW t \in State PROVE f[<<b, t>>] = g[<<b, t>>] /\ f[<<b, t>>] \in State
  BY <1>b DEF Keeping, Keeps
<1>1. CASE st.op = "then"
  BY <1>a, <1>b, <1>1 DEF Do
<1>2. CASE st.op \in {"if", "switch", "catch", "test"}
  BY <1>a, <1>b, <1>2 DEF Do
<1>3. CASE st.op = "shadow"
  <2>1. [s EXCEPT !.shadowed = TRUE, !.shadow = 0] \in State
    BY ShadowType
  <2> QED
    BY <1>a, <1>b, <1>3, <2>1 DEF Do, Shadowing
<1>4. CASE st.op = "guarded"
  <2>1. [s EXCEPT !.flow = 0] \in State
    BY KeepsUpdates DEF Keeps
  <2> QED
    BY <1>a, <1>b, <1>4, <2>1 DEF Do, Guarded
<1>5. CASE st.op = "loop"
  <2>1. ASSUME NEW i \in Nat, NEW t \in State
        PROVE  Iteration(f, st, i, t) = Iteration(g, st, i, t) /\ Iteration(f, st, i, t) \in State
    <3>1. [t EXCEPT !.iter = i] \in State
      BY DEF State
    <3>2. f[<<st.body, [t EXCEPT !.iter = i]>>] = g[<<st.body, [t EXCEPT !.iter = i]>>]
          /\ f[<<st.body, [t EXCEPT !.iter = i]>>] \in State
      BY <1>a, <1>b, <1>5, <3>1
    <3>3. \A r \in State : Completes(r, "next") \in State
      BY DEF State, Completes, Kinds
    <3> QED
      BY <3>2, <3>3 DEF Iteration
  <2>2. Looping(f, st, s) = Looping(g, st, s)
    BY <2>1 DEF Looping
  <2> QED
    BY <1>5, <2>2 DEF Do
<1>6. CASE st.op = "try"
  <2> DEFINE body == f[<<st.body, s>>]
             s1 == [body EXCEPT !.kind = "next", !.caught = body.exc]
             r == IF ~(body.kind = "throw" /\ body.exc \in Raised /\ st.handler # None) THEN body
                  ELSE f[<<st.handler, s1>>]
  <2>1. body = g[<<st.body, s>>] /\ body \in State
    BY <1>a, <1>b, <1>6
  <2> HIDE DEF body
  <2>2. s1 \in State
    BY <2>1 DEF State, Kinds
  <2>3. f[<<st.handler, s1>>] = g[<<st.handler, s1>>] /\ f[<<st.handler, s1>>] \in State
    BY <1>a, <1>b, <1>6, <2>2
  <2>4. Do(f, st, s) = Finally(f, st, r) /\ Do(g, st, s) = Finally(g, st, r)
    BY <1>6, <2>1, <2>3 DEF Do, Trying, body
  <2>5. r \in State
    BY <2>1, <2>3
  <2> HIDE DEF r
  <2>6. Completes(r, "next") \in State
    BY <2>5 DEF State, Completes, Kinds
  <2>7. f[<<st.finalizer, Completes(r, "next")>>] = g[<<st.finalizer, Completes(r, "next")>>]
    BY <1>a, <1>b, <1>6, <2>6
  <2>8. Finally(f, st, r) = Finally(g, st, r)
    BY <2>7 DEF Finally
  <2> QED
    BY <2>4, <2>8
<1>7. CASE st.op = "Try"
  <2>1. ASSUME NEW b \in S, NEW t \in State
        PROVE  CallClosure(f, b, t) = CallClosure(g, b, t) /\ CallClosure(f, b, t) \in State
    <3>0. Keeps(t, t) /\ <<>> \in Seq(Printed)
      BY DEF Keeps
    <3>1. [t EXCEPT !.defers = <<>>] \in State
      BY <3>0, KeepsUpdates, KeptTypes
    <3>2. f[<<b, [t EXCEPT !.defers = <<>>]>>] = g[<<b, [t EXCEPT !.defers = <<>>]>>]
      BY <1>b, <3>1
    <3>3. CallClosure(f, b, t) \in State
      BY ClosureKeeps DEF Keeps
    <3> QED
      BY <3>2, <3>3 DEF CallClosure
  <2> DEFINE body == CallClosure(f, st.body, s)
             s1 == [body EXCEPT !.kind = "next", !.caught = body.exc]
             r == IF ~(body.kind = "throw" /\ body.exc \in Raised /\ st.handler # None) THEN body
                  ELSE CallClosure(f, st.handler, s1)
             x == CallClosure(f, st.finalizer, Completes(r, "next"))
             y == CallClosure(g, st.finalizer, Completes(r, "next"))
  <2>2. body = CallClosure(g, st.body, s) /\ body \in State
    BY <1>a, <1>7, <2>1
  <2> HIDE DEF body
  <2>3. s1 \in State
    BY <2>2 DEF State, Kinds
  <2>4. CallClosure(f, st.handler, s1) = CallClosure(g, st.handler, s1)
        /\ CallClosure(f, st.handler, s1) \in State
    BY <1>a, <1>7, <2>1, <2>3
  <2>5. /\ Do(f, st, s) = IF x.kind = "next" THEN [x EXCEPT !.kind = r.kind, !.exc = r.exc] ELSE x
        /\ Do(g, st, s) = IF y.kind = "next" THEN [y EXCEPT !.kind = r.kind, !.exc = r.exc] ELSE y
    <3>1. Do(f, st, s) = CallTry(f, st, s) /\ Do(g, st, s) = CallTry(g, st, s)
      BY <1>7 DEF Do
    <3>2. CallTry(f, st, s) = IF x.kind = "next" THEN [x EXCEPT !.kind = r.kind, !.exc = r.exc]
                              ELSE x
      BY DEF CallTry, body
    <3>3. CallTry(g, st, s) = IF y.kind = "next" THEN [y EXCEPT !.kind = r.kind, !.exc = r.exc]
                              ELSE y
      BY <2>2, <2>4 DEF CallTry
    <3> QED
      BY <3>1, <3>2, <3>3
  <2>6. r \in State
    BY <2>2, <2>4
  <2> HIDE DEF r
  <2>7. Completes(r, "next") \in State
    BY <2>6 DEF State, Completes, Kinds
  <2>8. x = y
    BY <1>a, <1>7, <2>1, <2>7
  <2> HIDE DEF x, y
  <2> QED
    BY <2>5, <2>8
<1> QED
  BY <1>a, <1>1, <1>2, <1>3, <1>4, <1>5, <1>6, <1>7

\* The levels agree about what a statement does.
LEMMA LevelsAgree ==
    ASSUME NEW m \in Nat, NEW n \in Nat, NEW st \in Statement[m], st \in Statement[n],
           NEW s \in State
    PROVE  Running[m][<<st, s>>] = Running[n][<<st, s>>]
<1> DEFINE Same(k) == \A b \in Statement[k] : \A t \in State :
                        Running[k][<<b, t>>] = Running[k + 1][<<b, t>>]
           T == {k \in Nat : Same(k)}
           Above(k, d) == \A b \in Statement[k] : \A t \in State :
                            Running[k][<<b, t>>] = Running[k + d][<<b, t>>]
           U(k) == {d \in Nat : Above(k, d)}
<1>0. \A k \in Nat : k + 1 \in Nat /\ Below(Running, k + 1) = Running[k]
                     /\ Statement[k] \subseteq Statement[k + 1]
  BY StatementsGrow DEF Below
<1>1. 0 \in T
  <2>1. ASSUME NEW b \in Statement[0], NEW t \in State
        PROVE  Running[0][<<b, t>>] = Running[0 + 1][<<b, t>>]
    <3>1. b \in Simple /\ b \in Statement[0 + 1] /\ 0 + 1 \in Nat
      BY <1>0, StatementLevels, 0 \in Nat
    <3>2. Running[0][<<b, t>>] = Do(Below(Running, 0), b, t)
      BY RunningLevels, 0 \in Nat
    <3>3. Running[0 + 1][<<b, t>>] = Do(Below(Running, 0 + 1), b, t)
      BY <3>1, RunningLevels
    <3> QED
      BY <3>1, <3>2, <3>3, SimpleAgree
  <2> QED
    BY <2>1
<1>2. ASSUME NEW k \in Nat, k \in T PROVE k + 1 \in T
  <2>1. ASSUME NEW b \in Statement[k + 1], NEW t \in State
        PROVE  Running[k + 1][<<b, t>>] = Running[(k + 1) + 1][<<b, t>>]
    <3>1. k + 1 \in Nat /\ (k + 1) + 1 \in Nat /\ b \in Statement[(k + 1) + 1]
      BY <1>0
    <3>2. Running[k + 1][<<b, t>>] = Do(Running[k], b, t)
      BY <1>0, <3>1, RunningLevels
    <3>3. Running[(k + 1) + 1][<<b, t>>] = Do(Running[k + 1], b, t)
      BY <1>0, <3>1, RunningLevels
    <3>4. b \in Simple \/ b \in Compound(Statement[k])
      BY StatementLevels
    <3>5. Keeping(Running[k], Statement[k])
      BY RunningKeeps
    <3> QED
      BY <1>2, <3>2, <3>3, <3>4, <3>5, SimpleAgree, CompoundAgree
  <2> QED
    BY <2>1, <1>0
<1> HIDE DEF T, Same
<1>3. \A k \in Nat : k \in T
  BY <1>1, <1>2, NatInduct
<1>4. ASSUME NEW k \in Nat, NEW d \in Nat PROVE Above(k, d)
  <2>1. 0 \in U(k)
    BY k + 0 = k
  <2>2. ASSUME NEW e \in Nat, e \in U(k) PROVE e + 1 \in U(k)
    <3>1. k + e \in Nat /\ k + (e + 1) = (k + e) + 1 /\ k <= k + e
      OBVIOUS
    <3>2. Same(k + e) /\ Statement[k] \subseteq Statement[k + e]
      BY <1>3, <3>1, StatementsGrow DEF T
    <3> QED
      BY <2>2, <3>1, <3>2 DEF Same
  <2> HIDE DEF U
  <2>3. \A e \in Nat : e \in U(k)
    BY <2>1, <2>2, NatInduct
  <2> QED
    BY <2>3 DEF U
<1>5. ASSUME NEW k \in Nat, NEW j \in Nat, k <= j, st \in Statement[k]
      PROVE  Running[k][<<st, s>>] = Running[j][<<st, s>>]
  <2>1. j - k \in Nat /\ k + (j - k) = j
    BY <1>5
  <2>2. Above(k, j - k)
    BY <1>4, <2>1
  <2> QED
    BY <1>5, <2>1, <2>2
<1> HIDE DEF Above
<1>6. CASE m <= n
  BY <1>5, <1>6
<1>7. CASE n <= m
  BY <1>5, <1>7
<1> QED
  BY <1>6, <1>7

\* Every statement, and what it does.
Every == UNION {Statement[n] : n \in Nat}

Run == [x \in Every \X State |-> Running[CHOOSE n \in Nat : x[1] \in Statement[n]][x]]

\* The level of a statement does not matter for what it does.
LEMMA RunLevel ==
    ASSUME NEW n \in Nat, NEW st \in Statement[n], NEW s \in State
    PROVE  Run[<<st, s>>] = Running[n][<<st, s>>]
<1> DEFINE k == CHOOSE k \in Nat : st \in Statement[k]
<1>1. k \in Nat /\ st \in Statement[k]
  OBVIOUS
<1>2. Run[<<st, s>>] = Running[k][<<st, s>>]
  BY DEF Run, Every
<1> HIDE DEF k
<1> QED
  BY <1>1, <1>2, LevelsAgree

\* The statements of all levels, and what they are made of.
LEMMA EveryStatement ==
    /\ \A st \in Every : \E n \in Nat : st \in Statement[n]
    /\ \A n \in Nat : Statement[n] \subseteq Every
    /\ Simple \subseteq Every
    /\ Compound(Every) \subseteq Every
    /\ Every \subseteq Simple \cup Compound(Every)
<1>1. \A st \in Every : \E n \in Nat : st \in Statement[n]
  BY DEF Every
<1>2. \A n \in Nat : Statement[n] \subseteq Every
  BY DEF Every
<1>3. Simple \subseteq Every
  BY <1>2, StatementLevels, 0 \in Nat
<1>4. ASSUME NEW a \in Every, NEW b \in Every, NEW d \in Every
      PROVE  \E n \in Nat : a \in Statement[n] /\ b \in Statement[n] /\ d \in Statement[n]
  <2>1. PICK i \in Nat : a \in Statement[i]
    BY <1>1
  <2>2. PICK j \in Nat : b \in Statement[j]
    BY <1>1
  <2>3. PICK k \in Nat : d \in Statement[k]
    BY <1>1
  <2>4. i + j + k \in Nat /\ i <= i + j + k /\ j <= i + j + k /\ k <= i + j + k
    OBVIOUS
  <2> QED
    BY <2>1, <2>2, <2>3, <2>4, StatementsGrow
<1>5. \A st \in Compound(Every) : \E n \in Nat : st \in Compound(Statement[n])
  <2> TAKE st \in Compound(Every)
  <2>1. CASE st.op = "then"
    <3>1. PICK n \in Nat : st.first \in Statement[n] /\ st.rest \in Statement[n]
      BY <1>4, <2>1, CompoundParts
    <3> QED
      BY <2>1, <3>1 DEF Compound
  <2>2. CASE st.op \in {"try", "Try"}
    <3>1. PICK n \in Nat : st.body \in Statement[n] /\ st.handler \in Statement[n]
                           /\ st.finalizer \in Statement[n]
      BY <1>4, <2>2, CompoundParts
    <3> QED
      BY <2>2, <3>1 DEF Compound
  <2>3. CASE st.op \notin {"then", "try", "Try"}
    <3>1. PICK n \in Nat : st.body \in Statement[n]
      BY <1>1, <2>3, CompoundParts
    <3> QED
      BY <2>3, <3>1 DEF Compound
  <2> QED
    BY <2>1, <2>2, <2>3
<1>6. Compound(Every) \subseteq Every
  BY <1>2, <1>5, CompoundStatements, \A n \in Nat : n + 1 \in Nat /\ n < n + 1
<1>7. Every \subseteq Simple \cup Compound(Every)
  <2>1. ASSUME NEW n \in Nat PROVE Statement[n] \subseteq Simple \cup Compound(Every)
    <3>1. Statement[n] \subseteq Simple \cup Compound(Statement[n])
      BY StatementLevels, StatementsGrow, n + 1 \in Nat, n <= n + 1
    <3>2. \A A, B : A \subseteq B => Compound(A) \subseteq Compound(B)
      BY DEF Compound
    <3> QED
      BY <1>2, <3>1, <3>2
  <2> QED
    BY <1>1, <2>1
<1> QED
  BY <1>1, <1>2, <1>3, <1>6, <1>7

\* Run follows the rules of Do, and keeps what statements keep.
LEMMA RunDoes ==
    ASSUME NEW st \in Every, NEW s \in State
    PROVE  Run[<<st, s>>] = Do(Run, st, s) /\ Keeps(s, Run[<<st, s>>])
<1>1. PICK n \in Nat : st \in Statement[n]
  BY EveryStatement
<1>2. n + 1 \in Nat /\ st \in Statement[n + 1] /\ Below(Running, n + 1) = Running[n]
  BY <1>1, StatementsGrow DEF Below
<1>3. Run[<<st, s>>] = Do(Running[n], st, s)
  BY <1>2, RunLevel, RunningLevels
<1>4. Keeping(Running[n], Statement[n])
  BY RunningKeeps
<1>5. \A b \in Statement[n] : \A t \in State : Running[n][<<b, t>>] = Run[<<b, t>>]
  BY RunLevel
<1>6. st \in Simple \/ st \in Compound(Statement[n])
  BY <1>2, StatementLevels
<1>7. Do(Running[n], st, s) = Do(Run, st, s)
  BY <1>4, <1>5, <1>6, SimpleAgree, CompoundAgree
<1>8. Keeps(s, Run[<<st, s>>])
  BY <1>1, <1>4, <1>5 DEF Keeping
<1> QED
  BY <1>3, <1>7, <1>8

-----------------------------------------------------------------------------
(* Terminating statements.                                                 *)

\* A terminating statement does not run to its end.
Ending(ends, n) ==
    \A st \in Statement[n] : \A s \in State : ends[st] => Run[<<st, s>>].kind # "next"

\* A try does not complete normally if its block or its finalizer does not.
LEMMA FinallyEnds ==
    ASSUME NEW st, NEW r, r.kind # "next" \/ Run[<<st.finalizer, Completes(r, "next")>>].kind # "next",
           Run[<<st.finalizer, Completes(r, "next")>>] \in State
    PROVE  Finally(Run, st, r).kind # "next"
<1> DEFINE f == Run[<<st.finalizer, Completes(r, "next")>>]
           x == f.lost \/ (IF r.kind = "throw" THEN f.kind = "return"
                           ELSE r.kind = "return" /\ f.kind # "next")
           g == [f EXCEPT !.lost = x]
<1>1. Finally(Run, st, r) =
        IF f.kind = "next" \/ (r.kind = "throw" /\ f.kind # "throw")
        THEN [g EXCEPT !.kind = r.kind, !.label = r.label, !.exc = r.exc, !.value = r.value] ELSE g
  BY DEF Finally
<1> HIDE DEF x, f
<1>2. f \in State
  BY DEF f
<1>3. g.kind = f.kind
  BY <1>2 DEF State
<1>4. \A a, b, d, e : [g EXCEPT !.kind = a, !.label = b, !.exc = d, !.value = e].kind = a
  BY <1>2 DEF State
<1> HIDE DEF g
<1>5. r.kind # "next" \/ f.kind # "next"
  BY DEF f
<1> QED
  BY <1>1, <1>3, <1>4, <1>5

\* A statement that blockTerminates accepts does not complete normally.
LEMMA CompoundEnds ==
    ASSUME NEW n \in Nat, NEW ends, Ending(ends, n), NEW st \in Compound(Statement[n]),
           NEW s \in State, Terminates(ends, st)
    PROVE  Run[<<st, s>>].kind # "next"
<1>a. /\ st.op \in {"then", "if", "shadow", "guarded", "loop", "switch", "catch", "test", "try",
                    "Try"}
      /\ st.op = "then" => st.first \in Statement[n] /\ st.rest \in Statement[n]
      /\ st.op # "then" => st.body \in Statement[n]
      /\ st.op \in {"try", "Try"} => st.handler \in Statement[n] /\ st.finalizer \in Statement[n]
  BY CompoundParts
<1>b. Statement[n] \subseteq Every /\ Run[<<st, s>>] = Do(Run, st, s)
  <2>1. st \in Statement[n + 1] /\ n + 1 \in Nat
    BY StatementLevels
  <2>2. st \in Every
    BY <2>1, EveryStatement
  <2> QED
    BY <2>2, RunDoes, EveryStatement
<1>c. ASSUME NEW b \in Statement[n], NEW t \in State
      PROVE  Run[<<b, t>>] \in State /\ (ends[b] => Run[<<b, t>>].kind # "next")
  BY <1>b, <1>c, RunDoes DEF Ending, Keeps
<1>1. CASE st.op = "then"
  <2>1. ends[st.rest]
    BY <1>1 DEF Terminates
  <2>2. Run[<<st.first, s>>] \in State
    BY <1>a, <1>c, <1>1
  <2> QED
    BY <1>a, <1>b, <1>c, <1>1, <2>1, <2>2 DEF Do
<1>2. CASE st.op = "shadow"
  <2> DEFINE s1 == [s EXCEPT !.shadowed = TRUE, !.shadow = 0]
             r == Run[<<st.body, s1>>]
  <2>1. s1 \in State
    BY ShadowType
  <2>2. ends[st.body]
    BY <1>2 DEF Terminates
  <2> HIDE DEF s1
  <2>3. r \in State /\ r.kind # "next"
    BY <1>a, <1>c, <1>2, <2>1, <2>2
  <2> HIDE DEF r
  <2>4. [r EXCEPT !.shadowed = s.shadowed, !.shadow = s.shadow].kind = r.kind
    BY <2>3 DEF State
  <2> QED
    BY <1>b, <1>2, <2>3, <2>4 DEF Do, Shadowing, s1, r
<1>3. CASE st.op = "catch"
  <2>1. ends[st.body]
    BY <1>3 DEF Terminates
  <2>2. Throws(s, s.caught).kind = "throw"
    BY DEF Throws, State
  <2> QED
    BY <1>a, <1>b, <1>c, <1>3, <2>1, <2>2 DEF Do
<1>4. CASE st.op = "try"
  <2> DEFINE body == Run[<<st.body, s>>]
             s1 == [body EXCEPT !.kind = "next", !.caught = body.exc]
             r == IF ~(body.kind = "throw" /\ body.exc \in Raised /\ st.handler # None) THEN body
                  ELSE Run[<<st.handler, s1>>]
  <2>1. body \in State /\ (ends[st.body] => body.kind # "next")
    BY <1>a, <1>c, <1>4
  <2> HIDE DEF body
  <2>2. s1 \in State
    BY <2>1 DEF State, Kinds
  <2> HIDE DEF s1
  <2>3. /\ Run[<<st.handler, s1>>] \in State
        /\ ends[st.handler] => Run[<<st.handler, s1>>].kind # "next"
    BY <1>a, <1>c, <1>4, <2>2
  <2>4. /\ r \in State
        /\ ends[st.body] /\ (st.handler = None \/ ends[st.handler]) => r.kind # "next"
    BY <2>1, <2>3
  <2>5. Do(Run, st, s) = Finally(Run, st, r)
    BY <1>4 DEF Do, Trying, body, s1
  <2> HIDE DEF r
  <2>6. Completes(r, "next") \in State
    BY <2>4 DEF State, Completes, Kinds
  <2>7. /\ Run[<<st.finalizer, Completes(r, "next")>>] \in State
        /\ ends[st.finalizer] => Run[<<st.finalizer, Completes(r, "next")>>].kind # "next"
    BY <1>a, <1>c, <1>4, <2>6
  <2>8. ends[st.finalizer] \/ (ends[st.body] /\ (st.handler = None \/ ends[st.handler]))
    BY <1>4 DEF Terminates
  <2> QED
    BY <1>b, <2>4, <2>5, <2>7, <2>8, FinallyEnds
<1> QED
  BY <1>a, <1>1, <1>2, <1>3, <1>4 DEF Terminates

\* What blockTerminates (lines 382-415) accepts never runs on to what follows.
LEMMA TerminatingEnds ==
    \A n \in Nat : Ending(Terminating[n], n)
<1> DEFINE T == {n \in Nat : Ending(Terminating[n], n)}
<1>0. ASSUME NEW ends, NEW st \in Simple, NEW s \in State, Terminates(ends, st)
      PROVE  Run[<<st, s>>].kind # "next"
  <2>1. st.op \in {"return", "throw"}
    BY <1>0 DEF Terminates, Simple
  <2>2. Run[<<st, s>>] = Do(Run, st, s)
    BY EveryStatement, RunDoes
  <2> QED
    BY <2>1, <2>2 DEF Do, Returns, Throws, State
<1>1. 0 \in T
  BY <1>0, StatementLevels, TerminatingLevels DEF Ending
<1>2. ASSUME NEW n \in Nat, n \in T PROVE n + 1 \in T
  <2>1. Below(Terminating, n + 1) = Terminating[n]
    BY DEF Below
  <2>2. ASSUME NEW st \in Statement[n + 1], NEW s \in State, Terminating[n + 1][st]
        PROVE  Run[<<st, s>>].kind # "next"
    <3>1. Terminates(Terminating[n], st)
      BY <2>1, <2>2, TerminatingLevels, n + 1 \in Nat
    <3>2. st \in Simple \/ st \in Compound(Statement[n])
      BY StatementLevels
    <3> QED
      BY <1>0, <1>2, <3>1, <3>2, CompoundEnds
  <2> QED
    BY <2>2 DEF Ending
<1> HIDE DEF T
<1>3. \A n \in Nat : n \in T
  BY <1>1, <1>2, NatInduct
<1> QED
  BY <1>3 DEF T

-----------------------------------------------------------------------------
(* The targets around a statement, and their codes.                        *)

\* No two targets have one label.
Unlike(a, b) == a.label = "" \/ a.label # b.label

\* Codes grow from the outside in, from 2 up, and no label is used twice.
WellNested(c) ==
    /\ c \in Context
    /\ c.next >= 2
    /\ \A i \in 1 .. Len(c.targets) :
          /\ c.targets[i].depth <= c.depth
          /\ c.targets[i].breakCode >= 2
          /\ c.targets[i].breakCode < c.next
          /\ c.targets[i].continueCode # 0 =>
                /\ c.targets[i].continueCode = c.targets[i].breakCode + 1
                /\ c.targets[i].continueCode < c.next
          /\ \A j \in 1 .. Len(c.targets) : j < i =>
                /\ c.targets[j].breakCode < c.targets[i].breakCode
                /\ c.targets[j].continueCode < c.targets[i].breakCode
                /\ Unlike(c.targets[i], c.targets[j])

\* No target around has the label of st.
Unused(st, c) == st.label = "" \/ st.label \notin Usable("break", c.targets)

\* The parts of a context.
LEMMA ContextType ==
    ASSUME NEW c \in Context
    PROVE  /\ Len(c.targets) \in Nat /\ c.next \in Nat /\ c.depth \in Nat
           /\ c.targets \in Seq(Targets)
BY DEF Context

\* A well-nested context is a context.
LEMMA NestedType ==
    ASSUME NEW c, WellNested(c)
    PROVE  c \in Context /\ c.next >= 2
BY DEF WellNested

\* The parts of a target.
LEMMA TargetType ==
    ASSUME NEW c \in Context, NEW i \in 1 .. Len(c.targets)
    PROVE  /\ c.targets[i] \in Targets
           /\ c.targets[i].label \in Label /\ c.targets[i].depth \in Nat
           /\ c.targets[i].breakCode \in Nat /\ c.targets[i].continueCode \in Nat
<1>1. c.targets[i] \in Targets
  BY DEF Context
<1> QED
  BY <1>1 DEF Targets

\* Later in a block, and in a closure, a context stays well nested.
LEMMA NestedElsewhere ==
    ASSUME NEW c, WellNested(c), NEW next \in Nat, next >= c.next
    PROVE  /\ WellNested([c EXCEPT !.next = next])
           /\ WellNested(ClosureContext(c, next))
<1>1. c \in Context /\ c.next \in Nat /\ c.depth \in Nat /\ c.next >= 2
  BY NestedType, ContextType
<1>2. ASSUME NEW d, d \in Context, d.targets = c.targets, d.depth \in Nat, d.depth >= c.depth,
             d.next = next
      PROVE  WellNested(d)
  <2>1. d.next >= 2
    BY <1>1, <1>2
  <2>2. ASSUME NEW i \in 1 .. Len(d.targets)
        PROVE  /\ d.targets[i].depth <= d.depth
               /\ d.targets[i].breakCode < d.next
               /\ d.targets[i].continueCode # 0 => d.targets[i].continueCode < d.next
    <3>1. /\ c.targets[i].depth \in Nat /\ c.targets[i].breakCode \in Nat
          /\ c.targets[i].continueCode \in Nat
      BY <1>1, <1>2, TargetType
    <3>2. /\ c.targets[i].depth <= c.depth /\ c.targets[i].breakCode < c.next
          /\ c.targets[i].continueCode # 0 => c.targets[i].continueCode < c.next
      BY <1>2 DEF WellNested
    <3> QED
      BY SMTT(30), <1>1, <1>2, <3>1, <3>2
  <2>3. ASSUME NEW i \in 1 .. Len(d.targets)
        PROVE  /\ d.targets[i].breakCode >= 2
               /\ d.targets[i].continueCode # 0 =>
                     d.targets[i].continueCode = d.targets[i].breakCode + 1
               /\ \A j \in 1 .. Len(d.targets) : j < i =>
                     /\ d.targets[j].breakCode < d.targets[i].breakCode
                     /\ d.targets[j].continueCode < d.targets[i].breakCode
                     /\ Unlike(d.targets[i], d.targets[j])
    BY <1>2 DEF WellNested
  <2> QED
    BY <1>2, <2>1, <2>2, <2>3 DEF WellNested
<1>3. WellNested([c EXCEPT !.next = next])
  <2>1. c.depth >= c.depth
    BY <1>1
  <2> QED
    BY <1>1, <1>2, <2>1, NextContextType
<1>4. WellNested(ClosureContext(c, next))
  <2>1. c.depth + 1 >= c.depth /\ c.depth + 1 \in Nat
    BY <1>1
  <2> QED
    BY <1>1, <1>2, <2>1, ClosureContextType
<1> QED
  BY <1>3, <1>4

\* Inside a loop or switch with a new label it stays well nested.
LEMMA NestedInside ==
    ASSUME NEW c, WellNested(c), NEW st, st.label \in Label, Unused(st, c)
    PROVE  WellNested(Inside(st, c))
<1> DEFINE target == [label |-> st.label, depth |-> c.depth, breakCode |-> c.next,
                      continueCode |-> IF st.op = "loop" THEN c.next + 1 ELSE 0]
           next == c.next + IF st.op = "loop" THEN 2 ELSE 1
           N == Len(c.targets)
           d == Inside(st, c)
<1>0. c \in Context /\ N \in Nat /\ c.next >= 2
  BY NestedType, ContextType
<1>1. c.next \in Nat /\ c.depth \in Nat /\ c.targets \in Seq(Targets)
  BY <1>0, ContextType
<1>2. target \in Targets
  BY <1>1 DEF Targets
<1>3. d \in Context /\ d.targets = Append(c.targets, target) /\ d.next = next /\ d.depth = c.depth
  <2>1. d \in Context /\ d.depth = c.depth
    BY <1>0, InsideType
  <2>2. d.targets = Append(c.targets, target) /\ d.next = next
    BY <1>0 DEF Inside, Context
  <2> QED
    BY <2>1, <2>2
<1>4. /\ target.label = st.label /\ target.depth = c.depth /\ target.breakCode = c.next
      /\ target.continueCode # 0 => target.continueCode = c.next + 1 /\ next = c.next + 2
  BY <1>1
<1>5. next \in Nat /\ next > c.next
  BY <1>1
<1> HIDE DEF target, next, d
<1>6. /\ Len(d.targets) = N + 1 /\ d.targets[N + 1] = target
      /\ \A i \in 1 .. N : d.targets[i] = c.targets[i]
  BY <1>0, <1>1, <1>2, <1>3
<1>7. ASSUME NEW i \in 1 .. N PROVE Unlike(target, c.targets[i])
  <2>1. st.label = c.targets[i].label => i \in Candidates("break", st.label, c.targets)
    BY DEF Candidates
  <2>2. st.label = "" \/ st.label # c.targets[i].label
    BY <2>1 DEF Usable, Unused
  <2> QED
    BY <1>4, <2>2 DEF Unlike
<1>8. ASSUME NEW i \in 1 .. (N + 1)
      PROVE  /\ d.targets[i].depth <= d.depth
             /\ d.targets[i].breakCode >= 2
             /\ d.targets[i].breakCode < d.next
             /\ d.targets[i].continueCode # 0 =>
                   /\ d.targets[i].continueCode = d.targets[i].breakCode + 1
                   /\ d.targets[i].continueCode < d.next
  <2>1. CASE i = N + 1
    BY <1>0, <1>1, <1>3, <1>4, <1>5, <1>6, <2>1
  <2>2. CASE i \in 1 .. N
    <3>1. /\ c.targets[i].depth \in Nat /\ c.targets[i].breakCode \in Nat
          /\ c.targets[i].continueCode \in Nat
      BY <1>0, <2>2, TargetType
    <3>2. /\ c.targets[i].depth <= c.depth
          /\ c.targets[i].breakCode >= 2
          /\ c.targets[i].breakCode < c.next
          /\ c.targets[i].continueCode # 0 =>
                /\ c.targets[i].continueCode = c.targets[i].breakCode + 1
                /\ c.targets[i].continueCode < c.next
      BY <2>2 DEF WellNested
    <3> QED
      BY <1>1, <1>3, <1>5, <1>6, <2>2, <3>1, <3>2
  <2> QED
    BY <1>0, <2>1, <2>2
<1>9. ASSUME NEW i \in 1 .. (N + 1), NEW j \in 1 .. (N + 1), j < i
      PROVE  /\ d.targets[j].breakCode < d.targets[i].breakCode
             /\ d.targets[j].continueCode < d.targets[i].breakCode
             /\ Unlike(d.targets[i], d.targets[j])
  <2>0. j \in 1 .. N
    BY <1>0, <1>9
  <2>1. CASE i = N + 1
    <3>1. c.targets[j].breakCode \in Nat /\ c.targets[j].continueCode \in Nat
      BY <1>0, <2>0, TargetType
    <3>2. /\ c.targets[j].breakCode < c.next
          /\ c.targets[j].continueCode # 0 => c.targets[j].continueCode < c.next
      BY <2>0 DEF WellNested
    <3>3. Unlike(target, c.targets[j])
      BY <1>7, <2>0
    <3> QED
      BY SMTT(30), <1>0, <1>1, <1>4, <1>6, <2>0, <2>1, <3>1, <3>2, <3>3
  <2>2. CASE i \in 1 .. N
    BY <1>6, <1>9, <2>0, <2>2 DEF WellNested
  <2> QED
    BY <1>0, <2>1, <2>2
<1>10. d.next >= 2
  BY <1>0, <1>1, <1>3, <1>5
<1> QED
  <2>1. WellNested(d)
    BY <1>3, <1>6, <1>8, <1>9, <1>10 DEF WellNested
  <2> QED
    BY <2>1 DEF d

\* The innermost target that a branch may mean.
Means(tok, label, targets, i) ==
    /\ i \in Candidates(tok, label, targets)
    /\ \A j \in Candidates(tok, label, targets) : j <= i

\* The target a branch means is the innermost candidate.
LEMMA MeantIsInnermost ==
    ASSUME NEW c \in Context, NEW tok, NEW label
    PROVE  /\ \A i : Means(tok, label, c.targets, i) =>
                        i \in 1 .. Len(c.targets) /\ Max(Candidates(tok, label, c.targets)) = i
           /\ Candidates(tok, label, c.targets) # {} =>
                Means(tok, label, c.targets, Max(Candidates(tok, label, c.targets)))
<1> DEFINE C == Candidates(tok, label, c.targets)
<1>1. C \subseteq 1 .. Len(c.targets) /\ Len(c.targets) \in Nat
  BY ContextType DEF Candidates
<1> HIDE DEF C
<1>2. C # {} => Max(C) \in C /\ \A i \in C : i <= Max(C)
  BY <1>1, Innermost
<1>3. ASSUME NEW i, i \in C, \A j \in C : j <= i
      PROVE  i \in 1 .. Len(c.targets) /\ Max(C) = i
  <2>1. Max(C) \in C /\ i <= Max(C) /\ Max(C) <= i
    BY <1>2, <1>3
  <2>2. i \in 1 .. Len(c.targets) /\ Max(C) \in 1 .. Len(c.targets)
    BY <1>1, <1>3, <2>1, Zenon
  <2>3. i \in Nat /\ Max(C) \in Nat
    BY <1>1, <2>2
  <2> QED
    BY <2>1, <2>2, <2>3
<1> QED
  BY <1>2, <1>3 DEF C, Means

\* A signal stands for one kind of branch and one target.
LEMMA CodesDiffer ==
    ASSUME NEW c, WellNested(c), NEW i \in 1 .. Len(c.targets), NEW j \in 1 .. Len(c.targets),
           NEW tok \in {"break", "continue"}, NEW other \in {"break", "continue"},
           CodeOf(tok, c.targets[i]) = CodeOf(other, c.targets[j]),
           CodeOf(tok, c.targets[i]) # 0
    PROVE  i = j /\ tok = other
<1>1. c \in Context /\ Len(c.targets) \in Nat
  BY NestedType, ContextType
<1>2. ASSUME NEW k \in {i, j}
      PROVE  /\ c.targets[k].breakCode \in Nat /\ c.targets[k].continueCode \in Nat
             /\ c.targets[k].breakCode >= 2
             /\ c.targets[k].continueCode # 0 =>
                    c.targets[k].continueCode = c.targets[k].breakCode + 1
  BY <1>1, TargetType DEF WellNested
<1>3. ASSUME NEW k \in {i, j}, NEW l \in {i, j}, k < l
      PROVE  /\ c.targets[k].breakCode < c.targets[l].breakCode
             /\ c.targets[k].continueCode < c.targets[l].breakCode
  BY <1>3 DEF WellNested
<1>4. i = j
  <2>1. ~(i < j)
    BY <1>1, <1>2, <1>3 DEF CodeOf
  <2>2. ~(j < i)
    BY <1>1, <1>2, <1>3 DEF CodeOf
  <2> QED
    BY <1>1, <2>1, <2>2
<1> QED
  BY <1>2, <1>4 DEF CodeOf

\* The code of a possible target is none of the codes 0 and 1.
LEMMA CandidateCode ==
    ASSUME NEW c, WellNested(c), NEW tok \in {"break", "continue"}, NEW label,
           NEW i \in Candidates(tok, label, c.targets)
    PROVE  /\ i \in 1 .. Len(c.targets)
           /\ CodeOf(tok, c.targets[i]) \in Nat /\ CodeOf(tok, c.targets[i]) >= 2
<1>1. c \in Context /\ i \in 1 .. Len(c.targets)
  BY DEF WellNested, Candidates
<1>2. c.targets[i].breakCode \in Nat /\ c.targets[i].continueCode \in Nat
  BY <1>1, TargetType
<1>3. /\ c.targets[i].breakCode >= 2
      /\ c.targets[i].continueCode # 0 => c.targets[i].continueCode = c.targets[i].breakCode + 1
  BY <1>1 DEF WellNested
<1>4. tok = "continue" => c.targets[i].continueCode # 0
  BY DEF Candidates
<1> QED
  BY <1>1, <1>2, <1>3, <1>4 DEF CodeOf

-----------------------------------------------------------------------------
(* What emitted statements do.                                             *)

\* A sequence does the rest only if the first part completes normally.
LEMMA RunSequence ==
    ASSUME NEW a \in Every, NEW b \in Every, NEW s \in State
    PROVE  /\ Then(a, b) \in Every
           /\ Run[<<Then(a, b), s>>] =
                  IF Run[<<a, s>>].kind = "next" THEN Run[<<b, Run[<<a, s>>]>>] ELSE Run[<<a, s>>]
<1>1. Then(a, b) \in Every
  BY EveryStatement DEF Compound, Then
<1>2. Run[<<Then(a, b), s>>] = Do(Run, Then(a, b), s)
  BY <1>1, RunDoes
<1> QED
  BY <1>1, <1>2 DEF Do, Then

\* An empty block does nothing.
LEMMA RunNone ==
    ASSUME NEW s \in State
    PROVE  None \in Every /\ Run[<<None, s>>] = s
<1>1. None \in Every
  BY EveryStatement DEF Simple, None
<1> QED
  BY <1>1, RunDoes DEF Do, None

\* Setting the signal.
LEMMA RunSignal ==
    ASSUME NEW signal \in Nat, NEW s \in State
    PROVE  Signal(signal) \in Every /\ Run[<<Signal(signal), s>>] = [s EXCEPT !.flow = signal]
<1>1. Signal(signal) \in Every
  BY EveryStatement DEF Simple, Signal
<1> QED
  BY <1>1, RunDoes DEF Do, Signal

\* A test of the signal.
LEMMA RunTest ==
    ASSUME NEW signal \in Nat, NEW body \in Every, NEW s \in State
    PROVE  /\ Test(signal, body) \in Every
           /\ Run[<<Test(signal, body), s>>] = IF s.flow = signal THEN Run[<<body, s>>] ELSE s
<1>1. Test(signal, body) \in Every
  BY EveryStatement DEF Compound, Test
<1> QED
  BY <1>1, RunDoes DEF Do, Test

\* A branch.
LEMMA RunBranch ==
    ASSUME NEW tok \in {"break", "continue"}, NEW label \in Label, NEW s \in State
    PROVE  /\ Branch(tok, label) \in Every
           /\ Run[<<Branch(tok, label), s>>] = [s EXCEPT !.kind = tok, !.label = label]
<1>1. Branch(tok, label) \in Every
  BY EveryStatement DEF Simple, Branch
<1> QED
  BY <1>1, RunDoes DEF Do, Branch

\* Where the value of a return is put.
Assigned(s, v) == IF s.named THEN SetVisible(s, v) ELSE [s EXCEPT !.slot = v]

\* The other statements that occur in emitted code only.
LEMMA RunEmitted ==
    ASSUME NEW s \in State
    PROVE  /\ Exit \in Every /\ Run[<<Exit, s>>] = Completes(s, "return")
           /\ Pass \in Every
           /\ Run[<<Pass, s>>] = IF s.flow # 0 THEN Completes(s, "return") ELSE s
           /\ ReturnSlots \in Every
           /\ Run[<<ReturnSlots, s>>] = Returns(s, IF s.named THEN Visible(s) ELSE s.slot)
           /\ \A v \in Int : Assign(v) \in Every /\ Run[<<Assign(v), s>>] = Assigned(s, v)
<1>1. Exit \in Every /\ Pass \in Every /\ ReturnSlots \in Every
  BY EveryStatement DEF Simple, Exit, Pass, ReturnSlots
<1>2. \A v \in Int : Assign(v) \in Every
  BY EveryStatement DEF Simple, Assign
<1>3. Run[<<Exit, s>>] = Completes(s, "return")
  BY <1>1, RunDoes DEF Do, Exit
<1>4. Run[<<Pass, s>>] = IF s.flow # 0 THEN Completes(s, "return") ELSE s
  BY <1>1, RunDoes DEF Do, Pass
<1>5. Run[<<ReturnSlots, s>>] = Returns(s, IF s.named THEN Visible(s) ELSE s.slot)
  BY <1>1, RunDoes DEF Do, ReturnSlots
<1>6. \A v \in Int : Run[<<Assign(v), s>>] = Assigned(s, v)
  BY <1>2, RunDoes DEF Do, Assign, Assigned
<1> QED
  BY <1>1, <1>2, <1>3, <1>4, <1>5, <1>6

-----------------------------------------------------------------------------
(* How a statement as written, started in s, and what is emitted for it,   *)
(* started in t, keep step.  exact tells whether named results are to be   *)
(* the same.                                                               *)

\* The states agree: what was printed, where they are, and which calls are deferred;
\* a closure has deferred none of its own.
Alike(exact, depth, s, t) ==
    /\ s \in State /\ t \in State /\ ~s.routed /\ s.registered = <<>>
    /\ t.named = s.named /\ t.trace = s.trace /\ t.iter = s.iter
    /\ t.caught = s.caught /\ t.shadowed = s.shadowed
    /\ exact => t.result = s.result /\ t.shadow = s.shadow
    /\ IF t.routed THEN t.registered = s.defers /\ t.defers = <<>>
       ELSE t.registered = <<>> /\ t.defers = IF depth = 0 THEN s.defers ELSE <<>>

\* They are about to run a statement.
Entering(exact, c, s, t) ==
    Alike(exact, c.depth, s, t) /\ s.kind = "next" /\ t.kind = "next" /\ t.flow = 0

\* The target i is where a jump as written leads, and where the emitted one is under way to:
\* by a branch within the closure, and else by a return that leaves a signal.
Leads(c, r, u, i) ==
    /\ r.kind \in {"break", "continue"}
    /\ Means(r.kind, r.label, c.targets, i)
    /\ IF c.targets[i].depth = c.depth
       THEN u.kind = r.kind /\ u.flow = 0 /\ Means(r.kind, u.label, c.targets, i)
       ELSE u.kind = "return" /\ u.flow = CodeOf(r.kind, c.targets[i])

\* The statements completed in the same way.
SameEnd(c, r, u) ==
    \/ r.kind = "next" /\ u.kind = "next" /\ u.flow = 0
    \/ r.kind = "throw" /\ u.kind = "throw" /\ u.exc = r.exc
    \/ r.kind = "return" /\ u.kind = "return" /\ (c.depth > 0 => u.flow = 1)
    \/ \E i : Leads(c, r, u, i)

\* The value of a pending return without a name, and the slot when there is none.
SameValue(c, t, r, u) ==
    \/ r.named
    \/ r.lost
    \/ IF r.kind = "return" THEN r.value = (IF c.depth = 0 THEN u.value ELSE u.slot)
       ELSE c.depth > 0 => u.slot = t.slot

\* A result that a return in a closure does not see.
Hidden(exact, depth, r) == exact /\ r.named /\ depth > 0 /\ r.shadowed

Leaving(exact, c, s, t, r, u) ==
    /\ Alike(exact, c.depth, r, u)
    /\ u.routed = t.routed /\ r.named = s.named /\ (s.lost => r.lost)
    /\ ~t.routed /\ c.depth > 0 => r.defers = s.defers
    /\ SameEnd(c, r, u)
    /\ SameValue(c, t, r, u)
    /\ Hidden(exact, c.depth, r) => r.kind # "return"

\* What two executions leave, one after the other leaves.
LEMMA LeavingChain ==
    ASSUME NEW exact, NEW c, NEW s, NEW t, NEW r, NEW u, NEW x, NEW y,
           Leaving(exact, c, s, t, r, u), r.kind = "next", Leaving(exact, c, r, u, x, y)
    PROVE  Leaving(exact, c, s, t, x, y)
<1>1. SameValue(c, t, x, y)
  BY DEF Leaving, SameValue
<1> QED
  BY <1>1 DEF Leaving

\* Both go on or neither does, and then both enter what follows.
LEMMA NextEnters ==
    ASSUME NEW exact, NEW c, NEW s, NEW t, NEW r, NEW u, Leaving(exact, c, s, t, r, u)
    PROVE  /\ r.kind = "next" <=> u.kind = "next"
           /\ r.kind = "next" => Entering(exact, c, r, u)
BY DEF Leaving, Entering, SameEnd, Leads

\* What does nothing leaves as it has entered.
LEMMA Stays ==
    ASSUME NEW exact, NEW c, NEW s, NEW t, Entering(exact, c, s, t)
    PROVE  Leaving(exact, c, s, t, s, t)
<1>1. SameEnd(c, s, t)
  BY DEF Entering, SameEnd
<1>2. SameValue(c, t, s, t)
  BY DEF Entering, SameValue
<1> QED
  BY <1>1, <1>2 DEF Leaving, Entering

\* Go and Ghi take the statement, and where exact, no named result is hidden from a return.
Accepted(exact, s, flaws) ==
    /\ "emitted" \notin flaws /\ "reused" \notin flaws
    /\ exact /\ s.named => "shadowed" \notin flaws

\* Where a statement stands that is lowered to l.
Stands(exact, c, scope, s, t, l, flaws) ==
    /\ WellNested(c) /\ scope \in Scope /\ Matches(c, scope)
    /\ scope.inTry = (c.depth > 0) /\ scope.inShadow = s.shadowed
    /\ ~l.rejected /\ (l.scoped => t.routed)
    /\ Accepted(exact, s, flaws)

\* One that goes on, or throws, leaves the values alone.
LEMMA Continues ==
    ASSUME NEW exact, NEW c, NEW s, NEW t, NEW r, NEW u, Entering(exact, c, s, t),
           Alike(exact, c.depth, r, u), u.routed = t.routed, r.named = s.named,
           r.lost = s.lost, u.slot = t.slot,
           ~t.routed /\ c.depth > 0 => r.defers = s.defers,
           \/ r.kind = "next" /\ u.kind = "next" /\ u.flow = 0
           \/ r.kind = "throw" /\ u.kind = "throw" /\ u.exc = r.exc
    PROVE  Leaving(exact, c, s, t, r, u)
<1>1. SameEnd(c, r, u)
  BY DEF SameEnd
<1>2. SameValue(c, t, r, u)
  BY DEF SameValue
<1> QED
  BY <1>1, <1>2 DEF Leaving

\* Printing.
LEMMA EmitSim ==
    ASSUME NEW exact, NEW c, NEW s, NEW t, Entering(exact, c, s, t), NEW id \in Printed
    PROVE  Leaving(exact, c, s, t, [s EXCEPT !.trace = Append(@, id)],
                                   [t EXCEPT !.trace = Append(@, id)])
<1> DEFINE w == Append(s.trace, id)
           r == [s EXCEPT !.trace = w]
           u == [t EXCEPT !.trace = w]
<1>1. s \in State /\ t \in State /\ t.trace = s.trace /\ s.trace \in Seq(Printed)
  BY DEF Entering, Alike, State
<1>2. w \in Seq(Printed)
  BY <1>1
<1> HIDE DEF w
<1>3. Alike(exact, c.depth, r, u)
  BY <1>2 DEF Entering, Alike, State
<1>4. /\ u.routed = t.routed /\ r.named = s.named /\ r.lost = s.lost /\ u.slot = t.slot
      /\ r.defers = s.defers /\ r.kind = "next" /\ u.kind = "next" /\ u.flow = 0
  BY DEF Entering, Alike, State
<1> HIDE DEF r, u
<1>5. Leaving(exact, c, s, t, r, u)
  BY <1>3, <1>4, Continues
<1> QED
  BY <1>1, <1>5 DEF r, u, w

\* x++, of the result or of what shadows it.
LEMMA BumpSim ==
    ASSUME NEW exact, NEW c, NEW s, NEW t, Entering(exact, c, s, t)
    PROVE  Leaving(exact, c, s, t, SetVisible(s, Visible(s) + 1), SetVisible(t, Visible(t) + 1))
<1> DEFINE r == SetVisible(s, Visible(s) + 1)
           u == SetVisible(t, Visible(t) + 1)
<1>1. s \in State /\ t \in State
  BY DEF Entering, Alike
<1>2. Visible(s) + 1 \in Int /\ Visible(t) + 1 \in Int /\ (exact => Visible(s) + 1 = Visible(t) + 1)
  <2>1. Visible(s) \in Int /\ Visible(t) \in Int
    BY <1>1 DEF State, Visible
  <2>2. exact => Visible(s) = Visible(t)
    BY DEF Entering, Alike, Visible
  <2> QED
    BY <2>1, <2>2
<1>3. Alike(exact, c.depth, r, u)
  <2> DEFINE a == Visible(s) + 1
             b == Visible(t) + 1
  <2>1. r = SetVisible(s, a) /\ u = SetVisible(t, b) /\ a \in Int /\ b \in Int /\ (exact => a = b)
    BY <1>2
  <2> HIDE DEF a, b
  <2> QED
    <3>1. t.shadowed = s.shadowed
      BY DEF Entering, Alike
    <3>2. CASE s.shadowed
      <4>1. r = [s EXCEPT !.shadow = a] /\ u = [t EXCEPT !.shadow = b]
        BY <2>1, <3>1, <3>2 DEF SetVisible
      <4> HIDE DEF r, u
      <4>2. r \in State /\ u \in State
        BY <1>1, <2>1, <4>1 DEF State
      <4>3. /\ ~r.routed /\ r.registered = <<>>
            /\ u.named = r.named /\ u.trace = r.trace /\ u.iter = r.iter
            /\ u.caught = r.caught /\ u.shadowed = r.shadowed
        BY <1>1, <4>1 DEF Entering, Alike, State
      <4>4. exact => u.result = r.result /\ u.shadow = r.shadow
        BY <1>1, <2>1, <4>1 DEF Entering, Alike, State
      <4>5. IF u.routed THEN u.registered = r.defers /\ u.defers = <<>>
            ELSE u.registered = <<>> /\ u.defers = IF c.depth = 0 THEN r.defers ELSE <<>>
        BY <1>1, <4>1 DEF Entering, Alike, State
      <4> QED
        BY <4>2, <4>3, <4>4, <4>5 DEF Alike
    <3>3. CASE ~s.shadowed
      <4>1. r = [s EXCEPT !.result = a] /\ u = [t EXCEPT !.result = b]
        BY <2>1, <3>1, <3>3 DEF SetVisible
      <4> HIDE DEF r, u
      <4>2. r \in State /\ u \in State
        BY <1>1, <2>1, <4>1 DEF State
      <4>3. /\ ~r.routed /\ r.registered = <<>>
            /\ u.named = r.named /\ u.trace = r.trace /\ u.iter = r.iter
            /\ u.caught = r.caught /\ u.shadowed = r.shadowed
        BY <1>1, <4>1 DEF Entering, Alike, State
      <4>4. exact => u.result = r.result /\ u.shadow = r.shadow
        BY <1>1, <2>1, <4>1 DEF Entering, Alike, State
      <4>5. IF u.routed THEN u.registered = r.defers /\ u.defers = <<>>
            ELSE u.registered = <<>> /\ u.defers = IF c.depth = 0 THEN r.defers ELSE <<>>
        BY <1>1, <4>1 DEF Entering, Alike, State
      <4> QED
        BY <4>2, <4>3, <4>4, <4>5 DEF Alike
    <3> QED
      BY <3>2, <3>3
<1>4. /\ u.routed = t.routed /\ r.named = s.named /\ r.lost = s.lost /\ u.slot = t.slot
      /\ r.defers = s.defers /\ r.kind = "next" /\ u.kind = "next" /\ u.flow = 0
  BY DEF Entering, Alike, State, SetVisible
<1> HIDE DEF r, u
<1> QED
  BY <1>3, <1>4, Continues DEF r, u

\* An exception or a fault.
LEMMA ThrowSim ==
    ASSUME NEW exact, NEW c, NEW s, NEW t, Entering(exact, c, s, t), NEW e \in Exceptions
    PROVE  Leaving(exact, c, s, t, Throws(s, e), Throws(t, e))
<1> DEFINE r == Throws(s, e)
           u == Throws(t, e)
<1>1. Alike(exact, c.depth, r, u)
  BY DEF Entering, Alike, State, Throws, Kinds
<1>2. /\ u.routed = t.routed /\ r.named = s.named /\ r.lost = s.lost /\ u.slot = t.slot
      /\ r.defers = s.defers /\ r.kind = "throw" /\ u.kind = "throw" /\ u.exc = r.exc
  BY DEF Entering, Alike, State, Throws
<1> HIDE DEF r, u
<1> QED
  BY <1>1, <1>2, Continues DEF r, u

\* A deferred call, registered with the function or with ghi_defers (defer_scope.go:10-34).
LEMMA DeferSim ==
    ASSUME NEW exact, NEW c \in Context, NEW s, NEW t, Entering(exact, c, s, t),
           NEW id \in Printed, c.depth > 0 => t.routed
    PROVE  Leaving(exact, c, s, t, [s EXCEPT !.defers = Append(@, id)],
                IF t.routed THEN [t EXCEPT !.registered = Append(@, id)]
                ELSE [t EXCEPT !.defers = Append(@, id)])
<1> DEFINE w == Append(s.defers, id)
           r == [s EXCEPT !.defers = w]
           u == IF t.routed THEN [t EXCEPT !.registered = w] ELSE [t EXCEPT !.defers = w]
<1>1. /\ s \in State /\ t \in State /\ s.defers \in Seq(Printed)
      /\ IF t.routed THEN t.registered = s.defers ELSE t.defers = s.defers
  <2>1. c.depth = 0 \/ c.depth > 0
    BY ContextType
  <2> QED
    BY <2>1 DEF Entering, Alike, State
<1>2. w \in Seq(Printed)
  BY <1>1
<1> HIDE DEF w
<1>3. c.depth = 0 \/ t.routed
  BY ContextType
<1>4. Alike(exact, c.depth, r, u)
  BY <1>2, <1>3 DEF Entering, Alike, State
<1>5. /\ u.routed = t.routed /\ r.named = s.named /\ r.lost = s.lost /\ u.slot = t.slot
      /\ r.kind = "next" /\ u.kind = "next" /\ u.flow = 0
  BY DEF Entering, Alike, State
<1>6. r = [s EXCEPT !.defers = Append(@, id)]
      /\ u = IF t.routed THEN [t EXCEPT !.registered = Append(@, id)]
             ELSE [t EXCEPT !.defers = Append(@, id)]
  BY <1>1 DEF w
<1> HIDE DEF r, u
<1>7. Leaving(exact, c, s, t, r, u)
  BY <1>4, <1>5, Continues
<1> QED
  BY <1>6, <1>7

\* A return, as such or as a signal with the value in the slot (lines 172-196).
LEMMA ReturnSim ==
    ASSUME NEW exact, NEW c \in Context, NEW s, NEW t, Entering(exact, c, s, t), NEW v \in Int,
           ~Hidden(exact, c.depth, s), NEW st, st.value = v, NEW u,
           u = IF c.depth = 0 THEN Returns(t, v)
               ELSE Completes([Assigned(t, v) EXCEPT !.flow = 1], "return")
    PROVE  Leaving(exact, c, s, t, Returns(s, v), u)
<1> DEFINE r == Returns(s, v)
<1>1. s \in State /\ t \in State /\ r \in State
  BY DEF Entering, Alike, Returns, State, Kinds
<1>2. /\ r.kind = "return" /\ r.value = v /\ r.named = s.named /\ r.lost = s.lost
      /\ r.defers = s.defers /\ r.shadowed = s.shadowed
  BY <1>1 DEF Returns, State
<1>3. CASE c.depth = 0
  <2>1. u \in State /\ u.kind = "return" /\ u.value = v /\ u.routed = t.routed
    BY <1>1, <1>3 DEF Returns, State, Kinds
  <2>2. Alike(exact, c.depth, r, u)
    BY <1>1, <1>3, <2>1 DEF Entering, Alike, Returns, State
  <2>3. SameEnd(c, r, u) /\ SameValue(c, t, r, u)
    BY <1>2, <1>3, <2>1 DEF SameEnd, SameValue
  <2>4. ~Hidden(exact, c.depth, r)
    BY <1>2 DEF Hidden
  <2> HIDE DEF r
  <2>5. Leaving(exact, c, s, t, r, u)
    BY <1>2, <1>3, <2>1, <2>2, <2>3, <2>4 DEF Leaving
  <2> QED
    BY <2>5 DEF r
<1>4. CASE c.depth # 0
  <2>0. c.depth > 0
    BY <1>4, ContextType
  <2>1. t.named = s.named /\ t.shadowed = s.shadowed /\ t.named \in BOOLEAN /\ exact \in {exact}
    BY DEF Entering, Alike, State
  <2>2. /\ u \in State /\ u.kind = "return" /\ u.flow = 1 /\ u.routed = t.routed
        /\ ~t.named => u.slot = v
    BY <1>1, <1>4 DEF Completes, Assigned, SetVisible, State, Kinds
  <2>3. exact /\ s.named => ~s.shadowed
    BY <2>0 DEF Hidden
  <2>4. Alike(exact, c.depth, r, u)
    BY ZenonT(30), <1>1, <1>4, <2>2, <2>3 DEF Entering, Alike, Returns, Completes, Assigned, SetVisible, State
  <2>5. SameEnd(c, r, u) /\ SameValue(c, t, r, u)
    BY <1>2, <1>4, <2>1, <2>2 DEF SameEnd, SameValue
  <2>6. ~Hidden(exact, c.depth, r)
    BY <1>2 DEF Hidden
  <2> HIDE DEF r
  <2>7. Leaving(exact, c, s, t, r, u)
    BY <1>2, <2>2, <2>4, <2>5, <2>6 DEF Leaving
  <2> QED
    BY <2>7 DEF r
<1> QED
  BY <1>3, <1>4

\* A branch is taken as it is at the depth of its target, and signalled below.
LEMMA BranchSim ==
    ASSUME NEW exact, NEW c, WellNested(c), NEW s, NEW t, Entering(exact, c, s, t),
           NEW tok \in {"break", "continue"}, NEW label \in Label, NEW i,
           Means(tok, label, c.targets, i), NEW u,
           u = IF c.targets[i].depth = c.depth THEN [t EXCEPT !.kind = tok, !.label = label]
               ELSE Completes([t EXCEPT !.flow = CodeOf(tok, c.targets[i])], "return")
    PROVE  Leaving(exact, c, s, t, [s EXCEPT !.kind = tok, !.label = label], u)
<1> DEFINE r == [s EXCEPT !.kind = tok, !.label = label]
<1>1. s \in State /\ t \in State
  BY DEF Entering, Alike
<1>2. CodeOf(tok, c.targets[i]) \in Nat
  BY CandidateCode DEF Means
<1>3. /\ r \in State /\ r.kind = tok /\ r.label = label /\ r.named = s.named /\ r.lost = s.lost
      /\ r.defers = s.defers
  BY <1>1 DEF State, Kinds
<1>4. CASE c.targets[i].depth = c.depth
  <2>1. /\ u \in State /\ u.kind = tok /\ u.label = label /\ u.flow = 0 /\ u.routed = t.routed
        /\ u.slot = t.slot
    BY <1>1, <1>4 DEF State, Kinds, Entering
  <2>2. Alike(exact, c.depth, r, u)
    BY <1>1, <1>3, <1>4, <2>1 DEF Entering, Alike, State
  <2>3. Leads(c, r, u, i)
    BY <1>3, <1>4, <2>1 DEF Leads
  <2>4. SameEnd(c, r, u) /\ SameValue(c, t, r, u)
    BY <1>3, <2>1, <2>3 DEF SameEnd, SameValue
  <2> HIDE DEF r
  <2>5. Leaving(exact, c, s, t, r, u)
    BY <1>3, <2>1, <2>2, <2>4 DEF Leaving
  <2> QED
    BY <2>5 DEF r
<1>5. CASE c.targets[i].depth # c.depth
  <2>1. /\ u \in State /\ u.kind = "return" /\ u.flow = CodeOf(tok, c.targets[i])
        /\ u.routed = t.routed /\ u.slot = t.slot
    BY <1>1, <1>2, <1>5 DEF State, Kinds, Completes
  <2>2. Alike(exact, c.depth, r, u)
    BY <1>1, <1>3, <1>5, <2>1 DEF Entering, Alike, State, Completes
  <2>3. Leads(c, r, u, i)
    BY <1>3, <1>5, <2>1 DEF Leads
  <2>4. SameEnd(c, r, u) /\ SameValue(c, t, r, u)
    BY <1>3, <2>1, <2>3 DEF SameEnd, SameValue
  <2> HIDE DEF r
  <2>5. Leaving(exact, c, s, t, r, u)
    BY <1>3, <2>1, <2>2, <2>4 DEF Leaving
  <2> QED
    BY <2>5 DEF r
<1> QED
  BY <1>4, <1>5

\* What the code of a return below depth 0 does (lines 176-195).
LEMMA RunLoweredReturn ==
    ASSUME NEW v \in Int, NEW t \in State, t.kind = "next"
    PROVE  /\ Then(Assign(v), Then(Signal(1), Exit)) \in Every
           /\ Run[<<Then(Assign(v), Then(Signal(1), Exit)), t>>] =
                  Completes([Assigned(t, v) EXCEPT !.flow = 1], "return")
<1> DEFINE a == Assigned(t, v)
           b == [a EXCEPT !.flow = 1]
<1>0. 1 \in Nat
  OBVIOUS
<1>1. a \in State /\ a.kind = "next"
  BY DEF Assigned, SetVisible, State
<1>2. Assign(v) \in Every /\ Run[<<Assign(v), t>>] = a
  BY RunEmitted
<1> HIDE DEF a
<1>3. Signal(1) \in Every /\ Run[<<Signal(1), a>>] = b
  BY <1>0, <1>1, RunSignal
<1>4. b \in State /\ b.kind = "next"
  BY <1>1 DEF State
<1> HIDE DEF b
<1>5. Exit \in Every /\ Run[<<Exit, b>>] = Completes(b, "return")
  BY <1>4, RunEmitted
<1>6. /\ Then(Signal(1), Exit) \in Every
      /\ Run[<<Then(Signal(1), Exit), a>>] = Completes(b, "return")
  BY <1>1, <1>3, <1>4, <1>5, RunSequence
<1>7. /\ Then(Assign(v), Then(Signal(1), Exit)) \in Every
      /\ Run[<<Then(Assign(v), Then(Signal(1), Exit)), t>>] = Completes(b, "return")
  BY <1>1, <1>2, <1>6, RunSequence
<1> QED
  BY <1>7 DEF b, a

\* What the code of a branch out of a closure does (line 212).
LEMMA RunLoweredBranch ==
    ASSUME NEW signal \in Nat, NEW t \in State, t.kind = "next"
    PROVE  /\ Then(Signal(signal), Exit) \in Every
           /\ Run[<<Then(Signal(signal), Exit), t>>] = Completes([t EXCEPT !.flow = signal], "return")
<1> DEFINE b == [t EXCEPT !.flow = signal]
<1>1. Signal(signal) \in Every /\ Run[<<Signal(signal), t>>] = b
  BY RunSignal
<1>2. b \in State /\ b.kind = "next"
  BY DEF State
<1> HIDE DEF b
<1>3. Exit \in Every /\ Run[<<Exit, b>>] = Completes(b, "return")
  BY <1>2, RunEmitted
<1>4. /\ Then(Signal(signal), Exit) \in Every
      /\ Run[<<Then(Signal(signal), Exit), t>>] = Completes(b, "return")
  BY <1>1, <1>2, <1>3, RunSequence
<1> QED
  BY <1>4 DEF b

\* The lowered code of a simple statement leaves as the statement does.
LEMMA SimpleSim ==
    ASSUME NEW low, NEW flaws, NEW st \in Simple, NEW c, NEW scope, NEW exact, NEW s, NEW t,
           Stands(exact, c, scope, s, t, Lower(low, st, c), Flaws(flaws, st, scope)),
           Entering(exact, c, s, t)
    PROVE  Leaving(exact, c, s, t, Run[<<st, s>>], Run[<<Lower(low, st, c).code, t>>])
<1>1. s \in State /\ t \in State /\ t.kind = "next" /\ ~s.routed
  BY DEF Entering, Alike
<1>2. c \in Context /\ WellNested(c)
  BY NestedType DEF Stands
<1>3. st \in Every /\ Run[<<st, s>>] = Do(Run, st, s) /\ Run[<<st, t>>] = Do(Run, st, t)
  BY <1>1, EveryStatement, RunDoes
<1>4. CASE st.op = "none"
  <2>1. Lower(low, st, c).code = st
    BY <1>4 DEF Lower, Plain, Lowered
  <2>2. Do(Run, st, s) = s /\ Do(Run, st, t) = t
    BY <1>4 DEF Do
  <2> QED
    BY <1>3, <2>1, <2>2, Stays
<1>5. CASE st.op = "emit"
  <2>1. Lower(low, st, c).code = st /\ st.id \in Printed
    BY <1>5 DEF Lower, Plain, Lowered, Simple
  <2>2. /\ Do(Run, st, s) = [s EXCEPT !.trace = Append(@, st.id)]
        /\ Do(Run, st, t) = [t EXCEPT !.trace = Append(@, st.id)]
    BY <1>5 DEF Do
  <2> QED
    <3>1. Leaving(exact, c, s, t, [s EXCEPT !.trace = Append(@, st.id)],
                                  [t EXCEPT !.trace = Append(@, st.id)])
      BY <2>1, EmitSim
    <3> QED
      BY <1>3, <2>1, <2>2, <3>1, Zenon
<1>6. CASE st.op = "bump"
  <2>1. Lower(low, st, c).code = st
    BY <1>6 DEF Lower, Plain, Lowered
  <2>2. /\ Do(Run, st, s) = SetVisible(s, Visible(s) + 1)
        /\ Do(Run, st, t) = SetVisible(t, Visible(t) + 1)
    BY <1>6 DEF Do
  <2> QED
    BY <1>3, <2>1, <2>2, BumpSim
<1>7. CASE st.op = "throw"
  <2>1. Lower(low, st, c).code = st /\ st.exc \in Exceptions
    BY <1>7 DEF Lower, Plain, Lowered, Simple
  <2>2. /\ Do(Run, st, s) = Throws(s, st.exc)
        /\ Do(Run, st, t) = Throws(t, st.exc)
    BY <1>7 DEF Do
  <2> QED
    BY <1>3, <2>1, <2>2, ThrowSim
<1>8. CASE st.op = "defer"
  <2>1. Lower(low, st, c).code = st /\ st.id \in Printed
    BY <1>8 DEF Lower, Lowered, Simple
  <2>2. Lower(low, st, c).scoped = (c.depth > 0)
    BY <1>8 DEF Lower, Lowered
  <2>3. c.depth > 0 => t.routed
    BY <2>2 DEF Stands
  <2>4. /\ Do(Run, st, s) = [s EXCEPT !.defers = Append(@, st.id)]
        /\ Do(Run, st, t) = IF t.routed THEN [t EXCEPT !.registered = Append(@, st.id)]
                            ELSE [t EXCEPT !.defers = Append(@, st.id)]
    BY <1>1, <1>8 DEF Do
  <2> QED
    <3>1. Leaving(exact, c, s, t, [s EXCEPT !.defers = Append(@, st.id)],
                  IF t.routed THEN [t EXCEPT !.registered = Append(@, st.id)]
                  ELSE [t EXCEPT !.defers = Append(@, st.id)])
      BY <1>2, <2>1, <2>3, DeferSim
    <3> QED
      BY <1>3, <2>1, <2>4, <3>1, Zenon
<1>9. CASE st.op = "return"
  <2> DEFINE u == Run[<<Lower(low, st, c).code, t>>]
  <2>1. Lower(low, st, c).code = LowerReturn(st, c) /\ st.value \in Int
    BY <1>9 DEF Lower, Plain, Lowered, Simple
  <2>2. Do(Run, st, s) = Returns(s, st.value) /\ Do(Run, st, t) = Returns(t, st.value)
    BY <1>9 DEF Do
  <2>3. u = IF c.depth = 0 THEN Returns(t, st.value)
            ELSE Completes([Assigned(t, st.value) EXCEPT !.flow = 1], "return")
    BY <1>1, <1>3, <2>1, <2>2, RunLoweredReturn DEF LowerReturn
  <2>4. ~Hidden(exact, c.depth, s)
    <3>1. Flaws(flaws, st, scope) = When(scope.inTry /\ scope.inShadow, "shadowed")
      BY <1>9 DEF Flaws
    <3>2. exact /\ s.named => ~(scope.inTry /\ scope.inShadow)
      BY <3>1 DEF When, Stands, Accepted
    <3>3. scope.inTry = (c.depth > 0) /\ scope.inShadow = s.shadowed
      BY DEF Stands
    <3> QED
      BY <3>2, <3>3 DEF Hidden
  <2> HIDE DEF u
  <2>5. Leaving(exact, c, s, t, Returns(s, st.value), u)
    BY <1>2, <2>1, <2>3, <2>4, ReturnSim
  <2> QED
    BY <1>3, <2>2, <2>5 DEF u
<1>10. CASE st.op = "branch"
  <2> DEFINE C == Candidates(st.tok, st.label, c.targets)
             i == Max(C)
             u == Run[<<Lower(low, st, c).code, t>>]
  <2>1. st.tok \in {"break", "continue"} /\ st.label \in Label
    BY <1>10 DEF Simple
  <2>2. Lower(low, st, c) = LowerBranch(st, c)
    BY <1>10 DEF Lower
  <2>3. C # {}
    BY <2>2 DEF Stands, LowerBranch, Lowered
  <2>4. Means(st.tok, st.label, c.targets, i)
    BY <1>2, <2>3, MeantIsInnermost
  <2>5. CodeOf(st.tok, c.targets[i]) \in Nat
    BY <1>2, <2>1, <2>4, CandidateCode DEF Means
  <2>6. Lower(low, st, c).code = IF c.targets[i].depth = c.depth THEN st
                                 ELSE Then(Signal(CodeOf(st.tok, c.targets[i])), Exit)
    BY <2>2, <2>3 DEF LowerBranch, Plain, Lowered
  <2>7. /\ Do(Run, st, s) = [s EXCEPT !.kind = st.tok, !.label = st.label]
        /\ Do(Run, st, t) = [t EXCEPT !.kind = st.tok, !.label = st.label]
    BY <1>10 DEF Do
  <2> HIDE DEF i, C
  <2>8. u = IF c.targets[i].depth = c.depth THEN [t EXCEPT !.kind = st.tok, !.label = st.label]
            ELSE Completes([t EXCEPT !.flow = CodeOf(st.tok, c.targets[i])], "return")
    BY <1>1, <1>3, <2>5, <2>6, <2>7, RunLoweredBranch
  <2> HIDE DEF u
  <2>9. Leaving(exact, c, s, t, [s EXCEPT !.kind = st.tok, !.label = st.label], u)
    BY <1>2, <2>1, <2>4, <2>8, BranchSim
  <2> QED
    BY <1>3, <2>7, <2>9 DEF u
<1>11. CASE st.op \in {"pass", "exit", "returnSlots", "unreachable", "assign", "signal"}
  <2>1. "emitted" \in Flaws(flaws, st, scope)
    BY <1>11 DEF Flaws
  <2> QED
    BY <2>1 DEF Stands, Accepted
<1> QED
  BY <1>4, <1>5, <1>6, <1>7, <1>8, <1>9, <1>10, <1>11 DEF Simple

-----------------------------------------------------------------------------
(* Steps of that kind, put together.                                       *)

\* What a step starts from matters in a few parts only.
LEMMA LeavingFrom ==
    ASSUME NEW exact, NEW c, NEW s, NEW t, NEW r, NEW u, Leaving(exact, c, s, t, r, u),
           NEW d, d.depth = c.depth, d.targets = c.targets, NEW x, NEW y,
           x.named = s.named, x.lost = s.lost, x.defers = s.defers,
           y.routed = t.routed, y.slot = t.slot
    PROVE  Leaving(exact, d, x, y, r, u)
<1>1. SameEnd(d, r, u)
  BY DEF Leaving, SameEnd, Leads
<1>2. SameValue(d, y, r, u)
  BY DEF Leaving, SameValue
<1>3. Hidden(exact, d.depth, r) => r.kind # "return"
  BY DEF Leaving
<1> QED
  BY <1>1, <1>2, <1>3 DEF Leaving

\* The iteration is set in both.
LEMMA AlikeIter ==
    ASSUME NEW exact, NEW depth, NEW s, NEW t, Alike(exact, depth, s, t), NEW k \in Nat
    PROVE  Alike(exact, depth, [s EXCEPT !.iter = k], [t EXCEPT !.iter = k])
<1> DEFINE r == [s EXCEPT !.iter = k]
           u == [t EXCEPT !.iter = k]
<1>1. s \in State /\ t \in State
  BY DEF Alike
<1>2. r \in State /\ u \in State
  BY <1>1 DEF State
<1>3. /\ r.routed = s.routed /\ r.registered = s.registered /\ r.named = s.named
      /\ r.trace = s.trace /\ r.iter = k /\ r.caught = s.caught /\ r.shadowed = s.shadowed
      /\ r.result = s.result /\ r.shadow = s.shadow /\ r.defers = s.defers
  BY <1>1 DEF State
<1>4. /\ u.routed = t.routed /\ u.registered = t.registered /\ u.named = t.named
      /\ u.trace = t.trace /\ u.iter = k /\ u.caught = t.caught /\ u.shadowed = t.shadowed
      /\ u.result = t.result /\ u.shadow = t.shadow /\ u.defers = t.defers
  BY <1>1 DEF State
<1> HIDE DEF r, u
<1>5. Alike(exact, depth, r, u)
  BY <1>2, <1>3, <1>4 DEF Alike
<1> QED
  BY <1>5 DEF r, u

\* The number of the iteration may be set on both sides.
LEMMA LeavingIter ==
    ASSUME NEW exact, NEW c, NEW s, NEW t, NEW r, NEW u, Leaving(exact, c, s, t, r, u),
           NEW k \in Nat
    PROVE  Leaving(exact, c, s, t, [r EXCEPT !.iter = k], [u EXCEPT !.iter = k])
<1> DEFINE x == [r EXCEPT !.iter = k]
           y == [u EXCEPT !.iter = k]
<1>1. r \in State /\ u \in State
  BY DEF Leaving, Alike
<1>2. Alike(exact, c.depth, x, y)
  BY AlikeIter DEF Leaving
<1>3. /\ x.kind = r.kind /\ x.label = r.label /\ x.exc = r.exc /\ x.named = r.named
      /\ x.lost = r.lost /\ x.value = r.value /\ x.shadowed = r.shadowed /\ x.defers = r.defers
  BY <1>1 DEF State
<1>4. /\ y.kind = u.kind /\ y.label = u.label /\ y.exc = u.exc /\ y.flow = u.flow
      /\ y.slot = u.slot /\ y.value = u.value /\ y.routed = u.routed
  BY <1>1 DEF State
<1> HIDE DEF x, y
<1>5. SameEnd(c, x, y)
  BY <1>3, <1>4 DEF Leaving, SameEnd, Leads
<1>6. SameValue(c, t, x, y)
  BY <1>3, <1>4 DEF Leaving, SameValue
<1>7. Hidden(exact, c.depth, x) => x.kind # "return"
  BY <1>3 DEF Leaving, Hidden
<1>8. Leaving(exact, c, s, t, x, y)
  BY <1>2, <1>3, <1>4, <1>5, <1>6, <1>7 DEF Leaving
<1> QED
  BY <1>8 DEF x, y

\* A jump has arrived.
LEMMA LeavingArrives ==
    ASSUME NEW exact, NEW c, NEW s, NEW t, NEW r, NEW u, Leaving(exact, c, s, t, r, u),
           NEW d, d.depth = c.depth, r.kind # "return", u.flow = 0
    PROVE  Leaving(exact, d, s, t, Completes(r, "next"), Completes(u, "next"))
<1> DEFINE x == Completes(r, "next")
           y == Completes(u, "next")
<1>1. r \in State /\ u \in State
  BY DEF Leaving, Alike
<1>2. x \in State /\ y \in State
  BY <1>1 DEF State, Completes, Kinds
<1>3. /\ x.kind = "next" /\ x.named = r.named /\ x.lost = r.lost /\ x.defers = r.defers
      /\ x.routed = r.routed /\ x.registered = r.registered /\ x.trace = r.trace
      /\ x.iter = r.iter /\ x.caught = r.caught /\ x.shadowed = r.shadowed
      /\ x.result = r.result /\ x.shadow = r.shadow
  BY <1>1 DEF State, Completes
<1>4. /\ y.kind = "next" /\ y.named = u.named /\ y.defers = u.defers
      /\ y.routed = u.routed /\ y.registered = u.registered /\ y.trace = u.trace
      /\ y.iter = u.iter /\ y.caught = u.caught /\ y.shadowed = u.shadowed
      /\ y.result = u.result /\ y.shadow = u.shadow /\ y.flow = u.flow /\ y.slot = u.slot
  BY <1>1 DEF State, Completes
<1> HIDE DEF x, y
<1>5. Alike(exact, d.depth, x, y)
  BY <1>2, <1>3, <1>4 DEF Leaving, Alike
<1>6. SameEnd(d, x, y)
  BY <1>3, <1>4 DEF SameEnd
<1>7. SameValue(d, t, x, y)
  BY <1>3, <1>4 DEF Leaving, SameValue
<1>8. Leaving(exact, d, s, t, x, y)
  BY <1>3, <1>4, <1>5, <1>6, <1>7 DEF Leaving
<1> QED
  BY <1>8 DEF x, y

\* Where a part of a statement stands.
LEMMA StandsWithin ==
    ASSUME NEW exact, NEW c, NEW scope, NEW s, NEW t, NEW l, NEW flaws,
           Stands(exact, c, scope, s, t, l, flaws),
           NEW d, WellNested(d), NEW around \in Scope, Matches(d, around),
           around.inTry = (d.depth > 0), NEW x, around.inShadow = x.shadowed,
           x.named = s.named, NEW y, y.routed = t.routed,
           NEW k, k.rejected => l.rejected, k.scoped => l.scoped,
           NEW inner, \A f \in {"emitted", "reused", "shadowed"} : f \in inner => f \in flaws
    PROVE  Stands(exact, d, around, x, y, k, inner)
<1>1. Accepted(exact, x, inner)
  BY DEF Stands, Accepted
<1>2. ~k.rejected /\ (k.scoped => y.routed)
  BY DEF Stands
<1> QED
  BY <1>1, <1>2 DEF Stands

\* The targets in a loop or switch.
LEMMA InsideTargets ==
    ASSUME NEW c \in Context, NEW st, st.label \in Label
    PROVE  /\ Len(Inside(st, c).targets) = Len(c.targets) + 1
           /\ \A i \in 1 .. Len(c.targets) : Inside(st, c).targets[i] = c.targets[i]
           /\ Inside(st, c).targets[Len(c.targets) + 1].depth = c.depth
           /\ Inside(st, c).targets[Len(c.targets) + 1].label = st.label
           /\ Inside(st, c).targets[Len(c.targets) + 1].continueCode # 0 <=> st.op = "loop"
<1> DEFINE target == [label |-> st.label, depth |-> c.depth, breakCode |-> c.next,
                      continueCode |-> IF st.op = "loop" THEN c.next + 1 ELSE 0]
           ts == Inside(st, c).targets
           N == Len(c.targets)
<1>1. N \in Nat /\ c.next \in Nat /\ c.targets \in Seq(Targets) /\ c.depth \in Nat
  BY ContextType
<1>2. ts = Append(c.targets, target)
  BY DEF Inside, Context
<1>3. target.label = st.label /\ (target.continueCode # 0 <=> st.op = "loop")
      /\ target.depth = c.depth
  BY <1>1
<1>4. target \in Targets
  BY <1>1 DEF Targets
<1> HIDE DEF target
<1>5. /\ Len(ts) = N + 1 /\ ts[N + 1] = target
      /\ \A i \in 1 .. N : ts[i] = c.targets[i]
  BY <1>1, <1>2, <1>4
<1> QED
  BY <1>3, <1>5

\* A branch in a loop or switch means it, or what it would mean outside.
LEMMA MeansInside ==
    ASSUME NEW c \in Context, NEW st, st.label \in Label, NEW tok, NEW label, NEW i
    PROVE  Means(tok, label, Inside(st, c).targets, i) <=>
               IF label \in {"", st.label} /\ (tok = "continue" => st.op = "loop")
               THEN i = Len(c.targets) + 1
               ELSE Means(tok, label, c.targets, i)
<1> DEFINE ts == Inside(st, c).targets
           N == Len(c.targets)
           here == label \in {"", st.label} /\ (tok = "continue" => st.op = "loop")
           C == Candidates(tok, label, c.targets)
           D == Candidates(tok, label, ts)
<1>1. N \in Nat /\ 1 .. (N + 1) = (1 .. N) \cup {N + 1} /\ \A k \in 1 .. N : k <= N + 1 /\ ~(N + 1 <= k)
  BY ContextType
<1>a. N + 1 <= N + 1
  BY <1>1
<1>2. /\ Len(ts) = N + 1 /\ \A k \in 1 .. N : ts[k] = c.targets[k]
      /\ ts[N + 1].label = st.label /\ (ts[N + 1].continueCode # 0 <=> st.op = "loop")
  BY InsideTargets
<1>3. N + 1 \in D <=> here
  BY <1>1, <1>2 DEF Candidates
<1>4. \A k \in 1 .. N : k \in D <=> k \in C
  BY <1>1, <1>2 DEF Candidates
<1>5. C \subseteq 1 .. N /\ D \subseteq (1 .. N) \cup {N + 1}
  BY <1>1, <1>2 DEF Candidates
<1>6. Means(tok, label, ts, i) <=> i \in D /\ \A j \in D : j <= i
  BY DEF Means
<1>7. Means(tok, label, c.targets, i) <=> i \in C /\ \A j \in C : j <= i
  BY DEF Means
<1> HIDE DEF ts, C, D, here
<1>8. CASE here
  <2>1. N + 1 \in D /\ N + 1 <= N + 1
    BY <1>a, <1>3, <1>8
  <2>2. \A j \in D : j <= N + 1
    BY <1>1, <1>5, <2>1
  <2>3. i \in D /\ N + 1 <= i => i = N + 1
    BY <1>1, <1>5
  <2> QED
    BY <1>6, <1>8, <2>1, <2>2, <2>3 DEF ts, here
<1>9. CASE ~here
  <2>1. C = D
    BY <1>1, <1>3, <1>4, <1>5, <1>9
  <2> QED
    BY <1>6, <1>7, <1>9, <2>1 DEF ts, here
<1> QED
  BY <1>8, <1>9

\* In another context at the same depth only the end has to be looked at again.
LEMMA LeavingEnd ==
    ASSUME NEW exact, NEW d, NEW s, NEW t, NEW r, NEW u, Leaving(exact, d, s, t, r, u),
           NEW c, c.depth = d.depth, SameEnd(c, r, u)
    PROVE  Leaving(exact, c, s, t, r, u)
<1>1. SameValue(c, t, r, u)
  BY DEF Leaving, SameValue
<1> QED
  BY <1>1 DEF Leaving

\* Both leave the loop or switch by its break, or both do not.
LEMMA BreaksSim ==
    ASSUME NEW exact, NEW c \in Context, NEW st, st.label \in Label, NEW s, NEW t, NEW r, NEW u,
           Leaving(exact, Inside(st, c), s, t, r, u),
           ~(st.op = "loop" /\ Takes(r, "continue", st.label)),
           NEW lowered, lowered.label = st.label
    PROVE  Leaving(exact, c, s, t, Breaks(r, st), Breaks(u, lowered))
<1> DEFINE d == Inside(st, c)
           N == Len(c.targets)
<1>1. d.depth = c.depth /\ N \in Nat /\ N + 1 \notin 1 .. N
  BY InsideType, ContextType
<1>2. /\ \A i \in 1 .. N : d.targets[i] = c.targets[i]
      /\ d.targets[N + 1].depth = c.depth
  BY InsideTargets
<1>3. SameEnd(d, r, u)
  BY DEF Leaving
<1>4. CASE ~\E i : Leads(d, r, u, i)
  <2>1. SameEnd(c, r, u)
    BY <1>1, <1>3, <1>4 DEF SameEnd
  <2>2. r.kind # "break" /\ u.kind # "break"
    BY <1>3, <1>4 DEF SameEnd
  <2>3. Breaks(r, st) = r /\ Breaks(u, lowered) = u
    BY <2>2 DEF Breaks, Takes
  <2> HIDE DEF d
  <2> QED
    BY <1>1, <2>1, <2>3, LeavingEnd DEF d
<1>5. ASSUME NEW i, Leads(d, r, u, i) PROVE Leaving(exact, c, s, t, Breaks(r, st), Breaks(u, lowered))
  <2> DEFINE Here(label) == label \in {"", st.label} /\ (r.kind = "continue" => st.op = "loop")
  <2>1. r.kind \in {"break", "continue"} /\ Means(r.kind, r.label, d.targets, i)
    BY <1>5 DEF Leads
  <2>2. \A label : Means(r.kind, label, d.targets, i) <=>
            IF Here(label) THEN i = N + 1 ELSE Means(r.kind, label, c.targets, i)
    BY MeansInside
  <2>3. ASSUME NEW label, Means(r.kind, label, d.targets, i), ~Here(label)
        PROVE  i \in 1 .. N
    BY <2>2, <2>3, MeantIsInnermost
  <2> HIDE DEF Here
  <2>4. CASE Here(r.label)
    <3>1. i = N + 1
      BY <2>1, <2>2, <2>4
    <3>2. u.kind = r.kind /\ u.flow = 0 /\ Means(r.kind, u.label, d.targets, i)
      BY <1>1, <1>2, <1>5, <3>1 DEF Leads
    <3>3. Here(u.label)
      BY <1>1, <2>3, <3>1, <3>2, Zenon
    <3>4. r.kind = "break"
      BY <2>1, <2>4 DEF Takes, Here
    <3>5. Breaks(r, st) = Completes(r, "next") /\ Breaks(u, lowered) = Completes(u, "next")
      BY <2>4, <3>2, <3>3, <3>4 DEF Breaks, Takes, Here
    <3> HIDE DEF d
    <3> QED
      BY <1>1, <3>2, <3>4, <3>5, LeavingArrives DEF d
  <2>5. CASE ~Here(r.label)
    <3>1. i \in 1 .. N /\ Means(r.kind, r.label, c.targets, i)
      BY <2>1, <2>2, <2>3, <2>5
    <3>2. ASSUME u.kind = r.kind, Means(r.kind, u.label, d.targets, i)
          PROVE  ~Here(u.label) /\ Means(r.kind, u.label, c.targets, i)
      BY <1>1, <2>2, <3>1, <3>2, Zenon
    <3>3. Leads(c, r, u, i)
      BY <1>1, <1>2, <1>5, <3>1, <3>2 DEF Leads
    <3>4. ~Takes(r, "break", st.label) /\ ~Takes(u, "break", lowered.label)
      BY <1>5, <2>5, <3>2 DEF Takes, Leads, Here
    <3>5. Breaks(r, st) = r /\ Breaks(u, lowered) = u
      BY <3>4 DEF Breaks
    <3>6. SameEnd(c, r, u)
      BY <3>3 DEF SameEnd
    <3> HIDE DEF d
    <3> QED
      BY <1>1, <3>5, <3>6, LeavingEnd DEF d
  <2> QED
    BY <2>4, <2>5
<1> QED
  BY <1>4, <1>5

\* The runs of a body keep step from every pair of states that do.
BodySim(exact, d, body, lowered, shadowed, named, routed) ==
    \A s, t : /\ Entering(exact, d, s, t)
              /\ s.shadowed = shadowed /\ s.named = named /\ t.routed = routed
              => Leaving(exact, d, s, t, Run[<<body, s>>], Run[<<lowered, t>>])

\* One iteration of a loop; a continue of this loop has arrived.
LEMMA IterationSim ==
    ASSUME NEW exact, NEW c \in Context, NEW st, st.op = "loop", st.label \in Label,
           NEW lowered, lowered.label = st.label, NEW s, NEW t,
           BodySim(exact, Inside(st, c), st.body, lowered.body, s.shadowed, s.named, t.routed),
           Entering(exact, c, s, t), NEW i \in Nat, NEW r, NEW u,
           r = Iteration(Run, st, i, s), u = Iteration(Run, lowered, i, t)
    PROVE  /\ Leaving(exact, Inside(st, c), s, t, r, u)
           /\ ~Takes(r, "continue", st.label)
<1> DEFINE d == Inside(st, c)
           N == Len(c.targets)
           s1 == [s EXCEPT !.iter = i]
           t1 == [t EXCEPT !.iter = i]
           x == Run[<<st.body, s1>>]
           y == Run[<<lowered.body, t1>>]
           Ours(label) == label \in {"", st.label}
<1>1. d.depth = c.depth /\ N \in Nat /\ N + 1 \notin 1 .. N
  BY InsideType, ContextType
<1>2. d.targets[N + 1].depth = c.depth
  BY InsideTargets
<1>3. s \in State /\ t \in State
  BY DEF Entering, Alike
<1>4. /\ s1.named = s.named /\ s1.lost = s.lost /\ s1.defers = s.defers /\ s1.kind = s.kind
      /\ s1.shadowed = s.shadowed
      /\ t1.routed = t.routed /\ t1.slot = t.slot /\ t1.kind = t.kind /\ t1.flow = t.flow
  BY <1>3 DEF State
<1>5. Alike(exact, c.depth, s1, t1)
  BY AlikeIter DEF Entering
<1> HIDE DEF s1, t1
<1>6. Entering(exact, d, s1, t1)
  BY <1>1, <1>4, <1>5 DEF Entering
<1>7. Leaving(exact, d, s1, t1, x, y)
  BY <1>4, <1>6 DEF BodySim
<1> HIDE DEF x, y, d
<1>8. Leaving(exact, d, s, t, x, y)
  BY <1>4, <1>7, LeavingFrom
<1>9. /\ r = IF Takes(x, "continue", st.label) THEN Completes(x, "next") ELSE x
      /\ u = IF Takes(y, "continue", st.label) THEN Completes(y, "next") ELSE y
  BY DEF Iteration, x, y, s1, t1
<1>10. SameEnd(d, x, y)
  BY <1>8 DEF Leaving
<1>11. \A label, j : Means("continue", label, d.targets, j) <=>
            IF Ours(label) THEN j = N + 1 ELSE Means("continue", label, c.targets, j)
  BY MeansInside DEF d
<1>a. \A z : Takes(z, "continue", st.label) <=> z.kind = "continue" /\ Ours(z.label)
  BY DEF Takes
<1> HIDE DEF Ours
<1>12. CASE Takes(x, "continue", st.label)
  <2>1. PICK j : Leads(d, x, y, j)
    BY <1>10, <1>12 DEF SameEnd, Takes
  <2>2. x.kind = "continue" /\ Ours(x.label)
    BY <1>a, <1>12
  <2>3. j = N + 1
    <3>1. Means("continue", x.label, d.targets, j)
      BY <2>1, <2>2 DEF Leads
    <3> QED
      BY <1>11, <2>2, <3>1, Zenon
  <2>4. y.kind = "continue" /\ y.flow = 0 /\ Means("continue", y.label, d.targets, N + 1)
    BY <1>1, <1>2, <2>1, <2>2, <2>3 DEF Leads, d
  <2>5. Ours(y.label)
    <3>1. Means("continue", y.label, c.targets, N + 1) => N + 1 \in 1 .. N
      BY MeantIsInnermost
    <3> QED
      BY <1>1, <1>11, <2>4, <3>1, Zenon
  <2>6. r = Completes(x, "next") /\ u = Completes(y, "next")
    BY <1>a, <1>9, <1>12, <2>4, <2>5
  <2>7. Leaving(exact, d, s, t, r, u)
    BY <1>8, <2>2, <2>4, <2>6, LeavingArrives
  <2>8. r.kind = "next"
    <3>1. x \in State
      BY <1>8 DEF Leaving, Alike
    <3> QED
      BY <2>6, <3>1 DEF Completes, State
  <2> QED
    BY <2>7, <2>8 DEF Takes, d
<1>13. CASE ~Takes(x, "continue", st.label)
  <2>1. ASSUME Takes(y, "continue", st.label) PROVE FALSE
    <3>1. y.kind = "continue" /\ Ours(y.label)
      BY <1>a, <2>1
    <3>2. PICK j : Leads(d, x, y, j)
      BY <1>10, <3>1 DEF SameEnd
    <3>3. x.kind = "continue" /\ Means("continue", y.label, d.targets, j)
          /\ Means("continue", x.label, d.targets, j)
      BY <3>1, <3>2 DEF Leads
    <3>4. j = N + 1
      BY <1>11, <3>1, <3>3, Zenon
    <3>5. ~Ours(x.label)
      BY <1>a, <1>13, <3>3
    <3>6. Means("continue", x.label, c.targets, N + 1)
      BY <1>11, <3>3, <3>4, <3>5, Zenon
    <3>7. N + 1 \in 1 .. N
      BY <3>6, MeantIsInnermost
    <3> QED
      BY <1>1, <3>7
  <2>2. r = x /\ u = y
    BY <1>9, <1>13, <2>1
  <2> QED
    BY <1>8, <1>13, <2>2 DEF d
<1> QED
  BY <1>12, <1>13

\* A loop.
LEMMA LoopSim ==
    ASSUME NEW exact, NEW c \in Context, NEW st, st.op = "loop", st.label \in Label,
           st.body \in Every, NEW lowered, lowered.label = st.label, NEW s, NEW t,
           BodySim(exact, Inside(st, c), st.body, lowered.body, s.shadowed, s.named, t.routed),
           Entering(exact, c, s, t)
    PROVE  Leaving(exact, c, s, t, Looping(Run, st, s), Looping(Run, lowered, t))
<1> DEFINE d == Inside(st, c)
           r1 == Iteration(Run, st, 1, s)
           u1 == Iteration(Run, lowered, 1, t)
           r2 == IF r1.kind = "next" THEN Iteration(Run, st, 2, r1) ELSE r1
           u2 == IF u1.kind = "next" THEN Iteration(Run, lowered, 2, u1) ELSE u1
<1>0. 1 \in Nat /\ 2 \in Nat /\ d.depth = c.depth /\ s \in State /\ t \in State
  BY InsideType DEF Entering, Alike
<1>1. Leaving(exact, d, s, t, r1, u1) /\ ~Takes(r1, "continue", st.label)
  BY <1>0, IterationSim
<1>2. r1.shadowed = s.shadowed /\ r1.named = s.named /\ r1 \in State
  <2> DEFINE s1 == [s EXCEPT !.iter = 1]
             x == Run[<<st.body, s1>>]
  <2>1. s1 \in State /\ s1.shadowed = s.shadowed /\ s1.named = s.named
    BY <1>0 DEF State
  <2> HIDE DEF s1
  <2>2. Keeps(s1, x)
    BY <2>1, RunDoes
  <2> HIDE DEF x
  <2>3. Keeps(s1, Completes(x, "next"))
    BY <2>2, KeepsUpdates, "next" \in Kinds DEF Kinds
  <2>4. r1 = IF Takes(x, "continue", st.label) THEN Completes(x, "next") ELSE x
    BY DEF Iteration, x, s1
  <2> HIDE DEF r1
  <2> QED
    BY <2>1, <2>2, <2>3, <2>4 DEF Keeps
<1>3. u1.routed = t.routed
  BY <1>1 DEF Leaving
<1> HIDE DEF r1, u1, d
<1>4. Leaving(exact, d, s, t, r2, u2) /\ ~Takes(r2, "continue", st.label)
  <2>1. CASE r1.kind = "next"
    <3>1. u1.kind = "next" /\ Entering(exact, d, r1, u1)
      BY <1>1, <2>1, NextEnters
    <3>2. Entering(exact, c, r1, u1)
      BY <1>0, <3>1 DEF Entering
    <3> DEFINE r3 == Iteration(Run, st, 2, r1)
               u3 == Iteration(Run, lowered, 2, u1)
    <3>3. Leaving(exact, d, r1, u1, r3, u3) /\ ~Takes(r3, "continue", st.label)
      BY <1>0, <1>2, <1>3, <3>2, IterationSim DEF d
    <3> HIDE DEF r3, u3
    <3>4. r2 = r3 /\ u2 = u3
      BY <2>1, <3>1 DEF r3, u3
    <3> QED
      BY <1>1, <2>1, <3>3, <3>4, LeavingChain
  <2>2. CASE r1.kind # "next"
    <3>1. u1.kind # "next"
      BY <1>1, <2>2, NextEnters
    <3> QED
      BY <1>1, <2>2, <3>1
  <2> QED
    BY <2>1, <2>2
<1> HIDE DEF r2, u2
<1>5. Leaving(exact, c, s, t, Breaks(r2, st), Breaks(u2, lowered))
  BY <1>4, BreaksSim DEF d
<1>6. s.iter \in Nat /\ t.iter = s.iter
  BY <1>0 DEF State, Entering, Alike
<1>7. Leaving(exact, c, s, t, [Breaks(r2, st) EXCEPT !.iter = s.iter],
                              [Breaks(u2, lowered) EXCEPT !.iter = s.iter])
  BY <1>5, <1>6, LeavingIter
<1>8. Looping(Run, st, s) = [Breaks(r2, st) EXCEPT !.iter = s.iter]
  BY DEF Looping, r2, r1
<1>9. Looping(Run, lowered, t) = [Breaks(u2, lowered) EXCEPT !.iter = s.iter]
  BY <1>6 DEF Looping, u2, u1
<1> QED
  BY <1>7, <1>8, <1>9

\* A block that shadows the result.
LEMMA ShadowSim ==
    ASSUME NEW exact, NEW c, NEW st, st.body \in Every, NEW lowered, NEW s, NEW t,
           BodySim(exact, c, st.body, lowered.body, TRUE, s.named, t.routed),
           Entering(exact, c, s, t)
    PROVE  Leaving(exact, c, s, t, Shadowing(Run, st, s), Shadowing(Run, lowered, t))
<1> DEFINE s1 == [s EXCEPT !.shadowed = TRUE, !.shadow = 0]
           t1 == [t EXCEPT !.shadowed = TRUE, !.shadow = 0]
           r == Run[<<st.body, s1>>]
           u == Run[<<lowered.body, t1>>]
           x == [r EXCEPT !.shadowed = s.shadowed, !.shadow = s.shadow]
           y == [u EXCEPT !.shadowed = t.shadowed, !.shadow = t.shadow]
<1>1. s \in State /\ t \in State
  BY DEF Entering, Alike
<1>2. s1 \in State /\ t1 \in State
  BY <1>1, ShadowType
<1>3. /\ s1.routed = s.routed /\ s1.registered = s.registered /\ s1.named = s.named
      /\ s1.trace = s.trace /\ s1.iter = s.iter /\ s1.caught = s.caught
      /\ s1.result = s.result /\ s1.defers = s.defers /\ s1.kind = s.kind /\ s1.lost = s.lost
  BY <1>1 DEF State
<1>4. /\ t1.routed = t.routed /\ t1.registered = t.registered /\ t1.named = t.named
      /\ t1.trace = t.trace /\ t1.iter = t.iter /\ t1.caught = t.caught
      /\ t1.result = t.result /\ t1.defers = t.defers /\ t1.kind = t.kind /\ t1.flow = t.flow
      /\ t1.slot = t.slot
  BY <1>1 DEF State
<1>5. s1.shadowed = TRUE /\ t1.shadowed = TRUE /\ s1.shadow = 0 /\ t1.shadow = 0
  BY <1>1 DEF State
<1> HIDE DEF s1, t1
<1>6. Entering(exact, c, s1, t1)
  BY <1>2, <1>3, <1>4, <1>5 DEF Entering, Alike
<1>7. Leaving(exact, c, s1, t1, r, u)
  BY <1>3, <1>4, <1>5, <1>6 DEF BodySim
<1>8. r.shadowed = TRUE
  BY <1>2, <1>5, RunDoes DEF Keeps
<1> HIDE DEF r, u
<1>9. Leaving(exact, c, s, t, r, u)
  BY <1>3, <1>4, <1>7, LeavingFrom
<1>10. r \in State /\ u \in State
  BY <1>9 DEF Leaving, Alike
<1>11. x \in State /\ y \in State
  BY <1>1, <1>10 DEF State
<1>12. /\ x.routed = r.routed /\ x.registered = r.registered /\ x.named = r.named
       /\ x.trace = r.trace /\ x.iter = r.iter /\ x.caught = r.caught
       /\ x.result = r.result /\ x.defers = r.defers /\ x.kind = r.kind /\ x.lost = r.lost
       /\ x.label = r.label /\ x.exc = r.exc /\ x.value = r.value
       /\ x.shadowed = s.shadowed /\ x.shadow = s.shadow
  BY <1>10 DEF State
<1>13. /\ y.routed = u.routed /\ y.registered = u.registered /\ y.named = u.named
       /\ y.trace = u.trace /\ y.iter = u.iter /\ y.caught = u.caught
       /\ y.result = u.result /\ y.defers = u.defers /\ y.kind = u.kind /\ y.flow = u.flow
       /\ y.label = u.label /\ y.exc = u.exc /\ y.value = u.value /\ y.slot = u.slot
       /\ y.shadowed = t.shadowed /\ y.shadow = t.shadow
  BY <1>10 DEF State
<1> HIDE DEF x, y
<1>14. t.shadowed = s.shadowed /\ (exact => t.shadow = s.shadow)
  BY DEF Entering, Alike
<1>15. Alike(exact, c.depth, x, y)
  BY <1>9, <1>11, <1>12, <1>13, <1>14 DEF Leaving, Alike
<1>16. SameEnd(c, x, y)
  BY <1>9, <1>12, <1>13 DEF Leaving, SameEnd, Leads
<1>17. SameValue(c, t, x, y)
  BY <1>9, <1>12, <1>13 DEF Leaving, SameValue
<1>18. Hidden(exact, c.depth, x) => x.kind # "return"
  BY <1>8, <1>9, <1>12 DEF Leaving, Hidden
<1>19. Leaving(exact, c, s, t, x, y)
  BY <1>9, <1>12, <1>13, <1>15, <1>16, <1>17, <1>18 DEF Leaving
<1> QED
  BY <1>19 DEF Shadowing, x, y, r, u, s1, t1

-----------------------------------------------------------------------------
(* Closures.                                                               *)

\* After a block as written has completed as r, and the closure made of it as u: a return
\* and a jump have become signals.
Signalled(c, r, u, i) ==
    /\ r.kind \in {"break", "continue"}
    /\ Means(r.kind, r.label, c.targets, i)
    /\ u.kind = "next" /\ u.flow = CodeOf(r.kind, c.targets[i])

SignalEnd(c, r, u) ==
    \/ r.kind = "next" /\ u.kind = "next" /\ u.flow = 0
    \/ r.kind = "throw" /\ u.kind = "throw" /\ u.exc = r.exc
    \/ r.kind = "return" /\ u.kind = "next" /\ u.flow = 1
    \/ \E i : Signalled(c, r, u, i)

SlotValue(t, r, u) ==
    \/ r.named
    \/ r.lost
    \/ IF r.kind = "return" THEN u.slot = r.value ELSE u.slot = t.slot

Called(exact, c, s, t, r, u) ==
    /\ Alike(exact, c.depth, r, u)
    /\ u.routed = t.routed /\ r.named = s.named /\ (s.lost => r.lost)
    /\ ~t.routed => r.defers = s.defers
    /\ SignalEnd(c, r, u)
    /\ SlotValue(t, r, u)
    /\ exact /\ r.named /\ r.shadowed => r.kind # "return"

\* No deferred calls print nothing.
LEMMA NothingDeferred ==
    ASSUME NEW w \in Seq(Printed)
    PROVE  w \o Reverse(<<>>) = w
<1>1. Reverse(<<>>) = <<>>
  BY DEF Reverse
<1> QED
  BY <1>1

\* A block and the closure made of it keep step.
LEMMA ClosureSim ==
    ASSUME NEW exact, NEW c, WellNested(c), NEW next \in Nat, NEW body, NEW lowered \in Every,
           NEW s, NEW t,
           BodySim(exact, ClosureContext(c, next), body, lowered, s.shadowed, s.named, t.routed),
           Entering(exact, c, s, t)
    PROVE  Called(exact, c, s, t, Run[<<body, s>>], CallClosure(Run, lowered, t))
<1> DEFINE d == ClosureContext(c, next)
           t1 == [t EXCEPT !.defers = <<>>]
           r == Run[<<body, s>>]
           q == Run[<<lowered, t1>>]
           u == CallClosure(Run, lowered, t)
<1>0. c \in Context /\ c.depth \in Nat
  BY NestedType, ContextType
<1>1. d.depth = c.depth + 1 /\ d.targets = c.targets /\ d.depth > 0 /\ d.depth # 0
  <2>1. d.depth = c.depth + 1 /\ d.targets = c.targets
    BY <1>0, ClosureContextType
  <2> QED
    BY <1>0, <2>1
<1>2. s \in State /\ t \in State /\ <<>> \in Seq(Printed)
  BY DEF Entering, Alike
<1>3. /\ t1 \in State /\ t1.defers = <<>>
      /\ t1.routed = t.routed /\ t1.registered = t.registered /\ t1.named = t.named
      /\ t1.trace = t.trace /\ t1.iter = t.iter /\ t1.caught = t.caught
      /\ t1.shadowed = t.shadowed /\ t1.shadow = t.shadow /\ t1.result = t.result
      /\ t1.kind = t.kind /\ t1.flow = t.flow /\ t1.slot = t.slot
  BY <1>2 DEF State
<1> HIDE DEF t1, d
<1>4. Entering(exact, d, s, t1)
  BY <1>1, <1>3 DEF Entering, Alike
<1>5. Leaving(exact, d, s, t1, r, q)
  BY <1>3, <1>4 DEF BodySim, d
<1> HIDE DEF r, q
<1>6. r \in State /\ q \in State /\ q.defers = <<>> /\ q.trace \in Seq(Printed)
  BY <1>1, <1>5 DEF Leaving, Alike, State
<1>7. /\ u.kind = (CASE q.kind = "return" -> "next"
                     [] q.kind \in {"break", "continue"} -> "illegal"
                     [] OTHER -> q.kind)
      /\ u.trace = q.trace /\ u.defers = t.defers
      /\ u.routed = q.routed /\ u.registered = q.registered /\ u.named = q.named
      /\ u.iter = q.iter /\ u.caught = q.caught
      /\ u.shadowed = q.shadowed /\ u.shadow = q.shadow /\ u.result = q.result
      /\ u.flow = q.flow /\ u.slot = q.slot /\ u.exc = q.exc
  <2> DEFINE k == CASE q.kind = "return" -> "next"
                    [] q.kind \in {"break", "continue"} -> "illegal"
                    [] OTHER -> q.kind
             w == q.trace \o Reverse(q.defers)
  <2>1. u = [q EXCEPT !.kind = k, !.trace = w, !.defers = t.defers]
    BY DEF CallClosure, q, t1
  <2>2. w = q.trace
    BY <1>6, NothingDeferred
  <2> HIDE DEF k, w, u
  <2>3. /\ u.kind = k
        /\ u.trace = w /\ u.defers = t.defers
        /\ u.routed = q.routed /\ u.registered = q.registered /\ u.named = q.named
        /\ u.iter = q.iter /\ u.caught = q.caught
        /\ u.shadowed = q.shadowed /\ u.shadow = q.shadow /\ u.result = q.result
        /\ u.flow = q.flow /\ u.slot = q.slot /\ u.exc = q.exc
    BY <1>6, <2>1 DEF State
  <2> QED
    BY <2>2, <2>3 DEF k
<1>8. u \in State
  <2>1. Keeping(Run, Every)
    BY RunDoes DEF Keeping
  <2> QED
    BY <1>2, <2>1, ClosureKeeps DEF Keeps
<1> HIDE DEF u
<1>9. t1.routed = t.routed /\ (~t.routed => r.defers = s.defers)
  BY <1>1, <1>3, <1>5 DEF Leaving
<1>10. Alike(exact, c.depth, r, u)
  BY <1>0, <1>1, <1>3, <1>5, <1>6, <1>7, <1>8, <1>9 DEF Leaving, Alike, Entering
<1>11. SignalEnd(c, r, u)
  <2>1. SameEnd(d, r, q)
    BY <1>5 DEF Leaving
  <2>2. ASSUME NEW i, Leads(d, r, q, i) PROVE Signalled(c, r, u, i)
    <3>1. Means(r.kind, r.label, c.targets, i)
      BY <1>1, <2>2 DEF Leads
    <3>2. i \in 1 .. Len(c.targets)
      BY <1>0, <3>1, MeantIsInnermost
    <3>3. c.targets[i].depth <= c.depth /\ c.targets[i].depth \in Nat
      BY <1>0, <3>2, TargetType DEF WellNested
    <3>4. c.targets[i].depth # d.depth
      BY <1>0, <1>1, <3>3
    <3>5. q.kind = "return" /\ q.flow = CodeOf(r.kind, c.targets[i])
      BY <1>1, <2>2, <3>4 DEF Leads
    <3> QED
      BY <1>7, <2>2, <3>1, <3>5 DEF Signalled, Leads
  <2>3. r.kind = "next" /\ q.kind = "next" /\ q.flow = 0 => SignalEnd(c, r, u)
    BY <1>7 DEF SignalEnd
  <2>4. r.kind = "throw" /\ q.kind = "throw" /\ q.exc = r.exc => SignalEnd(c, r, u)
    BY <1>7 DEF SignalEnd
  <2>5. r.kind = "return" /\ q.kind = "return" /\ q.flow = 1 => SignalEnd(c, r, u)
    BY <1>7 DEF SignalEnd
  <2> QED
    BY <1>1, <2>1, <2>2, <2>3, <2>4, <2>5 DEF SameEnd, SignalEnd
<1>12. SlotValue(t, r, u)
  BY <1>1, <1>3, <1>5, <1>7 DEF Leaving, SameValue, SlotValue
<1>13. exact /\ r.named /\ r.shadowed => r.kind # "return"
  BY <1>1, <1>5 DEF Leaving, Hidden
<1>14. u.routed = t.routed /\ r.named = s.named /\ (s.lost => r.lost)
  BY <1>3, <1>5, <1>7 DEF Leaving
<1>15. Called(exact, c, s, t, r, u)
  BY <1>9, <1>10, <1>11, <1>12, <1>13, <1>14 DEF Called
<1> QED
  BY <1>15 DEF r, u

\* A handler takes the signal back before anything else.
LEMMA HandlerClosure ==
    ASSUME NEW made \in Every, NEW t \in State, t.kind = "next"
    PROVE  /\ LowerHandler(made) \in Every
           /\ CallClosure(Run, LowerHandler(made), t) =
                  CallClosure(Run, made, [t EXCEPT !.flow = 0])
<1> DEFINE t1 == [t EXCEPT !.defers = <<>>]
           t2 == [t1 EXCEPT !.flow = 0]
           t3 == [t EXCEPT !.flow = 0]
<1>0. <<>> \in Seq(Printed) /\ 0 \in Nat
  OBVIOUS
<1>1. t1 \in State /\ t1.kind = "next"
  BY <1>0 DEF State
<1>2. t2 \in State /\ t2.kind = "next"
  BY <1>0 DEF State
<1>3. t2 = [t3 EXCEPT !.defers = <<>>]
  BY DEF State
<1>4. t3.defers = t.defers
  BY DEF State
<1> HIDE DEF t3, t2, t1
<1>5. Signal(0) \in Every /\ Run[<<Signal(0), t1>>] = t2
  BY <1>0, <1>1, RunSignal DEF t2
<1>6. LowerHandler(made) \in Every /\ Run[<<LowerHandler(made), t1>>] = Run[<<made, t2>>]
  BY <1>1, <1>2, <1>5, RunSequence DEF LowerHandler
<1> DEFINE r == Run[<<made, t2>>]
           End(x, z) == [x EXCEPT !.kind = CASE @ = "return" -> "next"
                                           [] @ \in {"break", "continue"} -> "illegal"
                                           [] OTHER -> @,
                                !.trace = @ \o Reverse(x.defers), !.defers = z.defers]
<1>7. CallClosure(Run, LowerHandler(made), t) = End(r, t)
  BY <1>6 DEF CallClosure, t1
<1>8. CallClosure(Run, made, t3) = End(r, t3)
  BY <1>3 DEF CallClosure
<1> HIDE DEF r
<1>9. End(r, t) = End(r, t3)
  BY <1>4
<1> QED
  BY <1>6, <1>7, <1>8, <1>9 DEF t3

\* A finalizer keeps the signal unless it leaves one itself.
LEMMA FinalizerClosure ==
    ASSUME NEW made \in Every, NEW t \in State, NEW f,
           f = CallClosure(Run, made, [t EXCEPT !.flow = 0])
    PROVE  /\ LowerFinalizer(made) \in Every
           /\ CallClosure(Run, LowerFinalizer(made), t) =
                  [f EXCEPT !.flow = IF f.flow = 0 THEN t.flow ELSE f.flow]
<1> DEFINE t1 == [t EXCEPT !.defers = <<>>]
           t2 == [t1 EXCEPT !.flow = 0]
           t3 == [t EXCEPT !.flow = 0]
<1>0. <<>> \in Seq(Printed) /\ 0 \in Nat
  OBVIOUS
<1>1. t1 \in State /\ t1.flow = t.flow
  BY <1>0 DEF State
<1>2. t2 \in State
  BY <1>0 DEF State
<1>3. t2 = [t3 EXCEPT !.defers = <<>>]
  BY DEF State
<1>4. t3.defers = t.defers
  BY DEF State
<1>5. LowerFinalizer(made) \in Every
  BY EveryStatement DEF LowerFinalizer, Compound
<1> DEFINE r == Run[<<made, t2>>]
           w == IF r.flow = 0 THEN t.flow ELSE r.flow
           k == CASE r.kind = "return" -> "next"
                  [] r.kind \in {"break", "continue"} -> "illegal"
                  [] OTHER -> r.kind
           z == r.trace \o Reverse(r.defers)
           q == [r EXCEPT !.flow = w]
<1>6. Run[<<LowerFinalizer(made), t1>>] = q
  <2>1. Run[<<LowerFinalizer(made), t1>>] = Do(Run, LowerFinalizer(made), t1)
    BY <1>1, <1>5, RunDoes
  <2>2. Do(Run, LowerFinalizer(made), t1) = Guarded(Run, LowerFinalizer(made), t1)
    BY DEF Do, LowerFinalizer
  <2> QED
    BY <1>1, <2>1, <2>2 DEF Guarded, LowerFinalizer
<1>7. r \in State
  BY <1>2, RunDoes DEF Keeps
<1> HIDE DEF r, t1, t2, t3
<1>8. q.kind = r.kind /\ q.trace = r.trace /\ q.defers = r.defers
  BY <1>7 DEF State
<1>9. CallClosure(Run, LowerFinalizer(made), t) =
          [q EXCEPT !.kind = k, !.trace = z, !.defers = t.defers]
  <2> HIDE DEF q
  <2>1. CallClosure(Run, LowerFinalizer(made), t) =
            [q EXCEPT !.kind = CASE q.kind = "return" -> "next"
                                 [] q.kind \in {"break", "continue"} -> "illegal"
                                 [] OTHER -> q.kind,
                      !.trace = q.trace \o Reverse(q.defers), !.defers = t.defers]
    BY <1>6 DEF CallClosure, t1
  <2> QED
    BY <1>8, <2>1
<1>10. f = [r EXCEPT !.kind = k, !.trace = z, !.defers = t.defers]
  BY <1>3, <1>4 DEF CallClosure, r, t3
<1> HIDE DEF k, z, w
<1>11. f.flow = r.flow
  BY <1>7, <1>10 DEF State
<1>12. [f EXCEPT !.flow = w] = [q EXCEPT !.kind = k, !.trace = z, !.defers = t.defers]
  BY <1>7, <1>10 DEF State
<1> HIDE DEF q
<1>13. CallClosure(Run, LowerFinalizer(made), t) = [f EXCEPT !.flow = w]
  BY <1>9, <1>12
<1> QED
  BY <1>5, <1>11, <1>13 DEF w

\* The state a handler starts in, and a finalizer.
Handling(r) == [r EXCEPT !.kind = "next", !.caught = r.exc]

\* The state a handler starts in.
LEMMA HandlingType ==
    ASSUME NEW r \in State
    PROVE  /\ Handling(r) \in State /\ Handling(r).kind = "next"
           /\ Handling(r).caught = r.exc
           /\ Handling(r).routed = r.routed /\ Handling(r).registered = r.registered
           /\ Handling(r).named = r.named /\ Handling(r).trace = r.trace
           /\ Handling(r).iter = r.iter /\ Handling(r).shadowed = r.shadowed
           /\ Handling(r).result = r.result /\ Handling(r).shadow = r.shadow
           /\ Handling(r).defers = r.defers /\ Handling(r).lost = r.lost
           /\ Handling(r).slot = r.slot
<1>1. r.exc \in Exceptions
  BY DEF State
<1>2. \A k \in Kinds : \A e \in Exceptions : [r EXCEPT !.kind = k, !.caught = e] \in State
  BY DEF State
<1>3. Handling(r) \in State
  BY <1>1, <1>2 DEF Handling, Kinds
<1> QED
  BY <1>3 DEF State, Handling

\* The state a finalizer starts in.
LEMMA CompletesType ==
    ASSUME NEW r \in State
    PROVE  /\ Completes(r, "next") \in State /\ Completes(r, "next").kind = "next"
           /\ Completes(r, "next").caught = r.caught
           /\ Completes(r, "next").routed = r.routed
           /\ Completes(r, "next").registered = r.registered
           /\ Completes(r, "next").named = r.named /\ Completes(r, "next").trace = r.trace
           /\ Completes(r, "next").iter = r.iter /\ Completes(r, "next").shadowed = r.shadowed
           /\ Completes(r, "next").result = r.result /\ Completes(r, "next").shadow = r.shadow
           /\ Completes(r, "next").defers = r.defers /\ Completes(r, "next").lost = r.lost
           /\ Completes(r, "next").slot = r.slot /\ Completes(r, "next").flow = r.flow
<1>1. Completes(r, "next") \in State
  BY DEF State, Completes, Kinds
<1> QED
  BY <1>1 DEF State, Completes

\* The signal is taken back.
LEMMA QuietType ==
    ASSUME NEW r \in State
    PROVE  /\ [r EXCEPT !.flow = 0] \in State /\ [r EXCEPT !.flow = 0].flow = 0
           /\ [r EXCEPT !.flow = 0].kind = r.kind /\ [r EXCEPT !.flow = 0].caught = r.caught
           /\ [r EXCEPT !.flow = 0].routed = r.routed
           /\ [r EXCEPT !.flow = 0].registered = r.registered
           /\ [r EXCEPT !.flow = 0].named = r.named /\ [r EXCEPT !.flow = 0].trace = r.trace
           /\ [r EXCEPT !.flow = 0].iter = r.iter /\ [r EXCEPT !.flow = 0].shadowed = r.shadowed
           /\ [r EXCEPT !.flow = 0].result = r.result /\ [r EXCEPT !.flow = 0].shadow = r.shadow
           /\ [r EXCEPT !.flow = 0].defers = r.defers /\ [r EXCEPT !.flow = 0].lost = r.lost
           /\ [r EXCEPT !.flow = 0].slot = r.slot
<1>1. [r EXCEPT !.flow = 0] \in State
  BY 0 \in Nat DEF State
<1> QED
  BY <1>1 DEF State

\* A handler starts after a throw, a finalizer after whatever is not pending: what the
\* first block left goes into what the second one leaves.
LEMMA CalledChain ==
    ASSUME NEW exact, NEW c, NEW s, NEW t, NEW b, NEW v, Called(exact, c, s, t, b, v),
           b.kind # "return", NEW s1, NEW t1, s1.named = b.named, s1.lost = b.lost,
           s1.defers = b.defers, t1.routed = v.routed, t1.slot = v.slot,
           NEW h, NEW w, Called(exact, c, s1, t1, h, w)
    PROVE  Called(exact, c, s, t, h, w)
<1>1. SlotValue(t, h, w)
  BY DEF Called, SlotValue
<1> QED
  BY <1>1 DEF Called

\* The block as written and the closure, after an exception, and the handler.
LEMMA HandlerEnters ==
    ASSUME NEW exact, NEW c, NEW s, NEW t, NEW b, NEW v, Called(exact, c, s, t, b, v),
           b.kind = "throw"
    PROVE  Entering(exact, c, Handling(b), [Handling(v) EXCEPT !.flow = 0])
<1> DEFINE x == Handling(b)
           z == Handling(v)
           y == [z EXCEPT !.flow = 0]
<1>1. b \in State /\ v \in State /\ v.kind = "throw" /\ v.exc = b.exc
  BY DEF Called, Alike, SignalEnd, Signalled
<1>2. /\ x \in State /\ x.kind = "next" /\ x.caught = b.exc
      /\ x.routed = b.routed /\ x.registered = b.registered /\ x.named = b.named
      /\ x.trace = b.trace /\ x.iter = b.iter /\ x.shadowed = b.shadowed
      /\ x.result = b.result /\ x.shadow = b.shadow /\ x.defers = b.defers
  BY <1>1, HandlingType
<1>3. /\ z \in State /\ z.kind = "next" /\ z.caught = v.exc
      /\ z.routed = v.routed /\ z.registered = v.registered /\ z.named = v.named
      /\ z.trace = v.trace /\ z.iter = v.iter /\ z.shadowed = v.shadowed
      /\ z.result = v.result /\ z.shadow = v.shadow /\ z.defers = v.defers
  BY <1>1, HandlingType
<1> HIDE DEF x, z
<1>4. /\ y \in State /\ y.kind = z.kind /\ y.caught = z.caught /\ y.flow = 0
      /\ y.routed = z.routed /\ y.registered = z.registered /\ y.named = z.named
      /\ y.trace = z.trace /\ y.iter = z.iter /\ y.shadowed = z.shadowed
      /\ y.result = z.result /\ y.shadow = z.shadow /\ y.defers = z.defers
  BY <1>3, QuietType
<1> HIDE DEF y
<1>5. Alike(exact, c.depth, x, y)
  BY <1>1, <1>2, <1>3, <1>4 DEF Called, Alike
<1>6. Entering(exact, c, x, y)
  BY <1>2, <1>3, <1>4, <1>5 DEF Entering
<1> QED
  BY <1>6 DEF x, y, z

\* No call leaves as it has entered.
LEMMA CalledStays ==
    ASSUME NEW exact, NEW c, NEW s, NEW t, Entering(exact, c, s, t)
    PROVE  Called(exact, c, s, t, s, t)
<1>1. SignalEnd(c, s, t)
  BY DEF Entering, SignalEnd
<1>2. SlotValue(t, s, t)
  BY DEF Entering, SlotValue
<1> QED
  BY <1>1, <1>2 DEF Called, Entering

\* What the blocks before the finalizer make of the state, as written and as emitted.
Handled(handler, b) ==
    IF b.kind = "throw" /\ b.exc \in Raised /\ handler # None
    THEN Run[<<handler, Handling(b)>>] ELSE b
CallHandled(handler, v) ==
    IF v.kind = "throw" /\ v.exc \in Raised /\ handler # None
    THEN CallClosure(Run, handler, Handling(v)) ELSE v

\* The try block and the handler: the handler takes the exception and the signal is reset
\* (lines 337-339).
LEMMA HandledSim ==
    ASSUME NEW exact, NEW c, WellNested(c), NEW s, NEW t, NEW b, NEW v,
           Called(exact, c, s, t, b, v), b.shadowed = s.shadowed,
           NEW next \in Nat, NEW handler \in Every, NEW made \in Every,
           BodySim(exact, ClosureContext(c, next), handler, made, s.shadowed, s.named, t.routed),
           NEW emitted, emitted = IF handler = None THEN None ELSE LowerHandler(made)
    PROVE  /\ Called(exact, c, s, t, Handled(handler, b), CallHandled(emitted, v))
           /\ Handled(handler, b).shadowed = s.shadowed
<1>1. b \in State /\ v \in State /\ b.named = s.named /\ v.routed = t.routed
  BY DEF Called, Alike
<1>2. v.kind = "throw" <=> b.kind = "throw"
  BY DEF Called, SignalEnd, Signalled
<1>3. b.kind = "throw" => v.exc = b.exc
  BY DEF Called, SignalEnd, Signalled
<1>4. LowerHandler(made) # None
  <2>1. LowerHandler(made).op = "then" /\ None.op = "none"
    BY DEF LowerHandler, Then, None
  <2> QED
    BY <2>1
<1>5. CASE b.kind = "throw" /\ b.exc \in Raised /\ handler # None
  <2> DEFINE x == Handling(b)
             y == [Handling(v) EXCEPT !.flow = 0]
  <2>1. Handled(handler, b) = Run[<<handler, x>>]
    BY <1>5 DEF Handled
  <2>2. CallHandled(emitted, v) = CallClosure(Run, LowerHandler(made), Handling(v))
    BY <1>2, <1>3, <1>4, <1>5 DEF CallHandled
  <2>3. Handling(v) \in State /\ Handling(v).kind = "next"
    BY <1>1, HandlingType
  <2>4. CallHandled(emitted, v) = CallClosure(Run, made, y)
    BY <2>2, <2>3, HandlerClosure
  <2>5. /\ x \in State /\ x.shadowed = b.shadowed /\ x.named = b.named /\ x.lost = b.lost
        /\ x.defers = b.defers
    BY <1>1, HandlingType
  <2>6. y.routed = v.routed /\ y.slot = v.slot
    <3>1. Handling(v).routed = v.routed /\ Handling(v).slot = v.slot
      BY <1>1, HandlingType
    <3> QED
      BY <2>3, <3>1, QuietType
  <2>7. Entering(exact, c, x, y)
    BY <1>5, HandlerEnters
  <2> HIDE DEF x, y
  <2>8. x.shadowed = s.shadowed /\ x.named = s.named /\ y.routed = t.routed
    BY <1>1, <2>5, <2>6
  <2>9. BodySim(exact, ClosureContext(c, next), handler, made, x.shadowed, x.named, y.routed)
    BY <2>8
  <2>10. Called(exact, c, x, y, Run[<<handler, x>>], CallClosure(Run, made, y))
    BY <2>7, <2>9, ClosureSim
  <2>11. b.kind # "return"
    BY <1>5
  <2>12. Called(exact, c, s, t, Run[<<handler, x>>], CallClosure(Run, made, y))
    BY <2>5, <2>6, <2>10, <2>11, CalledChain
  <2>13. Run[<<handler, x>>].shadowed = x.shadowed
    BY <2>5, RunDoes DEF Keeps
  <2> QED
    BY <2>1, <2>4, <2>8, <2>12, <2>13
<1>6. CASE ~(b.kind = "throw" /\ b.exc \in Raised /\ handler # None)
  <2>1. Handled(handler, b) = b
    BY <1>6 DEF Handled
  <2>2. CallHandled(emitted, v) = v
    BY <1>2, <1>3, <1>6 DEF CallHandled
  <2> QED
    BY <2>1, <2>2
<1> QED
  BY <1>5, <1>6

\* The end of the finalizer of a try, as written and as emitted, but for the signal that the
\* emitted one restores.
Finishing(exact, c, h, w, f, v) ==
    /\ Called(exact, c, Completes(h, "next"), [Completes(w, "next") EXCEPT !.flow = 0], f, v)
    /\ f.shadowed = h.shadowed

Restored(w, v) == [v EXCEPT !.flow = IF v.flow = 0 THEN w.flow ELSE v.flow]

\* Whatever is pending, both finalizers enter alike.
LEMMA FinalizerEnters ==
    ASSUME NEW exact, NEW c, NEW s, NEW t, NEW h, NEW w, Called(exact, c, s, t, h, w)
    PROVE  Entering(exact, c, Completes(h, "next"), [Completes(w, "next") EXCEPT !.flow = 0])
<1> DEFINE x == Completes(h, "next")
           z == Completes(w, "next")
           y == [z EXCEPT !.flow = 0]
<1>1. h \in State /\ w \in State
  BY DEF Called, Alike
<1>2. /\ x \in State /\ x.kind = "next" /\ x.caught = h.caught
      /\ x.routed = h.routed /\ x.registered = h.registered /\ x.named = h.named
      /\ x.trace = h.trace /\ x.iter = h.iter /\ x.shadowed = h.shadowed
      /\ x.result = h.result /\ x.shadow = h.shadow /\ x.defers = h.defers
  BY <1>1, CompletesType
<1>3. /\ z \in State /\ z.kind = "next" /\ z.caught = w.caught
      /\ z.routed = w.routed /\ z.registered = w.registered /\ z.named = w.named
      /\ z.trace = w.trace /\ z.iter = w.iter /\ z.shadowed = w.shadowed
      /\ z.result = w.result /\ z.shadow = w.shadow /\ z.defers = w.defers
  BY <1>1, CompletesType
<1> HIDE DEF x, z
<1>4. /\ y \in State /\ y.kind = z.kind /\ y.caught = z.caught /\ y.flow = 0
      /\ y.routed = z.routed /\ y.registered = z.registered /\ y.named = z.named
      /\ y.trace = z.trace /\ y.iter = z.iter /\ y.shadowed = z.shadowed
      /\ y.result = z.result /\ y.shadow = z.shadow /\ y.defers = z.defers
  BY <1>3, QuietType
<1> HIDE DEF y
<1>5. Alike(exact, c.depth, x, y)
  BY <1>1, <1>2, <1>3, <1>4 DEF Called, Alike
<1>6. Entering(exact, c, x, y)
  BY <1>2, <1>3, <1>4, <1>5 DEF Entering
<1> QED
  BY <1>6 DEF x, y, z

\* No finalizer is an empty one.
LEMMA NoFinalizer ==
    ASSUME NEW w \in State, w.kind = "next"
    PROVE  CallClosure(Run, None, w) = w
<1> DEFINE w1 == [w EXCEPT !.defers = <<>>]
<1>1. <<>> \in Seq(Printed) /\ w.trace \in Seq(Printed)
  BY DEF State
<1>2. w1 \in State /\ w1.kind = "next" /\ w1.trace = w.trace /\ w1.defers = <<>>
  BY <1>1 DEF State
<1>3. Run[<<None, w1>>] = w1
  BY <1>2, RunNone
<1>4. w1.trace \o Reverse(w1.defers) = w.trace
  BY <1>1, <1>2, NothingDeferred
<1>5. CallClosure(Run, None, w) = [w1 EXCEPT !.kind = "next", !.trace = w.trace, !.defers = w.defers]
  <2> HIDE DEF w1
  <2> DEFINE k == CASE w1.kind = "return" -> "next"
                    [] w1.kind \in {"break", "continue"} -> "illegal"
                    [] OTHER -> w1.kind
  <2>1. CallClosure(Run, None, w) = [w1 EXCEPT !.kind = k, !.trace = w1.trace \o Reverse(w1.defers),
                                               !.defers = w.defers]
    BY <1>3 DEF CallClosure, w1
  <2>2. k = "next"
    BY <1>2
  <2> HIDE DEF k
  <2> QED
    BY <1>4, <2>1, <2>2
<1>6. [w1 EXCEPT !.kind = "next", !.trace = w.trace, !.defers = w.defers] = w
  BY DEF State
<1> QED
  BY <1>5, <1>6

\* The finalizer as a closure, without what is put around it.
Closing(finalizer, made, w) ==
    LET quiet == [Completes(w, "next") EXCEPT !.flow = 0] IN
    IF finalizer = None THEN quiet ELSE CallClosure(Run, made, quiet)

\* The finalizer with the saved signal (lines 340-347) ends as the one written does.
LEMMA FinalizerSim ==
    ASSUME NEW exact, NEW c, WellNested(c), NEW s, NEW t, NEW h, NEW w,
           Called(exact, c, s, t, h, w), h.shadowed = s.shadowed,
           NEW next \in Nat, NEW finalizer \in Every, NEW made \in Every,
           BodySim(exact, ClosureContext(c, next), finalizer, made, s.shadowed, s.named, t.routed),
           NEW emitted, emitted = IF finalizer = None THEN None ELSE LowerFinalizer(made)
    PROVE  /\ Finishing(exact, c, h, w, Run[<<finalizer, Completes(h, "next")>>],
                        Closing(finalizer, made, w))
           /\ CallClosure(Run, emitted, Completes(w, "next")) =
                  Restored(w, Closing(finalizer, made, w))
<1> DEFINE x == Completes(h, "next")
           z == Completes(w, "next")
           y == [z EXCEPT !.flow = 0]
           f == Run[<<finalizer, x>>]
<1>1. h \in State /\ w \in State /\ h.named = s.named /\ w.routed = t.routed
  BY DEF Called, Alike
<1>2. Entering(exact, c, x, y)
  BY FinalizerEnters
<1>3. x \in State /\ x.shadowed = h.shadowed /\ x.named = h.named
  BY <1>1, CompletesType
<1>4. z \in State /\ z.kind = "next" /\ z.routed = w.routed /\ z.flow = w.flow
  BY <1>1, CompletesType
<1>5. y.routed = z.routed /\ y.flow = 0
  BY <1>4, QuietType
<1>6. f.shadowed = h.shadowed
  BY <1>3, RunDoes DEF Keeps
<1>7. CASE finalizer = None
  <2>1. f = x
    BY <1>3, <1>7, RunNone
  <2>2. Called(exact, c, x, y, f, y)
    BY <1>2, <2>1, CalledStays
  <2>3. CallClosure(Run, emitted, z) = z
    BY <1>4, <1>7, NoFinalizer
  <2>4. z = Restored(w, y)
    <3>1. z = [y EXCEPT !.flow = z.flow]
      BY <1>4 DEF State
    <3> HIDE DEF y, z
    <3> QED
      BY <1>4, <1>5, <3>1 DEF Restored
  <2>5. Closing(finalizer, made, w) = y
    BY <1>7 DEF Closing
  <2> QED
    BY <1>6, <2>2, <2>3, <2>4, <2>5 DEF Finishing
<1>8. CASE finalizer # None
  <2> DEFINE v == CallClosure(Run, made, y)
  <2>0. Closing(finalizer, made, w) = v
    BY <1>8 DEF Closing
  <2>1. emitted = LowerFinalizer(made)
    BY <1>8
  <2>2. CallClosure(Run, LowerFinalizer(made), z) = [v EXCEPT !.flow = IF v.flow = 0 THEN z.flow ELSE v.flow]
    BY <1>4, FinalizerClosure
  <2>3. x.shadowed = s.shadowed /\ x.named = s.named /\ y.routed = t.routed
    BY <1>1, <1>3, <1>4, <1>5
  <2> HIDE DEF x, y
  <2>4. BodySim(exact, ClosureContext(c, next), finalizer, made, x.shadowed, x.named, y.routed)
    BY <2>3
  <2>5. Called(exact, c, x, y, f, v)
    BY <1>2, <2>4, ClosureSim
  <2> HIDE DEF v, f
  <2>6. Finishing(exact, c, h, w, f, v)
    BY <1>6, <2>5 DEF Finishing, x, y
  <2>7. CallClosure(Run, emitted, z) = Restored(w, v)
    BY <1>4, <2>1, <2>2 DEF Restored
  <2> QED
    BY <2>0, <2>6, <2>7 DEF f, x
<1> QED
  BY <1>7, <1>8

\* The last step of a try: what is pending takes effect.
CallFinished(w, g) ==
    IF g.kind = "next" THEN [g EXCEPT !.kind = w.kind, !.exc = w.exc] ELSE g

Abandoned(h, f) == IF h.kind = "throw" THEN f.kind = "return"
                   ELSE h.kind = "return" /\ f.kind # "next"
GivesWay(h, f) == f.kind = "next" \/ (h.kind = "throw" /\ f.kind # "throw")

\* What the end of a try leaves, as written.
LEMMA FinishedType ==
    ASSUME NEW h \in State, NEW f \in State, NEW st,
           f = Run[<<st.finalizer, Completes(h, "next")>>],
           NEW x, x = Finally(Run, st, h)
    PROVE  /\ x \in State
           /\ x.routed = f.routed /\ x.registered = f.registered /\ x.named = f.named
           /\ x.trace = f.trace /\ x.iter = f.iter /\ x.caught = f.caught
           /\ x.shadowed = f.shadowed /\ x.result = f.result /\ x.shadow = f.shadow
           /\ x.defers = f.defers /\ x.lost = (f.lost \/ Abandoned(h, f))
           /\ GivesWay(h, f) => /\ x.kind = h.kind /\ x.label = h.label /\ x.exc = h.exc
                                /\ x.value = h.value
           /\ ~GivesWay(h, f) => /\ x.kind = f.kind /\ x.label = f.label /\ x.exc = f.exc
                                 /\ x.value = f.value
<1> DEFINE lost == f.lost \/ Abandoned(h, f)
           g == [f EXCEPT !.lost = lost]
           y == [g EXCEPT !.kind = h.kind, !.label = h.label, !.exc = h.exc, !.value = h.value]
<1>1. x = IF GivesWay(h, f) THEN y ELSE g
  BY DEF Finally, GivesWay, Abandoned
<1>2. lost \in BOOLEAN
  BY DEF State, Abandoned
<1> HIDE DEF lost
<1>3. /\ g \in State /\ g.lost = lost
      /\ g.routed = f.routed /\ g.registered = f.registered /\ g.named = f.named
      /\ g.trace = f.trace /\ g.iter = f.iter /\ g.caught = f.caught
      /\ g.shadowed = f.shadowed /\ g.result = f.result /\ g.shadow = f.shadow
      /\ g.defers = f.defers
      /\ g.kind = f.kind /\ g.label = f.label /\ g.exc = f.exc /\ g.value = f.value
  <2>1. \A b \in BOOLEAN : [f EXCEPT !.lost = b] \in State
    BY DEF State
  <2>2. g \in State
    BY <1>2, <2>1
  <2> QED
    BY <2>2 DEF State
<1> HIDE DEF g
<1>4. /\ y \in State /\ y.lost = g.lost
      /\ y.routed = g.routed /\ y.registered = g.registered /\ y.named = g.named
      /\ y.trace = g.trace /\ y.iter = g.iter /\ y.caught = g.caught
      /\ y.shadowed = g.shadowed /\ y.result = g.result /\ y.shadow = g.shadow
      /\ y.defers = g.defers
      /\ y.kind = h.kind /\ y.label = h.label /\ y.exc = h.exc /\ y.value = h.value
  <2>1. h.kind \in Kinds /\ h.label \in Label /\ h.exc \in Exceptions /\ h.value \in Int
    BY DEF State
  <2>2. \A k \in Kinds : \A l \in Label : \A e \in Exceptions : \A v \in Int :
            [g EXCEPT !.kind = k, !.label = l, !.exc = e, !.value = v] \in State
    BY <1>3 DEF State
  <2>3. y \in State
    BY <2>1, <2>2
  <2> QED
    BY <1>3, <2>3 DEF State
<1> HIDE DEF y
<1>5. CASE GivesWay(h, f)
  BY <1>1, <1>3, <1>4, <1>5 DEF lost
<1>6. CASE ~GivesWay(h, f)
  BY <1>1, <1>3, <1>6 DEF lost
<1> QED
  BY <1>5, <1>6

\* What the end of a Try leaves, as emitted.
LEMMA CallFinishedType ==
    ASSUME NEW w \in State, NEW v \in State, NEW y, y = CallFinished(w, Restored(w, v))
    PROVE  /\ y \in State
           /\ y.routed = v.routed /\ y.registered = v.registered /\ y.named = v.named
           /\ y.trace = v.trace /\ y.iter = v.iter /\ y.caught = v.caught
           /\ y.shadowed = v.shadowed /\ y.result = v.result /\ y.shadow = v.shadow
           /\ y.defers = v.defers /\ y.slot = v.slot
           /\ y.flow = IF v.flow = 0 THEN w.flow ELSE v.flow
           /\ v.kind = "next" => y.kind = w.kind /\ y.exc = w.exc
           /\ v.kind # "next" => y.kind = v.kind /\ y.exc = v.exc
<1> DEFINE flow == IF v.flow = 0 THEN w.flow ELSE v.flow
           g == [v EXCEPT !.flow = flow]
           z == [g EXCEPT !.kind = w.kind, !.exc = w.exc]
<1>1. g = Restored(w, v)
  BY DEF Restored
<1>2. flow \in Nat
  BY DEF State
<1> HIDE DEF flow
<1>3. /\ g \in State /\ g.flow = flow
      /\ g.routed = v.routed /\ g.registered = v.registered /\ g.named = v.named
      /\ g.trace = v.trace /\ g.iter = v.iter /\ g.caught = v.caught
      /\ g.shadowed = v.shadowed /\ g.result = v.result /\ g.shadow = v.shadow
      /\ g.defers = v.defers /\ g.slot = v.slot /\ g.kind = v.kind /\ g.exc = v.exc
  <2>1. \A n \in Nat : [v EXCEPT !.flow = n] \in State
    BY DEF State
  <2>2. g \in State
    BY <1>2, <2>1
  <2> QED
    BY <2>2 DEF State
<1> HIDE DEF g
<1>4. /\ z \in State /\ z.flow = g.flow
      /\ z.routed = g.routed /\ z.registered = g.registered /\ z.named = g.named
      /\ z.trace = g.trace /\ z.iter = g.iter /\ z.caught = g.caught
      /\ z.shadowed = g.shadowed /\ z.result = g.result /\ z.shadow = g.shadow
      /\ z.defers = g.defers /\ z.slot = g.slot /\ z.kind = w.kind /\ z.exc = w.exc
  <2>1. w.kind \in Kinds /\ w.exc \in Exceptions
    BY DEF State
  <2>2. \A k \in Kinds : \A e \in Exceptions : [g EXCEPT !.kind = k, !.exc = e] \in State
    BY <1>3 DEF State
  <2>3. z \in State
    BY <2>1, <2>2
  <2> QED
    BY <1>3, <2>3 DEF State
<1>5. y = IF g.kind = "next" THEN z ELSE g
  BY <1>1 DEF CallFinished
<1> HIDE DEF z
<1>6. CASE v.kind = "next"
  BY <1>3, <1>4, <1>5, <1>6 DEF flow
<1>7. CASE v.kind # "next"
  BY <1>3, <1>5, <1>7 DEF flow
<1> QED
  BY <1>6, <1>7

\* What is pending, and what the finalizer does, come together in the same way in both.
LEMMA FinallySim ==
    ASSUME NEW exact, NEW c, WellNested(c), NEW s, NEW t, NEW h, NEW w,
           Called(exact, c, s, t, h, w), NEW st, NEW f,
           f = Run[<<st.finalizer, Completes(h, "next")>>], NEW v,
           Finishing(exact, c, h, w, f, v)
    PROVE  Called(exact, c, s, t, Finally(Run, st, h), CallFinished(w, Restored(w, v)))
<1> DEFINE h1 == Completes(h, "next")
           z == Completes(w, "next")
           w1 == [z EXCEPT !.flow = 0]
           x == Finally(Run, st, h)
           y == CallFinished(w, Restored(w, v))
<1>1. h \in State /\ w \in State /\ f \in State /\ v \in State
  BY DEF Finishing, Called, Alike
<1>2. h1.named = h.named /\ h1.lost = h.lost /\ h1.defers = h.defers
  BY <1>1, CompletesType
<1>3. w1.routed = w.routed /\ w1.slot = w.slot
  <2>1. z \in State /\ z.routed = w.routed /\ z.slot = w.slot
    BY <1>1, CompletesType
  <2> HIDE DEF z
  <2> QED
    BY <2>1, QuietType
<1>4. Called(exact, c, h1, w1, f, v) /\ f.shadowed = h.shadowed
  BY DEF Finishing
<1> HIDE DEF h1, z, w1
<1>5. /\ x \in State
      /\ x.routed = f.routed /\ x.registered = f.registered /\ x.named = f.named
      /\ x.trace = f.trace /\ x.iter = f.iter /\ x.caught = f.caught
      /\ x.shadowed = f.shadowed /\ x.result = f.result /\ x.shadow = f.shadow
      /\ x.defers = f.defers /\ x.lost = (f.lost \/ Abandoned(h, f))
      /\ GivesWay(h, f) => /\ x.kind = h.kind /\ x.label = h.label /\ x.exc = h.exc
                           /\ x.value = h.value
      /\ ~GivesWay(h, f) => /\ x.kind = f.kind /\ x.label = f.label /\ x.exc = f.exc
                            /\ x.value = f.value
  BY <1>1, FinishedType
<1>6. /\ y \in State
      /\ y.routed = v.routed /\ y.registered = v.registered /\ y.named = v.named
      /\ y.trace = v.trace /\ y.iter = v.iter /\ y.caught = v.caught
      /\ y.shadowed = v.shadowed /\ y.result = v.result /\ y.shadow = v.shadow
      /\ y.defers = v.defers /\ y.slot = v.slot
      /\ y.flow = IF v.flow = 0 THEN w.flow ELSE v.flow
      /\ v.kind = "next" => y.kind = w.kind /\ y.exc = w.exc
      /\ v.kind # "next" => y.kind = v.kind /\ y.exc = v.exc
  BY <1>1, CallFinishedType
<1> HIDE DEF x, y
<1>7. Alike(exact, c.depth, x, y)
  BY <1>4, <1>5, <1>6 DEF Called, Alike
<1>8. /\ y.routed = t.routed /\ x.named = s.named /\ (s.lost => x.lost)
      /\ ~t.routed => x.defers = s.defers
  BY ZenonT(30), <1>2, <1>3, <1>4, <1>5, <1>6 DEF Called
<1>9. SignalEnd(c, x, y)
  <2>1. CASE f.kind = "next"
    <3>1. v.kind = "next" /\ v.flow = 0
      BY <1>4, <2>1 DEF Called, SignalEnd, Signalled
    <3>2. x.kind = h.kind /\ x.label = h.label /\ x.exc = h.exc
      BY <1>5, <2>1 DEF GivesWay
    <3>3. y.kind = w.kind /\ y.exc = w.exc /\ y.flow = w.flow
      BY <1>6, <3>1
    <3>4. SignalEnd(c, h, w)
      BY DEF Called
    <3> QED
      BY <3>2, <3>3, <3>4 DEF SignalEnd, Signalled
  <2>2. CASE f.kind = "throw"
    <3>1. v.kind = "throw" /\ v.exc = f.exc
      BY <1>4, <2>2 DEF Called, SignalEnd, Signalled
    <3>2. x.kind = f.kind /\ x.exc = f.exc
      BY <1>5, <2>2 DEF GivesWay
    <3>3. y.kind = v.kind /\ y.exc = v.exc
      BY <1>6, <3>1
    <3> QED
      BY <2>2, <3>1, <3>2, <3>3 DEF SignalEnd
  <2>3. CASE f.kind \notin {"next", "throw"} /\ h.kind = "throw"
    <3>1. v.kind = "next"
      BY <1>4, <2>3 DEF Called, SignalEnd, Signalled
    <3>2. x.kind = h.kind /\ x.exc = h.exc
      BY <1>5, <2>3 DEF GivesWay
    <3>3. y.kind = w.kind /\ y.exc = w.exc
      BY <1>6, <3>1
    <3>4. w.kind = "throw" /\ w.exc = h.exc
      BY <2>3 DEF Called, SignalEnd, Signalled
    <3> QED
      BY <2>3, <3>2, <3>3, <3>4 DEF SignalEnd
  <2>4. CASE f.kind \notin {"next", "throw"} /\ h.kind # "throw"
    <3>1. v.kind = "next" /\ SignalEnd(c, f, v)
      BY <1>4, <2>4 DEF Called, SignalEnd, Signalled
    <3>2. x.kind = f.kind /\ x.label = f.label
      BY <1>5, <2>4 DEF GivesWay
    <3>3. y.kind = "next"
      BY <1>6, <2>4, <3>1 DEF Called, SignalEnd, Signalled
    <3>4. CASE f.kind = "return"
      <4>1. v.flow = 1
        BY <3>1, <3>4 DEF SignalEnd, Signalled
      <4> QED
        BY <1>6, <3>2, <3>3, <3>4, <4>1 DEF SignalEnd
    <3>5. CASE f.kind # "return"
      <4>1. PICK i : Signalled(c, f, v, i)
        BY <2>4, <3>1, <3>5 DEF SignalEnd
      <4>2. f.kind \in {"break", "continue"} /\ i \in Candidates(f.kind, f.label, c.targets)
        BY <4>1 DEF Signalled, Means
      <4>3. CodeOf(f.kind, c.targets[i]) \in Nat /\ CodeOf(f.kind, c.targets[i]) >= 2
        BY <4>2, CandidateCode
      <4>4. v.flow # 0
        BY <4>1, <4>3 DEF Signalled
      <4>5. Signalled(c, x, y, i)
        BY <1>6, <3>2, <3>3, <4>1, <4>4 DEF Signalled
      <4> QED
        BY <4>5 DEF SignalEnd
    <3> QED
      BY <3>4, <3>5
  <2> QED
    BY <2>1, <2>2, <2>3, <2>4
<1>10. SlotValue(t, x, y)
  <2>1. SUFFICES ASSUME ~x.named, ~x.lost
                 PROVE  IF x.kind = "return" THEN y.slot = x.value ELSE y.slot = t.slot
    BY DEF SlotValue
  <2>2. ~f.named /\ ~f.lost /\ ~Abandoned(h, f)
    BY <1>5, <2>1
  <2>3. ~h.named /\ ~h.lost
    BY <1>2, <1>4, <2>2 DEF Called
  <2>4. IF f.kind = "return" THEN v.slot = f.value ELSE v.slot = w.slot
    BY <1>3, <1>4, <2>2 DEF Called, SlotValue
  <2>5. IF h.kind = "return" THEN w.slot = h.value ELSE w.slot = t.slot
    BY <2>3 DEF Called, SlotValue
  <2> QED
    BY <1>5, <1>6, <2>2, <2>4, <2>5 DEF Abandoned, GivesWay
<1>11. exact /\ x.named /\ x.shadowed => x.kind # "return"
  <2>1. exact /\ x.named /\ x.shadowed => f.kind # "return" /\ h.kind # "return"
    BY <1>2, <1>4, <1>5 DEF Called
  <2> QED
    BY <1>5, <2>1
<1>12. Called(exact, c, s, t, x, y)
  BY <1>7, <1>8, <1>9, <1>10, <1>11 DEF Called
<1> QED
  BY <1>12 DEF x, y

-----------------------------------------------------------------------------
(* The tests after a Try.                                                  *)

\* The loops around a statement, and the test that there is for target i.
Loops(c) == {j \in 1 .. Len(c.targets) : c.targets[j].continueCode # 0}
Meant(c, S, i) ==
    /\ i \in S
    /\ c.targets[i].label = "" => ~\E j \in S : j > i /\ c.targets[j].depth = c.depth
Tested(c, tok, i) == Meant(c, IF tok = "break" THEN 1 .. Len(c.targets) ELSE Loops(c), i)
TestOf(c, tok, i) == IF Tested(c, tok, i) THEN TestFor(tok, c.targets[i]) ELSE None

\* The tests for a target, one by one.
LEMMA TestsForm ==
    ASSUME NEW c, NEW i
    PROVE  TestsFor(c, i) = IF c.targets[i].depth # c.depth THEN None
                            ELSE Then(TestOf(c, "break", i), TestOf(c, "continue", i))
BY DEF TestsFor, TestOf, Tested, Meant, Loops

\* After an abrupt end the rest is not run.
LEMMA RunStops ==
    ASSUME NEW a \in Every, NEW b \in Every, NEW s \in State, Run[<<a, s>>].kind # "next"
    PROVE  Run[<<Then(a, b), s>>] = Run[<<a, s>>]
BY RunSequence

\* A branch is taken.
Jumps(u, tok, label) == [[u EXCEPT !.flow = 0] EXCEPT !.kind = tok, !.label = label]

\* One test takes back the signal and branches (lines 361-367).
LEMMA RunTestFor ==
    ASSUME NEW target \in Targets, NEW tok \in {"break", "continue"},
           NEW u \in State, u.kind = "next"
    PROVE  /\ TestFor(tok, target) \in Every
           /\ Run[<<TestFor(tok, target), u>>] =
                  IF u.flow = CodeOf(tok, target) THEN Jumps(u, tok, target.label) ELSE u
<1> DEFINE q == [u EXCEPT !.flow = 0]
           b == Branch(tok, target.label)
<1>1. 0 \in Nat /\ CodeOf(tok, target) \in Nat /\ target.label \in Label
  BY DEF CodeOf, Targets
<1>2. q \in State /\ q.kind = "next"
  BY QuietType
<1> HIDE DEF q
<1>3. Signal(0) \in Every /\ Run[<<Signal(0), u>>] = q
  BY <1>1, RunSignal DEF q
<1>4. b \in Every /\ Run[<<b, q>>] = Jumps(u, tok, target.label)
  <2>1. b \in Every /\ Run[<<b, q>>] = [q EXCEPT !.kind = tok, !.label = target.label]
    BY <1>1, <1>2, RunBranch
  <2> QED
    BY <2>1 DEF Jumps, q
<1> HIDE DEF b
<1>5. Then(Signal(0), b) \in Every /\ Run[<<Then(Signal(0), b), u>>] = Jumps(u, tok, target.label)
  BY <1>2, <1>3, <1>4, RunSequence
<1>6. TestFor(tok, target) = Test(CodeOf(tok, target), Then(Signal(0), b))
  BY DEF TestFor, b
<1> QED
  BY <1>1, <1>5, <1>6, RunTest

\* No test for target i is for the signal.
Quiet(c, u, i) ==
    c.targets[i].depth = c.depth =>
        /\ u.flow # c.targets[i].breakCode
        /\ c.targets[i].continueCode # 0 => u.flow # c.targets[i].continueCode

\* Tests are statements.
LEMMA TestsStatement ==
    ASSUME NEW c \in Context, NEW i \in 1 .. Len(c.targets)
    PROVE  /\ TestsFor(c, i) \in Every
           /\ \A tok \in {"break", "continue"} : TestOf(c, tok, i) \in Every
<1>1. TestsFor(c, i) \in Every
  BY TestsTyped, EveryStatement, 3 \in Nat
<1>2. c.targets[i] \in Targets
  BY TargetType
<1>3. \A tok \in {"break", "continue"} : TestFor(tok, c.targets[i]) \in Statement[2]
  <2>1. /\ 0 \in Nat /\ 1 \in Nat /\ 2 \in Nat /\ 0 < 1 /\ 1 < 2
    OBVIOUS
  <2> DEFINE t == c.targets[i]
  <2>2. t \in Targets
    BY <1>2
  <2> HIDE DEF t
  <2>3. ASSUME NEW tok \in {"break", "continue"} PROVE TestFor(tok, t) \in Statement[2]
    <3>1. CodeOf(tok, t) \in Nat /\ t.label \in Label
      BY <2>2 DEF CodeOf, Targets
    <3>2. Then(Signal(0), Branch(tok, t.label)) \in Statement[1]
      BY <2>1, <3>1, SimpleStatements, CompoundStatements
    <3> QED
      BY <2>1, <3>1, <3>2, CompoundStatements DEF TestFor
  <2> QED
    BY <2>3 DEF t
<1>4. None \in Statement[2]
  BY SimpleStatements, 2 \in Nat
<1> QED
  BY <1>1, <1>3, <1>4, EveryStatement, 2 \in Nat DEF TestOf

\* A test that is not for the signal does nothing.
LEMMA TestPasses ==
    ASSUME NEW c \in Context, NEW i \in 1 .. Len(c.targets), NEW u \in State, u.kind = "next",
           NEW tok \in {"break", "continue"},
           Tested(c, tok, i) => u.flow # CodeOf(tok, c.targets[i])
    PROVE  Run[<<TestOf(c, tok, i), u>>] = u
<1>1. c.targets[i] \in Targets
  BY TargetType
<1> QED
  BY <1>1, RunTestFor, RunNone DEF TestOf

\* Nor do the two of a target.
LEMMA TestsPass ==
    ASSUME NEW c \in Context, NEW i \in 1 .. Len(c.targets), NEW u \in State, u.kind = "next",
           Quiet(c, u, i)
    PROVE  Run[<<TestsFor(c, i), u>>] = u
<1>1. CASE c.targets[i].depth # c.depth
  BY <1>1, TestsForm, RunNone
<1>2. CASE c.targets[i].depth = c.depth
  <2>1. Run[<<TestOf(c, "break", i), u>>] = u
    BY <1>2, TestPasses DEF Quiet, CodeOf
  <2>2. Tested(c, "continue", i) => c.targets[i].continueCode # 0
    BY DEF Tested, Meant, Loops
  <2>3. Run[<<TestOf(c, "continue", i), u>>] = u
    BY <1>2, <2>2, TestPasses DEF Quiet, CodeOf
  <2>4. TestOf(c, "break", i) \in Every /\ TestOf(c, "continue", i) \in Every
    BY TestsStatement
  <2>5. TestsFor(c, i) = Then(TestOf(c, "break", i), TestOf(c, "continue", i))
    BY <1>2, TestsForm
  <2> QED
    BY <2>1, <2>3, <2>4, <2>5, RunSequence
<1> QED
  BY <1>1, <1>2

\* The test for a target that is meant takes the branch to it.
LEMMA TestsTake ==
    ASSUME NEW c, WellNested(c), NEW i \in 1 .. Len(c.targets), NEW u \in State, u.kind = "next",
           NEW tok \in {"break", "continue"}, Tested(c, tok, i), c.targets[i].depth = c.depth,
           u.flow = CodeOf(tok, c.targets[i])
    PROVE  Run[<<TestsFor(c, i), u>>] = Jumps(u, tok, c.targets[i].label)
<1>0. c \in Context
  BY NestedType
<1>1. c.targets[i] \in Targets /\ c.targets[i].breakCode \in Nat /\ c.targets[i].continueCode \in Nat
  BY <1>0, TargetType
<1>2. TestOf(c, "break", i) \in Every /\ TestOf(c, "continue", i) \in Every
  BY <1>0, TestsStatement
<1>3. TestsFor(c, i) = Then(TestOf(c, "break", i), TestOf(c, "continue", i))
  BY TestsForm
<1>4. Run[<<TestOf(c, tok, i), u>>] = Jumps(u, tok, c.targets[i].label)
  BY <1>1, RunTestFor DEF TestOf
<1>5. CASE tok = "break"
  <2>1. Jumps(u, tok, c.targets[i].label).kind = "break"
    <3>1. [u EXCEPT !.flow = 0] \in State
      BY QuietType
    <3> QED
      BY <1>5, <3>1 DEF Jumps, State
  <2> DEFINE z == Jumps(u, tok, c.targets[i].label)
  <2>2. Run[<<TestOf(c, "break", i), u>>] = z /\ z.kind # "next"
    BY <1>4, <1>5, <2>1
  <2> DEFINE a == TestOf(c, "break", i)
             b == TestOf(c, "continue", i)
  <2>3. a \in Every /\ b \in Every /\ TestsFor(c, i) = Then(a, b)
    BY <1>2, <1>3
  <2> HIDE DEF z
  <2>4. Run[<<a, u>>] = z
    BY <2>2
  <2> HIDE DEF a, b
  <2>5. Run[<<TestsFor(c, i), u>>] = z
    BY <2>2, <2>3, <2>4, RunStops, Zenon
  <2> QED
    BY <2>5 DEF z
<1>6. CASE tok = "continue"
  <2>1. c.targets[i].continueCode # 0
    BY <1>6 DEF Tested, Meant, Loops
  <2>2. c.targets[i].continueCode = c.targets[i].breakCode + 1
    BY <2>1 DEF WellNested
  <2>3. u.flow # c.targets[i].breakCode
    BY <1>1, <1>6, <2>2 DEF CodeOf
  <2>4. Run[<<TestOf(c, "break", i), u>>] = u
    BY <1>0, <2>3, TestPasses DEF CodeOf
  <2> QED
    BY <1>2, <1>3, <1>4, <1>6, <2>4, RunSequence
<1> QED
  BY <1>5, <1>6

\* The tests after a call are a statement.
LEMMA DispatchStatement ==
    ASSUME NEW c \in Context
    PROVE  \A n \in Nat : n <= Len(c.targets) => Dispatch(c, n) \in Every
<1> TAKE n \in Nat
<1>1. 3 + n \in Nat
  OBVIOUS
<1> QED
  BY <1>1, DispatchTyped, EveryStatement

\* The tests run from the inside out.
LEMMA DispatchStep ==
    ASSUME NEW c \in Context, NEW n \in Nat, n + 1 <= Len(c.targets), NEW u \in State
    PROVE  Run[<<Dispatch(c, n + 1), u>>] =
               IF Run[<<TestsFor(c, n + 1), u>>].kind = "next"
               THEN Run[<<Dispatch(c, n), Run[<<TestsFor(c, n + 1), u>>]>>]
               ELSE Run[<<TestsFor(c, n + 1), u>>]
<1>1. Len(c.targets) \in Nat
  BY ContextType
<1>2. n + 1 \in 1 .. Len(c.targets) /\ n <= Len(c.targets)
  BY <1>1
<1>3. TestsFor(c, n + 1) \in Every /\ Dispatch(c, n) \in Every
  BY <1>2, TestsStatement, DispatchStatement
<1>4. Dispatch(c, n + 1) = Then(TestsFor(c, n + 1), Dispatch(c, n))
  BY DispatchLevels
<1> QED
  BY <1>3, <1>4, RunSequence

\* If no test is for the signal, what comes after them decides.
LEMMA DispatchPasses ==
    ASSUME NEW c \in Context, NEW u \in State, u.kind = "next",
           \A j \in 1 .. Len(c.targets) : Quiet(c, u, j)
    PROVE  Run[<<Dispatch(c, Len(c.targets)), u>>] = Run[<<Onward(c), u>>]
<1> DEFINE T == {n \in Nat : n <= Len(c.targets) =>
                     Run[<<Dispatch(c, n), u>>] = Run[<<Onward(c), u>>]}
<1>0. Len(c.targets) \in Nat
  BY ContextType
<1>1. 0 \in T
  BY DispatchLevels
<1>2. ASSUME NEW n \in Nat, n \in T PROVE n + 1 \in T
  <2> SUFFICES ASSUME n + 1 <= Len(c.targets)
               PROVE  Run[<<Dispatch(c, n + 1), u>>] = Run[<<Onward(c), u>>]
    OBVIOUS
  <2>1. n + 1 \in 1 .. Len(c.targets) /\ n <= Len(c.targets)
    BY <1>0
  <2>2. Run[<<TestsFor(c, n + 1), u>>] = u
    BY <2>1, TestsPass
  <2> QED
    BY <1>2, <2>1, <2>2, DispatchStep
<1> HIDE DEF T
<1>3. \A n \in Nat : n \in T
  BY <1>1, <1>2, NatInduct
<1> QED
  BY <1>0, <1>3 DEF T

\* The first target whose tests take the signal decides.
LEMMA DispatchTakes ==
    ASSUME NEW c \in Context, NEW u \in State, u.kind = "next", NEW i \in 1 .. Len(c.targets),
           \A j \in 1 .. Len(c.targets) : j > i => Quiet(c, u, j),
           Run[<<TestsFor(c, i), u>>].kind # "next"
    PROVE  Run[<<Dispatch(c, Len(c.targets)), u>>] = Run[<<TestsFor(c, i), u>>]
<1> DEFINE T == {n \in Nat : i <= n /\ n <= Len(c.targets) =>
                     Run[<<Dispatch(c, n), u>>] = Run[<<TestsFor(c, i), u>>]}
<1>0. Len(c.targets) \in Nat /\ i \in Nat /\ i >= 1 /\ i <= Len(c.targets)
  BY ContextType
<1>1. 0 \in T
  BY <1>0
<1>2. ASSUME NEW n \in Nat, n \in T PROVE n + 1 \in T
  <2> SUFFICES ASSUME i <= n + 1, n + 1 <= Len(c.targets)
               PROVE  Run[<<Dispatch(c, n + 1), u>>] = Run[<<TestsFor(c, i), u>>]
    OBVIOUS
  <2>1. n + 1 \in 1 .. Len(c.targets) /\ n <= Len(c.targets)
    BY <1>0
  <2>2. CASE i = n + 1
    BY <2>2, DispatchStep
  <2>3. CASE i # n + 1
    <3>1. i <= n /\ n + 1 > i
      BY <1>0, <2>3
    <3>2. Run[<<TestsFor(c, n + 1), u>>] = u
      BY <2>1, <3>1, TestsPass
    <3> QED
      BY <1>2, <2>1, <3>1, <3>2, DispatchStep
  <2> QED
    BY <2>2, <2>3
<1> HIDE DEF T
<1>3. \A n \in Nat : n \in T
  BY <1>1, <1>2, NatInduct
<1> QED
  BY <1>0, <1>3 DEF T

\* After the tests (lines 370-378).
LEMMA OnwardRuns ==
    ASSUME NEW c \in Context, NEW u \in State
    PROVE  Run[<<Onward(c), u>>] =
               IF c.depth > 0 THEN IF u.flow # 0 THEN Completes(u, "return") ELSE u
               ELSE IF u.flow = 1 THEN Returns(u, IF u.named THEN Visible(u) ELSE u.slot) ELSE u
<1>1. CASE c.depth > 0
  BY <1>1, RunEmitted DEF Onward
<1>2. CASE ~(c.depth > 0)
  <2>1. Onward(c) = Test(1, ReturnSlots)
    BY <1>2 DEF Onward
  <2>2. ReturnSlots \in Every
        /\ Run[<<ReturnSlots, u>>] = Returns(u, IF u.named THEN Visible(u) ELSE u.slot)
    BY RunEmitted
  <2>3. Run[<<Test(1, ReturnSlots), u>>] = IF u.flow = 1 THEN Run[<<ReturnSlots, u>>] ELSE u
    BY <2>2, RunTest, 1 \in Nat
  <2> QED
    BY <1>2, <2>1, <2>2, <2>3
<1> QED
  BY <1>1, <1>2

\* Of the targets with a label, and of those without, the meant one is tested; and the
\* branch that the test takes means it too.
LEMMA MeantIsTested ==
    ASSUME NEW c, WellNested(c), NEW tok \in {"break", "continue"}, NEW label, NEW i,
           Means(tok, label, c.targets, i)
    PROVE  Tested(c, tok, i) /\ Means(tok, c.targets[i].label, c.targets, i)
<1> DEFINE S == IF tok = "break" THEN 1 .. Len(c.targets) ELSE Loops(c)
           own == c.targets[i].label
           Plainly == own = ""
           May(l, j) == l \in {"", c.targets[j].label}
<1>0. c \in Context /\ i \in 1 .. Len(c.targets) /\ Len(c.targets) \in Nat
  BY NestedType, MeantIsInnermost, ContextType
<1>1. S = {j \in 1 .. Len(c.targets) : tok = "continue" => c.targets[j].continueCode # 0}
  BY DEF Loops
<1>2. \A l : Candidates(tok, l, c.targets) = {j \in S : May(l, j)}
  <2> TAKE l
  <2> HIDE DEF May
  <2>1. Candidates(tok, l, c.targets) = {j \in 1 .. Len(c.targets) :
            May(l, j) /\ (tok = "continue" => c.targets[j].continueCode # 0)}
    BY DEF Candidates, May
  <2> QED
    BY <1>1, <2>1
<1>3. S \subseteq 1 .. Len(c.targets)
  BY <1>1
<1>4. Plainly => May(own, i) /\ \A j : May(own, j)
  OBVIOUS
<1>5. Plainly => (May(label, i) => \A j : May(label, j))
  OBVIOUS
<1>6. May(own, i)
  OBVIOUS
<1>7. \A j \in 1 .. Len(c.targets) : ~Plainly /\ May(own, j) => ~(j < i) /\ ~(i < j)
  <2> TAKE j \in 1 .. Len(c.targets)
  <2>1. j < i => Unlike(c.targets[i], c.targets[j])
    BY <1>0 DEF WellNested
  <2>2. i < j => Unlike(c.targets[j], c.targets[i])
    BY <1>0 DEF WellNested
  <2>3. Unlike(c.targets[i], c.targets[j]) \/ Unlike(c.targets[j], c.targets[i]) =>
            (Plainly \/ ~May(own, j))
    BY DEF Unlike
  <2> QED
    BY <2>1, <2>2, <2>3
<1> HIDE DEF S, Plainly, May
<1>8. i \in S /\ May(label, i) /\ \A j \in S : May(label, j) => j <= i
  BY <1>2 DEF Means
<1>9. Plainly => \A j \in S : j <= i
  BY <1>5, <1>8
<1>10. Tested(c, tok, i)
  <2>1. Plainly => ~\E j \in S : j > i /\ c.targets[j].depth = c.depth
    BY <1>0, <1>3, <1>9
  <2>2. Meant(c, S, i) <=> /\ i \in S
                           /\ Plainly => ~\E j \in S : j > i /\ c.targets[j].depth = c.depth
    BY DEF Meant, Plainly
  <2> QED
    BY <1>8, <2>1, <2>2 DEF Tested, S
<1>11. \A j \in S : May(own, j) => j <= i
  BY <1>0, <1>3, <1>7, <1>9
<1>12. Means(tok, own, c.targets, i)
  <2> HIDE DEF own
  <2> QED
    BY <1>2, <1>6, <1>8, <1>11 DEF Means
<1> QED
  BY <1>10, <1>12

\* What the dispatch makes of the state is in step with the block as written.
LEMMA PassedOn ==
    ASSUME NEW exact, NEW c, NEW s, NEW t, NEW r, NEW u, Called(exact, c, s, t, r, u),
           NEW x \in State, x.routed = u.routed, x.registered = u.registered,
           x.named = u.named, x.trace = u.trace, x.iter = u.iter, x.caught = u.caught,
           x.shadowed = u.shadowed, exact => x.result = u.result, x.shadow = u.shadow,
           x.defers = u.defers, x.slot = u.slot, SameEnd(c, r, x),
           r.kind = "return" /\ c.depth = 0 /\ ~r.named => x.value = u.slot
    PROVE  Leaving(exact, c, s, t, r, x)
<1>1. Alike(exact, c.depth, r, x)
  BY DEF Called, Alike
<1>2. SameValue(c, t, r, x)
  BY DEF Called, SlotValue, SameValue
<1>3. Hidden(exact, c.depth, r) => r.kind # "return"
  BY DEF Called, Hidden
<1> QED
  BY <1>1, <1>2, <1>3 DEF Called, Leaving

\* No test is for no signal, and none for that of a return.
LEMMA LowCodesPass ==
    ASSUME NEW c, WellNested(c), NEW u, u.flow \in {0, 1}
    PROVE  \A j \in 1 .. Len(c.targets) : Quiet(c, u, j)
<1> TAKE j \in 1 .. Len(c.targets)
<1>1. c.targets[j].breakCode \in Nat /\ c.targets[j].continueCode \in Nat
  BY NestedType, TargetType
<1>2. /\ c.targets[j].breakCode >= 2
      /\ c.targets[j].continueCode # 0 =>
             c.targets[j].continueCode = c.targets[j].breakCode + 1
  BY DEF WellNested
<1> QED
  BY <1>1, <1>2 DEF Quiet

\* Nor is one for the jump to another target.
LEMMA OtherTestsPass ==
    ASSUME NEW c, WellNested(c), NEW tok \in {"break", "continue"}, NEW label, NEW i,
           i \in Candidates(tok, label, c.targets), NEW u, u.flow = CodeOf(tok, c.targets[i])
    PROVE  \A j \in 1 .. Len(c.targets) : j # i => Quiet(c, u, j)
<1> TAKE j \in 1 .. Len(c.targets)
<1>1. i \in 1 .. Len(c.targets) /\ CodeOf(tok, c.targets[i]) # 0
  BY CandidateCode
<1>2. CodeOf(tok, c.targets[i]) = CodeOf("break", c.targets[j]) => i = j
  BY <1>1, CodesDiffer
<1>3. CodeOf(tok, c.targets[i]) = CodeOf("continue", c.targets[j]) => i = j
  BY <1>1, CodesDiffer
<1>4. CodeOf("break", c.targets[j]) = c.targets[j].breakCode
      /\ CodeOf("continue", c.targets[j]) = c.targets[j].continueCode
  BY DEF CodeOf
<1> QED
  BY <1>2, <1>3, <1>4 DEF Quiet

\* The state after a branch.
LEMMA JumpsType ==
    ASSUME NEW u \in State, NEW tok \in {"break", "continue"}, NEW label \in Label,
           NEW x, x = Jumps(u, tok, label)
    PROVE  /\ x \in State /\ x.kind = tok /\ x.label = label /\ x.flow = 0
           /\ x.routed = u.routed /\ x.registered = u.registered /\ x.named = u.named
           /\ x.trace = u.trace /\ x.iter = u.iter /\ x.caught = u.caught
           /\ x.shadowed = u.shadowed /\ x.result = u.result /\ x.shadow = u.shadow
           /\ x.defers = u.defers /\ x.slot = u.slot
<1> DEFINE q == [u EXCEPT !.flow = 0]
<1>1. /\ q \in State /\ q.flow = 0
      /\ q.routed = u.routed /\ q.registered = u.registered /\ q.named = u.named
      /\ q.trace = u.trace /\ q.iter = u.iter /\ q.caught = u.caught
      /\ q.shadowed = u.shadowed /\ q.result = u.result /\ q.shadow = u.shadow
      /\ q.defers = u.defers /\ q.slot = u.slot
  BY QuietType
<1>2. x = [q EXCEPT !.kind = tok, !.label = label]
  BY DEF Jumps
<1> HIDE DEF q
<1>3. tok \in Kinds
  BY DEF Kinds
<1>4. x \in State
  <2>1. \A k \in Kinds : \A l \in Label : [q EXCEPT !.kind = k, !.label = l] \in State
    BY <1>1 DEF State
  <2> QED
    BY <1>2, <1>3, <2>1
<1> QED
  BY <1>1, <1>2, <1>4 DEF State

\* A return in an emitted closure.
LEMMA ReturningType ==
    ASSUME NEW u \in State, NEW x, x = Completes(u, "return")
    PROVE  /\ x \in State /\ x.kind = "return" /\ x.flow = u.flow
           /\ x.routed = u.routed /\ x.registered = u.registered /\ x.named = u.named
           /\ x.trace = u.trace /\ x.iter = u.iter /\ x.caught = u.caught
           /\ x.shadowed = u.shadowed /\ x.result = u.result /\ x.shadow = u.shadow
           /\ x.defers = u.defers /\ x.slot = u.slot
<1>1. x \in State
  BY DEF State, Completes, Kinds
<1> QED
  BY <1>1 DEF State, Completes

\* The state after the return of the slots.
LEMMA ReturnSlotsType ==
    ASSUME NEW u \in State, NEW x, x = Returns(u, IF u.named THEN Visible(u) ELSE u.slot)
    PROVE  /\ x \in State /\ x.kind = "return"
           /\ x.routed = u.routed /\ x.registered = u.registered /\ x.named = u.named
           /\ x.trace = u.trace /\ x.iter = u.iter /\ x.caught = u.caught
           /\ x.shadowed = u.shadowed /\ x.shadow = u.shadow
           /\ x.defers = u.defers /\ x.slot = u.slot
           /\ ~(u.named /\ u.shadowed) => x.result = u.result
           /\ ~u.named => x.value = u.slot
<1> DEFINE v == IF u.named THEN Visible(u) ELSE u.slot
           w == IF u.named THEN v ELSE u.result
<1>1. v \in Int /\ w \in Int
  BY DEF State, Visible
<1>2. ~(u.named /\ u.shadowed) => w = u.result
  BY DEF Visible
<1>3. ~u.named => v = u.slot
  OBVIOUS
<1>4. x = [u EXCEPT !.kind = "return", !.value = v, !.result = w]
  BY DEF Returns
<1> HIDE DEF v, w
<1>5. x \in State
  <2>1. \A k \in Kinds : \A a \in Int : \A b \in Int :
            [u EXCEPT !.kind = k, !.value = a, !.result = b] \in State
    BY DEF State
  <2>2. "return" \in Kinds
    BY DEF Kinds
  <2> QED
    BY <1>1, <1>4, <2>1, <2>2
<1>6. /\ x.kind = "return" /\ x.value = v /\ x.result = w
      /\ x.routed = u.routed /\ x.registered = u.registered /\ x.named = u.named
      /\ x.trace = u.trace /\ x.iter = u.iter /\ x.caught = u.caught
      /\ x.shadowed = u.shadowed /\ x.shadow = u.shadow
      /\ x.defers = u.defers /\ x.slot = u.slot
  BY <1>4, <1>5 DEF State
<1> QED
  BY <1>2, <1>3, <1>5, <1>6

\* The tests make a jump or a return of the signal, and pass on what is not for this depth
\* (lines 350-379).
LEMMA DispatchSim ==
    ASSUME NEW exact, NEW c, WellNested(c), NEW s, NEW t, NEW r, NEW u,
           Called(exact, c, s, t, r, u)
    PROVE  Leaving(exact, c, s, t, r,
                   IF u.kind = "next" THEN Run[<<Dispatch(c, Len(c.targets)), u>>] ELSE u)
<1> DEFINE d == Run[<<Dispatch(c, Len(c.targets)), u>>]
<1>0. c \in Context /\ c.depth \in Nat /\ r \in State /\ u \in State
  BY NestedType, ContextType DEF Called, Alike
<1>1. CASE r.kind = "throw" /\ u.kind = "throw" /\ u.exc = r.exc
  <2>1. SameEnd(c, r, u)
    BY <1>1 DEF SameEnd
  <2>2. Leaving(exact, c, s, t, r, u)
    BY <1>0, <1>1, <2>1, PassedOn
  <2> QED
    BY <1>1, <2>2
<1>2. CASE r.kind = "next" /\ u.kind = "next" /\ u.flow = 0
  <2>1. d = Run[<<Onward(c), u>>]
    BY <1>0, <1>2, LowCodesPass, DispatchPasses
  <2>2. d = u
    BY <1>0, <1>2, <2>1, OnwardRuns
  <2>3. SameEnd(c, r, u)
    BY <1>2 DEF SameEnd
  <2>4. Leaving(exact, c, s, t, r, u)
    BY <1>0, <1>2, <2>3, PassedOn
  <2> QED
    BY <1>2, <2>2, <2>4
<1>3. CASE r.kind = "return" /\ u.kind = "next" /\ u.flow = 1
  <2>1. d = Run[<<Onward(c), u>>]
    BY <1>0, <1>3, LowCodesPass, DispatchPasses
  <2>2. CASE c.depth > 0
    <3> DEFINE x == Completes(u, "return")
    <3>1. d = x
      BY <1>0, <1>3, <2>1, <2>2, OnwardRuns
    <3>2. /\ x \in State /\ x.kind = "return" /\ x.flow = u.flow
          /\ x.routed = u.routed /\ x.registered = u.registered /\ x.named = u.named
          /\ x.trace = u.trace /\ x.iter = u.iter /\ x.caught = u.caught
          /\ x.shadowed = u.shadowed /\ x.result = u.result /\ x.shadow = u.shadow
          /\ x.defers = u.defers /\ x.slot = u.slot
      BY <1>0, ReturningType
    <3> HIDE DEF x, d
    <3>3. SameEnd(c, r, x)
      BY <1>3, <3>2 DEF SameEnd
    <3>4. c.depth # 0
      BY <1>0, <2>2
    <3>5. Leaving(exact, c, s, t, r, x)
      BY <3>2, <3>3, <3>4, PassedOn
    <3> QED
      BY <1>3, <3>1, <3>5 DEF d
  <2>3. CASE ~(c.depth > 0)
    <3> DEFINE x == Returns(u, IF u.named THEN Visible(u) ELSE u.slot)
    <3>1. d = x
      BY <1>0, <1>3, <2>1, <2>3, OnwardRuns
    <3>2. /\ x \in State /\ x.kind = "return"
          /\ x.routed = u.routed /\ x.registered = u.registered /\ x.named = u.named
          /\ x.trace = u.trace /\ x.iter = u.iter /\ x.caught = u.caught
          /\ x.shadowed = u.shadowed /\ x.shadow = u.shadow
          /\ x.defers = u.defers /\ x.slot = u.slot
          /\ ~(u.named /\ u.shadowed) => x.result = u.result
          /\ ~u.named => x.value = u.slot
      BY <1>0, ReturnSlotsType
    <3> HIDE DEF x, d
    <3>3. SameEnd(c, r, x)
      BY <1>3, <2>3, <3>2 DEF SameEnd
    <3>4. u.named = r.named /\ u.shadowed = r.shadowed
      BY DEF Called, Alike
    <3>5. exact => x.result = u.result
      BY <1>3, <3>2, <3>4 DEF Called
    <3>6. ~r.named => x.value = u.slot
      BY <3>2, <3>4
    <3>7. Leaving(exact, c, s, t, r, x)
      BY <3>2, <3>3, <3>5, <3>6, PassedOn
    <3> QED
      BY <1>3, <3>1, <3>7 DEF d
  <2> QED
    BY <2>2, <2>3
<1>4. ASSUME NEW i, Signalled(c, r, u, i)
      PROVE  Leaving(exact, c, s, t, r, IF u.kind = "next" THEN d ELSE u)
  <2>1. /\ r.kind \in {"break", "continue"} /\ Means(r.kind, r.label, c.targets, i)
        /\ u.kind = "next" /\ u.flow = CodeOf(r.kind, c.targets[i])
        /\ i \in Candidates(r.kind, r.label, c.targets)
    BY <1>4 DEF Signalled, Means
  <2>2. /\ i \in 1 .. Len(c.targets) /\ CodeOf(r.kind, c.targets[i]) # 0
    <3> DEFINE k == CodeOf(r.kind, c.targets[i])
    <3>1. i \in 1 .. Len(c.targets) /\ k \in Nat /\ k >= 2
      BY <2>1, CandidateCode
    <3>2. k # 0
      <4> HIDE DEF k
      <4> QED
        BY <3>1
    <3> QED
      BY <3>1, <3>2
  <2>3. \A j \in 1 .. Len(c.targets) : j # i => Quiet(c, u, j)
    BY <2>1, OtherTestsPass
  <2>4. c.targets[i].depth \in Nat /\ c.targets[i].label \in Label /\ c.targets[i].depth <= c.depth
    BY <1>0, <2>2, TargetType DEF WellNested
  <2>5. r.kind # "return"
    BY <2>1
  <2>6. CASE c.targets[i].depth = c.depth
    <3> DEFINE x == Jumps(u, r.kind, c.targets[i].label)
    <3>1. Tested(c, r.kind, i) /\ Means(r.kind, c.targets[i].label, c.targets, i)
      BY <2>1, MeantIsTested
    <3>2. Run[<<TestsFor(c, i), u>>] = x
      BY <1>0, <2>1, <2>2, <2>6, <3>1, TestsTake
    <3>3. /\ x \in State /\ x.kind = r.kind /\ x.label = c.targets[i].label /\ x.flow = 0
          /\ x.routed = u.routed /\ x.registered = u.registered /\ x.named = u.named
          /\ x.trace = u.trace /\ x.iter = u.iter /\ x.caught = u.caught
          /\ x.shadowed = u.shadowed /\ x.result = u.result /\ x.shadow = u.shadow
          /\ x.defers = u.defers /\ x.slot = u.slot
      BY <1>0, <2>1, <2>4, JumpsType
    <3> HIDE DEF x
    <3>4. x.kind # "next"
      BY <2>1, <3>3
    <3>5. \A j \in 1 .. Len(c.targets) : j > i => Quiet(c, u, j)
      <4> TAKE j \in 1 .. Len(c.targets)
      <4>1. j > i => j # i
        BY <1>0, <2>2, ContextType
      <4> QED
        BY <2>3, <4>1
    <3>6. d = x
      BY <1>0, <2>1, <2>2, <3>2, <3>4, <3>5, DispatchTakes
    <3> HIDE DEF d
    <3>7. Leads(c, r, x, i)
      BY <2>1, <2>6, <3>1, <3>3 DEF Leads
    <3>8. SameEnd(c, r, x)
      BY <3>7 DEF SameEnd
    <3>9. Leaving(exact, c, s, t, r, x)
      BY <2>5, <3>3, <3>8, PassedOn
    <3> QED
      BY <2>1, <3>6, <3>9
  <2>7. CASE c.targets[i].depth # c.depth
    <3> DEFINE x == Completes(u, "return")
    <3>1. Quiet(c, u, i)
      BY <2>7 DEF Quiet
    <3>2. d = Run[<<Onward(c), u>>]
      BY <1>0, <2>1, <2>3, <3>1, DispatchPasses
    <3>3. c.depth > 0
      BY <1>0, <2>4, <2>7
    <3>4. d = x
      BY <1>0, <2>1, <2>2, <3>2, <3>3, OnwardRuns
    <3>5. /\ x \in State /\ x.kind = "return" /\ x.flow = u.flow
          /\ x.routed = u.routed /\ x.registered = u.registered /\ x.named = u.named
          /\ x.trace = u.trace /\ x.iter = u.iter /\ x.caught = u.caught
          /\ x.shadowed = u.shadowed /\ x.result = u.result /\ x.shadow = u.shadow
          /\ x.defers = u.defers /\ x.slot = u.slot
      BY <1>0, ReturningType
    <3> HIDE DEF x, d
    <3>6. Leads(c, r, x, i)
      BY <2>1, <2>7, <3>5 DEF Leads
    <3>7. SameEnd(c, r, x)
      BY <3>6 DEF SameEnd
    <3>8. Leaving(exact, c, s, t, r, x)
      BY <2>5, <3>5, <3>7, PassedOn
    <3> QED
      BY <2>1, <3>4, <3>8
  <2> QED
    BY <2>6, <2>7
<1>5. SignalEnd(c, r, u)
  BY DEF Called
<1> QED
  BY <1>1, <1>2, <1>3, <1>4, <1>5 DEF SignalEnd

\* A try and the call made of it.
LEMMA TrySim ==
    ASSUME NEW exact, NEW c, WellNested(c), NEW s, NEW t, Entering(exact, c, s, t),
           NEW st, st.body \in Every, st.handler \in Every, st.finalizer \in Every,
           NEW body \in Every, NEW handler \in Every, NEW finalizer \in Every,
           NEW i \in Nat, NEW j \in Nat, NEW k \in Nat,
           BodySim(exact, ClosureContext(c, i), st.body, body, s.shadowed, s.named, t.routed),
           BodySim(exact, ClosureContext(c, j), st.handler, handler,
                   s.shadowed, s.named, t.routed),
           BodySim(exact, ClosureContext(c, k), st.finalizer, finalizer,
                   s.shadowed, s.named, t.routed),
           NEW call, call.body = body,
           call.handler = IF st.handler = None THEN None ELSE LowerHandler(handler),
           call.finalizer = IF st.finalizer = None THEN None ELSE LowerFinalizer(finalizer)
    PROVE  Called(exact, c, s, t, Trying(Run, st, s), CallTry(Run, call, t))
<1> DEFINE b == Run[<<st.body, s>>]
           v == CallClosure(Run, body, t)
           h == Handled(st.handler, b)
           w == CallHandled(call.handler, v)
           f == Run[<<st.finalizer, Completes(h, "next")>>]
           g == CallClosure(Run, call.finalizer, Completes(w, "next"))
<1>0. s \in State
  BY DEF Entering, Alike
<1>1. Called(exact, c, s, t, b, v)
  BY ClosureSim
<1>2. b.shadowed = s.shadowed
  BY <1>0, RunDoes DEF Keeps
<1>3. Trying(Run, st, s) = Finally(Run, st, h)
  BY DEF Trying, Handled, Handling
<1>4. CallTry(Run, call, t) = CallFinished(w, g)
  BY DEF CallTry, CallHandled, Handling, CallFinished
<1> HIDE DEF b, v
<1>5. Called(exact, c, s, t, h, w) /\ h.shadowed = s.shadowed
  BY SMTT(30), <1>1, <1>2, HandledSim
<1> HIDE DEF h, w
<1> DEFINE x == Closing(st.finalizer, finalizer, w)
<1>6. Finishing(exact, c, h, w, f, x) /\ g = Restored(w, x)
  BY <1>5, FinalizerSim
<1> HIDE DEF x, f, g
<1>7. Called(exact, c, s, t, Finally(Run, st, h), CallFinished(w, Restored(w, x)))
  BY <1>5, <1>6, FinallySim DEF f
<1> QED
  BY <1>3, <1>4, <1>6, <1>7

\* A Try and the tests after it leave as the try they are made of.
LEMMA CallSim ==
    ASSUME NEW exact, NEW c, WellNested(c), NEW s, NEW t, NEW r, NEW u,
           Called(exact, c, s, t, r, u), t \in State, NEW call \in Every, call.op = "Try",
           u = CallTry(Run, call, t)
    PROVE  Leaving(exact, c, s, t, r, Run[<<Then(call, Dispatch(c, Len(c.targets))), t>>])
<1> DEFINE d == Dispatch(c, Len(c.targets))
<1>1. d \in Every
  BY NestedType, ContextType, DispatchStatement, Len(c.targets) <= Len(c.targets)
<1>2. Run[<<call, t>>] = u
  <2>1. Run[<<call, t>>] = Do(Run, call, t)
    BY RunDoes
  <2> QED
    BY <2>1 DEF Do
<1>3. Leaving(exact, c, s, t, r, IF u.kind = "next" THEN Run[<<d, u>>] ELSE u)
  BY DispatchSim
<1> HIDE DEF d
<1>4. Run[<<Then(call, d), t>>] = IF u.kind = "next" THEN Run[<<d, u>>] ELSE u
  BY <1>1, <1>2, RunSequence
<1> QED
  BY <1>3, <1>4 DEF d

-----------------------------------------------------------------------------
(* Statements with statements inside.                                      *)

\* Every statement of n levels and what it is lowered to keep step, wherever they stand.
Simulating(exact, low, flaws, n) ==
    \A st \in Statement[n] : \A c, scope, s, t :
        /\ Stands(exact, c, scope, s, t, low[<<st, c>>], flaws[<<st, scope>>])
        /\ Entering(exact, c, s, t)
        => Leaving(exact, c, s, t, Run[<<st, s>>], Run[<<low[<<st, c>>].code, t>>])

\* So do the parts of a larger one.
LEMMA PartSim ==
    ASSUME NEW exact, NEW low, NEW flaws, NEW n, Simulating(exact, low, flaws, n),
           NEW c, NEW scope, NEW s, NEW t, NEW l, NEW whole,
           Stands(exact, c, scope, s, t, l, whole),
           NEW block \in Statement[n], NEW d, WellNested(d),
           NEW around \in Scope, Matches(d, around), around.inTry = (d.depth > 0),
           NEW k, k = low[<<block, d>>], k.rejected => l.rejected, k.scoped => l.scoped,
           \A f \in {"emitted", "reused", "shadowed"} : f \in flaws[<<block, around>>] => f \in whole
    PROVE  BodySim(exact, d, block, k.code, around.inShadow, s.named, t.routed)
<1>1. ASSUME NEW x, NEW y, Entering(exact, d, x, y), x.shadowed = around.inShadow,
             x.named = s.named, y.routed = t.routed
      PROVE  Leaving(exact, d, x, y, Run[<<block, x>>], Run[<<k.code, y>>])
  <2> DEFINE inner == flaws[<<block, around>>]
  <2>1. \A f \in {"emitted", "reused", "shadowed"} : f \in inner => f \in whole
    OBVIOUS
  <2> HIDE DEF inner
  <2>2. Stands(exact, d, around, x, y, k, inner)
    BY <1>1, <2>1, StandsWithin
  <2>3. Stands(exact, d, around, x, y, low[<<block, d>>], flaws[<<block, around>>])
    BY <2>2 DEF inner
  <2> QED
    BY <1>1, <2>3, Zenon DEF Simulating
<1> QED
  BY <1>1 DEF BodySim

\* Two statements, one after the other.
LEMMA SequenceSim ==
    ASSUME NEW exact, NEW c, NEW d, d.depth = c.depth, d.targets = c.targets, NEW s, NEW t,
           NEW first \in Every, NEW rest \in Every, NEW a \in Every, NEW b \in Every,
           BodySim(exact, c, first, a, s.shadowed, s.named, t.routed),
           BodySim(exact, d, rest, b, s.shadowed, s.named, t.routed),
           Entering(exact, c, s, t)
    PROVE  Leaving(exact, c, s, t,
                   IF Run[<<first, s>>].kind = "next" THEN Run[<<rest, Run[<<first, s>>]>>]
                   ELSE Run[<<first, s>>],
                   Run[<<Then(a, b), t>>])
<1> DEFINE r == Run[<<first, s>>]
           u == Run[<<a, t>>]
           x == Run[<<rest, r>>]
           y == Run[<<b, u>>]
<1>1. s \in State /\ t \in State
  BY DEF Entering, Alike
<1>2. Leaving(exact, c, s, t, r, u)
  BY DEF BodySim
<1>3. Run[<<Then(a, b), t>>] = IF u.kind = "next" THEN y ELSE u
  BY <1>1, RunSequence
<1>4. r.shadowed = s.shadowed
  BY <1>1, RunDoes DEF Keeps
<1> HIDE DEF r, u
<1>5. r.kind = "next" <=> u.kind = "next"
  BY <1>2, NextEnters
<1>6. CASE r.kind = "next"
  <2>1. Entering(exact, c, r, u)
    BY <1>2, <1>6, NextEnters
  <2>2. Entering(exact, d, r, u)
    BY <2>1 DEF Entering
  <2>3. r.named = s.named /\ u.routed = t.routed
    BY <1>2 DEF Leaving
  <2>4. Leaving(exact, d, r, u, x, y)
    BY <1>4, <2>2, <2>3 DEF BodySim
  <2> HIDE DEF x, y
  <2>5. Leaving(exact, c, r, u, x, y)
    BY <2>4, LeavingFrom
  <2>6. Leaving(exact, c, s, t, x, y)
    BY <1>2, <1>6, <2>5, LeavingChain
  <2> QED
    BY <1>3, <1>5, <1>6, <2>6 DEF x, y, r
<1>7. CASE r.kind # "next"
  BY <1>2, <1>3, <1>5, <1>7 DEF r
<1> QED
  BY <1>6, <1>7

\* A statement with its block exchanged.
LEMMA InnerForm ==
    ASSUME NEW st \in Compound(Every), st.op \in {"if", "shadow", "catch", "loop", "switch"},
           NEW made \in Every, NEW l, l = [st EXCEPT !.body = made]
    PROVE  /\ l \in Every /\ l.op = st.op /\ l.body = made
           /\ st.op \in {"loop", "switch"} => l.label = st.label /\ st.label \in Label
           /\ st.op = "catch" => l.types = st.types
           /\ st \in Every /\ st.body \in Every
<1>0. st \in Every
  BY EveryStatement
<1>1. CASE st.op \in {"if", "shadow"}
  <2>1. st \in [op : {"if", "shadow", "guarded"}, body : Every]
    BY <1>1 DEF Compound
  <2>2. l \in [op : {"if", "shadow", "guarded"}, body : Every] /\ l.op = st.op /\ l.body = made
    BY <2>1
  <2>3. l \in Every
    BY <2>2, EveryStatement DEF Compound
  <2> QED
    BY <1>0, <1>1, <2>1, <2>2, <2>3
<1>2. CASE st.op = "catch"
  <2>1. st \in [op : {"catch"}, types : SUBSET Raised, body : Every]
    BY <1>2 DEF Compound
  <2>2. /\ l \in [op : {"catch"}, types : SUBSET Raised, body : Every]
        /\ l.op = st.op /\ l.body = made /\ l.types = st.types
    BY <2>1
  <2>3. l \in Every
    BY <2>2, EveryStatement DEF Compound
  <2> QED
    BY <1>0, <1>2, <2>1, <2>2, <2>3
<1>3. CASE st.op \in {"loop", "switch"}
  <2>1. st \in [op : {"loop", "switch"}, label : Label, body : Every]
    BY <1>3 DEF Compound
  <2>2. /\ l \in [op : {"loop", "switch"}, label : Label, body : Every]
        /\ l.op = st.op /\ l.body = made /\ l.label = st.label
    BY <2>1
  <2>3. l \in Every
    BY <2>2, EveryStatement DEF Compound
  <2> QED
    BY <1>0, <1>3, <2>1, <2>2, <2>3
<1> QED
  BY <1>1, <1>2, <1>3

\* A statement with one block inside; d is where that stands.
LEMMA InnerSim ==
    ASSUME NEW exact, NEW c \in Context, NEW st \in Compound(Every),
           st.op \in {"if", "shadow", "catch", "loop", "switch"},
           NEW made \in Every, NEW l, l = [st EXCEPT !.body = made], NEW s, NEW t,
           NEW d, d = IF st.op \in {"loop", "switch"} THEN Inside(st, c) ELSE c,
           BodySim(exact, d, st.body, made, IF st.op = "shadow" THEN TRUE ELSE s.shadowed,
                   s.named, t.routed),
           Entering(exact, c, s, t)
    PROVE  Leaving(exact, c, s, t, Run[<<st, s>>], Run[<<l, t>>])
<1>1. s \in State /\ t \in State /\ t.iter = s.iter /\ t.caught = s.caught
  BY DEF Entering, Alike
<1>2. /\ l \in Every /\ l.op = st.op /\ l.body = made
      /\ st.op \in {"loop", "switch"} => l.label = st.label /\ st.label \in Label
      /\ st.op = "catch" => l.types = st.types
      /\ st \in Every /\ st.body \in Every
  BY InnerForm
<1>3. Run[<<st, s>>] = Do(Run, st, s) /\ Run[<<l, t>>] = Do(Run, l, t)
  BY <1>1, <1>2, RunDoes
<1>4. CASE st.op = "if"
  <2>1. /\ Do(Run, st, s) = IF s.iter = 1 THEN Run[<<st.body, s>>] ELSE s
        /\ Do(Run, l, t) = IF t.iter = 1 THEN Run[<<made, t>>] ELSE t
    BY <1>2, <1>4 DEF Do
  <2>2. Leaving(exact, c, s, t, Run[<<st.body, s>>], Run[<<made, t>>])
    BY <1>4 DEF BodySim
  <2>3. Leaving(exact, c, s, t, s, t)
    BY Stays
  <2> QED
    BY <1>1, <1>3, <2>1, <2>2, <2>3
<1>5. CASE st.op = "shadow"
  <2>1. Do(Run, st, s) = Shadowing(Run, st, s) /\ Do(Run, l, t) = Shadowing(Run, l, t)
    BY <1>2, <1>5 DEF Do
  <2>2. BodySim(exact, c, st.body, l.body, TRUE, s.named, t.routed)
    BY <1>2, <1>5
  <2>3. Leaving(exact, c, s, t, Shadowing(Run, st, s), Shadowing(Run, l, t))
    BY <1>2, <2>2, ShadowSim
  <2> QED
    BY <1>3, <2>1, <2>3
<1>6. CASE st.op = "catch"
  <2>1. /\ Do(Run, st, s) = IF s.caught \in st.types THEN Run[<<st.body, s>>]
                            ELSE Throws(s, s.caught)
        /\ Do(Run, l, t) = IF s.caught \in st.types THEN Run[<<made, t>>]
                           ELSE Throws(t, s.caught)
    BY <1>1, <1>2, <1>6 DEF Do
  <2>2. Leaving(exact, c, s, t, Run[<<st.body, s>>], Run[<<made, t>>])
    BY <1>6 DEF BodySim
  <2>3. s.caught \in Exceptions
    BY <1>1 DEF State
  <2>4. Leaving(exact, c, s, t, Throws(s, s.caught), Throws(t, s.caught))
    BY <2>3, ThrowSim
  <2> QED
    BY <1>3, <2>1, <2>2, <2>4
<1>7. CASE st.op = "loop"
  <2>1. Do(Run, st, s) = Looping(Run, st, s) /\ Do(Run, l, t) = Looping(Run, l, t)
    BY <1>2, <1>7 DEF Do
  <2>2. BodySim(exact, Inside(st, c), st.body, l.body, s.shadowed, s.named, t.routed)
    BY <1>2, <1>7
  <2>3. Leaving(exact, c, s, t, Looping(Run, st, s), Looping(Run, l, t))
    BY <1>2, <1>7, <2>2, LoopSim
  <2> QED
    BY <1>3, <2>1, <2>3
<1>8. CASE st.op = "switch"
  <2>1. /\ Do(Run, st, s) = Breaks(Run[<<st.body, s>>], st)
        /\ Do(Run, l, t) = Breaks(Run[<<made, t>>], l)
    BY <1>2, <1>8 DEF Do
  <2>2. Inside(st, c).depth = c.depth
    BY <1>2, <1>8, InsideType
  <2>3. Entering(exact, Inside(st, c), s, t)
    BY <2>2 DEF Entering
  <2>4. BodySim(exact, Inside(st, c), st.body, made, s.shadowed, s.named, t.routed)
    BY <1>8
  <2>5. Leaving(exact, Inside(st, c), s, t, Run[<<st.body, s>>], Run[<<made, t>>])
    BY <2>3, <2>4 DEF BodySim
  <2>6. Leaving(exact, c, s, t, Breaks(Run[<<st.body, s>>], st), Breaks(Run[<<made, t>>], l))
    BY <1>2, <1>8, <2>5, BreaksSim
  <2> QED
    BY <1>3, <2>1, <2>6
<1> QED
  BY <1>4, <1>5, <1>6, <1>7, <1>8

\* The emitted call is a statement.
LEMMA CallingStatement ==
    ASSUME NEW st, NEW body, NEW handler, NEW finalizer,
           body.code \in Every, handler.code \in Every, finalizer.code \in Every
    PROVE  Calling(st, body, handler, finalizer) \in Every
<1> DEFINE h == IF st.handler = None THEN None ELSE LowerHandler(handler.code)
           f == IF st.finalizer = None THEN None ELSE LowerFinalizer(finalizer.code)
           b == body.code
<1>1. None \in Every /\ Signal(0) \in Every
  BY EveryStatement, 0 \in Nat DEF Simple, None, Signal
<1>2. \A x, y \in Every : Then(x, y) \in Every
  BY EveryStatement DEF Compound, Then
<1>3. \A x \in Every : LowerHandler(x) \in Every
  BY <1>1, <1>2 DEF LowerHandler
<1>4. \A x \in Every : LowerFinalizer(x) \in Every
  BY EveryStatement DEF Compound, LowerFinalizer
<1>5. h \in Every /\ f \in Every /\ b \in Every
  BY <1>1, <1>3, <1>4
<1>6. Calling(st, body, handler, finalizer) =
          [op |-> "Try", body |-> b, handler |-> h, finalizer |-> f]
  BY DEF Calling
<1> HIDE DEF h, f, b
<1>7. [op |-> "Try", body |-> b, handler |-> h, finalizer |-> f] \in Compound(Every)
  BY <1>5 DEF Compound
<1> QED
  BY <1>6, <1>7, EveryStatement

\* The lowered code of a statement leaves as the statement does, if that of its parts does.
LEMMA CompoundSim ==
    ASSUME NEW exact, NEW n \in Nat, NEW low, NEW flaws, Fitting(low, n),
           Simulating(exact, low, flaws, n), NEW st \in Compound(Statement[n]),
           NEW c, NEW scope, NEW s, NEW t,
           Stands(exact, c, scope, s, t, Lower(low, st, c), Flaws(flaws, st, scope)),
           Entering(exact, c, s, t)
    PROVE  Leaving(exact, c, s, t, Run[<<st, s>>], Run[<<Lower(low, st, c).code, t>>])
<1> DEFINE l == Lower(low, st, c)
           whole == Flaws(flaws, st, scope)
           inner == st.op \in {"if", "shadow", "catch", "loop", "switch"}
           place == IF st.op \in {"loop", "switch"} THEN Inside(st, c) ELSE c
           seen == IF st.op = "shadow" THEN TRUE ELSE s.shadowed
           Framed(d, around) ==
               /\ WellNested(d) /\ around \in Scope /\ Matches(d, around)
               /\ around.inTry = (d.depth > 0) /\ around.inShadow = seen
               /\ \A f \in {"emitted", "reused", "shadowed"} :
                     f \in flaws[<<st.body, around>>] => f \in whole
<1>0. /\ WellNested(c) /\ c \in Context /\ scope \in Scope /\ Matches(c, scope)
      /\ scope.inTry = (c.depth > 0) /\ scope.inShadow = s.shadowed
      /\ "emitted" \notin whole /\ "reused" \notin whole
  BY NestedType DEF Stands, Accepted
<1>s. s \in State /\ t \in State
  BY DEF Entering, Alike
<1>a. /\ st.op \in {"then", "if", "shadow", "guarded", "loop", "switch", "catch", "test", "try",
                    "Try"}
      /\ st.op = "then" => st.first \in Statement[n] /\ st.rest \in Statement[n]
      /\ st.op # "then" => st.body \in Statement[n]
      /\ st.op \in {"loop", "switch"} => st.label \in Label
      /\ st.op \in {"try", "Try"} => st.handler \in Statement[n] /\ st.finalizer \in Statement[n]
  BY CompoundParts
<1>b. Statement[n] \subseteq Every /\ st \in Compound(Every) /\ st \in Every
  <2>1. Statement[n] \subseteq Every
    BY EveryStatement
  <2>2. \A A, B : A \subseteq B => Compound(A) \subseteq Compound(B)
    BY DEF Compound
  <2> QED
    BY <2>1, <2>2, EveryStatement
<1>c. ASSUME NEW b \in Statement[n], NEW d \in Context
      PROVE  /\ low[<<b, d>>].code \in Every
             /\ low[<<b, d>>].next \in Nat /\ low[<<b, d>>].next >= d.next
  <2>1. Fits(n, d, low[<<b, d>>]) /\ Room(n, d) \in Nat
    BY <1>c, RoomType DEF Fitting
  <2> QED
    BY <2>1, EveryStatement DEF Fits
<1>d. ASSUME NEW block \in Statement[n], NEW d, WellNested(d), NEW around \in Scope,
             Matches(d, around), around.inTry = (d.depth > 0),
             low[<<block, d>>].rejected => l.rejected, low[<<block, d>>].scoped => l.scoped,
             \A f \in {"emitted", "reused", "shadowed"} :
                f \in flaws[<<block, around>>] => f \in whole
      PROVE  BodySim(exact, d, block, low[<<block, d>>].code, around.inShadow, s.named, t.routed)
  <2> DEFINE k == low[<<block, d>>]
  <2>1. k = low[<<block, d>>] /\ (k.rejected => l.rejected) /\ (k.scoped => l.scoped)
    BY <1>d
  <2>2. Stands(exact, c, scope, s, t, l, whole)
    OBVIOUS
  <2> HIDE DEF k, l, whole
  <2>3. BodySim(exact, d, block, k.code, around.inShadow, s.named, t.routed)
    BY <1>d, <2>1, <2>2, PartSim
  <2> QED
    BY <2>1, <2>3
<1>1. CASE st.op = "then"
  <2> DEFINE a == low[<<st.first, c>>]
             d == [c EXCEPT !.next = a.next]
             b == low[<<st.rest, d>>]
  <2>1. whole = flaws[<<st.first, scope>>] \cup flaws[<<st.rest, scope>>]
    BY <1>1 DEF Flaws
  <2>2. l = Lowered(Then(a.code, b.code), b.next, a.rejected \/ b.rejected,
                    a.scoped \/ b.scoped, a.used \/ b.used)
    BY <1>1 DEF Lower, LowerThen
  <2>3. /\ l.code = Then(a.code, b.code)
        /\ l.rejected = (a.rejected \/ b.rejected) /\ l.scoped = (a.scoped \/ b.scoped)
    BY <2>2 DEF Lowered
  <2>4. a.code \in Every /\ a.next \in Nat /\ a.next >= c.next
    BY <1>0, <1>a, <1>c, <1>1
  <2>5. BodySim(exact, c, st.first, a.code, s.shadowed, s.named, t.routed)
    <3> HIDE DEF whole, l
    <3>1. /\ \A f \in {"emitted", "reused", "shadowed"} :
                f \in flaws[<<st.first, scope>>] => f \in whole
          /\ a.rejected => l.rejected
          /\ a.scoped => l.scoped
      BY <2>1, <2>3
    <3>2. BodySim(exact, c, st.first, a.code, scope.inShadow, s.named, t.routed)
      BY <1>0, <1>a, <1>d, <1>1, <3>1
    <3> QED
      BY <1>0, <3>2
  <2> HIDE DEF a
  <2>6. d \in Context /\ d.targets = c.targets /\ d.depth = c.depth /\ WellNested(d)
    BY <1>0, <2>4, NextContextType, NestedElsewhere
  <2> HIDE DEF d
  <2>7. b.code \in Every
    BY <1>a, <1>c, <1>1, <2>6
  <2>8. BodySim(exact, d, st.rest, b.code, s.shadowed, s.named, t.routed)
    <3> HIDE DEF whole, l
    <3>1. /\ \A f \in {"emitted", "reused", "shadowed"} :
                f \in flaws[<<st.rest, scope>>] => f \in whole
          /\ b.rejected => l.rejected
          /\ b.scoped => l.scoped
      BY <2>1, <2>3
    <3>2. Matches(d, scope) /\ scope.inTry = (d.depth > 0)
      BY <1>0, <2>6 DEF Matches
    <3>3. BodySim(exact, d, st.rest, b.code, scope.inShadow, s.named, t.routed)
      BY <1>0, <1>a, <1>d, <1>1, <2>6, <3>1, <3>2
    <3> QED
      BY <1>0, <3>3
  <2>9. st.first \in Every /\ st.rest \in Every
    BY <1>a, <1>b, <1>1
  <2>10. Run[<<st, s>>] = IF Run[<<st.first, s>>].kind = "next"
                          THEN Run[<<st.rest, Run[<<st.first, s>>]>>] ELSE Run[<<st.first, s>>]
    <3>1. Run[<<st, s>>] = Do(Run, st, s)
      BY <1>b, <1>s, RunDoes
    <3> QED
      BY <1>1, <3>1 DEF Do
  <2> HIDE DEF b, l, whole
  <2>11. Leaving(exact, c, s, t,
                 IF Run[<<st.first, s>>].kind = "next"
                 THEN Run[<<st.rest, Run[<<st.first, s>>]>>] ELSE Run[<<st.first, s>>],
                 Run[<<Then(a.code, b.code), t>>])
    BY <2>4, <2>5, <2>6, <2>7, <2>8, <2>9, SequenceSim
  <2> QED
    BY <2>3, <2>10, <2>11 DEF l
<1>2. ASSUME inner, NEW d, d = place, l = LowerInner(low, st, d), NEW around,
             Framed(d, around)
      PROVE  Leaving(exact, c, s, t, Run[<<st, s>>], Run[<<l.code, t>>])
  <2> DEFINE b == low[<<st.body, d>>]
             k == b.code
             new == [st EXCEPT !.body = k]
  <2>1. st.body \in Statement[n] /\ d \in Context
    BY <1>a, <1>2, NestedType
  <2>2. k \in Every
    BY <1>c, <2>1
  <2>3. l = [b EXCEPT !.code = new]
    BY <1>2 DEF LowerInner
  <2> HIDE DEF l
  <2>4. l.code = new /\ l.rejected = b.rejected /\ l.scoped = b.scoped
    <3> HIDE DEF new, b
    <3> QED
      BY <2>3
  <2> HIDE DEF whole
  <2>5. BodySim(exact, d, st.body, k, around.inShadow, s.named, t.routed)
    BY <1>2, <1>d, <2>1, <2>4
  <2> HIDE DEF k
  <2>6. Leaving(exact, c, s, t, Run[<<st, s>>], Run[<<new, t>>])
    <3>1. BodySim(exact, d, st.body, k, IF st.op = "shadow" THEN TRUE ELSE s.shadowed,
                  s.named, t.routed)
      BY <1>2, <2>5
    <3> HIDE DEF new
    <3> QED
      BY <1>0, <1>b, <1>2, <2>2, <3>1, InnerSim DEF new
  <2> QED
    BY <2>4, <2>6
<1>3. CASE st.op \in {"if", "catch"}
  <2>0. inner /\ c = place /\ scope.inShadow = seen
    BY <1>0, <1>3
  <2>1. l = LowerInner(low, st, c) /\ whole = flaws[<<st.body, scope>>]
    BY <1>3 DEF Lower, Flaws
  <2>2. Framed(c, scope)
    BY <1>0, <2>0, <2>1
  <2> HIDE DEF l, whole, inner, place, seen, Framed
  <2> QED
    BY <1>2, <2>0, <2>1, <2>2 DEF l
<1>4. CASE st.op = "shadow"
  <2> DEFINE around == [scope EXCEPT !.inShadow = TRUE]
  <2>1. l = LowerInner(low, st, c) /\ whole = flaws[<<st.body, around>>]
    BY <1>4 DEF Lower, Flaws
  <2>2. /\ around \in Scope /\ around.inShadow = TRUE /\ around.inTry = scope.inTry
        /\ around.breaks = scope.breaks /\ around.continues = scope.continues
    BY <1>0 DEF Scope
  <2>3. inner /\ c = place /\ around.inShadow = seen
    BY <1>4, <2>2
  <2> HIDE DEF around, l, whole, inner, place, seen
  <2>4. Matches(c, around) /\ around.inTry = (c.depth > 0)
    BY <1>0, <2>2 DEF Matches
  <2>5. Framed(c, around)
    BY <1>0, <2>1, <2>2, <2>3, <2>4
  <2> HIDE DEF Framed
  <2> QED
    BY <1>2, <2>1, <2>3, <2>5 DEF l
<1>5. CASE st.op \in {"loop", "switch"}
  <2> DEFINE around == Around(st, scope)
             d == Inside(st, c)
  <2>1. l = LowerInner(low, st, d)
    BY <1>5 DEF Lower
  <2>2. whole = When(st.label # "" /\ st.label \in scope.breaks, "reused")
                  \cup flaws[<<st.body, around>>]
    BY <1>5 DEF Flaws, Around
  <2>3. around \in Scope /\ Matches(d, around) /\ d.depth = c.depth
    BY <1>0, <1>a, <1>5, AroundMatches, InsideType
  <2>4. around.inTry = scope.inTry /\ around.inShadow = scope.inShadow
    BY <1>0 DEF Around, Scope
  <2>5. st.label = "" \/ st.label \notin scope.breaks
    BY <1>0, <2>2 DEF When
  <2>6. Unused(st, c)
    BY <1>0, <2>5 DEF Unused, Matches
  <2>7. WellNested(d)
    BY <1>0, <1>a, <1>5, <2>6, NestedInside
  <2>8. \A f \in {"emitted", "reused", "shadowed"} :
            f \in flaws[<<st.body, around>>] => f \in whole
    BY <2>2
  <2>9. inner /\ d = place /\ around.inShadow = seen
    BY <1>0, <1>5, <2>4
  <2> HIDE DEF around, l, whole, inner, place, seen
  <2>10. around.inTry = (d.depth > 0)
    BY <1>0, <2>3, <2>4
  <2> HIDE DEF d
  <2>11. Framed(d, around)
    BY <2>3, <2>7, <2>8, <2>9, <2>10
  <2> HIDE DEF Framed
  <2> QED
    BY <1>2, <2>1, <2>9, <2>11 DEF l
<1>6. CASE st.op = "try"
  <2> DEFINE around == [scope EXCEPT !.inTry = TRUE]
             d(next) == ClosureContext(c, next)
             body == low[<<st.body, d(c.next)>>]
             handler == low[<<st.handler, d(body.next)>>]
             finalizer == low[<<st.finalizer, d(handler.next)>>]
             call == Calling(st, body, handler, finalizer)
  <2>1. whole = flaws[<<st.body, around>>] \cup flaws[<<st.handler, around>>]
                  \cup flaws[<<st.finalizer, around>>]
    BY <1>6 DEF Flaws
  <2>2. /\ around \in Scope /\ around.inTry = TRUE /\ around.inShadow = scope.inShadow
        /\ around.breaks = scope.breaks /\ around.continues = scope.continues
    BY <1>0 DEF Scope
  <2>3. l = Lowered(Then(call, Dispatch(c, Len(c.targets))), finalizer.next,
                    body.rejected \/ handler.rejected \/ finalizer.rejected,
                    body.scoped \/ handler.scoped \/ finalizer.scoped, TRUE)
    BY <1>6 DEF Lower, LowerTry, Calling, ClosureContext
  <2>4. /\ l.code = Then(call, Dispatch(c, Len(c.targets)))
        /\ l.rejected = (body.rejected \/ handler.rejected \/ finalizer.rejected)
        /\ l.scoped = (body.scoped \/ handler.scoped \/ finalizer.scoped)
    <3> HIDE DEF call, body, handler, finalizer
    <3> QED
      BY <2>3 DEF Lowered
  <2> HIDE DEF around, l, whole
  <2>5. ASSUME NEW next \in Nat, next >= c.next, NEW b \in {st.body, st.handler, st.finalizer},
               low[<<b, d(next)>>].rejected => l.rejected,
               low[<<b, d(next)>>].scoped => l.scoped
        PROVE  BodySim(exact, d(next), b, low[<<b, d(next)>>].code,
                       s.shadowed, s.named, t.routed)
    <3>1. b \in Statement[n]
      BY <1>a, <1>6
    <3>2. d(next).targets = c.targets /\ d(next).depth = c.depth + 1
      BY <1>0, ClosureContextType
    <3>3. WellNested(d(next))
      BY <1>0, <2>5, NestedElsewhere
    <3>4. Matches(d(next), around) /\ around.inTry = (d(next).depth > 0)
      <4>1. c.depth + 1 > 0
        BY <1>0, ContextType
      <4> DEFINE e == d(next)
      <4>2. e.targets = c.targets /\ e.depth = c.depth + 1
        BY <3>2
      <4> HIDE DEF e
      <4>3. Matches(e, around)
        BY <1>0, <2>2, <4>2 DEF Matches
      <4>4. around.inTry = (e.depth > 0)
        BY <2>2, <4>1, <4>2
      <4> QED
        BY <4>3, <4>4 DEF e
    <3>5. \A f \in {"emitted", "reused", "shadowed"} :
              f \in flaws[<<b, around>>] => f \in whole
      BY <2>1
    <3> DEFINE e == d(next)
    <3> HIDE DEF e
    <3>6. BodySim(exact, e, b, low[<<b, e>>].code, around.inShadow, s.named, t.routed)
      BY <1>d, <2>2, <2>5, <3>1, <3>3, <3>4, <3>5 DEF e
    <3> QED
      BY <1>0, <2>2, <3>6 DEF e
  <2>6. ASSUME NEW next \in Nat, next >= c.next, NEW b \in {st.body, st.handler, st.finalizer}
        PROVE  /\ low[<<b, d(next)>>].code \in Every /\ low[<<b, d(next)>>].next \in Nat
               /\ low[<<b, d(next)>>].next >= c.next
    <3>1. b \in Statement[n]
      BY <1>a, <1>6
    <3>2. d(next) \in Context /\ d(next).next = next
      BY <1>0, ClosureContextType
    <3> DEFINE k == low[<<b, d(next)>>]
    <3>3. k.code \in Every /\ k.next \in Nat /\ k.next >= next
      BY <1>c, <3>1, <3>2
    <3> HIDE DEF k
    <3>4. c.next \in Nat
      BY <1>0, ContextType
    <3>5. k.next >= c.next
      BY <2>6, <3>3, <3>4
    <3> QED
      BY <3>3, <3>5 DEF k
  <2>7. c.next \in Nat /\ c.next >= c.next
    BY <1>0, ContextType
  <2>8. body.code \in Every /\ body.next \in Nat /\ body.next >= c.next
    BY <2>6, <2>7
  <2>9. BodySim(exact, d(c.next), st.body, body.code, s.shadowed, s.named, t.routed)
    BY <2>4, <2>5, <2>7
  <2> HIDE DEF body
  <2>10. handler.code \in Every /\ handler.next \in Nat /\ handler.next >= c.next
    BY <2>6, <2>8
  <2>11. BodySim(exact, d(body.next), st.handler, handler.code, s.shadowed, s.named, t.routed)
    BY <2>4, <2>5, <2>8
  <2> HIDE DEF handler
  <2>12. finalizer.code \in Every
    BY <2>6, <2>10
  <2>13. BodySim(exact, d(handler.next), st.finalizer, finalizer.code,
                 s.shadowed, s.named, t.routed)
    BY <2>4, <2>5, <2>10
  <2> HIDE DEF finalizer
  <2>14. /\ call.op = "Try" /\ call.body = body.code
         /\ call.handler = IF st.handler = None THEN None ELSE LowerHandler(handler.code)
         /\ call.finalizer = IF st.finalizer = None THEN None ELSE LowerFinalizer(finalizer.code)
    BY DEF Calling
  <2>15. call \in Every
    BY <2>8, <2>10, <2>12, CallingStatement
  <2> HIDE DEF call
  <2>16. st.body \in Every /\ st.handler \in Every /\ st.finalizer \in Every
    BY <1>a, <1>b, <1>6
  <2>17. Called(exact, c, s, t, Trying(Run, st, s), CallTry(Run, call, t))
    BY <1>0, <2>7, <2>8, <2>9, <2>10, <2>11, <2>12, <2>13, <2>14, <2>16, TrySim
  <2>18. Run[<<st, s>>] = Trying(Run, st, s)
    <3>1. Run[<<st, s>>] = Do(Run, st, s)
      BY <1>b, <1>s, RunDoes
    <3> QED
      BY <1>6, <3>1 DEF Do
  <2>19. Leaving(exact, c, s, t, Trying(Run, st, s),
                 Run[<<Then(call, Dispatch(c, Len(c.targets))), t>>])
    BY <1>0, <1>s, <2>14, <2>15, <2>17, CallSim
  <2> QED
    BY <2>4, <2>18, <2>19 DEF l
<1>7. CASE st.op \in {"guarded", "test", "Try"}
  <2>1. "emitted" \in whole
    BY <1>7 DEF Flaws
  <2> QED
    BY <1>0, <2>1
<1> HIDE DEF l, whole
<1>8. Leaving(exact, c, s, t, Run[<<st, s>>], Run[<<l.code, t>>])
  BY <1>a, <1>1, <1>3, <1>4, <1>5, <1>6, <1>7 DEF l
<1> QED
  BY <1>8 DEF l

\* So does every statement of every level.
LEMMA LoweringSimulates ==
    ASSUME NEW exact
    PROVE  \A n \in Nat : Simulating(exact, Lowering[n], Flawed[n], n)
<1> DEFINE T == {n \in Nat : Simulating(exact, Lowering[n], Flawed[n], n)}
<1>1. 0 \in T
  <2>1. ASSUME NEW st \in Statement[0], NEW c, NEW scope, NEW s, NEW t,
               Stands(exact, c, scope, s, t, Lowering[0][<<st, c>>], Flawed[0][<<st, scope>>]),
               Entering(exact, c, s, t)
        PROVE  Leaving(exact, c, s, t, Run[<<st, s>>], Run[<<Lowering[0][<<st, c>>].code, t>>])
    <3>1. c \in Context /\ scope \in Scope
      BY <2>1, NestedType DEF Stands
    <3>2. /\ Lowering[0][<<st, c>>] = Lower(Below(Lowering, 0), st, c)
          /\ Flawed[0][<<st, scope>>] = Flaws(Below(Flawed, 0), st, scope)
      BY <3>1, LoweringLevels, FlawedLevels, 0 \in Nat
    <3>3. st \in Simple
      BY StatementLevels
    <3> QED
      BY <2>1, <3>2, <3>3, SimpleSim
  <2>2. Simulating(exact, Lowering[0], Flawed[0], 0)
    BY <2>1 DEF Simulating
  <2> QED
    BY <2>2
<1>2. ASSUME NEW n \in Nat, n \in T PROVE n + 1 \in T
  <2>1. Below(Lowering, n + 1) = Lowering[n] /\ Below(Flawed, n + 1) = Flawed[n]
    BY DEF Below
  <2>2. ASSUME NEW st \in Statement[n + 1], NEW c, NEW scope, NEW s, NEW t,
               Stands(exact, c, scope, s, t, Lowering[n + 1][<<st, c>>],
                      Flawed[n + 1][<<st, scope>>]),
               Entering(exact, c, s, t)
        PROVE  Leaving(exact, c, s, t, Run[<<st, s>>],
                       Run[<<Lowering[n + 1][<<st, c>>].code, t>>])
    <3>1. c \in Context /\ scope \in Scope
      BY <2>2, NestedType DEF Stands
    <3>2. /\ Lowering[n + 1][<<st, c>>] = Lower(Lowering[n], st, c)
          /\ Flawed[n + 1][<<st, scope>>] = Flaws(Flawed[n], st, scope)
      BY <2>1, <3>1, LoweringLevels, FlawedLevels, n + 1 \in Nat
    <3>3. st \in Simple \/ st \in Compound(Statement[n])
      BY StatementLevels
    <3>4. Fitting(Lowering[n], n) /\ Simulating(exact, Lowering[n], Flawed[n], n)
      BY <1>2, LoweringFits
    <3>5. CASE st \in Simple
      BY <2>2, <3>2, <3>5, SimpleSim
    <3>6. CASE st \in Compound(Statement[n])
      BY <2>2, <3>2, <3>4, <3>6, CompoundSim
    <3> QED
      BY <3>3, <3>5, <3>6
  <2>3. Simulating(exact, Lowering[n + 1], Flawed[n + 1], n + 1)
    BY <2>2 DEF Simulating
  <2> QED
    BY <2>3
<1> HIDE DEF T
<1>3. \A n \in Nat : n \in T
  BY <1>1, <1>2, NatInduct
<1> QED
  BY <1>3 DEF T

-----------------------------------------------------------------------------
(* Whole bodies.                                                           *)

\* The context of a whole body is well nested.
LEMMA EntryNested == WellNested(Entry)
<1>1. Entry \in Context /\ Entry.next = 2 /\ Entry.targets = <<>>
  BY EntryType DEF Entry
<1>2. 1 .. Len(Entry.targets) = {}
  BY <1>1
<1> QED
  BY <1>1, <1>2 DEF WellNested

\* A function starts in a state.
LEMMA FreshType ==
    ASSUME NEW named \in BOOLEAN, NEW routed \in BOOLEAN
    PROVE  Fresh(named, routed) \in State
<1>1. "" \in Label /\ "none" \in Exceptions /\ "next" \in Kinds
  BY LabelAssumption DEF Exceptions, Kinds
<1>2. <<>> \in Seq(Printed)
  OBVIOUS
<1>3. 0 \in Int /\ 0 \in Nat /\ 1 \in Nat /\ FALSE \in BOOLEAN
  OBVIOUS
<1>4. \A l \in Label : \A k \in Kinds : \A e \in Exceptions : \A p \in Seq(Printed) :
          [named |-> named, kind |-> k, label |-> l, exc |-> e, value |-> 0, trace |-> p,
           result |-> 0, shadow |-> 0, shadowed |-> FALSE, iter |-> 1, caught |-> e,
           defers |-> p, registered |-> p, flow |-> 0, slot |-> 0, routed |-> routed,
           lost |-> FALSE] \in State
  BY <1>3 DEF State
<1> QED
  BY <1>1, <1>2, <1>4 DEF Fresh

\* The two executions start alike.
LEMMA FreshEnters ==
    ASSUME NEW exact, NEW named \in BOOLEAN, NEW routed \in BOOLEAN
    PROVE  Entering(exact, Entry, Fresh(named, FALSE), Fresh(named, routed))
<1>1. Fresh(named, FALSE) \in State /\ Fresh(named, routed) \in State
  BY FreshType
<1>2. Alike(exact, Entry.depth, Fresh(named, FALSE), Fresh(named, routed))
  BY <1>1 DEF Alike, Fresh
<1> QED
  BY <1>2 DEF Entering, Fresh

\* What a body does before and after the pass.
LEMMA BodyLeaves ==
    ASSUME BodyInv, ~Rejected, NEW exact, exact => ~Has(code, "shadowed")
    PROVE  Leaving(exact, Entry, Start(FALSE), Start(LowerFunction(Nesting, code).scoped),
                   RunAsWritten, RunAsEmitted)
<1> DEFINE l == Lowering[Nesting][<<code, Entry>>]
           flaws == Flawed[Nesting][<<code, Outermost>>]
           s == Start(FALSE)
           t == Start(l.scoped)
           r == Run[<<code, s>>]
           u == Run[<<l.code, t>>]
           wall == [op |-> "unreachable"]
<1>1. /\ code \in Statement[Nesting] /\ Nesting \in Nat /\ size \in Size
      /\ "emitted" \notin flaws /\ "reused" \notin flaws
      /\ exact => "shadowed" \notin flaws
  BY NestingAssumption DEF BodyInv, Written, Has
<1>2. LowerFunction(Nesting, code) = l
  BY DEF LowerFunction, Entry
<1>3. ~l.rejected
  BY <1>2 DEF Rejected
<1>4. Fits(Nesting, Entry, l)
  BY <1>1, EntryType, LoweringFits DEF Fitting
<1>5. Room(Nesting, Entry) \in Nat /\ Room(Nesting, Entry) + 1 = EmittedLevels
      /\ EmittedLevels \in Nat
  <2>1. Len(Entry.targets) = 0
    BY DEF Entry
  <2>2. 3 * Nesting + 0 + 2 \in Nat /\ (3 * Nesting + 0 + 2) + 1 = 3 * Nesting + 3
        /\ 3 * Nesting + 3 \in Nat
    BY <1>1
  <2> QED
    BY <2>1, <2>2 DEF Room, EmittedLevels
<1>6. l.code \in Statement[Room(Nesting, Entry)] /\ l.scoped \in BOOLEAN
  BY <1>4 DEF Fits
<1>7. size.named \in BOOLEAN
  BY <1>1, SizeAssumption
<1> HIDE DEF l, flaws
<1>8. s \in State /\ t \in State /\ Entering(exact, Entry, s, t)
  BY <1>6, <1>7, FreshType, FreshEnters DEF Start
<1>9. s.named = size.named /\ s.shadowed = FALSE /\ t.routed = l.scoped
  BY DEF Start, Fresh
<1> HIDE DEF s, t
<1>10. Stands(exact, Entry, Outermost, s, t, l, flaws)
  <2>1. Accepted(exact, s, flaws)
    BY <1>1 DEF Accepted
  <2>2. Outermost.inTry = (Entry.depth > 0) /\ Outermost.inShadow = FALSE
    <3>1. Entry.depth = 0 /\ Outermost.inTry = FALSE /\ Outermost.inShadow = FALSE
      BY DEF Outermost, Entry
    <3>2. (0 > 0) = FALSE
      OBVIOUS
    <3> QED
      BY <3>1, <3>2
  <2> QED
    BY <1>3, <1>9, <2>1, <2>2, EntryNested, EntryType DEF Stands
<1>11. Leaving(exact, Entry, s, t, r, u)
  BY <1>1, <1>8, <1>10, LoweringSimulates, Zenon DEF Simulating, l, flaws
<1>12. RunAsWritten = r
  BY <1>1, <1>8, RunLevel DEF RunAsWritten, s
<1>13. l.code \in Every /\ l.code \in Statement[EmittedLevels]
       /\ wall \in Every /\ wall \in Statement[Room(Nesting, Entry)]
  <2>1. wall \in Simple
    BY DEF Simple
  <2>2. Room(Nesting, Entry) <= EmittedLevels
    BY <1>5
  <2>3. Statement[Room(Nesting, Entry)] \subseteq Statement[EmittedLevels]
    BY <1>5, <2>2, StatementsGrow
  <2>4. Simple \subseteq Statement[Room(Nesting, Entry)]
    BY <1>5, SimpleStatements
  <2>5. Statement[Room(Nesting, Entry)] \subseteq Every
    BY <1>5, EveryStatement
  <2> HIDE DEF wall
  <2> QED
    BY <1>6, <2>1, <2>3, <2>4, <2>5
<1>14. Then(l.code, wall) \in Statement[EmittedLevels]
  <2>1. Room(Nesting, Entry) < EmittedLevels
    BY <1>5
  <2>2. \A a, b \in Statement[Room(Nesting, Entry)] : Then(a, b) \in Statement[EmittedLevels]
    BY <1>5, <2>1, CompoundStatements
  <2> HIDE DEF wall
  <2> QED
    BY <1>6, <1>13, <2>2
<1>15. Emitted(Nesting, code) = IF l.used /\ Terminating[Nesting][code] THEN Then(l.code, wall)
                                ELSE l.code
  BY <1>2 DEF Emitted
<1> HIDE DEF wall
<1>16. RunAsEmitted = Run[<<Emitted(Nesting, code), t>>]
  <2>1. Emitted(Nesting, code) \in Statement[EmittedLevels]
    BY <1>13, <1>14, <1>15
  <2>2. RunAsEmitted = Running[EmittedLevels][<<Emitted(Nesting, code), t>>]
    BY <1>2 DEF RunAsEmitted, t
  <2> QED
    BY <1>5, <1>8, <2>1, <2>2, RunLevel
<1>17. RunAsEmitted = u
  <2>1. CASE l.used /\ Terminating[Nesting][code]
    <3>1. r.kind # "next"
      BY <1>1, <1>8, <2>1, TerminatingEnds DEF Ending
    <3>2. u.kind # "next"
      BY <1>11, <3>1, NextEnters
    <3>3. Run[<<Then(l.code, wall), t>>] = u
      BY <1>8, <1>13, <3>2, RunStops
    <3> QED
      BY <1>15, <1>16, <2>1, <3>3
  <2>2. CASE ~(l.used /\ Terminating[Nesting][code])
    BY <1>15, <1>16, <2>2
  <2> QED
    BY <2>1, <2>2
<1> QED
  BY <1>2, <1>11, <1>12, <1>17 DEF s, t

\* Deferred calls run in the same order, wherever they are registered.
LEMMA SameTrace ==
    ASSUME NEW exact, NEW r, NEW u, Alike(exact, 0, r, u)
    PROVE  Outcome(u).trace = Outcome(r).trace
<1> DEFINE w == r.trace \o Reverse(r.defers)
<1>1. /\ r.trace \in Seq(Printed) /\ r.defers \in Seq(Printed) /\ u.trace = r.trace
      /\ r.registered = <<>>
  BY DEF Alike, State
<1>2. Reverse(r.defers) \in Seq(Printed)
  BY <1>1 DEF Reverse
<1>3. w \in Seq(Printed)
  BY <1>1, <1>2
<1> HIDE DEF w
<1>4. w \o Reverse(<<>>) = w /\ r.trace \o Reverse(<<>>) = r.trace
  BY <1>1, <1>3, NothingDeferred
<1>5. Outcome(r).trace = w
  BY <1>1, <1>4 DEF Outcome, w
<1>6. CASE u.routed
  <2>1. u.registered = r.defers /\ u.defers = <<>>
    BY <1>6 DEF Alike
  <2>2. Outcome(u).trace = (r.trace \o Reverse(<<>>)) \o Reverse(r.defers)
    BY <1>1, <2>1 DEF Outcome
  <2> QED
    BY <1>4, <1>5, <2>2 DEF w
<1>7. CASE ~u.routed
  <2>1. u.registered = <<>> /\ u.defers = r.defers
    BY <1>7 DEF Alike
  <2>2. Outcome(u).trace = (r.trace \o Reverse(r.defers)) \o Reverse(<<>>)
    BY <1>1, <2>1 DEF Outcome
  <2> QED
    BY <1>4, <1>5, <2>2 DEF w
<1> QED
  BY <1>6, <1>7

\* The emitted code of every body, of any size, prints the same in the same order and ends
\* the same way as the body does as written, and returns the same value but where the
\* property says (lines 162-380).
THEOREM LowersCorrectly == Spec => []LoweringCorrect
<1>1. BodyInv => LoweringCorrect
  <2> DEFINE r == RunAsWritten
             u == RunAsEmitted
             exact == ~Has(code, "shadowed")
  <2>1. SUFFICES ASSUME BodyInv, ~Rejected
                 PROVE  /\ Outcome(u).how = Outcome(r).how
                        /\ Outcome(u).trace = Outcome(r).trace
                        /\ (IF size.named THEN exact ELSE r.lost => r.kind # "return") =>
                               Outcome(u).value = Outcome(r).value
                        /\ u.kind = "next" => u.flow = 0
    BY DEF LoweringCorrect
  <2> DEFINE s == Start(FALSE)
             t == Start(LowerFunction(Nesting, code).scoped)
  <2>2. Leaving(exact, Entry, s, t, r, u)
    BY <2>1, BodyLeaves
  <2>3. s.named = size.named
    BY DEF Start, Fresh
  <2>4. Entry.depth = 0 /\ ~(Entry.depth > 0) /\ Entry.targets = <<>>
    BY DEF Entry
  <2> HIDE DEF r, u, s, t, exact
  <2>5. \A i : ~Leads(Entry, r, u, i)
    <3>1. Candidates(r.kind, r.label, Entry.targets) = {}
      BY <2>4 DEF Candidates
    <3> QED
      BY <3>1 DEF Leads, Means
  <2>6. \/ r.kind = "next" /\ u.kind = "next" /\ u.flow = 0
        \/ r.kind = "throw" /\ u.kind = "throw" /\ u.exc = r.exc
        \/ r.kind = "return" /\ u.kind = "return"
    BY <2>2, <2>5 DEF Leaving, SameEnd
  <2>7. r.named = size.named /\ u.named = size.named /\ (exact => u.result = r.result)
    BY <2>2, <2>3 DEF Leaving, Alike
  <2>8. r.named \/ r.lost \/ (r.kind = "return" => r.value = u.value)
    BY <2>2, <2>4 DEF Leaving, SameValue
  <2>9. Outcome(u).how = Outcome(r).how
    BY <2>6 DEF Outcome
  <2>10. Outcome(u).trace = Outcome(r).trace
    BY <2>2, <2>4, SameTrace DEF Leaving
  <2>11. (IF size.named THEN exact ELSE r.lost => r.kind # "return") =>
             Outcome(u).value = Outcome(r).value
    BY <2>6, <2>7, <2>8 DEF Outcome
  <2> QED
    BY <2>6, <2>9, <2>10, <2>11
<1> QED
  BY <1>1, BodyWritten, PTL

=============================================================================
