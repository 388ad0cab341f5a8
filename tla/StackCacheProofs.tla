-------------------------- MODULE StackCacheProofs --------------------------
(***************************************************************************)
(* Proofs about StackCache, for every set of goroutines and of stacks and  *)
(* all sizes and limits of the caches.                                     *)
(***************************************************************************)
EXTENDS StackCache, SequenceTheorems, TLAPS

\* Every entry is the description of its own key.
EntryInv == \A c \in Caches : \A k \in DOMAIN entries[c] : entries[c][k] = k

\* A goroutine that works on a cache has a stack that fits it, and stores
\* what it decoded from that stack.
WorkInv ==
    \A g \in Goroutines :
        /\ pc[g] # "idle" => stack[g] \in Stacks /\ CacheFor(stack[g]) # "none"
        /\ pc[g] = "store" => data[g] = Key(stack[g])

IInv == TypeOK /\ RingMatchesMap /\ EntryInv /\ WorkInv /\ TraceIsOwn

-----------------------------------------------------------------------------

\* A stack that goes to a cache is its own key.
LEMMA KeyIsStack ==
    ASSUME NEW s \in Stacks, CacheFor(s) # "none"
    PROVE  Key(s) = s /\ CacheFor(s) \in Caches
<1>1. s \in Seq(Nat) /\ Len(s) \in Nat
  BY ConstantsAssumption
<1>2. Count(s) = Len(s)
  BY <1>1, ConstantsAssumption DEF CacheFor, Count
<1>3. SubSeq(s, 1, Len(s)) = s
  BY <1>1
<1> QED
  BY <1>2, <1>3 DEF Key, CacheFor, Caches

\* A key is one of the keys.
LEMMA KeyType ==
    ASSUME NEW s \in Stacks
    PROVE  Key(s) \in Keys
BY DEF Keys

\* The invariant holds at first.
LEMMA Initial == Init => IInv
<1> SUFFICES ASSUME Init PROVE IInv
  OBVIOUS
<1>1. \A c \in Caches : LimitOf(c) \in Nat /\ LimitOf(c) > 0
  BY ConstantsAssumption DEF LimitOf
<1>2. TypeOK
  BY <1>1 DEF Init, TypeOK, Keys
<1>3. RingMatchesMap
  BY <1>1 DEF Init, RingMatchesMap
<1> QED
  BY <1>2, <1>3 DEF Init, IInv, EntryInv, WorkInv, TraceIsOwn

\* Capturing a stack keeps it.
LEMMA CaptureKeeps ==
    ASSUME IInv, NEW g \in Goroutines, NEW s \in Stacks, Capture(g, s)
    PROVE  IInv'
<1>1. TypeOK'
  BY DEF IInv, Capture, TypeOK, LimitOf
<1>2. RingMatchesMap' /\ EntryInv'
  BY DEF IInv, Capture, RingMatchesMap, EntryInv, LimitOf
<1>3. WorkInv' /\ TraceIsOwn'
  BY DEF IInv, Capture, TypeOK, WorkInv, TraceIsOwn, CacheFor, Count, Key
<1> QED
  BY <1>1, <1>2, <1>3 DEF IInv

\* The lookup keeps it.
LEMMA LoadKeeps ==
    ASSUME IInv, NEW g \in Goroutines, Load(g)
    PROVE  IInv'
<1> DEFINE c == CacheFor(stack[g])
           k == Key(stack[g])
<1>1. stack[g] \in Stacks /\ k = stack[g] /\ c \in Caches /\ k \in Keys
  BY KeyIsStack, KeyType DEF IInv, WorkInv, Load
<1>2. k \in DOMAIN entries[c] => entries[c][k] = stack[g]
  BY <1>1 DEF IInv, EntryInv
<1>3. TypeOK'
  BY <1>1, <1>2 DEF IInv, Load, TypeOK, LimitOf
<1>4. RingMatchesMap' /\ EntryInv'
  BY DEF IInv, Load, RingMatchesMap, EntryInv, LimitOf
<1>5. WorkInv' /\ TraceIsOwn'
  BY <1>1, <1>2 DEF IInv, Load, TypeOK, WorkInv, TraceIsOwn, CacheFor, Count, Key
<1> QED
  BY <1>3, <1>4, <1>5 DEF IInv

\* Decoding outside the lock keeps it.
LEMMA DecodeKeeps ==
    ASSUME IInv, NEW g \in Goroutines, Decode(g)
    PROVE  IInv'
<1>1. stack[g] \in Stacks /\ Key(stack[g]) \in Keys
  BY KeyType DEF IInv, WorkInv, Decode
<1>2. TypeOK'
  BY <1>1 DEF IInv, Decode, TypeOK, LimitOf
<1>3. RingMatchesMap' /\ EntryInv'
  BY DEF IInv, Decode, RingMatchesMap, EntryInv, LimitOf
<1>4. WorkInv' /\ TraceIsOwn'
  BY DEF IInv, Decode, TypeOK, WorkInv, TraceIsOwn, CacheFor, Count, Key
<1> QED
  BY <1>2, <1>3, <1>4 DEF IInv

-----------------------------------------------------------------------------

\* Entering a key that is not cached keeps the ring and the map of its cache
\* in step, whether the ring grows or gives up its next entry.
LEMMA EnterKeeps ==
    ASSUME TypeOK, RingMatchesMap, NEW c \in Caches, NEW k \in Keys,
           k \notin DOMAIN entries[c], Enter(c, k)
    PROVE  /\ ring' \in [Caches -> Seq(Keys)]
           /\ next' \in [Caches -> Nat]
           /\ next'[c] < LimitOf(c)
           /\ \A d \in Caches \ {c} : ring'[d] = ring[d] /\ next'[d] = next[d]
           /\ Len(ring'[c]) <= LimitOf(c)
           /\ ((DOMAIN entries[c]) \ Evicted(c)) \cup {k}
                = {ring'[c][i] : i \in 1..Len(ring'[c])}
           /\ \A i, j \in 1..Len(ring'[c]) : ring'[c][i] = ring'[c][j] => i = j
<1> DEFINE r == ring[c]
           L == LimitOf(c)
           n == next[c]
<1>1. L \in Nat /\ L > 0 /\ r \in Seq(Keys) /\ n \in Nat /\ n < L
  BY ConstantsAssumption DEF LimitOf, TypeOK
<1>2. /\ Len(r) \in Nat /\ Len(r) <= L
      /\ DOMAIN entries[c] = {r[i] : i \in 1..Len(r)}
      /\ \A i, j \in 1..Len(r) : r[i] = r[j] => i = j
  BY <1>1 DEF RingMatchesMap
<1>3. CASE Len(r) = L
  <2>1. /\ ring' = [ring EXCEPT ![c][n + 1] = k]
        /\ next' = [next EXCEPT ![c] = (@ + 1) % L]
        /\ Evicted(c) = {r[n + 1]}
        /\ n + 1 \in 1..Len(r)
    BY <1>1, <1>3 DEF Enter, Evicted
  <2>2. ring'[c] = [r EXCEPT ![n + 1] = k] /\ next'[c] = (n + 1) % L
    BY <2>1 DEF TypeOK
  <2>3. ring'[c] \in Seq(Keys) /\ Len(ring'[c]) = Len(r)
    BY <1>1, <2>1, <2>2
  <2>4. (n + 1) % L \in Nat /\ (n + 1) % L < L
    BY <1>1
  <2>5. \A i \in 1..Len(r) : ring'[c][i] = IF i = n + 1 THEN k ELSE r[i]
    BY <1>1, <2>2
  <2>6. ((DOMAIN entries[c]) \ Evicted(c)) \cup {k}
            = {ring'[c][i] : i \in 1..Len(ring'[c])}
    BY <1>2, <2>1, <2>3, <2>5
  <2>7. \A i, j \in 1..Len(ring'[c]) : ring'[c][i] = ring'[c][j] => i = j
    BY <1>2, <2>3, <2>5
  <2>8. ring' \in [Caches -> Seq(Keys)] /\ next' \in [Caches -> Nat]
    BY <2>1, <2>2, <2>3, <2>4 DEF TypeOK
  <2> QED
    BY <1>3, <2>1, <2>2, <2>3, <2>4, <2>6, <2>7, <2>8 DEF TypeOK
<1>4. CASE Len(r) # L
  <2>1. ring' = [ring EXCEPT ![c] = Append(@, k)] /\ next' = next /\ Evicted(c) = {}
    BY <1>4 DEF Enter, Evicted
  <2>2. ring'[c] = Append(r, k)
    BY <2>1 DEF TypeOK
  <2>3. ring'[c] \in Seq(Keys) /\ Len(ring'[c]) = Len(r) + 1
    BY <1>1, <2>2
  <2>4. \A i \in 1..Len(ring'[c]) : ring'[c][i] = IF i = Len(r) + 1 THEN k ELSE r[i]
    BY <1>1, <2>2, <2>3
  <2>5. ((DOMAIN entries[c]) \ Evicted(c)) \cup {k}
            = {ring'[c][i] : i \in 1..Len(ring'[c])}
    BY <1>2, <2>1, <2>3, <2>4
  <2>6. \A i, j \in 1..Len(ring'[c]) : ring'[c][i] = ring'[c][j] => i = j
    BY SMTT(30), <1>2, <2>3, <2>4
  <2>7. ring' \in [Caches -> Seq(Keys)] /\ next' \in [Caches -> Nat]
    BY <2>1, <2>2, <2>3 DEF TypeOK
  <2> QED
    BY <1>1, <1>2, <1>4, <2>1, <2>2, <2>3, <2>5, <2>6, <2>7 DEF TypeOK
<1> QED
  BY <1>3, <1>4

\* Storing, with eviction, keeps it.
LEMMA StoreKeeps ==
    ASSUME IInv, NEW g \in Goroutines, Store(g)
    PROVE  IInv'
<1> DEFINE c == CacheFor(stack[g])
           k == Key(stack[g])
<1>1. /\ stack[g] \in Stacks /\ k = stack[g] /\ c \in Caches /\ k \in Keys
      /\ data[g] = k
  BY KeyIsStack, KeyType DEF IInv, WorkInv, Store
<1>2. WorkInv'
  BY DEF IInv, Store, TypeOK, WorkInv, CacheFor, Count, Key
<1>3. CASE k \in DOMAIN entries[c]
  <2>1. entries[c][k] = k /\ data' = [data EXCEPT ![g] = k]
    BY <1>1, <1>3 DEF IInv, EntryInv, Store
  <2>2. UNCHANGED <<entries, ring, next, stack>> /\ pc' = [pc EXCEPT ![g] = "idle"]
    BY <1>3 DEF Store
  <2>3. TypeOK'
    BY <1>1, <2>1, <2>2 DEF IInv, TypeOK, LimitOf
  <2>4. RingMatchesMap' /\ EntryInv'
    BY <2>2 DEF IInv, RingMatchesMap, EntryInv, LimitOf
  <2>5. TraceIsOwn'
    BY <1>1, <2>1, <2>2 DEF IInv, TypeOK, TraceIsOwn
  <2> QED
    BY <1>2, <2>3, <2>4, <2>5 DEF IInv
<1>4. CASE k \notin DOMAIN entries[c]
  <2> DEFINE D == ((DOMAIN entries[c]) \ Evicted(c)) \cup {k}
             E == [x \in D |-> IF x = k THEN data[g] ELSE entries[c][x]]
  <2>1. /\ Enter(c, k)
        /\ entries' = [entries EXCEPT ![c] = E]
        /\ UNCHANGED <<stack, data>>
        /\ pc' = [pc EXCEPT ![g] = "idle"]
    BY <1>4 DEF Store
  <2>2. /\ ring' \in [Caches -> Seq(Keys)] /\ next' \in [Caches -> Nat]
        /\ next'[c] < LimitOf(c)
        /\ \A d \in Caches \ {c} : ring'[d] = ring[d] /\ next'[d] = next[d]
        /\ Len(ring'[c]) <= LimitOf(c)
        /\ D = {ring'[c][i] : i \in 1..Len(ring'[c])}
        /\ \A i, j \in 1..Len(ring'[c]) : ring'[c][i] = ring'[c][j] => i = j
    BY <1>1, <1>4, <2>1, EnterKeeps DEF IInv
  <2>3. /\ entries'[c] = E /\ DOMAIN entries' = Caches
        /\ \A d \in Caches \ {c} : entries'[d] = entries[d]
    BY <1>1, <2>1 DEF IInv, TypeOK
  <2>4. DOMAIN E = D /\ D \subseteq Keys /\ \A x \in D : E[x] = x
    BY <1>1 DEF IInv, TypeOK, EntryInv
  <2>5. E \in [D -> Keys]
    BY <2>4
  <2>6. TypeOK'
    BY <2>1, <2>2, <2>3, <2>4, <2>5 DEF IInv, TypeOK, LimitOf
  <2>7. RingMatchesMap'
    <3>1. ASSUME NEW d \in Caches
          PROVE  /\ Len(ring'[d]) <= LimitOf(d)
                 /\ DOMAIN entries'[d] = {ring'[d][i] : i \in 1..Len(ring'[d])}
                 /\ \A i, j \in 1..Len(ring'[d]) :
                        ring'[d][i] = ring'[d][j] => i = j
      <4>1. CASE d = c
        <5>1. DOMAIN entries'[c] = D
          BY <2>3, <2>4
        <5> QED
          BY <2>2, <4>1, <5>1
      <4>2. CASE d # c
        <5>1. ring'[d] = ring[d] /\ entries'[d] = entries[d]
          BY <2>2, <2>3, <4>2
        <5> QED
          BY <5>1 DEF IInv, RingMatchesMap
      <4> QED
        BY <4>1, <4>2
    <3> HIDE DEF D, E
    <3> QED
      BY <3>1 DEF RingMatchesMap, LimitOf
  <2>8. EntryInv'
    BY <2>3, <2>4 DEF IInv, EntryInv
  <2>9. TraceIsOwn'
    BY <1>1, <2>1 DEF IInv, TypeOK, TraceIsOwn
  <2> QED
    BY <1>2, <2>6, <2>7, <2>8, <2>9 DEF IInv
<1> QED
  BY <1>3, <1>4

-----------------------------------------------------------------------------

\* Every reachable state satisfies the inductive invariant.
THEOREM Invariance == Spec => []IInv
<1>1. IInv /\ [Next]_vars => IInv'
  <2> SUFFICES ASSUME IInv, [Next]_vars PROVE IInv'
    OBVIOUS
  <2>1. CASE UNCHANGED vars
    BY <2>1 DEF vars, IInv, TypeOK, RingMatchesMap, EntryInv, WorkInv, TraceIsOwn,
                LimitOf, CacheFor, Count, Key
  <2>2. ASSUME NEW g \in Goroutines, NEW s \in Stacks, Capture(g, s) PROVE IInv'
    BY <2>2, CaptureKeeps
  <2>3. ASSUME NEW g \in Goroutines, Load(g) PROVE IInv'
    BY <2>3, LoadKeeps
  <2>4. ASSUME NEW g \in Goroutines, Decode(g) PROVE IInv'
    BY <2>4, DecodeKeeps
  <2>5. ASSUME NEW g \in Goroutines, Store(g) PROVE IInv'
    BY <2>5, StoreKeeps
  <2> QED
    BY <2>1, <2>2, <2>3, <2>4, <2>5 DEF Next
<1> QED
  BY Initial, <1>1, PTL DEF Spec

\* The ring of keys and the map of entries of each cache agree, whatever
\* goroutines interleave between decoding a stack and storing it.
THEOREM Rings == Spec => []RingMatchesMap
BY Invariance, PTL DEF IInv

\* A caught exception carries the complete trace of its own stack.
THEOREM Traces == Spec => []TraceIsOwn
BY Invariance, PTL DEF IInv

\* Types, and the bound of the next eviction.
THEOREM TypeCorrect == Spec => []TypeOK
BY Invariance, PTL DEF IInv
-----------------------------------------------------------------------------
(* The caches replace their entries first in, first out.                   *)

\* The eviction slot stays at the start of the ring until the ring is full.
FillInv == \A c \in Caches : Len(ring[c]) < LimitOf(c) => next[c] = 0

\* What Queue makes of a ring r whose next eviction is at n.
Rotated(r, n) == SubSeq(r, n + 1, Len(r)) \o SubSeq(r, 1, n)

\* The items of a rotated ring: those from n on, then those before it.
LEMMA RotatedItems ==
    ASSUME NEW S, NEW r \in Seq(S), NEW n \in 0..Len(r)
    PROVE  /\ Rotated(r, n) \in Seq(S)
           /\ Len(Rotated(r, n)) = Len(r)
           /\ \A i \in 1..Len(r) :
                 Rotated(r, n)[i] = IF i <= Len(r) - n THEN r[n + i]
                                    ELSE r[i - (Len(r) - n)]
<1> DEFINE a == SubSeq(r, n + 1, Len(r))
           b == SubSeq(r, 1, n)
<1>1. Len(r) \in Nat /\ n \in Nat /\ n <= Len(r)
  OBVIOUS
<1>2. a \in Seq(S) /\ Len(a) = Len(r) - n /\ \A i \in 1..(Len(r) - n) : a[i] = r[n + i]
  BY <1>1
<1>3. b \in Seq(S) /\ Len(b) = n /\ \A i \in 1..n : b[i] = r[i]
  BY <1>1
<1> HIDE DEF a, b
<1>4. a \o b \in Seq(S) /\ Len(a \o b) = Len(r)
  BY <1>1, <1>2, <1>3
<1>5. \A i \in 1..Len(r) :
        (a \o b)[i] = IF i <= Len(r) - n THEN r[n + i] ELSE r[i - (Len(r) - n)]
  <2>1. \A i \in 1..(Len(a) + Len(b)) :
          (a \o b)[i] = IF i <= Len(a) THEN a[i] ELSE b[i - Len(a)]
    BY <1>2, <1>3, ConcatProperties
  <2>2. Len(a) + Len(b) = Len(r)
    BY <1>1, <1>2, <1>3
  <2> TAKE i \in 1..Len(r)
  <2>3. (a \o b)[i] = IF i <= Len(a) THEN a[i] ELSE b[i - Len(a)]
    BY <2>1, <2>2
  <2>4. i > Len(r) - n => i - (Len(r) - n) \in 1..n
    BY <1>1
  <2> QED
    BY <1>1, <1>2, <1>3, <2>3, <2>4
<1>6. Rotated(r, n) = a \o b
  BY DEF Rotated, a, b
<1> QED
  BY <1>4, <1>5, <1>6

\* A full ring that overwrites its next slot drops its oldest item.
LEMMA FullRing ==
    ASSUME NEW S, NEW r \in Seq(S), Len(r) > 0, NEW n \in 0..(Len(r) - 1), NEW k \in S
    PROVE  Rotated([r EXCEPT ![n + 1] = k], (n + 1) % Len(r))
             = Append(Tail(Rotated(r, n)), k)
<1> DEFINE L == Len(r)
           m == (n + 1) % L
           s == [r EXCEPT ![n + 1] = k]
           old == Rotated(r, n)
           new == Rotated(s, m)
<1>1. L \in Nat /\ L > 0 /\ n \in Nat /\ n < L
  OBVIOUS
<1>2. m = IF n + 1 = L THEN 0 ELSE n + 1
  <2>1. CASE n + 1 = L
    BY <1>1, <2>1
  <2>2. CASE n + 1 < L
    BY <1>1, <2>2
  <2> QED
    BY <1>1, <2>1, <2>2
<1>3. s \in Seq(S) /\ Len(s) = L /\ \A i \in 1..L : s[i] = IF i = n + 1 THEN k ELSE r[i]
  BY <1>1
<1>4. m \in 0..L
  BY <1>1, <1>2
<1>5. /\ old \in Seq(S) /\ Len(old) = L
      /\ \A i \in 1..L : old[i] = IF i <= L - n THEN r[n + i] ELSE r[i - (L - n)]
  BY <1>1, RotatedItems
<1> HIDE DEF s, m
<1>6. /\ new \in Seq(S) /\ Len(new) = L
      /\ \A i \in 1..L : new[i] = IF i <= L - m THEN s[m + i] ELSE s[i - (L - m)]
  <2>1. m \in 0..Len(s)
    BY <1>3, <1>4
  <2>2. /\ new \in Seq(S) /\ Len(new) = Len(s)
        /\ \A i \in 1..Len(s) :
              new[i] = IF i <= Len(s) - m THEN s[m + i] ELSE s[i - (Len(s) - m)]
    BY <1>3, <2>1, RotatedItems
  <2> QED
    BY <1>3, <2>2
<1> HIDE DEF old, new, L
<1> DEFINE t == Append(Tail(old), k)
<1>7. /\ t \in Seq(S) /\ Len(t) = L
      /\ \A i \in 1..L : t[i] = IF i = L THEN k ELSE old[i + 1]
  <2>1. Tail(old) \in Seq(S) /\ Len(Tail(old)) = L - 1
    BY <1>1, <1>5
  <2>2. \A i \in 1..(L - 1) : Tail(old)[i] = old[i + 1]
    BY <1>1, <1>5
  <2> QED
    BY <1>1, <2>1, <2>2
<1> HIDE DEF t
<1>8. ASSUME NEW i \in 1..L PROVE new[i] = t[i]
  <2>1. CASE n + 1 = L
    <3>1. m = 0 /\ L - n = 1
      BY <1>1, <1>2, <2>1
    <3>2. new[i] = s[i]
      BY <1>1, <1>6, <3>1
    <3>3. CASE i = L
      BY <1>1, <1>3, <1>7, <2>1, <3>2, <3>3
    <3>4. CASE i < L
      <4>1. s[i] = r[i]
        BY <1>1, <1>3, <2>1, <3>4
      <4>2. t[i] = old[i + 1] /\ old[i + 1] = r[(i + 1) - 1]
        BY <1>1, <1>5, <1>7, <3>1, <3>4
      <4> QED
        BY <3>2, <4>1, <4>2
    <3> QED
      BY <1>1, <3>3, <3>4
  <2>2. CASE n + 1 < L
    <3>1. m = n + 1
      BY <1>2, <2>2
    <3>2. CASE i <= L - m
      <4>1. new[i] = s[n + 1 + i]
        BY <1>1, <1>6, <3>1, <3>2
      <4>2. s[n + 1 + i] = r[n + 1 + i]
        BY <1>1, <1>3, <3>1, <3>2
      <4>3. t[i] = old[i + 1] /\ old[i + 1] = r[n + (i + 1)]
        BY <1>1, <1>5, <1>7, <2>2, <3>1, <3>2
      <4> QED
        BY <1>1, <4>1, <4>2, <4>3
    <3>3. CASE i > L - m
      <4>1. new[i] = s[i - (L - (n + 1))]
        BY <1>1, <1>6, <3>1, <3>3
      <4>2. CASE i = L
        BY <1>1, <1>3, <1>7, <4>1, <4>2
      <4>3. CASE i < L
        <5>1. s[i - (L - (n + 1))] = r[i - (L - (n + 1))]
          BY <1>1, <1>3, <3>1, <3>3, <4>3
        <5>2. t[i] = old[i + 1] /\ old[i + 1] = r[(i + 1) - (L - n)]
          BY <1>1, <1>5, <1>7, <2>2, <3>1, <3>3, <4>3
        <5>3. i - (L - (n + 1)) = (i + 1) - (L - n)
          BY <1>1
        <5> QED
          BY <4>1, <5>1, <5>2, <5>3
      <4> QED
        BY <1>1, <4>2, <4>3
    <3> QED
      BY <1>1, <1>2, <3>1, <3>2, <3>3
  <2> QED
    BY <1>1, <2>1, <2>2
<1>9. new = t
  BY <1>1, <1>6, <1>7, <1>8
<1> QED
  BY <1>9 DEF new, t, old, s, m, L

\* A ring that still grows appends.
LEMMA GrowingRing ==
    ASSUME NEW S, NEW r \in Seq(S), NEW k \in S
    PROVE  Rotated(Append(r, k), 0) = Append(Rotated(r, 0), k)
<1>1. ASSUME NEW q \in Seq(S) PROVE Rotated(q, 0) = q
  <2>1. Len(q) \in Nat /\ 0 \in 0..Len(q)
    OBVIOUS
  <2>2. /\ Rotated(q, 0) \in Seq(S) /\ Len(Rotated(q, 0)) = Len(q)
        /\ \A i \in 1..Len(q) : Rotated(q, 0)[i] = q[i]
    BY <2>1, RotatedItems
  <2> QED
    BY <2>1, <2>2
<1>2. Append(r, k) \in Seq(S)
  OBVIOUS
<1> QED
  BY <1>1, <1>2

-----------------------------------------------------------------------------

\* At first as many slots are used as there are entries.
LEMMA FillInitially == Init => FillInv
BY DEF Init, FillInv

\* Storing an entry is an insertion into the queue of its cache.
LEMMA EnterInserts ==
    ASSUME TypeOK, RingMatchesMap, FillInv, NEW c \in Caches, NEW k \in Keys,
           k \notin DOMAIN entries[c], Enter(c, k)
    PROVE  /\ \A i \in 1..Len(Queue(c)) : Queue(c)[i] # k
           /\ Queue(c)' = Append(IF Len(Queue(c)) = LimitOf(c) THEN Tail(Queue(c))
                                 ELSE Queue(c), k)
           /\ \A d \in Caches \ {c} : Queue(d)' = Queue(d)
           /\ FillInv'
<1> DEFINE r == ring[c]
           L == LimitOf(c)
           n == next[c]
<1>1. /\ L \in Nat /\ L > 0 /\ r \in Seq(Keys) /\ n \in Nat /\ n < L
      /\ Len(r) \in Nat /\ Len(r) <= L
      /\ DOMAIN entries[c] = {r[i] : i \in 1..Len(r)}
  BY ConstantsAssumption DEF LimitOf, TypeOK, RingMatchesMap
<1>2. n \in 0..Len(r) /\ (Len(r) < L => n = 0) /\ (Len(r) = L => n \in 0..(Len(r) - 1))
  BY <1>1 DEF FillInv
<1>3. Queue(c) = Rotated(r, n) /\ Queue(c)' = Rotated(ring'[c], next'[c])
  BY DEF Queue, Rotated
<1>4. /\ Len(Rotated(r, n)) = Len(r)
      /\ \A i \in 1..Len(r) :
            Rotated(r, n)[i] = IF i <= Len(r) - n THEN r[n + i]
                               ELSE r[i - (Len(r) - n)]
  BY <1>1, <1>2, RotatedItems
<1>5. \A i \in 1..Len(r) : Rotated(r, n)[i] # k
  <2> TAKE i \in 1..Len(r)
  <2>1. PICK j \in 1..Len(r) : Rotated(r, n)[i] = r[j]
    <3>1. i <= Len(r) - n => n + i \in 1..Len(r)
      BY <1>1, <1>2
    <3>2. ~(i <= Len(r) - n) => i - (Len(r) - n) \in 1..Len(r)
      BY <1>1, <1>2
    <3> HIDE DEF r, n
    <3> QED
      BY <1>4, <3>1, <3>2
  <2> QED
    BY <1>1, <2>1
<1>6. /\ \A d \in Caches \ {c} : ring'[d] = ring[d] /\ next'[d] = next[d]
  BY EnterKeeps
<1>7. CASE Len(r) = L
  <2>1. ring'[c] = [r EXCEPT ![n + 1] = k] /\ next'[c] = (n + 1) % L
    BY <1>7 DEF Enter, TypeOK
  <2>2. Rotated([r EXCEPT ![n + 1] = k], (n + 1) % L) = Append(Tail(Rotated(r, n)), k)
    <3>1. Len(r) > 0 /\ n \in 0..(Len(r) - 1)
      BY <1>1, <1>2, <1>7
    <3> HIDE DEF r, n
    <3>2. Rotated([r EXCEPT ![n + 1] = k], (n + 1) % Len(r))
            = Append(Tail(Rotated(r, n)), k)
      BY <1>1, <3>1, FullRing
    <3> QED
      BY <1>7, <3>2
  <2>3. Len(ring'[c]) = L
    BY <1>1, <1>7, <2>1
  <2>4. FillInv'
    BY <1>6, <2>3 DEF FillInv, LimitOf
  <2> QED
    BY <1>3, <1>4, <1>5, <1>6, <1>7, <2>1, <2>2, <2>4 DEF Queue
<1>8. CASE Len(r) # L
  <2>1. ring'[c] = Append(r, k) /\ next'[c] = next[c] /\ n = 0
    BY <1>1, <1>2, <1>8 DEF Enter, TypeOK
  <2>2. Rotated(Append(r, k), 0) = Append(Rotated(r, 0), k)
    BY <1>1, GrowingRing
  <2>3. FillInv'
    BY <1>6, <2>1 DEF FillInv, LimitOf
  <2> QED
    BY <1>3, <1>4, <1>5, <1>6, <1>8, <2>1, <2>2, <2>3 DEF Queue
<1> QED
  BY <1>7, <1>8

\* What a step does to the queues of the two caches: nothing, or one insertion
\* into one of them.
Insertion(c) ==
    \E k \in Keys :
        /\ \A i \in 1..Len(Queue(c)) : Queue(c)[i] # k
        /\ Queue(c)' = Append(IF Len(Queue(c)) = LimitOf(c) THEN Tail(Queue(c))
                              ELSE Queue(c), k)

\* A step leaves the queue of a cache alone or inserts into it as FifoCache does.
LEMMA StepInserts ==
    ASSUME IInv, FillInv, [Next]_vars
    PROVE  /\ \A c \in Caches : Queue(c)' = Queue(c) \/ Insertion(c)
           /\ FillInv'
<1>1. ASSUME UNCHANGED <<ring, next>>
      PROVE  (\A c \in Caches : Queue(c)' = Queue(c)) /\ FillInv'
  BY <1>1 DEF FillInv, Queue, LimitOf
<1>2. ASSUME NEW g \in Goroutines, Store(g)
      PROVE  /\ \A c \in Caches : Queue(c)' = Queue(c) \/ Insertion(c)
             /\ FillInv'
  <2> DEFINE c == CacheFor(stack[g])
             k == Key(stack[g])
  <2>1. stack[g] \in Stacks /\ c \in Caches /\ k \in Keys
    BY <1>2, KeyIsStack, KeyType DEF IInv, WorkInv, Store
  <2>2. CASE k \in DOMAIN entries[c]
    BY <1>1, <1>2, <2>2 DEF Store
  <2>3. CASE k \notin DOMAIN entries[c]
    <3>1. PICK d \in Caches, x \in Keys : d = c /\ x = k
      BY <2>1
    <3>2. x \notin DOMAIN entries[d] /\ Enter(d, x)
      BY <1>2, <2>3, <3>1 DEF Store
    <3>3. /\ \A i \in 1..Len(Queue(d)) : Queue(d)[i] # x
          /\ Queue(d)' = Append(IF Len(Queue(d)) = LimitOf(d) THEN Tail(Queue(d))
                                ELSE Queue(d), x)
          /\ \A e \in Caches \ {d} : Queue(e)' = Queue(e)
          /\ FillInv'
      BY <3>2, EnterInserts DEF IInv
    <3>4. Insertion(d)
      BY <3>3 DEF Insertion
    <3> QED
      BY <3>3, <3>4
  <2> QED
    BY <2>2, <2>3
<1>3. ASSUME NEW g \in Goroutines, NEW s \in Stacks, Capture(g, s)
      PROVE  UNCHANGED <<ring, next>>
  BY <1>3 DEF Capture
<1>4. ASSUME NEW g \in Goroutines, Load(g) \/ Decode(g)
      PROVE  UNCHANGED <<ring, next>>
  BY <1>4 DEF Load, Decode
<1>5. CASE UNCHANGED vars
  BY <1>1, <1>5 DEF vars
<1> QED
  BY <1>1, <1>2, <1>3, <1>4, <1>5 DEF Next

\* Both caches replace their entries in the order of their insertion: the
\* generic frameCache implements a first-in first-out cache of its limit, for
\* every limit, whatever the interleaving of the goroutines that store.
THEOREM InOrder == Spec => ReplacedInOrder
<1>1. Init => Queue("shallow") = <<>> /\ Queue("deep") = <<>>
  <2> SUFFICES ASSUME Init PROVE \A c \in Caches : Queue(c) = <<>>
    BY DEF Caches
  <2> TAKE c \in Caches
  <2>1. ring[c] = <<>> /\ next[c] = 0
    BY DEF Init
  <2>2. Queue(c) = Rotated(<<>>, 0)
    BY <2>1 DEF Queue, Rotated
  <2>3. <<>> \in Seq(Keys) /\ Len(<<>>) = 0 /\ 0 \in 0..0
    OBVIOUS
  <2>4. Rotated(<<>>, 0) \in Seq(Keys) /\ Len(Rotated(<<>>, 0)) = 0
    BY <2>3, RotatedItems
  <2> QED
    BY <2>2, <2>4
<1>2. IInv /\ FillInv /\ [Next]_vars
        => /\ FillInv'
           /\ [Shallow!Next]_(Queue("shallow"))
           /\ [Deep!Next]_(Queue("deep"))
  <2> SUFFICES ASSUME IInv, FillInv, [Next]_vars
               PROVE  /\ FillInv'
                      /\ [Shallow!Next]_(Queue("shallow"))
                      /\ [Deep!Next]_(Queue("deep"))
    OBVIOUS
  <2>1. /\ \A c \in Caches : Queue(c)' = Queue(c) \/ Insertion(c)
        /\ FillInv'
    BY StepInserts
  <2>2. Insertion("shallow") => Shallow!Next
    BY DEF Insertion, Shallow!Next, Shallow!Insert, Shallow!Cached, LimitOf
  <2>3. Insertion("deep") => Deep!Next
    BY DEF Insertion, Deep!Next, Deep!Insert, Deep!Cached, LimitOf
  <2> QED
    BY <2>1, <2>2, <2>3 DEF Caches
<1>3. Init => Shallow!Init /\ Deep!Init
  BY <1>1 DEF Shallow!Init, Deep!Init
<1> QED
  BY <1>2, <1>3, Invariance, FillInitially, PTL
     DEF Spec, ReplacedInOrder, Shallow!Spec, Deep!Spec

=============================================================================
