----------------------------- MODULE StackCache -----------------------------
(***************************************************************************)
(* The stack-trace caches of a running Ghi program: CaptureStack and the   *)
(* generic frameCache of the runtime that internal/compiler/               *)
(* runtime_emit.go emits into every generated program.                     *)
(*                                                                         *)
(* Goroutines that throw share two caches of decoded stacks, each a map    *)
(* with a ring of its keys and a sync.RWMutex; a critical section is one   *)
(* action, as the mutex makes it, and decoding happens between two of      *)
(* them.  A stack is its sequence of PCs; what walkStack makes of a        *)
(* sequence of PCs is represented by that sequence.                        *)
(***************************************************************************)
EXTENDS Naturals, Sequences

CONSTANTS
    Goroutines,
    Stacks,          \* the stacks a program throws from, sequences of PCs
    ShallowSize,     \* len(stackKey.pcs), 64
    DeepSize,        \* len(deepStackKey.pcs), 256
    ShallowLimit,    \* entries of stackCache, 128
    DeepLimit,       \* entries of deepStackCache, 16
    Nothing          \* no stack, no key, no data

ASSUME ConstantsAssumption ==
    /\ ShallowSize \in Nat \ {0} /\ DeepSize \in Nat
    /\ ShallowSize <= DeepSize
    /\ ShallowLimit \in Nat \ {0} /\ DeepLimit \in Nat \ {0}
    /\ \A s \in Stacks : s \in Seq(Nat) /\ s # <<>>
    /\ Nothing \notin Stacks

VARIABLES
    entries,         \* entries[c]: the map of cache c
    ring,            \* ring[c]: the slice keys of cache c
    next,            \* next[c]: where the next eviction happens
    pc,              \* where a goroutine is in CaptureStack
    stack,           \* the stack it throws from
    data             \* what it has decoded, or what CaptureStack returned

vars == <<entries, ring, next, pc, stack, data>>

Caches == {"shallow", "deep"}
LimitOf(c) == IF c = "shallow" THEN ShallowLimit ELSE DeepLimit

\* runtime.Callers fills at most the whole buffer.
Count(s) == IF Len(s) < DeepSize THEN Len(s) ELSE DeepSize
Key(s) == SubSeq(s, 1, Count(s))
Keys == {Key(s) : s \in Stacks}

\* Mutant: a stack that may have been cut at the end of the buffer is cached.
CacheFor_CachesCut(s) == IF Count(s) < ShallowSize THEN "shallow" ELSE "deep"

\* The two comparisons of CaptureStack.
CacheFor(s) ==
    IF Count(s) < ShallowSize THEN "shallow"
    ELSE IF Count(s) < DeepSize THEN "deep"
    ELSE "none"

-----------------------------------------------------------------------------

Init ==
    /\ entries = [c \in Caches |-> [k \in {} |-> Nothing]]
    /\ ring = [c \in Caches |-> <<>>]
    /\ next = [c \in Caches |-> 0]
    /\ pc = [g \in Goroutines |-> "idle"]
    /\ stack = [g \in Goroutines |-> Nothing]
    /\ data = [g \in Goroutines |-> Nothing]

\* CaptureStack: the PCs are read into the key; a stack that fills the buffer
\* is captured without the caches, in buffers that grow until it fits.
Capture(g, s) ==
    /\ pc[g] = "idle"
    /\ stack' = [stack EXCEPT ![g] = s]
    /\ IF CacheFor(s) = "none"
         THEN /\ data' = [data EXCEPT ![g] = s]
              /\ UNCHANGED pc
         ELSE /\ data' = [data EXCEPT ![g] = Nothing]
              /\ pc' = [pc EXCEPT ![g] = "load"]
    /\ UNCHANGED <<entries, ring, next>>

\* load, or the read section of cachedStack.
Load(g) ==
    /\ pc[g] = "load"
    /\ LET c == CacheFor(stack[g])
           k == Key(stack[g])
       IN  IF k \in DOMAIN entries[c]
             THEN /\ data' = [data EXCEPT ![g] = entries[c][k]]
                  /\ pc' = [pc EXCEPT ![g] = "idle"]
             ELSE /\ pc' = [pc EXCEPT ![g] = "decode"]
                  /\ UNCHANGED data
    /\ UNCHANGED <<entries, ring, next, stack>>

\* decodeStack and decodeDeepStack, outside the lock.
Decode(g) ==
    /\ pc[g] = "decode"
    /\ data' = [data EXCEPT ![g] = Key(stack[g])]
    /\ pc' = [pc EXCEPT ![g] = "store"]
    /\ UNCHANGED <<entries, ring, next, stack>>

\* A full ring gives up the entry under next, another one grows.
Evicted(c) ==
    IF Len(ring[c]) = LimitOf(c) THEN {ring[c][next[c] + 1]} ELSE {}

\* Mutant: the eviction slot never moves.
Enter_SameSlot(c, k) ==
    IF Len(ring[c]) = LimitOf(c)
      THEN ring' = [ring EXCEPT ![c][next[c] + 1] = k] /\ UNCHANGED next
      ELSE ring' = [ring EXCEPT ![c] = Append(@, k)] /\ UNCHANGED next

Enter(c, k) ==
    IF Len(ring[c]) = LimitOf(c)
      THEN /\ ring' = [ring EXCEPT ![c][next[c] + 1] = k]
           /\ next' = [next EXCEPT ![c] = (@ + 1) % LimitOf(c)]
      ELSE /\ ring' = [ring EXCEPT ![c] = Append(@, k)]
           /\ UNCHANGED next

\* Mutant: store trusts the lookup made before decoding.
Store_NoSecondLook(g) ==
    /\ pc[g] = "store"
    /\ LET c == CacheFor(stack[g])
           k == Key(stack[g])
       IN  /\ Enter(c, k)
           /\ entries' = [entries EXCEPT ![c] =
                 [x \in ((DOMAIN @) \ Evicted(c)) \cup {k} |->
                     IF x = k THEN data[g] ELSE @[x]]]
    /\ pc' = [pc EXCEPT ![g] = "idle"]
    /\ UNCHANGED <<stack, data>>

\* store, under the write lock: another goroutine may have been faster.
Store(g) ==
    /\ pc[g] = "store"
    /\ LET c == CacheFor(stack[g])
           k == Key(stack[g])
       IN  IF k \in DOMAIN entries[c]
             THEN /\ data' = [data EXCEPT ![g] = entries[c][k]]
                  /\ UNCHANGED <<entries, ring, next>>
             ELSE /\ Enter(c, k)
                  /\ entries' = [entries EXCEPT ![c] =
                        [x \in ((DOMAIN @) \ Evicted(c)) \cup {k} |->
                            IF x = k THEN data[g] ELSE @[x]]]
                  /\ UNCHANGED data
    /\ pc' = [pc EXCEPT ![g] = "idle"]
    /\ UNCHANGED stack

Next ==
    \E g \in Goroutines :
        \/ \E s \in Stacks : Capture(g, s)
        \/ Load(g) \/ Decode(g) \/ Store(g)

Spec == Init /\ [][Next]_vars

-----------------------------------------------------------------------------
(* Properties.                                                             *)

\* Types; the next eviction is always at a slot of the ring.
TypeOK ==
    /\ DOMAIN entries = Caches
    /\ \A c \in Caches :
        /\ DOMAIN entries[c] \subseteq Keys
        /\ entries[c] \in [DOMAIN entries[c] -> Keys]
        /\ next[c] < LimitOf(c)
    /\ ring \in [Caches -> Seq(Keys)]
    /\ next \in [Caches -> Nat]
    /\ pc \in [Goroutines -> {"idle", "load", "decode", "store"}]
    /\ stack \in [Goroutines -> Stacks \cup {Nothing}]
    /\ data \in [Goroutines -> Stacks \cup Keys \cup {Nothing}]

\* The ring and the map of a cache never disagree: every cached key is in the
\* ring, once, and nothing else is, so eviction neither leaks an entry nor
\* removes one twice, and the map never outgrows its limit.
RingMatchesMap ==
    \A c \in Caches :
        /\ Len(ring[c]) <= LimitOf(c)
        /\ DOMAIN entries[c] = {ring[c][i] : i \in 1..Len(ring[c])}
        /\ \A i, j \in 1..Len(ring[c]) : ring[c][i] = ring[c][j] => i = j

\* A trace is that of the stack it was thrown from, complete, whatever other
\* goroutines have cached or evicted meanwhile: no other stack that agrees on
\* a prefix, and no truncated one.
TraceIsOwn ==
    \A g \in Goroutines :
        pc[g] = "idle" /\ stack[g] # Nothing => data[g] = stack[g]

-----------------------------------------------------------------------------
(* Refinement.                                                             *)

\* Oldest first: the slots from next on, then those before it.
Queue(c) == SubSeq(ring[c], next[c] + 1, Len(ring[c])) \o SubSeq(ring[c], 1, next[c])

Shallow == INSTANCE FifoCache WITH Capacity <- ShallowLimit, queue <- Queue("shallow")
Deep == INSTANCE FifoCache WITH Capacity <- DeepLimit, queue <- Queue("deep")

\* Entries are replaced in the order of their insertion.
ReplacedInOrder == Shallow!Spec /\ Deep!Spec
=============================================================================
