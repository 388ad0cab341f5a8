------------------------- MODULE ExceptionSemantics -------------------------
(***************************************************************************)
(* What a function body does when it runs: the statements of a Ghi         *)
(* function with try as the language defines it, and the statements that   *)
(* internal/compiler/control_flow.go makes of them, which run as Go.       *)
(*                                                                         *)
(* A statement is a record whose op tells what else it holds; a block is   *)
(* a statement and the rest of the block.  Conditions are reduced to "the  *)
(* first iteration of the innermost loop", loops to two iterations, and    *)
(* results to one: x, when the result is named.                            *)
(***************************************************************************)
EXTENDS Integers, Sequences, SequencesExt

CONSTANTS Raised,   \* Ghi exceptions; "fault" is a Go runtime panic
          Printed,  \* what a statement or a deferred call prints
          Label     \* labels of loops and switches; "" is none

ASSUME RaisedAssumption == Raised \cap {"none", "fault", "unreachable"} = {}
ASSUME LabelAssumption == "" \in Label

Exceptions == Raised \cup {"none", "fault", "unreachable"}

None              == [op |-> "none"]        \* no handler or finalizer; an empty block
Emit(id)          == [op |-> "emit", id |-> id]
Bump              == [op |-> "bump"]                    \* x++
Return(v)         == [op |-> "return", value |-> v]
Branch(tok, l)    == [op |-> "branch", tok |-> tok, label |-> l]
Throw(e)          == [op |-> "throw", exc |-> e]
Defer(id)         == [op |-> "defer", id |-> id]
Then(st, rest)    == [op |-> "then", first |-> st, rest |-> rest]
If(body)          == [op |-> "if", body |-> body]       \* in the first iteration
Shadow(body)      == [op |-> "shadow", body |-> body]   \* { x := 0; use(x); body }
Loop(l, body)     == [op |-> "loop", label |-> l, body |-> body]
Switch(l, body)   == [op |-> "switch", label |-> l, body |-> body]
\* The chain of typed catches; an exception none of them takes is thrown again.
Catch(types, body) == [op |-> "catch", types |-> types, body |-> body]
Try(body, handler, finalizer) ==
    [op |-> "try", body |-> body, handler |-> handler, finalizer |-> finalizer]

\* The statements of at most n levels, those of emitted code included.
Simple ==
         [op : {"none", "bump", "pass", "exit", "returnSlots", "unreachable"}]
    \cup [op : {"emit", "defer"}, id : Printed]
    \cup [op : {"return", "assign"}, value : Int]
    \cup [op : {"branch"}, tok : {"break", "continue"}, label : Label]
    \cup [op : {"throw"}, exc : Exceptions]
    \cup [op : {"signal"}, code : Nat]

Compound(S) ==
         [op : {"then"}, first : S, rest : S]
    \cup [op : {"if", "shadow", "guarded"}, body : S]
    \cup [op : {"loop", "switch"}, label : Label, body : S]
    \cup [op : {"catch"}, types : SUBSET Raised, body : S]
    \cup [op : {"test"}, code : Nat, body : S]
    \cup [op : {"try", "Try"}, body : S, handler : S, finalizer : S]

Statement[n \in Nat] == IF n = 0 THEN Simple ELSE Simple \cup Compound(Statement[n - 1])

\* The state of a running function. kind tells how the last statement completed:
\* "next", or abruptly; "illegal" is a branch out of a Go closure.
Kinds == {"next", "break", "continue", "return", "throw", "illegal"}

State == [named      : BOOLEAN,     \* does the function name its result?
          kind       : Kinds,
          label      : Label,
          exc        : Exceptions,
          value      : Int,
          trace      : Seq(Printed),\* what was printed
          result     : Int,         \* the named result
          shadow     : Int,         \* the innermost variable that shadows it
          shadowed   : BOOLEAN,     \* is there one?
          iter       : Nat,         \* iteration of the innermost loop
          caught     : Exceptions,      \* ghi_caught
          defers     : Seq(Printed), \* deferred calls of the running Go function
          registered : Seq(Printed), \* ghi_defers
          flow       : Nat,         \* ghi_flow
          slot       : Int,         \* ghi_return_0
          routed     : BOOLEAN,     \* are defers registered in ghi_defers?
          lost       : BOOLEAN]     \* was a pending return abandoned?

Fresh(named, routed) ==
    [named |-> named, kind |-> "next", label |-> "", exc |-> "none", value |-> 0,
     trace |-> <<>>, result |-> 0, shadow |-> 0, shadowed |-> FALSE, iter |-> 1,
     caught |-> "none", defers |-> <<>>, registered |-> <<>>, flow |-> 0, slot |-> 0,
     routed |-> routed, lost |-> FALSE]

Visible(s) == IF s.shadowed THEN s.shadow ELSE s.result
SetVisible(s, v) == IF s.shadowed THEN [s EXCEPT !.shadow = v] ELSE [s EXCEPT !.result = v]
Completes(s, kind) == [s EXCEPT !.kind = kind]
Throws(s, e) == [s EXCEPT !.kind = "throw", !.exc = e]
Returns(s, v) ==
    [s EXCEPT !.kind = "return", !.value = v, !.result = IF s.named THEN v ELSE @]
\* Does s leave the loop or switch of this label by this kind of branch?
Takes(s, kind, label) == s.kind = kind /\ s.label \in {"", label}

-----------------------------------------------------------------------------
(* run is the function that runs the statements inside a statement.        *)

Shadowing(run, st, s) ==
    LET r == run[<<st.body, [s EXCEPT !.shadowed = TRUE, !.shadow = 0]>>] IN
    [r EXCEPT !.shadowed = s.shadowed, !.shadow = s.shadow]

Iteration(run, st, i, s) ==
    LET r == run[<<st.body, [s EXCEPT !.iter = i]>>] IN
    IF Takes(r, "continue", st.label) THEN Completes(r, "next") ELSE r

Breaks(r, st) == IF Takes(r, "break", st.label) THEN Completes(r, "next") ELSE r

Looping(run, st, s) ==
    LET one == Iteration(run, st, 1, s)
        two == IF one.kind = "next" THEN Iteration(run, st, 2, one) ELSE one
    IN  [Breaks(two, st) EXCEPT !.iter = s.iter]

\* A try whose try block and handler have completed as r: the finalizer runs, and only
\* then r takes effect; an abrupt completion of the finalizer replaces a pending jump,
\* but an exception in flight gives way to another exception only.
Finally(run, st, r) ==
    LET f == run[<<st.finalizer, Completes(r, "next")>>]
        abandoned == IF r.kind = "throw" THEN f.kind = "return"
                     ELSE r.kind = "return" /\ f.kind # "next"
        g == [f EXCEPT !.lost = @ \/ abandoned]
    IN  IF f.kind = "next" \/ (r.kind = "throw" /\ f.kind # "throw")
        THEN [g EXCEPT !.kind = r.kind, !.label = r.label, !.exc = r.exc, !.value = r.value]
        ELSE g

Trying(run, st, s) ==
    LET body == run[<<st.body, s>>]
        caught == body.kind = "throw" /\ body.exc \in Raised /\ st.handler # None
    IN  Finally(run, st, IF ~caught THEN body ELSE
            run[<<st.handler, [body EXCEPT !.kind = "next", !.caught = body.exc]>>])

\* A Go closure: its return is not the caller's, and it runs its own deferred calls.
\* A branch cannot leave it, Go rejects that.
CallClosure(run, block, s) ==
    LET r == run[<<block, [s EXCEPT !.defers = <<>>]>>] IN
    [r EXCEPT !.kind = CASE @ = "return" -> "next"
                         [] @ \in {"break", "continue"} -> "illegal"
                         [] OTHER -> @,
              !.trace = @ \o Reverse(r.defers),
              !.defers = s.defers]

\* The runtime's Try: the handler recovers Ghi exceptions only, the finalizer is
\* deferred before it and so runs after it, and a panic goes on after the finalizer.
CallTry(run, st, s) ==
    LET body == CallClosure(run, st.body, s)
        caught == body.kind = "throw" /\ body.exc \in Raised /\ st.handler # None
        handled == IF ~caught THEN body ELSE CallClosure(run, st.handler,
                            [body EXCEPT !.kind = "next", !.caught = body.exc])
        f == CallClosure(run, st.finalizer, Completes(handled, "next"))
    IN  IF f.kind = "next" THEN [f EXCEPT !.kind = handled.kind, !.exc = handled.exc] ELSE f

\* The emitted finalizer: the signal is put by, and restored by a deferred function,
\* also after a panic, unless the finalizer signals itself.
Guarded(run, st, s) ==
    LET r == run[<<st.body, [s EXCEPT !.flow = 0]>>] IN
    [r EXCEPT !.flow = IF @ = 0 THEN s.flow ELSE @]

Do(run, st, s) ==
    CASE st.op = "none"   -> s
      [] st.op = "then"   -> LET r == run[<<st.first, s>>] IN
                             IF r.kind = "next" THEN run[<<st.rest, r>>] ELSE r
      [] st.op = "emit"   -> [s EXCEPT !.trace = Append(@, st.id)]
      [] st.op = "bump"   -> SetVisible(s, Visible(s) + 1)
      [] st.op = "return" -> Returns(s, st.value)
      [] st.op = "branch" -> [s EXCEPT !.kind = st.tok, !.label = st.label]
      [] st.op = "throw"  -> Throws(s, st.exc)
      [] st.op = "defer"  -> IF s.routed THEN [s EXCEPT !.registered = Append(@, st.id)]
                             ELSE [s EXCEPT !.defers = Append(@, st.id)]
      [] st.op = "if"     -> IF s.iter = 1 THEN run[<<st.body, s>>] ELSE s
      [] st.op = "shadow" -> Shadowing(run, st, s)
      [] st.op = "loop"   -> Looping(run, st, s)
      [] st.op = "switch" -> Breaks(run[<<st.body, s>>], st)
      [] st.op = "catch"  -> IF s.caught \in st.types THEN run[<<st.body, s>>]
                             ELSE Throws(s, s.caught)
      [] st.op = "try"    -> Trying(run, st, s)
      \* The rest is emitted code only.
      [] st.op = "signal" -> [s EXCEPT !.flow = st.code]
      [] st.op = "test"   -> IF s.flow = st.code THEN run[<<st.body, s>>] ELSE s
      [] st.op = "pass"   -> IF s.flow # 0 THEN Completes(s, "return") ELSE s
      [] st.op = "exit"   -> Completes(s, "return")
      [] st.op = "assign" -> IF s.named THEN SetVisible(s, st.value)
                             ELSE [s EXCEPT !.slot = st.value]
      [] st.op = "returnSlots" -> Returns(s, IF s.named THEN Visible(s) ELSE s.slot)
      [] st.op = "Try"    -> CallTry(run, st, s)
      [] st.op = "guarded" -> Guarded(run, st, s)
      [] st.op = "unreachable" -> Throws(s, "unreachable")

\* What a statement of at most n levels makes of a state.
Running[n \in Nat] ==
    [x \in Statement[n] \X State |->
        Do(IF n = 0 THEN <<>> ELSE Running[n - 1], x[1], x[2])]

\* How a call of the function ends for its caller, and what it has printed by then.
Outcome(r) ==
    [how   |-> CASE r.kind \in {"next", "return"} -> "returned"
                 [] r.kind = "throw" -> r.exc
                 [] OTHER -> r.kind,
     value |-> IF r.kind \notin {"next", "return"} THEN 0
               ELSE IF r.named THEN r.result
               ELSE IF r.kind = "return" THEN r.value ELSE 0,
     trace |-> r.trace \o Reverse(r.defers) \o Reverse(r.registered)]
=============================================================================
