------------------------------ MODULE GoShelf ------------------------------
(***************************************************************************)
(* What the toolchain manager promises to the rest of the compiler: a      *)
(* shelf of managed Go toolchains, one place per version.  A version is    *)
(* put on the shelf complete or not at all, by the call that needed it;    *)
(* what is on the shelf is never exchanged by a call; and a call is only   *)
(* ever answered with a version its compiler supports and that is there.   *)
(***************************************************************************)
EXTENDS Integers

CONSTANTS Call,       \* calls of Ensure
          Version,    \* Go releases, natural numbers
          Supported   \* Supported[c]: the releases the compiler of call c can use

VARIABLES shelf,      \* shelf[v] in {"absent", "whole", "damaged"}
          answer      \* answer[c]: a version, or one of the three below

Undecided == -1
Failed == -2
System == -3

vars == <<shelf, answer>>

Init == /\ shelf \in [Version -> {"absent", "whole"}]
        /\ answer = [c \in Call |-> Undecided]

Decide(c, a) == answer[c] = Undecided /\ answer' = [answer EXCEPT ![c] = a]

\* The call finds its version on the shelf.
Reuse(c) == \E v \in Supported[c] :
    shelf[v] # "absent" /\ Decide(c, v) /\ UNCHANGED shelf

\* The call puts a complete toolchain on an empty place, and has its answer.
Stock(c) == \E v \in Supported[c] :
    /\ shelf[v] = "absent"
    /\ shelf' = [shelf EXCEPT ![v] = "whole"]
    /\ Decide(c, v)

\* The call needs no shelf, or ends without a toolchain.
Decline(c) == \E a \in {System, Failed} : Decide(c, a) /\ UNCHANGED shelf

\* Somebody outside the compiler damages or removes a toolchain.
Harm == \E v \in Version, h \in {"absent", "damaged"} :
    shelf[v] # "absent" /\ shelf' = [shelf EXCEPT ![v] = h] /\ UNCHANGED answer

Next == Harm \/ \E c \in Call : Reuse(c) \/ Stock(c) \/ Decline(c)

Spec == Init /\ [][Next]_vars
=============================================================================
