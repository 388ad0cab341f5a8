-------------------------- MODULE MCExceptionFlow --------------------------
EXTENDS ExceptionFlow

CONSTANT MaxSteps    \* growth steps of the bodies of few kinds of statements

\* A growth step adds two levels at most: a handler in a try.
Levels == 2 * MaxSteps

AllLeaves == {Emit("a"), Bump, Return(1), Throw("mine"), Throw("other"), Throw("fault"),
    Defer("d"), Branch("break", ""), Branch("continue", ""), Branch("break", "L"),
    Branch("continue", "L")}

\* A narrow and a wide catch.
Types == {{"mine"}, Raised}

\* Every simple statement in small bodies; and exceptions and jumps out of deeply nested
\* blocks, with something to print, or with returns of different values, on the way.
Wide == [leaf |-> AllLeaves, filler |-> {Emit("b"), Return(3), Branch("break", "")},
         types |-> Types, steps |-> MaxSteps - 1, named |-> TRUE]
Unnamed == [leaf |-> {Return(1), Throw("mine"), Throw("fault"), Defer("d"),
                      Branch("continue", "")},
            filler |-> {Emit("b"), Return(3), Throw("mine")}, types |-> Types,
            steps |-> MaxSteps - 1, named |-> FALSE]
Deep == [leaf |-> {Throw("mine"), Branch("continue", "L")},
         filler |-> {Emit("b"), Return(3)}, types |-> Types, steps |-> MaxSteps,
         named |-> FALSE]
Twice == [leaf |-> {Throw("mine")}, filler |-> {Return(3), Return(4)}, types |-> Types,
          steps |-> MaxSteps, named |-> FALSE]
WideAndDeep == {Wide, Unnamed, Deep, Twice}

\* Returns in functions with a named result.
Few == {[leaf |-> {Return(2)}, filler |-> {Emit("b")}, types |-> Types, steps |-> MaxSteps,
         named |-> TRUE]}
=============================================================================
