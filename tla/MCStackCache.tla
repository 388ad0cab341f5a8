---------------------------- MODULE MCStackCache ----------------------------
(* Small instances of StackCache.                                           *)
EXTENDS StackCache

CONSTANTS g1, g2

\* With buffers of 3 and 4 PCs: three shallow stacks, two deep ones, and two
\* that fill the deep buffer with the same PCs and differ after it.
MCStacks == {<<1>>, <<2>>, <<1, 2>>,
             <<1, 2, 1>>, <<2, 2, 1>>,
             <<1, 2, 1, 1>>, <<1, 2, 1, 1, 2>>}
=============================================================================
