---------------------------- MODULE MCToolchain ----------------------------
EXTENDS Toolchain

CONSTANTS c1, c2

MCVersion == 1 .. 2
\* Release 1 is of an older Go branch than the compiler of c2.
MCSupported == [c \in Call |-> IF c = c1 THEN {1, 2} ELSE {2}]
=============================================================================
