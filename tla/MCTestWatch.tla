---------------------------- MODULE MCTestWatch ----------------------------
EXTENDS TestWatch
=============================================================================
