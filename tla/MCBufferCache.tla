---------------------------- MODULE MCBufferCache ----------------------------
EXTENDS BufferCache, TLC

Symmetry == Permutations(Procs) \cup Permutations(Keys)
=============================================================================
