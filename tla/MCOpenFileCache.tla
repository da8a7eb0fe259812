--------------------------- MODULE MCOpenFileCache ---------------------------
EXTENDS OpenFileCache, TLC

Symmetry == Permutations(Reqs) \cup Permutations(Names)
=============================================================================
