---------------------------- MODULE MCKmemCache ----------------------------
\* Symmetry of KmemCache for TLC.
EXTENDS KmemCache, TLC

Symmetric == Permutations(Slabs) \cup Permutations(Callers)
=============================================================================
