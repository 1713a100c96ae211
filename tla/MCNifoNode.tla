----------------------------- MODULE MCNifoNode -----------------------------
EXTENDS NifoNode

NodeSymmetry == Permutations(Entries)
=============================================================================
