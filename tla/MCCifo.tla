------------------------------- MODULE MCCifo -------------------------------
EXTENDS CifoFifo, TLC

NodeSymmetry == Permutations(Entries) \cup Permutations(Writers)
=============================================================================
