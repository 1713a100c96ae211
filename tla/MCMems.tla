------------------------------- MODULE MCMems -------------------------------
EXTENDS Mems, TLC

ProcSymmetry == Permutations(Procs)
=============================================================================
