------------------------------ MODULE MCThreads ------------------------------
EXTENDS Threads, TLC
Symmetry == Permutations(Thread)
=============================================================================
