------------------------------ MODULE MCLocking ------------------------------
EXTENDS LockingClient, TLC
Symmetry == Permutations(Thread) \cup Permutations(Monitor)
=============================================================================
