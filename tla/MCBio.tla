-------------------------------- MODULE MCBio --------------------------------
EXTENDS Bio, TLC
Symmetry == Permutations(Client) \cup Permutations(Bio)
=============================================================================
