------------------------------- MODULE MCVfs -------------------------------
EXTENDS Vfs, TLC

\* A name in the root, one in a directory, a way back up, and one that ends there.
MCPath == {<<"d">>, <<"d", "f">>, <<"d", "..", "d">>, <<"d", "..">>}

Symmetry == Permutations(Thread) \cup Permutations(Entry \ {RootEntry})
              \cup Permutations(Node \ {RootNode})
=============================================================================
