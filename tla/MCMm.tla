-------------------------------- MODULE MCMm --------------------------------
(***************************************************************************)
(* Three parts of the behaviours of the address spaces: copy on write      *)
(* among threads that map, write, fork and exit, all in one page; exec     *)
(* beside fork; one thread that maps and unmaps areas of several pages.    *)
(***************************************************************************)
EXTENDS Exec, TLC

\* Programs whose segment begins and ends on page boundaries, only begins on
\* one, only ends on one, one that needs nothing from the file, and one of two
\* segments.
MCProgram ==
  {<<[begin |-> 0, memsz |-> 2, filesz |-> 2, write |-> FALSE]>>,
   <<[begin |-> 0, memsz |-> 1, filesz |-> 1, write |-> FALSE]>>,
   <<[begin |-> 1, memsz |-> 1, filesz |-> 1, write |-> TRUE]>>,
   <<[begin |-> 0, memsz |-> 2, filesz |-> 0, write |-> FALSE]>>,
   <<[begin |-> 0, memsz |-> 2, filesz |-> 1, write |-> FALSE],
     [begin |-> 4, memsz |-> 1, filesz |-> 1, write |-> TRUE]>>}

VARIABLE part

OnePage == {[begin |-> 0, end |-> PAGE_SIZE, write |-> TRUE]}

MCInit == part \in {"cow", "exec", "areas"} /\ Init

MCNext ==
  /\ ~raced
  /\ \/ /\ part = "cow"
        /\ Slabs \/ \E m \in MM : MmStep(m)
        /\ \A m \in MM : vma'[m] \subseteq OnePage
     \/ /\ part = "exec"
        /\ \E m \in MM : WriteStep(m) \/ FaultStep(m) \/ ForkStep(m) \/ ReleaseStep(m) \/ ExecStep(m)
     \/ /\ part = "areas"
        /\ Slabs \/ \E m \in MM : MapStep(m) \/ WriteStep(m) \/ FaultStep(m) \/ ReleaseStep(m)
  /\ UNCHANGED part

MCSpec == MCInit /\ [][MCNext]_<<part, mmvars>>

Symmetry == Permutations(Page \ {ZeroPage}) \cup Permutations(MM)
=============================================================================
