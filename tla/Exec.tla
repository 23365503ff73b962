-------------------------------- MODULE Exec --------------------------------
(***************************************************************************)
(* exec (exec.c) on top of the address spaces: a new one is built from the *)
(* program's segments, step by step and with a failure possible at each,   *)
(* and takes the place of the old one at the end.                          *)
(***************************************************************************)
EXTENDS Mm

CONSTANTS Program,    \* the programs: sequences of PT_LOAD headers,
                      \* [begin, memsz, filesz, write] with begin in bytes
          StackPage   \* the page of the stack

Phdr == [begin : Nat, memsz : Nat, filesz : Nat, write : BOOLEAN]

(* The programs are well formed, which load_binary relies on and does not  *)
(* check: a segment takes no more bytes from the file than it has in       *)
(* memory, and it lies in the user part of the address space.              *)
ASSUME ExecAssumption ==
  /\ Program \subseteq Seq(Phdr)
  /\ \A prog \in Program : \A i \in 1..Len(prog) :
       /\ prog[i].filesz <= prog[i].memsz
       /\ (prog[i].begin + prog[i].memsz) \div PAGE_SIZE \in Addr
  /\ StackPage \in Addr

FileData == 1  \* the contents of a page read from the file
ArgData == 1   \* and of the page copy_args fills

Execing(m, stage) == op[m].kind = "exec" /\ op[m].stage = stage

(* exec fails: release_mm of the new address space, and an error code.     *)
Fail(m) == Goto(m, [kind |-> "release", mm |-> op[m].new])

(* The file has been opened and its header checked; create_mm.             *)
exec(m, new) ==
  /\ op[m] = Running /\ op[new] = Unused
  /\ \E prog \in Program :
       op' = [op EXCEPT ![new] = Private,
                ![m] = [kind |-> "exec", stage |-> "stack", new |-> new, prog |-> prog,
                        addr |-> 0, offset |-> 0, remain |-> 0]]
  /\ val' = [val EXCEPT ![new] = [a \in Addr |-> 0]]
  /\ UNCHANGED <<vma, pte, refcount, free, content, raced, base>>

setup_stack(m) ==
  /\ Execing(m, "stack")
  /\ Mmap(op[m].new, StackPage * PAGE_SIZE, (StackPage + 1) * PAGE_SIZE, TRUE)
  /\ Goto(m, [op[m] EXCEPT !.stage = "args"])
  /\ UNCHANGED <<pte, refcount, free, content, raced, val, base>>

(* A page is allocated, filled and mapped; its count starts at 0 and       *)
(* nobody else knows the page.                                             *)
MapNewPage(m, p, a, write, x) ==
  /\ refcount' = [refcount EXCEPT ![p] = 1]
  /\ base' = [base EXCEPT ![p] = 0]
  /\ free' = free \ {p}
  /\ content' = [content EXCEPT ![p] = x]
  /\ pte' = [pte EXCEPT ![m][a] = [page |-> p, write |-> write]]
  /\ val' = [val EXCEPT ![m][a] = x]

copy_args(m) ==
  /\ Execing(m, "args")
  /\ \E p \in free : MapNewPage(op[m].new, p, StackPage, TRUE, ArgData)
  /\ Goto(m, [op[m] EXCEPT !.stage = "segment"])
  /\ UNCHANGED <<vma, raced>>

(* map_elf_phdr up to its loop.                                            *)
load_binary(m) ==
  LET f == op[m]
      phdr == Head(f.prog)
  IN  /\ Execing(m, "segment") /\ f.prog # << >>
      /\ Mmap(f.new, phdr.begin, phdr.begin + phdr.memsz, phdr.write)
      /\ Goto(m, [f EXCEPT !.stage = "load", !.addr = phdr.begin \div PAGE_SIZE,
                           !.offset = phdr.begin % PAGE_SIZE, !.remain = phdr.filesz])
      /\ UNCHANGED <<pte, refcount, free, content, raced, val, base>>

(* One turn of its loop, and the end of it.                                *)
map_elf_phdr(m) ==
  LET f == op[m]
      size == Min({f.remain, PAGE_SIZE - f.offset})
  IN  /\ Execing(m, "load") /\ f.remain > 0
      /\ \E p \in free : MapNewPage(f.new, p, f.addr, Head(f.prog).write, FileData)
      /\ Goto(m, [f EXCEPT !.addr = @ + 1, !.offset = 0, !.remain = @ - size])
      /\ UNCHANGED <<vma, raced>>

SegmentLoaded(m) ==
  /\ Execing(m, "load") /\ op[m].remain = 0
  /\ Goto(m, [op[m] EXCEPT !.stage = "segment", !.prog = Tail(@)])
  /\ UNCHANGED <<Memory, raced>>

(* No memory, or the file cannot be read: the segment is unmapped first,   *)
(* with the begin and end of the header, then the new address space is     *)
(* released.  The assertion of __munmap_pages wants an aligned begin.      *)
LoadFails(m) ==
  LET f == op[m]
      phdr == Head(f.prog)
  IN  /\ Execing(m, "load") /\ f.remain > 0
      /\ \/ /\ phdr.begin % PAGE_SIZE = 0
            /\ Munmap(f.new, phdr.begin, phdr.begin + phdr.memsz)
            /\ Fail(m)
            /\ UNCHANGED <<content, raced, base>>
         \/ /\ phdr.begin % PAGE_SIZE # 0
            /\ Goto(m, [kind |-> "stuck"])
            /\ UNCHANGED <<Memory, raced>>

(* Any other step fails: __mmap, copy_args, vfs_seek or a header's read.   *)
ExecFails(m) ==
  /\ op[m].kind = "exec" /\ op[m].stage \in {"stack", "args", "segment"}
  /\ Fail(m)
  /\ UNCHANGED <<Memory, raced>>

\* Mutant: the old address space is dropped and not released.
ExecDone_KeepsOld(m) ==
  /\ Execing(m, "segment") /\ op[m].prog = << >>
  /\ op' = [op EXCEPT ![op[m].new] = Running, ![m] = Unused]
  /\ UNCHANGED <<Memory, raced>>

(* The thread switches to the new address space and releases the old one.  *)
ExecDone(m) ==
  /\ Execing(m, "segment") /\ op[m].prog = << >>
  /\ op' = [op EXCEPT ![op[m].new] = [kind |-> "release", mm |-> m], ![m] = Private]
  /\ UNCHANGED <<Memory, raced>>

ExecStep(m) ==
  \/ \E new \in MM : exec(m, new)
  \/ setup_stack(m) \/ copy_args(m) \/ load_binary(m) \/ map_elf_phdr(m)
  \/ SegmentLoaded(m) \/ LoadFails(m) \/ ExecFails(m) \/ ExecDone(m)

Next == ~raced /\ ((\E m \in MM : MmStep(m) \/ ExecStep(m)) \/ Slabs)

Spec == Init /\ [][Next]_mmvars

-----------------------------------------------------------------------------
(* An address space nobody uses has no areas, no entries and so no pages:  *)
(* whichever step of fork or exec fails, nothing of the half built address *)
(* space is left behind, and a thread never runs in one that is built or   *)
(* released.  Areas never overlap, and entries lie in areas.               *)
NothingLeftBehind ==
  /\ \A m \in MM : op[m] = Unused => vma[m] = {} /\ pte[m] = Empty
  /\ \A m \in MM :
       /\ \A v, w \in vma[m] : v # w => ~Overlap(v, w.begin, w.end)
       /\ op[m].kind \in {"running", "fault", "fork", "exec"} =>
            {a \in Addr : pte[m][a] # None} \subseteq UNION {PagesOf(v) : v \in vma[m]}

(* mm.c:413: DBG_ASSERT((addr & PAGE_MASK) == 0) in __munmap_pages.        *)
MunmapAligned == \A m \in MM : op[m].kind # "stuck"

=============================================================================
