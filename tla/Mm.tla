--------------------------------- MODULE Mm ---------------------------------
(***************************************************************************)
(* Address spaces (mm.c): mapped areas, page faults, fork's copy on write  *)
(* and release, each run by the one thread of an address space with        *)
(* interrupts on, so that the threads interleave between the steps below.  *)
(*                                                                         *)
(* get_page and put_page take no lock and the build (no -O) compiles each  *)
(* to a load and a store.  A count that changes between the two is a lost  *)
(* update; `raced' records it and ends the behaviour.                      *)
(***************************************************************************)
EXTENDS Integers, Sequences, FiniteSets, FiniteSetsExt

CONSTANTS MM,        \* address spaces
          Addr,      \* page numbers of user addresses, 0..n
          Page,      \* pages of memory
          ZeroPage,  \* the page in Page that zero_page points to
          Value,     \* what a thread writes to a page; 0 is the zeroed page
          MmapWrite, \* the permissions of areas other than a program's
          STALE,     \* the count a page gets from its use as a slab
          None

PAGE_SIZE == 2

(* User addresses are an interval from 0, the count of a page is unsigned  *)
(* (memory.h:85), and an absent entry is no entry.                         *)
ASSUME MmAssumption ==
  /\ IsFiniteSet(MM) /\ IsFiniteSet(Addr)
  /\ Addr \subseteq Nat /\ \A a \in Addr : 0..a \subseteq Addr
  /\ ZeroPage \in Page
  /\ None \notin Page /\ None \notin [page : Page, write : BOOLEAN]
  /\ MmapWrite \subseteq BOOLEAN
  /\ STALE \in Nat

VARIABLES
  op,       \* what the thread of an address space is doing
  vma,      \* the areas: [begin, end, write], in bytes
  pte,      \* the user page table entries: [page, write] or None
  refcount, free, content,   \* of the pages
  raced,    \* a reference count update was lost
  val,      \* history: what the thread should find at an address
  base      \* history: the count a page had when it was mapped first

mmvars == <<op, vma, pte, refcount, free, content, raced, val, base>>

Memory == <<vma, pte, refcount, free, content, val, base>>

Unused == [kind |-> "unused"]
Private == [kind |-> "private"]  \* being built, or taken apart, by another
Running == [kind |-> "running"]

Empty == [a \in Addr |-> None]

Overlap(v, begin, end) == begin < v.end /\ v.begin < end

__lookup_vma(m, begin, end) == {v \in vma[m] : Overlap(v, begin, end)}

PagesOf(v) == {a \in Addr : Overlap(v, a * PAGE_SIZE, (a + 1) * PAGE_SIZE)}

Goto(m, o) == op' = [op EXCEPT ![m] = o]

\* Mutant: the page is freed with a reference left.
Put_Early(p, seen) ==
  /\ refcount' = [refcount EXCEPT ![p] = seen - 1]
  /\ free' = IF seen <= 2 THEN free \cup {p} ELSE free

(* put_page, after its load has seen the count.                            *)
Put(p, seen) ==
  /\ refcount' = [refcount EXCEPT ![p] = seen - 1]
  /\ free' = IF seen = 1 THEN free \cup {p} ELSE free

-----------------------------------------------------------------------------
Init ==
  /\ \E m \in MM : op = [n \in MM |-> IF n = m THEN Running ELSE Unused]
  /\ vma = [m \in MM |-> {}]
  /\ pte = [m \in MM |-> Empty]
  /\ refcount = [p \in Page |-> IF p = ZeroPage THEN 1 ELSE 0]
  /\ free = Page \ {ZeroPage}
  /\ content = [p \in Page |-> 0]
  /\ raced = FALSE
  /\ val = [m \in MM |-> [a \in Addr |-> 0]]
  /\ base = [p \in Page |-> IF p = ZeroPage THEN 1 ELSE 0]

(* A free page serves as a slab for a while: the union in struct page then *)
(* holds a pointer, and whoever forgets to set the count inherits it.      *)
UsedAsSlab(p) ==
  /\ p \in free
  /\ refcount' = [refcount EXCEPT ![p] = STALE]
  /\ UNCHANGED <<op, vma, pte, free, content, raced, val, base>>

(* __mmap; it fails with EBUSY or ENOMEM and changes nothing.              *)
Mmap(m, begin, end, write) ==
  LET b == begin - (begin % PAGE_SIZE)
      e == end + ((-end) % PAGE_SIZE)
  IN  /\ __lookup_vma(m, b, e) = {}
      /\ vma' = [vma EXCEPT ![m] = @ \cup {[begin |-> b, end |-> e, write |-> write]}]

mmap(m, begin, end, write) ==
  /\ op[m] = Running
  /\ Mmap(m, begin, end, write)
  /\ UNCHANGED <<op, pte, refcount, free, content, raced, val, base>>

(* __munmap: the pages are put, and the areas trimmed, split or removed.   *)
(* The end is rounded down for the pages, and not rounded for the areas.   *)
Trim(v, begin, end) ==
  {w \in {[v EXCEPT !.end = Min({@, begin})], [v EXCEPT !.begin = Max({@, end})]} :
     w.begin < w.end}

Munmap(m, begin, end) ==
  LET first == begin \div PAGE_SIZE
      gone == {a \in Addr : a >= first /\ a < first + ((end - begin) \div PAGE_SIZE)}
      puts(p) == Cardinality({a \in gone : pte[m][a] # None /\ pte[m][a].page = p})
  IN  /\ pte' = [pte EXCEPT ![m] = [a \in Addr |-> IF a \in gone THEN None ELSE @[a]]]
      /\ refcount' = [p \in Page |-> refcount[p] - puts(p)]
      /\ free' = free \cup {p \in Page : puts(p) > 0 /\ puts(p) = refcount[p]}
      /\ vma' = [vma EXCEPT ![m] = UNION {Trim(v, begin, end) : v \in @}]
      /\ val' = [val EXCEPT ![m] = [a \in Addr |-> IF a \in gone THEN 0 ELSE @[a]]]

munmap(m, first, last) ==
  /\ op[m] = Running
  /\ first..last \subseteq UNION {PagesOf(v) : v \in vma[m]}
  /\ Munmap(m, first * PAGE_SIZE, (last + 1) * PAGE_SIZE)
  /\ UNCHANGED <<op, content, raced, base>>

-----------------------------------------------------------------------------
Writable(m, a) == pte[m][a] # None /\ pte[m][a].write

(* The thread writes through a writable entry.                             *)
UserWrite(m, a, x) ==
  /\ op[m] = Running
  /\ Writable(m, a)
  /\ content' = [content EXCEPT ![pte[m][a].page] = x]
  /\ val' = [val EXCEPT ![m][a] = x]
  /\ UNCHANGED <<op, vma, pte, refcount, free, raced, base>>

(* mm_page_fault: without an area, or for a write without the permission,  *)
(* it returns EINVAL and changes nothing.                                  *)
mm_page_fault(m, a, write) ==
  LET v == __lookup_vma(m, a * PAGE_SIZE, a * PAGE_SIZE + 1)
      old == IF pte[m][a] = None THEN None ELSE pte[m][a].page
  IN  /\ op[m] = Running
      /\ v # {} /\ (write => \A x \in v : x.write)
      /\ ~Writable(m, a) /\ (write \/ pte[m][a] = None)
      /\ Goto(m, [kind |-> "fault", stage |-> IF write THEN "copy" ELSE "get", addr |-> a,
                  write |-> write, old |-> old, new |-> ZeroPage, seen |-> 0])
      /\ UNCHANGED <<Memory, raced>>

At(m, stage) == op[m].kind = "fault" /\ op[m].stage = stage

(* The page copy_page returns; a new one keeps the count it had.           *)
copy_page(old) == IF refcount[old] = 1 THEN {old} ELSE free

FaultPage(f) == IF f.old = None THEN free ELSE copy_page(f.old)

(* anon_page_fault up to its page: a copy, or a zeroed page.               *)
FaultCopy(m) ==
  LET f == op[m]
  IN  /\ At(m, "copy")
      /\ \E new \in FaultPage(f) :
           /\ Goto(m, [f EXCEPT !.stage = "get", !.new = new])
           /\ free' = free \ {new}
           /\ content' = [content EXCEPT ![new] = IF f.old = None THEN 0 ELSE content[f.old]]
           /\ refcount' = [refcount EXCEPT ![new] = IF f.old = None THEN 0 ELSE @]
           /\ base' = [base EXCEPT ![new] = IF f.old = None THEN 0
                                            ELSE IF new = f.old THEN @ ELSE refcount[new]]
      /\ UNCHANGED <<vma, pte, raced, val>>

(* No memory: the fault fails.                                             *)
FaultFails(m) ==
  /\ At(m, "copy") /\ FaultPage(op[m]) = {}
  /\ Goto(m, Running)
  /\ UNCHANGED <<Memory, raced>>

FaultGetPage(m) ==
  /\ At(m, "get")
  /\ Goto(m, [op[m] EXCEPT !.stage = "map", !.seen = refcount[op[m].new]])
  /\ UNCHANGED <<Memory, raced>>

(* __mmap_pages: the store of get_page, and the entry.                     *)
FaultMap(m) ==
  LET f == op[m]
  IN  /\ At(m, "map")
      /\ refcount' = [refcount EXCEPT ![f.new] = f.seen + 1]
      /\ raced' = (refcount[f.new] # f.seen)
      /\ pte' = [pte EXCEPT ![m][f.addr] = [page |-> f.new, write |-> f.write]]
      /\ Goto(m, IF f.old = None THEN Running ELSE [f EXCEPT !.stage = "put"])
      /\ UNCHANGED <<vma, free, content, val, base>>

FaultPutPage(m) ==
  /\ At(m, "put")
  /\ Goto(m, [op[m] EXCEPT !.stage = "drop", !.seen = refcount[op[m].old]])
  /\ UNCHANGED <<Memory, raced>>

FaultDrop(m) ==
  /\ At(m, "drop")
  /\ Put(op[m].old, op[m].seen)
  /\ raced' = (refcount[op[m].old] # op[m].seen)
  /\ Goto(m, Running)
  /\ UNCHANGED <<vma, pte, content, val, base>>

-----------------------------------------------------------------------------
(* create_mm and copy_mm, for fork: area by area, page by page.            *)
fork(m, child) ==
  /\ op[m] = Running /\ op[child] = Unused
  /\ op' = [op EXCEPT ![child] = Private,
              ![m] = [kind |-> "fork", child |-> child, vmas |-> vma[m],
                      pages |-> {}, page |-> None, seen |-> 0]]
  /\ val' = [val EXCEPT ![child] = val[m]]
  /\ UNCHANGED <<vma, pte, refcount, free, content, raced, base>>

Forking(m) == op[m].kind = "fork"

copy_vma(m) ==
  LET f == op[m]
      v == CHOOSE v \in f.vmas : \A w \in f.vmas : v.begin <= w.begin
  IN  /\ Forking(m) /\ f.pages = {} /\ f.vmas # {}
      /\ Mmap(f.child, v.begin, v.end, v.write)
      /\ Goto(m, [f EXCEPT !.vmas = @ \ {v}, !.pages = {a \in PagesOf(v) : pte[m][a] # None}])
      /\ UNCHANGED <<pte, refcount, free, content, raced, val, base>>

\* Mutant: the parent's entry stays writable.
ForkGetPage_KeepsWrite(m) ==
  LET a == Min(op[m].pages)
  IN  /\ Forking(m) /\ op[m].pages # {} /\ op[m].page = None
      /\ Goto(m, [op[m] EXCEPT !.page = pte[m][a].page, !.seen = refcount[pte[m][a].page]])
      /\ UNCHANGED <<pte, vma, refcount, free, content, raced, val, base>>

(* The entry loses its write bit; get_page of __mmap_pages loads the count.*)
ForkGetPage(m) ==
  LET a == Min(op[m].pages)
  IN  /\ Forking(m) /\ op[m].pages # {} /\ op[m].page = None
      /\ pte' = [pte EXCEPT ![m][a].write = FALSE]
      /\ Goto(m, [op[m] EXCEPT !.page = pte[m][a].page, !.seen = refcount[pte[m][a].page]])
      /\ UNCHANGED <<vma, refcount, free, content, raced, val, base>>

ForkMap(m) ==
  LET f == op[m]
  IN  /\ Forking(m) /\ f.page # None
      /\ refcount' = [refcount EXCEPT ![f.page] = f.seen + 1]
      /\ raced' = (refcount[f.page] # f.seen)
      /\ pte' = [pte EXCEPT ![f.child][Min(f.pages)] = [page |-> f.page, write |-> FALSE]]
      /\ Goto(m, [f EXCEPT !.page = None, !.pages = @ \ {Min(@)}])
      /\ UNCHANGED <<vma, free, content, val, base>>

ForkDone(m) ==
  /\ Forking(m) /\ op[m].pages = {} /\ op[m].vmas = {}
  /\ op' = [op EXCEPT ![m] = Running, ![op[m].child] = Running]
  /\ UNCHANGED <<Memory, raced>>

(* __mmap of an area fails: the new thread is released.                    *)
ForkFails(m) ==
  /\ Forking(m) /\ op[m].pages = {} /\ op[m].vmas # {}
  /\ Goto(m, [kind |-> "release", mm |-> op[m].child])
  /\ UNCHANGED <<Memory, raced>>

(* The thread has exited and is reaped by another.                         *)
exit(m) ==
  /\ op[m] = Running
  /\ Goto(m, [kind |-> "release", mm |-> m])
  /\ UNCHANGED <<Memory, raced>>

(* release_mm, called by the thread of m (or for it): unmap_all_vma unmaps *)
(* area by area; a begin off a page boundary fails the assertion of        *)
(* __munmap_pages and the thread stops there.                              *)
unmap_all_vma(m) ==
  LET x == op[m].mm
      v == CHOOSE v \in vma[x] : \A w \in vma[x] : v.begin <= w.begin
  IN  /\ op[m].kind = "release" /\ vma[x] # {}
      /\ \/ /\ v.begin % PAGE_SIZE = 0
            /\ Munmap(x, v.begin, v.end)
            /\ UNCHANGED <<op, content, raced, base>>
         \/ /\ v.begin % PAGE_SIZE # 0
            /\ Goto(m, [kind |-> "stuck"])
            /\ UNCHANGED <<Memory, raced>>

release_mm(m) ==
  LET x == op[m].mm
  IN  /\ op[m].kind = "release" /\ vma[x] = {}
      /\ op' = [op EXCEPT ![m] = Running, ![x] = Unused]
      /\ UNCHANGED <<Memory, raced>>

-----------------------------------------------------------------------------
MapStep(m) ==
  \E first, last \in Addr :
    /\ first <= last
    /\ \/ \E w \in MmapWrite : mmap(m, first * PAGE_SIZE, (last + 1) * PAGE_SIZE, w)
       \/ munmap(m, first, last)

WriteStep(m) == \E a \in Addr : \E x \in Value : UserWrite(m, a, x)

FaultStep(m) ==
  \/ \E a \in Addr, w \in BOOLEAN : mm_page_fault(m, a, w)
  \/ FaultCopy(m) \/ FaultFails(m) \/ FaultGetPage(m)
  \/ FaultMap(m) \/ FaultPutPage(m) \/ FaultDrop(m)

ForkStep(m) ==
  \/ \E c \in MM : fork(m, c)
  \/ copy_vma(m) \/ ForkGetPage(m) \/ ForkMap(m) \/ ForkDone(m) \/ ForkFails(m)

ReleaseStep(m) == exit(m) \/ unmap_all_vma(m) \/ release_mm(m)

MmStep(m) ==
  \/ MapStep(m) \/ WriteStep(m) \/ FaultStep(m) \/ ForkStep(m) \/ ReleaseStep(m)

Slabs == \E p \in Page : UsedAsSlab(p)

-----------------------------------------------------------------------------
(* Every thread finds in its memory what it wrote there, or what its parent*)
(* had written when it forked: copy on write isolates the address spaces   *)
(* from each other, whichever faults, forks and exits interleave, as long  *)
(* as no reference count update is lost.                                   *)
CowIsolation ==
  ~raced => \A m \in MM, a \in Addr :
    IF pte[m][a] # None THEN content[pte[m][a].page] = val[m][a]
    ELSE op[m].kind \in {"running", "fault", "fork"} => val[m][a] = 0

Mapped(p) ==
  Cardinality({x \in MM \X Addr : pte[x[1]][x[2]] # None /\ pte[x[1]][x[2]].page = p})

(* A fault that has mapped its new page still holds the old one.           *)
InFlight(p) ==
  Cardinality({m \in MM : op[m].kind = "fault" /\ op[m].stage \in {"put", "drop"}
                          /\ op[m].old = p})

(* A page is free exactly when nobody maps it, up to the pages whose count *)
(* copy_page left at a stale value: those are never freed, and never freed *)
(* early.                                                                  *)
PagesCounted ==
  ~raced => \A p \in Page :
    /\ p \in free => Mapped(p) = 0
    /\ p \notin free => refcount[p] = base[p] + Mapped(p) + InFlight(p)

=============================================================================
