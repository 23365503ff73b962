----------------------------- MODULE PageTable -----------------------------
(***************************************************************************)
(* The page tables of one address space (paging.c).  Slot <<k, i>> is slot *)
(* i, counted over the whole address space, of the tables of level k; it   *)
(* covers PT_SIZE^k pages.  At k > 0 it may hold a table of the level below*)
(* and that table is named by the slot that holds it.  The reference count *)
(* of a table's page counts the pages populated beneath it.                *)
(***************************************************************************)
EXTENDS Integers, Sequences, FiniteSets, FiniteSetsExt, SequencesExt

CONSTANTS PT_SIZE, PT_MAX_LEVEL,
          Window,    \* the pages that ranges are made of
          MemPages   \* pages of memory for tables and for other users

VARIABLES
  pt,       \* [tables, refcount, avail]: present tables, counts, free pages
  others,   \* pages of memory in use elsewhere
  live      \* the pages of the ranges that are populated

vars == <<pt, others, live>>

Span(k) == PT_SIZE^k

AddrPages == 0..(Span(PT_MAX_LEVEL + 1) - 1)

Tables == {<<k, a \div Span(k)>> : k \in 1..PT_MAX_LEVEL, a \in AddrPages}

(* MINU(PMLk_SIZE - (vaddr & PMLk_MASK), to - vaddr), in pages.            *)
Chunk(k, vaddr, to) == Min({Span(k) - (vaddr % Span(k)), to - vaddr})

(* refcount -= pages; a table no page needs is unlinked and freed.         *)
DropRef(s, t, n) ==
  IF s.refcount[t] = n
    THEN [s EXCEPT !.refcount[t] = 0, !.tables = @ \ {t}, !.avail = @ + 1]
  ELSE [s EXCEPT !.refcount[t] = @ - n]

RECURSIVE pt_release(_, _, _, _)

(* pt_release_pml4, _pml3, _pml2: the slots of level k between two pages.  *)
pt_release(k, vaddr, to, s) ==
  IF vaddr = to THEN s
  ELSE LET t == <<k, vaddr \div Span(k)>>
           n == Chunk(k, vaddr, to)
           below == IF k = 1 THEN s ELSE pt_release(k - 1, vaddr, vaddr + n, s)
       IN  pt_release(k, vaddr + n, to, IF t \in s.tables THEN DropRef(below, t, n) ELSE s)

(* A missing table is allocated; refcount += pages.                        *)
AddRef(s, t, n) ==
  [s EXCEPT !.tables = @ \cup {t}, !.refcount[t] = @ + n,
            !.avail = IF t \in s.tables THEN @ ELSE @ - 1]

RECURSIVE pt_populate(_, _, _, _, _)

\* Mutant: when the level below fails, its slot keeps the new references.
pt_populate_KeepsRef(k, from, vaddr, to, s) ==
  LET t == <<k, vaddr \div Span(k)>>
      n == Chunk(k, vaddr, to)
      undone(s1) == [rc |-> "ENOMEM", s |-> pt_release(k, from, vaddr, s1)]
      s1 == AddRef(s, t, n)
      below == IF k = 1 THEN [rc |-> "ok", s |-> s1]
               ELSE pt_populate(k - 1, vaddr, vaddr, vaddr + n, s1)
  IN  IF vaddr = to THEN [rc |-> "ok", s |-> s]
      ELSE IF t \notin s.tables /\ s.avail = 0 THEN undone(s)
      ELSE IF below.rc # "ok" THEN undone(below.s)
      ELSE pt_populate(k, from, vaddr + n, to, below.s)

(* pt_populate_pml4, _pml3, _pml2: the table in the slot gets its          *)
(* references, the level below is populated; on a failure everything since *)
(* `from' is released.                                                     *)
pt_populate(k, from, vaddr, to, s) ==
  LET t == <<k, vaddr \div Span(k)>>
      n == Chunk(k, vaddr, to)
      undone(s1) == [rc |-> "ENOMEM", s |-> pt_release(k, from, vaddr, s1)]
      s1 == AddRef(s, t, n)
      below == IF k = 1 THEN [rc |-> "ok", s |-> s1]
               ELSE pt_populate(k - 1, vaddr, vaddr, vaddr + n, s1)
      failed == undone(below.s)
  IN  IF vaddr = to THEN [rc |-> "ok", s |-> s]
      ELSE IF t \notin s.tables /\ s.avail = 0 THEN undone(s)
      ELSE IF below.rc # "ok" THEN [failed EXCEPT !.s = DropRef(@, t, n)]
      ELSE pt_populate(k, from, vaddr + n, to, below.s)

pt_release_pml4(from, to) == pt_release(PT_MAX_LEVEL, from, to, pt)

pt_populate_pml4(from, to) == pt_populate(PT_MAX_LEVEL, from, from, to, pt)

-----------------------------------------------------------------------------
RECURSIVE Descend(_), Climb(_)

(* From a slot to the first slot below it, as deep as there are tables.    *)
Descend(slot) ==
  IF slot[1] > 0 /\ slot \in pt.tables THEN Descend(<<slot[1] - 1, slot[2] * PT_SIZE>>)
  ELSE slot

\* Mutant: the iterator climbs one level only.
Climb_Once(slot) ==
  IF slot[2] % PT_SIZE = PT_SIZE - 1 /\ slot[1] # PT_MAX_LEVEL
    THEN <<slot[1] + 1, slot[2] \div PT_SIZE>>
  ELSE slot

(* Up from the last slots of their tables.                                 *)
Climb(slot) ==
  IF slot[2] % PT_SIZE = PT_SIZE - 1 /\ slot[1] # PT_MAX_LEVEL
    THEN Climb(<<slot[1] + 1, slot[2] \div PT_SIZE>>)
  ELSE slot

pt_iter_set(page) ==
  LET levels == {k \in 0..PT_MAX_LEVEL :
                   \A j \in (k + 1)..PT_MAX_LEVEL : <<j, page \div Span(j)>> \in pt.tables}
      k == Min(levels)
  IN  <<k, page \div Span(k)>>

End == <<PT_MAX_LEVEL, PT_SIZE>>  \* pt_iter_next returns 0

pt_iter_next(slot) ==
  LET up == Climb(slot)
  IN  IF up[2] % PT_SIZE = PT_SIZE - 1 THEN End ELSE Descend(<<up[1], up[2] + 1>>)

RECURSIVE SlotsFrom(_, _)

SlotsFrom(slot, to) ==
  IF slot = End \/ slot[2] * Span(slot[1]) >= to THEN << >>
  ELSE <<slot>> \o SlotsFrom(pt_iter_next(slot), to)

for_each_slot_in_range(from, to) == SlotsFrom(pt_iter_set(from), to)

-----------------------------------------------------------------------------
Init ==
  /\ pt = [tables |-> {}, refcount |-> [t \in Tables |-> 0], avail |-> MemPages]
  /\ others = 0
  /\ live = {}

(* The ranges of an address space do not overlap, see mm.c.                *)
__pt_populate_range(from, to) ==
  LET r == pt_populate_pml4(from, to)
  IN  /\ (from..(to - 1)) \cap live = {}
      /\ pt' = r.s
      /\ live' = IF r.rc = "ok" THEN live \cup (from..(to - 1)) ELSE live
      /\ UNCHANGED others

__pt_release_range(from, to) ==
  /\ from..(to - 1) \subseteq live
  /\ pt' = pt_release_pml4(from, to)
  /\ live' = live \ (from..(to - 1))
  /\ UNCHANGED others

(* Other users of the page allocator take and return pages.                *)
OthersAlloc(n) ==
  /\ others + n \in 0..MemPages /\ pt.avail - n \in 0..MemPages
  /\ others' = others + n
  /\ pt' = [pt EXCEPT !.avail = @ - n]
  /\ UNCHANGED live

Next ==
  \/ \E from, last \in Window :
       /\ from <= last
       /\ __pt_populate_range(from, last + 1) \/ __pt_release_range(from, last + 1)
  \/ \E n \in {-1, 1} : OthersAlloc(n)

-----------------------------------------------------------------------------
PagesUnder(t) == {a \in AddrPages : a \div Span(t[1]) = t[2]}

(* After any sequence of populations, releases and failures half way:      *)
(* exactly the tables that lie above a populated page exist, each counts   *)
(* the populated pages beneath it, and no page of memory is lost.          *)
TablesExact ==
  /\ pt.tables = {t \in Tables : PagesUnder(t) \cap live # {}}
  /\ \A t \in Tables : pt.refcount[t] = Cardinality(PagesUnder(t) \cap live)
  /\ pt.avail + Cardinality(pt.tables) + others = MemPages

(* The loop over the slots of a range meets every page of the range in     *)
(* exactly one slot, in the order of addresses, and a populated page in a  *)
(* slot of its own: kmap, munmap and copy_vma rely on it.                  *)
SlotsCover ==
  \A from, last \in Window :
    from <= last =>
      LET slots == for_each_slot_in_range(from, last + 1)
          pages == FlattenSeq([i \in DOMAIN slots |->
                     [j \in 1..Span(slots[i][1]) |-> slots[i][2] * Span(slots[i][1]) + j - 1]])
      IN  /\ \A i \in 1..(Len(pages) - 1) : pages[i + 1] = pages[i] + 1
          /\ from..last \subseteq Range(pages)
          /\ \A i \in DOMAIN slots : slots[i][1] > 0 => PagesUnder(slots[i]) \cap live = {}

=============================================================================
