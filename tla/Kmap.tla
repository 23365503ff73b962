-------------------------------- MODULE Kmap --------------------------------
(***************************************************************************)
(* The window for temporary kernel mappings (paging.c, kmap and kunmap): a *)
(* range of page slots, cut into ranges with boundary tags (the first and  *)
(* the last struct kmap_range of a range hold its length) and free lists   *)
(* by order.  The code takes no lock; the calls are one action each.       *)
(***************************************************************************)
EXTENDS Integers, Sequences, Functions

CONSTANTS KMAP_PAGES, KMAP_ORDERS,
          Frame  \* the pages that are mapped

ASSUME KmapAssumption ==
  KMAP_PAGES \in Nat \ {0} /\ KMAP_ORDERS \in Nat \ {0} /\ 0 \notin Frame

VARIABLES
  pages,       \* all_kmap_ranges[i].pages
  unlinked,    \* list_empty(&all_kmap_ranges[i].link)
  free_kmap,   \* free_kmap_ranges: per order, head first
  slot,        \* the page table entries of the window, 0 when not present
  mapping      \* the buffers in use: first slot -> the pages mapped

kmapVars == <<pages, unlinked, free_kmap, slot, mapping>>

Slots == 0..(KMAP_PAGES - 1)

KmapOrder == 0..(KMAP_ORDERS - 1)

\* The ilog2 of n, if it is below the last order.
Log(n) == {k \in 0..(KMAP_ORDERS - 2) : 2^k <= n /\ n < 2^(k + 1)}

kmap_order(n) == IF Log(n) = {} THEN KMAP_ORDERS - 1 ELSE CHOOSE k \in Log(n) : TRUE

(* The state the range operators work on.                                  *)
Ranges == [pages |-> pages, unlinked |-> unlinked, list |-> free_kmap]

\* The list without the element i.
Delete(s, i) ==
  LET p == CHOOSE x \in DOMAIN s : s[x] = i
  IN  IF i \in Range(s) THEN [x \in 1..(Len(s) - 1) |-> IF x < p THEN s[x] ELSE s[x + 1]]
      ELSE s

list_del(list, i) == [k \in KmapOrder |-> Delete(list[k], i)]

(* (range + pages - 1)->pages = range->pages = pages                       *)
SetLength(p, i, n) == [p EXCEPT ![i] = n, ![i + n - 1] = n]

list_add(list, i, k) == [list EXCEPT ![k] = <<i>> \o @]

\* Mutant: a range is not joined with the range behind it.
kmap_free_range_NoNext(r, i, n) ==
  LET prev == i - r.pages[i - 1]
      join == i > 0 /\ ~r.unlinked[prev]
      first == IF join THEN prev ELSE i
      count == IF join THEN n + r.pages[prev] ELSE n
      list == IF join THEN list_del(r.list, prev) ELSE r.list
  IN  [pages |-> SetLength(r.pages, first, count),
       unlinked |-> [r.unlinked EXCEPT ![first] = FALSE],
       list |-> list_add(list, first, kmap_order(count))]

(* A free neighbour in front, then one behind, is joined; a stale link of  *)
(* a struct inside the range is never looked at.                           *)
kmap_free_range(r, i, n) ==
  LET prev == i - r.pages[i - 1]
      joinPrev == i > 0 /\ ~r.unlinked[prev]
      first == IF joinPrev THEN prev ELSE i
      n1 == IF joinPrev THEN n + r.pages[prev] ELSE n
      list1 == IF joinPrev THEN list_del(r.list, prev) ELSE r.list
      next == first + n1
      joinNext == next < KMAP_PAGES /\ ~r.unlinked[next]
      n2 == IF joinNext THEN n1 + r.pages[next] ELSE n1
      list2 == IF joinNext THEN list_del(list1, next) ELSE list1
  IN  [pages |-> SetLength(r.pages, first, n2),
       unlinked |-> [r.unlinked EXCEPT ![first] = FALSE],
       list |-> list_add(list2, first, kmap_order(n2))]

(* kmap_find_free_range over the orders of kmap_alloc_range: the orders and*)
(* the places in their lists with a range that is large enough.            *)
Candidates(n) ==
  {c \in KmapOrder \X (1..KMAP_PAGES) :
     /\ c[1] >= kmap_order(n) /\ c[2] \in DOMAIN free_kmap[c[1]]
     /\ pages[free_kmap[c[1]][c[2]]] >= n}

\* The first fit in the lowest order that has one.
FirstFit(c, n) ==
  \A d \in Candidates(n) : c[1] < d[1] \/ (c[1] = d[1] /\ c[2] <= d[2])

kmap_alloc_range(i, n) ==
  LET r == [pages |-> SetLength(pages, i, n),
            unlinked |-> [unlinked EXCEPT ![i] = TRUE],
            list |-> list_del(free_kmap, i)]
  IN  IF pages[i] > n THEN kmap_free_range(r, i + n, pages[i] - n) ELSE r

-----------------------------------------------------------------------------
Store(r) == pages' = r.pages /\ unlinked' = r.unlinked /\ free_kmap' = r.list

(* setup_kmap_mapping; the array is zero before it, and a zero link does   *)
(* not look empty.                                                         *)
KmapInit ==
  LET zero == [pages |-> [i \in Slots |-> 0], unlinked |-> [i \in Slots |-> FALSE],
               list |-> [k \in KmapOrder |-> << >>]]
      r == kmap_free_range(zero, 0, KMAP_PAGES)
  IN  /\ pages = r.pages /\ unlinked = r.unlinked /\ free_kmap = r.list
      /\ slot = [i \in Slots |-> 0]
      /\ mapping = << >>

(* kmap of the pages fs, in the range that c points to; without a large    *)
(* enough range it returns 0.                                              *)
kmap(fs, c) ==
  LET n == Len(fs)
      i == free_kmap[c[1]][c[2]]
  IN  /\ FirstFit(c, n)
      /\ Store(kmap_alloc_range(i, n))
      /\ slot' = [j \in Slots |-> IF j \in i..(i + n - 1) THEN fs[j - i + 1] ELSE slot[j]]
      /\ mapping' = [j \in DOMAIN mapping \cup {i} |-> IF j = i THEN fs ELSE mapping[j]]

kunmap(i) ==
  /\ i \in DOMAIN mapping
  /\ slot' = [j \in Slots |-> IF j \in i..(i + pages[i] - 1) THEN 0 ELSE slot[j]]
  /\ Store(kmap_free_range(Ranges, i, pages[i]))
  /\ mapping' = [j \in DOMAIN mapping \ {i} |-> mapping[j]]

KmapNext ==
  \/ \E n \in 1..KMAP_PAGES : \E fs \in [1..n -> Frame], c \in Candidates(n) : kmap(fs, c)
  \/ \E i \in Slots : kunmap(i)

KmapSpec == KmapInit /\ [][KmapNext]_kmapVars

-----------------------------------------------------------------------------
FreeStart == UNION {Range(free_kmap[k]) : k \in KmapOrder}

Start == FreeStart \cup DOMAIN mapping

(* The ranges tile the window, the boundary tags at both ends of each are  *)
(* right, the heads tell free ranges from used ones, every free range is   *)
(* once on the list of its order, and no two free ranges are neighbours.   *)
RangesTile ==
  /\ FreeStart \cap DOMAIN mapping = {} /\ Start \subseteq Slots /\ 0 \in Start
  /\ \A i \in Start :
       /\ pages[i] > 0 /\ pages[i + pages[i] - 1] = pages[i]
       /\ i + pages[i] \in Start \cup {KMAP_PAGES}
       /\ \A j \in Start : j > i => j >= i + pages[i]
       /\ unlinked[i] <=> i \notin FreeStart
       /\ i \in FreeStart => i + pages[i] \notin FreeStart
  /\ \A k \in KmapOrder :
       /\ \A i \in Range(free_kmap[k]) : kmap_order(pages[i]) = k
       /\ \A x, y \in DOMAIN free_kmap[k] : free_kmap[k][x] = free_kmap[k][y] => x = y

(* A buffer shows exactly the pages it was made of for as long as it is    *)
(* mapped, and nothing else is mapped in the window.                       *)
BuffersExact ==
  /\ \A i \in DOMAIN mapping :
       /\ pages[i] = Len(mapping[i])
       /\ \A k \in 1..Len(mapping[i]) : slot[i + k - 1] = mapping[i][k]
  /\ \A j \in Slots :
       slot[j] # 0 => \E i \in DOMAIN mapping : j \in i..(i + Len(mapping[i]) - 1)

(* No page of the window is lost or mapped for two callers of kmap.        *)
WindowExact == RangesTile /\ BuffersExact
=============================================================================
