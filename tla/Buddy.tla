------------------------------- MODULE Buddy -------------------------------
(***************************************************************************)
(* The page allocator (memory.c): memory nodes cut from the regions of the *)
(* boot allocator, and in each node a buddy system with a list of free     *)
(* blocks per order.                                                       *)
(*                                                                         *)
(* A node's operation runs under its spinlock, so it is one action; the    *)
(* walk of __alloc_pages over the nodes, and the loop that releases a      *)
(* region block by block, are preemptible between nodes and blocks.        *)
(* Addresses are page frame numbers.                                       *)
(***************************************************************************)
EXTENDS Integers, Sequences, FiniteSets, FiniteSetsExt, SequencesExt

CONSTANTS BUDDY_ORDERS,  \* memory.h
          LOWMEM,        \* LOWMEM_SIZE in pages
          AllArea,       \* balloc's regions of memory, sorted: <<begin, end>>
          FreeArea,      \* its free regions, each inside one of AllArea
          Initrd,        \* the region setup_initramfs releases once it has run
          Caller,        \* threads inside __alloc_pages
          NoWalk

Order == 0..(BUDDY_ORDERS - 1)

ASSUME BuddyAssumption ==
  /\ BUDDY_ORDERS \in Nat \ {0}
  /\ LOWMEM \in Nat

VARIABLES
  busy,       \* page_busy: busy[n][pfn]
  order,      \* page_get_order, meaningful while the page is free
  free_list,  \* free_list[n][k]: the free blocks of order k, head first
  owned,      \* the blocks that alloc_pages has handed out
  walk,       \* the position of a caller in node_order
  todo,       \* the regions that are still to be released
  freeing     \* what is left of the region being released

vars == <<busy, order, free_list, owned, walk, todo, freeing>>

-----------------------------------------------------------------------------
(* A region that crosses the end of low memory is two.                     *)
SplitAtLowmem(area) ==
  IF area[1] < LOWMEM /\ area[2] > LOWMEM
  THEN << <<area[1], LOWMEM>>, <<LOWMEM, area[2]>> >> ELSE <<area>>

node == FlattenSeq([i \in DOMAIN AllArea |-> SplitAtLowmem(AllArea[i])])

Node == DOMAIN node

node_type(n) == IF node[n][2] <= LOWMEM THEN "LOW" ELSE "HIGH"

node_pfns(n) == node[n][2] - node[n][1]

pfn_node(pfn) == Min({n \in Node : node[n][2] > pfn})

NodesOfType(type) ==
  SelectSeq([n \in Node |-> n], LAMBDA n : node_type(n) = type)

(* setup_buddy splices the lists at the head: the high nodes end up first. *)
node_order == NodesOfType("HIGH") \o NodesOfType("LOW")

FirstNode(type) == IF type = "LOW" THEN Len(NodesOfType("HIGH")) + 1 ELSE 1

Pages(n, pfn, k) == {<<n, p>> : p \in pfn..(pfn + 2^k - 1)}

BlockPages(b) == Pages(b.node, b.pfn, b.order)

-----------------------------------------------------------------------------
Init ==
  /\ busy = [n \in Node |-> [p \in 0..(node_pfns(n) - 1) |-> TRUE]]
  /\ order = [n \in Node |-> [p \in 0..(node_pfns(n) - 1) |-> 0]]
  /\ free_list = [n \in Node |-> [k \in Order |-> << >>]]
  /\ owned = {}
  /\ walk = [c \in Caller |-> NoWalk]
  /\ todo = FreeArea \o <<Initrd>>
  /\ freeing = << >>

(* pfn ^ (1 << k)                                                          *)
buddy_pfn(pfn, k) == IF (pfn \div 2^k) % 2 = 0 THEN pfn + 2^k ELSE pfn - 2^k

\* Mutant: blocks are merged upwards only.
Mergeable_UpOnly(n, pfn, k) ==
  /\ k < BUDDY_ORDERS - 1
  /\ buddy_pfn(pfn, k) > pfn
  /\ buddy_pfn(pfn, k) + 2^k <= node_pfns(n)
  /\ ~busy[n][buddy_pfn(pfn, k)]
  /\ order[n][buddy_pfn(pfn, k)] = k

(* The conditions of __free_pages_node under which a block of order k is   *)
(* joined with its buddy.                                                  *)
Mergeable(n, pfn, k) ==
  /\ k < BUDDY_ORDERS - 1
  /\ buddy_pfn(pfn, k) + 2^k <= node_pfns(n)
  /\ ~busy[n][buddy_pfn(pfn, k)]
  /\ order[n][buddy_pfn(pfn, k)] = k

(* __free_pages_node: after its loop has merged up to order k, the block   *)
(* starts at the multiple of 2^k below pfn, and the loop has taken one     *)
(* buddy off each list below the final order.                              *)
free_pages_node(n, pfn, from) ==
  LET start(k) == pfn - (pfn % 2^k)
      final == Min({k \in from..(BUDDY_ORDERS - 1) : ~Mergeable(n, start(k), k)})
  IN  /\ order' = [order EXCEPT ![n][start(final)] = final]
      /\ busy' = [busy EXCEPT ![n][start(final)] = FALSE]
      /\ free_list' = [free_list EXCEPT ![n] = [k \in Order |->
           CASE k \in from..(final - 1) -> Remove(@[k], buddy_pfn(start(k), k))
             [] k = final -> <<start(k)>> \o @[k]
             [] OTHER -> @[k]]]

free_pages(b) ==
  /\ b \in owned
  /\ free_pages_node(b.node, b.pfn, b.order)
  /\ owned' = owned \ {b}
  /\ UNCHANGED <<walk, todo, freeing>>

-----------------------------------------------------------------------------
(* The largest order at which the page may start a block.                  *)
pfn_max_order(pfn) == Max({k \in Order : pfn % 2^k = 0})

(* memory_free_region: the region is taken up, in one piece per node.      *)
memory_free_region ==
  LET piece(area) == LET n == pfn_node(area[1])
                     IN  [node |-> n, pfn |-> area[1] - node[n][1],
                          end |-> area[2] - node[n][1], pages |-> area[2] - area[1]]
      pieces == SplitAtLowmem(Head(todo))
  IN  /\ todo # << >> /\ freeing = << >>
      /\ freeing' = [i \in DOMAIN pieces |-> piece(pieces[i])]
      /\ todo' = Tail(todo)
      /\ UNCHANGED <<busy, order, free_list, owned, walk>>

(* The inner loop of __memory_free_region, which compares with the number  *)
(* of pages and not with the end of the region.                            *)
RegionOrder(f) ==
  Max({0} \cup {k \in 0..pfn_max_order(f.pfn) : f.pfn + 2^k <= f.pages})

(* One turn of __memory_free_region's loop.                                *)
FreeNextBlock ==
  LET f == Head(freeing)
      next == f.pfn + 2^RegionOrder(f)
  IN  /\ freeing # << >>
      /\ free_pages_node(f.node, f.pfn, RegionOrder(f))
      /\ freeing' = IF next = f.end THEN Tail(freeing)
                    ELSE [freeing EXCEPT ![1].pfn = next]
      /\ UNCHANGED <<owned, walk, todo>>

-----------------------------------------------------------------------------
(* The free regions are released during boot, before anything is           *)
(* allocated; only the initrd's is released beside running threads.        *)
Booted == todo = << >> \/ (todo = <<Initrd>> /\ freeing = << >>)

__alloc_pages(c, k, type) ==
  /\ Booted
  /\ walk[c] = NoWalk
  /\ walk' = [walk EXCEPT ![c] = [order |-> k, type |-> type, at |-> FirstNode(type)]]
  /\ UNCHANGED <<busy, order, free_list, owned, todo, freeing>>

(* __alloc_pages_node takes the first block of order coorder and splits it *)
(* down to order k: the upper halves become free blocks.                   *)
TakeBlock(n, k, coorder) ==
  LET pfn == Head(free_list[n][coorder])
      halves == {buddy_pfn(pfn, j) : j \in k..(coorder - 1)}
  IN  /\ busy' = [busy EXCEPT ![n] = [p \in DOMAIN @ |->
           IF p = pfn THEN TRUE ELSE IF p \in halves THEN FALSE ELSE @[p]]]
      /\ order' = [order EXCEPT ![n] = [p \in DOMAIN @ |->
           IF p \in halves
           THEN CHOOSE j \in k..(coorder - 1) : p = buddy_pfn(pfn, j) ELSE @[p]]]
      /\ free_list' = [free_list EXCEPT ![n] = [j \in Order |->
           CASE j \in k..(coorder - 1) -> <<buddy_pfn(pfn, j)>> \o @[j]
             [] j = coorder -> Tail(@[j])
             [] OTHER -> @[j]]]

(* alloc_pages_node on the next node of the walk.                          *)
alloc_pages_node(c) ==
  LET w == walk[c]
      n == node_order[w.at]
      orders == {k \in w.order..(BUDDY_ORDERS - 1) : free_list[n][k] # << >>}
  IN  /\ w # NoWalk
      /\ w.at <= Len(node_order)
      /\ \/ /\ orders = {}
            /\ walk' = [walk EXCEPT ![c].at = @ + 1]
            /\ UNCHANGED <<busy, order, free_list, owned>>
         \/ /\ orders # {}
            /\ owned' = owned \cup {[node |-> n, order |-> w.order,
                                     pfn |-> Head(free_list[n][Min(orders)])]}
            /\ TakeBlock(n, w.order, Min(orders))
            /\ walk' = [walk EXCEPT ![c] = NoWalk]
      /\ UNCHANGED <<todo, freeing>>

(* No node has a block: __alloc_pages returns 0.                           *)
AllocFails(c) ==
  /\ walk[c] # NoWalk
  /\ walk[c].at > Len(node_order)
  /\ walk' = [walk EXCEPT ![c] = NoWalk]
  /\ UNCHANGED <<busy, order, free_list, owned, todo, freeing>>

Next ==
  \/ memory_free_region
  \/ FreeNextBlock
  \/ \E b \in owned : free_pages(b)
  \/ \E c \in Caller :
       \/ \E k \in Order, type \in {"LOW", "HIGH"} : __alloc_pages(c, k, type)
       \/ alloc_pages_node(c)
       \/ AllocFails(c)

Spec == Init /\ [][Next]_vars

-----------------------------------------------------------------------------
FreeBlocks ==
  UNION {{[node |-> n, pfn |-> p, order |-> k] : p \in Range(free_list[n][k])} :
         n \in Node, k \in Order}

FreePages == UNION {BlockPages(b) : b \in FreeBlocks}

OwnedPages == UNION {BlockPages(b) : b \in owned}

AreaPages(area) == {<<pfn_node(p), p - node[pfn_node(p)][1]>> : p \in area[1]..(area[2] - 1)}

(* What the boot allocator reported free, up to where the release has come.*)
Released ==
  UNION {AreaPages(a) : a \in Range(FreeArea \o <<Initrd>>)}
    \ (UNION {AreaPages(a) : a \in Range(todo)}
       \cup UNION {{<<f.node, p>> : p \in f.pfn..(f.end - 1)} : f \in Range(freeing)})

(* Every page that has been released to the allocator is in exactly one    *)
(* block, free or handed out: alloc_pages never hands out a page twice or  *)
(* one that was not released, and free_pages never loses one.              *)
PagesPartitioned ==
  /\ FreePages \cup OwnedPages = Released
  /\ FreePages \cap OwnedPages = {}
  /\ \A b, c \in FreeBlocks : b # c => BlockPages(b) \cap BlockPages(c) = {}
  /\ \A b, c \in owned : b # c => BlockPages(b) \cap BlockPages(c) = {}

(* What __free_pages_node reads of a buddy is current: the head of a free  *)
(* block is marked free with the order of the list it is on, the head of a *)
(* block handed out and a page never released are marked busy.             *)
HeadsCurrent ==
  /\ \A b \in FreeBlocks : ~busy[b.node][b.pfn] /\ order[b.node][b.pfn] = b.order
  /\ \A b \in owned : busy[b.node][b.pfn]
  /\ \A n \in Node : \A p \in DOMAIN busy[n] :
       ~busy[n][p] => <<n, p>> \in Released

(* Merging is complete: wherever 2^k aligned pages of a node are all free, *)
(* they lie in one free block, so that a node refuses a request only when  *)
(* it has no such run.                                                     *)
FullyMerged ==
  \A n \in Node, k \in Order : \A p \in DOMAIN busy[n] :
    (p % 2^k = 0 /\ Pages(n, p, k) \subseteq FreePages)
      => \E b \in FreeBlocks : Pages(n, p, k) \subseteq BlockPages(b)

=============================================================================
