---------------------------- MODULE MCAllocators ----------------------------
(***************************************************************************)
(* The allocators, which share no state: a behaviour of this module is a   *)
(* behaviour of one of them, chosen at the start, while the others rest.   *)
(***************************************************************************)
EXTENDS Buddy, Kmap, TLC

\* Memory that crosses the end of low memory and ends off a block boundary;
\* its last page is reserved, and the initrd lies at its beginning.
MCAllArea == << <<0, 6>> >>
MCFreeArea == << <<2, 5>> >>
MCInitrd == <<0, 2>>

CONSTANTS MaxAddr, MaxCalls,
          Page, Total,
          PT_SIZE, PT_MAX_LEVEL, Window, MemPages

\* Two large objects per slab, two descriptors and three tags per page.
MCTotal == [large |-> 2, slab |-> 2, tag |-> 3]

\* Pages on both sides of a boundary of the top level, off the boundaries of
\* the lower ones.
MCWindow == 3..11

Symmetry == Permutations(Caller) \cup Permutations(Frame)

VARIABLES part,
          all, free, stage, added, taken, calls,
          K, held,
          pt, others, live

balloc == <<all, free, stage, added, taken, calls>>
kmem == <<K, held>>
tables == <<pt, others, live>>

BA == INSTANCE Balloc
KC == INSTANCE KmemCache
PT == INSTANCE PageTable

Part == {"balloc", "buddy", "kmap", "kmem", "tables"}

MCInit ==
  /\ part \in Part
  /\ Init /\ BA!Init /\ KmapInit /\ KC!Init /\ PT!Init

MCNext ==
  \/ part = "buddy" /\ Next
       /\ UNCHANGED <<part, balloc, kmapVars, kmem, tables>>
  \/ part = "balloc" /\ BA!Next
       /\ UNCHANGED <<part, vars, kmapVars, kmem, tables>>
  \/ part = "kmap" /\ KmapNext
       /\ UNCHANGED <<part, vars, balloc, kmem, tables>>
  \/ part = "kmem" /\ KC!Next
       /\ UNCHANGED <<part, vars, balloc, kmapVars, tables>>
  \/ part = "tables" /\ PT!Next
       /\ UNCHANGED <<part, vars, balloc, kmapVars, kmem>>

MCSpec == MCInit /\ [][MCNext]_<<part, vars, balloc, kmapVars, kmem, tables>>

-----------------------------------------------------------------------------
(* The page allocator never hands out a page twice or loses one, the flags *)
(* its merging reads are current, and merging is complete.                 *)
BuddyExact == PagesPartitioned /\ HeadsCurrent /\ FullyMerged

(* The pools of the boot allocator are canonical and describe the memory   *)
(* added and the part of it not in use, and its search misses no room.     *)
BallocExact == part = "balloc" => BA!PoolsExact /\ BA!AllocFindsRoom

(* Every slab is on the list its free objects call for, and the three      *)
(* caches of a large object's slab leak nothing when creation fails.       *)
SlabsExact == part = "kmem" => KC!SlabsListed /\ KC!NothingLeaks

(* Page tables exist exactly above populated pages, with exact reference   *)
(* counts, also after a population that failed half way.                   *)
TablesExact == part = "tables" => PT!TablesExact

(* A loop over the slots of a range meets every page once and in order.    *)
SlotsCover == part = "tables" => PT!SlotsCover
=============================================================================
