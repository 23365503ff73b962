----------------------------- MODULE DiskCache -----------------------------
(***************************************************************************)
(* The block cache of the hwfs tools (hwfs/disk-io.c): blocks in use, the  *)
(* unused ones in the order in which they will be evicted, and the search  *)
(* tree over both.  disk_get_block keeps the place for the new block while *)
(* disk_alloc_block may take another one out of the tree; `misplaced'      *)
(* records that the place was no longer the right one, and a behaviour     *)
(* ends there.                                                             *)
(***************************************************************************)
EXTENDS RBTree, SequencesExt

CONSTANTS Value, None,
          cache_threshold,
          LINKS              \* bound: references to one block

Block == Key

VARIABLES
  links,       \* of the cached blocks
  lru, block_count,
  data,        \* the contents of a cached block, None if it is not cached
  disk,        \* the contents on the disk
  written,     \* history: the contents last given to a block
  misplaced

vars == <<tree, links, lru, block_count, data, disk, written, misplaced>>

CONSTANT Blank               \* what the disk holds at the beginning

CacheInit ==
  /\ Init
  /\ links = [b \in Block |-> 0] /\ lru = << >> /\ block_count = 0
  /\ data = [b \in Block |-> None]
  /\ disk = [b \in Block |-> Blank] /\ written = disk
  /\ misplaced = FALSE

(* disk_get_block of a cached block.                                       *)
GetCached(b) ==
  /\ b \in Keys(tree) /\ links[b] < LINKS
  /\ links' = [links EXCEPT ![b] = @ + 1]
  /\ lru' = IF links[b] = 0 THEN Remove(lru, b) ELSE lru
  /\ UNCHANGED <<tree, block_count, data, disk, written, misplaced>>

(* disk_read_block into the new block, which is linked at the place that   *)
(* was found in the tree before; if it fails the block is dropped.         *)
LinkNew(b, t, count, d, dk) ==
  LET at == Position(tree, tree.root, b)
  IN  \/ /\ tree' = rb_insert(rb_link(t, b, Position(t, t.root, b)), b)
         /\ misplaced' = (Position(t, t.root, b) # at)
         /\ data' = [d EXCEPT ![b] = dk[b]]
         /\ links' = [links EXCEPT ![b] = 1]
         /\ block_count' = count
      \/ /\ tree' = t /\ data' = d /\ block_count' = count - 1
         /\ UNCHANGED <<links, misplaced>>

(* disk_alloc_block with malloc: below the threshold, or when no block can *)
(* be evicted because none is unused or its write fails.                   *)
GetMalloc(b) ==
  /\ b \notin Keys(tree)
  /\ LinkNew(b, tree, block_count + 1, data, disk)
  /\ UNCHANGED <<lru, disk, written>>

\* Mutant: the evicted block is not written to the disk.
Writeback_Not(b) == disk

(* disk_write_block                                                        *)
Writeback(b) == [disk EXCEPT ![b] = data[b]]

(* disk_alloc_cached_block: at the threshold, or when malloc fails.        *)
GetEvict(b) ==
  LET v == Head(lru)
  IN  /\ b \notin Keys(tree) /\ lru # << >>
      /\ disk' = Writeback(v)
      /\ LinkNew(b, rb_erase(tree, v), block_count, [data EXCEPT ![v] = None], disk')
      /\ lru' = Tail(lru)
      /\ UNCHANGED written

(* The holder of a block changes its contents.                             *)
Modify(b, x) ==
  /\ links[b] > 0
  /\ data' = [data EXCEPT ![b] = x] /\ written' = [written EXCEPT ![b] = x]
  /\ UNCHANGED <<tree, links, lru, block_count, disk, misplaced>>

(* disk_put_block: above the threshold the last put writes the block out   *)
(* and frees it, otherwise (or if that write fails) it stays, unused.      *)
PutDrop(b) ==
  /\ links[b] = 1 /\ block_count > cache_threshold
  /\ links' = [links EXCEPT ![b] = 0]
  /\ disk' = Writeback(b) /\ data' = [data EXCEPT ![b] = None]
  /\ tree' = rb_erase(tree, b) /\ block_count' = block_count - 1
  /\ UNCHANGED <<lru, written, misplaced>>

PutKeep(b) ==
  /\ links[b] > 0
  /\ links' = [links EXCEPT ![b] = @ - 1]
  /\ lru' = IF links[b] = 1 THEN Append(lru, b) ELSE lru
  /\ UNCHANGED <<tree, block_count, data, disk, written, misplaced>>

(* release_disk_io, all writes succeeding.                                 *)
release_disk_io ==
  /\ Keys(tree) # {} /\ \A b \in Block : links[b] = 0
  /\ disk' = [b \in Block |-> IF b \in Keys(tree) THEN data[b] ELSE disk[b]]
  /\ data' = [b \in Block |-> None] /\ tree' = Empty
  /\ lru' = << >> /\ block_count' = 0
  /\ UNCHANGED <<links, written, misplaced>>

CacheNext ==
  /\ ~misplaced
  /\ \/ \E b \in Block : \/ GetCached(b) \/ GetMalloc(b) \/ GetEvict(b)
                         \/ PutDrop(b) \/ PutKeep(b)
     \/ \E b \in Block, x \in Value : Modify(b, x)
     \/ release_disk_io

CacheSpec == CacheInit /\ [][CacheNext]_vars

-----------------------------------------------------------------------------
(* The tree has exactly the cached blocks and the list exactly the unused  *)
(* ones, once each; and what was last written to a block is in its cached  *)
(* copy, or else on the disk.                                              *)
NothingLost ==
  ~misplaced =>
    /\ Keys(tree) = {b \in Block : data[b] # None}
    /\ block_count = Cardinality(Keys(tree))
    /\ IsInjective(lru) /\ ToSet(lru) = {b \in Keys(tree) : links[b] = 0}
    /\ \A b \in Block : written[b] = IF data[b] = None THEN disk[b] ELSE data[b]
=============================================================================
