---------------------------- MODULE MCStructures ----------------------------
(***************************************************************************)
(* The search tree, the contents of files, the loader of the initial file  *)
(* system, the block cache and the B+ tree of the hwfs tools and the       *)
(* dispatch of interrupts, which share no state: a behaviour of this module*)
(* is a behaviour of one of them, chosen at the start.                     *)
(***************************************************************************)
EXTENDS Interrupts, RamfsFile, TLC

CONSTANTS TreeKey,
          Key, Value, Blank, cache_threshold, LINKS,
          LeafKey, Size, block_size, LEAF_HEADER, VALUE, COUNT,
          MEMBERS, CPIO_HEADER

\* More than a page, and less.
MCData == {<<1, 2, 1>>, <<2>>}

\* A header of 2 bytes modulo 4, as the one of 110 is; names and files that
\* end at a multiple of four bytes, before one and after one.
MCMember ==
  {[kind |-> "dir", namesize |-> n, filesize |-> 0] : n \in {2, 3}}
    \cup {[kind |-> "reg", namesize |-> n, filesize |-> f] : n \in {2, 3}, f \in {0, 3, 4, 5}}
    \cup {[kind |-> "link", namesize |-> 2, filesize |-> 3]}

Symmetry == Permutations(File)

VARIABLES part,
          tree,
          links, lru, block_count, data, disk, written, misplaced,
          value, block, next, inserted, outcome,
          archive, archive_size, pos, root, made, read, running

cache == <<links, lru, block_count, data, disk, written, misplaced>>
leaf == <<value, block, next, inserted, outcome>>
cpio == <<archive, archive_size, pos, root, made, read, running>>

RB == INSTANCE RBTree WITH Key <- TreeKey
DC == INSTANCE DiskCache
BT == INSTANCE BTree WITH Key <- LeafKey, HEADER <- LEAF_HEADER
IR == INSTANCE Initramfs WITH Member <- MCMember, HEADER <- CPIO_HEADER, size <- archive_size

Part == {"rbtree", "ramfs", "cache", "btree", "initramfs", "interrupts"}

MCInit ==
  /\ part \in Part
  /\ Init /\ RamfsInit
  /\ IF part = "cache" THEN DC!CacheInit
     ELSE /\ RB!Init
          /\ links = << >> /\ lru = << >> /\ block_count = 0 /\ data = << >>
          /\ disk = << >> /\ written = << >> /\ misplaced = FALSE
  /\ IF part = "btree" THEN BT!Init
     ELSE value = << >> /\ block = << >> /\ next = 0 /\ inserted = 0 /\ outcome = "ok"
  /\ IF part = "initramfs" THEN IR!Init
     ELSE /\ archive = << >> /\ archive_size = 0 /\ pos = 0 /\ root = TRUE
          /\ made = << >> /\ read = 0 /\ running = TRUE

MCNext ==
  \/ part = "interrupts" /\ Next /\ UNCHANGED <<part, tree, ramfs, cache, leaf, cpio>>
  \/ part = "rbtree" /\ RB!Next /\ UNCHANGED <<part, vars, ramfs, cache, leaf, cpio>>
  \/ part = "ramfs" /\ RamfsNext /\ UNCHANGED <<part, vars, tree, cache, leaf, cpio>>
  \/ part = "cache" /\ DC!CacheNext /\ UNCHANGED <<part, vars, ramfs, leaf, cpio>>
  \/ part = "btree" /\ BT!Next /\ UNCHANGED <<part, vars, tree, ramfs, cache, cpio>>
  \/ part = "initramfs" /\ IR!Next /\ UNCHANGED <<part, vars, tree, ramfs, cache, leaf>>

MCSpec == MCInit /\ [][MCNext]_<<part, vars, tree, ramfs, cache, leaf, cpio>>

-----------------------------------------------------------------------------
(* Any insertions and removals leave a red-black tree.                     *)
RedBlack == part = "rbtree" => RB!RedBlack

(* rb_next and rb_prev go to the nearest greater and smaller key.          *)
IterationExact == part = "rbtree" => RB!IterationExact

(* No write to a cached block is lost, and the tree and the list of unused *)
(* blocks agree with the blocks.                                           *)
NothingLost == part = "cache" => DC!NothingLost

(* Insertions leave a sorted leaf in which every value has its own data.   *)
LeafExact == part = "btree" => BT!LeafExact

(* The whole members of the archive, and nothing else, are made in order.  *)
Extracted == part = "initramfs" => IR!Extracted
=============================================================================
