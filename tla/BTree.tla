------------------------------- MODULE BTree -------------------------------
(***************************************************************************)
(* The B+ tree of the hwfs tools (hwfs/btree.c), as far as it gets: a leaf *)
(* whose value headers grow from the front of the block and whose data     *)
(* grows from the back.  When the leaf is full btree_grow puts a node above*)
(* it that points to itself, and btree_insert descends for ever: nothing   *)
(* below that loop (splitting, leaves with a parent) is ever executed.     *)
(***************************************************************************)
EXTENDS Integers, Sequences, SequencesExt

CONSTANTS Key,          \* numbers, in the order of hwfs_host_key_cmp
          Size,         \* the sizes of the data that is inserted
          block_size,
          HEADER,       \* sizeof(struct hwfs_disk_tree_header)
          VALUE,        \* sizeof(struct hwfs_disk_value)
          COUNT         \* fs->count: the blocks of the disk

VARIABLES
  value,      \* hdr->value[0 .. count - 1], with the number of the insertion
  block,      \* block->data, each byte by the insertion that wrote it
  next,       \* fs->next
  inserted,   \* the number of insertions that were made
  outcome     \* "ok", or how btree_insert has failed to return

vars == <<value, block, next, inserted, outcome>>

Init ==
  /\ value = << >> /\ block = [i \in 0..(block_size - 1) |-> 0]
  /\ next \in {COUNT - 1, COUNT} /\ inserted = 0 /\ outcome = "ok"

-----------------------------------------------------------------------------
(* __btree_lower_bound, from the search interval pos, len on.              *)
btree_lower_bound(v, key) ==
  LET search[pos \in 0..Len(v), len \in 0..Len(v)] ==
        LET half == len \div 2
            m == pos + half
        IN  IF len = 0 THEN pos
            ELSE IF key > v[m + 1].key THEN search[m + 1, len - half - 1]
            ELSE search[pos, half]
  IN  search[0, Len(v)]

btree_leaf_room ==
  IF value = << >> THEN block_size - HEADER
  ELSE Last(value).offset - (HEADER + VALUE * Len(value))

btree_enough_room(size) == btree_leaf_room >= size + VALUE

\* memmove of the bytes begin .. end - 1 down by size.
Moved(begin, end, size) ==
  [i \in DOMAIN block |-> IF i \in (begin - size)..(end - size - 1) THEN block[i + size]
                          ELSE block[i]]

\* Mutant: the data that was moved is looked for where it was.
Shifted_Not(v, size) == v

(* The values behind the new one, whose data has moved.                    *)
Shifted(v, size) == [i \in DOMAIN v |-> [v[i] EXCEPT !.offset = @ - size]]

(* btree_leaf_insert_nooverflow: the new value and its data go to the place*)
(* of the key, the data of the values behind it is moved to make room.     *)
btree_leaf_insert_nooverflow(key, size) ==
  LET slot == btree_lower_bound(value, key)
      low == SubSeq(value, 1, slot)
      high == SubSeq(value, slot + 1, Len(value))
      begin == Last(value).offset
      end == Head(high).offset + Head(high).size
      offset == (IF high # << >> THEN end
                 ELSE IF value = << >> THEN block_size ELSE begin) - size
      moved == IF high # << >> THEN Moved(begin, end, size) ELSE block
      new == [key |-> key, offset |-> offset, size |-> size, id |-> inserted + 1]
  IN  /\ value' = low \o <<new>> \o Shifted(high, size)
      /\ block' = [i \in DOMAIN block |->
                    IF i \in offset..(offset + size - 1) THEN new.id ELSE moved[i]]
      /\ inserted' = inserted + 1
      /\ UNCHANGED <<next, outcome>>

(* btree_grow, then the descent from the new root.  The root has one item, *)
(* which holds the root's own block number, so that the level never gets   *)
(* to 0; without a free block the new root is a null pointer.              *)
btree_grow ==
  /\ outcome' = IF next = COUNT THEN "null" ELSE "descends"
  /\ next' = IF next = COUNT THEN next ELSE next + 1
  /\ UNCHANGED <<value, block, inserted>>

btree_insert(key, size) ==
  /\ outcome = "ok"
  /\ IF btree_enough_room(size) THEN btree_leaf_insert_nooverflow(key, size) ELSE btree_grow

Next == \E key \in Key, size \in Size : btree_insert(key, size)

Spec == Init /\ [][Next]_vars

-----------------------------------------------------------------------------
(* Whatever is inserted in whatever order, the leaf is sorted (a repeated  *)
(* key before its older values), every value still has its own data, and   *)
(* the headers have not run into the data.                                 *)
LeafExact ==
  /\ {value[i].id : i \in DOMAIN value} = 1..inserted /\ Len(value) = inserted
  /\ \A i, j \in DOMAIN value : i < j =>
       \/ value[i].key < value[j].key
       \/ value[i].key = value[j].key /\ value[i].id > value[j].id
  /\ \A i \in DOMAIN value, k \in DOMAIN block :
       k \in value[i].offset..(value[i].offset + value[i].size - 1) => block[k] = value[i].id
  /\ value # << >> => HEADER + VALUE * Len(value) <= Last(value).offset
=============================================================================
