------------------------------- MODULE Balloc -------------------------------
(***************************************************************************)
(* The boot allocator (balloc.c): the pools `all' and `free', each a sorted*)
(* array of areas, searched by bisection.  setup_memory adds the regions   *)
(* of the memory map, then reserves what is in use; after that, memory is  *)
(* allocated (and could be freed again) until the page allocator is ready. *)
(***************************************************************************)
EXTENDS Integers, Sequences, FiniteSetsExt, SequencesExt

CONSTANTS MaxAddr,  \* addresses are 0..MaxAddr - 1
          MaxCalls  \* bound on the number of calls

VARIABLES
  all, free,   \* the two pools: sequences of [addr, size]
  stage,       \* where setup_memory is: "add", "reserve", "alloc"
  added,       \* history: the addresses added so far
  taken,       \* history: the regions reserved or allocated and not freed
  calls

vars == <<all, free, stage, added, taken, calls>>

Bytes(addr, size) == addr..(addr + size - 1)

End(area) == area.addr + area.size

PoolBytes(pool) == UNION {Bytes(a.addr, a.size) : a \in Range(pool)}

-----------------------------------------------------------------------------
(* The bisections, with the array counted from 0 as in the code.           *)
balloc_lower_bound(pool, addr) ==
  LET search[left, right \in 0..Len(pool)] ==
        LET mid == left + ((right - left) \div 2)
        IN  IF left >= right THEN left
            ELSE IF End(pool[mid + 1]) < addr THEN search[mid + 1, right]
            ELSE search[left, mid]
  IN  search[0, Len(pool)]

\* Mutant: the comparison admits an area that begins at the address.
balloc_upper_bound_Strict(pool, addr) ==
  LET search[left, right \in 0..Len(pool)] ==
        LET mid == left + ((right - left) \div 2)
        IN  IF left >= right THEN left
            ELSE IF pool[mid + 1].addr >= addr THEN search[left, mid]
            ELSE search[mid + 1, right]
  IN  search[0, Len(pool)]

balloc_upper_bound(pool, addr) ==
  LET search[left, right \in 0..Len(pool)] ==
        LET mid == left + ((right - left) \div 2)
        IN  IF left >= right THEN left
            ELSE IF pool[mid + 1].addr > addr THEN search[left, mid]
            ELSE search[mid + 1, right]
  IN  search[0, Len(pool)]

(* The areas that overlap or touch the new one are replaced by one area.   *)
balloc_pool_insert(pool, addr, size) ==
  LET first == balloc_lower_bound(pool, addr)
      last == balloc_upper_bound(pool, addr + size)
      joined == {[addr |-> addr, size |-> size]}
                  \cup (IF first = last THEN {} ELSE {pool[first + 1], pool[last]})
      begin == Min({a.addr : a \in joined})
      end == Max({End(a) : a \in joined})
  IN  SubSeq(pool, 1, first) \o <<[addr |-> begin, size |-> end - begin]>>
        \o SubSeq(pool, last + 1, Len(pool))

(* The area that holds the region loses it: at its beginning, at its end,  *)
(* altogether, or in its middle.                                           *)
balloc_pool_delete(pool, addr, size) ==
  LET pos == balloc_lower_bound(pool, addr) + 1
      area == pool[pos]
      before == [addr |-> area.addr, size |-> addr - area.addr]
      after == [addr |-> addr + size, size |-> End(area) - (addr + size)]
      rest == CASE area.addr = addr /\ area.size > size -> <<after>>
                [] End(area) = addr + size /\ area.size > size -> <<before>>
                [] area.addr = addr /\ area.size = size -> << >>
                [] OTHER -> <<before, after>>
  IN  SubSeq(pool, 1, pos - 1) \o rest \o SubSeq(pool, pos + 1, Len(pool))

Align(x, align) == ((x + align - 1) \div align) * align

(* The start that balloc_alloc_aligned_from_pool finds: the first area that*)
(* offers enough room between low and high; -1 if there is none.           *)
FindStart(pool, low, high, size, align) ==
  LET first == balloc_lower_bound(pool, low) + 1
      last == balloc_upper_bound(pool, high)
      start(i) == Align(Max({pool[i].addr, low}), align)
      end(i) == Min({End(pool[i]), high})
      fits == {i \in first..last : start(i) < end(i) /\ end(i) - start(i) >= size}
  IN  IF low >= high \/ high - low < size \/ fits = {} THEN -1 ELSE start(Min(fits))

-----------------------------------------------------------------------------
Init ==
  /\ all = << >> /\ free = << >>
  /\ stage = "add"
  /\ added = {} /\ taken = {}
  /\ calls = 0

Call(s) == stage = s /\ calls < MaxCalls /\ calls' = calls + 1

NextStage ==
  /\ stage # "alloc"
  /\ stage' = IF stage = "add" THEN "reserve" ELSE "alloc"
  /\ UNCHANGED <<all, free, added, taken, calls>>

(* The regions that are added may overlap: the kernel and the initrd are   *)
(* added on top of the memory map.                                         *)
balloc_add_region(addr, size) ==
  /\ Call("add")
  /\ all' = balloc_pool_insert(all, addr, size)
  /\ free' = balloc_pool_insert(free, addr, size)
  /\ added' = added \cup Bytes(addr, size)
  /\ UNCHANGED <<stage, taken>>

(* What is reserved has been added, and is reserved once.                  *)
balloc_reserve_region(addr, size) ==
  /\ Call("reserve")
  /\ Bytes(addr, size) \subseteq PoolBytes(free)
  /\ free' = balloc_pool_delete(free, addr, size)
  /\ taken' = taken \cup {<<addr, size>>}
  /\ UNCHANGED <<all, stage, added>>

balloc_alloc_aligned(low, high, size, align) ==
  LET start == FindStart(free, low, high, size, align)
  IN  /\ Call("alloc")
      /\ start # -1
      /\ free' = balloc_pool_delete(free, start, size)
      /\ taken' = taken \cup {<<start, size>>}
      /\ UNCHANGED <<all, stage, added>>

balloc_free(addr, size) ==
  /\ Call("alloc")
  /\ <<addr, size>> \in taken
  /\ free' = balloc_pool_insert(free, addr, size)
  /\ taken' = taken \ {<<addr, size>>}
  /\ UNCHANGED <<all, stage, added>>

Next ==
  \/ NextStage
  \/ \E addr \in 0..(MaxAddr - 1) : \E size \in 1..(MaxAddr - addr) :
       \/ balloc_add_region(addr, size)
       \/ balloc_reserve_region(addr, size)
       \/ balloc_free(addr, size)
  \/ \E low, high \in 0..MaxAddr, size \in 1..2, align \in {1, 2} :
       balloc_alloc_aligned(low, high, size, align)

-----------------------------------------------------------------------------
(* The areas of a pool are sorted, not empty, and do not even touch.       *)
Canonical(pool) ==
  /\ \A i \in DOMAIN pool : pool[i].size > 0
  /\ \A i \in 1..(Len(pool) - 1) : End(pool[i]) < pool[i + 1].addr

(* However regions are added, reserved, allocated and freed, the pools     *)
(* stay canonical and describe exactly the memory there is and the part of *)
(* it not in use; a call adds at most one area, so that the fixed arrays   *)
(* (MAX_AREAS_COUNT, which nobody checks) cannot overflow before that many *)
(* calls.                                                                  *)
PoolsExact ==
  /\ Canonical(all) /\ PoolBytes(all) = added
  /\ Canonical(free)
  /\ PoolBytes(free) = added \ UNION {Bytes(r[1], r[2]) : r \in taken}
  /\ Len(free) <= calls

(* The bisections miss no area: an allocation fails only if no aligned run *)
(* of that size is free in the window, and what it finds is free.          *)
AllocFindsRoom ==
  \A low, high \in 0..MaxAddr, size \in 1..2, align \in {1, 2} :
    LET start == FindStart(free, low, high, size, align)
        room == {a \in low..(high - size) :
                   a % align = 0 /\ Bytes(a, size) \subseteq PoolBytes(free)}
    IN  IF room = {} THEN start = -1 ELSE start \in room

=============================================================================
