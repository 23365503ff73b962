----------------------------- MODULE KmemCache -----------------------------
(***************************************************************************)
(* The slab allocator (kmem_cache.c): a cache of large objects, whose slab *)
(* descriptors and object tags come from two caches of small objects.  A   *)
(* call runs with interrupts off from its first access to the lists to its *)
(* last, the nested calls included, and is one action.                     *)
(*                                                                         *)
(* kmem_large_slab_create does not initialise the descriptor's two chains; *)
(* the chain of free tags ends in whatever the memory held, and a walk to  *)
(* its end is defined only if that was null.                               *)
(***************************************************************************)
EXTENDS Integers, Sequences, FiniteSets, FiniteSetsExt, SequencesExt

CONSTANTS Page,   \* page numbers
          Total   \* objects per slab: a function on Cache

VARIABLES
  K,       \* the allocator: see Allocator
  held     \* the large objects clients hold

vars == <<K, held>>

Cache == {"large", "slab", "tag"}
List == {"free", "part", "full"}
NoPtr == <<0, 0>>

(* An object is the page of its slab and its number in it; a slab is named *)
(* by its page, which is how kmem_get_slab finds it.                       *)
Object(c, p) == [i \in 1..Total[c] |-> <<p, Total[c] + 1 - i>>]

Slab(c, p, desc, tags, tail) ==
  [cache |-> c, free |-> Total[c], chain |-> Object(c, p),
   desc |-> desc,   \* large: the descriptor,
   tags |-> tags,   \* the tags of the free objects, in the order of chain,
   busy |-> << >>,  \* the tags that are on the busy chain,
   tail |-> tail]   \* and what the chain of free tags ends in

Allocator(avail) ==
  [avail |-> avail,
   slab |-> << >>,                                 \* page -> slab
   list |-> [c \in Cache |-> [l \in List |-> << >>]],
   nulled |-> {},    \* descriptors whose free chain was walked to its end
   wild |-> FALSE]   \* a walk has gone past the end of a chain

-----------------------------------------------------------------------------
Move(k, p, l) ==
  LET c == k.slab[p].cache
  IN  [k EXCEPT !.list[c] = [m \in List |->
         IF m = l THEN <<p>> \o Remove(@[m], p) ELSE Remove(@[m], p)]]

Large(s) == s.cache = "large"

kmem_small_slab_alloc(s) == [s EXCEPT !.chain = Tail(@)]

kmem_small_slab_free(s, ptr) == [s EXCEPT !.chain = <<ptr>> \o @]

kmem_large_slab_alloc(s) ==
  [s EXCEPT !.chain = Tail(@), !.tags = Tail(@), !.busy = <<Head(s.tags)>> \o @]

(* The object gets the first busy tag, whichever object that was for.      *)
kmem_large_slab_free(s, ptr) ==
  [s EXCEPT !.chain = <<ptr>> \o @, !.tags = <<Head(s.busy)>> \o @, !.busy = Tail(@)]

Take(k, p) ==
  [k EXCEPT !.slab[p] = [(IF Large(@) THEN kmem_large_slab_alloc(@)
                                      ELSE kmem_small_slab_alloc(@)) EXCEPT !.free = @ - 1]]

Put(k, p, ptr) ==
  [k EXCEPT !.slab[p] = [(IF Large(@) THEN kmem_large_slab_free(@, ptr)
                                      ELSE kmem_small_slab_free(@, ptr)) EXCEPT !.free = @ + 1]]

\* Mutant: a slab that was full stays on the full list.
kmem_cache_free_StaysFull(k, ptr) ==
  LET p == ptr[1]
      k1 == Put(k, p, ptr)
  IN  IF k1.slab[p].free = Total[k1.slab[p].cache] THEN Move(k1, p, "free") ELSE k1

kmem_cache_free(k, ptr) ==
  LET p == ptr[1]
      k1 == Put(k, p, ptr)
  IN  CASE k1.slab[p].free = Total[k1.slab[p].cache] -> Move(k1, p, "free")
        [] k1.slab[p].free = 1 -> Move(k1, p, "part")
        [] OTHER -> k1

FreeAll(k, ptrs) == FoldLeft(kmem_cache_free, k, ptrs)

kmem_large_slab_release(k, desc, tags, tail) ==
  IF tail = "garbage" THEN [k EXCEPT !.wild = TRUE]
  ELSE [FreeAll(k, tags \o <<desc>>) EXCEPT !.nulled = @ \cup {desc}]

-----------------------------------------------------------------------------
RECURSIVE kmem_cache_alloc(_, _, _), AllocTags(_, _, _)

(* count tags are taken for a new large slab; tags are the ones so far.    *)
AllocTags(k, tags, count) ==
  IF count = 0 THEN [k |-> k, ok |-> TRUE, tags |-> tags]
  ELSE LET a == kmem_cache_alloc(k, "tag", "null")
       IN  IF a.ptr = NoPtr THEN [k |-> a.k, ok |-> FALSE, tags |-> tags]
           ELSE AllocTags(a.k, <<a.ptr>> \o tags, count - 1)

(* The slab of page p, or what is left when its creation fails.            *)
kmem_large_slab_create(k, p, stale) ==
  LET d == kmem_cache_alloc(k, "slab", "null")
      tail == IF d.ptr \in d.k.nulled THEN "null" ELSE stale
      t == AllocTags(d.k, << >>, Total["large"])
  IN  IF d.ptr = NoPtr THEN [k |-> d.k, ok |-> FALSE]
      ELSE IF ~t.ok
        THEN [k |-> kmem_large_slab_release(t.k, d.ptr, t.tags, tail), ok |-> FALSE]
      ELSE [k |-> [t.k EXCEPT !.slab = (p :> Slab("large", p, d.ptr, t.tags, tail)) @@ @],
            ok |-> TRUE]

kmem_small_slab_create(k, c, p) ==
  [k |-> [k EXCEPT !.slab = (p :> Slab(c, p, NoPtr, << >>, "null")) @@ @], ok |-> TRUE]

kmem_cache_grow(k, c, stale) ==
  IF k.avail = {} THEN k
  ELSE LET p == Min(k.avail)
           k1 == [k EXCEPT !.avail = @ \ {p}]
           s == IF c = "large" THEN kmem_large_slab_create(k1, p, stale)
                               ELSE kmem_small_slab_create(k1, c, p)
       IN  IF s.ok THEN [s.k EXCEPT !.list[c]["free"] = <<p>> \o @]
           ELSE [s.k EXCEPT !.avail = @ \cup {p}]

(* A partly used slab first, then a free one, then a new one.              *)
kmem_cache_alloc(k, c, stale) ==
  IF k.list[c]["part"] # << >>
    THEN LET p == Head(k.list[c]["part"])
             k1 == Take(k, p)
         IN  [ptr |-> Head(k.slab[p].chain),
              k |-> IF k1.slab[p].free = 0 THEN Move(k1, p, "full") ELSE k1]
  ELSE LET k1 == IF k.list[c]["free"] = << >> THEN kmem_cache_grow(k, c, stale) ELSE k
           p == Head(k1.list[c]["free"])
       IN  IF k1.list[c]["free"] = << >> THEN [ptr |-> NoPtr, k |-> k1]
           ELSE [ptr |-> Head(k1.slab[p].chain), k |-> Move(Take(k1, p), p, "part")]

(* The free slabs of a cache go back to the page allocator.                *)
kmem_cache_reap(k, c) ==
  LET k0 == [k EXCEPT !.list[c]["free"] = << >>]
      destroy(k1, p) ==
        LET s == k1.slab[p]
            k2 == IF c = "large" /\ ~k1.wild
                    THEN kmem_large_slab_release(k1, s.desc, s.tags, s.tail) ELSE k1
        IN  [k2 EXCEPT !.avail = @ \cup {p},
                       !.slab = [q \in DOMAIN @ \ {p} |-> @[q]],
                       !.nulled = {d \in @ : d[1] # p}]
  IN  FoldLeft(destroy, k0, k.list[c]["free"])

-----------------------------------------------------------------------------
Init == K = Allocator(Page) /\ held = {}

(* kmem_alloc of a large size; it may fail and still change the caches.    *)
Alloc ==
  \E stale \in {"null", "garbage"} :
    LET a == kmem_cache_alloc(K, "large", stale)
    IN  /\ ~K.wild
        /\ K' = a.k
        /\ held' = IF a.ptr = NoPtr THEN held ELSE held \cup {a.ptr}

Free ==
  \E ptr \in held :
    /\ ~K.wild
    /\ K' = kmem_cache_free(K, ptr)
    /\ held' = held \ {ptr}

Reap ==
  \E c \in Cache :
    /\ ~K.wild
    /\ K' = kmem_cache_reap(K, c)
    /\ UNCHANGED held

(* Other users of the page allocator take and return pages.                *)
OthersPage ==
  /\ ~K.wild
  /\ \E p \in Page \ DOMAIN K.slab :
       K' = [K EXCEPT !.avail = IF p \in @ THEN @ \ {p} ELSE @ \cup {p}]
  /\ UNCHANGED held

Next == Alloc \/ Free \/ Reap \/ OthersPage

-----------------------------------------------------------------------------
SlabsOf(c) == {p \in DOMAIN K.slab : K.slab[p].cache = c}

InUse(c) == UNION {Range(Object(c, p)) \ Range(K.slab[p].chain) : p \in SlabsOf(c)}

(* Until a walk leaves a chain: every slab is on exactly the list its count*)
(* of free objects calls for, the count is the length of its chain, and no *)
(* object is on a chain twice.                                             *)
SlabsListed ==
  ~K.wild =>
    \A c \in Cache :
      /\ \A p \in SlabsOf(c) :
           LET s == K.slab[p]
               l == CASE s.free = 0 -> "full" [] s.free = Total[c] -> "free"
                      [] OTHER -> "part"
           IN  /\ \A m \in List :
                    Cardinality({i \in DOMAIN K.list[c][m] : K.list[c][m][i] = p})
                      = IF m = l THEN 1 ELSE 0
               /\ s.free = Len(s.chain) /\ IsInjective(s.chain)
      /\ \A m \in List : Range(K.list[c][m]) \subseteq SlabsOf(c)

(* Nothing leaks between the three caches, even when the creation of a slab*)
(* fails half way: the large objects in use are the ones clients hold, the *)
(* descriptors and tags in use are those of the large slabs, as many tags  *)
(* per slab as objects, and a page with a slab is not free.                *)
NothingLeaks ==
  ~K.wild =>
    LET large == {K.slab[p] : p \in SlabsOf("large")}
    IN  /\ InUse("large") = held
        /\ InUse("slab") = {s.desc : s \in large}
        /\ InUse("tag") = UNION {Range(s.tags \o s.busy) : s \in large}
        /\ \A s \in large : /\ IsInjective(s.tags \o s.busy)
                            /\ Len(s.tags) = s.free
                            /\ Len(s.busy) = Total["large"] - s.free
        /\ Cardinality(InUse("tag")) = Total["large"] * Cardinality(large)
        /\ K.avail \cap DOMAIN K.slab = {}

=============================================================================
