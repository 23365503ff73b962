------------------------------ MODULE VfsProof ------------------------------
(***************************************************************************)
(* The counts of the entries and the coherence of the cache, for any       *)
(* threads, entries, nodes, names and paths.                               *)
(*                                                                         *)
(* The counts and the shape of the cache are kept apart.  Counts: what an  *)
(* entry's count exceeds its children by (Own) is what the threads have    *)
(* (Uses, summed up in Holders) and what was forgotten.  Shape: the        *)
(* entries and the directories of ramfs (Tree).                            *)
(***************************************************************************)
EXTENDS Vfs, TLAPS

USE ZenonT(60), SMTT(60)

Component == Name \cup {".."}
Ops == {"idle", "open", "create", "unlink", "rmdir", "mkdir", "resolve", "link"}
Pcs == {"idle", "walk", "lookup", "make", "file", "remove"}

Walker == [op : Ops, pc : Pcs, path : Seq(Component), at : Entry \cup {None},
           old : Entry \cup {None}, puts : Seq(Entry), zero : Entry \cup {None}]

TypeOK ==
  /\ entry \in [Entry -> FsEntry \cup {None}]
  /\ kind \in [Node -> {"dir", "file", None}]
  /\ dir \in [Node -> [Name -> Node \cup {None}]]
  /\ th \in [Thread -> Walker]
  /\ leaked \in [Entry -> Nat]

-----------------------------------------------------------------------------
One(b) == IF b THEN 1 ELSE 0

Puts(s, e) ==
  One(1 <= Len(s) /\ s[1] = e) + One(2 <= Len(s) /\ s[2] = e) + One(3 <= Len(s) /\ s[3] = e)

(* How many references to e a thread with record r has.                    *)
Uses(r, e) == One(r.at = e) + One(r.old = e) + Puts(r.puts, e)

KidsOf(es, e) == {c \in Entry \ {RootEntry} : es[c] # None /\ es[c].parent = e}

Own(es, e) ==
  IF es[e] = None THEN 0
  ELSE es[e].refcount - Cardinality(KidsOf(es, e)) - One(e = RootEntry)

Counted ==
  \A e \in Entry :
    /\ Own(entry, e) = Holders(e) + leaked[e]
    /\ entry[e] = None => KidsOf(entry, e) = {}
    /\ entry[e] # None /\ entry[e].refcount = 0 => \E t \in Thread : th[t].zero = e

-----------------------------------------------------------------------------
(* What a thread at each of its steps relies on.                           *)
Stage(es, r) ==
  /\ r.pc = "idle" => r.at = None /\ r.old = None
  /\ r.pc # "idle" => r.at \in Entry
  /\ r.op = "link" => r.old \in Entry
  /\ r.op # "link" => r.old = None
  /\ r.pc = "file" => r.op # "link"
  /\ r.path # << >> => r.path[Len(r.path)] \in Name
  /\ r.pc \in {"lookup", "make"} => es[r.at].node # None
  /\ r.pc = "lookup" => r.path # << >> /\ Head(r.path) \in Name
  /\ r.pc = "make" => r.path[1] \in Name
  /\ r.pc = "remove" => r.at # RootEntry
  /\ Len(r.puts) + One(r.zero # None) <= 3

Stages == \A t \in Thread : Stage(entry, th[t])

-----------------------------------------------------------------------------
(* Entries: the root; others have a name in a directory; a directory has   *)
(* one entry at most; so has a name, in the cache.                         *)
RootIs(es, kd) ==
  /\ es[RootEntry] # None /\ es[RootEntry].parent = RootEntry /\ es[RootEntry].node = RootNode
  /\ ~es[RootEntry].cached
  /\ kd[RootNode] = "dir"

Named(es, kd) ==
  \A e \in Entry \ {RootEntry} : es[e] # None =>
    /\ es[e].name \in Name /\ es[e].parent \in Entry /\ es[es[e].parent] # None
    /\ es[es[e].parent].node # None /\ kd[es[es[e].parent].node] = "dir"

NodesUsed(es, kd) == \A e \in Entry : es[e] # None /\ es[e].node # None => kd[es[e].node] # None

OneEntry(es, kd) ==
  \A e, f \in Entry : es[e] # None /\ es[f] # None /\ es[e].node = es[f].node
                      /\ es[e].node # None /\ kd[es[e].node] = "dir" => e = f

OneName(es) ==
  \A e, f \in Entry \ {RootEntry} :
    es[e] # None /\ es[f] # None /\ es[e].cached /\ es[f].cached
      /\ es[e].parent = es[f].parent /\ es[e].name = es[f].name => e = f

(* Directories: names of nodes in use, of a directory node only once, and  *)
(* an entry is in the cache just as its node is in the directory.          *)
DirsUsed(kd, dr) == \A n \in Node, x \in Name : dr[n][x] # None => kd[dr[n][x]] # None

OneDir(kd, dr) ==
  \A n, m \in Node, x, y \in Name :
    dr[n][x] # None /\ dr[n][x] = dr[m][y] /\ kd[dr[n][x]] = "dir" => n = m /\ x = y

Agree(es, dr) ==
  \A e \in Entry \ {RootEntry} : es[e] # None /\ es[e].cached =>
    dr[es[es[e].parent].node][es[e].name] = es[e].node

Detached(es, kd, dr) ==
  \A e \in Entry : es[e] # None /\ ~es[e].cached /\ es[e].node # None /\ kd[es[e].node] = "dir" =>
    \A n \in Node, x \in Name : dr[n][x] # es[e].node

Tree(es, kd, dr) ==
  /\ RootIs(es, kd) /\ Named(es, kd) /\ NodesUsed(es, kd) /\ OneEntry(es, kd) /\ OneName(es)
  /\ DirsUsed(kd, dr) /\ OneDir(kd, dr) /\ Agree(es, dr) /\ Detached(es, kd, dr)

Inv == TypeOK /\ Counted /\ Stages /\ Tree(entry, kind, dir)

IInv == fault = None => Inv

-----------------------------------------------------------------------------
(* What is used of finite sets.  It is proved at the end, from the library.*)
FiniteSetFacts ==
  /\ \A S : IsFiniteSet(S) =>
       /\ Cardinality(S) \in Nat
       /\ Cardinality(S) = 0 => S = {}
       /\ \A T \in SUBSET S : IsFiniteSet(T)
       /\ \A x : /\ IsFiniteSet(S \cup {x}) /\ IsFiniteSet(S \ {x})
                 /\ Cardinality(S \cup {x}) = IF x \in S THEN Cardinality(S) ELSE Cardinality(S) + 1
                 /\ Cardinality(S \ {x}) = IF x \in S THEN Cardinality(S) - 1 ELSE Cardinality(S)
  /\ \A S, T : IsFiniteSet(S) /\ IsFiniteSet(T) => IsFiniteSet(S \X T)
  /\ \A i, j \in Int : IsFiniteSet(i..j)
  /\ IsFiniteSet({}) /\ Cardinality({}) = 0

LEMMA CardinalityType ==
  ASSUME FiniteSetFacts, NEW S, IsFiniteSet(S)
  PROVE  Cardinality(S) \in Nat
BY DEF FiniteSetFacts

LEMMA CardinalityZero ==
  ASSUME FiniteSetFacts, NEW S, IsFiniteSet(S), Cardinality(S) = 0
  PROVE  S = {}
BY DEF FiniteSetFacts

LEMMA SubsetFinite ==
  ASSUME FiniteSetFacts, NEW S, IsFiniteSet(S), NEW T \in SUBSET S
  PROVE  IsFiniteSet(T)
BY DEF FiniteSetFacts

LEMMA AddElement ==
  ASSUME FiniteSetFacts, NEW S, IsFiniteSet(S), NEW x
  PROVE  /\ IsFiniteSet(S \cup {x})
         /\ Cardinality(S \cup {x}) = IF x \in S THEN Cardinality(S) ELSE Cardinality(S) + 1
BY DEF FiniteSetFacts

LEMMA RemoveElement ==
  ASSUME FiniteSetFacts, NEW S, IsFiniteSet(S), NEW x
  PROVE  /\ IsFiniteSet(S \ {x})
         /\ Cardinality(S \ {x}) = IF x \in S THEN Cardinality(S) - 1 ELSE Cardinality(S)
BY DEF FiniteSetFacts

LEMMA ProductFinite ==
  ASSUME FiniteSetFacts, NEW S, IsFiniteSet(S), NEW T, IsFiniteSet(T)
  PROVE  IsFiniteSet(S \X T)
BY DEF FiniteSetFacts

LEMMA IntervalFinite ==
  ASSUME FiniteSetFacts, NEW i \in Int, NEW j \in Int
  PROVE  IsFiniteSet(i..j)
BY DEF FiniteSetFacts

LEMMA EmptyFinite ==
  ASSUME FiniteSetFacts
  PROVE  IsFiniteSet({}) /\ Cardinality({}) = 0
BY DEF FiniteSetFacts

-----------------------------------------------------------------------------
(* Cardinalities, when a set changes at one element or at three.           *)
Grown(S, T, x) ==
  /\ IsFiniteSet(T) /\ Cardinality(S) \in Nat /\ Cardinality(T) \in Nat
  /\ Cardinality(T) = Cardinality(S) + One(x \in T) - One(x \in S)

GrownThree(S, T, x, y, z) ==
  /\ IsFiniteSet(T) /\ Cardinality(S) \in Nat /\ Cardinality(T) \in Nat
  /\ Cardinality(T) = Cardinality(S) + (One(x \in T) + One(y \in T) + One(z \in T))
                                     - (One(x \in S) + One(y \in S) + One(z \in S))

LEMMA CardOne ==
  ASSUME FiniteSetFacts, NEW S, NEW T, NEW x, IsFiniteSet(S), T \ {x} = S \ {x}
  PROVE  Grown(S, T, x)
<1>1. IsFiniteSet(S \ {x}) /\ Cardinality(S) \in Nat
  BY RemoveElement, CardinalityType
<1>2. /\ Cardinality(S \ {x}) \in Nat
      /\ Cardinality(S \ {x}) = Cardinality(S) - One(x \in S)
  <2>1. Cardinality(S \ {x}) \in Nat
    BY <1>1, CardinalityType
  <2>2. Cardinality(S \ {x}) = IF x \in S THEN Cardinality(S) - 1 ELSE Cardinality(S)
    BY RemoveElement
  <2>3. CASE x \in S
    BY <1>1, <2>1, <2>2, <2>3, SMT DEF One
  <2>4. CASE x \notin S
    BY <1>1, <2>1, <2>2, <2>4, SMT DEF One
  <2> QED BY <2>3, <2>4
<1>3. CASE x \in T
  <2>1. T = (S \ {x}) \cup {x}
    BY <1>3
  <2>2. IsFiniteSet(T) /\ Cardinality(T) = Cardinality(S \ {x}) + 1
    BY <1>1, <2>1, AddElement
  <2>3. One(x \in T) = 1
    BY <1>3 DEF One
  <2>4. One(x \in S) \in Nat
    BY DEF One
  <2> QED BY <1>1, <1>2, <2>2, <2>3, <2>4, SMT DEF Grown
<1>4. CASE x \notin T
  <2>1. T = S \ {x}
    BY <1>4
  <2>2. One(x \in T) = 0
    BY <1>4 DEF One
  <2>4. One(x \in S) \in Nat
    BY DEF One
  <2> QED BY <1>1, <1>2, <2>1, <2>2, <2>4, SMT DEF Grown
<1> QED BY <1>3, <1>4

LEMMA CardThree ==
  ASSUME FiniteSetFacts, NEW S, NEW T, NEW x, NEW y, NEW z, x # y, x # z, y # z,
         IsFiniteSet(S), T \ {x, y, z} = S \ {x, y, z}
  PROVE  GrownThree(S, T, x, y, z)
<1>1. PICK U : U = (S \ {x}) \cup (T \cap {x})
  OBVIOUS
<1>2. PICK V : V = (U \ {y}) \cup (T \cap {y})
  OBVIOUS
<1>3. U \ {x} = S \ {x} /\ (x \in U <=> x \in T) /\ (y \in U <=> y \in S) /\ (z \in U <=> z \in S)
  BY <1>1
<1>4. V \ {y} = U \ {y} /\ (y \in V <=> y \in T) /\ (z \in V <=> z \in S)
  BY <1>2, <1>3
<1>5. T \ {z} = V \ {z}
  BY <1>1, <1>2
<1>6. /\ IsFiniteSet(U) /\ Cardinality(S) \in Nat /\ Cardinality(U) \in Nat
      /\ Cardinality(U) = Cardinality(S) + One(x \in U) - One(x \in S)
  BY <1>3, CardOne DEF Grown
<1>7. /\ IsFiniteSet(V) /\ Cardinality(V) \in Nat
      /\ Cardinality(V) = Cardinality(U) + One(y \in V) - One(y \in U)
  BY <1>4, <1>6, CardOne DEF Grown
<1>8. /\ IsFiniteSet(T) /\ Cardinality(T) \in Nat
      /\ Cardinality(T) = Cardinality(V) + One(z \in T) - One(z \in V)
  BY <1>5, <1>7, CardOne DEF Grown
<1>9. One(x \in U) = One(x \in T) /\ One(y \in V) = One(y \in T) /\ One(y \in U) = One(y \in S)
      /\ One(z \in V) = One(z \in S)
  BY <1>3, <1>4 DEF One
<1>10. /\ One(x \in T) \in Nat /\ One(y \in T) \in Nat /\ One(z \in T) \in Nat
       /\ One(x \in S) \in Nat /\ One(y \in S) \in Nat /\ One(z \in S) \in Nat
  BY DEF One
<1> QED BY <1>6, <1>7, <1>8, <1>9, <1>10, SMT DEF GrownThree

-----------------------------------------------------------------------------
LEMMA PutsNat ==
  ASSUME NEW s, NEW e
  PROVE  Puts(s, e) \in Nat
BY SMT DEF Puts, One

LEMMA UsesNat ==
  ASSUME NEW r, NEW e
  PROVE  Uses(r, e) \in Nat
<1>1. Puts(r.puts, e) \in Nat /\ One(r.at = e) \in Nat /\ One(r.old = e) \in Nat
  BY PutsNat DEF One
<1> QED BY <1>1, SMT DEF Uses

(* One thread moves on: the holders of an entry change by what it uses.    *)
HoldersOf(ts, e) ==
  Cardinality({t \in Thread : ts[t].at = e}) + Cardinality({t \in Thread : ts[t].old = e})
    + Cardinality({x \in Thread \X (1..3) : x[2] <= Len(ts[x[1]].puts) /\ ts[x[1]].puts[x[2]] = e})

Moved(ts, us, t, r, e) ==
  /\ HoldersOf(ts, e) \in Nat /\ HoldersOf(us, e) \in Nat
  /\ HoldersOf(us, e) = HoldersOf(ts, e) + Uses(r, e) - Uses(ts[t], e)

LEMMA HoldersMove ==
  ASSUME FiniteSetFacts, NEW ts \in [Thread -> Walker], NEW t \in Thread, NEW r \in Walker,
         NEW us, us = [ts EXCEPT ![t] = r], NEW e
  PROVE  Moved(ts, us, t, r, e)
<1>0. us[t] = r /\ \A u \in Thread \ {t} : us[u] = ts[u]
  OBVIOUS
<1>1. IsFiniteSet(Thread) /\ IsFiniteSet(Thread \X (1..3))
  <2>1. IsFiniteSet(Thread)
    BY VfsAssumption
  <2>2. IsFiniteSet(1..3)
    <3>1. 1 \in Int /\ 3 \in Int
      BY SMT
    <3> QED BY <3>1, IntervalFinite
  <2> QED BY <2>1, <2>2, ProductFinite
<1>2. PICK A, B : A = {u \in Thread : ts[u].at = e} /\ B = {u \in Thread : us[u].at = e}
  OBVIOUS
<1>3. PICK C, D : C = {u \in Thread : ts[u].old = e} /\ D = {u \in Thread : us[u].old = e}
  OBVIOUS
<1>4. PICK F, G :
        /\ F = {x \in Thread \X (1..3) : x[2] <= Len(ts[x[1]].puts) /\ ts[x[1]].puts[x[2]] = e}
        /\ G = {x \in Thread \X (1..3) : x[2] <= Len(us[x[1]].puts) /\ us[x[1]].puts[x[2]] = e}
  OBVIOUS
<1>5. /\ HoldersOf(ts, e) = Cardinality(A) + Cardinality(C) + Cardinality(F)
      /\ HoldersOf(us, e) = Cardinality(B) + Cardinality(D) + Cardinality(G)
  BY <1>2, <1>3, <1>4 DEF HoldersOf
<1>6. /\ IsFiniteSet(A) /\ B \ {t} = A \ {t}
      /\ t \in B <=> r.at = e
      /\ t \in A <=> ts[t].at = e
  <2>1. A \subseteq Thread
    BY <1>2
  <2>2. IsFiniteSet(A)
    BY <1>1, <2>1, SubsetFinite
  <2> QED BY <1>0, <1>2, <2>2
<1>7. /\ IsFiniteSet(C) /\ D \ {t} = C \ {t}
      /\ t \in D <=> r.old = e
      /\ t \in C <=> ts[t].old = e
  <2>1. C \subseteq Thread
    BY <1>3
  <2>2. IsFiniteSet(C)
    BY <1>1, <2>1, SubsetFinite
  <2> QED BY <1>0, <1>3, <2>2
<1>8. PICK x, y, z : x = <<t, 1>> /\ y = <<t, 2>> /\ z = <<t, 3>>
  OBVIOUS
<1>9. /\ x # y /\ x # z /\ y # z
      /\ x \in Thread \X (1..3) /\ y \in Thread \X (1..3) /\ z \in Thread \X (1..3)
      /\ x[1] = t /\ y[1] = t /\ z[1] = t /\ x[2] = 1 /\ y[2] = 2 /\ z[2] = 3
  BY <1>8, SMT
<1>10. /\ x \in G <=> 1 <= Len(r.puts) /\ r.puts[1] = e
       /\ y \in G <=> 2 <= Len(r.puts) /\ r.puts[2] = e
       /\ z \in G <=> 3 <= Len(r.puts) /\ r.puts[3] = e
       /\ x \in F <=> 1 <= Len(ts[t].puts) /\ ts[t].puts[1] = e
       /\ y \in F <=> 2 <= Len(ts[t].puts) /\ ts[t].puts[2] = e
       /\ z \in F <=> 3 <= Len(ts[t].puts) /\ ts[t].puts[3] = e
  BY <1>0, <1>4, <1>9
<1>11. G \ {x, y, z} = F \ {x, y, z}
  <2>1. ASSUME NEW w \in Thread \X (1..3), w \notin {x, y, z}
        PROVE  w[1] \in Thread \ {t}
    <3>1. PICK u \in Thread, i \in 1..3 : w = <<u, i>>
      BY <2>1, SMT
    <3>2. u # t
      BY <1>8, <2>1, <3>1, SMT
    <3> QED BY <3>1, <3>2
  <2>2. \A w \in Thread \X (1..3) : w \notin {x, y, z} => us[w[1]] = ts[w[1]]
    BY <1>0, <2>1
  <2> QED BY <1>4, <2>2
<1>12. IsFiniteSet(F)
  <2>1. F \subseteq Thread \X (1..3)
    BY <1>4
  <2> QED BY <1>1, <2>1, SubsetFinite
<1>13. /\ Cardinality(A) \in Nat /\ Cardinality(B) \in Nat
       /\ Cardinality(B) = Cardinality(A) + One(t \in B) - One(t \in A)
  <2>1. Grown(A, B, t)
    BY <1>6, CardOne
  <2> QED BY <2>1 DEF Grown
<1>14. /\ Cardinality(C) \in Nat /\ Cardinality(D) \in Nat
       /\ Cardinality(D) = Cardinality(C) + One(t \in D) - One(t \in C)
  <2>1. Grown(C, D, t)
    BY <1>7, CardOne
  <2> QED BY <2>1 DEF Grown
<1>15. /\ Cardinality(F) \in Nat /\ Cardinality(G) \in Nat
       /\ Cardinality(G) = Cardinality(F) + (One(x \in G) + One(y \in G) + One(z \in G))
                                          - (One(x \in F) + One(y \in F) + One(z \in F))
  <2>1. GrownThree(F, G, x, y, z)
    BY <1>9, <1>11, <1>12, CardThree
  <2> QED BY <2>1 DEF GrownThree
<1>16. One(t \in B) = One(r.at = e) /\ One(t \in A) = One(ts[t].at = e)
       /\ One(t \in D) = One(r.old = e) /\ One(t \in C) = One(ts[t].old = e)
  BY <1>6, <1>7 DEF One
<1>17. /\ One(x \in G) + One(y \in G) + One(z \in G) = Puts(r.puts, e)
       /\ One(x \in F) + One(y \in F) + One(z \in F) = Puts(ts[t].puts, e)
  BY <1>10 DEF One, Puts
<1>18. /\ One(r.at = e) \in Nat /\ One(ts[t].at = e) \in Nat
       /\ One(r.old = e) \in Nat /\ One(ts[t].old = e) \in Nat
       /\ Puts(r.puts, e) \in Nat /\ Puts(ts[t].puts, e) \in Nat
  BY PutsNat DEF One
<1>19. /\ Uses(r, e) = One(r.at = e) + One(r.old = e) + Puts(r.puts, e)
       /\ Uses(ts[t], e) = One(ts[t].at = e) + One(ts[t].old = e) + Puts(ts[t].puts, e)
  BY DEF Uses
<1>20. PICK a, b, c, d, p, q : a = One(r.at = e) /\ b = One(ts[t].at = e) /\ c = One(r.old = e)
         /\ d = One(ts[t].old = e) /\ p = Puts(r.puts, e) /\ q = Puts(ts[t].puts, e)
  OBVIOUS
<1>21. a \in Nat /\ b \in Nat /\ c \in Nat /\ d \in Nat /\ p \in Nat /\ q \in Nat
       /\ Cardinality(B) = Cardinality(A) + a - b
       /\ Cardinality(D) = Cardinality(C) + c - d
       /\ Cardinality(G) = Cardinality(F) + p - q
       /\ Uses(r, e) = a + c + p /\ Uses(ts[t], e) = b + d + q
  BY <1>13, <1>14, <1>15, <1>16, <1>17, <1>18, <1>19, <1>20
<1>22. /\ HoldersOf(ts, e) \in Nat /\ HoldersOf(us, e) \in Nat
       /\ HoldersOf(us, e) = HoldersOf(ts, e) + Uses(r, e) - Uses(ts[t], e)
  BY <1>5, <1>13, <1>14, <1>15, <1>21, SMT
<1> QED BY <1>22 DEF Moved

LEMMA HoldersStep ==
  ASSUME FiniteSetFacts, th \in [Thread -> Walker], NEW t \in Thread, NEW r \in Walker,
         th' = [th EXCEPT ![t] = r], NEW e
  PROVE  /\ Holders(e) \in Nat /\ Holders(e)' \in Nat
         /\ Holders(e)' = Holders(e) + Uses(r, e) - Uses(th[t], e)
<1>1. Holders(e) = HoldersOf(th, e) /\ Holders(e)' = HoldersOf(th', e)
  BY DEF Holders, HoldersOf
<1>2. /\ HoldersOf(th, e) \in Nat /\ HoldersOf(th', e) \in Nat
      /\ HoldersOf(th', e) = HoldersOf(th, e) + Uses(r, e) - Uses(th[t], e)
  <2>1. Moved(th, th', t, r, e)
    BY HoldersMove
  <2> QED BY <2>1 DEF Moved
<1> QED BY <1>1, <1>2

(* A thread holds what it uses.                                            *)
LEMMA HoldersUses ==
  ASSUME FiniteSetFacts, th \in [Thread -> Walker], NEW t \in Thread, NEW e \in Entry
  PROVE  Holders(e) \in Nat /\ Holders(e) >= Uses(th[t], e)
<1>1. PICK us : us = [th EXCEPT ![t] = Idle]
  OBVIOUS
<1>2. Idle \in Walker
  BY SMT DEF Idle, Walker, Ops, Pcs, Component
<1>3. Idle.at = None /\ Idle.old = None /\ Idle.puts = << >>
  BY SMT DEF Idle
<1>4. Uses(Idle, e) = 0
  <2>1. None # e
    BY VfsAssumption
  <2>2. Puts(<< >>, e) = 0
    BY SMT DEF Puts, One
  <2>3. One(Idle.at = e) = 0 /\ One(Idle.old = e) = 0
    BY <1>3, <2>1 DEF One
  <2> QED BY <1>3, <2>2, <2>3, SMT DEF Uses
<1>5. Holders(e) = HoldersOf(th, e)
  BY DEF Holders, HoldersOf
<1>6. /\ HoldersOf(th, e) \in Nat /\ HoldersOf(us, e) \in Nat
      /\ HoldersOf(us, e) = HoldersOf(th, e) + Uses(Idle, e) - Uses(th[t], e)
  <2>1. Moved(th, us, t, Idle, e)
    BY <1>1, <1>2, HoldersMove
  <2> QED BY <2>1 DEF Moved
<1>7. Uses(th[t], e) \in Nat
  BY UsesNat
<1> QED BY <1>4, <1>5, <1>6, <1>7, SMT

-----------------------------------------------------------------------------
(* What Own(es, e) is, and how the changes of the cache move it.           *)
EntryType == [Entry -> FsEntry \cup {None}]

SameShape(es, fs) ==
  \A x \in Entry :
    /\ fs[x] = None <=> es[x] = None
    /\ es[x] # None => /\ fs[x].parent = es[x].parent /\ fs[x].name = es[x].name
                       /\ fs[x].node = es[x].node /\ fs[x].cached = es[x].cached

LEMMA NoneFacts ==
  /\ None \notin Entry /\ None \notin Node /\ None \notin Name /\ None \notin Thread
  /\ None \notin FsEntry /\ None # "dir" /\ None # "file"
  /\ None # "uaf" /\ None # "null" /\ None # "stale"
  /\ RootEntry \in Entry /\ RootNode \in Node
BY VfsAssumption

LEMMA EntryFields ==
  ASSUME NEW es \in EntryType, NEW x \in Entry, es[x] # None
  PROVE  /\ es[x] \in FsEntry /\ es[x].parent \in Entry /\ es[x].name \in Name \cup {None}
         /\ es[x].node \in Node \cup {None} /\ es[x].refcount \in Int /\ es[x].cached \in BOOLEAN
<1>1. es[x] \in FsEntry
  BY DEF EntryType
<1> QED BY <1>1, SMT DEF FsEntry

LEMMA KidsFinite ==
  ASSUME FiniteSetFacts, NEW es, NEW x
  PROVE  IsFiniteSet(KidsOf(es, x)) /\ Cardinality(KidsOf(es, x)) \in Nat
<1>1. KidsOf(es, x) \subseteq Entry
  BY DEF KidsOf
<1>2. IsFiniteSet(Entry)
  BY VfsAssumption
<1>3. IsFiniteSet(KidsOf(es, x))
  BY <1>1, <1>2, SubsetFinite
<1> QED BY <1>3, CardinalityType

LEMMA OwnInt ==
  ASSUME FiniteSetFacts, NEW es \in EntryType, NEW x \in Entry
  PROVE  Own(es, x) \in Int
<1>1. Cardinality(KidsOf(es, x)) \in Nat /\ One(x = RootEntry) \in Nat
  BY KidsFinite DEF One
<1>2. CASE es[x] = None
  BY <1>2, SMT DEF Own
<1>3. CASE es[x] # None
  <2>1. es[x].refcount \in Int
    BY <1>3, EntryFields
  <2>2. Own(es, x) = es[x].refcount - Cardinality(KidsOf(es, x)) - One(x = RootEntry)
    BY <1>3 DEF Own
  <2> QED BY <1>1, <2>1, <2>2, SMT
<1> QED BY <1>2, <1>3

(* The records change in what Own does not look at.                        *)
LEMMA OwnSame ==
  ASSUME NEW es, NEW fs,
         \A x \in Entry : /\ fs[x] = None <=> es[x] = None
                          /\ es[x] # None => fs[x].parent = es[x].parent
                                             /\ fs[x].refcount = es[x].refcount
  PROVE  \A x \in Entry : Own(fs, x) = Own(es, x) /\ KidsOf(fs, x) = KidsOf(es, x)
<1>1. \A x \in Entry : KidsOf(fs, x) = KidsOf(es, x)
  BY DEF KidsOf
<1> QED BY <1>1 DEF Own

(* A count changes.                                                        *)
RefSet(es, fs, y, c) ==
  /\ fs \in EntryType /\ SameShape(es, fs) /\ fs[y].refcount = c
  /\ \A x \in Entry : x # y => fs[x] = es[x]
  /\ \A x \in Entry : x # y => Own(fs, x) = Own(es, x)
  /\ Own(fs, y) = Own(es, y) + (c - es[y].refcount)
  /\ \A x \in Entry : KidsOf(fs, x) = KidsOf(es, x)

LEMMA OwnRef ==
  ASSUME FiniteSetFacts, NEW es \in EntryType, NEW y \in Entry, es[y] # None, NEW c \in Int,
         NEW fs, fs = [es EXCEPT ![y].refcount = c]
  PROVE  RefSet(es, fs, y, c)
<1>1. es[y] \in FsEntry
  BY EntryFields
<1>2. PICK r : r = [es[y] EXCEPT !.refcount = c]
  OBVIOUS
<1>3. /\ r \in FsEntry /\ r.parent = es[y].parent /\ r.name = es[y].name
      /\ r.node = es[y].node /\ r.cached = es[y].cached /\ r.refcount = c
  BY <1>1, <1>2, SMT DEF FsEntry
<1>4. fs = [es EXCEPT ![y] = r]
  BY <1>2
<1>5. fs \in EntryType /\ fs[y] = r /\ \A x \in Entry : x # y => fs[x] = es[x]
  BY <1>3, <1>4, SMT DEF EntryType
<1>6. r # None
  BY <1>3, NoneFacts
<1>7. SameShape(es, fs)
  BY <1>3, <1>5, <1>6 DEF SameShape
<1>8. \A x \in Entry : KidsOf(fs, x) = KidsOf(es, x)
  BY <1>7 DEF KidsOf, SameShape
<1>9. \A x \in Entry : x # y => Own(fs, x) = Own(es, x)
  <2> SUFFICES ASSUME NEW x \in Entry, x # y PROVE Own(fs, x) = Own(es, x)
    OBVIOUS
  <2>1. fs[x] = es[x] /\ KidsOf(fs, x) = KidsOf(es, x)
    BY <1>5, <1>8
  <2> QED BY <2>1 DEF Own
<1>10. Own(fs, y) = Own(es, y) + (c - es[y].refcount)
  <2>1. PICK k, m : k = Cardinality(KidsOf(es, y)) /\ m = One(y = RootEntry)
    OBVIOUS
  <2>2. k \in Nat /\ m \in Nat /\ es[y].refcount \in Int
    BY <2>1, KidsFinite, EntryFields DEF One
  <2>3. Own(es, y) = es[y].refcount - k - m
    BY <2>1 DEF Own
  <2>4. Own(fs, y) = c - k - m
    BY <1>3, <1>5, <1>6, <1>8, <2>1 DEF Own
  <2> QED BY <2>2, <2>3, <2>4, SMT
<1> QED BY <1>3, <1>5, <1>7, <1>8, <1>9, <1>10 DEF RefSet

(* vfs_entry_get.                                                          *)
Gotten(es, fs, y) ==
  /\ fs \in EntryType /\ SameShape(es, fs) /\ fs[y].refcount = es[y].refcount + 1
  /\ \A x \in Entry : x # y => fs[x] = es[x]
  /\ \A x \in Entry : Own(fs, x) = Own(es, x) + One(x = y)
  /\ \A x \in Entry : KidsOf(fs, x) = KidsOf(es, x)

LEMMA OwnGet ==
  ASSUME FiniteSetFacts, NEW es \in EntryType, NEW y \in Entry, es[y] # None,
         NEW fs, fs = Get(es, y)
  PROVE  Gotten(es, fs, y)
<1>1. PICK c : c = es[y].refcount + 1
  OBVIOUS
<1>2. es[y].refcount \in Int
  BY EntryFields
<1>3. c \in Int /\ c - es[y].refcount = 1
  BY <1>1, <1>2, SMT
<1>4. fs = [es EXCEPT ![y].refcount = c]
  BY <1>1 DEF Get
<1>5. /\ fs \in EntryType /\ SameShape(es, fs) /\ fs[y].refcount = c
      /\ \A x \in Entry : x # y => fs[x] = es[x]
      /\ \A x \in Entry : x # y => Own(fs, x) = Own(es, x)
      /\ Own(fs, y) = Own(es, y) + (c - es[y].refcount)
      /\ \A x \in Entry : KidsOf(fs, x) = KidsOf(es, x)
  <2>1. RefSet(es, fs, y, c)
    BY <1>3, <1>4, OwnRef
  <2> QED BY <2>1 DEF RefSet
<1>6. \A x \in Entry : Own(fs, x) = Own(es, x) + One(x = y)
  <2> SUFFICES ASSUME NEW x \in Entry PROVE Own(fs, x) = Own(es, x) + One(x = y)
    OBVIOUS
  <2>1. Own(es, x) \in Int
    BY OwnInt
  <2>2. CASE x = y
    BY <1>3, <1>5, <2>2 DEF One
  <2>3. CASE x # y
    <3>1. Own(fs, x) = Own(es, x) /\ One(x = y) = 0
      BY <1>5, <2>3 DEF One
    <3> QED BY <2>1, <3>1, SMT
  <2> QED BY <2>2, <2>3
<1> QED BY <1>1, <1>5, <1>6 DEF Gotten

(* vfs_entry_create of e with the parent d.                                *)
Created(es, fs, d, e, name, n) ==
  /\ fs \in EntryType /\ fs[e] # None
  /\ fs[e].parent = d /\ fs[e].name = name /\ fs[e].node = n /\ fs[e].cached /\ fs[e].refcount = 1
  /\ \A x \in Entry : x # e =>
       /\ fs[x] = None <=> es[x] = None
       /\ es[x] # None => /\ fs[x].parent = es[x].parent /\ fs[x].name = es[x].name
                          /\ fs[x].node = es[x].node /\ fs[x].cached = es[x].cached
                          /\ x # d => fs[x].refcount = es[x].refcount
  /\ fs[d].refcount = es[d].refcount + 1
  /\ \A x \in Entry : Own(fs, x) = Own(es, x) + One(x = e)
  /\ \A x \in Entry : x # d => KidsOf(fs, x) = KidsOf(es, x)

LEMMA OwnNew ==
  ASSUME FiniteSetFacts, NEW es \in EntryType, NEW d \in Entry, es[d] # None, es[RootEntry] # None,
         NEW e \in Entry, es[e] = None, KidsOf(es, e) = {},
         NEW name \in Name, NEW n \in Node \cup {None},
         NEW fs, fs = [Get(es, d) EXCEPT ![e] = vfs_entry_create(d, name, n)]
  PROVE  Created(es, fs, d, e, name, n)
<1>1. PICK gs : gs = Get(es, d)
  OBVIOUS
<1>2. Gotten(es, gs, d)
  BY <1>1, OwnGet
<1>3. PICK r : r = vfs_entry_create(d, name, n)
  OBVIOUS
<1>4. /\ r \in FsEntry /\ r.parent = d /\ r.name = name /\ r.node = n
      /\ r.refcount = 1 /\ r.cached = TRUE
  BY <1>3, SMT DEF vfs_entry_create, FsEntry
<1>5. gs \in EntryType /\ SameShape(es, gs)
  BY <1>2 DEF Gotten
<1>6. fs = [gs EXCEPT ![e] = r]
  BY <1>1, <1>3
<1>7. fs \in EntryType /\ fs[e] = r /\ \A x \in Entry : x # e => fs[x] = gs[x]
  <2>1. r \in FsEntry /\ gs \in EntryType
    BY <1>4, <1>5
  <2> QED BY ONLY <2>1, <1>6, e \in Entry, SMT DEF EntryType
<1>8. r # None /\ d # e /\ e # RootEntry
  BY <1>4, NoneFacts
<1>9. /\ gs[d].refcount = es[d].refcount + 1
      /\ \A x \in Entry : x # d => gs[x] = es[x]
      /\ \A x \in Entry : Own(gs, x) = Own(es, x) + One(x = d)
      /\ \A x \in Entry : KidsOf(gs, x) = KidsOf(es, x)
  BY <1>2 DEF Gotten
<1>10. \A x \in Entry : x # e =>
         /\ fs[x] = None <=> es[x] = None
         /\ es[x] # None => /\ fs[x].parent = es[x].parent /\ fs[x].name = es[x].name
                            /\ fs[x].node = es[x].node /\ fs[x].cached = es[x].cached
                            /\ x # d => fs[x].refcount = es[x].refcount
  BY <1>5, <1>7, <1>9 DEF SameShape
<1>11. \A x \in Entry : x # d => KidsOf(fs, x) = KidsOf(es, x)
  <2>1. ASSUME NEW x \in Entry, x # d, NEW c \in Entry
        PROVE  (fs[c] # None /\ fs[c].parent = x) <=> (es[c] # None /\ es[c].parent = x)
    <3>1. CASE c = e
      BY <1>4, <1>7, <2>1, <3>1
    <3>2. CASE c # e
      BY <1>10, <2>1, <3>2
    <3> QED BY <3>1, <3>2
  <2>2. ASSUME NEW x \in Entry, x # d, NEW c PROVE c \in KidsOf(fs, x) <=> c \in KidsOf(es, x)
    BY <2>1, <2>2 DEF KidsOf
  <2> QED BY <2>2
<1>12. e \in KidsOf(fs, d) /\ e \notin KidsOf(es, d) /\ KidsOf(fs, d) \ {e} = KidsOf(es, d) \ {e}
  <2>1. e \in KidsOf(fs, d) /\ e \notin KidsOf(es, d)
    BY <1>4, <1>7, <1>8 DEF KidsOf
  <2>2. ASSUME NEW c, c # e PROVE c \in KidsOf(fs, d) <=> c \in KidsOf(es, d)
    BY <1>10, <2>2 DEF KidsOf
  <2> QED BY <2>1, <2>2
<1>13. /\ Cardinality(KidsOf(es, d)) \in Nat
       /\ Cardinality(KidsOf(fs, d)) = Cardinality(KidsOf(es, d)) + 1
  <2>1. IsFiniteSet(KidsOf(es, d)) /\ Cardinality(KidsOf(es, d)) \in Nat
    BY KidsFinite
  <2>2. Cardinality(KidsOf(fs, d)) =
          Cardinality(KidsOf(es, d)) + One(e \in KidsOf(fs, d)) - One(e \in KidsOf(es, d))
    <3>1. Grown(KidsOf(es, d), KidsOf(fs, d), e)
      BY <1>12, <2>1, CardOne
    <3> QED BY <3>1 DEF Grown
  <2>3. One(e \in KidsOf(fs, d)) = 1 /\ One(e \in KidsOf(es, d)) = 0
    BY <1>12 DEF One
  <2> QED BY <2>1, <2>2, <2>3, SMT
<1>14. Own(fs, d) = Own(es, d)
  <2>1. /\ fs[d] # None /\ fs[d].refcount = es[d].refcount + 1
        /\ es[d].refcount \in Int /\ One(d = RootEntry) \in Nat
    BY <1>7, <1>8, <1>9, <1>10, EntryFields, SMT DEF One
  <2>2. Own(fs, d) = fs[d].refcount - Cardinality(KidsOf(fs, d)) - One(d = RootEntry)
    BY <2>1 DEF Own
  <2>3. Own(es, d) = es[d].refcount - Cardinality(KidsOf(es, d)) - One(d = RootEntry)
    BY DEF Own
  <2> QED BY <1>13, <2>1, <2>2, <2>3, SMT
<1>15. Own(fs, e) = 1 /\ Own(es, e) = 0
  <2>1. KidsOf(fs, e) = {} /\ Cardinality({}) = 0 /\ One(e = RootEntry) = 0
    BY <1>8, <1>11, EmptyFinite DEF One
  <2>2. Own(fs, e) = 1 - 0 - 0
    BY <1>4, <1>7, <1>8, <2>1 DEF Own
  <2>3. Own(es, e) = 0
    BY DEF Own
  <2> QED BY <2>2, <2>3, SMT
<1>16. \A x \in Entry : Own(fs, x) = Own(es, x) + One(x = e)
  <2> SUFFICES ASSUME NEW x \in Entry PROVE Own(fs, x) = Own(es, x) + One(x = e)
    OBVIOUS
  <2>1. Own(es, x) \in Int
    BY OwnInt
  <2>2. CASE x = e
    <3>1. One(x = e) = 1
      BY <2>2 DEF One
    <3> QED BY <1>15, <2>2, <3>1, SMT
  <2>3. CASE x # e
    <3>1. One(x = e) = 0
      BY <2>3 DEF One
    <3>2. Own(fs, x) = Own(es, x)
      <4>1. CASE x = d
        BY <1>14, <4>1
      <4>2. CASE x # d
        <5>1. fs[x] = es[x] /\ KidsOf(fs, x) = KidsOf(es, x)
          BY <1>7, <1>9, <1>11, <2>3, <4>2
        <5> QED BY <5>1, SMT DEF Own
      <4> QED BY <4>1, <4>2
    <3> QED BY <2>1, <3>1, <3>2, SMT
  <2> QED BY <2>2, <2>3
<1>17. fs[d].refcount = es[d].refcount + 1
  BY <1>7, <1>8, <1>9
<1> QED BY <1>4, <1>7, <1>8, <1>10, <1>11, <1>16, <1>17 DEF Created

(* vfs_entry_free of e.                                                    *)
Freed(es, fs, e) ==
  /\ fs \in EntryType /\ fs[e] = None /\ KidsOf(es, e) = {} /\ e # RootEntry
  /\ es[e].parent \in Entry /\ es[e].parent # e
  /\ \A x \in Entry : x # e => fs[x] = es[x]
  /\ \A x \in Entry : Own(fs, x) = Own(es, x) + One(x = es[e].parent)
  /\ \A x \in Entry : KidsOf(fs, x) \subseteq KidsOf(es, x)

LEMMA OwnFree ==
  ASSUME FiniteSetFacts, NEW es \in EntryType, NEW e \in Entry, es[e] # None, es[e].refcount = 0,
         Own(es, e) \in Nat, es[es[e].parent] # None,
         NEW fs, fs = [es EXCEPT ![e] = None]
  PROVE  Freed(es, fs, e)
<1>1. PICK p : p = es[e].parent
  OBVIOUS
<1>2. p \in Entry
  BY <1>1, EntryFields
<1>3. fs \in EntryType /\ fs[e] = None /\ \A x \in Entry : x # e => fs[x] = es[x]
  BY SMT DEF EntryType
<1>4. Cardinality(KidsOf(es, e)) = 0 /\ One(e = RootEntry) = 0 /\ Own(es, e) = 0
  <2>1. Cardinality(KidsOf(es, e)) \in Nat /\ One(e = RootEntry) \in Nat
    BY KidsFinite DEF One
  <2>2. Own(es, e) = 0 - Cardinality(KidsOf(es, e)) - One(e = RootEntry)
    BY DEF Own
  <2> QED BY <2>1, <2>2, SMT
<1>5. KidsOf(es, e) = {} /\ e # RootEntry
  <2>1. IsFiniteSet(KidsOf(es, e))
    BY KidsFinite
  <2>2. KidsOf(es, e) = {}
    BY <1>4, <2>1, CardinalityZero
  <2>3. e # RootEntry
    <3>1. 0 # 1
      BY SMT
    <3> QED BY <1>4, <3>1 DEF One
  <2> QED BY <2>2, <2>3
<1>6. p # e
  BY <1>1, <1>5 DEF KidsOf
<1>7. \A x \in Entry : KidsOf(fs, x) = KidsOf(es, x) \ {e}
  <2>1. ASSUME NEW x \in Entry, NEW c PROVE c \in KidsOf(fs, x) <=> c \in KidsOf(es, x) \ {e}
    BY <1>3 DEF KidsOf
  <2> QED BY <2>1
<1>8. \A x \in Entry : x # p => e \notin KidsOf(es, x)
  BY <1>1 DEF KidsOf
<1>9. e \in KidsOf(es, p)
  BY <1>1, <1>5 DEF KidsOf
<1>10. /\ Cardinality(KidsOf(es, p)) \in Nat
       /\ Cardinality(KidsOf(fs, p)) = Cardinality(KidsOf(es, p)) - 1
  <2>1. IsFiniteSet(KidsOf(es, p)) /\ Cardinality(KidsOf(es, p)) \in Nat
    BY KidsFinite
  <2>2. KidsOf(fs, p) = KidsOf(es, p) \ {e}
    BY <1>2, <1>7
  <2> QED BY <1>9, <2>1, <2>2, RemoveElement
<1>11. Own(fs, p) = Own(es, p) + 1
  <2>1. fs[p] = es[p] /\ es[p].refcount \in Int /\ One(p = RootEntry) \in Nat
    BY <1>1, <1>2, <1>3, <1>6, EntryFields DEF One
  <2>2. Own(fs, p) = es[p].refcount - Cardinality(KidsOf(fs, p)) - One(p = RootEntry)
    BY <1>1, <2>1 DEF Own
  <2>3. Own(es, p) = es[p].refcount - Cardinality(KidsOf(es, p)) - One(p = RootEntry)
    BY <1>1 DEF Own
  <2> QED BY <1>10, <2>1, <2>2, <2>3, SMT
<1>12. \A x \in Entry : x # p => Own(fs, x) = Own(es, x)
  <2> SUFFICES ASSUME NEW x \in Entry, x # p PROVE Own(fs, x) = Own(es, x)
    OBVIOUS
  <2>1. CASE x = e
    BY <1>3, <1>4, <2>1 DEF Own
  <2>2. CASE x # e
    <3>1. KidsOf(fs, x) = KidsOf(es, x) /\ fs[x] = es[x]
      BY <1>3, <1>7, <1>8, <2>2
    <3> QED BY <3>1 DEF Own
  <2> QED BY <2>1, <2>2
<1>13. \A x \in Entry : Own(fs, x) = Own(es, x) + One(x = p)
  <2> SUFFICES ASSUME NEW x \in Entry PROVE Own(fs, x) = Own(es, x) + One(x = p)
    OBVIOUS
  <2>1. CASE x = p
    BY <1>11, <2>1 DEF One
  <2>2. CASE x # p
    <3>1. Own(fs, x) = Own(es, x) /\ One(x = p) = 0 /\ Own(es, x) \in Int
      BY <1>12, <2>2, OwnInt DEF One
    <3> QED BY <3>1, SMT
  <2> QED BY <2>1, <2>2
<1>14. \A x \in Entry : KidsOf(fs, x) \subseteq KidsOf(es, x)
  BY <1>7
<1> QED BY <1>1, <1>2, <1>3, <1>5, <1>6, <1>13, <1>14 DEF Freed

-----------------------------------------------------------------------------
(* A step keeps the counts if the entries' own counts move as what the     *)
(* thread uses and what is forgotten do.                                   *)
LEMMA CountStep ==
  ASSUME FiniteSetFacts, TypeOK, Counted, NEW t \in Thread, NEW r \in Walker, th' = [th EXCEPT ![t] = r],
         leaked' \in [Entry -> Nat],
         \A x \in Entry : Own(entry', x) = Own(entry, x) + (Uses(r, x) + leaked'[x])
                                                         - (Uses(th[t], x) + leaked[x]),
         \A x \in Entry : entry'[x] = None => KidsOf(entry', x) = {},
         \A x \in Entry : entry'[x] # None /\ entry'[x].refcount = 0 =>
            \/ r.zero = x
            \/ entry[x] # None /\ entry[x].refcount = 0 /\ th[t].zero # x
  PROVE  Counted'
<1> SUFFICES ASSUME NEW x \in Entry
             PROVE  /\ Own(entry', x) = Holders(x)' + leaked'[x]
                    /\ entry'[x] = None => KidsOf(entry', x) = {}
                    /\ entry'[x] # None /\ entry'[x].refcount = 0 =>
                         \E u \in Thread : th'[u].zero = x
  BY DEF Counted
<1>0. th \in [Thread -> Walker] /\ leaked \in [Entry -> Nat]
  BY DEF TypeOK
<1>1. /\ Holders(x) \in Nat /\ Holders(x)' \in Nat
      /\ Holders(x)' = Holders(x) + Uses(r, x) - Uses(th[t], x)
  BY <1>0, HoldersStep
<1>2. Own(entry, x) = Holders(x) + leaked[x]
  BY DEF Counted
<1>3. leaked[x] \in Nat /\ leaked'[x] \in Nat /\ Uses(r, x) \in Nat /\ Uses(th[t], x) \in Nat
  BY <1>0, UsesNat
<1>4. Own(entry', x) = Own(entry, x) + (Uses(r, x) + leaked'[x]) - (Uses(th[t], x) + leaked[x])
  OBVIOUS
<1>5. Own(entry', x) = Holders(x)' + leaked'[x]
  BY <1>1, <1>2, <1>3, <1>4, SMT
<1>6. th'[t] = r /\ \A u \in Thread : u # t => th'[u] = th[u]
  BY <1>0
<1>7. ASSUME entry'[x] # None, entry'[x].refcount = 0
      PROVE  \E u \in Thread : th'[u].zero = x
  <2>1. CASE r.zero = x
    BY <1>6, <2>1
  <2>2. CASE entry[x] # None /\ entry[x].refcount = 0 /\ th[t].zero # x
    <3>1. PICK u \in Thread : th[u].zero = x
      BY <2>2 DEF Counted
    <3>2. u # t
      BY <2>2, <3>1
    <3> QED BY <1>6, <3>1, <3>2
  <2> QED BY <1>7, <2>1, <2>2
<1> QED BY <1>5, <1>7

(* What a thread uses is not free.                                         *)
LEMMA UsedInUse ==
  ASSUME FiniteSetFacts, TypeOK, Counted, NEW t \in Thread, NEW x \in Entry, Uses(th[t], x) # 0
  PROVE  entry[x] # None /\ Own(entry, x) # 0
<1>1. Holders(x) \in Nat /\ Holders(x) >= Uses(th[t], x) /\ Uses(th[t], x) \in Nat
  BY HoldersUses, UsesNat DEF TypeOK
<1>2. leaked[x] \in Nat
  BY DEF TypeOK
<1>3. Own(entry, x) = Holders(x) + leaked[x]
  BY DEF Counted
<1>4. Own(entry, x) # 0
  BY <1>1, <1>2, <1>3, SMT
<1> QED BY <1>4 DEF Own

LEMMA AtInUse ==
  ASSUME FiniteSetFacts, TypeOK, Counted, NEW t \in Thread, th[t].at \in Entry
  PROVE  entry[th[t].at] # None /\ Own(entry, th[t].at) # 0
<1>1. One(th[t].at = th[t].at) = 1
  BY DEF One
<1>2. One(th[t].old = th[t].at) \in Nat /\ Puts(th[t].puts, th[t].at) \in Nat
  BY PutsNat DEF One
<1>3. Uses(th[t], th[t].at) # 0
  BY <1>1, <1>2, SMT DEF Uses
<1> QED BY <1>3, UsedInUse

LEMMA OldInUse ==
  ASSUME FiniteSetFacts, TypeOK, Counted, NEW t \in Thread, th[t].old \in Entry
  PROVE  entry[th[t].old] # None
<1>1. One(th[t].old = th[t].old) = 1
  BY DEF One
<1>2. One(th[t].at = th[t].old) \in Nat /\ Puts(th[t].puts, th[t].old) \in Nat
  BY PutsNat DEF One
<1>3. Uses(th[t], th[t].old) # 0
  BY <1>1, <1>2, SMT DEF Uses
<1> QED BY <1>3, UsedInUse

(* The parents of entries are not free.                                    *)
LEMMA ParentInUse ==
  ASSUME TypeOK, Tree(entry, kind, dir), NEW e \in Entry, entry[e] # None
  PROVE  entry[e].parent \in Entry /\ entry[entry[e].parent] # None
<1>1. CASE e = RootEntry
  BY <1>1, NoneFacts DEF Tree, RootIs
<1>2. CASE e # RootEntry
  BY <1>2 DEF Tree, Named
<1> QED BY <1>1, <1>2

-----------------------------------------------------------------------------
(* The counts are no part of the shape.                                    *)
LEMMA ShapeTree ==
  ASSUME NEW es \in EntryType, NEW fs, NEW kd, NEW dr, SameShape(es, fs), Tree(es, kd, dr)
  PROVE  Tree(fs, kd, dr)
<1>1. RootIs(fs, kd)
  BY NoneFacts DEF Tree, RootIs, SameShape
<1>2. Named(fs, kd)
  <2> SUFFICES ASSUME NEW e \in Entry, e # RootEntry, fs[e] # None
               PROVE  /\ fs[e].name \in Name /\ fs[e].parent \in Entry /\ fs[fs[e].parent] # None
                      /\ fs[fs[e].parent].node # None /\ kd[fs[fs[e].parent].node] = "dir"
    BY DEF Named
  <2>1. es[e] # None /\ fs[e].name = es[e].name /\ fs[e].parent = es[e].parent
    BY DEF SameShape
  <2>2. /\ es[e].name \in Name /\ es[e].parent \in Entry /\ es[es[e].parent] # None
        /\ es[es[e].parent].node # None /\ kd[es[es[e].parent].node] = "dir"
    BY <2>1 DEF Tree, Named
  <2>3. fs[es[e].parent] # None /\ fs[es[e].parent].node = es[es[e].parent].node
    BY <2>2 DEF SameShape
  <2> QED BY <2>1, <2>2, <2>3
<1>3. NodesUsed(fs, kd)
  BY DEF Tree, NodesUsed, SameShape
<1>4. OneEntry(fs, kd)
  BY DEF Tree, OneEntry, SameShape
<1>5. OneName(fs)
  <2>1. OneName(es)
    BY DEF Tree
  <2> QED BY ONLY <2>1, SameShape(es, fs) DEF OneName, SameShape
<1>6. Agree(fs, dr)
  <2> SUFFICES ASSUME NEW e \in Entry, e # RootEntry, fs[e] # None, fs[e].cached
               PROVE  dr[fs[fs[e].parent].node][fs[e].name] = fs[e].node
    BY DEF Agree
  <2>1. es[e] # None /\ fs[e].name = es[e].name /\ fs[e].parent = es[e].parent
        /\ es[e].cached /\ fs[e].node = es[e].node
    BY DEF SameShape
  <2>2. es[e].parent \in Entry /\ es[es[e].parent] # None
    BY <2>1 DEF Tree, Named
  <2>3. fs[es[e].parent].node = es[es[e].parent].node
    BY <2>2 DEF SameShape
  <2>4. dr[es[es[e].parent].node][es[e].name] = es[e].node
    BY <2>1 DEF Tree, Agree
  <2> QED BY <2>1, <2>3, <2>4
<1>7. Detached(fs, kd, dr)
  <2>1. Detached(es, kd, dr)
    BY DEF Tree
  <2> QED BY ONLY <2>1, SameShape(es, fs) DEF Detached, SameShape
<1>8. DirsUsed(kd, dr) /\ OneDir(kd, dr)
  BY DEF Tree
<1> QED BY <1>1, <1>2, <1>3, <1>4, <1>5, <1>6, <1>7, <1>8 DEF Tree

(* So long as nodes are only given, the stages of the others stand.        *)
LEMMA StagesStep ==
  ASSUME FiniteSetFacts, TypeOK, Counted, Stages, NEW t \in Thread, NEW r, th' = [th EXCEPT ![t] = r],
         \A x \in Entry : Own(entry, x) # 0 /\ entry[x].node # None => entry'[x].node # None,
         Stage(entry', r)
  PROVE  Stages'
<1>0. th \in [Thread -> Walker]
  BY DEF TypeOK
<1> SUFFICES ASSUME NEW u \in Thread PROVE Stage(entry', th'[u])
  BY DEF Stages
<1>1. CASE u = t
  BY <1>0, <1>1
<1>2. CASE u # t
  <2>1. th'[u] = th[u]
    BY <1>0, <1>2
  <2>2. Stage(entry, th[u])
    BY DEF Stages
  <2>3. ASSUME th[u].pc \in {"lookup", "make"} PROVE entry'[th[u].at].node # None
    <3>1. th[u].pc # "idle"
      BY <2>3, SMT
    <3>2. th[u].at \in Entry /\ entry[th[u].at].node # None
      BY <2>2, <2>3, <3>1 DEF Stage
    <3>3. Own(entry, th[u].at) # 0
      BY <3>2, AtInUse
    <3> QED BY <3>2, <3>3
  <2> QED BY <2>1, <2>2, <2>3 DEF Stage
<1> QED BY <1>1, <1>2

-----------------------------------------------------------------------------
(* The references of a thread, as its records are built.                   *)
LEMMA PutsList ==
  /\ \A e : Puts(<< >>, e) = 0
  /\ \A e, a : Puts(<<a>>, e) = One(a = e)
  /\ \A e, a, b : Puts(<<a, b>>, e) = One(a = e) + One(b = e)
<1>1. ASSUME NEW e PROVE Puts(<< >>, e) = 0
  BY SMT DEF Puts, One
<1>2. ASSUME NEW e, NEW a PROVE Puts(<<a>>, e) = One(a = e)
  BY SMT DEF Puts, One
<1>3. ASSUME NEW e, NEW a, NEW b PROVE Puts(<<a, b>>, e) = One(a = e) + One(b = e)
  BY SMT DEF Puts, One
<1> QED BY <1>1, <1>2, <1>3

LEMMA Pair ==
  ASSUME NEW a \in Entry, NEW b \in Entry
  PROVE  <<a>> \o <<b>> = <<a, b>>
<1>1. PICK u : u = <<a>> \o <<b>>
  OBVIOUS
<1>2. u \in Seq(Entry) /\ Len(u) = 2 /\ u[1] = a /\ u[2] = b
  BY <1>1, SMT
<1>3. u = <<u[1], u[2]>>
  BY <1>2, SMT
<1> QED BY <1>1, <1>2, <1>3

LEMMA PutsTail ==
  ASSUME NEW s \in Seq(Entry), s # << >>, Len(s) <= 3, NEW e
  PROVE  /\ Puts(s, e) = One(Head(s) = e) + Puts(Tail(s), e)
         /\ Head(s) \in Entry /\ Tail(s) \in Seq(Entry) /\ Len(Tail(s)) = Len(s) - 1
<1>1. Head(s) \in Entry /\ Tail(s) \in Seq(Entry) /\ Len(Tail(s)) = Len(s) - 1 /\ Head(s) = s[1]
  BY SMT
<1>2. Len(s) \in Nat /\ Len(s) >= 1
  BY SMT
<1>3. PICK u : u = Tail(s)
  OBVIOUS
<1>4. (1 <= Len(s) /\ s[1] = e) <=> Head(s) = e
  BY <1>1, <1>2
<1>5. (2 <= Len(s) /\ s[2] = e) <=> (1 <= Len(u) /\ u[1] = e)
  <2>1. 2 <= Len(s) <=> 1 <= Len(u)
    BY <1>1, <1>2, <1>3, SMT
  <2>2. 2 <= Len(s) => u[1] = s[2]
    BY <1>3, SMT
  <2> QED BY <2>1, <2>2
<1>6. (3 <= Len(s) /\ s[3] = e) <=> (2 <= Len(u) /\ u[2] = e)
  <2>1. 3 <= Len(s) <=> 2 <= Len(u)
    BY <1>1, <1>2, <1>3, SMT
  <2>2. 3 <= Len(s) => u[2] = s[3]
    BY <1>3, SMT
  <2> QED BY <2>1, <2>2
<1>7. ~(3 <= Len(u) /\ u[3] = e)
  BY <1>1, <1>2, <1>3, SMT
<1>8. PICK x, y, z : /\ x = One(Head(s) = e) /\ y = One(1 <= Len(u) /\ u[1] = e)
                     /\ z = One(2 <= Len(u) /\ u[2] = e)
  OBVIOUS
<1>9. Puts(s, e) = x + y + z
  BY <1>4, <1>5, <1>6, <1>8 DEF Puts, One
<1>10. Puts(u, e) = y + z + 0
  BY <1>7, <1>8 DEF Puts, One
<1>11. x \in Nat /\ y \in Nat /\ z \in Nat
  BY <1>8 DEF One
<1>12. Puts(s, e) = x + Puts(u, e)
  BY <1>9, <1>10, <1>11, SMT
<1> QED BY <1>1, <1>3, <1>8, <1>12

LEMMA PutsCons ==
  ASSUME NEW s \in Seq(Entry), Len(s) <= 2, NEW a \in Entry, NEW e
  PROVE  /\ Puts(<<a>> \o s, e) = One(a = e) + Puts(s, e)
         /\ <<a>> \o s \in Seq(Entry) /\ Len(<<a>> \o s) = Len(s) + 1
<1>1. PICK u : u = <<a>> \o s
  OBVIOUS
<1>2. u \in Seq(Entry) /\ Len(u) = Len(s) + 1 /\ u[1] = a
  BY <1>1, SMT
<1>3. u # << >> /\ Head(u) = a /\ Len(u) <= 3
  BY <1>2, SMT
<1>4. Tail(u) = s
  BY <1>1, SMT
<1>5. Puts(u, e) = One(Head(u) = e) + Puts(Tail(u), e)
  BY <1>2, <1>3, PutsTail
<1> QED BY <1>1, <1>2, <1>3, <1>4, <1>5

LEMMA PutsAppend ==
  ASSUME NEW s \in Seq(Entry), Len(s) <= 2, NEW a \in Entry, NEW e
  PROVE  Puts(Append(s, a), e) = Puts(s, e) + One(a = e)
<1>1. PICK u : u = Append(s, a)
  OBVIOUS
<1>2. /\ Len(s) \in Nat /\ Len(u) = Len(s) + 1 /\ u[Len(s) + 1] = a
      /\ \A i \in 1..Len(s) : u[i] = s[i]
  BY <1>1, SMT
<1>3. Len(s) = 0 \/ Len(s) = 1 \/ Len(s) = 2
  <2>1. PICK n : n = Len(s)
    OBVIOUS
  <2>2. n \in Nat /\ n <= 2
    BY <1>2, <2>1
  <2>3. n = 0 \/ n = 1 \/ n = 2
    BY <2>2, SMT
  <2> QED BY <2>1, <2>3
<1>4. CASE Len(s) = 0
  BY <1>1, <1>2, <1>4, SMT DEF Puts, One
<1>5. CASE Len(s) = 1
  <2>1. Len(u) = 2 /\ u[1] = s[1] /\ u[2] = a
    BY <1>2, <1>5, SMT
  <2> QED BY <1>1, <1>5, <2>1, SMT DEF Puts, One
<1>6. CASE Len(s) = 2
  <2>1. Len(u) = 3 /\ u[1] = s[1] /\ u[2] = s[2] /\ u[3] = a
    BY <1>2, <1>6, SMT
  <2> QED BY <1>1, <1>6, <2>1, SMT DEF Puts, One
<1> QED BY <1>3, <1>4, <1>5, <1>6

LEMMA WalkerFields ==
  ASSUME NEW r \in Walker
  PROVE  /\ r.op \in Ops /\ r.pc \in Pcs /\ r.path \in Seq(Component) /\ r.at \in Entry \cup {None}
         /\ r.old \in Entry \cup {None} /\ r.puts \in Seq(Entry) /\ r.zero \in Entry \cup {None}
BY SMT DEF Walker

(* r is the record of its fields; so are its updates.                      *)
IsRec(r) ==
  r = [op |-> r.op, pc |-> r.pc, path |-> r.path, at |-> r.at, old |-> r.old,
       puts |-> r.puts, zero |-> r.zero]

(* An update of such a record is one.                                      *)
LEMMA RecSet ==
  ASSUME NEW w, IsRec(w), NEW v
  PROVE  /\ IsRec([w EXCEPT !.op = v])
         /\ IsRec([w EXCEPT !.pc = v])
         /\ IsRec([w EXCEPT !.path = v])
         /\ IsRec([w EXCEPT !.at = v])
         /\ IsRec([w EXCEPT !.old = v])
         /\ IsRec([w EXCEPT !.puts = v])
         /\ IsRec([w EXCEPT !.zero = v])
<1>1. ASSUME NEW r, r = [w EXCEPT !.op = v] PROVE IsRec(r)
  BY <1>1, SMT DEF IsRec
<1>2. ASSUME NEW r, r = [w EXCEPT !.pc = v] PROVE IsRec(r)
  BY <1>2, SMT DEF IsRec
<1>3. ASSUME NEW r, r = [w EXCEPT !.path = v] PROVE IsRec(r)
  BY <1>3, SMT DEF IsRec
<1>4. ASSUME NEW r, r = [w EXCEPT !.at = v] PROVE IsRec(r)
  BY <1>4, SMT DEF IsRec
<1>5. ASSUME NEW r, r = [w EXCEPT !.old = v] PROVE IsRec(r)
  BY <1>5, SMT DEF IsRec
<1>6. ASSUME NEW r, r = [w EXCEPT !.puts = v] PROVE IsRec(r)
  BY <1>6, SMT DEF IsRec
<1>7. ASSUME NEW r, r = [w EXCEPT !.zero = v] PROVE IsRec(r)
  BY <1>7, SMT DEF IsRec
<1> QED BY <1>1, <1>2, <1>3, <1>4, <1>5, <1>6, <1>7

LEMMA WalkerRec ==
  ASSUME NEW r \in Walker
  PROVE  IsRec(r)
BY SMT DEF Walker, IsRec

LEMMA WalkerIs ==
  ASSUME NEW r, IsRec(r),
         r.op \in Ops, r.pc \in Pcs, r.path \in Seq(Component), r.at \in Entry \cup {None},
         r.old \in Entry \cup {None}, r.puts \in Seq(Entry), r.zero \in Entry \cup {None}
  PROVE  r \in Walker
BY SMT DEF Walker, IsRec

LEMMA IdleFields ==
  /\ Idle \in Walker /\ Idle.op = "idle" /\ Idle.pc = "idle" /\ Idle.path = << >>
  /\ Idle.at = None /\ Idle.old = None /\ Idle.puts = << >> /\ Idle.zero = None
BY SMT DEF Idle, Walker, Ops, Pcs, Component

LEMMA AtUses ==
  ASSUME NEW t \in Thread, th[t].puts = << >>, NEW x
  PROVE  Uses(th[t], x) = One(th[t].at = x) + One(th[t].old = x)
<1>1. Puts(th[t].puts, x) = 0
  BY PutsList
<1>2. One(th[t].at = x) \in Nat /\ One(th[t].old = x) \in Nat
  BY DEF One
<1> QED BY <1>1, <1>2, SMT DEF Uses

(* A thread that stops still uses what it used, to put it.                 *)
LEMMA StoppedFacts ==
  ASSUME TypeOK, NEW t \in Thread, th[t].at \in Entry
  PROVE  /\ Stopped(t) \in Walker /\ Stopped(t).op = "idle" /\ Stopped(t).pc = "idle"
         /\ Stopped(t).path = << >> /\ Stopped(t).at = None /\ Stopped(t).old = None
         /\ Stopped(t).zero = None /\ Len(Stopped(t).puts) <= 2
         /\ \A x \in Entry : Uses(Stopped(t), x) = One(th[t].at = x) + One(th[t].old = x)
<1>1. PICK a : a = th[t].at
  OBVIOUS
<1>2. PICK s : s = <<th[t].at>> \o (IF th[t].old = None THEN << >> ELSE <<th[t].old>>)
  OBVIOUS
<1>3. th[t].old \in Entry \cup {None}
  BY WalkerFields DEF TypeOK
<1>4. /\ s \in Seq(Entry) /\ Len(s) <= 2
      /\ \A x \in Entry : Puts(s, x) = One(a = x) + One(th[t].old = x)
  <2>1. CASE th[t].old = None
    <3>1. s = <<a>>
      BY <1>1, <1>2, <2>1, SMT
    <3>2. ASSUME NEW x \in Entry PROVE Puts(s, x) = One(a = x) + One(th[t].old = x)
      <4>1. Puts(s, x) = One(a = x)
        BY <3>1, PutsList
      <4>2. One(th[t].old = x) = 0 /\ One(a = x) \in Nat
        BY <2>1, NoneFacts DEF One
      <4> QED BY <4>1, <4>2, SMT
    <3>3. s \in Seq(Entry) /\ Len(s) <= 2
      BY <1>1, <3>1, SMT
    <3> QED BY <3>2, <3>3
  <2>2. CASE th[t].old # None
    <3>1. s = <<a, th[t].old>>
      <4>1. PICK b \in Entry : b = th[t].old
        BY <1>3, <2>2
      <4>2. s = <<a>> \o <<b>>
        BY <1>1, <1>2, <2>2, <4>1
      <4>3. s = <<a, b>>
        BY <1>1, <4>2, Pair
      <4> QED BY <4>1, <4>3
    <3>2. ASSUME NEW x \in Entry PROVE Puts(s, x) = One(a = x) + One(th[t].old = x)
      BY <3>1, PutsList, SMT
    <3>3. s \in Seq(Entry) /\ Len(s) <= 2
      BY <1>1, <1>3, <2>2, <3>1, SMT
    <3> QED BY <3>2, <3>3
  <2> QED BY <2>1, <2>2
<1>5. Stopped(t) = [Idle EXCEPT !.puts = s]
  BY <1>2 DEF Stopped
<1>6. /\ Stopped(t) \in Walker /\ Stopped(t).op = "idle" /\ Stopped(t).pc = "idle"
      /\ Stopped(t).path = << >> /\ Stopped(t).at = None /\ Stopped(t).old = None
      /\ Stopped(t).zero = None /\ Stopped(t).puts = s
  <2>1. PICK r : r = [Idle EXCEPT !.puts = s]
    OBVIOUS
  <2>2. /\ IsRec(r) /\ r.op = Idle.op /\ r.pc = Idle.pc /\ r.path = Idle.path
        /\ r.at = Idle.at /\ r.old = Idle.old /\ r.zero = Idle.zero /\ r.puts = s
    BY <2>1, IdleFields, SMT DEF Walker, IsRec
  <2>3. r \in Walker
    BY <1>4, <2>2, IdleFields, WalkerFields, WalkerIs
  <2> QED BY <1>5, <2>1, <2>2, <2>3, IdleFields
<1>7. ASSUME NEW x \in Entry
      PROVE  Uses(Stopped(t), x) = One(th[t].at = x) + One(th[t].old = x)
  <2>1. One(Stopped(t).at = x) = 0 /\ One(Stopped(t).old = x) = 0
    BY <1>6, NoneFacts DEF One
  <2>2. Puts(Stopped(t).puts, x) = One(a = x) + One(th[t].old = x)
    BY <1>4, <1>6
  <2>3. One(a = x) \in Nat /\ One(th[t].old = x) \in Nat
    BY DEF One
  <2> QED BY <1>1, <2>1, <2>2, <2>3, SMT DEF Uses
<1> QED BY <1>4, <1>6, <1>7

-----------------------------------------------------------------------------
LEMMA HoldersNat ==
  ASSUME FiniteSetFacts, th \in [Thread -> Walker], NEW x
  PROVE  Holders(x) \in Nat
<1>1. /\ IsFiniteSet({t \in Thread : th[t].at = x}) /\ IsFiniteSet({t \in Thread : th[t].old = x})
      /\ IsFiniteSet({y \in Thread \X (1..3) : y[2] <= Len(th[y[1]].puts) /\ th[y[1]].puts[y[2]] = x})
  <2>1. IsFiniteSet(Thread)
    BY VfsAssumption
  <2>2. IsFiniteSet(1..3)
    <3>1. 1 \in Int /\ 3 \in Int
      BY SMT
    <3> QED BY <3>1, IntervalFinite
  <2>3. IsFiniteSet(Thread \X (1..3))
    BY <2>1, <2>2, ProductFinite
  <2>4. {t \in Thread : th[t].at = x} \subseteq Thread /\ {t \in Thread : th[t].old = x} \subseteq Thread
    OBVIOUS
  <2>5. {y \in Thread \X (1..3) : y[2] <= Len(th[y[1]].puts) /\ th[y[1]].puts[y[2]] = x}
          \subseteq Thread \X (1..3)
    OBVIOUS
  <2> QED BY <2>1, <2>3, <2>4, <2>5, SubsetFinite
<1>2. /\ Cardinality({t \in Thread : th[t].at = x}) \in Nat
      /\ Cardinality({t \in Thread : th[t].old = x}) \in Nat
      /\ Cardinality({y \in Thread \X (1..3) : y[2] <= Len(th[y[1]].puts) /\ th[y[1]].puts[y[2]] = x}) \in Nat
  BY <1>1, CardinalityType
<1> QED BY <1>2, SMT DEF Holders

(* The counts are no less than zero.                                       *)
LEMMA RefNat ==
  ASSUME FiniteSetFacts, TypeOK, Counted, NEW x \in Entry, entry[x] # None
  PROVE  entry[x].refcount \in Nat /\ (x = RootEntry => entry[x].refcount # 0)
<1>1. entry \in EntryType /\ th \in [Thread -> Walker] /\ leaked[x] \in Nat
  BY DEF TypeOK, EntryType
<1>2. Holders(x) \in Nat
  BY <1>1, HoldersNat
<1>3. Cardinality(KidsOf(entry, x)) \in Nat /\ One(x = RootEntry) \in Nat /\ entry[x].refcount \in Int
  BY <1>1, KidsFinite, EntryFields DEF One
<1>4. Own(entry, x) = entry[x].refcount - Cardinality(KidsOf(entry, x)) - One(x = RootEntry)
  BY DEF Own
<1>5. Own(entry, x) = Holders(x) + leaked[x]
  BY DEF Counted
<1>6. entry[x].refcount \in Nat
  BY <1>1, <1>2, <1>3, <1>4, <1>5, SMT
<1>7. ASSUME x = RootEntry PROVE entry[x].refcount # 0
  <2>1. One(x = RootEntry) = 1
    BY <1>7 DEF One
  <2> QED BY <1>1, <1>2, <1>3, <1>4, <1>5, <2>1, SMT
<1> QED BY <1>6, <1>7

-----------------------------------------------------------------------------
(* Steps that change counts only.                                          *)
LEMMA StageShape ==
  ASSUME NEW es, NEW fs, SameShape(es, fs), NEW r, Stage(es, r)
  PROVE  Stage(fs, r)
<1>1. ASSUME r.pc \in {"lookup", "make"} PROVE fs[r.at].node # None
  <2>1. r.pc # "idle"
    BY <1>1, SMT
  <2>2. r.at \in Entry /\ es[r.at].node # None
    BY <1>1, <2>1 DEF Stage
  <2> QED BY <2>2 DEF SameShape
<1> QED BY <1>1 DEF Stage

LEMMA ShapeStep ==
  ASSUME FiniteSetFacts, Inv, NEW t \in Thread, NEW r \in Walker, th' = [th EXCEPT ![t] = r],
         entry' \in EntryType, SameShape(entry, entry'),
         kind' = kind, dir' = dir, leaked' = leaked,
         \A x \in Entry : Own(entry', x) = Own(entry, x) + Uses(r, x) - Uses(th[t], x),
         \A x \in Entry : entry'[x] # None /\ entry'[x].refcount = 0 =>
            \/ r.zero = x
            \/ entry[x] # None /\ entry[x].refcount = 0 /\ th[t].zero # x,
         Stage(entry, r)
  PROVE  Inv'
<1>1. TypeOK /\ Counted /\ Stages /\ Tree(entry, kind, dir)
  BY DEF Inv
<1>2. th \in [Thread -> Walker] /\ leaked \in [Entry -> Nat] /\ entry \in EntryType
  BY <1>1 DEF TypeOK, EntryType
<1>3. TypeOK'
  <2>1. th' \in [Thread -> Walker]
    BY <1>2
  <2> QED BY <1>1, <2>1 DEF TypeOK, EntryType
<1>4. \A x \in Entry : entry'[x] = None => KidsOf(entry', x) = {}
  <2>1. \A x \in Entry : KidsOf(entry', x) = KidsOf(entry, x)
    <3>1. ASSUME NEW x \in Entry, NEW c PROVE c \in KidsOf(entry', x) <=> c \in KidsOf(entry, x)
      BY DEF KidsOf, SameShape
    <3> QED BY <3>1
  <2>2. \A x \in Entry : entry[x] = None => KidsOf(entry, x) = {}
    BY <1>1 DEF Counted
  <2> QED BY <2>1, <2>2 DEF SameShape
<1>5. ASSUME NEW x \in Entry
      PROVE  Own(entry', x) = Own(entry, x) + (Uses(r, x) + leaked'[x]) - (Uses(th[t], x) + leaked[x])
  <2>1. Own(entry', x) = Own(entry, x) + Uses(r, x) - Uses(th[t], x)
    OBVIOUS
  <2>2. Own(entry, x) \in Int /\ Uses(r, x) \in Nat /\ Uses(th[t], x) \in Nat
        /\ leaked[x] \in Nat /\ leaked'[x] = leaked[x]
    BY <1>2, OwnInt, UsesNat
  <2> QED BY <2>1, <2>2, SMT
<1>6. Counted'
  BY <1>1, <1>2, <1>4, <1>5, CountStep
<1>7. Stage(entry', r)
  BY StageShape
<1>8. Stages'
  <2>1. \A x \in Entry : Own(entry, x) # 0 /\ entry[x].node # None => entry'[x].node # None
    BY DEF SameShape, Own
  <2> QED BY <1>1, <1>7, <2>1, StagesStep
<1>9. Tree(entry', kind', dir')
  BY <1>1, <1>2, ShapeTree
<1> QED BY <1>3, <1>6, <1>8, <1>9 DEF Inv

(* The entries stand; the thread uses what it used.                        *)
LEMMA KeepStep ==
  ASSUME FiniteSetFacts, Inv, NEW t \in Thread, NEW r \in Walker, th' = [th EXCEPT ![t] = r],
         entry' = entry, kind' = kind, dir' = dir, leaked' = leaked,
         th[t].zero = None \/ (th[t].zero \in Entry /\ entry[th[t].zero].refcount # 0),
         \A x \in Entry : Uses(r, x) = Uses(th[t], x),
         Stage(entry, r)
  PROVE  Inv'
<1>1. entry \in EntryType
  BY DEF Inv, TypeOK, EntryType
<1>2. SameShape(entry, entry')
  BY DEF SameShape
<1>3. ASSUME NEW x \in Entry PROVE Own(entry', x) = Own(entry, x) + Uses(r, x) - Uses(th[t], x)
  <2>1. Uses(r, x) = Uses(th[t], x) /\ Uses(r, x) \in Nat /\ Own(entry, x) \in Int
        /\ Own(entry', x) = Own(entry, x)
    BY <1>1, UsesNat, OwnInt
  <2> QED BY <2>1, SMT
<1>4. ASSUME NEW x \in Entry, entry'[x] # None, entry'[x].refcount = 0
      PROVE  entry[x] # None /\ entry[x].refcount = 0 /\ th[t].zero # x
  BY <1>4, NoneFacts
<1>5. entry' \in EntryType
  BY <1>1
<1> QED BY <1>2, <1>3, <1>4, <1>5, ShapeStep

(* vfs_entry_get of an entry in use, for the thread.                       *)
LEMMA GetStep ==
  ASSUME FiniteSetFacts, Inv, NEW t \in Thread, NEW r \in Walker, th' = [th EXCEPT ![t] = r],
         NEW y \in Entry, entry[y] # None, entry' = Get(entry, y),
         kind' = kind, dir' = dir, leaked' = leaked, th[t].zero = None,
         \A x \in Entry : Uses(r, x) = Uses(th[t], x) + One(x = y),
         Stage(entry, r)
  PROVE  Inv'
<1>1. entry \in EntryType /\ TypeOK /\ Counted
  BY DEF Inv, TypeOK, EntryType
<1>2. Gotten(entry, entry', y)
  BY <1>1, OwnGet
<1>3. /\ entry' \in EntryType /\ SameShape(entry, entry')
      /\ entry'[y].refcount = entry[y].refcount + 1
      /\ \A x \in Entry : x # y => entry'[x] = entry[x]
      /\ \A x \in Entry : Own(entry', x) = Own(entry, x) + One(x = y)
  BY <1>2 DEF Gotten
<1>4. ASSUME NEW x \in Entry PROVE Own(entry', x) = Own(entry, x) + Uses(r, x) - Uses(th[t], x)
  <2>1. /\ Own(entry', x) = Own(entry, x) + One(x = y) /\ Uses(r, x) = Uses(th[t], x) + One(x = y)
        /\ Own(entry, x) \in Int /\ Uses(th[t], x) \in Nat /\ One(x = y) \in Nat
    BY <1>1, <1>3, OwnInt, UsesNat DEF One
  <2> QED BY <2>1, SMT
<1>5. ASSUME NEW x \in Entry, entry'[x] # None, entry'[x].refcount = 0
      PROVE  entry[x] # None /\ entry[x].refcount = 0 /\ th[t].zero # x
  <2>1. CASE x = y
    <3>1. entry[y].refcount \in Nat
      BY <1>1, RefNat
    <3>2. entry[y].refcount + 1 # 0
      BY <3>1, SMT
    <3> QED BY <1>3, <1>5, <2>1, <3>2
  <2>2. CASE x # y
    BY <1>3, <1>5, <2>2, NoneFacts
  <2> QED BY <2>1, <2>2
<1> QED BY <1>3, <1>4, <1>5, ShapeStep

-----------------------------------------------------------------------------
(* The steps, one by one.  First those that change counts only.            *)
LEMMA ThreadFields ==
  ASSUME Inv, NEW t \in Thread
  PROVE  /\ th[t] \in Walker /\ Stage(entry, th[t])
         /\ th[t].op \in Ops /\ th[t].pc \in Pcs /\ th[t].path \in Seq(Component)
         /\ th[t].at \in Entry \cup {None} /\ th[t].old \in Entry \cup {None}
         /\ th[t].puts \in Seq(Entry) /\ th[t].zero \in Entry \cup {None}
<1>1. th[t] \in Walker /\ Stage(entry, th[t])
  BY DEF Inv, TypeOK, Stages
<1> QED BY <1>1, WalkerFields

LEMMA InvParts ==
  ASSUME Inv
  PROVE  /\ TypeOK /\ Counted /\ Stages /\ Tree(entry, kind, dir)
         /\ entry \in EntryType /\ th \in [Thread -> Walker] /\ leaked \in [Entry -> Nat]
         /\ entry[RootEntry] # None
<1>1. Tree(entry, kind, dir)
  BY DEF Inv
<1> QED BY <1>1 DEF Inv, TypeOK, EntryType, Tree, RootIs

(* A path's rest ends in a name, too.                                      *)
LEMMA PathTail ==
  ASSUME NEW p \in Seq(Component), p # << >>, p[Len(p)] \in Name
  PROVE  /\ Tail(p) \in Seq(Component)
         /\ Tail(p) # << >> => Tail(p)[Len(Tail(p))] \in Name
<1>1. Tail(p) \in Seq(Component) /\ Len(Tail(p)) = Len(p) - 1 /\ Len(p) \in Nat
  BY SMT
<1>2. ASSUME Tail(p) # << >> PROVE Tail(p)[Len(Tail(p))] \in Name
  <2>1. Len(Tail(p)) \in Nat /\ Len(Tail(p)) # 0
    BY <1>1, <1>2, SMT
  <2>2. Tail(p)[Len(Tail(p))] = p[Len(p)]
    BY <1>1, <2>1, SMT
  <2> QED BY <2>2
<1> QED BY <1>1, <1>2

LEMMA PutEntryStep ==
  ASSUME FiniteSetFacts, Inv, NEW t \in Thread, PutEntry(t)
  PROVE  Inv'
<1>1. PICK e, c : e = Head(th[t].puts) /\ c = entry[e].refcount - 1
  OBVIOUS
<1>2. PICK z : z = IF entry[e].refcount = 1 THEN e ELSE None
  OBVIOUS
<1>3. PICK r : r = [th[t] EXCEPT !.puts = Tail(th[t].puts), !.zero = z]
  OBVIOUS
<1>4. /\ th[t].puts # << >> /\ th[t].zero = None
      /\ entry' = [entry EXCEPT ![e].refcount = c]
      /\ th' = [th EXCEPT ![t] = r]
      /\ kind' = kind /\ dir' = dir /\ leaked' = leaked
  BY <1>1, <1>2, <1>3 DEF PutEntry, Set
<1>5. /\ th[t].puts \in Seq(Entry) /\ Len(th[t].puts) + One(th[t].zero # None) <= 3
      /\ Len(th[t].puts) \in Nat
  BY ThreadFields, SMT DEF Stage
<1>6. Len(th[t].puts) <= 3
  <2>1. One(th[t].zero # None) = 0
    BY <1>4 DEF One
  <2> QED BY <1>5, <2>1, SMT
<1>7. /\ e \in Entry /\ Tail(th[t].puts) \in Seq(Entry) /\ Len(Tail(th[t].puts)) = Len(th[t].puts) - 1
      /\ \A x : Puts(th[t].puts, x) = One(e = x) + Puts(Tail(th[t].puts), x)
  BY <1>1, <1>4, <1>5, <1>6, PutsTail, SMT
<1>8. /\ IsRec(r) /\ r.op = th[t].op /\ r.pc = th[t].pc /\ r.path = th[t].path /\ r.at = th[t].at
      /\ r.old = th[t].old /\ r.puts = Tail(th[t].puts) /\ r.zero = z
  <2>1. th[t] \in Walker
    BY ThreadFields
  <2>2. IsRec(r)
    BY <1>3, <2>1, WalkerRec, RecSet
  <2> QED BY <1>3, <2>1, <2>2, SMT DEF Walker
<1>9. z \in Entry \cup {None}
  BY <1>2, <1>7
<1>10. r \in Walker
  BY <1>7, <1>8, <1>9, ThreadFields, WalkerIs
<1>11. entry[e] # None /\ entry \in EntryType /\ entry[e].refcount \in Int
  <2>1. PICK a, b, p : a = One(th[t].at = e) /\ b = One(th[t].old = e) /\ p = Puts(Tail(th[t].puts), e)
    OBVIOUS
  <2>2. a \in Nat /\ b \in Nat /\ p \in Nat
    BY <2>1, PutsNat DEF One
  <2>3. Puts(th[t].puts, e) = 1 + p
    BY <1>7, <2>1 DEF One
  <2>4. Uses(th[t], e) = a + b + (1 + p)
    BY <2>1, <2>3 DEF Uses
  <2>5. Uses(th[t], e) # 0
    BY <2>2, <2>4, SMT
  <2>6. entry[e] # None
    BY <1>7, <2>5, UsedInUse, InvParts
  <2> QED BY <1>7, <2>6, InvParts, EntryFields
<1>12. c \in Int /\ c - entry[e].refcount = -1 /\ (c = 0 <=> entry[e].refcount = 1)
  BY <1>1, <1>11, SMT
<1>13. RefSet(entry, entry', e, c)
  BY <1>4, <1>7, <1>11, <1>12, OwnRef
<1>14. /\ entry' \in EntryType /\ SameShape(entry, entry') /\ entry'[e].refcount = c
       /\ \A x \in Entry : x # e => entry'[x] = entry[x]
       /\ \A x \in Entry : x # e => Own(entry', x) = Own(entry, x)
       /\ Own(entry', e) = Own(entry, e) + (c - entry[e].refcount)
  BY <1>13 DEF RefSet
<1>15. ASSUME NEW x \in Entry PROVE Own(entry', x) = Own(entry, x) + Uses(r, x) - Uses(th[t], x)
  <2>1. PICK a, p : a = One(th[t].at = x) + One(th[t].old = x) /\ p = Puts(Tail(th[t].puts), x)
    OBVIOUS
  <2>2. a \in Nat /\ p \in Nat /\ Own(entry, x) \in Int /\ One(e = x) \in Nat
    <3>1. One(th[t].at = x) \in Nat /\ One(th[t].old = x) \in Nat /\ One(e = x) \in Nat
      BY DEF One
    <3>2. a \in Nat
      BY <2>1, <3>1, SMT
    <3> QED BY <2>1, <3>1, <3>2, <1>11, PutsNat, OwnInt
  <2>3. Uses(r, x) = a + p
    BY <1>8, <2>1 DEF Uses
  <2>4. Uses(th[t], x) = a + (One(e = x) + p)
    BY <1>7, <2>1 DEF Uses
  <2>5. Own(entry', x) = Own(entry, x) + (-One(e = x))
    <3>1. CASE x = e
      <4>1. One(e = x) = 1
        BY <3>1 DEF One
      <4> QED BY <1>12, <1>14, <3>1, <4>1
    <3>2. CASE x # e
      <4>1. One(e = x) = 0 /\ Own(entry', x) = Own(entry, x)
        BY <1>14, <3>2 DEF One
      <4> QED BY <2>2, <4>1, SMT
    <3> QED BY <3>1, <3>2
  <2> QED BY <2>2, <2>3, <2>4, <2>5, SMT
<1>16. ASSUME NEW x \in Entry, entry'[x] # None, entry'[x].refcount = 0
       PROVE  \/ r.zero = x
              \/ entry[x] # None /\ entry[x].refcount = 0 /\ th[t].zero # x
  <2>1. CASE x = e
    BY <1>2, <1>8, <1>12, <1>14, <1>16, <2>1
  <2>2. CASE x # e
    BY <1>4, <1>14, <1>16, <2>2, NoneFacts
  <2> QED BY <2>1, <2>2
<1>17. Stage(entry, r)
  <2>1. Stage(entry, th[t])
    BY ThreadFields
  <2>2. Len(r.puts) + One(r.zero # None) <= 3
    <3>1. One(r.zero # None) \in {0, 1}
      BY DEF One
    <3> QED BY <1>5, <1>6, <1>7, <1>8, <3>1, SMT
  <2> QED BY <1>8, <2>1, <2>2 DEF Stage
<1> QED BY <1>4, <1>10, <1>14, <1>15, <1>16, <1>17, ShapeStep

LEMMA StartStep ==
  ASSUME FiniteSetFacts, Inv, NEW t \in Thread, NEW p \in Path,
         NEW op \in {"open", "create", "unlink", "rmdir", "mkdir", "resolve"}, Start(t, op, p)
  PROVE  Inv'
<1>1. PICK r : r = [Idle EXCEPT !.op = op, !.pc = "walk", !.path = p, !.at = RootEntry]
  OBVIOUS
<1>2. /\ th[t] = Idle /\ entry' = Get(entry, RootEntry) /\ th' = [th EXCEPT ![t] = r]
      /\ kind' = kind /\ dir' = dir /\ leaked' = leaked
  BY <1>1 DEF Start, Set
<1>3. /\ IsRec(r) /\ r.op = op /\ r.pc = "walk" /\ r.path = p /\ r.at = RootEntry
      /\ r.old = Idle.old /\ r.puts = Idle.puts /\ r.zero = Idle.zero
  <2>1. IsRec(r)
    BY <1>1, IdleFields, WalkerRec, RecSet
  <2> QED BY <1>1, <2>1, IdleFields, SMT DEF Walker
<1>4. p \in Seq(Component) /\ p # << >> /\ p[Len(p)] \in Name
  BY VfsAssumption DEF Component
<1>5. op \in Ops /\ op # "link" /\ "walk" \in Pcs
  BY SMT DEF Ops, Pcs
<1>6. r \in Walker
  BY <1>3, <1>4, <1>5, IdleFields, WalkerFields, NoneFacts, WalkerIs
<1>7. Stage(entry, r)
  <2>1. Len(r.puts) + One(r.zero # None) <= 3
    <3>1. Len(r.puts) = 0 /\ One(r.zero # None) = 0
      <4>1. Len(<< >>) = 0
        BY SMT
      <4> QED BY <1>3, <4>1, IdleFields DEF One
    <3> QED BY <3>1, SMT
  <2>2. r.pc # "idle" /\ r.pc # "lookup" /\ r.pc # "make" /\ r.pc # "remove" /\ r.pc # "file"
    BY <1>3, SMT
  <2> QED BY <1>3, <1>4, <1>5, <2>1, <2>2, NoneFacts, IdleFields DEF Stage
<1>8. ASSUME NEW x \in Entry PROVE Uses(r, x) = Uses(th[t], x) + One(x = RootEntry)
  <2>1. One(r.old = x) = 0 /\ Puts(r.puts, x) = 0 /\ One(r.at = x) = One(x = RootEntry)
    BY <1>3, IdleFields, NoneFacts, PutsList DEF One
  <2>2. One(th[t].at = x) = 0 /\ One(th[t].old = x) = 0 /\ Puts(th[t].puts, x) = 0
    BY <1>2, IdleFields, NoneFacts, PutsList DEF One
  <2>3. One(x = RootEntry) \in Nat
    BY DEF One
  <2> QED BY <2>1, <2>2, <2>3, SMT DEF Uses
<1>9. th[t].zero = None /\ RootEntry \in Entry /\ entry[RootEntry] # None
  BY <1>2, IdleFields, NoneFacts, InvParts
<1> QED BY <1>2, <1>6, <1>7, <1>8, <1>9, GetStep

(* A thread within an operation.                                           *)
LEMMA Busy ==
  ASSUME FiniteSetFacts, Inv, NEW t \in Thread, NEW pc \in Pcs \ {"idle"}, At(t, pc)
  PROVE  /\ th[t].pc = pc /\ th[t].puts = << >> /\ th[t].zero = None
         /\ th[t].at \in Entry /\ entry[th[t].at] # None /\ th[t] \in Walker
         /\ \A x : Uses(th[t], x) = One(th[t].at = x) + One(th[t].old = x)
<1>1. th[t].pc = pc /\ th[t].puts = << >> /\ th[t].zero = None
  BY DEF At
<1>2. th[t].at \in Entry /\ th[t] \in Walker
  BY <1>1, ThreadFields DEF Stage
<1>3. entry[th[t].at] # None
  BY <1>2, AtInUse, InvParts
<1> QED BY <1>1, <1>2, <1>3, AtUses

LEMMA StoppedStage ==
  ASSUME Inv, NEW t \in Thread, th[t].at \in Entry, NEW es
  PROVE  Stopped(t) \in Walker /\ Stage(es, Stopped(t))
<1>1. TypeOK
  BY InvParts
<1>2. /\ Stopped(t) \in Walker /\ Stopped(t).op = "idle" /\ Stopped(t).pc = "idle"
      /\ Stopped(t).path = << >> /\ Stopped(t).at = None /\ Stopped(t).old = None
      /\ Stopped(t).zero = None /\ Len(Stopped(t).puts) <= 2
  BY <1>1, StoppedFacts
<1>3. /\ Stopped(t).pc \notin {"lookup", "make"} /\ Stopped(t).pc # "lookup" /\ Stopped(t).pc # "make"
      /\ Stopped(t).pc # "remove" /\ Stopped(t).pc # "file" /\ Stopped(t).op # "link"
  BY <1>2, SMT
<1>4. Len(Stopped(t).puts) + One(Stopped(t).zero # None) <= 3
  <2>1. One(Stopped(t).zero # None) = 0
    BY <1>2 DEF One
  <2>2. Len(Stopped(t).puts) \in Nat
    BY <1>2, WalkerFields, SMT
  <2> QED BY <1>2, <2>1, <2>2, SMT
<1> QED BY <1>2, <1>3, <1>4 DEF Stage

(* An operation that fails without having changed anything.                *)
LEMMA StopStep ==
  ASSUME FiniteSetFacts, Inv, NEW t \in Thread, NEW pc \in Pcs \ {"idle"}, At(t, pc), Set(t, Stopped(t)),
         entry' = entry, kind' = kind, dir' = dir, leaked' = leaked
  PROVE  Inv'
<1>1. /\ th[t].zero = None /\ th[t].at \in Entry
      /\ \A x : Uses(th[t], x) = One(th[t].at = x) + One(th[t].old = x)
  BY Busy
<1>2. Stopped(t) \in Walker /\ Stage(entry, Stopped(t))
  BY <1>1, StoppedStage
<1>3. \A x \in Entry : Uses(Stopped(t), x) = One(th[t].at = x) + One(th[t].old = x)
  BY <1>1, StoppedFacts, InvParts
<1>4. \A x \in Entry : Uses(Stopped(t), x) = Uses(th[t], x)
  BY <1>1, <1>3
<1>5. th' = [th EXCEPT ![t] = Stopped(t)]
  BY DEF Set
<1> QED BY <1>1, <1>2, <1>4, <1>5, KeepStep

LEMMA PathLeft ==
  ASSUME Inv, NEW t \in Thread, Walking(t)
  PROVE  /\ At(t, "walk") /\ th[t].path \in Seq(Component) /\ th[t].path # << >>
         /\ th[t].path[Len(th[t].path)] \in Name /\ Head(th[t].path) \in Component
         /\ Tail(th[t].path) \in Seq(Component)
         /\ Tail(th[t].path) # << >> => Tail(th[t].path)[Len(Tail(th[t].path))] \in Name
<1>1. At(t, "walk") /\ Len(th[t].path) > WalkTo(t) /\ th[t].path \in Seq(Component)
  BY ThreadFields DEF Walking
<1>2. WalkTo(t) \in Nat
  BY DEF WalkTo
<1>3. th[t].path # << >>
  BY <1>1, <1>2, SMT
<1>4. th[t].path[Len(th[t].path)] \in Name
  BY <1>3, ThreadFields DEF Stage
<1>5. Head(th[t].path) \in Component
  BY <1>1, <1>3, SMT
<1> QED BY <1>1, <1>3, <1>4, <1>5, PathTail

LEMMA WalkDotDotStep ==
  ASSUME FiniteSetFacts, Inv, NEW t \in Thread, WalkDotDot(t)
  PROVE  Inv'
<1>1. PICK w, p : w = th[t] /\ p = entry[th[t].at].parent
  OBVIOUS
<1>2. PICK r : r = [w EXCEPT !.at = p, !.path = Tail(w.path), !.puts = <<w.at>>]
  OBVIOUS
<1>3. /\ Walking(t) /\ entry' = Get(entry, p) /\ th' = [th EXCEPT ![t] = r]
      /\ kind' = kind /\ dir' = dir /\ leaked' = leaked
  BY <1>1, <1>2 DEF WalkDotDot, Set
<1>4. /\ At(t, "walk") /\ Tail(w.path) \in Seq(Component)
      /\ Tail(w.path) # << >> => Tail(w.path)[Len(Tail(w.path))] \in Name
  BY <1>1, <1>3, PathLeft
<1>5. "walk" \in Pcs \ {"idle"}
  BY SMT DEF Pcs
<1>6. /\ w.pc = "walk" /\ w.zero = None /\ w.at \in Entry /\ entry[w.at] # None /\ w \in Walker
      /\ \A x : Uses(w, x) = One(w.at = x) + One(w.old = x)
  BY <1>1, <1>4, <1>5, Busy, SMT
<1>7. p \in Entry /\ entry[p] # None
  BY <1>1, <1>6, ParentInUse, InvParts
<1>8. /\ IsRec(r) /\ r.op = w.op /\ r.pc = w.pc /\ r.path = Tail(w.path) /\ r.at = p
      /\ r.old = w.old /\ r.puts = <<w.at>> /\ r.zero = w.zero
  <2>1. IsRec(r)
    BY <1>2, <1>6, WalkerRec, RecSet
  <2> QED BY <1>2, <1>6, <2>1, SMT DEF Walker
<1>9. <<w.at>> \in Seq(Entry) /\ Len(<<w.at>>) = 1
  BY <1>6, SMT
<1>10. r \in Walker
  BY <1>4, <1>6, <1>7, <1>8, <1>9, WalkerFields, WalkerIs
<1>11. ASSUME NEW x \in Entry PROVE Uses(r, x) = Uses(th[t], x) + One(x = p)
  <2>1. Puts(r.puts, x) = One(w.at = x) /\ One(r.at = x) = One(x = p) /\ One(r.old = x) = One(w.old = x)
    BY <1>8, PutsList, SMT DEF One
  <2>2. One(w.at = x) \in Nat /\ One(x = p) \in Nat /\ One(w.old = x) \in Nat
    BY DEF One
  <2>3. Uses(th[t], x) = One(w.at = x) + One(w.old = x)
    BY <1>1, <1>6
  <2> QED BY <2>1, <2>2, <2>3, SMT DEF Uses
<1>12. Stage(entry, r)
  <2>1. Stage(entry, w)
    BY <1>1, ThreadFields
  <2>2. r.pc # "idle" /\ r.pc \notin {"lookup", "make"} /\ r.pc # "lookup" /\ r.pc # "make"
        /\ r.pc # "remove" /\ r.pc # "file"
    BY <1>6, <1>8, SMT
  <2>3. Len(r.puts) + One(r.zero # None) <= 3
    <3>1. One(r.zero # None) = 0
      BY <1>6, <1>8 DEF One
    <3> QED BY <1>8, <1>9, <3>1, SMT
  <2> QED BY <1>4, <1>7, <1>8, <2>1, <2>2, <2>3 DEF Stage
<1>13. th[t].zero = None
  BY <1>1, <1>6
<1> QED BY <1>3, <1>7, <1>10, <1>11, <1>12, <1>13, GetStep

LEMMA LockDirStep ==
  ASSUME FiniteSetFacts, Inv, NEW t \in Thread, LockDir(t), fault' = None
  PROVE  Inv'
<1>1. PICK w, pc : w = th[t] /\ pc = IF Walking(t) THEN "lookup" ELSE "make"
  OBVIOUS
<1>2. PICK r : r = [w EXCEPT !.pc = pc]
  OBVIOUS
<1>3. /\ Walking(t) \/ (Arrived(t) /\ WalkTo(t) = 1)
      /\ Walking(t) => Head(w.path) # ".."
      /\ entry[w.at].node # None /\ th' = [th EXCEPT ![t] = r]
      /\ entry' = entry /\ kind' = kind /\ dir' = dir /\ leaked' = leaked
  BY <1>1, <1>2, NoneFacts DEF LockDir, Set, NodeOf
<1>4. At(t, "walk") /\ "walk" \in Pcs \ {"idle"} /\ pc \in Pcs /\ pc \in {"lookup", "make"}
      /\ pc # "idle" /\ pc # "remove" /\ pc # "file" /\ "lookup" # "make"
  <2>1. At(t, "walk")
    BY <1>3 DEF Walking, Arrived
  <2> QED BY <1>1, <2>1, SMT DEF Pcs
<1>5. /\ w.zero = None /\ w.at \in Entry /\ w \in Walker /\ Stage(entry, w)
  BY <1>1, <1>4, Busy, ThreadFields
<1>6. /\ IsRec(r) /\ r.op = w.op /\ r.pc = pc /\ r.path = w.path /\ r.at = w.at
      /\ r.old = w.old /\ r.puts = w.puts /\ r.zero = w.zero
  <2>1. IsRec(r)
    BY <1>2, <1>5, WalkerRec, RecSet
  <2> QED BY <1>2, <1>5, <2>1, SMT DEF Walker
<1>7. r \in Walker
  BY <1>4, <1>5, <1>6, WalkerFields, WalkerIs
<1>8. \A x \in Entry : Uses(r, x) = Uses(th[t], x)
  BY <1>1, <1>6 DEF Uses
<1>9. ASSUME pc = "lookup" PROVE w.path # << >> /\ Head(w.path) \in Name
  <2>1. Walking(t)
    BY <1>1, <1>4, <1>9
  <2> QED BY <1>1, <1>3, <2>1, PathLeft DEF Component
<1>10. ASSUME pc = "make" PROVE w.path[1] \in Name
  <2>1. ~Walking(t)
    BY <1>1, <1>4, <1>10
  <2>2. Len(w.path) = 1 /\ w.path \in Seq(Component)
    BY <1>1, <1>3, <1>5, <2>1, WalkerFields DEF Arrived
  <2>3. w.path # << >>
    <3>1. Len(<< >>) = 0 /\ 0 # 1
      BY SMT
    <3> QED BY <2>2, <3>1
  <2> QED BY <1>5, <2>2, <2>3 DEF Stage
<1>11. Stage(entry, r)
  BY <1>3, <1>4, <1>5, <1>6, <1>9, <1>10 DEF Stage
<1>12. th[t].zero = None
  BY <1>1, <1>5
<1> QED BY <1>3, <1>7, <1>8, <1>11, <1>12, KeepStep


LEMMA LinkNewNameStep ==
  ASSUME FiniteSetFacts, Inv, NEW t \in Thread, NEW p \in Path, LinkNewName(t, p)
  PROVE  Inv'
<1>1. PICK w : w = th[t]
  OBVIOUS
<1>2. PICK r : r = [w EXCEPT !.op = "link", !.path = p, !.old = w.at, !.at = RootEntry]
  OBVIOUS
<1>3. /\ w.op = "resolve" /\ At(t, "walk") /\ entry' = Get(entry, RootEntry)
      /\ th' = [th EXCEPT ![t] = r]
      /\ kind' = kind /\ dir' = dir /\ leaked' = leaked
  BY <1>1, <1>2 DEF LinkNewName, Set, Arrived
<1>4. "walk" \in Pcs \ {"idle"} /\ "resolve" # "link" /\ "link" \in Ops
  BY SMT DEF Pcs, Ops
<1>5. /\ w.pc = "walk" /\ w.puts = << >> /\ w.zero = None /\ w.at \in Entry /\ w \in Walker
      /\ Stage(entry, w)
      /\ \A x : Uses(w, x) = One(w.at = x) + One(w.old = x)
  <2>1. /\ th[t].pc = "walk" /\ th[t].puts = << >> /\ th[t].zero = None
        /\ th[t].at \in Entry /\ th[t] \in Walker
        /\ \A x : Uses(th[t], x) = One(th[t].at = x) + One(th[t].old = x)
    BY <1>3, <1>4, Busy
  <2>2. Stage(entry, th[t])
    BY ThreadFields
  <2> QED BY <1>1, <2>1, <2>2
<1>6. w.old = None
  BY <1>3, <1>4, <1>5 DEF Stage
<1>7. /\ IsRec(r) /\ r.op = "link" /\ r.pc = w.pc /\ r.path = p /\ r.at = RootEntry
      /\ r.old = w.at /\ r.puts = w.puts /\ r.zero = w.zero
  <2>1. IsRec(r)
    BY <1>2, <1>5, WalkerRec, RecSet
  <2> QED BY <1>2, <1>5, <2>1, SMT DEF Walker
<1>8. p \in Seq(Component) /\ p # << >> /\ p[Len(p)] \in Name
  BY VfsAssumption DEF Component
<1>9. r \in Walker
  BY <1>4, <1>5, <1>7, <1>8, NoneFacts, WalkerFields, WalkerIs
<1>10. ASSUME NEW x \in Entry PROVE Uses(r, x) = Uses(th[t], x) + One(x = RootEntry)
  <2>1. One(w.old = x) = 0 /\ Puts(r.puts, x) = 0 /\ One(r.at = x) = One(x = RootEntry)
        /\ One(r.old = x) = One(w.at = x)
    BY <1>5, <1>6, <1>7, NoneFacts, PutsList DEF One
  <2>2. One(w.at = x) \in Nat /\ One(x = RootEntry) \in Nat
    BY DEF One
  <2>3. Uses(th[t], x) = One(w.at = x) + One(w.old = x)
    BY <1>1, <1>5
  <2> QED BY <2>1, <2>2, <2>3, SMT DEF Uses
<1>11. Stage(entry, r)
  <2>1. r.pc # "idle" /\ r.pc \notin {"lookup", "make"} /\ r.pc # "lookup" /\ r.pc # "make"
        /\ r.pc # "remove" /\ r.pc # "file"
    BY <1>5, <1>7, SMT
  <2>2. Len(r.puts) + One(r.zero # None) <= 3
    BY <1>5, <1>7 DEF Stage
  <2> QED BY <1>5, <1>7, <1>8, <2>1, <2>2, NoneFacts DEF Stage
<1>12. th[t].zero = None /\ RootEntry \in Entry /\ entry[RootEntry] # None
  BY <1>1, <1>5, NoneFacts, InvParts
<1> QED BY <1>3, <1>9, <1>10, <1>11, <1>12, GetStep

LEMMA ReleaseStep ==
  ASSUME FiniteSetFacts, Inv, NEW t \in Thread, vfs_release(t)
  PROVE  Inv'
<1>1. "file" \in Pcs \ {"idle"}
  BY SMT DEF Pcs
<1>2. /\ At(t, "file") /\ Set(t, [Idle EXCEPT !.puts = <<th[t].at>>])
      /\ entry' = entry /\ kind' = kind /\ dir' = dir /\ leaked' = leaked
  BY DEF vfs_release
<1>3. th[t].old = None /\ th[t].at \in Entry
  BY <1>1, <1>2, Busy, ThreadFields DEF Stage
<1>4. Stopped(t) = [Idle EXCEPT !.puts = <<th[t].at>>]
  <2>1. <<th[t].at>> \o << >> = <<th[t].at>>
    BY SMT
  <2> QED BY <1>3, <2>1 DEF Stopped
<1>5. Set(t, Stopped(t))
  BY <1>2, <1>4 DEF Set
<1> QED BY <1>1, <1>2, <1>5, StopStep

LEMMA LockParentStep ==
  ASSUME FiniteSetFacts, Inv, NEW t \in Thread, LockParent(t)
  PROVE  Inv'
<1>1. PICK w : w = th[t]
  OBVIOUS
<1>2. PICK r : r = [w EXCEPT !.pc = "remove"]
  OBVIOUS
<1>3. "walk" \in Pcs \ {"idle"} /\ "remove" \in Pcs /\ At(t, "walk")
  <2>1. At(t, "walk")
    BY DEF LockParent, Arrived
  <2> QED BY <2>1, SMT DEF Pcs
<1>4. entry' = entry /\ kind' = kind /\ dir' = dir /\ leaked' = leaked
  BY DEF LockParent
<1>5. CASE Set(t, Stopped(t))
  BY <1>3, <1>4, <1>5, StopStep
<1>6. CASE w.at # RootEntry /\ th' = [th EXCEPT ![t] = r]
  <2>1. w.zero = None /\ w.at \in Entry /\ w \in Walker /\ Stage(entry, w) /\ th[t].zero = None
    BY <1>1, <1>3, Busy, ThreadFields
  <2>2. /\ IsRec(r) /\ r.op = w.op /\ r.pc = "remove" /\ r.path = w.path /\ r.at = w.at
        /\ r.old = w.old /\ r.puts = w.puts /\ r.zero = w.zero
    <3>1. IsRec(r)
      BY <1>2, <2>1, WalkerRec, RecSet
    <3> QED BY <1>2, <2>1, <3>1, SMT DEF Walker
  <2>3. r \in Walker
    BY <1>3, <2>1, <2>2, WalkerFields, WalkerIs
  <2>4. \A x \in Entry : Uses(r, x) = Uses(th[t], x)
    BY <1>1, <2>2 DEF Uses
  <2>5. Stage(entry, r)
    <3>1. r.pc # "idle" /\ r.pc \notin {"lookup", "make"} /\ r.pc # "lookup" /\ r.pc # "make"
          /\ r.pc # "file"
      BY <2>2, SMT
    <3> QED BY <1>6, <2>1, <2>2, <3>1 DEF Stage
  <2> QED BY <1>4, <1>6, <2>1, <2>3, <2>4, <2>5, KeepStep
<1> QED BY <1>1, <1>2, <1>5, <1>6 DEF LockParent, Set

-----------------------------------------------------------------------------
(* vfs_entry_put's second half.                                            *)
LEMMA FreeTree ==
  ASSUME NEW es \in EntryType, NEW fs, NEW e \in Entry, NEW kd, NEW dr,
         Freed(es, fs, e), Tree(es, kd, dr)
  PROVE  Tree(fs, kd, dr)
<1>1. /\ fs[e] = None /\ KidsOf(es, e) = {} /\ e # RootEntry
      /\ \A x \in Entry : x # e => fs[x] = es[x]
  BY DEF Freed
<1>2. \A x \in Entry : fs[x] # None => x # e /\ fs[x] = es[x]
  BY <1>1
<1>3. RootIs(fs, kd)
  BY <1>1, NoneFacts DEF Tree, RootIs
<1>4. ASSUME NEW x \in Entry, x # RootEntry, fs[x] # None
      PROVE  fs[x] = es[x] /\ es[x].parent \in Entry /\ fs[es[x].parent] = es[es[x].parent]
  <2>1. fs[x] = es[x] /\ es[x] # None
    BY <1>2, <1>4
  <2>2. es[x].parent \in Entry
    BY <1>4, <2>1 DEF Tree, Named
  <2>3. es[x].parent # e
    BY <1>1, <1>4, <2>1 DEF KidsOf
  <2> QED BY <1>1, <2>1, <2>2, <2>3
<1>5. Named(fs, kd)
  <2> SUFFICES ASSUME NEW x \in Entry, x # RootEntry, fs[x] # None
               PROVE  /\ fs[x].name \in Name /\ fs[x].parent \in Entry /\ fs[fs[x].parent] # None
                      /\ fs[fs[x].parent].node # None /\ kd[fs[fs[x].parent].node] = "dir"
    BY DEF Named
  <2>1. fs[x] = es[x] /\ fs[es[x].parent] = es[es[x].parent]
    BY <1>4
  <2>2. /\ es[x].name \in Name /\ es[x].parent \in Entry /\ es[es[x].parent] # None
        /\ es[es[x].parent].node # None /\ kd[es[es[x].parent].node] = "dir"
    BY <2>1 DEF Tree, Named
  <2> QED BY <2>1, <2>2
<1>6. NodesUsed(fs, kd)
  BY <1>2 DEF Tree, NodesUsed
<1>7. OneEntry(fs, kd)
  BY <1>2 DEF Tree, OneEntry
<1>8. OneName(fs)
  BY <1>2 DEF Tree, OneName
<1>9. Agree(fs, dr)
  <2> SUFFICES ASSUME NEW x \in Entry, x # RootEntry, fs[x] # None, fs[x].cached
               PROVE  dr[fs[fs[x].parent].node][fs[x].name] = fs[x].node
    BY DEF Agree
  <2>1. fs[x] = es[x] /\ fs[es[x].parent] = es[es[x].parent]
    BY <1>4
  <2>2. dr[es[es[x].parent].node][es[x].name] = es[x].node
    BY <2>1 DEF Tree, Agree
  <2> QED BY <2>1, <2>2
<1>10. Detached(fs, kd, dr)
  BY <1>2 DEF Tree, Detached
<1>11. DirsUsed(kd, dr) /\ OneDir(kd, dr)
  BY DEF Tree
<1> QED BY <1>3, <1>5, <1>6, <1>7, <1>8, <1>9, <1>10, <1>11 DEF Tree


LEMMA InvStep ==
  ASSUME FiniteSetFacts, Inv, NEW t \in Thread, NEW r \in Walker, th' = [th EXCEPT ![t] = r],
         entry' \in EntryType, kind' \in [Node -> {"dir", "file", None}],
         dir' \in [Node -> [Name -> Node \cup {None}]], leaked' \in [Entry -> Nat],
         \A x \in Entry : Own(entry', x) = Own(entry, x) + (Uses(r, x) + leaked'[x])
                                                         - (Uses(th[t], x) + leaked[x]),
         \A x \in Entry : entry'[x] = None => KidsOf(entry', x) = {},
         \A x \in Entry : entry'[x] # None /\ entry'[x].refcount = 0 =>
            \/ r.zero = x
            \/ entry[x] # None /\ entry[x].refcount = 0 /\ th[t].zero # x,
         \A x \in Entry : Own(entry, x) # 0 /\ entry[x].node # None => entry'[x].node # None,
         Stage(entry', r), Tree(entry', kind', dir')
  PROVE  Inv'
<1>1. TypeOK /\ Counted /\ Stages
  BY DEF Inv
<1>2. TypeOK'
  <2>1. th' \in [Thread -> Walker]
    BY <1>1 DEF TypeOK
  <2> QED BY <2>1 DEF TypeOK, EntryType
<1>3. Counted'
  BY <1>1, CountStep
<1>4. Stages'
  BY <1>1, StagesStep
<1> QED BY <1>2, <1>3, <1>4 DEF Inv

LEMMA PutFinishStep ==
  ASSUME FiniteSetFacts, Inv, NEW t \in Thread, PutFinish(t), fault' = None
  PROVE  Inv'
<1>1. PICK w, e : w = th[t] /\ e = th[t].zero
  OBVIOUS
<1>2. /\ w \in Walker /\ Stage(entry, w) /\ e \in Entry /\ w.puts \in Seq(Entry) /\ w.zero = e
      /\ e # None /\ entry[e] # None
      /\ kind' = kind /\ dir' = dir /\ leaked' = leaked
  BY <1>1, ThreadFields, NoneFacts DEF PutFinish
<1>3. Len(w.puts) \in Nat /\ Len(w.puts) <= 2
  <2>1. Len(w.puts) + One(w.zero # None) <= 3
    BY <1>2 DEF Stage
  <2>2. One(w.zero # None) = 1
    BY <1>2 DEF One
  <2>3. Len(w.puts) \in Nat
    BY <1>2, SMT
  <2> QED BY <2>1, <2>2, <2>3, SMT
<1>4. entry[e].refcount \in Nat /\ Tree(entry, kind, dir) /\ entry \in EntryType
  BY <1>2, RefNat, InvParts
<1>5. CASE Revived(e)
  <2>1. PICK r : r = [w EXCEPT !.zero = None]
    OBVIOUS
  <2>2. th' = [th EXCEPT ![t] = r] /\ entry' = entry
    BY <1>1, <1>2, <1>5, <2>1 DEF PutFinish, Set
  <2>3. /\ IsRec(r) /\ r.op = w.op /\ r.pc = w.pc /\ r.path = w.path /\ r.at = w.at
        /\ r.old = w.old /\ r.puts = w.puts /\ r.zero = None
    <3>1. IsRec(r)
      BY <1>2, <2>1, WalkerRec, RecSet
    <3> QED BY <1>2, <2>1, <3>1, SMT DEF Walker
  <2>4. r \in Walker
    BY <1>2, <2>3, WalkerFields, WalkerIs
  <2>5. \A x \in Entry : Uses(r, x) = Uses(th[t], x)
    BY <1>1, <2>3 DEF Uses
  <2>6. Stage(entry, r)
    <3>1. One(r.zero # None) = 0
      BY <2>3 DEF One
    <3>2. Len(r.puts) + One(r.zero # None) <= 3
      BY <1>3, <2>3, <3>1, SMT
    <3> QED BY <1>2, <2>3, <3>2 DEF Stage
  <2>7. entry[e].refcount # 0
    BY <1>4, <1>5, SMT DEF Revived
  <2>8. th[t].zero \in Entry /\ entry[th[t].zero].refcount # 0
    BY <1>1, <1>2, <2>7
  <2> QED BY <1>2, <2>2, <2>4, <2>5, <2>6, <2>8, KeepStep
<1>6. CASE ~Revived(e)
  <2>1. PICK p : p = entry[e].parent
    OBVIOUS
  <2>2. PICK r : r = [w EXCEPT !.zero = None, !.puts = <<p>> \o w.puts]
    OBVIOUS
  <2>3. th' = [th EXCEPT ![t] = r] /\ entry' = [entry EXCEPT ![e] = None]
    BY <1>1, <1>2, <1>6, <2>1, <2>2 DEF PutFinish, Set
  <2>4. p \in Entry /\ entry[p] # None
    BY <1>2, <2>1, ParentInUse, InvParts
  <2>5. entry[e].refcount = 0
    BY <1>4, <1>6, SMT DEF Revived
  <2>6. Own(entry, e) \in Nat
    <3>1. Own(entry, e) = Holders(e) + leaked[e] /\ leaked[e] \in Nat
      BY <1>2, InvParts DEF Counted
    <3>2. Holders(e) \in Nat
      BY <1>2, HoldersUses, InvParts
    <3> QED BY <3>1, <3>2, SMT
  <2>7. Freed(entry, entry', e)
    BY <1>2, <1>4, <2>1, <2>3, <2>4, <2>5, <2>6, OwnFree
  <2>8. /\ entry' \in EntryType /\ entry'[e] = None /\ KidsOf(entry, e) = {}
        /\ \A x \in Entry : x # e => entry'[x] = entry[x]
        /\ \A x \in Entry : Own(entry', x) = Own(entry, x) + One(x = p)
        /\ \A x \in Entry : KidsOf(entry', x) \subseteq KidsOf(entry, x)
    BY <2>1, <2>7 DEF Freed
  <2>9. /\ IsRec(r) /\ r.op = w.op /\ r.pc = w.pc /\ r.path = w.path /\ r.at = w.at
        /\ r.old = w.old /\ r.puts = <<p>> \o w.puts /\ r.zero = None
    <3>1. IsRec(r)
      BY <1>2, <2>2, WalkerRec, RecSet
    <3> QED BY <1>2, <2>2, <3>1, SMT DEF Walker
  <2>10. /\ <<p>> \o w.puts \in Seq(Entry) /\ Len(<<p>> \o w.puts) = Len(w.puts) + 1
         /\ \A x : Puts(<<p>> \o w.puts, x) = One(p = x) + Puts(w.puts, x)
    BY <1>2, <1>3, <2>4, PutsCons, SMT
  <2>11. r \in Walker
    BY <1>2, <2>9, <2>10, WalkerFields, WalkerIs
  <2>12. ASSUME NEW x \in Entry
         PROVE  Own(entry', x) = Own(entry, x) + (Uses(r, x) + leaked'[x]) - (Uses(th[t], x) + leaked[x])
    <3>1. PICK a, b, c, u : /\ a = One(w.at = x) /\ b = One(w.old = x) /\ c = Puts(w.puts, x)
                            /\ u = One(p = x)
      OBVIOUS
    <3>2. a \in Nat /\ b \in Nat /\ c \in Nat /\ u \in Nat /\ Own(entry, x) \in Int
          /\ leaked[x] \in Nat /\ leaked'[x] = leaked[x]
      BY <1>2, <3>1, PutsNat, OwnInt, InvParts DEF One
    <3>3. Uses(th[t], x) = a + b + c
      BY <1>1, <3>1 DEF Uses
    <3>4. Uses(r, x) = a + b + (u + c)
      BY <2>9, <2>10, <3>1 DEF Uses
    <3>5. Own(entry', x) = Own(entry, x) + u
      <4>1. One(x = p) = u
        BY <3>1 DEF One
      <4> QED BY <2>8, <4>1
    <3> QED BY <3>2, <3>3, <3>4, <3>5, SMT
  <2>13. ASSUME NEW x \in Entry, entry'[x] = None PROVE KidsOf(entry', x) = {}
    <3>1. KidsOf(entry, x) = {}
      <4>1. CASE x = e
        BY <2>8, <4>1
      <4>2. CASE x # e
        BY <2>8, <2>13, <4>2, InvParts DEF Counted
      <4> QED BY <4>1, <4>2
    <3> QED BY <2>8, <3>1
  <2>14. ASSUME NEW x \in Entry, entry'[x] # None, entry'[x].refcount = 0
         PROVE  entry[x] # None /\ entry[x].refcount = 0 /\ th[t].zero # x
    BY <1>1, <2>8, <2>14
  <2>15. ASSUME NEW x \in Entry, Own(entry, x) # 0, entry[x].node # None
         PROVE  entry'[x].node # None
    <3>1. Own(entry, e) = 0
      <4>1. PICK k, m : k = Cardinality(KidsOf(entry, e)) /\ m = One(e = RootEntry)
        OBVIOUS
      <4>2. k \in Nat /\ m \in Nat
        BY <4>1, KidsFinite DEF One
      <4>3. Own(entry, e) = 0 - k - m
        BY <1>2, <2>5, <4>1 DEF Own
      <4> QED BY <2>6, <4>2, <4>3, SMT
    <3> QED BY <2>8, <2>15, <3>1
  <2>16. Stage(entry', r)
    <3>1. Stage(entry, w) /\ TypeOK /\ Counted
      BY <1>2, InvParts
    <3>2. ASSUME w.pc \in {"lookup", "make"} PROVE entry'[w.at].node # None
      <4>1. w.pc # "idle"
        BY <3>2, SMT
      <4>2. w.at \in Entry /\ entry[w.at].node # None
        BY <3>1, <3>2, <4>1 DEF Stage
      <4>3. Own(entry, w.at) # 0
        BY <1>1, <3>1, <4>2, AtInUse
      <4> QED BY <2>15, <4>2, <4>3
    <3>3. Len(r.puts) + One(r.zero # None) <= 3
      <4>1. One(r.zero # None) = 0
        BY <2>9 DEF One
      <4> QED BY <1>3, <2>9, <2>10, <4>1, SMT
    <3> QED BY <2>9, <3>1, <3>2, <3>3 DEF Stage
  <2>17. Tree(entry', kind', dir')
    BY <1>2, <1>4, <2>7, FreeTree
  <2>18. /\ kind' \in [Node -> {"dir", "file", None}] /\ leaked' \in [Entry -> Nat]
         /\ dir' \in [Node -> [Name -> Node \cup {None}]]
    BY <1>2, InvParts DEF TypeOK
  <2> QED BY <2>3, <2>8, <2>11, <2>12, <2>13, <2>14, <2>15, <2>16, <2>17, <2>18, InvStep
<1> QED BY <1>5, <1>6


-----------------------------------------------------------------------------
(* vfs_lookup, when it finds or makes an entry: the shape stands, and the  *)
(* caller has one reference more.                                          *)
Looked(fs, d, e, name) ==
  /\ fs \in EntryType /\ e \in Entry /\ e # RootEntry /\ fs[e] # None
  /\ fs[e].parent = d /\ fs[e].name = name /\ fs[e].cached
  /\ \A x \in Entry : Own(fs, x) = Own(entry, x) + One(x = e)
  /\ \A x \in Entry : fs[x] = None => KidsOf(fs, x) = {}
  /\ \A x \in Entry : fs[x] # None /\ fs[x].refcount = 0 => entry[x] # None /\ entry[x].refcount = 0
  /\ \A x \in Entry : entry[x] # None => fs[x] # None /\ fs[x].node = entry[x].node
  /\ Tree(fs, kind, dir)

LEMMA HitLooked ==
  ASSUME FiniteSetFacts, Inv, NEW d, NEW name, NEW e \in Cached(d, name), NEW fs, fs = Get(entry, e)
  PROVE  Looked(fs, d, e, name)
<1>1. /\ e \in Entry /\ entry[e] # None /\ e # RootEntry /\ entry[e].parent = d
      /\ entry[e].name = name /\ entry[e].cached
  BY DEF Cached
<1>2. entry \in EntryType /\ TypeOK /\ Counted /\ Tree(entry, kind, dir)
  BY InvParts
<1>3. Gotten(entry, fs, e)
  BY <1>1, <1>2, OwnGet
<1>4. /\ fs \in EntryType /\ SameShape(entry, fs) /\ fs[e].refcount = entry[e].refcount + 1
      /\ \A x \in Entry : x # e => fs[x] = entry[x]
      /\ \A x \in Entry : Own(fs, x) = Own(entry, x) + One(x = e)
      /\ \A x \in Entry : KidsOf(fs, x) = KidsOf(entry, x)
  BY <1>3 DEF Gotten
<1>5. /\ fs[e] # None /\ fs[e].parent = d /\ fs[e].name = name /\ fs[e].cached
      /\ \A x \in Entry : entry[x] # None => fs[x] # None /\ fs[x].node = entry[x].node
  BY <1>1, <1>4 DEF SameShape
<1>6. \A x \in Entry : fs[x] = None => KidsOf(fs, x) = {}
  <2>1. \A x \in Entry : entry[x] = None => KidsOf(entry, x) = {}
    BY <1>2 DEF Counted
  <2>2. \A x \in Entry : fs[x] = None => entry[x] = None
    BY <1>4 DEF SameShape
  <2> QED BY <1>4, <2>1, <2>2
<1>7. \A x \in Entry : fs[x] # None /\ fs[x].refcount = 0 => entry[x] # None /\ entry[x].refcount = 0
  <2>1. fs[e].refcount # 0
    <3>1. entry[e].refcount \in Nat
      BY <1>1, <1>2, RefNat
    <3>2. entry[e].refcount + 1 # 0
      BY <3>1, SMT
    <3> QED BY <1>4, <3>2
  <2> QED BY <1>4, <2>1
<1>8. Tree(fs, kind, dir)
  BY <1>2, <1>4, ShapeTree
<1> QED BY <1>1, <1>4, <1>5, <1>6, <1>7, <1>8 DEF Looked

(* The node of a new entry is not another entry's if it is a directory's.  *)
LEMMA NewUnique ==
  ASSUME NEW es \in EntryType, NEW kd, NEW dr, Tree(es, kd, dr),
         NEW d \in Entry, es[d] # None, es[d].node \in Node, kd[es[d].node] = "dir", NEW name \in Name,
         \A x \in Entry \ {RootEntry} :
            ~(es[x] # None /\ es[x].parent = d /\ es[x].name = name /\ es[x].cached),
         NEW n, n = dr[es[d].node][name], n # None, kd[n] = "dir",
         NEW f \in Entry, es[f] # None, es[f].node = n
  PROVE  FALSE
<1>1. CASE ~es[f].cached
  BY <1>1 DEF Tree, Detached
<1>2. CASE es[f].cached
  <2>1. f # RootEntry
    BY <1>2 DEF Tree, RootIs
  <2>2. PICK q : q = es[f].parent
    OBVIOUS
  <2>3. q \in Entry /\ es[q] # None /\ es[q].node # None /\ kd[es[q].node] = "dir" /\ es[f].name \in Name
    BY <2>1, <2>2 DEF Tree, Named
  <2>4. es[q].node \in Node
    BY <2>3, EntryFields
  <2>5. dr[es[q].node][es[f].name] = n
    BY <1>2, <2>1, <2>2 DEF Tree, Agree
  <2>6. es[q].node = es[d].node /\ es[f].name = name
    BY <2>3, <2>4, <2>5, SMT DEF Tree, OneDir
  <2>7. q = d
    BY <2>3, <2>6 DEF Tree, OneEntry
  <2> QED BY <1>2, <2>1, <2>2, <2>6, <2>7
<1> QED BY <1>1, <1>2

LEMMA NewTree ==
  ASSUME NEW es \in EntryType, NEW kd, NEW dr, Tree(es, kd, dr),
         NEW d \in Entry, es[d] # None, es[d].node \in Node, kd[es[d].node] = "dir", NEW name \in Name,
         \A x \in Entry \ {RootEntry} :
            ~(es[x] # None /\ es[x].parent = d /\ es[x].name = name /\ es[x].cached),
         NEW e \in Entry, es[e] = None, NEW n, n = dr[es[d].node][name],
         NEW fs, Created(es, fs, d, e, name, n)
  PROVE  Tree(fs, kd, dr)
<1>1. /\ fs[e] # None /\ fs[e].parent = d /\ fs[e].name = name /\ fs[e].node = n /\ fs[e].cached
      /\ \A x \in Entry : x # e =>
           /\ fs[x] = None <=> es[x] = None
           /\ es[x] # None => /\ fs[x].parent = es[x].parent /\ fs[x].name = es[x].name
                              /\ fs[x].node = es[x].node /\ fs[x].cached = es[x].cached
  BY DEF Created
<1>2. e # RootEntry /\ d # e /\ RootEntry \in Entry
  BY NoneFacts DEF Tree, RootIs
<1>3. RootIs(fs, kd)
  <2>1. RootIs(es, kd)
    BY DEF Tree
  <2> QED BY <1>1, <1>2, <2>1 DEF RootIs
<1>4. fs[d] # None /\ fs[d].node = es[d].node
  BY <1>1, <1>2
<1>5. ASSUME NEW x \in Entry, x # RootEntry, x # e, fs[x] # None
      PROVE  /\ es[x] # None /\ fs[x].parent = es[x].parent /\ fs[x].name = es[x].name
             /\ fs[x].node = es[x].node /\ fs[x].cached = es[x].cached
             /\ es[x].parent \in Entry /\ es[es[x].parent] # None
             /\ fs[es[x].parent] # None /\ fs[es[x].parent].node = es[es[x].parent].node
  <2>1. /\ es[x] # None /\ fs[x].parent = es[x].parent /\ fs[x].name = es[x].name
        /\ fs[x].node = es[x].node /\ fs[x].cached = es[x].cached
    BY <1>1, <1>5
  <2>2. es[x].parent \in Entry /\ es[es[x].parent] # None
    BY <1>5, <2>1 DEF Tree, Named
  <2>3. es[x].parent # e
    BY <2>2
  <2> QED BY <1>1, <2>1, <2>2, <2>3
<1>6. Named(fs, kd)
  <2> SUFFICES ASSUME NEW x \in Entry, x # RootEntry, fs[x] # None
               PROVE  /\ fs[x].name \in Name /\ fs[x].parent \in Entry /\ fs[fs[x].parent] # None
                      /\ fs[fs[x].parent].node # None /\ kd[fs[fs[x].parent].node] = "dir"
    BY DEF Named
  <2>1. CASE x = e
    BY <1>1, <1>4, <2>1, NoneFacts
  <2>2. CASE x # e
    <3>1. /\ es[x] # None /\ fs[x].parent = es[x].parent /\ fs[x].name = es[x].name
          /\ fs[es[x].parent] # None /\ fs[es[x].parent].node = es[es[x].parent].node
      BY <1>5, <2>2
    <3>2. /\ es[x].name \in Name /\ es[x].parent \in Entry
          /\ es[es[x].parent].node # None /\ kd[es[es[x].parent].node] = "dir"
      BY <3>1 DEF Tree, Named
    <3> QED BY <3>1, <3>2
  <2> QED BY <2>1, <2>2
<1>7. NodesUsed(fs, kd)
  <2> SUFFICES ASSUME NEW x \in Entry, fs[x] # None, fs[x].node # None PROVE kd[fs[x].node] # None
    BY DEF NodesUsed
  <2>1. CASE x = e
    BY <1>1, <2>1, SMT DEF Tree, DirsUsed
  <2>2. CASE x # e
    BY <1>1, <2>2 DEF Tree, NodesUsed
  <2> QED BY <2>1, <2>2
<1>8. OneEntry(fs, kd)
  <2> SUFFICES ASSUME NEW x \in Entry, NEW y \in Entry, fs[x] # None, fs[y] # None,
                      fs[x].node = fs[y].node, fs[x].node # None, kd[fs[x].node] = "dir"
               PROVE  x = y
    BY DEF OneEntry
  <2>1. ASSUME NEW f \in Entry, f # e, fs[f] # None, fs[f].node = n, n # None, kd[n] = "dir"
        PROVE  FALSE
    <3>1. es[f] # None /\ es[f].node = n
      BY <1>1, <2>1
    <3> QED BY <2>1, <3>1, NewUnique, SMT
  <2>2. CASE x = e \/ y = e
    BY <1>1, <2>1, <2>2, SMT
  <2>3. CASE x # e /\ y # e
    BY <1>1, <2>3, SMT DEF Tree, OneEntry
  <2> QED BY <2>2, <2>3
<1>9. OneName(fs)
  <2> SUFFICES ASSUME NEW x \in Entry \ {RootEntry}, NEW y \in Entry \ {RootEntry},
                      fs[x] # None, fs[y] # None, fs[x].cached, fs[y].cached,
                      fs[x].parent = fs[y].parent, fs[x].name = fs[y].name
               PROVE  x = y
    BY DEF OneName
  <2>1. ASSUME NEW f \in Entry \ {RootEntry}, f # e, fs[f] # None, fs[f].cached,
               fs[f].parent = d, fs[f].name = name
        PROVE  FALSE
    BY <1>1, <2>1
  <2>2. CASE x = e \/ y = e
    BY <1>1, <2>1, <2>2
  <2>3. CASE x # e /\ y # e
    BY <1>1, <2>3, SMT DEF Tree, OneName
  <2> QED BY <2>2, <2>3
<1>10. Agree(fs, dr)
  <2> SUFFICES ASSUME NEW x \in Entry, x # RootEntry, fs[x] # None, fs[x].cached
               PROVE  dr[fs[fs[x].parent].node][fs[x].name] = fs[x].node
    BY DEF Agree
  <2>1. CASE x = e
    BY <1>1, <1>4, <2>1
  <2>2. CASE x # e
    <3>1. /\ es[x] # None /\ fs[x].parent = es[x].parent /\ fs[x].name = es[x].name
          /\ fs[x].node = es[x].node /\ es[x].cached
          /\ fs[es[x].parent].node = es[es[x].parent].node
      BY <1>5, <2>2
    <3>2. dr[es[es[x].parent].node][es[x].name] = es[x].node
      BY <3>1 DEF Tree, Agree
    <3> QED BY <3>1, <3>2
  <2> QED BY <2>1, <2>2
<1>11. Detached(fs, kd, dr)
  <2>1. ASSUME NEW x \in Entry, fs[x] # None, ~fs[x].cached
        PROVE  x # e /\ es[x] # None /\ ~es[x].cached /\ fs[x].node = es[x].node
    BY <1>1, <2>1
  <2> QED BY <2>1 DEF Tree, Detached
<1>12. DirsUsed(kd, dr) /\ OneDir(kd, dr)
  BY DEF Tree
<1> QED BY <1>3, <1>6, <1>7, <1>8, <1>9, <1>10, <1>11, <1>12 DEF Tree


LEMMA NewLooked ==
  ASSUME FiniteSetFacts, Inv,
         NEW d \in Entry, entry[d] # None, entry[d].node # None, kind[entry[d].node] = "dir",
         NEW name \in Name, Cached(d, name) = {}, NEW e \in Entry, entry[e] = None,
         NEW n, n = dir[entry[d].node][name],
         NEW fs, fs = [Get(entry, d) EXCEPT ![e] = vfs_entry_create(d, name, n)]
  PROVE  Looked(fs, d, e, name)
<1>1. entry \in EntryType /\ TypeOK /\ Counted /\ Tree(entry, kind, dir) /\ entry[RootEntry] # None
  BY InvParts
<1>2. entry[d].node \in Node
  BY <1>1, EntryFields
<1>3. n \in Node \cup {None}
  <2>1. dir[entry[d].node] \in [Name -> Node \cup {None}]
    BY <1>1, <1>2 DEF TypeOK
  <2> QED BY <2>1
<1>4. KidsOf(entry, e) = {}
  BY <1>1 DEF Counted
<1>5. Created(entry, fs, d, e, name, n)
  BY <1>1, <1>3, <1>4, OwnNew
<1>6. /\ fs \in EntryType /\ fs[e] # None
      /\ fs[e].parent = d /\ fs[e].name = name /\ fs[e].cached /\ fs[e].refcount = 1
      /\ fs[d].refcount = entry[d].refcount + 1
      /\ \A x \in Entry : Own(fs, x) = Own(entry, x) + One(x = e)
      /\ \A x \in Entry : x # d => KidsOf(fs, x) = KidsOf(entry, x)
  BY <1>5 DEF Created
<1>7. \A x \in Entry : x # e =>
        /\ fs[x] = None <=> entry[x] = None
        /\ entry[x] # None => fs[x].node = entry[x].node /\ (x # d => fs[x].refcount = entry[x].refcount)
  BY <1>5 DEF Created
<1>8. \A x \in Entry : fs[x] = None => KidsOf(fs, x) = {}
  <2> SUFFICES ASSUME NEW x \in Entry, fs[x] = None PROVE KidsOf(fs, x) = {}
    OBVIOUS
  <2>1. x # e /\ entry[x] = None
    BY <1>6, <1>7
  <2>2. x # d /\ KidsOf(entry, x) = {}
    BY <1>1, <2>1 DEF Counted
  <2> QED BY <1>6, <2>2
<1>9. \A x \in Entry : fs[x] # None /\ fs[x].refcount = 0 => entry[x] # None /\ entry[x].refcount = 0
  <2> SUFFICES ASSUME NEW x \in Entry, fs[x] # None, fs[x].refcount = 0
               PROVE  entry[x] # None /\ entry[x].refcount = 0
    OBVIOUS
  <2>1. x # e
    <3>1. 0 # 1
      BY SMT
    <3> QED BY <1>6, <3>1
  <2>2. x # d
    <3>1. entry[d].refcount \in Nat
      BY <1>1, RefNat
    <3>2. entry[d].refcount + 1 # 0
      BY <3>1, SMT
    <3> QED BY <1>6, <3>2
  <2> QED BY <1>7, <2>1, <2>2
<1>10. \A x \in Entry : entry[x] # None => fs[x] # None /\ fs[x].node = entry[x].node
  BY <1>7
<1>11. Tree(fs, kind, dir)
  <2>1. \A x \in Entry \ {RootEntry} :
          ~(entry[x] # None /\ entry[x].parent = d /\ entry[x].name = name /\ entry[x].cached)
    BY DEF Cached
  <2> QED BY <1>1, <1>2, <1>5, <2>1, NewTree
<1>12. e # RootEntry
  BY <1>1
<1> QED BY <1>6, <1>8, <1>9, <1>10, <1>11, <1>12 DEF Looked

LEMMA Lookup ==
  ASSUME FiniteSetFacts, Inv,
         NEW d \in Entry, entry[d] # None, entry[d].node # None, kind[entry[d].node] = "dir",
         NEW name \in Name, NEW create, NEW new \in Spare,
         NEW r, r = vfs_lookup(d, name, create, new)
  PROVE  IF r.e = None THEN r.entry = entry ELSE Looked(r.entry, d, r.e, name)
<1>1. PICK hit, found : hit = Cached(d, name) /\ found = dir[entry[d].node][name]
  OBVIOUS
<1>2. CASE hit # {}
  <2>1. PICK h : h = CHOOSE x \in hit : TRUE
    OBVIOUS
  <2>2. h \in Cached(d, name)
    BY <1>1, <1>2, <2>1
  <2>3. r = [entry |-> Get(entry, h), e |-> h]
    BY <1>1, <1>2, <2>1 DEF vfs_lookup
  <2>4. r.entry = Get(entry, h) /\ r.e = h
    BY <2>3
  <2>5. Looked(r.entry, d, h, name)
    BY <2>2, <2>4, HitLooked
  <2>6. h # None
    BY <2>2, NoneFacts DEF Cached
  <2> QED BY <2>4, <2>5, <2>6
<1>3. CASE hit = {} /\ new # None /\ (found # None \/ create)
  <2>1. new \in Entry /\ entry[new] = None
    BY <1>3 DEF Spare
  <2>2. PICK fs : fs = [Get(entry, d) EXCEPT ![new] = vfs_entry_create(d, name, found)]
    OBVIOUS
  <2>3. r = [entry |-> fs, e |-> new]
    BY <1>1, <1>3, <2>2 DEF vfs_lookup, NodeOf
  <2>4. r.entry = fs /\ r.e = new
    BY <2>3
  <2>5. Looked(fs, d, new, name)
    BY <1>1, <1>3, <2>1, <2>2, NewLooked
  <2> QED BY <1>3, <2>4, <2>5
<1>4. CASE ~(hit # {}) /\ ~(hit = {} /\ new # None /\ (found # None \/ create))
  <2>1. r = [entry |-> entry, e |-> None]
    BY <1>1, <1>4 DEF vfs_lookup, NodeOf
  <2>2. r.entry = entry /\ r.e = None
    BY <2>1
  <2> QED BY <2>2
<1> QED BY <1>2, <1>3, <1>4

-----------------------------------------------------------------------------
(* A name and its entry are given a node, a new one or a file's.           *)
NodeSet(fs, gs, e, n) ==
  /\ gs[e] # None /\ gs[e].node = n /\ gs[e].parent = fs[e].parent
  /\ gs[e].name = fs[e].name /\ (gs[e].cached <=> fs[e].cached)
  /\ \A x \in Entry : x # e => gs[x] = fs[x]

NameSet(dr, ds, d, name, n) ==
  /\ ds[d][name] = n
  /\ \A m \in Node, x \in Name : ~(m = d /\ x = name) => ds[m][x] = dr[m][x]

KindSet(kd, ks, n) ==
  /\ kd[n] # "dir" /\ ks[n] # None /\ (ks[n] = "dir" => kd[n] = None)
  /\ \A m \in Node : m # n => ks[m] = kd[m]

(* Entry e without a node gets n, which is new or a file's, and n its name.*)
Giving(es, kd, dr, e, d, n, fs, ks, ds) ==
  /\ es \in EntryType /\ Tree(es, kd, dr)
  /\ e # RootEntry /\ es[e] # None /\ es[e].cached /\ es[e].node = None
  /\ d = es[es[e].parent].node
  /\ NodeSet(es, fs, e, n) /\ KindSet(kd, ks, n) /\ NameSet(dr, ds, d, es[e].name, n)
  /\ \A m \in Node, x \in Name : dr[m][x] \in Node \cup {None}

LEMMA GiveTree ==
  ASSUME NEW es, NEW kd, NEW dr, NEW e \in Entry, NEW d, NEW n \in Node, NEW fs, NEW ks, NEW ds,
         Giving(es, kd, dr, e, d, n, fs, ks, ds)
  PROVE  Tree(fs, ks, ds)
<1>1. PICK p, name : p = es[e].parent /\ name = es[e].name
  OBVIOUS
<1>2. /\ es \in EntryType /\ Tree(es, kd, dr) /\ e # RootEntry /\ es[e] # None
      /\ es[e].cached /\ es[e].node = None /\ d = es[p].node
  BY <1>1 DEF Giving
<1>3. /\ fs[e] # None /\ fs[e].node = n /\ fs[e].parent = p /\ fs[e].name = name
      /\ fs[e].cached /\ \A x \in Entry : x # e => fs[x] = es[x]
  BY <1>1 DEF Giving, NodeSet
<1>4. /\ kd[n] # "dir" /\ ks[n] # None /\ (ks[n] = "dir" => kd[n] = None)
      /\ \A m \in Node : m # n => ks[m] = kd[m]
  BY DEF Giving, KindSet
<1>5. /\ ds[d][name] = n
      /\ \A m \in Node, x \in Name : ~(m = d /\ x = name) => ds[m][x] = dr[m][x]
  BY <1>1 DEF Giving, NameSet
<1>6. \A m \in Node, x \in Name : dr[m][x] \in Node \cup {None}
  BY DEF Giving
<1>7. n # None
  BY NoneFacts
<1>8. /\ p \in Entry /\ es[p] # None /\ es[p].node # None /\ kd[d] = "dir" /\ name \in Name
      /\ d # None
  <2>1. Named(es, kd)
    BY <1>2 DEF Tree
  <2> QED BY <1>1, <1>2, <2>1 DEF Named
<1>9. \A x \in Entry : es[x] # None /\ es[x].node # None => es[x].node \in Node
  BY <1>2, EntryFields
<1>10. p # e /\ fs[p] = es[p] /\ d \in Node
  BY <1>2, <1>3, <1>8, <1>9
<1>11. \A x \in Entry : fs[x] # None <=> es[x] # None
  BY <1>2, <1>3
<1>12. \A x \in Entry : es[x] # None => /\ fs[x].parent = es[x].parent /\ fs[x].name = es[x].name
                                        /\ fs[x].cached <=> es[x].cached
  BY <1>1, <1>2, <1>3
<1>13. \A x \in Entry : es[x] # None /\ es[x].node # None => fs[x] = es[x] /\ x # e
  BY <1>2, <1>3
<1>14. ASSUME kd[n] = None
       PROVE  /\ \A x \in Entry : es[x] # None => es[x].node # n
              /\ \A m \in Node, x \in Name : dr[m][x] # n
  <2>1. NodesUsed(es, kd) /\ DirsUsed(kd, dr)
    BY <1>2 DEF Tree
  <2>2. ASSUME NEW x \in Entry, es[x] # None PROVE es[x].node # n
    BY <1>7, <1>14, <2>1, <2>2 DEF NodesUsed
  <2>3. ASSUME NEW m \in Node, NEW x \in Name PROVE dr[m][x] # n
    <3>1. dr[m][x] # None => kd[dr[m][x]] # None
      BY <2>1 DEF DirsUsed
    <3> QED BY <1>7, <1>14, <3>1
  <2> QED BY <2>2, <2>3
<1>15. \A m \in Node : kd[m] = "dir" => m # n /\ ks[m] = "dir"
  BY <1>4
<1>16. \A m \in Node : ks[m] = "dir" => (m # n /\ kd[m] = "dir") \/ (m = n /\ kd[n] = None)
  BY <1>4
<1>17. RootIs(fs, ks)
  <2>1. RootIs(es, kd)
    BY <1>2 DEF Tree
  <2> QED BY <1>2, <1>3, <1>15, <2>1, NoneFacts DEF RootIs
<1>18. ASSUME NEW x \in Entry, x # RootEntry, es[x] # None
       PROVE  /\ es[x].name \in Name /\ es[x].parent \in Entry /\ fs[es[x].parent] = es[es[x].parent]
              /\ es[es[x].parent] # None /\ es[es[x].parent].node \in Node
              /\ kd[es[es[x].parent].node] = "dir"
  <2>1. Named(es, kd)
    BY <1>2 DEF Tree
  <2>2. /\ es[x].name \in Name /\ es[x].parent \in Entry /\ es[es[x].parent] # None
        /\ es[es[x].parent].node # None /\ kd[es[es[x].parent].node] = "dir"
    BY <1>18, <2>1 DEF Named
  <2> QED BY <1>9, <1>13, <2>2
<1>19. Named(fs, ks)
  <2> SUFFICES ASSUME NEW x \in Entry, x # RootEntry, fs[x] # None
               PROVE  /\ fs[x].name \in Name /\ fs[x].parent \in Entry /\ fs[fs[x].parent] # None
                      /\ fs[fs[x].parent].node # None /\ ks[fs[fs[x].parent].node] = "dir"
    BY DEF Named
  <2>1. es[x] # None /\ fs[x].parent = es[x].parent /\ fs[x].name = es[x].name
    BY <1>11, <1>12
  <2>2. PICK q : q = es[x].parent
    OBVIOUS
  <2>3. /\ es[x].name \in Name /\ q \in Entry /\ fs[q] = es[q] /\ es[q] # None
        /\ es[q].node \in Node /\ kd[es[q].node] = "dir"
    BY <1>18, <2>1, <2>2
  <2>4. ks[es[q].node] = "dir" /\ es[q].node # None
    BY <1>15, <2>3, NoneFacts
  <2> QED BY <2>1, <2>2, <2>3, <2>4
<1>20. NodesUsed(fs, ks)
  <2> SUFFICES ASSUME NEW x \in Entry, fs[x] # None, fs[x].node # None PROVE ks[fs[x].node] # None
    BY DEF NodesUsed
  <2>1. CASE x = e
    BY <1>3, <1>4, <2>1
  <2>2. CASE x # e
    <3>1. es[x] # None /\ fs[x].node = es[x].node /\ es[x].node \in Node
      BY <1>3, <1>9, <2>2
    <3>2. kd[es[x].node] # None
      BY <1>2, <3>1, NoneFacts DEF Tree, NodesUsed
    <3> QED BY <1>4, <3>1, <3>2
  <2> QED BY <2>1, <2>2
<1>21. OneEntry(fs, ks)
  <2> SUFFICES \A x, y \in Entry : fs[x] # None /\ fs[y] # None /\ fs[x].node = fs[y].node
                                   /\ fs[x].node # None /\ ks[fs[x].node] = "dir" => x = y
    BY DEF OneEntry
  <2> TAKE x, y \in Entry
  <2> HAVE fs[x] # None /\ fs[y] # None /\ fs[x].node = fs[y].node
           /\ fs[x].node # None /\ ks[fs[x].node] = "dir"
  <2>1. CASE x = e \/ y = e
    <3>1. fs[x].node = n /\ fs[y].node = n /\ kd[n] = None
      BY <1>3, <1>4, <2>1
    <3>2. (x # e => es[x].node = n /\ es[x] # None) /\ (y # e => es[y].node = n /\ es[y] # None)
      BY <1>3, <3>1
    <3> QED BY <1>14, <3>1, <3>2
  <2>2. CASE x # e /\ y # e
    <3>1. es[x] # None /\ es[y] # None /\ es[x].node = es[y].node /\ es[x].node # None
          /\ ks[es[x].node] = "dir"
      BY <1>3, <2>2
    <3>2. es[x].node \in Node
      BY <1>9, <3>1
    <3>3. kd[es[x].node] = "dir"
      BY <1>14, <1>16, <3>1, <3>2
    <3>4. OneEntry(es, kd)
      BY <1>2 DEF Tree
    <3> QED BY ONLY <3>1, <3>3, <3>4, x \in Entry, y \in Entry DEF OneEntry
  <2> QED BY <2>1, <2>2
<1>22. OneName(fs)
  <2> SUFFICES \A x, y \in Entry \ {RootEntry} :
                 fs[x] # None /\ fs[y] # None /\ fs[x].cached /\ fs[y].cached
                   /\ fs[x].parent = fs[y].parent /\ fs[x].name = fs[y].name => x = y
    BY DEF OneName
  <2> TAKE x, y \in Entry \ {RootEntry}
  <2> HAVE fs[x] # None /\ fs[y] # None /\ fs[x].cached /\ fs[y].cached
           /\ fs[x].parent = fs[y].parent /\ fs[x].name = fs[y].name
  <2>1. es[x] # None /\ es[y] # None
    BY <1>11
  <2>2. /\ es[x].cached /\ es[y].cached
        /\ es[x].parent = es[y].parent /\ es[x].name = es[y].name
    BY <1>12, <2>1
  <2>3. OneName(es)
    BY <1>2 DEF Tree
  <2> QED BY ONLY <2>1, <2>2, <2>3, x \in Entry \ {RootEntry}, y \in Entry \ {RootEntry}
          DEF OneName
<1>23. DirsUsed(ks, ds)
  <2> SUFFICES \A m \in Node, x \in Name : ds[m][x] # None => ks[ds[m][x]] # None
    BY DEF DirsUsed
  <2> TAKE m \in Node, x \in Name
  <2> HAVE ds[m][x] # None
  <2>1. CASE m = d /\ x = name
    BY <1>4, <1>5, <2>1
  <2>2. CASE ~(m = d /\ x = name)
    <3>1. ds[m][x] = dr[m][x]
      BY <1>5, <2>2
    <3>2. dr[m][x] \in Node
      BY <1>6, <3>1
    <3>3. DirsUsed(kd, dr)
      BY <1>2 DEF Tree
    <3>4. kd[dr[m][x]] # None
      BY <3>1, <3>3 DEF DirsUsed
    <3> QED BY <1>4, <3>1, <3>2, <3>4
  <2> QED BY <2>1, <2>2
<1>24. OneDir(ks, ds)
  <2> SUFFICES \A k, l \in Node, x, y \in Name :
                 ds[k][x] # None /\ ds[k][x] = ds[l][y] /\ ks[ds[k][x]] = "dir" => k = l /\ x = y
    BY DEF OneDir
  <2> TAKE k, l \in Node, x, y \in Name
  <2> HAVE ds[k][x] # None /\ ds[k][x] = ds[l][y] /\ ks[ds[k][x]] = "dir"
  <2>1. ASSUME NEW i \in Node, NEW z \in Name, ~(i = d /\ z = name), ds[i][z] = n, kd[n] = None
        PROVE  FALSE
    <3>1. dr[i][z] = n
      BY <1>5, <2>1
    <3>2. dr[i][z] # n
      BY <1>14, <2>1
    <3> QED BY <3>1, <3>2
  <2>2. CASE (k = d /\ x = name) \/ (l = d /\ y = name)
    <3>1. ds[k][x] = n /\ ds[l][y] = n
      BY <1>5, <2>2
    <3>2. kd[n] = None
      BY <1>4, <3>1
    <3> QED BY <2>1, <2>2, <3>1, <3>2
  <2>3. CASE ~(k = d /\ x = name) /\ ~(l = d /\ y = name)
    <3>1. ds[k][x] = dr[k][x] /\ ds[l][y] = dr[l][y]
      BY <1>5, <2>3
    <3>2. dr[k][x] # None /\ dr[k][x] = dr[l][y] /\ ks[dr[k][x]] = "dir"
      BY <3>1
    <3>3. dr[k][x] \in Node
      BY <1>6, <3>2
    <3>4. kd[dr[k][x]] = "dir"
      BY <1>14, <1>16, <3>2, <3>3
    <3>5. OneDir(kd, dr)
      BY <1>2 DEF Tree
    <3> QED BY ONLY <3>2, <3>4, <3>5, k \in Node, l \in Node, x \in Name, y \in Name DEF OneDir
  <2> QED BY <2>2, <2>3
<1>25. Agree(fs, ds)
  <2> SUFFICES ASSUME NEW x \in Entry, x # RootEntry, fs[x] # None, fs[x].cached
               PROVE  ds[fs[fs[x].parent].node][fs[x].name] = fs[x].node
    BY DEF Agree
  <2>1. CASE x = e
    <3>1. fs[fs[x].parent].node = d /\ fs[x].name = name /\ fs[x].node = n
      BY <1>2, <1>3, <1>10, <2>1
    <3> QED BY <1>5, <3>1
  <2>2. CASE x # e
    <3>1. es[x] # None /\ es[x].cached /\ fs[x] = es[x]
      BY <1>3, <2>2
    <3>2. PICK q : q = es[x].parent
      OBVIOUS
    <3>3. /\ es[x].name \in Name /\ q \in Entry /\ fs[q] = es[q] /\ es[q] # None
          /\ es[q].node \in Node /\ kd[es[q].node] = "dir"
      BY <1>18, <3>1, <3>2
    <3>4. ~(es[q].node = d /\ es[x].name = name)
      <4>1. ASSUME es[q].node = d, es[x].name = name PROVE FALSE
        <5>1. OneName(es) /\ OneEntry(es, kd)
          BY <1>2 DEF Tree
        <5>2. es[p].node = es[q].node
          BY <1>2, <4>1
        <5>3. q = p
          BY ONLY <1>8, <3>3, <5>1, <5>2 DEF OneEntry
        <5>4. /\ es[e].cached /\ es[e] # None /\ es[x].parent = es[e].parent /\ es[x].name = es[e].name
              /\ x \in Entry \ {RootEntry} /\ e \in Entry \ {RootEntry}
          BY <1>1, <1>2, <3>2, <4>1, <5>3
        <5>5. x = e
          BY ONLY <3>1, <5>1, <5>4 DEF OneName
        <5> QED BY <2>2, <5>5
      <4> QED BY <4>1
    <3>5. dr[es[q].node][es[x].name] = es[x].node
      <4>1. Agree(es, dr)
        BY <1>2 DEF Tree
      <4> QED BY <3>1, <3>2, <4>1 DEF Agree
    <3>6. ds[es[q].node][es[x].name] = dr[es[q].node][es[x].name]
      BY <1>5, <3>3, <3>4
    <3> QED BY <3>1, <3>2, <3>3, <3>5, <3>6
  <2> QED BY <2>1, <2>2
<1>26. Detached(fs, ks, ds)
  <2> SUFFICES ASSUME NEW x \in Entry, fs[x] # None, ~fs[x].cached, fs[x].node # None,
                      ks[fs[x].node] = "dir", NEW m \in Node, NEW y \in Name
               PROVE  ds[m][y] # fs[x].node
    BY DEF Detached
  <2>1. x # e /\ es[x] # None /\ fs[x] = es[x]
    BY <1>3
  <2>2. es[x].node \in Node
    BY <1>9, <2>1
  <2>3. kd[es[x].node] = "dir" /\ es[x].node # n
    BY <1>14, <1>16, <2>1, <2>2
  <2>4. dr[m][y] # es[x].node
    <3>1. Detached(es, kd, dr)
      BY <1>2 DEF Tree
    <3> QED BY <2>1, <2>3, <3>1 DEF Detached
  <2>5. CASE m = d /\ y = name
    BY <1>5, <2>1, <2>3, <2>5
  <2>6. CASE ~(m = d /\ y = name)
    BY <1>5, <2>1, <2>4, <2>6
  <2> QED BY <2>5, <2>6
<1> QED BY <1>17, <1>19, <1>20, <1>21, <1>22, <1>23, <1>24, <1>25, <1>26 DEF Tree


(* The outcome of ramfs's part: nodes are given, the rest stands.          *)
Given(fs, gs) ==
  /\ gs \in EntryType
  /\ \A x \in Entry :
       /\ gs[x] = None <=> fs[x] = None
       /\ fs[x] # None => /\ gs[x].parent = fs[x].parent /\ gs[x].refcount = fs[x].refcount
                          /\ fs[x].node # None => gs[x].node = fs[x].node

KindType == [Node -> {"dir", "file", None}]
DirType == [Node -> [Name -> Node \cup {None}]]

Made(m, fs) ==
  /\ Given(fs, m.entry) /\ m.kind \in KindType /\ m.dir \in DirType
  /\ Tree(m.entry, m.kind, m.dir) /\ (m.ok = FALSE => m.entry = fs)

LEMMA NotMade ==
  ASSUME NEW fs \in EntryType, kind \in KindType, dir \in DirType, Tree(fs, kind, dir),
         NEW m, m.entry = fs, m.kind = kind, m.dir = dir
  PROVE  Made(m, fs)
BY DEF Made, Given

LEMMA SetName ==
  ASSUME NEW dr \in DirType, NEW d \in Node, NEW name \in Name, NEW n \in Node \cup {None},
         NEW ds, ds = [dr EXCEPT ![d][name] = n]
  PROVE  ds \in DirType /\ NameSet(dr, ds, d, name, n)
<1>1. PICK c : c = [dr[d] EXCEPT ![name] = n]
  OBVIOUS
<1>2. dr[d] \in [Name -> Node \cup {None}]
  BY DEF DirType
<1>3. c \in [Name -> Node \cup {None}] /\ c[name] = n /\ \A x \in Name : x # name => c[x] = dr[d][x]
  BY <1>1, <1>2
<1>4. ds = [dr EXCEPT ![d] = c]
  BY <1>1
<1>5. ds \in DirType /\ ds[d] = c /\ \A m \in Node : m # d => ds[m] = dr[m]
  BY <1>3, <1>4 DEF DirType
<1> QED BY <1>3, <1>5 DEF NameSet

LEMMA SetNode ==
  ASSUME NEW fs \in EntryType, NEW e \in Entry, fs[e] # None, fs[e].node = None, NEW n \in Node,
         NEW gs, gs = [fs EXCEPT ![e].node = n]
  PROVE  Given(fs, gs) /\ NodeSet(fs, gs, e, n)
<1>1. PICK r : r = [fs[e] EXCEPT !.node = n]
  OBVIOUS
<1>2. fs[e] \in FsEntry
  BY EntryFields
<1>3. /\ r \in FsEntry /\ r.parent = fs[e].parent /\ r.name = fs[e].name
      /\ r.node = n /\ r.cached = fs[e].cached /\ r.refcount = fs[e].refcount
  BY <1>1, <1>2, SMT DEF FsEntry
<1>4. gs = [fs EXCEPT ![e] = r]
  BY <1>1
<1>5. gs \in EntryType /\ gs[e] = r /\ \A x \in Entry : x # e => gs[x] = fs[x]
  <2>1. r \in FsEntry
    BY <1>3
  <2> QED BY <1>4, <2>1 DEF EntryType
<1>6. r # None
  BY <1>3, NoneFacts
<1>7. Given(fs, gs)
  BY <1>3, <1>5, <1>6 DEF Given
<1> QED BY <1>3, <1>5, <1>6, <1>7 DEF NodeSet

(* A node n in hand is given to e and to its name.                         *)
Gives(m, fs, e, d, n, ks) ==
  /\ m.ok = TRUE /\ m.entry = [fs EXCEPT ![e].node = n] /\ m.kind = ks
  /\ m.dir = [dir EXCEPT ![d][fs[e].name] = n]

LEMMA GiveMade ==
  ASSUME NEW fs \in EntryType, kind \in KindType, dir \in DirType, Tree(fs, kind, dir),
         NEW e \in Entry, e # RootEntry, fs[e] # None, fs[e].cached, fs[e].node = None,
         NEW d, d = fs[fs[e].parent].node, NEW n \in Node,
         NEW ks \in KindType, KindSet(kind, ks, n), NEW m, Gives(m, fs, e, d, n, ks)
  PROVE  Made(m, fs)
<1>1. PICK gs, ds, name : gs = [fs EXCEPT ![e].node = n] /\ name = fs[e].name
                          /\ ds = [dir EXCEPT ![d][name] = n]
  OBVIOUS
<1>2. m.ok # FALSE /\ m.entry = gs /\ m.kind = ks /\ m.dir = ds
  BY <1>1 DEF Gives
<1>3. Given(fs, gs) /\ NodeSet(fs, gs, e, n)
  BY <1>1, SetNode
<1>4. d \in Node /\ name \in Name
  <2>1. /\ fs[e].parent \in Entry /\ fs[fs[e].parent] # None /\ d # None /\ fs[e].name \in Name
    BY DEF Tree, Named
  <2> QED BY <1>1, <2>1, EntryFields
<1>5. ds \in DirType /\ NameSet(dir, ds, d, name, n)
  <2>1. n \in Node \cup {None}
    OBVIOUS
  <2> QED BY <1>1, <1>4, <2>1, SetName
<1>6. \A i \in Node, x \in Name : dir[i][x] \in Node \cup {None}
  <2>1. ASSUME NEW i \in Node, NEW x \in Name PROVE dir[i][x] \in Node \cup {None}
    <3>1. dir[i] \in [Name -> Node \cup {None}]
      BY DEF DirType
    <3> QED BY <3>1
  <2> QED BY <2>1
<1>7. Tree(gs, ks, ds)
  <2>1. NameSet(dir, ds, d, fs[e].name, n)
    BY <1>1, <1>5
  <2>2. Giving(fs, kind, dir, e, d, n, gs, ks, ds)
    BY <1>3, <1>6, <2>1 DEF Giving
  <2> QED BY <2>2, GiveTree
<1> QED BY <1>2, <1>3, <1>5, <1>7 DEF Made

LEMMA MakeNodeMade ==
  ASSUME NEW fs \in EntryType, kind \in KindType, dir \in DirType, Tree(fs, kind, dir),
         NEW e \in Entry, e # RootEntry, fs[e] # None, fs[e].cached, fs[e].node = None,
         NEW d, d = fs[fs[e].parent].node, NEW k \in {"dir", "file"},
         NEW m, m = MakeNode(d, e, fs, k)
  PROVE  Made(m, fs) /\ m.ok \in BOOLEAN
<1>1. PICK spare : spare = {i \in Node : kind[i] = None}
  OBVIOUS
<1>2. CASE spare = {} \/ dir[d][fs[e].name] # None
  <2>1. m = [ok |-> FALSE, entry |-> fs, kind |-> kind, dir |-> dir]
    BY <1>1, <1>2 DEF MakeNode
  <2>2. m.entry = fs /\ m.kind = kind /\ m.dir = dir /\ m.ok = FALSE
    BY <2>1
  <2> QED BY <2>2, NotMade
<1>3. CASE ~(spare = {} \/ dir[d][fs[e].name] # None)
  <2>1. PICK n : n = CHOOSE i \in spare : TRUE
    OBVIOUS
  <2>2. n \in Node /\ kind[n] = None
    BY <1>1, <1>3, <2>1
  <2>3. PICK ks : ks = [kind EXCEPT ![n] = k]
    OBVIOUS
  <2>4. m = [ok |-> TRUE, entry |-> [fs EXCEPT ![e].node = n], kind |-> ks,
             dir |-> [dir EXCEPT ![d][fs[e].name] = n]]
    BY <1>1, <1>3, <2>1, <2>3 DEF MakeNode
  <2>5. Gives(m, fs, e, d, n, ks) /\ m.ok = TRUE
    BY <2>4 DEF Gives
  <2>6. ks \in KindType /\ ks[n] = k /\ \A i \in Node : i # n => ks[i] = kind[i]
    BY <2>2, <2>3 DEF KindType
  <2>7. KindSet(kind, ks, n)
    BY <2>2, <2>6, NoneFacts DEF KindSet
  <2> QED BY <2>2, <2>5, <2>6, <2>7, GiveMade
<1> QED BY <1>2, <1>3

LEMMA LinkNodeMade ==
  ASSUME NEW fs \in EntryType, kind \in KindType, dir \in DirType, Tree(fs, kind, dir),
         NEW e \in Entry, e # RootEntry, fs[e] # None, fs[e].cached, fs[e].node = None,
         NEW d, d = fs[fs[e].parent].node, NEW old \in Entry, entry[old].node \in Node \cup {None},
         NEW m, m = LinkNode(d, e, fs, old)
  PROVE  Made(m, fs)
<1>1. CASE NodeOf(old) = None \/ kind[NodeOf(old)] # "file" \/ dir[d][fs[e].name] # None
  <2>1. m = [ok |-> FALSE, entry |-> fs, kind |-> kind, dir |-> dir]
    BY <1>1 DEF LinkNode
  <2>2. m.entry = fs /\ m.kind = kind /\ m.dir = dir
    BY <2>1
  <2> QED BY <2>2, NotMade
<1>2. CASE ~(NodeOf(old) = None \/ kind[NodeOf(old)] # "file" \/ dir[d][fs[e].name] # None)
  <2>1. PICK n : n = NodeOf(old)
    OBVIOUS
  <2>2. n \in Node /\ kind[n] = "file"
    BY <1>2, <2>1 DEF NodeOf
  <2>3. m = [ok |-> TRUE, entry |-> [fs EXCEPT ![e].node = n], kind |-> kind,
             dir |-> [dir EXCEPT ![d][fs[e].name] = n]]
    BY <1>2, <2>1 DEF LinkNode
  <2>4. Gives(m, fs, e, d, n, kind)
    BY <2>3, SMT DEF Gives
  <2>5. "file" # "dir"
    BY SMT
  <2>6. KindSet(kind, kind, n)
    BY <2>2, <2>5, NoneFacts DEF KindSet
  <2> QED BY <2>2, <2>4, <2>6, GiveMade
<1> QED BY <1>1, <1>2


-----------------------------------------------------------------------------
(* The steps with a look-up.                                               *)
UsesMore(t, r, e, lk) ==
  \A x \in Entry : Uses(r, x) + lk[x] = Uses(th[t], x) + leaked[x] + One(x = e)

LEMMA LookedStep ==
  ASSUME FiniteSetFacts, Inv, NEW t \in Thread, th[t].zero = None, NEW r \in Walker, Set(t, r),
         NEW fs, NEW d, NEW e, NEW name, Looked(fs, d, e, name),
         NEW m, Made(m, fs), Apply(m),
         leaked' \in [Entry -> Nat], UsesMore(t, r, e, leaked'), Stage(entry', r)
  PROVE  Inv'
<1>0. /\ th' = [th EXCEPT ![t] = r] /\ entry' = m.entry /\ kind' = m.kind /\ dir' = m.dir
      /\ \A x \in Entry : Uses(r, x) + leaked'[x] = Uses(th[t], x) + leaked[x] + One(x = e)
  BY DEF Set, Apply, UsesMore
<1> USE <1>0
<1>1. Given(fs, entry') /\ kind' \in KindType /\ dir' \in DirType /\ Tree(entry', kind', dir')
  BY DEF Made
<1>2. /\ entry' \in EntryType
      /\ \A x \in Entry :
           /\ entry'[x] = None <=> fs[x] = None
           /\ fs[x] # None => /\ entry'[x].parent = fs[x].parent /\ entry'[x].refcount = fs[x].refcount
                              /\ fs[x].node # None => entry'[x].node = fs[x].node
  BY <1>1 DEF Given
<1>3. /\ \A x \in Entry : Own(fs, x) = Own(entry, x) + One(x = e)
      /\ \A x \in Entry : fs[x] = None => KidsOf(fs, x) = {}
      /\ \A x \in Entry : fs[x] # None /\ fs[x].refcount = 0 => entry[x] # None /\ entry[x].refcount = 0
      /\ \A x \in Entry : entry[x] # None => fs[x] # None /\ fs[x].node = entry[x].node
  BY DEF Looked
<1>4. \A x \in Entry : Own(entry', x) = Own(fs, x) /\ KidsOf(entry', x) = KidsOf(fs, x)
  BY <1>2, OwnSame
<1>5. ASSUME NEW x \in Entry
      PROVE  Own(entry', x) = Own(entry, x) + (Uses(r, x) + leaked'[x]) - (Uses(th[t], x) + leaked[x])
  <2>1. Own(entry', x) = Own(entry, x) + One(x = e)
    BY <1>3, <1>4
  <2>2. Uses(r, x) + leaked'[x] = Uses(th[t], x) + leaked[x] + One(x = e)
    OBVIOUS
  <2>3. Own(entry, x) \in Int /\ Uses(th[t], x) \in Nat /\ leaked[x] \in Nat /\ One(x = e) \in Nat
        /\ Uses(r, x) \in Nat /\ leaked'[x] \in Nat
    BY InvParts, OwnInt, UsesNat DEF One
  <2> QED BY <2>1, <2>2, <2>3, SMT
<1>6. \A x \in Entry : entry'[x] = None => KidsOf(entry', x) = {}
  BY <1>2, <1>3, <1>4
<1>7. ASSUME NEW x \in Entry, entry'[x] # None, entry'[x].refcount = 0
      PROVE  entry[x] # None /\ entry[x].refcount = 0 /\ th[t].zero # x
  BY <1>2, <1>3, <1>7, NoneFacts
<1>8. ASSUME NEW x \in Entry, Own(entry, x) # 0, entry[x].node # None PROVE entry'[x].node # None
  <2>1. entry[x] # None
    BY <1>8 DEF Own
  <2> QED BY <1>2, <1>3, <1>8, <2>1
<1>9. kind' \in [Node -> {"dir", "file", None}] /\ dir' \in [Node -> [Name -> Node \cup {None}]]
  BY <1>1 DEF KindType, DirType
<1> QED BY <1>1, <1>2, <1>5, <1>6, <1>7, <1>8, <1>9, InvStep

(* The thread moves on to the entry e, and its old place is to be put.     *)
Onward(t, r, e, pc, path) ==
  /\ IsRec(r) /\ r.op = th[t].op /\ r.pc = pc /\ r.path = path /\ r.at = e
  /\ r.old = th[t].old /\ r.puts = <<th[t].at>> /\ r.zero = th[t].zero

LEMMA OnwardFacts ==
  ASSUME FiniteSetFacts, Inv,
         NEW t \in Thread, NEW at \in Pcs \ {"idle"}, At(t, at), NEW e \in Entry, NEW pc \in {"walk", "file"},
         NEW path \in Seq(Component), path # << >> => path[Len(path)] \in Name,
         pc = "file" => th[t].op # "link",
         NEW r, Onward(t, r, e, pc, path), NEW es
  PROVE  r \in Walker /\ Stage(es, r) /\ UsesMore(t, r, e, leaked)
<1>0. /\ IsRec(r) /\ r.op = th[t].op /\ r.pc = pc /\ r.path = path /\ r.at = e
      /\ r.old = th[t].old /\ r.puts = <<th[t].at>> /\ r.zero = th[t].zero
  BY DEF Onward
<1> USE <1>0
<1>1. /\ th[t].zero = None /\ th[t].at \in Entry /\ th[t] \in Walker /\ Stage(entry, th[t])
      /\ \A x : Uses(th[t], x) = One(th[t].at = x) + One(th[t].old = x)
  BY Busy, ThreadFields
<1>2. <<th[t].at>> \in Seq(Entry) /\ Len(<<th[t].at>>) = 1
  BY <1>1, SMT
<1>3. r \in Walker
  <2>1. pc \in Pcs
    BY SMT DEF Pcs
  <2> QED BY <1>1, <1>2, <2>1, WalkerFields, WalkerIs
<1>4. Stage(es, r)
  <2>1. pc # "idle" /\ pc \notin {"lookup", "make"} /\ pc # "lookup" /\ pc # "make" /\ pc # "remove"
    BY SMT
  <2>2. Len(r.puts) + One(r.zero # None) <= 3
    <3>1. One(r.zero # None) = 0
      BY <1>1 DEF One
    <3> QED BY <1>2, <3>1, SMT
  <2> QED BY <1>1, <2>1, <2>2 DEF Stage
<1>5. ASSUME NEW x \in Entry PROVE Uses(r, x) + leaked[x] = Uses(th[t], x) + leaked[x] + One(x = e)
  <2>1. Puts(r.puts, x) = One(th[t].at = x) /\ One(r.at = x) = One(x = e)
        /\ One(r.old = x) = One(th[t].old = x)
    BY PutsList, SMT DEF One
  <2>2. One(th[t].at = x) \in Nat /\ One(x = e) \in Nat /\ One(th[t].old = x) \in Nat
        /\ leaked[x] \in Nat
    BY InvParts DEF One
  <2>3. Uses(th[t], x) = One(th[t].at = x) + One(th[t].old = x)
    BY <1>1
  <2> QED BY <2>1, <2>2, <2>3, SMT DEF Uses
<1> QED BY <1>3, <1>4, <1>5 DEF UsesMore

(* A thread at a look-up.                                                  *)
LEMMA AtLookup ==
  ASSUME FiniteSetFacts, Inv, NEW t \in Thread, NEW pc \in {"lookup", "make"}, At(t, pc)
  PROVE  /\ pc \in Pcs \ {"idle"} /\ th[t].zero = None /\ th[t].at \in Entry /\ entry[th[t].at] # None
         /\ NodeOf(th[t].at) # None /\ NodeOf(th[t].at) \in Node
         /\ pc = "lookup" => th[t].path # << >> /\ Head(th[t].path) \in Name
         /\ pc = "make" => th[t].path[1] \in Name
<1>1. pc \in Pcs \ {"idle"}
  BY SMT DEF Pcs
<1>2. th[t].pc = pc /\ th[t].zero = None /\ th[t].at \in Entry /\ entry[th[t].at] # None
      /\ Stage(entry, th[t])
  BY <1>1, Busy, ThreadFields
<1>3. entry[th[t].at].node # None
  BY <1>2 DEF Stage
<1>4. entry[th[t].at].node \in Node
  BY <1>2, <1>3, InvParts, EntryFields
<1> QED BY <1>1, <1>2, <1>3, <1>4 DEF Stage, NodeOf

LEMMA WalkStep ==
  ASSUME FiniteSetFacts, Inv, NEW t \in Thread, NEW new \in Spare, vfs_walk(t, new)
  PROVE  Inv'
<1>1. PICK w, d, name, k : w = th[t] /\ d = th[t].at /\ name = Head(th[t].path)
                           /\ k = vfs_lookup(d, name, FALSE, new)
  OBVIOUS
<1>2. PICK r : r = [w EXCEPT !.pc = "walk", !.at = k.e, !.path = Tail(w.path), !.puts = <<d>>]
  OBVIOUS
<1>3. At(t, "lookup") /\ kind' = kind /\ dir' = dir /\ leaked' = leaked
  BY DEF vfs_walk
<1>4. /\ "lookup" \in Pcs \ {"idle"} /\ th[t].zero = None /\ d \in Entry /\ entry[d] # None
      /\ NodeOf(d) # None /\ NodeOf(d) \in Node /\ w.path # << >> /\ name \in Name
  BY <1>1, <1>3, AtLookup
<1>5. CASE ~(kind[NodeOf(d)] = "dir" /\ k.e # None)
  <2>1. entry' = entry /\ Set(t, Stopped(t))
    BY <1>1, <1>5 DEF vfs_walk, Set
  <2> QED BY <1>3, <1>4, <2>1, StopStep
<1>6. CASE kind[NodeOf(d)] = "dir" /\ k.e # None
  <2>1. entry' = k.entry /\ Set(t, r)
    BY <1>1, <1>2, <1>6 DEF vfs_walk, Set
  <2>2. IF k.e = None THEN k.entry = entry ELSE Looked(k.entry, d, k.e, name)
    BY <1>1, <1>4, <1>6, Lookup DEF NodeOf
  <2>3. Looked(k.entry, d, k.e, name)
    BY <1>6, <2>2
  <2>4. k.e \in Entry /\ k.entry \in EntryType /\ Tree(k.entry, kind, dir)
    BY <2>3 DEF Looked
  <2>5. w \in Walker /\ Stage(entry, w) /\ w.path \in Seq(Component)
    BY <1>1, ThreadFields
  <2>6. /\ Tail(w.path) \in Seq(Component)
        /\ Tail(w.path) # << >> => Tail(w.path)[Len(Tail(w.path))] \in Name
    <3>1. w.path[Len(w.path)] \in Name
      BY <1>4, <2>5 DEF Stage
    <3> QED BY <1>4, <2>5, <3>1, PathTail
  <2>7. Onward(t, r, k.e, "walk", Tail(w.path))
    <3>1. IsRec(r)
      BY <1>2, <2>5, WalkerRec, RecSet
    <3>2. /\ r.op = w.op /\ r.pc = "walk" /\ r.path = Tail(w.path) /\ r.at = k.e
          /\ r.old = w.old /\ r.puts = <<d>> /\ r.zero = w.zero
      BY <1>2, <2>5, SMT DEF Walker
    <3> QED BY <1>1, <3>1, <3>2 DEF Onward
  <2>8. "walk" # "file" /\ "walk" \in {"walk", "file"}
    BY SMT
  <2>9. r \in Walker /\ Stage(entry', r) /\ UsesMore(t, r, k.e, leaked)
    BY <1>3, <1>4, <2>4, <2>6, <2>7, <2>8, OnwardFacts
  <2>10. PICK m : m = [ok |-> TRUE, entry |-> k.entry, kind |-> kind, dir |-> dir]
    OBVIOUS
  <2>11. m.entry = k.entry /\ m.kind = kind /\ m.dir = dir
    BY <2>10
  <2>12. Made(m, k.entry)
    <3>1. kind \in KindType /\ dir \in DirType
      BY InvParts DEF TypeOK, KindType, DirType
    <3> QED BY <2>4, <2>11, <3>1, NotMade
  <2>13. leaked' \in [Entry -> Nat] /\ UsesMore(t, r, k.e, leaked')
    BY <1>3, <2>9, InvParts
  <2>14. Apply(m)
    BY <1>3, <2>1, <2>11 DEF Apply
  <2> QED BY <1>4, <2>1, <2>3, <2>9, <2>12, <2>13, <2>14, LookedStep
<1> QED BY <1>5, <1>6


LEMMA NoEntrySet ==
  ASSUME NEW es, NEW m
  PROVE  /\ m = [NoEntry EXCEPT !.ok = TRUE, !.entry = es] =>
              m.ok = TRUE /\ m.entry = es /\ m.kind = kind /\ m.dir = dir
         /\ m = [NoEntry EXCEPT !.entry = es] => m.entry = es /\ m.kind = kind /\ m.dir = dir
         /\ m = NoEntry => m.entry = entry /\ m.kind = kind /\ m.dir = dir
<1>1. ASSUME m = [NoEntry EXCEPT !.ok = TRUE, !.entry = es]
      PROVE  m.ok = TRUE /\ m.entry = es /\ m.kind = kind /\ m.dir = dir
  BY <1>1, SMT DEF NoEntry
<1>2. ASSUME m = [NoEntry EXCEPT !.entry = es]
      PROVE  m.entry = es /\ m.kind = kind /\ m.dir = dir
  BY <1>2, SMT DEF NoEntry
<1>3. ASSUME m = NoEntry PROVE m.entry = entry /\ m.kind = kind /\ m.dir = dir
  BY <1>3 DEF NoEntry
<1> QED BY <1>1, <1>2, <1>3

(* The directory a look-up was in, as the new entries have it.             *)
LEMMA LookedIn ==
  ASSUME Inv, NEW d \in Entry, entry[d] # None, NEW fs, NEW e, NEW name, Looked(fs, d, e, name)
  PROVE  /\ fs \in EntryType /\ kind \in KindType /\ dir \in DirType /\ Tree(fs, kind, dir)
         /\ e \in Entry /\ e # RootEntry /\ fs[e] # None /\ fs[e].cached
         /\ NodeOf(d) = fs[fs[e].parent].node
<1>1. kind \in KindType /\ dir \in DirType
  BY InvParts DEF TypeOK, KindType, DirType
<1> QED BY <1>1 DEF Looked, NodeOf

LEMMA OpenStep ==
  ASSUME FiniteSetFacts, Inv, NEW t \in Thread, NEW new \in Spare, vfs_file_open(t, new)
  PROVE  Inv'
<1>1. PICK w, d, create, k, isDir :
        /\ w = th[t] /\ d = th[t].at /\ create = (th[t].op = "create")
        /\ k = vfs_lookup(d, th[t].path[1], create, new) /\ isDir = (kind[NodeOf(d)] = "dir")
  OBVIOUS
<1>2. PICK made : made = IF isDir /\ create /\ k.e # None /\ k.entry[k.e].node = None
                           THEN MakeNode(NodeOf(d), k.e, k.entry, "file")
                         ELSE [NoEntry EXCEPT !.ok = TRUE, !.entry = IF isDir THEN k.entry ELSE entry]
  OBVIOUS
<1>3. PICK r : r = [w EXCEPT !.pc = "file", !.at = k.e, !.puts = <<d>>]
  OBVIOUS
<1>4. /\ At(t, "make") /\ w.op \in {"open", "create"} /\ Apply(made)
      /\ leaked' = IF made.ok THEN leaked ELSE [leaked EXCEPT ![k.e] = @ + 1]
      /\ IF ~isDir \/ k.e = None \/ ~made.ok THEN Set(t, Stopped(t)) ELSE Set(t, r)
  BY <1>1, <1>2, <1>3 DEF vfs_file_open
<1>5. /\ "make" \in Pcs \ {"idle"} /\ th[t].zero = None /\ d \in Entry /\ entry[d] # None
      /\ entry[d].node # None /\ NodeOf(d) \in Node /\ w.path[1] \in Name
  BY <1>1, <1>4, AtLookup DEF NodeOf
<1>6. ASSUME isDir
      PROVE  IF k.e = None THEN k.entry = entry ELSE Looked(k.entry, d, k.e, w.path[1])
  <2>1. kind[entry[d].node] = "dir"
    BY <1>1, <1>6 DEF NodeOf
  <2>2. k = vfs_lookup(d, w.path[1], create, new)
    BY <1>1
  <2> QED BY <1>5, <2>1, <2>2, Lookup
<1>7. CASE ~isDir \/ k.e = None
  <2>1. made = [NoEntry EXCEPT !.ok = TRUE, !.entry = entry]
    BY <1>2, <1>6, <1>7
  <2>2. made.ok = TRUE /\ made.entry = entry /\ made.kind = kind /\ made.dir = dir
    BY <2>1, NoEntrySet
  <2>3. entry' = entry /\ kind' = kind /\ dir' = dir /\ leaked' = leaked /\ Set(t, Stopped(t))
    BY <1>4, <1>7, <2>2 DEF Apply
  <2> QED BY <1>4, <1>5, <2>3, StopStep
<1>8. CASE isDir /\ k.e # None
  <2>1. PICK e, fs, name : e = k.e /\ fs = k.entry /\ name = w.path[1]
    OBVIOUS
  <2>2. Looked(fs, d, e, name)
    BY <1>6, <1>8, <2>1
  <2>3. /\ fs \in EntryType /\ kind \in KindType /\ dir \in DirType /\ Tree(fs, kind, dir)
        /\ e \in Entry /\ e # RootEntry /\ fs[e] # None /\ fs[e].cached
        /\ NodeOf(d) = fs[fs[e].parent].node
    BY <1>5, <2>2, LookedIn
  <2>4. Made(made, fs) /\ made.ok \in BOOLEAN
    <3>1. CASE create /\ fs[e].node = None
      <4>1. made = MakeNode(NodeOf(d), e, fs, "file")
        BY <1>2, <1>8, <2>1, <3>1
      <4> QED BY <2>3, <3>1, <4>1, MakeNodeMade
    <3>2. CASE ~(create /\ fs[e].node = None)
      <4>1. made = [NoEntry EXCEPT !.ok = TRUE, !.entry = fs]
        BY <1>2, <1>8, <2>1, <3>2
      <4>2. made.ok = TRUE /\ made.entry = fs /\ made.kind = kind /\ made.dir = dir
        BY <4>1, NoEntrySet
      <4> QED BY <2>3, <4>2, NotMade
    <3> QED BY <3>1, <3>2
  <2>5. leaked \in [Entry -> Nat]
    BY InvParts
  <2>6. CASE made.ok
    <3>1. Set(t, r) /\ leaked' = leaked
      BY <1>4, <1>8, <2>6
    <3>2. w \in Walker /\ Stage(entry, w) /\ w.path \in Seq(Component)
      BY <1>1, ThreadFields
    <3>3. Onward(t, r, e, "file", w.path)
      <4>1. IsRec(r)
        BY <1>3, <3>2, WalkerRec, RecSet
      <4>2. /\ r.op = w.op /\ r.pc = "file" /\ r.path = w.path /\ r.at = k.e
            /\ r.old = w.old /\ r.puts = <<d>> /\ r.zero = w.zero
        BY <1>3, <3>2, SMT DEF Walker
      <4> QED BY <1>1, <2>1, <4>1, <4>2 DEF Onward
    <3>4. "file" \in {"walk", "file"} /\ th[t].op # "link"
      BY <1>1, <1>4, SMT
    <3>5. w.path # << >> => w.path[Len(w.path)] \in Name
      BY <3>2 DEF Stage
    <3>6. r \in Walker /\ Stage(entry', r) /\ UsesMore(t, r, e, leaked)
      BY <1>4, <1>5, <2>3, <3>2, <3>3, <3>4, <3>5, OnwardFacts
    <3>7. leaked' \in [Entry -> Nat] /\ UsesMore(t, r, e, leaked')
      BY <2>5, <3>1, <3>6
    <3> QED BY <1>4, <1>5, <2>2, <2>4, <3>1, <3>6, <3>7, LookedStep
  <2>7. CASE ~made.ok
    <3>1. Set(t, Stopped(t)) /\ leaked' = [leaked EXCEPT ![e] = leaked[e] + 1]
      BY <1>4, <1>8, <2>1, <2>7
    <3>2. leaked' \in [Entry -> Nat] /\ \A x \in Entry : leaked'[x] = leaked[x] + One(x = e)
      <4>1. \A x \in Entry : leaked[x] \in Nat /\ leaked[e] + 1 \in Nat
        BY <2>3, <2>5, SMT
      <4>2. leaked'[e] = leaked[e] + 1 /\ \A x \in Entry : x # e => leaked'[x] = leaked[x]
        BY <2>3, <2>5, <3>1
      <4>3. leaked' \in [Entry -> Nat]
        BY <2>3, <2>5, <3>1, <4>1
      <4>4. ASSUME NEW x \in Entry PROVE leaked'[x] = leaked[x] + One(x = e)
        <5>1. CASE x = e
          BY <4>2, <5>1 DEF One
        <5>2. CASE x # e
          <6>1. One(x = e) = 0 /\ leaked'[x] = leaked[x]
            BY <4>2, <5>2 DEF One
          <6> QED BY <4>1, <6>1, SMT
        <5> QED BY <5>1, <5>2
      <4> QED BY <4>3, <4>4
    <3>3. Stopped(t) \in Walker /\ Stage(entry', Stopped(t))
      BY <1>1, <1>5, StoppedStage
    <3>4. ASSUME NEW x \in Entry
          PROVE  Uses(Stopped(t), x) + leaked'[x] = Uses(th[t], x) + leaked[x] + One(x = e)
      <4>1. Uses(Stopped(t), x) = One(th[t].at = x) + One(th[t].old = x)
        BY <1>1, <1>5, StoppedFacts, InvParts
      <4>2. Uses(th[t], x) = One(th[t].at = x) + One(th[t].old = x)
        BY <1>4, <1>5, Busy, SMT
      <4>3. Uses(Stopped(t), x) = Uses(th[t], x) /\ Uses(th[t], x) \in Nat /\ leaked[x] \in Nat
            /\ One(x = e) \in Nat /\ leaked'[x] = leaked[x] + One(x = e)
        BY <2>5, <3>2, <4>1, <4>2, UsesNat DEF One
      <4> QED BY <4>3, SMT
    <3>5. UsesMore(t, Stopped(t), e, leaked')
      BY <3>4 DEF UsesMore
    <3> QED BY <1>4, <1>5, <2>2, <2>4, <3>1, <3>2, <3>3, <3>5, LookedStep
  <2> QED BY <2>6, <2>7
<1> QED BY <1>7, <1>8


(* vfs_mkdir and vfs_link: made is what the node operation would do.       *)
LEMMA MakeNameStep ==
  ASSUME FiniteSetFacts, Inv, NEW t \in Thread, NEW new \in Spare, NEW k, k = NewName(t, new),
         NEW made, MakeName(t, k, made),
         At(t, "make") /\ Looked(k.entry, th[t].at, k.e, th[t].path[1]) /\ k.entry[k.e].node = None
           => Made(made, k.entry)
  PROVE  Inv'
<1>1. PICK d, e, fs, name : d = th[t].at /\ e = k.e /\ fs = k.entry /\ name = th[t].path[1]
  OBVIOUS
<1>2. PICK m : m = IF ~(kind[NodeOf(d)] = "dir" /\ e # None) THEN NoEntry
                   ELSE IF fs[e].node # None THEN [NoEntry EXCEPT !.entry = fs]
                   ELSE made
  OBVIOUS
<1>3. PICK r : r = [Stopped(t) EXCEPT !.puts = Append(Stopped(t).puts, e)]
  OBVIOUS
<1>4. /\ At(t, "make") /\ Apply(m) /\ leaked' = leaked
      /\ IF kind[NodeOf(d)] = "dir" /\ e # None THEN Set(t, r) ELSE Set(t, Stopped(t))
  BY <1>1, <1>2, <1>3 DEF MakeName, Set
<1>5. /\ "make" \in Pcs \ {"idle"} /\ th[t].zero = None /\ d \in Entry /\ entry[d] # None
      /\ entry[d].node # None /\ NodeOf(d) \in Node /\ name \in Name
  BY <1>1, <1>4, AtLookup DEF NodeOf
<1>6. CASE ~(kind[NodeOf(d)] = "dir" /\ e # None)
  <2>1. m.entry = entry /\ m.kind = kind /\ m.dir = dir
    BY <1>2, <1>6, NoEntrySet
  <2>2. entry' = entry /\ kind' = kind /\ dir' = dir /\ Set(t, Stopped(t))
    BY <1>4, <1>6, <2>1 DEF Apply
  <2> QED BY <1>4, <1>5, <2>2, StopStep
<1>7. CASE kind[NodeOf(d)] = "dir" /\ e # None
  <2>1. Looked(fs, d, e, name)
    <3>1. k = vfs_lookup(d, name, TRUE, new) /\ kind[entry[d].node] = "dir"
      BY <1>1, <1>7 DEF NewName, NodeOf
    <3>2. IF k.e = None THEN k.entry = entry ELSE Looked(k.entry, d, k.e, name)
      BY <1>5, <3>1, Lookup
    <3> QED BY <1>1, <1>7, <3>2
  <2>2. /\ fs \in EntryType /\ kind \in KindType /\ dir \in DirType /\ Tree(fs, kind, dir)
        /\ e \in Entry
    BY <1>5, <2>1, LookedIn
  <2>3. Made(m, fs)
    <3>1. CASE fs[e].node # None
      <4>1. m = [NoEntry EXCEPT !.entry = fs]
        BY <1>2, <1>7, <3>1
      <4>2. m.entry = fs /\ m.kind = kind /\ m.dir = dir
        BY <4>1, NoEntrySet
      <4> QED BY <2>2, <4>2, NotMade
    <3>2. CASE fs[e].node = None
      <4>1. m = made
        BY <1>2, <1>7, <3>2
      <4> QED BY <1>1, <1>4, <2>1, <3>2, <4>1
    <3> QED BY <3>1, <3>2
  <2>4. PICK s, u : s = Stopped(t) /\ u = Append(Stopped(t).puts, e)
    OBVIOUS
  <2>5. /\ s \in Walker /\ s.op = "idle" /\ s.pc = "idle" /\ s.path = << >> /\ s.at = None
        /\ s.old = None /\ s.zero = None /\ Len(s.puts) <= 2 /\ s.puts \in Seq(Entry)
        /\ \A x \in Entry : Uses(s, x) = One(th[t].at = x) + One(th[t].old = x)
    BY <1>1, <1>5, <2>4, StoppedFacts, InvParts, WalkerFields
  <2>6. /\ IsRec(r) /\ r.op = s.op /\ r.pc = s.pc /\ r.path = s.path /\ r.at = s.at
        /\ r.old = s.old /\ r.puts = u /\ r.zero = s.zero
    <3>1. r = [s EXCEPT !.puts = u]
      BY <1>3, <2>4
    <3>2. IsRec(r)
      BY <2>5, <3>1, WalkerRec, RecSet
    <3> QED BY <2>5, <3>1, <3>2, SMT DEF Walker
  <2>7. u \in Seq(Entry) /\ Len(u) = Len(s.puts) + 1 /\ Len(s.puts) \in Nat
    BY <2>2, <2>4, <2>5, SMT
  <2>8. ASSUME NEW x PROVE Puts(u, x) = Puts(s.puts, x) + One(e = x)
    BY <2>2, <2>4, <2>5, PutsAppend, SMT
  <2>9. r \in Walker
    BY <2>5, <2>6, <2>7, WalkerFields, WalkerIs
  <2>10. Stage(entry', r)
    <3>1. Stage(entry', s)
      BY <1>1, <1>5, <2>4, StoppedStage
    <3>2. Len(r.puts) + One(r.zero # None) <= 3
      <4>1. One(r.zero # None) = 0
        BY <2>5, <2>6 DEF One
      <4> QED BY <2>5, <2>6, <2>7, <4>1, SMT
    <3> QED BY <2>6, <3>1, <3>2 DEF Stage
  <2>11. ASSUME NEW x \in Entry
         PROVE  Uses(r, x) + leaked'[x] = Uses(th[t], x) + leaked[x] + One(x = e)
    <3>1. Uses(th[t], x) = One(th[t].at = x) + One(th[t].old = x)
      <4>1. \A y : Uses(th[t], y) = One(th[t].at = y) + One(th[t].old = y)
        BY <1>4, <1>5, Busy
      <4> QED BY <4>1
    <3>2. PICK a, b, c, p : /\ a = One(s.at = x) /\ b = One(s.old = x) /\ c = One(x = e)
                            /\ p = Puts(s.puts, x)
      OBVIOUS
    <3>3. a \in Nat /\ b \in Nat /\ c \in Nat /\ p \in Nat /\ leaked[x] \in Nat /\ leaked'[x] = leaked[x]
      BY <1>4, <3>2, PutsNat, InvParts DEF One
    <3>4. Uses(s, x) = a + b + p
      BY <3>2 DEF Uses
    <3>5. Uses(r, x) = a + b + (p + c)
      <4>1. One(e = x) = c
        BY <3>2 DEF One
      <4> QED BY <2>6, <2>8, <3>2, <4>1 DEF Uses
    <3>6. Uses(th[t], x) = Uses(s, x)
      BY <2>5, <3>1
    <3>7. Uses(r, x) + leaked'[x] = Uses(th[t], x) + leaked[x] + c
      BY <3>3, <3>4, <3>5, <3>6, SMT
    <3> QED BY <3>2, <3>7
  <2>12. UsesMore(t, r, e, leaked') /\ leaked' \in [Entry -> Nat]
    BY <1>4, <2>11, InvParts DEF UsesMore
  <2>13. Set(t, r)
    BY <1>4, <1>7
  <2> QED BY <1>4, <1>5, <2>1, <2>3, <2>9, <2>10, <2>12, <2>13, LookedStep
<1> QED BY <1>6, <1>7

LEMMA MkdirStep ==
  ASSUME FiniteSetFacts, Inv, NEW t \in Thread, NEW new \in Spare, vfs_mkdir(t, new)
  PROVE  Inv'
<1>1. PICK k : k = NewName(t, new)
  OBVIOUS
<1>2. PICK made : made = MakeNode(NodeOf(th[t].at), k.e, k.entry, "dir")
  OBVIOUS
<1>3. MakeName(t, k, made)
  BY <1>1, <1>2 DEF vfs_mkdir
<1>4. ASSUME At(t, "make"), Looked(k.entry, th[t].at, k.e, th[t].path[1]), k.entry[k.e].node = None
      PROVE  Made(made, k.entry)
  <2>1. th[t].at \in Entry /\ entry[th[t].at] # None
    BY <1>4, AtLookup
  <2>2. /\ k.entry \in EntryType /\ kind \in KindType /\ dir \in DirType /\ Tree(k.entry, kind, dir)
        /\ k.e \in Entry /\ k.e # RootEntry /\ k.entry[k.e] # None /\ k.entry[k.e].cached
        /\ NodeOf(th[t].at) = k.entry[k.entry[k.e].parent].node
    BY <1>4, <2>1, LookedIn
  <2> QED BY <1>2, <1>4, <2>2, MakeNodeMade
<1> QED BY <1>1, <1>3, <1>4, MakeNameStep

LEMMA LinkStep ==
  ASSUME FiniteSetFacts, Inv, NEW t \in Thread, NEW new \in Spare, vfs_link(t, new)
  PROVE  Inv'
<1>1. PICK k : k = NewName(t, new)
  OBVIOUS
<1>2. PICK made : made = LinkNode(NodeOf(th[t].at), k.e, k.entry, th[t].old)
  OBVIOUS
<1>3. MakeName(t, k, made) /\ th[t].op = "link"
  BY <1>1, <1>2 DEF vfs_link
<1>4. ASSUME At(t, "make"), Looked(k.entry, th[t].at, k.e, th[t].path[1]), k.entry[k.e].node = None
      PROVE  Made(made, k.entry)
  <2>1. th[t].at \in Entry /\ entry[th[t].at] # None
    BY <1>4, AtLookup
  <2>2. /\ k.entry \in EntryType /\ kind \in KindType /\ dir \in DirType /\ Tree(k.entry, kind, dir)
        /\ k.e \in Entry /\ k.e # RootEntry /\ k.entry[k.e] # None /\ k.entry[k.e].cached
        /\ NodeOf(th[t].at) = k.entry[k.entry[k.e].parent].node
    BY <1>4, <2>1, LookedIn
  <2>3. th[t].old \in Entry
    BY <1>3, ThreadFields DEF Stage
  <2>4. entry[th[t].old].node \in Node \cup {None}
    BY <2>3, OldInUse, InvParts, EntryFields
  <2> QED BY <1>2, <1>4, <2>2, <2>3, <2>4, LinkNodeMade
<1> QED BY <1>1, <1>3, <1>4, MakeNameStep


-----------------------------------------------------------------------------
(* ramfs_entry_unlink of a name that still means the entry.                *)
Undone(es, fs, e) ==
  /\ fs[e] # None /\ fs[e].node = es[e].node /\ fs[e].parent = es[e].parent
  /\ fs[e].name = es[e].name /\ ~fs[e].cached
  /\ \A x \in Entry : x # e => fs[x] = es[x]

Detaching(es, kd, dr, e, d, fs, ds) ==
  /\ es \in EntryType /\ Tree(es, kd, dr)
  /\ e # RootEntry /\ es[e] # None /\ es[e].cached
  /\ d = es[es[e].parent].node /\ dr[d][es[e].name] # None /\ es[e].node = dr[d][es[e].name]
  /\ Undone(es, fs, e) /\ NameSet(dr, ds, d, es[e].name, None)

LEMMA DetachTree ==
  ASSUME NEW es, NEW kd, NEW dr, NEW e \in Entry, NEW d, NEW fs, NEW ds,
         Detaching(es, kd, dr, e, d, fs, ds)
  PROVE  Tree(fs, kd, ds)
<1>0. /\ fs[e] # None /\ fs[e].node = es[e].node /\ fs[e].parent = es[e].parent
      /\ fs[e].name = es[e].name /\ ~fs[e].cached
      /\ \A x \in Entry : x # e => fs[x] = es[x]
  BY DEF Detaching, Undone
<1>1. PICK p, name : p = es[e].parent /\ name = es[e].name
  OBVIOUS
<1>2. /\ ds[d][name] = None
      /\ \A m \in Node, x \in Name : ~(m = d /\ x = name) => ds[m][x] = dr[m][x]
  BY <1>1 DEF Detaching, NameSet
<1>3. /\ es \in EntryType /\ Tree(es, kd, dr) /\ e # RootEntry /\ es[e] # None /\ es[e].cached
      /\ d = es[p].node /\ dr[d][name] # None /\ es[e].node = dr[d][name]
  BY <1>1 DEF Detaching
<1>4. /\ p \in Entry /\ es[p] # None /\ es[p].node # None /\ name \in Name /\ d \in Node
  <2>1. Named(es, kd)
    BY <1>3 DEF Tree
  <2>2. p \in Entry /\ es[p] # None /\ es[p].node # None /\ name \in Name
    BY <1>1, <1>3, <2>1 DEF Named
  <2> QED BY <1>3, <2>2, EntryFields
<1>5. \A x \in Entry : /\ fs[x] # None <=> es[x] # None
                       /\ es[x] # None => /\ fs[x].parent = es[x].parent /\ fs[x].name = es[x].name
                                          /\ fs[x].node = es[x].node
                                          /\ fs[x].cached => es[x].cached /\ x # e
  BY <1>0, <1>3
<1>6. \A m \in Node, x \in Name : ds[m][x] # None => ds[m][x] = dr[m][x] /\ ~(m = d /\ x = name)
  BY <1>2
<1>7. RootIs(fs, kd)
  <2>1. RootIs(es, kd)
    BY <1>3 DEF Tree
  <2> QED BY <1>0, <1>3, <2>1, NoneFacts DEF RootIs
<1>8. Named(fs, kd)
  <2> SUFFICES ASSUME NEW x \in Entry, x # RootEntry, fs[x] # None
               PROVE  /\ fs[x].name \in Name /\ fs[x].parent \in Entry /\ fs[fs[x].parent] # None
                      /\ fs[fs[x].parent].node # None /\ kd[fs[fs[x].parent].node] = "dir"
    BY DEF Named
  <2>1. es[x] # None /\ fs[x].parent = es[x].parent /\ fs[x].name = es[x].name
    BY <1>5
  <2>2. Named(es, kd)
    BY <1>3 DEF Tree
  <2>3. /\ es[x].name \in Name /\ es[x].parent \in Entry /\ es[es[x].parent] # None
        /\ es[es[x].parent].node # None /\ kd[es[es[x].parent].node] = "dir"
    BY <2>1, <2>2 DEF Named
  <2>4. fs[es[x].parent] # None /\ fs[es[x].parent].node = es[es[x].parent].node
    BY <1>5, <2>3
  <2> QED BY <2>1, <2>3, <2>4
<1>9. NodesUsed(fs, kd)
  <2> SUFFICES ASSUME NEW x \in Entry, fs[x] # None, fs[x].node # None PROVE kd[fs[x].node] # None
    BY DEF NodesUsed
  <2>1. es[x] # None /\ fs[x].node = es[x].node
    BY <1>5
  <2>2. NodesUsed(es, kd)
    BY <1>3 DEF Tree
  <2> QED BY <2>1, <2>2 DEF NodesUsed
<1>10. OneEntry(fs, kd)
  <2> SUFFICES \A x, y \in Entry : fs[x] # None /\ fs[y] # None /\ fs[x].node = fs[y].node
                                   /\ fs[x].node # None /\ kd[fs[x].node] = "dir" => x = y
    BY DEF OneEntry
  <2> TAKE x, y \in Entry
  <2> HAVE fs[x] # None /\ fs[y] # None /\ fs[x].node = fs[y].node
           /\ fs[x].node # None /\ kd[fs[x].node] = "dir"
  <2>1. es[x] # None /\ es[y] # None /\ fs[x].node = es[x].node /\ fs[y].node = es[y].node
    BY <1>5
  <2>2. es[x].node = es[y].node /\ es[x].node # None /\ kd[es[x].node] = "dir"
    BY <2>1
  <2>3. OneEntry(es, kd)
    BY <1>3 DEF Tree
  <2> QED BY ONLY <2>1, <2>2, <2>3, x \in Entry, y \in Entry DEF OneEntry
<1>11. OneName(fs)
  <2> SUFFICES \A x, y \in Entry \ {RootEntry} :
                 fs[x] # None /\ fs[y] # None /\ fs[x].cached /\ fs[y].cached
                   /\ fs[x].parent = fs[y].parent /\ fs[x].name = fs[y].name => x = y
    BY DEF OneName
  <2> TAKE x, y \in Entry \ {RootEntry}
  <2> HAVE fs[x] # None /\ fs[y] # None /\ fs[x].cached /\ fs[y].cached
           /\ fs[x].parent = fs[y].parent /\ fs[x].name = fs[y].name
  <2>1. es[x] # None /\ es[y] # None
    BY <1>5
  <2>2. /\ es[x].cached /\ es[y].cached
        /\ es[x].parent = es[y].parent /\ es[x].name = es[y].name
    BY <1>5, <2>1
  <2>3. OneName(es)
    BY <1>3 DEF Tree
  <2> QED BY ONLY <2>1, <2>2, <2>3, x \in Entry \ {RootEntry}, y \in Entry \ {RootEntry}
          DEF OneName
<1>12. DirsUsed(kd, ds)
  <2> SUFFICES \A m \in Node, x \in Name : ds[m][x] # None => kd[ds[m][x]] # None
    BY DEF DirsUsed
  <2> TAKE m \in Node, x \in Name
  <2> HAVE ds[m][x] # None
  <2>1. ds[m][x] = dr[m][x]
    BY <1>6
  <2>2. DirsUsed(kd, dr)
    BY <1>3 DEF Tree
  <2> QED BY <2>1, <2>2 DEF DirsUsed
<1>13. OneDir(kd, ds)
  <2> SUFFICES \A k, l \in Node, x, y \in Name :
                 ds[k][x] # None /\ ds[k][x] = ds[l][y] /\ kd[ds[k][x]] = "dir" => k = l /\ x = y
    BY DEF OneDir
  <2> TAKE k, l \in Node, x, y \in Name
  <2> HAVE ds[k][x] # None /\ ds[k][x] = ds[l][y] /\ kd[ds[k][x]] = "dir"
  <2>1. ds[k][x] = dr[k][x] /\ ds[l][y] = dr[l][y]
    BY <1>6
  <2>2. dr[k][x] # None /\ dr[k][x] = dr[l][y] /\ kd[dr[k][x]] = "dir"
    BY <2>1
  <2>3. OneDir(kd, dr)
    BY <1>3 DEF Tree
  <2> QED BY ONLY <2>2, <2>3, k \in Node, l \in Node, x \in Name, y \in Name DEF OneDir
<1>14. Agree(fs, ds)
  <2> SUFFICES ASSUME NEW x \in Entry, x # RootEntry, fs[x] # None, fs[x].cached
               PROVE  ds[fs[fs[x].parent].node][fs[x].name] = fs[x].node
    BY DEF Agree
  <2>1. es[x] # None /\ es[x].cached /\ x # e /\ fs[x] = es[x]
    BY <1>0, <1>5
  <2>2. PICK q : q = es[x].parent
    OBVIOUS
  <2>3. /\ es[x].name \in Name /\ q \in Entry /\ es[q] # None /\ es[q].node # None
        /\ kd[es[q].node] = "dir"
    BY <1>3, <2>1, <2>2 DEF Tree, Named
  <2>4. fs[q].node = es[q].node /\ es[q].node \in Node
    BY <1>3, <1>5, <2>3, EntryFields
  <2>5. ~(es[q].node = d /\ es[x].name = name)
    <3>1. ASSUME es[q].node = d, es[x].name = name PROVE FALSE
      <4>1. OneEntry(es, kd) /\ OneName(es)
        BY <1>3 DEF Tree
      <4>2. es[q].node = es[p].node
        BY <1>3, <3>1
      <4>3. q = p
        BY ONLY <1>4, <2>3, <4>1, <4>2 DEF OneEntry
      <4>4. /\ es[e] # None /\ es[e].cached /\ es[x].parent = es[e].parent /\ es[x].name = es[e].name
            /\ x \in Entry \ {RootEntry} /\ e \in Entry \ {RootEntry}
        BY <1>1, <1>3, <2>2, <3>1, <4>3
      <4>5. x = e
        BY ONLY <2>1, <4>1, <4>4 DEF OneName
      <4> QED BY <2>1, <4>5
    <3> QED BY <3>1
  <2>6. dr[es[q].node][es[x].name] = es[x].node
    <3>1. Agree(es, dr)
      BY <1>3 DEF Tree
    <3> QED BY <2>1, <2>2, <3>1 DEF Agree
  <2>7. ds[es[q].node][es[x].name] = dr[es[q].node][es[x].name]
    BY <1>2, <2>3, <2>4, <2>5
  <2> QED BY <2>1, <2>2, <2>4, <2>6, <2>7
<1>15. Detached(fs, kd, ds)
  <2> SUFFICES ASSUME NEW x \in Entry, fs[x] # None, ~fs[x].cached, fs[x].node # None,
                      kd[fs[x].node] = "dir", NEW m \in Node, NEW y \in Name,
                      ds[m][y] = fs[x].node
               PROVE  FALSE
    BY DEF Detached
  <2>1. es[x] # None /\ es[x].node = fs[x].node
    BY <1>5
  <2>2. dr[m][y] = es[x].node /\ ~(m = d /\ y = name)
    BY <1>6, <2>1
  <2>3. CASE x = e
    <3>1. dr[d][name] # None /\ dr[d][name] = dr[m][y] /\ kd[dr[d][name]] = "dir"
      BY <1>3, <2>1, <2>2, <2>3
    <3>2. OneDir(kd, dr)
      BY <1>3 DEF Tree
    <3>3. d = m /\ name = y
      BY ONLY <1>4, <3>1, <3>2, m \in Node, y \in Name DEF OneDir
    <3> QED BY <2>2, <3>3
  <2>4. CASE x # e
    <3>1. ~es[x].cached /\ es[x].node # None /\ kd[es[x].node] = "dir"
      BY <1>0, <2>1, <2>4
    <3>2. Detached(es, kd, dr)
      BY <1>3 DEF Tree
    <3> QED BY <2>1, <2>2, <3>1, <3>2 DEF Detached
  <2> QED BY <2>3, <2>4
<1> QED BY <1>7, <1>8, <1>9, <1>10, <1>11, <1>12, <1>13, <1>14, <1>15 DEF Tree

LEMMA DetachFacts ==
  ASSUME NEW e \in Entry, entry[e] # None, entry \in EntryType, NEW fs, fs = Detach(e)
  PROVE  /\ fs \in EntryType /\ Undone(entry, fs, e) /\ fs[e].refcount = entry[e].refcount
<1>1. PICK r : r = [entry[e] EXCEPT !.cached = FALSE]
  OBVIOUS
<1>2. entry[e] \in FsEntry
  BY EntryFields
<1>3. /\ r \in FsEntry /\ r.parent = entry[e].parent /\ r.name = entry[e].name
      /\ r.node = entry[e].node /\ r.cached = FALSE /\ r.refcount = entry[e].refcount
  <2>1. PICK o, f : o = entry[e] /\ f = FALSE
    OBVIOUS
  <2>2. o \in FsEntry /\ r = [o EXCEPT !.cached = f] /\ f \in BOOLEAN
    BY <1>1, <1>2, <2>1
  <2>3. /\ r \in FsEntry /\ r.parent = o.parent /\ r.name = o.name /\ r.node = o.node
        /\ r.cached = f /\ r.refcount = o.refcount
    BY ONLY <2>2, SMT DEF FsEntry
  <2> QED BY <2>1, <2>3
<1>4. fs = [entry EXCEPT ![e] = r]
  BY <1>1 DEF Detach
<1>5. fs \in EntryType /\ fs[e] = r /\ \A x \in Entry : x # e => fs[x] = entry[x]
  <2>1. r \in FsEntry
    BY <1>3
  <2> QED BY <1>4, <2>1 DEF EntryType
<1>6. r # None
  BY <1>3, NoneFacts
<1> QED BY <1>3, <1>5, <1>6 DEF Undone

LEMMA UnlinkStep ==
  ASSUME FiniteSetFacts, Inv, NEW t \in Thread, ramfs_entry_unlink(t), fault' = None
  PROVE  Inv'
<1>1. PICK e, d, now : e = th[t].at /\ d = NodeOf(entry[e].parent) /\ now = dir[d][entry[e].name]
  OBVIOUS
<1>2. At(t, "remove") /\ Set(t, Stopped(t)) /\ kind' = kind /\ leaked' = leaked
  BY DEF ramfs_entry_unlink
<1>3. "remove" \in Pcs \ {"idle"}
  BY SMT DEF Pcs
<1>4. e \in Entry /\ entry[e] # None /\ e # RootEntry /\ th[t].zero = None
      /\ \A x : Uses(th[t], x) = One(th[t].at = x) + One(th[t].old = x)
  BY <1>1, <1>2, <1>3, Busy, ThreadFields DEF Stage
<1>5. CASE Refused(th[t].op, NodeOf(e)) \/ now = None
  <2>1. entry' = entry /\ dir' = dir
    BY <1>1, <1>5 DEF ramfs_entry_unlink
  <2> QED BY <1>2, <1>3, <2>1, StopStep
<1>6. CASE ~(Refused(th[t].op, NodeOf(e)) \/ now = None)
  <2>1. /\ dir' = [dir EXCEPT ![d][entry[e].name] = None] /\ entry' = Detach(e)
        /\ now = NodeOf(e) /\ entry[e].cached /\ now # None
    BY <1>1, <1>6, NoneFacts DEF ramfs_entry_unlink
  <2>2. entry \in EntryType /\ Tree(entry, kind, dir) /\ dir \in DirType /\ leaked \in [Entry -> Nat]
        /\ kind \in [Node -> {"dir", "file", None}] /\ Counted /\ TypeOK
    BY InvParts DEF TypeOK, DirType
  <2>3. entry' \in EntryType /\ Undone(entry, entry', e) /\ entry'[e].refcount = entry[e].refcount
    BY <1>4, <2>1, <2>2, DetachFacts
  <2>4. d \in Node /\ entry[e].name \in Name
    <3>1. /\ entry[e].parent \in Entry /\ entry[entry[e].parent] # None /\ entry[e].name \in Name
          /\ entry[entry[e].parent].node # None
      BY <1>4, <2>2 DEF Tree, Named
    <3>2. entry[entry[e].parent].node \in Node
      BY <2>2, <3>1, EntryFields
    <3> QED BY <1>1, <3>1, <3>2 DEF NodeOf
  <2>5. dir' \in DirType /\ NameSet(dir, dir', d, entry[e].name, None)
    <3>1. None \in Node \cup {None}
      OBVIOUS
    <3> QED BY <2>1, <2>2, <2>4, <3>1, SetName
  <2>6. Tree(entry', kind', dir')
    <3>1. d = entry[entry[e].parent].node /\ now = dir[d][entry[e].name] /\ entry[e].node = now
      BY <1>1, <2>1 DEF NodeOf
    <3>2. Detaching(entry, kind, dir, e, d, entry', dir')
      BY <1>4, <2>1, <2>2, <2>3, <2>5, <3>1 DEF Detaching
    <3>3. Tree(entry', kind, dir')
      BY <1>4, <3>2, DetachTree
    <3> QED BY <1>2, <3>3
  <2>7. \A x \in Entry :
          /\ entry'[x] = None <=> entry[x] = None
          /\ entry[x] # None => /\ entry'[x].parent = entry[x].parent
                                /\ entry'[x].refcount = entry[x].refcount
                                /\ entry'[x].node = entry[x].node
    BY <1>4, <2>3 DEF Undone
  <2>8. \A x \in Entry : Own(entry', x) = Own(entry, x) /\ KidsOf(entry', x) = KidsOf(entry, x)
    BY <2>7, OwnSame
  <2>9. Stopped(t) \in Walker /\ Stage(entry', Stopped(t))
    BY <1>1, <1>4, StoppedStage
  <2>10. ASSUME NEW x \in Entry
         PROVE  Own(entry', x) = Own(entry, x) + (Uses(Stopped(t), x) + leaked'[x]) - (Uses(th[t], x) + leaked[x])
    <3>1. Uses(Stopped(t), x) = One(th[t].at = x) + One(th[t].old = x)
      BY <1>1, <1>4, <2>2, StoppedFacts
    <3>2. Uses(Stopped(t), x) = Uses(th[t], x)
      BY <1>4, <3>1
    <3>3. Own(entry', x) = Own(entry, x) /\ Own(entry, x) \in Int /\ Uses(th[t], x) \in Nat
          /\ leaked[x] \in Nat /\ leaked'[x] = leaked[x]
      BY <1>2, <2>2, <2>8, OwnInt, UsesNat
    <3> QED BY <3>2, <3>3, SMT
  <2>11. \A x \in Entry : entry'[x] = None => KidsOf(entry', x) = {}
    BY <2>2, <2>7, <2>8 DEF Counted
  <2>12. ASSUME NEW x \in Entry, entry'[x] # None, entry'[x].refcount = 0
         PROVE  entry[x] # None /\ entry[x].refcount = 0 /\ th[t].zero # x
    BY <1>4, <2>7, <2>12, NoneFacts
  <2>13. ASSUME NEW x \in Entry, Own(entry, x) # 0, entry[x].node # None PROVE entry'[x].node # None
    BY <2>7, <2>13 DEF Own
  <2>14. /\ kind' \in [Node -> {"dir", "file", None}] /\ leaked' \in [Entry -> Nat]
         /\ dir' \in [Node -> [Name -> Node \cup {None}]] /\ th' = [th EXCEPT ![t] = Stopped(t)]
    BY <1>2, <2>2, <2>5 DEF DirType, Set
  <2> QED BY <2>3, <2>6, <2>9, <2>10, <2>11, <2>12, <2>13, <2>14, InvStep
<1> QED BY <1>5, <1>6


-----------------------------------------------------------------------------
LEMMA InitInv ==
  ASSUME FiniteSetFacts, Init
  PROVE  IInv
<1> SUFFICES Inv
  BY DEF IInv
<1>1. PICK r0 : r0 = [parent |-> RootEntry, name |-> None, node |-> RootNode,
                      refcount |-> 1, cached |-> FALSE]
  OBVIOUS
<1>2. /\ r0 \in FsEntry /\ r0.parent = RootEntry /\ r0.node = RootNode /\ r0.refcount = 1
      /\ r0.cached = FALSE /\ r0 # None
  <2>1. /\ r0 \in FsEntry /\ r0.parent = RootEntry /\ r0.node = RootNode /\ r0.refcount = 1
        /\ r0.cached = FALSE
    BY <1>1, NoneFacts, SMT DEF FsEntry
  <2> QED BY <2>1, NoneFacts
<1>3. /\ entry = [e \in Entry |-> IF e # RootEntry THEN None ELSE r0]
      /\ kind = [n \in Node |-> IF n = RootNode THEN "dir" ELSE None]
      /\ dir = [n \in Node |-> [x \in Name |-> None]]
      /\ th = [t \in Thread |-> Idle]
      /\ leaked = [e \in Entry |-> 0]
  BY <1>1 DEF Init
<1>4. entry[RootEntry] = r0 /\ \A e \in Entry : e # RootEntry => entry[e] = None
  BY <1>3, NoneFacts
<1>5. TypeOK
  <2>1. entry \in [Entry -> FsEntry \cup {None}]
    BY <1>2, <1>3
  <2>2. kind \in [Node -> {"dir", "file", None}]
    BY <1>3
  <2>3. dir \in [Node -> [Name -> Node \cup {None}]]
    BY <1>3
  <2>4. th \in [Thread -> Walker]
    BY <1>3, IdleFields
  <2>5. leaked \in [Entry -> Nat]
    BY <1>3
  <2> QED BY <2>1, <2>2, <2>3, <2>4, <2>5 DEF TypeOK
<1>6. \A e \in Entry : KidsOf(entry, e) = {}
  BY <1>4 DEF KidsOf
<1>7. \A e \in Entry : Own(entry, e) = 0
  <2> SUFFICES ASSUME NEW e \in Entry PROVE Own(entry, e) = 0
    OBVIOUS
  <2>1. CASE e # RootEntry
    BY <1>4, <2>1 DEF Own
  <2>2. CASE e = RootEntry
    <3>1. Cardinality(KidsOf(entry, e)) = 0 /\ One(e = RootEntry) = 1
      BY <1>6, <2>2, EmptyFinite DEF One
    <3>2. Own(entry, e) = 1 - 0 - 1
      BY <1>2, <1>4, <2>2, <3>1 DEF Own
    <3> QED BY <3>2, SMT
  <2> QED BY <2>1, <2>2
<1>8. \A e \in Entry : Holders(e) = 0
  <2> SUFFICES ASSUME NEW e \in Entry PROVE Holders(e) = 0
    OBVIOUS
  <2>1. \A t \in Thread : th[t].at # e /\ th[t].old # e /\ Len(th[t].puts) = 0
    <3>1. Len(<< >>) = 0
      BY SMT
    <3> QED BY <1>3, <3>1, IdleFields, NoneFacts
  <2>2. {t \in Thread : th[t].at = e} = {} /\ {t \in Thread : th[t].old = e} = {}
    BY <2>1
  <2>3. {x \in Thread \X (1..3) : x[2] <= Len(th[x[1]].puts) /\ th[x[1]].puts[x[2]] = e} = {}
    <3>1. ASSUME NEW x \in Thread \X (1..3) PROVE ~(x[2] <= Len(th[x[1]].puts))
      <4>1. x[1] \in Thread /\ x[2] \in 1..3
        BY SMT
      <4>2. Len(th[x[1]].puts) = 0
        BY <2>1, <4>1
      <4> QED BY <4>1, <4>2, SMT
    <3> QED BY <3>1
  <2>4. Cardinality({}) = 0
    BY EmptyFinite
  <2>5. Holders(e) = 0 + 0 + 0
    BY <2>2, <2>3, <2>4 DEF Holders
  <2> QED BY <2>5, SMT
<1>9. Counted
  <2> SUFFICES ASSUME NEW e \in Entry
               PROVE  /\ Own(entry, e) = Holders(e) + leaked[e]
                      /\ entry[e] = None => KidsOf(entry, e) = {}
                      /\ entry[e] # None /\ entry[e].refcount = 0 => \E t \in Thread : th[t].zero = e
    BY DEF Counted
  <2>1. Own(entry, e) = Holders(e) + leaked[e]
    <3>1. Own(entry, e) = 0 /\ Holders(e) = 0 /\ leaked[e] = 0
      BY <1>3, <1>7, <1>8
    <3> QED BY <3>1, SMT
  <2>2. ~(entry[e] # None /\ entry[e].refcount = 0)
    <3>1. 1 # 0
      BY SMT
    <3> QED BY <1>2, <1>4, <3>1
  <2> QED BY <1>6, <2>1, <2>2
<1>10. Stages
  <2> SUFFICES ASSUME NEW t \in Thread PROVE Stage(entry, Idle)
    BY <1>3 DEF Stages
  <2>1. /\ Idle.pc \notin {"lookup", "make"} /\ Idle.pc # "lookup" /\ Idle.pc # "make"
        /\ Idle.pc # "remove" /\ Idle.pc # "file" /\ Idle.op # "link"
    BY IdleFields, SMT
  <2>2. Len(Idle.puts) + One(Idle.zero # None) <= 3
    <3>1. Len(<< >>) = 0 /\ One(Idle.zero # None) = 0
      <4>1. One(Idle.zero # None) = 0
        BY IdleFields DEF One
      <4> QED BY <4>1, SMT
    <3>2. Len(Idle.puts) = 0
      BY <3>1, IdleFields
    <3> QED BY <3>1, <3>2, SMT
  <2> QED BY <2>1, <2>2, IdleFields DEF Stage
<1>11. Tree(entry, kind, dir)
  <2>1. RootIs(entry, kind)
    BY <1>2, <1>3, <1>4, NoneFacts DEF RootIs
  <2>2. Named(entry, kind) /\ OneName(entry) /\ Agree(entry, dir)
    BY <1>4 DEF Named, OneName, Agree
  <2>3. NodesUsed(entry, kind) /\ OneEntry(entry, kind)
    BY <1>2, <1>3, <1>4, NoneFacts DEF NodesUsed, OneEntry
  <2>4. \A n \in Node, x \in Name : dir[n][x] = None
    BY <1>3
  <2>5. DirsUsed(kind, dir) /\ OneDir(kind, dir) /\ Detached(entry, kind, dir)
    BY <2>4 DEF DirsUsed, OneDir, Detached
  <2> QED BY <2>1, <2>2, <2>3, <2>5 DEF Tree
<1> QED BY <1>5, <1>9, <1>10, <1>11 DEF Inv

LEMMA StepInv ==
  ASSUME FiniteSetFacts, Inv, NEW t \in Thread, Step(t), fault' = None
  PROVE  Inv'
<1>1. CASE PutEntry(t)
  BY <1>1, PutEntryStep
<1>2. CASE PutFinish(t)
  BY <1>2, PutFinishStep
<1>3. ASSUME NEW op \in {"open", "create", "unlink", "rmdir", "mkdir", "resolve"}, NEW p \in Path,
             Start(t, op, p)
      PROVE  Inv'
  BY <1>3, StartStep
<1>4. CASE WalkDotDot(t)
  BY <1>4, WalkDotDotStep
<1>5. CASE LockDir(t)
  BY <1>5, LockDirStep
<1>6. CASE vfs_release(t)
  BY <1>6, ReleaseStep
<1>7. ASSUME NEW p \in Path, LinkNewName(t, p) PROVE Inv'
  BY <1>7, LinkNewNameStep
<1>8. ASSUME NEW new \in Spare, vfs_walk(t, new) PROVE Inv'
  BY <1>8, WalkStep
<1>9. ASSUME NEW new \in Spare, vfs_file_open(t, new) PROVE Inv'
  BY <1>9, OpenStep
<1>10. ASSUME NEW new \in Spare, vfs_mkdir(t, new) PROVE Inv'
  BY <1>10, MkdirStep
<1>11. ASSUME NEW new \in Spare, vfs_link(t, new) PROVE Inv'
  BY <1>11, LinkStep
<1>12. CASE vfs_unlink(t) \/ vfs_rmdir(t)
  BY <1>12, LockParentStep DEF vfs_unlink, vfs_rmdir
<1>13. CASE ramfs_entry_unlink(t)
  BY <1>13, UnlinkStep
<1> QED BY <1>1, <1>2, <1>3, <1>4, <1>5, <1>6, <1>7, <1>8, <1>9, <1>10, <1>11, <1>12, <1>13 DEF Step

LEMMA NextInv ==
  ASSUME FiniteSetFacts, IInv, [Next]_vars
  PROVE  IInv'
<1> SUFFICES ASSUME fault' = None PROVE Inv'
  BY DEF IInv
<1>1. CASE Next
  <2>1. fault = None /\ \E t \in Thread : Step(t)
    BY <1>1 DEF Next
  <2>2. Inv
    BY <2>1 DEF IInv
  <2> QED BY <2>1, <2>2, StepInv
<1>2. CASE UNCHANGED vars
  <2>1. /\ entry' = entry /\ kind' = kind /\ dir' = dir /\ th' = th /\ leaked' = leaked
        /\ fault' = fault
    BY <1>2 DEF vars
  <2>2. Inv
    BY <2>1 DEF IInv
  <2> QED BY <2>1, <2>2 DEF Inv, TypeOK, Counted, Stages, Holders
<1> QED BY <1>1, <1>2

-----------------------------------------------------------------------------
INSTANCE FiniteSetTheorems

LEMMA Facts == FiniteSetFacts
<1>1. ASSUME NEW S, IsFiniteSet(S)
      PROVE  Cardinality(S) \in Nat /\ (Cardinality(S) = 0 => S = {})
  BY <1>1, FS_CardinalityType, FS_EmptySet
<1>2. ASSUME NEW S, IsFiniteSet(S), NEW T \in SUBSET S PROVE IsFiniteSet(T)
  BY <1>2, FS_Subset
<1>3. ASSUME NEW S, IsFiniteSet(S), NEW x
      PROVE  /\ IsFiniteSet(S \cup {x})
             /\ Cardinality(S \cup {x}) = IF x \in S THEN Cardinality(S) ELSE Cardinality(S) + 1
  BY <1>3, FS_AddElement
<1>4. ASSUME NEW S, IsFiniteSet(S), NEW x
      PROVE  /\ IsFiniteSet(S \ {x})
             /\ Cardinality(S \ {x}) = IF x \in S THEN Cardinality(S) - 1 ELSE Cardinality(S)
  BY <1>4, FS_RemoveElement
<1>5. ASSUME NEW S, IsFiniteSet(S), NEW T, IsFiniteSet(T) PROVE IsFiniteSet(S \X T)
  BY <1>5, FS_Product
<1>6. ASSUME NEW i \in Int, NEW j \in Int PROVE IsFiniteSet(i..j)
  BY <1>6, FS_Interval
<1>7. IsFiniteSet({}) /\ Cardinality({}) = 0
  BY FS_EmptySet
<1> QED BY <1>1, <1>2, <1>3, <1>4, <1>5, <1>6, <1>7 DEF FiniteSetFacts

(* The invariant holds in every behaviour: the counts, the stages of the   *)
(* threads and the shape of the cache, until a fault of the code.          *)
THEOREM CacheInvariant == Spec => []IInv
<1>1. Init => IInv
  BY Facts, InitInv
<1>2. IInv /\ [Next]_vars => IInv'
  BY Facts, NextInv
<1> QED BY <1>1, <1>2, PTL DEF Spec

(* The count of every entry is that of its users and of its children, and  *)
(* of the references vfs_file_open forgot; no entry in use is free.        *)
THEOREM Counts == Spec => []EntriesCounted
<1>1. IInv => EntriesCounted
  <2> SUFFICES ASSUME Inv, NEW e \in Entry
               PROVE  IF entry[e] = None THEN Holders(e) + Children(e) = 0
                      ELSE /\ entry[e].refcount = Holders(e) + Children(e) + leaked[e]
                                                    + (IF e = RootEntry THEN 1 ELSE 0)
                           /\ entry[e].refcount = 0 => \E t \in Thread : th[t].zero = e
    BY DEF IInv, EntriesCounted
  <2>1. Children(e) = Cardinality(KidsOf(entry, e))
    BY DEF Children, KidsOf
  <2>2. TypeOK /\ Counted /\ entry \in EntryType /\ leaked[e] \in Nat
    BY InvParts
  <2>3. Own(entry, e) = Holders(e) + leaked[e]
    BY <2>2 DEF Counted
  <2>4. Holders(e) \in Nat
    <3>1. th \in [Thread -> Walker]
      BY <2>2 DEF TypeOK
    <3> QED BY <3>1, Facts, HoldersNat
  <2>5. CASE entry[e] = None
    <3>1. Own(entry, e) = 0 /\ KidsOf(entry, e) = {}
      BY <2>2, <2>5 DEF Own, Counted
    <3>2. Children(e) = 0
      BY <2>1, <3>1, Facts, EmptyFinite
    <3>3. Holders(e) + Children(e) = 0
      BY <2>2, <2>3, <2>4, <3>1, <3>2, SMT
    <3> QED BY <2>5, <3>3
  <2>6. CASE entry[e] # None
    <3>1. Own(entry, e) = entry[e].refcount - Children(e) - One(e = RootEntry)
      BY <2>1, <2>6 DEF Own
    <3>2. entry[e].refcount \in Int /\ Children(e) \in Nat /\ One(e = RootEntry) \in Nat
      BY <2>1, <2>2, <2>6, EntryFields, Facts, KidsFinite DEF One
    <3>3. entry[e].refcount = Holders(e) + Children(e) + leaked[e] + One(e = RootEntry)
      BY <2>2, <2>3, <2>4, <3>1, <3>2, SMT
    <3>4. entry[e].refcount = 0 => \E t \in Thread : th[t].zero = e
      BY <2>2, <2>6 DEF Counted
    <3> QED BY <2>6, <3>3, <3>4 DEF One
  <2> QED BY <2>5, <2>6
<1> QED BY <1>1, CacheInvariant, PTL

(* The cache agrees with the directories of ramfs: a cached name has one   *)
(* entry, with the node ramfs has under the name; one without a node is    *)
(* being made, is about to be freed, or was forgotten by vfs_file_open.    *)
THEOREM Coherence == Spec => []CacheCoherent
<1>1. IInv => CacheCoherent
  <2> SUFFICES ASSUME Inv, NEW e \in Entry \ {RootEntry}, entry[e] # None, entry[e].cached
               PROVE  /\ Cached(entry[e].parent, entry[e].name) = {e}
                      /\ IF entry[e].node # None
                           THEN dir[NodeOf(entry[e].parent)][entry[e].name] = entry[e].node
                         ELSE leaked[e] > 0 \/ Holders(e) > 0 \/ entry[e].refcount = 0
    BY DEF IInv, CacheCoherent
  <2>1. TypeOK /\ Counted /\ Tree(entry, kind, dir) /\ entry \in EntryType /\ leaked[e] \in Nat
    BY InvParts
  <2>2. Cached(entry[e].parent, entry[e].name) = {e}
    <3>1. OneName(entry)
      BY <2>1 DEF Tree
    <3>2. ASSUME NEW x \in Cached(entry[e].parent, entry[e].name) PROVE x = e
      <4>1. /\ x \in Entry \ {RootEntry} /\ entry[x] # None /\ entry[x].cached
            /\ entry[x].parent = entry[e].parent /\ entry[x].name = entry[e].name
        BY <3>2 DEF Cached
      <4> QED BY <3>1, <4>1 DEF OneName
    <3>3. e \in Cached(entry[e].parent, entry[e].name)
      BY DEF Cached
    <3> QED BY <3>2, <3>3
  <2>3. dir[NodeOf(entry[e].parent)][entry[e].name] = entry[e].node
    BY <2>1 DEF Tree, Agree, NodeOf
  <2>4. ASSUME entry[e].node = None PROVE leaked[e] > 0 \/ Holders(e) > 0 \/ entry[e].refcount = 0
    <3>1. KidsOf(entry, e) = {}
      <4>1. ASSUME NEW c \in KidsOf(entry, e) PROVE FALSE
        <5>1. c \in Entry \ {RootEntry} /\ entry[c] # None /\ entry[c].parent = e
          BY <4>1 DEF KidsOf
        <5>2. entry[entry[c].parent].node # None
          BY <2>1, <5>1 DEF Tree, Named
        <5> QED BY <2>4, <5>1, <5>2
      <4> QED BY <4>1
    <3>2. Cardinality(KidsOf(entry, e)) = 0 /\ One(e = RootEntry) = 0
      BY <3>1, Facts, EmptyFinite DEF One
    <3>3. Own(entry, e) = entry[e].refcount - 0 - 0
      BY <3>2 DEF Own
    <3>4. Own(entry, e) = Holders(e) + leaked[e] /\ entry[e].refcount \in Int
      BY <2>1, EntryFields DEF Counted
    <3>5. Holders(e) \in Nat
      <4>1. th \in [Thread -> Walker]
        BY <2>1 DEF TypeOK
      <4> QED BY <4>1, Facts, HoldersNat
    <3> QED BY <2>1, <3>3, <3>4, <3>5, SMT
  <2> QED BY <2>2, <2>3, <2>4
<1> QED BY <1>1, CacheInvariant, PTL

=============================================================================
