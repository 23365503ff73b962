------------------------------- MODULE MmProof -------------------------------
(***************************************************************************)
(* The inductive invariant of the address spaces, the facts about areas,   *)
(* page counts and steps that its proof rests on, and the steps that do    *)
(* not map or unmap a page.                                                *)
(***************************************************************************)
EXTENDS Exec, TLAPS

USE ZenonT(60), SMTT(60)

Entry == [page : Page, write : BOOLEAN]
Area == [begin : Nat, end : Nat, write : BOOLEAN]
Data == Value \cup {0, FileData, ArgData}

Stages == {"stack", "args", "segment", "load"}

OpFault == [kind : {"fault"}, stage : {"copy", "get", "map", "put", "drop"}, addr : Addr,
            write : BOOLEAN, old : Page \cup {None}, new : Page, seen : Int]
OpFork == [kind : {"fork"}, child : MM, vmas : SUBSET Area, pages : SUBSET Addr,
           page : Page \cup {None}, seen : Int]
OpExec == [kind : {"exec"}, stage : Stages, new : MM, prog : Seq(Phdr),
           addr : Nat, offset : Nat, remain : Nat]
OpRelease == [kind : {"release"}, mm : MM]
OpPlain == [kind : {"unused", "private", "running", "stuck"}]

Op == OpFault \cup OpFork \cup OpExec \cup OpRelease \cup OpPlain

TypeOK ==
  /\ op \in [MM -> Op]
  /\ vma \in [MM -> SUBSET Area]
  /\ pte \in [MM -> [Addr -> Entry \cup {None}]]
  /\ refcount \in [Page -> Int]
  /\ free \in SUBSET Page
  /\ content \in [Page -> Data]
  /\ raced \in BOOLEAN
  /\ val \in [MM -> [Addr -> Data]]
  /\ base \in [Page -> Nat]

-----------------------------------------------------------------------------
Kind(m) == op[m].kind

(* m works on the address space x, another than its own.                   *)
Owns(m, x) ==
  \/ Kind(m) = "fork" /\ op[m].child = x
  \/ Kind(m) = "exec" /\ op[m].new = x
  \/ Kind(m) = "release" /\ op[m].mm = x /\ x # m

Owned ==
  /\ \A m, x \in MM : Owns(m, x) => op[x] = Private
  /\ \A m, n, x \in MM : Owns(m, x) /\ Owns(n, x) => m = n

Covered(x, a) == \E v \in vma[x] : a \in PagesOf(v)

(* Areas have aligned ends and do not overlap; entries lie in areas.       *)
Tidy(V) ==
  /\ \A v \in V : v.begin <= v.end /\ v.end % PAGE_SIZE = 0
  /\ \A v, w \in V : v # w => ~Overlap(v, w.begin, w.end)

Areas ==
  \A x \in MM :
    /\ Tidy(vma[x])
    /\ \A a \in Addr : pte[x][a] # None => Covered(x, a)
    /\ op[x] = Unused => vma[x] = {}

Mapping(m, a, p) == pte[m][a] # None /\ pte[m][a].page = p

(* A fault before it maps its page, and after.                             *)
Faulting(m) == Kind(m) = "fault" /\ op[m].stage \in {"copy", "get", "map"}
Holding(m) == Kind(m) = "fault" /\ op[m].stage \in {"put", "drop"}
Ready(m) == Kind(m) = "fault" /\ op[m].stage \in {"get", "map"} /\ op[m].write

FaultInv(m) ==
  Kind(m) = "fault" =>
    /\ Covered(m, op[m].addr)
    /\ op[m].stage = "copy" => op[m].write
    /\ Holding(m) => op[m].old \in Page
    /\ Faulting(m) =>
         /\ ~Writable(m, op[m].addr)
         /\ op[m].old = (IF pte[m][op[m].addr] = None THEN None ELSE pte[m][op[m].addr].page)
         /\ ~op[m].write => op[m].old = None /\ op[m].new = ZeroPage

ForkInv(m) ==
  Kind(m) = "fork" =>
    /\ \A v \in op[m].vmas : v.begin <= v.end
    /\ \A a \in op[m].pages :
         pte[m][a] # None /\ pte[op[m].child][a] = None /\ Covered(op[m].child, a)
    /\ \A a \in Addr : pte[m][a] # None =>
         \/ pte[op[m].child][a] # None \/ a \in op[m].pages
         \/ \E v \in op[m].vmas : a \in PagesOf(v)
    /\ op[m].page # None =>
         /\ op[m].pages # {}
         /\ Mapping(m, Min(op[m].pages), op[m].page)
         /\ ~Writable(m, Min(op[m].pages))

(* The segment being loaded: its area has no page from f.addr on.          *)
Loading(f, v) ==
  /\ v.begin <= f.addr * PAGE_SIZE
  /\ Head(f.prog).begin + Head(f.prog).memsz <= v.end
  /\ \A a \in PagesOf(v) : a >= f.addr => pte[f.new][a] = None

WellFormed(prog) ==
  \A i \in 1..Len(prog) :
    /\ prog[i].filesz <= prog[i].memsz
    /\ (prog[i].begin + prog[i].memsz) \div PAGE_SIZE \in Addr

ExecInv(m) ==
  Kind(m) = "exec" =>
    /\ WellFormed(op[m].prog)
    /\ op[m].stage = "stack" => vma[op[m].new] = {}
    /\ op[m].stage = "args" => pte[op[m].new] = Empty /\ Covered(op[m].new, StackPage)
    /\ op[m].stage = "load" =>
         /\ op[m].prog # << >>
         /\ op[m].offset < PAGE_SIZE
         /\ op[m].remain > 0 =>
              op[m].addr * PAGE_SIZE + op[m].offset + op[m].remain
                = Head(op[m].prog).begin + Head(op[m].prog).filesz
         /\ \E v \in vma[op[m].new] : Loading(op[m], v)

OpInv == \A m \in MM : FaultInv(m) /\ ForkInv(m) /\ ExecInv(m)

-----------------------------------------------------------------------------
Maps(p) == {x \in MM \X Addr : pte[x[1]][x[2]] # None /\ pte[x[1]][x[2]].page = p}
Holders(p) == {m \in MM : Kind(m) = "fault" /\ op[m].stage \in {"put", "drop"} /\ op[m].old = p}

Count(p) ==
  /\ p \in free => Maps(p) = {} /\ Holders(p) = {} /\ refcount[p] >= 0
  /\ p \notin free => refcount[p] = base[p] + Cardinality(Maps(p)) + Cardinality(Holders(p))

Counted == \A p \in Page : Count(p)

ZeroInv == ZeroPage \notin free /\ base[ZeroPage] = 1 /\ content[ZeroPage] = 0

(* A writable entry is the only one of its page.                           *)
Sole(m, a, p) == \A n \in MM, b \in Addr : Mapping(n, b, p) => n = m /\ b = a

WriteInv ==
  \A m \in MM, a \in Addr : Writable(m, a) => Sole(m, a, pte[m][a].page) /\ pte[m][a].page # ZeroPage

Held(m, p) == Holding(m) /\ op[m].old = p

ReadyInv ==
  /\ \A m \in MM : Ready(m) =>
       /\ op[m].new \notin free /\ op[m].new # ZeroPage
       /\ Sole(m, op[m].addr, op[m].new)
       /\ \A k \in MM : ~Held(k, op[m].new)
       /\ content[op[m].new] = val[m][op[m].addr]
  /\ \A m, n \in MM : Ready(m) /\ Ready(n) /\ op[m].new = op[n].new => m = n

SameContent == \A m \in MM, a \in Addr : pte[m][a] # None => content[pte[m][a].page] = val[m][a]

(* m's thread will find zeros where it has no page.                        *)
Live(m) == Kind(m) \in {"running", "fault", "fork", "exec"} \/ (Kind(m) = "release" /\ op[m].mm # m)

Zeros(x) == \A a \in Addr : pte[x][a] = None => val[x][a] = 0

BlankInv(m) ==
  /\ Live(m) => Zeros(m)
  /\ Kind(m) = "exec" => Zeros(op[m].new)
  /\ Kind(m) = "fork" => \A a \in Addr : val[op[m].child][a] = val[m][a]

Blank == \A m \in MM : BlankInv(m)

PageInv == Counted /\ ZeroInv /\ WriteInv /\ ReadyInv /\ SameContent /\ Blank

IInv == TypeOK /\ Owned /\ Areas /\ OpInv /\ (~raced => PageInv)
-----------------------------------------------------------------------------
(* What the library proves of naturals and of finite sets.  The lemmas that*)
(* need it assume it, and ExecProof, which extends the library's modules,  *)
(* shows that it holds: those modules would slow down every proof here.    *)
FiniteSetFacts ==
  /\ \A S \in SUBSET Nat : S # {} => \E x \in S : \A y \in S : x <= y
  /\ \A S, T : IsFiniteSet(S) /\ IsFiniteSet(T) => IsFiniteSet(S \X T)
  /\ \A S : IsFiniteSet(S) =>
       /\ \A T \in SUBSET S : IsFiniteSet(T)
       /\ Cardinality(S) \in Nat
       /\ Cardinality(S) = 0 <=> S = {}
       /\ Cardinality(S) = 1 <=> \E x : S = {x}
       /\ \A x : Cardinality(S \cup {x}) = IF x \in S THEN Cardinality(S) ELSE Cardinality(S) + 1
       /\ \A x : Cardinality(S \ {x}) = IF x \in S THEN Cardinality(S) - 1 ELSE Cardinality(S)
  /\ IsFiniteSet({}) /\ \A x : IsFiniteSet({x})

LEMMA LeastNat ==
  ASSUME FiniteSetFacts, NEW S, S \subseteq Nat, S # {}
  PROVE  \E x \in S : \A y \in S : x <= y
BY DEF FiniteSetFacts

LEMMA FiniteProduct ==
  ASSUME FiniteSetFacts, NEW S, IsFiniteSet(S), NEW T, IsFiniteSet(T)
  PROVE  IsFiniteSet(S \X T)
BY DEF FiniteSetFacts

LEMMA FiniteSubset ==
  ASSUME FiniteSetFacts, NEW S, IsFiniteSet(S), NEW T \in SUBSET S
  PROVE  IsFiniteSet(T)
BY DEF FiniteSetFacts

LEMMA CardNat ==
  ASSUME FiniteSetFacts, NEW S, IsFiniteSet(S)
  PROVE  Cardinality(S) \in Nat
BY DEF FiniteSetFacts

LEMMA CardEmpty ==
  ASSUME FiniteSetFacts
  PROVE  /\ IsFiniteSet({}) /\ Cardinality({}) = 0
         /\ \A S : IsFiniteSet(S) => (Cardinality(S) = 0 <=> S = {})
BY DEF FiniteSetFacts

LEMMA CardSingle ==
  ASSUME FiniteSetFacts
  PROVE  /\ \A x : IsFiniteSet({x}) /\ Cardinality({x}) = 1
         /\ \A S : IsFiniteSet(S) => (Cardinality(S) = 1 <=> \E x : S = {x})
BY DEF FiniteSetFacts

LEMMA CardAdd ==
  ASSUME FiniteSetFacts, NEW S, NEW x, IsFiniteSet(S)
  PROVE  Cardinality(S \cup {x}) = IF x \in S THEN Cardinality(S) ELSE Cardinality(S) + 1
BY DEF FiniteSetFacts

LEMMA CardRemove ==
  ASSUME FiniteSetFacts, NEW S, NEW x, IsFiniteSet(S)
  PROVE  Cardinality(S \ {x}) = IF x \in S THEN Cardinality(S) - 1 ELSE Cardinality(S)
BY DEF FiniteSetFacts

LEMMA MinIn ==
  ASSUME FiniteSetFacts, NEW S, S \subseteq Nat, S # {}
  PROVE  Min(S) \in S
BY LeastNat DEF Min

(* The area that copy_vma and unmap_all_vma begin with.                    *)
LEMMA LowestIn ==
  ASSUME FiniteSetFacts, NEW V, V \subseteq Area, V # {}
  PROVE  (CHOOSE v \in V : \A w \in V : v.begin <= w.begin) \in V
<1> DEFINE B == {v.begin : v \in V}
<1>1. B \subseteq Nat /\ B # {}
  BY SMT DEF Area
<1>2. PICK b \in B : \A c \in B : b <= c
  BY <1>1, LeastNat
<1>3. PICK v \in V : v.begin = b
  OBVIOUS
<1>4. \A w \in V : v.begin <= w.begin
  BY <1>2, <1>3
<1> QED BY <1>4

LEMMA MinMaxPair ==
  ASSUME NEW i \in Int, NEW j \in Int
  PROVE  /\ Min({i, j}) = (IF i <= j THEN i ELSE j)
         /\ Max({i, j}) = (IF i <= j THEN j ELSE i)
<1>1. Min({i, j}) = (IF i <= j THEN i ELSE j)
  BY SMT DEF Min
<1>2. Max({i, j}) = (IF i <= j THEN j ELSE i)
  BY SMT DEF Max
<1> QED BY <1>1, <1>2

-----------------------------------------------------------------------------
LEMMA PairNat ==
  ASSUME NEW i \in Nat, NEW j \in Nat
  PROVE  /\ \E k \in Nat : k = Min({i, j}) /\ k = (IF i <= j THEN i ELSE j)
         /\ \E k \in Nat : k = Max({i, j}) /\ k = (IF i <= j THEN j ELSE i)
<1>1. i \in Int /\ j \in Int
  BY SMT
<1>2. /\ Min({i, j}) = (IF i <= j THEN i ELSE j)
      /\ Max({i, j}) = (IF i <= j THEN j ELSE i)
  BY <1>1, MinMaxPair
<1> QED BY <1>2

(* The areas __munmap leaves of one area: the part in front of the range   *)
(* and the part behind it.                                                 *)
LEMMA TrimPiece ==
  ASSUME NEW v \in Area, NEW b \in Nat, NEW e \in Nat, NEW w \in Trim(v, b, e)
  PROVE  /\ w \in Area /\ w.begin < w.end
         /\ \/ w.begin = v.begin /\ w.end <= b /\ (w.end = v.end \/ (v.end > b /\ w.end = b))
            \/ w.end = v.end /\ w.begin >= e /\ w.begin >= v.begin
<1>1. v.begin \in Nat /\ v.end \in Nat /\ v.write \in BOOLEAN
  BY SMT DEF Area
<1>2. PICK lo \in Nat : lo = Min({v.end, b}) /\ lo = (IF v.end <= b THEN v.end ELSE b)
  BY <1>1, PairNat
<1>3. PICK hi \in Nat : hi = Max({v.begin, e}) /\ hi = (IF v.begin <= e THEN e ELSE v.begin)
  BY <1>1, PairNat
<1>4. w \in {[v EXCEPT !.end = lo], [v EXCEPT !.begin = hi]}
  BY <1>2, <1>3 DEF Trim
<1>5. w.begin < w.end
  BY DEF Trim
<1>6. CASE w = [v EXCEPT !.end = lo]
  <2>1. w \in Area /\ w.begin = v.begin /\ w.end = lo
    BY <1>1, <1>6, SMT DEF Area
  <2>2. lo = (IF v.end <= b THEN v.end ELSE b)
    BY <1>2
  <2>3. lo <= b /\ (lo = v.end \/ (v.end > b /\ lo = b))
    BY <1>1, <2>2, SMT
  <2> QED BY <1>5, <2>1, <2>3
<1>7. CASE w = [v EXCEPT !.begin = hi]
  <2>1. w \in Area /\ w.begin = hi /\ w.end = v.end
    BY <1>1, <1>7, SMT DEF Area
  <2>2. hi >= e /\ hi >= v.begin
    BY <1>1, <1>3, SMT
  <2> QED BY <1>5, <2>1, <2>2
<1> QED BY <1>4, <1>6, <1>7

(* What lies in front of the range, or behind it, stays.                   *)
LEMMA TrimKeeps ==
  ASSUME NEW v \in Area, NEW b \in Nat, NEW e \in Nat
  PROVE  /\ v.begin < v.end /\ v.begin < b =>
              \E w \in Trim(v, b, e) : w.begin = v.begin /\ (w.end = v.end \/ w.end = b)
         /\ v.begin < v.end /\ e < v.end =>
              \E w \in Trim(v, b, e) : w.end = v.end /\ (w.begin = v.begin \/ w.begin = e)
<1>1. v.begin \in Nat /\ v.end \in Nat /\ v.write \in BOOLEAN
  BY SMT DEF Area
<1>2. PICK lo \in Nat : lo = Min({v.end, b}) /\ lo = (IF v.end <= b THEN v.end ELSE b)
  BY <1>1, PairNat
<1>3. PICK hi \in Nat : hi = Max({v.begin, e}) /\ hi = (IF v.begin <= e THEN e ELSE v.begin)
  BY <1>1, PairNat
<1>4. Trim(v, b, e) = {w \in {[v EXCEPT !.end = lo], [v EXCEPT !.begin = hi]} : w.begin < w.end}
  BY <1>2, <1>3 DEF Trim
<1>5. ASSUME v.begin < v.end, v.begin < b
      PROVE  \E w \in Trim(v, b, e) : w.begin = v.begin /\ (w.end = v.end \/ w.end = b)
  <2>1. PICK w : w = [v EXCEPT !.end = lo]
    OBVIOUS
  <2>2. w.begin = v.begin /\ w.end = lo
    BY <1>1, <2>1, SMT DEF Area
  <2>3. v.begin < lo /\ (lo = v.end \/ lo = b)
    BY <1>1, <1>2, <1>5, SMT
  <2>4. w \in Trim(v, b, e)
    BY <1>4, <2>1, <2>2, <2>3
  <2> QED BY <2>2, <2>3, <2>4
<1>6. ASSUME v.begin < v.end, e < v.end
      PROVE  \E w \in Trim(v, b, e) : w.end = v.end /\ (w.begin = v.begin \/ w.begin = e)
  <2>1. PICK w : w = [v EXCEPT !.begin = hi]
    OBVIOUS
  <2>2. w.begin = hi /\ w.end = v.end
    BY <1>1, <2>1, SMT DEF Area
  <2>3. hi < v.end /\ (hi = v.begin \/ hi = e)
    BY <1>1, <1>3, <1>6, SMT
  <2>4. w \in Trim(v, b, e)
    BY <1>4, <2>1, <2>2, <2>3
  <2> QED BY <2>2, <2>3, <2>4
<1> QED BY <1>5, <1>6


LEMMA TrimApart ==
  ASSUME NEW v \in Area, NEW b \in Nat, NEW e \in Nat, b <= e,
         NEW w \in Trim(v, b, e), NEW u \in Trim(v, b, e), w # u
  PROVE  ~Overlap(w, u.begin, u.end)
<1>1. v.begin \in Nat /\ v.end \in Nat /\ v.write \in BOOLEAN
  BY SMT DEF Area
<1>2. PICK lo \in Nat : lo = Min({v.end, b}) /\ lo = (IF v.end <= b THEN v.end ELSE b)
  BY <1>1, PairNat
<1>3. PICK hi \in Nat : hi = Max({v.begin, e}) /\ hi = (IF v.begin <= e THEN e ELSE v.begin)
  BY <1>1, PairNat
<1>4. lo = (IF v.end <= b THEN v.end ELSE b) /\ hi = (IF v.begin <= e THEN e ELSE v.begin)
  BY <1>2, <1>3
<1>5. lo <= hi
  BY <1>1, <1>4, SMT
<1>6. w \in {[v EXCEPT !.end = lo], [v EXCEPT !.begin = hi]}
  BY <1>2, <1>3 DEF Trim
<1>7. u \in {[v EXCEPT !.end = lo], [v EXCEPT !.begin = hi]}
  BY <1>2, <1>3 DEF Trim
<1>8. CASE w = [v EXCEPT !.end = lo] /\ u = [v EXCEPT !.begin = hi]
  <2>1. w.end = lo /\ u.begin = hi
    BY <1>1, <1>8, SMT DEF Area
  <2> QED BY <1>5, <2>1, SMT DEF Overlap
<1>9. CASE u = [v EXCEPT !.end = lo] /\ w = [v EXCEPT !.begin = hi]
  <2>1. u.end = lo /\ w.begin = hi
    BY <1>1, <1>9, SMT DEF Area
  <2> QED BY <1>5, <2>1, SMT DEF Overlap
<1> QED BY <1>6, <1>7, <1>8, <1>9, SMT

(* The pages that __munmap takes from the page table, as Munmap has them.  *)
Gone(b, e) == {a \in Addr : a >= b \div PAGE_SIZE /\ a < (b \div PAGE_SIZE) + ((e - b) \div PAGE_SIZE)}

(* __munmap leaves the areas tidy, and an area for each page that it leaves*)
(* in the page table.                                                      *)
(* The areas W that are left of the areas V when the pages G go.           *)
Trimmed(V, W, G) ==
  /\ W \in SUBSET Area /\ Tidy(W)
  /\ \A a \in Addr \ G : (\E v \in V : a \in PagesOf(v)) => \E w \in W : a \in PagesOf(w)

LEMMA MunmapTidy ==
  ASSUME NEW V \in SUBSET Area, Tidy(V), NEW b \in Nat, NEW e \in Nat, b <= e, b % PAGE_SIZE = 0,
         NEW W, W = UNION {Trim(v, b, e) : v \in V}, NEW G, G = Gone(b, e)
  PROVE  Trimmed(V, W, G)
<1>1. ASSUME NEW w \in W PROVE \E v \in V : w \in Trim(v, b, e)
  OBVIOUS
<1>2. ASSUME NEW v \in V, NEW w \in Trim(v, b, e)
      PROVE  /\ w \in Area /\ w.begin < w.end
             /\ v.begin <= w.begin /\ w.end <= v.end /\ w.end % PAGE_SIZE = 0
  <2>1. v \in Area /\ w \in Area /\ w.begin < w.end
    BY TrimPiece
  <2>2. v.begin <= v.end /\ v.end % PAGE_SIZE = 0
    BY DEF Tidy
  <2>3. \/ w.begin = v.begin /\ w.end <= b /\ (w.end = v.end \/ (v.end > b /\ w.end = b))
        \/ w.end = v.end /\ w.begin >= e /\ w.begin >= v.begin
    BY <2>1, TrimPiece, SMT
  <2> QED BY <2>1, <2>2, <2>3, SMT DEF Area
<1>3. W \in SUBSET Area
  BY <1>1, <1>2
<1>4. \A w \in W : w.begin <= w.end /\ w.end % PAGE_SIZE = 0
  <2> TAKE w \in W
  <2>1. w \in Area /\ w.begin < w.end /\ w.end % PAGE_SIZE = 0
    BY <1>1, <1>2
  <2> QED BY <2>1, SMT DEF Area
<1>5. \A w, u \in W : w # u => ~Overlap(w, u.begin, u.end)
  <2> SUFFICES ASSUME NEW w \in W, NEW u \in W, w # u PROVE ~Overlap(w, u.begin, u.end)
    OBVIOUS
  <2>1. PICK v \in V : w \in Trim(v, b, e)
    BY <1>1
  <2>2. PICK x \in V : u \in Trim(x, b, e)
    BY <1>1
  <2>3. CASE v = x
    BY <2>1, <2>2, <2>3, TrimApart
  <2>4. CASE v # x
    <3>1. ~Overlap(v, x.begin, x.end)
      BY <2>4 DEF Tidy
    <3>2. /\ w \in Area /\ w.begin < w.end /\ v.begin <= w.begin /\ w.end <= v.end
          /\ u \in Area /\ u.begin < u.end /\ x.begin <= u.begin /\ u.end <= x.end
      BY <1>2, <2>1, <2>2
    <3>3. v \in Area /\ x \in Area
      OBVIOUS
    <3> QED BY <3>1, <3>2, <3>3, SMT DEF Overlap, Area
  <2> QED BY <2>3, <2>4
<1>6. ASSUME NEW a \in Addr \ Gone(b, e), NEW v \in V, a \in PagesOf(v)
      PROVE  \E w \in W : a \in PagesOf(w)
  <2>1. v \in Area /\ a \in Nat
    BY MmAssumption
  <2>2. a * 2 < v.end /\ v.begin < (a + 1) * 2
    BY <1>6 DEF PagesOf, Overlap, PAGE_SIZE
  <2>3. v.end % 2 = 0 /\ b % 2 = 0
    BY DEF Tidy, PAGE_SIZE
  <2>4. ~(a >= b \div 2 /\ a < (b \div 2) + ((e - b) \div 2))
    BY DEF Gone, PAGE_SIZE
  <2>5. v.begin < v.end /\ (a * 2 + 2 <= b \/ (e < a * 2 + 2 /\ e < v.end))
    BY <2>1, <2>2, <2>3, <2>4, SMT DEF Area
  <2>6. CASE a * 2 + 2 <= b
    <3>1. v.begin < b
      BY <2>1, <2>2, <2>6, SMT DEF Area
    <3>2. PICK w \in Trim(v, b, e) : w.begin = v.begin /\ (w.end = v.end \/ w.end = b)
      BY <2>5, <3>1, TrimKeeps
    <3>3. a * 2 < w.end /\ w.begin < (a + 1) * 2
      BY <2>1, <2>2, <2>6, <3>2, SMT DEF Area
    <3>4. a \in PagesOf(w)
      BY <3>3 DEF PagesOf, Overlap, PAGE_SIZE
    <3> QED BY <3>4
  <2>7. CASE e < a * 2 + 2 /\ e < v.end
    <3>2. PICK w \in Trim(v, b, e) : w.end = v.end /\ (w.begin = v.begin \/ w.begin = e)
      BY <2>5, <2>7, TrimKeeps
    <3>3. a * 2 < w.end /\ w.begin < (a + 1) * 2
      BY <2>1, <2>2, <2>7, <3>2, SMT DEF Area
    <3>4. a \in PagesOf(w)
      BY <3>3 DEF PagesOf, Overlap, PAGE_SIZE
    <3> QED BY <3>4
  <2> QED BY <2>5, <2>6, <2>7
<1>7. Tidy(W)
  BY <1>4, <1>5 DEF Tidy
<1> QED BY <1>3, <1>6, <1>7 DEF Trimmed


(* The area u from begin to end, rounded, joins the areas V and shares no  *)
(* page with them.                                                         *)
Joins(u, V, begin, end) ==
  /\ u \in Area /\ V \cup {u} \in SUBSET Area /\ Tidy(V \cup {u})
  /\ u.begin <= begin /\ begin < u.begin + PAGE_SIZE /\ end <= u.end
  /\ u.begin % PAGE_SIZE = 0
  /\ \A a \in PagesOf(u) : \A v \in V : a \notin PagesOf(v)

(* __mmap adds an area whose pages no other area has.                      *)
LEMMA MmapTidy ==
  ASSUME NEW V \in SUBSET Area, Tidy(V), NEW begin \in Nat, NEW end \in Nat, begin <= end,
         NEW write \in BOOLEAN, NEW b, b = begin - (begin % PAGE_SIZE),
         NEW e, e = end + ((-end) % PAGE_SIZE), {v \in V : Overlap(v, b, e)} = {},
         NEW u, u = [begin |-> b, end |-> e, write |-> write]
  PROVE  Joins(u, V, begin, end)
<1>1. /\ b \in Nat /\ e \in Nat /\ b <= begin /\ begin < b + 2 /\ end <= e
      /\ b % 2 = 0 /\ e % 2 = 0
  BY SMT DEF PAGE_SIZE
<1>2. u \in Area /\ u.begin = b /\ u.end = e
  BY <1>1, SMT DEF Area
<1>3. \A v \in V : ~Overlap(v, b, e)
  OBVIOUS
<1>4. Tidy(V \cup {u})
  <2>1. \A v \in V \cup {u} : v.begin <= v.end /\ v.end % PAGE_SIZE = 0
    <3>1. u.begin <= u.end /\ u.end % PAGE_SIZE = 0
      BY <1>1, <1>2, SMT DEF PAGE_SIZE
    <3> QED BY <3>1 DEF Tidy
  <2>2. ASSUME NEW v \in V \cup {u}, NEW w \in V \cup {u}, v # w
        PROVE  ~Overlap(v, w.begin, w.end)
    <3>1. CASE v \in V /\ w \in V
      BY <2>2, <3>1 DEF Tidy
    <3>2. CASE v \in V /\ w = u
      BY <1>2, <1>3, <3>2
    <3>3. CASE v = u /\ w \in V
      BY <1>2, <1>3, <3>3 DEF Overlap
    <3> QED BY <2>2, <3>1, <3>2, <3>3
  <2> QED BY <2>1, <2>2 DEF Tidy
<1>5. ASSUME NEW a \in PagesOf(u), NEW v \in V, a \in PagesOf(v)
      PROVE  FALSE
  <2>1. a \in Nat /\ v \in Area
    BY MmAssumption DEF PagesOf
  <2>2. a * 2 < e /\ b < (a + 1) * 2 /\ a * 2 < v.end /\ v.begin < (a + 1) * 2
    BY <1>2, <1>5 DEF PagesOf, Overlap, PAGE_SIZE
  <2>3. ~(b < v.end /\ v.begin < e)
    BY <1>3 DEF Overlap
  <2> QED BY <1>1, <2>1, <2>2, <2>3, SMT DEF Area
<1> QED BY <1>1, <1>2, <1>4, <1>5 DEF PAGE_SIZE, Joins

-----------------------------------------------------------------------------
LEMMA OpKinds ==
  ASSUME NEW m \in MM, op \in [MM -> Op]
  PROVE  /\ op[m] \in Op
         /\ Kind(m) = "fault" => op[m] \in OpFault
         /\ Kind(m) = "fork" => op[m] \in OpFork
         /\ Kind(m) = "exec" => op[m] \in OpExec
         /\ Kind(m) = "release" => op[m] \in OpRelease
         /\ op[m] = Running => Kind(m) = "running"
         /\ op[m] = Private => Kind(m) = "private"
         /\ op[m] = Unused => Kind(m) = "unused"
<1>1. op[m] \in Op
  OBVIOUS
<1>2. Kind(m) = "fault" => op[m] \in OpFault
  BY <1>1, SMT DEF Op, OpFault, OpFork, OpExec, OpRelease, OpPlain, Kind
<1>3. Kind(m) = "fork" => op[m] \in OpFork
  BY <1>1, SMT DEF Op, OpFault, OpFork, OpExec, OpRelease, OpPlain, Kind
<1>4. Kind(m) = "exec" => op[m] \in OpExec
  BY <1>1, SMT DEF Op, OpFault, OpFork, OpExec, OpRelease, OpPlain, Kind
<1>5. Kind(m) = "release" => op[m] \in OpRelease
  BY <1>1, SMT DEF Op, OpFault, OpFork, OpExec, OpRelease, OpPlain, Kind
<1>6. /\ op[m] = Running => Kind(m) = "running"
      /\ op[m] = Private => Kind(m) = "private"
      /\ op[m] = Unused => Kind(m) = "unused"
  BY SMT DEF Kind, Running, Private, Unused
<1> QED BY <1>1, <1>2, <1>3, <1>4, <1>5, <1>6

(* Who works on which address space, in a step that changes only op[m].    *)
LEMMA OwnsSame ==
  ASSUME NEW m, NEW x, op'[m] = op[m]
  PROVE  Owns(m, x)' <=> Owns(m, x)
BY DEF Owns, Kind

LEMMA OwnedStep ==
  ASSUME Owned, NEW m \in MM, op[m] # Private,
         \A n \in MM : n # m => op'[n] = op[n],
         \A y \in MM : Owns(m, y)' => Owns(m, y)
  PROVE  Owned'
<1>1. \A n, y \in MM : Owns(n, y)' => Owns(n, y)
  <2> TAKE n, y \in MM
  <2>1. CASE n = m
    BY <2>1
  <2>2. CASE n # m
    BY <2>2, OwnsSame
  <2> QED BY <2>1, <2>2
<1>2. \A n, y \in MM : Owns(n, y)' => op'[y] = Private
  BY <1>1 DEF Owned
<1>3. \A n, k, y \in MM : Owns(n, y)' /\ Owns(k, y)' => n = k
  BY <1>1 DEF Owned
<1> QED BY <1>2, <1>3 DEF Owned

(* A step of m changes at most m and the address space x it works on.      *)
Near(m, x) == x = m \/ Owns(m, x) \/ op[x] = Unused

Others(m, x) ==
  \A y \in MM : y # m /\ y # x =>
    op'[y] = op[y] /\ vma'[y] = vma[y] /\ pte'[y] = pte[y] /\ val'[y] = val[y]

LEMMA OwnedApart ==
  ASSUME Owned, NEW m \in MM, NEW x \in MM, Near(m, x), op[m] # Private,
         NEW n \in MM, n # m, n # x, NEW y \in MM, Owns(n, y)
  PROVE  y # m /\ y # x
<1>1. op[y] = Private
  BY DEF Owned
<1>2. y # m
  BY <1>1
<1>3. CASE x = m
  BY <1>2, <1>3
<1>4. CASE Owns(m, x)
  BY <1>4 DEF Owned
<1>5. CASE op[x] = Unused
  <2>1. Unused # Private
    BY SMT DEF Unused, Private
  <2> QED BY <1>1, <1>5, <2>1
<1> QED BY <1>2, <1>3, <1>4, <1>5 DEF Near

LEMMA Untouched ==
  ASSUME Owned, op \in [MM -> Op], NEW m \in MM, NEW x \in MM, Near(m, x), op[m] # Private, Others(m, x),
         NEW n \in MM, n # m, n # x
  PROVE  /\ FaultInv(n) => FaultInv(n)'
         /\ ForkInv(n) => ForkInv(n)'
         /\ ExecInv(n) => ExecInv(n)'
         /\ BlankInv(n) => BlankInv(n)'
<1>1. op'[n] = op[n] /\ vma'[n] = vma[n] /\ pte'[n] = pte[n] /\ val'[n] = val[n]
  BY DEF Others
<1>2. ASSUME NEW y \in MM, Owns(n, y)
      PROVE  vma'[y] = vma[y] /\ pte'[y] = pte[y] /\ val'[y] = val[y]
  BY <1>2, OwnedApart DEF Others
<1>3. FaultInv(n) => FaultInv(n)'
  BY <1>1 DEF FaultInv, Kind, Covered, Holding, Faulting, Writable
<1>4. ASSUME Kind(n) = "fork"
      PROVE  LET y == op[n].child IN vma'[y] = vma[y] /\ pte'[y] = pte[y] /\ val'[y] = val[y]
  <2>1. op[n].child \in MM
    BY <1>4, OpKinds, SMT DEF OpFork
  <2> QED BY <1>2, <1>4, <2>1 DEF Owns
<1>5. ASSUME Kind(n) = "exec"
      PROVE  LET y == op[n].new IN vma'[y] = vma[y] /\ pte'[y] = pte[y] /\ val'[y] = val[y]
  <2>1. op[n].new \in MM
    BY <1>5, OpKinds, SMT DEF OpExec
  <2> QED BY <1>2, <1>5, <2>1 DEF Owns
<1>6. ForkInv(n) => ForkInv(n)'
  BY <1>1, <1>4 DEF ForkInv, Kind, Covered, Mapping, Writable
<1>7. ExecInv(n) => ExecInv(n)'
  <2>1. CASE Kind(n) = "exec"
    <3>1. PICK y : y = op[n].new
      OBVIOUS
    <3>2. vma'[y] = vma[y] /\ pte'[y] = pte[y]
      BY <1>5, <2>1, <3>1
    <3> QED BY <1>1, <2>1, <3>1, <3>2 DEF ExecInv, Kind, Covered, Loading
  <2>2. CASE Kind(n) # "exec"
    BY <1>1, <2>2 DEF ExecInv, Kind
  <2> QED BY <2>1, <2>2
<1>8. BlankInv(n) => BlankInv(n)'
  BY <1>1, <1>4, <1>5 DEF BlankInv, Kind, Live, Zeros
<1> QED BY <1>3, <1>6, <1>7, <1>8


-----------------------------------------------------------------------------
LEMMA PagesFinite ==
  ASSUME FiniteSetFacts, NEW p
  PROVE  /\ IsFiniteSet(Maps(p)) /\ Cardinality(Maps(p)) \in Nat
         /\ IsFiniteSet(Maps(p)') /\ Cardinality(Maps(p)') \in Nat
         /\ IsFiniteSet(Holders(p)) /\ Cardinality(Holders(p)) \in Nat
         /\ IsFiniteSet(Holders(p)') /\ Cardinality(Holders(p)') \in Nat
<1>1. IsFiniteSet(MM) /\ IsFiniteSet(MM \X Addr)
  BY MmAssumption, FiniteProduct
<1>2. ASSUME NEW S, S \subseteq MM \X Addr \/ S \subseteq MM
      PROVE  IsFiniteSet(S) /\ Cardinality(S) \in Nat
  BY <1>1, <1>2, FiniteSubset, CardNat
<1>3. Maps(p) \subseteq MM \X Addr /\ Maps(p)' \subseteq MM \X Addr
  BY DEF Maps
<1>4. Holders(p) \subseteq MM /\ Holders(p)' \subseteq MM
  BY DEF Holders
<1> QED BY <1>2, <1>3, <1>4

LEMMA MapsMember ==
  ASSUME NEW p, NEW n \in MM, NEW b \in Addr
  PROVE  /\ <<n, b>> \in Maps(p) <=> Mapping(n, b, p)
         /\ <<n, b>> \in Maps(p)' <=> Mapping(n, b, p)'
BY SMT DEF Maps, Mapping

LEMMA MapsPairs ==
  ASSUME NEW p
  PROVE  /\ \A z \in Maps(p) : \E n \in MM, b \in Addr : z = <<n, b>>
         /\ \A z \in Maps(p)' : \E n \in MM, b \in Addr : z = <<n, b>>
BY SMT DEF Maps

(* A page whose count is 1, and that has a mapping, has only that one.     *)
LEMMA CountOne ==
  ASSUME FiniteSetFacts, NEW p \in Page, p \notin free, Count(p), base[p] \in Nat, refcount[p] = 1,
         NEW m \in MM, NEW a \in Addr, Mapping(m, a, p)
  PROVE  Sole(m, a, p) /\ base[p] = 0 /\ Holders(p) = {}
<1>1. <<m, a>> \in Maps(p)
  BY MapsMember
<1>2. /\ IsFiniteSet(Maps(p)) /\ Cardinality(Maps(p)) \in Nat
      /\ IsFiniteSet(Holders(p)) /\ Cardinality(Holders(p)) \in Nat
  BY PagesFinite
<1>3. Cardinality(Maps(p)) # 0
  BY <1>1, <1>2, CardEmpty
<1>4. refcount[p] = base[p] + Cardinality(Maps(p)) + Cardinality(Holders(p))
  BY DEF Count
<1>5. base[p] = 0 /\ Cardinality(Maps(p)) = 1 /\ Cardinality(Holders(p)) = 0
  BY <1>2, <1>3, <1>4, SMT
<1>6. PICK z : Maps(p) = {z}
  BY <1>2, <1>5, CardSingle
<1>7. Maps(p) = {<<m, a>>}
  BY <1>1, <1>6
<1>8. ASSUME NEW n \in MM, NEW b \in Addr, Mapping(n, b, p) PROVE n = m /\ b = a
  <2>1. <<n, b>> \in Maps(p)
    BY <1>8, MapsMember
  <2> QED BY <1>7, <2>1, SMT
<1> QED BY <1>2, <1>5, <1>8, CardEmpty DEF Sole

LEMMA CountSame ==
  ASSUME NEW p, Count(p), refcount'[p] = refcount[p], p \in free' <=> p \in free,
         base'[p] = base[p], Maps(p)' = Maps(p), Holders(p)' = Holders(p)
  PROVE  Count(p)'
BY DEF Count

-----------------------------------------------------------------------------
(* How a step changes the entries, and which page of a fault it keeps.     *)
Dropped(n, b) == pte'[n][b] = pte[n][b] \/ pte'[n][b] = None

Weakened(n, b) ==
  \/ Dropped(n, b)
  \/ /\ pte'[n][b] # None /\ pte[n][b] # None
     /\ pte'[n][b].page = pte[n][b].page /\ ~pte'[n][b].write

ReadyKept(n) == Ready(n)' => Ready(n) /\ op'[n].new = op[n].new /\ op'[n].addr = op[n].addr

HoldingKept(n) ==
  (Holding(n)' <=> Holding(n)) /\ (Holding(n) => op'[n].old = op[n].old)

Calm(n) == ReadyKept(n) /\ HoldingKept(n)

LEMMA CalmSame ==
  ASSUME NEW n, op'[n] = op[n]
  PROVE  Calm(n)
BY DEF Calm, ReadyKept, HoldingKept, Ready, Holding, Kind

LEMMA HoldersSame ==
  ASSUME NEW p, \A n \in MM : HoldingKept(n)
  PROVE  Holders(p)' = Holders(p)
<1>1. \A n \in MM : n \in Holders(p) <=> Holding(n) /\ op[n].old = p
  BY DEF Holders, Holding
<1>2. \A n \in MM : n \in Holders(p)' <=> Holding(n)' /\ op'[n].old = p
  BY DEF Holders, Holding
<1>3. Holders(p) \subseteq MM /\ Holders(p)' \subseteq MM
  BY DEF Holders
<1> QED BY <1>1, <1>2, <1>3 DEF HoldingKept

LEMMA WeakenedMaps ==
  ASSUME NEW n, NEW b, NEW p, Weakened(n, b), Mapping(n, b, p)'
  PROVE  Mapping(n, b, p)
BY DEF Weakened, Dropped, Mapping

LEMMA WriteWeakened ==
  ASSUME WriteInv, \A n \in MM, b \in Addr : Weakened(n, b)
  PROVE  WriteInv'
<1> SUFFICES ASSUME NEW m \in MM, NEW a \in Addr, Writable(m, a)'
             PROVE  Sole(m, a, pte[m][a].page)' /\ pte'[m][a].page # ZeroPage
                    /\ pte'[m][a].page = pte[m][a].page
  BY DEF WriteInv, Sole
<1>1. pte'[m][a] = pte[m][a]
  BY DEF Writable, Weakened, Dropped
<1>2. Writable(m, a)
  BY <1>1 DEF Writable
<1>3. Sole(m, a, pte[m][a].page) /\ pte[m][a].page # ZeroPage
  BY <1>2 DEF WriteInv
<1>4. PICK p : p = pte[m][a].page
  OBVIOUS
<1>5. \A n \in MM, b \in Addr : Mapping(n, b, p)' => n = m /\ b = a
  BY <1>3, <1>4, WeakenedMaps DEF Sole
<1>6. \A n \in MM, b \in Addr : Mapping(n, b, pte[m][a].page)' => n = m /\ b = a
  BY <1>1, <1>4, <1>5 DEF Mapping
<1> QED BY <1>1, <1>3, <1>6 DEF Sole

(* The page p stays what the fault of n has made ready.                    *)
StaysReady(n, p) ==
  /\ p \notin free'
  /\ content'[p] = val'[n][op[n].addr]
  /\ \A k \in MM, b \in Addr : Mapping(k, b, p)' => Mapping(k, b, p)
  /\ \A k \in MM : Held(k, p)' => Held(k, p)

LEMMA ReadyStep ==
  ASSUME ReadyInv, \A n \in MM : ReadyKept(n),
         \A n \in MM : Ready(n)' => StaysReady(n, op[n].new)
  PROVE  ReadyInv'
<1>1. ASSUME NEW m \in MM, Ready(m)'
      PROVE  /\ op'[m].new \notin free' /\ op'[m].new # ZeroPage
             /\ Sole(m, op[m].addr, op[m].new)'
             /\ \A k \in MM : ~Held(k, op[m].new)'
             /\ content'[op'[m].new] = val'[m][op'[m].addr]
  <2>1. PICK p, a : p = op[m].new /\ a = op[m].addr
    OBVIOUS
  <2>2. Ready(m) /\ op'[m].new = p /\ op'[m].addr = a /\ StaysReady(m, p)
    BY <1>1, <2>1 DEF ReadyKept
  <2>3. p # ZeroPage /\ Sole(m, a, p) /\ \A k \in MM : ~Held(k, p)
    BY <2>1, <2>2 DEF ReadyInv
  <2>4. \A k \in MM, b \in Addr : Mapping(k, b, p)' => k = m /\ b = a
    BY <2>2, <2>3 DEF StaysReady, Sole
  <2>5. Sole(m, op[m].addr, op[m].new)'
    BY <2>2, <2>4 DEF Sole, Mapping
  <2>6. \A k \in MM : ~Held(k, op[m].new)'
    BY <2>2, <2>3 DEF StaysReady, Held
  <2> QED BY <2>1, <2>2, <2>3, <2>5, <2>6 DEF StaysReady
<1>2. ASSUME NEW m \in MM, NEW n \in MM, Ready(m)', Ready(n)', op'[m].new = op'[n].new
      PROVE  m = n
  BY <1>2 DEF ReadyInv, ReadyKept
<1> QED BY <1>1, <1>2 DEF ReadyInv

(* Parts of the invariant whose variables do not change.                   *)
LEMMA WriteSame ==
  ASSUME WriteInv, pte' = pte
  PROVE  WriteInv'
<1>1. \A q : \A n \in MM, b \in Addr : Mapping(n, b, q)' <=> Mapping(n, b, q)
  BY DEF Mapping
<1>2. \A n \in MM, b \in Addr : Writable(n, b)' <=> Writable(n, b)
  BY DEF Writable
<1>3. \A q : \A n \in MM, b \in Addr : Sole(n, b, q)' <=> Sole(n, b, q)
  BY <1>1 DEF Sole
<1> QED BY <1>2, <1>3 DEF WriteInv

LEMMA OwnedSame ==
  ASSUME Owned, op' = op
  PROVE  Owned'
<1>1. \A n, y \in MM : Owns(n, y)' <=> Owns(n, y)
  BY DEF Owns, Kind
<1> QED BY <1>1 DEF Owned

LEMMA EntryType ==
  ASSUME TypeOK, NEW n \in MM, NEW b \in Addr
  PROVE  /\ pte[n][b] \in Entry \cup {None}
         /\ pte[n][b] # None => pte[n][b].page \in Page
<1>1. pte \in [MM -> [Addr -> Entry \cup {None}]]
  BY DEF TypeOK
<1>2. pte[n][b] \in Entry \cup {None}
  BY <1>1
<1> QED BY <1>2, SMT DEF Entry

(* A step that changes no page, no entry and no count.                     *)
LEMMA QuietPages ==
  ASSUME PageInv, UNCHANGED <<pte, refcount, free, content, base>>,
         \A n \in MM : Calm(n),
         \A n \in MM : val'[n] = val[n] \/ (pte[n] = Empty /\ ~Ready(n))
  PROVE  Counted' /\ ZeroInv' /\ WriteInv' /\ ReadyInv' /\ SameContent'
<1>1. Counted'
  <2> SUFFICES ASSUME NEW p \in Page PROVE Count(p)'
    BY DEF Counted
  <2>1. Count(p)
    BY DEF PageInv, Counted
  <2>2. Holders(p)' = Holders(p)
    BY HoldersSame DEF Calm
  <2>3. Maps(p)' = Maps(p)
    BY DEF Maps
  <2> QED BY <2>1, <2>2, <2>3, CountSame
<1>2. ZeroInv'
  BY DEF PageInv, ZeroInv
<1>3. WriteInv'
  <2>1. WriteInv
    BY DEF PageInv
  <2> QED BY <2>1, WriteSame
<1>4. ReadyInv'
  <2>1. \A n \in MM : ReadyKept(n)
    BY DEF Calm
  <2>2. ASSUME NEW n \in MM, Ready(n)'
        PROVE  StaysReady(n, op[n].new)
    <3>1. Ready(n)
      BY <2>1, <2>2 DEF ReadyKept
    <3>2. op[n].new \notin free /\ content[op[n].new] = val[n][op[n].addr]
      BY <3>1 DEF PageInv, ReadyInv
    <3>3. val'[n] = val[n]
      BY <3>1
    <3>4. PICK p : p = op[n].new
      OBVIOUS
    <3>5. \A k \in MM, b \in Addr : Mapping(k, b, p)' => Mapping(k, b, p)
      BY DEF Mapping
    <3>6. \A k \in MM : Held(k, p)' => Held(k, p)
      BY DEF Held, Calm, HoldingKept
    <3>7. p \notin free' /\ content'[p] = val'[n][op[n].addr]
      BY <3>2, <3>3, <3>4
    <3>8. StaysReady(n, p)
      BY <3>5, <3>6, <3>7 DEF StaysReady
    <3> QED BY <3>4, <3>8
  <2> QED BY <2>1, <2>2, ReadyStep DEF PageInv
<1>5. SameContent'
  <2> SUFFICES ASSUME NEW n \in MM, NEW a \in Addr, pte[n][a] # None
               PROVE  content[pte[n][a].page] = val'[n][a]
    BY DEF SameContent
  <2>1. pte[n] # Empty
    BY DEF Empty
  <2> QED BY <2>1 DEF PageInv, SameContent
<1> QED BY <1>1, <1>2, <1>3, <1>4, <1>5

LEMMA GotoOp ==
  ASSUME op \in [MM -> Op], NEW m \in MM, NEW o \in Op, op' = [op EXCEPT ![m] = o]
  PROVE  /\ op' \in [MM -> Op] /\ op'[m] = o
         /\ \A n \in MM : n # m => op'[n] = op[n]
OBVIOUS

(* What is left to show of the step of a process m that works on x.        *)
Idle(x) == Kind(x) \notin {"fault", "fork", "exec"}

LEMMA LocalStep ==
  ASSUME IInv, ~raced, NEW m \in MM, NEW x \in MM, Near(m, x), op[m] # Private, Others(m, x),
         FaultInv(m)', ForkInv(m)', ExecInv(m)', BlankInv(m)',
         x # m => Idle(x)' /\ BlankInv(x)'
  PROVE  OpInv' /\ Blank'
<1>1. ASSUME NEW n \in MM
      PROVE  FaultInv(n)' /\ ForkInv(n)' /\ ExecInv(n)' /\ BlankInv(n)'
  <2>1. CASE n = m
    BY <2>1
  <2>2. CASE n = x /\ x # m
    BY <2>2 DEF Idle, FaultInv, ForkInv, ExecInv
  <2>3. CASE n # m /\ n # x
    <3>1. Owned /\ op \in [MM -> Op] /\ FaultInv(n) /\ ForkInv(n) /\ ExecInv(n) /\ BlankInv(n)
      BY DEF IInv, TypeOK, OpInv, PageInv, Blank
    <3> QED BY <2>3, <3>1, Untouched
  <2> QED BY <2>1, <2>2, <2>3
<1> QED BY <1>1 DEF OpInv, Blank

LEMMA QuietStep ==
  ASSUME IInv, ~raced, NEW m \in MM, NEW x \in MM, Near(m, x), op[m] # Private, Others(m, x),
         UNCHANGED <<pte, refcount, free, content, base>>,
         TypeOK', Owned', Areas', Calm(m), Calm(x), val'[m] = val[m],
         val'[x] = val[x] \/ (pte[x] = Empty /\ ~Ready(x)),
         FaultInv(m)', ForkInv(m)', ExecInv(m)', BlankInv(m)',
         x # m => Idle(x)' /\ BlankInv(x)'
  PROVE  IInv'
<1>1. OpInv' /\ Blank'
  BY LocalStep
<1>2. PageInv
  BY DEF IInv
<1>3. \A n \in MM : Calm(n)
  BY CalmSame DEF Others
<1>4. \A n \in MM : val'[n] = val[n] \/ (pte[n] = Empty /\ ~Ready(n))
  BY DEF Others
<1>5. Counted' /\ ZeroInv' /\ WriteInv' /\ ReadyInv' /\ SameContent'
  BY <1>2, <1>3, <1>4, QuietPages
<1> QED BY <1>1, <1>5 DEF IInv, PageInv

(* The areas when neither they nor the entries change.                     *)
LEMMA AreasKept ==
  ASSUME Areas, UNCHANGED <<vma, pte>>,
         \A x \in MM : op'[x] = Unused => op[x] = Unused \/ vma[x] = {}
  PROVE  Areas'
BY DEF Areas, Covered, Tidy


(* Who works on which address space, in a step that changes m and x.       *)
LEMMA OwnedTwo ==
  ASSUME Owned, NEW m \in MM, NEW x \in MM, Near(m, x), op[m] # Private,
         \A n \in MM : n # m /\ n # x => op'[n] = op[n],
         \A y \in MM : Owns(m, y)' => y = x /\ x # m /\ op'[x] = Private,
         \A y \in MM : x # m /\ Owns(x, y)' => y = m /\ op'[m] = Private
  PROVE  Owned'
<1>1. ASSUME NEW n \in MM, NEW y \in MM, n # m, n # x, Owns(n, y)'
      PROVE  Owns(n, y) /\ y # m /\ y # x /\ op'[y] = Private
  <2>1. Owns(n, y)
    BY <1>1, OwnsSame
  <2>2. y # m /\ y # x
    BY <1>1, <2>1, OwnedApart
  <2>3. op[y] = Private
    BY <2>1 DEF Owned
  <2> QED BY <2>1, <2>2, <2>3
<1>2. \A n, y \in MM : Owns(n, y)' => op'[y] = Private
  BY <1>1
<1>3. ASSUME NEW n \in MM, NEW k \in MM, NEW y \in MM, Owns(n, y)', Owns(k, y)'
      PROVE  n = k
  <2>1. CASE y = x
    <3>1. n = m /\ k = m
      BY <1>1, <1>3, <2>1
    <3> QED BY <3>1
  <2>2. CASE y # x
    <3>1. CASE y = m
      BY <1>1, <1>3, <2>2, <3>1
    <3>2. CASE y # m
      <4>1. Owns(n, y) /\ Owns(k, y)
        BY <1>1, <1>3, <2>2, <3>2
      <4> QED BY <4>1 DEF Owned
    <3> QED BY <3>1, <3>2
  <2> QED BY <2>1, <2>2
<1> QED BY <1>2, <1>3 DEF Owned

(* An address space without areas has no entries.                          *)
LEMMA NoAreas ==
  ASSUME TypeOK, Areas, NEW x \in MM, vma[x] = {}
  PROVE  pte[x] = Empty
<1>1. \A a \in Addr : pte[x][a] = None
  BY DEF Areas, Covered
<1>2. pte[x] \in [Addr -> Entry \cup {None}]
  BY DEF TypeOK
<1> QED BY <1>1, <1>2 DEF Empty


(* __mmap of an area of x: it is fresh, no entry lies in it.               *)
Fresh(u, x, begin, end) ==
  /\ u.begin <= begin /\ begin < u.begin + PAGE_SIZE /\ end <= u.end
  /\ u.begin % PAGE_SIZE = 0
  /\ \A a \in PagesOf(u) : pte[x][a] = None

AreaAdded(x, begin, end) ==
  /\ vma' \in [MM -> SUBSET Area] /\ Areas'
  /\ \A n \in MM : n # x => vma'[n] = vma[n]
  /\ \A n \in MM : vma[n] \subseteq vma'[n]
  /\ \E u \in vma'[x] : u \in Area /\ Fresh(u, x, begin, end)

LEMMA MmapDone ==
  ASSUME TypeOK, Areas, NEW x \in MM, NEW begin \in Nat, NEW end \in Nat, begin <= end,
         NEW write \in BOOLEAN, Mmap(x, begin, end, write), pte' = pte,
         op'[x] # Unused, \A n \in MM : op'[n] = Unused => op[n] = Unused
  PROVE  AreaAdded(x, begin, end)
<1> DEFINE b == begin - (begin % PAGE_SIZE)
           e == end + ((-end) % PAGE_SIZE)
<1>1. PICK u : u = [begin |-> b, end |-> e, write |-> write]
  OBVIOUS
<1>2. {v \in vma[x] : Overlap(v, b, e)} = {} /\ vma' = [vma EXCEPT ![x] = vma[x] \cup {u}]
  BY <1>1 DEF Mmap, __lookup_vma
<1>3. vma \in [MM -> SUBSET Area] /\ vma[x] \in SUBSET Area /\ Tidy(vma[x])
  BY DEF TypeOK, Areas
<1>4. /\ u \in Area /\ vma[x] \cup {u} \in SUBSET Area /\ Tidy(vma[x] \cup {u})
      /\ u.begin <= begin /\ begin < u.begin + PAGE_SIZE /\ end <= u.end
      /\ u.begin % PAGE_SIZE = 0
      /\ \A a \in PagesOf(u) : \A v \in vma[x] : a \notin PagesOf(v)
  <2> HIDE DEF b, e
  <2>1. b = begin - (begin % PAGE_SIZE) /\ e = end + ((-end) % PAGE_SIZE)
    BY DEF b, e
  <2>2. Joins(u, vma[x], begin, end)
    BY <1>1, <1>2, <1>3, <2>1, MmapTidy
  <2> QED BY <2>2 DEF Joins
<1> HIDE DEF b, e
<1>5. /\ vma' \in [MM -> SUBSET Area] /\ vma'[x] = vma[x] \cup {u}
      /\ \A n \in MM : n # x => vma'[n] = vma[n]
  BY <1>2, <1>3, <1>4
<1>6. \A n \in MM : vma[n] \subseteq vma'[n]
  BY <1>5
<1>7. Areas'
  <2> SUFFICES ASSUME NEW n \in MM
               PROVE  /\ Tidy(vma'[n])
                      /\ \A a \in Addr : pte[n][a] # None => Covered(n, a)'
                      /\ op'[n] = Unused => vma'[n] = {}
    BY DEF Areas, Tidy
  <2>1. Tidy(vma'[n])
    BY <1>4, <1>5 DEF Areas
  <2>2. \A a \in Addr : pte[n][a] # None => Covered(n, a)'
    BY <1>6 DEF Areas, Covered
  <2>3. op'[n] = Unused => vma'[n] = {}
    BY <1>5 DEF Areas
  <2> QED BY <2>1, <2>2, <2>3
<1>8. Fresh(u, x, begin, end)
  <2>1. ASSUME NEW a \in PagesOf(u) PROVE pte[x][a] = None
    <3>1. a \in Addr
      BY DEF PagesOf
    <3> QED BY <1>4, <3>1 DEF Areas, Covered
  <2> QED BY <1>4, <2>1 DEF Fresh
<1> QED BY <1>4, <1>5, <1>6, <1>7, <1>8 DEF AreaAdded

-----------------------------------------------------------------------------
(* A step that changes nothing but what m is doing.                        *)
LEMMA ControlStep ==
  ASSUME IInv, ~raced, NEW m \in MM, NEW o \in Op, op' = [op EXCEPT ![m] = o],
         UNCHANGED <<Memory, raced>>, op[m] # Private, o # Unused, Calm(m),
         \A y \in MM : Owns(m, y)' => Owns(m, y),
         FaultInv(m)', ForkInv(m)', ExecInv(m)', BlankInv(m)'
  PROVE  IInv'
<1>1. UNCHANGED <<vma, pte, refcount, free, content, val, base, raced>>
  BY DEF Memory
<1>2. TypeOK /\ Owned /\ Areas /\ op \in [MM -> Op]
  BY DEF IInv, TypeOK
<1>3. /\ op' \in [MM -> Op] /\ op'[m] = o
      /\ \A n \in MM : n # m => op'[n] = op[n]
  BY <1>2, GotoOp
<1>4. TypeOK'
  BY <1>1, <1>2, <1>3 DEF TypeOK
<1>5. Owned'
  BY <1>2, <1>3, OwnedStep
<1>6. Areas'
  BY <1>1, <1>2, <1>3, AreasKept
<1>7. Near(m, m) /\ Others(m, m)
  BY <1>1, <1>3 DEF Near, Others
<1> QED BY <1>1, <1>4, <1>5, <1>6, <1>7, QuietStep

LEMMA ExitStep ==
  ASSUME IInv, ~raced, NEW m \in MM, exit(m)
  PROVE  IInv'
<1>1. op \in [MM -> Op]
  BY DEF IInv, TypeOK
<1>2. PICK o : o = [kind |-> "release", mm |-> m]
  OBVIOUS
<1>3. op[m] = Running /\ op' = [op EXCEPT ![m] = o] /\ UNCHANGED <<Memory, raced>>
  BY <1>2 DEF exit, Goto
<1>4. o \in Op
  BY <1>2, SMT DEF Op, OpRelease
<1>5. op'[m] = o
  BY <1>1, <1>3, <1>4, GotoOp
<1>6. /\ Kind(m) = "running" /\ op[m] # Private /\ o # Unused
      /\ Kind(m)' = "release" /\ op'[m].mm = m
  BY <1>2, <1>3, <1>5, SMT DEF Kind, Running, Private, Unused
<1>7. Calm(m) /\ \A y \in MM : Owns(m, y)' => Owns(m, y)
  BY <1>6 DEF Calm, ReadyKept, HoldingKept, Ready, Holding, Owns
<1>8. FaultInv(m)' /\ ForkInv(m)' /\ ExecInv(m)' /\ BlankInv(m)'
  BY <1>6 DEF FaultInv, ForkInv, ExecInv, BlankInv, Live
<1> QED BY <1>3, <1>4, <1>6, <1>7, <1>8, ControlStep

LEMMA FaultFailsStep ==
  ASSUME IInv, ~raced, NEW m \in MM, FaultFails(m)
  PROVE  IInv'
<1>1. op \in [MM -> Op] /\ BlankInv(m)
  BY DEF IInv, TypeOK, PageInv, Blank
<1>2. op' = [op EXCEPT ![m] = Running] /\ UNCHANGED <<Memory, raced>>
  BY DEF FaultFails, Goto
<1>3. Running \in Op
  BY SMT DEF Op, OpPlain, Running
<1>4. op'[m] = Running
  BY <1>1, <1>2, <1>3, GotoOp
<1>5. /\ Kind(m) = "fault" /\ op[m].stage = "copy" /\ op[m] # Private /\ Running # Unused
      /\ Kind(m)' = "running"
  BY <1>4, SMT DEF FaultFails, At, Kind, Running, Private, Unused
<1>6. Calm(m) /\ \A y \in MM : Owns(m, y)' => Owns(m, y)
  BY <1>5 DEF Calm, ReadyKept, HoldingKept, Ready, Holding, Owns
<1>7. FaultInv(m)' /\ ForkInv(m)' /\ ExecInv(m)'
  BY <1>5 DEF FaultInv, ForkInv, ExecInv
<1>8. BlankInv(m)'
  BY <1>1, <1>2, <1>5 DEF BlankInv, Live, Zeros, Memory
<1> QED BY <1>2, <1>3, <1>5, <1>6, <1>7, <1>8, ControlStep

(* The loads of get_page and put_page: the fault only moves on.            *)
LEMMA FaultMovesStep ==
  ASSUME IInv, ~raced, NEW m \in MM, FaultGetPage(m) \/ FaultPutPage(m)
  PROVE  IInv'
<1>1. op \in [MM -> Op] /\ BlankInv(m) /\ FaultInv(m) /\ refcount \in [Page -> Int]
  BY DEF IInv, TypeOK, PageInv, Blank, OpInv
<1>2. Kind(m) = "fault" /\ op[m] \in OpFault
  BY <1>1, OpKinds DEF FaultGetPage, FaultPutPage, At, Kind
<1>3. PICK s, k : /\ \/ op[m].stage = "get" /\ s = "map" /\ k = refcount[op[m].new]
                     \/ op[m].stage = "put" /\ s = "drop" /\ k = refcount[op[m].old]
                  /\ op' = [op EXCEPT ![m] = [op[m] EXCEPT !.stage = s, !.seen = k]]
                  /\ UNCHANGED <<Memory, raced>>
  BY DEF FaultGetPage, FaultPutPage, At, Goto
<1>4. op[m].stage = "put" => op[m].old \in Page
  BY <1>1, <1>2 DEF FaultInv, Holding
<1>5. k \in Int /\ s \in {"copy", "get", "map", "put", "drop"}
  BY <1>1, <1>2, <1>3, <1>4, SMT DEF OpFault
<1>6. PICK o : o = [op[m] EXCEPT !.stage = s, !.seen = k]
  OBVIOUS
<1>7. /\ o \in OpFault /\ o.kind = "fault" /\ o.stage = s /\ o.addr = op[m].addr
      /\ o.write = op[m].write /\ o.old = op[m].old /\ o.new = op[m].new
  BY <1>2, <1>5, <1>6 DEF OpFault
<1>8. o \in Op /\ o # Unused /\ op[m] # Private
  BY <1>2, <1>7, SMT DEF Op, Unused, Private, Kind
<1>9. op'[m] = o
  BY <1>1, <1>3, <1>6, <1>8, GotoOp
<1>10. Kind(m)' = "fault"
  BY <1>7, <1>9 DEF Kind
<1>11. /\ Holding(m)' <=> Holding(m)
       /\ Faulting(m)' <=> Faulting(m)
       /\ Ready(m)' <=> Ready(m)
  BY <1>2, <1>3, <1>7, <1>9, <1>10 DEF Holding, Faulting, Ready
<1>12. Calm(m) /\ \A y \in MM : Owns(m, y)' => Owns(m, y)
  BY <1>7, <1>9, <1>10, <1>11 DEF Calm, ReadyKept, HoldingKept, Owns
<1>13. FaultInv(m)'
  <2>1. UNCHANGED <<vma, pte>>
    BY <1>3 DEF Memory
  <2>2. /\ op'[m].addr = op[m].addr /\ op'[m].write = op[m].write /\ op'[m].old = op[m].old
        /\ op'[m].new = op[m].new /\ op'[m].stage # "copy"
    BY <1>3, <1>7, <1>9
  <2> QED BY <1>1, <1>2, <1>11, <2>1, <2>2 DEF FaultInv, Covered, Writable
<1>14. ForkInv(m)' /\ ExecInv(m)'
  BY <1>10 DEF ForkInv, ExecInv
<1>15. BlankInv(m)'
  BY <1>1, <1>2, <1>3, <1>10 DEF BlankInv, Live, Zeros, Memory
<1> QED BY <1>3, <1>6, <1>8, <1>12, <1>13, <1>14, <1>15, ControlStep


LEMMA PageFaultStep ==
  ASSUME IInv, ~raced, NEW m \in MM, NEW a \in Addr, NEW write \in BOOLEAN, mm_page_fault(m, a, write)
  PROVE  IInv'
<1>1. /\ op \in [MM -> Op] /\ BlankInv(m) /\ vma \in [MM -> SUBSET Area]
      /\ pte \in [MM -> [Addr -> Entry \cup {None}]]
  BY DEF IInv, TypeOK, PageInv, Blank
<1>2. PICK old : old = IF pte[m][a] = None THEN None ELSE pte[m][a].page
  OBVIOUS
<1>3. PICK s : s = IF write THEN "copy" ELSE "get"
  OBVIOUS
<1>4. PICK o : o = [kind |-> "fault", stage |-> s, addr |-> a, write |-> write, old |-> old,
                    new |-> ZeroPage, seen |-> 0]
  OBVIOUS
<1>5. /\ op[m] = Running /\ op' = [op EXCEPT ![m] = o] /\ UNCHANGED <<Memory, raced>>
      /\ __lookup_vma(m, a * PAGE_SIZE, a * PAGE_SIZE + 1) # {}
      /\ ~Writable(m, a) /\ (write \/ pte[m][a] = None)
  BY <1>2, <1>3, <1>4 DEF mm_page_fault, Goto
<1>6. pte[m][a] \in Entry \cup {None}
  BY <1>1
<1>7. old \in Page \cup {None}
  BY <1>2, <1>6, SMT DEF Entry
<1>8. s \in {"copy", "get"} /\ 0 \in Int /\ ZeroPage \in Page
  BY <1>3, MmAssumption, SMT
<1>9. o \in OpFault
  BY <1>4, <1>7, <1>8 DEF OpFault
<1>10. /\ o.kind = "fault" /\ o.stage = s /\ o.addr = a /\ o.write = write /\ o.old = old
       /\ o.new = ZeroPage
  BY <1>4
<1>11. o \in Op /\ o # Unused /\ op[m] # Private /\ Kind(m) = "running"
  BY <1>5, <1>9, <1>10, SMT DEF Op, Unused, Private, Running, Kind
<1>12. op'[m] = o /\ Kind(m)' = "fault"
  BY <1>1, <1>5, <1>10, <1>11, GotoOp DEF Kind
<1>13. /\ ~Holding(m)' /\ ~Holding(m) /\ ~Ready(m)'
  BY <1>3, <1>10, <1>11, <1>12, SMT DEF Holding, Ready
<1>14. Calm(m) /\ \A y \in MM : Owns(m, y)' => Owns(m, y)
  BY <1>12, <1>13 DEF Calm, ReadyKept, HoldingKept, Owns
<1>15. Covered(m, a)
  <2>1. PICK v \in vma[m] : Overlap(v, a * PAGE_SIZE, a * PAGE_SIZE + 1)
    BY <1>5 DEF __lookup_vma
  <2>2. v \in Area /\ a \in Nat
    BY <1>1, MmAssumption
  <2>3. Overlap(v, a * PAGE_SIZE, (a + 1) * PAGE_SIZE)
    BY <2>1, <2>2, SMT DEF Overlap, PAGE_SIZE, Area
  <2> QED BY <2>3 DEF Covered, PagesOf
<1>16. UNCHANGED <<vma, pte, val>>
  BY <1>5 DEF Memory
<1>17. FaultInv(m)'
  <2>1. Covered(m, op[m].addr)'
    BY <1>10, <1>12, <1>15, <1>16 DEF Covered
  <2>2. op'[m].stage = "copy" => op'[m].write
    BY <1>3, <1>10, <1>12, SMT
  <2>3. /\ ~Writable(m, op[m].addr)'
        /\ op'[m].old = (IF pte'[m][op'[m].addr] = None THEN None ELSE pte'[m][op'[m].addr].page)
    BY <1>2, <1>5, <1>10, <1>12, <1>16 DEF Writable
  <2>4. ~op'[m].write => op'[m].old = None /\ op'[m].new = ZeroPage
    BY <1>2, <1>5, <1>10, <1>12
  <2> QED BY <1>13, <2>1, <2>2, <2>3, <2>4 DEF FaultInv
<1>18. ForkInv(m)' /\ ExecInv(m)'
  BY <1>12 DEF ForkInv, ExecInv
<1>19. BlankInv(m)'
  BY <1>1, <1>11, <1>12, <1>16 DEF BlankInv, Live, Zeros
<1> QED BY <1>5, <1>11, <1>14, <1>17, <1>18, <1>19, ControlStep

(* A fork or an exec gives up: it releases what it has built.              *)
LEMMA GiveUpStep ==
  ASSUME IInv, ~raced, NEW m \in MM, ForkFails(m) \/ ExecFails(m)
  PROVE  IInv'
<1>1. op \in [MM -> Op] /\ BlankInv(m)
  BY DEF IInv, TypeOK, PageInv, Blank
<1>2. PICK x : /\ \/ Kind(m) = "fork" /\ op[m].child = x
                  \/ Kind(m) = "exec" /\ op[m].new = x
               /\ op' = [op EXCEPT ![m] = [kind |-> "release", mm |-> x]]
               /\ UNCHANGED <<Memory, raced>>
  BY DEF ForkFails, ExecFails, Forking, Fail, Goto, Kind
<1>3. x \in MM
  BY <1>1, <1>2, OpKinds, SMT DEF OpFork, OpExec
<1>4. PICK o : o = [kind |-> "release", mm |-> x]
  OBVIOUS
<1>5. o \in Op /\ o.kind = "release" /\ o.mm = x
  BY <1>3, <1>4, SMT DEF Op, OpRelease
<1>6. o # Unused /\ op[m] # Private
  BY <1>2, <1>5, SMT DEF Unused, Private, Kind
<1>7. op'[m] = o /\ Kind(m)' = "release"
  BY <1>1, <1>2, <1>4, <1>5, GotoOp DEF Kind
<1>8. Calm(m)
  BY <1>2, <1>7 DEF Calm, ReadyKept, HoldingKept, Ready, Holding
<1>9. \A y \in MM : Owns(m, y)' => Owns(m, y)
  BY <1>2, <1>5, <1>7 DEF Owns
<1>10. FaultInv(m)' /\ ForkInv(m)' /\ ExecInv(m)'
  BY <1>7 DEF FaultInv, ForkInv, ExecInv
<1>11. BlankInv(m)'
  BY <1>1, <1>2, <1>7 DEF BlankInv, Live, Zeros, Memory
<1> QED BY <1>2, <1>4, <1>5, <1>6, <1>8, <1>9, <1>10, <1>11, ControlStep

(* The assertion of __munmap_pages: the thread goes no further.            *)
LEMMA StuckStep ==
  ASSUME IInv, ~raced, NEW m \in MM, Kind(m) \in {"release", "exec"},
         Goto(m, [kind |-> "stuck"]), UNCHANGED <<Memory, raced>>
  PROVE  IInv'
<1>1. op \in [MM -> Op]
  BY DEF IInv, TypeOK
<1>2. PICK o : o = [kind |-> "stuck"]
  OBVIOUS
<1>3. o \in Op /\ o.kind = "stuck" /\ o # Unused /\ op[m] # Private
  BY <1>2, SMT DEF Op, OpPlain, Unused, Private, Kind
<1>4. op' = [op EXCEPT ![m] = o]
  BY <1>2 DEF Goto
<1>5. op'[m] = o /\ Kind(m)' = "stuck"
  BY <1>1, <1>3, <1>4, GotoOp DEF Kind
<1>6. Calm(m) /\ \A y \in MM : Owns(m, y)' => Owns(m, y)
  BY <1>5 DEF Calm, ReadyKept, HoldingKept, Ready, Holding, Owns
<1>7. FaultInv(m)' /\ ForkInv(m)' /\ ExecInv(m)' /\ BlankInv(m)'
  BY <1>5 DEF FaultInv, ForkInv, ExecInv, BlankInv, Live
<1> QED BY <1>3, <1>4, <1>6, <1>7, ControlStep

LEMMA SegmentLoadedStep ==
  ASSUME IInv, ~raced, NEW m \in MM, SegmentLoaded(m)
  PROVE  IInv'
<1>1. op \in [MM -> Op] /\ BlankInv(m) /\ ExecInv(m)
  BY DEF IInv, TypeOK, PageInv, Blank, OpInv
<1>2. /\ Kind(m) = "exec" /\ op[m].stage = "load" /\ op[m] \in OpExec
      /\ op' = [op EXCEPT ![m] = [op[m] EXCEPT !.stage = "segment", !.prog = Tail(@)]]
      /\ UNCHANGED <<Memory, raced>>
  BY <1>1, OpKinds DEF SegmentLoaded, Execing, Goto, Kind
<1>3. op[m].prog \in Seq(Phdr) /\ op[m].prog # << >> /\ WellFormed(op[m].prog)
  BY <1>1, <1>2 DEF ExecInv, OpExec
<1>4. PICK rest : rest = Tail(op[m].prog)
  OBVIOUS
<1>5. rest \in Seq(Phdr) /\ WellFormed(rest)
  <2>1. rest \in Seq(Phdr) /\ Len(rest) = Len(op[m].prog) - 1
    BY <1>3, <1>4, SMT
  <2>2. ASSUME NEW i \in 1..Len(rest)
        PROVE  rest[i] = op[m].prog[i + 1] /\ i + 1 \in 1..Len(op[m].prog)
    BY <1>3, <1>4, <2>1, SMT
  <2> QED BY <1>3, <2>1, <2>2 DEF WellFormed
<1>6. PICK o : o = [op[m] EXCEPT !.stage = "segment", !.prog = rest]
  OBVIOUS
<1>7. o \in OpExec /\ o.kind = "exec" /\ o.stage = "segment" /\ o.new = op[m].new /\ o.prog = rest
  BY <1>2, <1>5, <1>6 DEF OpExec, Stages
<1>8. o \in Op /\ o # Unused /\ op[m] # Private
  BY <1>2, <1>7, SMT DEF Op, Unused, Private, Kind
<1>9. op' = [op EXCEPT ![m] = o]
  BY <1>2, <1>4, <1>6
<1>10. op'[m] = o /\ Kind(m)' = "exec"
  BY <1>1, <1>7, <1>8, <1>9, GotoOp DEF Kind
<1>11. Calm(m) /\ \A y \in MM : Owns(m, y)' => Owns(m, y)
  BY <1>2, <1>7, <1>10 DEF Calm, ReadyKept, HoldingKept, Ready, Holding, Owns
<1>12. FaultInv(m)' /\ ForkInv(m)'
  BY <1>10 DEF FaultInv, ForkInv
<1>13. ExecInv(m)'
  BY <1>5, <1>7, <1>10 DEF ExecInv
<1>14. BlankInv(m)'
  BY <1>1, <1>2, <1>7, <1>10 DEF BlankInv, Live, Zeros, Memory
<1> QED BY <1>2, <1>8, <1>9, <1>11, <1>12, <1>13, <1>14, ControlStep


-----------------------------------------------------------------------------
(* A step that changes what m and x are doing, and perhaps what is in x.   *)
LEMMA TwoStep ==
  ASSUME IInv, ~raced, NEW m \in MM, NEW x \in MM, Near(m, x), op[m] # Private,
         op' \in [MM -> Op], \A n \in MM : n # m /\ n # x => op'[n] = op[n],
         UNCHANGED <<vma, pte, refcount, free, content, base, raced>>,
         val' = val \/ (vma[x] = {} /\ Idle(x) /\ x # m /\ val' \in [MM -> [Addr -> Data]]
                        /\ \A n \in MM : n # x => val'[n] = val[n]),
         \A y \in MM : Owns(m, y)' => y = x /\ x # m /\ op'[x] = Private,
         \A y \in MM : x # m /\ Owns(x, y)' => y = m /\ op'[m] = Private,
         \A y \in MM : op'[y] = Unused => op[y] = Unused \/ vma[y] = {},
         Calm(m), Calm(x), FaultInv(m)', ForkInv(m)', ExecInv(m)', BlankInv(m)',
         x # m => Idle(x)' /\ BlankInv(x)'
  PROVE  IInv'
<1>1. TypeOK /\ Owned /\ Areas
  BY DEF IInv
<1>2. TypeOK'
  BY <1>1 DEF TypeOK
<1>3. Owned'
  BY <1>1, OwnedTwo
<1>4. Areas'
  BY <1>1, AreasKept
<1>5. Others(m, x) /\ val'[m] = val[m]
  BY DEF Others
<1>6. val'[x] = val[x] \/ (pte[x] = Empty /\ ~Ready(x))
  BY <1>1, NoAreas DEF Idle, Ready
<1> QED BY <1>2, <1>3, <1>4, <1>5, <1>6, QuietStep

LEMMA ForkStarts ==
  ASSUME IInv, ~raced, NEW m \in MM, NEW c \in MM, fork(m, c)
  PROVE  IInv'
<1>1. TypeOK /\ Areas /\ op \in [MM -> Op] /\ vma[m] \in SUBSET Area /\ val \in [MM -> [Addr -> Data]]
  BY DEF IInv, TypeOK
<1>2. BlankInv(m)
  BY DEF IInv, PageInv, Blank
<1>3. PICK o : o = [kind |-> "fork", child |-> c, vmas |-> vma[m], pages |-> {}, page |-> None,
                    seen |-> 0]
  OBVIOUS
<1>4. /\ op[m] = Running /\ op[c] = Unused /\ op' = [op EXCEPT ![c] = Private, ![m] = o]
      /\ val' = [val EXCEPT ![c] = val[m]]
      /\ UNCHANGED <<vma, pte, refcount, free, content, base, raced>>
  BY <1>3 DEF fork
<1>5. o \in OpFork
  <2>1. 0 \in Int /\ {} \in SUBSET Addr /\ None \in Page \cup {None}
    BY SMT
  <2> QED BY <1>1, <1>3, <2>1 DEF OpFork
<1>6. /\ o.kind = "fork" /\ o.child = c /\ o.vmas = vma[m] /\ o.pages = {} /\ o.page = None
  BY <1>3
<1>7. o \in Op /\ Private \in Op
  BY <1>5, SMT DEF Op, OpPlain, Private
<1>8. m # c /\ op[m] # Private /\ o # Unused /\ Private # Unused
  BY <1>4, <1>6, SMT DEF Running, Unused, Private
<1>9. /\ op' \in [MM -> Op] /\ op'[m] = o /\ op'[c] = Private
      /\ \A n \in MM : n # m /\ n # c => op'[n] = op[n]
  BY <1>1, <1>4, <1>7, <1>8
<1>10. /\ Kind(m)' = "fork" /\ Kind(c)' = "private" /\ Kind(m) = "running" /\ Kind(c) = "unused"
  BY <1>4, <1>6, <1>9, SMT DEF Kind, Private, Unused, Running
<1>11. /\ val' \in [MM -> [Addr -> Data]] /\ val'[c] = val[m]
       /\ \A n \in MM : n # c => val'[n] = val[n]
  BY <1>1, <1>4
<1>12. vma[c] = {} /\ Idle(c) /\ Near(m, c)
  BY <1>1, <1>4, <1>10 DEF Areas, Idle, Near
<1>13. pte[c] = Empty
  BY <1>1, <1>12, NoAreas
<1>14. /\ \A y \in MM : Owns(m, y)' => y = c /\ c # m /\ op'[c] = Private
       /\ \A y \in MM : c # m /\ Owns(c, y)' => y = m /\ op'[m] = Private
  BY <1>6, <1>8, <1>9, <1>10 DEF Owns
<1>15. Calm(m) /\ Calm(c)
  BY <1>10 DEF Calm, ReadyKept, HoldingKept, Ready, Holding
<1>16. FaultInv(m)' /\ ExecInv(m)'
  BY <1>10 DEF FaultInv, ExecInv
<1>17. ForkInv(m)'
  <2>1. \A v \in op'[m].vmas : v.begin <= v.end
    BY <1>1, <1>6, <1>9 DEF Areas, Tidy
  <2>2. \A a \in Addr : pte[m][a] # None => \E v \in op'[m].vmas : a \in PagesOf(v)
    BY <1>1, <1>6, <1>9 DEF Areas, Covered
  <2> QED BY <1>4, <1>6, <1>9, <2>1, <2>2 DEF ForkInv
<1>18. BlankInv(m)'
  <2>1. Zeros(m)'
    BY <1>2, <1>4, <1>8, <1>10, <1>11 DEF BlankInv, Live, Zeros
  <2>2. \A a \in Addr : val'[op'[m].child][a] = val'[m][a]
    BY <1>6, <1>8, <1>9, <1>11
  <2> QED BY <1>10, <2>1, <2>2 DEF BlankInv
<1>19. Idle(c)' /\ BlankInv(c)'
  BY <1>10 DEF Idle, BlankInv, Live
<1>20. \A y \in MM : op'[y] = Unused => op[y] = Unused \/ vma[y] = {}
  BY <1>8, <1>9
<1> QED BY <1>4, <1>8, <1>9, <1>11, <1>12, <1>14, <1>15, <1>16, <1>17, <1>18, <1>19, <1>20, TwoStep

LEMMA ExecStarts ==
  ASSUME IInv, ~raced, NEW m \in MM, NEW c \in MM, exec(m, c)
  PROVE  IInv'
<1>1. TypeOK /\ Areas /\ op \in [MM -> Op] /\ val \in [MM -> [Addr -> Data]]
  BY DEF IInv, TypeOK
<1>2. BlankInv(m)
  BY DEF IInv, PageInv, Blank
<1>3. PICK prog \in Program :
        op' = [op EXCEPT ![c] = Private,
                 ![m] = [kind |-> "exec", stage |-> "stack", new |-> c, prog |-> prog,
                         addr |-> 0, offset |-> 0, remain |-> 0]]
  BY DEF exec
<1>4. PICK o : o = [kind |-> "exec", stage |-> "stack", new |-> c, prog |-> prog,
                    addr |-> 0, offset |-> 0, remain |-> 0]
  OBVIOUS
<1>5. /\ op[m] = Running /\ op[c] = Unused /\ op' = [op EXCEPT ![c] = Private, ![m] = o]
      /\ val' = [val EXCEPT ![c] = [a \in Addr |-> 0]]
      /\ UNCHANGED <<vma, pte, refcount, free, content, base, raced>>
  BY <1>3, <1>4 DEF exec
<1>6. prog \in Seq(Phdr) /\ WellFormed(prog)
  BY ExecAssumption DEF WellFormed
<1>7. o \in OpExec
  <2>1. 0 \in Nat
    BY SMT
  <2> QED BY <1>4, <1>6, <2>1 DEF OpExec, Stages
<1>8. o.kind = "exec" /\ o.stage = "stack" /\ o.new = c /\ o.prog = prog
  BY <1>4
<1>9. o \in Op /\ Private \in Op
  BY <1>7, SMT DEF Op, OpPlain, Private
<1>10. m # c /\ op[m] # Private /\ o # Unused /\ Private # Unused
  BY <1>5, <1>8, SMT DEF Running, Unused, Private
<1>11. /\ op' \in [MM -> Op] /\ op'[m] = o /\ op'[c] = Private
       /\ \A n \in MM : n # m /\ n # c => op'[n] = op[n]
  BY <1>1, <1>5, <1>9, <1>10
<1>12. /\ Kind(m)' = "exec" /\ Kind(c)' = "private" /\ Kind(m) = "running" /\ Kind(c) = "unused"
  BY <1>5, <1>8, <1>11, SMT DEF Kind, Private, Unused, Running
<1>13. /\ val' \in [MM -> [Addr -> Data]] /\ \A a \in Addr : val'[c][a] = 0
       /\ \A n \in MM : n # c => val'[n] = val[n]
  <2>1. [a \in Addr |-> 0] \in [Addr -> Data]
    BY DEF Data
  <2> QED BY <1>1, <1>5, <2>1
<1>14. vma[c] = {} /\ Idle(c) /\ Near(m, c)
  BY <1>1, <1>5, <1>12 DEF Areas, Idle, Near
<1>15. /\ \A y \in MM : Owns(m, y)' => y = c /\ c # m /\ op'[c] = Private
       /\ \A y \in MM : c # m /\ Owns(c, y)' => y = m /\ op'[m] = Private
  BY <1>8, <1>10, <1>11, <1>12 DEF Owns
<1>16. Calm(m) /\ Calm(c)
  BY <1>12 DEF Calm, ReadyKept, HoldingKept, Ready, Holding
<1>17. FaultInv(m)' /\ ForkInv(m)'
  BY <1>12 DEF FaultInv, ForkInv
<1>18. ExecInv(m)'
  BY <1>5, <1>6, <1>8, <1>11, <1>14 DEF ExecInv
<1>19. BlankInv(m)'
  <2>1. Zeros(m)'
    BY <1>2, <1>5, <1>10, <1>12, <1>13 DEF BlankInv, Live, Zeros
  <2>2. op'[m].new = c /\ \A a \in Addr : val'[c][a] = 0
    BY <1>8, <1>11, <1>13
  <2>3. Zeros(op[m].new)'
    BY <2>2 DEF Zeros
  <2> QED BY <1>12, <2>1, <2>3 DEF BlankInv
<1>20. Idle(c)' /\ BlankInv(c)'
  BY <1>12 DEF Idle, BlankInv, Live
<1>21. \A y \in MM : op'[y] = Unused => op[y] = Unused \/ vma[y] = {}
  BY <1>10, <1>11
<1> QED BY <1>5, <1>10, <1>11, <1>13, <1>14, <1>15, <1>16, <1>17, <1>18, <1>19, <1>20, <1>21, TwoStep


LEMMA ForkDoneStep ==
  ASSUME IInv, ~raced, NEW m \in MM, ForkDone(m)
  PROVE  IInv'
<1>1. /\ TypeOK /\ Owned /\ op \in [MM -> Op] /\ ForkInv(m) /\ BlankInv(m)
  BY DEF IInv, TypeOK, OpInv, PageInv, Blank
<1>2. /\ Kind(m) = "fork" /\ op[m].pages = {} /\ op[m].vmas = {}
      /\ op' = [op EXCEPT ![m] = Running, ![op[m].child] = Running]
      /\ UNCHANGED <<vma, pte, refcount, free, content, val, base, raced>>
  BY DEF ForkDone, Forking, Kind, Memory
<1>3. PICK c \in MM : op[m].child = c
  BY <1>1, <1>2, OpKinds, SMT DEF OpFork
<1>4. Owns(m, c) /\ op[c] = Private /\ Near(m, c)
  BY <1>1, <1>2, <1>3 DEF Owns, Owned, Near
<1>5. op[m] # Private /\ m # c /\ Running \in Op /\ Running # Unused
  BY <1>2, <1>4, SMT DEF Op, OpPlain, Running, Private, Unused, Kind
<1>6. /\ op' \in [MM -> Op] /\ op'[m] = Running /\ op'[c] = Running
      /\ \A n \in MM : n # m /\ n # c => op'[n] = op[n]
  BY <1>1, <1>2, <1>3, <1>5
<1>7. Kind(m)' = "running" /\ Kind(c)' = "running" /\ Kind(c) = "private"
  BY <1>4, <1>6, SMT DEF Kind, Running, Private
<1>8. /\ \A y \in MM : Owns(m, y)' => y = c /\ c # m /\ op'[c] = Private
      /\ \A y \in MM : c # m /\ Owns(c, y)' => y = m /\ op'[m] = Private
  BY <1>7 DEF Owns
<1>9. Calm(m) /\ Calm(c)
  BY <1>2, <1>7 DEF Calm, ReadyKept, HoldingKept, Ready, Holding
<1>10. FaultInv(m)' /\ ForkInv(m)' /\ ExecInv(m)' /\ Idle(c)'
  BY <1>7 DEF FaultInv, ForkInv, ExecInv, Idle
<1>11. Zeros(m)
  BY <1>1, <1>2 DEF BlankInv, Live
<1>12. Zeros(c)
  <2> SUFFICES ASSUME NEW a \in Addr, pte[c][a] = None PROVE val[c][a] = 0
    BY DEF Zeros
  <2>1. pte[m][a] = None
    BY <1>1, <1>2, <1>3 DEF ForkInv
  <2>2. val[m][a] = 0 /\ val[c][a] = val[m][a]
    BY <1>1, <1>2, <1>3, <1>11, <2>1 DEF BlankInv, Zeros
  <2> QED BY <2>2
<1>13. BlankInv(m)' /\ BlankInv(c)'
  BY <1>2, <1>7, <1>11, <1>12 DEF BlankInv, Zeros
<1>14. \A y \in MM : op'[y] = Unused => op[y] = Unused \/ vma[y] = {}
  BY <1>5, <1>6
<1>15. val' = val
  BY <1>2
<1> QED BY <1>2, <1>4, <1>5, <1>6, <1>8, <1>9, <1>10, <1>13, <1>14, <1>15, TwoStep

LEMMA ExecDoneStep ==
  ASSUME IInv, ~raced, NEW m \in MM, ExecDone(m)
  PROVE  IInv'
<1>1. /\ TypeOK /\ Owned /\ op \in [MM -> Op] /\ BlankInv(m)
  BY DEF IInv, TypeOK, PageInv, Blank
<1>2. PICK o : o = [kind |-> "release", mm |-> m]
  OBVIOUS
<1>3. /\ Kind(m) = "exec" /\ op' = [op EXCEPT ![op[m].new] = o, ![m] = Private]
      /\ UNCHANGED <<vma, pte, refcount, free, content, val, base, raced>>
  BY <1>2 DEF ExecDone, Execing, Kind, Memory
<1>4. PICK c \in MM : op[m].new = c
  BY <1>1, <1>3, OpKinds, SMT DEF OpExec
<1>5. Owns(m, c) /\ op[c] = Private /\ Near(m, c)
  BY <1>1, <1>3, <1>4 DEF Owns, Owned, Near
<1>6. /\ op[m] # Private /\ m # c /\ o \in Op /\ Private \in Op /\ o # Unused /\ Private # Unused
      /\ o.kind = "release" /\ o.mm = m
  BY <1>2, <1>3, <1>5, SMT DEF Op, OpPlain, OpRelease, Private, Unused, Kind
<1>7. /\ op' \in [MM -> Op] /\ op'[m] = Private /\ op'[c] = o
      /\ \A n \in MM : n # m /\ n # c => op'[n] = op[n]
  BY <1>1, <1>3, <1>4, <1>6
<1>8. Kind(m)' = "private" /\ Kind(c)' = "release" /\ op'[c].mm = m /\ Kind(c) = "private"
  BY <1>5, <1>6, <1>7, SMT DEF Kind, Private
<1>9. /\ \A y \in MM : Owns(m, y)' => y = c /\ c # m /\ op'[c] = Private
      /\ \A y \in MM : c # m /\ Owns(c, y)' => y = m /\ op'[m] = Private
  BY <1>7, <1>8 DEF Owns
<1>10. Calm(m) /\ Calm(c)
  BY <1>3, <1>8 DEF Calm, ReadyKept, HoldingKept, Ready, Holding
<1>11. FaultInv(m)' /\ ForkInv(m)' /\ ExecInv(m)' /\ Idle(c)' /\ BlankInv(m)'
  BY <1>8 DEF FaultInv, ForkInv, ExecInv, Idle, BlankInv, Live
<1>12. Zeros(c)
  BY <1>1, <1>3, <1>4 DEF BlankInv
<1>13. BlankInv(c)'
  BY <1>3, <1>8, <1>12 DEF BlankInv, Zeros
<1>14. \A y \in MM : op'[y] = Unused => op[y] = Unused \/ vma[y] = {}
  BY <1>6, <1>7
<1>15. val' = val
  BY <1>3
<1> QED BY <1>3, <1>5, <1>6, <1>7, <1>9, <1>10, <1>11, <1>13, <1>14, <1>15, TwoStep

LEMMA ReleasedStep ==
  ASSUME IInv, ~raced, NEW m \in MM, release_mm(m)
  PROVE  IInv'
<1>1. /\ TypeOK /\ Owned /\ op \in [MM -> Op] /\ BlankInv(m)
  BY DEF IInv, TypeOK, PageInv, Blank
<1>2. PICK x : x = op[m].mm
  OBVIOUS
<1>3. /\ Kind(m) = "release" /\ vma[x] = {} /\ op' = [op EXCEPT ![m] = Running, ![x] = Unused]
      /\ UNCHANGED <<vma, pte, refcount, free, content, val, base, raced>>
  BY <1>2 DEF release_mm, Kind, Memory
<1>4. x \in MM
  BY <1>1, <1>2, <1>3, OpKinds, SMT DEF OpRelease
<1>5. Near(m, x)
  BY <1>2, <1>3 DEF Near, Owns
<1>6. x # m => op[x] = Private
  BY <1>1, <1>2, <1>3, <1>4 DEF Owned, Owns
<1>7. op[m] # Private /\ Running \in Op /\ Unused \in Op /\ Running # Unused
  BY <1>3, SMT DEF Op, OpPlain, Running, Private, Unused, Kind
<1>8. /\ op' \in [MM -> Op] /\ op'[x] = Unused /\ (x # m => op'[m] = Running)
      /\ \A n \in MM : n # m /\ n # x => op'[n] = op[n]
  BY <1>1, <1>3, <1>4, <1>7
<1>9. /\ Kind(x)' = "unused" /\ (x # m => Kind(m)' = "running" /\ Kind(x) = "private")
  BY <1>6, <1>8, SMT DEF Kind, Running, Private, Unused
<1>10. Kind(m)' \in {"running", "unused"}
  BY <1>9
<1>11. /\ \A y \in MM : Owns(m, y)' => y = x /\ x # m /\ op'[x] = Private
       /\ \A y \in MM : x # m /\ Owns(x, y)' => y = m /\ op'[m] = Private
  BY <1>9, <1>10 DEF Owns
<1>12. Calm(m) /\ Calm(x)
  <2>1. Calm(m)
    BY <1>3, <1>10 DEF Calm, ReadyKept, HoldingKept, Ready, Holding
  <2>2. x # m => Calm(x)
    BY <1>9 DEF Calm, ReadyKept, HoldingKept, Ready, Holding
  <2> QED BY <2>1, <2>2
<1>13. FaultInv(m)' /\ ForkInv(m)' /\ ExecInv(m)' /\ Idle(x)' /\ BlankInv(x)'
  BY <1>9, <1>10 DEF FaultInv, ForkInv, ExecInv, Idle, BlankInv, Live
<1>14. BlankInv(m)'
  <2>1. CASE x = m
    BY <1>13, <2>1
  <2>2. CASE x # m
    <3>1. Zeros(m)
      BY <1>1, <1>2, <1>3, <2>2 DEF BlankInv, Live
    <3> QED BY <1>3, <1>9, <2>2, <3>1 DEF BlankInv, Zeros
  <2> QED BY <2>1, <2>2
<1>15. \A y \in MM : op'[y] = Unused => op[y] = Unused \/ vma[y] = {}
  BY <1>3, <1>7, <1>8
<1>16. val' = val
  BY <1>3
<1> QED BY <1>3, <1>4, <1>5, <1>7, <1>8, <1>11, <1>12, <1>13, <1>14, <1>15, <1>16, TwoStep


-----------------------------------------------------------------------------
(* A step of m that changes nothing in memory but the areas of x.          *)
LEMMA AreaStep ==
  ASSUME IInv, ~raced, NEW m \in MM, NEW x \in MM, x = m \/ Owns(m, x), op[m] # Private,
         op' \in [MM -> Op], \A n \in MM : n # m => op'[n] = op[n],
         vma' \in [MM -> SUBSET Area], Areas', \A n \in MM : n # x => vma'[n] = vma[n],
         UNCHANGED <<pte, refcount, free, content, val, base, raced>>,
         Calm(m), \A y \in MM : Owns(m, y)' => Owns(m, y),
         FaultInv(m)', ForkInv(m)', ExecInv(m)', BlankInv(m)'
  PROVE  IInv'
<1>1. TypeOK /\ Owned
  BY DEF IInv
<1>2. TypeOK'
  BY <1>1 DEF TypeOK
<1>3. Owned'
  BY <1>1, OwnedStep
<1>4. Near(m, x) /\ Others(m, x) /\ val'[m] = val[m] /\ val'[x] = val[x]
  BY DEF Near, Others
<1>5. x # m => op'[x] = Private /\ op'[x] = op[x]
  BY <1>1 DEF Owned
<1>6. Calm(x)
  BY <1>5, CalmSame
<1>7. x # m => Kind(x)' = "private"
  BY <1>5, SMT DEF Kind, Private
<1>8. x # m => Idle(x)' /\ BlankInv(x)'
  BY <1>7 DEF Idle, BlankInv, Live
<1> QED BY <1>2, <1>3, <1>4, <1>6, <1>8, QuietStep

LEMMA MmapStep ==
  ASSUME IInv, ~raced, NEW m \in MM, NEW first \in Addr, NEW last \in Addr, first <= last,
         NEW w \in MmapWrite, mmap(m, first * PAGE_SIZE, (last + 1) * PAGE_SIZE, w)
  PROVE  IInv'
<1>1. TypeOK /\ Areas /\ op \in [MM -> Op] /\ BlankInv(m)
  BY DEF IInv, TypeOK, PageInv, Blank
<1>2. PICK begin \in Nat, end \in Nat :
        begin = first * PAGE_SIZE /\ end = (last + 1) * PAGE_SIZE /\ begin <= end
  <2>1. first \in Nat /\ last \in Nat
    BY MmAssumption
  <2> QED BY <2>1, SMT DEF PAGE_SIZE
<1>3. w \in BOOLEAN
  BY MmAssumption
<1>4. /\ op[m] = Running /\ Mmap(m, begin, end, w)
      /\ UNCHANGED <<op, pte, refcount, free, content, raced, val, base>>
  BY <1>2 DEF mmap
<1>5. Kind(m) = "running" /\ op[m] # Private /\ op[m] # Unused /\ op' = op
  BY <1>4, SMT DEF Kind, Running, Private, Unused
<1>6. /\ vma' \in [MM -> SUBSET Area] /\ Areas'
      /\ \A n \in MM : n # m => vma'[n] = vma[n]
  <2>1. AreaAdded(m, begin, end)
    BY <1>1, <1>2, <1>3, <1>4, <1>5, MmapDone
  <2> QED BY <2>1 DEF AreaAdded
<1>7. Calm(m) /\ \A y \in MM : Owns(m, y)' => Owns(m, y)
  BY <1>5, CalmSame, OwnsSame
<1>8. Kind(m)' = "running"
  BY <1>5 DEF Kind
<1>9. FaultInv(m)' /\ ForkInv(m)' /\ ExecInv(m)'
  BY <1>8 DEF FaultInv, ForkInv, ExecInv
<1>10. BlankInv(m)'
  BY <1>1, <1>4, <1>5, <1>8 DEF BlankInv, Live, Zeros
<1>11. op' \in [MM -> Op] /\ \A n \in MM : n # m => op'[n] = op[n]
  BY <1>1, <1>5
<1> QED BY <1>4, <1>5, <1>6, <1>7, <1>9, <1>10, <1>11, AreaStep

LEMMA SetupStackStep ==
  ASSUME IInv, ~raced, NEW m \in MM, setup_stack(m)
  PROVE  IInv'
<1>1. TypeOK /\ Owned /\ Areas /\ op \in [MM -> Op] /\ BlankInv(m) /\ ExecInv(m)
  BY DEF IInv, TypeOK, PageInv, Blank, OpInv
<1>2. /\ Kind(m) = "exec" /\ op[m].stage = "stack" /\ op[m] \in OpExec
      /\ UNCHANGED <<pte, refcount, free, content, raced, val, base>>
  BY <1>1, OpKinds DEF setup_stack, Execing, Kind
<1>3. PICK x \in MM : x = op[m].new
  BY <1>2, SMT DEF OpExec
<1>4. PICK begin \in Nat, end \in Nat :
        begin = StackPage * PAGE_SIZE /\ end = (StackPage + 1) * PAGE_SIZE /\ begin <= end
  <2>1. StackPage \in Nat
    BY MmAssumption, ExecAssumption
  <2> QED BY <2>1, SMT DEF PAGE_SIZE
<1>5. PICK o : o = [op[m] EXCEPT !.stage = "args"]
  OBVIOUS
<1>6. Mmap(x, begin, end, TRUE) /\ op' = [op EXCEPT ![m] = o]
  BY <1>3, <1>4, <1>5 DEF setup_stack, Goto
<1>7. o \in OpExec /\ o.kind = "exec" /\ o.stage = "args" /\ o.new = x /\ o.prog = op[m].prog
  BY <1>2, <1>3, <1>5 DEF OpExec, Stages
<1>8. o \in Op /\ o # Unused /\ op[m] # Private
  BY <1>2, <1>7, SMT DEF Op, Unused, Private, Kind
<1>9. op' \in [MM -> Op] /\ op'[m] = o /\ \A n \in MM : n # m => op'[n] = op[n]
  BY <1>1, <1>6, <1>8, GotoOp
<1>10. Owns(m, x) /\ op[x] = Private /\ x # m
  BY <1>1, <1>2, <1>3, <1>8 DEF Owns, Owned
<1>11. op'[x] # Unused /\ \A n \in MM : op'[n] = Unused => op[n] = Unused
  <2>1. Private # Unused
    BY SMT DEF Private, Unused
  <2> QED BY <1>8, <1>9, <1>10, <2>1
<1>12. /\ vma' \in [MM -> SUBSET Area] /\ Areas'
       /\ \A n \in MM : n # x => vma'[n] = vma[n]
       /\ \E u \in vma'[x] : u \in Area /\ Fresh(u, x, begin, end)
  <2>1. AreaAdded(x, begin, end)
    BY <1>1, <1>2, <1>4, <1>6, <1>11, MmapDone
  <2> QED BY <2>1 DEF AreaAdded
<1>13. Kind(m)' = "exec"
  BY <1>7, <1>9 DEF Kind
<1>14. Calm(m) /\ \A y \in MM : Owns(m, y)' => Owns(m, y)
  BY <1>2, <1>3, <1>7, <1>9, <1>13 DEF Calm, ReadyKept, HoldingKept, Ready, Holding, Owns
<1>15. FaultInv(m)' /\ ForkInv(m)'
  BY <1>13 DEF FaultInv, ForkInv
<1>16. ExecInv(m)'
  <2>1. WellFormed(op[m].prog) /\ vma[x] = {}
    BY <1>1, <1>2, <1>3 DEF ExecInv
  <2>2. pte[x] = Empty
    BY <1>1, <2>1, NoAreas
  <2>3. Covered(x, StackPage)'
    <3>1. PICK u \in vma'[x] : u \in Area /\ Fresh(u, x, begin, end)
      BY <1>12
    <3>2. StackPage \in Addr /\ StackPage \in Nat
      BY MmAssumption, ExecAssumption
    <3>3. Overlap(u, StackPage * PAGE_SIZE, (StackPage + 1) * PAGE_SIZE)
      BY <1>4, <3>1, <3>2, SMT DEF Fresh, Overlap, PAGE_SIZE, Area
    <3>4. StackPage \in PagesOf(u)
      BY <3>2, <3>3 DEF PagesOf
    <3> QED BY <3>4 DEF Covered
  <2> QED BY <1>2, <1>7, <1>9, <2>1, <2>2, <2>3 DEF ExecInv
<1>17. BlankInv(m)'
  BY <1>1, <1>2, <1>3, <1>7, <1>9, <1>13 DEF BlankInv, Live, Zeros
<1> QED BY <1>2, <1>8, <1>9, <1>10, <1>12, <1>14, <1>15, <1>16, <1>17, AreaStep


LEMMA LoadBinaryStep ==
  ASSUME IInv, ~raced, NEW m \in MM, load_binary(m)
  PROVE  IInv'
<1>1. TypeOK /\ Owned /\ Areas /\ op \in [MM -> Op] /\ BlankInv(m) /\ ExecInv(m)
  BY DEF IInv, TypeOK, PageInv, Blank, OpInv
<1>2. /\ Kind(m) = "exec" /\ op[m].stage = "segment" /\ op[m] \in OpExec /\ op[m].prog # << >>
      /\ UNCHANGED <<pte, refcount, free, content, raced, val, base>>
  BY <1>1, OpKinds DEF load_binary, Execing, Kind
<1>3. PICK x \in MM : x = op[m].new
  BY <1>2, SMT DEF OpExec
<1>4. PICK prog \in Seq(Phdr) : prog = op[m].prog /\ prog # << >>
  BY <1>2, SMT DEF OpExec
<1>5. PICK h : h = Head(prog)
  OBVIOUS
<1>6. h = prog[1] /\ 1 \in 1..Len(prog) /\ h \in Phdr
  BY <1>4, <1>5, SMT
<1>7. /\ h.begin \in Nat /\ h.memsz \in Nat /\ h.filesz \in Nat /\ h.write \in BOOLEAN
  BY <1>6, SMT DEF Phdr
<1>8. PICK end \in Nat : end = h.begin + h.memsz /\ h.begin <= end
  BY <1>7, SMT
<1>9. PICK i \in Nat, j \in Nat : i = h.begin \div PAGE_SIZE /\ j = h.begin % PAGE_SIZE
  BY <1>7, SMT DEF PAGE_SIZE
<1>10. PICK o : o = [op[m] EXCEPT !.stage = "load", !.addr = i, !.offset = j, !.remain = h.filesz]
  OBVIOUS
<1>11. Mmap(x, h.begin, end, h.write) /\ op' = [op EXCEPT ![m] = o]
  BY <1>3, <1>4, <1>5, <1>8, <1>9, <1>10 DEF load_binary, Goto
<1>12. /\ o \in OpExec /\ o.kind = "exec" /\ o.stage = "load" /\ o.new = x /\ o.prog = prog
       /\ o.addr = i /\ o.offset = j /\ o.remain = h.filesz
  BY <1>2, <1>3, <1>4, <1>7, <1>10 DEF OpExec, Stages
<1>13. o \in Op /\ o # Unused /\ op[m] # Private
  BY <1>2, <1>12, SMT DEF Op, Unused, Private, Kind
<1>14. op' \in [MM -> Op] /\ op'[m] = o /\ \A n \in MM : n # m => op'[n] = op[n]
  BY <1>1, <1>11, <1>13, GotoOp
<1>15. Owns(m, x) /\ op[x] = Private /\ x # m
  BY <1>1, <1>2, <1>3, <1>13 DEF Owns, Owned
<1>16. op'[x] # Unused /\ \A n \in MM : op'[n] = Unused => op[n] = Unused
  <2>1. Private # Unused
    BY SMT DEF Private, Unused
  <2> QED BY <1>13, <1>14, <1>15, <2>1
<1>17. /\ vma' \in [MM -> SUBSET Area] /\ Areas'
       /\ \A n \in MM : n # x => vma'[n] = vma[n]
       /\ \E u \in vma'[x] : u \in Area /\ Fresh(u, x, h.begin, end)
  <2>1. AreaAdded(x, h.begin, end)
    BY <1>1, <1>2, <1>7, <1>8, <1>11, <1>16, MmapDone
  <2> QED BY <2>1 DEF AreaAdded
<1>18. Kind(m)' = "exec"
  BY <1>12, <1>14 DEF Kind
<1>19. Calm(m) /\ \A y \in MM : Owns(m, y)' => Owns(m, y)
  BY <1>2, <1>3, <1>12, <1>14, <1>18 DEF Calm, ReadyKept, HoldingKept, Ready, Holding, Owns
<1>20. FaultInv(m)' /\ ForkInv(m)'
  BY <1>18 DEF FaultInv, ForkInv
<1>21. ExecInv(m)'
  <2>1. WellFormed(prog)
    BY <1>1, <1>2, <1>4 DEF ExecInv
  <2>2. j < PAGE_SIZE /\ i * PAGE_SIZE + j + h.filesz = h.begin + h.filesz
    BY <1>7, <1>9, SMT DEF PAGE_SIZE
  <2>3. PICK u \in vma'[x] : u \in Area /\ Fresh(u, x, h.begin, end)
    BY <1>17
  <2>4. u.begin <= i * PAGE_SIZE
    BY <1>7, <1>9, <2>3, SMT DEF Fresh, PAGE_SIZE, Area
  <2>5. h.begin + h.memsz <= u.end /\ \A a \in PagesOf(u) : pte'[x][a] = None
    BY <1>2, <1>8, <2>3 DEF Fresh
  <2>6. Loading(op[m], u)'
    BY <1>5, <1>12, <1>14, <2>4, <2>5 DEF Loading
  <2>7. /\ op'[m].prog = prog /\ op'[m].offset = j /\ op'[m].remain = h.filesz
        /\ op'[m].addr = i /\ op'[m].stage = "load" /\ op'[m].new = x
    BY <1>12, <1>14
  <2> QED BY <1>4, <1>5, <2>1, <2>2, <2>6, <2>7 DEF ExecInv
<1>22. BlankInv(m)'
  BY <1>1, <1>2, <1>3, <1>12, <1>14, <1>18 DEF BlankInv, Live, Zeros
<1> QED BY <1>2, <1>13, <1>14, <1>15, <1>17, <1>19, <1>20, <1>21, <1>22, AreaStep

LEMMA CopyVmaStep ==
  ASSUME FiniteSetFacts, IInv, ~raced, NEW m \in MM, copy_vma(m)
  PROVE  IInv'
<1>1. TypeOK /\ Owned /\ Areas /\ op \in [MM -> Op] /\ BlankInv(m) /\ ForkInv(m)
  BY DEF IInv, TypeOK, PageInv, Blank, OpInv
<1>2. /\ Kind(m) = "fork" /\ op[m] \in OpFork /\ op[m].pages = {} /\ op[m].vmas # {}
      /\ UNCHANGED <<pte, refcount, free, content, raced, val, base>>
  BY <1>1, OpKinds DEF copy_vma, Forking, Kind
<1>3. PICK x \in MM : x = op[m].child
  BY <1>2, SMT DEF OpFork
<1>4. PICK V : V = op[m].vmas
  OBVIOUS
<1>5. V \subseteq Area /\ V # {}
  BY <1>2, <1>4 DEF OpFork
<1>6. PICK v : v = CHOOSE z \in V : \A w \in V : z.begin <= w.begin
  OBVIOUS
<1>7. v \in V /\ v \in Area
  BY <1>5, <1>6, LowestIn
<1>8. v.begin \in Nat /\ v.end \in Nat /\ v.write \in BOOLEAN /\ v.begin <= v.end
  BY <1>1, <1>2, <1>4, <1>7 DEF ForkInv, Area
<1>9. PICK P : P = {a \in PagesOf(v) : pte[m][a] # None}
  OBVIOUS
<1>10. PICK o : o = [op[m] EXCEPT !.vmas = V \ {v}, !.pages = P]
  OBVIOUS
<1>11. Mmap(x, v.begin, v.end, v.write) /\ op' = [op EXCEPT ![m] = o]
  BY <1>3, <1>4, <1>6, <1>9, <1>10 DEF copy_vma, Goto
<1>12. P \in SUBSET Addr /\ V \ {v} \in SUBSET Area
  BY <1>5, <1>9 DEF PagesOf
<1>13. /\ o \in OpFork /\ o.kind = "fork" /\ o.child = x /\ o.vmas = V \ {v} /\ o.pages = P
       /\ o.page = op[m].page
  BY <1>2, <1>3, <1>10, <1>12 DEF OpFork
<1>14. o \in Op /\ o # Unused /\ op[m] # Private
  BY <1>2, <1>13, SMT DEF Op, Unused, Private, Kind
<1>15. op' \in [MM -> Op] /\ op'[m] = o /\ \A n \in MM : n # m => op'[n] = op[n]
  BY <1>1, <1>11, <1>14, GotoOp
<1>16. Owns(m, x) /\ op[x] = Private /\ x # m
  BY <1>1, <1>2, <1>3, <1>14 DEF Owns, Owned
<1>17. op'[x] # Unused /\ \A n \in MM : op'[n] = Unused => op[n] = Unused
  <2>1. Private # Unused
    BY SMT DEF Private, Unused
  <2> QED BY <1>14, <1>15, <1>16, <2>1
<1>18. /\ vma' \in [MM -> SUBSET Area] /\ Areas'
       /\ \A n \in MM : n # x => vma'[n] = vma[n]
       /\ \E u \in vma'[x] : u \in Area /\ Fresh(u, x, v.begin, v.end)
  <2>1. AreaAdded(x, v.begin, v.end)
    BY <1>1, <1>2, <1>8, <1>11, <1>17, MmapDone
  <2> QED BY <2>1 DEF AreaAdded
<1>19. Kind(m)' = "fork"
  BY <1>13, <1>15 DEF Kind
<1>20. Calm(m) /\ \A y \in MM : Owns(m, y)' => Owns(m, y)
  BY <1>2, <1>3, <1>13, <1>15, <1>19 DEF Calm, ReadyKept, HoldingKept, Ready, Holding, Owns
<1>21. FaultInv(m)' /\ ExecInv(m)'
  BY <1>19 DEF FaultInv, ExecInv
<1>22. ForkInv(m)'
  <2>1. /\ op'[m].vmas = V \ {v} /\ op'[m].pages = P /\ op'[m].child = x
        /\ op'[m].page = op[m].page
    BY <1>13, <1>15
  <2>2. PICK u \in vma'[x] : u \in Area /\ Fresh(u, x, v.begin, v.end)
    BY <1>18
  <2>3. ASSUME NEW a \in P PROVE pte'[m][a] # None /\ pte'[x][a] = None /\ Covered(x, a)'
    <3>1. a \in PagesOf(v) /\ pte[m][a] # None /\ a \in Addr /\ a \in Nat
      BY <1>9, MmAssumption DEF PagesOf
    <3>2. a * PAGE_SIZE < v.end /\ v.begin < (a + 1) * PAGE_SIZE
      BY <3>1 DEF PagesOf, Overlap
    <3>3. u.begin <= v.begin /\ v.end <= u.end
      BY <2>2 DEF Fresh
    <3>4. a * PAGE_SIZE < u.end /\ u.begin < (a + 1) * PAGE_SIZE
      BY <1>8, <2>2, <3>1, <3>2, <3>3, SMT DEF Area, PAGE_SIZE
    <3>5. a \in PagesOf(u)
      BY <3>1, <3>4 DEF PagesOf, Overlap
    <3> QED BY <1>2, <2>2, <3>1, <3>5 DEF Covered, Fresh
  <2>4. \A w \in V \ {v} : w.begin <= w.end
    BY <1>1, <1>2, <1>4 DEF ForkInv
  <2>5. ASSUME NEW a \in Addr, pte[m][a] # None
        PROVE  pte[x][a] # None \/ a \in P \/ \E w \in V \ {v} : a \in PagesOf(w)
    <3>1. pte[x][a] # None \/ \E w \in V : a \in PagesOf(w)
      BY <1>1, <1>2, <1>3, <1>4, <2>5 DEF ForkInv
    <3>2. ASSUME NEW w \in V, a \in PagesOf(w) PROVE w # v \/ a \in P
      BY <1>9, <2>5, <3>2
    <3> QED BY <3>1, <3>2
  <2>6. op[m].page = None
    BY <1>1, <1>2 DEF ForkInv
  <2> QED BY <1>2, <2>1, <2>3, <2>4, <2>5, <2>6 DEF ForkInv
<1>23. BlankInv(m)'
  BY <1>1, <1>2, <1>3, <1>13, <1>15, <1>19 DEF BlankInv, Live, Zeros
<1> QED BY <1>2, <1>14, <1>15, <1>16, <1>18, <1>20, <1>21, <1>22, <1>23, AreaStep


-----------------------------------------------------------------------------
LEMMA SlabStep ==
  ASSUME IInv, ~raced, NEW p \in Page, UsedAsSlab(p)
  PROVE  IInv'
<1>1. /\ TypeOK /\ Owned /\ Areas /\ OpInv
      /\ Counted /\ ZeroInv /\ WriteInv /\ ReadyInv /\ SameContent /\ Blank
  BY DEF IInv, PageInv
<1>2. /\ p \in free /\ refcount' = [refcount EXCEPT ![p] = STALE]
      /\ UNCHANGED <<op, vma, pte, free, content, raced, val, base>>
  BY DEF UsedAsSlab
<1>3. STALE \in Nat /\ STALE \in Int /\ STALE >= 0
  BY MmAssumption, SMT
<1>4. /\ refcount' \in [Page -> Int] /\ refcount'[p] = STALE
      /\ \A q \in Page : q # p => refcount'[q] = refcount[q]
  BY <1>1, <1>2, <1>3 DEF TypeOK
<1>5. TypeOK'
  BY <1>1, <1>2, <1>4 DEF TypeOK
<1>6. Owned'
  BY <1>1, <1>2, OwnedSame
<1>7. Areas'
  BY <1>1, <1>2 DEF Areas, Covered
<1>8. OpInv'
  <2> SUFFICES ASSUME NEW m \in MM PROVE FaultInv(m)' /\ ForkInv(m)' /\ ExecInv(m)'
    BY DEF OpInv
  <2>1. FaultInv(m)'
    BY <1>1, <1>2 DEF OpInv, FaultInv, Kind, Covered, Holding, Faulting, Writable
  <2>2. ForkInv(m)'
    BY <1>1, <1>2 DEF OpInv, ForkInv, Kind, Covered, Mapping, Writable
  <2>3. ExecInv(m)'
    BY <1>1, <1>2 DEF OpInv, ExecInv, Kind, Covered, Loading
  <2> QED BY <2>1, <2>2, <2>3
<1>9. Counted'
  <2> SUFFICES ASSUME NEW q \in Page PROVE Count(q)'
    BY DEF Counted
  <2>1. Count(q)
    BY <1>1 DEF Counted
  <2>2. Maps(q)' = Maps(q) /\ Holders(q)' = Holders(q)
    BY <1>2 DEF Maps, Holders, Kind
  <2>3. CASE q = p
    BY <1>2, <1>3, <1>4, <2>1, <2>2, <2>3 DEF Count
  <2>4. CASE q # p
    BY <1>2, <1>4, <2>1, <2>2, <2>4, CountSame
  <2> QED BY <2>3, <2>4
<1>10. ZeroInv' /\ WriteInv' /\ SameContent'
  <2>1. WriteInv'
    BY <1>1, <1>2, WriteSame
  <2> QED BY <1>1, <1>2, <2>1 DEF ZeroInv, SameContent
<1>11. ReadyInv'
  BY <1>1, <1>2 DEF ReadyInv, Ready, Held, Holding, Kind, Sole, Mapping
<1>12. Blank'
  BY <1>1, <1>2 DEF Blank, BlankInv, Live, Zeros, Kind
<1> QED BY <1>5, <1>6, <1>7, <1>8, <1>9, <1>10, <1>11, <1>12 DEF IInv, PageInv

LEMMA UserWriteStep ==
  ASSUME IInv, ~raced, NEW m \in MM, NEW a \in Addr, NEW x \in Value, UserWrite(m, a, x)
  PROVE  IInv'
<1>1. /\ TypeOK /\ Owned /\ Areas /\ OpInv
      /\ Counted /\ ZeroInv /\ WriteInv /\ ReadyInv /\ SameContent /\ Blank
  BY DEF IInv, PageInv
<1>2. PICK q : q = pte[m][a].page
  OBVIOUS
<1>3. /\ op[m] = Running /\ Writable(m, a) /\ pte[m][a] # None
      /\ content' = [content EXCEPT ![q] = x] /\ val' = [val EXCEPT ![m][a] = x]
      /\ UNCHANGED <<op, vma, pte, refcount, free, raced, base>>
  BY <1>2 DEF UserWrite, Writable
<1>4. q \in Page /\ x \in Data
  <2>2. q \in Page
    BY <1>1, <1>2, <1>3, EntryType
  <2> QED BY <2>2 DEF Data
<1>5. Sole(m, a, q) /\ q # ZeroPage /\ Mapping(m, a, q)
  BY <1>1, <1>2, <1>3 DEF WriteInv, Mapping
<1>6. /\ content' \in [Page -> Data] /\ content'[q] = x
      /\ \A p \in Page : p # q => content'[p] = content[p]
  BY <1>1, <1>3, <1>4 DEF TypeOK
<1>7. /\ val' \in [MM -> [Addr -> Data]] /\ val'[m][a] = x
      /\ \A n \in MM : n # m => val'[n] = val[n]
      /\ \A b \in Addr : b # a => val'[m][b] = val[m][b]
  BY <1>1, <1>3, <1>4 DEF TypeOK
<1>8. TypeOK'
  BY <1>1, <1>3, <1>6, <1>7 DEF TypeOK
<1>9. Owned'
  BY <1>1, <1>3, OwnedSame
<1>10. Areas'
  BY <1>1, <1>3 DEF Areas, Covered
<1>11. Kind(m) = "running" /\ Kind(m)' = "running" /\ op[m] # Private
  BY <1>3, SMT DEF Kind, Running, Private
<1>12. Near(m, m) /\ Others(m, m)
  BY <1>3, <1>7 DEF Near, Others
<1>13. FaultInv(m)' /\ ForkInv(m)' /\ ExecInv(m)'
  BY <1>11 DEF FaultInv, ForkInv, ExecInv
<1>14. BlankInv(m)'
  <2>1. Zeros(m)
    BY <1>1, <1>11 DEF Blank, BlankInv, Live
  <2>2. Zeros(m)'
    BY <1>3, <1>7, <2>1 DEF Zeros
  <2> QED BY <1>11, <2>2 DEF BlankInv
<1>15. OpInv' /\ Blank'
  BY <1>11, <1>12, <1>13, <1>14, LocalStep
<1>16. Counted'
  BY <1>1, <1>3 DEF Counted, Count, Maps, Holders, Kind
<1>17. ZeroInv' /\ WriteInv'
  <2>1. ZeroPage \in Page
    BY MmAssumption
  <2>2. ZeroInv'
    BY <1>1, <1>3, <1>5, <1>6, <2>1 DEF ZeroInv
  <2>3. WriteInv'
    BY <1>1, <1>3, WriteSame
  <2> QED BY <2>2, <2>3
<1>18. ReadyInv'
  <2>1. \A n \in MM : ReadyKept(n)
    BY <1>3, CalmSame DEF Calm
  <2>2. ASSUME NEW n \in MM, Ready(n)' PROVE StaysReady(n, op[n].new)
    <3>1. Ready(n) /\ op[n] \in OpFault
      BY <1>1, <2>1, <2>2, OpKinds DEF ReadyKept, TypeOK, Ready
    <3>2. PICK p \in Page : p = op[n].new
      BY <3>1, SMT DEF OpFault
    <3>3. p \notin free /\ content[p] = val[n][op[n].addr] /\ Sole(n, op[n].addr, p)
      BY <1>1, <3>1, <3>2 DEF ReadyInv
    <3>4. n # m
      BY <1>11, <3>1 DEF Ready
    <3>5. p # q
      BY <1>5, <3>3, <3>4 DEF Sole
    <3>6. p \notin free' /\ content'[p] = val'[n][op[n].addr]
      BY <1>3, <1>6, <1>7, <3>3, <3>4, <3>5
    <3>7. StaysReady(n, p)
      BY <1>3, <3>6 DEF StaysReady, Mapping, Held, Holding, Kind
    <3> QED BY <3>2, <3>7
  <2> QED BY <1>1, <2>1, <2>2, ReadyStep
<1>19. SameContent'
  <2>0. pte' = pte
    BY <1>3
  <2> SUFFICES ASSUME NEW n \in MM, NEW b \in Addr, pte[n][b] # None
               PROVE  content'[pte[n][b].page] = val'[n][b]
    BY <2>0 DEF SameContent
  <2>1. PICK p : p = pte[n][b].page
    OBVIOUS
  <2>2. p \in Page /\ Mapping(n, b, p) /\ content[p] = val[n][b]
    <3>2. p \in Page
      BY <1>1, <2>1, EntryType
    <3> QED BY <1>1, <2>1, <3>2 DEF Mapping, SameContent
  <2>3. CASE p = q
    <3>1. n = m /\ b = a
      BY <1>5, <2>2, <2>3 DEF Sole
    <3> QED BY <1>2, <1>6, <1>7, <3>1
  <2>4. CASE p # q
    <3>1. n # m \/ b # a
      BY <1>2, <2>1, <2>4
    <3>2. content'[p] = content[p]
      BY <1>6, <2>2, <2>4
    <3>3. val'[n][b] = val[n][b]
      BY <1>7, <3>1
    <3> QED BY <2>1, <2>2, <3>2, <3>3
  <2> QED BY <2>3, <2>4
<1> QED BY <1>8, <1>9, <1>10, <1>15, <1>16, <1>17, <1>18, <1>19 DEF IInv, PageInv


(* What a write fault finds at the address it has faulted on.              *)
LEMMA FaultOld ==
  ASSUME IInv, ~raced, NEW m \in MM, Faulting(m), NEW f, f = op[m]
  PROVE  /\ f \in OpFault /\ f.addr \in Addr
         /\ f.old = None => pte[m][f.addr] = None /\ val[m][f.addr] = 0
         /\ f.old # None => /\ f.old \in Page /\ f.old \notin free
                            /\ Mapping(m, f.addr, f.old) /\ content[f.old] = val[m][f.addr]
<1>1. TypeOK /\ FaultInv(m) /\ BlankInv(m) /\ SameContent /\ Counted
  BY DEF IInv, PageInv, OpInv, Blank
<1>2. f \in OpFault /\ Kind(m) = "fault"
  BY <1>1, OpKinds DEF TypeOK, Faulting
<1>3. f.addr \in Addr
  BY <1>2, SMT DEF OpFault
<1>4. f.old = (IF pte[m][f.addr] = None THEN None ELSE pte[m][f.addr].page)
  BY <1>1, <1>2 DEF FaultInv
<1>6. pte[m][f.addr] # None => pte[m][f.addr].page \in Page
  BY <1>1, <1>3, EntryType
<1>7. f.old = None => pte[m][f.addr] = None
  BY <1>4, <1>6, MmAssumption
<1>8. pte[m][f.addr] = None => val[m][f.addr] = 0
  BY <1>1, <1>2, <1>3 DEF BlankInv, Live, Zeros
<1>9. ASSUME f.old # None
      PROVE  /\ f.old \in Page /\ f.old \notin free
             /\ Mapping(m, f.addr, f.old) /\ content[f.old] = val[m][f.addr]
  <2>1. pte[m][f.addr] # None /\ f.old = pte[m][f.addr].page
    BY <1>4, <1>9
  <2>2. f.old \in Page /\ Mapping(m, f.addr, f.old)
    BY <1>6, <2>1 DEF Mapping
  <2>3. <<m, f.addr>> \in Maps(f.old)
    BY <1>3, <2>2, MapsMember
  <2>4. f.old \notin free
    BY <1>1, <2>2, <2>3 DEF Counted, Count
  <2> QED BY <1>1, <1>3, <2>1, <2>2, <2>4 DEF SameContent
<1> QED BY <1>2, <1>3, <1>7, <1>8, <1>9

(* The page of a write fault: nobody else knows it.                        *)
NewPage(m, f, new) ==
  /\ new \in Page /\ new # ZeroPage /\ Sole(m, f.addr, new)
  /\ \A k \in MM : ~Held(k, new)
  /\ \A n \in MM : Ready(n) => op[n].new # new
  /\ \/ /\ new \in free /\ Maps(new) = {} /\ Holders(new) = {} /\ refcount[new] >= 0
     \/ /\ new = f.old /\ f.old # None /\ new \notin free

LEMMA HeldHolders ==
  ASSUME NEW p
  PROVE  /\ \A k \in MM : k \in Holders(p) <=> Held(k, p)
         /\ \A k \in MM : k \in Holders(p)' <=> Held(k, p)'
BY DEF Holders, Held, Holding

LEMMA FaultPageIsNew ==
  ASSUME FiniteSetFacts, IInv, ~raced, NEW m \in MM, At(m, "copy"), NEW f, f = op[m], NEW new \in FaultPage(f)
  PROVE  NewPage(m, f, new)
<1>1. TypeOK /\ Counted /\ ZeroInv /\ ReadyInv
  BY DEF IInv, PageInv
<1>2. Kind(m) = "fault" /\ op[m].stage = "copy" /\ Faulting(m) /\ ~Ready(m)
  BY DEF At, Faulting, Ready, Kind
<1>3. /\ f \in OpFault /\ f.addr \in Addr
      /\ f.old # None => f.old \in Page /\ f.old \notin free /\ Mapping(m, f.addr, f.old)
  BY <1>2, FaultOld
<1>4. CASE new \in free
  <2>1. new \in Page /\ new # ZeroPage
    BY <1>1, <1>4 DEF TypeOK, ZeroInv
  <2>2. Maps(new) = {} /\ Holders(new) = {} /\ refcount[new] >= 0
    BY <1>1, <1>4, <2>1 DEF Counted, Count
  <2>3. Sole(m, f.addr, new)
    BY <2>2, MapsMember DEF Sole
  <2>4. \A k \in MM : ~Held(k, new)
    BY <2>2, HeldHolders
  <2>5. \A n \in MM : Ready(n) => op[n].new # new
    BY <1>1, <1>4 DEF ReadyInv
  <2> QED BY <1>4, <2>1, <2>2, <2>3, <2>4, <2>5 DEF NewPage
<1>5. CASE new \notin free
  <2>1. f.old # None /\ refcount[f.old] = 1 /\ new = f.old
    BY <1>5 DEF FaultPage, copy_page
  <2>2. new \in Page /\ Mapping(m, f.addr, new) /\ Count(new) /\ base[new] \in Nat
    BY <1>1, <1>3, <2>1 DEF Counted, TypeOK
  <2>3. Sole(m, f.addr, new) /\ base[new] = 0 /\ Holders(new) = {}
    BY <1>3, <1>5, <2>1, <2>2, CountOne
  <2>4. new # ZeroPage
    <3>1. base[ZeroPage] # 0
      BY <1>1, SMT DEF ZeroInv
    <3> QED BY <2>3, <3>1
  <2>5. \A k \in MM : ~Held(k, new)
    BY <2>3, HeldHolders
  <2>6. ASSUME NEW n \in MM, Ready(n) PROVE op[n].new # new
    <3>1. Sole(n, op[n].addr, op[n].new) /\ n # m
      BY <1>1, <1>2, <2>6 DEF ReadyInv
    <3> QED BY <1>3, <2>2, <3>1 DEF Sole
  <2> QED BY <1>5, <2>1, <2>2, <2>3, <2>4, <2>5, <2>6 DEF NewPage
<1> QED BY <1>4, <1>5

LEMMA FaultCopyStep ==
  ASSUME FiniteSetFacts, IInv, ~raced, NEW m \in MM, FaultCopy(m)
  PROVE  IInv'
<1>1. /\ TypeOK /\ Owned /\ Areas /\ FaultInv(m) /\ BlankInv(m)
      /\ Counted /\ ZeroInv /\ WriteInv /\ ReadyInv /\ SameContent
  BY DEF IInv, PageInv, OpInv, Blank
<1>2. PICK f : f = op[m]
  OBVIOUS
<1>3. PICK new \in FaultPage(f) :
        /\ op' = [op EXCEPT ![m] = [f EXCEPT !.stage = "get", !.new = new]]
        /\ free' = free \ {new}
        /\ content' = [content EXCEPT ![new] = IF f.old = None THEN 0 ELSE content[f.old]]
        /\ refcount' = [refcount EXCEPT ![new] = IF f.old = None THEN 0 ELSE refcount[new]]
        /\ base' = [base EXCEPT ![new] = IF f.old = None THEN 0
                                         ELSE IF new = f.old THEN base[new] ELSE refcount[new]]
  BY <1>2 DEF FaultCopy, Goto
<1>4. UNCHANGED <<vma, pte, raced, val>> /\ At(m, "copy")
  BY DEF FaultCopy
<1>5. Kind(m) = "fault" /\ op[m].stage = "copy" /\ Faulting(m) /\ ~Ready(m) /\ ~Holding(m)
  BY <1>4 DEF At, Faulting, Ready, Kind, Holding
<1>6. NewPage(m, f, new)
  BY <1>2, <1>4, FaultPageIsNew
<1>7. new \in Page /\ f \in OpFault /\ f.addr \in Addr /\ f.write
  BY <1>1, <1>2, <1>5, <1>6, FaultOld DEF NewPage, FaultInv
<1>8. PICK c, r, b : /\ c = (IF f.old = None THEN 0 ELSE content[f.old])
                     /\ r = (IF f.old = None THEN 0 ELSE refcount[new])
                     /\ b = (IF f.old = None THEN 0 ELSE IF new = f.old THEN base[new] ELSE refcount[new])
  OBVIOUS
<1>9. c = val[m][f.addr] /\ c \in Data
  <2>1. c = val[m][f.addr]
    BY <1>2, <1>5, <1>8, FaultOld
  <2> QED BY <1>1, <1>7, <2>1 DEF TypeOK
<1>10. r \in Int /\ b \in Nat
  <2>1. refcount[new] \in Int /\ base[new] \in Nat
    BY <1>1, <1>7 DEF TypeOK
  <2>2. new = f.old \/ refcount[new] >= 0
    BY <1>6 DEF NewPage
  <2> QED BY <1>8, <2>1, <2>2, SMT
<1>11. PICK o : o = [f EXCEPT !.stage = "get", !.new = new]
  OBVIOUS
<1>12. /\ o \in OpFault /\ o.kind = "fault" /\ o.stage = "get" /\ o.addr = f.addr
       /\ o.write = f.write /\ o.old = f.old /\ o.new = new
  BY <1>7, <1>11 DEF OpFault
<1>13. o \in Op /\ o # Unused /\ op[m] # Private
  BY <1>5, <1>12, SMT DEF Op, Unused, Private, Kind
<1>14. op' \in [MM -> Op] /\ op'[m] = o /\ \A n \in MM : n # m => op'[n] = op[n]
  <2>1. op \in [MM -> Op] /\ op' = [op EXCEPT ![m] = o]
    BY <1>1, <1>3, <1>11 DEF TypeOK
  <2> QED BY <1>13, <2>1, GotoOp
<1>15. /\ content' \in [Page -> Data] /\ content'[new] = c
       /\ \A p \in Page : p # new => content'[p] = content[p]
  <2>1. content' = [content EXCEPT ![new] = c]
    BY <1>3, <1>8
  <2> QED BY <1>1, <1>7, <1>9, <2>1 DEF TypeOK
<1>16. /\ refcount' \in [Page -> Int] /\ refcount'[new] = r
       /\ \A p \in Page : p # new => refcount'[p] = refcount[p]
  <2>1. refcount' = [refcount EXCEPT ![new] = r]
    BY <1>3, <1>8
  <2> QED BY <1>1, <1>7, <1>10, <2>1 DEF TypeOK
<1>17. /\ base' \in [Page -> Nat] /\ base'[new] = b
       /\ \A p \in Page : p # new => base'[p] = base[p]
  <2>1. base' = [base EXCEPT ![new] = b]
    BY <1>3, <1>8
  <2> QED BY <1>1, <1>7, <1>10, <2>1 DEF TypeOK
<1>18. free' = free \ {new}
  BY <1>3
<1>19. TypeOK'
  BY <1>1, <1>4, <1>14, <1>15, <1>16, <1>17, <1>18 DEF TypeOK
<1>20. Kind(m)' = "fault" /\ ~Holding(m)' /\ Faulting(m)'
  BY <1>12, <1>14 DEF Kind, Holding, Faulting
<1>21. Owned'
  BY <1>1, <1>13, <1>14, <1>20, OwnedStep DEF Owns
<1>22. Areas'
  BY <1>1, <1>4, <1>13, <1>14, AreasKept
<1>23. OpInv' /\ Blank'
  <2>1. Near(m, m) /\ Others(m, m)
    BY <1>4, <1>14 DEF Near, Others
  <2>2. FaultInv(m)'
    BY <1>1, <1>2, <1>4, <1>5, <1>7, <1>12, <1>14, <1>20 DEF FaultInv, Covered, Writable
  <2>3. ForkInv(m)' /\ ExecInv(m)'
    BY <1>20 DEF ForkInv, ExecInv
  <2>4. BlankInv(m)'
    BY <1>1, <1>4, <1>5, <1>20 DEF BlankInv, Live, Zeros
  <2> QED BY <1>13, <2>1, <2>2, <2>3, <2>4, LocalStep
<1>24. \A n \in MM : HoldingKept(n)
  BY <1>5, <1>14, <1>20, CalmSame DEF HoldingKept, Calm
<1>25. Counted'
  <2> SUFFICES ASSUME NEW p \in Page PROVE Count(p)'
    BY DEF Counted
  <2>1. Maps(p)' = Maps(p) /\ Holders(p)' = Holders(p) /\ Count(p)
    BY <1>1, <1>4, <1>24, HoldersSame DEF Maps, Counted
  <2>2. CASE p # new
    BY <1>16, <1>17, <1>18, <2>1, <2>2, CountSame
  <2>3. CASE p = new /\ new \notin free
    <3>1. refcount'[p] = refcount[p] /\ base'[p] = base[p] /\ (p \in free' <=> p \in free)
      BY <1>6, <1>8, <1>16, <1>17, <1>18, <2>3 DEF NewPage
    <3> QED BY <2>1, <3>1, CountSame
  <2>4. CASE p = new /\ new \in free
    <3>1. p \notin free' /\ Maps(p)' = {} /\ Holders(p)' = {}
      BY <1>6, <1>18, <2>1, <2>4 DEF NewPage
    <3>2. f.old # new
      BY <1>2, <1>5, <2>4, FaultOld, MmAssumption
    <3>3. refcount'[p] = base'[p] /\ base'[p] \in Nat
      BY <1>8, <1>10, <1>16, <1>17, <2>4, <3>2
    <3>4. refcount'[p] = base'[p] + 0 + 0
      BY <3>3, SMT
    <3> QED BY <3>1, <3>4, CardEmpty DEF Count
  <2> QED BY <2>2, <2>3, <2>4
<1>26. ZeroInv'
  <2>1. ZeroPage \in Page /\ ZeroPage # new
    BY <1>6, MmAssumption DEF NewPage
  <2> QED BY <1>1, <1>15, <1>17, <1>18, <2>1 DEF ZeroInv
<1>27. WriteInv'
  BY <1>1, <1>4, WriteSame
<1>28. ReadyInv'
  <2>1. ASSUME NEW n \in MM, n # m, Ready(n)'
        PROVE  /\ Ready(n) /\ op'[n] = op[n] /\ op[n].new # new /\ op[n].new \in Page
    <3>1. op'[n] = op[n] /\ Ready(n)
      BY <1>14, <2>1, CalmSame DEF Calm, ReadyKept
    <3>2. op[n] \in OpFault
      BY <1>1, <3>1, OpKinds DEF TypeOK, Ready
    <3> QED BY <1>6, <3>1, <3>2 DEF NewPage, OpFault
  <2>2. ASSUME NEW n \in MM, Ready(n)'
        PROVE  /\ op'[n].new \notin free' /\ op'[n].new # ZeroPage
               /\ Sole(n, op[n].addr, op[n].new)'
               /\ \A k \in MM : ~Held(k, op[n].new)'
               /\ content'[op'[n].new] = val'[n][op'[n].addr]
    <3>1. PICK p, a : p = op'[n].new /\ a = op'[n].addr
      OBVIOUS
    <3>2. /\ p \notin free' /\ p # ZeroPage /\ Sole(n, a, p) /\ content'[p] = val[n][a]
          /\ \A k \in MM : ~Held(k, p)
      <4>1. CASE n = m
        BY <1>6, <1>9, <1>12, <1>14, <1>15, <1>18, <3>1, <4>1 DEF NewPage
      <4>2. CASE n # m
        <5>1. Ready(n) /\ p = op[n].new /\ a = op[n].addr /\ p # new /\ p \in Page
          BY <2>1, <2>2, <3>1, <4>2
        <5>2. /\ p \notin free /\ p # ZeroPage /\ Sole(n, a, p) /\ content[p] = val[n][a]
              /\ \A k \in MM : ~Held(k, p)
          BY <1>1, <5>1 DEF ReadyInv
        <5> QED BY <1>15, <1>18, <5>1, <5>2
      <4> QED BY <4>1, <4>2
    <3>3. Sole(n, op[n].addr, op[n].new)'
      BY <1>4, <3>1, <3>2 DEF Sole, Mapping
    <3>4. \A k \in MM : ~Held(k, op[n].new)'
      BY <1>24, <3>1, <3>2 DEF Held, HoldingKept
    <3> QED BY <1>4, <3>1, <3>2, <3>3, <3>4
  <2>3. ASSUME NEW k \in MM, NEW n \in MM, Ready(k)', Ready(n)', op'[k].new = op'[n].new
        PROVE  k = n
    <3>1. op'[m].new = new
      BY <1>12, <1>14
    <3>2. CASE k # m /\ n # m
      BY <1>1, <2>1, <2>3, <3>2 DEF ReadyInv
    <3> QED BY <2>1, <2>3, <3>1, <3>2
  <2> QED BY <2>2, <2>3 DEF ReadyInv
<1>29. SameContent'
  <2> SUFFICES ASSUME NEW n \in MM, NEW a \in Addr, pte[n][a] # None
               PROVE  content'[pte[n][a].page] = val[n][a]
    BY <1>4 DEF SameContent
  <2>1. PICK p \in Page : p = pte[n][a].page
    BY <1>1, EntryType
  <2>2. content[p] = val[n][a] /\ Mapping(n, a, p)
    BY <1>1, <2>1 DEF SameContent, Mapping
  <2>3. CASE p = new
    <3>1. n = m /\ a = f.addr
      BY <1>6, <2>2, <2>3 DEF NewPage, Sole
    <3> QED BY <1>9, <1>15, <2>1, <2>3, <3>1
  <2>4. CASE p # new
    BY <1>15, <2>1, <2>2, <2>4
  <2> QED BY <2>3, <2>4
<1> QED BY <1>19, <1>21, <1>22, <1>23, <1>25, <1>26, <1>27, <1>28, <1>29 DEF IInv, PageInv


(* put_page of a page that the fault of m holds.                           *)
LEMMA HolderLeaves ==
  ASSUME FiniteSetFacts, NEW p \in Page, NEW m \in MM, Count(p), base[p] \in Nat, refcount[p] \in Int,
         base'[p] = base[p], refcount'[p] = refcount[p] - 1,
         p \in free' <=> (p \in free \/ refcount[p] = 1),
         Held(m, p), Maps(p)' = Maps(p), Holders(p)' = Holders(p) \ {m}
  PROVE  p \notin free /\ Count(p)' /\ (refcount[p] = 1 => base[p] = 0 /\ Maps(p) = {})
<1>1. m \in Holders(p) /\ p \notin free
  BY HeldHolders DEF Count
<1>2. PICK a, h, k : /\ a = Cardinality(Maps(p)) /\ h = Cardinality(Holders(p))
                     /\ k = Cardinality(Holders(p)')
  OBVIOUS
<1>3. a \in Nat /\ h \in Nat /\ k \in Nat
  BY <1>2, PagesFinite
<1>4. k = h - 1
  BY <1>1, <1>2, PagesFinite, CardRemove
<1>5. refcount[p] = base[p] + a + h
  BY <1>1, <1>2 DEF Count
<1>6. refcount'[p] = base'[p] + a + k
  BY <1>3, <1>4, <1>5, SMT
<1>7. CASE refcount[p] # 1
  BY <1>1, <1>2, <1>6, <1>7 DEF Count
<1>8. CASE refcount[p] = 1
  <2>1. a = 0 /\ k = 0 /\ base[p] = 0 /\ refcount'[p] >= 0
    BY <1>3, <1>4, <1>5, <1>8, SMT
  <2>2. Maps(p) = {} /\ Holders(p)' = {}
    BY <1>2, <2>1, PagesFinite, CardEmpty
  <2>3. p \in free'
    BY <1>8
  <2> QED BY <1>1, <2>1, <2>2, <2>3 DEF Count
<1> QED BY <1>7, <1>8

LEMMA FaultDropStep ==
  ASSUME FiniteSetFacts, IInv, ~raced, NEW m \in MM, FaultDrop(m)
  PROVE  IInv'
<1>1. /\ TypeOK /\ Owned /\ Areas /\ FaultInv(m) /\ BlankInv(m)
      /\ Counted /\ ZeroInv /\ WriteInv /\ ReadyInv /\ SameContent
  BY DEF IInv, PageInv, OpInv, Blank
<1>2. PICK p, s : p = op[m].old /\ s = op[m].seen
  OBVIOUS
<1>3. /\ refcount' = [refcount EXCEPT ![p] = s - 1]
      /\ free' = (IF s = 1 THEN free \cup {p} ELSE free)
      /\ raced' = (refcount[p] # s)
      /\ op' = [op EXCEPT ![m] = Running]
      /\ UNCHANGED <<vma, pte, content, val, base>>
  BY <1>2 DEF FaultDrop, Put, Goto
<1>4. Kind(m) = "fault" /\ Holding(m) /\ ~Ready(m) /\ Held(m, p)
  BY <1>2 DEF FaultDrop, At, Kind, Holding, Ready, Held
<1>5. p \in Page /\ op[m] \in OpFault /\ s \in Int
  <2>1. op[m] \in OpFault
    BY <1>1, <1>4, OpKinds DEF TypeOK
  <2>2. s \in Int
    BY <1>2, <2>1, SMT DEF OpFault
  <2> QED BY <1>1, <1>2, <1>4, <2>1, <2>2 DEF FaultInv
<1>6. op' \in [MM -> Op] /\ op'[m] = Running /\ \A n \in MM : n # m => op'[n] = op[n]
  <2>1. Running \in Op
    BY SMT DEF Op, OpPlain, Running
  <2> QED BY <1>1, <1>3, <2>1, GotoOp DEF TypeOK
<1>7. /\ op'[m] # Unused /\ op[m] # Private /\ Kind(m)' = "running"
  BY <1>4, <1>6, SMT DEF Running, Unused, Private, Kind
<1>8. /\ refcount' \in [Page -> Int] /\ refcount'[p] = s - 1
      /\ \A q \in Page : q # p => refcount'[q] = refcount[q]
  <2>1. PICK r : r = s - 1
    OBVIOUS
  <2>2. r \in Int
    BY <1>5, <2>1, SMT
  <2>3. refcount' = [refcount EXCEPT ![p] = r]
    BY <1>3, <2>1
  <2> QED BY <1>1, <1>5, <2>1, <2>2, <2>3 DEF TypeOK
<1>9. free' \in SUBSET Page /\ raced' \in BOOLEAN
  BY <1>1, <1>3, <1>5 DEF TypeOK
<1>10. TypeOK'
  BY <1>1, <1>3, <1>6, <1>8, <1>9 DEF TypeOK
<1>11. Owned'
  BY <1>1, <1>6, <1>7, OwnedStep DEF Owns
<1>12. Areas'
  BY <1>1, <1>3, <1>6, <1>7, AreasKept
<1>13. OpInv' /\ Blank'
  <2>1. Near(m, m) /\ Others(m, m)
    BY <1>3, <1>6 DEF Near, Others
  <2>2. FaultInv(m)' /\ ForkInv(m)' /\ ExecInv(m)'
    BY <1>7 DEF FaultInv, ForkInv, ExecInv
  <2>3. BlankInv(m)'
    BY <1>1, <1>3, <1>4, <1>7 DEF BlankInv, Live, Zeros
  <2> QED BY <1>7, <2>1, <2>2, <2>3, LocalStep
<1>14. ASSUME ~raced' PROVE PageInv'
  <2>1. refcount[p] = s
    BY <1>3, <1>14
  <2>2. ~Ready(m)' /\ ~Holding(m)'
    BY <1>7 DEF Ready, Holding
  <2>3. ASSUME NEW q PROVE Maps(q)' = Maps(q) /\ Holders(q)' = Holders(q) \ {m}
    <3>1. \A k \in MM : k # m => (Held(k, q)' <=> Held(k, q))
      BY <1>6, CalmSame DEF Calm, HoldingKept, Held
    <3>2. ~Held(m, q)'
      BY <2>2 DEF Held
    <3>3. Holders(q) \subseteq MM /\ Holders(q)' \subseteq MM
      BY DEF Holders
    <3>4. \A k : k \in Holders(q)' <=> k \in Holders(q) \ {m}
      BY <3>1, <3>2, <3>3, HeldHolders
    <3> QED BY <1>3, <3>4 DEF Maps
  <2>4. /\ p \notin free /\ Count(p)'
        /\ refcount[p] = 1 => base[p] = 0 /\ Maps(p) = {}
    <3>1. Count(p) /\ base[p] \in Nat /\ refcount[p] \in Int
      BY <1>1, <1>5 DEF Counted, TypeOK
    <3>2. p \in free' <=> (p \in free \/ refcount[p] = 1)
      BY <1>3, <2>1
    <3> QED BY <1>3, <1>4, <1>5, <1>8, <2>1, <2>3, <3>1, <3>2, HolderLeaves
  <2>5. \A q \in Page : q # p => (q \in free' <=> q \in free)
    BY <1>3
  <2>6. Counted'
    <3> SUFFICES ASSUME NEW q \in Page PROVE Count(q)'
      BY DEF Counted
    <3>1. CASE q = p
      BY <2>4, <3>1
    <3>2. CASE q # p
      <4>1. m \notin Holders(q)
        BY <1>4, <3>2, HeldHolders DEF Held
      <4>2. Holders(q)' = Holders(q) /\ Maps(q)' = Maps(q) /\ Count(q) /\ base'[q] = base[q]
        BY <1>1, <1>3, <2>3, <4>1 DEF Counted
      <4> QED BY <1>8, <2>5, <3>2, <4>2, CountSame
    <3> QED BY <3>1, <3>2
  <2>7. ZeroInv'
    <3>1. p = ZeroPage => s # 1
      BY <1>1, <2>1, <2>4, SMT DEF ZeroInv
    <3> QED BY <1>1, <1>3, <3>1 DEF ZeroInv
  <2>8. WriteInv'
    BY <1>1, <1>3, WriteSame
  <2>9. ReadyInv'
    <3>1. \A n \in MM : ReadyKept(n)
      BY <1>6, <2>2, CalmSame DEF Calm, ReadyKept
    <3>2. ASSUME NEW n \in MM, Ready(n)' PROVE StaysReady(n, op[n].new)
      <4>1. Ready(n)
        BY <3>1, <3>2 DEF ReadyKept
      <4>2. PICK q : q = op[n].new
        OBVIOUS
      <4>3. q \notin free /\ content[q] = val[n][op[n].addr] /\ \A k \in MM : ~Held(k, q)
        BY <1>1, <4>1, <4>2 DEF ReadyInv
      <4>4. q # p /\ q \notin free'
        BY <1>3, <1>4, <4>3
      <4>5. \A k \in MM : Held(k, q)' => Held(k, q)
        BY <1>6, <2>2, CalmSame DEF Calm, HoldingKept, Held
      <4>6. StaysReady(n, q)
        BY <1>3, <4>3, <4>4, <4>5 DEF StaysReady, Mapping
      <4> QED BY <4>2, <4>6
    <3> QED BY <1>1, <3>1, <3>2, ReadyStep
  <2>10. SameContent'
    BY <1>1, <1>3 DEF SameContent
  <2> QED BY <1>13, <2>6, <2>7, <2>8, <2>9, <2>10 DEF PageInv
<1> QED BY <1>10, <1>11, <1>12, <1>13, <1>14 DEF IInv

(* The page a fault maps: content and count are in order, and if the entry *)
(* is writable nobody else maps it.                                        *)
Mappable(m, f) ==
  /\ f.new \in Page /\ f.new \notin free /\ content[f.new] = val[m][f.addr]
  /\ f.old # None => Mapping(m, f.addr, f.old)
  /\ f.old = None => pte[m][f.addr] = None
  /\ \A n \in MM : n # m /\ Ready(n) => op[n].new # f.new
  /\ f.write => f.new # ZeroPage /\ Sole(m, f.addr, f.new)
  /\ ~f.write => f.new = ZeroPage

LEMMA FaultMappable ==
  ASSUME IInv, ~raced, NEW m \in MM, At(m, "map"), NEW f, f = op[m]
  PROVE  f \in OpFault /\ f.addr \in Addr /\ Faulting(m) /\ Mappable(m, f)
<1>1. TypeOK /\ FaultInv(m) /\ ZeroInv /\ ReadyInv
  BY DEF IInv, PageInv, OpInv
<1>2. Kind(m) = "fault" /\ f.stage = "map" /\ Faulting(m)
  BY DEF At, Kind, Faulting
<1>3. /\ f \in OpFault /\ f.addr \in Addr
      /\ f.old = None => pte[m][f.addr] = None /\ val[m][f.addr] = 0
      /\ f.old # None => f.old \in Page /\ Mapping(m, f.addr, f.old)
  BY <1>2, FaultOld
<1>4. f.new \in Page
  BY <1>3, SMT DEF OpFault
<1>5. CASE f.write
  <2>1. Ready(m)
    BY <1>2, <1>5 DEF Ready
  <2>2. /\ f.new \notin free /\ f.new # ZeroPage /\ Sole(m, f.addr, f.new)
        /\ content[f.new] = val[m][f.addr]
        /\ \A n \in MM : n # m /\ Ready(n) => op[n].new # f.new
    BY <1>1, <2>1 DEF ReadyInv
  <2> QED BY <1>2, <1>3, <1>4, <1>5, <2>2 DEF Mappable
<1>6. CASE ~f.write
  <2>1. f.old = None /\ f.new = ZeroPage
    BY <1>1, <1>2, <1>6 DEF FaultInv
  <2>2. f.new \notin free /\ content[f.new] = 0
    BY <1>1, <2>1 DEF ZeroInv
  <2>3. \A n \in MM : n # m /\ Ready(n) => op[n].new # f.new
    BY <1>1, <2>1 DEF ReadyInv
  <2> QED BY <1>2, <1>3, <1>4, <1>6, <2>1, <2>2, <2>3 DEF Mappable
<1> QED BY <1>5, <1>6

(* How the counts of the pages follow their mappings and holders.          *)
LEMMA OneMore ==
  ASSUME FiniteSetFacts, NEW q \in Page, Count(q), q \notin free, q \notin free', base[q] \in Nat,
         base'[q] = base[q], refcount'[q] = refcount[q] + 1,
         NEW z, \/ Maps(q)' = Maps(q) \cup {z} /\ z \notin Maps(q) /\ Holders(q)' = Holders(q)
                \/ Holders(q)' = Holders(q) \cup {z} /\ z \notin Holders(q) /\ Maps(q)' = Maps(q)
  PROVE  Count(q)'
<1>1. PICK a, h, b, k : /\ a = Cardinality(Maps(q)) /\ h = Cardinality(Holders(q))
                        /\ b = Cardinality(Maps(q)') /\ k = Cardinality(Holders(q)')
  OBVIOUS
<1>2. a \in Nat /\ h \in Nat /\ b \in Nat /\ k \in Nat
  BY <1>1, PagesFinite
<1>3. (b = a + 1 /\ k = h) \/ (b = a /\ k = h + 1)
  <2>1. IsFiniteSet(Maps(q)) /\ IsFiniteSet(Holders(q))
    BY PagesFinite
  <2> QED BY <1>1, <2>1, CardAdd
<1>4. refcount[q] = base[q] + a + h
  BY <1>1 DEF Count
<1>5. refcount'[q] = base'[q] + b + k
  BY <1>2, <1>3, <1>4, SMT
<1> QED BY <1>1, <1>5 DEF Count

LEMMA TakesOver ==
  ASSUME FiniteSetFacts, NEW q \in Page, Count(q), base[q] \in Nat,
         base'[q] = base[q], refcount'[q] = refcount[q], q \in free' <=> q \in free,
         NEW y, NEW z, z \in Maps(q), Maps(q)' = Maps(q) \ {z},
         y \notin Holders(q), Holders(q)' = Holders(q) \cup {y}
  PROVE  Count(q)'
<1>1. PICK a, h, b, k : /\ a = Cardinality(Maps(q)) /\ h = Cardinality(Holders(q))
                        /\ b = Cardinality(Maps(q)') /\ k = Cardinality(Holders(q)')
  OBVIOUS
<1>2. a \in Nat /\ h \in Nat /\ b \in Nat /\ k \in Nat
  BY <1>1, PagesFinite
<1>3. b = a - 1 /\ k = h + 1
  <2>0. IsFiniteSet(Maps(q)) /\ IsFiniteSet(Holders(q))
    BY PagesFinite
  <2>1. b = a - 1
    BY <1>1, <2>0, CardRemove
  <2>2. k = h + 1
    BY <1>1, <2>0, CardAdd
  <2> QED BY <2>1, <2>2
<1>4. q \notin free /\ refcount[q] = base[q] + a + h
  BY <1>1 DEF Count
<1>5. refcount'[q] = base'[q] + b + k
  BY <1>2, <1>3, <1>4, SMT
<1> QED BY <1>1, <1>4, <1>5 DEF Count

(* An entry of m is set; no other changes.                                 *)
SetEntry(m, a, p) ==
  /\ pte'[m][a] # None /\ pte'[m][a].page = p
  /\ \A n \in MM, b \in Addr : n # m \/ b # a => pte'[n][b] = pte[n][b]

LEMMA SetMapping ==
  ASSUME NEW m \in MM, NEW a \in Addr, NEW p, SetEntry(m, a, p),
         NEW q, NEW n \in MM, NEW b \in Addr
  PROVE  /\ Mapping(n, b, q)' => (n = m /\ b = a /\ q = p) \/ Mapping(n, b, q)
         /\ n # m \/ b # a => (Mapping(n, b, q)' <=> Mapping(n, b, q))
         /\ n = m /\ b = a => (Mapping(n, b, q)' <=> q = p)
BY DEF Mapping, SetEntry

LEMMA SetMaps ==
  ASSUME NEW m \in MM, NEW a \in Addr, NEW p, SetEntry(m, a, p), NEW q
  PROVE  Maps(q)' = IF q = p THEN Maps(q) \cup {<<m, a>>} ELSE Maps(q) \ {<<m, a>>}
<1>1. ASSUME NEW z PROVE z \in Maps(q)' <=> z \in (IF q = p THEN Maps(q) \cup {<<m, a>>} ELSE Maps(q) \ {<<m, a>>})
  <2>1. CASE \E n \in MM, b \in Addr : z = <<n, b>>
    <3>1. PICK n \in MM, b \in Addr : z = <<n, b>>
      BY <2>1
    <3>2. (z \in Maps(q)' <=> Mapping(n, b, q)') /\ (z \in Maps(q) <=> Mapping(n, b, q))
      BY <3>1, MapsMember
    <3>3. z = <<m, a>> <=> n = m /\ b = a
      BY <3>1
    <3>4. /\ n # m \/ b # a => (Mapping(n, b, q)' <=> Mapping(n, b, q))
          /\ n = m /\ b = a => (Mapping(n, b, q)' <=> q = p)
      BY SetMapping, SMT
    <3> QED BY <3>2, <3>3, <3>4
  <2>2. CASE ~\E n \in MM, b \in Addr : z = <<n, b>>
    BY <2>2, MapsPairs
  <2> QED BY <2>1, <2>2
<1> QED BY <1>1

LEMMA WriteSet ==
  ASSUME WriteInv, NEW m \in MM, NEW a \in Addr, NEW p \in Page, SetEntry(m, a, p),
         pte'[m][a].write => p # ZeroPage /\ Sole(m, a, p),
         \A n \in MM, b \in Addr : Mapping(n, b, p) /\ (n # m \/ b # a) => ~Writable(n, b)
  PROVE  WriteInv'
<1> SUFFICES ASSUME NEW n \in MM, NEW b \in Addr, Writable(n, b)'
             PROVE  Sole(n, b, pte[n][b].page)' /\ pte'[n][b].page # ZeroPage
  BY DEF WriteInv
<1>1. CASE n = m /\ b = a
  <2>1. pte'[n][b].page = p /\ pte'[n][b].write
    BY <1>1 DEF SetEntry, Writable
  <2>2. ASSUME NEW k \in MM, NEW c \in Addr, Mapping(k, c, p)' PROVE k = n /\ c = b
    <3>1. (k = m /\ c = a) \/ Mapping(k, c, p)
      BY <2>2, SetMapping, SMT
    <3> QED BY <1>1, <2>1, <3>1 DEF Sole
  <2>3. Sole(n, b, p)'
    BY <2>2 DEF Sole
  <2> QED BY <1>1, <2>1, <2>3
<1>2. CASE n # m \/ b # a
  <2>1. pte'[n][b] = pte[n][b]
    BY <1>2 DEF SetEntry
  <2>2. Writable(n, b)
    BY <2>1 DEF Writable
  <2>3. PICK q : q = pte[n][b].page
    OBVIOUS
  <2>4. Sole(n, b, q) /\ q # ZeroPage /\ Mapping(n, b, q)
    BY <2>2, <2>3 DEF WriteInv, Mapping, Writable
  <2>5. q # p
    BY <1>2, <2>2, <2>4
  <2>6. ASSUME NEW k \in MM, NEW c \in Addr, Mapping(k, c, q)' PROVE k = n /\ c = b
    <3>1. Mapping(k, c, q)
      BY <2>5, <2>6, SetMapping, SMT
    <3> QED BY <2>4, <3>1 DEF Sole
  <2> QED BY <2>1, <2>3, <2>4, <2>6 DEF Sole, Mapping
<1> QED BY <1>1, <1>2

LEMMA ContentSet ==
  ASSUME SameContent, TypeOK, NEW m \in MM, NEW a \in Addr, NEW p \in Page,
         SetEntry(m, a, p), content'[p] = val'[m][a],
         \A n \in MM, b \in Addr : n # m \/ b # a => val'[n][b] = val[n][b],
         \A q \in Page : content'[q] = content[q] \/ Maps(q) = {}
  PROVE  SameContent'
<1> SUFFICES ASSUME NEW n \in MM, NEW b \in Addr, pte'[n][b] # None
             PROVE  content'[pte'[n][b].page] = val'[n][b]
  BY DEF SameContent
<1>1. CASE n = m /\ b = a
  BY <1>1 DEF SetEntry
<1>2. CASE n # m \/ b # a
  <2>1. pte'[n][b] = pte[n][b] /\ val'[n][b] = val[n][b]
    BY <1>2 DEF SetEntry
  <2>2. PICK q : q = pte[n][b].page
    OBVIOUS
  <2>3. q \in Page
    BY <2>1, <2>2, EntryType
  <2>4. Mapping(n, b, q) /\ content[q] = val[n][b]
    BY <2>1, <2>2 DEF Mapping, SameContent
  <2>5. content'[q] = content[q]
    BY <2>3, <2>4, MapsMember
  <2> QED BY <2>1, <2>2, <2>4, <2>5
<1> QED BY <1>1, <1>2

(* The areas when an entry that lies in one is set.                        *)
LEMMA AreasSet ==
  ASSUME Areas, vma' = vma, NEW m \in MM, NEW a \in Addr, NEW p, SetEntry(m, a, p),
         Covered(m, a), \A x \in MM : op'[x] = Unused => op[x] = Unused
  PROVE  Areas'
<1> SUFFICES ASSUME NEW x \in MM
             PROVE  /\ Tidy(vma[x]) /\ (op'[x] = Unused => vma[x] = {})
                    /\ \A b \in Addr : pte'[x][b] # None => Covered(x, b)
  BY DEF Areas, Covered, Tidy
<1>1. \A b \in Addr : pte'[x][b] # None => Covered(x, b)
  BY DEF SetEntry, Areas
<1> QED BY <1>1 DEF Areas


LEMMA FaultMapStep ==
  ASSUME FiniteSetFacts, IInv, ~raced, NEW m \in MM, FaultMap(m)
  PROVE  IInv'
<1>1. /\ TypeOK /\ Owned /\ Areas /\ FaultInv(m) /\ BlankInv(m)
      /\ Counted /\ ZeroInv /\ WriteInv /\ ReadyInv /\ SameContent
  BY DEF IInv, PageInv, OpInv, Blank
<1>2. PICK f : f = op[m]
  OBVIOUS
<1>3. f \in OpFault /\ f.addr \in Addr /\ Faulting(m) /\ Mappable(m, f)
  BY <1>2, FaultMappable DEF FaultMap
<1>4. PICK a, p, e, o : /\ a = f.addr /\ p = f.new /\ e = [page |-> p, write |-> f.write]
                        /\ o = (IF f.old = None THEN Running ELSE [f EXCEPT !.stage = "put"])
  OBVIOUS
<1>5. /\ refcount' = [refcount EXCEPT ![p] = f.seen + 1]
      /\ raced' = (refcount[p] # f.seen)
      /\ pte' = [pte EXCEPT ![m][a] = e]
      /\ op' = [op EXCEPT ![m] = o]
      /\ UNCHANGED <<vma, free, content, val, base>>
  BY <1>2, <1>4 DEF FaultMap, Goto
<1>6. /\ a \in Addr /\ p \in Page /\ f.seen \in Int /\ f.write \in BOOLEAN
      /\ f.old \in Page \cup {None}
  BY <1>3, <1>4, SMT DEF OpFault
<1>7. e \in Entry /\ e # None /\ e.page = p /\ e.write = f.write
  <2>1. e \in Entry
    BY <1>4, <1>6 DEF Entry
  <2> QED BY <1>4, <2>1, MmAssumption DEF Entry
<1>8. /\ o \in Op /\ o # Unused /\ o.kind \in {"running", "fault"}
      /\ f.old = None => o = Running /\ o.kind = "running"
      /\ f.old # None => o.kind = "fault" /\ o.stage = "put" /\ o.addr = a /\ o.old = f.old
  <2>1. CASE f.old = None
    BY <1>4, <2>1, SMT DEF Op, OpPlain, Running, Unused
  <2>2. CASE f.old # None
    <3>1. o = [f EXCEPT !.stage = "put"]
      BY <1>4, <2>2
    <3>2. o \in OpFault /\ o.kind = "fault" /\ o.stage = "put" /\ o.addr = a /\ o.old = f.old
      BY <1>3, <1>4, <3>1 DEF OpFault
    <3>3. o # Unused /\ o \in Op
      BY <3>2, SMT DEF Op, Unused
    <3> QED BY <2>2, <3>2, <3>3
  <2> QED BY <2>1, <2>2
<1>9. op' \in [MM -> Op] /\ op'[m] = o /\ \A n \in MM : n # m => op'[n] = op[n]
  BY <1>1, <1>5, <1>8, GotoOp DEF TypeOK
<1>10. /\ refcount' \in [Page -> Int] /\ refcount'[p] = f.seen + 1
       /\ \A q \in Page : q # p => refcount'[q] = refcount[q]
  <2>1. PICK r : r = f.seen + 1
    OBVIOUS
  <2>2. r \in Int
    BY <1>6, <2>1, SMT
  <2>3. refcount' = [refcount EXCEPT ![p] = r]
    BY <1>5, <2>1
  <2> QED BY <1>1, <1>6, <2>1, <2>2, <2>3 DEF TypeOK
<1>11. /\ pte' \in [MM -> [Addr -> Entry \cup {None}]] /\ SetEntry(m, a, p) /\ pte'[m][a] = e
       /\ \A n \in MM : n # m => pte'[n] = pte[n]
  BY <1>1, <1>5, <1>6, <1>7 DEF TypeOK, SetEntry
<1>12. TypeOK'
  BY <1>1, <1>5, <1>9, <1>10, <1>11 DEF TypeOK
<1>13. /\ op[m] # Private /\ Kind(m) = "fault" /\ ~Holding(m)
       /\ Kind(m)' \in {"running", "fault"} /\ ~Ready(m)' /\ ~Faulting(m)'
       /\ Holding(m)' => f.old # None /\ op'[m].old = f.old
       /\ f.old # None => Holding(m)' /\ op'[m].addr = a /\ op'[m].stage = "put"
  <2>1. Kind(m) = "fault" /\ ~Holding(m)
    BY <1>3 DEF Faulting, Holding
  <2>2. op[m] # Private
    BY <2>1, SMT DEF Kind, Private
  <2>3. CASE f.old = None
    BY <1>8, <1>9, <2>1, <2>2, <2>3 DEF Kind, Ready, Faulting, Holding
  <2>4. CASE f.old # None
    BY <1>8, <1>9, <2>1, <2>2, <2>4 DEF Kind, Ready, Faulting, Holding
  <2> QED BY <2>3, <2>4
<1>14. Owned'
  BY <1>1, <1>9, <1>13, OwnedStep DEF Owns
<1>15. Covered(m, a)
  BY <1>1, <1>2, <1>4, <1>13 DEF FaultInv
<1>16. Areas'
  BY <1>1, <1>5, <1>6, <1>8, <1>9, <1>11, <1>15, AreasSet
<1>17. OpInv' /\ Blank'
  <2>1. Near(m, m) /\ Others(m, m)
    BY <1>5, <1>9, <1>11 DEF Near, Others
  <2>2. FaultInv(m)'
    <3>1. Kind(m)' = "fault" => Holding(m)' /\ f.old # None
      BY <1>8, <1>9, <1>13 DEF Kind
    <3>2. Kind(m)' = "fault" => op'[m].addr = a /\ op'[m].stage = "put" /\ op'[m].old \in Page
      BY <1>6, <1>13, <3>1
    <3> QED BY <1>5, <1>13, <1>15, <3>2 DEF FaultInv, Covered
  <2>3. ForkInv(m)' /\ ExecInv(m)'
    BY <1>13 DEF ForkInv, ExecInv
  <2>4. BlankInv(m)'
    <3>1. Zeros(m)
      BY <1>1, <1>13 DEF BlankInv, Live
    <3>2. Zeros(m)'
      BY <1>5, <1>7, <1>11, <3>1 DEF Zeros, SetEntry
    <3> QED BY <1>13, <3>2 DEF BlankInv
  <2> QED BY <1>13, <2>1, <2>2, <2>3, <2>4, LocalStep
<1>18. ASSUME ~raced' PROVE PageInv'
  <2>1. refcount'[p] = refcount[p] + 1
    BY <1>5, <1>10, <1>18
  <2>2. /\ p \notin free /\ content[p] = val[m][a]
        /\ f.old # None => Mapping(m, a, f.old)
        /\ f.old = None => pte[m][a] = None
        /\ \A n \in MM : n # m /\ Ready(n) => op[n].new # p
        /\ f.write => p # ZeroPage /\ Sole(m, a, p)
        /\ ~f.write => p = ZeroPage
    <3>1. /\ f.new \notin free /\ content[f.new] = val[m][f.addr]
          /\ f.old # None => Mapping(m, f.addr, f.old)
          /\ f.old = None => pte[m][f.addr] = None
          /\ \A n \in MM : n # m /\ Ready(n) => op[n].new # f.new
      BY <1>3 DEF Mappable
    <3>2. /\ f.write => f.new # ZeroPage /\ Sole(m, f.addr, f.new)
          /\ ~f.write => f.new = ZeroPage
      BY <1>3 DEF Mappable
    <3> QED BY <1>4, <3>1, <3>2
  <2>3. ASSUME NEW q
        PROVE  /\ Holders(q)' = (IF f.old # None /\ q = f.old THEN Holders(q) \cup {m} ELSE Holders(q))
               /\ m \notin Holders(q)
    <3>1. \A k \in MM : k # m => (Held(k, q)' <=> Held(k, q))
      BY <1>9, CalmSame DEF Calm, HoldingKept, Held
    <3>2. ~Held(m, q) /\ (Held(m, q)' <=> f.old # None /\ q = f.old)
      BY <1>13 DEF Held
    <3>3. Holders(q) \subseteq MM /\ Holders(q)' \subseteq MM
      BY DEF Holders
    <3>4. \A k : k \in Holders(q)' <=> k \in (IF f.old # None /\ q = f.old THEN Holders(q) \cup {m} ELSE Holders(q))
      BY <3>1, <3>2, <3>3, HeldHolders
    <3> QED BY <3>2, <3>4, HeldHolders
  <2>4. Counted'
    <3> SUFFICES ASSUME NEW q \in Page PROVE Count(q)'
      BY DEF Counted
    <3>1. /\ Count(q) /\ base[q] \in Nat /\ base'[q] = base[q] /\ (q \in free' <=> q \in free)
      BY <1>1, <1>5 DEF Counted, TypeOK
    <3>2. PICK z : z = <<m, a>>
      OBVIOUS
    <3>3. Maps(q)' = IF q = p THEN Maps(q) \cup {z} ELSE Maps(q) \ {z}
      BY <1>6, <1>11, <3>2, SetMaps, SMT
    <3>4. /\ z \in Maps(q) <=> f.old # None /\ q = f.old
      <4>1. z \in Maps(q) <=> Mapping(m, a, q)
        BY <1>6, <3>2, MapsMember
      <4> QED BY <2>2, <4>1 DEF Mapping
    <3>5. CASE q = p /\ f.old # None /\ q = f.old
      <4>1. Maps(q)' = Maps(q) /\ Holders(q)' = Holders(q) \cup {m} /\ m \notin Holders(q)
        BY <2>3, <3>3, <3>4, <3>5
      <4> QED BY <1>5, <2>1, <2>2, <3>1, <3>5, <4>1, OneMore
    <3>6. CASE q = p /\ ~(f.old # None /\ q = f.old)
      <4>1. Maps(q)' = Maps(q) \cup {z} /\ z \notin Maps(q) /\ Holders(q)' = Holders(q)
        BY <2>3, <3>3, <3>4, <3>6
      <4> QED BY <1>5, <2>1, <2>2, <3>1, <3>6, <4>1, OneMore
    <3>7. CASE q # p /\ f.old # None /\ q = f.old
      <4>1. /\ Maps(q)' = Maps(q) \ {z} /\ z \in Maps(q)
            /\ Holders(q)' = Holders(q) \cup {m} /\ m \notin Holders(q)
        BY <2>3, <3>3, <3>4, <3>7
      <4> QED BY <1>10, <3>1, <3>7, <4>1, TakesOver
    <3>8. CASE q # p /\ ~(f.old # None /\ q = f.old)
      <4>1. Maps(q)' = Maps(q) /\ Holders(q)' = Holders(q)
        BY <2>3, <3>3, <3>4, <3>8
      <4> QED BY <1>10, <3>1, <3>8, <4>1, CountSame
    <3> QED BY <3>5, <3>6, <3>7, <3>8
  <2>5. ZeroInv'
    BY <1>1, <1>5 DEF ZeroInv
  <2>6. WriteInv'
    <3>1. ASSUME NEW n \in MM, NEW b \in Addr, Mapping(n, b, p), n # m \/ b # a PROVE ~Writable(n, b)
      <4>1. CASE f.write
        BY <2>2, <3>1, <4>1 DEF Sole
      <4>2. CASE ~f.write
        BY <1>1, <2>2, <3>1, <4>2 DEF WriteInv, Mapping
      <4> QED BY <4>1, <4>2
    <3> QED BY <1>1, <1>6, <1>7, <1>11, <2>2, <3>1, WriteSet
  <2>7. ReadyInv'
    <3>1. \A n \in MM : ReadyKept(n)
      BY <1>9, <1>13, CalmSame DEF Calm, ReadyKept
    <3>2. ASSUME NEW n \in MM, Ready(n)' PROVE StaysReady(n, op[n].new)
      <4>1. Ready(n) /\ n # m
        BY <1>13, <3>1, <3>2 DEF ReadyKept
      <4>2. PICK q : q = op[n].new
        OBVIOUS
      <4>3. /\ q \notin free /\ content[q] = val[n][op[n].addr]
            /\ Sole(n, op[n].addr, q)
        BY <1>1, <4>1, <4>2 DEF ReadyInv
      <4>4. q # p /\ ~(f.old # None /\ q = f.old)
        BY <1>6, <2>2, <4>1, <4>2, <4>3 DEF Sole
      <4>5. ASSUME NEW k \in MM, Held(k, q)' PROVE Held(k, q)
        <5>1. k # m
          BY <1>13, <4>4, <4>5 DEF Held
        <5> QED BY <1>9, <4>5, <5>1, CalmSame DEF Calm, HoldingKept, Held
      <4>6. ASSUME NEW k \in MM, NEW b \in Addr, Mapping(k, b, q)' PROVE Mapping(k, b, q)
        BY <1>6, <1>11, <4>4, <4>6, SetMapping, SMT
      <4>7. StaysReady(n, q)
        BY <1>5, <4>3, <4>5, <4>6 DEF StaysReady
      <4> QED BY <4>2, <4>7
    <3> QED BY <1>1, <3>1, <3>2, ReadyStep
  <2>8. SameContent'
    BY <1>1, <1>5, <1>6, <1>11, <2>2, ContentSet
  <2> QED BY <1>17, <2>4, <2>5, <2>6, <2>7, <2>8 DEF PageInv
<1> QED BY <1>12, <1>14, <1>16, <1>17, <1>18 DEF IInv


(* What a fork knows of the page it is about to copy.                      *)
NextToCopy(m, f, a, x) ==
  /\ f \in OpFork /\ a \in f.pages /\ a \in Addr /\ x \in MM /\ x # m
  /\ f.pages \subseteq Addr
  /\ op[x] = Private /\ op[m] # Private /\ Owns(m, x)
  /\ pte[m][a] \in Entry /\ pte[m][a] # None
  /\ pte[x][a] = None /\ Covered(x, a)

LEMMA ForkPage ==
  ASSUME FiniteSetFacts, TypeOK, Owned, NEW m \in MM, Kind(m) = "fork", ForkInv(m), NEW f, f = op[m],
         f.pages # {}, NEW a, a = Min(f.pages), NEW x, x = f.child
  PROVE  NextToCopy(m, f, a, x)
<1>1. f \in OpFork
  BY OpKinds DEF TypeOK
<1>2. x \in MM /\ f.pages \subseteq Addr
  BY <1>1, SMT DEF OpFork
<1>3. a \in f.pages
  BY <1>2, MmAssumption, MinIn
<1>4. Owns(m, x)
  BY DEF Owns
<1>5. op[x] = Private
  BY <1>2, <1>4 DEF Owned
<1>6. op[m] # Private
  BY SMT DEF Kind, Private
<1>7. pte[m][a] # None /\ pte[x][a] = None /\ Covered(x, a)
  BY <1>3 DEF ForkInv
<1>8. pte[m][a] \in Entry
  BY <1>2, <1>3, <1>7, EntryType
<1> QED BY <1>1, <1>2, <1>3, <1>4, <1>5, <1>6, <1>7, <1>8 DEF NextToCopy

LEMMA ForkGetPageStep ==
  ASSUME FiniteSetFacts, IInv, ~raced, NEW m \in MM, ForkGetPage(m)
  PROVE  IInv'
<1>1. /\ TypeOK /\ Owned /\ Areas /\ ForkInv(m) /\ BlankInv(m)
      /\ Counted /\ ZeroInv /\ WriteInv /\ ReadyInv /\ SameContent
  BY DEF IInv, PageInv, OpInv, Blank
<1>2. PICK f, a, x : f = op[m] /\ a = Min(f.pages) /\ x = f.child
  OBVIOUS
<1>3. PICK p, e : p = pte[m][a].page /\ e = [pte[m][a] EXCEPT !.write = FALSE]
  OBVIOUS
<1>4. PICK o : o = [f EXCEPT !.page = p, !.seen = refcount[p]]
  OBVIOUS
<1>5. /\ Kind(m) = "fork" /\ f.pages # {} /\ f.page = None
      /\ pte' = [pte EXCEPT ![m][a].write = FALSE]
      /\ op' = [op EXCEPT ![m] = o]
      /\ UNCHANGED <<vma, refcount, free, content, raced, val, base>>
  BY <1>2, <1>3, <1>4 DEF ForkGetPage, Forking, Goto, Kind
<1>6. /\ f \in OpFork /\ a \in f.pages /\ a \in Addr /\ x \in MM /\ x # m
      /\ op[m] # Private /\ Owns(m, x)
      /\ pte[m][a] \in Entry /\ pte[m][a] # None
  <2>1. NextToCopy(m, f, a, x)
    BY <1>1, <1>2, <1>5, ForkPage
  <2> QED BY <2>1 DEF NextToCopy
<1>7. p \in Page /\ e \in Entry /\ e # None /\ e.page = p /\ ~e.write
  <2>1. e \in Entry /\ e.page = p /\ ~e.write /\ p \in Page
    BY <1>3, <1>6 DEF Entry
  <2> QED BY <2>1, MmAssumption DEF Entry
<1>8. /\ pte' \in [MM -> [Addr -> Entry \cup {None}]] /\ SetEntry(m, a, p) /\ pte'[m][a] = e
      /\ \A n \in MM : n # m => pte'[n] = pte[n]
  <2>1. pte' = [pte EXCEPT ![m][a] = e]
    BY <1>3, <1>5
  <2> QED BY <1>1, <1>6, <1>7, <2>1 DEF TypeOK, SetEntry
<1>9. /\ o \in OpFork /\ o.kind = "fork" /\ o.child = x /\ o.vmas = f.vmas
      /\ o.pages = f.pages /\ o.page = p
  <2>1. refcount[p] \in Int
    BY <1>1, <1>7 DEF TypeOK
  <2> QED BY <1>2, <1>4, <1>6, <1>7, <2>1 DEF OpFork
<1>10. o \in Op /\ o # Unused
  BY <1>9, SMT DEF Op, Unused
<1>11. op' \in [MM -> Op] /\ op'[m] = o /\ \A n \in MM : n # m => op'[n] = op[n]
  BY <1>1, <1>5, <1>10, GotoOp DEF TypeOK
<1>12. TypeOK'
  BY <1>1, <1>5, <1>8, <1>11 DEF TypeOK
<1>13. Kind(m)' = "fork" /\ op'[m].child = op[m].child
  BY <1>2, <1>9, <1>11 DEF Kind
<1>14. Owned'
  <2>1. \A y \in MM : Owns(m, y)' => Owns(m, y)
    BY <1>5, <1>13 DEF Owns
  <2> QED BY <1>1, <1>5, <1>6, <1>11, <2>1, OwnedStep
<1>15. Mapping(m, a, p) /\ Covered(m, a)
  BY <1>1, <1>3, <1>6 DEF Mapping, Areas
<1>16. Areas'
  BY <1>1, <1>5, <1>6, <1>8, <1>10, <1>11, <1>15, AreasSet
<1>17. \A b \in Addr : (pte'[m][b] = None <=> pte[m][b] = None) /\ pte'[x] = pte[x]
  BY <1>6, <1>7, <1>8 DEF SetEntry
<1>18. OpInv' /\ Blank'
  <2>1. Near(m, m) /\ Others(m, m)
    BY <1>5, <1>8, <1>11 DEF Near, Others
  <2>2. FaultInv(m)' /\ ExecInv(m)'
    BY <1>13 DEF FaultInv, ExecInv
  <2>3. ForkInv(m)'
    <3>1. /\ op'[m].vmas = op[m].vmas /\ op'[m].pages = op[m].pages /\ op'[m].page = p
      BY <1>2, <1>9, <1>11
    <3>2. pte'[m][a] = e
      BY <1>8
    <3>3. f.pages \subseteq Addr
      BY <1>6, SMT DEF OpFork
    <3>4. \A v \in f.vmas : v.begin <= v.end
      BY <1>1, <1>2, <1>5 DEF ForkInv
    <3>5. ASSUME NEW b \in f.pages PROVE pte'[m][b] # None /\ pte'[x][b] = None /\ Covered(x, b)'
      <4>1. pte[m][b] # None /\ pte[x][b] = None /\ Covered(x, b)
        BY <1>1, <1>2, <1>5 DEF ForkInv
      <4> QED BY <1>5, <1>17, <3>3, <4>1 DEF Covered
    <3>6. ASSUME NEW b \in Addr, pte'[m][b] # None
          PROVE  \/ pte'[x][b] # None \/ b \in f.pages \/ \E v \in f.vmas : b \in PagesOf(v)
      <4>1. pte[m][b] # None /\ pte'[x] = pte[x]
        BY <1>17, <3>6
      <4> QED BY <1>1, <1>2, <1>5, <4>1 DEF ForkInv
    <3>7. pte'[m][Min(f.pages)] # None /\ pte'[m][Min(f.pages)].page = p /\ ~pte'[m][Min(f.pages)].write
      BY <1>2, <1>7, <3>2
    <3>8. Mapping(m, Min(f.pages), p)' /\ ~Writable(m, Min(f.pages))'
      BY <3>7 DEF Mapping, Writable
    <3> QED BY <1>5, <1>9, <1>11, <3>4, <3>5, <3>6, <3>8 DEF ForkInv
  <2>4. BlankInv(m)'
    BY <1>1, <1>5, <1>13, <1>17 DEF BlankInv, Live, Zeros
  <2> QED BY <1>6, <2>1, <2>2, <2>3, <2>4, LocalStep
<1>19. ~Ready(m)' /\ \A n \in MM : HoldingKept(n) /\ ReadyKept(n)
  <2>1. ~Ready(m)' /\ ~Holding(m)' /\ ~Holding(m)
    BY <1>5, <1>13 DEF Ready, Holding
  <2> QED BY <1>11, <2>1, CalmSame DEF Calm, HoldingKept, ReadyKept
<1>20. Counted'
  <2> SUFFICES ASSUME NEW q \in Page PROVE Count(q)'
    BY DEF Counted
  <2>1. PICK z : z = <<m, a>>
    OBVIOUS
  <2>2. Maps(q)' = IF q = p THEN Maps(q) \cup {z} ELSE Maps(q) \ {z}
    BY <1>6, <1>8, <2>1, SetMaps, SMT
  <2>3. z \in Maps(q) <=> q = p
    BY <1>6, <1>15, <2>1, MapsMember DEF Mapping
  <2>4. Maps(q)' = Maps(q) /\ Holders(q)' = Holders(q) /\ Count(q)
    BY <1>1, <1>19, <2>2, <2>3, HoldersSame DEF Counted
  <2> QED BY <1>5, <2>4, CountSame
<1>21. ZeroInv'
  BY <1>1, <1>5 DEF ZeroInv
<1>22. \A n \in MM, b \in Addr : Weakened(n, b)
  <2> SUFFICES ASSUME NEW n \in MM, NEW b \in Addr PROVE Weakened(n, b)
    OBVIOUS
  <2>1. CASE n = m /\ b = a
    BY <1>3, <1>6, <1>7, <1>8, <2>1 DEF SetEntry, Weakened
  <2>2. CASE n # m \/ b # a
    BY <1>8, <2>2 DEF SetEntry, Weakened, Dropped
  <2> QED BY <2>1, <2>2
<1>23. WriteInv'
  BY <1>1, <1>22, WriteWeakened
<1>24. ReadyInv'
  <2>1. ASSUME NEW n \in MM, Ready(n)' PROVE StaysReady(n, op[n].new)
    <3>1. Ready(n)
      BY <1>19, <2>1 DEF ReadyKept
    <3>2. PICK q : q = op[n].new
      OBVIOUS
    <3>3. q \notin free /\ content[q] = val[n][op[n].addr]
      BY <1>1, <3>1, <3>2 DEF ReadyInv
    <3>4. \A k \in MM : Held(k, q)' => Held(k, q)
      BY <1>19 DEF HoldingKept, Held
    <3>5. \A k \in MM, b \in Addr : Mapping(k, b, q)' => Mapping(k, b, q)
      BY <1>22, WeakenedMaps
    <3>6. StaysReady(n, q)
      BY <1>5, <3>3, <3>4, <3>5 DEF StaysReady
    <3> QED BY <3>2, <3>6
  <2> QED BY <1>1, <1>19, <2>1, ReadyStep
<1>25. SameContent'
  <2>1. content'[p] = val'[m][a]
    BY <1>1, <1>3, <1>5, <1>6 DEF SameContent
  <2> QED BY <1>1, <1>5, <1>6, <1>7, <1>8, <2>1, ContentSet
<1> QED BY <1>12, <1>14, <1>16, <1>18, <1>20, <1>21, <1>23, <1>24, <1>25 DEF IInv, PageInv


LEMMA ForkMapStep ==
  ASSUME FiniteSetFacts, IInv, ~raced, NEW m \in MM, ForkMap(m)
  PROVE  IInv'
<1>1. /\ TypeOK /\ Owned /\ Areas /\ ForkInv(m) /\ BlankInv(m)
      /\ Counted /\ ZeroInv /\ WriteInv /\ ReadyInv /\ SameContent
  BY DEF IInv, PageInv, OpInv, Blank
<1>2. PICK f, a, x, p : f = op[m] /\ a = Min(f.pages) /\ x = f.child /\ p = f.page
  OBVIOUS
<1>3. PICK e, o : /\ e = [page |-> p, write |-> FALSE]
                  /\ o = [f EXCEPT !.page = None, !.pages = f.pages \ {a}]
  OBVIOUS
<1>4. /\ Kind(m) = "fork" /\ p # None
      /\ refcount' = [refcount EXCEPT ![p] = f.seen + 1]
      /\ raced' = (refcount[p] # f.seen)
      /\ pte' = [pte EXCEPT ![x][a] = e]
      /\ op' = [op EXCEPT ![m] = o]
      /\ UNCHANGED <<vma, free, content, val, base>>
  BY <1>2, <1>3 DEF ForkMap, Forking, Goto, Kind
<1>5. f.pages # {} /\ Mapping(m, a, p) /\ ~Writable(m, a)
  BY <1>1, <1>2, <1>4 DEF ForkInv
<1>6. /\ f \in OpFork /\ a \in f.pages /\ a \in Addr /\ x \in MM /\ x # m /\ f.pages \subseteq Addr
      /\ op[x] = Private /\ op[m] # Private /\ Owns(m, x)
      /\ pte[x][a] = None /\ Covered(x, a)
  <2>1. NextToCopy(m, f, a, x)
    BY <1>1, <1>2, <1>4, <1>5, ForkPage
  <2> QED BY <2>1 DEF NextToCopy
<1>7. p \in Page /\ f.seen \in Int
  BY <1>2, <1>4, <1>6, SMT DEF OpFork
<1>8. e \in Entry /\ e # None /\ e.page = p /\ e.write = FALSE
  <2>1. e \in Entry
    BY <1>3, <1>7 DEF Entry
  <2> QED BY <1>3, <2>1, MmAssumption DEF Entry
<1>9. /\ pte' \in [MM -> [Addr -> Entry \cup {None}]] /\ SetEntry(x, a, p) /\ pte'[x][a] = e
      /\ \A n \in MM : n # x => pte'[n] = pte[n]
  BY <1>1, <1>4, <1>6, <1>8 DEF TypeOK, SetEntry
<1>10. /\ o \in OpFork /\ o.kind = "fork" /\ o.child = x /\ o.vmas = f.vmas
       /\ o.pages = f.pages \ {a} /\ o.page = None
  BY <1>2, <1>3, <1>6 DEF OpFork
<1>11. o \in Op /\ o # Unused
  BY <1>10, SMT DEF Op, Unused
<1>12. op' \in [MM -> Op] /\ op'[m] = o /\ \A n \in MM : n # m => op'[n] = op[n]
  BY <1>1, <1>4, <1>11, GotoOp DEF TypeOK
<1>13. /\ refcount' \in [Page -> Int] /\ refcount'[p] = f.seen + 1
       /\ \A q \in Page : q # p => refcount'[q] = refcount[q]
  <2>1. PICK r : r = f.seen + 1
    OBVIOUS
  <2>2. r \in Int
    BY <1>7, <2>1, SMT
  <2>3. refcount' = [refcount EXCEPT ![p] = r]
    BY <1>4, <2>1
  <2> QED BY <1>1, <1>7, <2>1, <2>2, <2>3 DEF TypeOK
<1>14. TypeOK'
  BY <1>1, <1>4, <1>9, <1>12, <1>13 DEF TypeOK
<1>15. Kind(m)' = "fork" /\ op'[m].child = op[m].child
  BY <1>2, <1>10, <1>12 DEF Kind
<1>16. Owned'
  <2>1. \A y \in MM : Owns(m, y)' => Owns(m, y)
    BY <1>4, <1>15 DEF Owns
  <2> QED BY <1>1, <1>4, <1>6, <1>12, <2>1, OwnedStep
<1>17. Areas'
  BY <1>1, <1>4, <1>6, <1>9, <1>11, <1>12, AreasSet
<1>18. /\ pte'[m] = pte[m] /\ pte'[x][a] # None
       /\ \A b \in Addr : b # a => pte'[x][b] = pte[x][b]
  BY <1>6, <1>8, <1>9 DEF SetEntry
<1>19. OpInv' /\ Blank'
  <2>1. Near(m, x) /\ Others(m, x)
    BY <1>4, <1>6, <1>9, <1>12 DEF Near, Others
  <2>2. FaultInv(m)' /\ ExecInv(m)'
    BY <1>15 DEF FaultInv, ExecInv
  <2>3. ForkInv(m)'
    <3>1. \A v \in f.vmas : v.begin <= v.end
      BY <1>1, <1>2, <1>4 DEF ForkInv
    <3>2. ASSUME NEW b \in f.pages \ {a} PROVE pte'[m][b] # None /\ pte'[x][b] = None /\ Covered(x, b)'
      <4>1. pte[m][b] # None /\ pte[x][b] = None /\ Covered(x, b)
        BY <1>1, <1>2, <1>4 DEF ForkInv
      <4> QED BY <1>4, <1>6, <1>18, <4>1 DEF Covered
    <3>3. ASSUME NEW b \in Addr, pte'[m][b] # None
          PROVE  \/ pte'[x][b] # None \/ b \in f.pages \ {a} \/ \E v \in f.vmas : b \in PagesOf(v)
      <4>1. pte[x][b] # None \/ b \in f.pages \/ \E v \in f.vmas : b \in PagesOf(v)
        BY <1>1, <1>2, <1>4, <1>18, <3>3 DEF ForkInv
      <4> QED BY <1>18, <4>1
    <3> QED BY <1>10, <1>12, <3>1, <3>2, <3>3 DEF ForkInv
  <2>4. BlankInv(m)'
    BY <1>1, <1>4, <1>15, <1>18 DEF BlankInv, Live, Zeros
  <2>5. Kind(x)' = "private"
    BY <1>6, <1>12, SMT DEF Kind, Private
  <2>6. Idle(x)' /\ BlankInv(x)'
    BY <2>5 DEF Idle, BlankInv, Live
  <2> QED BY <1>6, <2>1, <2>2, <2>3, <2>4, <2>6, LocalStep
<1>20. ~Ready(m)' /\ ~Ready(m) /\ \A n \in MM : HoldingKept(n) /\ ReadyKept(n)
  <2>1. ~Ready(m)' /\ ~Ready(m) /\ ~Holding(m)' /\ ~Holding(m)
    BY <1>4, <1>15 DEF Ready, Holding
  <2> QED BY <1>12, <2>1, CalmSame DEF Calm, HoldingKept, ReadyKept
<1>21. ASSUME ~raced' PROVE PageInv'
  <2>1. refcount'[p] = refcount[p] + 1
    BY <1>4, <1>13, <1>21
  <2>2. Counted'
    <3> SUFFICES ASSUME NEW q \in Page PROVE Count(q)'
      BY DEF Counted
    <3>1. /\ Count(q) /\ base[q] \in Nat /\ base'[q] = base[q] /\ (q \in free' <=> q \in free)
          /\ Holders(q)' = Holders(q)
      BY <1>1, <1>4, <1>20, HoldersSame DEF Counted, TypeOK
    <3>2. PICK z : z = <<x, a>>
      OBVIOUS
    <3>3. Maps(q)' = IF q = p THEN Maps(q) \cup {z} ELSE Maps(q) \ {z}
      BY <1>6, <1>9, <3>2, SetMaps, SMT
    <3>4. z \notin Maps(q)
      BY <1>6, <3>2, MapsMember DEF Mapping
    <3>5. CASE q = p
      <4>1. q \notin free
        BY <1>5, <1>6, <3>1, <3>5, MapsMember DEF Count
      <4> QED BY <2>1, <3>1, <3>3, <3>4, <3>5, <4>1, OneMore
    <3>6. CASE q # p
      <4>1. Maps(q)' = Maps(q)
        BY <3>3, <3>4, <3>6
      <4> QED BY <1>13, <3>1, <3>6, <4>1, CountSame
    <3> QED BY <3>5, <3>6
  <2>3. ZeroInv'
    BY <1>1, <1>4 DEF ZeroInv
  <2>4. WriteInv'
    <3>1. ASSUME NEW n \in MM, NEW b \in Addr, Mapping(n, b, p), Writable(n, b) PROVE FALSE
      <4>1. Sole(n, b, p)
        BY <1>1, <3>1 DEF WriteInv, Mapping
      <4>2. n = m /\ b = a
        BY <1>5, <1>6, <4>1 DEF Sole
      <4> QED BY <1>5, <3>1, <4>2
    <3> QED BY <1>1, <1>6, <1>7, <1>8, <1>9, <3>1, WriteSet
  <2>5. ReadyInv'
    <3>1. ASSUME NEW n \in MM, Ready(n)' PROVE StaysReady(n, op[n].new)
      <4>1. Ready(n) /\ n # m
        BY <1>20, <3>1 DEF ReadyKept
      <4>2. PICK q : q = op[n].new
        OBVIOUS
      <4>3. /\ q \notin free /\ content[q] = val[n][op[n].addr] /\ Sole(n, op[n].addr, q)
        BY <1>1, <4>1, <4>2 DEF ReadyInv
      <4>4. q # p
        BY <1>5, <1>6, <4>1, <4>3 DEF Sole
      <4>5. \A k \in MM : Held(k, q)' => Held(k, q)
        BY <1>20 DEF HoldingKept, Held
      <4>6. ASSUME NEW k \in MM, NEW b \in Addr, Mapping(k, b, q)' PROVE Mapping(k, b, q)
        BY <1>6, <1>8, <1>9, <4>4, <4>6, SetMapping
      <4>7. StaysReady(n, q)
        BY <1>4, <4>3, <4>5, <4>6 DEF StaysReady
      <4> QED BY <4>2, <4>7
    <3> QED BY <1>1, <1>20, <3>1, ReadyStep
  <2>6. SameContent'
    <3>1. content[p] = val[m][a]
      BY <1>1, <1>5, <1>6 DEF SameContent, Mapping
    <3>2. val[x][a] = val[m][a]
      BY <1>1, <1>2, <1>4, <1>6 DEF BlankInv
    <3>3. content'[p] = val'[x][a]
      BY <1>4, <3>1, <3>2
    <3> QED BY <1>1, <1>4, <1>6, <1>7, <1>8, <1>9, <3>3, ContentSet
  <2> QED BY <1>19, <2>2, <2>3, <2>4, <2>5, <2>6 DEF PageInv
<1> QED BY <1>14, <1>16, <1>17, <1>19, <1>21 DEF IInv

==============================================================================
