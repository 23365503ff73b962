------------------------------ MODULE ExecProof ------------------------------
(***************************************************************************)
(* The steps that set and clear entries of a page table keep the inductive *)
(* invariant, and with the steps of MmProof so does every step of the      *)
(* address spaces and of exec; what it says of the memory of the threads.  *)
(***************************************************************************)
EXTENDS MmProof, FiniteSetTheorems, WellFoundedInduction

USE ZenonT(60), SMTT(60)

(* A set of naturals has a least element.                                  *)
LEMMA Least ==
  ASSUME NEW S, S \subseteq Nat, S # {}
  PROVE  \E x \in S : \A y \in S : x <= y
<1>1. \E x \in S : \A y \in S : ~(<<y, x>> \in OpToRel(<, Nat))
  BY NatLessThanWellFounded, WFMin
<1>2. PICK x \in S : \A y \in S : ~(<<y, x>> \in OpToRel(<, Nat))
  BY <1>1
<1>3. ASSUME NEW y \in S PROVE x <= y
  <2>1. x \in Nat /\ y \in Nat
    OBVIOUS
  <2>2. <<y, x>> \in Nat \X Nat
    BY <2>1
  <2>3. ~(y < x)
    BY <1>2, <2>1, <2>2 DEF OpToRel
  <2> QED BY <2>1, <2>3, SMT
<1> QED BY <1>3

LEMMA Facts == FiniteSetFacts
<1>1. \A S \in SUBSET Nat : S # {} => \E x \in S : \A y \in S : x <= y
  BY Least
<1>2. \A S, T : IsFiniteSet(S) /\ IsFiniteSet(T) => IsFiniteSet(S \X T)
  BY FS_Product
<1>3. ASSUME NEW S, IsFiniteSet(S)
      PROVE  /\ \A T \in SUBSET S : IsFiniteSet(T)
             /\ Cardinality(S) \in Nat
             /\ Cardinality(S) = 0 <=> S = {}
             /\ Cardinality(S) = 1 <=> \E x : S = {x}
  BY <1>3, FS_Subset, FS_CardinalityType, FS_EmptySet, FS_Singleton
<1>4. ASSUME NEW S, IsFiniteSet(S), NEW x
      PROVE  /\ Cardinality(S \cup {x}) = IF x \in S THEN Cardinality(S) ELSE Cardinality(S) + 1
             /\ Cardinality(S \ {x}) = IF x \in S THEN Cardinality(S) - 1 ELSE Cardinality(S)
  BY <1>4, FS_AddElement, FS_RemoveElement
<1>5. IsFiniteSet({}) /\ \A x : IsFiniteSet({x})
  BY FS_EmptySet, FS_Singleton
<1> QED BY <1>1, <1>2, <1>3, <1>4, <1>5 DEF FiniteSetFacts

(* exec maps a page it has just allocated into the address space x that it *)
(* builds.                                                                 *)
LEMMA NewPageStep ==
  ASSUME IInv, ~raced, NEW m \in MM, Kind(m) = "exec", NEW x \in MM, x = op[m].new,
         NEW a \in Addr, pte[x][a] = None, Covered(x, a), NEW w \in BOOLEAN, NEW d \in Data,
         NEW p \in free, MapNewPage(x, p, a, w, d),
         NEW o \in OpExec, o.new = x, op' = [op EXCEPT ![m] = o],
         UNCHANGED <<vma, raced>>, ExecInv(m)'
  PROVE  IInv'
<1>1. /\ TypeOK /\ Owned /\ Areas /\ BlankInv(m)
      /\ Counted /\ ZeroInv /\ WriteInv /\ ReadyInv /\ SameContent
  BY DEF IInv, PageInv, OpInv, Blank
<1>2. PICK e : e = [page |-> p, write |-> w]
  OBVIOUS
<1>3. /\ refcount' = [refcount EXCEPT ![p] = 1]
      /\ base' = [base EXCEPT ![p] = 0]
      /\ free' = free \ {p}
      /\ content' = [content EXCEPT ![p] = d]
      /\ pte' = [pte EXCEPT ![x][a] = e]
      /\ val' = [val EXCEPT ![x][a] = d]
  BY <1>2 DEF MapNewPage
<1>4. Owns(m, x) /\ op[x] = Private /\ op[m] # Private /\ x # m
  <2>1. Owns(m, x)
    BY DEF Owns
  <2>2. op[x] = Private
    BY <1>1, <2>1 DEF Owned
  <2>3. op[m] # Private
    BY SMT DEF Kind, Private
  <2> QED BY <2>1, <2>2, <2>3
<1>5. p \in Page /\ p # ZeroPage /\ Maps(p) = {} /\ Holders(p) = {}
  BY <1>1 DEF TypeOK, ZeroInv, Counted, Count
<1>6. e \in Entry /\ e # None /\ e.page = p /\ e.write = w
  <2>1. e \in Entry
    BY <1>2, <1>5 DEF Entry
  <2> QED BY <1>2, <2>1, MmAssumption DEF Entry
<1>7. /\ pte' \in [MM -> [Addr -> Entry \cup {None}]] /\ SetEntry(x, a, p) /\ pte'[x][a] = e
      /\ \A n \in MM : n # x => pte'[n] = pte[n]
  BY <1>1, <1>3, <1>6 DEF TypeOK, SetEntry
<1>8. /\ val' \in [MM -> [Addr -> Data]] /\ val'[x][a] = d
      /\ \A n \in MM : n # x => val'[n] = val[n]
      /\ \A b \in Addr : b # a => val'[x][b] = val[x][b]
  BY <1>1, <1>3 DEF TypeOK
<1>9. /\ content' \in [Page -> Data] /\ content'[p] = d
      /\ \A q \in Page : q # p => content'[q] = content[q]
  BY <1>1, <1>3, <1>5 DEF TypeOK
<1>10. /\ refcount' \in [Page -> Int] /\ refcount'[p] = 1
       /\ \A q \in Page : q # p => refcount'[q] = refcount[q]
  <2>1. PICK r \in Int : r = 1
    BY SMT
  <2> QED BY <1>1, <1>3, <1>5, <2>1 DEF TypeOK
<1>11. /\ base' \in [Page -> Nat] /\ base'[p] = 0
       /\ \A q \in Page : q # p => base'[q] = base[q]
  <2>1. PICK r \in Nat : r = 0
    BY SMT
  <2> QED BY <1>1, <1>3, <1>5, <2>1 DEF TypeOK
<1>12. o \in Op /\ o # Unused /\ o.kind = "exec"
  BY SMT DEF Op, OpExec, Unused
<1>13. op' \in [MM -> Op] /\ op'[m] = o /\ \A n \in MM : n # m => op'[n] = op[n]
  BY <1>1, <1>12, GotoOp DEF TypeOK
<1>14. TypeOK'
  <2>1. free' \in SUBSET Page
    BY <1>1, <1>3 DEF TypeOK
  <2> QED BY <1>1, <1>7, <1>8, <1>9, <1>10, <1>11, <1>13, <2>1 DEF TypeOK
<1>15. Kind(m)' = "exec" /\ op'[m].new = op[m].new
  BY <1>12, <1>13 DEF Kind
<1>16. Owned'
  <2>1. \A y \in MM : Owns(m, y)' => Owns(m, y)
    BY <1>4, <1>15 DEF Owns
  <2> QED BY <1>1, <1>4, <1>13, <2>1, OwnedStep
<1>17. Areas'
  BY <1>1, <1>7, <1>12, <1>13, AreasSet
<1>18. OpInv' /\ Blank'
  <2>1. Near(m, x) /\ Others(m, x)
    BY <1>4, <1>7, <1>8, <1>13 DEF Near, Others
  <2>2. FaultInv(m)' /\ ForkInv(m)'
    BY <1>15 DEF FaultInv, ForkInv
  <2>3. BlankInv(m)'
    <3>1. Zeros(m) /\ Zeros(x)
      BY <1>1 DEF BlankInv, Live
    <3>2. Zeros(m)'
      BY <1>4, <1>7, <1>8, <3>1 DEF Zeros
    <3>3. Zeros(x)'
      BY <1>6, <1>7, <1>8, <3>1 DEF Zeros, SetEntry
    <3> QED BY <1>15, <3>2, <3>3 DEF BlankInv
  <2>4. Kind(x)' = "private"
    BY <1>4, <1>13, SMT DEF Kind, Private
  <2>5. Idle(x)' /\ BlankInv(x)'
    BY <2>4 DEF Idle, BlankInv, Live
  <2> QED BY <1>4, <2>1, <2>2, <2>3, <2>5, LocalStep
<1>19. ~Ready(m)' /\ \A n \in MM : HoldingKept(n) /\ ReadyKept(n)
  <2>1. ~Ready(m)' /\ ~Holding(m)' /\ ~Holding(m)
    BY <1>15 DEF Ready, Holding
  <2> QED BY <1>13, <2>1, CalmSame DEF Calm, HoldingKept, ReadyKept
<1>20. Counted'
  <2> SUFFICES ASSUME NEW q \in Page PROVE Count(q)'
    BY DEF Counted
  <2>1. Count(q) /\ Holders(q)' = Holders(q)
    BY <1>1, <1>19, HoldersSame DEF Counted
  <2>2. PICK z : z = <<x, a>>
    OBVIOUS
  <2>3. Maps(q)' = IF q = p THEN Maps(q) \cup {z} ELSE Maps(q) \ {z}
    BY <1>7, <2>2, SetMaps, SMT
  <2>4. z \notin Maps(q)
    BY <2>2, MapsMember DEF Mapping
  <2>5. CASE q = p
    <3>1. Maps(q)' = {z} /\ Holders(q)' = {} /\ q \notin free'
      BY <1>3, <1>5, <2>1, <2>3, <2>5
    <3>2. Cardinality(Maps(q)') = 1 /\ Cardinality(Holders(q)') = 0
      BY <3>1, FS_Singleton, FS_EmptySet
    <3>3. refcount'[q] = base'[q] + Cardinality(Maps(q)') + Cardinality(Holders(q)')
      BY <1>10, <1>11, <2>5, <3>2, SMT
    <3> QED BY <3>1, <3>3 DEF Count
  <2>6. CASE q # p
    <3>1. Maps(q)' = Maps(q) /\ (q \in free' <=> q \in free)
      BY <1>3, <2>3, <2>4, <2>6
    <3> QED BY <1>10, <1>11, <2>1, <2>6, <3>1, CountSame
  <2> QED BY <2>5, <2>6
<1>21. ZeroInv'
  <2>1. ZeroPage \in Page
    BY MmAssumption
  <2> QED BY <1>1, <1>3, <1>5, <1>9, <1>11, <2>1 DEF ZeroInv
<1>22. \A n \in MM, b \in Addr : ~Mapping(n, b, p)
  BY <1>5, MapsMember
<1>23. WriteInv'
  <2>1. Sole(x, a, p)
    BY <1>22 DEF Sole
  <2> QED BY <1>1, <1>5, <1>6, <1>7, <1>22, <2>1, WriteSet
<1>24. ReadyInv'
  <2>1. ASSUME NEW n \in MM, Ready(n)' PROVE StaysReady(n, op[n].new)
    <3>1. Ready(n) /\ op[n] \in OpFault
      BY <1>1, <1>19, <2>1, OpKinds DEF ReadyKept, TypeOK, Ready
    <3>2. PICK q \in Page : q = op[n].new
      BY <3>1, SMT DEF OpFault
    <3>3. q \notin free /\ content[q] = val[n][op[n].addr]
      BY <1>1, <3>1, <3>2 DEF ReadyInv
    <3>4. n # x
      BY <1>4, <3>1, SMT DEF Ready, Kind, Private
    <3>5. q # p /\ q \notin free' /\ content'[q] = val'[n][op[n].addr]
      BY <1>3, <1>8, <1>9, <3>3, <3>4
    <3>6. \A k \in MM : Held(k, q)' => Held(k, q)
      BY <1>19 DEF HoldingKept, Held
    <3>7. ASSUME NEW k \in MM, NEW b \in Addr, Mapping(k, b, q)' PROVE Mapping(k, b, q)
      BY <1>7, <3>5, <3>7, SetMapping
    <3>8. StaysReady(n, q)
      BY <3>5, <3>6, <3>7 DEF StaysReady
    <3> QED BY <3>2, <3>8
  <2> QED BY <1>1, <1>19, <2>1, ReadyStep
<1>25. SameContent'
  <2>1. \A n \in MM, b \in Addr : n # x \/ b # a => val'[n][b] = val[n][b]
    BY <1>8
  <2>2. \A q \in Page : content'[q] = content[q] \/ Maps(q) = {}
    BY <1>5, <1>9
  <2>3. content'[p] = val'[x][a]
    BY <1>8, <1>9
  <2> QED BY <1>1, <1>5, <1>6, <1>7, <2>1, <2>2, <2>3, ContentSet
<1> QED BY <1>14, <1>16, <1>17, <1>18, <1>20, <1>21, <1>23, <1>24, <1>25 DEF IInv, PageInv

LEMMA CopyArgsStep ==
  ASSUME IInv, ~raced, NEW m \in MM, copy_args(m)
  PROVE  IInv'
<1>1. PICK f, x : f = op[m] /\ x = f.new
  OBVIOUS
<1>2. PICK o : o = [f EXCEPT !.stage = "segment"]
  OBVIOUS
<1>3. PICK p \in free : MapNewPage(x, p, StackPage, TRUE, ArgData)
  BY <1>1 DEF copy_args
<1>4. /\ Kind(m) = "exec" /\ f.stage = "args" /\ op' = [op EXCEPT ![m] = o]
      /\ UNCHANGED <<vma, raced>>
  BY <1>1, <1>2 DEF copy_args, Execing, Kind, Goto
<1>5. TypeOK /\ ExecInv(m)
  BY DEF IInv, OpInv
<1>6. f \in OpExec /\ x \in MM
  <2>1. f \in OpExec
    BY <1>1, <1>4, <1>5, OpKinds DEF TypeOK
  <2> QED BY <1>1, <2>1, SMT DEF OpExec
<1>7. /\ WellFormed(f.prog) /\ Covered(x, StackPage) /\ pte[x][StackPage] = None
  BY <1>1, <1>4, <1>5, ExecAssumption DEF ExecInv, Empty
<1>8. o \in OpExec /\ o.new = x /\ o.stage = "segment" /\ o.prog = f.prog
  BY <1>1, <1>2, <1>6 DEF OpExec, Stages
<1>9. op'[m] = o
  BY <1>4, <1>5 DEF TypeOK
<1>10. ExecInv(m)'
  BY <1>7, <1>8, <1>9 DEF ExecInv
<1> QED
  BY <1>1, <1>3, <1>4, <1>6, <1>7, <1>8, <1>10, NewPageStep, ExecAssumption DEF Data


(* The next page of a segment lies in its area, and has no entry yet.      *)
PageLoads(h, v, a, r, s) ==
  /\ a \in Addr /\ a \in PagesOf(v)
  /\ r - s \in Nat
  /\ r - s > 0 => (a + 1) * PAGE_SIZE + 0 + (r - s) = h.begin + h.filesz

LEMMA SegmentPage ==
  ASSUME NEW h \in Phdr, h.filesz <= h.memsz, (h.begin + h.memsz) \div PAGE_SIZE \in Addr,
         NEW v \in Area, NEW a \in Nat, NEW j \in Nat, NEW r \in Nat, r > 0, j < PAGE_SIZE,
         a * PAGE_SIZE + j + r = h.begin + h.filesz,
         v.begin <= a * PAGE_SIZE, h.begin + h.memsz <= v.end,
         NEW s, s = Min({r, PAGE_SIZE - j})
  PROVE  PageLoads(h, v, a, r, s)
<1>1. h.begin \in Nat /\ h.memsz \in Nat /\ h.filesz \in Nat
  BY SMT DEF Phdr
<1>2. v.begin \in Nat /\ v.end \in Nat
  BY SMT DEF Area
<1>3. PICK k \in Addr : k = (h.begin + h.memsz) \div PAGE_SIZE
  OBVIOUS
<1>4. k \in Nat /\ a <= k
  BY <1>1, <1>3, MmAssumption, SMT DEF PAGE_SIZE
<1>5. a \in 0..k
  BY <1>4, SMT
<1>6. a \in Addr
  BY <1>5, MmAssumption
<1>7. a * PAGE_SIZE < v.end /\ v.begin < (a + 1) * PAGE_SIZE
  BY <1>1, <1>2, SMT DEF PAGE_SIZE
<1>8. a \in PagesOf(v)
  BY <1>6, <1>7 DEF PagesOf, Overlap
<1>9. PICK t \in Nat : t = PAGE_SIZE - j /\ t > 0
  BY SMT DEF PAGE_SIZE
<1>10. s = (IF r <= t THEN r ELSE t)
  <2>1. r \in Int /\ t \in Int
    BY SMT
  <2> QED BY <1>9, <2>1, MinMaxPair
<1>11. /\ r - s \in Nat
       /\ r - s > 0 => (a + 1) * PAGE_SIZE + 0 + (r - s) = h.begin + h.filesz
  <2>1. CASE r <= t
    <3>1. s = r
      BY <1>10, <2>1
    <3>2. r - s = 0
      BY <3>1, SMT
    <3> QED BY <3>2, SMT
  <2>2. CASE ~(r <= t)
    <3>1. s = t
      BY <1>10, <2>2
    <3>2. r - s \in Nat
      BY <1>9, <2>2, <3>1, SMT
    <3>3. (a + 1) * PAGE_SIZE + 0 + (r - s) = a * PAGE_SIZE + j + r
      BY <1>9, <3>1, SMT DEF PAGE_SIZE
    <3> QED BY <3>2, <3>3
  <2> QED BY <2>1, <2>2
<1> QED BY <1>6, <1>8, <1>11 DEF PageLoads

LEMMA MapElfPhdrStep ==
  ASSUME IInv, ~raced, NEW m \in MM, map_elf_phdr(m)
  PROVE  IInv'
<1>1. PICK f, x, h : f = op[m] /\ x = f.new /\ h = Head(f.prog)
  OBVIOUS
<1>2. PICK s : s = Min({f.remain, PAGE_SIZE - f.offset})
  OBVIOUS
<1>3. PICK o : o = [f EXCEPT !.addr = f.addr + 1, !.offset = 0, !.remain = f.remain - s]
  OBVIOUS
<1>4. PICK p \in free : MapNewPage(x, p, f.addr, h.write, FileData)
  BY <1>1 DEF map_elf_phdr
<1>5. /\ Kind(m) = "exec" /\ f.stage = "load" /\ f.remain > 0 /\ op' = [op EXCEPT ![m] = o]
      /\ UNCHANGED <<vma, raced>>
  BY <1>1, <1>2, <1>3 DEF map_elf_phdr, Execing, Kind, Goto
<1>6. TypeOK /\ ExecInv(m)
  BY DEF IInv, OpInv
<1>7. f \in OpExec
  BY <1>1, <1>5, <1>6, OpKinds DEF TypeOK
<1>8. x \in MM /\ f.prog \in Seq(Phdr) /\ f.addr \in Nat /\ f.offset \in Nat /\ f.remain \in Nat
  BY <1>1, <1>7, SMT DEF OpExec
<1>9. /\ WellFormed(f.prog) /\ f.prog # << >> /\ f.offset < PAGE_SIZE
      /\ f.addr * PAGE_SIZE + f.offset + f.remain = h.begin + h.filesz
      /\ \E v \in vma[x] : Loading(f, v)
  BY <1>1, <1>5, <1>6 DEF ExecInv
<1>10. PICK v \in vma[x] : Loading(f, v)
  BY <1>9
<1>11. h = f.prog[1] /\ 1 \in 1..Len(f.prog) /\ h \in Phdr
  BY <1>1, <1>8, <1>9, SMT
<1>12. h.filesz <= h.memsz /\ (h.begin + h.memsz) \div PAGE_SIZE \in Addr
  BY <1>9, <1>11 DEF WellFormed
<1>13. h.write \in BOOLEAN
  BY <1>11, SMT DEF Phdr
<1>14. v \in Area
  BY <1>6, <1>8 DEF TypeOK
<1>15. /\ v.begin <= f.addr * PAGE_SIZE /\ h.begin + h.memsz <= v.end
       /\ \A a \in PagesOf(v) : a >= f.addr => pte[x][a] = None
  BY <1>1, <1>10 DEF Loading
<1>16. /\ f.addr \in Addr /\ f.addr \in PagesOf(v) /\ f.remain - s \in Nat
       /\ f.remain - s > 0 => (f.addr + 1) * PAGE_SIZE + 0 + (f.remain - s) = h.begin + h.filesz
  <2>1. /\ h \in Phdr /\ h.filesz <= h.memsz /\ (h.begin + h.memsz) \div PAGE_SIZE \in Addr
        /\ v \in Area /\ v.begin <= f.addr * PAGE_SIZE /\ h.begin + h.memsz <= v.end
    BY <1>11, <1>12, <1>14, <1>15
  <2>2. PageLoads(h, v, f.addr, f.remain, s)
    BY <1>2, <1>5, <1>8, <1>9, <2>1, SegmentPage
  <2> QED BY <2>2 DEF PageLoads
<1>17. pte[x][f.addr] = None /\ Covered(x, f.addr)
  <2>1. f.addr >= f.addr
    BY <1>8, SMT
  <2> QED BY <1>15, <1>16, <2>1 DEF Covered
<1>18. PICK i \in Nat, r \in Nat : i = f.addr + 1 /\ r = f.remain - s
  BY <1>8, <1>16, SMT
<1>19. /\ o \in OpExec /\ o.new = x /\ o.stage = "load" /\ o.prog = f.prog
       /\ o.addr = i /\ o.offset = 0 /\ o.remain = r
  <2>1. o = [f EXCEPT !.addr = i, !.offset = 0, !.remain = r] /\ 0 \in Nat
    BY <1>3, <1>18, SMT
  <2> QED BY <1>1, <1>5, <1>7, <1>18, <2>1 DEF OpExec
<1>20. op'[m] = o
  BY <1>5, <1>6 DEF TypeOK
<1>21. /\ \A b \in Addr : b # f.addr => pte'[x][b] = pte[x][b]
  BY <1>4, <1>6, <1>8, <1>16 DEF MapNewPage, TypeOK
<1>22. Loading(o, v)'
  <2>1. v.begin <= i * PAGE_SIZE
    BY <1>8, <1>14, <1>15, <1>18, SMT DEF Area, PAGE_SIZE
  <2>2. ASSUME NEW b \in PagesOf(v), b >= i PROVE pte'[x][b] = None
    <3>1. b \in Addr /\ b \in Nat
      BY MmAssumption DEF PagesOf
    <3>2. b # f.addr /\ b >= f.addr
      BY <1>8, <1>18, <2>2, <3>1, SMT
    <3> QED BY <1>15, <1>21, <3>1, <3>2
  <2> QED BY <1>1, <1>15, <1>19, <2>1, <2>2 DEF Loading
<1>23. ExecInv(m)'
  <2>1. /\ op'[m].prog = f.prog /\ op'[m].offset = 0 /\ op'[m].remain = r
        /\ op'[m].addr = i /\ op'[m].stage = "load" /\ op'[m].new = x
    BY <1>19, <1>20
  <2>2. 0 < PAGE_SIZE
    BY SMT DEF PAGE_SIZE
  <2>3. r > 0 => i * PAGE_SIZE + 0 + r = h.begin + h.filesz
    BY <1>16, <1>18
  <2>4. \E u \in vma'[x] : Loading(op[m], u)'
    BY <1>5, <1>20, <1>22 DEF Loading
  <2> QED BY <1>1, <1>9, <2>1, <2>2, <2>3, <2>4 DEF ExecInv
<1>24. FileData \in Data
  BY DEF Data
<1> QED
  BY <1>1, <1>4, <1>5, <1>8, <1>13, <1>16, <1>17, <1>19, <1>23, <1>24, NewPageStep


-----------------------------------------------------------------------------
(* __munmap of x takes as many references to a page as it drops entries.   *)
(* The entries of x for the pages of G go; no other changes.               *)
Cleared(x, G) ==
  /\ \A a \in G : pte'[x][a] = None
  /\ \A a \in Addr \ G : pte'[x][a] = pte[x][a]
  /\ \A n \in MM : n # x => pte'[n] = pte[n]

(* Page p loses as many entries as D has members.                          *)
Loses(p, D) ==
  /\ Cardinality(D) \in Nat
  /\ Cardinality(Maps(p)') = Cardinality(Maps(p)) - Cardinality(D)
  /\ D = {} => Maps(p)' = Maps(p) /\ Cardinality(D) = 0
  /\ D # {} => Maps(p) # {}

LEMMA PutsCount ==
  ASSUME NEW x \in MM, NEW G \in SUBSET Addr, NEW p, NEW D, D = {a \in G : Mapping(x, a, p)},
         Cleared(x, G)
  PROVE  Loses(p, D)
<1>1. PICK E : E = {z \in Maps(p) : z[1] = x /\ z[2] \in G}
  OBVIOUS
<1>2. ASSUME NEW a \in Addr PROVE <<x, a>> \in E <=> a \in D
  <2>1. <<x, a>>[1] = x /\ <<x, a>>[2] = a
    OBVIOUS
  <2> QED BY <1>1, <2>1, MapsMember
<1>3. \A z \in E : \E a \in D : z = <<x, a>>
  <2> SUFFICES ASSUME NEW z \in E PROVE \E a \in D : z = <<x, a>>
    OBVIOUS
  <2>1. PICK n \in MM, b \in Addr : z = <<n, b>>
    BY <1>1, MapsPairs
  <2>2. n = x
    BY <1>1, <2>1
  <2> QED BY <1>2, <2>1, <2>2
<1>4. IsFiniteSet(D)
  BY MmAssumption, FS_Subset
<1>5. IsFiniteSet(E) /\ Cardinality(E) = Cardinality(D)
  <2>1. PICK g : g = [a \in D |-> <<x, a>>]
    OBVIOUS
  <2>2. g \in [D -> E]
    BY <1>2, <2>1
  <2>3. \A a, b \in D : g[a] = g[b] => a = b
    BY <2>1
  <2>4. \A z \in E : \E a \in D : g[a] = z
    BY <1>3, <2>1
  <2>5. g \in Bijection(D, E)
    BY <2>2, <2>3, <2>4 DEF Bijection, Injection, IsInjective, Surjection
  <2>6. ExistsBijection(D, E)
    BY <2>5 DEF ExistsBijection
  <2> QED BY <1>4, <2>6, FS_Bijection
<1>6. Maps(p)' = Maps(p) \ E
  <2>1. ASSUME NEW n \in MM, NEW b \in Addr PROVE <<n, b>> \in Maps(p)' <=> <<n, b>> \in Maps(p) \ E
    <3>1. <<n, b>> \in E <=> <<n, b>> \in Maps(p) /\ n = x /\ b \in G
      BY <1>1
    <3>2. Mapping(n, b, p)' <=> Mapping(n, b, p) /\ ~(n = x /\ b \in G)
      BY DEF Mapping, Cleared
    <3> QED BY <3>1, <3>2, MapsMember
  <2>2. ASSUME NEW z PROVE z \in Maps(p)' <=> z \in Maps(p) \ E
    <3>1. z \in Maps(p)' \/ z \in Maps(p) => \E n \in MM, b \in Addr : z = <<n, b>>
      BY MapsPairs
    <3> QED BY <2>1, <3>1
  <2> QED BY <2>2
<1>7. /\ Cardinality(Maps(p) \ E) = Cardinality(Maps(p)) - Cardinality(Maps(p) \cap E)
  BY PagesFinite, Facts, <1>5, FS_Difference
<1>8. Maps(p) \cap E = E
  BY <1>1
<1>9. Cardinality(D) \in Nat
  BY <1>4, FS_CardinalityType
<1>10. D = {} => Maps(p)' = Maps(p) /\ Cardinality(D) = 0
  BY <1>3, <1>6, FS_EmptySet
<1>11. D # {} => Maps(p) # {}
  BY <1>1, <1>2
<1> QED BY <1>5, <1>6, <1>7, <1>8, <1>9, <1>10, <1>11 DEF Loses

LEMMA PutsKeepCount ==
  ASSUME NEW p \in Page, Count(p), base[p] \in Nat, refcount[p] \in Int, base'[p] = base[p],
         Holders(p)' = Holders(p), NEW D, NEW k \in Nat, k = Cardinality(D),
         Cardinality(Maps(p)') = Cardinality(Maps(p)) - k,
         D = {} => Maps(p)' = Maps(p) /\ k = 0, D # {} => Maps(p) # {},
         refcount'[p] = refcount[p] - k,
         p \in free' <=> p \in free \/ (k > 0 /\ k = refcount[p])
  PROVE  /\ Count(p)'
         /\ p \in free' /\ p \notin free => base[p] = 0
<1>1. PICK a, h, b : a = Cardinality(Maps(p)) /\ h = Cardinality(Holders(p)) /\ b = Cardinality(Maps(p)')
  OBVIOUS
<1>2. a \in Nat /\ h \in Nat /\ b \in Nat /\ b = a - k
  BY <1>1, PagesFinite, Facts
<1>3. CASE p \in free
  <2>1. Maps(p) = {} /\ Holders(p) = {} /\ refcount[p] >= 0
    BY <1>3 DEF Count
  <2>2. Maps(p)' = {} /\ k = 0
    BY <2>1
  <2>3. refcount'[p] >= 0 /\ p \in free'
    BY <1>3, <2>1, <2>2, SMT
  <2> QED BY <1>3, <2>1, <2>2, <2>3 DEF Count
<1>4. CASE p \notin free
  <2>1. refcount[p] = base[p] + a + h
    BY <1>1, <1>4 DEF Count
  <2>2. refcount'[p] = base'[p] + b + h
    BY <1>2, <2>1, SMT
  <2>3. CASE p \notin free'
    BY <1>1, <2>2, <2>3 DEF Count
  <2>4. CASE p \in free'
    <3>1. k = refcount[p]
      BY <1>4, <2>4
    <3>2. base[p] = 0 /\ h = 0 /\ b = 0 /\ refcount'[p] >= 0
      <4>1. PICK c \in Nat : c = base[p]
        OBVIOUS
      <4>2. k = c + a + h
        BY <2>1, <3>1, <4>1
      <4>3. c = 0 /\ h = 0 /\ b = 0
        BY <1>2, <4>2, SMT
      <4>4. refcount'[p] >= 0
        BY <2>2, <4>1, <4>3, SMT
      <4> QED BY <4>1, <4>3, <4>4
    <3>3. Maps(p)' = {} /\ Holders(p)' = {}
      BY <1>1, <3>2, PagesFinite, Facts, FS_EmptySet
    <3> QED BY <2>4, <3>2, <3>3 DEF Count
  <2> QED BY <2>3, <2>4
<1> QED BY <1>3, <1>4

(* What __munmap does to x, and to no other address space.                 *)
Unmaps(x, G) ==
  /\ \A n \in MM : n # x => vma'[n] = vma[n] /\ pte'[n] = pte[n] /\ val'[n] = val[n]
  /\ \A a \in G : pte'[x][a] = None /\ val'[x][a] = 0
  /\ \A a \in Addr \ G : pte'[x][a] = pte[x][a] /\ val'[x][a] = val[x][a]
  /\ \A p \in Page : LET k == Cardinality({a \in G : Mapping(x, a, p)})
                     IN  /\ refcount'[p] = refcount[p] - k
                         /\ p \in free' <=> p \in free \/ (k > 0 /\ k = refcount[p])

LEMMA MunmapEffect ==
  ASSUME TypeOK, Areas, NEW x \in MM, NEW b \in Nat, NEW e \in Nat, b <= e, b % PAGE_SIZE = 0,
         Munmap(x, b, e), NEW G, G = Gone(b, e),
         \A n \in MM : op'[n] = Unused => op[n] = Unused, op[x] # Unused
  PROVE  /\ vma' \in [MM -> SUBSET Area] /\ pte' \in [MM -> [Addr -> Entry \cup {None}]]
         /\ val' \in [MM -> [Addr -> Data]] /\ refcount' \in [Page -> Int] /\ free' \in SUBSET Page
         /\ Areas' /\ Unmaps(x, G)
<1>1. PICK P, Z : /\ P = [a \in Addr |-> IF a \in G THEN None ELSE pte[x][a]]
                  /\ Z = [a \in Addr |-> IF a \in G THEN 0 ELSE val[x][a]]
  OBVIOUS
<1>2. PICK W : W = UNION {Trim(v, b, e) : v \in vma[x]}
  OBVIOUS
<1>3. /\ pte' = [pte EXCEPT ![x] = P] /\ val' = [val EXCEPT ![x] = Z]
      /\ vma' = [vma EXCEPT ![x] = W]
  BY <1>1, <1>2 DEF Munmap, Gone
<1>5. /\ refcount' = [p \in Page |-> refcount[p] - Cardinality({a \in G : Mapping(x, a, p)})]
      /\ free' = free \cup {p \in Page : /\ Cardinality({a \in G : Mapping(x, a, p)}) > 0
                                         /\ Cardinality({a \in G : Mapping(x, a, p)}) = refcount[p]}
  BY DEF Munmap, Gone, Mapping
<1>6. G \in SUBSET Addr /\ vma[x] \in SUBSET Area /\ Tidy(vma[x])
  BY DEF Gone, TypeOK, Areas
<1>7. /\ W \in SUBSET Area /\ Tidy(W)
      /\ \A a \in Addr \ G : (\E v \in vma[x] : a \in PagesOf(v)) => \E w \in W : a \in PagesOf(w)
  <2>1. Trimmed(vma[x], W, G)
    BY <1>2, <1>6, MunmapTidy
  <2> QED BY <2>1 DEF Trimmed
<1>8. P \in [Addr -> Entry \cup {None}]
  <2>1. \A a \in Addr : (IF a \in G THEN None ELSE pte[x][a]) \in Entry \cup {None}
    BY DEF TypeOK
  <2> QED BY <1>1, <2>1
<1>9. Z \in [Addr -> Data]
  <2>1. 0 \in Data
    BY DEF Data
  <2>2. \A a \in Addr : (IF a \in G THEN 0 ELSE val[x][a]) \in Data
    BY <2>1 DEF TypeOK
  <2> QED BY <1>1, <2>2
<1>10. /\ vma' \in [MM -> SUBSET Area] /\ vma'[x] = W
       /\ pte' \in [MM -> [Addr -> Entry \cup {None}]] /\ pte'[x] = P
       /\ val' \in [MM -> [Addr -> Data]] /\ val'[x] = Z
       /\ \A n \in MM : n # x => vma'[n] = vma[n] /\ pte'[n] = pte[n] /\ val'[n] = val[n]
  <2>1. vma' \in [MM -> SUBSET Area] /\ vma'[x] = W /\ \A n \in MM : n # x => vma'[n] = vma[n]
    BY <1>3, <1>7 DEF TypeOK
  <2>2. /\ pte' \in [MM -> [Addr -> Entry \cup {None}]] /\ pte'[x] = P
        /\ \A n \in MM : n # x => pte'[n] = pte[n]
    BY <1>3, <1>8 DEF TypeOK
  <2>3. /\ val' \in [MM -> [Addr -> Data]] /\ val'[x] = Z
        /\ \A n \in MM : n # x => val'[n] = val[n]
    BY <1>3, <1>9 DEF TypeOK
  <2> QED BY <2>1, <2>2, <2>3
<1>11. /\ \A a \in G : pte'[x][a] = None /\ val'[x][a] = 0
       /\ \A a \in Addr \ G : pte'[x][a] = pte[x][a] /\ val'[x][a] = val[x][a]
  <2>1. ASSUME NEW a \in G PROVE pte'[x][a] = None /\ val'[x][a] = 0
    <3>1. P[a] = None /\ Z[a] = 0
      BY <1>1, <1>6
    <3> QED BY <1>10, <3>1
  <2>2. ASSUME NEW a \in Addr \ G PROVE pte'[x][a] = pte[x][a] /\ val'[x][a] = val[x][a]
    <3>1. P[a] = pte[x][a] /\ Z[a] = val[x][a]
      BY <1>1
    <3> QED BY <1>10, <3>1
  <2> QED BY <2>1, <2>2
<1>12. ASSUME NEW p \in Page
       PROVE  /\ refcount'[p] = refcount[p] - Cardinality({a \in G : Mapping(x, a, p)})
              /\ p \in free' <=> p \in free \/ /\ Cardinality({a \in G : Mapping(x, a, p)}) > 0
                                               /\ Cardinality({a \in G : Mapping(x, a, p)}) = refcount[p]
  BY <1>5
<1>13. refcount' \in [Page -> Int] /\ free' \in SUBSET Page
  <2>1. ASSUME NEW p \in Page PROVE refcount[p] - Cardinality({a \in G : Mapping(x, a, p)}) \in Int
    <3>1. PICK D : D = {a \in G : Mapping(x, a, p)}
      OBVIOUS
    <3>2. D \in SUBSET Addr
      BY <1>6, <3>1
    <3>3. Cardinality(D) \in Nat
      BY <3>2, MmAssumption, FS_Subset, FS_CardinalityType
    <3>4. refcount[p] \in Int
      BY DEF TypeOK
    <3>5. refcount[p] - Cardinality(D) \in Int
      BY <3>3, <3>4, SMT
    <3> QED BY <3>1, <3>5
  <2>2. free' \in SUBSET Page
    BY <1>5 DEF TypeOK
  <2> QED BY <1>5, <2>1, <2>2
<1>14. Areas'
  <2> SUFFICES ASSUME NEW n \in MM
               PROVE  /\ Tidy(vma'[n]) /\ (op'[n] = Unused => vma'[n] = {})
                      /\ \A a \in Addr : pte'[n][a] # None => Covered(n, a)'
    BY DEF Areas, Tidy
  <2>1. CASE n # x
    <3>1. vma'[n] = vma[n] /\ pte'[n] = pte[n]
      BY <1>10, <2>1
    <3> QED BY <3>1 DEF Areas, Covered
  <2>2. CASE n = x
    <3>1. ASSUME NEW a \in Addr, pte'[n][a] # None PROVE Covered(n, a)'
      <4>1. a \in Addr \ G /\ pte[x][a] # None
        BY <1>11, <2>2, <3>1
      <4>2. \E v \in vma[x] : a \in PagesOf(v)
        BY <4>1 DEF Areas, Covered
      <4>3. \E w \in W : a \in PagesOf(w)
        BY <1>7, <4>1, <4>2
      <4> QED BY <1>10, <2>2, <4>3 DEF Covered
    <3> QED BY <1>7, <1>10, <2>2, <3>1
  <2> QED BY <2>1, <2>2
<1>15. Unmaps(x, G)
  BY <1>10, <1>11, <1>12 DEF Unmaps
<1> QED BY <1>10, <1>13, <1>14, <1>15


LEMMA MunmapPages ==
  ASSUME TypeOK, Counted, ZeroInv, WriteInv, ReadyInv, SameContent,
         NEW x \in MM, NEW G \in SUBSET Addr, ~Ready(x),
         UNCHANGED <<content, base>>,
         \A n \in MM : HoldingKept(n) /\ ReadyKept(n), Unmaps(x, G)
  PROVE  Counted' /\ ZeroInv' /\ WriteInv' /\ ReadyInv' /\ SameContent'
<1>0. /\ \A n \in MM : n # x => pte'[n] = pte[n] /\ val'[n] = val[n]
      /\ \A a \in G : pte'[x][a] = None
      /\ \A a \in Addr \ G : pte'[x][a] = pte[x][a] /\ val'[x][a] = val[x][a]
  BY DEF Unmaps
<1>1. ASSUME NEW p \in Page
      PROVE  /\ Count(p)' /\ (p \in free' /\ p \notin free => base[p] = 0)
             /\ (\A a \in Addr : ~Mapping(x, a, p)) => (p \in free' <=> p \in free)
  <2>1. PICK D, k : D = {a \in G : Mapping(x, a, p)} /\ k = Cardinality(D)
    OBVIOUS
  <2>2. /\ refcount'[p] = refcount[p] - k
        /\ p \in free' <=> p \in free \/ (k > 0 /\ k = refcount[p])
    BY <2>1 DEF Unmaps
  <2>3. /\ k \in Nat
        /\ Cardinality(Maps(p)') = Cardinality(Maps(p)) - k
        /\ D = {} => Maps(p)' = Maps(p) /\ k = 0
        /\ D # {} => Maps(p) # {}
    <3>1. Cleared(x, G)
      BY <1>0 DEF Cleared
    <3>2. Loses(p, D)
      BY <2>1, <3>1, PutsCount
    <3> QED BY <2>1, <3>2 DEF Loses
  <2>4. Holders(p)' = Holders(p)
    BY HoldersSame
  <2>5. Count(p) /\ base[p] \in Nat /\ refcount[p] \in Int /\ base'[p] = base[p]
    BY DEF Counted, TypeOK
  <2>6. Count(p)' /\ (p \in free' /\ p \notin free => base[p] = 0)
    BY <2>1, <2>2, <2>3, <2>4, <2>5, PutsKeepCount
  <2>7. ASSUME \A a \in Addr : ~Mapping(x, a, p) PROVE p \in free' <=> p \in free
    <3>1. k = 0
      BY <2>1, <2>3, <2>7
    <3>2. ~(k > 0)
      BY <3>1, SMT
    <3> QED BY <2>2, <3>2
  <2> QED BY <2>6, <2>7
<1>2. Counted'
  BY <1>1 DEF Counted
<1>3. ZeroInv'
  <2>1. ZeroPage \in Page /\ base[ZeroPage] # 0
    BY MmAssumption, SMT DEF ZeroInv
  <2>2. ZeroPage \notin free'
    BY <1>1, <2>1 DEF ZeroInv
  <2> QED BY <2>2 DEF ZeroInv
<1>4. \A n \in MM, a \in Addr : Weakened(n, a)
  BY <1>0 DEF Weakened, Dropped
<1>5. WriteInv'
  BY <1>4, WriteWeakened
<1>6. ReadyInv'
  <2>1. ASSUME NEW n \in MM, Ready(n)' PROVE StaysReady(n, op[n].new)
    <3>1. Ready(n) /\ op[n] \in OpFault
      BY <2>1, OpKinds DEF ReadyKept, TypeOK, Ready
    <3>2. n # x
      BY <3>1
    <3>3. PICK q \in Page : q = op[n].new
      BY <3>1, SMT DEF OpFault
    <3>4. q \notin free /\ content[q] = val[n][op[n].addr] /\ Sole(n, op[n].addr, q)
      BY <3>1, <3>3 DEF ReadyInv
    <3>5. q \notin free'
      BY <1>1, <3>2, <3>4 DEF Sole
    <3>6. \A k \in MM : Held(k, q)' => Held(k, q)
      BY DEF HoldingKept, Held
    <3>7. \A k \in MM, a \in Addr : Mapping(k, a, q)' => Mapping(k, a, q)
      BY <1>4, WeakenedMaps
    <3>8. content'[q] = val'[n][op[n].addr]
      BY <1>0, <3>2, <3>4
    <3>9. StaysReady(n, q)
      BY <3>5, <3>6, <3>7, <3>8 DEF StaysReady
    <3> QED BY <3>3, <3>9
  <2> QED BY <2>1, ReadyStep
<1>7. SameContent'
  <2> SUFFICES ASSUME NEW n \in MM, NEW a \in Addr, pte'[n][a] # None
               PROVE  content[pte'[n][a].page] = val'[n][a]
    BY DEF SameContent
  <2>1. pte'[n][a] = pte[n][a] /\ val'[n][a] = val[n][a]
    BY <1>0
  <2> QED BY <2>1 DEF SameContent
<1> QED BY <1>2, <1>3, <1>5, <1>6, <1>7

LEMMA MunmapStep ==
  ASSUME IInv, ~raced, NEW m \in MM, NEW x \in MM, x = m \/ Owns(m, x),
         Kind(m) \in {"running", "exec", "release"}, NEW b \in Nat, NEW e \in Nat, b <= e,
         b % PAGE_SIZE = 0, Munmap(x, b, e), UNCHANGED <<content, raced, base>>,
         NEW o \in Op, op' = [op EXCEPT ![m] = o],
         o.kind \in {"running", "release"}, \A y \in MM : Owns(m, y)' => Owns(m, y),
         Live(m)' => Live(m)
  PROVE  IInv'
<1>1. /\ TypeOK /\ Owned /\ Areas /\ BlankInv(m)
      /\ Counted /\ ZeroInv /\ WriteInv /\ ReadyInv /\ SameContent
  BY DEF IInv, PageInv, OpInv, Blank
<1>2. PICK G : G = Gone(b, e)
  OBVIOUS
<1>3. op[m] # Private /\ op[m] # Unused /\ o # Unused
  BY SMT DEF Kind, Private, Unused
<1>4. op' \in [MM -> Op] /\ op'[m] = o /\ \A n \in MM : n # m => op'[n] = op[n]
  BY <1>1, GotoOp DEF TypeOK
<1>5. x # m => op[x] = Private
  BY <1>1 DEF Owned
<1>6. op[x] # Unused /\ \A n \in MM : op'[n] = Unused => op[n] = Unused
  <2>1. Private # Unused
    BY SMT DEF Private, Unused
  <2> QED BY <1>3, <1>4, <1>5, <2>1
<1>7. /\ vma' \in [MM -> SUBSET Area] /\ pte' \in [MM -> [Addr -> Entry \cup {None}]]
      /\ val' \in [MM -> [Addr -> Data]] /\ refcount' \in [Page -> Int] /\ free' \in SUBSET Page
      /\ Areas' /\ Unmaps(x, G)
  BY <1>1, <1>2, <1>6, MunmapEffect
<1>8. G \in SUBSET Addr
  BY <1>2 DEF Gone
<1>9. TypeOK'
  BY <1>1, <1>4, <1>7 DEF TypeOK
<1>10. Owned'
  BY <1>1, <1>3, <1>4, OwnedStep
<1>11. Kind(m)' \in {"running", "release"}
  BY <1>4 DEF Kind
<1>12. OpInv' /\ Blank'
  <2>1. Near(m, x) /\ Others(m, x)
    BY <1>4, <1>7 DEF Near, Others, Unmaps
  <2>2. FaultInv(m)' /\ ForkInv(m)' /\ ExecInv(m)'
    BY <1>11 DEF FaultInv, ForkInv, ExecInv
  <2>3. BlankInv(m)'
    <3>1. Zeros(m) => Zeros(m)'
      BY <1>7 DEF Zeros, Unmaps
    <3>2. Live(m)' => Zeros(m)'
      BY <1>1, <3>1 DEF BlankInv
    <3> QED BY <1>11, <3>2 DEF BlankInv
  <2>4. ASSUME x # m PROVE Idle(x)' /\ BlankInv(x)'
    <3>1. op'[x] = Private
      BY <1>4, <1>5, <2>4
    <3>2. Kind(x)' = "private"
      BY <3>1, SMT DEF Kind, Private
    <3> QED BY <3>2 DEF Idle, BlankInv, Live
  <2> QED BY <1>3, <2>1, <2>2, <2>3, <2>4, LocalStep
<1>13. \A n \in MM : HoldingKept(n) /\ ReadyKept(n)
  <2>1. ~Ready(m)' /\ ~Holding(m)' /\ ~Holding(m)
    BY <1>11 DEF Ready, Holding
  <2> QED BY <1>4, <2>1, CalmSame DEF Calm, HoldingKept, ReadyKept
<1>14. ~Ready(x)
  <2>1. x = m => Kind(x) # "fault"
    OBVIOUS
  <2>2. x # m => Kind(x) # "fault"
    BY <1>5, SMT DEF Kind, Private
  <2> QED BY <2>1, <2>2 DEF Ready
<1>15. Counted' /\ ZeroInv' /\ WriteInv' /\ ReadyInv' /\ SameContent'
  BY <1>1, <1>7, <1>8, <1>13, <1>14, MunmapPages
<1> QED BY <1>7, <1>9, <1>10, <1>12, <1>15 DEF IInv, PageInv


LEMMA MunmapCallStep ==
  ASSUME IInv, ~raced, NEW m \in MM, NEW first \in Addr, NEW last \in Addr, first <= last,
         munmap(m, first, last)
  PROVE  IInv'
<1>1. TypeOK /\ op[m] = Running
  BY DEF IInv, munmap
<1>2. first \in Nat /\ last \in Nat
  BY MmAssumption
<1>3. PICK b \in Nat, e \in Nat : /\ b = first * PAGE_SIZE /\ e = (last + 1) * PAGE_SIZE
                                  /\ b <= e /\ b % PAGE_SIZE = 0
  BY <1>2, SMT DEF PAGE_SIZE
<1>4. Munmap(m, b, e) /\ UNCHANGED <<op, content, raced, base>>
  BY <1>3 DEF munmap
<1>5. Kind(m) = "running" /\ Running.kind = "running" /\ Running \in Op
  BY <1>1, SMT DEF Kind, Running, Op, OpPlain
<1>6. op' = [op EXCEPT ![m] = Running]
  BY <1>1, <1>4 DEF TypeOK
<1>7. (\A y \in MM : Owns(m, y)' => Owns(m, y)) /\ (Live(m)' => Live(m))
  BY <1>4 DEF Owns, Live, Kind
<1> QED BY <1>3, <1>4, <1>5, <1>6, <1>7, MunmapStep

LEMMA UnmapAllStep ==
  ASSUME IInv, ~raced, NEW m \in MM, unmap_all_vma(m)
  PROVE  IInv'
<1>1. TypeOK /\ Areas
  BY DEF IInv
<1>2. PICK x : x = op[m].mm
  OBVIOUS
<1>3. PICK v : v = CHOOSE z \in vma[x] : \A w \in vma[x] : z.begin <= w.begin
  OBVIOUS
<1>4. /\ Kind(m) = "release" /\ vma[x] # {}
      /\ \/ /\ v.begin % PAGE_SIZE = 0
            /\ Munmap(x, v.begin, v.end)
            /\ UNCHANGED <<op, content, raced, base>>
         \/ Goto(m, [kind |-> "stuck"]) /\ UNCHANGED <<Memory, raced>>
  BY <1>2, <1>3 DEF unmap_all_vma, Kind
<1>5. CASE Goto(m, [kind |-> "stuck"]) /\ UNCHANGED <<Memory, raced>>
  BY <1>4, <1>5, StuckStep
<1>6. CASE /\ v.begin % PAGE_SIZE = 0
           /\ Munmap(x, v.begin, v.end)
           /\ UNCHANGED <<op, content, raced, base>>
  <2>1. op[m] \in OpRelease /\ op[m] \in Op
    BY <1>1, <1>4, OpKinds DEF TypeOK
  <2>2. x \in MM
    BY <1>2, <2>1, SMT DEF OpRelease
  <2>3. x = m \/ Owns(m, x)
    BY <1>2, <1>4 DEF Owns
  <2>4. vma[x] \subseteq Area /\ Tidy(vma[x])
    BY <1>1, <2>2 DEF TypeOK, Areas
  <2>5. v \in vma[x]
    BY <1>3, <1>4, <2>4, LowestIn, Facts
  <2>6. v.begin \in Nat /\ v.end \in Nat /\ v.begin <= v.end
    <3>1. v \in Area /\ v.begin <= v.end
      BY <2>4, <2>5 DEF Tidy
    <3> QED BY <3>1, SMT DEF Area
  <2>7. op' = [op EXCEPT ![m] = op[m]] /\ op[m].kind \in {"running", "release"}
    BY <1>1, <1>4, <1>6 DEF TypeOK, Kind
  <2>8. (\A y \in MM : Owns(m, y)' => Owns(m, y)) /\ (Live(m)' => Live(m))
    BY <1>6 DEF Owns, Live, Kind
  <2> QED BY <1>4, <1>6, <2>1, <2>2, <2>3, <2>6, <2>7, <2>8, MunmapStep
<1> QED BY <1>4, <1>5, <1>6

LEMMA LoadFailsStep ==
  ASSUME IInv, ~raced, NEW m \in MM, LoadFails(m)
  PROVE  IInv'
<1>1. TypeOK /\ Owned /\ ExecInv(m)
  BY DEF IInv, OpInv
<1>2. PICK f, x, h, o : /\ f = op[m] /\ x = f.new /\ h = Head(f.prog)
                        /\ o = [kind |-> "release", mm |-> x]
  OBVIOUS
<1>3. /\ Kind(m) = "exec" /\ f.stage = "load"
      /\ \/ /\ h.begin % PAGE_SIZE = 0
            /\ Munmap(x, h.begin, h.begin + h.memsz)
            /\ op' = [op EXCEPT ![m] = o]
            /\ UNCHANGED <<content, raced, base>>
         \/ Goto(m, [kind |-> "stuck"]) /\ UNCHANGED <<Memory, raced>>
  BY <1>2 DEF LoadFails, Execing, Kind, Fail, Goto
<1>4. CASE Goto(m, [kind |-> "stuck"]) /\ UNCHANGED <<Memory, raced>>
  BY <1>3, <1>4, StuckStep
<1>5. CASE /\ h.begin % PAGE_SIZE = 0
           /\ Munmap(x, h.begin, h.begin + h.memsz)
           /\ op' = [op EXCEPT ![m] = o]
           /\ UNCHANGED <<content, raced, base>>
  <2>1. f \in OpExec
    BY <1>1, <1>2, <1>3, OpKinds DEF TypeOK
  <2>2. x \in MM /\ f.prog \in Seq(Phdr)
    BY <1>2, <2>1, SMT DEF OpExec
  <2>3. f.prog # << >>
    BY <1>1, <1>2, <1>3 DEF ExecInv
  <2>4. h \in Phdr
    BY <1>2, <2>2, <2>3, SMT
  <2>5. PICK e \in Nat : e = h.begin + h.memsz /\ h.begin \in Nat /\ h.begin <= e
    BY <2>4, SMT DEF Phdr
  <2>6. Owns(m, x)
    BY <1>2, <1>3 DEF Owns
  <2>7. o \in Op /\ o.kind = "release" /\ o.mm = x
    <3>1. o \in OpRelease
      BY <1>2, <2>2 DEF OpRelease
    <3> QED BY <1>2, <3>1 DEF Op
  <2>8. op'[m] = o
    BY <1>1, <1>5 DEF TypeOK
  <2>9. Kind(m)' = "release" /\ op'[m].mm = x
    BY <2>7, <2>8 DEF Kind
  <2>10. \A y \in MM : Owns(m, y)' => Owns(m, y)
    BY <2>6, <2>9 DEF Owns
  <2>11. Live(m)
    BY <1>3 DEF Live
  <2> QED BY <1>3, <1>5, <2>2, <2>5, <2>6, <2>7, <2>10, <2>11, MunmapStep
<1> QED BY <1>3, <1>4, <1>5


-----------------------------------------------------------------------------
LEMMA InitInv ==
  ASSUME Init
  PROVE  IInv
<1>1. PICK m \in MM : op = [n \in MM |-> IF n = m THEN Running ELSE Unused]
  BY DEF Init
<1>2. /\ vma = [n \in MM |-> {}] /\ pte = [n \in MM |-> Empty]
      /\ refcount = [p \in Page |-> IF p = ZeroPage THEN 1 ELSE 0]
      /\ free = Page \ {ZeroPage} /\ content = [p \in Page |-> 0] /\ raced = FALSE
      /\ val = [n \in MM |-> [a \in Addr |-> 0]]
      /\ base = [p \in Page |-> IF p = ZeroPage THEN 1 ELSE 0]
  BY DEF Init
<1>3. ASSUME NEW n \in MM
      PROVE  /\ op[n] \in Op /\ Kind(n) \in {"running", "unused"}
             /\ vma[n] = {} /\ pte[n] = Empty /\ val[n] = [a \in Addr |-> 0]
  <2>1. op[n] \in {Running, Unused} /\ vma[n] = {} /\ pte[n] = Empty /\ val[n] = [a \in Addr |-> 0]
    BY <1>1, <1>2
  <2>2. op[n] \in Op /\ Kind(n) \in {"running", "unused"}
    BY <2>1, SMT DEF Op, OpPlain, Running, Unused, Kind
  <2> QED BY <2>1, <2>2
<1>4. TypeOK
  <2>1. op \in [MM -> Op]
    <3>1. \A n \in MM : (IF n = m THEN Running ELSE Unused) \in Op
      BY <1>1, <1>3
    <3> QED BY <1>1, <3>1
  <2>2. vma \in [MM -> SUBSET Area] /\ pte \in [MM -> [Addr -> Entry \cup {None}]]
    BY <1>2 DEF Empty
  <2>3. content \in [Page -> Data] /\ val \in [MM -> [Addr -> Data]]
    BY <1>2 DEF Data
  <2>4. refcount \in [Page -> Int] /\ base \in [Page -> Nat]
    BY <1>2, SMT
  <2>5. free \in SUBSET Page /\ raced \in BOOLEAN
    BY <1>2
  <2> QED BY <2>1, <2>2, <2>3, <2>4, <2>5 DEF TypeOK
<1>5. Owned
  BY <1>3 DEF Owned, Owns
<1>6. \A n \in MM, a \in Addr : pte[n][a] = None /\ val[n][a] = 0
  <2>1. \A a \in Addr : Empty[a] = None /\ [b \in Addr |-> 0][a] = 0
    BY DEF Empty
  <2> QED BY <1>3, <2>1
<1>7. Areas
  BY <1>3, <1>6 DEF Areas, Tidy
<1>8. OpInv
  BY <1>3 DEF OpInv, FaultInv, ForkInv, ExecInv
<1>9. \A p : Maps(p) = {} /\ Holders(p) = {}
  <2> SUFFICES ASSUME NEW p PROVE Maps(p) = {} /\ Holders(p) = {}
    OBVIOUS
  <2>1. Maps(p) = {}
    <3>1. \A n \in MM, a \in Addr : ~Mapping(n, a, p)
      BY <1>6 DEF Mapping
    <3> QED BY <3>1, SMT DEF Maps, Mapping
  <2>2. Holders(p) = {}
    BY <1>3 DEF Holders
  <2> QED BY <2>1, <2>2
<1>10. Counted
  <2> SUFFICES ASSUME NEW p \in Page PROVE Count(p)
    BY DEF Counted
  <2>1. CASE p = ZeroPage
    <3>1. refcount[p] = 1 /\ base[p] = 1 /\ p \notin free
      BY <1>2, <2>1
    <3>2. refcount[p] = base[p] + 0 + 0
      BY <3>1, SMT
    <3> QED BY <1>9, <3>1, <3>2, FS_EmptySet DEF Count
  <2>2. CASE p # ZeroPage
    <3>1. refcount[p] = 0 /\ p \in free
      BY <1>2, <2>2
    <3>2. refcount[p] >= 0
      BY <3>1, SMT
    <3> QED BY <1>9, <3>1, <3>2 DEF Count
  <2> QED BY <2>1, <2>2
<1>11. ZeroInv
  BY <1>2, MmAssumption DEF ZeroInv
<1>12. WriteInv /\ SameContent
  BY <1>6 DEF WriteInv, Writable, SameContent
<1>13. ReadyInv
  BY <1>3 DEF ReadyInv, Ready
<1>14. Blank
  BY <1>3, <1>6 DEF Blank, BlankInv, Zeros
<1> QED BY <1>4, <1>5, <1>7, <1>8, <1>10, <1>11, <1>12, <1>13, <1>14 DEF IInv, PageInv

LEMMA NextInv ==
  ASSUME IInv, Next
  PROVE  IInv'
<1>1. ~raced
  BY DEF Next
<1>2. CASE Slabs
  BY <1>1, <1>2, SlabStep DEF Slabs
<1>3. ASSUME NEW m \in MM, MapStep(m) PROVE IInv'
  BY <1>1, <1>3, MmapStep, MunmapCallStep DEF MapStep
<1>4. ASSUME NEW m \in MM, WriteStep(m) PROVE IInv'
  BY <1>1, <1>4, UserWriteStep DEF WriteStep
<1>5. ASSUME NEW m \in MM, FaultStep(m) PROVE IInv'
  BY <1>1, <1>5, PageFaultStep, FaultCopyStep, FaultFailsStep, FaultMovesStep,
     FaultMapStep, FaultDropStep, Facts DEF FaultStep
<1>6. ASSUME NEW m \in MM, ForkStep(m) PROVE IInv'
  BY <1>1, <1>6, ForkStarts, CopyVmaStep, ForkGetPageStep, ForkMapStep, Facts, ForkDoneStep,
     GiveUpStep DEF ForkStep
<1>7. ASSUME NEW m \in MM, ReleaseStep(m) PROVE IInv'
  BY <1>1, <1>7, ExitStep, UnmapAllStep, ReleasedStep DEF ReleaseStep
<1>8. ASSUME NEW m \in MM, ExecStep(m) PROVE IInv'
  BY <1>1, <1>8, ExecStarts, SetupStackStep, CopyArgsStep, LoadBinaryStep, MapElfPhdrStep,
     SegmentLoadedStep, LoadFailsStep, GiveUpStep, ExecDoneStep DEF ExecStep
<1> QED BY <1>2, <1>3, <1>4, <1>5, <1>6, <1>7, <1>8 DEF Next, MmStep

LEMMA SameInv ==
  ASSUME IInv, UNCHANGED mmvars
  PROVE  IInv'
<1>1. UNCHANGED <<op, vma, pte, refcount, free, content, raced, val, base>>
  BY DEF mmvars
<1>2. TypeOK' /\ Owned' /\ Areas'
  <2>1. TypeOK /\ Owned /\ Areas
    BY DEF IInv
  <2>2. TypeOK'
    BY <1>1, <2>1 DEF TypeOK
  <2>3. Owned'
    BY <1>1, <2>1, OwnedSame
  <2>4. Areas'
    BY <1>1, <2>1 DEF Areas, Covered
  <2> QED BY <2>2, <2>3, <2>4
<1>3. OpInv'
  <2> SUFFICES ASSUME NEW m \in MM PROVE FaultInv(m)' /\ ForkInv(m)' /\ ExecInv(m)'
    BY DEF OpInv
  <2>1. FaultInv(m) /\ ForkInv(m) /\ ExecInv(m)
    BY DEF IInv, OpInv
  <2>2. FaultInv(m)'
    BY <1>1, <2>1 DEF FaultInv, Kind, Holding, Faulting, Covered, Writable
  <2>3. ForkInv(m)'
    BY <1>1, <2>1 DEF ForkInv, Kind, Covered, Writable, Mapping
  <2>4. ExecInv(m)'
    BY <1>1, <2>1 DEF ExecInv, Kind, Covered, Loading
  <2> QED BY <2>2, <2>3, <2>4
<1>4. ~raced => PageInv
  BY DEF IInv
<1>5. ASSUME ~raced' PROVE PageInv'
  <2>1. PageInv
    BY <1>1, <1>4, <1>5
  <2>2. \A n \in MM : Calm(n)
    BY <1>1, CalmSame
  <2>3. Counted' /\ ZeroInv' /\ WriteInv' /\ ReadyInv' /\ SameContent'
    BY <1>1, <2>1, <2>2, QuietPages
  <2>4. Blank'
    BY <1>1, <2>1 DEF PageInv, Blank, BlankInv, Live, Zeros, Kind
  <2> QED BY <2>3, <2>4 DEF PageInv
<1> QED BY <1>2, <1>3, <1>5 DEF IInv

(* The invariant holds in every behaviour of the address spaces, for any   *)
(* number of address spaces, pages, areas and programs.                    *)
THEOREM Invariant == Spec => []IInv
<1>1. IInv /\ [Next]_mmvars => IInv'
  BY NextInv, SameInv
<1> QED BY InitInv, <1>1, PTL DEF Spec

(* Copy on write isolates the address spaces: a thread finds what it wrote,*)
(* or what its parent had written when it forked (mm.c, anon_page_fault    *)
(* and copy_vma).                                                          *)
THEOREM Isolation == Spec => []CowIsolation
<1>1. ASSUME IInv PROVE CowIsolation
  <2> SUFFICES ASSUME ~raced, NEW m \in MM, NEW a \in Addr
               PROVE  IF pte[m][a] # None THEN content[pte[m][a].page] = val[m][a]
                      ELSE op[m].kind \in {"running", "fault", "fork"} => val[m][a] = 0
    BY DEF CowIsolation
  <2>1. SameContent /\ BlankInv(m)
    BY <1>1 DEF IInv, PageInv, Blank
  <2>2. op[m].kind \in {"running", "fault", "fork"} => Zeros(m)
    BY <2>1 DEF BlankInv, Live, Kind
  <2> QED BY <2>1, <2>2 DEF SameContent, Zeros
<1> QED BY Invariant, <1>1, PTL

(* The count of a page is the number of its entries and of the faults that *)
(* hold it, on top of the value it started from; a free page has no entry  *)
(* (get_page, put_page and copy_page).                                     *)
THEOREM Counting == Spec => []PagesCounted
<1>1. ASSUME IInv PROVE PagesCounted
  <2> SUFFICES ASSUME ~raced, NEW p \in Page
               PROVE  /\ p \in free => Mapped(p) = 0
                      /\ p \notin free => refcount[p] = base[p] + Mapped(p) + InFlight(p)
    BY DEF PagesCounted
  <2>1. Count(p)
    BY <1>1 DEF IInv, PageInv, Counted
  <2>2. Mapped(p) = Cardinality(Maps(p)) /\ InFlight(p) = Cardinality(Holders(p))
    BY DEF Mapped, Maps, InFlight, Holders, Kind
  <2> QED BY <2>1, <2>2, FS_EmptySet DEF Count
<1> QED BY Invariant, <1>1, PTL

(* Whichever step of fork or exec fails, nothing of the half built address *)
(* space is left behind; areas never overlap, and entries lie in areas.    *)
THEOREM Cleanup == Spec => []NothingLeftBehind
<1>1. ASSUME IInv PROVE NothingLeftBehind
  <2>1. TypeOK /\ Areas
    BY <1>1 DEF IInv
  <2>2. ASSUME NEW m \in MM, op[m] = Unused PROVE vma[m] = {} /\ pte[m] = Empty
    <3>1. vma[m] = {}
      BY <2>1, <2>2 DEF Areas
    <3> QED BY <2>1, <3>1, NoAreas
  <2>3. ASSUME NEW m \in MM, NEW v \in vma[m], NEW w \in vma[m], v # w
        PROVE  ~Overlap(v, w.begin, w.end)
    BY <2>1, <2>3 DEF Areas, Tidy
  <2>4. ASSUME NEW m \in MM
        PROVE  {a \in Addr : pte[m][a] # None} \subseteq UNION {PagesOf(v) : v \in vma[m]}
    BY <2>1 DEF Areas, Covered
  <2> QED BY <2>2, <2>3, <2>4 DEF NothingLeftBehind
<1> QED BY Invariant, <1>1, PTL

=============================================================================
