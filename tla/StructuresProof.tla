-------------------------- MODULE StructuresProof --------------------------
(***************************************************************************)
(* Interrupt dispatch keeps its mask exact, for any lines and handlers, and*)
(* a ramfs file is the bytes written to it, for any openers, writes, size  *)
(* of a page and length. The kmap window, for any number of pages and      *)
(* orders, is always tiled by its ranges and every buffer shows its own    *)
(* pages.                                                                  *)
(***************************************************************************)
EXTENDS Interrupts, RamfsFile, Kmap, TLAPS

USE ZenonT(60), SMTT(60)

(* The thread holds line i closed, or nobody has registered it.            *)
Kept(i) ==
  handler[i] = None \/ (irq = i /\ pc \in {"unmask", "mask_load", "mask_store", "mask_out", "clear"})

Counted ==
  \A i \in Irq :
    /\ ~Kept(i) /\ isr # i => count[i] = 0
    /\ Kept(i) /\ isr = i => count[i] = 2
    /\ ~Kept(i) /\ isr = i => count[i] = 1
    /\ Kept(i) /\ isr # i => count[i] = 1

(* Where the thread is in the middle of changing the bit of its line, the  *)
(* mask has the old bit; the controllers have the mask, except that the    *)
(* bit of the line may still have to reach them.                           *)
MaskInv ==
  \A i \in Irq :
    /\ i = irq /\ pc \in {"unmask_load", "unmask_store"} => i \in mask
    /\ i = irq /\ pc \in {"mask_load", "mask_store"} => i \notin mask
    /\ i # irq \/ pc \notin {"unmask_load", "unmask_store", "mask_load", "mask_store"}
         => (i \in mask <=> count[i] # 0)
    /\ i # irq \/ pc \notin {"unmask_out", "mask_out"} => (i \in imr <=> i \in mask)
    /\ pc \in {"unmask_store", "mask_store"} /\ i # irq => (i \in tmp <=> Kept(i))

ThreadInv ==
  /\ pc # "idle" => irq \in Irq /\ handler[irq] # None
  /\ \A i \in Irq : i \in gate <=> handler[i] # None
  /\ isr \in Irq => handler[isr] # None
  /\ pc \in {"unmask", "unmask_load", "unmask_store", "clear"} => isr # irq

IInv == TypeOK /\ Counted /\ MaskInv /\ ThreadInv
(* setup_ints establishes the invariant. *)
LEMMA InitIInv == Init => IInv
BY InterruptsAssumption, SMT DEF Init, IInv, TypeOK, Pc, Counted, Kept, MaskInv, ThreadInv

(* Every step preserves it. *)
LEMMA NextIInv == IInv /\ [Next]_vars => IInv'
<1> SUFFICES ASSUME TypeOK, Counted, MaskInv, ThreadInv, [Next]_vars
             PROVE  TypeOK' /\ Counted' /\ MaskInv' /\ ThreadInv'
  BY DEF IInv
<1>1. ASSUME NEW i \in Irq, EnterIsr(i)
       PROVE  TypeOK' /\ Counted' /\ MaskInv' /\ ThreadInv'
  <2>1. TypeOK'
    BY <1>1, InterruptsAssumption, SMTT(60) DEF TypeOK, Pc, EnterIsr, Out, Half
  <2>2. Counted'
    BY <1>1, InterruptsAssumption, SMT DEF TypeOK, Pc, Counted, Kept, ThreadInv, MaskInv, EnterIsr, Out, Half
  <2>3. MaskInv'
    BY <1>1, InterruptsAssumption, SMT DEF TypeOK, Pc, Counted, Kept, ThreadInv, MaskInv, EnterIsr, Out, Half
  <2>4. ThreadInv'
    BY <1>1, InterruptsAssumption, SMT DEF TypeOK, Pc, Counted, Kept, ThreadInv, MaskInv, EnterIsr, Out, Half
  <2> QED BY <2>1, <2>2, <2>3, <2>4
<1>2. ASSUME NEW i \in Irq, LeaveIsr(i)
       PROVE  TypeOK' /\ Counted' /\ MaskInv' /\ ThreadInv'
  <2>1. TypeOK'
    BY <1>2, InterruptsAssumption, SMTT(60) DEF TypeOK, Pc, LeaveIsr, Out, Half
  <2>2. Counted'
    BY <1>2, InterruptsAssumption, SMT DEF TypeOK, Pc, Counted, Kept, ThreadInv, MaskInv, LeaveIsr, Out, Half
  <2>3. MaskInv'
    BY <1>2, InterruptsAssumption, SMT DEF TypeOK, Pc, Counted, Kept, ThreadInv, MaskInv, LeaveIsr, Out, Half
  <2>4. ThreadInv'
    BY <1>2, InterruptsAssumption, SMT DEF TypeOK, Pc, Counted, Kept, ThreadInv, MaskInv, LeaveIsr, Out, Half
  <2> QED BY <2>1, <2>2, <2>3, <2>4
<1>3. ASSUME NEW i \in Irq, unregister_irq_handler(i)
       PROVE  TypeOK' /\ Counted' /\ MaskInv' /\ ThreadInv'
  <2>1. TypeOK'
    BY <1>3, InterruptsAssumption, SMTT(60) DEF TypeOK, Pc, unregister_irq_handler, Goto
  <2>2. Counted'
    BY <1>3, InterruptsAssumption, SMT DEF TypeOK, Pc, Counted, Kept, ThreadInv, MaskInv, unregister_irq_handler, Goto
  <2>3. MaskInv'
    BY <1>3, InterruptsAssumption, SMT DEF TypeOK, Pc, Counted, Kept, ThreadInv, MaskInv, unregister_irq_handler, Goto
  <2>4. ThreadInv'
    BY <1>3, InterruptsAssumption, SMT DEF TypeOK, Pc, Counted, Kept, ThreadInv, MaskInv, unregister_irq_handler, Goto
  <2> QED BY <2>1, <2>2, <2>3, <2>4
<1>4. ASSUME NEW i \in Irq, NEW h \in Handler, register_irq_handler(i, h)
       PROVE  TypeOK' /\ Counted' /\ MaskInv' /\ ThreadInv'
  <2>1. TypeOK'
    BY <1>4, InterruptsAssumption DEF TypeOK, Pc, register_irq_handler, Goto
  <2>2. Counted'
    BY <1>4, InterruptsAssumption, SMT DEF TypeOK, Pc, Counted, Kept, ThreadInv, MaskInv, register_irq_handler, Goto
  <2>3. MaskInv'
    BY <1>4, InterruptsAssumption, SMT DEF TypeOK, Pc, Counted, Kept, ThreadInv, MaskInv, register_irq_handler, Goto
  <2>4. ThreadInv'
    BY <1>4, InterruptsAssumption, SMT DEF TypeOK, Pc, Counted, Kept, ThreadInv, MaskInv, register_irq_handler, Goto
  <2> QED BY <2>1, <2>2, <2>3, <2>4
<1>5. CASE unmask_irq
  <2>1. TypeOK'
    BY <1>5, InterruptsAssumption, SMT DEF TypeOK, Pc, ThreadInv, unmask_irq, Goto
  <2>2. Counted'
    BY <1>5, InterruptsAssumption, SMT DEF TypeOK, Pc, Counted, Kept, ThreadInv, MaskInv, unmask_irq, Goto
  <2>3. MaskInv'
    BY <1>5, InterruptsAssumption, SMT DEF TypeOK, Pc, Counted, Kept, ThreadInv, MaskInv, unmask_irq, Goto
  <2>4. ThreadInv'
    BY <1>5, InterruptsAssumption, SMT DEF TypeOK, Pc, Counted, Kept, ThreadInv, MaskInv, unmask_irq, Goto
  <2> QED BY <2>1, <2>2, <2>3, <2>4
<1>6. CASE UnmaskLoad
  <2>1. TypeOK'
    BY <1>6, InterruptsAssumption DEF TypeOK, Pc, UnmaskLoad, Goto
  <2>2. Counted'
    BY <1>6, InterruptsAssumption, SMT DEF TypeOK, Pc, Counted, Kept, ThreadInv, MaskInv, UnmaskLoad, Goto
  <2>3. MaskInv'
    BY <1>6, InterruptsAssumption, SMT DEF TypeOK, Pc, Counted, Kept, ThreadInv, MaskInv, UnmaskLoad, Goto
  <2>4. ThreadInv'
    BY <1>6, InterruptsAssumption, SMT DEF TypeOK, Pc, Counted, Kept, ThreadInv, MaskInv, UnmaskLoad, Goto
  <2> QED BY <2>1, <2>2, <2>3, <2>4
<1>7. CASE UnmaskStore
  <2>1. TypeOK'
    BY <1>7, InterruptsAssumption DEF TypeOK, Pc, UnmaskStore, Goto
  <2>2. Counted'
    BY <1>7, InterruptsAssumption, SMT DEF TypeOK, Pc, Counted, Kept, ThreadInv, MaskInv, UnmaskStore, Goto
  <2>3. MaskInv'
    BY <1>7, InterruptsAssumption, SMT DEF TypeOK, Pc, Counted, Kept, ThreadInv, MaskInv, UnmaskStore, Goto
  <2>4. ThreadInv'
    BY <1>7, InterruptsAssumption, SMT DEF TypeOK, Pc, Counted, Kept, ThreadInv, MaskInv, UnmaskStore, Goto
  <2> QED BY <2>1, <2>2, <2>3, <2>4
<1>8. CASE pic_unmask
  <2>1. TypeOK'
    BY <1>8, InterruptsAssumption DEF TypeOK, Pc, pic_unmask, Goto, Out, Half
  <2>2. Counted'
    BY <1>8, InterruptsAssumption, SMT DEF TypeOK, Pc, Counted, Kept, ThreadInv, MaskInv, pic_unmask, Goto, Out, Half
  <2>3. MaskInv'
    BY <1>8, InterruptsAssumption, SMT DEF TypeOK, Pc, Counted, Kept, ThreadInv, MaskInv, pic_unmask, Goto, Out, Half
  <2>4. ThreadInv'
    BY <1>8, InterruptsAssumption, SMT DEF TypeOK, Pc, Counted, Kept, ThreadInv, MaskInv, pic_unmask, Goto, Out, Half
  <2> QED BY <2>1, <2>2, <2>3, <2>4
<1>9. CASE MaskLoad
  <2>1. TypeOK'
    BY <1>9, InterruptsAssumption DEF TypeOK, Pc, MaskLoad, Goto
  <2>2. Counted'
    BY <1>9, InterruptsAssumption, SMT DEF TypeOK, Pc, Counted, Kept, ThreadInv, MaskInv, MaskLoad, Goto
  <2>3. MaskInv'
    BY <1>9, InterruptsAssumption, SMT DEF TypeOK, Pc, Counted, Kept, ThreadInv, MaskInv, MaskLoad, Goto
  <2>4. ThreadInv'
    BY <1>9, InterruptsAssumption, SMT DEF TypeOK, Pc, Counted, Kept, ThreadInv, MaskInv, MaskLoad, Goto
  <2> QED BY <2>1, <2>2, <2>3, <2>4
<1>10. CASE MaskStore
  <2>1. TypeOK'
    BY <1>10, InterruptsAssumption, SMT DEF TypeOK, Pc, ThreadInv, MaskStore, Goto
  <2>2. Counted'
    BY <1>10, InterruptsAssumption, SMT DEF TypeOK, Pc, Counted, Kept, ThreadInv, MaskInv, MaskStore, Goto
  <2>3. MaskInv'
    BY <1>10, InterruptsAssumption, SMT DEF TypeOK, Pc, Counted, Kept, ThreadInv, MaskInv, MaskStore, Goto
  <2>4. ThreadInv'
    BY <1>10, InterruptsAssumption, SMT DEF TypeOK, Pc, Counted, Kept, ThreadInv, MaskInv, MaskStore, Goto
  <2> QED BY <2>1, <2>2, <2>3, <2>4
<1>11. CASE pic_mask
  <2>1. TypeOK'
    BY <1>11, InterruptsAssumption DEF TypeOK, Pc, pic_mask, Goto, Out, Half
  <2>2. Counted'
    BY <1>11, InterruptsAssumption, SMT DEF TypeOK, Pc, Counted, Kept, ThreadInv, MaskInv, pic_mask, Goto, Out, Half
  <2>3. MaskInv'
    BY <1>11, InterruptsAssumption, SMT DEF TypeOK, Pc, Counted, Kept, ThreadInv, MaskInv, pic_mask, Goto, Out, Half
  <2>4. ThreadInv'
    BY <1>11, InterruptsAssumption, SMT DEF TypeOK, Pc, Counted, Kept, ThreadInv, MaskInv, pic_mask, Goto, Out, Half
  <2> QED BY <2>1, <2>2, <2>3, <2>4
<1>12. CASE ClearHandler
  <2>1. TypeOK'
    BY <1>12, InterruptsAssumption DEF TypeOK, Pc, ClearHandler, Goto
  <2>2. Counted'
    BY <1>12, InterruptsAssumption, SMT DEF TypeOK, Pc, Counted, Kept, ThreadInv, MaskInv, ClearHandler, Goto
  <2>3. MaskInv'
    BY <1>12, InterruptsAssumption, SMT DEF TypeOK, Pc, Counted, Kept, ThreadInv, MaskInv, ClearHandler, Goto
  <2>4. ThreadInv'
    BY <1>12, InterruptsAssumption, SMT DEF TypeOK, Pc, Counted, Kept, ThreadInv, MaskInv, ClearHandler, Goto
  <2> QED BY <2>1, <2>2, <2>3, <2>4
<1>13. CASE UNCHANGED vars
  <2>1. TypeOK'
    BY <1>13, InterruptsAssumption DEF TypeOK, Pc, vars
  <2>2. Counted'
    BY <1>13, InterruptsAssumption, SMT DEF TypeOK, Pc, Counted, Kept, ThreadInv, MaskInv, vars
  <2>3. MaskInv'
    BY <1>13, InterruptsAssumption, SMT DEF TypeOK, Pc, Counted, Kept, ThreadInv, MaskInv, vars
  <2>4. ThreadInv'
    BY <1>13, InterruptsAssumption, SMT DEF TypeOK, Pc, Counted, Kept, ThreadInv, MaskInv, vars
  <2> QED BY <2>1, <2>2, <2>3, <2>4
<1> QED
  BY <1>1, <1>2, <1>3, <1>4, <1>5, <1>6, <1>7, <1>8, <1>9, <1>10, <1>11, <1>12, <1>13 DEF Next

(* The invariant implies what the run checks. *)
LEMMA IInvExact == IInv => InterruptsExact
<1> SUFFICES ASSUME TypeOK, Counted, MaskInv, ThreadInv PROVE InterruptsExact
  BY DEF IInv
<1>1. \A i \in Irq : count[i] = Holds(i)
  <2> TAKE i \in Irq
  <2>1. Kept(i) => Holds(i) = 1 + (IF isr = i THEN 1 ELSE 0)
    BY DEF Kept, Holds
  <2>2. ~Kept(i) => Holds(i) = 0 + (IF isr = i THEN 1 ELSE 0)
    BY DEF Kept, Holds
  <2> QED BY <2>1, <2>2, SMT DEF Counted
<1>2. \A i \in Irq \ imr : i \in gate /\ handler[i] # None
  <2> TAKE i \in Irq \ imr
  <2>1. CASE i = irq /\ pc # "idle"
    BY <2>1 DEF ThreadInv
  <2>2. CASE ~(i = irq /\ pc # "idle")
    <3>1. i \notin mask /\ count[i] = 0
      BY <2>2 DEF MaskInv
    <3>2. ~Kept(i)
      BY <3>1, SMT DEF Counted
    <3> QED BY <3>2 DEF Kept, ThreadInv
  <2> QED BY <2>1, <2>2
<1>3. pc = "idle" => imr = {i \in Irq : count[i] > 0} /\ mask = imr
  BY SMT DEF Counted, MaskInv, TypeOK
<1> QED BY <1>1, <1>2, <1>3 DEF InterruptsExact

(* The counts and the masks of all lines stay exact, and no line is open   *)
(* without its gate and handler, whichever interrupts come in the middle   *)
(* of register_irq_handler and unregister_irq_handler.                     *)
THEOREM InterruptsSafe == Spec => []InterruptsExact
BY InitIInv, NextIInv, IInvExact, PTL DEF Spec

-----------------------------------------------------------------------------
(* Offsets, and where they are in the pages.                               *)
LEMMA DivMod ==
  ASSUME NEW o \in Nat
  PROVE  /\ o \div PAGE_SIZE \in Nat
         /\ o % PAGE_SIZE \in 0..(PAGE_SIZE - 1)
         /\ o = PAGE_SIZE * (o \div PAGE_SIZE) + (o % PAGE_SIZE)
BY RamfsAssumption, SMT

LEMMA Multiples ==
  ASSUME NEW i \in Nat, NEW j \in Nat, NEW r \in Nat, NEW s \in Nat,
         r < PAGE_SIZE, s < PAGE_SIZE, PAGE_SIZE * i + r = PAGE_SIZE * j + s
  PROVE  i = j /\ r = s
BY RamfsAssumption, SMT

LEMMA IndexOf ==
  ASSUME NEW o \in Offset
  PROVE  o \div PAGE_SIZE \in Index
BY RamfsAssumption, SMT DEF Offset, Index


(* The n bytes from offset a on lie in one page: o is one of them if it is *)
(* in that page and at their place in it.                                  *)
LEMMA InPage ==
  ASSUME NEW a \in Nat, NEW o \in Nat, NEW n \in Nat, (a % PAGE_SIZE) + n <= PAGE_SIZE
  PROVE  /\ o \in a..(a + n - 1) <=>
              /\ o \div PAGE_SIZE = a \div PAGE_SIZE
              /\ o % PAGE_SIZE \in (a % PAGE_SIZE)..((a % PAGE_SIZE) + n - 1)
         /\ o \div PAGE_SIZE = a \div PAGE_SIZE => (o % PAGE_SIZE) - (a % PAGE_SIZE) = o - a
<1>0. PAGE_SIZE \in Nat
  BY RamfsAssumption
<1>1. PICK i \in Nat, r \in Nat : i = a \div PAGE_SIZE /\ r = a % PAGE_SIZE /\ a = PAGE_SIZE * i + r
                                  /\ r < PAGE_SIZE
  BY <1>0, DivMod, SMT
<1>2. PICK j \in Nat, s \in Nat : j = o \div PAGE_SIZE /\ s = o % PAGE_SIZE /\ o = PAGE_SIZE * j + s
                                  /\ s < PAGE_SIZE
  BY <1>0, DivMod, SMT
<1>3. j = i => s - r = o - a
  BY <1>0, <1>1, <1>2, SMT
<1>4. j = i /\ s \in r..(r + n - 1) => o \in a..(a + n - 1)
  BY <1>0, <1>1, <1>2, <1>3, SMT
<1>5. ASSUME o \in a..(a + n - 1) PROVE j = i /\ s \in r..(r + n - 1)
  <2>1. PICK k \in Nat : o = a + k /\ r + k \in Nat /\ r + k < PAGE_SIZE /\ k < n
    BY <1>0, <1>1, <1>5, SMT
  <2>2. PAGE_SIZE * i + (r + k) = PAGE_SIZE * j + s
    BY <1>0, <1>1, <1>2, <2>1, SMT
  <2>3. i = j /\ r + k = s
    BY <1>2, <2>1, <2>2, Multiples, SMT
  <2> QED BY <2>1, <2>3, SMT
<1> QED BY <1>1, <1>2, <1>3, <1>4, <1>5

LEMMA MinOf ==
  ASSUME NEW x \in Int, NEW y \in Int, NEW z \in Int
  PROVE  /\ Min({x, y}) \in {x, y} /\ Min({x, y}) <= x /\ Min({x, y}) <= y
         /\ Min({x, y, z}) \in {x, y, z}
         /\ Min({x, y, z}) <= x /\ Min({x, y, z}) <= y /\ Min({x, y, z}) <= z
         /\ Max({x, y}) \in {x, y} /\ Max({x, y}) >= x /\ Max({x, y}) >= y
<1>1. \E k \in {x, y} : \A t \in {x, y} : k <= t
  BY SMT
<1>2. \E k \in {x, y, z} : \A t \in {x, y, z} : k <= t
  BY SMT
<1>3. \E k \in {x, y} : \A t \in {x, y} : k >= t
  BY SMT
<1>4. Min({x, y}) \in {x, y} /\ \A t \in {x, y} : Min({x, y}) <= t
  BY <1>1 DEF Min
<1>5. Min({x, y, z}) \in {x, y, z} /\ \A t \in {x, y, z} : Min({x, y, z}) <= t
  BY <1>2 DEF Min
<1>6. Max({x, y}) \in {x, y} /\ \A t \in {x, y} : Max({x, y}) >= t
  BY <1>3 DEF Max
<1> QED BY <1>4, <1>5, <1>6

-----------------------------------------------------------------------------
RamfsType ==
  /\ page \in [Index -> [0..(PAGE_SIZE - 1) -> Byte] \cup {NoPage}]
  /\ size \in 0..LENGTH
  /\ file \in [File -> [offset : Nat, op : {"none", "read", "write"}, data : Seq(Byte), rd : Nat]]
  /\ bytes \in [Offset -> Byte]
  /\ bad \in BOOLEAN

(* What write_file has left to write ends within the bound.                *)
Room == \A f \in File : file[f].op = "write" => file[f].offset + Len(file[f].data) <= LENGTH

RamfsInv == RamfsType /\ Room /\ FileIsBytes

LEMMA RamfsInitInv ==
  ASSUME RamfsInit
  PROVE  RamfsInv
<1>1. /\ page = [i \in Index |-> NoPage] /\ size = 0 /\ bytes = [o \in Offset |-> 0] /\ bad = FALSE
      /\ file = [f \in File |-> [offset |-> 0, op |-> "none", data |-> << >>, rd |-> 0]]
  BY DEF RamfsInit
<1>2. 0 \in Byte /\ 0 \in 0..LENGTH /\ 0 \in Nat
  BY RamfsAssumption, SMT DEF Byte
<1>3. << >> \in Seq(Byte)
  BY SMT
<1>4. RamfsType
  BY <1>1, <1>2, <1>3 DEF RamfsType
<1>5. Room
  BY <1>1 DEF Room
<1>6. FileIsBytes
  BY <1>1, IndexOf DEF FileIsBytes
<1> QED BY <1>4, <1>5, <1>6 DEF RamfsInv

Opened == [offset : Nat, op : {"none", "read", "write"}, data : Seq(Byte), rd : Nat]

LEMMA FileSet ==
  ASSUME RamfsInv, NEW f \in File, NEW w \in Opened,
         w.op = "write" => w.offset + Len(w.data) <= LENGTH,
         file' = [file EXCEPT ![f] = w]
  PROVE  file' \in [File -> Opened] /\ Room'
<1>1. file \in [File -> Opened] /\ Room
  BY DEF RamfsInv, RamfsType, Opened
<1>2. file' \in [File -> Opened]
  BY <1>1
<1>3. file'[f] = w /\ \A g \in File \ {f} : file'[g] = file[g]
  BY <1>1
<1>4. Room'
  BY <1>1, <1>3 DEF Room
<1> QED BY <1>2, <1>4

(* Steps that leave the pages of the file alone.                           *)
LEMMA FileQuiet ==
  ASSUME RamfsInv, NEW f \in File, NEW w \in Opened,
         w.op = "write" => w.offset + Len(w.data) <= LENGTH,
         file' = [file EXCEPT ![f] = w], UNCHANGED <<page, size, bytes, bad>>
  PROVE  RamfsInv'
<1>1. file' \in [File -> Opened] /\ Room'
  BY FileSet
<1>2. RamfsType'
  BY <1>1 DEF RamfsInv, RamfsType, Opened
<1>3. FileIsBytes'
  BY DEF RamfsInv, FileIsBytes
<1> QED BY <1>1, <1>2, <1>3 DEF RamfsInv

LEMMA OpenedFile ==
  ASSUME RamfsInv, NEW f \in File
  PROVE  /\ file[f] \in Opened
         /\ file[f].offset \in Nat /\ file[f].op \in {"none", "read", "write"}
         /\ file[f].data \in Seq(Byte) /\ file[f].rd \in Nat
<1>1. file[f] \in Opened
  BY DEF RamfsInv, RamfsType, Opened
<1> QED BY <1>1, SMT DEF Opened

LEMMA FilesOpened ==
  ASSUME RamfsInv
  PROVE  file \in [File -> Opened]
BY DEF RamfsInv, RamfsType, Opened

LEMMA SetTwice ==
  ASSUME RamfsInv, NEW f \in File, NEW v, NEW w
  PROVE  /\ [[file EXCEPT ![f] = v] EXCEPT ![f] = w] = [file EXCEPT ![f] = w]
         /\ [file EXCEPT ![f] = v][f] = v
BY FilesOpened

LEMMA StartWriteStep ==
  ASSUME RamfsInv, NEW f \in File, NEW data \in Data, StartWrite(f, data)
  PROVE  RamfsInv'
<1>1. data \in Seq(Byte)
  BY RamfsAssumption
<1>2. PICK w : w = [offset |-> file[f].offset, op |-> "write", data |-> data, rd |-> file[f].rd]
  OBVIOUS
<1>3. w \in Opened /\ w.offset = file[f].offset /\ w.data = data
  BY <1>1, <1>2, OpenedFile, SMT DEF Opened
<1>6. file' = [file EXCEPT ![f].op = "write", ![f].data = data]
  BY DEF StartWrite
<1>4. file' = [file EXCEPT ![f] = w]
  <2>1. PICK u : u = [file[f] EXCEPT !.op = "write"]
    OBVIOUS
  <2>2. PICK v : v = [file EXCEPT ![f] = u]
    OBVIOUS
  <2>3. v[f] = u
    BY <2>2, SetTwice
  <2>4. file' = [v EXCEPT ![f] = [v[f] EXCEPT !.data = data]]
    BY <1>6, <2>1, <2>2
  <2>5. u = [offset |-> file[f].offset, op |-> "write", data |-> file[f].data, rd |-> file[f].rd]
    BY <2>1, OpenedFile, SMT DEF Opened
  <2>6. [u EXCEPT !.data = data] = w
    BY <1>2, <2>5, SMT
  <2>9. file' = [v EXCEPT ![f] = w]
    BY <2>3, <2>4, <2>6
  <2> QED BY <2>2, <2>9, SetTwice
<1>5. file[f].offset + Len(data) <= LENGTH /\ UNCHANGED <<page, size, bytes, bad>>
  BY DEF StartWrite
<1> QED BY <1>3, <1>4, <1>5, FileQuiet

LEMMA StartReadStep ==
  ASSUME RamfsInv, NEW f \in File, NEW n \in Nat, StartRead(f, n)
  PROVE  RamfsInv'
<1>1. PICK w : w = [offset |-> file[f].offset, op |-> "read", data |-> file[f].data, rd |-> n]
  OBVIOUS
<1>2. w \in Opened /\ w.op = "read"
  BY <1>1, OpenedFile, SMT DEF Opened
<1>3. w.op # "write"
  BY <1>2, SMT
<1>5. file' = [file EXCEPT ![f].op = "read", ![f].rd = n] /\ UNCHANGED <<page, size, bytes, bad>>
  BY DEF StartRead
<1>4. file' = [file EXCEPT ![f] = w]
  <2>1. PICK u : u = [file[f] EXCEPT !.op = "read"]
    OBVIOUS
  <2>2. PICK v : v = [file EXCEPT ![f] = u]
    OBVIOUS
  <2>3. v[f] = u
    BY <2>2, SetTwice
  <2>4. file' = [v EXCEPT ![f] = [v[f] EXCEPT !.rd = n]]
    BY <1>5, <2>1, <2>2
  <2>5. u = [offset |-> file[f].offset, op |-> "read", data |-> file[f].data, rd |-> file[f].rd]
    BY <2>1, OpenedFile, SMT DEF Opened
  <2>6. [u EXCEPT !.rd = n] = w
    BY <1>1, <2>5, SMT
  <2>9. file' = [v EXCEPT ![f] = w]
    BY <2>3, <2>4, <2>6
  <2> QED BY <2>2, <2>9, SetTwice
<1> QED BY <1>2, <1>3, <1>4, <1>5, FileQuiet

LEMMA WriteFailsStep ==
  ASSUME RamfsInv, NEW f \in File, WriteFails(f)
  PROVE  RamfsInv'
<1>1. PICK w : w = [offset |-> file[f].offset, op |-> "none", data |-> << >>, rd |-> file[f].rd]
  OBVIOUS
<1>2. w \in Opened /\ w.op = "none"
  BY <1>1, OpenedFile, SMT DEF Opened
<1>3. w.op # "write"
  BY <1>2, SMT
<1>4. file' = [file EXCEPT ![f] = w] /\ UNCHANGED <<page, size, bytes, bad>>
  BY <1>1, OpenedFile, FilesOpened, SMT DEF WriteFails, Opened
<1> QED BY <1>2, <1>3, <1>4, FileQuiet

LEMMA LoopDoneStep ==
  ASSUME RamfsInv, NEW f \in File, LoopDone(f)
  PROVE  RamfsInv'
<1>1. PICK w : w = [file[f] EXCEPT !.op = "none"]
  OBVIOUS
<1>2. w \in Opened /\ w.op = "none"
  BY <1>1, OpenedFile, SMT DEF Opened
<1>3. w.op # "write"
  BY <1>2, SMT
<1>4. file' = [file EXCEPT ![f] = w] /\ UNCHANGED <<page, size, bytes, bad>>
  BY <1>1, SMT DEF LoopDone
<1> QED BY <1>2, <1>3, <1>4, FileQuiet

LEMMA SeekStep ==
  ASSUME RamfsInv, NEW f \in File, NEW base \in Int, NEW by \in Int, vfs_seek(f, base, by)
  PROVE  RamfsInv'
<1>1. PICK to : to = Max({base + by, 0})
  OBVIOUS
<1>2. base + by \in Int /\ 0 \in Int
  BY SMT
<1>3. Max({base + by, 0}) \in {base + by, 0} /\ Max({base + by, 0}) >= 0
  BY <1>2, MinOf
<1>4. to \in Nat
  BY <1>1, <1>2, <1>3, SMT
<1>5. PICK w : w = [file[f] EXCEPT !.offset = to]
  OBVIOUS
<1>6. w \in Opened /\ w.op = file[f].op
  BY <1>4, <1>5, OpenedFile, SMT DEF Opened
<1>7. file[f].op = "none" /\ UNCHANGED <<page, size, bytes, bad>>
  BY DEF vfs_seek
<1>8. w.op # "write"
  BY <1>6, <1>7, SMT
<1>9. file' = [file EXCEPT ![f] = w]
  BY <1>1, <1>5, SMT DEF vfs_seek
<1> QED BY <1>6, <1>7, <1>8, <1>9, FileQuiet

LEMMA RestOf ==
  ASSUME NEW d \in Seq(Byte), NEW n \in Nat, n <= Len(d)
  PROVE  SubSeq(d, n + 1, Len(d)) \in Seq(Byte) /\ Len(SubSeq(d, n + 1, Len(d))) = Len(d) - n
<1>1. Len(d) \in Nat
  BY SMT
<1>2. SubSeq(d, n + 1, Len(d)) = [i \in 1..(Len(d) - n) |-> d[i + n]]
  BY <1>1, SMT
<1>3. \A i \in 1..(Len(d) - n) : d[i + n] \in Byte
  BY <1>1, SMT
<1> QED BY <1>1, <1>2, <1>3, SMT

(* The bytes of a page, and what they say of an offset.                    *)
LEMMA PageOf ==
  ASSUME RamfsInv, NEW i \in Index, NEW p, p = IF page[i] = NoPage THEN Zero ELSE page[i]
  PROVE  /\ p \in [0..(PAGE_SIZE - 1) -> Byte]
         /\ \A o \in Offset : o \div PAGE_SIZE = i => bytes[o] = p[o % PAGE_SIZE]
<1>1. page \in [Index -> [0..(PAGE_SIZE - 1) -> Byte] \cup {NoPage}] /\ FileIsBytes
  BY DEF RamfsInv, RamfsType
<1>2. 0 \in Byte
  BY SMT DEF Byte
<1>3. Zero \in [0..(PAGE_SIZE - 1) -> Byte] /\ \A k \in 0..(PAGE_SIZE - 1) : Zero[k] = 0
  BY <1>2 DEF Zero
<1>4. \A o \in Offset : o % PAGE_SIZE \in 0..(PAGE_SIZE - 1)
  BY DivMod, SMT DEF Offset
<1>5. CASE page[i] = NoPage
  BY <1>1, <1>3, <1>4, <1>5 DEF FileIsBytes
<1>6. CASE page[i] # NoPage
  BY <1>1, <1>6 DEF FileIsBytes
<1> QED BY <1>5, <1>6

LEMMA RamfsReadStep ==
  ASSUME RamfsInv, NEW f \in File, ramfs_read(f)
  PROVE  RamfsInv'
<1>1. PICK at : at = file[f].offset
  OBVIOUS
<1>2. PICK idx, off, p, sz :
        /\ idx = at \div PAGE_SIZE /\ off = at % PAGE_SIZE
        /\ p = (IF page[idx] = NoPage THEN Zero ELSE page[idx])
        /\ sz = Min({PAGE_SIZE - off, file[f].rd, size - at})
  OBVIOUS
<1>3. /\ file[f].op = "read" /\ file[f].rd > 0
      /\ IF at >= size
           THEN file' = [file EXCEPT ![f].op = "none", ![f].rd = 0] /\ UNCHANGED bad
         ELSE /\ file' = [file EXCEPT ![f].offset = @ + sz, ![f].rd = @ - sz]
              /\ bad' = (bad \/ \E k \in 0..(sz - 1) : p[off + k] # bytes[at + k])
      /\ UNCHANGED <<page, size, bytes>>
  BY <1>1, <1>2 DEF ramfs_read
<1>4. /\ at \in Nat /\ file[f].rd \in Nat /\ size \in 0..LENGTH /\ ~bad
  BY <1>1, OpenedFile DEF RamfsInv, RamfsType, FileIsBytes
<1>5. CASE at >= size
  <2>1. PICK w : w = [offset |-> at, op |-> "none", data |-> file[f].data, rd |-> 0]
    OBVIOUS
  <2>2. w \in Opened /\ w.op = "none"
    BY <1>4, <2>1, OpenedFile, SMT DEF Opened
  <2>3. w.op # "write"
    BY <2>2, SMT
  <2>4. file' = [file EXCEPT ![f] = w]
    <3>1. PICK u : u = [file[f] EXCEPT !.op = "none"]
      OBVIOUS
    <3>2. PICK v : v = [file EXCEPT ![f] = u]
      OBVIOUS
    <3>3. v[f] = u
      BY <3>2, SetTwice
    <3>4. file' = [v EXCEPT ![f] = [v[f] EXCEPT !.rd = 0]]
      BY <1>3, <1>5, <3>1, <3>2
    <3>5. u = [offset |-> at, op |-> "none", data |-> file[f].data, rd |-> file[f].rd]
      BY <1>1, <3>1, OpenedFile, SMT DEF Opened
    <3>6. [u EXCEPT !.rd = 0] = w
      BY <2>1, <3>5, SMT
    <3>9. file' = [v EXCEPT ![f] = w]
      BY <3>3, <3>4, <3>6
    <3> QED BY <3>2, <3>9, SetTwice
  <2>5. UNCHANGED <<page, size, bytes, bad>>
    BY <1>3, <1>5
  <2> QED BY <2>2, <2>3, <2>4, <2>5, FileQuiet
<1>6. CASE ~(at >= size)
  <2>1. off \in 0..(PAGE_SIZE - 1) /\ at < LENGTH /\ PAGE_SIZE \in Nat /\ LENGTH \in Nat
    BY <1>2, <1>4, <1>6, DivMod, RamfsAssumption, SMT
  <2>2. PAGE_SIZE - off \in Int /\ file[f].rd \in Int /\ size - at \in Int
    BY <1>4, <2>1, SMT
  <2>3. /\ sz \in {PAGE_SIZE - off, file[f].rd, size - at}
        /\ sz <= PAGE_SIZE - off /\ sz <= file[f].rd /\ sz <= size - at
    BY <1>2, <2>2, MinOf
  <2>13. /\ sz \in Nat /\ at + sz \in Nat /\ file[f].rd - sz \in Nat /\ at \in Offset
         /\ off + sz <= PAGE_SIZE
    BY <1>4, <1>6, <2>1, <2>2, <2>3, SMT DEF Offset
  <2>4. /\ sz \in Nat /\ at + sz \in Nat /\ file[f].rd - sz \in Nat /\ at \in Offset
        /\ (at % PAGE_SIZE) + sz <= PAGE_SIZE
    BY <1>2, <2>13
  <2>5. idx \in Index
    BY <1>2, <2>4, IndexOf
  <2>6. \A o \in Offset : o \div PAGE_SIZE = idx => bytes[o] = p[o % PAGE_SIZE]
    BY <1>2, <2>5, PageOf
  <2>7. ASSUME NEW k \in 0..(sz - 1)
        PROVE  p[off + k] = bytes[at + k]
    <3>1. at + k \in Nat /\ at + k \in Offset /\ at + k \in at..(at + sz - 1)
      BY <1>4, <2>1, <2>3, <2>4, SMT DEF Offset
    <3>2. (at + k) \div PAGE_SIZE = idx /\ ((at + k) % PAGE_SIZE) - off = (at + k) - at
      BY <1>2, <1>4, <2>4, <3>1, InPage, SMT
    <3>3. (at + k) % PAGE_SIZE = off + k
      BY <1>4, <2>1, <3>1, <3>2, DivMod, SMT
    <3> QED BY <2>6, <3>1, <3>2, <3>3
  <2>8. bad' = bad
    <3>1. bad \in BOOLEAN /\ bad' = (bad \/ \E k \in 0..(sz - 1) : p[off + k] # bytes[at + k])
      BY <1>3, <1>6 DEF RamfsInv, RamfsType
    <3> QED BY <2>7, <3>1
  <2>9. PICK w : w = [offset |-> at + sz, op |-> "read", data |-> file[f].data, rd |-> file[f].rd - sz]
    OBVIOUS
  <2>10. w \in Opened /\ w.op = "read"
    BY <2>4, <2>9, OpenedFile, SMT DEF Opened
  <2>11. w.op # "write"
    BY <2>10, SMT
  <2>12. file' = [file EXCEPT ![f] = w]
    <3>1. PICK u : u = [file[f] EXCEPT !.offset = at + sz]
      OBVIOUS
    <3>2. PICK v : v = [file EXCEPT ![f] = u]
      OBVIOUS
    <3>3. v[f] = u
      BY <3>2, SetTwice
    <3>4. file' = [v EXCEPT ![f] = [v[f] EXCEPT !.rd = @ - sz]]
      BY <1>1, <1>3, <1>6, <3>1, <3>2, SMT
    <3>5. u = [offset |-> at + sz, op |-> "read", data |-> file[f].data, rd |-> file[f].rd]
      BY <1>3, <3>1, OpenedFile, SMT DEF Opened
    <3>6. [u EXCEPT !.rd = @ - sz] = w
      BY <2>9, <3>5, SMT
    <3>9. file' = [v EXCEPT ![f] = w]
      BY <3>3, <3>4, <3>6
    <3> QED BY <3>2, <3>9, SetTwice
  <2> QED BY <1>3, <2>8, <2>10, <2>11, <2>12, FileQuiet
<1> QED BY <1>5, <1>6

LEMMA RamfsWriteStep ==
  ASSUME RamfsInv, NEW f \in File, ramfs_write(f)
  PROVE  RamfsInv'
<1>1. PICK at, data : at = file[f].offset /\ data = file[f].data
  OBVIOUS
<1>2. PICK idx, off, old, sz, end :
        /\ idx = at \div PAGE_SIZE /\ off = at % PAGE_SIZE
        /\ old = (IF page[idx] = NoPage THEN Zero ELSE page[idx])
        /\ sz = Min({PAGE_SIZE - off, Len(data)})
        /\ end = at + sz
  OBVIOUS
<1>3. PICK new : new = [o \in DOMAIN Zero |->
        IF o \in off..(off + sz - 1) THEN data[o - off + 1] ELSE old[o]]
  OBVIOUS
<1>4. /\ file[f].op = "write" /\ data # << >>
      /\ page' = [page EXCEPT ![idx] = new]
      /\ bytes' = [o \in Offset |-> IF o \in at..(end - 1) THEN data[o - at + 1] ELSE bytes[o]]
      /\ size' = Max({end, size})
      /\ file' = [file EXCEPT ![f].offset = end, ![f].data = SubSeq(@, sz + 1, Len(@))]
      /\ UNCHANGED bad
  BY <1>1, <1>2, <1>3 DEF ramfs_write, WriteSize
<1>5. /\ at \in Nat /\ data \in Seq(Byte) /\ size \in 0..LENGTH /\ at + Len(data) <= LENGTH
      /\ page \in [Index -> [0..(PAGE_SIZE - 1) -> Byte] \cup {NoPage}] /\ bytes \in [Offset -> Byte]
  BY <1>1, <1>4, OpenedFile DEF RamfsInv, RamfsType, Room
<1>6. Len(data) \in Nat /\ Len(data) > 0
  BY <1>4, <1>5, SMT
<1>7. off \in 0..(PAGE_SIZE - 1) /\ PAGE_SIZE \in Nat /\ LENGTH \in Nat
  BY <1>2, <1>5, DivMod, RamfsAssumption
<1>8. PAGE_SIZE - off \in Int /\ Len(data) \in Int
  BY <1>6, <1>7, SMT
<1>9. sz \in {PAGE_SIZE - off, Len(data)} /\ sz <= PAGE_SIZE - off /\ sz <= Len(data)
  BY <1>2, <1>8, MinOf
<1>10. /\ sz \in Nat /\ sz > 0 /\ at \in Offset /\ off + sz <= PAGE_SIZE
       /\ at + sz \in Nat /\ at + sz <= LENGTH
  BY <1>5, <1>6, <1>7, <1>9, SMT DEF Offset
<1>11. (at % PAGE_SIZE) + sz <= PAGE_SIZE /\ end \in Nat /\ end <= LENGTH
  BY <1>2, <1>10
<1>12. idx \in Index
  BY <1>2, <1>10, IndexOf
<1>13. /\ old \in [0..(PAGE_SIZE - 1) -> Byte]
       /\ \A o \in Offset : o \div PAGE_SIZE = idx => bytes[o] = old[o % PAGE_SIZE]
  BY <1>2, <1>12, PageOf
<1>14. \A i \in 1..Len(data) : data[i] \in Byte
  BY <1>5, SMT
<1>15. new \in [0..(PAGE_SIZE - 1) -> Byte]
  <2>1. DOMAIN Zero = 0..(PAGE_SIZE - 1)
    BY DEF Zero
  <2>2. \A o \in 0..(PAGE_SIZE - 1) : o \in off..(off + sz - 1) => o - off + 1 \in 1..Len(data)
    BY <1>6, <1>7, <1>9, <1>10, SMT
  <2> QED BY <1>3, <1>13, <1>14, <2>1, <2>2
<1>16. page' \in [Index -> [0..(PAGE_SIZE - 1) -> Byte] \cup {NoPage}]
  BY <1>4, <1>5, <1>15
<1>17. page'[idx] = new /\ \A i \in Index \ {idx} : page'[i] = page[i]
  BY <1>4, <1>5, <1>12
<1>18. \A o \in Offset : o \in at..(end - 1) => o - at + 1 \in 1..Len(data) /\ o < end
  <2>1. end = at + sz
    BY <1>2
  <2> QED BY <1>5, <1>6, <1>9, <1>10, <2>1, SMT DEF Offset
<1>19. bytes' \in [Offset -> Byte]
  BY <1>4, <1>5, <1>14, <1>18
<1>20. size' \in 0..LENGTH /\ size' >= end /\ size' >= size
  <2>1. end \in Int /\ size \in Int
    BY <1>5, <1>7, <1>11, SMT
  <2>2. size' \in {end, size} /\ size' >= end /\ size' >= size
    BY <1>4, <2>1, MinOf
  <2> QED BY <1>5, <1>7, <1>11, <2>2, SMT
<1>21. file' \in [File -> Opened] /\ Room'
  <2>0. PICK rest : rest = SubSeq(data, sz + 1, Len(data))
    OBVIOUS
  <2>1. PICK w : w = [offset |-> end, op |-> "write", data |-> rest, rd |-> file[f].rd]
    OBVIOUS
  <2>2. rest \in Seq(Byte) /\ Len(rest) = Len(data) - sz
    BY <1>5, <1>9, <1>10, <2>0, RestOf
  <2>3. w \in Opened /\ w.offset = end /\ w.data = rest
    BY <1>11, <2>1, <2>2, OpenedFile, SMT DEF Opened
  <2>4. end + (Len(data) - sz) <= LENGTH
    BY <1>2, <1>5, <1>6, <1>7, <1>10, SMT
  <2>5. w.offset + Len(w.data) <= LENGTH
    BY <2>2, <2>3, <2>4
  <2>6. file' = [file EXCEPT ![f] = w]
    <3>1. PICK u : u = [file[f] EXCEPT !.offset = end]
      OBVIOUS
    <3>2. PICK v : v = [file EXCEPT ![f] = u]
      OBVIOUS
    <3>3. v[f] = u
      BY <3>2, SetTwice
    <3>4. file' = [v EXCEPT ![f] = [v[f] EXCEPT !.data = SubSeq(@, sz + 1, Len(@))]]
      BY <1>4, <3>1, <3>2
    <3>5. u = [offset |-> end, op |-> "write", data |-> data, rd |-> file[f].rd]
      BY <1>1, <1>4, <3>1, OpenedFile, SMT DEF Opened
    <3>6. u.data = data
      BY <3>5
    <3>7. [u EXCEPT !.data = SubSeq(@, sz + 1, Len(@))] = [u EXCEPT !.data = rest]
      BY <2>0, <3>6
    <3>8. [u EXCEPT !.data = rest] = w
      BY <2>1, <3>5, SMT
    <3>9. file' = [v EXCEPT ![f] = w]
      BY <3>3, <3>4, <3>7, <3>8
    <3> QED BY <3>2, <3>9, SetTwice
  <2> QED BY <2>3, <2>5, <2>6, FileSet
<1>22. RamfsType'
  BY <1>4, <1>16, <1>19, <1>20, <1>21 DEF RamfsInv, RamfsType, Opened
<1>23. ASSUME NEW o \in Offset
       PROVE  bytes'[o] = (IF page'[o \div PAGE_SIZE] = NoPage THEN 0
                           ELSE page'[o \div PAGE_SIZE][o % PAGE_SIZE])
  <2>1. o \in Nat /\ o \div PAGE_SIZE \in Index
    BY IndexOf, SMT DEF Offset
  <2>2. PICK j, r : j = o \div PAGE_SIZE /\ r = o % PAGE_SIZE
    OBVIOUS
  <2>3. j \in Index /\ r \in 0..(PAGE_SIZE - 1)
    BY <2>1, <2>2, DivMod
  <2>4. /\ o \in at..(end - 1) <=> j = idx /\ r \in off..(off + sz - 1)
        /\ j = idx => r - off = o - at
    <3>1. /\ o \in at..(at + sz - 1) <=>
                /\ o \div PAGE_SIZE = at \div PAGE_SIZE
                /\ o % PAGE_SIZE \in (at % PAGE_SIZE)..((at % PAGE_SIZE) + sz - 1)
          /\ o \div PAGE_SIZE = at \div PAGE_SIZE => (o % PAGE_SIZE) - (at % PAGE_SIZE) = o - at
      BY <1>5, <1>10, <1>11, <2>1, InPage
    <3>2. o \in at..(at + sz - 1) <=> j = idx /\ r \in off..(off + sz - 1)
      BY <1>2, <2>2, <3>1
    <3>3. j = idx => r - off = o - at
      BY <1>2, <2>2, <3>1
    <3>4. end = at + sz
      BY <1>2
    <3>5. at..(end - 1) = at..(at + sz - 1)
      BY <1>5, <1>10, <3>4, SMT
    <3> QED BY <3>2, <3>3, <3>5
  <2>5. new[r] = IF r \in off..(off + sz - 1) THEN data[r - off + 1] ELSE old[r]
    BY <1>3, <2>3 DEF Zero
  <2>6. bytes'[o] = IF o \in at..(end - 1) THEN data[o - at + 1] ELSE bytes[o]
    BY <1>4
  <2>7. CASE j = idx
    <3>1. page'[j] = new /\ new # NoPage
      BY <1>15, <1>17, <2>7, RamfsAssumption
    <3>2. bytes[o] = old[r]
      BY <1>13, <2>2, <2>7
    <3>3. bytes'[o] = new[r]
      BY <2>4, <2>5, <2>6, <2>7, <3>2
    <3> QED BY <2>2, <3>1, <3>3
  <2>8. CASE j # idx
    <3>1. page'[j] = page[j]
      BY <1>17, <2>3, <2>8
    <3>2. bytes'[o] = bytes[o]
      BY <2>4, <2>6, <2>8
    <3>3. bytes[o] = (IF page[j] = NoPage THEN 0 ELSE page[j][r])
      BY <2>2 DEF RamfsInv, FileIsBytes
    <3> QED BY <2>2, <3>1, <3>2, <3>3
  <2> QED BY <2>7, <2>8
<1>24. ASSUME NEW o \in Offset, bytes'[o] # 0
       PROVE  o < size'
  <2>1. o \in Int /\ size \in Int /\ size' \in Int /\ end \in Int
    BY <1>5, <1>7, <1>11, <1>20, SMT DEF Offset
  <2>2. CASE o \in at..(end - 1)
    BY <1>18, <1>20, <2>1, <2>2, SMT
  <2>3. CASE o \notin at..(end - 1)
    <3>1. o < size
      BY <1>4, <1>24, <2>3 DEF RamfsInv, FileIsBytes
    <3> QED BY <1>20, <2>1, <3>1, SMT
  <2> QED BY <2>2, <2>3
<1>25. ~bad'
  BY <1>4 DEF RamfsInv, FileIsBytes
<1>26. FileIsBytes'
  BY <1>23, <1>24, <1>25 DEF FileIsBytes
<1> QED BY <1>21, <1>22, <1>26 DEF RamfsInv

LEMMA RamfsNextInv ==
  ASSUME RamfsInv, [RamfsNext]_ramfs
  PROVE  RamfsInv'
<1>1. CASE UNCHANGED ramfs
  BY <1>1 DEF ramfs, RamfsInv, RamfsType, Room, FileIsBytes
<1>2. CASE RamfsNext
  <2>1. PICK f \in File :
          \/ \E data \in Data : StartWrite(f, data)
          \/ \E n \in 1..3 : StartRead(f, n)
          \/ ramfs_write(f) \/ WriteFails(f) \/ ramfs_read(f) \/ LoopDone(f)
          \/ \E by \in {-1, 1} : vfs_seek(f, file[f].offset, by) \/ vfs_seek(f, size, by)
          \/ vfs_seek(f, 0, 0)
    BY <1>2 DEF RamfsNext
  <2>2. \A n \in 1..3 : n \in Nat
    BY SMT
  <2>3. file[f].offset \in Int /\ size \in Int /\ 0 \in Int /\ \A by \in {-1, 1} : by \in Int
    <3>1. file[f].offset \in Nat /\ size \in 0..LENGTH
      BY OpenedFile DEF RamfsInv, RamfsType
    <3> QED BY <3>1, RamfsAssumption, SMT
  <2>4. CASE \E data \in Data : StartWrite(f, data)
    BY <2>4, StartWriteStep
  <2>5. CASE \E n \in 1..3 : StartRead(f, n)
    BY <2>2, <2>5, StartReadStep
  <2>6. CASE ramfs_write(f)
    BY <2>6, RamfsWriteStep
  <2>7. CASE WriteFails(f)
    BY <2>7, WriteFailsStep
  <2>8. CASE ramfs_read(f)
    BY <2>8, RamfsReadStep
  <2>9. CASE LoopDone(f)
    BY <2>9, LoopDoneStep
  <2>10. CASE \E by \in {-1, 1} : vfs_seek(f, file[f].offset, by) \/ vfs_seek(f, size, by)
    BY <2>3, <2>10, SeekStep
  <2>11. CASE vfs_seek(f, 0, 0)
    BY <2>3, <2>11, SeekStep
  <2> QED BY <2>1, <2>4, <2>5, <2>6, <2>7, <2>8, <2>9, <2>10, <2>11
<1> QED BY <1>1, <1>2

(* A file of ramfs holds what the last write has put at every offset and   *)
(* zeros elsewhere, and reads return that, however the rounds of           *)
(* write_file, read_buf and vfs_seek_default on its open files alternate.  *)
THEOREM FileContents == RamfsSpec => []FileIsBytes
<1>1. RamfsInv => FileIsBytes
  BY DEF RamfsInv
<1> QED BY <1>1, RamfsInitInv, RamfsNextInv, PTL DEF RamfsSpec

-----------------------------------------------------------------------------
(* The kmap window. The shape of the tiling (where ranges start and how    *)
(* long they are) is kept apart from how the code records it (the boundary *)
(* tags, the links and the lists), so that joining and splitting are facts *)
(* about the shape and the tags of the ranges that are not touched stay    *)
(* what they are.                                                          *)
NoRepeat(s) == \A x, y \in DOMAIN s : s[x] = s[y] => x = y

(* Ranges of the lengths len start at S: they follow each other from 0 to  *)
(* the end, and each but the first has one in front of it.                 *)
Shape(S, len) ==
  /\ S \subseteq Slots /\ 0 \in S /\ len \in [Slots -> Int]
  /\ \A i \in S : /\ len[i] > 0
                  /\ i + len[i] \in S \cup {KMAP_PAGES}
                  /\ \A j \in S : j > i => j >= i + len[i]
  /\ \A i \in S \cup {KMAP_PAGES} : i # 0 => \E j \in S : j + len[j] = i

(* The boundary tags p of these ranges, the flags u of their heads, and the*)
(* lists l of the free ones.                                               *)
Tags(p, S, len) ==
  p \in [Slots -> Int] /\ \A i \in S : p[i] = len[i] /\ p[i + len[i] - 1] = len[i]

Flags(u, S, F) == u \in [Slots -> BOOLEAN] /\ \A i \in S : u[i] <=> i \notin F

Listed(l, F, len) ==
  /\ l \in [KmapOrder -> Seq(Slots)]
  /\ \A k \in KmapOrder : NoRepeat(l[k]) /\ Range(l[k]) = {i \in F : kmap_order(len[i]) = k}

Apart(F, len) == \A i \in F : i + len[i] \notin F

Whole(p, u, l, S, F, len) ==
  /\ F \subseteq S /\ Shape(S, len) /\ Tags(p, S, len) /\ Flags(u, S, F)
  /\ Listed(l, F, len) /\ Apart(F, len)

(* The same while range i is neither used nor free.                        *)
Loose(p, u, l, S, F, len, i) ==
  /\ F \subseteq S /\ i \in S \ F /\ Shape(S, len) /\ Tags(p, S \ {i}, len)
  /\ Flags(u, S \ {i}, F) /\ Listed(l, F, len) /\ Apart(F, len)

-----------------------------------------------------------------------------
LEMMA OrderType == ASSUME NEW n PROVE kmap_order(n) \in KmapOrder
<1>1. CASE Log(n) = {}
  BY <1>1, KmapAssumption, SMT DEF kmap_order, KmapOrder
<1>2. CASE Log(n) # {}
  <2>1. kmap_order(n) \in Log(n)
    BY <1>2 DEF kmap_order
  <2>2. kmap_order(n) \in 0..(KMAP_ORDERS - 2)
    BY <2>1 DEF Log
  <2> QED BY <2>2, KmapAssumption, SMT DEF KmapOrder
<1> QED BY <1>1, <1>2

LEMMA SeqRange ==
  ASSUME NEW s \in Seq(Slots)
  PROVE  /\ Len(s) \in Nat /\ DOMAIN s = 1..Len(s) /\ \A x \in 1..Len(s) : s[x] \in Slots
         /\ Range(s) = {s[x] : x \in 1..Len(s)} /\ Range(s) \subseteq Slots
<1>1. Len(s) \in Nat /\ DOMAIN s = 1..Len(s) /\ \A x \in 1..Len(s) : s[x] \in Slots
  BY SMT
<1>2. Range(s) = {s[x] : x \in 1..Len(s)}
  BY <1>1 DEF Range
<1> QED BY <1>1, <1>2

(* list_del takes out one element and leaves the others. *)
LEMMA DeleteRange ==
  ASSUME NEW s \in Seq(Slots), NoRepeat(s), NEW i
  PROVE  /\ Delete(s, i) \in Seq(Slots) /\ NoRepeat(Delete(s, i))
         /\ Range(Delete(s, i)) = Range(s) \ {i}
<1>1. CASE i \notin Range(s)
  BY <1>1 DEF Delete
<1>2. CASE i \in Range(s)
  <2> DEFINE q == CHOOSE x \in DOMAIN s : s[x] = i
             d == Delete(s, i)
  <2>1. Len(s) \in Nat /\ DOMAIN s = 1..Len(s) /\ Range(s) = {s[x] : x \in 1..Len(s)}
    BY SeqRange
  <2>2. q \in 1..Len(s) /\ s[q] = i
    <3>1. \E x \in DOMAIN s : s[x] = i
      BY <1>2, <2>1
    <3> QED BY <2>1, <3>1
  <2>3. d = [x \in 1..(Len(s) - 1) |-> IF x < q THEN s[x] ELSE s[x + 1]]
    BY <1>2 DEF Delete
  <2> HIDE DEF q, d
  <2>4. \A x \in 1..(Len(s) - 1) : (IF x < q THEN s[x] ELSE s[x + 1]) \in Slots
    BY <2>1, <2>2, SeqRange, SMT
  <2>5. /\ d \in Seq(Slots) /\ Len(d) = Len(s) - 1 /\ DOMAIN d = 1..(Len(s) - 1)
        /\ \A x \in 1..(Len(s) - 1) : d[x] = IF x < q THEN s[x] ELSE s[x + 1]
    <3>1. Len(s) - 1 \in Nat
      BY <2>1, <2>2, SMT
    <3>2. d \in Seq(Slots)
      BY <2>3, <2>4, <3>1, SMT
    <3> QED BY <2>3, <3>1, <3>2, SMT
  <2>6. NoRepeat(d)
    <3> SUFFICES ASSUME NEW x \in 1..(Len(s) - 1), NEW y \in 1..(Len(s) - 1), d[x] = d[y]
                 PROVE  x = y
      BY <2>5 DEF NoRepeat
    <3> DEFINE old(z) == IF z < q THEN z ELSE z + 1
    <3>1. old(x) \in DOMAIN s /\ old(y) \in DOMAIN s
      BY <2>1, <2>2, SMT
    <3>2. d[x] = s[old(x)] /\ d[y] = s[old(y)]
      BY <2>5
    <3>3. old(x) = old(y)
      <4> HIDE DEF old
      <4> QED BY <3>1, <3>2 DEF NoRepeat
    <3> QED BY <2>2, <3>3, SMT
  <2>7. Range(d) = {d[x] : x \in 1..(Len(s) - 1)}
    BY <2>5, SeqRange
  <2>8. ASSUME NEW y \in Range(d) PROVE y \in Range(s) \ {i}
    <3>1. PICK x \in 1..(Len(s) - 1) : y = d[x]
      BY <2>7
    <3>2. CASE x < q
      <4>1. y = s[x] /\ x \in 1..Len(s) /\ x # q
        BY <2>1, <2>2, <2>5, <3>1, <3>2, SMT
      <4> QED BY <2>1, <2>2, <4>1 DEF NoRepeat
    <3>3. CASE ~(x < q)
      <4>1. y = s[x + 1] /\ x + 1 \in 1..Len(s) /\ x + 1 # q
        BY <2>1, <2>2, <2>5, <3>1, <3>3, SMT
      <4> QED BY <2>1, <2>2, <4>1 DEF NoRepeat
    <3> QED BY <3>2, <3>3
  <2>9. ASSUME NEW y \in Range(s), y # i PROVE y \in Range(d)
    <3>1. PICK x \in 1..Len(s) : y = s[x]
      BY <2>1
    <3>2. \E z \in 1..(Len(s) - 1) : d[z] = y
      <4>1. CASE x < q
        BY <2>1, <2>2, <2>5, <3>1, <4>1, SMT
      <4>2. CASE x > q
        <5>1. x - 1 \in 1..(Len(s) - 1) /\ d[x - 1] = y
          BY <2>1, <2>2, <2>5, <3>1, <4>2, SMT
        <5> QED BY <5>1
      <4>3. x # q
        BY <2>2, <2>9, <3>1
      <4> QED BY <2>2, <4>1, <4>2, <4>3, SMT
    <3> QED BY <2>7, <3>2
  <2>10. Range(d) = Range(s) \ {i}
    BY <2>8, <2>9
  <2> QED BY <2>5, <2>6, <2>10 DEF d
<1> QED BY <1>1, <1>2

(* list_add puts one element in front. *)
LEMMA AddRange ==
  ASSUME NEW s \in Seq(Slots), NEW i \in Slots, NoRepeat(s), i \notin Range(s)
  PROVE  /\ <<i>> \o s \in Seq(Slots) /\ NoRepeat(<<i>> \o s)
         /\ Range(<<i>> \o s) = Range(s) \cup {i}
<1> DEFINE a == <<i>> \o s
<1>1. Len(s) \in Nat /\ DOMAIN s = 1..Len(s) /\ Range(s) = {s[x] : x \in 1..Len(s)}
  BY SeqRange
<1>2. /\ a \in Seq(Slots) /\ Len(a) = Len(s) + 1 /\ a[1] = i
      /\ DOMAIN a = 1..(Len(s) + 1)
      /\ \A x \in 2..(Len(s) + 1) : a[x] = s[x - 1]
  BY <1>1, SMT
<1> HIDE DEF a
<1>3. Range(a) = {a[x] : x \in 1..(Len(s) + 1)}
  BY <1>2, SeqRange
<1>4. \A x \in 1..Len(s) : s[x] # i
  BY <1>1
<1>5. NoRepeat(a)
  BY <1>1, <1>2, <1>4, SMTT(60) DEF NoRepeat
<1>6. ASSUME NEW y \in Range(a) PROVE y \in Range(s) \cup {i}
  <2>1. PICK x \in 1..(Len(s) + 1) : y = a[x]
    BY <1>3
  <2>2. CASE x = 1
    BY <1>2, <2>1, <2>2
  <2>3. CASE x # 1
    <3>1. y = s[x - 1] /\ x - 1 \in 1..Len(s)
      BY <1>1, <1>2, <2>1, <2>3, SMT
    <3> QED BY <1>1, <3>1
  <2> QED BY <2>2, <2>3
<1>7. ASSUME NEW y \in Range(s) PROVE y \in Range(a)
  <2>1. PICK x \in 1..Len(s) : y = s[x]
    BY <1>1
  <2>2. y = a[x + 1] /\ x + 1 \in 1..(Len(s) + 1)
    BY <1>1, <1>2, <2>1, SMT
  <2> QED BY <1>3, <2>2
<1>8. i \in Range(a)
  <2>1. 1 \in 1..(Len(s) + 1)
    BY <1>1, SMT
  <2> QED BY <1>2, <1>3, <2>1
<1>9. Range(a) = Range(s) \cup {i}
  BY <1>6, <1>7, <1>8
<1> QED BY <1>2, <1>5, <1>9 DEF a

-----------------------------------------------------------------------------
(* Ranges end in the window, and every slot of one but its first is no     *)
(* start.                                                                  *)
LEMMA ShapeFacts ==
  ASSUME NEW S, NEW len, Shape(S, len), NEW i \in S
  PROVE  /\ i \in Int /\ i >= 0 /\ len[i] \in Int /\ len[i] > 0 /\ i + len[i] <= KMAP_PAGES
         /\ i \in Slots /\ i + len[i] - 1 \in Slots
         /\ \A j \in S : j # i => j + len[j] <= i \/ i + len[i] <= j
<1>1. i \in Slots /\ len[i] > 0 /\ i + len[i] \in S \cup {KMAP_PAGES} /\ S \subseteq Slots
  BY DEF Shape
<1>2. i \in Int /\ i >= 0 /\ i < KMAP_PAGES /\ len[i] \in Int
  BY <1>1, KmapAssumption, SMT DEF Shape, Slots
<1>3. i + len[i] <= KMAP_PAGES
  BY <1>1, <1>2, KmapAssumption, SMT DEF Slots
<1>4. i + len[i] - 1 \in Slots
  BY <1>1, <1>2, <1>3, KmapAssumption, SMT DEF Slots
<1>5. \A j \in S : j # i => j + len[j] <= i \/ i + len[i] <= j
  <2> SUFFICES ASSUME NEW j \in S, j # i PROVE j + len[j] <= i \/ i + len[i] <= j
    OBVIOUS
  <2>1. j \in Int /\ (j > i => j >= i + len[i]) /\ (i > j => i >= j + len[j]) /\ len[j] \in Int
    BY KmapAssumption, SMT DEF Shape, Slots
  <2> QED BY <1>2, <2>1, SMT
<1> QED BY <1>1, <1>2, <1>3, <1>4, <1>5

(* Two ranges that follow each other become one. *)
LEMMA MergeShape ==
  ASSUME NEW S, NEW len, Shape(S, len), NEW i \in S, NEW j \in S, j = i + len[i]
  PROVE  Shape(S \ {j}, [len EXCEPT ![i] = len[i] + len[j]])
<1> DEFINE T == S \ {j}
           new == [len EXCEPT ![i] = len[i] + len[j]]
<1>1. /\ S \subseteq Slots /\ 0 \in S /\ len \in [Slots -> Int]
      /\ \A x \in S : x + len[x] \in S \cup {KMAP_PAGES}
      /\ \A x \in S \cup {KMAP_PAGES} : x # 0 => \E y \in S : y + len[y] = x
  BY DEF Shape
<1>2. \A x \in S : /\ x \in Int /\ x >= 0 /\ len[x] \in Int /\ len[x] > 0
                   /\ x + len[x] <= KMAP_PAGES
                   /\ \A y \in S : y # x => y + len[y] <= x \/ x + len[x] <= y
  BY ShapeFacts
<1>3. i # j /\ j # 0 /\ i \in T
  BY <1>2, SMT
<1>4. /\ new \in [Slots -> Int] /\ new[i] = len[i] + len[j]
      /\ \A x \in S : x # i => new[x] = len[x]
  BY <1>1, <1>2, SMT
<1>5. j # KMAP_PAGES /\ j + len[j] # j
  BY <1>2, KmapAssumption, SMT
<1> HIDE DEF new
<1>6. ASSUME NEW x \in T
      PROVE  /\ new[x] > 0 /\ x + new[x] \in T \cup {KMAP_PAGES}
             /\ \A y \in T : y > x => y >= x + new[x]
  <2>1. CASE x = i
    <3>1. new[x] > 0
      BY <1>2, <1>4, <2>1, SMT
    <3>2. x + new[x] = j + len[j]
      BY <1>2, <1>4, <2>1, SMT
    <3>3. x + new[x] \in T \cup {KMAP_PAGES}
      BY <1>1, <1>5, <3>2
    <3>4. ASSUME NEW y \in T, y > x PROVE y >= x + new[x]
      BY <1>2, <2>1, <3>2, <3>4, SMT
    <3> QED BY <3>1, <3>3, <3>4
  <2>2. CASE x # i
    <3>1. new[x] = len[x]
      BY <1>4, <2>2
    <3>2. x + len[x] # j
      <4>1. x \in Int /\ i \in Int /\ len[x] \in Int /\ len[i] \in Int /\ len[x] > 0 /\ len[i] > 0
        BY <1>2
      <4>2. i + len[i] <= x \/ x + len[x] <= i
        BY <1>2, <2>2
      <4> QED BY <4>1, <4>2, SMT
    <3>3. x + new[x] \in T \cup {KMAP_PAGES}
      BY <1>1, <3>1, <3>2
    <3>4. ASSUME NEW y \in T, y > x PROVE y >= x + new[x]
      BY <1>2, <3>1, <3>4, SMT
    <3> QED BY <1>2, <3>1, <3>3, <3>4
  <2> QED BY <2>1, <2>2
<1>7. ASSUME NEW x \in T \cup {KMAP_PAGES}, x # 0 PROVE \E y \in T : y + new[y] = x
  <2>1. PICK y \in S : y + len[y] = x
    BY <1>1, <1>7
  <2>2. CASE y = j
    <3>1. i + new[i] = x
      BY <1>2, <1>4, <2>1, <2>2, SMT
    <3> QED BY <1>3, <3>1
  <2>3. CASE y # j
    <3>1. y # i
      BY <1>5, <2>1
    <3> QED BY <1>4, <2>1, <2>3, <3>1
  <2> QED BY <2>2, <2>3
<1>8. T \subseteq Slots /\ 0 \in T
  BY <1>1, <1>3
<1> QED BY <1>4, <1>6, <1>7, <1>8 DEF Shape, new

(* A range becomes two. *)
LEMMA SplitShape ==
  ASSUME NEW S, NEW len, Shape(S, len), NEW i \in S, NEW n \in Int, 0 < n, n < len[i]
  PROVE  /\ i + n \in Slots /\ i + n \notin S /\ i + n # i
         /\ Shape(S \cup {i + n}, [len EXCEPT ![i] = n, ![i + n] = len[i] - n])
<1> DEFINE j == i + n
           T == S \cup {j}
           new == [len EXCEPT ![i] = n, ![j] = len[i] - n]
<1>1. /\ S \subseteq Slots /\ 0 \in S /\ len \in [Slots -> Int]
      /\ \A x \in S : x + len[x] \in S \cup {KMAP_PAGES}
      /\ \A x \in S \cup {KMAP_PAGES} : x # 0 => \E y \in S : y + len[y] = x
  BY DEF Shape
<1>2. \A x \in S : /\ x \in Int /\ x >= 0 /\ len[x] \in Int /\ len[x] > 0
                   /\ x + len[x] <= KMAP_PAGES
                   /\ \A y \in S : y # x => y + len[y] <= x \/ x + len[x] <= y
  BY ShapeFacts
<1>3. j \in Int /\ i < j /\ j < i + len[i] /\ i \in Int /\ len[i] \in Int
  BY <1>2, SMT
<1>4. j \in Slots /\ j # i
  BY <1>2, <1>3, KmapAssumption, SMT DEF Slots
<1>5. j \notin S
  BY <1>2, <1>3, SMT
<1>6. /\ new \in [Slots -> Int] /\ new[i] = n /\ new[j] = len[i] - n
      /\ \A x \in S : x # i => new[x] = len[x]
  BY <1>1, <1>2, <1>4, <1>5, SMT
<1>7. i + new[i] = j /\ j + new[j] = i + len[i]
  BY <1>3, <1>6, SMT
<1> HIDE DEF new, j
<1>8. \A x \in S : x # i => x + len[x] <= i \/ j < x
  BY <1>2, <1>3, SMT
<1>9. ASSUME NEW x \in T
      PROVE  /\ new[x] > 0 /\ x + new[x] \in T \cup {KMAP_PAGES}
             /\ \A y \in T : y > x => y >= x + new[x]
  <2>1. CASE x = i
    <3>1. \A y \in T : y > x => y >= j
      BY <1>2, <1>3, <1>8, <2>1, SMT
    <3> QED BY <1>6, <1>7, <2>1, <3>1
  <2>2. CASE x = j
    <3>1. new[x] > 0
      BY <1>3, <1>6, <2>2, SMT DEF j
    <3>2. \A y \in T : y > x => y >= i + len[i]
      BY <1>2, <1>3, <2>2, SMT
    <3> QED BY <1>1, <1>7, <2>2, <3>1, <3>2
  <2>3. CASE x # i /\ x # j
    <3>1. x \in S /\ new[x] = len[x]
      BY <1>6, <2>3
    <3>2. \A y \in T : y > x => y >= x + len[x]
      BY <1>2, <1>3, <1>8, <2>3, <3>1, SMT
    <3> QED BY <1>1, <1>2, <3>1, <3>2
  <2> QED BY <2>1, <2>2, <2>3
<1>10. ASSUME NEW x \in T \cup {KMAP_PAGES}, x # 0 PROVE \E y \in T : y + new[y] = x
  <2>1. CASE x = j
    BY <1>7, <2>1
  <2>2. CASE x # j
    <3>1. PICK y \in S : y + len[y] = x
      BY <1>1, <1>10, <2>2
    <3>2. CASE y = i
      BY <1>7, <3>1, <3>2
    <3>3. CASE y # i
      BY <1>6, <3>1, <3>3
    <3> QED BY <3>2, <3>3
  <2> QED BY <2>1, <2>2
<1>11. T \subseteq Slots /\ 0 \in T
  BY <1>1, <1>4
<1>12. Shape(T, new)
  BY <1>6, <1>9, <1>10, <1>11 DEF Shape
<1> QED BY <1>4, <1>5, <1>12 DEF new, j

-----------------------------------------------------------------------------
(* The lists hold exactly the free ranges; they only depend on the lengths *)
(* of those.                                                               *)
LEMMA ListedAll ==
  ASSUME NEW l, NEW F, NEW len, Listed(l, F, len)
  PROVE  F = UNION {Range(l[k]) : k \in KmapOrder}
<1>1. \A k \in KmapOrder : Range(l[k]) = {i \in F : kmap_order(len[i]) = k}
  BY DEF Listed
<1>2. \A i \in F : kmap_order(len[i]) \in KmapOrder
  BY OrderType
<1>3. ASSUME NEW i \in F PROVE i \in UNION {Range(l[k]) : k \in KmapOrder}
  <2>1. i \in Range(l[kmap_order(len[i])]) /\ kmap_order(len[i]) \in KmapOrder
    BY <1>1, <1>2
  <2> QED BY <2>1
<1>4. ASSUME NEW i \in UNION {Range(l[k]) : k \in KmapOrder} PROVE i \in F
  BY <1>1
<1> QED BY <1>3, <1>4

LEMMA ListedSame ==
  ASSUME NEW l, NEW F, NEW len, NEW new, Listed(l, F, len), \A i \in F : new[i] = len[i]
  PROVE  Listed(l, F, new)
<1>1. \A k : {i \in F : kmap_order(len[i]) = k} = {i \in F : kmap_order(new[i]) = k}
  OBVIOUS
<1> QED BY <1>1 DEF Listed

LEMMA ListedDel ==
  ASSUME NEW l, NEW F, NEW len, Listed(l, F, len), NEW i
  PROVE  Listed(list_del(l, i), F \ {i}, len)
<1>1. ASSUME NEW k \in KmapOrder
      PROVE  /\ list_del(l, i)[k] \in Seq(Slots) /\ NoRepeat(list_del(l, i)[k])
             /\ Range(list_del(l, i)[k]) = {x \in F \ {i} : kmap_order(len[x]) = k}
  <2>1. l[k] \in Seq(Slots) /\ NoRepeat(l[k]) /\ Range(l[k]) = {x \in F : kmap_order(len[x]) = k}
    BY DEF Listed
  <2>2. list_del(l, i)[k] = Delete(l[k], i)
    BY DEF list_del
  <2>3. Range(l[k]) \ {i} = {x \in F \ {i} : kmap_order(len[x]) = k}
    BY <2>1
  <2> QED BY <2>1, <2>2, <2>3, DeleteRange
<1>2. list_del(l, i) \in [KmapOrder -> Seq(Slots)]
  BY <1>1 DEF list_del
<1> QED BY <1>1, <1>2 DEF Listed

LEMMA ListedAdd ==
  ASSUME NEW l, NEW F, NEW len, Listed(l, F, len), NEW i \in Slots, i \notin F
  PROVE  Listed(list_add(l, i, kmap_order(len[i])), F \cup {i}, len)
<1> DEFINE o == kmap_order(len[i])
           new == list_add(l, i, o)
<1>1. o \in KmapOrder /\ l \in [KmapOrder -> Seq(Slots)]
  BY OrderType DEF Listed
<1>2. new[o] = <<i>> \o l[o] /\ DOMAIN new = KmapOrder /\ \A k \in KmapOrder : k # o => new[k] = l[k]
  BY <1>1 DEF list_add
<1>3. new = [k \in KmapOrder |-> new[k]]
  BY <1>1 DEF list_add
<1> HIDE DEF new, o
<1>4. ASSUME NEW k \in KmapOrder
      PROVE  /\ new[k] \in Seq(Slots) /\ NoRepeat(new[k])
             /\ Range(new[k]) = {x \in F \cup {i} : kmap_order(len[x]) = k}
  <2>1. l[k] \in Seq(Slots) /\ NoRepeat(l[k]) /\ Range(l[k]) = {x \in F : kmap_order(len[x]) = k}
    BY DEF Listed
  <2>2. CASE k = o
    <3>1. i \notin Range(l[k])
      BY <2>1
    <3>2. /\ new[k] \in Seq(Slots) /\ NoRepeat(new[k]) /\ Range(new[k]) = Range(l[k]) \cup {i}
      BY <1>2, <2>1, <2>2, <3>1, AddRange
    <3> QED BY <2>1, <2>2, <3>2 DEF o
  <2>3. CASE k # o
    <3>1. new[k] = l[k]
      BY <1>2, <2>3
    <3> QED BY <2>1, <2>3, <3>1 DEF o
  <2> QED BY <2>2, <2>3
<1>5. new \in [KmapOrder -> Seq(Slots)]
  BY <1>3, <1>4
<1> QED BY <1>4, <1>5 DEF Listed, new, o

-----------------------------------------------------------------------------
(* The loose range i and a free range j around it become one loose range;  *)
(* s is where it starts and e where the second of the two starts.          *)
LEMMA Join ==
  ASSUME NEW p, NEW u, NEW l, NEW S, NEW F, NEW len, NEW i, Loose(p, u, l, S, F, len, i),
         NEW j \in F, NEW s, NEW e,
         (s = i /\ e = j) \/ (s = j /\ e = i), e = s + len[s]
  PROVE  LET new == [len EXCEPT ![s] = len[i] + len[j]]
         IN  /\ Loose(p, u, list_del(l, j), S \ {e}, F \ {j}, new, s)
             /\ new[s] = len[i] + len[j] /\ \A x \in S : x # s => new[x] = len[x]
<1> DEFINE new == [len EXCEPT ![s] = len[i] + len[j]]
           T == S \ {e}
           G == F \ {j}
<1>1. /\ F \subseteq S /\ i \in S \ F /\ Shape(S, len) /\ Tags(p, S \ {i}, len)
      /\ Flags(u, S \ {i}, F) /\ Listed(l, F, len) /\ Apart(F, len)
  BY DEF Loose
<1>2. s \in S /\ e \in S /\ i # j
  BY <1>1
<1>3. len[s] + len[e] = len[i] + len[j]
  <2>1. len[i] \in Int /\ len[j] \in Int
    BY <1>1, ShapeFacts
  <2> QED BY <2>1, SMT
<1>4. Shape(T, new)
  BY <1>1, <1>2, <1>3, MergeShape
<1>5. new[s] = len[i] + len[j] /\ \A x \in S : x # s => new[x] = len[x]
  <2>1. s \in Slots /\ len \in [Slots -> Int] /\ S \subseteq Slots
    BY <1>1, <1>2 DEF Shape
  <2> QED BY <2>1
<1> HIDE DEF new
<1>6. T \ {s} = S \ {i, j}
  BY <1>2
<1>7. Tags(p, T \ {s}, new)
  <2>1. \A x \in S \ {i, j} : new[x] = len[x]
    BY <1>5
  <2> QED BY <1>1, <1>6, <2>1 DEF Tags
<1>8. Flags(u, T \ {s}, G)
  BY <1>1, <1>6 DEF Flags
<1>9. G \subseteq T /\ s \in T \ G
  <2>1. s # e
    BY <1>2
  <2> QED BY <1>1, <1>2, <2>1
<1>10. \A x \in G : new[x] = len[x]
  BY <1>1, <1>5
<1>11. Listed(list_del(l, j), G, new)
  <2>1. Listed(list_del(l, j), G, len)
    BY <1>1, ListedDel
  <2> QED BY <1>10, <2>1, ListedSame
<1>12. Apart(G, new)
  BY <1>1, <1>10 DEF Apart
<1> QED BY <1>4, <1>5, <1>7, <1>8, <1>9, <1>11, <1>12 DEF Loose, new

(* A loose range without free neighbours is tagged, flagged and listed. *)
LEMMA Finish ==
  ASSUME NEW p, NEW u, NEW l, NEW S, NEW F, NEW len, NEW i, Loose(p, u, l, S, F, len, i),
         i + len[i] \notin F, \A x \in F : x + len[x] # i
  PROVE  Whole(SetLength(p, i, len[i]), [u EXCEPT ![i] = FALSE],
               list_add(l, i, kmap_order(len[i])), S, F \cup {i}, len)
<1> DEFINE q == SetLength(p, i, len[i])
           v == [u EXCEPT ![i] = FALSE]
           G == F \cup {i}
<1>1. /\ F \subseteq S /\ i \in S \ F /\ Shape(S, len) /\ Tags(p, S \ {i}, len)
      /\ Flags(u, S \ {i}, F) /\ Listed(l, F, len) /\ Apart(F, len)
  BY DEF Loose
<1>2. \A x \in S : /\ x \in Int /\ len[x] \in Int /\ len[x] > 0 /\ x \in Slots
                   /\ x + len[x] - 1 \in Slots
                   /\ \A y \in S : y # x => y + len[y] <= x \/ x + len[x] <= y
  BY <1>1, ShapeFacts
<1>3. p \in [Slots -> Int] /\ \A x \in S \ {i} : p[x] = len[x] /\ p[x + len[x] - 1] = len[x]
  BY <1>1 DEF Tags
<1>4. /\ q \in [Slots -> Int] /\ q[i] = len[i] /\ q[i + len[i] - 1] = len[i]
      /\ \A x \in Slots : x # i /\ x # i + len[i] - 1 => q[x] = p[x]
  BY <1>1, <1>2, <1>3, SMT DEF SetLength
<1>5. Tags(q, S, len)
  <2> HIDE DEF q
  <2>1. ASSUME NEW x \in S \ {i} PROVE q[x] = len[x] /\ q[x + len[x] - 1] = len[x]
    <3>1. /\ x # i /\ x # i + len[i] - 1
          /\ x + len[x] - 1 # i /\ x + len[x] - 1 # i + len[i] - 1
      BY <1>1, <1>2, SMT
    <3> QED BY <1>2, <1>3, <1>4, <3>1
  <2> QED BY <1>4, <2>1 DEF Tags
<1>6. Flags(v, S, G)
  <2>1. u \in [Slots -> BOOLEAN] /\ \A x \in S \ {i} : u[x] <=> x \notin F
    BY <1>1 DEF Flags
  <2>2. v \in [Slots -> BOOLEAN] /\ ~v[i] /\ \A x \in S \ {i} : v[x] = u[x]
    BY <1>1, <1>2, <2>1
  <2> QED BY <1>1, <2>1, <2>2 DEF Flags
<1>7. Listed(list_add(l, i, kmap_order(len[i])), G, len)
  BY <1>1, <1>2, ListedAdd
<1>8. Apart(G, len)
  <2>1. i + len[i] # i
    BY <1>1, <1>2, SMT
  <2> QED BY <1>1, <2>1 DEF Apart
<1> QED BY <1>1, <1>5, <1>6, <1>7, <1>8 DEF Whole

(* The head of the range in front of i, whether i is joined to it, and the *)
(* head of the range that results.                                         *)
Prev(p, i) == i - p[i - 1]

JoinsPrev(p, u, i) == i > 0 /\ ~u[Prev(p, i)]

First(p, u, i) == IF JoinsPrev(p, u, i) THEN Prev(p, i) ELSE i

(* With the range in front joined, the loose range touches no free range in*)
(* front of it.                                                            *)
JoinedPrev(p, u, l, S, F, len, i) ==
  \E T, G, new :
    /\ Loose(p, u, IF JoinsPrev(p, u, i) THEN list_del(l, Prev(p, i)) ELSE l, T, G, new,
             First(p, u, i))
    /\ new[First(p, u, i)] = IF JoinsPrev(p, u, i) THEN len[i] + p[Prev(p, i)] ELSE len[i]
    /\ \A x \in G : x + new[x] # First(p, u, i)
    /\ (T \ G) \ {First(p, u, i)} = (S \ F) \ {i}
    /\ \A x \in (S \ F) \ {i} : new[x] = len[x]

(* The first half of kmap_free_range: the range in front is found by its   *)
(* last tag, and joined if its head says that it is free.                  *)
LEMMA WithPrev ==
  ASSUME NEW p, NEW u, NEW l, NEW S, NEW F, NEW len, NEW i, Loose(p, u, l, S, F, len, i)
  PROVE  JoinedPrev(p, u, l, S, F, len, i)
<1> USE DEF Prev, JoinsPrev, First, JoinedPrev
<1> DEFINE prev == i - p[i - 1]
           join == i > 0 /\ ~u[prev]
<1>1. /\ F \subseteq S /\ i \in S \ F /\ Shape(S, len) /\ Tags(p, S \ {i}, len)
      /\ Flags(u, S \ {i}, F) /\ Listed(l, F, len) /\ Apart(F, len)
  BY DEF Loose
<1>2. \A x \in S : x \in Int /\ x >= 0 /\ len[x] \in Int /\ len[x] > 0
  BY <1>1, ShapeFacts
<1>3. ASSUME NEW j \in S, j + len[j] = i PROVE i > 0 /\ j # i /\ prev = j /\ p[j] = len[j]
  <2>1. i > 0 /\ j # i /\ j + len[j] - 1 = i - 1
    BY <1>1, <1>2, <1>3, SMT
  <2>2. p[i - 1] = len[j] /\ p[j] = len[j]
    BY <1>1, <2>1 DEF Tags
  <2>3. prev = j
    BY <1>1, <1>2, <1>3, <2>2, SMT
  <2> QED BY <2>1, <2>2, <2>3
<1> HIDE DEF prev
<1>4. CASE join
  <2>1. i # 0
    BY <1>1, <1>2, <1>4, SMT
  <2>2. PICK j \in S : j + len[j] = i
    BY <1>1, <2>1 DEF Shape
  <2>3. prev = j /\ j # i /\ p[j] = len[j]
    BY <1>3, <2>2
  <2>4. j \in F
    BY <1>1, <1>4, <2>3 DEF Flags
  <2> DEFINE new == [len EXCEPT ![j] = len[i] + len[j]]
  <2>5. /\ Loose(p, u, list_del(l, j), S \ {i}, F \ {j}, new, j)
        /\ new[j] = len[i] + len[j] /\ \A x \in S : x # j => new[x] = len[x]
    BY <1>1, <2>2, <2>4, Join, SMTT(60)
  <2> HIDE DEF new
  <2>6. \A x \in F \ {j} : x + new[x] # j
    <3>1. \A x \in F \ {j} : new[x] = len[x]
      BY <1>1, <2>5
    <3> QED BY <1>1, <2>4, <3>1 DEF Apart
  <2>7. ((S \ {i}) \ (F \ {j})) \ {j} = (S \ F) \ {i}
    BY <2>4
  <2>8. \A x \in (S \ F) \ {i} : new[x] = len[x]
    BY <2>4, <2>5
  <2> QED BY <1>4, <2>3, <2>5, <2>6, <2>7, <2>8, SMTT(60) DEF prev
<1>5. CASE ~join
  <2>1. ASSUME NEW x \in F PROVE x + len[x] # i
    <3> SUFFICES ASSUME x + len[x] = i PROVE FALSE
      OBVIOUS
    <3>1. i > 0 /\ prev = x /\ x # i
      BY <1>1, <1>3
    <3>2. ~u[x]
      BY <1>1, <3>1 DEF Flags
    <3> QED BY <1>5, <3>1, <3>2
  <2> QED BY <1>5, <2>1 DEF prev
<1> QED BY <1>4, <1>5

(* The second half: the range behind it. *)
LEMMA WithNext ==
  ASSUME NEW p, NEW u, NEW l, NEW S, NEW F, NEW len, NEW i, Loose(p, u, l, S, F, len, i),
         \A x \in F : x + len[x] # i
  PROVE  LET next == i + len[i]
             join == next < KMAP_PAGES /\ ~u[next]
         IN  \E T, G, new :
               /\ Loose(p, u, IF join THEN list_del(l, next) ELSE l, T, G, new, i)
               /\ new[i] = IF join THEN len[i] + p[next] ELSE len[i]
               /\ i + new[i] \notin G /\ \A x \in G : x + new[x] # i
               /\ (T \ G) \ {i} = (S \ F) \ {i}
               /\ \A x \in (S \ F) \ {i} : new[x] = len[x]
<1> DEFINE j == i + len[i]
           join == j < KMAP_PAGES /\ ~u[j]
<1>1. /\ F \subseteq S /\ i \in S \ F /\ Shape(S, len) /\ Tags(p, S \ {i}, len)
      /\ Flags(u, S \ {i}, F) /\ Listed(l, F, len) /\ Apart(F, len)
  BY DEF Loose
<1>2. \A x \in S : x \in Int /\ x >= 0 /\ len[x] \in Int /\ len[x] > 0 /\ x < KMAP_PAGES
  <2>1. \A x \in S : x \in Int /\ x >= 0 /\ len[x] \in Int /\ len[x] > 0 /\ x \in Slots
    BY <1>1, ShapeFacts
  <2> QED BY <2>1, KmapAssumption, SMT DEF Slots
<1>3. j \in S \cup {KMAP_PAGES} /\ j # i
  BY <1>1, <1>2, SMT DEF Shape
<1> HIDE DEF j
<1>4. CASE join
  <2>1. j \in S
    BY <1>3, <1>4, KmapAssumption, SMT
  <2>2. j \in F /\ p[j] = len[j]
    BY <1>1, <1>3, <1>4, <2>1 DEF Flags, Tags
  <2> DEFINE new == [len EXCEPT ![i] = len[i] + len[j]]
  <2>3. /\ Loose(p, u, list_del(l, j), S \ {j}, F \ {j}, new, i)
        /\ new[i] = len[i] + len[j] /\ \A x \in S : x # i => new[x] = len[x]
    BY <1>1, <2>2, Join, SMTT(60) DEF j
  <2> HIDE DEF new
  <2>4. i + new[i] = j + len[j]
    <3>1. i \in Int /\ len[i] \in Int /\ len[j] \in Int
      BY <1>1, <1>2, <2>1
    <3> QED BY <2>3, <3>1, SMTT(60) DEF j
  <2>5. i + new[i] \notin F
    BY <1>1, <2>2, <2>4 DEF Apart
  <2>6. \A x \in F \ {j} : x + new[x] # i
    BY <1>1, <2>3
  <2>7. ((S \ {j}) \ (F \ {j})) \ {i} = (S \ F) \ {i}
    BY <2>2
  <2>8. \A x \in (S \ F) \ {i} : new[x] = len[x]
    BY <2>3
  <2> QED BY <1>4, <2>2, <2>3, <2>5, <2>6, <2>7, <2>8, SMTT(60) DEF j
<1>5. CASE ~join
  <2>1. j \notin F
    <3> SUFFICES ASSUME j \in F PROVE FALSE
      OBVIOUS
    <3>1. j < KMAP_PAGES /\ ~u[j]
      BY <1>1, <1>2, <1>3 DEF Flags
    <3> QED BY <1>5, <3>1
  <2> QED BY <1>5, <2>1 DEF j
<1> QED BY <1>4, <1>5 DEF j

(* The ranges r are whole, and those in use are those of S, F, len but i.  *)
Released(r, S, F, len, i) ==
  \E T, G, new :
    /\ Whole(r.pages, r.unlinked, r.list, T, G, new)
    /\ T \ G = (S \ F) \ {i} /\ \A x \in T \ G : new[x] = len[x]

(* kmap_free_range turns a loose range into a part of a free one, and the  *)
(* other ranges in use stay what they are.                                 *)
LEMMA FreeRange ==
  ASSUME NEW p, NEW u, NEW l, NEW S, NEW F, NEW len, NEW i, Loose(p, u, l, S, F, len, i),
         NEW n, n = len[i]
  PROVE  Released(kmap_free_range([pages |-> p, unlinked |-> u, list |-> l], i, n), S, F, len, i)
<1> DEFINE r == kmap_free_range([pages |-> p, unlinked |-> u, list |-> l], i, n)
           prev == Prev(p, i)
           joinPrev == JoinsPrev(p, u, i)
           first == First(p, u, i)
           n1 == IF joinPrev THEN n + p[prev] ELSE n
           list1 == IF joinPrev THEN list_del(l, prev) ELSE l
           next == first + n1
           joinNext == next < KMAP_PAGES /\ ~u[next]
           n2 == IF joinNext THEN n1 + p[next] ELSE n1
           list2 == IF joinNext THEN list_del(list1, next) ELSE list1
<1>1. /\ r.pages = SetLength(p, first, n2)
      /\ r.unlinked = [u EXCEPT ![first] = FALSE]
      /\ r.list = list_add(list2, first, kmap_order(n2))
  BY DEF kmap_free_range, Prev, JoinsPrev, First
<1>2. PICK S1, F1, len1 :
        /\ Loose(p, u, list1, S1, F1, len1, first) /\ len1[first] = n1
        /\ \A x \in F1 : x + len1[x] # first
        /\ (S1 \ F1) \ {first} = (S \ F) \ {i}
        /\ \A x \in (S \ F) \ {i} : len1[x] = len[x]
  <2>1. JoinedPrev(p, u, l, S, F, len, i)
    BY WithPrev
  <2>2. \E T, G, new :
          /\ Loose(p, u, list1, T, G, new, first)
          /\ new[first] = IF joinPrev THEN len[i] + p[prev] ELSE len[i]
          /\ \A x \in G : x + new[x] # first
          /\ (T \ G) \ {first} = (S \ F) \ {i}
          /\ \A x \in (S \ F) \ {i} : new[x] = len[x]
    BY <2>1 DEF JoinedPrev
  <2>3. n1 = IF joinPrev THEN len[i] + p[prev] ELSE len[i]
    OBVIOUS
  <2> HIDE DEF first, n1, list1, joinPrev
  <2> QED BY <2>2, <2>3
<1> HIDE DEF first, n1, list1, r
<1>3. PICK S2, F2, len2 :
        /\ Loose(p, u, list2, S2, F2, len2, first) /\ len2[first] = n2
        /\ first + len2[first] \notin F2 /\ \A x \in F2 : x + len2[x] # first
        /\ (S2 \ F2) \ {first} = (S1 \ F1) \ {first}
        /\ \A x \in (S1 \ F1) \ {first} : len2[x] = len1[x]
  BY <1>2, WithNext, SMTT(60)
<1> HIDE DEF n2, list2
<1>4. Whole(r.pages, r.unlinked, r.list, S2, F2 \cup {first}, len2)
  <2>1. Whole(SetLength(p, first, len2[first]), [u EXCEPT ![first] = FALSE],
              list_add(list2, first, kmap_order(len2[first])), S2, F2 \cup {first}, len2)
    BY <1>3, Finish
  <2> QED BY <1>1, <1>3, <2>1
<1>5. S2 \ (F2 \cup {first}) = (S \ F) \ {i}
  BY <1>2, <1>3
<1>6. \A x \in (S \ F) \ {i} : len2[x] = len[x]
  BY <1>2, <1>3
<1>7. Released(r, S, F, len, i)
  BY <1>4, <1>5, <1>6, SMT DEF Released
<1> QED BY <1>7 DEF r

(* What the tags say is the shape, and what is listed is free. *)
Records(p, u, l, S, F, len) ==
  /\ F = UNION {Range(l[k]) : k \in KmapOrder} /\ \A x \in S : p[x] = len[x]
  /\ Whole(p, u, l, S, F, p) /\ F \subseteq S

LEMMA Recorded ==
  ASSUME NEW p, NEW u, NEW l, NEW S, NEW F, NEW len, Whole(p, u, l, S, F, len)
  PROVE  Records(p, u, l, S, F, len)
<1>1. /\ F \subseteq S /\ Shape(S, len) /\ Tags(p, S, len) /\ Flags(u, S, F)
      /\ Listed(l, F, len) /\ Apart(F, len)
  BY DEF Whole
<1>2. p \in [Slots -> Int] /\ \A x \in S : p[x] = len[x]
  BY <1>1 DEF Tags
<1>3. Shape(S, p)
  <2>1. \A x \in S : x + len[x] = x + p[x]
    BY <1>2
  <2> QED BY <1>1, <1>2, <2>1 DEF Shape
<1>4. Tags(p, S, p)
  BY <1>1, <1>2 DEF Tags
<1>5. Listed(l, F, p)
  BY <1>1, <1>2, ListedSame
<1>6. Apart(F, p)
  BY <1>1, <1>2 DEF Apart
<1>7. Whole(p, u, l, S, F, p)
  BY <1>1, <1>3, <1>4, <1>5, <1>6 DEF Whole
<1>8. F = UNION {Range(l[k]) : k \in KmapOrder}
  BY <1>1, ListedAll
<1> QED BY <1>1, <1>2, <1>7, <1>8 DEF Records

(* kmap_alloc_range takes n pages from the beginning of the free range i. *)
LEMMA AllocRange ==
  ASSUME Whole(pages, unlinked, free_kmap, Start, FreeStart, pages),
         NEW i \in FreeStart, NEW n \in Int, 0 < n, n <= pages[i]
  PROVE  LET r == kmap_alloc_range(i, n)
         IN  \E T, G, new :
               /\ Whole(r.pages, r.unlinked, r.list, T, G, new)
               /\ T \ G = (Start \ FreeStart) \cup {i} /\ new[i] = n
               /\ \A x \in Start \ FreeStart : new[x] = pages[x]
<1> DEFINE q == SetLength(pages, i, n)
           v == [unlinked EXCEPT ![i] = TRUE]
           m == list_del(free_kmap, i)
           G == FreeStart \ {i}
<1>1. /\ FreeStart \subseteq Start /\ Shape(Start, pages) /\ Tags(pages, Start, pages)
      /\ Flags(unlinked, Start, FreeStart) /\ Listed(free_kmap, FreeStart, pages)
      /\ Apart(FreeStart, pages)
  BY DEF Whole
<1>2. \A x \in Start : /\ x \in Int /\ pages[x] \in Int /\ pages[x] > 0 /\ x \in Slots
                       /\ x >= 0 /\ x + pages[x] - 1 \in Slots
                       /\ \A y \in Start : y # x => y + pages[y] <= x \/ x + pages[x] <= y
  BY <1>1, ShapeFacts
<1>3. i \in Start /\ i + n - 1 \in Slots
  <2>1. i \in Start
    BY <1>1
  <2>2. i + n - 1 \in Slots
    BY <1>2, <2>1, KmapAssumption, SMT DEF Slots
  <2> QED BY <2>1, <2>2
<1>4. /\ pages \in [Slots -> Int] /\ q \in [Slots -> Int] /\ q[i] = n /\ q[i + n - 1] = n
      /\ \A x \in Slots : x # i /\ x # i + n - 1 => q[x] = pages[x]
  BY <1>1, <1>2, <1>3, SMT DEF SetLength, Shape
<1>5. Flags(v, Start, G)
  <2>1. unlinked \in [Slots -> BOOLEAN] /\ \A x \in Start : unlinked[x] <=> x \notin FreeStart
    BY <1>1 DEF Flags
  <2>2. v \in [Slots -> BOOLEAN] /\ v[i] /\ \A x \in Start \ {i} : v[x] = unlinked[x]
    BY <1>2, <1>3, <2>1
  <2> QED BY <2>1, <2>2 DEF Flags
<1>6. Listed(m, G, pages)
  BY <1>1, ListedDel
<1>7. Apart(G, pages)
  BY <1>1 DEF Apart
<1>8. \A x \in Start \ {i} : q[x] = pages[x] /\ q[x + pages[x] - 1] = pages[x]
  <2> SUFFICES ASSUME NEW x \in Start \ {i}
               PROVE  q[x] = pages[x] /\ q[x + pages[x] - 1] = pages[x]
    OBVIOUS
  <2>1. x # i /\ x # i + n - 1 /\ x + pages[x] - 1 # i /\ x + pages[x] - 1 # i + n - 1
    BY <1>2, <1>3, SMT
  <2>2. x \in Slots /\ x + pages[x] - 1 \in Slots /\ pages[x + pages[x] - 1] = pages[x]
    BY <1>1, <1>2 DEF Tags
  <2> QED BY <1>4, <2>1, <2>2
<1> DEFINE r == kmap_alloc_range(i, n)
<1>9. r = IF pages[i] > n
            THEN kmap_free_range([pages |-> q, unlinked |-> v, list |-> m], i + n, pages[i] - n)
          ELSE [pages |-> q, unlinked |-> v, list |-> m]
  BY DEF kmap_alloc_range
<1> HIDE DEF q, v, m, r
<1>10. CASE pages[i] > n
  <2> DEFINE j == i + n
             S2 == Start \cup {j}
             len2 == [pages EXCEPT ![i] = n, ![j] = pages[i] - n]
  <2>1. j \in Slots /\ j \notin Start /\ j # i /\ Shape(S2, len2)
    <3>1. n < pages[i]
      BY <1>2, <1>3, <1>10, SMT
    <3> QED BY <1>1, <1>3, <3>1, SplitShape
  <2>2. len2[i] = n /\ len2[j] = pages[i] - n /\ \A x \in Start : x # i => len2[x] = pages[x]
    BY <1>2, <1>3, <1>4, <2>1, SMT
  <2> HIDE DEF j, len2
  <2>3. Tags(q, S2 \ {j}, len2)
    <3>1. S2 \ {j} = Start
      BY <2>1
    <3>2. ASSUME NEW x \in Start PROVE q[x] = len2[x] /\ q[x + len2[x] - 1] = len2[x]
      <4>1. CASE x = i
        BY <1>4, <2>2, <4>1
      <4>2. CASE x # i
        BY <1>8, <2>2, <4>2
      <4> QED BY <4>1, <4>2
    <3> QED BY <1>4, <3>1, <3>2 DEF Tags
  <2>4. Flags(v, S2 \ {j}, G)
    <3>1. S2 \ {j} = Start
      BY <2>1
    <3> QED BY <1>5, <3>1
  <2>5. \A x \in G : len2[x] = pages[x]
    BY <1>1, <2>2
  <2>6. Listed(m, G, len2) /\ Apart(G, len2)
    BY <1>6, <1>7, <2>5, ListedSame DEF Apart
  <2>7. Loose(q, v, m, S2, G, len2, j)
    BY <1>1, <2>1, <2>3, <2>4, <2>6 DEF Loose
  <2>8. PICK T, H, new :
          /\ Whole(r.pages, r.unlinked, r.list, T, H, new)
          /\ T \ H = (S2 \ G) \ {j} /\ \A x \in T \ H : new[x] = len2[x]
    <3>1. Released(kmap_free_range([pages |-> q, unlinked |-> v, list |-> m], j, pages[i] - n),
                   S2, G, len2, j)
      BY <2>2, <2>7, FreeRange
    <3>2. r = kmap_free_range([pages |-> q, unlinked |-> v, list |-> m], j, pages[i] - n)
      BY <1>9, <1>10 DEF j
    <3> QED BY <3>1, <3>2 DEF Released
  <2>9. T \ H = (Start \ FreeStart) \cup {i}
    BY <1>3, <2>1, <2>8
  <2>10. new[i] = n /\ \A x \in Start \ FreeStart : new[x] = pages[x]
    BY <2>2, <2>8, <2>9
  <2> QED BY <2>8, <2>9, <2>10, SMTT(60) DEF r
<1>11. CASE ~(pages[i] > n)
  <2>1. pages[i] = n
    <3>1. pages[i] \in Int
      BY <1>2, <1>3
    <3> QED BY <1>11, <3>1, SMT
  <2>2. Tags(q, Start, pages)
    BY <1>4, <1>8, <2>1 DEF Tags
  <2>3. r.pages = q /\ r.unlinked = v /\ r.list = m
    BY <1>9, <1>11
  <2>4. Whole(r.pages, r.unlinked, r.list, Start, G, pages)
    BY <1>1, <1>5, <1>6, <1>7, <2>2, <2>3 DEF Whole
  <2>5. Start \ G = (Start \ FreeStart) \cup {i}
    BY <1>3
  <2> QED BY <2>1, <2>4, <2>5 DEF r
<1> QED BY <1>10, <1>11

-----------------------------------------------------------------------------
(* The inductive invariant: the recorded ranges have a shape, in which each*)
(* but the first has a range in front of it; and the buffers.              *)
Used == DOMAIN mapping

Shown ==
  /\ \A i \in Used : mapping[i] \in Seq(Frame) /\ Len(mapping[i]) = pages[i]
  /\ slot \in [Slots -> Frame \cup {0}]
  /\ \A i \in Used : \A k \in 1..pages[i] : slot[i + k - 1] = mapping[i][k]
  /\ \A j \in Slots : slot[j] # 0 => \E i \in Used : j \in i..(i + pages[i] - 1)

WindowInv ==
  /\ Whole(pages, unlinked, free_kmap, Start, FreeStart, pages)
  /\ FreeStart \cap Used = {} /\ Shown

(* A step that leaves whole ranges, of which those in use are the buffers. *)
LEMMA Stored ==
  ASSUME NEW T, NEW G, NEW len, Whole(pages', unlinked', free_kmap', T, G, len), T \ G = Used'
  PROVE  /\ Whole(pages, unlinked, free_kmap, Start, FreeStart, pages)'
         /\ (FreeStart \cap Used = {})'
         /\ \A x \in Used' : pages'[x] = len[x]
<1>1. /\ G = UNION {Range(free_kmap'[k]) : k \in KmapOrder} /\ \A x \in T : pages'[x] = len[x]
      /\ Whole(pages', unlinked', free_kmap', T, G, pages') /\ G \subseteq T
  <2>1. Records(pages', unlinked', free_kmap', T, G, len)
    BY Recorded
  <2> QED BY <2>1 DEF Records
<1>2. FreeStart' = G
  BY <1>1 DEF FreeStart
<1>3. Start' = T
  BY <1>1, <1>2 DEF Start, Used
<1>4. Whole(pages', unlinked', free_kmap', Start', FreeStart', pages')
  BY <1>1, <1>2, <1>3
<1> QED BY <1>1, <1>2, <1>4

LEMMA Initially == KmapInit => WindowInv
<1> SUFFICES ASSUME KmapInit PROVE WindowInv
  OBVIOUS
<1> DEFINE p == [i \in Slots |-> 0]
           u == [i \in Slots |-> FALSE]
           l == [k \in KmapOrder |-> << >>]
           len == [i \in Slots |-> KMAP_PAGES]
           r == kmap_free_range([pages |-> p, unlinked |-> u, list |-> l], 0, KMAP_PAGES)
<1>1. /\ pages = r.pages /\ unlinked = r.unlinked /\ free_kmap = r.list
      /\ slot = [i \in Slots |-> 0] /\ mapping = << >>
  BY DEF KmapInit
<1>2. KMAP_PAGES \in Int /\ KMAP_PAGES > 0 /\ 0 \in Slots
  BY KmapAssumption, SMT DEF Slots
<1>3. Shape({0}, len)
  <2>1. len \in [Slots -> Int] /\ len[0] = KMAP_PAGES
    BY <1>2
  <2> HIDE DEF len
  <2>2. 0 + len[0] = KMAP_PAGES
    BY <1>2, <2>1, SMT
  <2>3. \A j \in {0} : ~(j > 0)
    BY SMT
  <2> QED BY <1>2, <2>1, <2>2, <2>3 DEF Shape
<1>4. Listed(l, {}, len)
  <2>1. << >> \in Seq(Slots) /\ NoRepeat(<< >>) /\ Range(<< >>) = {}
    BY SMT DEF NoRepeat, Range
  <2> QED BY <2>1 DEF Listed
<1>5. Loose(p, u, l, {0}, {}, len, 0) /\ len[0] = KMAP_PAGES
  <2>1. Tags(p, {}, len) /\ Flags(u, {}, {}) /\ Apart({}, len) /\ len[0] = KMAP_PAGES
    BY <1>2 DEF Tags, Flags, Apart
  <2>2. {0} \ {0} = {}
    OBVIOUS
  <2> HIDE DEF p, u, l, len
  <2> QED BY <1>3, <1>4, <2>1, <2>2 DEF Loose
<1> HIDE DEF p, u, l, len
<1>6. PICK T, G, new : Whole(r.pages, r.unlinked, r.list, T, G, new) /\ T \ G = ({0} \ {}) \ {0}
  <2>1. Released(r, {0}, {}, len, 0)
    BY <1>5, FreeRange
  <2> QED BY <2>1 DEF Released
<1> HIDE DEF r
<1>7. /\ G = UNION {Range(r.list[k]) : k \in KmapOrder}
      /\ Whole(r.pages, r.unlinked, r.list, T, G, r.pages) /\ G \subseteq T
  <2>1. Records(r.pages, r.unlinked, r.list, T, G, new)
    BY <1>6, Recorded
  <2> QED BY <2>1 DEF Records
<1>8. Used = {}
  BY <1>1, SMT DEF Used
<1>9. FreeStart = G /\ Start = T
  BY <1>1, <1>6, <1>7, <1>8 DEF FreeStart, Start, Used
<1>10. Whole(pages, unlinked, free_kmap, Start, FreeStart, pages)
  BY <1>1, <1>7, <1>9
<1>11. Shown
  BY <1>1, <1>8 DEF Shown
<1> QED BY <1>8, <1>10, <1>11 DEF WindowInv

(* What the invariant says of where ranges are. *)
LEMMA Placed ==
  ASSUME WindowInv
  PROVE  /\ Start = FreeStart \cup Used /\ Start \ FreeStart = Used
         /\ \A x \in Start : /\ x \in Int /\ x >= 0 /\ pages[x] \in Int /\ pages[x] > 0
                             /\ x \in Slots /\ x + pages[x] <= KMAP_PAGES
                             /\ \A y \in Start : y # x => y + pages[y] <= x \/ x + pages[x] <= y
<1>1. Shape(Start, pages)
  BY DEF WindowInv, Whole
<1>2. Start = FreeStart \cup Used /\ Start \ FreeStart = Used
  BY DEF WindowInv, Start, Used
<1> QED BY <1>1, <1>2, ShapeFacts

LEMMA KunmapStep ==
  ASSUME WindowInv, NEW i \in Slots, kunmap(i)
  PROVE  WindowInv'
<1>1. /\ Start \ FreeStart = Used
      /\ \A x \in Used : /\ x \in Int /\ x >= 0 /\ pages[x] \in Int /\ pages[x] > 0
                         /\ x \in Slots /\ x + pages[x] <= KMAP_PAGES
                         /\ \A y \in Used : y # x => y + pages[y] <= x \/ x + pages[x] <= y
  BY Placed
<1>2. i \in Used /\ Used' = Used \ {i} /\ \A x \in Used' : mapping'[x] = mapping[x]
  BY DEF kunmap, Used
<1>3. slot' = [j \in Slots |-> IF j \in i..(i + pages[i] - 1) THEN 0 ELSE slot[j]]
  BY DEF kunmap
<1> DEFINE r == kmap_free_range(Ranges, i, pages[i])
<1>4. Store(r)
  BY DEF kunmap
<1>5. Loose(pages, unlinked, free_kmap, Start, FreeStart, pages, i)
  <2>1. i \in Start \ FreeStart
    BY <1>1, <1>2
  <2> QED BY <2>1 DEF WindowInv, Whole, Loose, Tags, Flags
<1>6. PICK T, G, new :
        /\ Whole(r.pages, r.unlinked, r.list, T, G, new)
        /\ T \ G = (Start \ FreeStart) \ {i} /\ \A x \in T \ G : new[x] = pages[x]
  <2>1. Released(r, Start, FreeStart, pages, i)
    BY <1>5, FreeRange DEF Ranges
  <2> QED BY <2>1 DEF Released
<1> HIDE DEF r
<1>7. T \ G = Used'
  BY <1>1, <1>2, <1>6
<1>8. /\ Whole(pages, unlinked, free_kmap, Start, FreeStart, pages)'
      /\ (FreeStart \cap Used = {})'
      /\ \A x \in Used' : pages'[x] = pages[x]
  <2>1. Whole(pages', unlinked', free_kmap', T, G, new)
    BY <1>4, <1>6 DEF Store
  <2> QED BY <1>6, <1>7, <2>1, Stored, SMTT(60)
<1>9. Shown'
  <2>1. /\ \A x \in Used : mapping[x] \in Seq(Frame) /\ Len(mapping[x]) = pages[x]
        /\ slot \in [Slots -> Frame \cup {0}]
        /\ \A x \in Used : \A k \in 1..pages[x] : slot[x + k - 1] = mapping[x][k]
        /\ \A j \in Slots : slot[j] # 0 => \E x \in Used : j \in x..(x + pages[x] - 1)
    BY DEF WindowInv, Shown
  <2>2. \A x \in Used' : mapping'[x] \in Seq(Frame) /\ Len(mapping'[x]) = pages'[x]
    BY <1>2, <1>8, <2>1
  <2>3. slot' \in [Slots -> Frame \cup {0}]
    BY <1>3, <2>1
  <2>4. ASSUME NEW x \in Used', NEW k \in 1..pages'[x] PROVE slot'[x + k - 1] = mapping'[x][k]
    <3>1. x \in Used /\ x # i /\ pages'[x] = pages[x] /\ k \in 1..pages[x]
      BY <1>2, <1>8
    <3>2. x + k - 1 \in Slots /\ x + k - 1 \notin i..(i + pages[i] - 1)
      BY <1>1, <1>2, <3>1, KmapAssumption, SMT DEF Slots
    <3>3. slot'[x + k - 1] = slot[x + k - 1]
      BY <1>3, <3>2
    <3> QED BY <1>2, <2>1, <3>1, <3>3
  <2>5. ASSUME NEW j \in Slots, slot'[j] # 0 PROVE \E x \in Used' : j \in x..(x + pages'[x] - 1)
    <3>1. j \notin i..(i + pages[i] - 1) /\ slot[j] # 0
      BY <1>3, <2>5
    <3>2. PICK x \in Used : j \in x..(x + pages[x] - 1)
      BY <2>1, <3>1
    <3>3. x # i
      BY <3>1, <3>2
    <3>4. x \in Used' /\ pages'[x] = pages[x]
      BY <1>2, <1>8, <3>3
    <3> QED BY <3>2, <3>4
  <2> QED BY <2>2, <2>3, <2>4, <2>5 DEF Shown
<1> QED BY <1>8, <1>9 DEF WindowInv

LEMMA KmapStep ==
  ASSUME WindowInv, NEW n \in 1..KMAP_PAGES, NEW fs \in [1..n -> Frame], NEW c \in Candidates(n),
         kmap(fs, c)
  PROVE  WindowInv'
<1> DEFINE i == free_kmap[c[1]][c[2]]
           r == kmap_alloc_range(i, n)
<1>1. n \in Int /\ n > 0 /\ Len(fs) = n /\ fs \in Seq(Frame)
  <2>1. n \in Nat /\ n > 0
    BY KmapAssumption, SMT
  <2> QED BY <2>1, SMT
<1>2. /\ Store(r)
      /\ slot' = [j \in Slots |-> IF j \in i..(i + n - 1) THEN fs[j - i + 1] ELSE slot[j]]
      /\ mapping' = [j \in DOMAIN mapping \cup {i} |-> IF j = i THEN fs ELSE mapping[j]]
  BY <1>1 DEF kmap
<1>3. /\ c[1] \in KmapOrder /\ c[2] \in DOMAIN free_kmap[c[1]] /\ pages[i] >= n
  BY DEF Candidates
<1>4. i \in FreeStart
  <2>1. i \in Range(free_kmap[c[1]])
    BY <1>3 DEF Range
  <2> QED BY <1>3, <2>1 DEF FreeStart
<1> HIDE DEF i, r
<1>5. /\ Start = FreeStart \cup Used /\ Start \ FreeStart = Used
      /\ \A x \in Start : /\ x \in Int /\ x >= 0 /\ pages[x] \in Int /\ pages[x] > 0
                          /\ x \in Slots /\ x + pages[x] <= KMAP_PAGES
                          /\ \A y \in Start : y # x => y + pages[y] <= x \/ x + pages[x] <= y
  BY Placed
<1>6. i \in Start /\ i \notin Used /\ i \in Int /\ pages[i] \in Int
  BY <1>4, <1>5
<1>7. PICK T, G, new :
        /\ Whole(r.pages, r.unlinked, r.list, T, G, new)
        /\ T \ G = (Start \ FreeStart) \cup {i} /\ new[i] = n
        /\ \A x \in Start \ FreeStart : new[x] = pages[x]
  <2>1. Whole(pages, unlinked, free_kmap, Start, FreeStart, pages)
    BY DEF WindowInv
  <2>2. 0 < n /\ n <= pages[i]
    BY <1>1, <1>3, <1>6, SMT
  <2> QED BY <1>1, <1>4, <2>1, <2>2, AllocRange DEF r
<1>8. Used' = Used \cup {i} /\ mapping'[i] = fs /\ \A x \in Used : mapping'[x] = mapping[x]
  BY <1>2, <1>6 DEF Used
<1>9. T \ G = Used'
  BY <1>5, <1>7, <1>8
<1>10. /\ Whole(pages, unlinked, free_kmap, Start, FreeStart, pages)'
       /\ (FreeStart \cap Used = {})'
       /\ \A x \in Used' : pages'[x] = new[x]
  <2>1. Whole(pages', unlinked', free_kmap', T, G, new)
    BY <1>2, <1>7 DEF Store
  <2> QED BY <1>9, <2>1, Stored, SMTT(60)
<1>11. pages'[i] = n /\ \A x \in Used : pages'[x] = pages[x]
  BY <1>5, <1>7, <1>8, <1>10
<1>12. Shown'
  <2>1. /\ \A x \in Used : mapping[x] \in Seq(Frame) /\ Len(mapping[x]) = pages[x]
        /\ slot \in [Slots -> Frame \cup {0}]
        /\ \A x \in Used : \A k \in 1..pages[x] : slot[x + k - 1] = mapping[x][k]
        /\ \A j \in Slots : slot[j] # 0 => \E x \in Used : j \in x..(x + pages[x] - 1)
    BY DEF WindowInv, Shown
  <2>2. \A x \in Used' : mapping'[x] \in Seq(Frame) /\ Len(mapping'[x]) = pages'[x]
    BY <1>1, <1>8, <1>11, <2>1
  <2>3. slot' \in [Slots -> Frame \cup {0}]
    <3>1. ASSUME NEW j \in i..(i + n - 1) PROVE fs[j - i + 1] \in Frame
      <4>1. j - i + 1 \in 1..n
        BY <1>1, <1>6, SMT
      <4> QED BY <4>1
    <3> QED BY <1>2, <2>1, <3>1
  <2>4. ASSUME NEW x \in Used', NEW k \in 1..pages'[x] PROVE slot'[x + k - 1] = mapping'[x][k]
    <3>1. CASE x = i
      <4>1. k \in 1..n
        BY <1>11, <3>1
      <4>2. /\ x + k - 1 \in Slots /\ x + k - 1 \in i..(i + n - 1) /\ (x + k - 1) - i + 1 = k
        BY <1>1, <1>3, <1>5, <1>6, <3>1, <4>1, KmapAssumption, SMTT(60) DEF Slots
      <4>3. slot'[x + k - 1] = fs[(x + k - 1) - i + 1]
        BY <1>2, <4>2
      <4> QED BY <1>8, <3>1, <4>2, <4>3
    <3>2. CASE x # i
      <4>1. x \in Used /\ x \in Start /\ k \in 1..pages[x]
        BY <1>5, <1>8, <1>11, <3>2
      <4>2. x + k - 1 \in Slots /\ x + k - 1 \notin i..(i + n - 1)
        BY <1>1, <1>3, <1>5, <1>6, <3>2, <4>1, KmapAssumption, SMTT(60) DEF Slots
      <4>3. slot'[x + k - 1] = slot[x + k - 1]
        BY <1>2, <4>2
      <4> QED BY <1>8, <2>1, <4>1, <4>3
    <3> QED BY <3>1, <3>2
  <2>5. ASSUME NEW j \in Slots, slot'[j] # 0 PROVE \E x \in Used' : j \in x..(x + pages'[x] - 1)
    <3>1. CASE j \in i..(i + n - 1)
      BY <1>8, <1>11, <3>1
    <3>2. CASE j \notin i..(i + n - 1)
      <4>1. slot[j] # 0
        BY <1>2, <2>5, <3>2
      <4>2. PICK x \in Used : j \in x..(x + pages[x] - 1)
        BY <2>1, <4>1
      <4> QED BY <1>8, <1>11, <4>2
    <3> QED BY <3>1, <3>2
  <2> QED BY <2>2, <2>3, <2>4, <2>5 DEF Shown
<1> QED BY <1>10, <1>12 DEF WindowInv

LEMMA Inductive == WindowInv /\ [KmapNext]_kmapVars => WindowInv'
<1> SUFFICES ASSUME WindowInv, [KmapNext]_kmapVars PROVE WindowInv'
  OBVIOUS
<1>1. ASSUME NEW n \in 1..KMAP_PAGES, NEW fs \in [1..n -> Frame], NEW c \in Candidates(n),
             kmap(fs, c)
      PROVE  WindowInv'
  BY <1>1, KmapStep
<1>2. ASSUME NEW i \in Slots, kunmap(i) PROVE WindowInv'
  BY <1>2, KunmapStep
<1>3. ASSUME UNCHANGED kmapVars PROVE WindowInv'
  <2>1. /\ pages' = pages /\ unlinked' = unlinked /\ free_kmap' = free_kmap
        /\ slot' = slot /\ mapping' = mapping
    BY <1>3 DEF kmapVars
  <2>2. Used' = Used /\ FreeStart' = FreeStart
    BY <2>1 DEF Used, FreeStart
  <2>3. Start' = Start
    BY <2>1, <2>2 DEF Start
  <2>4. Shown'
    BY <2>1, <2>2 DEF WindowInv, Shown
  <2> QED BY <2>1, <2>2, <2>3, <2>4 DEF WindowInv
<1>4. CASE KmapNext
  BY <1>1, <1>2, <1>4 DEF KmapNext
<1> QED BY <1>3, <1>4

LEMMA Implied == WindowInv => WindowExact
<1> SUFFICES ASSUME WindowInv PROVE WindowExact
  OBVIOUS
<1>1. /\ FreeStart \subseteq Start /\ Shape(Start, pages) /\ Tags(pages, Start, pages)
      /\ Flags(unlinked, Start, FreeStart) /\ Listed(free_kmap, FreeStart, pages)
      /\ Apart(FreeStart, pages)
  BY DEF WindowInv, Whole
<1>2. RangesTile
  <2>1. FreeStart \cap DOMAIN mapping = {} /\ Start \subseteq Slots /\ 0 \in Start
    BY <1>1 DEF WindowInv, Used, Shape
  <2>2. \A i \in Start :
          /\ pages[i] > 0 /\ pages[i + pages[i] - 1] = pages[i]
          /\ i + pages[i] \in Start \cup {KMAP_PAGES}
          /\ \A j \in Start : j > i => j >= i + pages[i]
          /\ unlinked[i] <=> i \notin FreeStart
          /\ i \in FreeStart => i + pages[i] \notin FreeStart
    BY <1>1 DEF Shape, Tags, Flags, Apart
  <2>3. \A k \in KmapOrder :
          /\ \A i \in Range(free_kmap[k]) : kmap_order(pages[i]) = k
          /\ NoRepeat(free_kmap[k])
    BY <1>1 DEF Listed
  <2> QED BY <2>1, <2>2, <2>3 DEF RangesTile, NoRepeat
<1>3. BuffersExact
  BY DEF WindowInv, Shown, Used, BuffersExact
<1> QED BY <1>2, <1>3 DEF WindowExact

(* For every size of the window and in every order of calls of kmap and    *)
(* kunmap, the ranges tile the window, the tags and lists that             *)
(* kmap_free_range and kmap_alloc_range rely on are right, no two buffers  *)
(* overlap, and each shows the pages it was made of.                       *)
THEOREM WindowSafe == KmapSpec => []WindowExact
<1>1. KmapSpec => []WindowInv
  BY Initially, Inductive, PTL DEF KmapSpec
<1> QED BY <1>1, Implied, PTL
=============================================================================
