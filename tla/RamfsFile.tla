----------------------------- MODULE RamfsFile -----------------------------
(***************************************************************************)
(* The contents of a ramfs file (ramfs.c) that several openers read, write *)
(* and seek in, through the loops of their users: write_file of            *)
(* initramfs.c and read_buf of exec.c.  A page comes into being at its     *)
(* first write, and a write or a read stops at the end of a page.          *)
(***************************************************************************)
EXTENDS Integers, Sequences, FiniteSetsExt

CONSTANTS File, NoPage,
          Data,     \* what write_file is called with: sequences of bytes
          PAGE_SIZE,
          LENGTH    \* bound: offsets

Byte == 0..255

ASSUME RamfsAssumption ==
  /\ PAGE_SIZE \in Nat \ {0} /\ LENGTH \in Nat \ {0}
  /\ \A d \in Data : d \in Seq(Byte)
  /\ NoPage \notin [0..(PAGE_SIZE - 1) -> Byte]

VARIABLES
  page,     \* the page of an index: its bytes, or NoPage
  size,     \* node->size
  file,     \* of an open file: offset, and the loop that runs on it
  bytes,    \* history: what the last write has put at an offset, else 0
  bad       \* history: a read has returned something else

ramfs == <<page, size, file, bytes, bad>>

Index == 0..((LENGTH - 1) \div PAGE_SIZE)
Offset == 0..(LENGTH - 1)

RamfsInit ==
  /\ page = [i \in Index |-> NoPage]
  /\ size = 0
  /\ file = [f \in File |-> [offset |-> 0, op |-> "none", data |-> << >>, rd |-> 0]]
  /\ bytes = [o \in Offset |-> 0]
  /\ bad = FALSE

Zero == [o \in 0..(PAGE_SIZE - 1) |-> 0]

-----------------------------------------------------------------------------
(* write_file is called with data, read_buf with a number of bytes.        *)
StartWrite(f, data) ==
  /\ file[f].op = "none" /\ file[f].offset + Len(data) <= LENGTH
  /\ file' = [file EXCEPT ![f].op = "write", ![f].data = data]
  /\ UNCHANGED <<page, size, bytes, bad>>

StartRead(f, n) ==
  /\ file[f].op = "none"
  /\ file' = [file EXCEPT ![f].op = "read", ![f].rd = n]
  /\ UNCHANGED <<page, size, bytes, bad>>

\* Mutant: a write goes on in the same page past its end.
WriteSize_Wraps(off, n) == n

(* How much of n bytes at off of a page one call writes.                   *)
WriteSize(off, n) == Min({PAGE_SIZE - off, n})

(* One round of write_file: ramfs_write, under the mutex of the node.      *)
ramfs_write(f) ==
  LET idx == file[f].offset \div PAGE_SIZE
      off == file[f].offset % PAGE_SIZE
      data == file[f].data
      sz == WriteSize(off, Len(data))
      old == IF page[idx] = NoPage THEN Zero ELSE page[idx]
      end == file[f].offset + sz
  IN  /\ file[f].op = "write" /\ data # << >>
      /\ page' = [page EXCEPT ![idx] = [o \in DOMAIN Zero |->
                    IF o \in off..(off + sz - 1) THEN data[o - off + 1] ELSE old[o]]]
      /\ bytes' = [o \in Offset |-> IF o \in file[f].offset..(end - 1)
                     THEN data[o - file[f].offset + 1] ELSE bytes[o]]
      /\ size' = Max({end, size})
      /\ file' = [file EXCEPT ![f].offset = end, ![f].data = SubSeq(@, sz + 1, Len(@))]
      /\ UNCHANGED bad

(* ramfs_alloc_page has failed, and write_file gives up.                   *)
WriteFails(f) ==
  /\ file[f].op = "write" /\ file[f].data # << >>
  /\ page[file[f].offset \div PAGE_SIZE] = NoPage
  /\ file' = [file EXCEPT ![f].op = "none", ![f].data = << >>]
  /\ UNCHANGED <<page, size, bytes, bad>>

(* One round of read_buf: ramfs_read; at the end of the file it gives up.  *)
ramfs_read(f) ==
  LET at == file[f].offset
      idx == at \div PAGE_SIZE
      off == at % PAGE_SIZE
      sz == Min({PAGE_SIZE - off, file[f].rd, size - at})
      p == IF page[idx] = NoPage THEN Zero ELSE page[idx]
  IN  /\ file[f].op = "read" /\ file[f].rd > 0
      /\ IF at >= size
           THEN file' = [file EXCEPT ![f].op = "none", ![f].rd = 0] /\ UNCHANGED bad
         ELSE /\ file' = [file EXCEPT ![f].offset = @ + sz, ![f].rd = @ - sz]
              /\ bad' = (bad \/ \E k \in 0..(sz - 1) : p[off + k] # bytes[at + k])
      /\ UNCHANGED <<page, size, bytes>>

LoopDone(f) ==
  /\ file[f].op # "none" /\ file[f].data = << >> /\ file[f].rd = 0
  /\ file' = [file EXCEPT ![f].op = "none"]
  /\ UNCHANGED <<page, size, bytes, bad>>

(* vfs_seek_default: FSS_SET, FSS_CUR and FSS_END.                         *)
vfs_seek(f, base, by) ==
  LET to == Max({base + by, 0})
  IN  /\ file[f].op = "none" /\ to < LENGTH
      /\ file' = [file EXCEPT ![f].offset = to]
      /\ UNCHANGED <<page, size, bytes, bad>>

-----------------------------------------------------------------------------
RamfsNext ==
  \E f \in File :
    \/ \E data \in Data : StartWrite(f, data)
    \/ \E n \in 1..3 : StartRead(f, n)
    \/ ramfs_write(f) \/ WriteFails(f) \/ ramfs_read(f) \/ LoopDone(f)
    \/ \E by \in {-1, 1} : vfs_seek(f, file[f].offset, by) \/ vfs_seek(f, size, by)
    \/ vfs_seek(f, 0, 0)

RamfsSpec == RamfsInit /\ [][RamfsNext]_ramfs

-----------------------------------------------------------------------------
(* A read returns, byte for byte, what the last write has put there, and   *)
(* zero where nothing was written, in a page or in a hole of the file; the *)
(* file ends after the last byte ever written.                             *)
FileIsBytes ==
  /\ ~bad
  /\ \A o \in Offset : bytes[o] =
       (IF page[o \div PAGE_SIZE] = NoPage THEN 0 ELSE page[o \div PAGE_SIZE][o % PAGE_SIZE])
  /\ \A o \in Offset : bytes[o] # 0 => o < size
=============================================================================
