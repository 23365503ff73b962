----------------------------- MODULE Initramfs -----------------------------
(***************************************************************************)
(* The loader of the initial file system (initramfs.c): it walks the       *)
(* members of a cpio archive in memory and makes the directories and files *)
(* it finds.  The archive may be cut off anywhere: the boot loader says    *)
(* where it ends.                                                          *)
(***************************************************************************)
EXTENDS Integers, Sequences, SequencesExt, FiniteSets

CONSTANTS Member,   \* [kind, namesize, filesize] of the members of archives
          MEMBERS,  \* bound: the members of an archive before its trailer
          HEADER    \* sizeof(struct cpio_header)

VARIABLES
  archive,   \* the members in the order of the archive
  size,      \* the size of the archive in memory
  pos, root, \* the variables of parse_cpio
  made,      \* the members that create_dir and create_file were called for
  read,      \* history: the end of the bytes that were looked at
  running

vars == <<archive, size, pos, root, made, read, running>>

Align(n) == ((n + 3) \div 4) * 4

Trailer == [kind |-> "trailer", namesize |-> 3, filesize |-> 0]

(* The archive format: a header, the name and the data, the last two padded*)
(* to four bytes.                                                          *)
NameEnd(start, m) == Align(start + HEADER + m.namesize)
MemberEnd(start, m) == Align(NameEnd(start, m) + m.filesize)

\* Where the members of an archive start.
Starts(a) ==
  LET start[i \in 1..(Len(a) + 1)] ==
        IF i = 1 THEN 0 ELSE MemberEnd(start[i - 1], a[i - 1])
  IN  start

Init ==
  /\ archive \in {Append(a, Trailer) : a \in BoundedSeq(Member, MEMBERS)}
  /\ size \in 0..Last(Starts(archive))
  /\ pos = 0 /\ root = TRUE /\ made = << >> /\ read = 0 /\ running = TRUE

-----------------------------------------------------------------------------
\* Mutant: the padding after the data is forgotten.
NextPos_NoAlign(p) == p

\* The position after the data of a member.
NextPos(p) == Align(p)

(* One turn of the loop of parse_cpio.  create_dir and create_file report  *)
(* errors and go on.  (There is always a member at pos, as Extracted says.)*)
parse_cpio ==
  LET i == CHOOSE k \in 1..Len(archive) : Starts(archive)[k] = pos
      m == archive[i]
      name == NameEnd(pos, m)
      end == name + m.filesize
      more == pos < size /\ size - pos >= HEADER
      ends == ~more \/ name > size \/ m.kind = "trailer"
      make == IF m.kind = "dir" THEN ~root ELSE m.kind = "reg" /\ end <= size
  IN  /\ running
      /\ running' = ~ends
      /\ read' = IF ~more THEN read ELSE IF name > size THEN pos + HEADER
                 ELSE IF ~ends /\ m.kind = "reg" /\ make THEN end ELSE name
      /\ made' = IF ~ends /\ make THEN Append(made, i) ELSE made
      /\ root' = (root /\ (ends \/ m.kind # "dir"))
      /\ pos' = IF ends THEN pos ELSE NextPos(end)
      /\ UNCHANGED <<archive, size>>

Next == parse_cpio

Spec == Init /\ [][Next]_vars

-----------------------------------------------------------------------------
(* The members that are whole in the part of the archive that is there, but*)
(* for the first directory, which is the root, are made once each and in   *)
(* order; the walk is always at a member and never looks beyond the end.   *)
Extracted ==
  LET there == {i \in 1..(Len(archive) - 1) :
                  NameEnd(Starts(archive)[i], archive[i]) + archive[i].filesize <= size}
      dirs == {i \in 1..(Len(archive) - 1) : archive[i].kind = "dir"}
      first == {i \in dirs : \A j \in dirs : i <= j}
      wanted == {i \in there : archive[i].kind \in {"dir", "reg"}} \ first
  IN  /\ read <= size
      /\ running => pos \in ToSet(Starts(archive))
      /\ \A i, j \in DOMAIN made : i < j => made[i] < made[j]
      /\ ~running => ToSet(made) = wanted
=============================================================================
