-------------------------------- MODULE Vfs --------------------------------
(***************************************************************************)
(* The virtual file system (vfs.c) over ramfs directories (ramfs.c): the   *)
(* cache of entries with its reference counts, path walks, and open,       *)
(* create, release, link, unlink, mkdir and rmdir of concurrent threads.   *)
(*                                                                         *)
(* The root entry stands for the root of a mounted ramfs, which stays      *)
(* cached.  A step is what runs together under a directory's mutex, or     *)
(* under a spinlock.  Nodes are never freed (ramfs_node_create takes a     *)
(* reference that nothing returns) and their counts are left out.  `fault' *)
(* records that the code has used a freed entry, followed a null node, or  *)
(* unlinked a name that no longer means the entry it had resolved; a       *)
(* behaviour ends there.                                                   *)
(***************************************************************************)
EXTENDS Integers, Sequences, FiniteSets

CONSTANTS Thread, Entry, Node, Name, Path,
          RootEntry, RootNode, None,
          LEAKS     \* bound: the references to one entry that are forgotten

FsEntry == [parent : Entry, name : Name \cup {None}, node : Node \cup {None},
            refcount : Int, cached : BOOLEAN]

(* A path may have ".." anywhere; at its end it is a name like any other   *)
(* to the operations that make names.                                      *)
ASSUME VfsAssumption ==
  /\ IsFiniteSet(Thread) /\ IsFiniteSet(Entry)
  /\ RootEntry \in Entry /\ RootNode \in Node
  /\ None \notin Entry \cup Node \cup Name \cup Thread \cup FsEntry
  /\ None \notin {"dir", "file", "uaf", "null", "stale"}
  /\ \A p \in Path : p \in Seq(Name \cup {".."}) /\ p # << >> /\ p[Len(p)] \in Name
  /\ LEAKS \in Nat

VARIABLES
  entry,    \* fs_entry: [parent, name, node, refcount, cached], None if free
  kind,     \* of the nodes: "dir", "file", None if not in use
  dir,      \* the ramfs entries of a directory node: name -> node
  mux,      \* the thread that holds the mutex of a node
  th,       \* what a thread does
  leaked,   \* history: references that vfs_file_open has forgotten
  fault

vars == <<entry, kind, dir, mux, th, leaked, fault>>

Idle == [op |-> "idle", pc |-> "idle", path |-> << >>, at |-> None, old |-> None,
         puts |-> << >>,  \* entries still to be put, in order
         zero |-> None]   \* the entry whose count vfs_entry_put took to zero

Init ==
  /\ entry = [e \in Entry |-> IF e # RootEntry THEN None
               ELSE [parent |-> RootEntry, name |-> None, node |-> RootNode,
                     refcount |-> 1, cached |-> FALSE]]
  /\ kind = [n \in Node |-> IF n = RootNode THEN "dir" ELSE None]
  /\ dir = [n \in Node |-> [x \in Name |-> None]]
  /\ mux = [n \in Node |-> None]
  /\ th = [t \in Thread |-> Idle]
  /\ leaked = [e \in Entry |-> 0]
  /\ fault = None

Set(t, r) == th' = [th EXCEPT ![t] = r]

(* Thread t is at pc and has nothing left to put.                          *)
At(t, pc) == th[t].pc = pc /\ th[t].puts = << >> /\ th[t].zero = None

NodeOf(e) == entry[e].node

Acquire(n, t) == mux[n] = None /\ mux' = [mux EXCEPT ![n] = t]

Release(n) == mux' = [mux EXCEPT ![n] = None]

Get(es, e) == [es EXCEPT ![e].refcount = @ + 1]

-----------------------------------------------------------------------------
(* vfs_entry_put, its first half.                                          *)
PutEntry(t) ==
  LET e == Head(th[t].puts)
  IN  /\ th[t].puts # << >> /\ th[t].zero = None
      /\ entry' = [entry EXCEPT ![e].refcount = @ - 1]
      /\ Set(t, [th[t] EXCEPT !.puts = Tail(@),
                              !.zero = IF entry[e].refcount = 1 THEN e ELSE None])
      /\ UNCHANGED <<kind, dir, mux, leaked, fault>>

\* Mutant: the count is not read again under the lock.
Revived_Never(e) == FALSE

Revived(e) == entry[e].refcount > 0

(* Its second half, after the locks were free for a while: the count is    *)
(* read again, the entry leaves the cache, its parent is put, it is freed. *)
PutFinish(t) ==
  LET e == th[t].zero
  IN  /\ e # None
      /\ IF entry[e] = None
           THEN fault' = "uaf" /\ UNCHANGED <<entry, th>>
         ELSE IF Revived(e)
           THEN Set(t, [th[t] EXCEPT !.zero = None]) /\ UNCHANGED <<entry, fault>>
         ELSE /\ entry' = [entry EXCEPT ![e] = None]
              /\ Set(t, [th[t] EXCEPT !.zero = None, !.puts = <<entry[e].parent>> \o @])
              /\ UNCHANGED fault
      /\ UNCHANGED <<kind, dir, mux, leaked>>

-----------------------------------------------------------------------------
Cached(d, name) ==
  {e \in Entry : entry[e] # None /\ e # RootEntry /\ entry[e].parent = d
                 /\ entry[e].name = name /\ entry[e].cached}

vfs_entry_create(d, name, node) ==
  [parent |-> d, name |-> name, node |-> node, refcount |-> 1, cached |-> TRUE]

(* What kmem_cache_alloc may return for a new entry.                       *)
Spare == {e \in Entry : entry[e] = None} \cup {None}

(* A cached entry; or a new one, which ramfs_lookup gives its node.  An    *)
(* entry without a node is kept only for a caller that creates.            *)
vfs_lookup(d, name, create, new) ==
  LET hit == Cached(d, name)
      found == dir[NodeOf(d)][name]
  IN  CASE hit # {} -> LET h == CHOOSE h \in hit : TRUE IN [entry |-> Get(entry, h), e |-> h]
        [] hit = {} /\ new # None /\ (found # None \/ create) ->
             [entry |-> [Get(entry, d) EXCEPT ![new] = vfs_entry_create(d, name, found)], e |-> new]
        [] OTHER -> [entry |-> entry, e |-> None]

(* How much of the path a walk leaves over: the operations that make a     *)
(* name walk to the parent, the others to the end.                         *)
WalkTo(t) == IF th[t].op \in {"unlink", "rmdir", "resolve"} THEN 0 ELSE 1

Walking(t) == At(t, "walk") /\ Len(th[t].path) > WalkTo(t)

Arrived(t) == At(t, "walk") /\ Len(th[t].path) = WalkTo(t)

(* vfs_walk_start                                                          *)
Start(t, op, path) ==
  /\ th[t] = Idle
  /\ entry' = Get(entry, RootEntry)
  /\ Set(t, [Idle EXCEPT !.op = op, !.pc = "walk", !.path = path, !.at = RootEntry])
  /\ UNCHANGED <<kind, dir, mux, leaked, fault>>

(* An error: vfs_walk_stop, and vfs_link also puts the old entry.          *)
Stopped(t) ==
  [Idle EXCEPT !.puts = <<th[t].at>> \o (IF th[t].old = None THEN << >> ELSE <<th[t].old>>)]

WalkDotDot(t) ==
  LET p == entry[th[t].at].parent
  IN  /\ Walking(t) /\ Head(th[t].path) = ".."
      /\ entry' = Get(entry, p)
      /\ Set(t, [th[t] EXCEPT !.at = p, !.path = Tail(@), !.puts = <<th[t].at>>])
      /\ UNCHANGED <<kind, dir, mux, leaked, fault>>

(* mutex_lock of the directory's node, for a step of the walk or for the   *)
(* operation itself; an entry may have been left without a node.           *)
LockDir(t) ==
  LET n == NodeOf(th[t].at)
  IN  /\ Walking(t) \/ (Arrived(t) /\ WalkTo(t) = 1)
      /\ Walking(t) => Head(th[t].path) # ".."
      /\ \/ /\ n = None
            /\ fault' = "null"
            /\ UNCHANGED <<th, mux>>
         \/ /\ n # None
            /\ Acquire(n, t)
            /\ Set(t, [th[t] EXCEPT !.pc = IF Walking(t) THEN "lookup" ELSE "make"])
            /\ UNCHANGED fault
      /\ UNCHANGED <<entry, kind, dir, leaked>>

(* The step of the walk: vfs_lookup, mutex_unlock, and the old position is *)
(* put.  A file has no lookup operation.                                   *)
vfs_walk(t, new) ==
  LET d == th[t].at
      r == vfs_lookup(d, Head(th[t].path), FALSE, new)
      ok == kind[NodeOf(d)] = "dir" /\ r.e # None
  IN  /\ At(t, "lookup")
      /\ Release(NodeOf(d))
      /\ entry' = IF ok THEN r.entry ELSE entry
      /\ Set(t, IF ok THEN [th[t] EXCEPT !.pc = "walk", !.at = r.e, !.path = Tail(@), !.puts = <<d>>]
                ELSE Stopped(t))
      /\ UNCHANGED <<kind, dir, leaked, fault>>

(* vfs_link has resolved the old name and walks to the parent of the new.  *)
LinkNewName(t, path) ==
  /\ th[t].op = "resolve" /\ Arrived(t)
  /\ entry' = Get(entry, RootEntry)
  /\ Set(t, [th[t] EXCEPT !.op = "link", !.path = path, !.old = th[t].at, !.at = RootEntry])
  /\ UNCHANGED <<kind, dir, mux, leaked, fault>>

-----------------------------------------------------------------------------
(* ramfs_create_ops: a new node of that kind under the entry's name; no    *)
(* node to be had is an error.                                             *)
MakeNode(d, e, es, k) ==
  LET spare == {n \in Node : kind[n] = None}
      n == CHOOSE n \in spare : TRUE
  IN  IF spare = {} \/ dir[d][es[e].name] # None
        THEN [ok |-> FALSE, entry |-> es, kind |-> kind, dir |-> dir]
      ELSE [ok |-> TRUE, entry |-> [es EXCEPT ![e].node = n],
            kind |-> [kind EXCEPT ![n] = k],
            dir |-> [dir EXCEPT ![d][es[e].name] = n]]

(* ramfs_link: only files, and the new name gets the old one's node.       *)
LinkNode(d, e, es, old) ==
  IF NodeOf(old) = None \/ kind[NodeOf(old)] # "file" \/ dir[d][es[e].name] # None
    THEN [ok |-> FALSE, entry |-> es, kind |-> kind, dir |-> dir]
  ELSE [ok |-> TRUE, entry |-> [es EXCEPT ![e].node = NodeOf(old)], kind |-> kind,
        dir |-> [dir EXCEPT ![d][es[e].name] = NodeOf(old)]]

NoEntry == [ok |-> FALSE, entry |-> entry, kind |-> kind, dir |-> dir]

Apply(r) == entry' = r.entry /\ kind' = r.kind /\ dir' = r.dir

(* vfs_file_open from vfs_lookup on.  When the creation fails, the entry   *)
(* and its reference are forgotten; an entry without a node is followed.   *)
vfs_file_open(t, new) ==
  LET d == th[t].at
      create == th[t].op = "create"
      r == vfs_lookup(d, th[t].path[1], create, new)
      isDir == kind[NodeOf(d)] = "dir"
      made == IF isDir /\ create /\ r.e # None /\ r.entry[r.e].node = None
                THEN MakeNode(NodeOf(d), r.e, r.entry, "file")
              ELSE [NoEntry EXCEPT !.ok = TRUE, !.entry = IF isDir THEN r.entry ELSE entry]
  IN  /\ At(t, "make") /\ th[t].op \in {"open", "create"}
      /\ Release(NodeOf(d))
      /\ Apply(made)
      /\ ~made.ok => leaked[r.e] < LEAKS
      /\ leaked' = IF made.ok THEN leaked ELSE [leaked EXCEPT ![r.e] = @ + 1]
      /\ IF ~isDir \/ r.e = None \/ ~made.ok
           THEN Set(t, Stopped(t)) /\ UNCHANGED fault
         ELSE /\ Set(t, [th[t] EXCEPT !.pc = "file", !.at = r.e, !.puts = <<d>>])
              /\ fault' = IF made.entry[r.e].node = None THEN "null" ELSE fault

vfs_release(t) ==
  /\ At(t, "file")
  /\ Set(t, [Idle EXCEPT !.puts = <<th[t].at>>])
  /\ UNCHANGED <<entry, kind, dir, mux, leaked, fault>>

NewName(t, new) == vfs_lookup(th[t].at, th[t].path[1], TRUE, new)

(* vfs_mkdir and vfs_link from vfs_lookup on: an entry without a node is   *)
(* given one, which made is the outcome of, and is put in any case.        *)
MakeName(t, name, made) ==
  LET d == th[t].at
      ok == kind[NodeOf(d)] = "dir" /\ name.e # None
  IN  /\ At(t, "make")
      /\ Release(NodeOf(d))
      /\ Apply(IF ~ok THEN NoEntry
               ELSE IF name.entry[name.e].node # None THEN [NoEntry EXCEPT !.entry = name.entry]
               ELSE made)
      /\ Set(t, IF ok THEN [Stopped(t) EXCEPT !.puts = Append(@, name.e)] ELSE Stopped(t))
      /\ UNCHANGED leaked

vfs_mkdir(t, new) ==
  LET name == NewName(t, new)
  IN  /\ th[t].op = "mkdir"
      /\ MakeName(t, name, MakeNode(NodeOf(th[t].at), name.e, name.entry, "dir"))
      /\ UNCHANGED fault

(* An old entry without a node is followed.                                *)
vfs_link(t, new) ==
  LET name == NewName(t, new)
  IN  /\ th[t].op = "link"
      /\ MakeName(t, name, LinkNode(NodeOf(th[t].at), name.e, name.entry, th[t].old))
      /\ fault' = IF NodeOf(th[t].old) = None /\ kind[NodeOf(th[t].at)] = "dir"
                       /\ name.e # None /\ name.entry[name.e].node = None
                    THEN "null" ELSE fault

(* vfs_unlink and vfs_rmdir have resolved the name; the mutex is the one   *)
(* of the parent's node.  The directory of the mounts, the root's parent,  *)
(* has no such operation.                                                  *)
LockParent(t) ==
  /\ Arrived(t)
  /\ \/ /\ th[t].at = RootEntry
        /\ Set(t, Stopped(t))
        /\ UNCHANGED mux
     \/ /\ th[t].at # RootEntry
        /\ Acquire(NodeOf(entry[th[t].at].parent), t)
        /\ Set(t, [th[t] EXCEPT !.pc = "remove"])
  /\ UNCHANGED <<entry, kind, dir, leaked, fault>>

vfs_unlink(t) == th[t].op = "unlink" /\ LockParent(t)

vfs_rmdir(t) == th[t].op = "rmdir" /\ LockParent(t)

(* ramfs_unlink refuses directories, ramfs_rmdir refuses nothing.          *)
Refused(op, n) == op = "unlink" /\ (n = None \/ kind[n] # "file")

\* Mutant: the entry stays in the cache.
Detach_Not(e) == entry

(* vfs_entry_detach                                                        *)
Detach(e) == [entry EXCEPT ![e].cached = FALSE]

(* The name is looked up again and may mean another node by now.           *)
ramfs_entry_unlink(t) ==
  LET e == th[t].at
      d == NodeOf(entry[e].parent)
      now == dir[d][entry[e].name]
  IN  /\ At(t, "remove")
      /\ Release(d)
      /\ IF Refused(th[t].op, NodeOf(e)) \/ now = None
           THEN UNCHANGED <<entry, dir, fault>>
         ELSE /\ dir' = [dir EXCEPT ![d][entry[e].name] = None]
              /\ entry' = Detach(e)
              /\ fault' = IF now = NodeOf(e) /\ entry[e].cached THEN fault ELSE "stale"
      /\ Set(t, Stopped(t))
      /\ UNCHANGED <<kind, leaked>>

-----------------------------------------------------------------------------
Step(t) ==
  \/ PutEntry(t) \/ PutFinish(t)
  \/ \E op \in {"open", "create", "unlink", "rmdir", "mkdir", "resolve"}, p \in Path :
       Start(t, op, p)
  \/ WalkDotDot(t) \/ LockDir(t) \/ vfs_release(t)
  \/ \E p \in Path : LinkNewName(t, p)
  \/ \E new \in Spare : vfs_walk(t, new) \/ vfs_file_open(t, new) \/ vfs_mkdir(t, new) \/ vfs_link(t, new)
  \/ vfs_unlink(t) \/ vfs_rmdir(t) \/ ramfs_entry_unlink(t)

Next == fault = None /\ \E t \in Thread : Step(t)

Spec == Init /\ [][Next]_vars

-----------------------------------------------------------------------------
Holders(e) ==
  Cardinality({t \in Thread : th[t].at = e}) + Cardinality({t \in Thread : th[t].old = e})
    + Cardinality({x \in Thread \X (1..3) : x[2] <= Len(th[x[1]].puts) /\ th[x[1]].puts[x[2]] = e})

Children(e) == Cardinality({c \in Entry \ {RootEntry} : entry[c] # None /\ entry[c].parent = e})

(* The count of an entry is exactly the number of threads and of children  *)
(* that use it, plus the references vfs_file_open forgot; an entry in use  *)
(* is never free, and one that nobody uses is about to be freed.           *)
EntriesCounted ==
  fault = None =>
    \A e \in Entry :
      IF entry[e] = None THEN Holders(e) + Children(e) = 0
      ELSE /\ entry[e].refcount = Holders(e) + Children(e) + leaked[e]
                                    + (IF e = RootEntry THEN 1 ELSE 0)
           /\ entry[e].refcount = 0 => \E t \in Thread : th[t].zero = e

(* The cache agrees with the directories: a name has at most one cached    *)
(* entry, its node is the one ramfs has under that name, and only an entry *)
(* that vfs_file_open forgot has none.                                     *)
CacheCoherent ==
  fault = None =>
    \A e \in Entry \ {RootEntry} :
      (entry[e] # None /\ entry[e].cached) =>
        /\ Cached(entry[e].parent, entry[e].name) = {e}
        /\ IF entry[e].node # None THEN dir[NodeOf(entry[e].parent)][entry[e].name] = entry[e].node
           ELSE leaked[e] > 0 \/ Holders(e) > 0 \/ entry[e].refcount = 0

(* vfs.h:130: `cached' is protected by parent->node->mux.                  *)
CachedUnderMux ==
  [][\A e \in Entry \ {RootEntry} :
       (entry[e] # None /\ entry[e].cached /\ (entry'[e] = None \/ ~entry'[e].cached))
         => mux[NodeOf(entry[e].parent)] # None]_vars

=============================================================================
