------------------------------ MODULE BioProof ------------------------------
(***************************************************************************)
(* Proofs about Bio, for any number of clients and bios.  The block layer  *)
(* is a client of the sleeping locks: every step of Bio is a step of       *)
(* LockingClient or changes nothing in the locks, so what LockingProof     *)
(* shows of monitors holds of the queue's and of the bios'; the rest is an *)
(* invariant about who owns a bio.                                         *)
(***************************************************************************)
EXTENDS Bio, SchedProof

USE ZenonT(60), SMTT(60)

-----------------------------------------------------------------------------
(* The block layer as a client of the locks.                               *)

QueueLabel == {"submit", "submit_add", "submit_notify", "submit_unlock",
               "dequeue_lock", "dequeue_test", "dequeue_relock", "dequeue_unlock"}

LockLabel(l) ==
  IF l \in {"out", "wait", "read", "free", "dequeue", "handle"} THEN "out"
  ELSE IF l \in {"submit", "wait_lock", "dequeue_lock", "finish"} THEN "lock"
  ELSE IF l \in {"wait_relock", "dequeue_relock"} THEN "relock"
  ELSE IF l = "finish_walk" THEN "walk"
  ELSE IF l = "finish_step" THEN "step" ELSE "in"

LockMonitor(l, b) ==
  IF LockLabel(l) = "out" THEN NoMonitor ELSE IF l \in QueueLabel THEN queue ELSE b

LockPc == [t \in Thread |-> LockLabel(pc[t])]

LockAt == [t \in Thread |-> LockMonitor(pc[t], bio[t])]

LC == INSTANCE LockingProof WITH pc <- LockPc, at <- LockAt

-----------------------------------------------------------------------------
(* The scheduler of the two specifications is the same. *)
LEMMA SameScheduler ==
  ASSUME NEW st, NEW e, NEW flag, schedule(st, e, flag)
  PROVE  LC!schedule(st, e, flag)
BY DEF schedule, switch_to, preempt_thread, place_thread,
       LC!schedule, LC!switch_to, LC!preempt_thread, LC!place_thread

LEMMA SameSequences ==
  ASSUME NEW s
  PROVE  LC!Range(s) = Range(s) /\ (LC!NoRepeat(s) <=> NoRepeat(s))
BY DEF Range, LC!Range, NoRepeat, LC!NoRepeat

LEMMA SameTypes ==
  /\ LockTypeOK <=> LC!LockTypeOK
  /\ LockTypeOK' <=> LC!LockTypeOK'
BY DEF SchedTypeOK, LC!SchedTypeOK, LockTypeOK, LC!LockTypeOK, AnyThread, LC!AnyThread,
       ThreadState, LC!ThreadState, ElapsedMax, LC!ElapsedMax, RR_SCHED_SLICE, RR_MS,
       LC!RR_SCHED_SLICE, LC!RR_MS

(* What a step of thread t does to the program counters of the locks. *)
LEMMA PcStep ==
  ASSUME NEW t \in Thread, NEW l, pc \in [Thread -> Label],
         bio \in [Thread -> Bio \cup {NoMonitor}], bio' \in [Thread -> Bio \cup {NoMonitor}],
         Goto(t, l), \A u \in Thread : u # t => bio'[u] = bio[u]
  PROVE  /\ LockPc' = [LockPc EXCEPT ![t] = LockLabel(l)]
         /\ LockAt' = [LockAt EXCEPT ![t] = LockMonitor(l, bio'[t])]
<1>1. pc' = [pc EXCEPT ![t] = l]
  BY DEF Goto
<1>2. LockPc' = [u \in Thread |-> LockLabel(pc'[u])]
      /\ LockAt' = [u \in Thread |-> LockMonitor(pc'[u], bio'[u])]
  BY DEF LockPc, LockAt
<1>3. pc'[t] = l /\ \A u \in Thread : u # t => pc'[u] = pc[u]
  BY SMTT(60), <1>1
<1>4. /\ [LockPc EXCEPT ![t] = LockLabel(l)]
           = [u \in Thread |-> IF u = t THEN LockLabel(l) ELSE LockLabel(pc[u])]
      /\ [LockAt EXCEPT ![t] = LockMonitor(l, bio'[t])]
           = [u \in Thread |-> IF u = t THEN LockMonitor(l, bio'[t])
                              ELSE LockMonitor(pc[u], bio[u])]
  BY DEF LockPc, LockAt
<1> QED BY <1>2, <1>3, <1>4

LEMMA SameNotify ==
  ASSUME NEW q, NEW st, wait_queue_notify(q, st)
  PROVE  LC!wait_queue_notify(q, st)
BY DEF wait_queue_notify, ActivateState, ActivateQueue,
       LC!wait_queue_notify, LC!ActivateState, LC!ActivateQueue

(* The steps of the locks. *)
LEMMA SameLock ==
  ASSUME NEW t \in Thread, NEW from \in Label, NEW to \in Label, pc \in [Thread -> Label],
         bio \in [Thread -> Bio \cup {NoMonitor}], UNCHANGED bio,
         LockLabel(from) \in {"lock", "relock"}, LockLabel(to) = "in",
         LockMonitor(to, bio[t]) = LockMonitor(from, bio[t]),
         At(t, from), mutex_lock(t, LockMonitor(from, bio[t]), to)
  PROVE  LC!Lock(t) \/ LC!Relock(t)
<1>1. LockPc[t] = LockLabel(from) /\ LockAt[t] = LockMonitor(from, bio[t])
      /\ LC!At(t, LockLabel(from))
  BY DEF At, LC!At, LockPc, LockAt
<1>2. CASE mutex_state[LockAt[t]] = "UNLOCKED"
  <2>1. LockPc' = [LockPc EXCEPT ![t] = "in"] /\ LockAt' = [LockAt EXCEPT ![t] = LockAt[t]]
    BY SMTT(60), <1>1, <1>2, PcStep DEF mutex_lock
  <2>2. LockAt' = LockAt
    BY <2>1 DEF LockAt
  <2>3. LC!mutex_lock(t, LockAt[t], "in")
    BY <1>1, <1>2, <2>1 DEF mutex_lock, LC!mutex_lock, LC!Goto, schedVars, LC!schedVars
  <2> QED BY <1>1, <2>2, <2>3 DEF LC!Lock, LC!Relock
<1>3. CASE mutex_state[LockAt[t]] # "UNLOCKED"
  <2>1. LockPc' = LockPc /\ LockAt' = LockAt
    BY <1>1, <1>3 DEF mutex_lock, LockPc, LockAt
  <2>3. LC!mutex_lock(t, LockAt[t], "in")
    BY <1>1, <1>3, <2>1 DEF mutex_lock, LC!mutex_lock
  <2> QED BY <1>1, <2>1, <2>3 DEF LC!Lock, LC!Relock
<1> QED BY <1>2, <1>3

(* The lemmas below are about a step of t between two labels that uses the *)
(* monitor of its first label.                                             *)
Moves(t, from, to) ==
  /\ pc \in [Thread -> Label] /\ from \in Label /\ to \in Label
  /\ bio \in [Thread -> Bio \cup {NoMonitor}] /\ UNCHANGED bio
  /\ At(t, from)

Stays(t, from, to) == LockMonitor(to, bio[t]) = LockMonitor(from, bio[t])

LEMMA MovesEffect ==
  ASSUME NEW t \in Thread, NEW from, NEW to, Moves(t, from, to), Goto(t, to)
  PROVE  /\ LC!At(t, LockLabel(from)) /\ LC!Goto(t, LockLabel(to))
         /\ LockAt[t] = LockMonitor(from, bio[t])
         /\ LockAt' = [LockAt EXCEPT ![t] = LockMonitor(to, bio[t])]
         /\ Stays(t, from, to) => LockAt' = LockAt
<1>1. LC!At(t, LockLabel(from)) /\ LockAt[t] = LockMonitor(from, bio[t])
  BY DEF Moves, At, LC!At, LockPc, LockAt
<1>2. /\ LockPc' = [LockPc EXCEPT ![t] = LockLabel(to)]
      /\ LockAt' = [LockAt EXCEPT ![t] = LockMonitor(to, bio[t])]
  BY PcStep DEF Moves
<1>3. Stays(t, from, to) => LockAt' = LockAt
  <2>1. Stays(t, from, to) => LockAt' = [LockAt EXCEPT ![t] = LockAt[t]]
    BY <1>1, <1>2 DEF Stays
  <2> QED BY <2>1 DEF LockAt
<1> QED BY <1>1, <1>2, <1>3 DEF LC!Goto

LEMMA SameUnlock ==
  ASSUME NEW t \in Thread, NEW from, NEW to, Moves(t, from, to),
         LockLabel(from) = "in", LockLabel(to) = "out",
         mutex_unlock(t, LockMonitor(from, bio[t]), to)
  PROVE  LC!Unlock(t)
<1>1. /\ LC!At(t, "in") /\ LC!Goto(t, "out") /\ LockAt[t] = LockMonitor(from, bio[t])
      /\ LockAt' = [LockAt EXCEPT ![t] = NoMonitor]
  BY MovesEffect DEF mutex_unlock, LockMonitor
<1>2. LC!mutex_unlock(t, LockAt[t], "out")
  BY <1>1, SameNotify DEF mutex_unlock, LC!mutex_unlock, Pop, LC!Pop
<1> QED BY <1>1, <1>2 DEF LC!Unlock

LEMMA SameWait ==
  ASSUME NEW t \in Thread, NEW from, NEW to, Moves(t, from, to), Stays(t, from, to),
         LockLabel(from) = "in", LockLabel(to) = "relock",
         condition_wait(t, LockMonitor(from, bio[t]), to)
  PROVE  LC!Wait(t)
<1>1. /\ LC!At(t, "in") /\ LC!Goto(t, "relock") /\ LockAt[t] = LockMonitor(from, bio[t])
      /\ LockAt' = LockAt
  BY MovesEffect DEF condition_wait
<1>2. LC!condition_wait(t, LockAt[t], "relock")
  BY <1>1, SameNotify DEF condition_wait, LC!condition_wait, Pop, LC!Pop
<1> QED BY <1>1, <1>2 DEF LC!Wait

LEMMA SameNotifyOne ==
  ASSUME NEW t \in Thread, NEW from, NEW to, Moves(t, from, to), Stays(t, from, to),
         LockLabel(from) = "in", LockLabel(to) = "in",
         condition_notify(t, LockMonitor(from, bio[t]), to)
  PROVE  LC!Notify(t)
<1>1. /\ LC!At(t, "in") /\ LC!Goto(t, "in") /\ LockAt[t] = LockMonitor(from, bio[t])
      /\ LockAt' = LockAt
  BY MovesEffect DEF condition_notify
<1>2. LC!condition_notify(t, LockAt[t], "in")
  BY <1>1, SameNotify DEF condition_notify, LC!condition_notify, Pop, LC!Pop
<1> QED BY <1>1, <1>2 DEF LC!Notify

LEMMA SameNotifyAll ==
  ASSUME NEW t \in Thread, NEW from, Moves(t, from, from), from = "finish_notify",
         condition_notify_all(t, bio[t], "finish_walk", "finish_unlock")
  PROVE  LC!NotifyAll(t)
<1> DEFINE to == IF cond_wq[bio[t]] = << >> THEN "finish_unlock" ELSE "finish_walk"
<1>1. Moves(t, from, to) /\ Goto(t, to) /\ Stays(t, from, to)
  BY DEF Moves, condition_notify_all, Stays, LockMonitor, LockLabel, QueueLabel, Label
<1>2. LockLabel(from) = "in" /\ LockMonitor(from, bio[t]) = bio[t]
      /\ LockLabel(to) = IF cond_wq[bio[t]] = << >> THEN "in" ELSE "walk"
  BY DEF LockMonitor, LockLabel, QueueLabel
<1> HIDE DEF to
<1>3. /\ LC!At(t, "in") /\ LockAt[t] = bio[t] /\ LockAt' = LockAt
      /\ LC!Goto(t, IF cond_wq[bio[t]] = << >> THEN "in" ELSE "walk")
  BY SMT, <1>1, <1>2, MovesEffect
<1>4. LC!condition_notify_all(t, LockAt[t], "walk", "in")
  BY <1>3 DEF condition_notify_all, LC!condition_notify_all, schedVars, LC!schedVars
<1> QED BY <1>3, <1>4 DEF LC!NotifyAll

LEMMA SameWalk ==
  ASSUME NEW t \in Thread, Moves(t, "finish_walk", "finish_step"),
         NotifyAllActivate(t, "finish_step")
  PROVE  LC!Walk(t)
<1>1. /\ LockLabel("finish_walk") = "walk" /\ LockLabel("finish_step") = "step"
      /\ Stays(t, "finish_walk", "finish_step")
  BY DEF LockMonitor, LockLabel, QueueLabel, Stays
<1>2. LC!At(t, "walk") /\ LC!Goto(t, "step") /\ LockAt' = LockAt
  BY <1>1, MovesEffect DEF NotifyAllActivate
<1>3. LC!NotifyAllActivate(t, "step")
  BY <1>2, SameNotify DEF NotifyAllActivate, LC!NotifyAllActivate, lockVars, LC!lockVars
<1> QED BY <1>2, <1>3 DEF LC!Walk

LEMMA SameStep ==
  ASSUME NEW t \in Thread, NEW from, Moves(t, from, from), from = "finish_step",
         NotifyAllNext(t, "finish_walk", "finish_unlock")
  PROVE  LC!Step(t)
<1> DEFINE to == IF Tail(notifying[t]) = << >> THEN "finish_unlock" ELSE "finish_walk"
<1>1. Moves(t, from, to) /\ Goto(t, to) /\ Stays(t, from, to)
  BY DEF Moves, NotifyAllNext, Stays, LockMonitor, LockLabel, QueueLabel, Label
<1>2. LockLabel(from) = "step"
      /\ LockLabel(to) = IF Tail(notifying[t]) = << >> THEN "in" ELSE "walk"
  BY DEF LockLabel
<1> HIDE DEF to
<1>3. /\ LC!At(t, "step") /\ LockAt' = LockAt
      /\ LC!Goto(t, IF Tail(notifying[t]) = << >> THEN "in" ELSE "walk")
  BY <1>1, <1>2, MovesEffect
<1>4. LC!NotifyAllNext(t, "walk", "in")
  BY <1>3 DEF NotifyAllNext, LC!NotifyAllNext, schedVars, LC!schedVars
<1> QED BY <1>3, <1>4 DEF LC!Step

-----------------------------------------------------------------------------
(* The inductive invariant: who owns a bio. *)

ClientLabel == {"out", "submit", "submit_add", "submit_notify", "submit_unlock",
                "wait", "wait_lock", "wait_test", "wait_relock", "wait_unlock",
                "read", "free"}

(* The clients and the worker run their own code, and their bios are       *)
(* allocated and not shared between clients.                               *)
Owned ==
  /\ \A t \in Thread : pc[t] \in ClientLabel <=> t # worker
  /\ \A t \in Thread : UsesBio(t) => bio[t] \in allocated
  /\ \A t, u \in Client : UsesBio(t) /\ UsesBio(u) /\ bio[t] = bio[u] => t = u

(* The queue links allocated bios, each of them once, and not the one that *)
(* the worker has taken.                                                   *)
Queued ==
  /\ NoRepeat(ide_bio_queue)
  /\ Range(ide_bio_queue) \subseteq allocated
  /\ AtWorker \cap Range(ide_bio_queue) = {}

Pending == Range(ide_bio_queue) \cup AtWorker

(* A bio of a client has no status before it is submitted, and then exactly*)
(* while it is in the queue or with the worker.                            *)
Answered ==
  \A t \in Client : UsesBio(t) =>
    /\ pc[t] \in {"submit", "submit_add"} =>
         status[bio[t]] = "NONE" /\ bio[t] \notin Pending
    /\ pc[t] \notin {"submit", "submit_add"} =>
         (status[bio[t]] = "NONE" <=> bio[t] \in Pending)
    /\ pc[t] \in {"wait_unlock", "read", "free"} => status[bio[t]] # "NONE"

(* While the worker is on its way out of finish_bio the client cannot have *)
(* passed bio_wait: the bio's mutex keeps it there.                        *)
Reporting ==
  pc[worker] \in {"finish_notify", "finish_walk", "finish_step", "finish_unlock"} =>
    \A t \in Client : bio[t] = bio[worker] => pc[t] \notin {"wait_unlock", "read", "free"}

StatusOf(b) == IF length[b] THEN {"FINISHED", "FAILED"} ELSE {"FAILED"}

(* The status that is or will be stored is one the request can have.       *)
Reported ==
  /\ \A b \in Bio : status[b] # "NONE" => status[b] \in StatusOf(b)
  /\ pc[worker] \in {"finish", "finish_set"} => result \in StatusOf(bio[worker])

BioInv == TypeOK /\ Owned /\ Queued /\ Answered /\ Reporting /\ Reported /\ WorkerNotified

IInv == LC!IInv /\ BioInv

-----------------------------------------------------------------------------
(* Every step of the block layer is a step of the locks, or changes nothing*)
(* in them.                                                                *)

(* A step outside the locks. *)
LEMMA LocalStep ==
  ASSUME NEW t \in Thread, NEW from \in Label, NEW to \in Label, pc \in [Thread -> Label],
         bio \in [Thread -> Bio \cup {NoMonitor}], bio' \in [Thread -> Bio \cup {NoMonitor}],
         \A u \in Thread : u # t => bio'[u] = bio[u],
         At(t, from), Goto(t, to), UNCHANGED <<schedVars, parked, lockVars>>
  PROVE  /\ LockLabel(from) = "out" /\ LockLabel(to) = "lock"
              => LC!Enter(t, LockMonitor(to, bio'[t]))
         /\ LockLabel(from) = LockLabel(to) /\ LockMonitor(from, bio[t]) = LockMonitor(to, bio'[t])
              => UNCHANGED LC!vars
<1>1. /\ LockPc' = [LockPc EXCEPT ![t] = LockLabel(to)]
      /\ LockAt' = [LockAt EXCEPT ![t] = LockMonitor(to, bio'[t])]
  BY PcStep
<1>2. /\ LockPc[t] = LockLabel(from) /\ LockAt[t] = LockMonitor(from, bio[t])
      /\ LC!At(t, LockLabel(from))
  BY DEF At, LC!At, LockPc, LockAt
<1>3. UNCHANGED <<LC!schedVars, parked, LC!lockVars>>
  BY DEF schedVars, lockVars, LC!schedVars, LC!lockVars
<1>4. ASSUME LockLabel(from) = "out", LockLabel(to) = "lock"
      PROVE  LC!Enter(t, LockMonitor(to, bio'[t]))
  BY <1>1, <1>2, <1>3, <1>4 DEF LC!Enter, LC!Goto
<1>5. ASSUME LockLabel(from) = LockLabel(to),
             LockMonitor(from, bio[t]) = LockMonitor(to, bio'[t])
      PROVE  UNCHANGED LC!vars
  <2>1. /\ LockPc' = [LockPc EXCEPT ![t] = LockPc[t]]
        /\ LockAt' = [LockAt EXCEPT ![t] = LockAt[t]]
    BY <1>1, <1>2, <1>5
  <2>2. LockPc' = LockPc /\ LockAt' = LockAt
    BY <2>1 DEF LockPc, LockAt
  <2> QED BY <1>3, <2>2 DEF LC!vars
<1> QED BY <1>4, <1>5

LEMMA LocalStutter ==
  ASSUME NEW t \in Thread, NEW from, NEW to, Moves(t, from, to), Goto(t, to),
         Stays(t, from, to), LockLabel(from) = LockLabel(to),
         UNCHANGED <<schedVars, parked, lockVars>>
  PROVE  UNCHANGED LC!vars
<1>1. LockMonitor(from, bio[t]) = LockMonitor(to, bio'[t])
  BY DEF Moves, Stays
<1> QED BY <1>1, LocalStep DEF Moves

(* A bio that is not allocated has a free mutex and no waiters, so that    *)
(* bio_alloc, which sets them up again, changes nothing.                   *)
LEMMA FreeBio ==
  ASSUME IInv, NEW b \in Bio \ allocated
  PROVE  mutex_state[b] = "UNLOCKED" /\ mutex_wq[b] = << >> /\ cond_wq[b] = << >>
<1>1. b \in Monitor /\ b # NoMonitor /\ b # queue
  BY BioAssumption, LockingAssumption
<1>2. ASSUME NEW t \in Thread  PROVE  LockAt[t] # b
  <2>1. UsesBio(t) \/ LockLabel(pc[t]) = "out" \/ pc[t] \in QueueLabel
    BY DEF UsesBio, LockLabel, QueueLabel
  <2>2. UsesBio(t) => bio[t] # b
    BY DEF IInv, BioInv, Owned
  <2> QED BY <1>1, <2>1, <2>2 DEF LockAt, LockMonitor
<1>3. mutex_state[b] = "UNLOCKED"
  <2>1. mutex_state[b] \in {"UNLOCKED", "LOCKED"}
    BY <1>1, SMT DEF IInv, BioInv, TypeOK, LockTypeOK
  <2> QED BY <1>1, <1>2, <2>1 DEF IInv, LC!IInv, LC!MutualExclusion, LC!Inside
<1>4. mutex_wq[b] \in Seq(Thread) /\ cond_wq[b] \in Seq(Thread)
  BY <1>1, SMT DEF IInv, BioInv, TypeOK, LockTypeOK
<1>5. \A t \in Thread : t \notin Range(mutex_wq[b]) /\ t \notin Range(cond_wq[b])
  BY SMTT(60), <1>1, <1>2, SameSequences DEF IInv, LC!IInv, LC!MutexQueues, LC!CondQueues
<1>6. ASSUME NEW q \in Seq(Thread), \A t \in Thread : t \notin Range(q)  PROVE  q = << >>
  <2>1. q # << >> => q[1] \in Range(q) /\ q[1] \in Thread
    BY SMTT(60), SeqRange
  <2> QED BY <1>6, <2>1
<1> QED BY <1>3, <1>4, <1>5, <1>6

LEMMA AllocStep ==
  ASSUME IInv, NEW t \in Client, bio_alloc(t)
  PROVE  LC!Enter(t, queue)
<1>1. PICK b \in Bio \ allocated :
        /\ bio' = [bio EXCEPT ![t] = b]
        /\ mutex_state' = [mutex_state EXCEPT ![b] = "UNLOCKED"]
        /\ mutex_wq' = [mutex_wq EXCEPT ![b] = << >>]
        /\ cond_wq' = [cond_wq EXCEPT ![b] = << >>]
  BY DEF bio_alloc
<1>2. TypeOK /\ LockTypeOK /\ t \in Thread
  BY DEF IInv, BioInv, TypeOK, Client
<1>3. mutex_state' = mutex_state /\ mutex_wq' = mutex_wq /\ cond_wq' = cond_wq
  BY <1>1, <1>2, FreeBio, SMTT(60) DEF LockTypeOK
<1>4. At(t, "out") /\ Goto(t, "submit") /\ UNCHANGED <<schedVars, parked, lockVars>>
  BY <1>3 DEF bio_alloc, lockVars
<1>5. bio' \in [Thread -> Bio \cup {NoMonitor}] /\ \A u \in Thread : u # t => bio'[u] = bio[u]
  BY <1>1, <1>2, SMTT(60) DEF TypeOK
<1>6. /\ LockLabel("out") = "out" /\ LockLabel("submit") = "lock"
      /\ LockMonitor("submit", bio'[t]) = queue /\ "out" \in Label /\ "submit" \in Label
  BY DEF LockLabel, LockMonitor, QueueLabel, Label
<1> QED BY <1>2, <1>4, <1>5, <1>6, LocalStep DEF TypeOK

(* The labels of bio.c as labels of the locks. *)
LEMMA Labels ==
  /\ \A b : /\ LockMonitor("submit", b) = queue /\ LockMonitor("submit_add", b) = queue
            /\ LockMonitor("submit_notify", b) = queue
            /\ LockMonitor("submit_unlock", b) = queue
            /\ LockMonitor("dequeue_lock", b) = queue
            /\ LockMonitor("dequeue_test", b) = queue
            /\ LockMonitor("dequeue_relock", b) = queue
            /\ LockMonitor("dequeue_unlock", b) = queue
            /\ LockMonitor("wait_lock", b) = b /\ LockMonitor("wait_test", b) = b
            /\ LockMonitor("wait_relock", b) = b /\ LockMonitor("wait_unlock", b) = b
            /\ LockMonitor("finish", b) = b /\ LockMonitor("finish_set", b) = b
            /\ LockMonitor("finish_notify", b) = b /\ LockMonitor("finish_walk", b) = b
            /\ LockMonitor("finish_step", b) = b /\ LockMonitor("finish_unlock", b) = b
            /\ \A l \in {"out", "wait", "read", "free", "dequeue", "handle"} :
                 LockMonitor(l, b) = NoMonitor
  /\ \A l \in {"out", "wait", "read", "free", "dequeue", "handle"} : LockLabel(l) = "out"
  /\ \A l \in {"submit", "wait_lock", "dequeue_lock", "finish"} : LockLabel(l) = "lock"
  /\ \A l \in {"wait_relock", "dequeue_relock"} : LockLabel(l) = "relock"
  /\ \A l \in {"submit_add", "submit_notify", "submit_unlock", "wait_test", "wait_unlock",
               "dequeue_test", "dequeue_unlock", "finish_set", "finish_notify",
               "finish_unlock"} : LockLabel(l) = "in"
BY SMTT(60) DEF LockLabel, LockMonitor, QueueLabel

LEMMA ClientSimulated ==
  ASSUME IInv, NEW t \in Client, ClientStep(t)
  PROVE  [LC!Next]_(LC!vars)
<1>1. TypeOK /\ t \in Thread
  BY DEF IInv, BioInv, Client
<1>2. pc \in [Thread -> Label] /\ bio \in [Thread -> Bio \cup {NoMonitor}]
  BY <1>1 DEF TypeOK
<1>3. LC!Next <=> \/ \E u \in Thread : LC!LockStep(u) \/ LC!Call(u)
                  \/ (LC!idle \/ LC!Timer) /\ UNCHANGED LockAt
  BY DEF LC!Next
<1>4. ASSUME NEW from \in Label, NEW to \in Label, At(t, from), UNCHANGED bio
      PROVE  Moves(t, from, to)
  BY <1>2, <1>4 DEF Moves
<1>5. UsesBio(t) => bio[t] \in Monitor
  BY <1>1, BioAssumption DEF IInv, BioInv, Owned, TypeOK
<1> USE DEF bioVars
<1>6. CASE bio_submit(t)
  <2>1. CASE At(t, "submit") /\ mutex_lock(t, queue, "submit_add") /\ UNCHANGED bioVars
    <3>1. LC!Lock(t) \/ LC!Relock(t)
      BY <1>1, <1>2, <2>1, Labels, SameLock DEF Label
    <3> QED BY <1>1, <1>3, <3>1 DEF LC!LockStep
  <2>2. CASE SubmitAdd(t)
    <3>1. /\ At(t, "submit_add") /\ Goto(t, "submit_notify") /\ UNCHANGED bio
          /\ UNCHANGED <<schedVars, parked, lockVars>>
      BY <2>2 DEF SubmitAdd
    <3>2. Moves(t, "submit_add", "submit_notify")
      BY <1>4, <3>1 DEF Label
    <3>3. Stays(t, "submit_add", "submit_notify") /\ LockLabel("submit_add") = LockLabel("submit_notify")
      BY Labels DEF Stays
    <3>4. UNCHANGED LC!vars
      BY <1>1, <3>1, <3>2, <3>3, LocalStutter
    <3> QED BY <3>4
  <2>3. CASE At(t, "submit_notify") /\ condition_notify(t, queue, "submit_unlock") /\ UNCHANGED bioVars
    <3>1. LC!Notify(t)
      BY <1>1, <1>4, <2>3, Labels, SameNotifyOne DEF Label, Stays
    <3> QED BY <1>1, <1>3, <3>1 DEF LC!Call
  <2>4. CASE At(t, "submit_unlock") /\ mutex_unlock(t, queue, "wait") /\ UNCHANGED bioVars
    <3>1. LC!Unlock(t)
      BY <1>1, <1>4, <2>4, Labels, SameUnlock DEF Label
    <3> QED BY <1>1, <1>3, <3>1 DEF LC!Call
  <2> QED BY <1>6, <2>1, <2>2, <2>3, <2>4 DEF bio_submit
<1>7. CASE bio_wait(t)
  <2>1. CASE Call(t, "wait", "wait_lock")
    <3>1. LC!Enter(t, bio[t])
      BY <1>1, <1>2, <2>1, Labels, LocalStep DEF Call, Label
    <3>2. bio[t] \in Monitor
      BY <1>5, <2>1 DEF Call, At, UsesBio
    <3> QED BY <1>1, <1>3, <3>1, <3>2 DEF LC!Call
  <2>2. CASE /\ At(t, "wait_lock") \/ At(t, "wait_relock")
             /\ mutex_lock(t, bio[t], "wait_test") /\ UNCHANGED bioVars
    <3>1. LC!Lock(t) \/ LC!Relock(t)
      BY <1>1, <1>2, <2>2, Labels, SameLock DEF Label
    <3> QED BY <1>1, <1>3, <3>1 DEF LC!LockStep
  <2>3. CASE At(t, "wait_test") /\ condition_wait(t, bio[t], "wait_relock") /\ UNCHANGED bioVars
    <3>1. LC!Wait(t)
      BY <1>1, <1>4, <2>3, Labels, SameWait DEF Label, Stays
    <3> QED BY <1>1, <1>3, <3>1 DEF LC!Call
  <2>4. CASE At(t, "wait_test") /\ Goto(t, "wait_unlock")
             /\ UNCHANGED <<schedVars, parked, lockVars, bioVars>>
    <3>1. UNCHANGED LC!vars
      BY SMTT(60), <1>1, <1>4, <2>4, Labels, LocalStutter DEF Label, Stays
    <3> QED BY <3>1
  <2>5. CASE At(t, "wait_unlock") /\ mutex_unlock(t, bio[t], "read") /\ UNCHANGED bioVars
    <3>1. LC!Unlock(t)
      BY <1>1, <1>4, <2>5, Labels, SameUnlock DEF Label
    <3> QED BY <1>1, <1>3, <3>1 DEF LC!Call
  <2> QED BY <1>7, <2>1, <2>2, <2>3, <2>4, <2>5 DEF bio_wait
<1>8. CASE ReadStatus(t)
  <2>1. UNCHANGED LC!vars
    BY <1>1, <1>4, <1>8, Labels, LocalStutter DEF ReadStatus, Label, Stays
  <2> QED BY <2>1
<1>9. CASE bio_free(t)
  <2>1. bio' \in [Thread -> Bio \cup {NoMonitor}] /\ \A u \in Thread : u # t => bio'[u] = bio[u]
    BY <1>1, <1>2, <1>9, SMT DEF bio_free
  <2>2. LockMonitor("free", bio[t]) = LockMonitor("out", bio'[t])
        /\ LockLabel("free") = LockLabel("out") /\ "free" \in Label /\ "out" \in Label
    BY Labels DEF Label
  <2>3. At(t, "free") /\ Goto(t, "out") /\ UNCHANGED <<schedVars, parked, lockVars>>
    BY <1>9 DEF bio_free
  <2>4. UNCHANGED LC!vars
    BY <1>1, <1>2, <2>1, <2>2, <2>3, LocalStep
  <2> QED BY <2>4
<1>10. CASE Park(t) /\ UNCHANGED bioVars
  <2>1. LockPc' = LockPc /\ LockAt' = LockAt
    BY <1>10 DEF Park, LockPc, LockAt
  <2>2. LC!Park(t)
    BY <1>10, <2>1, SameScheduler DEF Park, LC!Park, lockVars, LC!lockVars
  <2> QED BY <1>1, <1>3, <2>1, <2>2 DEF LC!LockStep
<1> QED BY <1>6, <1>7, <1>8, <1>9, <1>10 DEF ClientStep

LEMMA WorkerSimulated ==
  ASSUME IInv, process_bio_queue
  PROVE  [LC!Next]_(LC!vars)
<1> DEFINE t == worker
<1>1. TypeOK /\ t \in Thread
  BY BioAssumption DEF IInv, BioInv
<1>2. pc \in [Thread -> Label] /\ bio \in [Thread -> Bio \cup {NoMonitor}]
  BY <1>1 DEF TypeOK
<1>3. LC!Next <=> \/ \E u \in Thread : LC!LockStep(u) \/ LC!Call(u)
                  \/ (LC!idle \/ LC!Timer) /\ UNCHANGED LockAt
  BY DEF LC!Next
<1>4. ASSUME NEW from \in Label, NEW to \in Label, At(t, from), UNCHANGED bio
      PROVE  Moves(t, from, to)
  BY <1>2, <1>4 DEF Moves
<1>5. UsesBio(t) => bio[t] \in Monitor
  BY <1>1, BioAssumption DEF IInv, BioInv, Owned, TypeOK
<1>c. \A b \in Bio : b \in Monitor
  BY BioAssumption
<1>d. process_bio_queue <=> \/ dequeue_bio(t) \/ handle_bio(t) \/ finish_bio(t)
                            \/ Park(t) /\ UNCHANGED bioVars
  BY DEF process_bio_queue
<1> HIDE DEF t
<1> USE DEF bioVars
<1>6. CASE dequeue_bio(t)
  <2>1. CASE Call(t, "dequeue", "dequeue_lock")
    <3>1. LC!Enter(t, queue)
      BY <1>1, <1>2, <2>1, Labels, LocalStep DEF Call, Label
    <3> QED BY <1>1, <1>3, <3>1, BioAssumption DEF LC!Call
  <2>2. CASE /\ At(t, "dequeue_lock") \/ At(t, "dequeue_relock")
             /\ mutex_lock(t, queue, "dequeue_test") /\ UNCHANGED bioVars
    <3>1. LC!Lock(t) \/ LC!Relock(t)
      BY <1>1, <1>2, <2>2, Labels, SameLock DEF Label
    <3> QED BY <1>1, <1>3, <3>1 DEF LC!LockStep
  <2>3. CASE DequeueTest(t) /\ ide_bio_queue = << >>
    <3>1. LC!Wait(t)
      BY <1>1, <1>4, <2>3, Labels, SameWait DEF DequeueTest, Label, Stays
    <3> QED BY <1>1, <1>3, <3>1 DEF LC!Call
  <2>4. CASE DequeueTest(t) /\ ide_bio_queue # << >>
    <3>1. /\ At(t, "dequeue_test") /\ Goto(t, "dequeue_unlock")
          /\ UNCHANGED <<schedVars, parked, lockVars>>
          /\ bio' = [bio EXCEPT ![t] = Head(ide_bio_queue)]
      BY <2>4 DEF DequeueTest
    <3>2. Head(ide_bio_queue) \in Bio
      BY <1>1, <2>4, SMT DEF TypeOK
    <3>3. bio' \in [Thread -> Bio \cup {NoMonitor}] /\ \A u \in Thread : u # t => bio'[u] = bio[u]
      BY <1>1, <1>2, <3>1, <3>2, SMTT(60)
    <3>4. LockMonitor("dequeue_test", bio[t]) = LockMonitor("dequeue_unlock", bio'[t])
          /\ LockLabel("dequeue_test") = LockLabel("dequeue_unlock")
          /\ "dequeue_test" \in Label /\ "dequeue_unlock" \in Label
      BY Labels DEF Label
    <3>5. UNCHANGED LC!vars
      BY <1>1, <1>2, <3>1, <3>3, <3>4, LocalStep
    <3> QED BY <3>5
  <2>5. CASE At(t, "dequeue_unlock") /\ mutex_unlock(t, queue, "handle") /\ UNCHANGED bioVars
    <3>1. LC!Unlock(t)
      BY <1>1, <1>4, <2>5, Labels, SameUnlock DEF Label
    <3> QED BY <1>1, <1>3, <3>1 DEF LC!Call
  <2> QED BY <1>6, <2>1, <2>2, <2>3, <2>4, <2>5 DEF dequeue_bio
<1>7. CASE handle_bio(t)
  <2>1. LC!Enter(t, bio[t])
    BY <1>1, <1>2, <1>7, Labels, LocalStep DEF handle_bio, Label
  <2>2. bio[t] \in Monitor
    BY <1>5, <1>7 DEF handle_bio, At, UsesBio
  <2> QED BY <1>1, <1>3, <2>1, <2>2 DEF LC!Call
<1>8. CASE finish_bio(t)
  <2>1. CASE At(t, "finish") /\ mutex_lock(t, bio[t], "finish_set") /\ UNCHANGED bioVars
    <3>1. LC!Lock(t) \/ LC!Relock(t)
      BY <1>1, <1>2, <2>1, Labels, SameLock DEF Label
    <3> QED BY <1>1, <1>3, <3>1 DEF LC!LockStep
  <2>2. CASE FinishSet(t)
    <3>1. /\ At(t, "finish_set") /\ Goto(t, "finish_notify") /\ UNCHANGED bio
          /\ UNCHANGED <<schedVars, parked, lockVars>>
      BY <2>2 DEF FinishSet
    <3>2. Moves(t, "finish_set", "finish_notify")
      BY <1>4, <3>1 DEF Label
    <3>3. Stays(t, "finish_set", "finish_notify") /\ LockLabel("finish_set") = LockLabel("finish_notify")
      BY Labels DEF Stays
    <3>4. UNCHANGED LC!vars
      BY <1>1, <3>1, <3>2, <3>3, LocalStutter
    <3> QED BY <3>4
  <2>3. CASE /\ At(t, "finish_notify") /\ UNCHANGED bioVars
             /\ condition_notify_all(t, bio[t], "finish_walk", "finish_unlock")
    <3>1. LC!NotifyAll(t)
      BY <1>1, <1>4, <2>3, SameNotifyAll DEF Label
    <3> QED BY <1>1, <1>3, <3>1 DEF LC!Call
  <2>4. CASE At(t, "finish_walk") /\ NotifyAllActivate(t, "finish_step") /\ UNCHANGED bioVars
    <3>1. LC!Walk(t)
      BY <1>1, <1>4, <2>4, SameWalk DEF Label
    <3> QED BY <1>1, <1>3, <3>1 DEF LC!LockStep
  <2>5. CASE /\ At(t, "finish_step") /\ UNCHANGED bioVars
             /\ NotifyAllNext(t, "finish_walk", "finish_unlock")
    <3>1. LC!Step(t)
      BY <1>1, <1>4, <2>5, SameStep DEF Label
    <3> QED BY <1>1, <1>3, <3>1 DEF LC!LockStep
  <2>6. CASE At(t, "finish_unlock") /\ mutex_unlock(t, bio[t], "dequeue") /\ UNCHANGED bioVars
    <3>1. LC!Unlock(t)
      BY <1>1, <1>4, <2>6, Labels, SameUnlock DEF Label
    <3> QED BY <1>1, <1>3, <3>1 DEF LC!Call
  <2> QED BY <1>8, <2>1, <2>2, <2>3, <2>4, <2>5, <2>6 DEF finish_bio
<1>10. CASE Park(t) /\ UNCHANGED bioVars
  <2>1. LockPc' = LockPc /\ LockAt' = LockAt
    BY <1>10 DEF Park, LockPc, LockAt
  <2>2. LC!Park(t)
    BY <1>10, <2>1, SameScheduler DEF Park, LC!Park, lockVars, LC!lockVars
  <2> QED BY <1>1, <1>3, <2>1, <2>2 DEF LC!LockStep
<1> QED BY <1>6, <1>7, <1>8, <1>10, <1>d

LEMMA Simulated ==
  ASSUME IInv, [Next]_vars
  PROVE  [LC!Next]_(LC!vars)
<1>1. CASE \E t \in Client : bio_alloc(t)
  <2>1. PICK t \in Client : LC!Enter(t, queue)
    BY <1>1, AllocStep
  <2> QED BY <2>1, BioAssumption DEF LC!Next, LC!Call, Client
<1>2. CASE \E t \in Client : ClientStep(t)
  BY <1>2, ClientSimulated
<1>3. CASE process_bio_queue
  BY <1>3, WorkerSimulated
<1>4. CASE (idle \/ Timer) /\ UNCHANGED bioVars
  <2>1. LockPc' = LockPc /\ LockAt' = LockAt
    BY <1>4 DEF idle, Timer, bioVars, LockPc, LockAt
  <2>2. idle => LC!idle
    BY <1>4, <2>1, SameScheduler DEF idle, LC!idle, lockVars, LC!lockVars
  <2>3. Timer => LC!Timer
    <3>1. TimerInterrupt => LC!TimerInterrupt
      <4>1. ElapsedMax = LC!ElapsedMax /\ \A e : need_resched(e) <=> LC!need_resched(e)
        BY DEF need_resched, LC!need_resched, rr_need_preempt, LC!rr_need_preempt, RR_MS,
               LC!RR_MS, RR_SCHED_SLICE, LC!RR_SCHED_SLICE, ElapsedMax, LC!ElapsedMax
      <4>2. \A e : schedule(state, e, TRUE) => LC!schedule(state, e, TRUE)
        BY SameScheduler
      <4> QED BY <4>1, <4>2 DEF TimerInterrupt, LC!TimerInterrupt
    <3> QED BY <2>1, <3>1 DEF Timer, LC!Timer, lockVars, LC!lockVars
  <2> QED BY <1>4, <2>1, <2>2, <2>3 DEF LC!Next
<1>5. CASE UNCHANGED vars
  <2>1. UNCHANGED LC!vars
    BY <1>5 DEF vars, bioVars, schedVars, lockVars, LC!vars, LC!schedVars, LC!lockVars,
                LockPc, LockAt
  <2> QED BY <2>1
<1> QED BY <1>1, <1>2, <1>3, <1>4, <1>5 DEF Next

-----------------------------------------------------------------------------
(* The steps preserve BioInv. *)

Using(l) == l \notin {"out", "dequeue", "dequeue_lock", "dequeue_test", "dequeue_relock"}

New == {"submit", "submit_add"}

Past == {"wait_unlock", "read", "free"}

Taken == {"dequeue_unlock", "handle", "finish", "finish_set"}

Leaving == {"finish_notify", "finish_walk", "finish_step", "finish_unlock"}

(* A step that changes nothing but the program counter of t and the locks. *)
LEMMA QuietStep ==
  ASSUME IInv, LC!IInv', NEW t \in Thread, NEW to \in Label,
         UNCHANGED bioVars, pc' = [pc EXCEPT ![t] = to],
         to \in ClientLabel <=> t # worker,
         Using(to) => Using(pc[t]),
         to \in New <=> pc[t] \in New,
         to \in Taken <=> pc[t] \in Taken,
         to \in Leaving => pc[t] \in Leaving,
         to \in {"finish", "finish_set"} => pc[t] \in {"finish", "finish_set"},
         to \in Past => \/ pc[t] \in Past
                        \/ /\ status[bio[t]] # "NONE"
                           /\ pc[worker] \in Leaving => bio[t] # bio[worker],
         WorkerNotified'
  PROVE  BioInv'
<1>1. /\ bio' = bio /\ allocated' = allocated /\ length' = length /\ status' = status
      /\ result' = result /\ ide_bio_queue' = ide_bio_queue
  BY DEF bioVars
<1>2. /\ TypeOK /\ Owned /\ Queued /\ Answered /\ Reporting /\ Reported
      /\ worker \in Thread
  BY BioAssumption DEF IInv, BioInv
<1>3. pc'[t] = to /\ \A u \in Thread : u # t => pc'[u] = pc[u]
  BY <1>2, SMT DEF TypeOK
<1>4. TypeOK'
  <2>1. pc' \in [Thread -> Label]
    BY <1>2, SMT DEF TypeOK
  <2>2. LockTypeOK'
    BY SameTypes DEF LC!IInv, LC!TypeOK
  <2> QED BY <1>1, <1>2, <2>1, <2>2 DEF TypeOK
<1>5. /\ \A u \in Thread : UsesBio(u) <=> Using(pc[u])
      /\ \A u \in Thread : UsesBio(u)' <=> Using(pc'[u])
      /\ \A u \in Thread : Using(pc'[u]) => Using(pc[u])
  BY <1>3 DEF UsesBio, Using
<1>6. Owned'
  BY <1>1, <1>2, <1>3, <1>5 DEF Owned, Client
<1>7. AtWorker' = AtWorker
  BY <1>1, <1>2, <1>3 DEF AtWorker, Taken
<1>8. Queued'
  BY <1>1, <1>2, <1>7 DEF Queued
<1>9. Answered'
  <2> SUFFICES ASSUME NEW u \in Client, UsesBio(u)'
               PROVE  /\ pc'[u] \in New => status[bio[u]] = "NONE" /\ bio[u] \notin Pending
                      /\ pc'[u] \notin New => (status[bio[u]] = "NONE" <=> bio[u] \in Pending)
                      /\ pc'[u] \in Past => status[bio[u]] # "NONE"
    BY <1>1, <1>7 DEF Answered, Pending, New, Past
  <2>1. UsesBio(u) /\ u \in Thread
    BY <1>5 DEF Client
  <2>2. /\ pc[u] \in New => status[bio[u]] = "NONE" /\ bio[u] \notin Pending
        /\ pc[u] \notin New => (status[bio[u]] = "NONE" <=> bio[u] \in Pending)
        /\ pc[u] \in Past => status[bio[u]] # "NONE"
    BY <1>2, <2>1 DEF Answered, New, Past
  <2> QED BY <1>3, <2>1, <2>2
<1>10. Reporting'
  <2> SUFFICES ASSUME pc'[worker] \in Leaving, NEW u \in Client, bio[u] = bio[worker]
               PROVE  pc'[u] \notin Past
    BY <1>1 DEF Reporting, Leaving, Past
  <2>1. pc[worker] \in Leaving /\ u \in Thread
    BY <1>2, <1>3 DEF Client
  <2>2. pc[u] \notin Past
    BY <1>2, <2>1 DEF Reporting, Leaving, Past
  <2> QED BY <1>3, <2>1, <2>2
<1>11. Reported'
  BY <1>1, <1>2, <1>3 DEF Reported, StatusOf
<1> QED BY <1>4, <1>6, <1>8, <1>9, <1>10, <1>11 DEF BioInv

(* The worker stays notified when a step neither touches the queue's       *)
(* condition nor adds to the queue nor notifies.                           *)
LEMMA StillNotified ==
  ASSUME IInv, NEW t \in Thread, NEW to, pc' = [pc EXCEPT ![t] = to],
         pc[t] # "submit_notify", cond_wq'[queue] = cond_wq[queue],
         ide_bio_queue' # << >> => ide_bio_queue # << >>
  PROVE  WorkerNotified'
<1>1. \A u \in Client : pc[u] = "submit_notify" => pc'[u] = "submit_notify"
  BY SMT DEF IInv, BioInv, TypeOK, Client
<1> QED BY <1>1 DEF IInv, BioInv, WorkerNotified

(* A step that leaves t where it is. *)
LEMMA SameLabelStep ==
  ASSUME IInv, LC!IInv', UNCHANGED <<pc, bioVars>>, cond_wq'[queue] = cond_wq[queue]
  PROVE  BioInv'
<1>1. TypeOK /\ Owned /\ worker \in Thread
  BY BioAssumption DEF IInv, BioInv
<1>2. pc' = [pc EXCEPT ![worker] = pc[worker]] /\ pc[worker] \in Label
  BY <1>1, SMT DEF TypeOK
<1>3. pc[worker] \notin ClientLabel /\ pc[worker] # "submit_notify"
  BY <1>1 DEF Owned, ClientLabel
<1>4. WorkerNotified'
  BY <1>1, <1>2, <1>3, StillNotified DEF bioVars
<1> QED BY <1>1, <1>2, <1>3, <1>4, QuietStep

(* What holds of the bio of a thread and of the worker. *)
LEMMA BioFacts ==
  ASSUME IInv
  PROVE  /\ TypeOK /\ Owned /\ Queued /\ Answered /\ Reporting /\ Reported
         /\ worker \in Thread /\ pc[worker] \in Label
         /\ \A u \in Client : u \in Thread /\ u # worker
         /\ \A u \in Thread : u # worker => u \in Client
         /\ \A u \in Thread : UsesBio(u) <=> Using(pc[u])
         /\ \A u \in Thread : UsesBio(u)' <=> Using(pc'[u])
         /\ \A b : b \in AtWorker <=> b = bio[worker] /\ b \in Bio /\ pc[worker] \in Taken
         /\ \A b : b \in AtWorker' <=> b = bio'[worker] /\ b \in Bio /\ pc'[worker] \in Taken
         /\ Pending \subseteq allocated
<1>1. /\ TypeOK /\ Owned /\ Queued /\ Answered /\ Reporting /\ Reported /\ worker \in Thread
  BY BioAssumption DEF IInv, BioInv
<1>2. /\ \A u \in Thread : UsesBio(u) <=> Using(pc[u])
      /\ \A u \in Thread : UsesBio(u)' <=> Using(pc'[u])
  BY DEF UsesBio, Using
<1>3. /\ \A b : b \in AtWorker <=> b = bio[worker] /\ b \in Bio /\ pc[worker] \in Taken
      /\ \A b : b \in AtWorker' <=> b = bio'[worker] /\ b \in Bio /\ pc'[worker] \in Taken
  BY DEF AtWorker, Taken
<1>4. Pending \subseteq allocated
  <2>1. pc[worker] \in Taken => Using(pc[worker])
    BY DEF Taken, Using
  <2> QED BY <1>1, <1>2, <1>3, <2>1 DEF Pending, Owned, Queued
<1>5. pc[worker] \in Label
  BY <1>1 DEF TypeOK
<1> QED BY <1>1, <1>2, <1>3, <1>4, <1>5 DEF Client

LEMMA AllocInv ==
  ASSUME IInv, LC!IInv', NEW t \in Client, bio_alloc(t)
  PROVE  BioInv'
<1> USE BioFacts
<1>1. PICK b \in Bio \ allocated, whole \in Whole :
        /\ allocated' = allocated \cup {b}
        /\ bio' = [bio EXCEPT ![t] = b]
        /\ length' = [length EXCEPT ![b] = whole]
        /\ status' = [status EXCEPT ![b] = "NONE"]
        /\ cond_wq' = [cond_wq EXCEPT ![b] = << >>]
  BY DEF bio_alloc
<1>2. /\ pc[t] = "out" /\ pc' = [pc EXCEPT ![t] = "submit"]
      /\ result' = result /\ ide_bio_queue' = ide_bio_queue
  BY DEF bio_alloc, At, Goto
<1>3. /\ pc'[t] = "submit" /\ bio'[t] = b
      /\ \A u \in Thread : u # t => pc'[u] = pc[u] /\ bio'[u] = bio[u]
      /\ status'[b] = "NONE"
      /\ \A c \in Bio : c # b => status'[c] = status[c] /\ length'[c] = length[c]
  BY <1>1, <1>2, SMT DEF TypeOK
<1>4. TypeOK'
  <2>1. LockTypeOK'
    BY SameTypes DEF LC!IInv, LC!TypeOK
  <2>2. /\ pc' \in [Thread -> Label] /\ bio' \in [Thread -> Bio \cup {NoMonitor}]
        /\ length' \in [Bio -> BOOLEAN] /\ status' \in [Bio -> Status]
    BY <1>1, <1>2, SMT, BioAssumption DEF TypeOK, Label, Status
  <2> QED BY <1>1, <1>2, <2>1, <2>2 DEF TypeOK
<1>5. Using("submit") /\ "submit" \in ClientLabel /\ "submit" \notin Past
      /\ "submit" \in New
  BY DEF Using, ClientLabel, Past, New
<1>6. \A u \in Thread : u # t /\ Using(pc[u]) => bio[u] # b /\ bio[u] \in allocated
  BY DEF Owned
<1>7. Owned'
  BY SMT, <1>1, <1>3, <1>5, <1>6 DEF Owned
<1>8. AtWorker' = AtWorker
  BY <1>3
<1>9. Queued'
  BY <1>1, <1>2, <1>8 DEF Queued
<1>10. Answered'
  <2> SUFFICES ASSUME NEW u \in Client, UsesBio(u)'
               PROVE  /\ pc'[u] \in New => status'[bio'[u]] = "NONE" /\ bio'[u] \notin Pending
                      /\ pc'[u] \notin New => (status'[bio'[u]] = "NONE" <=> bio'[u] \in Pending)
                      /\ pc'[u] \in Past => status'[bio'[u]] # "NONE"
    BY <1>2, <1>8 DEF Answered, Pending, New, Past
  <2>1. CASE u = t
    BY <1>1, <1>3, <1>5, <2>1
  <2>2. CASE u # t
    <3>1. bio'[u] = bio[u] /\ pc'[u] = pc[u] /\ UsesBio(u)
      BY <1>3, <2>2
    <3>2. bio[u] \in Bio /\ bio[u] # b
      BY <1>6, <2>2, <3>1 DEF TypeOK
    <3> QED BY SMT, <1>3, <3>1, <3>2 DEF Answered, New, Past
  <2> QED BY <2>1, <2>2
<1>11. Reporting'
  <2>1. \A u \in Client : u # t => pc'[u] = pc[u] /\ bio'[u] = bio[u]
    BY <1>3
  <2>2. pc'[worker] = pc[worker] /\ bio'[worker] = bio[worker]
    BY <1>3
  <2> QED BY <1>3, <1>5, <2>1, <2>2 DEF Reporting, Past
<1>12. Reported'
  <2>1. \A c \in Bio : status'[c] # "NONE" => status'[c] \in StatusOf(c)'
    BY <1>3 DEF Reported, StatusOf
  <2>2. pc'[worker] \in {"finish", "finish_set"} => result' \in StatusOf(bio[worker])'
    <3>1. pc'[worker] = pc[worker] /\ bio'[worker] = bio[worker]
      BY <1>3
    <3>2. pc[worker] \in {"finish", "finish_set"} => bio[worker] \in Bio /\ bio[worker] # b
      BY <1>6, <3>1 DEF Using, TypeOK, Owned
    <3> QED BY <1>2, <1>3, <3>1, <3>2 DEF Reported, StatusOf
  <2> QED BY <2>1, <2>2 DEF Reported
<1>13. WorkerNotified'
  <2>1. b # queue /\ cond_wq'[queue] = cond_wq[queue]
    BY <1>1, SMT, BioAssumption DEF TypeOK, LockTypeOK
  <2> QED BY <1>2, <2>1, StillNotified
<1> QED BY <1>4, <1>7, <1>9, <1>10, <1>11, <1>12, <1>13 DEF BioInv

LEMMA SubmitInv ==
  ASSUME IInv, LC!IInv', NEW t \in Client, SubmitAdd(t)
  PROVE  BioInv'
<1> USE BioFacts
<1>1. /\ pc[t] = "submit_add" /\ pc' = [pc EXCEPT ![t] = "submit_notify"]
      /\ ide_bio_queue' = Append(ide_bio_queue, bio[t]) /\ result' = result
      /\ bio' = bio /\ allocated' = allocated /\ length' = length /\ status' = status
  BY DEF SubmitAdd, At, Goto
<1>2. pc'[t] = "submit_notify" /\ \A u \in Thread : u # t => pc'[u] = pc[u]
  BY <1>1, SMT DEF TypeOK
<1>3. Using("submit_add") /\ Using("submit_notify") /\ "submit_notify" \in ClientLabel
      /\ "submit_notify" \notin Past /\ "submit_notify" \notin New /\ "submit_add" \in New
  BY DEF Using, ClientLabel, Past, New
<1>4. bio[t] \in allocated /\ bio[t] \in Bio /\ status[bio[t]] = "NONE" /\ bio[t] \notin Pending
  BY <1>1, <1>3 DEF Owned, Answered, TypeOK, New
<1>5. /\ ide_bio_queue' \in Seq(Bio) /\ NoRepeat(ide_bio_queue')
      /\ Range(ide_bio_queue') = Range(ide_bio_queue) \cup {bio[t]}
  BY SMT, <1>1, <1>4, AppendRange DEF TypeOK, Queued, Pending
<1>6. TypeOK'
  <2>1. LockTypeOK'
    BY SameTypes DEF LC!IInv, LC!TypeOK
  <2>2. pc' \in [Thread -> Label]
    BY <1>1, SMT DEF TypeOK, Label
  <2> QED BY <1>1, <1>5, <2>1, <2>2 DEF TypeOK
<1>7. AtWorker' = AtWorker
  BY <1>1, <1>2
<1>8. Owned'
  BY <1>1, <1>2, <1>3 DEF Owned
<1>9. Queued'
  BY <1>1, <1>4, <1>5, <1>7 DEF Queued, Pending
<1>10. Pending' = Pending \cup {bio[t]}
  BY <1>5, <1>7 DEF Pending
<1>11. Answered'
  <2> SUFFICES ASSUME NEW u \in Client, UsesBio(u)'
               PROVE  /\ pc'[u] \in New => status[bio[u]] = "NONE" /\ bio[u] \notin Pending'
                      /\ pc'[u] \notin New => (status[bio[u]] = "NONE" <=> bio[u] \in Pending')
                      /\ pc'[u] \in Past => status[bio[u]] # "NONE"
    BY <1>1 DEF Answered, New, Past
  <2>1. CASE u = t
    BY <1>2, <1>3, <1>4, <1>10, <2>1
  <2>2. CASE u # t
    <3>1. pc'[u] = pc[u] /\ UsesBio(u)
      BY <1>2, <2>2
    <3>2. bio[u] # bio[t]
      BY <1>1, <1>3, <2>2, <3>1 DEF Owned
    <3> QED BY <1>10, <3>1, <3>2 DEF Answered, New, Past
  <2> QED BY <2>1, <2>2
<1>12. Reporting'
  BY <1>1, <1>2, <1>3 DEF Reporting, Past
<1>13. Reported'
  BY <1>1, <1>2 DEF Reported, StatusOf
<1>14. WorkerNotified'
  BY <1>2 DEF WorkerNotified
<1> QED BY <1>6, <1>8, <1>9, <1>11, <1>12, <1>13, <1>14 DEF BioInv

LEMMA FreeInv ==
  ASSUME IInv, LC!IInv', NEW t \in Client, bio_free(t)
  PROVE  BioInv'
<1> USE BioFacts
<1>1. /\ pc[t] = "free" /\ pc' = [pc EXCEPT ![t] = "out"]
      /\ bio' = [bio EXCEPT ![t] = NoMonitor] /\ allocated' = allocated \ {bio[t]}
      /\ ide_bio_queue' = ide_bio_queue /\ result' = result
      /\ length' = length /\ status' = status /\ cond_wq' = cond_wq
  BY DEF bio_free, At, Goto, lockVars
<1>2. /\ pc'[t] = "out" /\ \A u \in Thread : u # t => pc'[u] = pc[u] /\ bio'[u] = bio[u]
  BY <1>1, SMT DEF TypeOK
<1>3. Using("free") /\ ~Using("out") /\ "out" \in ClientLabel /\ "free" \in Past
      /\ "free" \notin New /\ "out" \notin Past
  BY DEF Using, ClientLabel, Past, New
<1>4. bio[t] \in allocated /\ bio[t] \in Bio /\ status[bio[t]] # "NONE" /\ bio[t] \notin Pending
  BY <1>1, <1>3 DEF Owned, Answered, TypeOK, New, Past
<1>5. UsesBio(worker) => bio[worker] # bio[t]
  <2>1. UsesBio(worker) => pc[worker] \in Taken \/ pc[worker] \in Leaving
    BY DEF Owned, Using, Taken, Leaving, Label, ClientLabel
  <2>2. pc[worker] \in Taken => bio[worker] # bio[t]
    BY <1>4 DEF Pending
  <2>3. pc[worker] \in Leaving => bio[worker] # bio[t]
    BY <1>1, <1>3 DEF Reporting, Leaving, Past
  <2> QED BY <2>1, <2>2, <2>3
<1>6. TypeOK'
  <2>1. LockTypeOK'
    BY SameTypes DEF LC!IInv, LC!TypeOK
  <2>2. pc' \in [Thread -> Label] /\ bio' \in [Thread -> Bio \cup {NoMonitor}]
    BY <1>1, SMT DEF TypeOK, Label
  <2> QED BY <1>1, <2>1, <2>2 DEF TypeOK
<1>7. AtWorker' = AtWorker
  BY <1>1, <1>2
<1>8. Owned'
  <2>1. \A u \in Thread : UsesBio(u)' => UsesBio(u) /\ u # t
    BY <1>2, <1>3
  <2>2. \A u \in Thread : UsesBio(u) /\ u # t => bio[u] # bio[t]
    BY <1>1, <1>3, <1>5 DEF Owned
  <2> QED BY SMT, <1>1, <1>2, <1>3, <2>1, <2>2 DEF Owned
<1>9. Queued'
  BY <1>1, <1>4, <1>7 DEF Queued, Pending
<1>10. Pending' = Pending
  BY <1>1, <1>7 DEF Pending
<1>11. Answered'
  <2> SUFFICES ASSUME NEW u \in Client, UsesBio(u)'
               PROVE  /\ pc'[u] \in New => status[bio'[u]] = "NONE" /\ bio'[u] \notin Pending
                      /\ pc'[u] \notin New => (status[bio'[u]] = "NONE" <=> bio'[u] \in Pending)
                      /\ pc'[u] \in Past => status[bio'[u]] # "NONE"
    BY <1>1, <1>10 DEF Answered, New, Past
  <2>1. u # t /\ pc'[u] = pc[u] /\ UsesBio(u) /\ bio'[u] = bio[u]
    BY <1>2, <1>3
  <2> QED BY <2>1 DEF Answered, New, Past
<1>12. Reporting'
  <2>1. pc'[worker] = pc[worker] /\ bio'[worker] = bio[worker]
    BY <1>2
  <2> QED BY <1>2, <1>3, <2>1 DEF Reporting, Past
<1>13. Reported'
  BY <1>1, <1>2 DEF Reported, StatusOf
<1>14. WorkerNotified'
  BY <1>1, StillNotified
<1> QED BY <1>6, <1>8, <1>9, <1>11, <1>12, <1>13, <1>14 DEF BioInv

LEMMA DequeueInv ==
  ASSUME IInv, LC!IInv', DequeueTest(worker), ide_bio_queue # << >>
  PROVE  BioInv'
<1> USE BioFacts
<1> DEFINE b == Head(ide_bio_queue)
<1>1. /\ pc[worker] = "dequeue_test" /\ pc' = [pc EXCEPT ![worker] = "dequeue_unlock"]
      /\ bio' = [bio EXCEPT ![worker] = b] /\ ide_bio_queue' = Tail(ide_bio_queue)
      /\ allocated' = allocated /\ result' = result
      /\ length' = length /\ status' = status /\ cond_wq' = cond_wq
  BY DEF DequeueTest, At, Goto, lockVars
<1>2. /\ b \in Bio /\ b \in Range(ide_bio_queue)
      /\ ide_bio_queue' \in Seq(Bio) /\ NoRepeat(ide_bio_queue')
      /\ Range(ide_bio_queue') = Range(ide_bio_queue) \ {b}
  BY <1>1, TailRange DEF TypeOK, Queued
<1> HIDE DEF b
<1>3. /\ pc'[worker] = "dequeue_unlock" /\ bio'[worker] = b
      /\ \A u \in Thread : u # worker => pc'[u] = pc[u] /\ bio'[u] = bio[u]
  BY <1>1, <1>2, SMT DEF TypeOK
<1>4. /\ "dequeue_test" \notin Taken /\ "dequeue_unlock" \in Taken
      /\ "dequeue_unlock" \notin Leaving /\ "dequeue_unlock" \notin ClientLabel
  BY DEF Taken, Leaving, ClientLabel
<1>5. AtWorker = {} /\ AtWorker' = {b}
  BY <1>1, <1>2, <1>3, <1>4
<1>6. Pending' = Pending
  BY <1>2, <1>5 DEF Pending
<1>7. TypeOK'
  <2>1. LockTypeOK'
    BY SameTypes DEF LC!IInv, LC!TypeOK
  <2>2. pc' \in [Thread -> Label] /\ bio' \in [Thread -> Bio \cup {NoMonitor}]
    BY <1>1, <1>2, SMT DEF TypeOK, Label
  <2> QED BY <1>1, <1>2, <2>1, <2>2 DEF TypeOK
<1>8. Owned'
  <2>1. b \in allocated
    BY <1>2 DEF Queued
  <2> QED BY SMT, <1>1, <1>3, <1>4, <2>1 DEF Owned
<1>9. Queued'
  BY <1>1, <1>2, <1>5 DEF Queued
<1>10. Answered'
  <2> SUFFICES ASSUME NEW u \in Client, UsesBio(u)'
               PROVE  /\ pc'[u] \in New => status[bio'[u]] = "NONE" /\ bio'[u] \notin Pending
                      /\ pc'[u] \notin New => (status[bio'[u]] = "NONE" <=> bio'[u] \in Pending)
                      /\ pc'[u] \in Past => status[bio'[u]] # "NONE"
    BY <1>1, <1>6 DEF Answered, New, Past
  <2>1. pc'[u] = pc[u] /\ UsesBio(u) /\ bio'[u] = bio[u]
    BY <1>3
  <2> QED BY <2>1 DEF Answered, New, Past
<1>11. Reporting'
  BY <1>3, <1>4 DEF Reporting, Leaving
<1>12. Reported'
  BY <1>1, <1>3 DEF Reported, StatusOf
<1>13. WorkerNotified'
  BY <1>1, StillNotified
<1> QED BY <1>7, <1>8, <1>9, <1>10, <1>11, <1>12, <1>13 DEF BioInv

LEMMA HandleInv ==
  ASSUME IInv, LC!IInv', handle_bio(worker)
  PROVE  BioInv'
<1> USE BioFacts
<1>1. /\ pc[worker] = "handle" /\ pc' = [pc EXCEPT ![worker] = "finish"]
      /\ result' \in StatusOf(bio[worker])
      /\ bio' = bio /\ allocated' = allocated /\ ide_bio_queue' = ide_bio_queue
      /\ length' = length /\ status' = status /\ cond_wq' = cond_wq
  BY DEF handle_bio, At, Goto, lockVars, StatusOf
<1>2. pc'[worker] = "finish" /\ \A u \in Thread : u # worker => pc'[u] = pc[u]
  BY <1>1, SMT DEF TypeOK
<1>3. /\ "handle" \in Taken /\ "finish" \in Taken /\ "finish" \notin Leaving
      /\ "finish" \notin ClientLabel /\ Using("handle")
  BY DEF Taken, Leaving, ClientLabel, Using
<1>4. TypeOK'
  <2>1. LockTypeOK'
    BY SameTypes DEF LC!IInv, LC!TypeOK
  <2>2. pc' \in [Thread -> Label]
    BY <1>1, SMT DEF TypeOK, Label
  <2>3. result' \in Status
    BY <1>1 DEF StatusOf, Status
  <2> QED BY <1>1, <2>1, <2>2, <2>3 DEF TypeOK
<1>5. AtWorker' = AtWorker /\ Pending' = Pending
  BY <1>1, <1>2, <1>3 DEF Pending
<1>6. Owned'
  BY <1>1, <1>2, <1>3 DEF Owned
<1>7. Queued'
  BY <1>1, <1>5 DEF Queued
<1>8. Answered'
  BY <1>1, <1>2, <1>5 DEF Answered
<1>9. Reporting'
  BY <1>2, <1>3 DEF Reporting, Leaving
<1>10. Reported'
  BY <1>1 DEF Reported, StatusOf
<1>11. WorkerNotified'
  BY <1>1, StillNotified
<1> QED BY <1>4, <1>6, <1>7, <1>8, <1>9, <1>10, <1>11 DEF BioInv

LEMMA FinishInv ==
  ASSUME IInv, LC!IInv', FinishSet(worker)
  PROVE  BioInv'
<1> USE BioFacts
<1> DEFINE b == bio[worker]
<1>1. /\ pc[worker] = "finish_set" /\ pc' = [pc EXCEPT ![worker] = "finish_notify"]
      /\ status' = [status EXCEPT ![b] = result]
      /\ bio' = bio /\ allocated' = allocated /\ ide_bio_queue' = ide_bio_queue
      /\ length' = length /\ result' = result /\ cond_wq' = cond_wq
  BY DEF FinishSet, At, Goto, lockVars
<1>2. /\ "finish_set" \in Taken /\ "finish_notify" \notin Taken
      /\ "finish_notify" \notin ClientLabel /\ Using("finish_set")
      /\ \A l \in Past : Using(l) /\ l \notin New
  BY DEF Taken, ClientLabel, Using, Past, New
<1>3. b \in Bio /\ b \in AtWorker /\ b \in Pending /\ b \notin Range(ide_bio_queue)
  BY <1>1, <1>2 DEF Owned, TypeOK, Queued, Pending
<1>4. result \in StatusOf(b) /\ result # "NONE" /\ result \in Status
  BY <1>1 DEF Reported, StatusOf, Status
<1>5. /\ pc'[worker] = "finish_notify" /\ \A u \in Thread : u # worker => pc'[u] = pc[u]
      /\ status'[b] = result /\ \A c \in Bio : c # b => status'[c] = status[c]
  BY <1>1, <1>3, SMT DEF TypeOK
<1>6. TypeOK'
  <2>1. LockTypeOK'
    BY SameTypes DEF LC!IInv, LC!TypeOK
  <2>2. pc' \in [Thread -> Label] /\ status' \in [Bio -> Status]
    BY <1>1, <1>3, <1>4, SMT DEF TypeOK, Label
  <2> QED BY <1>1, <2>1, <2>2 DEF TypeOK
<1>7. AtWorker = {b} /\ AtWorker' = {}
  BY <1>1, <1>2, <1>3, <1>5
<1>8. Pending' = Pending \ {b}
  BY <1>1, <1>3, <1>7 DEF Pending
<1>9. Owned'
  BY <1>1, <1>2, <1>5 DEF Owned
<1>10. Queued'
  BY <1>1, <1>7 DEF Queued
<1>11. Answered'
  <2> SUFFICES ASSUME NEW u \in Client, UsesBio(u)'
               PROVE  /\ pc'[u] \in New => status'[bio[u]] = "NONE" /\ bio[u] \notin Pending'
                      /\ pc'[u] \notin New => (status'[bio[u]] = "NONE" <=> bio[u] \in Pending')
                      /\ pc'[u] \in Past => status'[bio[u]] # "NONE"
    BY <1>1 DEF Answered, New, Past
  <2>1. pc'[u] = pc[u] /\ UsesBio(u) /\ bio[u] \in Bio
    BY <1>5 DEF Owned, TypeOK
  <2>2. CASE bio[u] = b
    BY <1>3, <1>4, <1>5, <1>8, <2>1, <2>2 DEF Answered, New
  <2>3. CASE bio[u] # b
    BY <1>5, <1>8, <2>1, <2>3 DEF Answered, New, Past
  <2> QED BY <2>2, <2>3
<1>12. Reporting'
  <2> SUFFICES ASSUME NEW u \in Client, bio[u] = b
               PROVE  pc[u] \notin Past
    BY <1>1, <1>5 DEF Reporting, Past
  <2> QED BY <1>2, <1>3 DEF Answered, New, Past
<1>13. Reported'
  BY <1>1, <1>4, <1>5 DEF Reported, StatusOf
<1>14. WorkerNotified'
  BY <1>1, StillNotified
<1> QED BY <1>6, <1>9, <1>10, <1>11, <1>12, <1>13, <1>14 DEF BioInv

(* The moves of the program counter that concern the locks only. *)
Quiet(t, from, to) ==
  /\ to \in Label /\ from # "submit_notify" /\ (to \in ClientLabel <=> t # worker)
  /\ (Using(to) => Using(from)) /\ (to \in New <=> from \in New)
  /\ (to \in Taken <=> from \in Taken) /\ (to \in Leaving => from \in Leaving)
  /\ (to \in {"finish", "finish_set"} => from \in {"finish", "finish_set"})
  /\ (to \in Past => from \in Past)

LEMMA QuietClient ==
  ASSUME NEW t, t # worker
  PROVE  /\ Quiet(t, "submit", "submit_add") /\ Quiet(t, "submit_unlock", "wait")
         /\ Quiet(t, "wait", "wait_lock") /\ Quiet(t, "wait_lock", "wait_test")
         /\ Quiet(t, "wait_test", "wait_relock") /\ Quiet(t, "wait_relock", "wait_test")
         /\ Quiet(t, "wait_unlock", "read") /\ Quiet(t, "read", "free")
BY SMT DEF Quiet, Label, ClientLabel, Using, New, Taken, Leaving, Past

LEMMA QuietWorker ==
  /\ Quiet(worker, "dequeue", "dequeue_lock") /\ Quiet(worker, "dequeue_lock", "dequeue_test")
  /\ Quiet(worker, "dequeue_relock", "dequeue_test") /\ Quiet(worker, "dequeue_unlock", "handle")
  /\ Quiet(worker, "dequeue_test", "dequeue_relock") /\ Quiet(worker, "finish", "finish_set")
  /\ Quiet(worker, "finish_notify", "finish_walk")
  /\ Quiet(worker, "finish_notify", "finish_unlock")
  /\ Quiet(worker, "finish_walk", "finish_step") /\ Quiet(worker, "finish_step", "finish_walk")
  /\ Quiet(worker, "finish_step", "finish_unlock") /\ Quiet(worker, "finish_unlock", "dequeue")
BY SMT DEF Quiet, Label, ClientLabel, Using, New, Taken, Leaving, Past

LEMMA QuietMove ==
  ASSUME IInv, LC!IInv', NEW t \in Thread, NEW from, NEW to, Quiet(t, from, to),
         pc[t] = from, Goto(t, to), UNCHANGED bioVars, cond_wq'[queue] = cond_wq[queue]
  PROVE  BioInv'
<1>1. pc' = [pc EXCEPT ![t] = to]
  BY DEF Goto
<1>2. WorkerNotified'
  BY <1>1, StillNotified DEF Quiet, bioVars
<1> QED BY <1>1, <1>2, QuietStep DEF Quiet

LEMMA LockInv ==
  ASSUME IInv, LC!IInv', NEW t \in Thread, NEW m, NEW from, NEW to, Quiet(t, from, to),
         At(t, from), mutex_lock(t, m, to), UNCHANGED bioVars
  PROVE  BioInv'
<1>1. CASE mutex_state[m] = "UNLOCKED"
  <2>1. pc[t] = from /\ Goto(t, to) /\ cond_wq' = cond_wq
    BY <1>1 DEF mutex_lock, At
  <2> QED BY <2>1, QuietMove
<1>2. CASE mutex_state[m] # "UNLOCKED"
  <2>1. pc' = pc /\ cond_wq' = cond_wq
    BY <1>2 DEF mutex_lock
  <2> QED BY <2>1, SameLabelStep
<1> QED BY <1>1, <1>2

(* bio_submit notifies the only thread that can wait for the queue.        *)
LEMMA NotifyInv ==
  ASSUME IInv, LC!IInv', NEW t \in Client, At(t, "submit_notify"),
         condition_notify(t, queue, "submit_unlock"), UNCHANGED bioVars
  PROVE  BioInv'
<1> USE BioFacts
<1>1. /\ pc[t] = "submit_notify" /\ pc' = [pc EXCEPT ![t] = "submit_unlock"]
      /\ cond_wq' = [cond_wq EXCEPT ![queue] = Pop(cond_wq[queue])]
  BY DEF At, Goto, condition_notify
<1>2. queue \in Monitor
  BY BioAssumption
<1>3. cond_wq[queue] \in Seq(Thread) /\ cond_wq'[queue] = Pop(cond_wq[queue])
  BY <1>1, <1>2, SMT DEF TypeOK, LockTypeOK
<1>4. NoRepeat(cond_wq[queue])
  BY <1>2, SameSequences DEF IInv, LC!IInv, LC!CondQueues
<1>5. ASSUME NEW u \in Thread, u \in Range(cond_wq[queue])  PROVE  u = worker
  <2>1. LockPc[u] = "relock" /\ LockAt[u] = queue
    BY SMT, <1>2, <1>5, SameSequences DEF IInv, LC!IInv, LC!CondQueues
  <2>2. CASE u # worker
    <3>1. pc[u] \in ClientLabel /\ LockLabel(pc[u]) = "relock"
      BY <2>1, <2>2 DEF Owned, LockPc
    <3>2. pc[u] = "wait_relock"
      BY <3>1 DEF ClientLabel, LockLabel
    <3>3. Using("wait_relock")
      BY DEF Using
    <3>4. bio[u] = queue
      BY <2>1, <3>2, Labels DEF LockAt
    <3>5. bio[u] \in Bio
      BY <3>2, <3>3 DEF Owned, TypeOK
    <3> QED BY <3>4, <3>5, BioAssumption
  <2> QED BY <2>2
<1>6. worker \notin Range(cond_wq'[queue])
  <2>1. CASE cond_wq[queue] = << >>
    BY <1>3, <2>1, EmptyRange DEF Pop
  <2>2. CASE cond_wq[queue] # << >>
    <3>1. /\ Head(cond_wq[queue]) \in Thread /\ Head(cond_wq[queue]) \in Range(cond_wq[queue])
          /\ Range(Tail(cond_wq[queue])) = Range(cond_wq[queue]) \ {Head(cond_wq[queue])}
      BY <1>3, <1>4, <2>2, TailRange
    <3>2. Head(cond_wq[queue]) = worker
      BY <1>5, <3>1
    <3> QED BY <1>3, <2>2, <3>1, <3>2 DEF Pop
  <2> QED BY <2>1, <2>2
<1>7. WorkerNotified'
  BY <1>6 DEF WorkerNotified
<1>8. /\ "submit_unlock" \in Label /\ "submit_unlock" \in ClientLabel /\ Using("submit_notify")
      /\ \A l \in {"submit_notify", "submit_unlock"} :
           l \notin New /\ l \notin Taken /\ l \notin Leaving /\ l \notin Past
  BY DEF Label, ClientLabel, Using, New, Taken, Leaving, Past
<1> QED BY <1>1, <1>7, <1>8, QuietStep

(* bio_wait finds the status: the worker is not in the bio's monitor, where*)
(* the client is.                                                          *)
LEMMA WaitedInv ==
  ASSUME IInv, LC!IInv', NEW t \in Client, At(t, "wait_test"), status[bio[t]] # "NONE",
         Goto(t, "wait_unlock"), UNCHANGED <<schedVars, parked, lockVars, bioVars>>
  PROVE  BioInv'
<1> USE BioFacts
<1>1. pc[t] = "wait_test" /\ pc' = [pc EXCEPT ![t] = "wait_unlock"] /\ cond_wq' = cond_wq
  BY DEF At, Goto, lockVars
<1>2. pc[worker] \in Leaving => bio[t] # bio[worker]
  <2> SUFFICES ASSUME pc[worker] \in Leaving, bio[t] = bio[worker]  PROVE  FALSE
    OBVIOUS
  <2>1. /\ LockPc[t] = "in" /\ LockAt[t] = bio[t]
    BY <1>1, Labels DEF LockPc, LockAt
  <2>2. /\ LockPc[worker] \in {"in", "walk", "step"} /\ LockAt[worker] = bio[worker]
    BY SMT DEF LockPc, LockAt, LockMonitor, LockLabel, Leaving, QueueLabel
  <2>3. bio[t] \in Monitor
    <3>1. Using("wait_test")
      BY DEF Using
    <3> QED BY SMT, <1>1, <3>1, BioAssumption DEF Owned, TypeOK
  <2>4. t = worker
    <3>1. \A u, v \in Thread : LC!Inside(u, bio[t]) /\ LC!Inside(v, bio[t]) => u = v
      BY <2>3 DEF IInv, LC!IInv, LC!MutualExclusion
    <3>2. LC!Inside(t, bio[t]) /\ LC!Inside(worker, bio[t])
      BY <2>1, <2>2 DEF LC!Inside
    <3> QED BY <3>1, <3>2
  <2> QED BY <2>4
<1>3. WorkerNotified'
  BY <1>1, StillNotified DEF bioVars
<1>4. /\ "wait_unlock" \in Label /\ "wait_unlock" \in ClientLabel /\ Using("wait_test")
      /\ \A l \in {"wait_test", "wait_unlock"} :
           l \notin New /\ l \notin Taken /\ l \notin Leaving
  BY DEF Label, ClientLabel, Using, New, Taken, Leaving
<1> QED BY <1>1, <1>2, <1>3, <1>4, QuietStep

LEMMA ClientInv ==
  ASSUME IInv, LC!IInv', NEW t \in Client, ClientStep(t)
  PROVE  BioInv'
<1>1. t \in Thread /\ t # worker /\ TypeOK
  BY BioFacts
<1>2. UsesBio(t) => bio[t] # queue /\ bio[t] \in Monitor
  BY <1>1, BioAssumption DEF IInv, BioInv, Owned, TypeOK
<1>3. ASSUME NEW q, NEW m \in Monitor, m # queue, cond_wq' = [cond_wq EXCEPT ![m] = q]
      PROVE  cond_wq'[queue] = cond_wq[queue]
  BY <1>1, <1>3, SMT, BioAssumption DEF TypeOK, LockTypeOK
<1>4. CASE bio_submit(t)
  <2>1. CASE At(t, "submit") /\ mutex_lock(t, queue, "submit_add") /\ UNCHANGED bioVars
    BY <1>1, <2>1, LockInv, QuietClient
  <2>2. CASE SubmitAdd(t)
    BY <2>2, SubmitInv
  <2>3. CASE At(t, "submit_notify") /\ condition_notify(t, queue, "submit_unlock") /\ UNCHANGED bioVars
    BY <2>3, NotifyInv
  <2>4. CASE At(t, "submit_unlock") /\ mutex_unlock(t, queue, "wait") /\ UNCHANGED bioVars
    BY <1>1, <2>4, QuietMove, QuietClient DEF At, mutex_unlock
  <2> QED BY <1>4, <2>1, <2>2, <2>3, <2>4 DEF bio_submit
<1>5. CASE bio_wait(t)
  <2>1. CASE Call(t, "wait", "wait_lock")
    BY <1>1, <2>1, QuietMove, QuietClient DEF At, Call, lockVars
  <2>2. CASE At(t, "wait_lock") /\ mutex_lock(t, bio[t], "wait_test") /\ UNCHANGED bioVars
    BY <1>1, <2>2, LockInv, QuietClient
  <2>3. CASE At(t, "wait_test") /\ status[bio[t]] = "NONE"
             /\ condition_wait(t, bio[t], "wait_relock") /\ UNCHANGED bioVars
    <3>1. pc[t] = "wait_test" /\ Goto(t, "wait_relock")
          /\ cond_wq' = [cond_wq EXCEPT ![bio[t]] = Append(cond_wq[bio[t]], t)]
      BY <2>3 DEF At, condition_wait
    <3>2. cond_wq'[queue] = cond_wq[queue]
      BY <1>2, <1>3, <3>1 DEF UsesBio
    <3> QED BY <1>1, <2>3, <3>1, <3>2, QuietMove, QuietClient
  <2>4. CASE At(t, "wait_test") /\ status[bio[t]] # "NONE" /\ Goto(t, "wait_unlock")
             /\ UNCHANGED <<schedVars, parked, lockVars, bioVars>>
    BY <2>4, WaitedInv
  <2>5. CASE At(t, "wait_relock") /\ mutex_lock(t, bio[t], "wait_test") /\ UNCHANGED bioVars
    BY <1>1, <2>5, LockInv, QuietClient
  <2>6. CASE At(t, "wait_unlock") /\ mutex_unlock(t, bio[t], "read") /\ UNCHANGED bioVars
    BY <1>1, <2>6, QuietMove, QuietClient DEF At, mutex_unlock
  <2> QED BY <1>5, <2>1, <2>2, <2>3, <2>4, <2>5, <2>6 DEF bio_wait
<1>6. CASE ReadStatus(t)
  BY <1>1, <1>6, QuietMove, QuietClient DEF At, ReadStatus, lockVars
<1>7. CASE bio_free(t)
  BY <1>7, FreeInv
<1>8. CASE Park(t) /\ UNCHANGED bioVars
  BY <1>8, SameLabelStep DEF Park, lockVars
<1> QED BY <1>4, <1>5, <1>6, <1>7, <1>8 DEF ClientStep

(* The worker waits for the queue only when it is empty. *)
LEMMA WorkerWaitInv ==
  ASSUME IInv, LC!IInv', At(worker, "dequeue_test"), ide_bio_queue = << >>,
         condition_wait(worker, queue, "dequeue_relock"), UNCHANGED bioVars
  PROVE  BioInv'
<1>1. pc[worker] = "dequeue_test" /\ pc' = [pc EXCEPT ![worker] = "dequeue_relock"]
  BY DEF At, condition_wait, Goto
<1>2. WorkerNotified'
  BY DEF WorkerNotified, bioVars
<1> QED BY <1>1, <1>2, QuietStep, QuietWorker, BioAssumption DEF Quiet

LEMMA WorkerInv ==
  ASSUME IInv, LC!IInv', process_bio_queue
  PROVE  BioInv'
<1>1. worker \in Thread /\ TypeOK
  BY BioFacts
<1>2. CASE dequeue_bio(worker)
  <2>1. CASE Call(worker, "dequeue", "dequeue_lock")
    BY <1>1, <2>1, QuietMove, QuietWorker DEF At, Call, lockVars
  <2>2. CASE At(worker, "dequeue_lock") /\ mutex_lock(worker, queue, "dequeue_test") /\ UNCHANGED bioVars
    BY <1>1, <2>2, LockInv, QuietWorker
  <2>3. CASE DequeueTest(worker) /\ ide_bio_queue = << >>
    BY <2>3, WorkerWaitInv DEF DequeueTest
  <2>4. CASE DequeueTest(worker) /\ ide_bio_queue # << >>
    BY <2>4, DequeueInv
  <2>5. CASE At(worker, "dequeue_relock") /\ mutex_lock(worker, queue, "dequeue_test") /\ UNCHANGED bioVars
    BY <1>1, <2>5, LockInv, QuietWorker
  <2>6. CASE At(worker, "dequeue_unlock") /\ mutex_unlock(worker, queue, "handle") /\ UNCHANGED bioVars
    BY <1>1, <2>6, QuietMove, QuietWorker DEF At, mutex_unlock
  <2> QED BY <1>2, <2>1, <2>2, <2>3, <2>4, <2>5, <2>6 DEF dequeue_bio
<1>3. CASE handle_bio(worker)
  BY <1>3, HandleInv
<1>4. CASE finish_bio(worker)
  <2>1. CASE At(worker, "finish") /\ mutex_lock(worker, bio[worker], "finish_set") /\ UNCHANGED bioVars
    BY <1>1, <2>1, LockInv, QuietWorker
  <2>2. CASE FinishSet(worker)
    BY <2>2, FinishInv
  <2>3. CASE /\ At(worker, "finish_notify") /\ UNCHANGED bioVars
             /\ condition_notify_all(worker, bio[worker], "finish_walk", "finish_unlock")
    <3>1. /\ pc[worker] = "finish_notify" /\ cond_wq' = [cond_wq EXCEPT ![bio[worker]] = << >>]
          /\ Goto(worker, "finish_walk") \/ Goto(worker, "finish_unlock")
      BY <2>3 DEF At, condition_notify_all
    <3>2. bio[worker] \in Bio
      BY <1>1, <3>1 DEF IInv, BioInv, Owned, UsesBio, TypeOK
    <3>3. cond_wq'[queue] = cond_wq[queue]
      BY <1>1, <3>1, <3>2, SMT, BioAssumption DEF TypeOK, LockTypeOK
    <3> QED BY <1>1, <2>3, <3>1, <3>3, QuietMove, QuietWorker
  <2>4. CASE At(worker, "finish_walk") /\ NotifyAllActivate(worker, "finish_step") /\ UNCHANGED bioVars
    BY <1>1, <2>4, QuietMove, QuietWorker DEF At, NotifyAllActivate, lockVars
  <2>5. CASE /\ At(worker, "finish_step") /\ UNCHANGED bioVars
             /\ NotifyAllNext(worker, "finish_walk", "finish_unlock")
    <3>1. /\ pc[worker] = "finish_step" /\ cond_wq' = cond_wq
          /\ Goto(worker, "finish_walk") \/ Goto(worker, "finish_unlock")
      BY <2>5 DEF At, NotifyAllNext
    <3> QED BY <1>1, <2>5, <3>1, QuietMove, QuietWorker
  <2>6. CASE At(worker, "finish_unlock") /\ mutex_unlock(worker, bio[worker], "dequeue") /\ UNCHANGED bioVars
    BY <1>1, <2>6, QuietMove, QuietWorker DEF At, mutex_unlock
  <2> QED BY <1>4, <2>1, <2>2, <2>3, <2>4, <2>5, <2>6 DEF finish_bio
<1>5. CASE Park(worker) /\ UNCHANGED bioVars
  BY <1>5, SameLabelStep DEF Park, lockVars
<1> QED BY <1>2, <1>3, <1>4, <1>5 DEF process_bio_queue

-----------------------------------------------------------------------------
LEMMA SameCardinality == LC!Cardinality(Thread) = Cardinality(Thread)
BY DEF Cardinality, LC!Cardinality, IsFiniteSet, LC!IsFiniteSet

LEMMA LockInitially == Init => LC!Init
<1> SUFFICES ASSUME Init  PROVE  LC!Init
  OBVIOUS
<1>1. LockPc = [t \in Thread |-> "out"] /\ LockAt = [t \in Thread |-> NoMonitor]
  <2>1. \A t \in Thread : pc[t] \in {"out", "dequeue"}
    BY DEF Init
  <2>2. \A t \in Thread : LockLabel(pc[t]) = "out" /\ LockMonitor(pc[t], bio[t]) = NoMonitor
    BY <2>1, Labels
  <2> QED BY <2>2 DEF LockPc, LockAt
<1>2. LC!LockInit
  BY SameCardinality DEF Init, LockInit, LC!LockInit, RunQueueExact, LC!RunQueueExact, AnyThread,
         LC!AnyThread, Range, LC!Range
<1> QED BY <1>1, <1>2 DEF LC!Init

LEMMA Initially == Init => IInv
<1> SUFFICES ASSUME Init  PROVE  IInv
  OBVIOUS
<1>1. LC!IInv
  BY LockInitially, SameCardinality, LC!Initially, SchedAssumption, LockingAssumption
<1>2. TypeOK
  <2>1. LockTypeOK
    BY <1>1, SameTypes DEF LC!IInv, LC!TypeOK
  <2>2. pc \in [Thread -> Label]
    BY DEF Init, Label
  <2>3. << >> \in Seq(Bio)
    BY SMT
  <2> QED BY <2>1, <2>2, <2>3 DEF Init, TypeOK, Status
<1>3. \A t \in Thread : pc[t] = IF t = worker THEN "dequeue" ELSE "out"
  BY DEF Init
<1>4. worker \in Thread /\ pc[worker] = "dequeue" /\ \A t \in Thread : ~UsesBio(t)
  BY <1>3, BioAssumption DEF UsesBio
<1>5. Owned
  BY <1>3, <1>4 DEF Owned, ClientLabel, Client
<1>6. Range(ide_bio_queue) = {} /\ AtWorker = {}
  BY <1>4, EmptyRange DEF Init, AtWorker
<1>7. NoRepeat(ide_bio_queue)
  BY SMT DEF Init, NoRepeat
<1>8. Queued /\ Answered /\ Reporting /\ Reported /\ WorkerNotified
  BY <1>4, <1>6, <1>7 DEF Queued, Answered, Reporting, Reported, WorkerNotified, Client, Init
<1> QED BY <1>1, <1>2, <1>5, <1>8 DEF IInv, BioInv

LEMMA Inductive == IInv /\ [Next]_vars => IInv'
<1> SUFFICES ASSUME IInv, [Next]_vars  PROVE  IInv'
  OBVIOUS
<1>1. LC!IInv'
  <2>1. LC!IInv /\ [LC!Next]_(LC!vars)
    BY Simulated DEF IInv
  <2> QED BY <2>1, SameCardinality, LC!Inductive, SchedAssumption, LockingAssumption
<1>2. CASE \E t \in Client : bio_alloc(t)
  BY <1>1, <1>2, AllocInv DEF IInv
<1>3. CASE \E t \in Client : ClientStep(t)
  BY <1>1, <1>3, ClientInv DEF IInv
<1>4. CASE process_bio_queue
  BY <1>1, <1>4, WorkerInv DEF IInv
<1>5. CASE (idle \/ Timer) /\ UNCHANGED bioVars
  BY <1>1, <1>5, SameLabelStep DEF IInv, idle, Timer, lockVars
<1>6. CASE UNCHANGED vars
  BY <1>1, <1>6, SameLabelStep DEF IInv, vars, lockVars
<1> QED BY <1>2, <1>3, <1>4, <1>5, <1>6 DEF Next

(* The invariant holds always. *)
THEOREM Invariance == Spec => []IInv
BY Initially, Inductive, PTL DEF Spec

(* The block layer uses its locks as LockingClient allows, so all that is  *)
(* proved of LockingClient holds of the monitors of the queue and the bios,*)
(* though the memory of a bio and of its locks is freed and reused.        *)
THEOREM UsesLocks == Spec => LC!Spec
<1>1. IInv /\ [Next]_vars => [LC!Next]_(LC!vars)
  BY Simulated
<1> QED BY <1>1, LockInitially, Invariance, PTL DEF Spec, LC!Spec

(* The state of the block layer is always well typed. *)
THEOREM TypeCorrect == Spec => []TypeOK
<1>1. IInv => TypeOK
  BY DEF IInv, BioInv
<1> QED BY <1>1, Invariance, PTL

(* No thread uses a bio after the client has freed it, though the client   *)
(* may free it while the worker returns from finish_bio.                   *)
THEOREM FreedUnused == Spec => []NoUseAfterFree
<1>1. IInv => NoUseAfterFree
  BY FreeBio DEF IInv, BioInv, Owned, Queued, NoUseAfterFree
<1> QED BY <1>1, Invariance, PTL

(* A submitted bio is in the queue, with the worker, or answered, and in   *)
(* one of these places only.                                               *)
THEOREM Served == Spec => []ServedOnce
<1>1. IInv => ServedOnce
  BY DEF IInv, BioInv, Queued, Answered, Pending, ServedOnce, NoRepeat
<1> QED BY <1>1, Invariance, PTL

(* A client that has returned from bio_wait reads a status, and one that   *)
(* its request can have.                                                   *)
THEOREM StatusCorrect == Spec => []StatusRead
<1>1. IInv => StatusRead
  <2> SUFFICES ASSUME IInv, NEW t \in Client, pc[t] \in {"read", "free"}
               PROVE  status[bio[t]] \in StatusOf(bio[t])
    BY DEF StatusRead, StatusOf
  <2>1. Using(pc[t])
    BY DEF Using
  <2>2. bio[t] \in Bio /\ status[bio[t]] # "NONE"
    BY <2>1, BioFacts DEF Owned, Answered, TypeOK
  <2> QED BY <2>2, BioFacts DEF Reported
<1> QED BY <1>1, Invariance, PTL

(* The walk of finish_bio over bio->cond follows live wait_heads only.     *)
THEOREM HeadsLive == Spec => []WaitHeadLive
<1>1. IInv => WaitHeadLive
  <2> SUFFICES ASSUME IInv, pc[worker] \in {"finish_walk", "finish_step"},
                      NEW u \in Range(notifying[worker])
               PROVE  frame[u] = bio[worker]
    BY DEF WaitHeadLive
  <2>1. worker \in Thread /\ notifying[worker] \in Seq(Thread)
    BY BioFacts DEF TypeOK, LockTypeOK
  <2>2. u \in Thread
    BY <2>1, SMT DEF Range
  <2>3. LockPc[worker] \in {"walk", "step"} /\ LockAt[worker] = bio[worker]
    BY <2>1 DEF LockPc, LockAt, LockLabel, LockMonitor, QueueLabel
  <2> QED BY <2>1, <2>2, <2>3, SameSequences DEF IInv, LC!IInv, LC!Walks
<1> QED BY <1>1, Invariance, PTL

(* The worker does not sleep while there is work, unless a client is about *)
(* to notify it.                                                           *)
THEOREM Notified == Spec => []WorkerNotified
<1>1. IInv => WorkerNotified
  BY DEF IInv, BioInv
<1> QED BY <1>1, Invariance, PTL

=============================================================================
