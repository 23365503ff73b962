---------------------------- MODULE ThreadsProof ----------------------------
(***************************************************************************)
(* Proofs about Threads, for any number of threads.                        *)
(***************************************************************************)
EXTENDS Threads, SchedProof, FiniteSetTheorems

(* Most leaves are for Zenon; those that need arithmetic, sequences or     *)
(* functional updates are given to SMT.                                    *)
USE ZenonT(60), SMTT(60)

(* Program counters at which a thread works on no other thread; at which it*)
(* is the only one that knows its target; and at which it has registered   *)
(* the target and not yet started it.                                      *)
FreePc == {"main", "idle", "run", "exited"}
CreatorPc == {"copy_mm", "register", "put_fork"}
StarterPc == {"lookup", "activate"}
HolderPc == {"activate", "put_create", "wait_loop", "wait_schedule", "reap", "erase",
             "put_reap", "release_reap", "put_wait"}
ReaperPc == {"erase", "put_reap"}

-----------------------------------------------------------------------------
(* The inductive invariant. *)

Targets ==
  /\ threads \subseteq allocated
  /\ \A t \in AnyThread :
       /\ pc[t] \notin {"panic", "release_reap"}
       /\ pc[t] \in FreePc <=> target[t] = NoThread
       /\ target[t] # NoThread => target[t] \in allocated

(* A thread that was started stays registered until it is reaped, and only *)
(* a thread that was started and has not died works on another one.        *)
States ==
  /\ state[bootstrap] = "ACTIVE"
  /\ current_thread \in Thread => state[current_thread] = "ACTIVE"
  /\ \A x \in Thread :
       /\ state[x] \in IF x \in allocated
                       THEN {"ACTIVE", "BLOCKED", "DEAD", "REAPED"} ELSE {"NONE"}
       /\ state[x] \in {"ACTIVE", "DEAD"} => x \in threads
       /\ state[x] # "ACTIVE" => target[x] = NoThread
       /\ pc[x] = "exited" => state[x] \notin {"ACTIVE", "BLOCKED"}

Creating ==
  \A t \in AnyThread :
    /\ pc[t] \in CreatorPc =>
         /\ target[t] \notin threads
         /\ state[target[t]] = "BLOCKED"
         /\ \A u \in AnyThread : target[u] = target[t] => u = t
    /\ pc[t] \in StarterPc =>
         /\ target[t] \in threads
         /\ state[target[t]] = "BLOCKED"
         /\ \A u \in AnyThread : target[u] = target[t] /\ pc[u] \in StarterPc => u = t

(* Of the waiters of a thread, one reaps it. *)
Reaping ==
  \A t \in AnyThread :
    /\ pc[t] = "reap" => state[target[t]] \in {"DEAD", "REAPED"}
    /\ pc[t] \in ReaperPc =>
         /\ state[target[t]] = "REAPED"
         /\ target[t] \in threads <=> pc[t] = "erase"
         /\ \A u \in AnyThread : target[u] = target[t] /\ pc[u] \in ReaperPc => u = t

Releasing ==
  \A t \in AnyThread : pc[t] = "release" =>
    /\ refcount[target[t]] = 0
    /\ \A u \in AnyThread : target[u] = target[t] /\ pc[u] = "release" => u = t

Pids ==
  \A x \in threads :
    /\ pid[x] < next_pid
    /\ \A y \in threads : pid[x] = pid[y] => x = y

(* A thread that can be switched to will enable interrupts. *)
Flags ==
  /\ Preemptible
  /\ \A x \in Thread :
       state[x] \in {"ACTIVE", "BLOCKED"} /\ x # current_thread => saved_irq[x]

IInv ==
  /\ TypeOK /\ RunQueueExact /\ Targets /\ States /\ Creating /\ Reaping
  /\ Releasing /\ Pids /\ Flags /\ RefcountExact

-----------------------------------------------------------------------------
(* Counting the holders of a reference. *)

LEMMA HoldersFinite ==
  ASSUME NEW x
  PROVE  IsFiniteSet(Holders(x)) /\ Cardinality(Holders(x)) \in Nat
<1>1. IsFiniteSet(AnyThread)
  BY ThreadsAssumption, FS_AddElement DEF AnyThread
<1>2. Holders(x) \subseteq AnyThread
  BY DEF Holders
<1> QED BY <1>1, <1>2, FS_Subset, FS_CardinalityType

LEMMA HolderAdded ==
  ASSUME NEW x, NEW t, t \notin Holders(x), Holders(x)' = Holders(x) \cup {t}
  PROVE  Cardinality(Holders(x))' = Cardinality(Holders(x)) + 1
<1>1. IsFiniteSet(Holders(x))
  BY HoldersFinite
<1>2. Cardinality(Holders(x) \cup {t}) = Cardinality(Holders(x)) + 1
  BY <1>1, FS_AddElement
<1>3. Cardinality(Holders(x))' = Cardinality(Holders(x)')
  OBVIOUS
<1> QED BY <1>2, <1>3

LEMMA HolderRemoved ==
  ASSUME NEW x, NEW t, t \in Holders(x), Holders(x)' = Holders(x) \ {t}
  PROVE  Cardinality(Holders(x))' = Cardinality(Holders(x)) - 1
<1>1. IsFiniteSet(Holders(x))
  BY HoldersFinite
<1>2. Cardinality(Holders(x) \ {t}) = Cardinality(Holders(x)) - 1
  BY <1>1, FS_RemoveElement
<1>3. Cardinality(Holders(x))' = Cardinality(Holders(x)')
  OBVIOUS
<1> QED BY <1>2, <1>3

LEMMA HolderNone ==
  ASSUME NEW x
  PROVE  Cardinality(Holders(x)) = 0 <=> Holders(x) = {}
BY HoldersFinite, FS_EmptySet

-----------------------------------------------------------------------------
(* Scheduling steps. *)

LEMMA ScheduleEffect ==
  ASSUME IInv, NEW e \in 0..ElapsedMax, NEW flag \in BOOLEAN,
         current_thread # bootstrap => flag, schedule(state, e, flag)
  PROVE  /\ SchedTypeOK'
         /\ RunQueueExact'
         /\ Flags'
         /\ \A x \in AnyThread : state'[x] = state[x]
         /\ current_thread' \in Thread => state[current_thread'] = "ACTIVE"
<1>1. /\ SchedTypeOK /\ QueueExact(state)
      /\ state \in [AnyThread -> ThreadState] /\ saved_irq \in [AnyThread -> BOOLEAN]
      /\ current_thread \in AnyThread /\ rr_active_list \in Seq(Thread)
  BY DEF IInv, TypeOK, SchedTypeOK, RunQueueExact, QueueExact, NoRepeat
<1>2. SchedTypeOK' /\ RunQueueExact'
  BY <1>1, ScheduleType, ScheduleRunQueue
<1>3. \A x \in AnyThread : state[x] # "FINISHED"
  BY DEF IInv, States, AnyThread
<1>4. \A x \in AnyThread : state'[x] = state[x]
  BY <1>1, <1>3 DEF schedule, switch_to, preempt_thread, place_thread
<1>5. CASE rr_active_list = << >> /\ state[current_thread] = "ACTIVE"
  BY <1>2, <1>4, <1>5 DEF schedule, IInv, Flags, Preemptible
<1>6. CASE rr_active_list = << >> /\ state[current_thread] # "ACTIVE"
  BY <1>6, <1>1 DEF IInv, States, AnyThread
<1>7. CASE rr_active_list # << >>
  <2>p. PICK n : n = Head(rr_active_list)
    OBVIOUS
  <2>1. n \in Thread /\ n \in Range(rr_active_list)
    BY <1>1, <1>7, <2>p, TailRange DEF QueueExact
  <2>2. n # current_thread /\ state[n] = "ACTIVE"
    BY <1>1, <2>1 DEF QueueExact
  <2>3. /\ saved_irq' = [saved_irq EXCEPT ![current_thread] = flag]
        /\ current_thread' = n
        /\ irq' = saved_irq[n]
    BY <1>7, <2>2, <2>p DEF schedule, switch_to, preempt_thread, place_thread
  <2>4. saved_irq[n]
    BY <2>1, <2>2 DEF IInv, Flags
  <2>5. \A x \in Thread : saved_irq'[x] = IF x = current_thread THEN flag ELSE saved_irq[x]
    BY <1>1, <2>3 DEF AnyThread
  <2>6. Flags'
    <3>1. \A x \in Thread : state'[x] = state[x]
      BY <1>4 DEF AnyThread
    <3>2. \A x \in Thread :
            state[x] \in {"ACTIVE", "BLOCKED"} /\ x # current_thread => saved_irq[x]
      BY DEF IInv, Flags
    <3>3. \A x \in Thread :
            state'[x] \in {"ACTIVE", "BLOCKED"} /\ x # current_thread' => saved_irq'[x]
      BY <2>5, <3>1, <3>2, SchedAssumption
    <3> QED BY <2>3, <2>4, <3>3 DEF Flags, Preemptible
  <2> QED BY <1>2, <1>4, <2>2, <2>3, <2>6
<1> QED BY <1>2, <1>4, <1>5, <1>6, <1>7

(* A step that lets no thread get or give up a reference: a scheduling     *)
(* step, a turn of the loop of wait, or the choice of fork after copy_mm.  *)
LEMMA LocalStep ==
  ASSUME IInv, TypeOK', RunQueueExact', Flags',
         \A x \in AnyThread : state'[x] = state[x],
         current_thread' \in Thread => state[current_thread'] = "ACTIVE",
         UNCHANGED <<target, lifeVars>>,
         \A t \in AnyThread :
           \/ pc'[t] = pc[t]
           \/ pc[t] \in CreatorPc /\ pc'[t] \in CreatorPc
           \/ /\ pc[t] \in {"wait_loop", "wait_schedule"}
              /\ \/ pc'[t] \in {"wait_loop", "wait_schedule"}
                 \/ pc'[t] = "reap" /\ state[target[t]] = "DEAD"
  PROVE  IInv'
<1>0. /\ target' = target /\ allocated' = allocated /\ refcount' = refcount
      /\ threads' = threads /\ pid' = pid /\ next_pid' = next_pid
  BY DEF lifeVars
<1>t. /\ target \in [AnyThread -> Thread \cup {NoThread}]
      /\ \A x \in Thread : state'[x] = state[x] /\ x \in AnyThread
      /\ threads \subseteq Thread /\ bootstrap \in AnyThread
      /\ \A t \in AnyThread : pc[t] \notin FreePc => target[t] \in Thread
  BY DEF IInv, TypeOK, AnyThread, Targets
<1>1. \A t \in AnyThread :
        /\ pc'[t] \in FreePc <=> pc[t] \in FreePc
        /\ pc'[t] \in CreatorPc <=> pc[t] \in CreatorPc
        /\ pc'[t] \in StarterPc <=> pc[t] \in StarterPc
        /\ pc'[t] \in HolderPc <=> pc[t] \in HolderPc
        /\ pc'[t] \in ReaperPc <=> pc[t] \in ReaperPc
        /\ \A l \in {"exited", "erase", "put_reap", "release", "panic", "release_reap"} :
             pc'[t] = l <=> pc[t] = l
        /\ pc'[t] = "reap" => pc[t] = "reap" \/ state[target[t]] = "DEAD"
  BY SMTT(60) DEF FreePc, CreatorPc, StarterPc, HolderPc, ReaperPc
<1>2. Targets'
  BY SMTT(60), <1>0, <1>1 DEF IInv, Targets
<1>3. States'
  BY SMTT(30), <1>0, <1>1, <1>t DEF IInv, States
<1>4. Creating'
  <2>1. \A t \in AnyThread : pc[t] \in CreatorPc \cup StarterPc
          => state'[target[t]] = state[target[t]]
    BY <1>t DEF FreePc, CreatorPc, StarterPc
  <2> QED BY SMTT(30), <1>0, <1>1, <2>1 DEF IInv, Creating
<1>5. Reaping'
  <2>1. \A t \in AnyThread : pc[t] \in ReaperPc \cup {"reap", "wait_loop", "wait_schedule"}
          => state'[target[t]] = state[target[t]]
    BY <1>t DEF FreePc, ReaperPc
  <2>2. \A t \in AnyThread : pc'[t] = "reap" =>
          /\ pc[t] \in {"reap", "wait_loop", "wait_schedule"}
          /\ pc[t] = "reap" \/ state[target[t]] = "DEAD"
    BY DEF CreatorPc
  <2>3. \A t \in AnyThread : pc[t] = "reap" => state[target[t]] \in {"DEAD", "REAPED"}
    BY DEF IInv, Reaping
  <2>4. \A t \in AnyThread : pc'[t] = "reap" => state'[target[t]] \in {"DEAD", "REAPED"}
    BY SMTT(60), <2>1, <2>2, <2>3
  <2> QED BY SMTT(60), <1>0, <1>1, <2>1, <2>4 DEF IInv, Reaping
<1>6. Releasing'
  BY SMTT(60), <1>0, <1>1 DEF IInv, Releasing
<1>7. Pids'
  BY SMTT(60), <1>0 DEF IInv, Pids
<1>8. \A x : Holders(x)' = Holders(x)
  BY SMTT(60), <1>0, <1>1 DEF Holders, HolderPc
<1>9. \A x : CreationRef(x)' <=> CreationRef(x)
  BY SMTT(60), <1>0, <1>1 DEF CreationRef, CreatorPc
<1>10. RefcountExact'
  BY <1>0, <1>8, <1>9 DEF IInv, RefcountExact
<1> QED BY <1>2, <1>3, <1>4, <1>5, <1>6, <1>7, <1>10 DEF IInv

LEMMA TimerStep ==
  ASSUME IInv, Timer
  PROVE  IInv'
<1> DEFINE e == IF current_thread # bootstrap /\ elapsed < ElapsedMax
                THEN elapsed + 1 ELSE elapsed
<1>1. SchedTypeOK /\ TypeOK
  BY DEF IInv, TypeOK
<1>2. e \in 0..ElapsedMax
  BY SMTT(30), <1>1, ElapsedMaxType DEF SchedTypeOK
<1> HIDE DEF e
<1>3. CASE need_resched(e)
  <2>1. schedule(state, e, TRUE)
    BY <1>3 DEF Timer, TimerInterrupt, e
  <2>2. /\ SchedTypeOK' /\ RunQueueExact' /\ Flags'
        /\ \A x \in AnyThread : state'[x] = state[x]
        /\ current_thread' \in Thread => state[current_thread'] = "ACTIVE"
    BY <1>2, <2>1, ScheduleEffect
  <2>3. TypeOK'
    BY <1>1, <2>2 DEF Timer, lifeVars, TypeOK
  <2> QED BY <2>2, <2>3, LocalStep DEF Timer
<1>4. CASE ~need_resched(e)
  <2>1. /\ elapsed' = e
        /\ UNCHANGED <<current_thread, state, rr_active_list, irq, saved_irq>>
    BY <1>4 DEF Timer, TimerInterrupt, e
  <2>2. SchedTypeOK' /\ RunQueueExact' /\ Flags'
    BY <1>1, <1>2, <2>1 DEF SchedTypeOK, IInv, RunQueueExact, Flags, Preemptible
  <2>3. TypeOK'
    BY <1>1, <2>2 DEF Timer, lifeVars, TypeOK
  <2>4. current_thread' \in Thread => state[current_thread'] = "ACTIVE"
    BY <2>1 DEF IInv, States
  <2> QED BY <2>1, <2>2, <2>3, <2>4, LocalStep DEF Timer
<1> QED BY <1>3, <1>4

LEMMA IdleStep ==
  ASSUME IInv, idle
  PROVE  IInv'
<1>1. SchedTypeOK /\ TypeOK
  BY DEF IInv, TypeOK
<1>2. /\ SchedTypeOK' /\ RunQueueExact' /\ Flags'
      /\ \A x \in AnyThread : state'[x] = state[x]
      /\ current_thread' \in Thread => state[current_thread'] = "ACTIVE"
  BY <1>1, ScheduleEffect DEF idle, SchedTypeOK
<1>3. TypeOK'
  BY <1>1, <1>2 DEF idle, lifeVars, TypeOK
<1> QED BY <1>2, <1>3, LocalStep DEF idle

LEMMA WaitScheduleStep ==
  ASSUME IInv, NEW t \in AnyThread, WaitSchedule(t)
  PROVE  IInv'
<1>1. SchedTypeOK /\ TypeOK /\ Preemptible
  BY DEF IInv, TypeOK, Flags
<1>2. /\ SchedTypeOK' /\ RunQueueExact' /\ Flags'
      /\ \A x \in AnyThread : state'[x] = state[x]
      /\ current_thread' \in Thread => state[current_thread'] = "ACTIVE"
  BY <1>1, ScheduleEffect DEF WaitSchedule, SchedTypeOK, Preemptible
<1>3. TypeOK' /\ pc' = [pc EXCEPT ![t] = "wait_loop"] /\ pc[t] = "wait_schedule"
  BY <1>1, <1>2 DEF WaitSchedule, At, Goto, lifeVars, TypeOK, Label
<1> QED BY <1>1, <1>2, <1>3, LocalStep DEF WaitSchedule, TypeOK

LEMMA WaitLoopStep ==
  ASSUME IInv, NEW t \in AnyThread, WaitLoop(t) \/ CopyMm(t)
  PROVE  IInv'
<1>1. TypeOK /\ RunQueueExact /\ Flags /\ States
  BY DEF IInv
<1>2. PICK l \in Label :
        /\ pc' = [pc EXCEPT ![t] = l]
        /\ \/ pc[t] \in CreatorPc /\ l \in CreatorPc
           \/ /\ pc[t] = "wait_loop"
              /\ l = "wait_schedule" \/ (l = "reap" /\ state[target[t]] = "DEAD")
  BY DEF WaitLoop, CopyMm, At, Goto, CreatorPc, Label
<1>3. UNCHANGED <<schedVars, target, lifeVars>>
  BY DEF WaitLoop, CopyMm
<1>4. TypeOK'
  BY <1>1, <1>2, <1>3 DEF TypeOK, SchedTypeOK, schedVars, lifeVars
<1>5. RunQueueExact' /\ Flags'
  BY <1>1, <1>3 DEF RunQueueExact, Flags, Preemptible, schedVars
<1>6. current_thread' \in Thread => state[current_thread'] = "ACTIVE"
  BY <1>1, <1>3 DEF States, schedVars
<1>7. \A u \in AnyThread : pc'[u] = IF u = t THEN l ELSE pc[u]
  BY <1>1, <1>2 DEF TypeOK
<1>8. \A u \in AnyThread :
           \/ pc'[u] = pc[u]
           \/ pc[u] \in CreatorPc /\ pc'[u] \in CreatorPc
           \/ /\ pc[u] \in {"wait_loop", "wait_schedule"}
              /\ \/ pc'[u] \in {"wait_loop", "wait_schedule"}
                 \/ pc'[u] = "reap" /\ state[target[u]] = "DEAD"
  BY <1>2, <1>7
<1> QED BY <1>3, <1>4, <1>5, <1>6, <1>8, LocalStep DEF schedVars

LEMMA ExitStep ==
  ASSUME IInv, NEW t \in Thread, exit(t)
  PROVE  IInv'
<1>0. /\ TypeOK /\ SchedTypeOK /\ t \in AnyThread /\ bootstrap \in AnyThread
      /\ current_thread = t /\ pc[t] = "run" /\ t # bootstrap
      /\ pc' = [pc EXCEPT ![t] = "exited"]
      /\ UNCHANGED <<target, lifeVars>>
  BY DEF IInv, TypeOK, AnyThread, exit, At, Goto
<1>p. PICK st : st = [state EXCEPT ![t] = "FINISHED"]
  OBVIOUS
<1>s. schedule(st, elapsed, FALSE)
  BY <1>p DEF exit
<1>1. /\ st \in [AnyThread -> ThreadState] /\ elapsed \in 0..ElapsedMax
      /\ \A x \in AnyThread : st[x] = IF x = t THEN "FINISHED" ELSE state[x]
  BY <1>0, <1>p DEF SchedTypeOK, ThreadState
<1>2. QueueExact(st) /\ QueueExact(state)
  BY <1>0, <1>1 DEF IInv, RunQueueExact, QueueExact, NoRepeat, AnyThread
<1>3. SchedTypeOK' /\ RunQueueExact'
  BY <1>0, <1>1, <1>2, <1>s, ScheduleType, ScheduleRunQueue
<1>n. PICK n : n = IF rr_active_list = << >> THEN bootstrap ELSE Head(rr_active_list)
  OBVIOUS
<1>4. n # t /\ (n \in Thread => state[n] = "ACTIVE")
  <2>1. CASE rr_active_list = << >>
    BY <2>1, <1>n, <1>0, SchedAssumption
  <2>2. CASE rr_active_list # << >>
    <3>1. n \in Thread /\ n \in Range(rr_active_list)
      BY <2>2, <1>n, <1>0, <1>2, TailRange DEF QueueExact, SchedTypeOK
    <3> QED BY <3>1, <1>0, <1>2 DEF QueueExact
  <2> QED BY <2>1, <2>2
<1>5. /\ state' = [st EXCEPT ![t] = "DEAD"]
      /\ saved_irq' = [saved_irq EXCEPT ![t] = FALSE]
      /\ current_thread' = n
      /\ irq' = saved_irq[n]
  BY <1>s, <1>0, <1>1, <1>4, <1>n DEF schedule, switch_to, preempt_thread, place_thread
<1>6. /\ \A x \in AnyThread : state'[x] = IF x = t THEN "DEAD" ELSE state[x]
      /\ \A x \in AnyThread : saved_irq'[x] = IF x = t THEN FALSE ELSE saved_irq[x]
      /\ \A x \in AnyThread : pc'[x] = IF x = t THEN "exited" ELSE pc[x]
  BY <1>0, <1>1, <1>5 DEF TypeOK, SchedTypeOK
<1>7. state[t] = "ACTIVE" /\ target[t] = NoThread /\ t \in threads
  BY <1>0 DEF IInv, States, Targets, FreePc
<1>8. /\ target' = target /\ allocated' = allocated /\ refcount' = refcount
      /\ threads' = threads /\ pid' = pid /\ next_pid' = next_pid
  BY <1>0 DEF lifeVars
<1>9. \A u \in AnyThread : u \in AnyThread /\ (u # bootstrap => u \in Thread)
  BY DEF AnyThread
<1>10. TypeOK'
  BY <1>0, <1>3, <1>8 DEF TypeOK, Label
<1>11. Targets'
  BY SMTT(60), <1>0, <1>6, <1>7, <1>8 DEF IInv, Targets, FreePc
<1>12. States'
  <2>1. \A x \in Thread : x \in AnyThread
    BY DEF AnyThread
  <2>2. t \in allocated
    BY <1>7 DEF IInv, Targets
  <2>3. state'[bootstrap] = "ACTIVE"
    BY <1>0, <1>6 DEF IInv, States
  <2>4. current_thread' \in Thread => state'[current_thread'] = "ACTIVE"
    BY <1>4, <1>5, <1>6, <2>1
  <2> QED BY <1>6, <1>7, <1>8, <2>1, <2>2, <2>3, <2>4 DEF IInv, States
<1>13. \A u \in AnyThread : target[u] # NoThread => target[u] \in AnyThread
  BY <1>0 DEF TypeOK, AnyThread
<1>14. Creating'
  <2>1. \A u \in AnyThread : pc'[u] \in CreatorPc \cup StarterPc =>
          u # t /\ pc[u] = pc'[u] /\ target[u] # NoThread
    BY <1>6 DEF CreatorPc, StarterPc, FreePc, IInv, Targets
  <2>2. \A u \in AnyThread : pc'[u] \in CreatorPc \cup StarterPc =>
          state[target[u]] = "BLOCKED"
    BY <2>1 DEF IInv, Creating
  <2>3. \A u \in AnyThread : pc'[u] \in CreatorPc \cup StarterPc =>
          state'[target[u]] = "BLOCKED"
    BY <2>1, <2>2, <1>6, <1>7, <1>13
  <2> QED BY <1>8, <2>1, <2>3 DEF IInv, Creating
<1>15. Reaping'
  <2>1. \A u \in AnyThread : pc'[u] \in ReaperPc \cup {"reap"} =>
          u # t /\ pc[u] = pc'[u] /\ target[u] # NoThread
    BY <1>6 DEF ReaperPc, FreePc, IInv, Targets
  <2>2. \A u \in AnyThread : pc'[u] \in ReaperPc \cup {"reap"} =>
          state[target[u]] \in {"DEAD", "REAPED"}
    BY <2>1 DEF IInv, Reaping
  <2>3. \A u \in AnyThread : pc'[u] \in ReaperPc \cup {"reap"} =>
          state'[target[u]] = state[target[u]]
    BY <2>1, <2>2, <1>6, <1>7, <1>13
  <2> QED BY <1>8, <2>1, <2>3 DEF IInv, Reaping
<1>16. Releasing'
  BY <1>6, <1>8 DEF IInv, Releasing
<1>17. Pids'
  BY <1>8 DEF IInv, Pids
<1>18. Flags'
  <2>1. \A x \in Thread : state[x] \in {"ACTIVE", "BLOCKED"} /\ x # t => saved_irq[x]
    BY <1>0 DEF IInv, Flags
  <2>2. n # bootstrap => n \in Thread
    BY <1>3, <1>5 DEF SchedTypeOK, AnyThread
  <2>3. Preemptible'
    BY <1>4, <1>5, <2>1, <2>2 DEF Preemptible
  <2>4. \A x \in Thread : state'[x] \in {"ACTIVE", "BLOCKED"} => x # t /\ state'[x] = state[x]
                                                               /\ saved_irq'[x] = saved_irq[x]
    BY <1>6 DEF AnyThread
  <2> QED BY <2>1, <2>3, <2>4 DEF Flags
<1>19. RefcountExact'
  <2>1. \A x : Holders(x)' = Holders(x)
    BY SMTT(60), <1>0, <1>6, <1>8 DEF Holders
  <2>2. \A x : CreationRef(x)' <=> CreationRef(x)
    BY SMT, <1>0, <1>6, <1>8 DEF CreationRef
  <2> QED BY <1>8, <2>1, <2>2 DEF IInv, RefcountExact
<1> QED BY <1>3, <1>10, <1>11, <1>12, <1>14, <1>15, <1>16, <1>17, <1>18, <1>19 DEF IInv

-----------------------------------------------------------------------------
(* Steps that keep every reference where it is. *)

LEMMA TargetThread ==
  ASSUME IInv, NEW t \in AnyThread, pc[t] \notin FreePc
  PROVE  /\ target[t] \in Thread /\ target[t] \in AnyThread /\ target[t] \in allocated
         /\ target[t] # bootstrap /\ target[t] # NoThread
<1>1. target[t] # NoThread /\ target[t] \in allocated
  BY DEF IInv, Targets
<1>2. target[t] \in Thread
  BY <1>1 DEF IInv, TypeOK
<1> QED BY <1>1, <1>2, SchedAssumption DEF AnyThread

LEMMA ActivateStep ==
  ASSUME IInv, NEW t \in AnyThread, activate_thread(t)
  PROVE  IInv'
<1>p. PICK x : x = target[t]
  OBVIOUS
<1>0. /\ TypeOK /\ SchedTypeOK /\ current_thread = t /\ pc[t] = "activate"
      /\ pc' = [pc EXCEPT ![t] = "put_create"]
      /\ current_thread' = current_thread /\ elapsed' = elapsed /\ irq' = irq
      /\ saved_irq' = saved_irq /\ target' = target /\ allocated' = allocated
      /\ refcount' = refcount /\ threads' = threads /\ pid' = pid /\ next_pid' = next_pid
  BY DEF IInv, TypeOK, activate_thread, At, Goto, lifeVars
<1>1. x \in Thread /\ x \in AnyThread /\ x \in allocated /\ x # bootstrap
  BY <1>0, <1>p, TargetThread DEF FreePc
<1>2. /\ state[x] = "BLOCKED" /\ x \in threads
      /\ \A u \in AnyThread : target[u] = x /\ pc[u] \in StarterPc => u = t
      /\ \A u \in AnyThread : pc[u] \in CreatorPc => target[u] # x
  BY <1>0, <1>p DEF IInv, Creating, StarterPc, CreatorPc
<1>3. x # current_thread
  BY <1>1, <1>2 DEF IInv, States
<1>4. /\ state' = [state EXCEPT ![x] = "ACTIVE"]
      /\ rr_active_list' = Append(rr_active_list, x)
  BY <1>2, <1>p DEF activate_thread, ActivateState, ActivateQueue
<1>5. /\ \A y \in AnyThread : state'[y] = IF y = x THEN "ACTIVE" ELSE state[y]
      /\ \A u \in AnyThread : pc'[u] = IF u = t THEN "put_create" ELSE pc[u]
      /\ \A y \in Thread : y \in AnyThread
      /\ rr_active_list \in Seq(Thread)
  BY <1>0, <1>4 DEF TypeOK, SchedTypeOK, AnyThread
<1>6. TypeOK'
  <2>1. rr_active_list' \in Seq(Thread)
    BY <1>1, <1>4, <1>5, AppendRange
  <2>2. SchedTypeOK'
    BY <1>0, <1>4, <2>1 DEF SchedTypeOK, ThreadState
  <2> QED BY <1>0, <2>2 DEF TypeOK, Label
<1>7. RunQueueExact'
  <2>1. QueueExact(state)
    BY DEF IInv, RunQueueExact, QueueExact, NoRepeat
  <2>2. x \notin Range(rr_active_list)
    BY <1>1, <1>2, <2>1 DEF QueueExact
  <2>3. /\ Range(rr_active_list') = Range(rr_active_list) \cup {x}
        /\ NoRepeat(rr_active_list')
    BY SMTT(60), <1>1, <1>4, <1>5, <2>1, <2>2, AppendRange DEF QueueExact
  <2>4. \A y \in Thread :
          (state'[y] = "ACTIVE" /\ y # current_thread') <=> y \in Range(rr_active_list')
    BY <1>0, <1>3, <1>5, <2>1, <2>3 DEF QueueExact
  <2> QED BY <2>3, <2>4 DEF RunQueueExact, NoRepeat
<1>8. Targets'
  BY SMTT(60), <1>0, <1>5 DEF IInv, Targets, FreePc
<1>9. States'
  BY SMTT(30), <1>0, <1>1, <1>2, <1>5 DEF IInv, States, AnyThread
<1>10. \A u \in AnyThread : pc[u] \notin FreePc => target[u] \in AnyThread
  BY TargetThread
<1>11. Creating'
  <2>1. \A u \in AnyThread : pc'[u] \in CreatorPc \cup StarterPc =>
          pc[u] = pc'[u] /\ target[u] # x /\ target[u] \in AnyThread
    BY <1>2, <1>5, <1>10 DEF CreatorPc, StarterPc, FreePc
  <2>2. \A u \in AnyThread : pc'[u] \in CreatorPc \cup StarterPc =>
          state'[target[u]] = state[target[u]]
    BY <1>5, <2>1
  <2> QED BY <1>0, <2>1, <2>2 DEF IInv, Creating
<1>12. Reaping'
  <2>1. \A u \in AnyThread : pc'[u] \in ReaperPc \cup {"reap"} =>
          pc[u] = pc'[u] /\ state[target[u]] # "BLOCKED" /\ target[u] \in AnyThread
    BY <1>5, <1>10 DEF ReaperPc, FreePc, IInv, Reaping
  <2>2. \A u \in AnyThread : pc'[u] \in ReaperPc \cup {"reap"} =>
          state'[target[u]] = state[target[u]]
    BY <1>2, <1>5, <2>1
  <2> QED BY SMTT(60), <1>0, <2>1, <2>2 DEF IInv, Reaping
<1>13. Releasing'
  BY SMTT(60), <1>0, <1>5 DEF IInv, Releasing
<1>14. Pids'
  BY <1>0 DEF IInv, Pids
<1>15. Flags'
  BY <1>0, <1>2, <1>5 DEF IInv, Flags, Preemptible
<1>16. RefcountExact'
  <2>1. \A y : Holders(y)' = Holders(y)
    BY SMTT(60), <1>0, <1>5 DEF Holders
  <2>2. \A y : CreationRef(y)' <=> CreationRef(y)
    BY SMTT(30), <1>0, <1>5 DEF CreationRef
  <2> QED BY <1>0, <2>1, <2>2 DEF IInv, RefcountExact
<1> QED BY <1>6, <1>7, <1>8, <1>9, <1>11, <1>12, <1>13, <1>14, <1>15, <1>16 DEF IInv

LEMMA ReapStep ==
  ASSUME IInv, NEW t \in AnyThread, reap_thread(t)
  PROVE  IInv'
<1>p. PICK x, l : /\ x = target[t]
                  /\ l = IF state[x] = "REAPED" THEN "put_wait" ELSE "erase"
  OBVIOUS
<1>0. /\ TypeOK /\ SchedTypeOK /\ current_thread = t /\ pc[t] = "reap"
      /\ pc' = [pc EXCEPT ![t] = l] /\ state' = [state EXCEPT ![x] = "REAPED"]
      /\ current_thread' = current_thread /\ rr_active_list' = rr_active_list
      /\ elapsed' = elapsed /\ irq' = irq
      /\ saved_irq' = saved_irq /\ target' = target /\ allocated' = allocated
      /\ refcount' = refcount /\ threads' = threads /\ pid' = pid /\ next_pid' = next_pid
  BY <1>p DEF IInv, TypeOK, reap_thread, At, Goto, lifeVars
<1>1. x \in Thread /\ x \in AnyThread /\ x \in allocated /\ x # bootstrap
  BY <1>0, <1>p, TargetThread DEF FreePc
<1>2. state[x] \in {"DEAD", "REAPED"}
  BY <1>0, <1>p DEF IInv, Reaping
<1>3. x # current_thread /\ target[x] = NoThread
  BY <1>1, <1>2 DEF IInv, States
<1>4. l = "erase" => state[x] = "DEAD" /\ x \in threads
  BY <1>1, <1>2, <1>p DEF IInv, States
<1>5. /\ \A y \in AnyThread : state'[y] = IF y = x THEN "REAPED" ELSE state[y]
      /\ \A u \in AnyThread : pc'[u] = IF u = t THEN l ELSE pc[u]
      /\ \A y \in Thread : y \in AnyThread
      /\ l \in {"put_wait", "erase"}
  BY <1>0, <1>p DEF TypeOK, SchedTypeOK, AnyThread
<1>6. TypeOK'
  BY <1>0, <1>1, <1>5 DEF TypeOK, SchedTypeOK, ThreadState, Label
<1>7. RunQueueExact'
  BY SMTT(60), <1>0, <1>2, <1>5 DEF IInv, RunQueueExact
<1>8. Targets'
  BY <1>0, <1>5 DEF IInv, Targets, FreePc
<1>9. States'
  BY SMT, <1>0, <1>1, <1>2, <1>3, <1>5 DEF IInv, States, AnyThread
<1>10. \A u \in AnyThread : pc[u] \notin FreePc => target[u] \in AnyThread
  BY TargetThread
<1>11. Creating'
  <2>1. \A u \in AnyThread : pc'[u] \in CreatorPc \cup StarterPc =>
          pc[u] = pc'[u] /\ state[target[u]] = "BLOCKED" /\ target[u] \in AnyThread
    BY <1>5, <1>10 DEF CreatorPc, StarterPc, FreePc, IInv, Creating
  <2>2. \A u \in AnyThread : pc'[u] \in CreatorPc \cup StarterPc =>
          state'[target[u]] = state[target[u]]
    BY <1>2, <1>5, <2>1
  <2> QED BY <1>0, <2>1, <2>2 DEF IInv, Creating
<1>12. Reaping'
  <2>1. \A u \in AnyThread : pc'[u] \in ReaperPc \cup {"reap"} =>
          pc[u] \in ReaperPc \cup {"reap"} /\ target[u] \in AnyThread
    BY <1>0, <1>5, <1>10 DEF ReaperPc, FreePc
  <2>2. \A u \in AnyThread : pc'[u] = "reap" => state'[target[u]] \in {"DEAD", "REAPED"}
    BY <1>5, <2>1 DEF IInv, Reaping
  <2>3. \A u \in AnyThread : pc'[u] \in ReaperPc =>
          \/ u # t /\ pc[u] = pc'[u]
          \/ u = t /\ l = "erase"
    BY <1>5 DEF ReaperPc
  <2>4. l = "erase" => \A u \in AnyThread : pc[u] \in ReaperPc => target[u] # x
    BY <1>4 DEF IInv, Reaping
  <2>5. \A u \in AnyThread : pc[u] \in ReaperPc =>
          /\ state[target[u]] = "REAPED"
          /\ target[u] \in threads <=> pc[u] = "erase"
          /\ \A v \in AnyThread : target[v] = target[u] /\ pc[v] \in ReaperPc => v = u
    BY DEF IInv, Reaping
  <2>6. \A u \in AnyThread : pc'[u] \in ReaperPc => state'[target[u]] = "REAPED"
    BY <1>5, <1>p, <2>1, <2>3, <2>5
  <2>7. \A u \in AnyThread : pc'[u] \in ReaperPc => (target[u] \in threads <=> pc'[u] = "erase")
    BY <1>4, <1>5, <1>p, <2>3, <2>5
  <2>8. \A u, v \in AnyThread :
          pc'[u] \in ReaperPc /\ target[v] = target[u] /\ pc'[v] \in ReaperPc => v = u
    BY SMT, <1>p, <2>3, <2>4, <2>5
  <2> QED BY <1>0, <2>2, <2>6, <2>7, <2>8 DEF Reaping
<1>13. Releasing'
  BY SMT, <1>0, <1>5 DEF IInv, Releasing
<1>14. Pids'
  BY <1>0 DEF IInv, Pids
<1>15. Flags'
  BY SMT, <1>0, <1>5 DEF IInv, Flags, Preemptible
<1>16. RefcountExact'
  <2>1. \A y : Holders(y)' = Holders(y)
    BY SMTT(30), <1>0, <1>5 DEF Holders
  <2>2. \A y : CreationRef(y)' <=> CreationRef(y)
    BY <1>0, <1>5 DEF CreationRef
  <2> QED BY <1>0, <2>1, <2>2 DEF IInv, RefcountExact
<1> QED BY <1>6, <1>7, <1>8, <1>9, <1>11, <1>12, <1>13, <1>14, <1>15, <1>16 DEF IInv

LEMMA EraseStep ==
  ASSUME IInv, NEW t \in AnyThread, EraseThread(t)
  PROVE  IInv'
<1>p. PICK x : x = target[t]
  OBVIOUS
<1>0. /\ TypeOK /\ SchedTypeOK /\ current_thread = t /\ pc[t] = "erase"
      /\ pc' = [pc EXCEPT ![t] = "put_reap"] /\ threads' = threads \ {x}
      /\ UNCHANGED schedVars /\ target' = target /\ allocated' = allocated
      /\ refcount' = refcount /\ pid' = pid /\ next_pid' = next_pid
  BY <1>p DEF IInv, TypeOK, EraseThread, At, Goto
<1>1. x \in Thread /\ x \in AnyThread /\ x \in allocated
  BY <1>0, <1>p, TargetThread DEF FreePc
<1>2. /\ state[x] = "REAPED" /\ x \in threads
      /\ \A u \in AnyThread : target[u] = x /\ pc[u] \in ReaperPc => u = t
  BY <1>0, <1>p DEF IInv, Reaping, ReaperPc
<1>3. \A u \in AnyThread : pc'[u] = IF u = t THEN "put_reap" ELSE pc[u]
  BY <1>0 DEF TypeOK
<1>4. /\ state' = state /\ current_thread' = current_thread /\ irq' = irq
      /\ saved_irq' = saved_irq /\ rr_active_list' = rr_active_list
  BY <1>0 DEF schedVars
<1>5. TypeOK'
  BY <1>0, <1>1 DEF TypeOK, SchedTypeOK, schedVars, Label
<1>6. RunQueueExact' /\ Flags'
  BY <1>4 DEF IInv, RunQueueExact, Flags, Preemptible
<1>7. Targets'
  BY SMT, <1>0, <1>3 DEF IInv, Targets, FreePc
<1>8. States'
  BY SMTT(60), <1>0, <1>2, <1>3, <1>4 DEF IInv, States, AnyThread
<1>9. Creating'
  <2>1. \A u \in AnyThread : pc'[u] \in CreatorPc \cup StarterPc =>
          pc[u] = pc'[u] /\ state[target[u]] = "BLOCKED"
    BY <1>3 DEF CreatorPc, StarterPc, IInv, Creating
  <2> QED BY <1>0, <1>2, <1>4, <2>1 DEF IInv, Creating
<1>10. Reaping'
  <2>1. \A u \in AnyThread : pc[u] \in ReaperPc =>
          /\ state[target[u]] = "REAPED"
          /\ target[u] \in threads <=> pc[u] = "erase"
          /\ \A v \in AnyThread : target[v] = target[u] /\ pc[v] \in ReaperPc => v = u
    BY DEF IInv, Reaping
  <2>2. \A u \in AnyThread : pc'[u] \in ReaperPc <=> pc[u] \in ReaperPc
    BY <1>0, <1>3 DEF ReaperPc
  <2>3. \A u \in AnyThread : pc'[u] \in ReaperPc => (target[u] \in threads' <=> pc'[u] = "erase")
    BY SMTT(60), <1>0, <1>2, <1>3, <1>p, <2>1, <2>2
  <2>4. \A u \in AnyThread : pc'[u] = "reap" => state[target[u]] \in {"DEAD", "REAPED"}
    BY <1>3 DEF IInv, Reaping
  <2> QED BY <1>0, <1>4, <2>1, <2>2, <2>3, <2>4 DEF Reaping
<1>11. Releasing'
  BY SMTT(30), <1>0, <1>3 DEF IInv, Releasing
<1>12. Pids'
  BY <1>0 DEF IInv, Pids
<1>13. RefcountExact'
  <2>1. \A y : Holders(y)' = Holders(y)
    BY <1>0, <1>3 DEF Holders
  <2>2. \A y : CreationRef(y)' <=> CreationRef(y)
    BY <1>0, <1>2, <1>3, <1>p DEF CreationRef
  <2> QED BY <1>0, <2>1, <2>2 DEF IInv, RefcountExact
<1> QED BY <1>5, <1>6, <1>7, <1>8, <1>9, <1>10, <1>11, <1>12, <1>13 DEF IInv

LEMMA RegisterStep ==
  ASSUME IInv, NEW t \in AnyThread, register_thread(t)
  PROVE  IInv'
<1>p. PICK x : x = target[t]
  OBVIOUS
<1>0. /\ TypeOK /\ SchedTypeOK /\ current_thread = t /\ pc[t] = "register"
      /\ pc' = [pc EXCEPT ![t] = "lookup"] /\ threads' = threads \cup {x}
      /\ pid' = [pid EXCEPT ![x] = next_pid] /\ next_pid' = next_pid + 1
      /\ UNCHANGED schedVars /\ target' = target /\ allocated' = allocated
      /\ refcount' = refcount
  BY <1>p DEF IInv, TypeOK, register_thread, At, Goto
<1>1. x \in Thread /\ x \in AnyThread /\ x \in allocated
  BY <1>0, <1>p, TargetThread DEF FreePc
<1>2. /\ state[x] = "BLOCKED" /\ x \notin threads
      /\ \A u \in AnyThread : target[u] = x => u = t
  BY <1>0, <1>p DEF IInv, Creating, CreatorPc
<1>3. /\ \A u \in AnyThread : pc'[u] = IF u = t THEN "lookup" ELSE pc[u]
      /\ \A y \in Thread : pid'[y] = IF y = x THEN next_pid ELSE pid[y]
  BY <1>0 DEF TypeOK
<1>4. /\ state' = state /\ current_thread' = current_thread /\ irq' = irq
      /\ saved_irq' = saved_irq /\ rr_active_list' = rr_active_list
  BY <1>0 DEF schedVars
<1>5. TypeOK'
  BY SMTT(30), <1>0, <1>1 DEF TypeOK, SchedTypeOK, schedVars, Label
<1>6. RunQueueExact' /\ Flags'
  BY <1>4 DEF IInv, RunQueueExact, Flags, Preemptible
<1>7. Targets'
  BY SMTT(30), <1>0, <1>1, <1>3 DEF IInv, Targets, FreePc
<1>8. States'
  BY SMTT(30), <1>0, <1>2, <1>3, <1>4 DEF IInv, States, AnyThread
<1>9. Creating'
  <2>1. \A u \in AnyThread : pc'[u] \in CreatorPc => u # t /\ pc[u] = pc'[u] /\ target[u] # x
    BY <1>2, <1>3 DEF CreatorPc
  <2>2. \A u \in AnyThread : pc'[u] \in StarterPc => u = t \/ (pc[u] = pc'[u] /\ target[u] # x)
    BY <1>2, <1>3 DEF StarterPc
  <2>3. \A u \in AnyThread : pc'[u] \in CreatorPc =>
          /\ target[u] \notin threads' /\ state[target[u]] = "BLOCKED"
          /\ \A v \in AnyThread : target[v] = target[u] => v = u
    BY <1>0, <2>1 DEF IInv, Creating
  <2>4. \A u \in AnyThread : pc'[u] \in StarterPc =>
          target[u] \in threads' /\ state[target[u]] = "BLOCKED"
    BY <1>0, <1>2, <1>p, <2>2 DEF IInv, Creating
  <2>5. \A u, v \in AnyThread :
          pc'[u] \in StarterPc /\ target[v] = target[u] /\ pc'[v] \in StarterPc => v = u
    BY <1>2, <1>p, <2>2 DEF IInv, Creating
  <2> QED BY <1>0, <1>4, <2>3, <2>4, <2>5 DEF Creating
<1>10. Reaping'
  <2>1. \A u \in AnyThread : pc'[u] \in ReaperPc \cup {"reap"} =>
          pc[u] = pc'[u] /\ target[u] # x
    BY SMT, <1>2, <1>3, <1>0 DEF ReaperPc
  <2> QED BY <1>0, <1>4, <2>1 DEF IInv, Reaping
<1>11. Releasing'
  BY SMT, <1>0, <1>3 DEF IInv, Releasing
<1>12. Pids'
  <2>1. next_pid \in Nat /\ \A y \in threads : pid[y] \in Int /\ y \in Thread
    BY <1>0 DEF TypeOK
  <2>2. \A y \in threads : pid[y] < next_pid /\ pid'[y] = pid[y]
    BY <1>2, <1>3, <2>1 DEF IInv, Pids
  <2>3. pid'[x] = next_pid
    BY <1>1, <1>3
  <2>4. \A y \in threads' : pid'[y] < next_pid'
    BY SMTT(60), <1>0, <2>1, <2>2, <2>3
  <2>5. \A y, z \in threads' : pid'[y] = pid'[z] => y = z
    BY SMTT(60), <1>0, <2>1, <2>2, <2>3 DEF IInv, Pids
  <2> QED BY <2>4, <2>5 DEF Pids
<1>13. RefcountExact'
  <2>1. \A y : Holders(y)' = Holders(y)
    BY SMTT(60), <1>0, <1>3 DEF Holders
  <2>2. \A y : CreationRef(y)' <=> CreationRef(y)
    BY <1>0, <1>2, <1>3, <1>p DEF CreationRef
  <2> QED BY <1>0, <2>1, <2>2 DEF IInv, RefcountExact
<1> QED BY <1>5, <1>6, <1>7, <1>8, <1>9, <1>10, <1>11, <1>12, <1>13 DEF IInv

-----------------------------------------------------------------------------
(* Steps that get or give up a reference. *)

LEMMA Counted ==
  ASSUME IInv, NEW x \in allocated
  PROVE  /\ refcount[x] \in Nat
         /\ CreationRef(x) => refcount[x] = Cardinality(Holders(x)) + 1
         /\ ~CreationRef(x) => refcount[x] = Cardinality(Holders(x))
         /\ Cardinality(Holders(x)) \in Nat
         /\ refcount[x] = 0 => Holders(x) = {} /\ ~CreationRef(x)
<1>1. refcount[x] = Cardinality(Holders(x)) + (IF CreationRef(x) THEN 1 ELSE 0)
  BY DEF IInv, RefcountExact
<1>2. Cardinality(Holders(x)) \in Nat /\ (Cardinality(Holders(x)) = 0 <=> Holders(x) = {})
  BY HoldersFinite, HolderNone
<1>3. CASE CreationRef(x)
  BY SMTT(60), <1>1, <1>2, <1>3
<1>4. CASE ~CreationRef(x)
  BY SMTT(30), <1>1, <1>2, <1>4
<1> QED BY <1>3, <1>4

(* lookup_thread gives thread t a reference to the registered thread x. *)
LEMMA GetStep ==
  ASSUME IInv, NEW t \in AnyThread, NEW x \in threads, NEW l,
         current_thread = t,
         \/ pc[t] = "lookup" /\ target[t] = x /\ l = "activate"
         \/ pc[t] = "run" /\ l = "wait_loop",
         refcount' = [refcount EXCEPT ![x] = @ + 1],
         target' = [target EXCEPT ![t] = x],
         pc' = [pc EXCEPT ![t] = l],
         UNCHANGED <<schedVars, allocated, threads, pid, next_pid>>
  PROVE  IInv'
<1>0. /\ TypeOK /\ SchedTypeOK /\ state' = state /\ current_thread' = current_thread
      /\ irq' = irq /\ saved_irq' = saved_irq /\ rr_active_list' = rr_active_list
      /\ elapsed' = elapsed /\ allocated' = allocated /\ threads' = threads
      /\ pid' = pid /\ next_pid' = next_pid
  BY DEF IInv, TypeOK, schedVars
<1>1. /\ x \in Thread /\ x \in AnyThread /\ x \in allocated
      /\ x # NoThread /\ l \in {"activate", "wait_loop"}
  BY <1>0, ThreadsAssumption DEF IInv, Targets, TypeOK, AnyThread
<1>2. /\ \A u \in AnyThread : pc'[u] = IF u = t THEN l ELSE pc[u]
      /\ \A u \in AnyThread : target'[u] = IF u = t THEN x ELSE target[u]
      /\ \A y \in Thread : refcount'[y] = IF y = x THEN refcount[y] + 1 ELSE refcount[y]
  BY <1>0 DEF TypeOK
<1>3. CreationRef(x) /\ refcount[x] \in Nat /\ refcount[x] # 0
  BY <1>1, Counted DEF CreationRef
<1>4. TypeOK'
  <2>1. refcount' \in [Thread -> Int]
    BY SMTT(60), <1>0, <1>1, <1>3 DEF TypeOK
  <2> QED BY <1>0, <1>1, <2>1 DEF TypeOK, SchedTypeOK, Label
<1>5. RunQueueExact' /\ Flags'
  BY <1>0 DEF IInv, RunQueueExact, Flags, Preemptible
<1>6. Targets'
  BY SMTT(60), <1>0, <1>1, <1>2 DEF IInv, Targets, FreePc
<1>7. States'
  BY SMTT(60), <1>0, <1>1, <1>2 DEF IInv, States, AnyThread
<1>8. Creating'
  <2>1. \A u \in AnyThread : pc'[u] \in CreatorPc =>
          /\ u # t /\ pc[u] \in CreatorPc /\ target'[u] = target[u] /\ target[u] # x
    BY SMTT(60), <1>1, <1>2 DEF CreatorPc, IInv, Creating
  <2>2. \A u \in AnyThread : pc'[u] \in StarterPc =>
          pc[u] \in StarterPc /\ target'[u] = target[u]
    BY <1>1, <1>2 DEF StarterPc
  <2>3. \A u \in AnyThread : pc'[u] \in CreatorPc =>
          /\ target'[u] \notin threads /\ state[target'[u]] = "BLOCKED"
          /\ \A v \in AnyThread : target'[v] = target'[u] => v = u
    BY SMT, <1>2, <2>1 DEF IInv, Creating
  <2>4. \A u \in AnyThread : pc'[u] \in StarterPc =>
          /\ target'[u] \in threads /\ state[target'[u]] = "BLOCKED"
          /\ \A v \in AnyThread : target'[v] = target'[u] /\ pc'[v] \in StarterPc => v = u
    BY <2>2 DEF IInv, Creating
  <2> QED BY <1>0, <2>3, <2>4 DEF Creating
<1>9. Reaping'
  <2>1. \A u \in AnyThread : pc'[u] \in ReaperPc \cup {"reap"} =>
          /\ pc[u] = pc'[u] /\ target'[u] = target[u]
    BY <1>1, <1>2 DEF ReaperPc
  <2>2. \A u \in AnyThread : pc'[u] = "reap" => state[target'[u]] \in {"DEAD", "REAPED"}
    BY <2>1 DEF IInv, Reaping
  <2>3. \A u \in AnyThread : pc'[u] \in ReaperPc =>
          /\ state[target'[u]] = "REAPED"
          /\ target'[u] \in threads <=> pc'[u] = "erase"
          /\ \A v \in AnyThread : target'[v] = target'[u] /\ pc'[v] \in ReaperPc => v = u
    BY SMTT(30), <2>1 DEF IInv, Reaping
  <2> QED BY <1>0, <2>2, <2>3 DEF Reaping
<1>10. Releasing'
  <2>1. \A u \in AnyThread : pc[u] = "release" => target[u] # x /\ target[u] \in Thread
    BY <1>3, TargetThread DEF IInv, Releasing, FreePc
  <2>2. \A u \in AnyThread : pc'[u] = "release" => pc[u] = "release" /\ target'[u] = target[u]
    BY <1>1, <1>2
  <2>3. \A u \in AnyThread : pc'[u] = "release" => refcount'[target'[u]] = 0
    BY SMT, <1>2, <2>1, <2>2 DEF IInv, Releasing
  <2> QED BY SMTT(30), <2>2, <2>3 DEF IInv, Releasing
<1>11. Pids'
  BY <1>0 DEF IInv, Pids
<1>12. RefcountExact'
  <2>1. t \notin Holders(x) /\ Holders(x)' = Holders(x) \cup {t}
    BY SMTT(60), <1>1, <1>2 DEF Holders
  <2>2. Cardinality(Holders(x))' = Cardinality(Holders(x)) + 1
    BY <2>1, HolderAdded
  <2>3. \A y : y # x => Holders(y)' = Holders(y)
    BY SMTT(60), <1>1, <1>2 DEF Holders
  <2>4. CreationRef(x)' /\ \A y : y # x => (CreationRef(y)' <=> CreationRef(y))
    BY SMTT(30), <1>0, <1>1, <1>2 DEF CreationRef
  <2>5. (refcount[x] = Cardinality(Holders(x)) + (IF CreationRef(x) THEN 1 ELSE 0))'
    BY <1>1, <1>2, <1>3, <2>2, <2>4, Counted
  <2>6. ASSUME NEW y \in allocated, y # x
        PROVE  (refcount[y] = Cardinality(Holders(y)) + (IF CreationRef(y) THEN 1 ELSE 0))'
    <3>1. y \in Thread
      BY <1>0 DEF TypeOK
    <3>2. refcount'[y] = refcount[y]
      BY <1>2, <2>6, <3>1
    <3>3. Holders(y)' = Holders(y) /\ (CreationRef(y)' <=> CreationRef(y))
      BY <2>3, <2>4, <2>6
    <3>4. refcount[y] = Cardinality(Holders(y)) + (IF CreationRef(y) THEN 1 ELSE 0)
      BY DEF IInv, RefcountExact
    <3> QED BY <3>2, <3>3, <3>4
  <2> QED BY <1>0, <2>5, <2>6 DEF RefcountExact
<1> QED BY <1>4, <1>5, <1>6, <1>7, <1>8, <1>9, <1>10, <1>11, <1>12 DEF IInv

LEMMA LookupStep ==
  ASSUME IInv, NEW t \in AnyThread, LookupCreated(t)
  PROVE  IInv'
<1>1. current_thread = t /\ pc[t] = "lookup"
  BY DEF LookupCreated, At
<1>2. target[t] \in threads
  BY <1>1 DEF IInv, Creating, StarterPc
<1>3. Registered(pid[target[t]]) = {target[t]}
  BY <1>2 DEF Registered, IInv, Pids
<1>4. /\ refcount' = [refcount EXCEPT ![target[t]] = @ + 1]
      /\ target' = [target EXCEPT ![t] = target[t]]
      /\ pc' = [pc EXCEPT ![t] = "activate"]
      /\ UNCHANGED <<schedVars, allocated, threads, pid, next_pid>>
  BY <1>3 DEF LookupCreated, Goto
<1> QED BY <1>1, <1>2, <1>4, GetStep

LEMMA WaitStep ==
  ASSUME IInv, NEW t \in AnyThread, NEW p, Wait(t, p)
  PROVE  IInv'
<1>1. PICK x \in threads :
        /\ refcount' = [refcount EXCEPT ![x] = @ + 1]
        /\ target' = [target EXCEPT ![t] = x]
  BY DEF Wait, Registered
<1> QED BY <1>1, GetStep DEF Wait, At, Goto

(* put_thread: whoever gives up the last reference, and nobody else, goes  *)
(* on to release the thread.                                               *)
LEMMA PutStep ==
  ASSUME IInv, NEW t \in AnyThread, PutThread(t)
  PROVE  IInv'
<1>p. PICK x, l, tgt :
        /\ x = target[t] /\ l = pc'[t] /\ tgt = target'[t]
  OBVIOUS
<1>0. /\ TypeOK /\ SchedTypeOK /\ state' = state /\ current_thread' = current_thread
      /\ irq' = irq /\ saved_irq' = saved_irq /\ rr_active_list' = rr_active_list
      /\ elapsed' = elapsed /\ allocated' = allocated /\ threads' = threads
      /\ pid' = pid /\ next_pid' = next_pid /\ current_thread = t
      /\ refcount' = [refcount EXCEPT ![x] = @ - 1]
      /\ pc[t] \in {"put_create", "put_fork", "put_reap", "put_wait"}
  BY <1>p DEF IInv, TypeOK, schedVars, PutThread, put_thread, At
<1>1. x \in Thread /\ x \in AnyThread /\ x \in allocated /\ x # NoThread
  BY <1>0, <1>p, TargetThread DEF FreePc
<1>2. /\ refcount[x] \in Nat
      /\ pc[t] # "put_fork" => t \in Holders(x)
      /\ pc[t] \in {"put_fork", "put_reap"} =>
           /\ CreationRef(x) /\ x \notin threads
           /\ \A u \in AnyThread :
                target[u] = x /\ pc[u] \in {"copy_mm", "register", "put_fork", "put_reap"} => u = t
  <2>1. CASE pc[t] = "put_fork"
    BY <1>0, <1>1, <1>p, <2>1, Counted DEF IInv, Creating, CreatorPc, CreationRef
  <2>2. CASE pc[t] = "put_reap"
    <3>1. /\ state[x] = "REAPED" /\ x \notin threads
          /\ \A u \in AnyThread : target[u] = x /\ pc[u] \in ReaperPc => u = t
      BY <1>p, <2>2 DEF IInv, Reaping, ReaperPc
    <3>2. \A u \in AnyThread : target[u] = x => pc[u] \notin CreatorPc
      BY <3>1 DEF IInv, Creating
    <3> QED BY <1>1, <1>p, <2>2, <3>1, <3>2, Counted
            DEF ReaperPc, CreatorPc, CreationRef, Holders
  <2>3. CASE pc[t] \in {"put_create", "put_wait"}
    BY <1>1, <1>p, <2>3, Counted DEF Holders
  <2> QED BY <1>0, <2>1, <2>2, <2>3
<1>3. refcount[x] # 0 /\ (pc[t] = "put_reap" => refcount[x] # 1)
  BY SMTT(30), <1>0, <1>1, <1>2, Counted, HolderNone
<1>4. /\ pc' = [pc EXCEPT ![t] = l]
      /\ \/ pc[t] # "put_reap" /\ l = "release" /\ tgt = x /\ target' = target /\ refcount[x] = 1
         \/ /\ pc[t] # "put_reap" /\ l \in {"idle", "run"} /\ tgt = NoThread
            /\ target' = [target EXCEPT ![t] = NoThread]
         \/ pc[t] = "put_reap" /\ l = "put_wait" /\ tgt = x /\ target' = target
  <2>1. pc \in [AnyThread -> Label] /\ target \in [AnyThread -> Thread \cup {NoThread}]
    BY <1>0 DEF TypeOK
  <2>2. CASE put_thread(t, "put_reap", "release_reap", "put_wait")
    BY <1>3, <1>p, <2>1, <2>2 DEF put_thread, At, Goto
  <2>3. ASSUME NEW label \in {"put_create", "put_fork", "put_wait"},
               put_thread(t, label, "release", Caller(t))
        PROVE  /\ pc' = [pc EXCEPT ![t] = l] /\ pc[t] # "put_reap"
               /\ \/ l = "release" /\ tgt = x /\ target' = target /\ refcount[x] = 1
                  \/ /\ l \in {"idle", "run"} /\ tgt = NoThread
                     /\ target' = [target EXCEPT ![t] = NoThread]
    <3>1. Caller(t) \in {"idle", "run"}
      BY DEF Caller
    <3>2. pc[t] = label
      BY <2>3 DEF put_thread, At
    <3>3. CASE refcount[x] = 1
      BY <1>p, <2>1, <2>3, <3>2, <3>3 DEF put_thread, Goto
    <3>4. CASE refcount[x] # 1
      BY <1>p, <2>1, <2>3, <3>1, <3>2, <3>4 DEF put_thread, Goto
    <3> QED BY <3>3, <3>4
  <2> QED BY <2>2, <2>3 DEF PutThread
<1>5. /\ \A u \in AnyThread : pc'[u] = IF u = t THEN l ELSE pc[u]
      /\ \A u \in AnyThread : target'[u] = IF u = t THEN tgt ELSE target[u]
      /\ \A y \in Thread : refcount'[y] = IF y = x THEN refcount[y] - 1 ELSE refcount[y]
      /\ l \in {"release", "idle", "run", "put_wait"}
      /\ tgt \in {x, NoThread} /\ (tgt = NoThread <=> l \in {"idle", "run"})
  BY SMTT(60), <1>0, <1>1, <1>4, <1>p DEF TypeOK
<1>6. TypeOK'
  <2>1. refcount' \in [Thread -> Int]
    BY SMTT(30), <1>0, <1>1, <1>2 DEF TypeOK
  <2>2. target' \in [AnyThread -> Thread \cup {NoThread}]
    BY <1>0, <1>4 DEF TypeOK
  <2>3. pc' \in [AnyThread -> Label]
    BY <1>0, <1>4 DEF TypeOK, Label
  <2> QED BY <1>0, <2>1, <2>2, <2>3 DEF TypeOK, SchedTypeOK
<1>7. RunQueueExact' /\ Flags'
  BY <1>0 DEF IInv, RunQueueExact, Flags, Preemptible
<1>8. Targets'
  BY SMTT(30), <1>0, <1>1, <1>5 DEF IInv, Targets, FreePc
<1>9. States'
  BY <1>0, <1>1, <1>5 DEF IInv, States, AnyThread
<1>10. \A u, v \in AnyThread : target'[v] = target'[u] /\ target'[u] # NoThread
          => target[v] = target[u]
  BY <1>5, <1>p
<1>11. Creating'
  <2>1. \A u \in AnyThread : pc'[u] \in CreatorPc \cup StarterPc =>
          pc[u] = pc'[u] /\ target'[u] = target[u] /\ target'[u] # NoThread
    BY <1>5 DEF CreatorPc, StarterPc, IInv, Targets, FreePc
  <2>2. \A u \in AnyThread : pc'[u] \in CreatorPc =>
          /\ target'[u] \notin threads /\ state[target'[u]] = "BLOCKED"
          /\ \A v \in AnyThread : target'[v] = target'[u] => v = u
    BY <1>10, <2>1 DEF IInv, Creating
  <2>3. \A u \in AnyThread : pc'[u] \in StarterPc =>
          /\ target'[u] \in threads /\ state[target'[u]] = "BLOCKED"
          /\ \A v \in AnyThread : target'[v] = target'[u] /\ pc'[v] \in StarterPc => v = u
    BY <1>10, <2>1 DEF IInv, Creating
  <2> QED BY <1>0, <2>2, <2>3 DEF Creating
<1>12. Reaping'
  <2>1. \A u \in AnyThread : pc'[u] \in ReaperPc \cup {"reap"} =>
          pc[u] = pc'[u] /\ target'[u] = target[u]
    BY <1>5 DEF ReaperPc
  <2>2. \A u \in AnyThread : pc'[u] = "reap" => state[target'[u]] \in {"DEAD", "REAPED"}
    BY <2>1 DEF IInv, Reaping
  <2>3. \A u \in AnyThread : pc'[u] \in ReaperPc =>
          /\ state[target'[u]] = "REAPED"
          /\ target'[u] \in threads <=> pc'[u] = "erase"
          /\ \A v \in AnyThread : target'[v] = target'[u] /\ pc'[v] \in ReaperPc => v = u
    BY <2>1 DEF IInv, Reaping
  <2> QED BY <1>0, <2>2, <2>3 DEF Reaping
<1>13. Releasing'
  <2>1. \A u \in AnyThread : pc[u] = "release" => target[u] # x /\ target[u] \in Thread
    BY <1>3, TargetThread DEF IInv, Releasing, FreePc
  <2>2. \A u \in AnyThread : pc'[u] = "release" =>
          \/ u = t /\ target'[u] = x /\ refcount'[x] = 0
          \/ u # t /\ pc[u] = "release" /\ target'[u] = target[u]
    BY SMTT(60), <1>0, <1>1, <1>4, <1>5
  <2>3. \A u \in AnyThread : pc'[u] = "release" => refcount'[target'[u]] = 0
    BY SMTT(60), <1>5, <2>1, <2>2 DEF IInv, Releasing
  <2>4. \A u, v \in AnyThread :
          pc'[u] = "release" /\ pc'[v] = "release" /\ target'[v] = target'[u] => v = u
    BY <2>1, <2>2 DEF IInv, Releasing
  <2> QED BY <2>3, <2>4 DEF Releasing
<1>14. Pids'
  BY <1>0 DEF IInv, Pids
<1>15. RefcountExact'
  <2>1. \A y : y # x => Holders(y)' = Holders(y)
    BY SMTT(60), <1>1, <1>5, <1>p DEF Holders
  <2>2. \A y \in Thread : y # x => (CreationRef(y)' <=> CreationRef(y))
    <3>1. NoThread \notin Thread
      BY ThreadsAssumption DEF AnyThread
    <3> QED BY <1>0, <1>5, <1>p, <3>1 DEF CreationRef
  <2>3. ASSUME pc[t] \in {"put_fork", "put_reap"}
        PROVE  (refcount[x] = Cardinality(Holders(x)) + (IF CreationRef(x) THEN 1 ELSE 0))'
    <3>1. Holders(x)' = Holders(x)
      BY SMTT(30), <1>4, <1>5, <1>p, <2>3 DEF Holders
    <3>2. ~CreationRef(x)'
      BY <1>0, <1>2, <1>5, <2>3 DEF CreationRef
    <3>3. refcount[x] = Cardinality(Holders(x)) + 1 /\ Cardinality(Holders(x)) \in Nat
      BY <1>1, <1>2, <2>3, Counted
    <3>4. refcount'[x] = refcount[x] - 1
      BY <1>1, <1>5
    <3> QED BY SMTT(60), <3>1, <3>2, <3>3, <3>4
  <2>4. ASSUME pc[t] \in {"put_create", "put_wait"}
        PROVE  (refcount[x] = Cardinality(Holders(x)) + (IF CreationRef(x) THEN 1 ELSE 0))'
    <3>1. t \in Holders(x) /\ Holders(x)' = Holders(x) \ {t}
      BY SMTT(60), <1>2, <1>4, <1>5, <1>p, <2>4 DEF Holders
    <3>2. Cardinality(Holders(x))' = Cardinality(Holders(x)) - 1
      BY <3>1, HolderRemoved
    <3>3. CreationRef(x)' <=> CreationRef(x)
      BY <1>0, <1>4, <1>5, <1>p, <2>4 DEF CreationRef
    <3>4. refcount'[x] = refcount[x] - 1
      BY <1>1, <1>5
    <3>5. CASE CreationRef(x)
      BY SMTT(30), <1>1, <3>2, <3>3, <3>4, <3>5, Counted
    <3>6. CASE ~CreationRef(x)
      BY SMTT(30), <1>1, <3>2, <3>3, <3>4, <3>6, Counted
    <3> QED BY <3>5, <3>6
  <2>5. (refcount[x] = Cardinality(Holders(x)) + (IF CreationRef(x) THEN 1 ELSE 0))'
    BY <1>0, <2>3, <2>4
  <2>6. ASSUME NEW y \in allocated, y # x
        PROVE  (refcount[y] = Cardinality(Holders(y)) + (IF CreationRef(y) THEN 1 ELSE 0))'
    <3>1. y \in Thread
      BY <1>0 DEF TypeOK
    <3>2. refcount'[y] = refcount[y]
      BY <1>5, <2>6, <3>1
    <3>3. Holders(y)' = Holders(y) /\ (CreationRef(y)' <=> CreationRef(y))
      BY <2>1, <2>2, <2>6, <3>1
    <3>4. refcount[y] = Cardinality(Holders(y)) + (IF CreationRef(y) THEN 1 ELSE 0)
      BY DEF IInv, RefcountExact
    <3> QED BY <3>2, <3>3, <3>4
  <2> QED BY <1>0, <2>5, <2>6 DEF RefcountExact
<1> QED BY <1>6, <1>7, <1>8, <1>9, <1>11, <1>12, <1>13, <1>14, <1>15 DEF IInv

(* release_thread: with no reference left, nothing points to the thread. *)
LEMMA ReleaseStep ==
  ASSUME IInv, NEW t \in AnyThread, release_thread(t)
  PROVE  IInv'
<1>p. PICK x, l : x = target[t] /\ l = Caller(t)
  OBVIOUS
<1>0. /\ TypeOK /\ SchedTypeOK /\ current_thread = t /\ pc[t] = "release"
      /\ allocated' = allocated \ {x} /\ state' = [state EXCEPT ![x] = "NONE"]
      /\ pc' = [pc EXCEPT ![t] = l] /\ target' = [target EXCEPT ![t] = NoThread]
      /\ current_thread' = current_thread /\ rr_active_list' = rr_active_list
      /\ elapsed' = elapsed /\ irq' = irq /\ saved_irq' = saved_irq
      /\ refcount' = refcount /\ threads' = threads /\ pid' = pid /\ next_pid' = next_pid
  BY <1>p DEF IInv, TypeOK, Targets, release_thread, Goto
<1>1. x \in Thread /\ x \in AnyThread /\ x \in allocated /\ x # NoThread /\ x # bootstrap
  BY <1>0, <1>p, TargetThread DEF FreePc
<1>2. Holders(x) = {} /\ ~CreationRef(x) /\ x \notin threads
  <2>1. refcount[x] = 0
    BY <1>0, <1>p DEF IInv, Releasing
  <2> QED BY <1>1, <2>1, Counted DEF CreationRef
<1>3. state[x] \notin {"ACTIVE", "DEAD"} /\ target[x] = NoThread /\ x # t /\ x # current_thread
  BY <1>0, <1>1, <1>2 DEF IInv, States
<1>4. \A u \in AnyThread : target[u] = x => u = t
  <2>1. ASSUME NEW u \in AnyThread, target[u] = x, u # t PROVE FALSE
    <3>1. /\ pc[u] \notin {"activate", "put_create", "wait_loop", "wait_schedule",
                           "reap", "erase", "put_reap", "release_reap", "put_wait"}
          /\ pc[u] \notin {"copy_mm", "register", "put_fork", "put_reap"}
      BY <1>2, <2>1 DEF Holders, CreationRef
    <3>2. pc[u] # "lookup"
      BY <1>2, <2>1 DEF IInv, Creating, StarterPc
    <3>3. pc[u] # "release"
      BY <1>0, <1>p, <2>1 DEF IInv, Releasing
    <3>4. pc[u] \notin {"panic", "main", "idle", "run", "exited"}
      BY <1>1, <2>1 DEF IInv, Targets, FreePc
    <3>5. pc[u] \in Label
      BY <1>0 DEF TypeOK
    <3> QED BY <3>1, <3>2, <3>3, <3>4, <3>5 DEF Label
  <2> QED BY <2>1
<1>5. /\ \A u \in AnyThread : pc'[u] = IF u = t THEN l ELSE pc[u]
      /\ \A u \in AnyThread : target'[u] = IF u = t THEN NoThread ELSE target[u]
      /\ \A y \in AnyThread : state'[y] = IF y = x THEN "NONE" ELSE state[y]
      /\ l \in {"idle", "run"} /\ \A y \in Thread : y \in AnyThread
  BY <1>0, <1>p DEF TypeOK, SchedTypeOK, AnyThread, Caller
<1>6. TypeOK'
  BY <1>0, <1>1, <1>5 DEF TypeOK, SchedTypeOK, ThreadState, Label
<1>7. RunQueueExact'
  BY SMTT(60), <1>0, <1>3, <1>5 DEF IInv, RunQueueExact
<1>8. Flags'
  BY SMTT(60), <1>0, <1>5 DEF IInv, Flags, Preemptible
<1>9. Targets'
  BY SMTT(60), <1>0, <1>2, <1>4, <1>5 DEF IInv, Targets, FreePc
<1>10. States'
  BY SMTT(30), <1>0, <1>1, <1>2, <1>3, <1>5 DEF IInv, States, AnyThread
<1>11. \A u \in AnyThread : pc'[u] \notin FreePc =>
          /\ u # t /\ pc'[u] = pc[u] /\ target'[u] = target[u]
          /\ target[u] \in Thread /\ target[u] # x /\ state'[target[u]] = state[target[u]]
          /\ target[u] # NoThread
  BY <1>4, <1>5, TargetThread DEF FreePc
<1>12. \A u, v \in AnyThread : target'[v] = target'[u] /\ target'[u] # NoThread
          => target[v] = target[u]
  BY <1>5
<1>13. Creating'
  <2>1. \A u \in AnyThread : pc'[u] \in CreatorPc \cup StarterPc => pc'[u] \notin FreePc
    BY DEF CreatorPc, StarterPc, FreePc
  <2>2. \A u \in AnyThread : pc'[u] \in CreatorPc =>
          /\ target'[u] \notin threads /\ state'[target'[u]] = "BLOCKED"
          /\ \A v \in AnyThread : target'[v] = target'[u] => v = u
    BY <1>11, <1>12, <2>1 DEF IInv, Creating
  <2>3. \A u \in AnyThread : pc'[u] \in StarterPc =>
          /\ target'[u] \in threads /\ state'[target'[u]] = "BLOCKED"
          /\ \A v \in AnyThread : target'[v] = target'[u] /\ pc'[v] \in StarterPc => v = u
    BY <1>11, <1>12, <2>1 DEF IInv, Creating
  <2> QED BY <1>0, <2>2, <2>3 DEF Creating
<1>14. Reaping'
  <2>1. \A u \in AnyThread : pc'[u] \in ReaperPc \cup {"reap"} => pc'[u] \notin FreePc
    BY DEF ReaperPc, FreePc
  <2>2. \A u \in AnyThread : pc'[u] = "reap" => state'[target'[u]] \in {"DEAD", "REAPED"}
    BY SMTT(60), <1>11, <2>1 DEF IInv, Reaping
  <2>3. \A u \in AnyThread : pc'[u] \in ReaperPc =>
          /\ state'[target'[u]] = "REAPED"
          /\ target'[u] \in threads <=> pc'[u] = "erase"
          /\ \A v \in AnyThread : target'[v] = target'[u] /\ pc'[v] \in ReaperPc => v = u
    BY SMTT(30), <1>11, <2>1 DEF IInv, Reaping
  <2> QED BY SMTT(60), <1>0, <2>2, <2>3 DEF Reaping
<1>15. Releasing'
  BY SMTT(30), <1>0, <1>5 DEF IInv, Releasing
<1>16. Pids'
  BY <1>0 DEF IInv, Pids
<1>17. RefcountExact'
  <2>1. \A y \in Thread : Holders(y)' = Holders(y)
    BY SMTT(60), <1>0, <1>5 DEF Holders
  <2>2. \A y \in Thread : CreationRef(y)' <=> CreationRef(y)
    BY SMTT(60), <1>0, <1>5 DEF CreationRef
  <2>3. allocated' \subseteq allocated /\ allocated \subseteq Thread
    BY <1>0 DEF TypeOK
  <2> QED BY <1>0, <2>1, <2>2, <2>3 DEF IInv, RefcountExact
<1> QED BY <1>6, <1>7, <1>8, <1>9, <1>10, <1>13, <1>14, <1>15, <1>16, <1>17 DEF IInv

LEMMA AllocStep ==
  ASSUME IInv, NEW t \in AnyThread, NEW new \in Thread, NEW l \in {"register", "copy_mm"},
         current_thread = t, pc[t] \in {"main", "run"}, alloc_thread(t, new, l)
  PROVE  IInv'
<1>0. /\ TypeOK /\ SchedTypeOK /\ new \notin allocated /\ allocated' = allocated \cup {new}
      /\ refcount' = [refcount EXCEPT ![new] = 1]
      /\ state' = [state EXCEPT ![new] = "BLOCKED"]
      /\ pid' = [pid EXCEPT ![new] = NoPid] /\ saved_irq' = [saved_irq EXCEPT ![new] = TRUE]
      /\ pc' = [pc EXCEPT ![t] = l, ![new] = "run"]
      /\ target' = [target EXCEPT ![t] = new, ![new] = NoThread]
      /\ current_thread' = current_thread /\ rr_active_list' = rr_active_list
      /\ elapsed' = elapsed /\ irq' = irq /\ threads' = threads /\ next_pid' = next_pid
  BY DEF IInv, TypeOK, alloc_thread
<1>1. /\ state[new] = "NONE" /\ target[new] = NoThread /\ new # t /\ new \in AnyThread
      /\ new \notin threads /\ new # bootstrap /\ new # NoThread /\ target[t] = NoThread
      /\ pc[new] \in FreePc
  BY <1>0, SchedAssumption, ThreadsAssumption DEF IInv, States, Targets, AnyThread, FreePc
<1>2. \A u \in AnyThread : target[u] # new
  BY <1>0, <1>1 DEF IInv, Targets
<1>3. /\ \A u \in AnyThread : pc'[u] = IF u = t THEN l ELSE IF u = new THEN "run" ELSE pc[u]
      /\ \A u \in AnyThread : target'[u] = IF u = t THEN new ELSE target[u]
      /\ \A y \in AnyThread : state'[y] = IF y = new THEN "BLOCKED" ELSE state[y]
      /\ \A y \in AnyThread : saved_irq'[y] = IF y = new THEN TRUE ELSE saved_irq[y]
      /\ \A y \in Thread : refcount'[y] = IF y = new THEN 1 ELSE refcount[y]
      /\ \A y \in Thread : y \in AnyThread
      /\ \A y \in Thread : y # new => pid'[y] = pid[y]
  BY <1>0, <1>1 DEF TypeOK, SchedTypeOK, AnyThread
<1>e. /\ TypeOK /\ new \notin allocated /\ allocated' = allocated \cup {new}
      /\ current_thread' = current_thread /\ rr_active_list' = rr_active_list
      /\ elapsed' = elapsed /\ irq' = irq /\ threads' = threads /\ next_pid' = next_pid
  BY <1>0
<1>4. TypeOK'
  <2>1. SchedTypeOK'
    BY <1>0, <1>1 DEF SchedTypeOK, ThreadState
  <2>2. pc' \in [AnyThread -> Label]
    BY <1>0, <1>1 DEF TypeOK, Label
  <2>3. target' \in [AnyThread -> Thread \cup {NoThread}]
    BY <1>0, <1>1 DEF TypeOK
  <2>4. refcount' \in [Thread -> Int] /\ pid' \in [Thread -> Int]
    BY SMTT(30), <1>0, <1>1 DEF TypeOK, NoPid
  <2>5. allocated' \in SUBSET Thread /\ threads' \in SUBSET Thread /\ next_pid' \in Nat
    BY <1>0, <1>1 DEF TypeOK
  <2> QED BY <2>1, <2>2, <2>3, <2>4, <2>5 DEF TypeOK
<1>5. RunQueueExact'
  BY <1>e, <1>1, <1>3 DEF IInv, RunQueueExact
<1>6. Flags'
  BY <1>e, <1>3 DEF IInv, Flags, Preemptible
<1>7. Targets'
  BY SMTT(30), <1>e, <1>1, <1>3 DEF IInv, Targets, FreePc
<1>8. States'
  <2>1. state'[bootstrap] = "ACTIVE"
    BY <1>1, <1>3 DEF IInv, States, AnyThread
  <2>2. t \in Thread => state[t] = "ACTIVE"
    BY DEF IInv, States
  <2>3. \A y \in Thread : y # new =>
          /\ state'[y] = state[y] /\ (y \in allocated' <=> y \in allocated)
          /\ y # t => target'[y] = target[y] /\ pc'[y] = pc[y]
          /\ y = t => pc'[y] # "exited"
    BY <1>e, <1>3
  <2>4. /\ state'[new] = "BLOCKED" /\ new \in allocated' /\ target'[new] = NoThread
        /\ pc'[new] = "run"
    BY <1>e, <1>1, <1>3
  <2>5. current_thread' \in Thread => state'[current_thread'] = "ACTIVE"
    BY <1>e, <1>1, <2>2, <2>3
  <2> QED BY SMTT(30), <1>e, <2>1, <2>2, <2>3, <2>4, <2>5 DEF IInv, States
<1>9. \A u \in AnyThread : u # t /\ pc'[u] \notin FreePc =>
          /\ pc'[u] = pc[u] /\ target'[u] = target[u] /\ target[u] # new
          /\ state'[target[u]] = state[target[u]] /\ target[u] \in Thread
  BY <1>2, <1>3, TargetThread DEF FreePc
<1>10. Creating'
  <2>1. \A u \in AnyThread : pc'[u] \in CreatorPc \cup StarterPc => pc'[u] \notin FreePc
    BY DEF CreatorPc, StarterPc, FreePc
  <2>2. \A u \in AnyThread : u # t /\ pc'[u] \in CreatorPc =>
          /\ target'[u] \notin threads /\ state'[target'[u]] = "BLOCKED"
          /\ \A v \in AnyThread : target'[v] = target'[u] => v = u
    BY SMTT(60), <1>3, <1>9, <2>1 DEF IInv, Creating
  <2>3. \A u \in AnyThread : pc'[u] \in StarterPc =>
          /\ target'[u] \in threads /\ state'[target'[u]] = "BLOCKED"
          /\ \A v \in AnyThread : target'[v] = target'[u] /\ pc'[v] \in StarterPc => v = u
    <3>1. pc'[t] \notin StarterPc
      BY <1>3 DEF StarterPc
    <3> QED BY <1>9, <2>1, <3>1 DEF IInv, Creating
  <2>4. /\ target'[t] \notin threads /\ state'[target'[t]] = "BLOCKED"
        /\ \A v \in AnyThread : target'[v] = target'[t] => v = t
    BY <1>1, <1>2, <1>3
  <2> QED BY <1>e, <2>2, <2>3, <2>4 DEF Creating
<1>11. Reaping'
  <2>1. \A u \in AnyThread : pc'[u] \in ReaperPc \cup {"reap"} => u # t /\ pc'[u] \notin FreePc
    BY <1>3 DEF ReaperPc, FreePc
  <2>2. \A u \in AnyThread : pc'[u] = "reap" => state'[target'[u]] \in {"DEAD", "REAPED"}
    BY <1>9, <2>1 DEF IInv, Reaping
  <2>3. \A u \in AnyThread : pc'[u] \in ReaperPc =>
          /\ state'[target'[u]] = "REAPED"
          /\ target'[u] \in threads <=> pc'[u] = "erase"
          /\ \A v \in AnyThread : target'[v] = target'[u] /\ pc'[v] \in ReaperPc => v = u
    BY SMT, <1>9, <2>1 DEF IInv, Reaping
  <2> QED BY <1>e, <2>2, <2>3 DEF Reaping
<1>12. Releasing'
  <2>1. \A u \in AnyThread : pc'[u] = "release" => u # t /\ pc'[u] \notin FreePc
    BY <1>3 DEF FreePc
  <2> QED BY SMT, <1>3, <1>9, <2>1 DEF IInv, Releasing
<1>13. Pids'
  <2>1. \A y \in threads : y # new /\ y \in Thread
    BY <1>e, <1>1 DEF TypeOK
  <2> QED BY SMTT(60), <1>e, <1>3, <2>1 DEF IInv, Pids
<1>14. RefcountExact'
  <2>1. \A y \in Thread : y # new => Holders(y)' = Holders(y)
    BY SMTT(30), <1>e, <1>1, <1>3 DEF Holders, FreePc
  <2>2. \A y \in Thread : y # new => (CreationRef(y)' <=> CreationRef(y))
    BY <1>e, <1>1, <1>3 DEF CreationRef, FreePc
  <2>3. Holders(new)' = {} /\ CreationRef(new)'
    BY SMT, <1>1, <1>2, <1>3 DEF Holders, CreationRef
  <2>4. Cardinality(Holders(new))' = 0
    BY <2>3, FS_EmptySet
  <2>5. \A y \in allocated : y \in Thread /\ y # new
    BY <1>e DEF TypeOK
  <2>6. \A y \in allocated :
          (refcount[y] = Cardinality(Holders(y)) + (IF CreationRef(y) THEN 1 ELSE 0))'
    BY SMTT(60), <1>3, <2>1, <2>2, <2>5 DEF IInv, RefcountExact
  <2>7. (refcount[new] = Cardinality(Holders(new)) + (IF CreationRef(new) THEN 1 ELSE 0))'
    BY SMTT(30), <1>3, <2>3, <2>4
  <2> QED BY <1>e, <2>6, <2>7 DEF RefcountExact
<1> QED BY <1>4, <1>5, <1>6, <1>7, <1>8, <1>10, <1>11, <1>12, <1>13, <1>14 DEF IInv

-----------------------------------------------------------------------------
LEMMA InitInv == Init => IInv
<1> SUFFICES ASSUME Init PROVE IInv
  OBVIOUS
<1>1. TypeOK
  <2>1. SchedTypeOK
    <3>1. state \in [AnyThread -> ThreadState] /\ saved_irq \in [AnyThread -> BOOLEAN]
      BY DEF Init, ThreadState
    <3>2. rr_active_list \in Seq(Thread) /\ elapsed \in 0..ElapsedMax
      BY SMT, ElapsedMaxType DEF Init
    <3>3. current_thread \in AnyThread /\ irq \in BOOLEAN
      BY DEF Init, AnyThread
    <3> QED BY <3>1, <3>2, <3>3 DEF SchedTypeOK
  <2>2. pc \in [AnyThread -> Label] /\ target \in [AnyThread -> Thread \cup {NoThread}]
    BY DEF Init, Label
  <2>3. refcount \in [Thread -> Int] /\ pid \in [Thread -> Int]
    BY SMTT(60) DEF Init, NoPid
  <2> QED BY <2>1, <2>2, <2>3 DEF TypeOK, Init
<1>2. RunQueueExact
  BY SMTT(60), EmptyRange, SchedAssumption DEF Init, RunQueueExact, AnyThread
<1>3. Targets
  BY DEF Init, Targets, FreePc, AnyThread
<1>4. States
  BY SchedAssumption DEF Init, States, AnyThread
<1>5. Creating /\ Reaping /\ Releasing
  BY DEF Init, Creating, Reaping, Releasing, AnyThread, CreatorPc, StarterPc, ReaperPc
<1>6. Pids /\ Flags
  BY DEF Init, Pids, Flags, Preemptible, AnyThread
<1>7. RefcountExact
  BY DEF Init, RefcountExact
<1> QED BY <1>1, <1>2, <1>3, <1>4, <1>5, <1>6, <1>7 DEF IInv

LEMMA NextInv == IInv /\ [Next]_vars => IInv'
<1> SUFFICES ASSUME IInv, [Next]_vars PROVE IInv'
  OBVIOUS
<1>1. ASSUME NEW t \in AnyThread, CreateKthread(t) \/ Fork(t) PROVE IInv'
  <2>1. PICK new \in Thread, l \in {"register", "copy_mm"} : alloc_thread(t, new, l)
    BY <1>1 DEF CreateKthread, Fork
  <2>2. current_thread = t /\ pc[t] \in {"main", "run"}
    BY <1>1 DEF CreateKthread, Fork, At
  <2> QED BY <2>1, <2>2, AllocStep
<1>2. ASSUME NEW t \in Thread, Call(t) PROVE IInv'
  BY <1>1, <1>2, WaitStep, ExitStep DEF Call, AnyThread
<1>3. ASSUME CreateKthread(bootstrap) PROVE IInv'
  BY <1>1, <1>3 DEF AnyThread
<1>4. ASSUME NEW t \in AnyThread, KernelStep(t) PROVE IInv'
  BY <1>4, WaitLoopStep, RegisterStep, LookupStep, ActivateStep, PutStep, ReleaseStep,
     WaitScheduleStep, ReapStep, EraseStep DEF KernelStep
<1>5. CASE UNCHANGED vars
  <2>1. /\ UNCHANGED <<pc, target, allocated, refcount, threads, pid, next_pid>>
        /\ UNCHANGED <<current_thread, state, rr_active_list, elapsed, irq, saved_irq>>
    BY <1>5 DEF vars, schedVars, lifeVars
  <2>2. TypeOK'
    BY <2>1 DEF IInv, TypeOK, SchedTypeOK
  <2>3. RunQueueExact' /\ Pids' /\ Flags'
    BY <2>1 DEF IInv, RunQueueExact, Pids, Flags, Preemptible
  <2>4. Targets' /\ States'
    BY <2>1 DEF IInv, Targets, States
  <2>5. Creating'
    BY <2>1 DEF IInv, Creating
  <2>6. Reaping' /\ Releasing'
    BY <2>1 DEF IInv, Reaping, Releasing
  <2>7. RefcountExact'
    BY SMT, <2>1 DEF IInv, RefcountExact, Holders, CreationRef
  <2> QED BY <2>2, <2>3, <2>4, <2>5, <2>6, <2>7 DEF IInv
<1> QED BY <1>2, <1>3, <1>4, <1>5, IdleStep, TimerStep DEF Next

(* The inductive invariant holds in every reachable state. *)
THEOREM Invariance == Spec => []IInv
BY InitInv, NextInv, PTL DEF Spec

(* The thread structures stay well typed, whatever the threads call. *)
THEOREM TypeCorrect == Spec => []TypeOK
<1>1. IInv => TypeOK
  BY DEF IInv
<1> QED BY <1>1, Invariance, PTL

(* schedule, activate_thread and exit keep the run queue exact. *)
THEOREM RunQueueCorrect == Spec => []RunQueueExact
<1>1. IInv => RunQueueExact
  BY DEF IInv
<1> QED BY <1>1, Invariance, PTL

(* get_thread and put_thread count the references exactly. *)
THEOREM Counting == Spec => []RefcountExact
<1>1. IInv => RefcountExact
  BY DEF IInv
<1> QED BY <1>1, Invariance, PTL

(* release_thread frees no thread that anything still points to. *)
THEOREM Lifetime == Spec => []NoUseAfterFree
<1>1. IInv => NoUseAfterFree
  <2> SUFFICES ASSUME IInv PROVE NoUseAfterFree
    OBVIOUS
  <2>1. threads \subseteq allocated /\ allocated \subseteq Thread
    BY DEF IInv, Targets, TypeOK
  <2>2. current_thread \in allocated \cup {bootstrap}
    BY <2>1 DEF IInv, TypeOK, SchedTypeOK, AnyThread, States
  <2>3. \A y \in Range(rr_active_list) : y \in Thread
    BY SMT DEF IInv, TypeOK, SchedTypeOK, Range
  <2>4. Range(rr_active_list) \subseteq allocated
    BY <2>1, <2>3 DEF IInv, RunQueueExact, States
  <2>5. \A t \in allocated \cup {bootstrap} : target[t] # NoThread => target[t] \in allocated
    BY <2>1 DEF IInv, Targets, AnyThread
  <2> QED BY <2>1, <2>2, <2>4, <2>5 DEF NoUseAfterFree
<1> QED BY <1>1, Invariance, PTL

(* The assertions of create_kthread, fork and exit never fail. *)
THEOREM Assertions == Spec => []AssertsHold
<1>1. IInv => AssertsHold
  BY DEF IInv, AssertsHold, Targets, States, At, AnyThread
<1> QED BY <1>1, Invariance, PTL

(* schedule never leaves a thread running with interrupts disabled. *)
THEOREM AlwaysPreemptible == Spec => []Preemptible
<1>1. IInv => Preemptible
  BY DEF IInv, Flags
<1> QED BY <1>1, Invariance, PTL
=============================================================================
