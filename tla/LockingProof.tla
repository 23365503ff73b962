---------------------------- MODULE LockingProof ----------------------------
(***************************************************************************)
(* Proofs about LockingClient, for any number of threads and monitors: its *)
(* invariants, and that it implements MonitorSpec.                         *)
(***************************************************************************)
EXTENDS LockingClient, SchedProof

(* Most leaves are for Zenon; those that need arithmetic, sequences or     *)
(* functional updates are given to SMT.                                    *)
USE ZenonT(60), SMTT(60)

-----------------------------------------------------------------------------
(* The inductive invariant. *)

(* What the program counter says about a thread. *)
PcOK ==
  \A t \in Thread :
    /\ pc[t] # "out" => at[t] \in Monitor
    /\ parked[t] => pc[t] \in {"lock", "relock"}
    /\ state[t] \in {"ACTIVE", "BLOCKED"}
    /\ state[t] = "BLOCKED" => pc[t] \in {"lock", "relock"}

(* Only a thread that is about to call schedule() runs while it is BLOCKED.*)
RunningIsActive ==
  \A t \in Thread : t = current_thread /\ ~parked[t] => state[t] = "ACTIVE"

(* The threads in the queue of a mutex are asleep in its mutex_lock.       *)
MutexQueues ==
  \A m \in Monitor :
    /\ NoRepeat(mutex_wq[m])
    /\ \A t \in Thread : t \in Range(mutex_wq[m]) =>
         state[t] = "BLOCKED" /\ at[t] = m /\ pc[t] \in {"lock", "relock"}

(* The threads in the queue of a condition are asleep in condition_wait.   *)
CondQueues ==
  \A m \in Monitor :
    /\ NoRepeat(cond_wq[m])
    /\ \A t \in Thread : t \in Range(cond_wq[m]) =>
         /\ state[t] = "BLOCKED" /\ at[t] = m /\ pc[t] = "relock" /\ frame[t] = m
         /\ t \notin Range(mutex_wq[m])

(* The threads on the list of a notify_all are in condition_wait on that   *)
(* condition, and those it has not reached are asleep and in no queue.     *)
Walks ==
  \A u \in Thread : pc[u] \in {"walk", "step"} =>
    /\ notifying[u] # << >>
    /\ NoRepeat(notifying[u])
    /\ \A t \in Thread : t \in Range(notifying[u]) =>
         at[t] = at[u] /\ pc[t] = "relock" /\ frame[t] = at[u]
    /\ \A t \in Thread : t \in Unnotified(u) =>
         /\ state[t] = "BLOCKED"
         /\ t \notin Range(mutex_wq[at[u]])
         /\ t \notin Range(cond_wq[at[u]])

(* A thread that sleeps can be reached by a waker.                         *)
SleepersReached ==
  \A t \in Thread : state[t] = "BLOCKED" =>
    \/ t \in Range(mutex_wq[at[t]])
    \/ t \in Range(cond_wq[at[t]])
    \/ \E u \in Thread : t \in Unnotified(u)

IInv ==
  /\ TypeOK /\ RunQueueExact /\ PcOK /\ RunningIsActive /\ MutualExclusion
  /\ MutexQueues /\ CondQueues /\ Walks /\ NoLostWakeup /\ SleepersReached

-----------------------------------------------------------------------------
(* Scheduling steps. *)

(* A call of schedule() changes no thread's state and puts an ACTIVE thread*)
(* on the processor.                                                       *)
LEMMA ScheduleEffect ==
  ASSUME IInv, NEW e \in 0..ElapsedMax, NEW flag \in BOOLEAN,
         schedule(state, e, flag)
  PROVE  /\ SchedTypeOK'
         /\ RunQueueExact'
         /\ \A t \in Thread : state'[t] = state[t]
         /\ \A t \in Thread : t = current_thread' => state[t] = "ACTIVE"
<1>1. SchedTypeOK /\ state \in [AnyThread -> ThreadState] /\ QueueExact(state)
  BY DEF IInv, TypeOK, LockTypeOK, SchedTypeOK, RunQueueExact, QueueExact, NoRepeat
<1>2. SchedTypeOK' /\ RunQueueExact'
  BY <1>1, ScheduleType, ScheduleRunQueue
<1>3. \A t \in Thread : state'[t] = state[t]
  BY <1>1 DEF schedule, switch_to, preempt_thread, place_thread, IInv, PcOK, SchedTypeOK, AnyThread
<1>4. ASSUME NEW t \in Thread, t = current_thread'  PROVE  state[t] = "ACTIVE"
  <2>1. CASE rr_active_list = << >>
    BY <1>4, <2>1, SchedAssumption DEF schedule, switch_to, preempt_thread, place_thread
  <2>2. CASE rr_active_list # << >>
    <3>1. Head(rr_active_list) \in Range(rr_active_list)
      BY <1>1, <2>2, TailRange DEF QueueExact, SchedTypeOK
    <3>2. t = Head(rr_active_list)
      BY <1>1, <1>4, <2>2 DEF schedule, switch_to, preempt_thread, place_thread
    <3> QED BY <1>1, <3>1, <3>2 DEF QueueExact
  <2> QED BY <2>1, <2>2
<1> QED BY <1>2, <1>3, <1>4

(* A step that changes only what schedule() changes preserves IInv.        *)
LEMMA ScheduleStep ==
  ASSUME IInv, SchedTypeOK', RunQueueExact', RunningIsActive',
         \A t \in Thread : state'[t] = state[t],
         parked' \in [Thread -> BOOLEAN], \A t \in Thread : parked'[t] => parked[t],
         UNCHANGED <<pc, lockVars, at>>
  PROVE  IInv'
<1> USE DEF lockVars
<1>0. mutex_wq' = mutex_wq /\ cond_wq' = cond_wq /\ notifying' = notifying
      /\ pc' = pc /\ at' = at /\ frame' = frame /\ mutex_state' = mutex_state
  OBVIOUS
<1>1. TypeOK'
  BY DEF IInv, TypeOK, LockTypeOK
<1>2. PcOK'
  BY DEF IInv, PcOK
<1>3. MutualExclusion'
  BY SMT, <1>0 DEF IInv, MutualExclusion, Inside
<1>4. MutexQueues'
  BY SMT, <1>0 DEF IInv, MutexQueues
<1>5. CondQueues'
  BY SMT, <1>0 DEF IInv, CondQueues
<1>6. \A u \in Thread : Unnotified(u)' = Unnotified(u)
  BY <1>0 DEF Unnotified
<1>7. Walks'
  BY SMTT(60), <1>0, <1>6 DEF IInv, Walks
<1>8. NoLostWakeup'
  BY SMT, <1>0 DEF IInv, NoLostWakeup, Trying
<1>9. SleepersReached'
  BY <1>0, <1>6 DEF IInv, SleepersReached
<1> QED BY <1>1, <1>2, <1>3, <1>4, <1>5, <1>7, <1>8, <1>9 DEF IInv

(* The timer and the idle loop. *)
LEMMA TimerStep ==
  ASSUME IInv, Timer, UNCHANGED at
  PROVE  IInv'
<1> DEFINE e == IF current_thread # bootstrap /\ elapsed < ElapsedMax
                THEN elapsed + 1 ELSE elapsed
<1>1. SchedTypeOK /\ TypeOK
  BY DEF IInv, TypeOK, LockTypeOK
<1>2. e \in 0..ElapsedMax
  BY SMT, <1>1, ElapsedMaxType DEF SchedTypeOK
<1> HIDE DEF e
<1>3. CASE need_resched(e)
  <2>1. schedule(state, e, TRUE)
    BY <1>3 DEF Timer, TimerInterrupt, e
  <2>2. /\ SchedTypeOK' /\ RunQueueExact'
        /\ \A t \in Thread : state'[t] = state[t]
        /\ \A t \in Thread : t = current_thread' => state[t] = "ACTIVE"
    BY <1>2, <2>1, ScheduleEffect
  <2>3. RunningIsActive'
    BY <2>2 DEF RunningIsActive
  <2> QED BY <1>1, <2>2, <2>3, ScheduleStep DEF Timer, TypeOK, LockTypeOK
<1>4. CASE ~need_resched(e)
  <2>1. /\ elapsed' = e
        /\ UNCHANGED <<current_thread, state, rr_active_list, irq, saved_irq, parked>>
    BY <1>4 DEF Timer, TimerInterrupt, e
  <2>2. SchedTypeOK' /\ RunQueueExact' /\ RunningIsActive'
    BY <1>1, <1>2, <2>1 DEF SchedTypeOK, IInv, RunQueueExact, RunningIsActive
  <2> QED BY <1>1, <2>1, <2>2, ScheduleStep DEF Timer, TypeOK, LockTypeOK
<1> QED BY <1>3, <1>4

LEMMA IdleStep ==
  ASSUME IInv, idle, UNCHANGED at
  PROVE  IInv'
<1>1. TypeOK /\ SchedTypeOK
  BY DEF IInv, TypeOK, LockTypeOK
<1>2. /\ SchedTypeOK' /\ RunQueueExact'
      /\ \A t \in Thread : state'[t] = state[t]
      /\ \A t \in Thread : t = current_thread' => state[t] = "ACTIVE"
  BY <1>1, ScheduleEffect DEF idle, SchedTypeOK
<1>3. RunningIsActive'
  BY <1>2 DEF RunningIsActive
<1> QED BY <1>1, <1>2, <1>3, ScheduleStep DEF idle, TypeOK, LockTypeOK

LEMMA ParkStep ==
  ASSUME IInv, NEW t \in Thread, Park(t), UNCHANGED at
  PROVE  IInv'
<1>1. TypeOK /\ SchedTypeOK
  BY DEF IInv, TypeOK, LockTypeOK
<1>2. /\ SchedTypeOK' /\ RunQueueExact'
      /\ \A x \in Thread : state'[x] = state[x]
      /\ \A x \in Thread : x = current_thread' => state[x] = "ACTIVE"
  BY <1>1, ScheduleEffect DEF Park, SchedTypeOK
<1>3. RunningIsActive'
  BY <1>2 DEF RunningIsActive
<1>4. parked' \in [Thread -> BOOLEAN] /\ \A x \in Thread : parked'[x] => parked[x]
  BY <1>1 DEF Park, TypeOK, LockTypeOK
<1> QED BY <1>1, <1>2, <1>3, <1>4, ScheduleStep DEF Park

-----------------------------------------------------------------------------
(* The calls of the clients. *)

LEMMA EnterStep ==
  ASSUME IInv, NEW t \in Thread, NEW m \in Monitor, Enter(t, m)
  PROVE  IInv'
<1>0. /\ pc[t] = "out" /\ current_thread = t /\ ~parked[t]
      /\ pc' = [pc EXCEPT ![t] = "lock"] /\ at' = [at EXCEPT ![t] = m]
      /\ UNCHANGED <<current_thread, state, rr_active_list, elapsed, irq, saved_irq,
                     parked, mutex_state, mutex_wq, cond_wq, frame, notifying>>
  BY DEF Enter, At, Goto, schedVars, lockVars
<1>1. TypeOK'
  BY <1>0 DEF IInv, TypeOK, LockTypeOK, SchedTypeOK, Label
<1>2. RunQueueExact' /\ RunningIsActive'
  BY <1>0 DEF IInv, RunQueueExact, RunningIsActive
<1>3. PcOK'
  BY <1>0 DEF IInv, TypeOK, PcOK, RunningIsActive
<1>4. \A x \in Thread : /\ x # t => pc'[x] = pc[x] /\ at'[x] = at[x]
                        /\ pc'[t] = "lock" /\ at'[t] = m
  BY <1>0 DEF IInv, TypeOK
<1>5. MutualExclusion'
  BY SMT, <1>0, <1>4 DEF IInv, MutualExclusion, Inside
<1>6. MutexQueues'
  BY SMT, <1>0, <1>4 DEF IInv, MutexQueues
<1>7. CondQueues'
  BY SMT, <1>0, <1>4 DEF IInv, CondQueues
<1>8. \A u \in Thread : Unnotified(u)' = Unnotified(u)
  BY <1>0, <1>4 DEF Unnotified
<1>9. Walks'
  BY SMTT(60), <1>0, <1>4, <1>8 DEF IInv, Walks
<1>10. NoLostWakeup'
  BY SMT, <1>0, <1>4 DEF IInv, NoLostWakeup, Trying
<1>11. SleepersReached'
  BY <1>0, <1>4, <1>8 DEF IInv, SleepersReached, RunningIsActive
<1> QED BY <1>1, <1>2, <1>3, <1>5, <1>6, <1>7, <1>9, <1>10, <1>11 DEF IInv

(* mutex_lock, by a caller or at the end of condition_wait: the mutex is   *)
(* free and the thread takes it.                                           *)
LEMMA AcquireStep ==
  ASSUME IInv, NEW t \in Thread, Lock(t) \/ Relock(t),
         mutex_state[at[t]] = "UNLOCKED"
  PROVE  IInv'
<1> DEFINE m == at[t]
<1>0. /\ pc[t] \in {"lock", "relock"} /\ current_thread = t /\ ~parked[t]
      /\ pc' = [pc EXCEPT ![t] = "in"]
      /\ mutex_state' = [mutex_state EXCEPT ![m] = "LOCKED"]
      /\ frame' = [frame EXCEPT ![t] = NoMonitor]
      /\ UNCHANGED <<current_thread, state, rr_active_list, elapsed, irq, saved_irq,
                     parked, mutex_wq, cond_wq, notifying, at>>
  BY DEF Lock, Relock, At, Goto, schedVars, mutex_lock
<1>m. m \in Monitor
  BY <1>0 DEF IInv, PcOK
<1>1. TypeOK'
  BY <1>0, <1>m DEF IInv, TypeOK, LockTypeOK, SchedTypeOK, Label
<1>2. RunQueueExact' /\ RunningIsActive'
  BY <1>0 DEF IInv, RunQueueExact, RunningIsActive
<1>3. PcOK'
  BY <1>0 DEF IInv, TypeOK, PcOK, RunningIsActive
<1>4. /\ \A x \in Thread : x # t => pc'[x] = pc[x] /\ frame'[x] = frame[x]
      /\ pc'[t] = "in"
      /\ \A n \in Monitor : n # m => mutex_state'[n] = mutex_state[n]
      /\ mutex_state'[m] = "LOCKED"
  BY <1>0, <1>m DEF IInv, TypeOK, LockTypeOK
<1>5. state[t] = "ACTIVE"
  BY <1>0 DEF IInv, RunningIsActive
<1>6. MutualExclusion'
  BY SMTT(30), <1>0, <1>4, <1>m DEF IInv, MutualExclusion, Inside
<1>7. MutexQueues'
  BY SMT, <1>0, <1>4, <1>5 DEF IInv, MutexQueues
<1>8. CondQueues'
  BY SMT, <1>0, <1>4, <1>5 DEF IInv, CondQueues
<1>9. \A u \in Thread : Unnotified(u)' = Unnotified(u)
  BY <1>0, <1>4 DEF Unnotified
<1>10. ASSUME NEW u \in Thread, pc[u] \in {"walk", "step"}  PROVE  at[u] # m
  BY SMT, <1>m, <1>10 DEF IInv, MutualExclusion, Inside
<1>11. Walks'
  BY SMTT(30), <1>0, <1>4, <1>9, <1>10 DEF IInv, Walks
<1>12. NoLostWakeup'
  BY SMT, <1>0, <1>4 DEF IInv, NoLostWakeup, Trying
<1>13. SleepersReached'
  BY <1>0, <1>4, <1>9 DEF IInv, SleepersReached
<1> QED BY <1>1, <1>2, <1>3, <1>6, <1>7, <1>8, <1>11, <1>12, <1>13 DEF IInv

(* mutex_lock: the mutex is taken and the thread queues up.                *)
LEMMA BlockStep ==
  ASSUME IInv, NEW t \in Thread, Lock(t) \/ Relock(t),
         mutex_state[at[t]] # "UNLOCKED"
  PROVE  IInv'
<1> DEFINE m == at[t]
<1>0. /\ pc[t] \in {"lock", "relock"} /\ current_thread = t /\ ~parked[t]
      /\ state' = [state EXCEPT ![t] = "BLOCKED"]
      /\ mutex_wq' = [mutex_wq EXCEPT ![m] = Append(mutex_wq[m], t)]
      /\ parked' = [parked EXCEPT ![t] = TRUE]
      /\ UNCHANGED <<current_thread, rr_active_list, elapsed, irq, saved_irq,
                     pc, mutex_state, cond_wq, frame, notifying, at>>
  BY DEF Lock, Relock, At, mutex_lock
<1>m. m \in Monitor
  BY <1>0 DEF IInv, PcOK
<1>5. state[t] = "ACTIVE"
  BY <1>0 DEF IInv, RunningIsActive
<1>a. /\ mutex_wq[m] \in Seq(Thread) /\ NoRepeat(mutex_wq[m])
      /\ t \notin Range(mutex_wq[m])
  BY <1>m, <1>5 DEF IInv, TypeOK, LockTypeOK, MutexQueues
<1>b. /\ Append(mutex_wq[m], t) \in Seq(Thread) /\ NoRepeat(Append(mutex_wq[m], t))
      /\ Range(Append(mutex_wq[m], t)) = Range(mutex_wq[m]) \cup {t}
  BY SMT, <1>a, AppendRange
<1>4. /\ \A x \in Thread : x # t => state'[x] = state[x]
      /\ state'[t] = "BLOCKED"
      /\ \A n \in Monitor : n # m => mutex_wq'[n] = mutex_wq[n]
      /\ mutex_wq'[m] = Append(mutex_wq[m], t)
  BY <1>0, <1>m DEF IInv, TypeOK, LockTypeOK, SchedTypeOK, AnyThread
<1>1. TypeOK'
  BY <1>0, <1>m, <1>b DEF IInv, TypeOK, LockTypeOK, SchedTypeOK, ThreadState, AnyThread
<1>2. RunQueueExact' /\ RunningIsActive'
  BY SMTT(60), <1>0, <1>4 DEF IInv, RunQueueExact, RunningIsActive, TypeOK, LockTypeOK
<1>3. PcOK'
  BY SMTT(60), <1>0, <1>4 DEF IInv, TypeOK, LockTypeOK, PcOK
<1>6. MutualExclusion'
  BY SMTT(60), <1>0 DEF IInv, MutualExclusion, Inside
<1>7. MutexQueues'
  BY SMTT(60), <1>0, <1>4, <1>b DEF IInv, MutexQueues
<1>8. CondQueues'
  BY SMT, <1>0, <1>4, <1>5, <1>b DEF IInv, CondQueues
<1>9. \A u \in Thread : Unnotified(u)' = Unnotified(u)
  BY <1>0 DEF Unnotified
<1>11. Walks'
  BY SMT, <1>0, <1>4, <1>5, <1>9, <1>b DEF IInv, Walks
<1>l. mutex_state'[m] = "LOCKED"
  BY <1>0, <1>m DEF IInv, TypeOK, LockTypeOK
<1>12. NoLostWakeup'
  BY SMT, <1>0, <1>4, <1>l, <1>5 DEF IInv, NoLostWakeup, Trying
<1>13. SleepersReached'
  <2> SUFFICES ASSUME NEW x \in Thread, x # t, state[x] = "BLOCKED"
               PROVE  \/ x \in Range(mutex_wq'[at[x]])
                      \/ x \in Range(cond_wq[at[x]])
                      \/ \E u \in Thread : x \in Unnotified(u)
    BY SMTT(30), <1>0, <1>4, <1>9, <1>b DEF SleepersReached
  <2>1. at[x] \in Monitor
    BY DEF IInv, PcOK
  <2>2. Range(mutex_wq[at[x]]) \subseteq Range(mutex_wq'[at[x]])
    BY <1>4, <1>b, <2>1
  <2> QED BY <2>2 DEF IInv, SleepersReached
<1> QED BY <1>1, <1>2, <1>3, <1>6, <1>7, <1>8, <1>11, <1>12, <1>13 DEF IInv

(* Waking the first thread of a queue of sleeping threads: it becomes      *)
(* ACTIVE, joins the run queue and no other thread is affected.            *)
LEMMA NotifyEffect ==
  ASSUME SchedTypeOK, NEW st \in [AnyThread -> ThreadState], QueueExact(st),
         NEW q \in Seq(Thread), NoRepeat(q),
         \A x \in Thread : x \in Range(q) => st[x] = "BLOCKED" /\ x # current_thread,
         wait_queue_notify(q, st), UNCHANGED current_thread
  PROVE  /\ state' \in [AnyThread -> ThreadState]
         /\ rr_active_list' \in Seq(Thread)
         /\ RunQueueExact'
         /\ Pop(q) \in Seq(Thread) /\ NoRepeat(Pop(q))
         /\ q = << >> => state' = st /\ Range(q) = {} /\ Range(Pop(q)) = {}
         /\ q # << >> => /\ Head(q) \in Thread
                         /\ Head(q) \in Range(q)
                         /\ Range(Pop(q)) = Range(q) \ {Head(q)}
                         /\ state' = [st EXCEPT ![Head(q)] = "ACTIVE"]
<1>1. CASE q = << >>
  <2>1. state' = st /\ rr_active_list' = rr_active_list /\ Pop(q) = q
    BY <1>1 DEF wait_queue_notify, Pop
  <2>2. RunQueueExact'
    BY <2>1 DEF QueueExact, RunQueueExact, NoRepeat
  <2> QED BY <1>1, <2>1, <2>2, EmptyRange DEF SchedTypeOK
<1>2. CASE q # << >>
  <2> DEFINE h == Head(q)
  <2>1. /\ h \in Thread /\ h \in Range(q) /\ Tail(q) \in Seq(Thread)
        /\ Range(Tail(q)) = Range(q) \ {h} /\ NoRepeat(Tail(q))
    BY <1>2, TailRange
  <2>2. st[h] = "BLOCKED" /\ h # current_thread
    BY <2>1
  <2>3. /\ state' = [st EXCEPT ![h] = "ACTIVE"]
        /\ rr_active_list' = Append(rr_active_list, h)
    BY <1>2, <2>2 DEF wait_queue_notify, ActivateState, ActivateQueue
  <2>4. h \notin Range(rr_active_list)
    BY <2>1, <2>2 DEF QueueExact
  <2> HIDE DEF h
  <2>5. /\ rr_active_list' \in Seq(Thread)
        /\ Range(rr_active_list') = Range(rr_active_list) \cup {h}
        /\ NoRepeat(rr_active_list')
    BY SMT, <2>1, <2>3, <2>4, AppendRange DEF QueueExact, SchedTypeOK
  <2>6. state' \in [AnyThread -> ThreadState]
    BY <2>3 DEF ThreadState
  <2>7. \A x \in Thread :
          (state'[x] = "ACTIVE" /\ x # current_thread') <=> x \in Range(rr_active_list')
    BY <2>1, <2>2, <2>3, <2>5 DEF QueueExact, AnyThread
  <2>8. RunQueueExact'
    BY <2>5, <2>7 DEF RunQueueExact, NoRepeat
  <2> QED BY <1>2, <2>1, <2>3, <2>5, <2>6, <2>8 DEF Pop, h
<1> QED BY <1>1, <1>2

LEMMA UnnotifiedRange ==
  ASSUME IInv, NEW u \in Thread, NEW t \in Unnotified(u)
  PROVE  t \in Range(notifying[u]) /\ pc[u] \in {"walk", "step"}
<1>1. pc[u] \in {"walk", "step"}
  BY DEF Unnotified
<1>2. /\ notifying[u] \in Seq(Thread) /\ notifying[u] # << >>
      /\ NoRepeat(notifying[u])
  BY <1>1 DEF IInv, TypeOK, LockTypeOK, Walks
<1>3. Range(Tail(notifying[u])) \subseteq Range(notifying[u])
  BY <1>2, TailRange
<1> QED BY <1>1, <1>3 DEF Unnotified

LEMMA UnlockStep ==
  ASSUME IInv, NEW t \in Thread, Unlock(t)
  PROVE  IInv'
<1>p. PICK m, q, h : m = at[t] /\ q = mutex_wq[m] /\ h = Head(q)
  OBVIOUS
<1>0. /\ pc[t] = "in" /\ current_thread = t /\ ~parked[t]
      /\ mutex_state' = [mutex_state EXCEPT ![m] = "UNLOCKED"]
      /\ wait_queue_notify(q, state)
      /\ mutex_wq' = [mutex_wq EXCEPT ![m] = Pop(q)]
      /\ pc' = [pc EXCEPT ![t] = "out"]
      /\ at' = [at EXCEPT ![t] = NoMonitor]
      /\ UNCHANGED <<current_thread, elapsed, irq, saved_irq, parked, cond_wq,
                     frame, notifying>>
  BY <1>p DEF Unlock, At, Goto, mutex_unlock
<1>m. m \in Monitor
  BY <1>0, <1>p DEF IInv, PcOK
<1>t. TypeOK /\ LockTypeOK /\ SchedTypeOK
  BY DEF IInv, TypeOK, LockTypeOK
<1>5. state[t] = "ACTIVE"
  BY <1>0 DEF IInv, RunningIsActive
<1>a. /\ q \in Seq(Thread) /\ NoRepeat(q) /\ QueueExact(state)
      /\ state \in [AnyThread -> ThreadState]
      /\ \A x \in Thread : x \in Range(q) => state[x] = "BLOCKED" /\ x # current_thread
  BY SMTT(30), <1>m, <1>0, <1>5, <1>p, <1>t DEF IInv, LockTypeOK, SchedTypeOK, MutexQueues,
     RunQueueExact, QueueExact, NoRepeat
<1>b. /\ state' \in [AnyThread -> ThreadState]
      /\ rr_active_list' \in Seq(Thread)
      /\ RunQueueExact'
      /\ Pop(q) \in Seq(Thread) /\ NoRepeat(Pop(q))
      /\ q = << >> => state' = state /\ Range(q) = {} /\ Range(Pop(q)) = {}
      /\ q # << >> => /\ h \in Thread /\ h \in Range(q)
                      /\ Range(Pop(q)) = Range(q) \ {h}
                      /\ state' = [state EXCEPT ![h] = "ACTIVE"]
  BY SMTT(30), <1>0, <1>a, <1>p, <1>t, NotifyEffect
<1>1. TypeOK'
  BY <1>0, <1>m, <1>b, <1>t DEF TypeOK, LockTypeOK, SchedTypeOK, Label
<1>4. /\ \A x \in Thread : x # t => pc'[x] = pc[x] /\ at'[x] = at[x]
      /\ pc'[t] = "out"
      /\ \A n \in Monitor : n # m => mutex_wq'[n] = mutex_wq[n] /\ mutex_state'[n] = mutex_state[n]
      /\ mutex_wq'[m] = Pop(q) /\ mutex_state'[m] = "UNLOCKED"
      /\ mutex_wq[m] = q
  BY <1>0, <1>m, <1>p, <1>t DEF TypeOK, LockTypeOK
<1>c. /\ \A x \in Thread : x \in Range(Pop(q)) => x \in Range(q) /\ state'[x] = state[x]
      /\ \A x \in Thread : x \notin Range(q) => state'[x] = state[x]
      /\ \A x \in Thread : x \in Range(q) /\ x \notin Range(Pop(q)) => state'[x] = "ACTIVE"
      /\ state'[t] = "ACTIVE"
  BY <1>a, <1>b, <1>5, <1>0 DEF AnyThread
<1>d. \A x \in Thread : x \in Range(q) => at[x] = m /\ pc[x] \in {"lock", "relock"} /\ x # t
  BY <1>m, <1>4, <1>0 DEF IInv, MutexQueues
<1>2. RunningIsActive'
  BY <1>0, <1>c DEF IInv, RunningIsActive
<1>3. PcOK'
  BY <1>0, <1>4, <1>c, <1>d DEF IInv, PcOK
<1>6. MutualExclusion'
  BY SMT, <1>0, <1>4, <1>m, <1>p DEF IInv, MutualExclusion, Inside
<1>7. MutexQueues'
  <2>1. ASSUME NEW n \in Monitor, NEW x \in Thread, x \in Range(mutex_wq'[n])
        PROVE  state'[x] = "BLOCKED" /\ at'[x] = n /\ pc'[x] \in {"lock", "relock"}
    BY SMTT(60), <1>0, <1>4, <1>c, <1>d, <2>1, <1>m DEF IInv, MutexQueues
  <2> QED BY SMT, <1>4, <1>b, <2>1 DEF IInv, MutexQueues
<1>8. CondQueues'
  BY SMTT(60), <1>0, <1>4, <1>c, <1>d, <1>m, <1>p DEF IInv, CondQueues
<1>9. \A u \in Thread : Unnotified(u)' = Unnotified(u)
  BY <1>0, <1>4 DEF Unnotified
<1>10. ASSUME NEW u \in Thread, pc[u] \in {"walk", "step"}
       PROVE  at[u] # m /\ at[u] \in Monitor /\ u # t
  BY SMTT(60), <1>0, <1>m, <1>p, <1>10 DEF IInv, MutualExclusion, Inside, PcOK
<1>11. Walks'
  BY SMT, <1>0, <1>4, <1>9, <1>10, <1>c, <1>d, <1>p, UnnotifiedRange DEF IInv, Walks
<1>12. NoLostWakeup'
  <2>1. q # << >> => Trying(h, m)'
    BY <1>4, <1>b, <1>d, <1>0, <1>t DEF Trying, SchedTypeOK, AnyThread
  <2>2. q = << >> => mutex_wq'[m] = << >>
    BY <1>4 DEF Pop
  <2>3. ASSUME NEW n \in Monitor, n # m, NEW x \in Thread, Trying(x, n)
        PROVE  Trying(x, n)'
    BY <1>0, <1>4, <1>c, <1>d, <2>3 DEF Trying
  <2> QED BY <1>4, <1>b, <2>1, <2>2, <2>3 DEF IInv, NoLostWakeup
<1>13. SleepersReached'
  <2> SUFFICES ASSUME NEW x \in Thread, x # t, state[x] = "BLOCKED", state'[x] = "BLOCKED"
               PROVE  \/ x \in Range(mutex_wq'[at[x]])
                      \/ x \in Range(cond_wq[at[x]])
                      \/ \E u \in Thread : x \in Unnotified(u)
    BY SMTT(30), <1>0, <1>4, <1>9, <1>c, <1>a DEF SleepersReached
  <2>1. at[x] \in Monitor
    BY DEF IInv, PcOK
  <2>2. x \in Range(mutex_wq[at[x]]) => x \in Range(mutex_wq'[at[x]])
    BY <1>4, <1>c, <2>1
  <2> QED BY <2>2 DEF IInv, SleepersReached
<1> QED BY <1>1, <1>2, <1>3, <1>6, <1>7, <1>8, <1>11, <1>12, <1>13, <1>b DEF IInv

LEMMA WaitStep ==
  ASSUME IInv, NEW t \in Thread, Wait(t)
  PROVE  IInv'
<1>p. PICK m, q, h, st, c :
        /\ m = at[t] /\ q = mutex_wq[m] /\ h = Head(q)
        /\ st = [state EXCEPT ![t] = "BLOCKED"] /\ c = cond_wq[m]
  OBVIOUS
<1>0. /\ pc[t] = "in" /\ current_thread = t /\ ~parked[t]
      /\ cond_wq' = [cond_wq EXCEPT ![m] = Append(c, t)]
      /\ mutex_state' = [mutex_state EXCEPT ![m] = "UNLOCKED"]
      /\ wait_queue_notify(q, st)
      /\ mutex_wq' = [mutex_wq EXCEPT ![m] = Pop(q)]
      /\ frame' = [frame EXCEPT ![t] = m]
      /\ parked' = [parked EXCEPT ![t] = TRUE]
      /\ pc' = [pc EXCEPT ![t] = "relock"]
      /\ UNCHANGED <<current_thread, elapsed, irq, saved_irq, notifying, at>>
  BY <1>p DEF Wait, At, Goto, condition_wait
<1>m. m \in Monitor
  BY <1>0, <1>p DEF IInv, PcOK
<1>t. TypeOK /\ LockTypeOK /\ SchedTypeOK
  BY DEF IInv, TypeOK, LockTypeOK
<1>5. state[t] = "ACTIVE"
  BY <1>0 DEF IInv, RunningIsActive
<1>s. /\ st \in [AnyThread -> ThreadState] /\ st[t] = "BLOCKED"
      /\ \A x \in Thread : x # t => st[x] = state[x]
  BY <1>p, <1>t DEF SchedTypeOK, ThreadState, AnyThread
<1>q. QueueExact(st)
  BY <1>0, <1>s DEF IInv, RunQueueExact, QueueExact, NoRepeat
<1>d. \A x \in Thread : x \in Range(q) =>
        at[x] = m /\ pc[x] \in {"lock", "relock"} /\ x # t /\ state[x] = "BLOCKED"
  BY <1>m, <1>0, <1>p DEF IInv, MutexQueues
<1>a. /\ q \in Seq(Thread) /\ NoRepeat(q)
      /\ \A x \in Thread : x \in Range(q) => st[x] = "BLOCKED" /\ x # current_thread
  BY <1>m, <1>0, <1>d, <1>s, <1>p, <1>t DEF IInv, LockTypeOK, MutexQueues
<1>b. /\ state' \in [AnyThread -> ThreadState]
      /\ rr_active_list' \in Seq(Thread)
      /\ RunQueueExact'
      /\ Pop(q) \in Seq(Thread) /\ NoRepeat(Pop(q))
      /\ q = << >> => state' = st /\ Range(q) = {} /\ Range(Pop(q)) = {}
      /\ q # << >> => /\ h \in Thread /\ h \in Range(q)
                      /\ Range(Pop(q)) = Range(q) \ {h}
                      /\ state' = [st EXCEPT ![h] = "ACTIVE"]
  <2>1. wait_queue_notify(q, st) /\ UNCHANGED current_thread /\ h = Head(q)
    BY <1>0, <1>p
  <2> QED BY <1>a, <1>q, <1>s, <1>t, <2>1, NotifyEffect
<1>e. /\ c \in Seq(Thread) /\ NoRepeat(c) /\ t \notin Range(c)
  BY <1>m, <1>p, <1>t, <1>5 DEF IInv, LockTypeOK, CondQueues
<1>f. /\ Append(c, t) \in Seq(Thread) /\ NoRepeat(Append(c, t))
      /\ Range(Append(c, t)) = Range(c) \cup {t}
  BY SMT, <1>e, AppendRange
<1>1. TypeOK'
  <2>1. SchedTypeOK'
    BY <1>0, <1>b, <1>t DEF SchedTypeOK
  <2>2. /\ mutex_wq' \in [Monitor -> Seq(Thread)]
        /\ cond_wq' \in [Monitor -> Seq(Thread)]
    BY <1>0, <1>b, <1>f, <1>m, <1>t DEF LockTypeOK
  <2> QED BY <1>0, <1>m, <1>t, <2>1, <2>2 DEF TypeOK, LockTypeOK, Label
<1>4. /\ \A x \in Thread : x # t => pc'[x] = pc[x] /\ frame'[x] = frame[x] /\ parked'[x] = parked[x]
      /\ pc'[t] = "relock" /\ frame'[t] = m /\ parked'[t]
      /\ \A n \in Monitor : n # m => /\ mutex_wq'[n] = mutex_wq[n]
                                     /\ mutex_state'[n] = mutex_state[n]
                                     /\ cond_wq'[n] = cond_wq[n]
      /\ mutex_wq'[m] = Pop(q) /\ mutex_state'[m] = "UNLOCKED" /\ cond_wq'[m] = Append(c, t)
      /\ mutex_wq[m] = q /\ cond_wq[m] = c
  BY <1>0, <1>m, <1>p, <1>t DEF TypeOK, LockTypeOK
<1>c. /\ \A x \in Thread : x \in Range(Pop(q)) => x \in Range(q) /\ state'[x] = state[x]
      /\ \A x \in Thread : x \notin Range(q) /\ x # t => state'[x] = state[x]
      /\ \A x \in Thread : x \in Range(q) /\ x \notin Range(Pop(q)) => state'[x] = "ACTIVE"
      /\ state'[t] = "BLOCKED"
  BY <1>a, <1>b, <1>d, <1>s DEF AnyThread
<1>x. /\ pc[t] = "in" /\ current_thread = t /\ ~parked[t]
      /\ current_thread' = t /\ notifying' = notifying /\ at' = at
  BY <1>0
<1>2. RunningIsActive'
  BY <1>x, <1>4 DEF RunningIsActive
<1>3. PcOK'
  BY SMTT(30), <1>x, <1>4, <1>c, <1>d, <1>m, <1>p DEF IInv, PcOK
<1>6. MutualExclusion'
  BY SMTT(60), <1>x, <1>4, <1>m, <1>p DEF IInv, MutualExclusion, Inside
<1>7. MutexQueues'
  <2>1. ASSUME NEW n \in Monitor, NEW x \in Thread, x \in Range(mutex_wq'[n])
        PROVE  state'[x] = "BLOCKED" /\ at'[x] = n /\ pc'[x] \in {"lock", "relock"}
    BY SMTT(30), <1>x, <1>4, <1>5, <1>c, <1>d, <2>1, <1>m DEF IInv, MutexQueues
  <2> QED BY SMTT(30), <1>4, <1>b, <2>1 DEF IInv, MutexQueues
<1>8. CondQueues'
  <2>1. ASSUME NEW n \in Monitor, NEW x \in Thread, x \in Range(cond_wq'[n])
        PROVE  /\ state'[x] = "BLOCKED" /\ at'[x] = n /\ pc'[x] = "relock" /\ frame'[x] = n
               /\ x \notin Range(mutex_wq'[n])
    <3>1. CASE x = t
      <4>1. n = m
        BY <1>4, <1>5, <2>1, <3>1 DEF IInv, CondQueues
      <4> QED BY SMTT(30), <1>x, <1>4, <1>c, <1>d, <1>p, <3>1, <4>1
    <3>2. CASE x # t
      <4>1. x \in Range(cond_wq[n])
        <5>1. CASE n = m
          <6>1. x \in Range(Append(c, t))
            BY <1>4, <2>1, <5>1
          <6> QED BY <1>4, <1>f, <3>2, <5>1, <6>1
        <5>2. CASE n # m
          BY <1>4, <2>1, <5>2
        <5> QED BY <5>1, <5>2
      <4>2. /\ state[x] = "BLOCKED" /\ at[x] = n /\ pc[x] = "relock" /\ frame[x] = n
            /\ x \notin Range(mutex_wq[n])
        BY <4>1 DEF IInv, CondQueues
      <4>3. x \notin Range(mutex_wq'[n])
        BY <1>4, <1>c, <4>2
      <4>4. x \notin Range(q)
        BY <1>4, <1>d, <4>2
      <4> QED BY <1>x, <1>4, <1>c, <3>2, <4>2, <4>3, <4>4
    <3> QED BY <3>1, <3>2
  <2>2. \A n \in Monitor : NoRepeat(cond_wq'[n])
    <3>1. \A n \in Monitor : NoRepeat(cond_wq[n])
      BY DEF IInv, CondQueues
    <3>2. ASSUME NEW n \in Monitor  PROVE  NoRepeat(cond_wq'[n])
      BY <1>4, <1>f, <3>1
    <3> QED BY <3>2
  <2> QED BY <2>1, <2>2 DEF CondQueues
<1>9. \A u \in Thread : Unnotified(u)' = Unnotified(u)
  BY SMTT(60), <1>x, <1>4 DEF Unnotified
<1>10. ASSUME NEW u \in Thread, pc[u] \in {"walk", "step"}
       PROVE  at[u] # m /\ at[u] \in Monitor /\ u # t
  BY SMTT(60), <1>x, <1>m, <1>p, <1>10 DEF IInv, MutualExclusion, Inside, PcOK
<1>11. Walks'
  <2> SUFFICES ASSUME NEW u \in Thread, pc'[u] \in {"walk", "step"}
               PROVE  /\ notifying[u] # << >>
                      /\ NoRepeat(notifying[u])
                      /\ \A x \in Thread : x \in Range(notifying[u]) =>
                           at[x] = at[u] /\ pc'[x] = "relock" /\ frame'[x] = at[u]
                      /\ \A x \in Thread : x \in Unnotified(u)' =>
                           /\ state'[x] = "BLOCKED"
                           /\ x \notin Range(mutex_wq'[at[u]])
                           /\ x \notin Range(cond_wq'[at[u]])
    BY <1>x DEF Walks
  <2>1. u # t /\ pc[u] \in {"walk", "step"}
    BY <1>4
  <2>2. at[u] # m /\ at[u] \in Monitor
    BY <1>10, <2>1
  <2>3. /\ notifying[u] # << >> /\ NoRepeat(notifying[u])
        /\ \A x \in Thread : x \in Range(notifying[u]) =>
             at[x] = at[u] /\ pc[x] = "relock" /\ frame[x] = at[u]
        /\ \A x \in Thread : x \in Unnotified(u) =>
             /\ state[x] = "BLOCKED"
             /\ x \notin Range(mutex_wq[at[u]])
             /\ x \notin Range(cond_wq[at[u]])
    BY <2>1 DEF IInv, Walks
  <2>4. mutex_wq'[at[u]] = mutex_wq[at[u]] /\ cond_wq'[at[u]] = cond_wq[at[u]]
    BY <1>4, <2>2
  <2>5. ASSUME NEW x \in Thread, x \in Range(notifying[u])
        PROVE  /\ at[x] = at[u] /\ pc'[x] = "relock" /\ frame'[x] = at[u]
               /\ state'[x] = state[x]
    <3>1. at[x] = at[u] /\ pc[x] = "relock" /\ frame[x] = at[u]
      BY <2>3, <2>5
    <3>2. x # t /\ x \notin Range(q)
      BY <1>d, <1>x, <2>2, <3>1
    <3> QED BY <1>4, <1>c, <3>1, <3>2
  <2>6. ASSUME NEW x \in Thread, x \in Unnotified(u)'
        PROVE  x \in Unnotified(u) /\ x \in Range(notifying[u])
    BY <1>9, <2>6, UnnotifiedRange
  <2> QED BY <2>3, <2>4, <2>5, <2>6
<1>12. NoLostWakeup'
  <2>1. q # << >> => Trying(h, m)'
    BY <1>4, <1>b, <1>d, <1>x, <1>s DEF Trying, AnyThread
  <2>2. q = << >> => mutex_wq'[m] = << >>
    BY <1>4 DEF Pop
  <2>3. ASSUME NEW n \in Monitor, n # m, NEW x \in Thread, Trying(x, n)
        PROVE  Trying(x, n)'
    BY <1>x, <1>4, <1>c, <1>d, <2>3 DEF Trying
  <2> QED BY <1>4, <1>b, <2>1, <2>2, <2>3 DEF IInv, NoLostWakeup
<1>13. SleepersReached'
  <2>1. t \in Range(cond_wq'[at[t]])
    BY <1>4, <1>f, <1>p
  <2>2. ASSUME NEW x \in Thread, x # t, state'[x] = "BLOCKED"
        PROVE  \/ x \in Range(mutex_wq'[at[x]])
               \/ x \in Range(cond_wq'[at[x]])
               \/ \E u \in Thread : x \in Unnotified(u)
    <3>1. state[x] = "BLOCKED"
      BY <1>c, <1>d, <2>2
    <3>2. at[x] \in Monitor
      BY <3>1 DEF IInv, PcOK
    <3>3. /\ x \in Range(mutex_wq[at[x]]) => x \in Range(mutex_wq'[at[x]])
          /\ x \in Range(cond_wq[at[x]]) => x \in Range(cond_wq'[at[x]])
      <4>1. CASE at[x] = m
        <5>1. x \in Range(q) => x \in Range(Pop(q))
          BY <1>c, <2>2
        <5>2. x \in Range(c) => x \in Range(Append(c, t))
          BY <1>f
        <5> QED BY <1>4, <4>1, <5>1, <5>2
      <4>2. CASE at[x] # m
        BY <1>4, <3>2, <4>2
      <4> QED BY <4>1, <4>2
    <3> QED BY <3>1, <3>3 DEF IInv, SleepersReached
  <2> QED BY <1>x, <1>9, <2>1, <2>2 DEF SleepersReached
<1> QED BY <1>1, <1>2, <1>3, <1>6, <1>7, <1>8, <1>11, <1>12, <1>13, <1>b DEF IInv

(* condition_notify, with the mutex held or not. *)
LEMMA NotifyStep ==
  ASSUME IInv, NEW t \in Thread, NEW m \in Monitor,
         At(t, pc[t]), condition_notify(t, m, pc[t]), UNCHANGED at
  PROVE  IInv'
<1>p. PICK q, h : q = cond_wq[m] /\ h = Head(q)
  OBVIOUS
<1>t. TypeOK /\ LockTypeOK /\ SchedTypeOK
  BY DEF IInv, TypeOK, LockTypeOK
<1>0. /\ current_thread = t /\ ~parked[t]
      /\ wait_queue_notify(q, state)
      /\ cond_wq' = [cond_wq EXCEPT ![m] = Pop(q)]
      /\ UNCHANGED <<pc, current_thread, elapsed, irq, saved_irq, parked,
                     mutex_state, mutex_wq, frame, notifying, at>>
  BY <1>p, <1>t DEF At, Goto, condition_notify, TypeOK
<1>5. state[t] = "ACTIVE"
  BY <1>0 DEF IInv, RunningIsActive
<1>d. \A x \in Thread : x \in Range(q) =>
        /\ at[x] = m /\ pc[x] = "relock" /\ x # t /\ state[x] = "BLOCKED"
        /\ x \notin Range(mutex_wq[m])
  BY <1>5, <1>p DEF IInv, CondQueues
<1>a. /\ q \in Seq(Thread) /\ NoRepeat(q) /\ QueueExact(state)
      /\ state \in [AnyThread -> ThreadState]
  BY SMTT(30), <1>p, <1>t DEF IInv, LockTypeOK, SchedTypeOK, CondQueues, RunQueueExact, QueueExact, NoRepeat
<1>b. /\ state' \in [AnyThread -> ThreadState]
      /\ rr_active_list' \in Seq(Thread)
      /\ RunQueueExact'
      /\ Pop(q) \in Seq(Thread) /\ NoRepeat(Pop(q))
      /\ q = << >> => state' = state /\ Range(q) = {} /\ Range(Pop(q)) = {}
      /\ q # << >> => /\ h \in Thread /\ h \in Range(q)
                      /\ Range(Pop(q)) = Range(q) \ {h}
                      /\ state' = [state EXCEPT ![h] = "ACTIVE"]
  BY SMT, <1>0, <1>a, <1>d, <1>p, <1>t, NotifyEffect
<1>1. TypeOK'
  BY <1>0, <1>b, <1>t DEF TypeOK, LockTypeOK, SchedTypeOK
<1>4. /\ \A n \in Monitor : n # m => cond_wq'[n] = cond_wq[n]
      /\ cond_wq'[m] = Pop(q) /\ cond_wq[m] = q
  BY <1>0, <1>p, <1>t DEF LockTypeOK
<1>c. /\ \A x \in Thread : x \in Range(Pop(q)) => x \in Range(q) /\ state'[x] = state[x]
      /\ \A x \in Thread : x \notin Range(q) => state'[x] = state[x]
      /\ \A x \in Thread : x \in Range(q) /\ x \notin Range(Pop(q)) => state'[x] = "ACTIVE"
  BY <1>a, <1>b DEF AnyThread
<1>x. /\ current_thread = t /\ ~parked[t] /\ current_thread' = t
      /\ pc' = pc /\ parked' = parked /\ mutex_state' = mutex_state
      /\ mutex_wq' = mutex_wq /\ frame' = frame /\ notifying' = notifying /\ at' = at
  BY <1>0
<1>2. RunningIsActive'
  BY <1>x, <1>5, <1>c, <1>d DEF RunningIsActive
<1>3. PcOK'
  BY <1>x, <1>c, <1>d DEF IInv, PcOK
<1>6. MutualExclusion'
  BY SMTT(60), <1>x DEF IInv, MutualExclusion, Inside
<1>7. MutexQueues'
  BY SMTT(60), <1>x, <1>c, <1>d DEF IInv, MutexQueues
<1>8. CondQueues'
  <2>1. ASSUME NEW n \in Monitor, NEW x \in Thread, x \in Range(cond_wq'[n])
        PROVE  state'[x] = state[x] /\ x \in Range(cond_wq[n])
    BY SMTT(30), <1>4, <1>c, <1>d, <2>1 DEF IInv, CondQueues
  <2> QED BY SMTT(60), <1>x, <1>4, <1>b, <2>1 DEF IInv, CondQueues
<1>9. \A u \in Thread : Unnotified(u)' = Unnotified(u)
  BY <1>x DEF Unnotified
<1>10. ASSUME NEW u \in Thread, NEW x \in Thread, x \in Unnotified(u)
       PROVE  /\ state'[x] = "BLOCKED" /\ at[u] \in Monitor
              /\ x \notin Range(mutex_wq[at[u]]) /\ x \notin Range(cond_wq'[at[u]])
  BY SMTT(30), <1>4, <1>10, <1>c, <1>d, UnnotifiedRange DEF IInv, Walks, PcOK
<1>11. Walks'
  BY SMTT(30), <1>x, <1>9, <1>10 DEF IInv, Walks
<1>12. NoLostWakeup'
  BY SMTT(60), <1>x, <1>c, <1>d DEF IInv, NoLostWakeup, Trying
<1>13. SleepersReached'
  BY SMTT(30), <1>x, <1>4, <1>9, <1>c, <1>d DEF IInv, SleepersReached, PcOK
<1> QED BY <1>1, <1>2, <1>3, <1>6, <1>7, <1>8, <1>11, <1>12, <1>13, <1>b DEF IInv

LEMMA NotifyAllStep ==
  ASSUME IInv, NEW t \in Thread, NotifyAll(t)
  PROVE  IInv'
<1>p. PICK m, q, next :
        /\ m = at[t] /\ q = cond_wq[m] /\ next = IF q = << >> THEN "in" ELSE "walk"
  OBVIOUS
<1>0. /\ pc[t] = "in" /\ current_thread = t /\ ~parked[t]
      /\ notifying' = [notifying EXCEPT ![t] = q]
      /\ cond_wq' = [cond_wq EXCEPT ![m] = << >>]
      /\ pc' = [pc EXCEPT ![t] = next]
      /\ UNCHANGED <<current_thread, state, rr_active_list, elapsed, irq, saved_irq,
                     parked, mutex_state, mutex_wq, frame, at>>
  BY <1>p DEF NotifyAll, At, Goto, condition_notify_all, schedVars
<1>m. m \in Monitor
  BY <1>0, <1>p DEF IInv, PcOK
<1>t. TypeOK /\ LockTypeOK /\ SchedTypeOK
  BY DEF IInv, TypeOK, LockTypeOK
<1>5. state[t] = "ACTIVE"
  BY <1>0 DEF IInv, RunningIsActive
<1>d. /\ q \in Seq(Thread) /\ NoRepeat(q)
      /\ \A x \in Thread : x \in Range(q) =>
           /\ at[x] = m /\ pc[x] = "relock" /\ x # t /\ state[x] = "BLOCKED"
           /\ frame[x] = m /\ x \notin Range(mutex_wq[m])
  BY SMTT(60), <1>5, <1>m, <1>p, <1>t DEF IInv, LockTypeOK, CondQueues
<1>1. TypeOK'
  BY SMT, <1>0, <1>d, <1>m, <1>p, <1>t DEF TypeOK, LockTypeOK, SchedTypeOK, Label
<1>4. /\ \A x \in Thread : x # t => pc'[x] = pc[x] /\ notifying'[x] = notifying[x]
      /\ pc'[t] = next /\ notifying'[t] = q
      /\ \A n \in Monitor : n # m => cond_wq'[n] = cond_wq[n]
      /\ cond_wq'[m] = << >> /\ cond_wq[m] = q
  BY <1>0, <1>m, <1>p, <1>t DEF TypeOK, LockTypeOK
<1>e. Range(<< >>) = {} /\ NoRepeat(<< >>)
  BY SMT, EmptyRange DEF NoRepeat
<1>2. RunQueueExact' /\ RunningIsActive'
  BY <1>0 DEF IInv, RunQueueExact, RunningIsActive
<1>3. PcOK'
  BY <1>0, <1>4, <1>5, <1>m, <1>p DEF IInv, PcOK
<1>6. MutualExclusion'
  <2>1. \A x \in Thread, n \in Monitor : Inside(x, n)' <=> Inside(x, n)
    BY <1>0, <1>4, <1>p DEF Inside
  <2> QED BY <1>0, <2>1 DEF IInv, MutualExclusion
<1>7. MutexQueues'
  BY SMTT(30), <1>0, <1>4, <1>5 DEF IInv, MutexQueues
<1>8. CondQueues'
  <2>1. ASSUME NEW n \in Monitor
        PROVE  /\ NoRepeat(cond_wq'[n])
               /\ \A x \in Thread : x \in Range(cond_wq'[n]) => n # m /\ x \in Range(cond_wq[n])
    BY SMT, <1>4, <1>e DEF IInv, CondQueues
  <2> QED BY SMTT(60), <1>0, <1>4, <1>5, <2>1 DEF IInv, CondQueues
<1>9. /\ \A u \in Thread : u # t => Unnotified(u)' = Unnotified(u)
      /\ Unnotified(t)' = Range(q)
      /\ Unnotified(t) = {}
  <2>1. \A u \in Thread : u # t => Unnotified(u)' = Unnotified(u)
    BY <1>4 DEF Unnotified
  <2>2. Unnotified(t) = {}
    BY <1>0 DEF Unnotified
  <2>3. CASE q = << >>
    <3>1. pc'[t] = "in" /\ Range(q) = {}
      BY <1>4, <1>e, <1>p, <2>3
    <3> QED BY <2>1, <2>2, <3>1 DEF Unnotified
  <2>4. CASE q # << >>
    <3>1. pc'[t] = "walk" /\ notifying'[t] = q
      BY <1>4, <1>p, <2>4
    <3> QED BY <2>1, <2>2, <3>1 DEF Unnotified
  <2> QED BY <2>3, <2>4
<1>10. ASSUME NEW u \in Thread, pc[u] \in {"walk", "step"}
       PROVE  at[u] # m /\ at[u] \in Monitor /\ u # t
  BY SMT, <1>0, <1>m, <1>p, <1>10 DEF IInv, MutualExclusion, Inside, PcOK
<1>11. Walks'
  <2> SUFFICES ASSUME NEW u \in Thread, pc'[u] \in {"walk", "step"}
               PROVE  /\ notifying'[u] # << >>
                      /\ NoRepeat(notifying'[u])
                      /\ \A x \in Thread : x \in Range(notifying'[u]) =>
                           at[x] = at[u] /\ pc'[x] = "relock" /\ frame[x] = at[u]
                      /\ \A x \in Thread : x \in Unnotified(u)' =>
                           /\ state[x] = "BLOCKED"
                           /\ x \notin Range(mutex_wq[at[u]])
                           /\ x \notin Range(cond_wq'[at[u]])
    BY SMT, <1>0 DEF Walks
  <2>1. CASE u = t
    BY <1>4, <1>9, <1>d, <1>e, <1>p, <2>1
  <2>2. CASE u # t
    BY SMT, <1>0, <1>4, <1>9, <1>10, <2>2 DEF IInv, Walks
  <2> QED BY <2>1, <2>2
<1>12. NoLostWakeup'
  <2>1. ASSUME NEW n \in Monitor, NEW x \in Thread, Trying(x, n)  PROVE  Trying(x, n)'
    BY <1>0, <1>4, <2>1 DEF Trying
  <2> QED BY <1>0, <2>1 DEF IInv, NoLostWakeup
<1>13. SleepersReached'
  <2> SUFFICES ASSUME NEW x \in Thread, state[x] = "BLOCKED"
               PROVE  \/ x \in Range(mutex_wq[at[x]])
                      \/ x \in Range(cond_wq'[at[x]])
                      \/ \E u \in Thread : x \in Unnotified(u)'
    BY <1>0 DEF SleepersReached
  <2>1. at[x] \in Monitor
    BY DEF IInv, PcOK
  <2>2. x \in Range(cond_wq[at[x]]) => x \in Range(cond_wq'[at[x]]) \/ x \in Unnotified(t)'
    BY SMT, <1>4, <1>9, <2>1
  <2> QED BY <1>9, <2>2 DEF IInv, SleepersReached
<1> QED BY <1>1, <1>2, <1>3, <1>6, <1>7, <1>8, <1>11, <1>12, <1>13 DEF IInv

LEMMA WalkStep ==
  ASSUME IInv, NEW t \in Thread, Walk(t)
  PROVE  IInv'
<1>p. PICK m, q, h : m = at[t] /\ q = notifying[t] /\ h = Head(q)
  OBVIOUS
<1>0. /\ pc[t] = "walk" /\ current_thread = t /\ ~parked[t]
      /\ wait_queue_notify(q, state)
      /\ pc' = [pc EXCEPT ![t] = "step"]
      /\ UNCHANGED <<current_thread, elapsed, irq, saved_irq, parked, mutex_state,
                     mutex_wq, cond_wq, frame, notifying, at>>
  BY <1>p DEF Walk, At, Goto, NotifyAllActivate, lockVars
<1>m. m \in Monitor
  BY <1>0, <1>p DEF IInv, PcOK
<1>t. TypeOK /\ LockTypeOK /\ SchedTypeOK
  BY DEF IInv, TypeOK, LockTypeOK
<1>5. state[t] = "ACTIVE"
  BY <1>0 DEF IInv, RunningIsActive
<1>u. Unnotified(t) = Range(q)
  BY <1>0, <1>p DEF Unnotified
<1>d. /\ q \in Seq(Thread) /\ q # << >> /\ NoRepeat(q)
      /\ \A x \in Thread : x \in Range(q) =>
           /\ at[x] = m /\ pc[x] = "relock" /\ x # t /\ state[x] = "BLOCKED"
           /\ x \notin Range(mutex_wq[m]) /\ x \notin Range(cond_wq[m])
  BY SMTT(30), <1>0, <1>5, <1>p, <1>t, <1>u DEF IInv, LockTypeOK, Walks
<1>a. QueueExact(state) /\ state \in [AnyThread -> ThreadState]
  BY <1>t DEF IInv, SchedTypeOK, RunQueueExact, QueueExact, NoRepeat
<1>b. /\ state' \in [AnyThread -> ThreadState]
      /\ rr_active_list' \in Seq(Thread)
      /\ RunQueueExact'
      /\ h \in Thread /\ h \in Range(q)
      /\ Range(Tail(q)) = Range(q) \ {h}
      /\ state' = [state EXCEPT ![h] = "ACTIVE"]
  <2>1. /\ wait_queue_notify(q, state) /\ UNCHANGED current_thread /\ h = Head(q)
        /\ \A x \in Thread : x \in Range(q) => state[x] = "BLOCKED" /\ x # current_thread
    BY <1>0, <1>d, <1>p
  <2>2. Pop(q) = Tail(q)
    BY <1>d DEF Pop
  <2> QED BY <1>a, <1>d, <1>t, <2>1, <2>2, NotifyEffect
<1>1. TypeOK'
  BY <1>0, <1>b, <1>t DEF TypeOK, LockTypeOK, SchedTypeOK, Label
<1>4. /\ \A x \in Thread : x # t => pc'[x] = pc[x]
      /\ pc'[t] = "step"
  BY <1>0, <1>t DEF TypeOK
<1>c. /\ \A x \in Thread : x # h => state'[x] = state[x]
      /\ state'[h] = "ACTIVE"
  BY <1>a, <1>b DEF AnyThread
<1>x. /\ pc[t] = "walk" /\ current_thread = t /\ ~parked[t] /\ current_thread' = t
      /\ parked' = parked /\ mutex_state' = mutex_state /\ mutex_wq' = mutex_wq
      /\ cond_wq' = cond_wq /\ frame' = frame /\ notifying' = notifying /\ at' = at
  BY <1>0
<1>2. RunningIsActive'
  BY <1>x, <1>5, <1>c DEF RunningIsActive
<1>3. PcOK'
  BY <1>x, <1>4, <1>5, <1>b, <1>c, <1>d DEF IInv, PcOK
<1>6. MutualExclusion'
  <2>1. \A x \in Thread, n \in Monitor : Inside(x, n)' <=> Inside(x, n)
    BY <1>x, <1>4 DEF Inside
  <2> QED BY <1>x, <2>1 DEF IInv, MutualExclusion
<1>7. MutexQueues'
  BY SMTT(30), <1>x, <1>4, <1>5, <1>b, <1>c, <1>d DEF IInv, MutexQueues
<1>8. CondQueues'
  BY SMTT(30), <1>x, <1>4, <1>5, <1>b, <1>c, <1>d DEF IInv, CondQueues
<1>9. /\ \A u \in Thread : u # t => Unnotified(u)' = Unnotified(u)
      /\ Unnotified(t)' = Range(q) \ {h}
  BY <1>x, <1>4, <1>b, <1>p DEF Unnotified
<1>10. ASSUME NEW u \in Thread, pc[u] \in {"walk", "step"}, u # t  PROVE  at[u] # m
  BY SMT, <1>x, <1>m, <1>p, <1>10 DEF IInv, MutualExclusion, Inside
<1>11. Walks'
  <2> SUFFICES ASSUME NEW u \in Thread, pc'[u] \in {"walk", "step"}
               PROVE  /\ notifying[u] # << >>
                      /\ NoRepeat(notifying[u])
                      /\ \A x \in Thread : x \in Range(notifying[u]) =>
                           at[x] = at[u] /\ pc'[x] = "relock" /\ frame[x] = at[u]
                      /\ \A x \in Thread : x \in Unnotified(u)' =>
                           /\ state'[x] = "BLOCKED"
                           /\ x \notin Range(mutex_wq[at[u]])
                           /\ x \notin Range(cond_wq[at[u]])
    BY <1>x DEF Walks
  <2>1. pc[u] \in {"walk", "step"}
    BY <1>x, <1>4
  <2>2. \A x \in Thread : x \in Range(notifying[u]) =>
          at[x] = at[u] /\ pc'[x] = "relock" /\ frame[x] = at[u]
    <3>1. \A x \in Thread : x \in Range(notifying[u]) =>
            at[x] = at[u] /\ pc[x] = "relock" /\ frame[x] = at[u]
      BY <2>1 DEF IInv, Walks
    <3>2. \A x \in Thread : pc[x] = "relock" => pc'[x] = "relock"
      BY <1>x, <1>4
    <3> QED BY <3>1, <3>2
  <2>3. notifying[u] # << >> /\ NoRepeat(notifying[u])
    BY <2>1 DEF IInv, Walks
  <2>4. CASE u = t
    BY <1>9, <1>c, <1>d, <1>p, <2>2, <2>3, <2>4
  <2>5. CASE u # t
    <3>1. h \notin Unnotified(u)
      BY <1>10, <1>b, <1>d, <2>1, <2>2, <2>5, UnnotifiedRange
    <3> QED BY SMTT(30), <1>9, <1>c, <2>1, <2>2, <2>3, <2>5, <3>1 DEF IInv, Walks
  <2> QED BY <2>4, <2>5
<1>12. NoLostWakeup'
  BY SMTT(30), <1>x, <1>4, <1>c DEF IInv, NoLostWakeup, Trying
<1>13. SleepersReached'
  <2> SUFFICES ASSUME NEW x \in Thread, x # h, state[x] = "BLOCKED"
               PROVE  \/ x \in Range(mutex_wq[at[x]])
                      \/ x \in Range(cond_wq[at[x]])
                      \/ \E u \in Thread : x \in Unnotified(u)'
    BY <1>x, <1>b, <1>c DEF SleepersReached
  <2> QED BY <1>9, <1>u DEF IInv, SleepersReached
<1> QED BY <1>1, <1>2, <1>3, <1>6, <1>7, <1>8, <1>11, <1>12, <1>13, <1>b DEF IInv

(* The step from one wait_head to the next, after its thread was woken.    *)
LEMMA StepStep ==
  ASSUME IInv, NEW t \in Thread, Step(t)
  PROVE  IInv'
<1>p. PICK m, q, next :
        /\ m = at[t] /\ q = notifying[t]
        /\ next = IF Tail(q) = << >> THEN "in" ELSE "walk"
  OBVIOUS
<1>0. /\ pc[t] = "step" /\ current_thread = t /\ ~parked[t]
      /\ notifying' = [notifying EXCEPT ![t] = Tail(q)]
      /\ pc' = [pc EXCEPT ![t] = next]
      /\ UNCHANGED <<current_thread, state, rr_active_list, elapsed, irq, saved_irq,
                     parked, mutex_state, mutex_wq, cond_wq, frame, at>>
  BY <1>p DEF Step, At, Goto, NotifyAllNext, schedVars
<1>m. m \in Monitor
  BY <1>0, <1>p DEF IInv, PcOK
<1>t. TypeOK /\ LockTypeOK /\ SchedTypeOK
  BY DEF IInv, TypeOK, LockTypeOK
<1>5. state[t] = "ACTIVE"
  BY <1>0 DEF IInv, RunningIsActive
<1>a. q \in Seq(Thread) /\ q # << >> /\ NoRepeat(q)
  BY <1>0, <1>p, <1>t DEF IInv, LockTypeOK, Walks
<1>b. /\ Tail(q) \in Seq(Thread) /\ NoRepeat(Tail(q))
      /\ Range(Tail(q)) \subseteq Range(q)
  BY <1>a, TailRange
<1>1. TypeOK'
  BY <1>0, <1>b, <1>p, <1>t DEF TypeOK, LockTypeOK, SchedTypeOK, Label
<1>4. /\ \A x \in Thread : x # t => pc'[x] = pc[x] /\ notifying'[x] = notifying[x]
      /\ pc'[t] = next /\ notifying'[t] = Tail(q)
  BY <1>0, <1>p, <1>t DEF TypeOK, LockTypeOK
<1>2. RunQueueExact' /\ RunningIsActive'
  BY <1>0 DEF IInv, RunQueueExact, RunningIsActive
<1>3. PcOK'
  BY <1>0, <1>4, <1>5, <1>m, <1>p DEF IInv, PcOK
<1>6. MutualExclusion'
  <2>1. \A x \in Thread, n \in Monitor : Inside(x, n)' <=> Inside(x, n)
    BY <1>0, <1>4, <1>p DEF Inside
  <2> QED BY <1>0, <2>1 DEF IInv, MutualExclusion
<1>7. MutexQueues'
  BY <1>0, <1>4, <1>5 DEF IInv, MutexQueues
<1>8. CondQueues'
  BY SMT, <1>0, <1>4, <1>5 DEF IInv, CondQueues
<1>9. \A u \in Thread : Unnotified(u)' = Unnotified(u)
  <2>1. \A u \in Thread : u # t => Unnotified(u)' = Unnotified(u)
    BY <1>4 DEF Unnotified
  <2>2. Unnotified(t) = Range(Tail(q))
    BY <1>0, <1>p DEF Unnotified
  <2>3. CASE Tail(q) = << >>
    <3>1. pc'[t] = "in" /\ Range(Tail(q)) = {}
      BY <1>4, <1>p, <2>3, EmptyRange
    <3> QED BY <2>1, <2>2, <3>1 DEF Unnotified
  <2>4. CASE Tail(q) # << >>
    <3>1. pc'[t] = "walk" /\ notifying'[t] = Tail(q)
      BY <1>4, <1>p, <2>4
    <3> QED BY <2>1, <2>2, <3>1 DEF Unnotified
  <2> QED BY <2>3, <2>4
<1>11. Walks'
  <2>0. /\ state' = state /\ at' = at /\ frame' = frame
        /\ mutex_wq' = mutex_wq /\ cond_wq' = cond_wq
    BY <1>0
  <2> SUFFICES ASSUME NEW u \in Thread, pc'[u] \in {"walk", "step"}
               PROVE  /\ notifying'[u] # << >>
                      /\ NoRepeat(notifying'[u])
                      /\ \A x \in Thread : x \in Range(notifying'[u]) =>
                           at[x] = at[u] /\ pc'[x] = "relock" /\ frame[x] = at[u]
                      /\ \A x \in Thread : x \in Unnotified(u) =>
                           /\ state[x] = "BLOCKED"
                           /\ x \notin Range(mutex_wq[at[u]])
                           /\ x \notin Range(cond_wq[at[u]])
    BY <1>9, <2>0 DEF Walks
  <2>1. pc[u] \in {"walk", "step"}
    BY <1>0, <1>4
  <2>2. \A x \in Thread : x \in Range(notifying[u]) =>
          at[x] = at[u] /\ pc'[x] = "relock" /\ frame[x] = at[u]
    <3>1. \A x \in Thread : x \in Range(notifying[u]) =>
            at[x] = at[u] /\ pc[x] = "relock" /\ frame[x] = at[u]
      BY <2>1 DEF IInv, Walks
    <3>2. \A x \in Thread : pc[x] = "relock" => pc'[x] = "relock"
      BY <1>0, <1>4
    <3> QED BY <3>1, <3>2
  <2>3. Range(notifying'[u]) \subseteq Range(notifying[u])
    BY <1>4, <1>b, <1>p
  <2>4. notifying'[u] # << >> /\ NoRepeat(notifying'[u])
    <3>1. CASE u = t
      BY <1>4, <1>b, <1>p, <3>1
    <3>2. CASE u # t
      BY <1>4, <2>1, <3>2 DEF IInv, Walks
    <3> QED BY <3>1, <3>2
  <2> QED BY <2>1, <2>2, <2>3, <2>4 DEF IInv, Walks
<1>12. NoLostWakeup'
  <2>1. ASSUME NEW n \in Monitor, NEW x \in Thread, Trying(x, n)  PROVE  Trying(x, n)'
    BY <1>0, <1>4, <2>1 DEF Trying
  <2> QED BY <1>0, <2>1 DEF IInv, NoLostWakeup
<1>13. SleepersReached'
  BY <1>0, <1>9 DEF IInv, SleepersReached
<1> QED BY <1>1, <1>2, <1>3, <1>6, <1>7, <1>8, <1>11, <1>12, <1>13 DEF IInv

-----------------------------------------------------------------------------
LEMMA Initially == Init => IInv
<1> SUFFICES ASSUME Init  PROVE  IInv
  OBVIOUS
<1> USE DEF Init, LockInit
<1>1. Cardinality(Thread) \in Nat
  BY LockingAssumption
<1>2. rr_active_list \in Seq(Thread)
  BY SMT, <1>1
<1>3. << >> \in Seq(Thread) /\ Range(<< >>) = {} /\ NoRepeat(<< >>)
  BY SMTT(60), EmptyRange DEF NoRepeat
<1>4. SchedTypeOK
  BY SMT, <1>2, ElapsedMaxType DEF SchedTypeOK, ThreadState, AnyThread
<1>5. TypeOK
  BY <1>3, <1>4 DEF TypeOK, LockTypeOK, Label
<1>6. RunQueueExact
  OBVIOUS
<1>7. PcOK /\ RunningIsActive /\ MutualExclusion /\ Walks /\ SleepersReached
  BY DEF PcOK, RunningIsActive, MutualExclusion, Inside, Walks, SleepersReached, AnyThread
<1>8. MutexQueues /\ CondQueues /\ NoLostWakeup
  BY <1>3 DEF MutexQueues, CondQueues, NoLostWakeup
<1> QED BY <1>5, <1>6, <1>7, <1>8 DEF IInv

LEMMA Inductive == IInv /\ [Next]_vars => IInv'
<1> SUFFICES ASSUME IInv, [Next]_vars  PROVE  IInv'
  OBVIOUS
<1>t. pc \in [Thread -> Label] /\ PcOK
  BY DEF IInv, TypeOK
<1>1. CASE (idle \/ Timer) /\ UNCHANGED at
  BY <1>1, IdleStep, TimerStep
<1>2. ASSUME NEW t \in Thread, LockStep(t)  PROVE  IInv'
  <2>1. CASE Lock(t) \/ Relock(t)
    BY <2>1, AcquireStep, BlockStep
  <2>2. CASE Walk(t)
    BY <2>2, WalkStep
  <2>3. CASE Step(t)
    BY <2>3, StepStep
  <2>4. CASE Park(t) /\ UNCHANGED at
    BY <2>4, ParkStep
  <2> QED BY <1>2, <2>1, <2>2, <2>3, <2>4 DEF LockStep
<1>3. ASSUME NEW t \in Thread, Call(t)  PROVE  IInv'
  <2>1. ASSUME NEW m \in Monitor, Enter(t, m)  PROVE  IInv'
    BY <2>1, EnterStep
  <2>2. ASSUME NEW m \in Monitor, NotifyOutside(t, m)  PROVE  IInv'
    BY <2>2, NotifyStep DEF NotifyOutside, At
  <2>3. CASE Unlock(t)
    BY <2>3, UnlockStep
  <2>4. CASE Wait(t)
    BY <2>4, WaitStep
  <2>5. CASE Notify(t)
    <3>1. at[t] \in Monitor /\ pc[t] = "in"
      BY <1>t, <2>5 DEF Notify, At, PcOK
    <3> QED BY <2>5, <3>1, NotifyStep DEF Notify
  <2>6. CASE NotifyAll(t)
    BY <2>6, NotifyAllStep
  <2> QED BY <1>3, <2>1, <2>2, <2>3, <2>4, <2>5, <2>6 DEF Call
<1>4. CASE UNCHANGED vars
  <2>0. UNCHANGED <<current_thread, state, rr_active_list, elapsed, irq, saved_irq, parked, pc,
                    mutex_state, mutex_wq, cond_wq, frame, notifying, at>>
    BY <1>4 DEF vars, schedVars, lockVars
  <2>1. TypeOK' /\ RunQueueExact' /\ RunningIsActive'
    BY <2>0 DEF IInv, TypeOK, LockTypeOK, SchedTypeOK, RunQueueExact, RunningIsActive
  <2>2. PcOK'
    BY <2>0 DEF IInv, PcOK
  <2>3. MutexQueues' /\ CondQueues'
    BY <2>0 DEF IInv, MutexQueues, CondQueues
  <2>4. \A u \in Thread : Unnotified(u)' = Unnotified(u)
    BY <2>0 DEF Unnotified
  <2>5. Walks' /\ SleepersReached'
    BY <2>0, <2>4 DEF IInv, Walks, SleepersReached
  <2>6. NoLostWakeup'
    BY <2>0 DEF IInv, NoLostWakeup, Trying
  <2>7. \A x \in Thread, n \in Monitor : Inside(x, n)' <=> Inside(x, n)
    BY <2>0 DEF Inside
  <2>8. MutualExclusion'
    BY <2>0, <2>7 DEF IInv, MutualExclusion
  <2> QED BY <2>1, <2>2, <2>3, <2>5, <2>6, <2>8 DEF IInv
<1> QED BY <1>1, <1>2, <1>3, <1>4 DEF Next

(* The inductive invariant holds. *)
THEOREM Invariance == Spec => []IInv
BY Initially, Inductive, PTL DEF Spec

(* The state of the locks is always well typed. *)
THEOREM TypeCorrect == Spec => []TypeOK
<1>1. IInv => TypeOK
  BY DEF IInv
<1> QED BY <1>1, Invariance, PTL

(* No thread is lost from, or queued twice in, the scheduler's run queue,  *)
(* wherever the timer preempts the locking code.                           *)
THEOREM RunQueueCorrect == Spec => []RunQueueExact
<1>1. IInv => RunQueueExact
  BY DEF IInv
<1> QED BY <1>1, Invariance, PTL

(* At most one thread is between mutex_lock and mutex_unlock, and the      *)
(* mutex is LOCKED exactly then.                                           *)
THEOREM Exclusion == Spec => []MutualExclusion
<1>1. IInv => MutualExclusion
  BY DEF IInv
<1> QED BY <1>1, Invariance, PTL

(* A free mutex with sleepers in its queue has a thread on its way to it.  *)
THEOREM Wakeup == Spec => []NoLostWakeup
<1>1. IInv => NoLostWakeup
  BY DEF IInv
<1> QED BY <1>1, Invariance, PTL

(* wait_queue_notify_all only follows the links of live wait_heads.        *)
THEOREM HeadsLive == Spec => []WaitHeadLive
<1>1. IInv => WaitHeadLive
  <2> SUFFICES ASSUME IInv, NEW t \in Thread, pc[t] \in {"walk", "step"},
                      NEW u \in Range(notifying[t])
               PROVE  frame[u] = at[t]
    BY DEF WaitHeadLive
  <2>1. notifying[t] \in Seq(Thread)
    BY DEF IInv, TypeOK, LockTypeOK
  <2>2. u \in Thread
    BY SMT, <2>1, SeqRange
  <2> QED BY <2>2 DEF IInv, Walks
<1> QED BY <1>1, Invariance, PTL

(* A thread sleeps exactly while one, and only one, waker can reach it.    *)
THEOREM Reached == Spec => []BlockedIsQueued
<1>1. IInv => BlockedIsQueued
  <2> SUFFICES ASSUME IInv, NEW t \in Thread
               PROVE  /\ state[t] = "BLOCKED" <=> Wakers(t) # {}
                      /\ \A v, w \in Wakers(t) : v = w
    BY DEF BlockedIsQueued
  <2>1. \A m \in Monitor : t \in Range(mutex_wq[m]) => at[t] = m /\ state[t] = "BLOCKED"
    BY DEF IInv, MutexQueues
  <2>2. \A m \in Monitor : t \in Range(cond_wq[m]) =>
          at[t] = m /\ state[t] = "BLOCKED" /\ t \notin Range(mutex_wq[m])
    BY DEF IInv, CondQueues
  <2>3. \A u \in Thread : t \in Unnotified(u) =>
          /\ at[t] = at[u] /\ at[u] \in Monitor /\ state[t] = "BLOCKED"
          /\ t \notin Range(mutex_wq[at[u]]) /\ t \notin Range(cond_wq[at[u]])
          /\ Inside(u, at[u])
    BY UnnotifiedRange DEF IInv, Walks, PcOK, Inside
  <2>4. state[t] = "BLOCKED" => Wakers(t) # {}
    <3> SUFFICES ASSUME state[t] = "BLOCKED"  PROVE  \E w : w \in Wakers(t)
      OBVIOUS
    <3>1. at[t] \in Monitor
      BY DEF IInv, PcOK
    <3>2. CASE t \in Range(mutex_wq[at[t]])
      BY <3>1, <3>2 DEF Wakers
    <3>3. CASE t \in Range(cond_wq[at[t]])
      BY <3>1, <3>3 DEF Wakers
    <3>4. CASE \E u \in Thread : t \in Unnotified(u)
      BY <3>4 DEF Wakers
    <3> QED BY <3>2, <3>3, <3>4 DEF IInv, SleepersReached
  <2>5. Wakers(t) # {} => state[t] = "BLOCKED"
    BY <2>1, <2>2, <2>3 DEF Wakers
  <2>6. \A u, v \in Thread : t \in Unnotified(u) /\ t \in Unnotified(v) => u = v
    BY <2>3 DEF IInv, MutualExclusion
  <2>7. ASSUME NEW v \in Wakers(t), NEW w \in Wakers(t)  PROVE  v = w
    <3> DEFINE Mx(x) == \E m \in Monitor : x = <<"mutex", m>> /\ t \in Range(mutex_wq[m])
               Cx(x) == \E m \in Monitor : x = <<"condition", m>> /\ t \in Range(cond_wq[m])
               Wx(x) == \E u \in Thread : x = <<"walk", u>> /\ t \in Unnotified(u)
    <3>1. (Mx(v) \/ Cx(v) \/ Wx(v)) /\ (Mx(w) \/ Cx(w) \/ Wx(w))
      BY DEF Wakers
    <3>2. CASE Mx(v)
      BY <2>1, <2>2, <2>3, <3>1, <3>2
    <3>3. CASE Cx(v)
      BY <2>1, <2>2, <2>3, <3>1, <3>3
    <3>4. CASE Wx(v)
      BY <2>1, <2>2, <2>3, <2>6, <3>1, <3>4
    <3> QED BY <3>1, <3>2, <3>3, <3>4
  <2> QED BY <2>4, <2>5, <2>7
<1> QED BY <1>1, Invariance, PTL

-----------------------------------------------------------------------------
(* The sleeping locks implement monitors: every step of LockingClient is a *)
(* step of MonitorSpec, or changes nothing that its users can see.         *)

LEMMA InitRefines == Init => Abstract!MonitorInit
BY EmptyRange DEF Init, LockInit, Abstract!MonitorInit, InsideOf, EnteringOf, Inside

(* A step is invisible if no thread goes into or out of a monitor, and the *)
(* condition queues stay as they are.                                      *)
LEMMA Invisible ==
  ASSUME UNCHANGED cond_wq,
         \A x \in Thread, m \in Monitor :
           /\ Inside(x, m)' <=> Inside(x, m)
           /\ (at[x] = m /\ pc[x] \in {"lock", "relock"})'
                <=> (at[x] = m /\ pc[x] \in {"lock", "relock"})
  PROVE  UNCHANGED Abstract!monitorVars
BY SMT DEF Abstract!monitorVars, InsideOf, EnteringOf

LEMMA Mapped ==
  /\ InsideOf \in [Monitor -> SUBSET Thread] /\ InsideOf' \in [Monitor -> SUBSET Thread]
  /\ EnteringOf \in [Monitor -> SUBSET Thread] /\ EnteringOf' \in [Monitor -> SUBSET Thread]
BY DEF InsideOf, EnteringOf

LEMMA OneChanged ==
  ASSUME NEW f \in [Monitor -> SUBSET Thread], NEW g \in [Monitor -> SUBSET Thread],
         NEW m \in Monitor, NEW S, g[m] = S,
         \A n \in Monitor : n # m => g[n] = f[n]
  PROVE  g = [f EXCEPT ![m] = S]
OBVIOUS

LEMMA NoneChanged ==
  ASSUME NEW f \in [Monitor -> SUBSET Thread], NEW g \in [Monitor -> SUBSET Thread],
         \A n \in Monitor : g[n] = f[n]
  PROVE  g = f
BY SMT

(* The thread inside of a monitor is the only one.                         *)
LEMMA OnlyInside ==
  ASSUME IInv, NEW t \in Thread, pc[t] = "in"
  PROVE  at[t] \in Monitor /\ InsideOf[at[t]] = {t}
<1>1. at[t] \in Monitor
  BY DEF IInv, PcOK
<1> QED BY SMT, <1>1 DEF IInv, MutualExclusion, Inside, InsideOf

LEMMA EnterRefines ==
  ASSUME IInv, NEW t \in Thread, NEW m \in Monitor, Enter(t, m)
  PROVE  Abstract!Want(t, m)
<1>0. /\ pc[t] = "out" /\ UNCHANGED cond_wq
      /\ pc' = [pc EXCEPT ![t] = "lock"] /\ at' = [at EXCEPT ![t] = m]
  BY DEF Enter, At, Goto, lockVars
<1>1. /\ \A x \in Thread : x # t => pc'[x] = pc[x] /\ at'[x] = at[x]
      /\ pc'[t] = "lock" /\ at'[t] = m
  BY <1>0 DEF IInv, TypeOK
<1>2. \A n \in Monitor : t \notin Range(cond_wq[n])
  BY <1>0 DEF IInv, CondQueues
<1>3. Abstract!Uninvolved(t)
  BY <1>0, <1>2 DEF Abstract!Uninvolved, Abstract!Range, Range, InsideOf, EnteringOf, Inside
<1>4. UNCHANGED InsideOf
  <2>1. ASSUME NEW n \in Monitor  PROVE  InsideOf'[n] = InsideOf[n]
    BY <1>0, <1>1 DEF InsideOf, Inside
  <2> QED BY <2>1, Mapped, NoneChanged
<1>5. EnteringOf' = [EnteringOf EXCEPT ![m] = EnteringOf[m] \cup {t}]
  <2>1. EnteringOf'[m] = EnteringOf[m] \cup {t}
    BY <1>0, <1>1, <1>2 DEF EnteringOf
  <2>2. ASSUME NEW n \in Monitor, n # m  PROVE  EnteringOf'[n] = EnteringOf[n]
    BY <1>0, <1>1, <1>2, <2>2 DEF EnteringOf
  <2>m. m \in Monitor
    BY <1>0, <1>1, <1>2
  <2> QED BY <2>1, <2>2, <2>m, Mapped, OneChanged
<1> QED BY <1>0, <1>3, <1>4, <1>5 DEF Abstract!Want

LEMMA AcquireRefines ==
  ASSUME IInv, NEW t \in Thread, Lock(t) \/ Relock(t),
         mutex_state[at[t]] = "UNLOCKED"
  PROVE  Abstract!Acquire(t, at[t])
<1>p. PICK m : m = at[t]
  OBVIOUS
<1>0. /\ pc[t] \in {"lock", "relock"} /\ current_thread = t /\ ~parked[t]
      /\ pc' = [pc EXCEPT ![t] = "in"] /\ UNCHANGED <<cond_wq, at>>
  BY DEF Lock, Relock, At, Goto, mutex_lock
<1>1. m \in Monitor /\ state[t] = "ACTIVE"
  BY <1>0, <1>p DEF IInv, PcOK, RunningIsActive
<1>2. /\ \A x \in Thread : x # t => pc'[x] = pc[x]
      /\ pc'[t] = "in"
  BY <1>0 DEF IInv, TypeOK
<1>3. t \in EnteringOf[m]
  BY <1>0, <1>1, <1>p DEF EnteringOf, IInv, CondQueues
<1>4. \A x \in Thread : ~Inside(x, m)
  BY <1>1, <1>p DEF IInv, MutualExclusion
<1>5. InsideOf[m] = {}
  BY <1>1, <1>4 DEF InsideOf
<1>6. InsideOf' = [InsideOf EXCEPT ![m] = {t}]
  <2>1. InsideOf'[m] = {t}
    BY <1>0, <1>1, <1>2, <1>4, <1>p DEF InsideOf, Inside
  <2>2. ASSUME NEW n \in Monitor, n # m  PROVE  InsideOf'[n] = InsideOf[n]
    BY <1>0, <1>1, <1>2, <1>4, <1>p, <2>2 DEF InsideOf, Inside
  <2>m. m \in Monitor
    BY <1>0, <1>1, <1>2, <1>4, <1>p
  <2> QED BY <2>1, <2>2, <2>m, Mapped, OneChanged
<1>7. EnteringOf' = [EnteringOf EXCEPT ![m] = EnteringOf[m] \ {t}]
  <2>1. EnteringOf'[m] = EnteringOf[m] \ {t}
    BY <1>0, <1>1, <1>2, <1>p DEF EnteringOf
  <2>2. ASSUME NEW n \in Monitor, n # m  PROVE  EnteringOf'[n] = EnteringOf[n]
    BY <1>0, <1>1, <1>2, <1>p, <2>2 DEF EnteringOf
  <2>m. m \in Monitor
    BY <1>0, <1>1, <1>2, <1>p
  <2> QED BY <2>1, <2>2, <2>m, Mapped, OneChanged
<1>8. Abstract!Acquire(t, m)
  BY <1>0, <1>3, <1>5, <1>6, <1>7 DEF Abstract!Acquire
<1> QED BY <1>8, <1>p

LEMMA UnlockRefines ==
  ASSUME IInv, NEW t \in Thread, Unlock(t)
  PROVE  Abstract!Release(t, at[t])
<1>p. PICK m : m = at[t]
  OBVIOUS
<1>0. /\ pc[t] = "in" /\ pc' = [pc EXCEPT ![t] = "out"]
      /\ at' = [at EXCEPT ![t] = NoMonitor] /\ UNCHANGED cond_wq
  BY DEF Unlock, At, Goto, mutex_unlock
<1>1. m \in Monitor /\ InsideOf[m] = {t}
  BY <1>0, <1>p, OnlyInside
<1>2. /\ \A x \in Thread : x # t => pc'[x] = pc[x] /\ at'[x] = at[x]
      /\ pc'[t] = "out"
  BY <1>0 DEF IInv, TypeOK
<1>3. \A x \in Thread : Inside(x, m) => x = t
  BY <1>1 DEF InsideOf
<1>4. InsideOf' = [InsideOf EXCEPT ![m] = {}]
  <2>1. InsideOf'[m] = {}
    BY SMTT(60), <1>0, <1>1, <1>2, <1>3, <1>p DEF InsideOf, Inside
  <2>2. ASSUME NEW n \in Monitor, n # m  PROVE  InsideOf'[n] = InsideOf[n]
    BY SMTT(60), <1>0, <1>1, <1>2, <1>3, <1>p, <2>2 DEF InsideOf, Inside
  <2>m. m \in Monitor
    BY <1>0, <1>1, <1>2, <1>3, <1>p
  <2> QED BY <2>1, <2>2, <2>m, Mapped, OneChanged
<1>5. UNCHANGED EnteringOf
  <2>1. ASSUME NEW n \in Monitor  PROVE  EnteringOf'[n] = EnteringOf[n]
    BY <1>0, <1>2 DEF EnteringOf
  <2> QED BY <2>1, Mapped, NoneChanged
<1>6. Abstract!Release(t, m)
  BY <1>0, <1>1, <1>4, <1>5 DEF Abstract!Release
<1> QED BY <1>6, <1>p

LEMMA WaitRefines ==
  ASSUME IInv, NEW t \in Thread, Wait(t)
  PROVE  Abstract!WaitInside(t, at[t])
<1>p. PICK m : m = at[t]
  OBVIOUS
<1>0. /\ pc[t] = "in" /\ pc' = [pc EXCEPT ![t] = "relock"] /\ UNCHANGED at
      /\ cond_wq' = [cond_wq EXCEPT ![m] = Append(cond_wq[m], t)]
  BY <1>p DEF Wait, At, Goto, condition_wait
<1>1. m \in Monitor /\ InsideOf[m] = {t}
  BY <1>0, <1>p, OnlyInside
<1>2. /\ \A x \in Thread : x # t => pc'[x] = pc[x]
      /\ pc'[t] = "relock"
  BY <1>0 DEF IInv, TypeOK
<1>3. \A x \in Thread : Inside(x, m) => x = t
  BY <1>1 DEF InsideOf
<1>4. InsideOf' = [InsideOf EXCEPT ![m] = {}]
  <2>1. InsideOf'[m] = {}
    BY <1>0, <1>1, <1>2, <1>3, <1>p DEF InsideOf, Inside
  <2>2. ASSUME NEW n \in Monitor, n # m  PROVE  InsideOf'[n] = InsideOf[n]
    BY SMT, <1>0, <1>1, <1>2, <1>3, <1>p, <2>2 DEF InsideOf, Inside
  <2>m. m \in Monitor
    BY <1>0, <1>1, <1>2, <1>3, <1>p
  <2> QED BY <2>1, <2>2, <2>m, Mapped, OneChanged
<1>5. /\ \A n \in Monitor : n # m => cond_wq'[n] = cond_wq[n]
      /\ Range(cond_wq'[m]) = Range(cond_wq[m]) \cup {t}
  BY SMTT(60), <1>0, <1>1, AppendRange DEF IInv, TypeOK, LockTypeOK
<1>6. UNCHANGED EnteringOf
  <2>1. ASSUME NEW n \in Monitor  PROVE  EnteringOf'[n] = EnteringOf[n]
    BY SMT, <1>0, <1>1, <1>2, <1>5, <1>p DEF EnteringOf
  <2> QED BY <2>1, Mapped, NoneChanged
<1>7. Abstract!WaitInside(t, m)
  BY <1>0, <1>1, <1>4, <1>6 DEF Abstract!WaitInside
<1> QED BY <1>7, <1>p

(* A notification of no waiter is invisible; otherwise the first waiter    *)
(* joins the threads that want to enter.                                   *)
LEMMA NotifyRefines ==
  ASSUME IInv, NEW t \in Thread, NEW m \in Monitor,
         condition_notify(t, m, pc[t]), UNCHANGED at
  PROVE  Abstract!NotifyFirst(m) \/ UNCHANGED Abstract!monitorVars
<1>0. UNCHANGED <<pc, at>> /\ cond_wq' = [cond_wq EXCEPT ![m] = Pop(cond_wq[m])]
  BY DEF condition_notify, Goto, IInv, TypeOK
<1>t. cond_wq \in [Monitor -> Seq(Thread)] /\ NoRepeat(cond_wq[m])
  BY DEF IInv, TypeOK, LockTypeOK, CondQueues
<1>1. CASE cond_wq[m] = << >>
  <2>1. UNCHANGED cond_wq
    BY <1>0, <1>1, <1>t DEF Pop
  <2> QED BY <1>0, <2>1, Invisible DEF Inside
<1>2. CASE cond_wq[m] # << >>
  <2>p. PICK h : h = Head(cond_wq[m])
    OBVIOUS
  <2>1. /\ h \in Thread /\ h \in Range(cond_wq[m])
        /\ Range(cond_wq'[m]) = Range(cond_wq[m]) \ {h}
        /\ cond_wq' = [cond_wq EXCEPT ![m] = Tail(cond_wq[m])]
        /\ \A n \in Monitor : n # m => cond_wq'[n] = cond_wq[n]
    BY <1>0, <1>2, <1>t, <2>p, TailRange DEF Pop
  <2>2. at[h] = m /\ pc[h] = "relock"
    BY SMT, <2>1 DEF IInv, CondQueues
  <2>3. UNCHANGED InsideOf
    <3>1. ASSUME NEW n \in Monitor  PROVE  InsideOf'[n] = InsideOf[n]
      BY <1>0 DEF InsideOf, Inside
    <3> QED BY <3>1, Mapped, NoneChanged
  <2>4. EnteringOf' = [EnteringOf EXCEPT ![m] = EnteringOf[m] \cup {h}]
    <3>1. EnteringOf'[m] = EnteringOf[m] \cup {h}
      BY <1>0, <2>1, <2>2 DEF EnteringOf
    <3>2. ASSUME NEW n \in Monitor, n # m  PROVE  EnteringOf'[n] = EnteringOf[n]
      BY <1>0, <2>1, <2>2, <3>2 DEF EnteringOf
    <3>m. m \in Monitor
      BY <1>0, <2>1, <2>2
    <3> QED BY <3>1, <3>2, <3>m, Mapped, OneChanged
  <2> QED BY <1>2, <2>1, <2>3, <2>4, <2>p DEF Abstract!NotifyFirst
<1> QED BY <1>1, <1>2

LEMMA NotifyAllRefines ==
  ASSUME IInv, NEW t \in Thread, NotifyAll(t)
  PROVE  Abstract!NotifyEach(t, at[t])
<1>p. PICK m : m = at[t]
  OBVIOUS
<1>0. /\ pc[t] = "in" /\ UNCHANGED at
      /\ \E next \in {"in", "walk"} : pc' = [pc EXCEPT ![t] = next]
      /\ cond_wq' = [cond_wq EXCEPT ![m] = << >>]
  BY <1>p DEF NotifyAll, At, Goto, condition_notify_all
<1>1. m \in Monitor /\ InsideOf[m] = {t}
  BY <1>0, <1>p, OnlyInside
<1>2. /\ \A x \in Thread : x # t => pc'[x] = pc[x]
      /\ pc'[t] \in {"in", "walk"}
  BY <1>0 DEF IInv, TypeOK
<1>3. UNCHANGED InsideOf
  <2>1. ASSUME NEW n \in Monitor  PROVE  InsideOf'[n] = InsideOf[n]
    BY <1>0, <1>2 DEF InsideOf, Inside
  <2> QED BY <2>1, Mapped, NoneChanged
<1>4. /\ \A n \in Monitor : n # m => cond_wq'[n] = cond_wq[n]
      /\ Range(cond_wq'[m]) = {}
  BY <1>0, <1>1, EmptyRange DEF IInv, TypeOK, LockTypeOK
<1>5. \A x \in Range(cond_wq[m]) : x \in Thread /\ at[x] = m /\ pc[x] = "relock"
  <2>1. cond_wq[m] \in Seq(Thread)
    BY <1>1 DEF IInv, TypeOK, LockTypeOK
  <2>2. Range(cond_wq[m]) \subseteq Thread
    BY SMT, <2>1, SeqRange
  <2> QED BY <1>1, <2>2 DEF IInv, CondQueues
<1>6. EnteringOf' = [EnteringOf EXCEPT ![m] = EnteringOf[m] \cup Range(cond_wq[m])]
  <2>1. ASSUME NEW n \in Monitor, n # m  PROVE  EnteringOf'[n] = EnteringOf[n]
    BY <1>0, <1>2, <1>4, <2>1 DEF EnteringOf
  <2>2. EnteringOf'[m] = EnteringOf[m] \cup Range(cond_wq[m])
    BY <1>0, <1>1, <1>2, <1>4, <1>5 DEF EnteringOf
  <2> QED BY <1>1, <2>1, <2>2, Mapped, OneChanged
<1>7. Abstract!NotifyEach(t, m)
  BY <1>0, <1>1, <1>3, <1>6 DEF Abstract!NotifyEach, Abstract!Range, Range
<1> QED BY <1>7, <1>p

-----------------------------------------------------------------------------
LEMMA StepRefines ==
  IInv /\ [Next]_vars => [Abstract!MonitorNext]_Abstract!monitorVars
<1> SUFFICES ASSUME IInv, [Next]_vars
             PROVE  Abstract!MonitorNext \/ UNCHANGED Abstract!monitorVars
  OBVIOUS
<1>t. /\ pc \in [Thread -> Label]
      /\ \A t \in Thread : pc[t] # "out" => at[t] \in Monitor
  BY DEF IInv, TypeOK, PcOK
<1>1. CASE UNCHANGED <<pc, at, cond_wq>>
  BY <1>1, Invisible DEF Inside
<1>2. ASSUME NEW t \in Thread, LockStep(t)
      PROVE  Abstract!MonitorNext \/ UNCHANGED Abstract!monitorVars
  <2>1. CASE (Lock(t) \/ Relock(t)) /\ mutex_state[at[t]] = "UNLOCKED"
    <3>1. at[t] \in Monitor
      BY <1>t, <2>1 DEF Lock, Relock, At
    <3> QED BY <2>1, <3>1, AcquireRefines DEF Abstract!MonitorNext
  <2>2. CASE (Lock(t) \/ Relock(t)) /\ mutex_state[at[t]] # "UNLOCKED"
    BY <1>1, <2>2 DEF Lock, Relock, mutex_lock
  <2>3. CASE Walk(t) \/ Step(t)
    <3>1. /\ pc[t] \in {"walk", "step"} /\ UNCHANGED <<at, cond_wq>>
          /\ \E next \in {"in", "walk", "step"} : pc' = [pc EXCEPT ![t] = next]
      BY <2>3 DEF Walk, Step, At, Goto, NotifyAllActivate, NotifyAllNext, lockVars
    <3> QED BY <1>t, <3>1, Invisible DEF Inside
  <2>4. CASE Park(t) /\ UNCHANGED at
    BY <1>1, <2>4 DEF Park, lockVars
  <2> QED BY <1>2, <2>1, <2>2, <2>3, <2>4 DEF LockStep
<1>3. ASSUME NEW t \in Thread, Call(t)
      PROVE  Abstract!MonitorNext \/ UNCHANGED Abstract!monitorVars
  <2>1. ASSUME NEW m \in Monitor, Enter(t, m)  PROVE  Abstract!MonitorNext
    BY <2>1, EnterRefines DEF Abstract!MonitorNext
  <2>2. ASSUME NEW m \in Monitor, NotifyOutside(t, m)
        PROVE  Abstract!MonitorNext \/ UNCHANGED Abstract!monitorVars
    <3>1. condition_notify(t, m, pc[t]) /\ UNCHANGED at
      BY <2>2 DEF NotifyOutside, At
    <3> QED BY <3>1, NotifyRefines DEF Abstract!MonitorNext
  <2>3. CASE Unlock(t) \/ Wait(t) \/ Notify(t) \/ NotifyAll(t)
    <3>1. at[t] \in Monitor /\ pc[t] = "in"
      BY <1>t, <2>3 DEF Unlock, Wait, Notify, NotifyAll, At
    <3>2. CASE Unlock(t)
      BY <3>1, <3>2, UnlockRefines DEF Abstract!MonitorNext
    <3>3. CASE Wait(t)
      BY <3>1, <3>3, WaitRefines DEF Abstract!MonitorNext
    <3>4. CASE Notify(t)
      BY <3>1, <3>4, NotifyRefines DEF Notify, Abstract!MonitorNext
    <3>5. CASE NotifyAll(t)
      BY <3>1, <3>5, NotifyAllRefines DEF Abstract!MonitorNext
    <3> QED BY <2>3, <3>2, <3>3, <3>4, <3>5
  <2> QED BY <1>3, <2>1, <2>2, <2>3 DEF Call
<1>4. CASE (idle \/ Timer) /\ UNCHANGED at
  BY <1>1, <1>4 DEF idle, Timer, lockVars
<1>5. CASE UNCHANGED vars
  BY <1>1, <1>5 DEF vars, lockVars
<1> QED BY <1>2, <1>3, <1>4, <1>5 DEF Next

(* Mutexes and conditions, with their wait queues, the single wake-up of   *)
(* mutex_unlock and the preemptible walk of wait_queue_notify_all, are     *)
(* monitors for any number of threads.                                     *)
THEOREM Refinement == Spec => ImplementsMonitor
BY InitRefines, StepRefines, Invariance, PTL DEF Spec, ImplementsMonitor, Abstract!MonitorSafe

=============================================================================
