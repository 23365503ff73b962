------------------------------ MODULE Locking ------------------------------
(***************************************************************************)
(* Sleeping locks (locking.h, locking.c): mutexes and condition variables  *)
(* built on wait queues, on top of the scheduler.  The operators are steps *)
(* of a thread t at its program counter; LockingClient and Bio compose     *)
(* programs from them.                                                     *)
(*                                                                         *)
(* The wait queues link wait_heads that live on the stacks of the waiting  *)
(* threads, so a queue is a sequence of threads, and a wait_head exists    *)
(* only until the function that declared it returns.                       *)
(***************************************************************************)
EXTENDS Sched, FiniteSets

CONSTANTS Monitor,   \* a struct mutex, with the struct condition used with it
          NoMonitor  \* the null pointer

\* There are finitely many threads.
ASSUME LockingAssumption == NoMonitor \notin Monitor /\ Cardinality(Thread) \in Nat

VARIABLES
  pc,           \* where a thread is in its program
  parked,       \* TRUE from the sti of a wait to the return of its schedule()
  mutex_state,  \* mutex->state
  mutex_wq,     \* mutex->wq.threads
  cond_wq,      \* condition->wq.threads
  frame,        \* the condition whose condition_wait a thread is in
  notifying     \* wait_queue_notify_all: the private list from ptr on

lockVars == <<mutex_state, mutex_wq, cond_wq, frame, notifying>>

LockTypeOK ==
  /\ SchedTypeOK
  /\ parked \in [Thread -> BOOLEAN]
  /\ mutex_state \in [Monitor -> {"UNLOCKED", "LOCKED"}]
  /\ mutex_wq \in [Monitor -> Seq(Thread)]
  /\ cond_wq \in [Monitor -> Seq(Thread)]
  /\ frame \in [Thread -> Monitor \cup {NoMonitor}]
  /\ notifying \in [Thread -> Seq(Thread)]

\* The threads have been created, in any order, and none has run yet.
LockInit ==
  /\ current_thread = bootstrap
  /\ state = [t \in AnyThread |-> "ACTIVE"]
  /\ rr_active_list \in [1..Cardinality(Thread) -> Thread]
  /\ RunQueueExact
  /\ elapsed = 0
  /\ irq = TRUE
  /\ saved_irq = [t \in AnyThread |-> TRUE]
  /\ parked = [t \in Thread |-> FALSE]
  /\ mutex_state = [m \in Monitor |-> "UNLOCKED"]
  /\ mutex_wq = [m \in Monitor |-> << >>]
  /\ cond_wq = [m \in Monitor |-> << >>]
  /\ frame = [t \in Thread |-> NoMonitor]
  /\ notifying = [t \in Thread |-> << >>]

-----------------------------------------------------------------------------
At(t, label) == current_thread = t /\ ~parked[t] /\ pc[t] = label

Goto(t, label) == pc' = [pc EXCEPT ![t] = label]

Pop(queue) == IF queue = << >> THEN << >> ELSE Tail(queue)

(* wait_queue_notify: the first waiter leaves the queue and is activated.*)
(* st is the state of the threads at the call.                             *)
wait_queue_notify(queue, st) ==
  IF queue = << >>
  THEN state' = st /\ UNCHANGED rr_active_list
  ELSE /\ state' = ActivateState(st, Head(queue))
       /\ rr_active_list' = ActivateQueue(st, rr_active_list, Head(queue))

\* Mutant: __mutex_try_lock does not set the state.
mutex_lock_NotLocked(t, m, next) ==
  /\ mutex_state[m] = "UNLOCKED"
  /\ frame' = [frame EXCEPT ![t] = NoMonitor]
  /\ Goto(t, next)
  /\ UNCHANGED <<schedVars, parked, mutex_state, mutex_wq, cond_wq, notifying>>

(* One turn of the loop of WAIT_EVENT in mutex_lock: take the mutex and    *)
(* return, or block and queue up.  The turn after schedule() is the same.  *)
mutex_lock(t, m, next) ==
  IF mutex_state[m] = "UNLOCKED"
  THEN /\ mutex_state' = [mutex_state EXCEPT ![m] = "LOCKED"]
       /\ frame' = [frame EXCEPT ![t] = NoMonitor]
       /\ Goto(t, next)
       /\ UNCHANGED <<schedVars, parked, mutex_wq, cond_wq, notifying>>
  ELSE /\ state' = [state EXCEPT ![t] = "BLOCKED"]
       /\ mutex_wq' = [mutex_wq EXCEPT ![m] = Append(@, t)]
       /\ parked' = [parked EXCEPT ![t] = TRUE]
       /\ UNCHANGED <<current_thread, rr_active_list, elapsed, irq, saved_irq,
                      pc, mutex_state, cond_wq, frame, notifying>>

(* The schedule() of WAIT_EVENT and of condition_wait, which the thread    *)
(* calls with interrupts enabled: it may have been preempted, or even      *)
(* activated, since it queued up.                                          *)
Park(t) ==
  /\ current_thread = t
  /\ parked[t]
  /\ schedule(state, elapsed, irq)
  /\ parked' = [parked EXCEPT ![t] = FALSE]
  /\ UNCHANGED <<pc, lockVars>>

\* Mutant: mutex_unlock wakes nobody.
mutex_unlock_NoNotify(t, m, next) ==
  /\ mutex_state' = [mutex_state EXCEPT ![m] = "UNLOCKED"]
  /\ Goto(t, next)
  /\ UNCHANGED <<schedVars, parked, mutex_wq, cond_wq, frame, notifying>>

\* Mutant: the first waiter is activated and stays in the queue.
mutex_unlock_NoDel(t, m, next) ==
  /\ mutex_state' = [mutex_state EXCEPT ![m] = "UNLOCKED"]
  /\ wait_queue_notify(mutex_wq[m], state)
  /\ Goto(t, next)
  /\ UNCHANGED <<current_thread, elapsed, irq, saved_irq, parked, mutex_wq,
                 cond_wq, frame, notifying>>

mutex_unlock(t, m, next) ==
  /\ mutex_state' = [mutex_state EXCEPT ![m] = "UNLOCKED"]
  /\ wait_queue_notify(mutex_wq[m], state)
  /\ mutex_wq' = [mutex_wq EXCEPT ![m] = Pop(@)]
  /\ Goto(t, next)
  /\ UNCHANGED <<current_thread, elapsed, irq, saved_irq, parked, cond_wq,
                 frame, notifying>>

\* Mutant: list_add instead of list_add_tail.
condition_wait_Lifo(t, m, relock) ==
  /\ cond_wq' = [cond_wq EXCEPT ![m] = <<t>> \o @]
  /\ mutex_state' = [mutex_state EXCEPT ![m] = "UNLOCKED"]
  /\ wait_queue_notify(mutex_wq[m], [state EXCEPT ![t] = "BLOCKED"])
  /\ mutex_wq' = [mutex_wq EXCEPT ![m] = Pop(@)]
  /\ frame' = [frame EXCEPT ![t] = m]
  /\ parked' = [parked EXCEPT ![t] = TRUE]
  /\ Goto(t, relock)
  /\ UNCHANGED <<current_thread, elapsed, irq, saved_irq, notifying>>

(* condition_wait up to its schedule(); relock is the program counter of   *)
(* the mutex_lock that ends it.                                            *)
condition_wait(t, m, relock) ==
  /\ cond_wq' = [cond_wq EXCEPT ![m] = Append(@, t)]
  /\ mutex_state' = [mutex_state EXCEPT ![m] = "UNLOCKED"]
  /\ wait_queue_notify(mutex_wq[m], [state EXCEPT ![t] = "BLOCKED"])
  /\ mutex_wq' = [mutex_wq EXCEPT ![m] = Pop(@)]
  /\ frame' = [frame EXCEPT ![t] = m]
  /\ parked' = [parked EXCEPT ![t] = TRUE]
  /\ Goto(t, relock)
  /\ UNCHANGED <<current_thread, elapsed, irq, saved_irq, notifying>>

condition_notify(t, m, next) ==
  /\ wait_queue_notify(cond_wq[m], state)
  /\ cond_wq' = [cond_wq EXCEPT ![m] = Pop(@)]
  /\ Goto(t, next)
  /\ UNCHANGED <<current_thread, elapsed, irq, saved_irq, parked,
                 mutex_state, mutex_wq, frame, notifying>>

(* wait_queue_notify_all: the queue is moved to a private list with        *)
(* interrupts disabled, and the list is walked with them enabled.  The     *)
(* step from one wait_head to the next reads the link of a wait_head whose *)
(* thread has just been activated.                                         *)
condition_notify_all(t, m, walk, next) ==
  /\ notifying' = [notifying EXCEPT ![t] = cond_wq[m]]
  /\ cond_wq' = [cond_wq EXCEPT ![m] = << >>]
  /\ Goto(t, IF cond_wq[m] = << >> THEN next ELSE walk)
  /\ UNCHANGED <<schedVars, parked, mutex_state, mutex_wq, frame>>

NotifyAllActivate(t, step) ==
  /\ wait_queue_notify(notifying[t], state)
  /\ Goto(t, step)
  /\ UNCHANGED <<current_thread, elapsed, irq, saved_irq, parked, lockVars>>

\* Mutant: the walk stops after its first wait_head.
NotifyAllNext_Once(t, walk, next) ==
  /\ notifying' = [notifying EXCEPT ![t] = << >>]
  /\ Goto(t, next)
  /\ UNCHANGED <<schedVars, parked, mutex_state, mutex_wq, cond_wq, frame>>

NotifyAllNext(t, walk, next) ==
  /\ notifying' = [notifying EXCEPT ![t] = Tail(@)]
  /\ Goto(t, IF Tail(notifying[t]) = << >> THEN next ELSE walk)
  /\ UNCHANGED <<schedVars, parked, mutex_state, mutex_wq, cond_wq, frame>>

Timer == TimerInterrupt /\ UNCHANGED <<pc, parked, lockVars>>

\* idle() of the bootstrap thread.
idle ==
  /\ current_thread = bootstrap
  /\ schedule(state, elapsed, irq)
  /\ UNCHANGED <<pc, parked, lockVars>>
=============================================================================
