------------------------------ MODULE Threads ------------------------------
(***************************************************************************)
(* The life cycle of threads (threads.c): create_kthread, fork, wait, exit,*)
(* the pid tree and the reference counts that decide when a thread's stack,*)
(* address space and struct are freed.                                     *)
(*                                                                         *)
(* One action is one section with interrupts disabled, or one access to    *)
(* shared state made with them enabled; the timer may preempt the running  *)
(* thread between any two.  The objects in Thread are memory that is       *)
(* reused: a released one may be handed out again by alloc_thread.         *)
(***************************************************************************)
EXTENDS Sched, FiniteSets

CONSTANTS NoThread,  \* the null pointer
          MaxPid     \* bound: pids 0..MaxPid-1 are given out

ASSUME ThreadsAssumption ==
  /\ NoThread \notin AnyThread
  /\ MaxPid \in Nat
  /\ IsFiniteSet(Thread)

VARIABLES
  pc,         \* where a thread is in the kernel
  target,     \* the struct thread * that it works on
  allocated,  \* the objects that are allocated
  refcount,   \* thread->refcount
  threads,    \* threads.c: the tree of registered threads
  pid,        \* thread->pid
  next_pid    \* register_thread: next_pid

lifeVars == <<allocated, refcount, threads, pid, next_pid>>

vars == <<schedVars, pc, target, lifeVars>>

Label == {"main", "idle", "run", "copy_mm", "register", "lookup", "activate",
          "put_create", "put_fork", "wait_loop", "wait_schedule", "reap",
          "erase", "put_reap", "put_wait", "release", "release_reap", "panic", "exited"}

NoPid == -1

TypeOK ==
  /\ SchedTypeOK
  /\ pc \in [AnyThread -> Label]
  /\ target \in [AnyThread -> Thread \cup {NoThread}]
  /\ allocated \in SUBSET Thread
  /\ refcount \in [Thread -> Int]
  /\ threads \in SUBSET Thread
  /\ pid \in [Thread -> Int]
  /\ next_pid \in Nat

(* main() reaches its create_kthread with interrupts disabled and nothing  *)
(* but the bootstrap thread.                                               *)
Init ==
  /\ current_thread = bootstrap
  /\ state = [t \in AnyThread |-> IF t = bootstrap THEN "ACTIVE" ELSE "NONE"]
  /\ rr_active_list = << >>
  /\ elapsed = 0
  /\ irq = FALSE
  /\ saved_irq = [t \in AnyThread |-> TRUE]
  /\ pc = [t \in AnyThread |-> IF t = bootstrap THEN "main" ELSE "run"]
  /\ target = [t \in AnyThread |-> NoThread]
  /\ allocated = {}
  /\ refcount = [t \in Thread |-> 0]
  /\ threads = {}
  /\ pid = [t \in Thread |-> NoPid]
  /\ next_pid = 0

-----------------------------------------------------------------------------
At(t, label) == current_thread = t /\ pc[t] = label

Goto(t, label) == pc' = [pc EXCEPT ![t] = label]

\* Where create_kthread and fork return to.
Caller(t) == IF t = bootstrap THEN "idle" ELSE "run"

\* Mutant: thread_entry does not enable interrupts.
alloc_thread_IrqOff(t, new, next) ==
  /\ new \notin allocated
  /\ allocated' = allocated \cup {new}
  /\ refcount' = [refcount EXCEPT ![new] = 1]
  /\ state' = [state EXCEPT ![new] = "BLOCKED"]
  /\ pid' = [pid EXCEPT ![new] = NoPid]
  /\ saved_irq' = [saved_irq EXCEPT ![new] = FALSE]
  /\ pc' = [pc EXCEPT ![t] = next, ![new] = "run"]
  /\ target' = [target EXCEPT ![t] = new, ![new] = NoThread]
  /\ UNCHANGED <<current_thread, rr_active_list, elapsed, irq, threads, next_pid>>

(* alloc_thread: the new thread is BLOCKED, with one reference, and when   *)
(* first switched to, thread_entry enables interrupts.  When there is no   *)
(* memory the call fails and changes nothing.                              *)
alloc_thread(t, new, next) ==
  /\ new \notin allocated
  /\ allocated' = allocated \cup {new}
  /\ refcount' = [refcount EXCEPT ![new] = 1]
  /\ state' = [state EXCEPT ![new] = "BLOCKED"]
  /\ pid' = [pid EXCEPT ![new] = NoPid]
  /\ saved_irq' = [saved_irq EXCEPT ![new] = TRUE]
  /\ pc' = [pc EXCEPT ![t] = next, ![new] = "run"]
  /\ target' = [target EXCEPT ![t] = new, ![new] = NoThread]
  /\ UNCHANGED <<current_thread, rr_active_list, elapsed, irq, threads, next_pid>>

(* The bound: a thread is allocated only while a pid is left for it.       *)
PidLeft ==
  next_pid + Cardinality({t \in AnyThread : pc[t] \in {"copy_mm", "register"}}) < MaxPid

CreateKthread(t) ==
  /\ At(t, IF t = bootstrap THEN "main" ELSE "run")
  /\ PidLeft
  /\ \E new \in Thread : alloc_thread(t, new, "register")

Fork(t) ==
  /\ At(t, "run")
  /\ PidLeft
  /\ \E new \in Thread : alloc_thread(t, new, "copy_mm")

(* __fork gives the new thread back when copy_mm fails.                    *)
CopyMm(t) ==
  /\ At(t, "copy_mm")
  /\ \E next \in {"register", "put_fork"} : Goto(t, next)
  /\ UNCHANGED <<schedVars, target, lifeVars>>

register_thread(t) ==
  /\ At(t, "register")
  /\ pid' = [pid EXCEPT ![target[t]] = next_pid]
  /\ next_pid' = next_pid + 1
  /\ threads' = threads \cup {target[t]}
  /\ Goto(t, "lookup")
  /\ UNCHANGED <<schedVars, target, allocated, refcount>>

Registered(p) == {x \in threads : pid[x] = p}

(* create_kthread and fork look the pid up again to get a reference; they  *)
(* assert that it is found.                                                *)
LookupCreated(t) ==
  /\ At(t, "lookup")
  /\ LET found == Registered(pid[target[t]])
     IN  IF found = {}
         THEN Goto(t, "panic") /\ UNCHANGED <<target, refcount>>
         ELSE \E x \in found :
                /\ refcount' = [refcount EXCEPT ![x] = @ + 1]
                /\ target' = [target EXCEPT ![t] = x]
                /\ Goto(t, "activate")
  /\ UNCHANGED <<schedVars, allocated, threads, pid, next_pid>>

activate_thread(t) ==
  /\ At(t, "activate")
  /\ state' = ActivateState(state, target[t])
  /\ rr_active_list' = ActivateQueue(state, rr_active_list, target[t])
  /\ Goto(t, "put_create")
  /\ UNCHANGED <<current_thread, elapsed, irq, saved_irq, target, lifeVars>>

(* put_thread: the count drops with interrupts disabled; the object is     *)
(* released after they are enabled again.                                  *)
put_thread(t, label, released, next) ==
  /\ At(t, label)
  /\ refcount' = [refcount EXCEPT ![target[t]] = @ - 1]
  /\ IF refcount[target[t]] = 1
     THEN Goto(t, released) /\ UNCHANGED target
     ELSE /\ Goto(t, next)
          /\ target' = IF next = "put_wait" THEN target
                       ELSE [target EXCEPT ![t] = NoThread]
  /\ UNCHANGED <<schedVars, allocated, threads, pid, next_pid>>

PutThread(t) ==
  \/ put_thread(t, "put_create", "release", Caller(t))
  \/ put_thread(t, "put_fork", "release", Caller(t))
  \/ put_thread(t, "put_reap", "release_reap", "put_wait")
  \/ put_thread(t, "put_wait", "release", Caller(t))

release_thread(t) ==
  /\ pc[t] \in {"release", "release_reap"}
  /\ current_thread = t
  /\ allocated' = allocated \ {target[t]}
  /\ state' = [state EXCEPT ![target[t]] = "NONE"]
  /\ IF pc[t] = "release"
     THEN Goto(t, Caller(t)) /\ target' = [target EXCEPT ![t] = NoThread]
     ELSE Goto(t, "put_wait") /\ UNCHANGED target
  /\ UNCHANGED <<current_thread, rr_active_list, elapsed, irq, saved_irq,
                 refcount, threads, pid, next_pid>>

-----------------------------------------------------------------------------
\* Mutant: wait forgets the get_thread of lookup_thread.
Wait_NoGet(t, p) ==
  /\ At(t, "run")
  /\ \E x \in Registered(p) : target' = [target EXCEPT ![t] = x]
  /\ Goto(t, "wait_loop")
  /\ UNCHANGED <<schedVars, lifeVars>>

(* wait: when no thread has the pid the call returns -ENOENT and changes   *)
(* nothing.                                                                *)
Wait(t, p) ==
  /\ At(t, "run")
  /\ \E x \in Registered(p) :
       /\ refcount' = [refcount EXCEPT ![x] = @ + 1]
       /\ target' = [target EXCEPT ![t] = x]
  /\ Goto(t, "wait_loop")
  /\ UNCHANGED <<schedVars, allocated, threads, pid, next_pid>>

\* Mutant: the loop waits for FINISHED, a state only the thread itself sees.
WaitLoop_Finished(t) ==
  /\ At(t, "wait_loop")
  /\ Goto(t, IF state[target[t]] = "FINISHED" THEN "reap" ELSE "wait_schedule")
  /\ UNCHANGED <<schedVars, target, lifeVars>>

WaitLoop(t) ==
  /\ At(t, "wait_loop")
  /\ Goto(t, IF state[target[t]] = "DEAD" THEN "reap" ELSE "wait_schedule")
  /\ UNCHANGED <<schedVars, target, lifeVars>>

WaitSchedule(t) ==
  /\ At(t, "wait_schedule")
  /\ schedule(state, elapsed, irq)
  /\ Goto(t, "wait_loop")
  /\ UNCHANGED <<target, lifeVars>>

\* Mutant: reap_thread does not test whether another waiter was first.
reap_thread_Always(t) ==
  /\ At(t, "reap")
  /\ state' = [state EXCEPT ![target[t]] = "REAPED"]
  /\ Goto(t, "erase")
  /\ UNCHANGED <<current_thread, rr_active_list, elapsed, irq, saved_irq,
                 target, lifeVars>>

reap_thread(t) ==
  /\ At(t, "reap")
  /\ state' = [state EXCEPT ![target[t]] = "REAPED"]
  /\ Goto(t, IF state[target[t]] = "REAPED" THEN "put_wait" ELSE "erase")
  /\ UNCHANGED <<current_thread, rr_active_list, elapsed, irq, saved_irq,
                 target, lifeVars>>

EraseThread(t) ==
  /\ At(t, "erase")
  /\ threads' = threads \ {target[t]}
  /\ Goto(t, "put_reap")
  /\ UNCHANGED <<schedVars, target, allocated, refcount, pid, next_pid>>

\* Mutant: exit does not mark the thread FINISHED.
exit_StillActive(t) ==
  /\ t # bootstrap
  /\ At(t, "run")
  /\ schedule(state, elapsed, FALSE)
  /\ Goto(t, "exited")
  /\ UNCHANGED <<target, lifeVars>>

exit(t) ==
  /\ t # bootstrap
  /\ At(t, "run")
  /\ schedule([state EXCEPT ![t] = "FINISHED"], elapsed, FALSE)
  /\ Goto(t, "exited")
  /\ UNCHANGED <<target, lifeVars>>

(* The end of main(): interrupts are enabled, and idle() yields for ever.  *)
idle ==
  /\ At(bootstrap, "idle")
  /\ schedule(state, elapsed, TRUE)
  /\ UNCHANGED <<pc, target, lifeVars>>

-----------------------------------------------------------------------------
(* The kernel code a thread is in the middle of.                           *)
KernelStep(t) ==
  \/ CopyMm(t) \/ register_thread(t) \/ LookupCreated(t) \/ activate_thread(t)
  \/ PutThread(t) \/ release_thread(t)
  \/ WaitLoop(t) \/ WaitSchedule(t) \/ reap_thread(t) \/ EraseThread(t)

(* The calls a thread makes when it is in none.                            *)
Call(t) ==
  \/ CreateKthread(t)
  \/ Fork(t)
  \/ \E p \in 0..MaxPid-1 : Wait(t, p)
  \/ exit(t)

Timer == TimerInterrupt /\ UNCHANGED <<pc, target, lifeVars>>

Next ==
  \/ \E t \in Thread : Call(t)
  \/ CreateKthread(bootstrap)
  \/ \E t \in AnyThread : KernelStep(t)
  \/ idle
  \/ Timer

Spec == Init /\ [][Next]_vars

(* The timer keeps ticking, main() and idle() are executed, and a thread   *)
(* that is given the processor again and again gets through its kernel     *)
(* code: a slice is many instructions long.                                *)
Fairness ==
  /\ WF_vars(Timer)
  /\ WF_vars(CreateKthread(bootstrap) \/ idle)
  /\ \A t \in AnyThread : SF_vars(KernelStep(t))

FairSpec == Spec /\ Fairness

-----------------------------------------------------------------------------
(* Nothing in the kernel points to a thread that has been released: not    *)
(* the processor (the stack it runs on is freed by release_thread), not the*)
(* run queue, not the pid tree, not a call that is in progress.            *)
NoUseAfterFree ==
  /\ current_thread \in allocated \cup {bootstrap}
  /\ Range(rr_active_list) \subseteq allocated
  /\ threads \subseteq allocated
  /\ \A t \in allocated \cup {bootstrap} :
        target[t] # NoThread => target[t] \in allocated

(* The threads whose call in progress holds a reference to x.              *)
Holders(x) ==
  {t \in AnyThread : /\ target[t] = x
                     /\ pc[t] \in {"activate", "put_create", "wait_loop",
                                   "wait_schedule", "reap", "erase", "put_reap",
                                   "release_reap", "put_wait"}}

(* The reference of alloc_thread ("one for wait") is there until reap_thread *)
(* or a failed fork drops it.                                              *)
CreationRef(x) ==
  \/ x \in threads
  \/ \E t \in AnyThread :
        target[t] = x /\ pc[t] \in {"copy_mm", "register", "put_fork", "put_reap"}

(* refcount counts the references: the one of alloc_thread and one for each*)
(* lookup_thread whose put_thread is still to come.                        *)
RefcountExact ==
  \A x \in allocated :
    refcount[x] = Cardinality(Holders(x)) + (IF CreationRef(x) THEN 1 ELSE 0)

(* The assertions of create_kthread and fork (the new pid is found) and of *)
(* exit ("Unreachable": a thread that exited is never switched to again).  *)
AssertsHold ==
  /\ \A t \in AnyThread : pc[t] # "panic"
  /\ \A t \in Thread : ~At(t, "exited")

(* A thread never runs with interrupts left disabled, whichever of them it *)
(* was switched from: otherwise it could not be preempted any more.        *)
Preemptible == current_thread # bootstrap => irq

(* Round robin: a thread that is queued gets the processor, whatever the   *)
(* running threads do.                                                     *)
ReadyRuns ==
  \A t \in Thread : t \in Range(rr_active_list) ~> current_thread = t

Waiting(t, x) == target[t] = x /\ pc[t] \in {"wait_loop", "wait_schedule", "reap"}

(* wait: once the thread waited for is DEAD, the wait returns, unless it is*)
(* overtaken by another waiter that reaps the thread first.                *)
WaitReturns ==
  \A t, x \in Thread :
    (Waiting(t, x) /\ state[x] = "DEAD")
      ~> (~Waiting(t, x) \/ (state[x] = "REAPED" /\ pc[t] # "reap"))

(* A DEAD thread for which some thread waits is reaped.                    *)
DeadIsReaped ==
  \A x \in Thread :
    (state[x] = "DEAD" /\ \E t \in Thread : Waiting(t, x)) ~> state[x] # "DEAD"
=============================================================================
