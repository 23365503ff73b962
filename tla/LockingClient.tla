--------------------------- MODULE LockingClient ---------------------------
(***************************************************************************)
(* Threads that use the sleeping locks in every way the kernel does: lock, *)
(* wait for the condition, notify one or all waiters while the mutex is    *)
(* held, notify one without it, unlock.                                    *)
(***************************************************************************)
EXTENDS Locking

VARIABLE at   \* the monitor a thread is using

vars == <<schedVars, pc, parked, lockVars, at>>

Label == {"out", "lock", "in", "relock", "walk", "step"}

TypeOK ==
  /\ LockTypeOK
  /\ pc \in [Thread -> Label]
  /\ at \in [Thread -> Monitor \cup {NoMonitor}]

Init ==
  /\ LockInit
  /\ pc = [t \in Thread |-> "out"]
  /\ at = [t \in Thread |-> NoMonitor]

-----------------------------------------------------------------------------
Enter(t, m) ==
  /\ At(t, "out")
  /\ Goto(t, "lock")
  /\ at' = [at EXCEPT ![t] = m]
  /\ UNCHANGED <<schedVars, parked, lockVars>>

Lock(t) == At(t, "lock") /\ mutex_lock(t, at[t], "in") /\ UNCHANGED at

Relock(t) == At(t, "relock") /\ mutex_lock(t, at[t], "in") /\ UNCHANGED at

Unlock(t) ==
  /\ At(t, "in")
  /\ mutex_unlock(t, at[t], "out")
  /\ at' = [at EXCEPT ![t] = NoMonitor]

Wait(t) == At(t, "in") /\ condition_wait(t, at[t], "relock") /\ UNCHANGED at

Notify(t) == At(t, "in") /\ condition_notify(t, at[t], "in") /\ UNCHANGED at

NotifyOutside(t, m) == At(t, "out") /\ condition_notify(t, m, "out") /\ UNCHANGED at

NotifyAll(t) ==
  /\ At(t, "in")
  /\ condition_notify_all(t, at[t], "walk", "in")
  /\ UNCHANGED at

Walk(t) == At(t, "walk") /\ NotifyAllActivate(t, "step") /\ UNCHANGED at

Step(t) == At(t, "step") /\ NotifyAllNext(t, "walk", "in") /\ UNCHANGED at

-----------------------------------------------------------------------------
(* The code of locking.c that a thread is in the middle of.                *)
LockStep(t) ==
  \/ Lock(t) \/ Relock(t) \/ Walk(t) \/ Step(t)
  \/ Park(t) /\ UNCHANGED at

Call(t) ==
  \/ \E m \in Monitor : Enter(t, m) \/ NotifyOutside(t, m)
  \/ Unlock(t) \/ Wait(t) \/ Notify(t) \/ NotifyAll(t)

Next ==
  \/ \E t \in Thread : LockStep(t) \/ Call(t)
  \/ (idle \/ Timer) /\ UNCHANGED at

Spec == Init /\ [][Next]_vars

(* The timer ticks, idle() is executed, and a thread that is given the     *)
(* processor again and again gets through the code of locking.c.  Nothing  *)
(* is assumed of what the threads do between two calls.                    *)
Fairness ==
  /\ WF_vars(Timer /\ UNCHANGED at)
  /\ WF_vars(idle /\ UNCHANGED at)
  /\ \A t \in Thread : SF_vars(LockStep(t))

FairSpec == Spec /\ Fairness

-----------------------------------------------------------------------------
Inside(t, m) == at[t] = m /\ pc[t] \in {"in", "walk", "step"}

(* A mutex is LOCKED exactly while one thread is between its mutex_lock (or*)
(* the one that ends condition_wait) and its mutex_unlock.                 *)
MutualExclusion ==
  \A m \in Monitor :
    /\ mutex_state[m] = "LOCKED" <=> \E t \in Thread : Inside(t, m)
    /\ \A t, u \in Thread : Inside(t, m) /\ Inside(u, m) => t = u

(* t is about to try the mutex of m and nothing has to wake it first.      *)
Trying(t, m) ==
  at[t] = m /\ pc[t] \in {"lock", "relock"} /\ state[t] = "ACTIVE"

(* mutex_unlock wakes one thread only, and that thread may be overtaken;   *)
(* still, a free mutex with threads in its queue always has a thread on its*)
(* way to take it, who will wake the next one.                             *)
NoLostWakeup ==
  \A m \in Monitor :
    mutex_state[m] = "UNLOCKED" /\ mutex_wq[m] # << >>
      => \E t \in Thread : Trying(t, m)

\* The wait_heads that notify_all has still to reach.
Unnotified(t) == IF pc[t] = "walk" THEN Range(notifying[t])
                 ELSE IF pc[t] = "step" THEN Range(Tail(notifying[t])) ELSE {}

\* The lists through which a waker can reach t.
Wakers(t) ==
  {<<"mutex", m>> : m \in {m \in Monitor : t \in Range(mutex_wq[m])}}
    \cup {<<"condition", m>> : m \in {m \in Monitor : t \in Range(cond_wq[m])}}
    \cup {<<"walk", u>> : u \in {u \in Thread : t \in Unnotified(u)}}

(* A thread is BLOCKED exactly while one waker can reach it: it is in one  *)
(* mutex queue, one condition queue or the rest of one notify_all's list,  *)
(* so it neither sleeps for ever unseen nor is woken with its wait_head    *)
(* still linked.                                                           *)
BlockedIsQueued ==
  \A t \in Thread :
    /\ state[t] = "BLOCKED" <=> Wakers(t) # {}
    /\ \A v, w \in Wakers(t) : v = w

(* wait_queue_notify_all follows ptr->next after activate_thread: every    *)
(* wait_head from ptr on is on the stack of a thread that has not returned *)
(* from condition_wait.                                                    *)
WaitHeadLive ==
  \A t \in Thread : pc[t] \in {"walk", "step"} =>
    \A u \in Range(notifying[t]) : frame[u] = at[t]

(* The monitors as their users see them.  A thread that notify_all has not *)
(* reached yet counts as notified: the walk is invisible.                  *)
InsideOf == [m \in Monitor |-> {t \in Thread : Inside(t, m)}]

EnteringOf ==
  [m \in Monitor |->
    {t \in Thread : /\ at[t] = m /\ pc[t] \in {"lock", "relock"}
                    /\ t \notin Range(cond_wq[m])}]

Abstract == INSTANCE MonitorSpec WITH
  inside <- InsideOf, entering <- EnteringOf, waiting <- cond_wq

(* The wait queues, the one thread woken by mutex_unlock and the walk of   *)
(* wait_queue_notify_all, preempted anywhere, implement monitors.          *)
ImplementsMonitor == Abstract!MonitorSafe

(* A free mutex that a thread wants is taken.                              *)
LockProgress ==
  \A m \in Monitor :
    (mutex_state[m] = "UNLOCKED" /\ \E t \in Thread : Trying(t, m) \/ t \in Range(mutex_wq[m]))
      ~> mutex_state[m] = "LOCKED"

(* A thread that notify_all has to wake is woken, though the list is walked*)
(* with interrupts enabled.                                                *)
NotifiedWakes ==
  \A t, u \in Thread : t \in Unnotified(u) ~> state[t] = "ACTIVE"
=============================================================================
