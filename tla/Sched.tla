------------------------------- MODULE Sched -------------------------------
(***************************************************************************)
(* The scheduling core of the kernel: scheduler.c (the round-robin policy),*)
(* the switching half of threads.c (schedule, switch_to, place_thread,     *)
(* activate_thread, need_resched) and the timer interrupt that drives it.  *)
(*                                                                         *)
(* The machine has one processor.  Every "spinlock" of the kernel is a     *)
(* cli/sti pair, so a section that runs with interrupts disabled is one    *)
(* atomic step, and preemption (the timer interrupt) may fall between any  *)
(* two steps taken with interrupts enabled.                                *)
(*                                                                         *)
(* This module has the state and the operators; Threads and Locking extend *)
(* it with the programs that the threads run.                              *)
(***************************************************************************)
EXTENDS Integers, Sequences, Functions

CONSTANTS Thread,     \* the struct thread objects of rr_thread_cache
          bootstrap,  \* the static thread that main() turns into idle()
          HZ          \* timer interrupts per second (time.h)

ASSUME SchedAssumption == bootstrap \notin Thread /\ HZ \in Nat

VARIABLES
  current_thread,  \* threads.c: current_thread
  state,           \* thread->state
  rr_active_list,  \* scheduler.c: the run queue, head first
  elapsed,         \* jiffies() - current_thread->time, saturated at ElapsedMax
  irq,             \* the interrupt flag of the processor
  saved_irq        \* the flag a thread re-establishes once switched back in

schedVars == <<current_thread, state, rr_active_list, elapsed, irq, saved_irq>>

AnyThread == Thread \cup {bootstrap}

ThreadState == {"NONE", "ACTIVE", "BLOCKED", "FINISHED", "DEAD", "REAPED"}

RR_SCHED_SLICE == 20

RR_MS == 1000

\* Beyond this value rr_need_preempt answers TRUE whatever the exact time is.
ElapsedMax == ((RR_SCHED_SLICE * HZ) \div RR_MS) + 1

SchedTypeOK ==
  /\ current_thread \in AnyThread
  /\ state \in [AnyThread -> ThreadState]
  /\ rr_active_list \in Seq(Thread)
  /\ elapsed \in 0..ElapsedMax
  /\ irq \in BOOLEAN
  /\ saved_irq \in [AnyThread -> BOOLEAN]

-----------------------------------------------------------------------------
(* activate_thread, as the value it gives to the states and to the run     *)
(* queue: only a BLOCKED thread becomes ACTIVE and joins the queue.        *)

ActivateState(st, t) ==
  IF st[t] = "BLOCKED" THEN [st EXCEPT ![t] = "ACTIVE"] ELSE st

ActivateQueue(st, queue, t) ==
  IF st[t] = "BLOCKED" THEN Append(queue, t) ELSE queue

-----------------------------------------------------------------------------
\* Mutant: preempt_thread queues the bootstrap thread like any other.
preempt_thread_Bootstrap(queue, st) ==
  IF st[current_thread] = "ACTIVE" THEN Append(queue, current_thread) ELSE queue

\* Mutant: rr_preempt queues the outgoing thread whatever its state is.
preempt_thread_AnyState(queue, st) ==
  IF current_thread # bootstrap THEN Append(queue, current_thread) ELSE queue

(* The outgoing thread is queued if it is still ACTIVE.                    *)
preempt_thread(queue, st) ==
  IF current_thread # bootstrap /\ st[current_thread] = "ACTIVE"
  THEN Append(queue, current_thread) ELSE queue

(* What the incoming thread does to the state of the outgoing one: only now*)
(* that its stack is not in use any more does a FINISHED thread become     *)
(* DEAD.                                                                   *)
place_thread(st) ==
  [st EXCEPT ![current_thread] = IF @ = "FINISHED" THEN "DEAD" ELSE @]

(* switch_to, up to and including the place_thread that the next thread    *)
(* executes on its own stack.                                              *)
switch_to(next, queue, st, flag) ==
  /\ rr_active_list' = preempt_thread(queue, st)
  /\ state' = place_thread(st)
  /\ saved_irq' = [saved_irq EXCEPT ![current_thread] = flag]
  /\ current_thread' = next
  /\ elapsed' = 0
  /\ irq' = saved_irq[next]

(* schedule(), called with the thread states st and after time e; flag is  *)
(* the interrupt flag that the caller will have once schedule returns.     *)
schedule(st, e, flag) ==
  LET idle == rr_active_list = << >>
      next == IF idle THEN bootstrap ELSE Head(rr_active_list)
      rest == IF idle THEN << >> ELSE Tail(rr_active_list)
      stay == IF idle THEN st[current_thread] = "ACTIVE" ELSE next = current_thread
  IN  IF stay
      THEN /\ rr_active_list' = rest
           /\ state' = st
           /\ irq' = flag
           /\ elapsed' = e
           /\ UNCHANGED <<current_thread, saved_irq>>
      ELSE switch_to(next, rest, st, flag)

\* Mutant: the comparison is the wrong way round.
rr_need_preempt_Reversed(e) == e * RR_MS < RR_SCHED_SLICE * HZ

rr_need_preempt(e) == e * RR_MS > RR_SCHED_SLICE * HZ

need_resched(e) == current_thread = bootstrap \/ rr_need_preempt(e)

(* isr_common_handler for the timer: the handler counts the tick and then  *)
(* the interrupt path reschedules.  The interrupted context has its flag   *)
(* set, and iretq restores it.  (bootstrap's time is never read, so ticks  *)
(* are not counted for it.)                                                *)
TimerInterrupt ==
  LET e == IF current_thread # bootstrap /\ elapsed < ElapsedMax
           THEN elapsed + 1 ELSE elapsed
  IN  /\ irq
      /\ IF need_resched(e)
         THEN schedule(state, e, TRUE)
         ELSE /\ elapsed' = e
              /\ UNCHANGED <<current_thread, state, rr_active_list, irq, saved_irq>>

-----------------------------------------------------------------------------
(* The run queue holds exactly the threads that are ACTIVE and not on the  *)
(* processor, each of them once: a thread is never lost (ACTIVE but in no  *)
(* queue), never scheduled while it is blocked or finished, and never      *)
(* linked twice into rr_active_list (which would corrupt the list).        *)
RunQueueExact ==
  /\ \A t \in Thread :
        (state[t] = "ACTIVE" /\ t # current_thread) <=> t \in Range(rr_active_list)
  /\ \A i, j \in 1..Len(rr_active_list) :
        rr_active_list[i] = rr_active_list[j] => i = j

=============================================================================
