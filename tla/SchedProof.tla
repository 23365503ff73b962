----------------------------- MODULE SchedProof -----------------------------
(***************************************************************************)
(* Facts about the scheduler's operators, for the proofs about Threads and *)
(* LockingClient.                                                          *)
(***************************************************************************)
EXTENDS Sched, TLAPS

-----------------------------------------------------------------------------
(* Queues without repetition. *)

NoRepeat(s) == \A i, j \in 1..Len(s) : s[i] = s[j] => i = j

LEMMA SeqRange ==
  ASSUME NEW S, NEW s \in Seq(S)
  PROVE  Len(s) \in Nat /\ Range(s) = {s[i] : i \in 1..Len(s)}
BY DEF Range

(* list_add_tail adds one element at the end. *)
LEMMA AppendRange ==
  ASSUME NEW S, NEW s \in Seq(S), NEW x \in S
  PROVE  /\ Append(s, x) \in Seq(S)
         /\ Range(Append(s, x)) = Range(s) \cup {x}
         /\ NoRepeat(s) /\ x \notin Range(s) => NoRepeat(Append(s, x))
<1>1. /\ Append(s, x) \in Seq(S)
      /\ Len(Append(s, x)) = Len(s) + 1
      /\ \A i \in 1..Len(s) : Append(s, x)[i] = s[i]
      /\ Append(s, x)[Len(s) + 1] = x
  OBVIOUS
<1>2. /\ Len(s) \in Nat
      /\ Range(s) = {s[i] : i \in 1..Len(s)}
      /\ Range(Append(s, x)) = {Append(s, x)[i] : i \in 1..Len(s) + 1}
  BY <1>1 DEF Range
<1>3. Range(Append(s, x)) = Range(s) \cup {x}
  BY <1>1, <1>2
<1>4. NoRepeat(s) /\ x \notin Range(s) => NoRepeat(Append(s, x))
  BY <1>1, <1>2 DEF NoRepeat
<1> QED BY <1>1, <1>3, <1>4

(* list_del of the first element removes that element and no other. *)
LEMMA TailRange ==
  ASSUME NEW S, NEW s \in Seq(S), s # << >>, NoRepeat(s)
  PROVE  /\ Head(s) \in S
         /\ Tail(s) \in Seq(S)
         /\ Head(s) \in Range(s)
         /\ Range(Tail(s)) = Range(s) \ {Head(s)}
         /\ NoRepeat(Tail(s))
<1>1. /\ Head(s) \in S
      /\ Tail(s) \in Seq(S)
      /\ Len(Tail(s)) = Len(s) - 1
      /\ \A i \in 1..Len(Tail(s)) : Tail(s)[i] = s[i + 1]
  OBVIOUS
<1>2. Head(s) = s[1] /\ Len(s) \in Nat \ {0}
  OBVIOUS
<1>3. /\ Range(s) = {s[i] : i \in 1..Len(s)}
      /\ Range(Tail(s)) = {Tail(s)[i] : i \in 1..Len(s) - 1}
  BY Zenon, <1>1, SeqRange
<1>4. \A i \in 1..Len(s) : i # 1 => i - 1 \in 1..Len(s) - 1 /\ s[i] = Tail(s)[i - 1]
  BY <1>1, <1>2
<1>5. Range(Tail(s)) = Range(s) \ {Head(s)}
  <2>1. ASSUME NEW x \in Range(Tail(s))  PROVE  x \in Range(s) \ {Head(s)}
    <3>1. PICK i \in 1..Len(s) - 1 : x = s[i + 1]
      BY <1>1, <1>3
    <3> QED BY <1>2, <1>3, <3>1 DEF NoRepeat
  <2>2. ASSUME NEW x \in Range(s), x # Head(s)  PROVE  x \in Range(Tail(s))
    <3>1. PICK i \in 1..Len(s) : x = s[i]
      BY <1>3
    <3> QED BY Zenon, <1>2, <1>3, <1>4, <2>2, <3>1
  <2> QED BY <2>1, <2>2
<1>6. NoRepeat(Tail(s))
  BY <1>1, <1>2 DEF NoRepeat
<1> QED BY <1>1, <1>2, <1>3, <1>5, <1>6

LEMMA EmptyRange == Range(<< >>) = {}
BY DEF Range

-----------------------------------------------------------------------------
LEMMA ElapsedMaxType == ElapsedMax \in Nat \ {0}
BY SchedAssumption DEF ElapsedMax, RR_SCHED_SLICE, RR_MS

(* schedule() keeps the scheduler's state well typed. *)
LEMMA ScheduleType ==
  ASSUME SchedTypeOK,
         NEW st \in [AnyThread -> ThreadState], NEW e \in 0..ElapsedMax,
         NEW flag \in BOOLEAN, schedule(st, e, flag)
  PROVE  SchedTypeOK'
<1> USE DEF SchedTypeOK, AnyThread
<1>1. rr_active_list # << >> =>
        Head(rr_active_list) \in Thread /\ Tail(rr_active_list) \in Seq(Thread)
  OBVIOUS
<1>2. 0 \in 0..ElapsedMax
  BY ElapsedMaxType
<1>3. ASSUME NEW next \in AnyThread, NEW queue \in Seq(Thread),
             switch_to(next, queue, st, flag)
      PROVE  SchedTypeOK'
  <2>1. rr_active_list' \in Seq(Thread)
    BY <1>3 DEF switch_to, preempt_thread, place_thread
  <2>2. state' \in [AnyThread -> ThreadState]
    BY <1>3 DEF switch_to, preempt_thread, place_thread, ThreadState
  <2> QED BY <1>2, <1>3, <2>1, <2>2 DEF switch_to, preempt_thread, place_thread
<1> QED BY Zenon, <1>1, <1>3 DEF schedule

(* The run queue is exact for the thread states st, those that a caller of *)
(* schedule() has just set.                                                *)
QueueExact(st) ==
  /\ \A t \in Thread :
        (st[t] = "ACTIVE" /\ t # current_thread) <=> t \in Range(rr_active_list)
  /\ NoRepeat(rr_active_list)

(* schedule() neither loses nor duplicates a thread: whatever thread it    *)
(* switches to, the run queue is exact again.                              *)
LEMMA ScheduleRunQueue ==
  ASSUME SchedTypeOK,
         NEW st \in [AnyThread -> ThreadState], NEW e, NEW flag,
         QueueExact(st), schedule(st, e, flag)
  PROVE  RunQueueExact'
<1> USE DEF SchedTypeOK, AnyThread
<1> SUFFICES /\ \A t \in Thread :
                  (state'[t] = "ACTIVE" /\ t # current_thread') <=> t \in Range(rr_active_list')
             /\ NoRepeat(rr_active_list')
  BY DEF RunQueueExact, NoRepeat
<1>1. ASSUME NEW next \in AnyThread, NEW queue \in Seq(Thread), NoRepeat(queue),
             \A t \in Thread :
               (st[t] = "ACTIVE" /\ t # current_thread /\ t # next) <=> t \in Range(queue),
             next # current_thread \/ st[next] # "ACTIVE" \/ next = bootstrap,
             switch_to(next, queue, st, flag)
      PROVE  /\ \A t \in Thread :
                  (state'[t] = "ACTIVE" /\ t # current_thread') <=> t \in Range(rr_active_list')
             /\ NoRepeat(rr_active_list')
  <2>1. \A t \in Thread : state'[t] = "ACTIVE" <=> st[t] = "ACTIVE"
    BY <1>1 DEF switch_to, preempt_thread, place_thread
  <2>2. CASE current_thread # bootstrap /\ st[current_thread] = "ACTIVE"
    <3>1. /\ Range(rr_active_list') = Range(queue) \cup {current_thread}
          /\ NoRepeat(rr_active_list')
      BY <1>1, <2>2, AppendRange DEF switch_to, preempt_thread, place_thread
    <3> QED BY <1>1, <2>1, <2>2, <3>1 DEF switch_to, preempt_thread, place_thread
  <2>3. CASE ~(current_thread # bootstrap /\ st[current_thread] = "ACTIVE")
    BY <1>1, <2>1, <2>3, SchedAssumption DEF switch_to, preempt_thread, place_thread
  <2> QED BY <2>2, <2>3
<1>2. CASE rr_active_list = << >> /\ st[current_thread] = "ACTIVE"
  BY <1>2 DEF schedule, QueueExact
<1>3. CASE rr_active_list = << >> /\ st[current_thread] # "ACTIVE"
  <2>1. \A t \in Thread : ~(st[t] = "ACTIVE" /\ t # current_thread)
    BY <1>3, EmptyRange DEF QueueExact
  <2>2. switch_to(bootstrap, << >>, st, flag)
    BY <1>3 DEF schedule
  <2>3. NoRepeat(<< >>) /\ << >> \in Seq(Thread)
    BY DEF NoRepeat
  <2> HIDE DEF NoRepeat
  <2> QED BY Zenon, <1>1, <2>1, <2>2, <2>3, EmptyRange
<1>4. CASE rr_active_list # << >>
  <2> DEFINE next == Head(rr_active_list)
             rest == Tail(rr_active_list)
  <2>1. /\ next \in Thread /\ rest \in Seq(Thread) /\ next \in Range(rr_active_list)
        /\ Range(rest) = Range(rr_active_list) \ {next} /\ NoRepeat(rest)
    BY <1>4, TailRange DEF QueueExact
  <2>2. next # current_thread
    BY <2>1 DEF QueueExact
  <2>3. switch_to(next, rest, st, flag)
    BY <1>4, <2>2 DEF schedule
  <2>4. \A t \in Thread :
          (st[t] = "ACTIVE" /\ t # current_thread /\ t # next) <=> t \in Range(rest)
    BY <2>1 DEF QueueExact
  <2> HIDE DEF next, rest
  <2> QED BY <1>1, <2>1, <2>2, <2>3, <2>4
<1> QED BY <1>2, <1>3, <1>4
=============================================================================
