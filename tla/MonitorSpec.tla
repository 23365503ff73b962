---------------------------- MODULE MonitorSpec ----------------------------
(***************************************************************************)
(* What mutexes and condition variables promise their users: a monitor that*)
(* one thread at a time is inside of, whose waiters are woken in the order *)
(* they came, one by one or all at once, only by a notification, and then  *)
(* compete with the other threads that want to enter.                      *)
(***************************************************************************)
EXTENDS Sequences, Functions

CONSTANTS Thread, Monitor

VARIABLES
  inside,    \* the threads that are inside of a monitor
  entering,  \* the threads that want to enter a monitor, or to enter it again
  waiting    \* the threads that wait inside of a monitor, first come first

monitorVars == <<inside, entering, waiting>>

MonitorInit ==
  /\ inside = [m \in Monitor |-> {}]
  /\ entering = [m \in Monitor |-> {}]
  /\ waiting = [m \in Monitor |-> << >>]

Uninvolved(t) ==
  \A m \in Monitor : t \notin inside[m] \cup entering[m] \cup Range(waiting[m])

Want(t, m) ==
  /\ Uninvolved(t)
  /\ entering' = [entering EXCEPT ![m] = @ \cup {t}]
  /\ UNCHANGED <<inside, waiting>>

Acquire(t, m) ==
  /\ t \in entering[m]
  /\ inside[m] = {}
  /\ inside' = [inside EXCEPT ![m] = {t}]
  /\ entering' = [entering EXCEPT ![m] = @ \ {t}]
  /\ UNCHANGED waiting

Release(t, m) ==
  /\ inside[m] = {t}
  /\ inside' = [inside EXCEPT ![m] = {}]
  /\ UNCHANGED <<entering, waiting>>

\* Release the monitor and join its waiters in one step.
WaitInside(t, m) ==
  /\ inside[m] = {t}
  /\ inside' = [inside EXCEPT ![m] = {}]
  /\ waiting' = [waiting EXCEPT ![m] = Append(@, t)]
  /\ UNCHANGED entering

NotifyFirst(m) ==
  /\ waiting[m] # << >>
  /\ entering' = [entering EXCEPT ![m] = @ \cup {Head(waiting[m])}]
  /\ waiting' = [waiting EXCEPT ![m] = Tail(@)]
  /\ UNCHANGED inside

NotifyEach(t, m) ==
  /\ inside[m] = {t}
  /\ entering' = [entering EXCEPT ![m] = @ \cup Range(waiting[m])]
  /\ waiting' = [waiting EXCEPT ![m] = << >>]
  /\ UNCHANGED inside

MonitorNext ==
  \E m \in Monitor :
    \/ \E t \in Thread : \/ Want(t, m) \/ Acquire(t, m) \/ Release(t, m)
                         \/ WaitInside(t, m) \/ NotifyEach(t, m)
    \/ NotifyFirst(m)

MonitorSafe == MonitorInit /\ [][MonitorNext]_monitorVars
=============================================================================
