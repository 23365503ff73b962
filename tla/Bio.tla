-------------------------------- MODULE Bio --------------------------------
(***************************************************************************)
(* The block layer (ide.c): client threads submit bios to a queue and wait *)
(* for them; one worker thread takes them off the queue, drives the disk   *)
(* and reports the status.  A client frees its bio as soon as bio_wait     *)
(* returns, while the worker may still be in finish_bio.                   *)
(*                                                                         *)
(* The queue has a monitor, and so has every bio: bio->mutex and bio->cond.*)
(* The objects in Bio are memory of ide_bio_cache that is reused.          *)
(***************************************************************************)
EXTENDS Locking

CONSTANTS Bio,     \* the struct bio objects
          queue,   \* ide_bio_queue_mutex with ide_bio_queue_condition
          worker,  \* the thread that runs process_bio_queue
          Whole    \* the requests made: TRUE for a whole number of sectors

ASSUME BioAssumption ==
  /\ Monitor = Bio \cup {queue}
  /\ queue \notin Bio
  /\ worker \in Thread
  /\ Whole \subseteq BOOLEAN

VARIABLES
  bio,            \* the bio a thread works on
  allocated,      \* the bios that are allocated
  length,         \* bio->map.length % IDE_SECTOR_SIZE = 0
  status,         \* bio->status
  result,         \* finish_bio's argument, a local variable of the worker
  ide_bio_queue   \* the list of submitted bios

bioVars == <<bio, allocated, length, status, result, ide_bio_queue>>

vars == <<schedVars, pc, parked, lockVars, bioVars>>

Client == Thread \ {worker}

Status == {"NONE", "FINISHED", "FAILED"}

Label == {"out", "submit", "submit_add", "submit_notify", "submit_unlock",
          "wait", "wait_lock", "wait_test", "wait_relock", "wait_unlock", "read", "free",
          "dequeue", "dequeue_lock", "dequeue_test", "dequeue_relock", "dequeue_unlock",
          "handle", "finish", "finish_set", "finish_notify", "finish_walk",
          "finish_step", "finish_unlock"}

TypeOK ==
  /\ LockTypeOK
  /\ pc \in [Thread -> Label]
  /\ bio \in [Thread -> Bio \cup {NoMonitor}]
  /\ allocated \subseteq Bio
  /\ length \in [Bio -> BOOLEAN]
  /\ status \in [Bio -> Status]
  /\ result \in Status
  /\ ide_bio_queue \in Seq(Bio)

Init ==
  /\ LockInit
  /\ pc = [t \in Thread |-> IF t = worker THEN "dequeue" ELSE "out"]
  /\ bio = [t \in Thread |-> NoMonitor]
  /\ allocated = {}
  /\ length = [b \in Bio |-> TRUE]
  /\ status = [b \in Bio |-> "NONE"]
  /\ result = "NONE"
  /\ ide_bio_queue = << >>

-----------------------------------------------------------------------------
(* A thread enters bio_wait, or dequeue_bio in the loop of its worker.     *)
Call(t, from, to) ==
  /\ At(t, from)
  /\ Goto(t, to)
  /\ UNCHANGED <<schedVars, parked, lockVars, bioVars>>

(* bio_alloc, and the client filling in bio->map.  When there is no memory *)
(* the call fails and changes nothing.                                     *)
bio_alloc(t) ==
  /\ At(t, "out")
  /\ \E b \in Bio \ allocated, whole \in Whole :
       /\ allocated' = allocated \cup {b}
       /\ bio' = [bio EXCEPT ![t] = b]
       /\ length' = [length EXCEPT ![b] = whole]
       /\ status' = [status EXCEPT ![b] = "NONE"]
       /\ mutex_state' = [mutex_state EXCEPT ![b] = "UNLOCKED"]
       /\ mutex_wq' = [mutex_wq EXCEPT ![b] = << >>]
       /\ cond_wq' = [cond_wq EXCEPT ![b] = << >>]
  /\ Goto(t, "submit")
  /\ UNCHANGED <<schedVars, parked, frame, notifying, result, ide_bio_queue>>

\* Mutant: the worker is not notified.
SubmitAdd_NoNotify(t) ==
  /\ At(t, "submit_add")
  /\ ide_bio_queue' = Append(ide_bio_queue, bio[t])
  /\ Goto(t, "submit_unlock")
  /\ UNCHANGED <<schedVars, parked, lockVars, bio, allocated, length, status, result>>

SubmitAdd(t) ==
  /\ At(t, "submit_add")
  /\ ide_bio_queue' = Append(ide_bio_queue, bio[t])
  /\ Goto(t, "submit_notify")
  /\ UNCHANGED <<schedVars, parked, lockVars, bio, allocated, length, status, result>>

bio_submit(t) ==
  \/ At(t, "submit") /\ mutex_lock(t, queue, "submit_add") /\ UNCHANGED bioVars
  \/ SubmitAdd(t)
  \/ /\ At(t, "submit_notify")
     /\ condition_notify(t, queue, "submit_unlock")
     /\ UNCHANGED bioVars
  \/ At(t, "submit_unlock") /\ mutex_unlock(t, queue, "wait") /\ UNCHANGED bioVars

\* Mutant: bio_wait polls the status without the mutex.
bio_wait_Polls(t) ==
  /\ At(t, "wait")
  /\ Goto(t, IF status[bio[t]] = "NONE" THEN "wait" ELSE "read")
  /\ UNCHANGED <<schedVars, parked, lockVars, bioVars>>

bio_wait(t) ==
  \/ Call(t, "wait", "wait_lock")
  \/ At(t, "wait_lock") /\ mutex_lock(t, bio[t], "wait_test") /\ UNCHANGED bioVars
  \/ /\ At(t, "wait_test")
     /\ IF status[bio[t]] = "NONE"
        THEN condition_wait(t, bio[t], "wait_relock")
        ELSE Goto(t, "wait_unlock") /\ UNCHANGED <<schedVars, parked, lockVars>>
     /\ UNCHANGED bioVars
  \/ At(t, "wait_relock") /\ mutex_lock(t, bio[t], "wait_test") /\ UNCHANGED bioVars
  \/ At(t, "wait_unlock") /\ mutex_unlock(t, bio[t], "read") /\ UNCHANGED bioVars

(* The client reads bio->status, then frees the bio.                       *)
ReadStatus(t) ==
  /\ At(t, "read")
  /\ Goto(t, "free")
  /\ UNCHANGED <<schedVars, parked, lockVars, bioVars>>

bio_free(t) ==
  /\ At(t, "free")
  /\ allocated' = allocated \ {bio[t]}
  /\ bio' = [bio EXCEPT ![t] = NoMonitor]
  /\ Goto(t, "out")
  /\ UNCHANGED <<schedVars, parked, lockVars, length, status, result, ide_bio_queue>>

-----------------------------------------------------------------------------
\* Mutant: the bio is not deleted from the queue.
DequeueTest_NoDel(t) ==
  /\ At(t, "dequeue_test")
  /\ IF ide_bio_queue = << >>
     THEN condition_wait(t, queue, "dequeue_relock") /\ UNCHANGED bioVars
     ELSE /\ bio' = [bio EXCEPT ![t] = Head(ide_bio_queue)]
          /\ Goto(t, "dequeue_unlock")
          /\ UNCHANGED <<schedVars, parked, lockVars, allocated, length, status,
                         result, ide_bio_queue>>

DequeueTest(t) ==
  /\ At(t, "dequeue_test")
  /\ IF ide_bio_queue = << >>
     THEN condition_wait(t, queue, "dequeue_relock") /\ UNCHANGED bioVars
     ELSE /\ bio' = [bio EXCEPT ![t] = Head(ide_bio_queue)]
          /\ ide_bio_queue' = Tail(ide_bio_queue)
          /\ Goto(t, "dequeue_unlock")
          /\ UNCHANGED <<schedVars, parked, lockVars, allocated, length, status, result>>

dequeue_bio(t) ==
  \/ Call(t, "dequeue", "dequeue_lock")
  \/ At(t, "dequeue_lock") /\ mutex_lock(t, queue, "dequeue_test") /\ UNCHANGED bioVars
  \/ DequeueTest(t)
  \/ /\ At(t, "dequeue_relock")
     /\ mutex_lock(t, queue, "dequeue_test")
     /\ UNCHANGED bioVars
  \/ At(t, "dequeue_unlock") /\ mutex_unlock(t, queue, "handle") /\ UNCHANGED bioVars

\* Mutant: the length is not checked.
handle_bio_AnyLength(t) ==
  /\ At(t, "handle")
  /\ result' \in {"FINISHED", "FAILED"}
  /\ Goto(t, "finish")
  /\ UNCHANGED <<schedVars, parked, lockVars, bio, allocated, length, status, ide_bio_queue>>

(* A transfer runs with interrupts disabled, and the disk may report an    *)
(* error.                                                                  *)
handle_bio(t) ==
  /\ At(t, "handle")
  /\ result' \in IF length[bio[t]] THEN {"FINISHED", "FAILED"} ELSE {"FAILED"}
  /\ Goto(t, "finish")
  /\ UNCHANGED <<schedVars, parked, lockVars, bio, allocated, length, status, ide_bio_queue>>

\* Mutant: the waiters are not notified.
FinishSet_NoNotify(t) ==
  /\ At(t, "finish_set")
  /\ status' = [status EXCEPT ![bio[t]] = result]
  /\ Goto(t, "finish_unlock")
  /\ UNCHANGED <<schedVars, parked, lockVars, bio, allocated, length, result, ide_bio_queue>>

FinishSet(t) ==
  /\ At(t, "finish_set")
  /\ status' = [status EXCEPT ![bio[t]] = result]
  /\ Goto(t, "finish_notify")
  /\ UNCHANGED <<schedVars, parked, lockVars, bio, allocated, length, result, ide_bio_queue>>

finish_bio(t) ==
  \/ At(t, "finish") /\ mutex_lock(t, bio[t], "finish_set") /\ UNCHANGED bioVars
  \/ FinishSet(t)
  \/ /\ At(t, "finish_notify")
     /\ condition_notify_all(t, bio[t], "finish_walk", "finish_unlock")
     /\ UNCHANGED bioVars
  \/ At(t, "finish_walk") /\ NotifyAllActivate(t, "finish_step") /\ UNCHANGED bioVars
  \/ /\ At(t, "finish_step")
     /\ NotifyAllNext(t, "finish_walk", "finish_unlock")
     /\ UNCHANGED bioVars
  \/ At(t, "finish_unlock") /\ mutex_unlock(t, bio[t], "dequeue") /\ UNCHANGED bioVars

-----------------------------------------------------------------------------
ClientStep(t) ==
  \/ bio_submit(t) \/ bio_wait(t) \/ ReadStatus(t) \/ bio_free(t)
  \/ Park(t) /\ UNCHANGED bioVars

process_bio_queue ==
  \/ dequeue_bio(worker) \/ handle_bio(worker) \/ finish_bio(worker)
  \/ Park(worker) /\ UNCHANGED bioVars

Next ==
  \/ \E t \in Client : bio_alloc(t) \/ ClientStep(t)
  \/ process_bio_queue
  \/ (idle \/ Timer) /\ UNCHANGED bioVars

Spec == Init /\ [][Next]_vars

(* The timer ticks, idle() is executed, and a thread that is given the     *)
(* processor again and again gets through the code it is in; a client need *)
(* not submit anything.                                                    *)
Fairness ==
  /\ WF_vars(Timer /\ UNCHANGED bioVars)
  /\ WF_vars(idle /\ UNCHANGED bioVars)
  /\ SF_vars(process_bio_queue)
  /\ \A t \in Client : SF_vars(ClientStep(t))

FairSpec == Spec /\ Fairness

-----------------------------------------------------------------------------
\* Where a thread's bio pointer is still going to be used.
UsesBio(t) ==
  pc[t] \notin {"out", "dequeue", "dequeue_lock", "dequeue_test", "dequeue_relock"}

(* The client frees the bio while the worker is on its way out of          *)
(* finish_bio: no thread uses a bio that is not allocated, none is in the  *)
(* queue, and none is freed with its mutex held or with a thread in one of *)
(* its wait queues.                                                        *)
NoUseAfterFree ==
  /\ \A t \in Thread : UsesBio(t) => bio[t] \in allocated
  /\ Range(ide_bio_queue) \subseteq allocated
  /\ \A b \in Bio \ allocated :
        mutex_state[b] = "UNLOCKED" /\ mutex_wq[b] = << >> /\ cond_wq[b] = << >>

\* The bios that are still to be handled or reported by the worker.
AtWorker == {b \in Bio : /\ b = bio[worker]
                         /\ pc[worker] \in {"dequeue_unlock", "handle", "finish", "finish_set"}}

(* A submitted bio is in the queue, or with the worker, or has its status, *)
(* and in one of the three places only: none is lost and none is served    *)
(* twice.                                                                  *)
ServedOnce ==
  /\ \A i, j \in 1..Len(ide_bio_queue) : ide_bio_queue[i] = ide_bio_queue[j] => i = j
  /\ AtWorker \cap Range(ide_bio_queue) = {}
  /\ \A t \in Client : UsesBio(t) /\ pc[t] \notin {"submit", "submit_add"} =>
        (status[bio[t]] = "NONE" <=> bio[t] \in Range(ide_bio_queue) \cup AtWorker)

(* bio_wait returns only once there is a status, and a request that is not *)
(* a whole number of sectors is never reported as done.                    *)
StatusRead ==
  \A t \in Client : pc[t] \in {"read", "free"} =>
    status[bio[t]] \in IF length[bio[t]] THEN {"FINISHED", "FAILED"} ELSE {"FAILED"}

(* finish_bio walks bio->cond's waiters with interrupts enabled: each      *)
(* wait_head on its list is still on the stack of a thread in              *)
(* condition_wait, though that thread frees the bio when it gets out.      *)
WaitHeadLive ==
  pc[worker] \in {"finish_walk", "finish_step"} =>
    \A u \in Range(notifying[worker]) : frame[u] = bio[worker]

(* The worker does not sleep while there is work: if it waits on the queue *)
(* condition and the queue is not empty, a client is about to notify it.   *)
WorkerNotified ==
  worker \in Range(cond_wq[queue]) /\ ide_bio_queue # << >>
    => \E t \in Client : pc[t] = "submit_notify"

(* A request is answered: bio_wait returns.                                *)
RequestAnswered ==
  \A t \in Client : pc[t] = "wait" ~> pc[t] = "read"
=============================================================================
