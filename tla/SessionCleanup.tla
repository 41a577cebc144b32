--------------------------- MODULE SessionCleanup ---------------------------
(***************************************************************************)
(* controller/session_cleanup/cleanup.py: one hour after a session was     *)
(* created, a session nobody spoke in is deleted.  The deletion crosses    *)
(* four processes:                                                         *)
(*                                                                         *)
(*   add_session stores an APScheduler date job in the shared MongoDB job  *)
(*   store; every web worker runs a scheduler on that store, so several of *)
(*   them may pick the same due job; each picker runs                      *)
(*   _enqueue_cleanup_task, where a Redis SET NX lock lets one of them     *)
(*   send the Celery task; a Celery worker runs                            *)
(*   cleanup_incomplete_session, which reads the session and then, in a    *)
(*   second call, deletes it.                                              *)
(***************************************************************************)
EXTENDS SessionStore

----------------------------------------------------------------------------
(* The scheduler side, in the web workers. *)

\* Variant on a scheduler that was never started.
ScheduleCleanupNowhere(s) == UNCHANGED jobs

\* schedule_cleanup_incomplete_session, called where a scheduler runs.
ScheduleCleanup(s) == jobs' = jobs \cup {s}

\* An hour passes for s.  Without skew both hosts see it at once.
HourPasses(s) ==
  /\ status[s] # "unused"
  /\ \E C \in IF "skew" \in Faults THEN {{"web"}, {"worker"}} ELSE {Clock} :
       /\ \E c \in C : s \notin due[c]
       /\ due' = [c \in Clock |-> IF c \in C THEN due[c] \cup {s} ELSE due[c]]
  /\ UNCHANGED <<storeVars, serviceVars, tipReq, jobs, picked, lock, queued, task>>

\* A scheduler reads the due job; it removes it from the store only later,
\* so that another scheduler can read it too.
PickJob(p, s) ==
  /\ s \in jobs \cap due["web"]
  /\ s \notin picked[p]
  /\ picked' = [picked EXCEPT ![p] = @ \cup {s}]
  /\ UNCHANGED <<storeVars, serviceVars, tipReq, due, jobs, lock, queued, task>>

DropJob(p, s) ==
  /\ s \in picked[p]
  /\ picked' = [picked EXCEPT ![p] = @ \ {s}]
  /\ jobs' = jobs \ {s}
  /\ UNCHANGED <<storeVars, serviceVars, tipReq, due, task>>

SendTask(s) == queued' = [queued EXCEPT ![s] = @ + 1]

\* Variant that sends without asking for the lock.
EnqueueCleanupUnlocked(p, s) ==
  /\ DropJob(p, s)
  /\ lock' = lock \cup {s} /\ SendTask(s)

\* _enqueue_cleanup_task: the lock is taken first, the task sent after it.
EnqueueCleanup(p, s) ==
  /\ DropJob(p, s)
  /\ \/ s \in lock /\ UNCHANGED <<lock, queued>>
     \/ s \notin lock /\ lock' = lock \cup {s} /\ SendTask(s)

\* The scheduler woke up later than misfire_grace_time and drops the run, or
\* Redis is down and _acquire_cleanup_enqueue_lock answers False.
MissJob(p, s) ==
  /\ {"misfire", "redis"} \cap Faults # {}
  /\ DropJob(p, s)
  /\ UNCHANGED <<lock, queued>>

\* send_task raises after the lock was taken: nothing releases the lock.
SendFails(p, s) ==
  /\ "broker" \in Faults
  /\ s \notin lock
  /\ DropJob(p, s)
  /\ lock' = lock \cup {s}
  /\ UNCHANGED queued

\* The key has a TTL of 7200 s, longer than any scheduler holds a picked job.
LockExpires(s) ==
  /\ s \in lock
  /\ s \notin jobs /\ \A p \in Scheduler : s \notin picked[p]
  /\ lock' = lock \ {s}
  /\ UNCHANGED <<storeVars, serviceVars, tipReq, due, jobs, picked, queued, task>>

----------------------------------------------------------------------------
(* The Celery side: cleanup_incomplete_session. *)

\* Variant of a broker that delivers a message again.
TakeTaskAgain(w, s) ==
  /\ task[w] = NoTask /\ s \in lock
  /\ task' = [task EXCEPT ![w] = [pc |-> "reading", s |-> s]]
  /\ queued' = [queued EXCEPT ![s] = @ - 1]
  /\ UNCHANGED <<storeVars, serviceVars, tipReq, due, jobs, picked, lock>>

TakeTask(w, s) ==
  /\ task[w] = NoTask /\ queued[s] > 0
  /\ task' = [task EXCEPT ![w] = [pc |-> "reading", s |-> s]]
  /\ queued' = [queued EXCEPT ![s] = @ - 1]
  /\ UNCHANGED <<storeVars, serviceVars, tipReq, due, jobs, picked, lock>>

TaskEnds(w) == task' = [task EXCEPT ![w] = NoTask]

\* get_session found nothing, or the session was spoken in.
CleanupKeeps(w) ==
  /\ task[w].pc = "reading"
  /\ LET s == task[w].s IN
       \/ ~Live(s)
       \/ s \in due["worker"] /\ scored[s] # {}
  /\ TaskEnds(w)
  /\ UNCHANGED <<storeVars, serviceVars, tipReq, due, jobs, picked, lock, queued>>

\* Variant with <= for <: a task that runs on the hour is too early.
CleanupTooEarlyOnTheHour(w) ==
  /\ task[w].pc = "reading"
  /\ LET s == task[w].s IN
       /\ Live(s)
       /\ lock' = lock \ {s}
  /\ TaskEnds(w)
  /\ UNCHANGED <<storeVars, serviceVars, tipReq, due, jobs, picked, queued>>

\* Too young by the worker's clock: the lock is cleared (or Redis is down, which
\* is passed over) and the job scheduled again, on a scheduler that the Celery
\* process never starts: APScheduler keeps such a job in that process's memory
\* and the store gets nothing.
CleanupTooEarly(w) ==
  /\ task[w].pc = "reading"
  /\ LET s == task[w].s IN
       /\ Live(s) /\ s \notin due["worker"]
       /\ \/ lock' = lock \ {s}
          \/ "redis" \in Faults /\ UNCHANGED lock
  /\ TaskEnds(w)
  /\ UNCHANGED <<storeVars, serviceVars, tipReq, due, jobs, picked, queued>>

\* Variant that trusts the job and does not look at the age.
CleanupDecidesAtAnyAge(w) ==
  /\ task[w].pc = "reading"
  /\ Live(task[w].s) /\ scored[task[w].s] = {}
  /\ task' = [task EXCEPT ![w].pc = "deleting"]
  /\ UNCHANGED <<storeVars, serviceVars, tipReq, due, jobs, picked, lock, queued>>

\* Old enough and every score is null: decide to delete.
CleanupDecides(w) ==
  /\ task[w].pc = "reading"
  /\ LET s == task[w].s IN
       Live(s) /\ s \in due["worker"] /\ scored[s] = {}
  /\ task' = [task EXCEPT ![w].pc = "deleting"]
  /\ UNCHANGED <<storeVars, serviceVars, tipReq, due, jobs, picked, lock, queued>>

CleanupDeletes(w) ==
  /\ task[w].pc = "deleting"
  /\ DeleteSession(task[w].s)
  /\ TaskEnds(w)
  /\ UNCHANGED <<scored, bucket, tips, serviceVars, tipReq, due, jobs, picked, lock, queued>>

\* Any exception is swallowed; a crash loses the task, acknowledged when taken.
CleanupAborts(w) ==
  /\ "abort" \in Faults
  /\ task[w] # NoTask
  /\ TaskEnds(w)
  /\ UNCHANGED <<storeVars, serviceVars, tipReq, due, jobs, picked, lock, queued>>
=============================================================================
