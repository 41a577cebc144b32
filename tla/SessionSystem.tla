---------------------------- MODULE SessionSystem ----------------------------
(***************************************************************************)
(* The practice sessions of a user: the session service, the coaching tips *)
(* and the cleanup of incomplete sessions, all working on one store and    *)
(* interleaving at every await.                                            *)
(***************************************************************************)
EXTENDS SessionService, CoachingTips

vars == <<storeVars, cleanupVars, serviceVars, tipReq>>

Init == StoreInit /\ CleanupInit /\ ServiceInit /\ TipInit

TimeStep == \E s \in Session : HourPasses(s) \/ LockExpires(s)

SchedulerStep(p) ==
  \E s \in Session :
    PickJob(p, s) \/ EnqueueCleanup(p, s) \/ MissJob(p, s) \/ SendFails(p, s)

WorkerStep(w) ==
  \/ \E s \in Session : TakeTask(w, s)
  \/ CleanupKeeps(w) \/ CleanupTooEarly(w) \/ CleanupDecides(w)
  \/ CleanupDeletes(w) \/ CleanupAborts(w)

HandlerBegins(h) ==
  \/ h \in Purger /\ PurgeBegin(h)
  \/ h \in Requester /\ \E s \in Session : AddBegin(h, s) \/ RemoveBegin(h, s)
  \/ h \in Requester /\ \E s \in Session \ Abandoned, t \in Turn : ScoreBegin(h, s, t)

\* The steps of an operation that has begun.
HandlerContinues(h) ==
  \/ AddVoices(h) \/ AddInserts(h) \/ AddSchedules(h)
  \/ ScoreUploads(h) \/ ScoreRecords(h) \/ ScoreTooLate(h)
  \/ RemoveRow(h) \/ RemoveAudio(h) \/ RemoveEnds(h)
  \/ PurgeLists(h) \/ PurgeRemoves(h) \/ PurgeRepeats(h)

AdvisorStep(a) ==
  \/ \E s \in Session : TipBegin(a, s)
  \/ TipChecks(a) \/ TipRefused(a) \/ TipInserts(a)
  \/ TipPurgeBegin(a) \/ TipPurgeDeletes(a) \/ TipPurgeEnds(a) \/ TipAborts(a)

Next ==
  \/ TimeStep
  \/ \E p \in Scheduler : SchedulerStep(p)
  \/ \E w \in Worker : WorkerStep(w)
  \/ \E h \in Handler : HandlerBegins(h) \/ HandlerContinues(h) \/ HandlerAborts(h)
  \/ \E a \in Advisor : AdvisorStep(a)

Spec == Init /\ [][Next]_vars

TypeOK == StoreTypeOK /\ CleanupTypeOK /\ ServiceTypeOK /\ TipTypeOK

----------------------------------------------------------------------------
(* Fairness: time passes; a started scheduler keeps looking at the job     *)
(* store and runs what it picked; Celery keeps taking tasks and running    *)
(* them; a handler that was started keeps running.  Nobody has to start a  *)
(* request.                                                                *)

SchedulerRuns(s) ==
  HourPasses(s) \/ \E p \in Scheduler : PickJob(p, s) \/ EnqueueCleanup(p, s)

CeleryTakes(s) == \E w \in Worker : TakeTask(w, s)

CeleryRuns(w) ==
  CleanupKeeps(w) \/ CleanupTooEarly(w) \/ CleanupDecides(w) \/ CleanupDeletes(w)

Fairness ==
  /\ \A s \in Session : WF_vars(SchedulerRuns(s)) /\ WF_vars(CeleryTakes(s))
  /\ \A w \in Worker : WF_vars(CeleryRuns(w))
  /\ \A h \in Handler : WF_vars(HandlerContinues(h))

FairSpec == Spec /\ Fairness

----------------------------------------------------------------------------
(* Safety *)

\* Every audio URL of a stored session leads to an object of the bucket:
\* uploads come before the write that publishes their URL, and objects go
\* after the session that names them (stream_session_audio would answer 404).
AudioIsThere == \A s \in Session : Live(s) => Urls(s) \subseteq bucket

\* However many web workers pick the due job, at most one cleanup task of a
\* session is in the broker or running (the NX lock of _enqueue_cleanup_task).
OneCleanupInFlight ==
  \A s \in Session :
    /\ queued[s] <= 1
    /\ \A w \in Worker :
         task[w].s = s => queued[s] = 0 /\ \A v \in Worker \ {w} : task[v].s # s

\* A session spoken in during its first hour is never deleted by the cleanup,
\* although the cleanup reads the session and deletes it in two calls.  (One
\* spoken in later may be: the delete does not look again.)
PractisedAreKept ==
  \A w \in Worker : task[w].pc = "deleting" => task[w].s \notin practised

\* The promise of the API: PracticeSession states it for status, scored, tips.
Promise == INSTANCE PracticeSession
Implements == Promise!Spec

\* readme.md: "Session deletion attempts to remove Cloudflare R2 audio URLs
\* tied to the session."  Where no such attempt fails, a deleted session that
\* nobody works on has left no audio of its turns behind.
DeletionRemovesAudio ==
  \A s \in Session :
    /\ status[s] = "gone"
    /\ \A h \in Handler : req[h].s # s
    /\ \A w \in Worker : task[w].s # s
    => Urls(s) \cap bucket = {}

----------------------------------------------------------------------------
(* Where nothing fails (Faults = {}) *)

CleanupPending(s) ==
  \/ s \in jobs \/ queued[s] > 0
  \/ \E w \in Worker : task[w].s = s
  \/ \E h \in Handler : At(h, "scheduling") /\ req[h].s = s

\* A session nobody spoke in is never forgotten on the way from the request
\* through the job store, the lock and the broker to the worker.
CleanupStaysPending ==
  \A s \in Session : Live(s) /\ scored[s] = {} => CleanupPending(s)

\* It is deleted in the end, unless it is spoken in.
AbandonedIsCleaned ==
  \A s \in Session : Live(s) ~> (~Live(s) \/ scored[s] # {})

\* delete_sessions_for_user comes to its end, although requests create and
\* remove sessions while it lists and removes: its listing becomes empty.
PurgeEnds == \A h \in Purger : At(h, "listing") ~> At(h, "idle")
=============================================================================
