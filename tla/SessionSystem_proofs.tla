------------------------ MODULE SessionSystem_proofs ------------------------
(***************************************************************************)
(* Proofs about the practice sessions, for any numbers of sessions, turns, *)
(* schedulers, Celery slots and handlers and for any set of failures.      *)
(***************************************************************************)
EXTENDS SessionSystem, TLAPS

----------------------------------------------------------------------------
(* Types.  A handler that has begun an operation holds its arguments; the  *)
(* type of req alone would allow None in their place.                      *)

Arguments ==
  \A h \in Handler :
    /\ req[h].pc \in Adding \cup Scoring \cup Removing => req[h].s \in Session
    /\ req[h].pc \in Scoring => req[h].t \in Turn

TypeInv == TypeOK /\ Arguments

LEMMA InitTypeInv == Init => TypeInv
BY StateAssumption
DEF Init, StoreInit, CleanupInit, ServiceInit, TipInit, TypeInv, TypeOK, StoreTypeOK,
    CleanupTypeOK, ServiceTypeOK, TipTypeOK, Arguments, Adding, Scoring, Removing, Purging,
    Request, NoRequest, CleanupTask, NoTask, TipRequest, NoTipRequest

LEMMA TimeTypes == TypeInv /\ TimeStep => TypeInv'
<1> USE DEF TypeInv, TypeOK, CleanupTypeOK, Clock
<1>1. ASSUME TypeInv, NEW s \in Session, HourPasses(s) PROVE TypeInv'
  <2>1. due' \in [Clock -> SUBSET Session]
    BY <1>1 DEF HourPasses
  <2> QED BY <1>1, <2>1 DEF HourPasses, storeVars, serviceVars, StoreTypeOK,
            ServiceTypeOK, TipTypeOK, Arguments
<1>2. ASSUME TypeInv, NEW s \in Session, LockExpires(s) PROVE TypeInv'
  BY <1>2 DEF LockExpires, storeVars, serviceVars, StoreTypeOK, ServiceTypeOK, TipTypeOK,
     Arguments
<1> QED BY <1>1, <1>2 DEF TimeStep

LEMMA SchedulerTypes ==
  ASSUME TypeInv, NEW p \in Scheduler, SchedulerStep(p)
  PROVE  TypeInv'
<1> PICK s \in Session : \/ PickJob(p, s) \/ EnqueueCleanup(p, s)
                         \/ MissJob(p, s) \/ SendFails(p, s)
  BY DEF SchedulerStep
<1>1. UNCHANGED <<storeVars, serviceVars, tipReq, due, task>>
  BY DEF PickJob, EnqueueCleanup, MissJob, SendFails, DropJob
<1>2. CleanupTypeOK'
  BY <1>1 DEF TypeInv, TypeOK, CleanupTypeOK, PickJob, EnqueueCleanup, MissJob, SendFails,
     DropJob, SendTask
<1> QED BY <1>1, <1>2 DEF TypeInv, TypeOK, storeVars, serviceVars, StoreTypeOK,
          ServiceTypeOK, TipTypeOK, Arguments

LEMMA WorkerTypes ==
  ASSUME TypeInv, NEW w \in Worker, WorkerStep(w)
  PROVE  TypeInv'
<1>1. UNCHANGED <<scored, bucket, tips, serviceVars, tipReq, due, jobs, picked>>
  BY DEF WorkerStep, TakeTask, CleanupKeeps, CleanupTooEarly, CleanupDecides,
     CleanupDeletes, CleanupAborts, storeVars
<1> USE DEF TypeInv, TypeOK
<1>2. status' \in [Session -> {"unused", "live", "gone"}]
  BY DEF StoreTypeOK, WorkerStep, TakeTask, CleanupKeeps, CleanupTooEarly, CleanupDecides,
     CleanupDeletes, CleanupAborts, DeleteSession, storeVars
<1>3. lock' \subseteq Session
  BY DEF CleanupTypeOK, WorkerStep, TakeTask, CleanupKeeps, CleanupTooEarly, CleanupDecides,
     CleanupDeletes, CleanupAborts
<1>4. queued' \in [Session -> Nat] /\ task' \in [Worker -> CleanupTask]
  <2> USE DEF CleanupTypeOK
  <2>1. ASSUME NEW s \in Session, TakeTask(w, s)
        PROVE  queued' \in [Session -> Nat] /\ task' \in [Worker -> CleanupTask]
    BY <2>1 DEF TakeTask, CleanupTask
  <2>2. CASE CleanupDecides(w)
    BY <2>2 DEF CleanupDecides, CleanupTask, NoTask
  <2>3. CASE \/ CleanupKeeps(w) \/ CleanupTooEarly(w)
             \/ CleanupDeletes(w) \/ CleanupAborts(w)
    BY <2>3 DEF CleanupKeeps, CleanupTooEarly, CleanupDeletes, CleanupAborts, TaskEnds,
       CleanupTask
  <2> QED BY <2>1, <2>2, <2>3 DEF WorkerStep
<1> QED BY <1>1, <1>2, <1>3, <1>4 DEF serviceVars, StoreTypeOK, CleanupTypeOK, ServiceTypeOK,
          TipTypeOK, Arguments

LEMMA AdvisorTypes ==
  ASSUME TypeInv, NEW a \in Advisor, AdvisorStep(a)
  PROVE  TypeInv'
<1>1. UNCHANGED <<status, scored, bucket, cleanupVars, serviceVars>>
  BY DEF AdvisorStep, TipBegin, TipChecks, TipRefused, TipInserts, TipPurgeBegin,
     TipPurgeDeletes, TipPurgeEnds, TipAborts, storeVars
<1>2. tips' \in [Session -> Nat]
  <2> USE DEF TypeInv, TypeOK, StoreTypeOK, storeVars
  <2>1. CASE TipInserts(a)
    BY <2>1 DEF TipInserts, CreateTip, TipTypeOK, TipRequest, NoTipRequest
  <2>2. CASE TipPurgeDeletes(a)
    BY <2>2 DEF TipPurgeDeletes, DeleteTip, HasTip
  <2> QED
    BY <2>1, <2>2 DEF AdvisorStep, TipBegin, TipChecks, TipRefused, TipPurgeBegin,
       TipPurgeEnds, TipAborts
<1>3. TipTypeOK'
  BY DEF TypeInv, TypeOK, TipTypeOK, AdvisorStep, TipBegin, TipChecks, TipRefused, TipInserts,
     TipPurgeBegin, TipPurgeDeletes, TipPurgeEnds, TipAborts, TipEnds, TipRequest, NoTipRequest
<1> QED BY <1>1, <1>2, <1>3 DEF TypeInv, TypeOK, cleanupVars, serviceVars, StoreTypeOK,
          CleanupTypeOK, ServiceTypeOK, Arguments

\* A handler's step leaves the others alone, and all that the cleanup keeps but
\* the job store.
LEMMA HandlerFrame ==
  ASSUME TypeInv, NEW h \in Handler,
         HandlerBegins(h) \/ HandlerContinues(h) \/ HandlerAborts(h)
  PROVE  /\ UNCHANGED <<tips, due, picked, lock, queued, task, tipReq>>
         /\ \A g \in Handler \ {h} : req'[g] = req[g]
BY DEF HandlerBegins, HandlerContinues, HandlerAborts, AddBegin, AddVoices, AddInserts,
   AddSchedules, ScoreBegin, ScoreUploads, ScoreRecords, ScoreTooLate, RemoveBegin, RemoveRow,
   RemoveAudio, RemoveEnds, PurgeBegin, PurgeLists, PurgeRemoves, PurgeRepeats, Begin, Goto,
   End, Return, storeVars, cleanupVars, TypeInv, TypeOK, ServiceTypeOK

\* It is enough to look at what that handler does to itself and to the store.
LEMMA HandlerTypesLocal ==
  ASSUME TypeInv, NEW h \in Handler,
         UNCHANGED <<tips, due, picked, lock, queued, task, tipReq>>,
         \A g \in Handler \ {h} : req'[g] = req[g],
         status' \in [Session -> {"unused", "live", "gone"}],
         scored' \in [Session -> SUBSET Turn],
         bucket' \subseteq Key, jobs' \subseteq Session, practised' \subseteq Session,
         req' \in [Handler -> Request],
         req'[h].pc \in Adding \cup Scoring \cup Removing => req'[h].s \in Session,
         req'[h].pc \in Scoring => req'[h].t \in Turn
  PROVE  TypeInv'
BY DEF TypeInv, TypeOK, StoreTypeOK, CleanupTypeOK, ServiceTypeOK, TipTypeOK, Arguments

LEMMA HandlerTypes ==
  ASSUME TypeInv, NEW h \in Handler,
         HandlerBegins(h) \/ HandlerContinues(h) \/ HandlerAborts(h)
  PROVE  TypeInv'
<1> DEFINE r == req[h]
           Phases == Adding \cup Scoring \cup Removing \cup Purging
<1>r. /\ req \in [Handler -> Request] /\ r \in Request
      /\ r.pc \in Adding \cup Scoring \cup Removing => r.s \in Session
      /\ r.pc \in Scoring => r.t \in Turn
  BY DEF TypeInv, TypeOK, ServiceTypeOK, Arguments
<1>none. NoRequest \in Request
  BY DEF NoRequest, Request
<1>type. /\ status \in [Session -> {"unused", "live", "gone"}]
         /\ scored \in [Session -> SUBSET Turn]
         /\ bucket \subseteq Key /\ jobs \subseteq Session /\ practised \subseteq Session
  BY DEF TypeInv, TypeOK, StoreTypeOK, CleanupTypeOK, ServiceTypeOK
<1>urls. \A s \in Session : Urls(s) \subseteq Key
  BY <1>type DEF Urls, Key
<1>frame. /\ UNCHANGED <<tips, due, picked, lock, queued, task, tipReq>>
          /\ \A g \in Handler \ {h} : req'[g] = req[g]
  BY HandlerFrame
<1> USE <1>r, <1>type, <1>frame DEF At
<1> USE DEF Request, Adding, Scoring, Removing, Purging
<1>end. ASSUME End(h)
        PROVE  req' \in [Handler -> Request] /\ req'[h].pc = "idle"
  BY <1>end, <1>none DEF End, NoRequest
<1>return. ASSUME Return(h)
           PROVE  req' \in [Handler -> Request] /\ req'[h].pc \in {"idle", "removing"}
  BY <1>return, <1>none DEF Return, NoRequest
<1>1. CASE HandlerBegins(h)
  <2>1. UNCHANGED <<status, scored, bucket, jobs, practised>>
    BY <1>1 DEF HandlerBegins, AddBegin, ScoreBegin, RemoveBegin, PurgeBegin, storeVars, cleanupVars
  <2>2. /\ req' \in [Handler -> Request]
        /\ req'[h].pc \in Adding \cup Scoring \cup Removing => req'[h].s \in Session
        /\ req'[h].pc \in Scoring => req'[h].t \in Turn
    <3>1. CASE PurgeBegin(h)
      BY <3>1 DEF PurgeBegin
    <3>2. ASSUME NEW s \in Session, AddBegin(h, s)
          PROVE  req' \in [Handler -> Request] /\ req'[h].s \in Session /\ req'[h].pc \notin Scoring
      BY <3>2 DEF AddBegin, Begin
    <3>3. ASSUME NEW s \in Session, RemoveBegin(h, s)
          PROVE  req' \in [Handler -> Request] /\ req'[h].s \in Session /\ req'[h].pc \notin Scoring
      BY <3>3, <1>urls DEF RemoveBegin
    <3>4. ASSUME NEW s \in Session, NEW t \in Turn, ScoreBegin(h, s, t)
          PROVE  req' \in [Handler -> Request] /\ req'[h].s \in Session /\ req'[h].t \in Turn
      BY <3>4 DEF ScoreBegin
    <3> QED BY <1>1, <3>1, <3>2, <3>3, <3>4 DEF HandlerBegins
  <2> QED BY <2>1, <2>2, HandlerTypesLocal
<1>2. CASE AddVoices(h) \/ AddInserts(h) \/ AddSchedules(h)
  <2>1. /\ status' \in [Session -> {"unused", "live", "gone"}]
        /\ bucket' \subseteq Key /\ jobs' \subseteq Session
        /\ UNCHANGED <<scored, practised>>
    BY <1>2 DEF AddVoices, AddInserts, AddSchedules, PutAudio, CreateSession, ScheduleCleanup,
       Key, storeVars, cleanupVars
  <2>2. /\ req' \in [Handler -> Request]
        /\ req'[h].pc \in Adding \cup Scoring \cup Removing => req'[h].s \in Session
        /\ req'[h].pc \in Scoring => req'[h].t \in Turn
    <3>1. CASE AddVoices(h)
      BY <3>1 DEF AddVoices, Goto
    <3>2. CASE AddInserts(h)
      BY <3>2 DEF AddInserts, Goto
    <3>3. CASE AddSchedules(h)
      BY <3>3, <1>end DEF AddSchedules
    <3> QED BY <1>2, <3>1, <3>2, <3>3
  <2> QED BY <2>1, <2>2, HandlerTypesLocal
<1>3. CASE ScoreUploads(h) \/ ScoreRecords(h) \/ ScoreTooLate(h)
  <2>1. /\ scored' \in [Session -> SUBSET Turn]
        /\ bucket' \subseteq Key /\ practised' \subseteq Session
        /\ UNCHANGED <<status, jobs>>
    BY <1>3 DEF ScoreUploads, ScoreRecords, ScoreTooLate, PutAudio, UpdateSession, Key,
       storeVars, cleanupVars
  <2>2. /\ req' \in [Handler -> Request]
        /\ req'[h].pc \in Adding \cup Scoring \cup Removing => req'[h].s \in Session
        /\ req'[h].pc \in Scoring => req'[h].t \in Turn
    <3>1. CASE ScoreUploads(h)
      BY <3>1 DEF ScoreUploads, Goto
    <3>2. CASE ScoreRecords(h) \/ ScoreTooLate(h)
      BY <3>2, <1>end DEF ScoreRecords, ScoreTooLate
    <3> QED BY <1>3, <3>1, <3>2
  <2> QED BY <2>1, <2>2, HandlerTypesLocal
<1>4. CASE RemoveRow(h) \/ RemoveAudio(h) \/ RemoveEnds(h)
  <2>1. /\ status' \in [Session -> {"unused", "live", "gone"}]
        /\ bucket' \subseteq Key
        /\ UNCHANGED <<scored, jobs, practised>>
    BY <1>4 DEF RemoveRow, RemoveAudio, RemoveEnds, DeleteSession, DeleteAudio, storeVars, cleanupVars
  <2>2. /\ req' \in [Handler -> Request]
        /\ req'[h].pc \in Adding \cup Scoring \cup Removing => req'[h].s \in Session
        /\ req'[h].pc \in Scoring => req'[h].t \in Turn
    <3>1. CASE RemoveRow(h)
      BY <3>1, <1>return DEF RemoveRow, Goto
    <3>2. CASE RemoveAudio(h)
      BY <3>2 DEF RemoveAudio
    <3>3. CASE RemoveEnds(h)
      BY <3>3, <1>return DEF RemoveEnds
    <3> QED BY <1>4, <3>1, <3>2, <3>3
  <2> QED BY <2>1, <2>2, HandlerTypesLocal
<1>5. CASE PurgeLists(h) \/ PurgeRemoves(h) \/ PurgeRepeats(h)
  <2>1. UNCHANGED <<status, scored, bucket, jobs, practised>>
    BY <1>5 DEF PurgeLists, PurgeRemoves, PurgeRepeats, storeVars, cleanupVars
  <2>2. /\ req' \in [Handler -> Request]
        /\ req'[h].pc \in Adding \cup Scoring \cup Removing => req'[h].s \in Session
        /\ req'[h].pc \in Scoring => req'[h].t \in Turn
    <3>1. CASE PurgeLists(h)
      <4>1. PICK batch \in Batches :
              \/ End(h)
              \/ req' = [req EXCEPT ![h].pc = "removing", ![h].todo = batch]
        BY <3>1 DEF PurgeLists
      <4>2. batch \subseteq Session
        BY DEF Batches, LiveSessions
      <4> QED BY <4>1, <4>2, <1>end
    <3>2. CASE PurgeRemoves(h)
      <4>1. PICK s \in r.todo :
              \/ req' = [req EXCEPT ![h].pc = "deleting", ![h].s = s, ![h].urls = Urls(s)]
              \/ req' = [req EXCEPT ![h].todo = @ \ {s}]
        BY <3>2 DEF PurgeRemoves
      <4>2. s \in Session /\ Urls(s) \subseteq Key /\ r.pc = "removing"
        BY <3>2, <1>urls DEF PurgeRemoves
      <4> QED BY <4>1, <4>2
    <3>3. CASE PurgeRepeats(h)
      BY <3>3 DEF PurgeRepeats, Goto
    <3> QED BY <1>5, <3>1, <3>2, <3>3
  <2> QED BY <2>1, <2>2, HandlerTypesLocal
<1>6. CASE HandlerAborts(h)
  <2>1. UNCHANGED <<status, scored, bucket, jobs, practised>>
    BY <1>6 DEF HandlerAborts, storeVars, cleanupVars
  <2>2. req' \in [Handler -> Request] /\ req'[h].pc = "idle"
    BY <1>6, <1>end DEF HandlerAborts
  <2> QED BY <2>1, <2>2, HandlerTypesLocal
<1> QED BY <1>1, <1>2, <1>3, <1>4, <1>5, <1>6 DEF HandlerContinues

LEMMA TypeInductive == TypeInv /\ [Next]_vars => TypeInv'
<1>1. TypeInv /\ UNCHANGED vars => TypeInv'
  BY DEF vars, storeVars, cleanupVars, serviceVars, TypeInv, TypeOK, StoreTypeOK,
     CleanupTypeOK, ServiceTypeOK, TipTypeOK, Arguments
<1> QED
  BY <1>1, TimeTypes, SchedulerTypes, WorkerTypes, HandlerTypes, AdvisorTypes DEF Next

\* The types hold in every reachable state.
THEOREM TypeCorrect == Spec => []TypeOK
BY InitTypeInv, TypeInductive, PTL DEF Spec, TypeInv

----------------------------------------------------------------------------
(* Audio.  AudioIsThere holds because of what each handler knows of the    *)
(* session it works on: an adder has an id of its own and has uploaded the *)
(* model audio when it inserts, a scorer has uploaded the turn it is about *)
(* to record, and a remover deletes objects of that session alone, after   *)
(* the session is gone.                                                    *)

UnusedIsBlank == \A s \in Session : status[s] = "unused" => scored[s] = {}

AddersDiffer ==
  \A g, h \in Handler :
    g # h /\ req[g].pc \in Adding /\ req[h].pc \in Adding => req[g].s # req[h].s

Knows(h) ==
  LET r == req[h] IN
  /\ r.pc \in {"generating", "inserting"} => status[r.s] = "unused"
  /\ r.pc \in {"scheduling"} \cup Scoring \cup Removing => status[r.s] # "unused"
  /\ r.pc = "inserting" => <<r.s, Script>> \in bucket
  /\ r.pc = "recording" /\ Live(r.s) => <<r.s, r.t>> \in bucket
  /\ r.pc = "unlinking" => status[r.s] = "gone"
  /\ r.pc \in Removing => \A k \in r.urls : k[1] = r.s

AudioInv == UnusedIsBlank /\ AddersDiffer /\ AudioIsThere /\ \A h \in Handler : Knows(h)

LEMMA InitAudioInv == Init => AudioInv
BY DEF Init, StoreInit, ServiceInit, NoRequest, AudioInv, UnusedIsBlank, AddersDiffer,
   AudioIsThere, Knows, Live, Adding, Scoring, Removing

\* Outside the handlers, sessions disappear and nothing else happens to what
\* AudioInv speaks of.
LEMMA OthersAudio ==
  ASSUME TypeInv, AudioInv, UNCHANGED <<scored, bucket, req>>,
         \A s \in Session : status'[s] = status[s] \/ (Live(s) /\ status'[s] = "gone")
  PROVE  AudioInv'
<1>1. UnusedIsBlank' /\ AddersDiffer'
  BY DEF AudioInv, UnusedIsBlank, AddersDiffer, Live
<1>2. AudioIsThere'
  BY DEF AudioInv, AudioIsThere, Live, Urls
<1>3. ASSUME NEW h \in Handler PROVE Knows(h)'
  BY DEF AudioInv, Knows, Live, TypeInv, Arguments, Adding, Scoring, Removing
<1> QED BY <1>1, <1>2, <1>3 DEF AudioInv

LEMMA OthersAudioSteps ==
  ASSUME TypeInv, AudioInv,
         \/ TimeStep
         \/ \E p \in Scheduler : SchedulerStep(p)
         \/ \E w \in Worker : WorkerStep(w)
         \/ \E a \in Advisor : AdvisorStep(a)
         \/ UNCHANGED vars
  PROVE  AudioInv'
<1>1. UNCHANGED <<scored, bucket, req>>
  BY DEF TimeStep, SchedulerStep, WorkerStep, AdvisorStep, HourPasses, LockExpires, PickJob,
     EnqueueCleanup, MissJob, SendFails, DropJob, TakeTask, CleanupKeeps, CleanupTooEarly,
     CleanupDecides, CleanupDeletes, CleanupAborts, TipBegin, TipChecks, TipRefused,
     TipInserts, TipPurgeBegin, TipPurgeDeletes, TipPurgeEnds, TipAborts,
     vars, storeVars, cleanupVars, serviceVars
<1>2. \A s \in Session : status'[s] = status[s] \/ (Live(s) /\ status'[s] = "gone")
  <2>1. ASSUME NEW w \in Worker, CleanupDeletes(w)
        PROVE  \A s \in Session : status'[s] = status[s] \/ (Live(s) /\ status'[s] = "gone")
    BY <2>1 DEF CleanupDeletes, DeleteSession, Live, TypeInv, TypeOK, StoreTypeOK
  <2>2. CASE ~ \E w \in Worker : CleanupDeletes(w)
    BY <2>2 DEF TimeStep, SchedulerStep, WorkerStep, AdvisorStep, HourPasses, LockExpires,
       PickJob, EnqueueCleanup, MissJob, SendFails, DropJob, TakeTask, CleanupKeeps,
       CleanupTooEarly, CleanupDecides, CleanupAborts, TipBegin, TipChecks, TipRefused,
       TipInserts, TipPurgeBegin, TipPurgeDeletes, TipPurgeEnds, TipAborts, vars, storeVars
  <2> QED BY <2>1, <2>2
<1> QED BY <1>1, <1>2, OthersAudio

\* What a handler's step has to respect, when the other handlers stand still.
LEMMA HandlerAudioLocal ==
  ASSUME TypeInv, AudioInv, NEW h \in Handler,
         \A g \in Handler \ {h} : req'[g] = req[g],
         \A s \in Session : \/ status'[s] = status[s]
                            \/ Live(s) /\ status'[s] = "gone"
                            \/ req[h].pc = "inserting" /\ req[h].s = s /\ status'[s] = "live",
         \A k \in bucket : k \in bucket' \/ (status[k[1]] = "gone" /\ req[h].pc = "unlinking"),
         \A s \in Session : scored'[s] = scored[s] \/ Live(s),
         \A s \in Session : Live(s)' => Urls(s)' \subseteq bucket',
         req'[h].pc \in Adding =>
           \A g \in Handler \ {h} : req[g].pc \in Adding => req[g].s # req'[h].s,
         Knows(h)'
  PROVE  AudioInv'
<1> USE DEF AudioInv
<1>1. UnusedIsBlank'
  BY DEF UnusedIsBlank, Live, TypeInv, TypeOK, StoreTypeOK
<1>2. AddersDiffer'
  BY DEF AddersDiffer
<1>3. AudioIsThere'
  BY DEF AudioIsThere
<1>4. ASSUME NEW g \in Handler \ {h} PROVE Knows(g)'
  <2> DEFINE r == req[g]
  <2>1. req'[g] = r /\ Knows(g)
    OBVIOUS
  <2>2. CASE r.pc \in {"generating", "inserting"}
    <3>1. r.s \in Session /\ status[r.s] = "unused"
      BY <2>1, <2>2 DEF Knows, TypeInv, Arguments, Adding
    <3>2. ~(req[h].pc = "inserting" /\ req[h].s = r.s)
      BY <2>2 DEF AddersDiffer, Adding
    <3>3. status'[r.s] = "unused"
      BY <3>1, <3>2 DEF Live
    <3>4. r.pc = "inserting" => <<r.s, Script>> \in bucket'
      BY <2>1, <3>1 DEF Knows
    <3> QED BY <2>1, <2>2, <3>3, <3>4 DEF Knows, Scoring, Removing
  <2>3. CASE r.pc \in {"scheduling"} \cup Scoring \cup Removing
    <3>1. r.s \in Session /\ status[r.s] # "unused"
      BY <2>1, <2>3 DEF Knows, TypeInv, Arguments, Adding
    <3>2. ~(req[h].pc = "inserting" /\ req[h].s = r.s)
      BY <3>1 DEF Knows
    <3>3. status'[r.s] = status[r.s] \/ (Live(r.s) /\ status'[r.s] = "gone")
      BY <3>1, <3>2
    <3>4. r.pc = "recording" /\ Live(r.s)' => <<r.s, r.t>> \in bucket'
      BY <2>1, <3>1, <3>3 DEF Knows, Live
    <3>5. r.pc = "unlinking" => status'[r.s] = "gone"
      BY <2>1, <3>3 DEF Knows, Live
    <3> QED BY <2>1, <2>3, <3>1, <3>3, <3>4, <3>5 DEF Knows, Scoring, Removing, Live
  <2>4. CASE r.pc \notin Adding \cup Scoring \cup Removing
    BY <2>1, <2>4 DEF Knows, Adding, Scoring, Removing
  <2> QED BY <2>2, <2>3, <2>4 DEF Adding
<1> QED BY <1>1, <1>2, <1>3, <1>4

\* The steps that neither write a session nor touch an object.
LEMMA HandlerAudioQuiet ==
  ASSUME TypeInv, AudioInv, NEW h \in Handler,
         \A g \in Handler \ {h} : req'[g] = req[g],
         UNCHANGED <<status, scored, bucket>>,
         req'[h].pc \in Adding =>
           \A g \in Handler \ {h} : req[g].pc \in Adding => req[g].s # req'[h].s,
         Knows(h)'
  PROVE  AudioInv'
<1>1. \A s \in Session : Live(s)' => Urls(s)' \subseteq bucket'
  BY DEF AudioInv, AudioIsThere, Live, Urls
<1> QED BY <1>1, HandlerAudioLocal

LEMMA HandlerAudio ==
  ASSUME TypeInv, AudioInv, NEW h \in Handler,
         HandlerBegins(h) \/ HandlerContinues(h) \/ HandlerAborts(h)
  PROVE  AudioInv'
<1> DEFINE r == req[h]
<1>r. /\ req \in [Handler -> Request] /\ r \in Request
      /\ r.pc \in Adding \cup Scoring \cup Removing => r.s \in Session
      /\ r.pc \in Scoring => r.t \in Turn
  BY DEF TypeInv, TypeOK, ServiceTypeOK, Arguments
<1>frame. \A g \in Handler \ {h} : req'[g] = req[g]
  BY HandlerFrame
<1>type. /\ status \in [Session -> {"unused", "live", "gone"}]
         /\ scored \in [Session -> SUBSET Turn]
  BY DEF TypeInv, TypeOK, StoreTypeOK
<1>knows. Knows(h)
  BY DEF AudioInv
<1>there. \A s \in Session : Live(s) => Urls(s) \subseteq bucket
  BY DEF AudioInv, AudioIsThere
<1>keys. \A s \in Session : \A k \in Urls(s) : k[1] = s
  BY DEF Urls
<1>idle. ASSUME req'[h].pc \in {"idle", "listing", "removing"}
         PROVE  Knows(h)' /\ req'[h].pc \notin Adding
  BY <1>idle DEF Knows, Adding, Scoring, Removing
<1>end. ASSUME End(h) \/ Return(h) PROVE Knows(h)' /\ req'[h].pc \notin Adding
  <2>1. CASE End(h)
    BY <2>1, <1>r, <1>idle DEF End, NoRequest
  <2>2. CASE Return(h)
    <3>1. req'[h].pc \in {"idle", "removing"}
      BY <2>2, <1>r DEF Return, NoRequest, Request
    <3> QED BY <3>1, <1>idle
  <2> QED BY <1>end, <2>1, <2>2
<1> USE <1>r, <1>type, <1>frame DEF At, Request
<1>1. CASE HandlerBegins(h)
  <2>1. UNCHANGED <<status, scored, bucket>>
    BY <1>1 DEF HandlerBegins, AddBegin, ScoreBegin, RemoveBegin, PurgeBegin, storeVars
  <2>2. CASE PurgeBegin(h)
    <3>1. req'[h].pc = "listing"
      BY <2>2 DEF PurgeBegin
    <3> QED BY <2>1, <3>1, <1>idle, HandlerAudioQuiet
  <2>3. ASSUME NEW s \in Session, AddBegin(h, s) PROVE AudioInv'
    <3>1. req'[h].pc = "generating" /\ req'[h].s = s
      BY <2>3 DEF AddBegin, Begin
    <3>2. status'[s] = "unused"
      BY <2>1, <2>3 DEF AddBegin
    <3>3. Knows(h)'
      BY <3>1, <3>2 DEF Knows, Scoring, Removing
    <3>4. \A g \in Handler \ {h} : req[g].pc \in Adding => req[g].s # s
      BY <2>3 DEF AddBegin
    <3> QED BY <2>1, <3>1, <3>3, <3>4, HandlerAudioQuiet
  <2>4. ASSUME NEW s \in Session, RemoveBegin(h, s) PROVE AudioInv'
    <3>1. req'[h].pc = "deleting" /\ req'[h].s = s /\ req'[h].urls = Urls(s)
      BY <2>4 DEF RemoveBegin
    <3>2. status'[s] = "live"
      BY <2>1, <2>4 DEF RemoveBegin, Live
    <3>3. Knows(h)' /\ req'[h].pc \notin Adding
      BY <3>1, <3>2, <1>keys DEF Knows, Scoring, Removing, Adding
    <3> QED BY <2>1, <3>3, HandlerAudioQuiet
  <2>5. ASSUME NEW s \in Session, NEW t \in Turn, ScoreBegin(h, s, t) PROVE AudioInv'
    <3>1. req'[h].pc = "transcribing" /\ req'[h].s = s
      BY <2>5 DEF ScoreBegin
    <3>2. status'[s] = "live"
      BY <2>1, <2>5 DEF ScoreBegin, Live
    <3>3. Knows(h)' /\ req'[h].pc \notin Adding
      BY <3>1, <3>2 DEF Knows, Scoring, Removing, Adding
    <3> QED BY <2>1, <3>3, HandlerAudioQuiet
  <2> QED BY <1>1, <2>2, <2>3, <2>4, <2>5 DEF HandlerBegins
<1>2. CASE AddVoices(h)
  <2>1. /\ r.pc = "generating" /\ req' = [req EXCEPT ![h].pc = "inserting"]
        /\ bucket' = bucket \cup {<<r.s, Script>>} /\ UNCHANGED <<status, scored>>
    BY <1>2 DEF AddVoices, Goto, PutAudio
  <2>2. req'[h].pc = "inserting" /\ req'[h].s = r.s
    BY <2>1
  <2>3. Knows(h)'
    BY <1>knows, <2>1, <2>2 DEF Knows, Scoring, Removing
  <2>4. \A s \in Session : Live(s)' => Urls(s)' \subseteq bucket'
    BY <1>there, <2>1 DEF Live, Urls
  <2>5. \A g \in Handler \ {h} : req[g].pc \in Adding => req[g].s # req'[h].s
    BY <2>1, <2>2 DEF AudioInv, AddersDiffer, Adding
  <2> QED BY <2>1, <2>3, <2>4, <2>5, HandlerAudioLocal
<1>3. CASE AddInserts(h)
  <2>1. /\ r.pc = "inserting" /\ req' = [req EXCEPT ![h].pc = "scheduling"]
        /\ status' = [status EXCEPT ![r.s] = "live"] /\ UNCHANGED <<scored, bucket>>
    BY <1>3 DEF AddInserts, Goto, CreateSession
  <2>2. /\ r.s \in Session /\ status[r.s] = "unused" /\ <<r.s, Script>> \in bucket
        /\ scored[r.s] = {}
    BY <1>knows, <2>1 DEF Knows, Adding, AudioInv, UnusedIsBlank
  <2>3. req'[h].pc = "scheduling" /\ req'[h].s = r.s
    BY <2>1
  <2>4. Knows(h)'
    BY <2>1, <2>2, <2>3 DEF Knows, Scoring, Removing
  <2>5. \A s \in Session : Live(s)' => Urls(s)' \subseteq bucket'
    BY <1>there, <2>1, <2>2 DEF Live, Urls
  <2>6. \A g \in Handler \ {h} : req[g].pc \in Adding => req[g].s # req'[h].s
    BY <2>1, <2>3 DEF AudioInv, AddersDiffer, Adding
  <2>7. \A s \in Session : status'[s] = status[s] \/ (r.s = s /\ status'[s] = "live")
    BY <2>1
  <2> QED BY <2>1, <2>4, <2>5, <2>6, <2>7, HandlerAudioLocal
<1>4. CASE ScoreUploads(h)
  <2>1. /\ r.pc = "transcribing" /\ req' = [req EXCEPT ![h].pc = "recording"]
        /\ bucket' = bucket \cup {<<r.s, r.t>>} /\ UNCHANGED <<status, scored>>
    BY <1>4 DEF ScoreUploads, Goto, PutAudio
  <2>2. req'[h].pc = "recording" /\ req'[h].s = r.s /\ req'[h].t = r.t
    BY <2>1
  <2>3. Knows(h)' /\ req'[h].pc \notin Adding
    BY <1>knows, <2>1, <2>2 DEF Knows, Scoring, Removing, Adding
  <2>4. \A s \in Session : Live(s)' => Urls(s)' \subseteq bucket'
    BY <1>there, <2>1 DEF Live, Urls
  <2> QED BY <2>1, <2>3, <2>4, HandlerAudioLocal
<1>5. CASE ScoreRecords(h)
  <2>1. /\ r.pc = "recording" /\ status[r.s] = "live" /\ UNCHANGED <<status, bucket>>
        /\ scored' = [scored EXCEPT ![r.s] = @ \cup {r.t}]
    BY <1>5 DEF ScoreRecords, UpdateSession, Live
  <2>2. r.s \in Session /\ <<r.s, r.t>> \in bucket
    BY <1>knows, <2>1 DEF Knows, Live, Scoring
  <2>3. \A s \in Session : Live(s)' => Urls(s)' \subseteq bucket'
    BY <1>there, <2>1, <2>2 DEF Live, Urls
  <2>4. Knows(h)' /\ req'[h].pc \notin Adding
    BY <1>5, <1>end DEF ScoreRecords
  <2>5. \A s \in Session : scored'[s] = scored[s] \/ Live(s)
    BY <2>1, <2>2 DEF Live
  <2> QED BY <2>1, <2>3, <2>4, <2>5, HandlerAudioLocal
<1>6. CASE RemoveRow(h)
  <2>1. /\ r.pc = "deleting" /\ UNCHANGED <<scored, bucket>>
        /\ status' = [status EXCEPT ![r.s] = IF Live(r.s) THEN "gone" ELSE @]
    BY <1>6 DEF RemoveRow, DeleteSession
  <2>2. \A s \in Session : status'[s] = status[s] \/ (Live(s) /\ status'[s] = "gone")
    BY <2>1
  <2>3. \A s \in Session : Live(s)' => Urls(s)' \subseteq bucket'
    BY <1>there, <2>1, <2>2 DEF Live, Urls
  <2>4. Knows(h)' /\ req'[h].pc \notin Adding
    <3>1. CASE Live(r.s)
      <4>1. /\ req'[h].pc = "unlinking" /\ req'[h].s = r.s /\ req'[h].urls = r.urls
        BY <1>6, <3>1 DEF RemoveRow, Goto
      <4>2. r.s \in Session /\ status'[r.s] = "gone"
        BY <2>1, <3>1 DEF Removing
      <4> QED BY <1>knows, <2>1, <4>1, <4>2 DEF Knows, Scoring, Removing, Adding
    <3>2. CASE ~Live(r.s)
      BY <1>6, <1>end, <3>2 DEF RemoveRow
    <3> QED BY <3>1, <3>2
  <2> QED BY <2>1, <2>2, <2>3, <2>4, HandlerAudioLocal
<1>7. CASE RemoveAudio(h)
  <2>1. PICK k \in r.urls : /\ r.pc = "unlinking" /\ bucket' = bucket \ {k}
                           /\ req' = [req EXCEPT ![h].urls = @ \ {k}]
                           /\ UNCHANGED <<status, scored>>
    BY <1>7 DEF RemoveAudio, DeleteAudio
  <2>2. r.s \in Session /\ status[r.s] = "gone" /\ k[1] = r.s
    BY <1>knows, <2>1 DEF Knows, Removing
  <2>3. \A s \in Session : Live(s)' => Urls(s)' \subseteq bucket'
    BY <1>there, <1>keys, <2>1, <2>2 DEF Live, Urls
  <2>4. /\ req'[h].pc = "unlinking" /\ req'[h].s = r.s /\ req'[h].urls = r.urls \ {k}
    BY <2>1
  <2>5. Knows(h)' /\ req'[h].pc \notin Adding
    BY <1>knows, <2>1, <2>4 DEF Knows, Scoring, Removing, Adding
  <2>6. \A j \in bucket : j \in bucket' \/ status[j[1]] = "gone"
    BY <2>1, <2>2
  <2> QED BY <2>1, <2>3, <2>5, <2>6, HandlerAudioLocal
<1>8. CASE \/ AddSchedules(h) \/ ScoreTooLate(h) \/ RemoveEnds(h) \/ HandlerAborts(h)
  <2>1. UNCHANGED <<status, scored, bucket>> /\ (End(h) \/ Return(h))
    BY <1>8 DEF AddSchedules, ScoreTooLate, RemoveEnds, HandlerAborts, storeVars
  <2> QED BY <2>1, <1>end, HandlerAudioQuiet
<1>9. CASE PurgeLists(h) \/ PurgeRepeats(h)
  <2>1. UNCHANGED <<status, scored, bucket>>
    BY <1>9 DEF PurgeLists, PurgeRepeats, storeVars
  <2>2. CASE PurgeLists(h)
    <3>1. PICK batch \in Batches :
            \/ End(h)
            \/ req' = [req EXCEPT ![h].pc = "removing", ![h].todo = batch]
      BY <2>2 DEF PurgeLists
    <3>2. (Knows(h)' /\ req'[h].pc \notin Adding) \/ req'[h].pc = "removing"
      BY <3>1, <1>end
    <3> QED BY <2>1, <3>2, <1>idle, HandlerAudioQuiet
  <2>3. CASE PurgeRepeats(h)
    <3>1. req'[h].pc = "listing"
      BY <2>3 DEF PurgeRepeats, Goto
    <3> QED BY <2>1, <3>1, <1>idle, HandlerAudioQuiet
  <2> QED BY <1>9, <2>2, <2>3
<1>10. CASE PurgeRemoves(h)
  <2>1. UNCHANGED <<status, scored, bucket>>
    BY <1>10 DEF PurgeRemoves, storeVars
  <2>2. PICK s \in r.todo :
          \/ Live(s) /\ req' = [req EXCEPT ![h].pc = "deleting", ![h].s = s, ![h].urls = Urls(s)]
          \/ r.pc = "removing" /\ req' = [req EXCEPT ![h].todo = @ \ {s}]
    BY <1>10 DEF PurgeRemoves
  <2>3. \/ Live(s) /\ req'[h].pc = "deleting" /\ req'[h].s = s /\ req'[h].urls = Urls(s)
        \/ req'[h].pc = "removing"
    BY <2>2
  <2>4. s \in Session
    OBVIOUS
  <2>5. CASE req'[h].pc = "removing"
    BY <2>1, <2>5, <1>idle, HandlerAudioQuiet
  <2>6. CASE req'[h].pc # "removing"
    <3>1. Knows(h)' /\ req'[h].pc \notin Adding
      BY <2>1, <2>3, <2>4, <2>6, <1>keys DEF Knows, Scoring, Removing, Adding, Live
    <3> QED BY <2>1, <3>1, HandlerAudioQuiet
  <2> QED BY <2>5, <2>6
<1> QED
  BY <1>1, <1>2, <1>3, <1>4, <1>5, <1>6, <1>7, <1>8, <1>9, <1>10 DEF HandlerContinues

LEMMA AudioInductive == TypeInv /\ AudioInv /\ [Next]_vars => AudioInv'
BY OthersAudioSteps, HandlerAudio DEF Next

\* Every audio URL of a stored session leads to an object of the bucket.
THEOREM AudioIsThereHolds == Spec => []AudioIsThere
<1>1. AudioInv => AudioIsThere
  BY DEF AudioInv
<1> QED
  BY InitTypeInv, InitAudioInv, TypeInductive, AudioInductive, <1>1, PTL DEF Spec

----------------------------------------------------------------------------
(* The cleanup's lock.  OneCleanupInFlight is inductive only together with *)
(* the reason why a second enqueue cannot happen: while a task of the      *)
(* session is on its way, a scheduler that still has the job finds the     *)
(* lock set; and a session that is not there yet was never scheduled.      *)

InFlight(s) == queued[s] > 0 \/ \E w \in Worker : task[w].s = s
Scheduled(s) == s \in jobs \/ \E p \in Scheduler : s \in picked[p]
Untouched(s) == ~InFlight(s) /\ ~Scheduled(s)

LockInv ==
  /\ OneCleanupInFlight
  /\ \A s \in Session : InFlight(s) /\ Scheduled(s) => s \in lock
  /\ \A s \in Session : status[s] = "unused" => Untouched(s)
  /\ \A h \in Handler : req[h].pc \in Adding => Untouched(req[h].s)

LEMMA InitLockInv == Init => LockInv
BY StateAssumption
DEF Init, StoreInit, CleanupInit, ServiceInit, LockInv, OneCleanupInFlight, InFlight, Scheduled,
    Untouched, NoTask, NoRequest, Adding

LEMMA TimeLock == TypeInv /\ LockInv /\ TimeStep => LockInv'
<1>1. ASSUME LockInv, NEW s \in Session, HourPasses(s) PROVE LockInv'
  BY <1>1 DEF HourPasses, storeVars, serviceVars, LockInv, OneCleanupInFlight, InFlight,
     Scheduled, Untouched
<1>2. ASSUME LockInv, NEW s \in Session, LockExpires(s) PROVE LockInv'
  BY <1>2 DEF LockExpires, storeVars, serviceVars, LockInv, OneCleanupInFlight, InFlight,
     Scheduled, Untouched
<1> QED BY <1>1, <1>2 DEF TimeStep

LEMMA SchedulerLock ==
  ASSUME TypeInv, LockInv, NEW p \in Scheduler, SchedulerStep(p)
  PROVE  LockInv'
<1> PICK s \in Session : \/ PickJob(p, s) \/ EnqueueCleanup(p, s)
                         \/ MissJob(p, s) \/ SendFails(p, s)
  BY DEF SchedulerStep
<1>type. /\ picked \in [Scheduler -> SUBSET Session] /\ queued \in [Session -> Nat]
         /\ \A h \in Handler : req[h].pc \in Adding => req[h].s \in Session
  BY DEF TypeInv, TypeOK, CleanupTypeOK, Arguments
<1>1. UNCHANGED <<status, req, task>>
  BY DEF PickJob, EnqueueCleanup, MissJob, SendFails, DropJob, storeVars, serviceVars
<1>2. Scheduled(s)
  BY DEF PickJob, EnqueueCleanup, MissJob, SendFails, DropJob, Scheduled
<1>3. \A t \in Session : Scheduled(t)' => Scheduled(t)
  BY <1>type, <1>2 DEF PickJob, EnqueueCleanup, MissJob, SendFails, DropJob, Scheduled
<1>4. /\ \A t \in Session \ {s} : queued'[t] = queued[t] /\ (t \in lock => t \in lock')
      /\ \/ queued'[s] = queued[s] /\ (s \in lock => s \in lock')
         \/ s \notin lock /\ queued'[s] = queued[s] + 1 /\ s \in lock'
  BY <1>type DEF PickJob, EnqueueCleanup, MissJob, SendFails, DropJob, SendTask
<1>5. s \notin lock => ~InFlight(s)
  BY <1>2 DEF LockInv
<1>6. \A t \in Session \ {s} : InFlight(t)' => InFlight(t)
  BY <1>1, <1>4 DEF InFlight
<1>7. InFlight(s)' => InFlight(s) \/ s \in lock'
  BY <1>1, <1>4 DEF InFlight
<1>8. OneCleanupInFlight'
  BY <1>type, <1>1, <1>4, <1>5 DEF LockInv, OneCleanupInFlight, InFlight
<1>9. ASSUME NEW t \in Session, Untouched(t) PROVE Untouched(t)'
  BY <1>2, <1>3, <1>6, <1>9 DEF Untouched
<1>10. \A t \in Session : InFlight(t)' /\ Scheduled(t)' => t \in lock'
  BY <1>2, <1>3, <1>4, <1>6, <1>7 DEF LockInv
<1> QED BY <1>type, <1>1, <1>8, <1>9, <1>10 DEF LockInv

LEMMA WorkerLock ==
  ASSUME TypeInv, LockInv, NEW w \in Worker, WorkerStep(w)
  PROVE  LockInv'
<1>type. /\ queued \in [Session -> Nat] /\ task \in [Worker -> CleanupTask]
         /\ \A h \in Handler : req[h].pc \in Adding => req[h].s \in Session
         /\ status \in [Session -> {"unused", "live", "gone"}]
         /\ None \notin Session
  BY StateAssumption DEF TypeInv, TypeOK, StoreTypeOK, CleanupTypeOK, Arguments
<1>1. /\ UNCHANGED <<jobs, picked, req>>
      /\ \A s \in Session : status'[s] = "unused" => status[s] = "unused"
  BY <1>type DEF WorkerStep, TakeTask, CleanupKeeps, CleanupTooEarly, CleanupDecides,
     CleanupDeletes, CleanupAborts, DeleteSession, storeVars, serviceVars
<1>2. \A s \in Session : Scheduled(s)' <=> Scheduled(s)
  BY <1>1 DEF Scheduled
<1>keep. ASSUME OneCleanupInFlight',
                \A s \in Session : InFlight(s)' => InFlight(s),
                \A s \in Session : s \in lock => s \in lock' \/ ~InFlight(s)'
         PROVE  LockInv'
  BY <1>keep, <1>type, <1>1, <1>2 DEF LockInv, Untouched
<1>3. ASSUME NEW s \in Session, TakeTask(w, s) PROVE LockInv'
  <2>a. queued[s] = 1
    BY <1>3, <1>type DEF TakeTask, LockInv, OneCleanupInFlight
  <2>b. queued' = [queued EXCEPT ![s] = 0]
    BY <1>3, <1>type, <2>a DEF TakeTask
  <2>c. /\ task[w] = NoTask /\ task' = [task EXCEPT ![w] = [pc |-> "reading", s |-> s]]
        /\ UNCHANGED lock
    BY <1>3 DEF TakeTask
  <2>1. /\ queued[s] = 1 /\ queued' = [queued EXCEPT ![s] = 0]
        /\ task[w] = NoTask /\ task'[w].s = s
        /\ \A v \in Worker \ {w} : task'[v] = task[v]
        /\ UNCHANGED lock
    BY <1>type, <2>a, <2>b, <2>c
  <2>2. \A v \in Worker : task[v].s # s
    BY <2>1 DEF LockInv, OneCleanupInFlight
  <2>3. OneCleanupInFlight'
    BY <1>type, <2>1, <2>2 DEF LockInv, OneCleanupInFlight
  <2>4. \A t \in Session : InFlight(t)' => InFlight(t)
    BY <1>type, <2>1 DEF InFlight
  <2> QED BY <1>keep, <2>1, <2>3, <2>4
<1>4. CASE CleanupDecides(w)
  <2>1. /\ UNCHANGED <<queued, lock>>
        /\ \A v \in Worker : task'[v].s = task[v].s
    BY <1>4, <1>type DEF CleanupDecides, CleanupTask, NoTask
  <2>2. OneCleanupInFlight' /\ \A t \in Session : InFlight(t)' => InFlight(t)
    BY <2>1 DEF LockInv, OneCleanupInFlight, InFlight
  <2> QED BY <1>keep, <2>1, <2>2
<1>5. CASE CleanupKeeps(w) \/ CleanupTooEarly(w) \/ CleanupDeletes(w) \/ CleanupAborts(w)
  <2>1. /\ UNCHANGED queued /\ task' = [task EXCEPT ![w] = NoTask]
        /\ UNCHANGED lock \/ lock' = lock \ {task[w].s} \/ lock' = lock
    BY <1>5 DEF CleanupKeeps, CleanupTooEarly, CleanupDeletes, CleanupAborts, TaskEnds
  <2>2. \A s \in Session, v \in Worker : task'[v].s = s => v # w /\ task[v].s = s
    BY <1>type, <2>1 DEF NoTask
  <2>3. OneCleanupInFlight' /\ \A t \in Session : InFlight(t)' => InFlight(t)
    BY <2>1, <2>2 DEF LockInv, OneCleanupInFlight, InFlight
  <2>4. ASSUME NEW s \in Session, s = task[w].s PROVE ~InFlight(s)'
    BY <2>1, <2>2, <2>4, <1>type DEF LockInv, OneCleanupInFlight, InFlight
  <2> QED BY <1>keep, <2>1, <2>3, <2>4
<1> QED BY <1>3, <1>4, <1>5 DEF WorkerStep

\* Who is adding a session was adding it before, or has just begun.
LEMMA HandlerAdds ==
  ASSUME TypeInv, NEW h \in Handler,
         HandlerBegins(h) \/ HandlerContinues(h) \/ HandlerAborts(h),
         req'[h].pc \in Adding
  PROVE  \/ req[h].pc \in Adding /\ req'[h].s = req[h].s
         \/ \E s \in Session : AddBegin(h, s) /\ req'[h].s = s
<1> DEFINE r == req[h]
<1>type. req \in [Handler -> Request] /\ r \in Request
  BY DEF TypeInv, TypeOK, ServiceTypeOK
<1>1. CASE HandlerBegins(h)
  <2>1. CASE PurgeBegin(h)
    BY <2>1, <1>type DEF PurgeBegin, Adding, Request
  <2>2. ASSUME NEW s \in Session, AddBegin(h, s) PROVE req'[h].s = s
    BY <2>2, <1>type DEF AddBegin, Begin, Request
  <2>3. ASSUME NEW s \in Session, RemoveBegin(h, s) PROVE FALSE
    BY <2>3, <1>type DEF RemoveBegin, Adding, Request
  <2>4. ASSUME NEW s \in Session, NEW t \in Turn, ScoreBegin(h, s, t) PROVE FALSE
    BY <2>4, <1>type DEF ScoreBegin, Adding, Request
  <2> QED BY <1>1, <2>1, <2>2, <2>3, <2>4 DEF HandlerBegins
<1>2. CASE AddVoices(h) \/ AddInserts(h)
  BY <1>2, <1>type DEF AddVoices, AddInserts, At, Goto, Adding, Request
<1>3. ASSUME End(h) \/ Return(h) PROVE FALSE
  <2>1. CASE End(h)
    BY <2>1, <1>type DEF End, NoRequest, Adding
  <2>2. CASE Return(h)
    BY <2>2, <1>type DEF Return, NoRequest, Adding, Request
  <2> QED BY <1>3, <2>1, <2>2
<1>4. CASE \/ ScoreUploads(h) \/ ScoreRecords(h) \/ ScoreTooLate(h)
           \/ RemoveAudio(h) \/ RemoveEnds(h) \/ PurgeRepeats(h) \/ HandlerAborts(h)
  BY <1>4, <1>3, <1>type DEF ScoreUploads, ScoreRecords, ScoreTooLate, RemoveAudio,
     RemoveEnds, PurgeRepeats, HandlerAborts, At, Goto, Adding, Request
<1>5. CASE RemoveRow(h)
  BY <1>5, <1>3, <1>type DEF RemoveRow, Goto, Adding, Request
<1>6. CASE PurgeLists(h) \/ PurgeRemoves(h)
  <2>1. CASE PurgeLists(h)
    <3>1. PICK batch \in Batches :
            \/ End(h)
            \/ req' = [req EXCEPT ![h].pc = "removing", ![h].todo = batch]
      BY <2>1 DEF PurgeLists
    <3> QED BY <3>1, <1>3, <1>type DEF Adding, Request
  <2>2. CASE PurgeRemoves(h)
    <3>1. PICK s \in r.todo :
            \/ req' = [req EXCEPT ![h].pc = "deleting", ![h].s = s, ![h].urls = Urls(s)]
            \/ r.pc = "removing" /\ req' = [req EXCEPT ![h].todo = @ \ {s}]
      BY <2>2 DEF PurgeRemoves, At
    <3> QED BY <3>1, <1>type DEF Adding, Request
  <2> QED BY <1>6, <2>1, <2>2
<1>7. CASE AddSchedules(h)
  BY <1>7, <1>3 DEF AddSchedules
<1> QED BY <1>1, <1>2, <1>4, <1>5, <1>6, <1>7 DEF HandlerContinues

LEMMA HandlerLock ==
  ASSUME TypeInv, AudioInv, LockInv, NEW h \in Handler,
         HandlerBegins(h) \/ HandlerContinues(h) \/ HandlerAborts(h)
  PROVE  LockInv'
<1> DEFINE r == req[h]
<1>type. /\ req \in [Handler -> Request] /\ r \in Request
         /\ \A g \in Handler : req[g].pc \in Adding => req[g].s \in Session
         /\ status \in [Session -> {"unused", "live", "gone"}]
  BY DEF TypeInv, TypeOK, StoreTypeOK, ServiceTypeOK, Arguments
<1>frame. /\ UNCHANGED <<picked, lock, queued, task>>
          /\ \A g \in Handler \ {h} : req'[g] = req[g]
  BY HandlerFrame
<1>1. \A s \in Session : InFlight(s)' <=> InFlight(s)
  BY <1>frame DEF InFlight
<1>2. OneCleanupInFlight'
  BY <1>frame DEF LockInv, OneCleanupInFlight
<1>3. CASE AddSchedules(h)
  <2>1. /\ r.pc = "scheduling" /\ r.s \in Session /\ status[r.s] # "unused" /\ Untouched(r.s)
        /\ jobs' = jobs \cup {r.s} /\ UNCHANGED status
        /\ req' = [req EXCEPT ![h] = NoRequest]
    BY <1>3, <1>type
    DEF AddSchedules, At, End, ScheduleCleanup, storeVars, Adding, LockInv, AudioInv, Knows
  <2>2. \A s \in Session \ {r.s} : Scheduled(s)' <=> Scheduled(s)
    BY <1>frame, <2>1 DEF Scheduled
  <2>3. \A g \in Handler : req'[g].pc \in Adding =>
          g # h /\ req'[g] = req[g] /\ req[g].s \in Session \ {r.s}
    BY <1>type, <2>1, <1>frame DEF AudioInv, AddersDiffer, Adding, NoRequest
  <2> QED BY <1>frame, <1>1, <1>2, <2>1, <2>2, <2>3 DEF LockInv, Untouched
<1>4. CASE ~AddSchedules(h)
  <2>1. UNCHANGED jobs
    BY <1>4 DEF HandlerBegins, HandlerContinues, HandlerAborts, AddBegin, AddVoices, AddInserts,
       ScoreBegin, ScoreUploads, ScoreRecords, ScoreTooLate, RemoveBegin, RemoveRow, RemoveAudio,
       RemoveEnds, PurgeBegin, PurgeLists, PurgeRemoves, PurgeRepeats, cleanupVars
  <2>2. \A s \in Session : Untouched(s)' <=> Untouched(s)
    BY <1>frame, <1>1, <2>1 DEF Untouched, Scheduled
  <2>3. \A s \in Session : status'[s] = "unused" => status[s] = "unused"
    BY <1>type DEF HandlerBegins, HandlerContinues, HandlerAborts, AddBegin, AddVoices,
       AddInserts, AddSchedules, ScoreBegin, ScoreUploads, ScoreRecords, ScoreTooLate,
       RemoveBegin, RemoveRow, RemoveAudio, RemoveEnds, PurgeBegin, PurgeLists, PurgeRemoves,
       PurgeRepeats, CreateSession, DeleteSession, storeVars
  <2>4. ASSUME req'[h].pc \in Adding PROVE req'[h].s \in Session /\ Untouched(req'[h].s)
    <3>1. \/ r.pc \in Adding /\ req'[h].s = r.s
          \/ \E s \in Session : AddBegin(h, s) /\ req'[h].s = s
      BY <2>4, HandlerAdds
    <3> QED BY <3>1, <1>type DEF AddBegin, LockInv
  <2> QED BY <1>frame, <1>type, <1>1, <1>2, <2>1, <2>2, <2>3, <2>4 DEF LockInv, Scheduled
<1> QED BY <1>3, <1>4

LEMMA LockInductive == TypeInv /\ AudioInv /\ LockInv /\ [Next]_vars => LockInv'
<1>1. ASSUME LockInv, NEW a \in Advisor, AdvisorStep(a) \/ UNCHANGED vars PROVE LockInv'
  <2>1. UNCHANGED <<status, jobs, picked, lock, queued, task, req>>
    BY <1>1 DEF AdvisorStep, TipBegin, TipChecks, TipRefused, TipInserts, TipPurgeBegin,
       TipPurgeDeletes, TipPurgeEnds, TipAborts, storeVars, cleanupVars, serviceVars, vars
  <2> QED BY <1>1, <2>1 DEF LockInv, OneCleanupInFlight, InFlight, Scheduled, Untouched
<1>2. LockInv /\ UNCHANGED vars => LockInv'
  BY DEF vars, storeVars, cleanupVars, serviceVars, LockInv, OneCleanupInFlight, InFlight,
     Scheduled, Untouched
<1> QED
  BY <1>1, <1>2, TimeLock, SchedulerLock, WorkerLock, HandlerLock DEF Next

\* However many schedulers pick its job, a session has at most one cleanup task
\* in the broker or in a Celery slot.
THEOREM OneCleanupInFlightHolds == Spec => []OneCleanupInFlight
<1>1. LockInv => OneCleanupInFlight
  BY DEF LockInv
<1> QED
  BY InitTypeInv, InitAudioInv, InitLockInv, TypeInductive, AudioInductive, LockInductive,
     <1>1, PTL DEF Spec

----------------------------------------------------------------------------
(* Nothing is forgotten.  Of the failures, those that delay the deletion   *)
(* of objects or make the purge skip a session do no harm to the cleanup;  *)
(* the others do, and are excluded.  Then a job that two schedulers picked *)
(* cannot be lost by the second of them: it finds the lock set, and a set  *)
(* lock means that the job has left the store.  And no task is too early,  *)
(* because the session was old enough when its job was picked.             *)

NothingLost == Faults \cap {"skew", "misfire", "redis", "broker", "abort"} = {}

Underway(s) == InFlight(s) \/ \E p \in Scheduler : s \in picked[p]

PendingInv ==
  /\ due["web"] = due["worker"]
  /\ \A s \in Session : Underway(s) => s \in due["worker"]
  /\ \A s \in lock : s \notin jobs /\ status[s] # "unused"
  /\ \A h \in Handler : req[h].pc \in Adding => req[h].s \notin lock
  /\ CleanupStaysPending

LEMMA InitPendingInv == Init => PendingInv
BY StateAssumption
DEF Init, StoreInit, CleanupInit, ServiceInit, PendingInv, Underway, InFlight, Clock, NoTask,
    NoRequest, Adding, CleanupStaysPending, Live

LEMMA TimePending ==
  ASSUME NothingLost, TypeInv, PendingInv, TimeStep
  PROVE  PendingInv'
<1> USE DEF PendingInv, Underway, InFlight, CleanupStaysPending, CleanupPending, Live, At,
        storeVars, serviceVars
<1>1. ASSUME NEW s \in Session, HourPasses(s) PROVE PendingInv'
  <2>1. due' = [c \in Clock |-> due[c] \cup {s}]
    BY <1>1 DEF HourPasses, NothingLost, Clock
  <2> QED BY <1>1, <2>1 DEF HourPasses, Clock
<1>2. ASSUME NEW s \in Session, LockExpires(s) PROVE PendingInv'
  BY <1>2 DEF LockExpires
<1> QED BY <1>1, <1>2 DEF TimeStep

LEMMA SchedulerPending ==
  ASSUME NothingLost, TypeInv, LockInv, PendingInv, NEW p \in Scheduler, SchedulerStep(p)
  PROVE  PendingInv'
<1> PICK s \in Session : PickJob(p, s) \/ EnqueueCleanup(p, s)
  BY DEF SchedulerStep, MissJob, SendFails, NothingLost
<1>type. /\ picked \in [Scheduler -> SUBSET Session] /\ queued \in [Session -> Nat]
         /\ \A h \in Handler : req[h].pc \in Adding => req[h].s \in Session
         /\ lock \subseteq Session
  BY DEF TypeInv, TypeOK, CleanupTypeOK, Arguments
<1>1. UNCHANGED <<status, scored, req, task, due>>
  BY DEF PickJob, EnqueueCleanup, DropJob, storeVars, serviceVars
<1>2. s \in due["worker"]
  BY DEF PickJob, EnqueueCleanup, DropJob, PendingInv, Underway
<1>3. /\ status[s] # "unused"
      /\ \A h \in Handler : req[h].pc \in Adding => req[h].s # s
  BY <1>type DEF PickJob, EnqueueCleanup, DropJob, LockInv, Untouched, Scheduled
<1>4. \/ UNCHANGED <<jobs, lock, queued>>
      \/ s \in lock /\ UNCHANGED <<jobs, lock, queued>>
      \/ /\ jobs' = jobs \ {s} /\ lock' = lock \cup {s}
         /\ queued' = [queued EXCEPT ![s] = @ + 1]
  <2>1. CASE PickJob(p, s)
    BY <2>1 DEF PickJob
  <2>2. CASE EnqueueCleanup(p, s)
    <3>1. s \in lock => jobs \ {s} = jobs
      BY DEF PendingInv
    <3> QED BY <2>2, <3>1 DEF EnqueueCleanup, DropJob, SendTask
  <2> QED BY <2>1, <2>2
<1>5. \A t \in Session : Underway(t)' => Underway(t) \/ t = s
  BY <1>type, <1>1, <1>4
  DEF Underway, InFlight, PickJob, EnqueueCleanup, DropJob
<1>6. \A t \in Session : CleanupPending(t) => CleanupPending(t)'
  BY <1>type, <1>1, <1>4 DEF CleanupPending, At
<1>7. CleanupStaysPending'
  BY <1>1, <1>6 DEF PendingInv, CleanupStaysPending, Live
<1> QED BY <1>type, <1>1, <1>2, <1>3, <1>4, <1>5, <1>7 DEF PendingInv

LEMMA WorkerPending ==
  ASSUME NothingLost, TypeInv, PendingInv, NEW w \in Worker, WorkerStep(w)
  PROVE  PendingInv'
<1>type. /\ queued \in [Session -> Nat] /\ task \in [Worker -> CleanupTask]
         /\ status \in [Session -> {"unused", "live", "gone"}]
         /\ \A h \in Handler : req[h].pc \in Adding => req[h].s \in Session
         /\ None \notin Session /\ lock \subseteq Session
  BY StateAssumption DEF TypeInv, TypeOK, StoreTypeOK, CleanupTypeOK, Arguments
<1>1. UNCHANGED <<due, jobs, picked, req, scored>>
  BY DEF WorkerStep, TakeTask, CleanupKeeps, CleanupTooEarly, CleanupDecides,
     CleanupDeletes, CleanupAborts, storeVars, serviceVars
<1>2. /\ lock' \subseteq lock
      /\ \A s \in Session : \/ status'[s] = status[s]
                            \/ status[s] = "live" /\ status'[s] = "gone"
  BY <1>type DEF WorkerStep, TakeTask, CleanupKeeps, CleanupTooEarly, CleanupDecides,
     CleanupDeletes, CleanupAborts, DeleteSession, Live, storeVars
\* A task underway stays so, unless its session needs no cleanup any more.
<1>3. /\ \A s \in Session : Underway(s)' => Underway(s)
      /\ \A s \in Session : InFlight(s) => \/ InFlight(s)'
                                           \/ status'[s] # "live" \/ scored[s] # {}
  <2> USE <1>type, <1>1 DEF Underway, InFlight
  <2>1. ASSUME NEW s \in Session, TakeTask(w, s)
        PROVE  /\ \A t \in Session : Underway(t)' => Underway(t)
               /\ \A t \in Session : InFlight(t) => InFlight(t)'
    <3>1. /\ task[w] = NoTask /\ task' = [task EXCEPT ![w] = [pc |-> "reading", s |-> s]]
          /\ queued[s] > 0 /\ queued' = [queued EXCEPT ![s] = @ - 1]
      BY <2>1 DEF TakeTask
    <3> QED BY <3>1 DEF NoTask
  <2>2. CASE CleanupDecides(w)
    <3>1. UNCHANGED queued /\ \A v \in Worker : task'[v].s = task[v].s
      BY <2>2 DEF CleanupDecides, CleanupTask, NoTask
    <3> QED BY <3>1
  <2>3. CASE CleanupKeeps(w) \/ CleanupTooEarly(w) \/ CleanupDeletes(w)
    <3>1. UNCHANGED queued /\ task' = [task EXCEPT ![w] = NoTask]
      BY <2>3 DEF CleanupKeeps, CleanupTooEarly, CleanupDeletes, TaskEnds
    <3>2. task[w].s \in Session =>
            status'[task[w].s] # "live" \/ scored[task[w].s] # {}
      <4>1. CASE CleanupKeeps(w)
        BY <4>1 DEF CleanupKeeps, Live, storeVars
      <4>2. CASE CleanupTooEarly(w)
        <5>1. task[w].s \in Session => task[w].s \in due["worker"]
          BY DEF PendingInv
        <5> QED BY <4>2, <5>1 DEF CleanupTooEarly, CleanupTask, NoTask
      <4>3. CASE CleanupDeletes(w)
        BY <4>3 DEF CleanupDeletes, DeleteSession, Live
      <4> QED BY <2>3, <4>1, <4>2, <4>3
    <3> QED BY <3>1, <3>2 DEF NoTask
  <2> QED
    BY <2>1, <2>2, <2>3 DEF WorkerStep, CleanupAborts, NothingLost
<1>4. CleanupStaysPending'
  BY <1>1, <1>2, <1>3 DEF PendingInv, CleanupStaysPending, CleanupPending, Live, At, InFlight
<1> QED BY <1>type, <1>1, <1>2, <1>3, <1>4 DEF PendingInv

LEMMA HandlerPending ==
  ASSUME NothingLost, TypeInv, AudioInv, LockInv, PendingInv, NEW h \in Handler,
         HandlerBegins(h) \/ HandlerContinues(h) \/ HandlerAborts(h)
  PROVE  PendingInv'
<1> DEFINE r == req[h]
<1>type. /\ req \in [Handler -> Request] /\ r \in Request
         /\ scored \in [Session -> SUBSET Turn] /\ lock \subseteq Session
         /\ r.pc \in Adding \cup Scoring \cup Removing => r.s \in Session
         /\ status \in [Session -> {"unused", "live", "gone"}]
  BY DEF TypeInv, TypeOK, StoreTypeOK, CleanupTypeOK, ServiceTypeOK, Arguments
<1>frame. /\ UNCHANGED <<due, picked, lock, queued, task>>
          /\ \A g \in Handler \ {h} : req'[g] = req[g]
  BY HandlerFrame
<1>1. \A s \in Session : Underway(s)' <=> Underway(s)
  BY <1>frame DEF Underway, InFlight
\* The job store.
<1>2. \A s \in lock : s \notin jobs'
  <2>1. CASE AddSchedules(h)
    BY <2>1 DEF AddSchedules, At, ScheduleCleanup, PendingInv, Adding
  <2>2. CASE ~AddSchedules(h)
    <3>1. UNCHANGED jobs
      BY <2>2 DEF HandlerBegins, HandlerContinues, HandlerAborts, AddBegin, AddVoices, AddInserts,
         ScoreBegin, ScoreUploads, ScoreRecords, ScoreTooLate, RemoveBegin, RemoveRow,
         RemoveAudio, RemoveEnds, PurgeBegin, PurgeLists, PurgeRemoves, PurgeRepeats, cleanupVars
    <3> QED BY <3>1 DEF PendingInv
  <2> QED BY <2>1, <2>2
\* The sessions.
<1>3. \A s \in Session :
        /\ status'[s] = "unused" => status[s] = "unused"
        /\ Live(s)' => Live(s) \/ (AddInserts(h) /\ s = r.s)
        /\ scored[s] \subseteq scored'[s]
  BY <1>type DEF HandlerBegins, HandlerContinues, HandlerAborts, AddBegin, AddVoices,
     AddInserts, AddSchedules, ScoreBegin, ScoreUploads, ScoreRecords, ScoreTooLate,
     RemoveBegin, RemoveRow, RemoveAudio, RemoveEnds, PurgeBegin, PurgeLists, PurgeRemoves,
     PurgeRepeats, CreateSession, UpdateSession, DeleteSession, Live, storeVars
<1>used. \A s \in Session : status[s] # "unused" => status'[s] # "unused"
  BY <1>type DEF HandlerBegins, HandlerContinues, HandlerAborts, AddBegin, AddVoices,
     AddInserts, AddSchedules, ScoreBegin, ScoreUploads, ScoreRecords, ScoreTooLate,
     RemoveBegin, RemoveRow, RemoveAudio, RemoveEnds, PurgeBegin, PurgeLists, PurgeRemoves,
     PurgeRepeats, CreateSession, DeleteSession, Live, storeVars
\* A new id was never locked.
<1>4. req'[h].pc \in Adding => req'[h].s \notin lock
  <2> SUFFICES ASSUME req'[h].pc \in Adding PROVE req'[h].s \notin lock
    OBVIOUS
  <2>1. ASSUME NEW s \in Session, AddBegin(h, s) PROVE req'[h].s \notin lock
    BY <2>1, <1>type DEF AddBegin, Begin, PendingInv, Request
  <2>2. CASE ~ \E s \in Session : AddBegin(h, s)
    <3>1. r.pc \in Adding /\ req'[h].s = r.s
      BY <2>2, <1>type, HandlerAdds
    <3> QED BY <3>1 DEF PendingInv
  <2> QED BY <2>1, <2>2
\* What is pending stays so; the adder hands it over to the job store.
<1>5. ASSUME NEW s \in Session, CleanupPending(s), Live(s)'
      PROVE  CleanupPending(s)'
  <2>1. jobs \subseteq jobs'
    BY DEF HandlerBegins, HandlerContinues, HandlerAborts, AddBegin, AddVoices, AddInserts,
       AddSchedules, ScoreBegin, ScoreUploads, ScoreRecords, ScoreTooLate, RemoveBegin,
       RemoveRow, RemoveAudio, RemoveEnds, PurgeBegin, PurgeLists, PurgeRemoves, PurgeRepeats,
       ScheduleCleanup, cleanupVars
  <2>2. CASE r.pc = "scheduling" /\ r.s = s
    <3>1. AddSchedules(h) \/ HandlerAborts(h)
      BY <2>2 DEF HandlerBegins, HandlerContinues, At, Begin, AddBegin, AddVoices, AddInserts,
         ScoreBegin, ScoreUploads, ScoreRecords, ScoreTooLate, RemoveBegin, RemoveRow,
         RemoveAudio, RemoveEnds, PurgeBegin, PurgeLists, PurgeRemoves, PurgeRepeats
    <3>2. ~HandlerAborts(h)
      BY <2>2, <1>5 DEF HandlerAborts, NothingLost, Live, storeVars
    <3> QED BY <2>2, <3>1, <3>2 DEF AddSchedules, ScheduleCleanup, CleanupPending
  <2>3. CASE ~(r.pc = "scheduling" /\ r.s = s)
    BY <2>1, <2>3, <1>5, <1>frame DEF CleanupPending, At
  <2> QED BY <2>2, <2>3
<1>6. CleanupStaysPending'
  <2> SUFFICES ASSUME NEW s \in Session, Live(s)', scored'[s] = {} PROVE CleanupPending(s)'
    BY DEF CleanupStaysPending
  <2>1. CASE Live(s)
    <3>1. scored[s] = {}
      BY <1>3
    <3> QED BY <2>1, <3>1, <1>5 DEF PendingInv, CleanupStaysPending
  <2>2. CASE AddInserts(h) /\ s = r.s
    BY <2>2, <1>type DEF AddInserts, Goto, CleanupPending, At, Request
  <2> QED BY <1>3, <2>1, <2>2
<1> QED BY <1>type, <1>frame, <1>1, <1>2, <1>used, <1>4, <1>6 DEF PendingInv

LEMMA PendingInductive ==
  ASSUME NothingLost
  PROVE  TypeInv /\ AudioInv /\ LockInv /\ PendingInv /\ [Next]_vars => PendingInv'
<1>1. ASSUME PendingInv, NEW a \in Advisor, AdvisorStep(a) PROVE PendingInv'
  <2>1. UNCHANGED <<status, scored, due, jobs, picked, lock, queued, task, req>>
    BY <1>1 DEF AdvisorStep, TipBegin, TipChecks, TipRefused, TipInserts, TipPurgeBegin,
       TipPurgeDeletes, TipPurgeEnds, TipAborts, storeVars, cleanupVars, serviceVars
  <2> QED BY <1>1, <2>1 DEF PendingInv, Underway, InFlight, CleanupStaysPending,
            CleanupPending, Live, At
<1>2. PendingInv /\ UNCHANGED vars => PendingInv'
  BY DEF vars, storeVars, cleanupVars, serviceVars, PendingInv, Underway, InFlight,
     CleanupStaysPending, CleanupPending, Live, At
<1> QED
  BY <1>1, <1>2, TimePending, SchedulerPending, WorkerPending, HandlerPending DEF Next

\* Where none of the failures that lose or mistime a cleanup happens, a session
\* nobody spoke in is never forgotten between the request that created it, the
\* job store, the lock, the broker and the worker.
THEOREM CleanupStaysPendingHolds ==
  ASSUME NothingLost
  PROVE  Spec => []CleanupStaysPending
<1>1. PendingInv => CleanupStaysPending
  BY DEF PendingInv
<1> QED
  BY InitTypeInv, InitAudioInv, InitLockInv, InitPendingInv, TypeInductive, AudioInductive,
     LockInductive, PendingInductive, <1>1, PTL DEF Spec

----------------------------------------------------------------------------
(* Practised sessions.  A slot that decided to delete saw the session an   *)
(* hour old and blank; one that was practised before that hour was never   *)
(* blank again.                                                            *)

PractiseInv ==
  /\ PractisedAreKept
  /\ \A w \in Worker : task[w].pc = "deleting" => task[w].s \in due["worker"]
  /\ \A s \in practised : scored[s] # {}

LEMMA PractiseInductive == TypeInv /\ PractiseInv /\ [Next]_vars => PractiseInv'
<1> SUFFICES ASSUME TypeInv, PractiseInv, [Next]_vars PROVE PractiseInv'
  OBVIOUS
<1>type. /\ scored \in [Session -> SUBSET Turn] /\ practised \subseteq Session
         /\ due \in [Clock -> SUBSET Session] /\ task \in [Worker -> CleanupTask]
         /\ \A h \in Handler : req[h].pc \in Scoring => req[h].s \in Session /\ req[h].t \in Turn
  BY DEF TypeInv, TypeOK, StoreTypeOK, CleanupTypeOK, ServiceTypeOK, Arguments
<1> USE DEF PractiseInv, PractisedAreKept
<1>1. CASE TimeStep
  <2>1. UNCHANGED <<task, practised, scored>> /\ due["worker"] \subseteq due'["worker"]
    BY <1>1, <1>type DEF TimeStep, HourPasses, LockExpires, storeVars, serviceVars, Clock
  <2> QED BY <2>1
<1>2. ASSUME NEW p \in Scheduler, SchedulerStep(p) PROVE PractiseInv'
  <2>1. UNCHANGED <<task, practised, scored, due>>
    BY <1>2 DEF SchedulerStep, PickJob, EnqueueCleanup, MissJob, SendFails, DropJob,
       storeVars, serviceVars
  <2> QED BY <2>1
<1>3. ASSUME NEW w \in Worker, WorkerStep(w) PROVE PractiseInv'
  <2>1. UNCHANGED <<practised, scored, due>>
    BY <1>3 DEF WorkerStep, TakeTask, CleanupKeeps, CleanupTooEarly, CleanupDecides,
       CleanupDeletes, CleanupAborts, storeVars, serviceVars
  <2>2. \A v \in Worker : task'[v].pc = "deleting" =>
          \/ task'[v] = task[v]
          \/ /\ task'[v].s \in due["worker"] /\ task'[v].s \in Session
             /\ scored[task'[v].s] = {}
    <3>1. CASE CleanupDecides(w)
      BY <3>1, <1>type DEF CleanupDecides, CleanupTask, NoTask
    <3>2. CASE ~CleanupDecides(w)
      BY <3>2, <1>3, <1>type DEF WorkerStep, TakeTask, CleanupKeeps, CleanupTooEarly,
         CleanupDeletes, CleanupAborts, TaskEnds, NoTask
    <3> QED BY <3>1, <3>2
  <2> QED BY <2>1, <2>2
<1>4. ASSUME NEW h \in Handler, HandlerBegins(h) \/ HandlerContinues(h) \/ HandlerAborts(h)
      PROVE  PractiseInv'
  <2>1. UNCHANGED <<task, due>>
    BY <1>4, HandlerFrame
  <2>2. CASE ScoreRecords(h)
    <3>1. /\ req[h].s \in Session /\ req[h].t \in Turn
          /\ scored' = [scored EXCEPT ![req[h].s] = @ \cup {req[h].t}]
          /\ practised' = IF req[h].s \in due["worker"] THEN practised
                                                        ELSE practised \cup {req[h].s}
      BY <2>2, <1>type DEF ScoreRecords, At, UpdateSession, Scoring
    <3>2. \A s \in practised' : s \in practised \/ (s = req[h].s /\ s \notin due["worker"])
      BY <3>1
    <3>3. \A s \in practised' : scored'[s] # {}
      BY <3>1, <3>2, <1>type
    <3> QED BY <2>1, <3>2, <3>3
  <2>3. CASE ~ScoreRecords(h)
    <3>1. UNCHANGED <<scored, practised>>
      BY <2>3, <1>4 DEF HandlerBegins, HandlerContinues, HandlerAborts, AddBegin, AddVoices,
         AddInserts, AddSchedules, ScoreBegin, ScoreUploads, ScoreTooLate, RemoveBegin,
         RemoveRow, RemoveAudio, RemoveEnds, PurgeBegin, PurgeLists, PurgeRemoves,
         PurgeRepeats, storeVars
    <3> QED BY <2>1, <3>1
  <2> QED BY <2>2, <2>3
<1>5. ASSUME NEW a \in Advisor, AdvisorStep(a) PROVE PractiseInv'
  <2>1. UNCHANGED <<task, practised, scored, due>>
    BY <1>5 DEF AdvisorStep, TipBegin, TipChecks, TipRefused, TipInserts, TipPurgeBegin,
       TipPurgeDeletes, TipPurgeEnds, TipAborts, storeVars, cleanupVars, serviceVars
  <2> QED BY <2>1
<1>6. CASE UNCHANGED vars
  BY <1>6 DEF vars, storeVars, cleanupVars, serviceVars
<1> QED BY <1>1, <1>2, <1>3, <1>4, <1>5, <1>6 DEF Next

\* The cleanup is never about to delete a session that was spoken in during its
\* first hour.
THEOREM PractisedAreKeptHolds == Spec => []PractisedAreKept
<1>1. Init => PractiseInv
  BY DEF Init, CleanupInit, ServiceInit, NoTask, PractiseInv, PractisedAreKept
<1>2. PractiseInv => PractisedAreKept
  BY DEF PractiseInv
<1> QED
  BY InitTypeInv, TypeInductive, PractiseInductive, <1>1, <1>2, PTL DEF Spec

----------------------------------------------------------------------------
(* The session API implements PracticeSession.  The unique index keeps the *)
(* tips at one, and a tip that is being written is about a session that    *)
(* was complete, and that stays so.                                        *)

TipInv ==
  /\ \A s \in Session : tips[s] \in {0, 1}
  /\ \A a \in Advisor :
       tipReq[a].pc = "advising" => /\ status[tipReq[a].s] # "unused"
                                    /\ scored[tipReq[a].s] = Turn

\* A step of the system, seen by a client.
Seen == Promise!Next \/ UNCHANGED <<status, scored, tips>>

LEMMA HandlerSeen ==
  ASSUME TypeInv, AudioInv, NEW h \in Handler,
         HandlerBegins(h) \/ HandlerContinues(h) \/ HandlerAborts(h)
  PROVE  Seen
<1> DEFINE r == req[h]
<1>type. /\ r.pc \in Adding \cup Scoring \cup Removing => r.s \in Session
         /\ r.pc \in Scoring => r.t \in Turn
         /\ Knows(h) /\ UNCHANGED tips
         /\ status \in [Session -> {"unused", "live", "gone"}]
  BY HandlerFrame DEF TypeInv, TypeOK, StoreTypeOK, Arguments, AudioInv
<1>1. CASE AddInserts(h)
  <2>1. r.s \in Session /\ Promise!Create(r.s)
    BY <1>1, <1>type DEF AddInserts, At, Adding, Knows, CreateSession, Promise!Create
  <2> QED BY <2>1 DEF Seen, Promise!Next
<1>2. CASE ScoreRecords(h)
  <2>1. r.s \in Session /\ r.t \in Turn /\ Promise!Score(r.s, r.t)
    BY <1>2, <1>type DEF ScoreRecords, At, Scoring, UpdateSession, Live, Promise!Score
  <2> QED BY <2>1 DEF Seen, Promise!Next
<1>3. CASE RemoveRow(h)
  <2>1. r.s \in Session /\ UNCHANGED scored
    BY <1>3, <1>type DEF RemoveRow, At, Removing
  <2>2. CASE Live(r.s)
    <3>1. Promise!Remove(r.s)
      BY <1>3, <1>type, <2>1, <2>2 DEF RemoveRow, DeleteSession, Live, Promise!Remove
    <3> QED BY <2>1, <3>1 DEF Seen, Promise!Next
  <2>3. CASE ~Live(r.s)
    BY <1>3, <1>type, <2>1, <2>3 DEF RemoveRow, DeleteSession, Seen
  <2> QED BY <2>2, <2>3
<1>4. CASE ~(AddInserts(h) \/ ScoreRecords(h) \/ RemoveRow(h))
  BY <1>4 DEF Seen, HandlerBegins, HandlerContinues, HandlerAborts, AddBegin, AddVoices,
     AddSchedules, ScoreBegin, ScoreUploads, ScoreTooLate, RemoveBegin, RemoveAudio,
     RemoveEnds, PurgeBegin, PurgeLists, PurgeRemoves, PurgeRepeats, storeVars
<1> QED BY <1>1, <1>2, <1>3, <1>4

LEMMA OthersSeen ==
  ASSUME TypeInv, TipInv,
         \/ TimeStep
         \/ \E p \in Scheduler : SchedulerStep(p)
         \/ \E w \in Worker : WorkerStep(w)
         \/ \E a \in Advisor : AdvisorStep(a)
         \/ UNCHANGED vars
  PROVE  Seen
<1>type. /\ status \in [Session -> {"unused", "live", "gone"}]
         /\ tips \in [Session -> Nat] /\ tipReq \in [Advisor -> TipRequest]
         /\ task \in [Worker -> CleanupTask]
  BY DEF TypeInv, TypeOK, StoreTypeOK, TipTypeOK, CleanupTypeOK
<1>1. ASSUME NEW w \in Worker, CleanupDeletes(w) PROVE Seen
  <2> DEFINE s == task[w].s
  <2>1. s \in Session /\ UNCHANGED <<scored, tips>>
    BY <1>1, <1>type DEF CleanupDeletes, CleanupTask, NoTask
  <2>2. CASE Live(s)
    <3>1. Promise!Remove(s)
      BY <1>1, <1>type, <2>1, <2>2 DEF CleanupDeletes, DeleteSession, Live, Promise!Remove
    <3> QED BY <2>1, <3>1 DEF Seen, Promise!Next
  <2>3. CASE ~Live(s)
    BY <1>1, <1>type, <2>1, <2>3 DEF CleanupDeletes, DeleteSession, Seen
  <2> QED BY <2>2, <2>3
<1>2. ASSUME NEW a \in Advisor, TipInserts(a) PROVE Seen
  <2> DEFINE s == tipReq[a].s
  <2>1. /\ s \in Session /\ UNCHANGED <<status, scored>>
        /\ status[s] # "unused" /\ scored[s] = Turn /\ tips[s] \in {0, 1}
    BY <1>2, <1>type DEF TipInserts, TipRequest, TipInv
  <2>2. CASE HasTip(s)
    BY <1>2, <1>type, <2>1, <2>2 DEF TipInserts, CreateTip, Seen
  <2>3. CASE ~HasTip(s)
    <3>1. tips[s] = 0
      BY <2>1, <2>3 DEF HasTip
    <3>2. Promise!Advise(s)
      BY <1>2, <1>type, <2>1, <2>3, <3>1 DEF TipInserts, CreateTip, Promise!Advise
    <3> QED BY <2>1, <3>2 DEF Seen, Promise!Next
  <2> QED BY <2>2, <2>3
<1>3. ASSUME NEW a \in Advisor, TipPurgeDeletes(a) PROVE Seen
  <2>1. PICK s \in Session : HasTip(s) /\ DeleteTip(s)
    BY <1>3 DEF TipPurgeDeletes
  <2>2. tips[s] = 1 /\ UNCHANGED <<status, scored>>
    BY <1>3, <2>1 DEF TipPurgeDeletes, HasTip, TipInv
  <2>3. Promise!Forget(s)
    BY <1>type, <2>1, <2>2 DEF DeleteTip, Promise!Forget
  <2> QED BY <2>3 DEF Seen, Promise!Next
<1>4. CASE /\ ~ \E w \in Worker : CleanupDeletes(w)
           /\ ~ \E a \in Advisor : TipInserts(a) \/ TipPurgeDeletes(a)
  BY <1>4 DEF Seen, TimeStep, SchedulerStep, WorkerStep, AdvisorStep, HourPasses, LockExpires,
     PickJob, EnqueueCleanup, MissJob, SendFails, DropJob, TakeTask, CleanupKeeps,
     CleanupTooEarly, CleanupDecides, CleanupAborts, TipBegin, TipChecks, TipRefused,
     TipPurgeBegin, TipPurgeEnds, TipAborts, vars, storeVars
<1> QED BY <1>1, <1>2, <1>3, <1>4

LEMMA TipInductive == TypeInv /\ AudioInv /\ TipInv /\ [Next]_vars => TipInv' /\ Seen
<1> SUFFICES ASSUME TypeInv, AudioInv, TipInv, [Next]_vars PROVE TipInv' /\ Seen
  OBVIOUS
<1>type. /\ scored \in [Session -> SUBSET Turn]
         /\ status \in [Session -> {"unused", "live", "gone"}]
         /\ tips \in [Session -> Nat] /\ tipReq \in [Advisor -> TipRequest]
  BY DEF TypeInv, TypeOK, StoreTypeOK, TipTypeOK
<1>1. Seen
  BY HandlerSeen, OthersSeen DEF Next
<1>2. /\ \A s \in Session : tips'[s] \in {0, 1}
      /\ \A s \in Session : status[s] # "unused" => status'[s] # "unused"
      /\ \A s \in Session : scored[s] = Turn => scored'[s] = Turn
  BY <1>1, <1>type DEF TipInv, Seen, Promise!Next, Promise!Create, Promise!Score,
     Promise!Remove, Promise!Advise, Promise!Forget
<1>3. ASSUME NEW a \in Advisor, tipReq'[a].pc = "advising"
      PROVE  status'[tipReq'[a].s] # "unused" /\ scored'[tipReq'[a].s] = Turn
  <2> DEFINE s == tipReq'[a].s
  <2>1. \/ tipReq'[a] = tipReq[a]
        \/ TipChecks(a) /\ s = tipReq[a].s
    <3>1. CASE UNCHANGED tipReq
      BY <3>1
    <3>2. ASSUME NEW b \in Advisor, AdvisorStep(b)
          PROVE  tipReq'[a] = tipReq[a] \/ (TipChecks(a) /\ s = tipReq[a].s)
      <4>1. CASE TipChecks(b)
        BY <4>1, <1>3, <1>type DEF TipChecks, TipRequest
      <4>2. CASE ~TipChecks(b)
        BY <4>2, <3>2, <1>3, <1>type DEF AdvisorStep, TipBegin, TipRefused, TipInserts,
           TipPurgeBegin, TipPurgeDeletes, TipPurgeEnds, TipAborts, TipEnds, NoTipRequest
      <4> QED BY <4>1, <4>2
    <3>3. ASSUME NEW h \in Handler, HandlerBegins(h) \/ HandlerContinues(h) \/ HandlerAborts(h)
          PROVE  UNCHANGED tipReq
      BY <3>3, HandlerFrame
    <3>4. ASSUME \/ TimeStep \/ \E p \in Scheduler : SchedulerStep(p)
                 \/ \E w \in Worker : WorkerStep(w)
          PROVE  UNCHANGED tipReq
      BY <3>4 DEF TimeStep, SchedulerStep, WorkerStep, HourPasses, LockExpires, PickJob,
         EnqueueCleanup, MissJob, SendFails, DropJob, TakeTask, CleanupKeeps, CleanupTooEarly,
         CleanupDecides, CleanupDeletes, CleanupAborts
    <3> QED BY <3>1, <3>2, <3>3, <3>4 DEF Next, vars
  <2>2. CASE tipReq'[a] = tipReq[a]
    <3>1. s \in Session /\ status[s] # "unused" /\ scored[s] = Turn
      BY <1>3, <1>type, <2>2 DEF TipInv, TipRequest, NoTipRequest
    <3> QED BY <1>2, <3>1
  <2>3. CASE TipChecks(a) /\ s = tipReq[a].s
    <3>1. s \in Session /\ status[s] # "unused" /\ scored[s] = Turn
      BY <1>type, <2>3 DEF TipChecks, Complete, Completed, Live, TipRequest, NoTipRequest
    <3> QED BY <1>2, <3>1
  <2> QED BY <2>1, <2>2, <2>3
<1> QED BY <1>1, <1>2, <1>3 DEF TipInv

\* Every behaviour of the handlers, the queues and the bucket, seen through the
\* sessions, their scores and their tips, is one that PracticeSession allows.
THEOREM ImplementsHolds == Spec => Implements
<1>1. Init => Promise!Init /\ TipInv
  BY DEF Init, StoreInit, TipInit, NoTipRequest, Promise!Init, TipInv
<1>2. Seen => [Promise!Next]_(Promise!vars)
  BY DEF Seen, Promise!vars
<1> QED
  BY InitTypeInv, InitAudioInv, TypeInductive, AudioInductive, TipInductive, <1>1, <1>2, PTL
  DEF Spec, Implements, Promise!Spec
=============================================================================
