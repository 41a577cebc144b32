---------------------------- MODULE SessionState ----------------------------
(***************************************************************************)
(* The state behind the practice sessions of one user.                     *)
(*                                                                         *)
(*   store     MongoDB sessions and coaching_tips, the Cloudflare R2 bucket*)
(*   cleanup   the APScheduler job store, the Redis lock, the Celery queue *)
(*             and the Celery slots that run cleanup_incomplete_session    *)
(*   service   the handlers that create, score and remove sessions         *)
(*   tips      the handlers that write and delete coaching tips            *)
(*                                                                         *)
(* Every database filter of these operations names the user, so users do   *)
(* not interact and one is enough.  A MongoDB id is never given twice: a   *)
(* deleted session does not come back.  The model keeps of a script only   *)
(* its user turns (the AI turns carry model audio and nothing else), and   *)
(* of a turn whether it was scored: update_session writes the score and    *)
(* the user's audio URL in one $set, so a turn has both or neither.        *)
(***************************************************************************)
EXTENDS Naturals, FiniteSets

CONSTANTS
  Session,     \* the ids MongoDB can give to a session
  Turn,        \* the user turns of a script
  Script,      \* stands for all of a script's synthesised (model) audio
  None,        \* no session, no turn
  Scheduler,   \* the web workers, each running an AsyncIOScheduler
  Worker,      \* the Celery worker's concurrent task slots
  Requester,   \* concurrent web requests
  Purger,      \* concurrent delete_user_sessions tasks; a name in both is either
  Advisor,     \* concurrent tip requests and delete_user_coaching_tips tasks
  Abandoned,   \* bound: the sessions whose user never records a turn
  BatchSize,   \* batch_size of delete_sessions_for_user
  Faults       \* the failures an instance may inject

Handler == Requester \cup Purger

FaultKind == {"skew", "misfire", "redis", "broker", "abort", "r2", "mongo"}

ASSUME StateAssumption ==
  /\ Turn # {} /\ Script \notin Turn
  /\ None \notin Session \cup Turn
  /\ BatchSize \in Nat \ {0}
  /\ Faults \subseteq FaultKind

----------------------------------------------------------------------------
(* The store *)

VARIABLES
  status,    \* "unused" before insert_one, "live", "gone" after delete_one
  scored,    \* the user turns of the session that hold a score and an audio URL
  bucket,    \* the R2 keys that hold an object
  tips       \* how many coaching tips are stored for the session and its user

storeVars == <<status, scored, bucket, tips>>

\* scripts/... and user-audio/<user>/<session>/turn-<i>.mp3
Key == Session \X (Turn \cup {Script})

StoreTypeOK ==
  /\ status \in [Session -> {"unused", "live", "gone"}]
  /\ scored \in [Session -> SUBSET Turn]
  /\ bucket \subseteq Key
  /\ tips \in [Session -> Nat]

StoreInit ==
  /\ status = [s \in Session |-> "unused"]
  /\ scored = [s \in Session |-> {}]
  /\ bucket = {}
  /\ tips = [s \in Session |-> 0]

----------------------------------------------------------------------------
(* The cleanup.  Time is the age of a session: the web host schedules by   *)
(* its clock and the Celery worker checks by its own.                      *)

VARIABLES
  due,      \* per clock, the sessions at least 3600 seconds old
  jobs,     \* sessions with a cleanup_session_<id> job in the job store
  picked,   \* per scheduler, the due jobs it has read and not yet run
  lock,     \* sessions whose cleanup_enqueue:<id>:<date> key is set in Redis
  queued,   \* per session, the cleanup tasks waiting in the Celery broker
  task      \* per Celery slot, the cleanup task it runs

cleanupVars == <<due, jobs, picked, lock, queued, task>>

Clock == {"web", "worker"}

NoTask == [pc |-> "idle", s |-> None]
CleanupTask == {NoTask} \cup [pc : {"reading", "deleting"}, s : Session]

CleanupTypeOK ==
  /\ due \in [Clock -> SUBSET Session]
  /\ jobs \subseteq Session
  /\ picked \in [Scheduler -> SUBSET Session]
  /\ lock \subseteq Session
  /\ queued \in [Session -> Nat]
  /\ task \in [Worker -> CleanupTask]

CleanupInit ==
  /\ due = [c \in Clock |-> {}]
  /\ jobs = {}
  /\ picked = [p \in Scheduler |-> {}]
  /\ lock = {}
  /\ queued = [s \in Session |-> 0]
  /\ task = [w \in Worker |-> NoTask]

----------------------------------------------------------------------------
(* The handlers of the session service *)

VARIABLES
  req,        \* what each handler is doing
  practised   \* history: sessions scored before the worker saw them an hour old

serviceVars == <<req, practised>>

Adding == {"generating", "inserting", "scheduling"}   \* add_session
Scoring == {"transcribing", "recording"}              \* update_session_by_id
Removing == {"deleting", "unlinking"}                 \* remove_session
Purging == {"listing", "removing"}                    \* delete_sessions_for_user

\* s and t are the operation's arguments, urls the audio remove_session has
\* still to delete; purge marks a remove_session called from the loop of
\* delete_sessions_for_user, and todo what that loop has left.
Request == [pc : {"idle"} \cup Adding \cup Scoring \cup Removing \cup Purging,
            s : Session \cup {None}, t : Turn \cup {None},
            urls : SUBSET Key, purge : BOOLEAN, todo : SUBSET Session]

NoRequest == [pc |-> "idle", s |-> None, t |-> None,
              urls |-> {}, purge |-> FALSE, todo |-> {}]

ServiceTypeOK ==
  /\ req \in [Handler -> Request]
  /\ practised \subseteq Session

ServiceInit ==
  /\ req = [h \in Handler |-> NoRequest]
  /\ practised = {}

----------------------------------------------------------------------------
(* The handlers of the coaching tips *)

VARIABLE tipReq    \* what each of them is doing

NoTipRequest == [pc |-> "idle", s |-> None]
TipRequest == [pc : {"idle", "purging"}, s : {None}]
              \cup [pc : {"checking", "advising"}, s : Session]

TipTypeOK == tipReq \in [Advisor -> TipRequest]

TipInit == tipReq = [a \in Advisor |-> NoTipRequest]
=============================================================================
