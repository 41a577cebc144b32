# A verification of the yamFluent backend

yamFluent is a FastAPI backend for speaking practice.  A user asks for a
session, gets a script of alternating AI and user turns with synthesised audio,
records each user turn, has it scored, and may ask for a coaching tip.  MongoDB
keeps the documents, Cloudflare R2 the audio, Redis the locks and short lived
copies; APScheduler and Celery run what happens later.  This directory holds
TLA+ models of it, the TLC configurations that check them and proofs for TLAPS.

The modules are written from the source.  `PROJECT.json` gives, under `map`, the
lines each definition stands for, and under `hazards` what in this code is hard
to test, with the properties that watch it.

## The system

| Part | State it keeps | Operations | What must be right |
| --- | --- | --- | --- |
| Practice sessions (`services/session_service.py`) | `sessions` | create, score a turn, remove, remove all of a user's | published audio exists; a removed session stays removed |
| Audio storage (`controller/script_generation/audio.py`) | R2 objects | upload, delete by URL | no object is left that nobody names |
| Cleanup of incomplete sessions (`controller/session_cleanup/cleanup.py`) | APScheduler's job store, Redis locks, Celery queue | schedule, enqueue, run | once per session, in the end, and never on one that was practised in time |
| Coaching tips (`services/coaching_tips_service.py`) | `coaching_tips` | create or get, list, remove all | one per session, only for a complete session |
| Password reset (`services/user_service.py`) | `reset_tokens`, a copy in Redis | request, validate, confirm | a link works once and for 15 minutes |
| Users and login tokens (`services/user_service.py`, `repositories/tokens_repo.py`) | `users`, `accessToken`, `refreshToken` | sign up, log in, refresh, log out, delete, revoke | an exchanged token is not exchanged again; nothing a logout found survives it |
| Settings and device state (`services/settings_service.py`) | profile, preference, `notification_devices` | update, reset, delete the account, sync a device | no update is lost; nothing survives the account |
| OpenAI throttle (`controller/script_generation/clients.py`) | semaphore, windows, last call; one of each per process | wait, call, retry | limits are kept and every caller gets on |
| Script generation (`controller/script_generation`) | the tasks that voice the turns | prompt, validate, voice | turns alternate, of the asked number, each with audio; every task ends |
| Turn scoring and grading (`controller/grading`) | the graded turns, one recording's object per turn | transcribe, align, score, analyse, upload, store | what a turn shows is one recording's; alignment is minimal; scores follow errors |
| Administrators (`services/admin_service.py`) | `admins` and their tokens | as the users, invite, delete a session | as the users; neither endpoint serves the other's accounts |
| Web application (`main.py`) | rate limit counters and the heartbeat key in Redis | limit, start and stop the scheduler, health | the limits bound what passes; health is not reported of what is dead |

How they interact.  Five web workers serve requests, and each of them starts an
APScheduler on the one job store in MongoDB (`main.py:47`, `core/scheduler.py`).
`add_session` stores a job for an hour later.  A scheduler that finds it due asks
Redis for a lock and sends a Celery task.  The Celery process runs up to five
tasks at once: the cleanup, the removal of the user's sessions, tips and device
states when the account is deleted or reset, and the revocation of logins when
the password changes.  Every `await` is a point where another request, another
worker or a Celery task can run, and nothing in the code is transactional across
two calls.  That, together with failures that are passed over (`except Exception:
pass`), is where the hard behaviour is.

## The modules

| Module | What it models |
| --- | --- |
| `SessionState` | the variables of the session system, their types and initial values |
| `SessionStore` | single operations on MongoDB and R2, each atomic there |
| `SessionCleanup` | scheduler, lock, queue and cleanup task |
| `SessionService` | the session handlers, one step per call that touches shared state |
| `CoachingTips` | the handlers of the tips |
| `SessionSystem` | all of these on one store: next-state relation, fairness, properties |
| `MCSessionSystem` | `SessionSystem` with the symmetry of its large run |
| `PracticeSession` | the abstract specification: what the session API promises |
| `SessionSystem_proofs` | the theorems about `SessionSystem` |
| `PasswordReset` | reset tokens, their Redis copy, requests, confirmations |
| `PasswordReset_proofs` | the theorems about `PasswordReset` |
| `AccountData` | what a user owns, the requests that store, reset and delete it, and the cleanup tasks |
| `MCAccountData` | `AccountData` with the symmetry of its safety run |
| `AccountData_proofs` | the theorems about `AccountData` |
| `CallQuota` | the abstract specification of the throttle: what a process may send to OpenAI |
| `OpenAIThrottle` | the callers on their way through semaphore, interval, quota, call and retries |
| `OpenAIThrottle_proofs` | the theorems about `OpenAIThrottle` |
| `LoginTokens`, `MCLoginTokens`, `LoginTokens_proofs` | the pairs of tokens, the requests and tasks on them; the symmetry of its run; its theorems |
| `WebApplication`, `MCWebApplication`, `WebApplication_proofs` | limiter, heartbeats and health checks; the limits of its run; its theorems |
| `Grading` | the grading algorithms, on lists of words |
| `TurnScoring` | the requests that record, grade and store a turn, and the practice words of the fallback tip |
| `ScriptGeneration` | one call of `generate_script`: the model's answer, its check, the voices |
| `PracticeRecording` | `ScriptGeneration` and `TurnScoring` composed: a script, then its recordings |
| `GradingReference` | what the grading algorithms should compute, said without the algorithms |
| `PracticeRecording_proofs` | the theorems about `PracticeRecording`, the grading algorithms and their reference |
| `DataTheorems` | lemmas about numbers, sets, sums, folds, recursive functions and ranks that the proofs share |
| `MCTurnGrading` | `PracticeRecording` with words, texts and transcripts for TLC |

An operator whose comment begins with "Variant" is the neighbouring operator with
a plausible mistake in it.  No specification uses it; it is there to see that a
property notices the mistake (`mutants` in `PROJECT.json`).

### The session system

A handler is in one of the phases of one operation, held in `req[h].pc`; the
rest of the record is what the coroutine's local variables hold.

| Code | Actions |
| --- | --- |
| `add_session` | `AddBegin`, `AddVoices` (model audio uploaded), `AddInserts`, `AddSchedules` |
| `update_session_by_id` | `ScoreBegin` (session read and checked), `ScoreUploads`, then `ScoreRecords` or `ScoreTooLate` |
| `remove_session` | `RemoveBegin` (session read), `RemoveRow`, `RemoveAudio` per object, `RemoveEnds` |
| `delete_sessions_for_user` | `PurgeBegin`, `PurgeLists`, `PurgeRemoves` (calls `remove_session`), `PurgeRepeats` |
| `schedule_cleanup_incomplete_session` | `ScheduleCleanup`, within `AddSchedules` |
| APScheduler | `PickJob`, and `DropJob` within whatever the run does |
| `_enqueue_cleanup_task` | `EnqueueCleanup`, `MissJob`, `SendFails` |
| `cleanup_incomplete_session` | `TakeTask`, then `CleanupKeeps`, `CleanupTooEarly` or `CleanupDecides`; `CleanupDeletes` |
| `generate_or_get_coaching_tip` | `TipBegin`, `TipChecks` or `TipRefused`, `TipInserts` |
| `delete_coaching_tips_for_user` | `TipPurgeBegin`, `TipPurgeDeletes`, `TipPurgeEnds` |

`Requester` are the concurrent web requests, which create, score and remove, and
`Purger` the concurrent Celery tasks `delete_user_sessions`, which list and remove;
a name in both sets is either.  `Handler` is both together.

Abstractions, each stated where it is made:

- One user.  Every filter of these operations names the user, so users do not
  interact.
- A session keeps the set of its scored user turns.  Score and audio URL of a
  turn are written by one `$set`, so a turn has both or neither.  The contents of
  a score, a recording, a script and a tip are left out.
- `Script` stands for all the synthesised audio of a script, uploaded in one step
  and published by the insert; `asyncio.gather` may leave part of it behind when
  it fails, which an abort after `AddVoices` shows as the whole.
- `Abandoned` is a bound: sessions of which no turn is ever recorded.
- Time is a set per clock of the sessions that are at least 3600 s old.  The web
  host and the Celery host have a clock each; the fault `skew` lets them differ.
- `DropJob` runs a picked job and removes it from the store in one step.
- MongoDB never gives an id twice.
- The lock's TTL (7200 s) is longer than any scheduler holds a picked job:
  `LockExpires` asks for no job of that session, in the store or picked.
- `HandlerAborts`, `CleanupAborts` and `TipAborts` end an operation anywhere: an
  exception or the death of the process.

### The password reset

A token's document is `none`, `fresh` or `used`; so is its copy in Redis.
`get_reset_token_state` is `ReadHits`, or `ReadMisses`, `ReadQueries`,
`ReadFills`: between the query and the fill anything can happen, and the fill
writes what the query saw.  A confirmation goes on with `ConcludeUpdates`,
`ConcludeRevokes`, `ConcludeMarks`, `ConcludeCaches`.  `changed` and `revoked`
are histories.  A user's id, the password and the token's characters are left
out.

### The account's data

`AccountData` follows one user through `apply_settings_request`,
`sync_device_state`, onboarding, and the creation of sessions and tips, each of
which reads the user and writes later.  A `PATCH` of the settings carries a
payload that its parts use up in the order of the code (`UpdateDevice`,
`UpdatePreference`, `UpdateProfile`).  `remove_user` is `RemoveUser`,
`RemoveTokens`, `EnqueueCleanup`; `reset_user_profile` is `ResetUnsets`,
`ResetDisables`, `EnqueueCleanup`.  A write to a user that is gone changes
nothing and raises, which ends the request where it stands.  A kind of data is
sessions, tips or devices, and a document exists, is gone, or is an id not used
yet.  The cleanup tasks of sessions and tips delete one listed document after
another until a listing is empty (the session system above has this purge in
detail); that of the devices raises.  `doomed` is a history of what a reset or
deletion found, `failed` of whether a failure was injected.  Left out: the values
of the profile and the preference, and the requests' answers.

### The OpenAI throttle

A caller is `queued` for the semaphore (`Admit`), `pacing` for the lock of the
interval (`BeginSpacing`, `EndSpacing`: clock read, sleep and write), in `quota`
(`CountRequest`, or `MeetQuota` and `AskAgain` when a limit is met), `calling`
(`Answer`, `Refuse`) or in `backoff` outside the semaphore (`Retry`).  A tick
ages everything.  The two deques always have their entries at the same places
and are one sequence of records.  `Script` is what `request_script` sends: it
takes semaphore and interval, is not counted and not retried.  `sent` is a
history, and with `since` it is all that `CallQuota` knows of.  The time it
takes to run between two awaits is no tick, so `now`, read before the window's
lock is waited for, is as old as that wait only where the lock is held for
good.

### The login tokens

A login mints a pair, the access document first.  A refresh is `Refresh` (the
access document is found), `Look` (the refresh document names it), `Find` (the
account), `MintAccess`, `MintRefresh`, `Hand` (the old access document goes),
`Drop` (the old refresh document).  A wipe - logout, deletion, the task after a
change of the password - is `WipeRefresh`, `WipeAccess`.  Each is one call of
MongoDB, and `Fail` may end a request before any of them.  Members and
administrators share the two token collections and are looked up in their own.
All accounts of a kind have one address: sign-ups race for it and nothing stops
the second.  A JWT is its pair; one that has expired makes a request fail that
would change nothing, except at the refresh endpoints, which take it.

### The web application

`Dispatch` is the middleware and whatever its route does to the client's token:
`KeyOf` reads MongoDB, `Hit` counts in Redis, `Passes` compares.  A client's key
changes when its token appears or goes and when MongoDB is down, which moves it
to another limit.  A tick is 15 seconds, the interval of the heartbeat.  `allowed`
and `silent` are histories.  Services go and come at any time, and the health
checks are functions of what they find.

### Scripts, recordings and grades

`Accept`, `Reject` and `AskFails` are the answer of the model, of which a turn
keeps its role and whether its text is blank.  Each turn is voiced by a task of
its own (`Speak`, `Voiced`, `VoiceFails`), and `asyncio.gather` fails at the first
that does while the others run on.  `MeetQuota` is a synthesis that meets the quota:
it waits for itself (see below), its turn stays `held` and keeps the audio semaphore.
`OtherMeetsQuota` is any other caller of the process doing so.  When the script is
stored its user turns can be recorded: `Record`, `Transcribe`, `Upload` (one key per turn), `Update` (one
`$set`, in which an empty list of words is left out).

`Grading` follows `align_words` with its table and its order of preference on
the way back, `compute_scores` in integers of a hundredth, and the passes of
`build_speech_analysis`.  Words are strings with a spelling, so that a near miss
is decided by the edit distance of the letters, as in the code.  Splitting a
transcript into words, dialects and the wording of the analysis are left out.  Of a
coaching tip `TurnScoring` has the words of the fallback, `_heuristic_tip`; those of
an OpenAI tip are whatever it answers, at most six.

## The runs

Run each in this directory: `tlc -config <cfg> <module>`.

| Configuration | Module | Instance | States | Shows |
| --- | --- | --- | --- | --- |
| `SessionSystem.cfg` | `MCSessionSystem` | 1 session, 2 turns, 2 handlers, 2 schedulers, 2 Celery slots, 2 tip handlers, all faults, symmetric | 730 thousand | types, `AudioIsThere`, `OneCleanupInFlight`, `PractisedAreKept`, and that `PracticeSession` is implemented |
| `SessionFaultFree.cfg` | `SessionSystem` | 2 sessions, one of them never spoken in, 1 turn, 1 request, 1 purge task, 2 schedulers, 1 slot, batches of 1, no faults | 382 thousand | `CleanupStaysPending`, and under fairness `AbandonedIsCleaned` and `PurgeEnds` |
| `PasswordReset.cfg` | `PasswordReset` | 2 tokens, 2 handlers, mail failures, aborts | 102 thousand | types, `CacheNeverAhead`, `MarkedAfterWork`, `SpentForGood` |
| `AccountData.cfg` | `MCAccountData` | sessions and devices, 2 documents of each, 2 requests, 1 Celery slot, refused messages, aborts, symmetric | 1.8 million | types, `NothingForgotten`, `GoneForGood` |
| `AccountCleanup.cfg` | `AccountData` | sessions and tips, 1 document of each, 2 requests, 1 slot, no faults | 124 thousand | under fairness `DoomedGo` |
| `OpenAIThrottle.cfg` | `OpenAIThrottle` | 2 callers and permits, interval 1, window 2, 2 requests or 3 tokens per window, 1 retry | 254 thousand | types, `LimitsKept`, `IntervalBounds`, `CallsSpaced`, `QuotaStopsCounting`, that `CallQuota` is implemented, and under fairness `EveryCallEnds` |
| `LoginTokens.cfg` | `MCLoginTokens` | 1 member, the super administrator, 3 pairs, 2 requests or tasks, 1 message, failures everywhere, symmetric | 1.5 million | types, `NoReplay`, `RevokedStayOut`, `OrphansStayOut` |
| `WebApplication.cfg` | `MCWebApplication` | 1 client with and without a token, 2 processes, limits 2 and 3, window 3 ticks, failing services | 638 thousand | types, `TwiceTheLimit`, `WindowEnds`, `HealthIsTrue` |
| `TurnGrading.cfg` | `MCTurnGrading` | scripts of 5 turns from answers of up to 7, 2 voices at once, 3 recordings by 2 requests; 50 texts pairwise | 43 thousand | types, `ScriptIsPlayable`, `ShowsOneRecording`, `AudioIsScored`, `FallbackWordsAreRead`, the algorithms against `GradingReference`, and under fairness `GenerationEnds` |
| `AccountDevices.cfg` | `AccountData` | 1 document, 1 request, no faults | violated | `DeletionCleansUp` |
| `CleanupAudio.cfg` | `SessionSystem` | 1 of everything, no faults | violated | `DeletionRemovesAudio` |
| `PasswordResetRace.cfg` | `PasswordReset` | 1 token, 2 handlers, no faults | violated | `SingleUse` |

Why these bounds are enough to be interesting.  Sessions share nothing but a
purge's listing, so the races are on one session and `SessionSystem.cfg` spends
its states on actors: two handlers, each a request or a purge task, give every pair of
operations (score against remove, purge against purge), two schedulers and two slots
every race on the lock and between two cleanups, and two turns a session that is partly scored.
In `SessionFaultFree.cfg` the request handler creates, scores and removes sessions
while the purge task lists and removes them.  Two sessions and a batch of one make the
purge list more than once, find a session that was created since the last listing, and
find one gone that it had listed.  That `s2` is never spoken in (`Abandoned`) is what
keeps two schedulers affordable there; `s1` may be.  No counter is unbounded:
the queue counts tasks and stays at one, tips stay at one, and each id is used
once.  The proofs below cover every instance for the safety properties.

In `AccountData.cfg` two requests give every pair of operations (a reset
overtaken by a deletion, an update or a new session that outlives the user), and
two documents one that is doomed and one that comes after.  The two runs take two
kinds each because tips behave as sessions do but for what they need to exist.

In `OpenAIThrottle.cfg` two callers hold two permits, so that one may sleep under
each lock, or back off, while the other goes on; a window takes two requests of
the smaller estimate or one of the larger and a smaller one, so both limits are
met, by either caller, before and after entries expire; an answer and a refusal,
with and without a header, are possible at every call.  The history `sent` is cut
where the window ends.  In `LoginTokens.cfg` three pairs let a pair be exchanged
twice, one request after or during the other, with a wipe between any two calls;
a second member would add nothing that the administrator, with the other endpoint
and collection, does not.  `WebApplication.cfg` lets one client change its key,
cross two windows and be refused, and two schedulers fall silent together or not;
`KeyLife`, `Window` and `Fresh` are in the code's order.  In `TurnGrading.cfg` five is the
shortest plan that `assert_turn_plan` allows, an answer may be longer than it by
two, two turns can be in progress and one can be recorded three times.  The texts have
every alignment up to three words, with words that are equal, near (exactly at
the threshold), and far, fillers, and the two-word filler.

Symmetry is used with invariants, action properties and the step-by-step
refinement only; the modules never choose among, order or count the elements of
a symmetric set.  The liveness runs have none.

`CHECK_DEADLOCK FALSE` is said for the session system and the account's data: when
every id is used, or the user is gone, and nothing is left to do, nothing happens.
So it is for the login tokens when every pair is minted, and for the grading when
every recording is made; the web application never stops, and its configuration says
it only because nothing obliges a client to ask.

Fairness (`FairSpec`).  Weak fairness of the hour passing and a started
scheduler picking and running due jobs (`AsyncIOScheduler` looks at its store
again at every due time); of Celery taking a queued task for each session (the
queue is first in, first out) and running the task it took; of a handler
carrying on with what it began (the event loop runs every ready coroutine).
Nothing obliges anyone to start a request.  There are finitely many sessions:
`PurgeEnds` does not claim that a purge outruns a user who creates sessions for
ever, and neither does `DoomedGo`.  In `AccountData` taking a task is strongly
fair for each kind: a free slot may take other tasks first, but the queue is
first in, first out.

`OpenAIThrottle`: time passes; the event loop runs a coroutine that can run; a
call is answered or refused, if only by the client's own timeout.  Entering the
semaphore and taking the interval's lock are strongly fair, because asyncio wakes
the waiters of both in the order they came.  The quota's lock is weakly fair only:
without a caller that met the limit it is never held across a step.
`EveryCallEnds` excepts the callers that come after such a one, as the code does
not serve them (see below).  `GenerationFairness`: every task that may run is run, and
a call to OpenAI ends, if only by the client's timeout, as long as nobody of the process
has met the quota.  From then on neither the script's request, which waits for the slot
that the caller keeps, nor a synthesis, which waits for the window's lock, need end, and
`GenerationEnds` makes the exception that `EveryCallEnds` makes.

Refinement.  `SessionSystem` implements `PracticeSession`, and `OpenAIThrottle`
implements `CallQuota`, which knows of no callers, locks, deques or retries: only
that requests leave an interval apart, and a counted one only within both limits
of the last window.  The window of `CallQuota` is the history of what was sent,
that of the code a pair of deques that are pruned when somebody looks; that both
agree at every count is what the run shows.

## What the runs found

- **Device states survive the account** (`AccountDevices.cfg`).  `readme.md:93`
  says that deleting an account cleans them up.  `user_service.py:220` sends
  `{"userId": ...}`, and `delete_device_states_for_user` has the parameter
  `user_id` (`device_state_repo.py:42`): the task raises, every time.
- **The cleanup leaves audio behind** (`CleanupAudio.cfg`).  `readme.md:94`
  says that deleting a session attempts to remove its audio.
  `cleanup.py:28` deletes the document only; `remove_session` is what deletes
  audio.  One request, no failure: create, wait an hour.
- **A reset link can be used twice** (`PasswordResetRace.cfg`).  The check
  (`user_service.py:358`) and the mark (`377`) are separate calls and the mark
  has no condition, while `user_route.py:305` says the token is single-use.

Behaviour the models have on the way, of which no document says otherwise, or for
which a run would repeat one of the above:

- `remove_session` works on the session as it was read, and `update_session_by_id`
  uploads before it writes: a recording uploaded meanwhile stays in the bucket
  (`SessionSystem` with two handlers and `DeletionRemovesAudio`, no cleanup needed).
- A reset mail that is refused is a 500 for a known address, where
  `user_route.py:226` says the answer is always generic.
- The first caller to meet the quota waits for itself: `_wait_for_quota` calls
  itself with `_openai_window_lock` held (`clients.py:70`), and an `asyncio.Lock` is
  not reentrant.  It keeps its permit of the semaphore too, and with the default of one
  permit the process never calls OpenAI again.  `QuotaStopsCounting` states it and
  `EveryCallEnds` excepts it.  A script under way then hangs as well, with the
  permit of the audio semaphore that its synthesis holds; `GenerationEnds` excepts it.
  Each of the five web workers has limits of its own.
- A login or refresh that found the account before it was deleted leaves a pair
  behind; `OrphansStayOut` shows that it is of no use once it was.
- A refresh that fails between minting and dropping leaves both pairs in use.
- Without Redis every request is answered 500, the health checks' too, because the
  limiter asks it first.  `/health` answers HTTP 200 whatever it found; its body says
  207.  One process's heartbeat hides that another's scheduler is dead.
- Two recordings of one turn that cross between upload and update leave the audio of one
  with the score of the other (`crossed`), and so does a failure there.
- "like" is a filler word: a text that has it, read perfectly, scores below 100.
- A script whose voice fails leaves the audio of its other turns in the bucket.

## What is proved

`tlapm` checks every obligation of `SessionSystem_proofs`, `PasswordReset_proofs`,
`AccountData_proofs`, `OpenAIThrottle_proofs`, `LoginTokens_proofs`,
`WebApplication_proofs`, `PracticeRecording_proofs` and `DataTheorems`.  Every safety
property that a passing run checks is a theorem, and so are both refinements.  The
theorems hold for every value of the constants under the assumptions their modules
name (`StateAssumption`, `ThrottleAssumption`, `TurnsAssumption` and so on); the sets of
actors need not even be finite, and the texts, transcripts and spellings are any
sequences.  Nothing is claimed about fairness.

Session system.  None of the properties is inductive by itself.

- `TypeCorrect` proves `TypeInv`: `TypeOK` and `Arguments`, that a handler in
  the middle of an operation has a session, and a turn when scoring.
- `AudioIsThereHolds` proves `AudioInv`.  A stored URL leads to an object
  because the handler about to publish it has uploaded it, and because whoever
  deletes objects has made sure that the session is gone (`Knows`).  This needs
  that two handlers never create the same session (`AddersDiffer`) and that an
  unused id is blank (`UnusedIsBlank`).
- `OneCleanupInFlightHolds` proves `LockInv`: while a task is in flight and some
  scheduler may still run the job, the lock is set; that is what makes a second
  send impossible, and why the lock must outlive the job.  A session not yet
  scheduled is untouched by the cleanup.
- `CleanupStaysPendingHolds` proves `PendingInv` where nothing is lost
  (`NothingLost`: no skewed clock, missed run, failing Redis or broker, no abort; the
  two remaining faults, which spare the cleanup, are allowed).  A job that
  two schedulers picked is not lost by the second of them, for it finds the lock set,
  and a set lock means that the job has left the store for the queue; and no task
  finds its session too young, for the hour had passed when its job was picked.
- `PractisedAreKeptHolds` proves `PractiseInv`: a practised session has a score,
  scores are never taken back, and a cleanup decides to delete only when the
  hour has passed by its own clock, after which `practised` does not grow.
- `ImplementsHolds` maps each step to a step of `PracticeSession` or a stutter
  of `status`, `scored` and `tips`.  A tip insert needs `TipInv`, that a handler
  writing a tip has seen its session complete, and that scores stay.

Password reset.  `IInv` is `TypeOK`, `CacheNeverAhead`, `MarkedAfterWork` and
`Progress`: a handler about to queue the revocation has changed the password, one
about to mark has done both, one about to copy the mark has marked.  The action
property `SpentForGood` (`SpentTokensStaySpent`) follows from the invariant step
by step.

Account data.  `IInv` is `TypeOK`, `NothingForgotten` and `DoomedStored`: a
doomed document was stored once, so that no request under way can store it
again.  `HandlerOwes` follows the debt from the deletion or reset through the
requests to the queue, `WorkerOwes` from the queue through the tasks.
`GoneForGood` needs no invariant: every write but the deletion is `UpdateUser`.

OpenAI throttle.  `IInv` is `TypeOK`, `Spacing` and `CountedOnly`.

- `CallsSpaced` needs `Spacing`: whoever sleeps off the interval holds its lock, so
  that nobody else starts the interval anew, and what it still sleeps and what has
  passed since the last call make up the interval.  `CountedOnly`, that a caller at the
  quota has an estimate, keeps the windows' entries in their type.
- `QuotaStopsCounting` says how the quota's wait ends: whoever holds that lock asks
  for it again, and no step gives it back.
- `LimitsAreKept` and `KeepsItsPromise` rest on `LogInv`, which relates two logs of the
  same calls: the deques of the code, pruned only when a caller looks and holding
  entries for as long as nobody does, and the history of `CallQuota`, which is cut at
  every tick.  For every limit of age within the window both have the same number of
  counted calls and the same tokens no older than that.  So what the code counts after
  pruning is what the window of the abstract quota holds, and its check is the quota's
  guard.  Both logs are in order of age, and so pruning from the left forgets what is
  too old and nothing else (`PrunedLog`, `AgedLog`).
- `IntervalIsABound` needs `PaceInv`.  The calls of any recent past and the callers
  that wait for the quota with the interval behind them are more than the semaphore's
  permits only as far as the interval has passed again and again in that past: those
  who wait hold a permit each, and whoever was counted beyond them started an interval
  of its own.

Login tokens.  `IInv` is `TypeOK`, `StoreInv` about the two collections, and `Sound`
about each request under way: the pair it mints is its own until it is handed out, a
wipe finds what it found when it began or nothing, and an exchange of a pair that was
spent or an orphan gets no further than looking it up.  None of the three properties
is inductive without it.  A step is `Calm` for every other request: what is deleted is
not stored again, and no account is created twice; and what is calm keeps them `Sound`
(`CalmKeepsSound`).

Web application.  `HealthIsTrue` needs `BeatInv`, that the heartbeat's key is at least as
old as the silence of the schedulers; `WindowEnds` only the types of the expiries.
`LimitsTwice` proves `WindowInv`: what the last `Window` ticks let through is split where
the running window began.  What came since is on the counter, at most the limit; what
came before is of the window before, whose first request is at least a window older
than the running one and has left the interval, so that at most the limit less one is
left of it.

Scripts and recordings.

- `Playable` rests on `Trimmed`, what a valid answer is trimmed to, and on `ScriptInv`,
  which follows the accepted script to the store.
- `Scored` needs `AudioInv`: while one request is between upload and update, the
  object of its turn is its recording.
- `Types` proves `GenerationInv` and `ScoringInv`.  That no more voices are made at once
  than the audio semaphore permits needs a count of the turns that have it
  (`HavingChanges`); that scores are between 0 and 100, that the rounding is clamped.
- `OneRecording` and `FallbackIsRead` rest on `Stored`: a turn holds nothing yet, or the
  grading of one transcript, with words of its text from an earlier one if that grading
  has none.  `$set` without an empty list keeps it so, whichever request comes
  last.  The words of the fallback tip are then read through the counters of all turns: a stable
  sort gives every rank to one member (`EveryRank`), so that what is ranked was collected.

Grading algorithms.  These theorems are about texts of any length.

- `TrueDistance` is the correctness of `align_words`.  Its table satisfies its recursion
  (`DistancesSolve`), its way back spells both texts and makes as many errors as the
  corner of the table says (`AlignWordsAligns`), and the corner is the least cost of all
  matchings (`DistancesAreCheapest`): of the last two words either both are matched with
  each other or one of them is unmatched (`LastWords`), so that no matching costs less
  than its cell, and one of the three neighbours has a matching that attains it.
- `Agreement` follows the two loops together: the one over the pairs that collects the
  mispronounced words, and the one that collects entries.  After each pair the entries
  reported so far are about the words found so far, one each and in their order
  (`AgreeStep`), which makes the later sort by that order change nothing
  (`InOrderIsKept`).
- `FairScores`: Python's rounding to even and the clamp are monotone
  (`RoundingIsMonotone`, `ScoresFall`), distance 0 is equality of the texts
  (`NoDistance`), one filler more adds one to the fillers and one to
  the words, of which the fillers are a part (`OneMoreFiller`), and leniency divides.
  `PerfectScore` has bounds, 2200 and 2800, because in a text of 220 words at leniency 1
  one error costs half a point, which rounds away: without them the property is false.

How recursion and folds are reasoned about.  A recursive function is any function that
satisfies its equation, so the proofs first show that the equation has a solution
(`RecursionHasASolution`, by a measure) and then prove by induction what every solution
does.  `FoldLeft` and the sums of the community modules are recursions over sets or
sequences and have solutions in the same way (`FoldHasASolution`, `SolutionExists`).  The induction
theorems of the library take a predicate, which the provers cannot instantiate;
`NumberInduction` and `SubsetInduction` of `DataTheorems` say the same of a set of
numbers and a set of finite sets and follow from a well-founded order's having a
minimum.  Sorting is said by ranks (`Sorted` of `Grading`) and not with `SortSeq`, and
filtering with `FoldLeft` and not with `SelectSeq`, because the provers know nothing of
those two.

Only model-checked: the liveness properties `AbandonedIsCleaned`, `PurgeEnds`, `DoomedGo`,
`EveryCallEnds` and `GenerationEnds`.  Liveness under fairness and `ENABLED` are out of the
prover's reach.  The three properties that runs show violated are shown so by their
counterexamples.

## Not modelled

- The text of prompts, tips, mails and pages, most of `prompts.py` and the templates:
  wording.  The memory prompts of `prompts.py` are used by tests only.
- Encryption, hashing, permissions of administrators, the request log: no state that
  another part depends on.  (The permissions a stored administrator gets by default
  do not include `POST`, so its logout is refused: `Logout` of an administrator is
  there for those that have it.)
- Listings, filters and pagination, except the batches of a user's purge.
- The values of profiles, preferences and field declarations.
- The clocks of two web processes, and of the limiter against Redis.
- The words of an OpenAI tip (`coaching_tips_service.py:184-190`): the code cuts them
  to six and checks nothing else of them.  `FallbackWordsAreRead` is about the fallback.
- The interval's being switched off (`OPENAI_MIN_INTERVAL_MS` of 0, `clients.py:38-39`):
  `ThrottleAssumption` takes a positive one.
- Google's answers: a sign-in that Google vouches for is a login or a sign-up.

## Plan

Done, in this order: the session system (the core: most processes, most races),
its abstract specification, the password reset, the account's data, their proofs; the
OpenAI throttle with its abstract specification, the login tokens, the web application,
scripts, recordings and grades; the proofs of every safety property about all of these, the
grading algorithms included.  Next:

1. Stronger statements than the runs ask for: that `fluency` falls with errors of each
   kind, and that a reading with fewer errors has no lower confidence.
2. The safety half of the liveness arguments: what decreases while a purge or a cleanup
   goes on, as action properties.
3. That a session's audio is named by the session, as an invariant with the exceptions
   the code leaves, next to `AudioIsThere`.
