----------------------------- MODULE AccountData -----------------------------
(***************************************************************************)
(* What a user owns and how it goes away: services/settings_service.py and *)
(* the account part of services/user_service.py.  A request reads the user *)
(* and writes later, so that it can act on a user that was reset or        *)
(* deleted meanwhile.  Deleting or resetting the account queues one Celery *)
(* task for each kind of data; a failing send is logged and passed over.   *)
(*                                                                         *)
(* One user.  Of the profile the model keeps whether there is one (that is *)
(* what onboardingCompleted says), of a document only its existence; the   *)
(* notification preference is written but its value is left out.  An       *)
(* account deleted here does not come back: a new sign-up gets a new id.   *)
(***************************************************************************)
EXTENDS Naturals

CONSTANTS
  Kind,       \* kinds of data this instance follows
  Row,        \* documents of a kind: ids of sessions and tips, device ids
  Handler,    \* concurrent requests of the user
  Worker,     \* concurrent Celery task slots
  None,       \* no argument
  MaxQueued,  \* bound on the tasks of one kind waiting in the broker
  Faults      \* failures this instance may inject: "broker", "abort"

ASSUME AccountAssumption ==
  /\ Kind \subseteq {"sessions", "tips", "devices"}
  /\ "tips" \in Kind => "sessions" \in Kind
  /\ None \notin Row \cup Kind
  /\ MaxQueued \in Nat \ {0}
  /\ Faults \subseteq {"broker", "abort"}

VARIABLES
  user,      \* "live", or "gone" after delete_one
  profile,   \* userPersonalProfilingData: "none" or "set"
  rows,      \* per kind and id: "unused", "here" or "gone"
  queued,    \* per kind, how many cleanup tasks wait in the broker
  task,      \* per Celery slot, the kind it cleans up, or None
  req,       \* what each request is doing
  doomed,    \* history: per kind, what existed at a reset or deletion
  failed     \* history: a failure was injected

vars == <<user, profile, rows, queued, task, req, doomed, failed>>

Settings == {"updating"}                              \* apply_settings_request
Reset == {"unsetting", "disabling"}                   \* reset_user_profile
Remove == {"deleting", "revoking"}                    \* remove_user
Phase == {"idle", "onboarding", "inserting", "enqueuing"}
         \cup Settings \cup Reset \cup Remove

\* A PATCH of the settings: a device to store, a preference, profile fields.
NoPayload == [device |-> None, prefer |-> FALSE, fields |-> "keep"]
Device == IF "devices" \in Kind THEN Row ELSE {}
Payload == [device : Device \cup {None}, prefer : BOOLEAN,
            fields : {"keep", "change", "clear"}]

\* seen is the profile as the request last read it.
Request == [pc : Phase, kind : Kind \cup {None}, todo : Payload, seen : {"none", "set"}]
NoRequest == [pc |-> "idle", kind |-> None, todo |-> NoPayload, seen |-> "none"]

TypeOK ==
  /\ user \in {"live", "gone"}
  /\ profile \in {"none", "set"}
  /\ rows \in [Kind -> [Row -> {"unused", "here", "gone"}]]
  /\ queued \in [Kind -> 0..MaxQueued]
  /\ task \in [Worker -> Kind \cup {None}]
  /\ req \in [Handler -> Request]
  /\ doomed \in [Kind -> SUBSET Row]
  /\ failed \in BOOLEAN

Init ==
  /\ user = "live" /\ profile = "none"
  /\ rows = [k \in Kind |-> [r \in Row |-> "unused"]]
  /\ queued = [k \in Kind |-> 0]
  /\ task = [w \in Worker |-> None]
  /\ req = [h \in Handler |-> NoRequest]
  /\ doomed = [k \in Kind |-> {}]
  /\ failed = FALSE

At(h, p) == req[h].pc = p
Goto(h, p) == req' = [req EXCEPT ![h].pc = p]
End(h) == req' = [req EXCEPT ![h] = NoRequest]

Live == user = "live"
Here(k) == {r \in Row : rows[k][r] = "here"}
Store(k, r) == rows' = [rows EXCEPT ![k][r] = "here"]

\* Everything of the user that exists now is to go.
Doom == doomed' = [k \in Kind |-> doomed[k] \cup Here(k)]

----------------------------------------------------------------------------
(* Onboarding, and the requests that store a document of a kind            *)

OnboardBegin(h) ==
  /\ At(h, "idle") /\ Live
  /\ Goto(h, "onboarding")
  /\ UNCHANGED <<user, profile, rows, queued, task, doomed, failed>>

\* Variant with upsert=True.
UpdateUserUpserts(p) == user' = "live" /\ profile' = p

\* update_user: find_one_and_update without upsert.  Where the user is gone it
\* changes nothing and raises (UserOut(**None)).
UpdateUser(p) ==
  /\ UNCHANGED user
  /\ IF Live THEN profile' = p ELSE UNCHANGED profile

OnboardWrites(h) ==
  /\ At(h, "onboarding")
  /\ UpdateUser("set")
  /\ End(h)
  /\ UNCHANGED <<rows, queued, task, doomed, failed>>

\* A session needs a profile, a tip needs a session, a device neither.
InsertBegin(h, k) ==
  /\ At(h, "idle") /\ Live
  /\ k = "sessions" => profile = "set"
  /\ k = "tips" => Here("sessions") # {}
  /\ req' = [req EXCEPT ![h].pc = "inserting", ![h].kind = k]
  /\ UNCHANGED <<user, profile, rows, queued, task, doomed, failed>>

\* The document is stored without another look at the user.  Ids of sessions
\* and tips are new; a device is upserted.
InsertEnds(h) ==
  /\ At(h, "inserting")
  /\ \E r \in Row :
       /\ req[h].kind # "devices" => rows[req[h].kind][r] = "unused"
       /\ Store(req[h].kind, r)
  /\ End(h)
  /\ UNCHANGED <<user, profile, queued, task, doomed, failed>>

----------------------------------------------------------------------------
(* PATCH /settings: apply_settings_request                                 *)

SettingsDelete(h) ==
  /\ At(h, "idle") /\ Live
  /\ Goto(h, "deleting")
  /\ UNCHANGED <<user, profile, rows, queued, task, doomed, failed>>

SettingsReset(h) ==
  /\ At(h, "idle") /\ Live
  /\ Goto(h, "unsetting")
  /\ UNCHANGED <<user, profile, rows, queued, task, doomed, failed>>

\* 409 before onboarding is complete.
SettingsUpdate(h, todo) ==
  /\ At(h, "idle") /\ Live /\ profile = "set"
  /\ req' = [req EXCEPT ![h].pc = "updating", ![h].todo = todo, ![h].seen = profile]
  /\ UNCHANGED <<user, profile, rows, queued, task, doomed, failed>>

\* The three parts, in the order of the code.
UpdateDevice(h) ==
  /\ At(h, "updating") /\ req[h].todo.device # None
  /\ Store("devices", req[h].todo.device)
  /\ req' = [req EXCEPT ![h].todo.device = None]
  /\ UNCHANGED <<user, profile, queued, task, doomed, failed>>

\* The answer of the write is the user the next part works on.
UpdatePreference(h) ==
  /\ At(h, "updating")
  /\ req[h].todo.device = None /\ req[h].todo.prefer
  /\ UpdateUser(profile)
  /\ IF Live
     THEN req' = [req EXCEPT ![h].todo.prefer = FALSE, ![h].seen = profile]
     ELSE End(h)
  /\ UNCHANGED <<rows, queued, task, doomed, failed>>

\* _apply_profile_updates: 409 without a profile, a reset when the goals are
\* emptied, otherwise the profile as it was read with the fields changed.
UpdateProfile(h) ==
  /\ At(h, "updating")
  /\ req[h].todo.device = None /\ ~req[h].todo.prefer
  /\ IF req[h].seen = "set" /\ req[h].todo.fields = "change"
     THEN UpdateUser("set")
     ELSE UNCHANGED <<user, profile>>
  /\ IF req[h].seen = "set" /\ req[h].todo.fields = "clear"
     THEN req' = [req EXCEPT ![h].pc = "unsetting", ![h].todo = NoPayload]
     ELSE End(h)
  /\ UNCHANGED <<rows, queued, task, doomed, failed>>

----------------------------------------------------------------------------
(* reset_user_profile and remove_user                                      *)

ResetUnsets(h) ==
  /\ At(h, "unsetting")
  /\ UpdateUser("none")
  /\ IF Live THEN Doom /\ Goto(h, "disabling") ELSE End(h) /\ UNCHANGED doomed
  /\ UNCHANGED <<rows, queued, task, failed>>

\* Variant that leaves the cleanup to the deletion of the account.
ResetDisablesOnly(h) ==
  /\ At(h, "disabling")
  /\ UpdateUser(profile)
  /\ End(h)
  /\ UNCHANGED <<rows, queued, task, doomed, failed>>

ResetDisables(h) ==
  /\ At(h, "disabling")
  /\ UpdateUser(profile)
  /\ IF Live THEN Goto(h, "enqueuing") ELSE End(h)
  /\ UNCHANGED <<rows, queued, task, doomed, failed>>

\* 404 when another request was first.
RemoveUser(h) ==
  /\ At(h, "deleting")
  /\ IF Live
     THEN user' = "gone" /\ Doom /\ Goto(h, "revoking")
     ELSE End(h) /\ UNCHANGED <<user, doomed>>
  /\ UNCHANGED <<profile, rows, queued, task, failed>>

\* delete_all_tokens_with_user_id
RemoveTokens(h) ==
  /\ At(h, "revoking")
  /\ Goto(h, "enqueuing")
  /\ UNCHANGED <<user, profile, rows, queued, task, doomed, failed>>

\* enqueue_user_data_cleanup: one message per kind; a refused one is passed over.
EnqueueCleanup(h) ==
  /\ At(h, "enqueuing")
  /\ \A k \in Kind : queued[k] < MaxQueued
  /\ \E sent \in IF "broker" \in Faults THEN SUBSET Kind ELSE {Kind} :
       /\ queued' = [k \in Kind |-> IF k \in sent THEN queued[k] + 1 ELSE queued[k]]
       /\ failed' = (failed \/ sent # Kind)
  /\ End(h)
  /\ UNCHANGED <<user, profile, rows, task, doomed>>

HandlerAborts(h) ==
  /\ "abort" \in Faults /\ ~At(h, "idle")
  /\ End(h)
  /\ failed' = TRUE
  /\ UNCHANGED <<user, profile, rows, queued, task, doomed>>

----------------------------------------------------------------------------
(* Celery: run_async_task with {"userId": ...}                             *)

\* Variant that takes a message whether or not one waits.
TakeTaskAgain(w, k) ==
  /\ task[w] = None
  /\ task' = [task EXCEPT ![w] = k]
  /\ queued' = [queued EXCEPT ![k] = @ - 1]
  /\ UNCHANGED <<user, profile, rows, req, doomed, failed>>

TakeTask(w, k) ==
  /\ task[w] = None /\ queued[k] > 0
  /\ task' = [task EXCEPT ![w] = k]
  /\ queued' = [queued EXCEPT ![k] = @ - 1]
  /\ UNCHANGED <<user, profile, rows, req, doomed, failed>>

\* Kinds whose function has the parameter userId the message names.
Callable == Kind \ {"devices"}

\* delete_sessions_for_user, delete_coaching_tips_for_user: one document of a
\* listing after the other, until a listing is empty.
PurgeRemoves(w) ==
  /\ task[w] \in Callable
  /\ \E r \in Here(task[w]) : rows' = [rows EXCEPT ![task[w]][r] = "gone"]
  /\ UNCHANGED <<user, profile, queued, task, req, doomed, failed>>

\* Variant that works through one listing only.
PurgeEndsEarly(w) ==
  /\ task[w] \in Callable
  /\ task' = [task EXCEPT ![w] = None]
  /\ UNCHANGED <<user, profile, rows, queued, req, doomed, failed>>

PurgeEnds(w) ==
  /\ task[w] \in Callable
  /\ Here(task[w]) = {}
  /\ task' = [task EXCEPT ![w] = None]
  /\ UNCHANGED <<user, profile, rows, queued, req, doomed, failed>>

\* delete_device_states_for_user takes user_id: the call raises a TypeError.
PurgeRaises(w) ==
  /\ task[w] # None /\ task[w] \notin Callable
  /\ task' = [task EXCEPT ![w] = None]
  /\ UNCHANGED <<user, profile, rows, queued, req, doomed, failed>>

WorkerAborts(w) ==
  /\ "abort" \in Faults /\ task[w] # None
  /\ task' = [task EXCEPT ![w] = None]
  /\ failed' = TRUE
  /\ UNCHANGED <<user, profile, rows, queued, req, doomed>>

----------------------------------------------------------------------------
HandlerBegins(h) ==
  \/ OnboardBegin(h) \/ SettingsDelete(h) \/ SettingsReset(h)
  \/ \E k \in Kind : InsertBegin(h, k)
  \/ \E todo \in Payload \ {NoPayload} : SettingsUpdate(h, todo)

HandlerContinues(h) ==
  \/ OnboardWrites(h) \/ InsertEnds(h)
  \/ UpdateDevice(h) \/ UpdatePreference(h) \/ UpdateProfile(h)
  \/ ResetUnsets(h) \/ ResetDisables(h)
  \/ RemoveUser(h) \/ RemoveTokens(h) \/ EnqueueCleanup(h)

WorkerContinues(w) == PurgeRemoves(w) \/ PurgeEnds(w) \/ PurgeRaises(w)

Next ==
  \/ \E h \in Handler : HandlerBegins(h) \/ HandlerContinues(h) \/ HandlerAborts(h)
  \/ \E w \in Worker : WorkerContinues(w) \/ WorkerAborts(w)
  \/ \E w \in Worker, k \in Kind : TakeTask(w, k)

Spec == Init /\ [][Next]_vars

\* A request that began goes on and a task that was taken runs; the broker is
\* first in, first out, so that a waiting task is taken in the end although
\* others keep the slots busy.
Fairness ==
  /\ \A h \in Handler : WF_vars(HandlerContinues(h))
  /\ \A w \in Worker : WF_vars(WorkerContinues(w))
  /\ \A k \in Kind : SF_vars(\E w \in Worker : TakeTask(w, k))

FairSpec == Spec /\ Fairness

----------------------------------------------------------------------------
(* Properties *)

\* Where nothing failed, a session or tip that existed when the account was
\* reset or deleted is gone, or its cleanup is still to come: a request is about
\* to queue it, it is queued, or it runs.  (A reset overtaken by a deletion
\* raises between its writes and queues nothing; the deletion does.)
CleanupOwed(k) ==
  \/ queued[k] > 0
  \/ \E w \in Worker : task[w] = k
  \/ \E h \in Handler : req[h].pc \in {"revoking", "enqueuing"}
  \/ Live /\ \E h \in Handler : At(h, "disabling")

NothingForgotten ==
  ~failed => \A k \in Callable : doomed[k] \cap Here(k) # {} => CleanupOwed(k)

\* The same as a promise: what a reset or deletion found does go.
DoomedGo ==
  \A k \in Callable, r \in Row :
    (r \in doomed[k]) ~> (failed \/ rows[k][r] = "gone")

\* No request that was under way brings a deleted user back or writes to it.
GoneForGood ==
  [][user = "gone" => user' = "gone" /\ UNCHANGED profile]_vars

\* readme.md: "Account deletion triggers background cleanup of sessions,
\* coaching tips, and notification device state."  So when all is done nothing
\* is left that existed when the account was deleted.
Quiet ==
  /\ \A h \in Handler : At(h, "idle")
  /\ \A w \in Worker : task[w] = None
  /\ \A k \in Kind : queued[k] = 0

DeletionCleansUp ==
  user = "gone" /\ Quiet => \A k \in Kind : doomed[k] \cap Here(k) = {}
=============================================================================
