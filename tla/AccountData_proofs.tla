-------------------------- MODULE AccountData_proofs --------------------------
(***************************************************************************)
(* Proofs about AccountData, for any documents, requests and Celery slots  *)
(* and any failures.  That no doomed document is forgotten is inductive    *)
(* once a document that a reset or deletion found is known not to be an    *)
(* unused one, which a request under way could still store.                *)
(***************************************************************************)
EXTENDS AccountData, TLAPS

\* What a reset or deletion found had been stored before.
DoomedStored == \A k \in Kind : \A r \in doomed[k] : rows[k][r] # "unused"

IInv == TypeOK /\ DoomedStored /\ NothingForgotten

----------------------------------------------------------------------------
(* The actions of Next, one by one                                         *)

HandlerStep(h) ==
  \/ OnboardBegin(h) \/ SettingsDelete(h) \/ SettingsReset(h)
  \/ \E k \in Kind : InsertBegin(h, k)
  \/ \E todo \in Payload \ {NoPayload} : SettingsUpdate(h, todo)
  \/ OnboardWrites(h) \/ InsertEnds(h)
  \/ UpdateDevice(h) \/ UpdatePreference(h) \/ UpdateProfile(h)
  \/ ResetUnsets(h) \/ ResetDisables(h)
  \/ RemoveUser(h) \/ RemoveTokens(h) \/ EnqueueCleanup(h) \/ HandlerAborts(h)

WorkerActs(w) ==
  \/ \E k \in Kind : TakeTask(w, k)
  \/ PurgeRemoves(w) \/ PurgeEnds(w) \/ PurgeRaises(w) \/ WorkerAborts(w)

\* Next is a step of a request or of a Celery slot.
LEMMA NextSplits ==
  ASSUME Next
  PROVE (\E h \in Handler : HandlerStep(h)) \/ (\E w \in Worker : WorkerActs(w))
BY DEF Next, HandlerBegins, HandlerContinues, WorkerContinues, HandlerStep, WorkerActs

\* Types.  A request's record is written field by field.
LEMMA RequestTypes ==
  ASSUME TypeOK, NEW h \in Handler, HandlerStep(h)
  PROVE  req' \in [Handler -> Request]
<1>none. NoPayload \in Payload /\ NoRequest \in Request
  BY DEF NoPayload, NoRequest, Payload, Device, Request, Phase
<1>req. req \in [Handler -> Request] /\ req[h] \in Request /\ profile \in {"none", "set"}
  BY DEF TypeOK
<1>phase. Phase = {"idle", "onboarding", "inserting", "enqueuing", "updating",
                   "unsetting", "disabling", "deleting", "revoking"}
  BY DEF Phase, Settings, Reset, Remove
<1>1. ASSUME NEW p \in Phase, Goto(h, p) PROVE req' \in [Handler -> Request]
  BY <1>req, <1>1 DEF Goto, Request
<1>2. ASSUME End(h) PROVE req' \in [Handler -> Request]
  BY <1>req, <1>none, <1>2 DEF End
<1>3. ASSUME NEW k \in Kind, InsertBegin(h, k) PROVE req' \in [Handler -> Request]
  BY <1>req, <1>phase, <1>3 DEF InsertBegin, Request
<1>4. ASSUME NEW todo \in Payload, SettingsUpdate(h, todo) PROVE req' \in [Handler -> Request]
  BY <1>req, <1>phase, <1>4 DEF SettingsUpdate, Request
<1>5. CASE UpdateDevice(h)
  BY <1>req, <1>5 DEF UpdateDevice, Request, Payload
<1>6. CASE UpdatePreference(h)
  <2>1. CASE Live
    <3> DEFINE todo == [req[h].todo EXCEPT !.prefer = FALSE]
    <3>1. todo \in Payload
      BY <1>req DEF Request, Payload
    <3>2. [[req[h] EXCEPT !.todo = todo] EXCEPT !.seen = profile] \in Request
      BY <1>req, <3>1 DEF Request
    <3>3. req' = [req EXCEPT ![h] = [[req[h] EXCEPT !.todo = todo] EXCEPT !.seen = profile]]
      BY <1>6, <1>req, <2>1 DEF UpdatePreference, Request
    <3> QED
      BY <1>req, <3>2, <3>3
  <2> QED
    BY <1>2, <1>6, <2>1 DEF UpdatePreference
<1>7. CASE UpdateProfile(h)
  BY <1>req, <1>none, <1>phase, <1>2, <1>7 DEF UpdateProfile, Request
<1>8. CASE OnboardBegin(h) \/ SettingsDelete(h) \/ SettingsReset(h) \/ RemoveTokens(h)
  BY <1>1, <1>phase, <1>8 DEF OnboardBegin, SettingsDelete, SettingsReset, RemoveTokens
<1>9. CASE ResetUnsets(h) \/ ResetDisables(h) \/ RemoveUser(h)
  BY <1>1, <1>2, <1>phase, <1>9 DEF ResetUnsets, ResetDisables, RemoveUser
<1>10. CASE OnboardWrites(h) \/ InsertEnds(h) \/ EnqueueCleanup(h) \/ HandlerAborts(h)
  BY <1>2, <1>10 DEF OnboardWrites, InsertEnds, EnqueueCleanup, HandlerAborts
<1> QED
  BY <1>3, <1>4, <1>5, <1>6, <1>7, <1>8, <1>9, <1>10 DEF HandlerStep

LEMMA TypeInductive == TypeOK /\ [Next]_vars => TypeOK'
<1> SUFFICES ASSUME TypeOK, [Next]_vars PROVE TypeOK'
  OBVIOUS
<1>1. CASE UNCHANGED vars
  BY <1>1 DEF vars, TypeOK
<1>2. ASSUME NEW h \in Handler, HandlerStep(h) PROVE TypeOK'
  <2>1. req' \in [Handler -> Request] /\ task' = task
    BY <1>2, RequestTypes
    DEF HandlerStep, OnboardBegin, OnboardWrites, InsertBegin, InsertEnds, SettingsDelete,
        SettingsReset, SettingsUpdate, UpdateDevice, UpdatePreference, UpdateProfile,
        ResetUnsets, ResetDisables, RemoveUser, RemoveTokens, EnqueueCleanup, HandlerAborts
  <2>2. user' \in {"live", "gone"} /\ profile' \in {"none", "set"} /\ failed' \in BOOLEAN
    BY <1>2
    DEF TypeOK, UpdateUser, HandlerStep, OnboardBegin, OnboardWrites, InsertBegin, InsertEnds,
        SettingsDelete, SettingsReset, SettingsUpdate, UpdateDevice, UpdatePreference,
        UpdateProfile, ResetUnsets, ResetDisables, RemoveUser, RemoveTokens, EnqueueCleanup,
        HandlerAborts
  <2>3. rows' \in [Kind -> [Row -> {"unused", "here", "gone"}]]
    <3>1. CASE InsertEnds(h)
      <4> PICK r \in Row : Store(req[h].kind, r)
        BY <3>1 DEF InsertEnds
      <4>1. CASE req[h].kind \in Kind
        BY <4>1 DEF TypeOK, Store
      <4>2. CASE req[h].kind \notin Kind
        BY <4>2 DEF TypeOK, Store
      <4> QED
        BY <4>1, <4>2
    <3>2. CASE UpdateDevice(h)
      BY <3>2 DEF TypeOK, UpdateDevice, Store
    <3> QED
      BY <1>2, <3>1, <3>2
      DEF TypeOK, HandlerStep, OnboardBegin, OnboardWrites, InsertBegin, SettingsDelete,
          SettingsReset, SettingsUpdate, UpdatePreference, UpdateProfile, ResetUnsets,
          ResetDisables, RemoveUser, RemoveTokens, EnqueueCleanup, HandlerAborts
  <2>4. queued' \in [Kind -> 0..MaxQueued]
    <3>1. CASE EnqueueCleanup(h)
      BY <3>1, AccountAssumption DEF TypeOK, EnqueueCleanup
    <3> QED
      BY <1>2, <3>1
      DEF TypeOK, HandlerStep, OnboardBegin, OnboardWrites, InsertBegin, InsertEnds,
          SettingsDelete, SettingsReset, SettingsUpdate, UpdateDevice, UpdatePreference,
          UpdateProfile, ResetUnsets, ResetDisables, RemoveUser, RemoveTokens, HandlerAborts
  <2>5. doomed' \in [Kind -> SUBSET Row]
    <3>1. CASE doomed' = doomed
      BY <3>1 DEF TypeOK
    <3>2. CASE Doom
      BY <3>2 DEF TypeOK, Doom, Here
    <3> QED
      BY <1>2, <3>1, <3>2
      DEF HandlerStep, OnboardBegin, OnboardWrites, InsertBegin, InsertEnds, SettingsDelete,
          SettingsReset, SettingsUpdate, UpdateDevice, UpdatePreference, UpdateProfile,
          ResetUnsets, ResetDisables, RemoveUser, RemoveTokens, EnqueueCleanup, HandlerAborts
  <2> QED
    BY <2>1, <2>2, <2>3, <2>4, <2>5 DEF TypeOK
<1>3. ASSUME NEW w \in Worker, WorkerActs(w) PROVE TypeOK'
  <2>1. ASSUME NEW k \in Kind, TakeTask(w, k) PROVE TypeOK'
    BY <2>1, AccountAssumption DEF TypeOK, TakeTask
  <2>2. CASE PurgeRemoves(w)
    BY <2>2 DEF TypeOK, PurgeRemoves, Callable, Here
  <2>3. CASE PurgeEnds(w) \/ PurgeRaises(w) \/ WorkerAborts(w)
    BY <2>3 DEF TypeOK, PurgeEnds, PurgeRaises, WorkerAborts
  <2> QED
    BY <1>3, <2>1, <2>2, <2>3 DEF WorkerActs
<1> QED
  BY <1>1, <1>2, <1>3, NextSplits

\* Every variable keeps its type, with any failures.
THEOREM TypeCorrect == Spec => []TypeOK
<1>1. NoRequest \in Request
  BY DEF NoRequest, NoPayload, Request, Payload, Device, Phase
<1>2. 0 \in 0..MaxQueued
  BY AccountAssumption
<1>3. Init => TypeOK
  <2> SUFFICES ASSUME Init PROVE TypeOK
    OBVIOUS
  <2>1. queued \in [Kind -> 0..MaxQueued] /\ task \in [Worker -> Kind \cup {None}]
    BY <1>2 DEF Init
  <2>2. rows \in [Kind -> [Row -> {"unused", "here", "gone"}]]
    BY DEF Init
  <2>3. doomed \in [Kind -> SUBSET Row]
    BY DEF Init
  <2> QED
    BY <1>1, <2>1, <2>2, <2>3 DEF Init, TypeOK
<1> QED
  BY <1>3, TypeInductive, PTL DEF Spec

----------------------------------------------------------------------------
(* Doomed documents *)

\* A doomed document stays stored or gone: no step makes a document unused.
LEMMA DoomedStoredInductive == TypeOK /\ DoomedStored /\ [Next]_vars => DoomedStored'
<1> SUFFICES ASSUME TypeOK, DoomedStored, [Next]_vars PROVE DoomedStored'
  OBVIOUS
<1>1. \A k \in Kind, r \in Row : rows[k][r] # "unused" => rows'[k][r] # "unused"
  <2>1. CASE UNCHANGED vars
    BY <2>1 DEF vars
  <2>2. ASSUME NEW h \in Handler, HandlerStep(h)
        PROVE rows' = rows \/ \E k \in Kind \cup {None}, r \in Row : Store(k, r)
    BY <2>2
    DEF TypeOK, Request, Payload, Device, HandlerStep, OnboardBegin, OnboardWrites, InsertBegin, InsertEnds, SettingsDelete,
        SettingsReset, SettingsUpdate, UpdateDevice, UpdatePreference, UpdateProfile,
        ResetUnsets, ResetDisables, RemoveUser, RemoveTokens, EnqueueCleanup, HandlerAborts
  <2>3. ASSUME NEW w \in Worker, WorkerActs(w)
        PROVE rows' = rows \/ \E k \in Kind, r \in Row : rows' = [rows EXCEPT ![k][r] = "gone"]
    BY <2>3
    DEF TypeOK, WorkerActs, TakeTask, PurgeRemoves, PurgeEnds, PurgeRaises, WorkerAborts,
        Callable, Here
  <2>4. ASSUME NEW j \in Kind \cup {None}, NEW q \in Row, NEW v \in {"here", "gone"},
               rows' = [rows EXCEPT ![j][q] = v],
               NEW k \in Kind, NEW r \in Row, rows[k][r] # "unused"
        PROVE  rows'[k][r] # "unused"
    <3>1. rows' = [i \in Kind |-> IF i = j THEN [rows[j] EXCEPT ![q] = v] ELSE rows[i]]
      BY <2>4 DEF TypeOK
    <3>2. CASE j = k
      BY <2>4, <3>1, <3>2 DEF TypeOK
    <3>3. CASE j # k
      BY <2>4, <3>1, <3>3
    <3> QED
      BY <3>2, <3>3
  <2> QED
    BY <2>1, <2>2, <2>3, <2>4, NextSplits DEF Store
<1>2. doomed' = doomed \/ (Doom /\ UNCHANGED rows)
  <2>1. CASE UNCHANGED vars
    BY <2>1 DEF vars
  <2>2. ASSUME NEW h \in Handler, HandlerStep(h) PROVE doomed' = doomed \/ (Doom /\ UNCHANGED rows)
    BY <2>2
    DEF HandlerStep, OnboardBegin, OnboardWrites, InsertBegin, InsertEnds, SettingsDelete,
        SettingsReset, SettingsUpdate, UpdateDevice, UpdatePreference, UpdateProfile,
        ResetUnsets, ResetDisables, RemoveUser, RemoveTokens, EnqueueCleanup, HandlerAborts
  <2>3. ASSUME NEW w \in Worker, WorkerActs(w) PROVE doomed' = doomed
    BY <2>3 DEF WorkerActs, TakeTask, PurgeRemoves, PurgeEnds, PurgeRaises, WorkerAborts
  <2> QED
    BY <2>1, <2>2, <2>3, NextSplits
<1> QED
  BY <1>1, <1>2 DEF TypeOK, DoomedStored, Doom, Here

\* A request keeps the cleanup it owes: it goes from the deletion or reset to
\* the queue, and what it dooms on the way it owes itself.
LEMMA HandlerOwes ==
  ASSUME IInv, NEW h \in Handler, HandlerStep(h)
  PROVE  NothingForgotten'
<1> SUFFICES ASSUME ~failed', NEW k \in Callable, doomed'[k] \cap Here(k)' # {}
             PROVE CleanupOwed(k)'
  BY DEF NothingForgotten
<1>type. TypeOK /\ DoomedStored /\ NothingForgotten /\ k \in Kind /\ k # "devices"
  BY DEF IInv, Callable
<1>1. ~failed /\ UNCHANGED task
  BY <1>type
  DEF TypeOK, HandlerStep, OnboardBegin, OnboardWrites, InsertBegin, InsertEnds, SettingsDelete,
        SettingsReset, SettingsUpdate, UpdateDevice, UpdatePreference, UpdateProfile,
        ResetUnsets, ResetDisables, RemoveUser, RemoveTokens, EnqueueCleanup, HandlerAborts
<1>2. \A g \in Handler \ {h} : req'[g] = req[g]
  BY <1>type
  DEF TypeOK, Goto, End, HandlerStep, OnboardBegin, OnboardWrites, InsertBegin, InsertEnds, SettingsDelete,
        SettingsReset, SettingsUpdate, UpdateDevice, UpdatePreference, UpdateProfile,
        ResetUnsets, ResetDisables, RemoveUser, RemoveTokens, EnqueueCleanup, HandlerAborts
<1>goto. ASSUME NEW p, Goto(h, p) PROVE req'[h].pc = p
  BY <1>goto, <1>type DEF Goto, TypeOK, Request
<1>3. CASE ResetUnsets(h) /\ Live
  BY <1>3, <1>goto DEF ResetUnsets, UpdateUser, CleanupOwed, At, Live
<1>4. CASE RemoveUser(h) /\ Live
  BY <1>4, <1>goto DEF RemoveUser, CleanupOwed
<1>5. CASE EnqueueCleanup(h)
  <2>1. PICK sent \in SUBSET Kind :
          /\ queued' = [j \in Kind |-> IF j \in sent THEN queued[j] + 1 ELSE queued[j]]
          /\ failed' = (failed \/ sent # Kind)
    BY <1>5 DEF EnqueueCleanup
  <2>2. sent = Kind
    BY <2>1, Zenon
  <2>3. queued'[k] = queued[k] + 1 /\ queued[k] \in 0..MaxQueued
    BY <2>1, <2>2, <1>type DEF TypeOK
  <2> QED
    BY <2>3, AccountAssumption DEF CleanupOwed
<1>6. CASE RemoveTokens(h)
  BY <1>6, <1>goto DEF RemoveTokens, CleanupOwed
<1>7. CASE ResetDisables(h) /\ Live
  BY <1>7, <1>goto DEF ResetDisables, CleanupOwed
<1>8. CASE ~Live /\ (ResetUnsets(h) \/ RemoveUser(h) \/ ResetDisables(h))
  BY <1>8, <1>1, <1>2, <1>type
  DEF NothingForgotten, ResetUnsets, RemoveUser, ResetDisables, UpdateUser, CleanupOwed, At,
      Here, Live, End
<1>9. CASE ~(ResetUnsets(h) \/ RemoveUser(h) \/ ResetDisables(h) \/ RemoveTokens(h)
             \/ EnqueueCleanup(h))
  <2>1. UNCHANGED <<user, queued, doomed>>
    BY <1>9, <1>1
    DEF UpdateUser, HandlerStep, OnboardBegin, OnboardWrites, InsertBegin, InsertEnds, SettingsDelete,
        SettingsReset, SettingsUpdate, UpdateDevice, UpdatePreference, UpdateProfile,
        ResetUnsets, ResetDisables, RemoveUser, RemoveTokens, EnqueueCleanup, HandlerAborts
  <2>2. req[h].pc \notin {"disabling", "revoking", "enqueuing"}
    BY <1>9, <1>1
    DEF At, HandlerStep, OnboardBegin, OnboardWrites, InsertBegin, InsertEnds, SettingsDelete,
        SettingsReset, SettingsUpdate, UpdateDevice, UpdatePreference, UpdateProfile,
        ResetUnsets, ResetDisables, RemoveUser, RemoveTokens, EnqueueCleanup, HandlerAborts
  <2>3. doomed[k] \cap Here(k) # {}
    <3>1. PICK r \in doomed'[k] : r \in Row /\ rows'[k][r] = "here"
      BY DEF Here
    <3>2. rows[k][r] # "unused"
      BY <2>1, <3>1, <1>type DEF DoomedStored
    <3>3. rows[k][r] = "here"
      <4>1. CASE InsertEnds(h)
        BY <4>1, <3>1, <3>2, <1>type DEF InsertEnds, Store, TypeOK
      <4>2. CASE UpdateDevice(h)
        BY <4>2, <3>1, <1>type DEF UpdateDevice, Store, TypeOK
      <4>3. CASE UNCHANGED rows
        BY <4>3, <3>1
      <4> QED
        BY <4>1, <4>2, <4>3, <1>9
        DEF HandlerStep, OnboardBegin, OnboardWrites, InsertBegin, InsertEnds, SettingsDelete,
        SettingsReset, SettingsUpdate, UpdateDevice, UpdatePreference, UpdateProfile,
        ResetUnsets, ResetDisables, RemoveUser, RemoveTokens, EnqueueCleanup, HandlerAborts
    <3> QED
      BY <2>1, <3>1, <3>3 DEF Here
  <2>4. CleanupOwed(k)
    BY <1>1, <2>3, <1>type DEF NothingForgotten
  <2> QED
    BY <1>1, <1>2, <2>1, <2>2, <2>4 DEF CleanupOwed, At, Live
<1> QED
  BY <1>3, <1>4, <1>5, <1>6, <1>7, <1>8, <1>9

\* A task is taken with its message and ends on an empty listing.
LEMMA WorkerOwes ==
  ASSUME IInv, NEW w \in Worker, WorkerActs(w)
  PROVE  NothingForgotten'
<1> SUFFICES ASSUME ~failed', NEW k \in Callable, doomed'[k] \cap Here(k)' # {}
             PROVE CleanupOwed(k)'
  BY DEF NothingForgotten
<1>type. TypeOK /\ NothingForgotten /\ k \in Kind /\ k # "devices" /\ k # None
  BY AccountAssumption DEF IInv, Callable
<1>1. UNCHANGED <<user, req, doomed>> /\ ~failed
  BY DEF WorkerActs, TakeTask, PurgeRemoves, PurgeEnds, PurgeRaises, WorkerAborts
<1>2. doomed[k] \cap Here(k) # {}
  <2>1. CASE PurgeRemoves(w)
    <3>1. PICK r \in Row : rows' = [rows EXCEPT ![task[w]][r] = "gone"] /\ task[w] \in Kind
      BY <2>1 DEF PurgeRemoves, Callable, Here
    <3>2. \A q \in Row : rows'[k][q] = "here" => rows[k][q] = "here"
      BY <3>1, <1>type DEF TypeOK
    <3> QED
      BY <1>1, <3>2 DEF Here
  <2>2. CASE UNCHANGED rows
    BY <1>1, <2>2 DEF Here
  <2> QED
    BY <2>1, <2>2 DEF WorkerActs, TakeTask, PurgeEnds, PurgeRaises, WorkerAborts
<1>3. CleanupOwed(k)
  BY <1>1, <1>2, <1>type DEF NothingForgotten
<1>4. ASSUME NEW j \in Kind, TakeTask(w, j) PROVE CleanupOwed(k)'
  BY <1>1, <1>3, <1>4, <1>type, AccountAssumption DEF TakeTask, CleanupOwed, TypeOK, At, Live
<1>5. CASE PurgeRemoves(w)
  BY <1>1, <1>3, <1>5 DEF PurgeRemoves, CleanupOwed, At, Live
<1>6. CASE PurgeEnds(w) \/ PurgeRaises(w)
  <2>1. task[w] # k /\ UNCHANGED queued
    BY <1>1, <1>2, <1>6 DEF PurgeEnds, PurgeRaises
  <2>2. \A v \in Worker \ {w} : task'[v] = task[v]
    BY <1>6, <1>type DEF PurgeEnds, PurgeRaises, TypeOK
  <2> QED
    BY <1>1, <1>3, <2>1, <2>2 DEF CleanupOwed, At, Live
<1> QED
  BY <1>1, <1>4, <1>5, <1>6 DEF WorkerActs, WorkerAborts

LEMMA IInvHolds == Spec => []IInv
<1>1. Init => DoomedStored /\ NothingForgotten
  BY DEF Init, DoomedStored, NothingForgotten, Callable
<1>2. IInv /\ [Next]_vars => NothingForgotten'
  <2> SUFFICES ASSUME IInv, [Next]_vars PROVE NothingForgotten'
    OBVIOUS
  <2>1. CASE UNCHANGED vars
    BY <2>1 DEF IInv, vars, NothingForgotten, CleanupOwed, Here, At, Live
  <2> QED
    BY <2>1, HandlerOwes, WorkerOwes, NextSplits
<1>3. TypeOK /\ DoomedStored /\ NothingForgotten /\ [Next]_vars => NothingForgotten'
  BY <1>2 DEF IInv
<1>4. Spec => [](TypeOK /\ DoomedStored /\ NothingForgotten)
  BY <1>1, <1>3, TypeCorrect, DoomedStoredInductive, PTL DEF Spec
<1> QED
  BY <1>4, PTL DEF IInv

\* Where nothing failed, what a reset or deletion found is gone or its cleanup is
\* still to come.
THEOREM NothingForgottenHolds == Spec => []NothingForgotten
BY IInvHolds, PTL DEF IInv

----------------------------------------------------------------------------
(* A deleted user stays deleted *)

\* Every write to the user that is not the deletion goes through UpdateUser.
THEOREM GoneForGoodHolds == Spec => GoneForGood
<1>1. ASSUME [Next]_vars, user = "gone" PROVE user' = "gone" /\ UNCHANGED profile
  <2>1. CASE UNCHANGED vars
    BY <1>1, <2>1 DEF vars
  <2>2. ASSUME NEW h \in Handler, HandlerStep(h) PROVE user' = "gone" /\ UNCHANGED profile
    BY <1>1, <2>2
    DEF UpdateUser, Live, HandlerStep, OnboardBegin, OnboardWrites, InsertBegin, InsertEnds, SettingsDelete,
        SettingsReset, SettingsUpdate, UpdateDevice, UpdatePreference, UpdateProfile,
        ResetUnsets, ResetDisables, RemoveUser, RemoveTokens, EnqueueCleanup, HandlerAborts
  <2>3. ASSUME NEW w \in Worker, WorkerActs(w) PROVE user' = "gone" /\ UNCHANGED profile
    BY <1>1, <2>3 DEF WorkerActs, TakeTask, PurgeRemoves, PurgeEnds, PurgeRaises, WorkerAborts
  <2> QED
    BY <1>1, <2>1, <2>2, <2>3, NextSplits
<1> QED
  BY <1>1, PTL DEF Spec, GoneForGood

===============================================================================
