--------------------------- MODULE SessionService ---------------------------
(***************************************************************************)
(* services/session_service.py and the turn scoring it calls               *)
(* (controller/grading/calculate_turn_score.py): the web requests and the  *)
(* Celery task that create, score and remove sessions.  Each handler runs  *)
(* one operation at a time and stops at every await that reads or writes   *)
(* shared state, so that the handlers interleave there.                    *)
(***************************************************************************)
EXTENDS SessionCleanup

----------------------------------------------------------------------------
(* Steps of a handler *)

At(h, p) == req[h].pc = p
Goto(h, p) == req' = [req EXCEPT ![h].pc = p]

Begin(h, p, s) ==
  /\ At(h, "idle")
  /\ req' = [req EXCEPT ![h].pc = p, ![h].s = s]

End(h) == req' = [req EXCEPT ![h] = NoRequest]

\* remove_session returns, or raises the HTTPException the loop continues on.
Return(h) ==
  req' = [req EXCEPT ![h] =
            IF @.purge
            THEN [NoRequest EXCEPT !.pc = "removing", !.purge = TRUE,
                                      !.todo = req[h].todo \ {req[h].s}]
            ELSE NoRequest]

----------------------------------------------------------------------------
(* add_session *)

\* generate_script has the user's profile and asks OpenAI for a script.
AddBegin(h, s) ==
  /\ status[s] = "unused" /\ <<s, Script>> \notin bucket
  /\ \A g \in Handler : req[g].pc \in Adding => req[g].s # s
  /\ Begin(h, "generating", s)
  /\ UNCHANGED <<storeVars, cleanupVars, practised, tipReq>>

\* generate_script uploads the model audio of all turns (asyncio.gather).
AddVoices(h) ==
  /\ At(h, "generating")
  /\ PutAudio(<<req[h].s, Script>>)
  /\ Goto(h, "inserting")
  /\ UNCHANGED <<status, scored, tips, cleanupVars, practised, tipReq>>

AddInserts(h) ==
  /\ At(h, "inserting")
  /\ CreateSession(req[h].s)
  /\ Goto(h, "scheduling")
  /\ UNCHANGED <<scored, bucket, tips, cleanupVars, practised, tipReq>>

AddSchedules(h) ==
  /\ At(h, "scheduling")
  /\ ScheduleCleanup(req[h].s)
  /\ End(h)
  /\ UNCHANGED <<storeVars, due, picked, lock, queued, task, practised, tipReq>>

----------------------------------------------------------------------------
(* update_session_by_id: the session is read and checked, the recording is *)
(* transcribed and uploaded, and only then is the turn written.            *)

ScoreBegin(h, s, t) ==
  /\ Live(s)
  /\ At(h, "idle")
  /\ req' = [req EXCEPT ![h].pc = "transcribing", ![h].s = s, ![h].t = t]
  /\ UNCHANGED <<storeVars, cleanupVars, practised, tipReq>>

ScoreUploads(h) ==
  /\ At(h, "transcribing")
  /\ PutAudio(<<req[h].s, req[h].t>>)
  /\ Goto(h, "recording")
  /\ UNCHANGED <<status, scored, tips, cleanupVars, practised, tipReq>>

ScoreRecords(h) ==
  /\ At(h, "recording")
  /\ UpdateSession(req[h].s, req[h].t)
  /\ practised' = IF req[h].s \in due["worker"] THEN practised
                                                ELSE practised \cup {req[h].s}
  /\ End(h)
  /\ UNCHANGED <<status, bucket, tips, cleanupVars, tipReq>>

\* find_one_and_update matched nothing: 404, the uploaded recording stays.
ScoreTooLate(h) ==
  /\ At(h, "recording")
  /\ ~Live(req[h].s)
  /\ End(h)
  /\ UNCHANGED <<storeVars, cleanupVars, practised, tipReq>>

----------------------------------------------------------------------------
(* remove_session: get_session, delete_one, then the audio of the session  *)
(* as it was when it was read.                                             *)

\* Variant that deletes the audio before the session.
RemoveBeginAudioFirst(h, s) ==
  /\ Live(s)
  /\ At(h, "idle")
  /\ req' = [req EXCEPT ![h].pc = "unlinking", ![h].s = s, ![h].urls = Urls(s)]
  /\ UNCHANGED <<storeVars, cleanupVars, practised, tipReq>>

RemoveBegin(h, s) ==
  /\ Live(s)
  /\ At(h, "idle")
  /\ req' = [req EXCEPT ![h].pc = "deleting", ![h].s = s, ![h].urls = Urls(s)]
  /\ UNCHANGED <<storeVars, cleanupVars, practised, tipReq>>

RemoveRow(h) ==
  /\ At(h, "deleting")
  /\ DeleteSession(req[h].s)
  /\ IF Live(req[h].s) THEN Goto(h, "unlinking") ELSE Return(h)
  /\ UNCHANGED <<scored, bucket, tips, cleanupVars, practised, tipReq>>

RemoveAudio(h) ==
  /\ At(h, "unlinking")
  /\ \E k \in req[h].urls :
       /\ DeleteAudio(k)
       /\ req' = [req EXCEPT ![h].urls = @ \ {k}]
  /\ UNCHANGED <<status, scored, tips, cleanupVars, practised, tipReq>>

\* All objects are deleted, or deleting one raised, which is passed over.
RemoveEnds(h) ==
  /\ At(h, "unlinking")
  /\ req[h].urls = {} \/ "r2" \in Faults
  /\ Return(h)
  /\ UNCHANGED <<storeVars, cleanupVars, practised, tipReq>>

----------------------------------------------------------------------------
(* delete_sessions_for_user: batches of sessions until none is left. *)

PurgeBegin(h) ==
  /\ At(h, "idle")
  /\ req' = [req EXCEPT ![h].pc = "listing", ![h].purge = TRUE]
  /\ UNCHANGED <<storeVars, cleanupVars, practised, tipReq>>

LiveSessions == {s \in Session : Live(s)}

\* find().limit(batch_size), in no particular order.
Batches ==
  IF Cardinality(LiveSessions) <= BatchSize
  THEN {LiveSessions}
  ELSE {b \in SUBSET LiveSessions : Cardinality(b) = BatchSize}

PurgeLists(h) ==
  /\ At(h, "listing")
  /\ \E batch \in Batches :
       IF batch = {} THEN End(h)
       ELSE req' = [req EXCEPT ![h].pc = "removing", ![h].todo = batch]
  /\ UNCHANGED <<storeVars, cleanupVars, practised, tipReq>>

\* Variant whose remove_session raises an HTTPException for a session that
\* is there.
PurgeRemovesNothing(h) ==
  /\ At(h, "removing")
  /\ \E s \in req[h].todo : req' = [req EXCEPT ![h].todo = @ \ {s}]
  /\ UNCHANGED <<storeVars, cleanupVars, practised, tipReq>>

\* The loop calls remove_session on the next session of the batch.
PurgeRemoves(h) ==
  /\ At(h, "removing")
  /\ \E s \in req[h].todo :
       \/ /\ Live(s)
          /\ req' = [req EXCEPT ![h].pc = "deleting", ![h].s = s, ![h].urls = Urls(s)]
       \/ /\ ~Live(s) \/ "mongo" \in Faults
          /\ req' = [req EXCEPT ![h].todo = @ \ {s}]
  /\ UNCHANGED <<storeVars, cleanupVars, practised, tipReq>>

PurgeRepeats(h) ==
  /\ At(h, "removing")
  /\ req[h].todo = {}
  /\ Goto(h, "listing")
  /\ UNCHANGED <<storeVars, cleanupVars, practised, tipReq>>

----------------------------------------------------------------------------
\* An exception (OpenAI, R2, MongoDB, the job store) or the death of the
\* process ends the handler where it stands; nothing it did is undone.
\* create_session reads back what it inserted: deleted by then, it raises.
HandlerAborts(h) ==
  /\ \/ "abort" \in Faults
     \/ At(h, "scheduling") /\ ~Live(req[h].s)
  /\ ~At(h, "idle")
  /\ End(h)
  /\ UNCHANGED <<storeVars, cleanupVars, practised, tipReq>>
=============================================================================
