---------------------------- MODULE SessionStore ----------------------------
(***************************************************************************)
(* The operations on the store, each atomic in MongoDB or R2:              *)
(* repositories/session.py, repositories/coaching_tips.py and              *)
(* controller/script_generation/audio.py.                                  *)
(***************************************************************************)
EXTENDS SessionState

----------------------------------------------------------------------------
(* sessions collection *)

Live(s) == status[s] = "live"
\* SessionOut.completed: no user turn without a score.
Completed(s) == scored[s] = Turn

\* The audio URLs a stored session carries.
Urls(s) == {<<s, Script>>} \cup {<<s, t>> : t \in scored[s]}

CreateSession(s) == status' = [status EXCEPT ![s] = "live"]

\* find_one_and_update: the session must still be there.
UpdateSession(s, t) ==
  /\ Live(s)
  /\ scored' = [scored EXCEPT ![s] = @ \cup {t}]

\* delete_one: deleting what is already gone deletes nothing (deleted_count 0).
DeleteSession(s) ==
  status' = [status EXCEPT ![s] = IF Live(s) THEN "gone" ELSE @]

----------------------------------------------------------------------------
(* coaching_tips collection, with its unique index on session and user. *)

HasTip(s) == tips[s] > 0

\* Variant without the unique index.
CreateTipUnindexed(s) == tips' = [tips EXCEPT ![s] = @ + 1]

\* insert_one under uniq_session_user: a second document is a DuplicateKeyError.
CreateTip(s) ==
  tips' = [tips EXCEPT ![s] = IF HasTip(s) THEN @ ELSE @ + 1]

DeleteTip(s) == tips' = [tips EXCEPT ![s] = IF HasTip(s) THEN @ - 1 ELSE @]

----------------------------------------------------------------------------
(* audio bucket *)

PutAudio(k) == bucket' = bucket \cup {k}
DeleteAudio(k) == bucket' = bucket \ {k}
=============================================================================
