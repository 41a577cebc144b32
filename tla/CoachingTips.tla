---------------------------- MODULE CoachingTips ----------------------------
(***************************************************************************)
(* services/coaching_tips_service.py: a tip is generated at most once for  *)
(* a session, and only for a session whose user turns are all recorded and *)
(* scored.  The checks and the insert are separated by a call to OpenAI    *)
(* (answered by a heuristic when it fails), so several requests for the    *)
(* same session can all pass the checks.                                   *)
(***************************************************************************)
EXTENDS SessionStore

TipEnds(a) == tipReq' = [tipReq EXCEPT ![a] = NoTipRequest]

\* get_coaching_tip_by_session found nothing: go on and read the session.
TipBegin(a, s) ==
  /\ tipReq[a] = NoTipRequest
  /\ status[s] # "unused" /\ ~HasTip(s)
  /\ tipReq' = [tipReq EXCEPT ![a] = [pc |-> "checking", s |-> s]]
  /\ UNCHANGED <<storeVars, cleanupVars, serviceVars>>

Complete(s) == Live(s) /\ Completed(s)

\* The session is there and complete: ask OpenAI for the tip.
TipChecks(a) ==
  /\ tipReq[a].pc = "checking"
  /\ Complete(tipReq[a].s)
  /\ tipReq' = [tipReq EXCEPT ![a].pc = "advising"]
  /\ UNCHANGED <<storeVars, cleanupVars, serviceVars>>

\* 404 without the session, 400 while a user turn is unscored.
TipRefused(a) ==
  /\ tipReq[a].pc = "checking"
  /\ ~Complete(tipReq[a].s)
  /\ TipEnds(a)
  /\ UNCHANGED <<storeVars, cleanupVars, serviceVars>>

\* A duplicate key means that another request was first: its tip is returned.
TipInserts(a) ==
  /\ tipReq[a].pc = "advising"
  /\ CreateTip(tipReq[a].s)
  /\ TipEnds(a)
  /\ UNCHANGED <<status, scored, bucket, cleanupVars, serviceVars>>

\* delete_coaching_tips_for_user lists the user's tips and deletes them one by
\* one until a listing is empty.
TipPurgeBegin(a) ==
  /\ tipReq[a] = NoTipRequest
  /\ tipReq' = [tipReq EXCEPT ![a].pc = "purging"]
  /\ UNCHANGED <<storeVars, cleanupVars, serviceVars>>

TipPurgeDeletes(a) ==
  /\ tipReq[a].pc = "purging"
  /\ \E s \in Session : HasTip(s) /\ DeleteTip(s)
  /\ UNCHANGED <<status, scored, bucket, cleanupVars, serviceVars, tipReq>>

TipPurgeEnds(a) ==
  /\ tipReq[a].pc = "purging"
  /\ \A s \in Session : ~HasTip(s)
  /\ TipEnds(a)
  /\ UNCHANGED <<storeVars, cleanupVars, serviceVars>>

\* An exception or the death of the process.
TipAborts(a) ==
  /\ "abort" \in Faults /\ tipReq[a] # NoTipRequest
  /\ TipEnds(a)
  /\ UNCHANGED <<storeVars, cleanupVars, serviceVars>>
=============================================================================
