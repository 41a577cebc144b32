------------------------- MODULE PracticeRecording -------------------------
(***************************************************************************)
(* A session from the script it is made of to the recordings of its turns: *)
(* add_session generates and stores the script, and only then can          *)
(* update_session_by_id find the session and grade recordings of its user  *)
(* turns.  What the grading takes for granted of the script - its user     *)
(* turns, where they are, the audio to listen to - is what the generation  *)
(* has to leave behind.                                                    *)
(***************************************************************************)
EXTENDS ScriptGeneration, TurnScoring

\* The user turns of a script; the code counts them from 0.
UserTurns == {i - 1 : i \in {j \in DOMAIN script : script[j] = "user"}}

ASSUME TurnsAssumption == Turn = {i - 1 : i \in {j \in 1 .. Target : RoleAt(j) = "user"}}

vars == <<generationVars, scoringVars>>

Init == GenerationInit /\ ScoringInit

Next ==
  \/ Generate /\ UNCHANGED scoringVars
  \/ stage = "stored" /\ ScoringNext /\ UNCHANGED generationVars

Spec == Init /\ [][Next]_vars /\ GenerationFairness

----------------------------------------------------------------------------
(* Properties *)

\* The type of every variable; a score is between 0 and 100, and the audio
\* semaphore has what the tasks that speak have left of it.
TypeOK == GenerationTypeOK /\ ScoringTypeOK

\* Whatever OpenAI answers, a stored script has exactly the planned number of
\* turns, begins and ends with the coach and alternates; its user turns are
\* those that recordings are graded for, and every turn has its audio.
ScriptIsPlayable ==
  stage = "stored" =>
    /\ Len(script) = Target
    /\ IsStrictlyAlternating(script) /\ script[Target] = "ai"
    /\ UserTurns = Turn
    /\ \A i \in DOMAIN script : voice[i] = "done"

\* The request is answered and all its tasks end, whichever of them fail: a
\* failed task gives the audio semaphore back to those that wait (build_turn,
\* gather).  Unless somebody meets the quota before (_wait_for_quota): from then
\* on nothing is promised, as for every caller of the throttle.
GenerationEnds ==
  <>[](\/ quotaMet
       \/ /\ stage \in {"stored", "failed"}
          /\ \A i \in DOMAIN voice : voice[i] \in {"done", "failed"})
=============================================================================
