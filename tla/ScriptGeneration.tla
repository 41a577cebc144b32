-------------------------- MODULE ScriptGeneration --------------------------
(***************************************************************************)
(* controller/script_generation: one call of generate_script, made by      *)
(* add_session.  The model is asked for a script of target_turns turns,    *)
(* its answer is parsed, trimmed and checked, and every turn is            *)
(* synthesised and uploaded by a task of its own.  asyncio.gather answers  *)
(* at the first failure and does not cancel the tasks that remain.         *)
(*                                                                         *)
(* Of a turn of the answer the model keeps its role, or that its text is   *)
(* blank.  The calls to OpenAI are paced, counted and retried as           *)
(* OpenAIThrottle describes.  Here a call is answered or fails, until a    *)
(* caller of the process meets the quota: that one waits for itself, and   *)
(* whether a later answer comes depends on how far its call had got.       *)
(***************************************************************************)
EXTENDS Integers, Sequences, FiniteSets

CONSTANTS
  Target,             \* target_turns
  MaxReply,           \* bound: the turns an answer may have
  AudioConcurrency,   \* AUDIO_GEN_CONCURRENCY
  Unparsable          \* an answer that is not the JSON asked for

----------------------------------------------------------------------------
(* prompts.py: the turn plan *)

PracticeMinutes == {5, 10, 12, 15, 20}

\* turn_count_for_time: another time counts as five minutes.
TurnCount(minutes) ==
  CASE minutes = 5 -> 11 [] minutes = 10 -> 21 [] minutes = 12 -> 25
    [] minutes = 15 -> 31 [] minutes = 20 -> 41 [] OTHER -> 11

\* assert_turn_plan raises unless the recap has its place at the end.
TurnPlan(turns) == turns >= 5 /\ turns % 2 = 1

ASSUME GenerationAssumption ==
  /\ Target \in Nat /\ TurnPlan(Target)
  /\ MaxReply \in Nat
  /\ AudioConcurrency \in Nat \ {0}

----------------------------------------------------------------------------
(* parsing.py and validate_or_raise.  The code counts turns from 0: turn i *)
(* is the member i + 1 of a sequence.                                      *)

\* parse_turns refuses a blank text anywhere in the answer.
Parses(reply) == reply # Unparsable /\ \A i \in DOMAIN reply : reply[i] # "blank"

RoleAt(i) == IF i % 2 = 1 THEN "ai" ELSE "user"

IsStrictlyAlternating(turns) ==
  turns # <<>> /\ \A i \in DOMAIN turns : turns[i] = RoleAt(i)

\* trim_turns: the first turns of a long answer, without a last user turn.
TrimTurns(turns) ==
  IF Len(turns) <= Target THEN turns
  ELSE IF turns[Target] = "ai" THEN SubSeq(turns, 1, Target)
  ELSE SubSeq(turns, 1, Target - 1)

\* Variant without the check of the length.
ValidAtAnyLength(reply) ==
  /\ Parses(reply)
  /\ IsStrictlyAlternating(TrimTurns(reply))

Valid(reply) ==
  /\ Parses(reply)
  /\ LET turns == TrimTurns(reply) IN
     /\ Len(turns) >= Target
     /\ IsStrictlyAlternating(turns)
     /\ turns[Len(turns)] = "ai"

----------------------------------------------------------------------------
VARIABLES
  stage,     \* of the request: "asking", "voicing", "stored" or "failed"
  script,    \* the roles of the accepted turns
  voice,     \* of each turn: "waiting" for the semaphore, "speaking", "held", "done", "failed"
  permits,   \* what the audio semaphore has left
  quotaMet   \* somebody met the quota, and keeps its lock and an OpenAI slot

generationVars == <<stage, script, voice, permits, quotaMet>>

VoiceState == {"waiting", "speaking", "held", "done", "failed"}

\* The turns that have the audio semaphore.
Speaking == {i \in DOMAIN voice : voice[i] \in {"speaking", "held"}}

Role == {"ai", "user"}
Item == Role \cup {"blank"}

\* What OpenAI may answer.
Reply == (UNION {[1 .. n -> Item] : n \in 0 .. MaxReply}) \cup {Unparsable}

GenerationTypeOK ==
  /\ stage \in {"asking", "voicing", "stored", "failed"}
  /\ script \in Seq(Role)
  /\ voice \in [DOMAIN script -> VoiceState]
  /\ permits \in 0 .. AudioConcurrency
  /\ permits = AudioConcurrency - Cardinality(Speaking)
  /\ quotaMet \in BOOLEAN

GenerationInit ==
  /\ stage = "asking"
  /\ script = <<>>
  /\ voice = <<>>
  /\ permits = AudioConcurrency
  /\ quotaMet = FALSE

\* request_script and validate_or_raise; the turn tasks are started together.
Accept(reply) ==
  /\ stage = "asking"
  /\ Valid(reply)
  /\ script' = TrimTurns(reply)
  /\ voice' = [i \in DOMAIN script' |-> "waiting"]
  /\ stage' = "voicing"
  /\ UNCHANGED <<permits, quotaMet>>

Reject(reply) ==
  /\ stage = "asking"
  /\ ~Valid(reply)
  /\ stage' = "failed"
  /\ UNCHANGED <<script, voice, permits, quotaMet>>

\* The request raises; unlike the synthesis it is not retried.
AskFails ==
  /\ stage = "asking"
  /\ stage' = "failed"
  /\ UNCHANGED <<script, voice, permits, quotaMet>>

\* build_turn: the semaphore is taken ...
Speak(i) ==
  /\ voice[i] = "waiting" /\ permits > 0
  /\ voice' = [voice EXCEPT ![i] = "speaking"]
  /\ permits' = permits - 1
  /\ UNCHANGED <<stage, script, quotaMet>>

\* ... the text is synthesised and its audio uploaded under a new key ...
Voiced(i) ==
  /\ voice[i] = "speaking"
  /\ voice' = [voice EXCEPT ![i] = "done"]
  /\ permits' = permits + 1
  /\ UNCHANGED <<stage, script, quotaMet>>

\* Variant whose failed task keeps the semaphore.
VoiceFailsHolding(i) ==
  /\ voice[i] = "speaking"
  /\ voice' = [voice EXCEPT ![i] = "failed"]
  /\ stage' = "failed"
  /\ UNCHANGED <<script, permits, quotaMet>>

\* ... or raises, which ends the request and none of the other tasks.
VoiceFails(i) ==
  /\ voice[i] = "speaking"
  /\ voice' = [voice EXCEPT ![i] = "failed"]
  /\ permits' = permits + 1
  /\ stage' = "failed"
  /\ UNCHANGED <<script, quotaMet>>

\* The synthesis meets the quota: _wait_for_quota awaits the lock it holds, so
\* the task never ends and never gives the semaphore back.
MeetQuota(i) ==
  /\ voice[i] = "speaking" /\ ~quotaMet
  /\ voice' = [voice EXCEPT ![i] = "held"]
  /\ quotaMet' = TRUE
  /\ UNCHANGED <<stage, script, permits>>

\* Another caller of the process meets it: a transcription, a tip, another
\* script.  Of no account to a script that is stored.
OtherMeetsQuota ==
  /\ stage # "stored" /\ ~quotaMet
  /\ quotaMet' = TRUE
  /\ UNCHANGED <<stage, script, voice, permits>>

\* gather returns the turns in their order and add_session stores the script.
Store ==
  /\ stage = "voicing"
  /\ \A i \in DOMAIN voice : voice[i] = "done"
  /\ stage' = "stored"
  /\ UNCHANGED <<script, voice, permits, quotaMet>>

Generate ==
  \/ \E reply \in Reply : Accept(reply) \/ Reject(reply)
  \/ AskFails
  \/ \E i \in DOMAIN voice : Speak(i) \/ Voiced(i) \/ VoiceFails(i) \/ MeetQuota(i)
  \/ OtherMeetsQuota
  \/ Store

\* The event loop runs every task.  A call to OpenAI ends, if only by the
\* client's timeout, as long as nobody has met the quota: then a synthesis waits
\* for the window's lock (_wait_for_quota), and a script request for the slot
\* of the caller that has it (openai_request_with_retries, request_script).
GenerationFairness ==
  /\ WF_generationVars(/\ ~quotaMet
                       /\ AskFails \/ \E reply \in Reply : Accept(reply) \/ Reject(reply))
  /\ \A i \in 1 .. Target :
       /\ WF_generationVars(i \in DOMAIN voice /\ Speak(i))
       /\ WF_generationVars(~quotaMet /\ i \in DOMAIN voice /\ (Voiced(i) \/ VoiceFails(i)))
  /\ WF_generationVars(Store)
=============================================================================
