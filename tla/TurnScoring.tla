---------------------------- MODULE TurnScoring ----------------------------
(***************************************************************************)
(* The user turns of one session and the requests that record them:        *)
(* update_session_by_id reads the session, calculate_turn_score            *)
(* transcribes and grades the recording and uploads it under the turn's    *)
(* key, and update_session writes the result in one $set.  A learner       *)
(* may record a turn again, also while an earlier recording of it is being *)
(* graded, and a request may fail at each of its awaits.                   *)
(*                                                                         *)
(* A coaching tip falls back on practice words collected from all turns    *)
(* (coaching_tips_service).  Whether the session is still there is modelled *)
(* in SessionService.                                                      *)
(***************************************************************************)
EXTENDS Grading

CONSTANTS
  Handler,         \* concurrent requests that record a turn
  Turn,            \* the indexes of the user turns
  Text,            \* the words of each user turn
  Heard,           \* what the transcription may make of a recording of a turn
  Leniency,        \* tenths; update_session_by_id leaves the default of 1.0
  MaxRecordings,   \* bound: how many recordings are made
  Nothing          \* what a turn that was never graded holds

Score == [confidence : 0 .. 100, fluency : 0 .. 100, hesitation : 0 .. 100]

ASSUME ScoringAssumption ==
  /\ Turn \subseteq Nat /\ IsFiniteSet(Turn)
  /\ Text \in [Turn -> Seq(Word)]
  /\ Heard \in [Turn -> SUBSET Seq(Word)]
  /\ MaxRecordings \in Nat
  /\ Leniency \in Int
  /\ Nothing \notin Turn /\ Nothing \notin Score

VARIABLES
  turns,      \* the score, words and analysis stored with each user turn
  object,     \* the recording stored under user-audio/<user>/<session>/turn-<i>
  attempt,    \* what each request is doing
  made,       \* how many recordings were made
  graded,     \* history: the recording the stored analysis is of
  crossed     \* history: the turns where two requests crossed or one failed
              \* between the upload and the update

scoringVars == <<turns, object, attempt, made, graded, crossed>>

Recording == 1 .. MaxRecordings

\* exclude_none: a field that was never written is absent.
Ungraded == [score |-> Nothing, words |-> <<>>, analysis |-> Nothing]

Idle == [pc |-> "idle", turn |-> Nothing, recording |-> 0, heard |-> <<>>]

Attempt == {Idle} \cup [pc : {"transcribing"}, turn : Turn, recording : Recording, heard : {<<>>}]
           \cup UNION {[pc : {"uploading", "updating"}, turn : {t},
                        recording : Recording, heard : Heard[t]] : t \in Turn}

ScoringTypeOK ==
  /\ DOMAIN turns = Turn
  /\ \A t \in Turn :
       /\ turns[t].score \in Score \cup {Nothing}
       /\ turns[t].words \in Seq(Word)
       /\ (turns[t].score = Nothing) = (graded[t] = 0)
  /\ object \in [Turn -> Recording \cup {0}]
  /\ attempt \in [Handler -> Attempt]
  /\ made \in 0 .. MaxRecordings
  /\ graded \in [Turn -> Recording \cup {0}]
  /\ crossed \subseteq Turn

ScoringInit ==
  /\ turns = [t \in Turn |-> Ungraded]
  /\ object = [t \in Turn |-> 0]
  /\ attempt = [h \in Handler |-> Idle]
  /\ made = 0
  /\ graded = [t \in Turn |-> 0]
  /\ crossed = {}

----------------------------------------------------------------------------
(* update_session_by_id and calculate_turn_score *)

Updating(t) == {h \in Handler : attempt[h].pc = "updating" /\ attempt[h].turn = t}

\* The session is read and the index is that of a user turn.
Record(h, t) ==
  /\ attempt[h] = Idle /\ made < MaxRecordings
  /\ made' = made + 1
  /\ attempt' = [attempt EXCEPT ![h] =
       [pc |-> "transcribing", turn |-> t, recording |-> made + 1, heard |-> <<>>]]
  /\ UNCHANGED <<turns, object, graded, crossed>>

\* _run_asr returned a transcript.
Transcribe(h) ==
  /\ attempt[h].pc = "transcribing"
  /\ \E heard \in Heard[attempt[h].turn] :
       attempt' = [attempt EXCEPT ![h].pc = "uploading", ![h].heard = heard]
  /\ UNCHANGED <<turns, object, made, graded, crossed>>

\* Variant that keeps the object that has the key.
UploadOnce(h) ==
  /\ attempt[h].pc = "uploading"
  /\ LET t == attempt[h].turn IN
     /\ object' = [object EXCEPT ![t] = IF @ = 0 THEN attempt[h].recording ELSE @]
     /\ crossed' = IF Updating(t) = {} THEN crossed ELSE crossed \cup {t}
  /\ attempt' = [attempt EXCEPT ![h].pc = "updating"]
  /\ UNCHANGED <<turns, made, graded>>

\* Every recording of a turn has the same key: the upload replaces the object.
Upload(h) ==
  /\ attempt[h].pc = "uploading"
  /\ LET t == attempt[h].turn IN
     /\ object' = [object EXCEPT ![t] = attempt[h].recording]
     /\ crossed' = IF Updating(t) = {} THEN crossed ELSE crossed \cup {t}
  /\ attempt' = [attempt EXCEPT ![h].pc = "updating"]
  /\ UNCHANGED <<turns, made, graded>>

\* `mispronounced_words or None` with exclude_none writes no empty list: the
\* words of an earlier recording stay.
Kept(words, old) == IF words = <<>> THEN old ELSE words

\* What calculate_turn_score makes of a transcript.
Grade(t, heard) ==
  LET alignment == AlignWords(Text[t], heard)
      words == MispronouncedWords(alignment)
  IN [score |-> ComputeScores(Text[t], heard, Leniency), words |-> words,
      analysis |-> BuildSpeechAnalysis(Text[t], heard, alignment, words)]

\* Variant whose score waits for a reading with mispronounced words.
WrittenInParts(t, new) ==
  IF new.words = <<>> THEN [turns[t] EXCEPT !.analysis = new.analysis] ELSE new

Written(t, new) == [new EXCEPT !.words = Kept(@, turns[t].words)]

\* update_session: one find_one_and_update with all fields that are not None.
Update(h) ==
  /\ attempt[h].pc = "updating"
  /\ LET t == attempt[h].turn IN
     /\ turns' = [turns EXCEPT ![t] = Written(t, Grade(t, attempt[h].heard))]
     /\ graded' = [graded EXCEPT ![t] = attempt[h].recording]
  /\ attempt' = [attempt EXCEPT ![h] = Idle]
  /\ UNCHANGED <<object, made, crossed>>

\* No transcript, a failed upload, a failed update, the death of the process:
\* what was uploaded stays.
Abort(h) ==
  /\ attempt[h] # Idle
  /\ crossed' = IF attempt[h].pc = "updating" THEN crossed \cup {attempt[h].turn}
                                              ELSE crossed
  /\ attempt' = [attempt EXCEPT ![h] = Idle]
  /\ UNCHANGED <<turns, object, made, graded>>

ScoringNext == \E h \in Handler :
  \/ \E t \in Turn : Record(h, t)
  \/ Transcribe(h)
  \/ Upload(h)
  \/ Update(h)
  \/ Abort(h)

----------------------------------------------------------------------------
(* coaching_tips_service: the words a tip is about *)

InTurnOrder == Sorted(Turn, <)

\* Counter.most_common(n): the most frequent first, then the first met.
MostCommon(words, n) ==
  LET Times(w) == Cardinality({i \in DOMAIN words : words[i] = w})
      First(w) == SelectInSeq(words, LAMBDA v : v = w)
      ranked == Sorted(Range(words), LAMBDA v, w :
                  Times(v) > Times(w) \/ (Times(v) = Times(w) /\ First(v) < First(w)))
  IN SubSeq(ranked, 1, Min({n, Len(ranked)}))

\* Variant that collects the word that was heard instead.
FarHeard(t) ==
  IF turns[t].analysis = Nothing THEN <<>>
  ELSE FoldLeft(LAMBDA far, d : IF d.why = "too_far_from_expected"
                                THEN Append(far, d.pair.actual) ELSE far,
                <<>>, turns[t].analysis.ignored)

\* The expected words of the substitutions that were too far off.
FarSubstitutions(t) ==
  IF turns[t].analysis = Nothing THEN <<>>
  ELSE FoldLeft(LAMBDA far, d : IF d.why = "too_far_from_expected"
                                THEN Append(far, d.pair.expected) ELSE far,
                <<>>, turns[t].analysis.ignored)

\* What the user turns have, one turn after the other.
OfTurns(words) == FoldLeft(LAMBDA all, t : all \o words[t], <<>>, InTurnOrder)

\* The practice words of a tip that OpenAI did not give (_aggregate_turn_data,
\* _heuristic_tip).  Those it gives are any words, at most six, and not looked at.
HeuristicWords ==
  LET mispronounced == MostCommon(OfTurns([t \in Turn |-> turns[t].words]), 5)
      far == MostCommon(OfTurns([t \in Turn |-> FarSubstitutions(t)]), 5)
      both == mispronounced \o far
  IN SubSeq(both, 1, Min({5, Len(both)}))

----------------------------------------------------------------------------
(* Properties *)

\* What a turn shows is one recording's: however requests for the turn cross
\* and fail, the stored score is the one the stored analysis explains.  The
\* words are the analysis' own, except that a recording with none leaves those
\* of an earlier one, which are words of the same text.
ShowsOneRecording ==
  \A t \in Turn : turns[t].analysis # Nothing =>
    LET shown == turns[t]
        reported == [k \in DOMAIN shown.analysis.mispronounced |->
                       shown.analysis.mispronounced[k].pair.expected]
    IN /\ shown.analysis.expectedTokens = Text[t]
       /\ shown.score = ComputeScores(Text[t], shown.analysis.actualTokens, Leniency)
       /\ IF reported # <<>> THEN shown.words = reported
                             ELSE Range(shown.words) \subseteq Range(Text[t])

\* The audio stored for a turn is the recording its score is of, unless two
\* requests for it crossed between upload and update or one failed there: the
\* one key per turn goes wrong in no other way.
AudioIsScored ==
  \A t \in Turn \ crossed :
    Updating(t) = {} => object[t] = graded[t]

\* When OpenAI gives no tip, the fallback sends the learner to practise words of
\* the script (_heuristic_tip): each was to be read in some turn, also when what
\* was heard was another word or the words are an earlier recording's, and there
\* are at most five.
FallbackWordsAreRead ==
  /\ Range(HeuristicWords) \subseteq UNION {Range(Text[t]) : t \in Turn}
  /\ Len(HeuristicWords) <= 5
=============================================================================
