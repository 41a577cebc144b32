CONSTANTS
  Target = 5
  MaxReply = 7
  AudioConcurrency = 2
  Unparsable = Unparsable
  Word = {"ship", "sheep", "like", "you", "know"}
  Spelling <- MCSpelling
  Texts <- MCTexts
  Leniencies = {5, 10, 15}
  Handler = {h1, h2}
  Turn = {1, 3}
  Text <- MCText
  Heard <- MCHeard
  Leniency = 10
  MaxRecordings = 3
  Nothing = Nothing
SPECIFICATION Spec
INVARIANTS TypeOK ScriptIsPlayable ShowsOneRecording AudioIsScored
  FallbackWordsAreRead AlignmentIsCheapest AnalysisAgrees ScoresFollowErrors
PROPERTIES GenerationEnds
CHECK_DEADLOCK FALSE
