-------------------------- MODULE GradingReference --------------------------
(***************************************************************************)
(* What the grading algorithms compute, said without the algorithms.  They *)
(* keep no state: they are compared over all pairs of texts of an instance *)
(* in the states where nothing was asked for yet.                          *)
(***************************************************************************)
EXTENDS PracticeRecording

CONSTANTS
  Texts,        \* the texts and transcripts the algorithms are compared on
  Leniencies    \* the leniencies, in tenths, the scores are compared on

ASSUME TextsAssumption ==
  /\ Texts \subseteq Seq(Word) /\ IsFiniteSet(Texts)
  /\ Leniencies \subseteq Nat

NothingYet == stage = "asking" /\ ~quotaMet

\* The ways to match the first m words read with the first n words heard
\* that keep both in order.
InOrder(M) ==
  \A p, q \in M : p # q => (p[1] < q[1] /\ p[2] < q[2]) \/ (p[1] > q[1] /\ p[2] > q[2])

MaxLength == Max({Len(t) : t \in Texts} \cup {0})

Matchings == [p \in (0 .. MaxLength) \X (0 .. MaxLength) |->
                {M \in SUBSET ((1 .. p[1]) \X (1 .. p[2])) : InOrder(M)}]

\* What is unmatched was left out or put in; what is matched and differs was
\* substituted.
CostOf(M, expected, actual) ==
  Len(expected) + Len(actual) - 2 * Cardinality(M)
  + Cardinality({p \in M : expected[p[1]] # actual[p[2]]})

\* The words of one side of an alignment.
Side(alignment, field) ==
  FoldLeft(LAMBDA words, p : IF p[field] = "" THEN words ELSE Append(words, p[field]),
           <<>>, alignment)

\* align_words returns an alignment of the two texts, every word of both once
\* and in order, and no way of matching them has fewer errors: the word error
\* rate and the confidence come from the true edit distance.
AlignmentIsCheapest ==
  NothingYet => \A e, a \in Texts :
    LET alignment == AlignWords(e, a) IN
    /\ Side(alignment, "expected") = e
    /\ Side(alignment, "actual") = a
    /\ Errors(alignment) = Min({CostOf(M, e, a) : M \in Matchings[<<Len(e), Len(a)>>]})

\* The analysis of two texts reports the same words as the scores in the same
\* order, accounts for every pair once, places every pair at the word it is
\* about, and its correct words are the matches.
Explains(e, a) ==
  LET alignment == AlignWords(e, a)
      words == MispronouncedWords(alignment)
      analysis == BuildSpeechAnalysis(e, a, alignment, words)
      OpCount(op) == Cardinality({k \in DOMAIN analysis.pairs : analysis.pairs[k].op = op})
  IN /\ [k \in DOMAIN analysis.mispronounced |->
           analysis.mispronounced[k].pair.expected] = words
     /\ Len(analysis.mispronounced) + Len(analysis.ignored) = Len(analysis.pairs)
     /\ \A p \in Range(analysis.pairs) :
          /\ p.op # "insert" => e[p.expectedIdx + 1] = p.expected
          /\ p.op # "delete" => a[p.actualIdx + 1] = p.actual
     /\ analysis.correct = OpCount("match")
     /\ analysis.substitutions = OpCount("substitute")
     /\ analysis.insertions = OpCount("insert")
     /\ analysis.deletions = OpCount("delete")

\* build_speech_analysis decides by loops of its own what compute_scores
\* counted: the analysis stored beside the scores explains them.
AnalysisAgrees == NothingYet => \A e, a \in Texts : Explains(e, a)

\* Reading the text with no filler word scores 100 in everything.
PerfectReading(e, a, l) ==
  a = e /\ CountFillers(a) = 0 =>
    ComputeScores(e, a, l) = [confidence |-> 100, fluency |-> 100, hesitation |-> 100]

\* A confidence or a hesitation of 100 means that nothing was misread or that
\* no filler was heard, in texts so short that one of them costs half a point.
PerfectScore(e, a, l) ==
  LET scores == ComputeScores(e, a, l)
      tenths == ClampLeniency(l)
  IN /\ scores.confidence = 100 /\ Len(e) * tenths < 2200 => a = e
     /\ scores.hesitation = 100 /\ Len(a) * tenths < 2800 => CountFillers(a) = 0

\* Another filler word raises no hesitation score.
FillersCost(e, a, l) ==
  \A f \in FillerWords \cap Word :
    ComputeScores(e, Append(a, f), l).hesitation <= ComputeScores(e, a, l).hesitation

\* More leniency lowers no score.
LeniencyHelps(e, a, l) ==
  LET scores == ComputeScores(e, a, l) IN
  \A l2 \in Leniencies : l <= l2 =>
    LET lenient == ComputeScores(e, a, l2) IN
    \A field \in DOMAIN scores : scores[field] <= lenient[field]

\* The scores follow the errors (compute_scores).
ScoresFollowErrors ==
  NothingYet => \A e, a \in Texts : \A l \in Leniencies :
    /\ PerfectReading(e, a, l)
    /\ PerfectScore(e, a, l)
    /\ FillersCost(e, a, l)
    /\ LeniencyHelps(e, a, l)
=============================================================================
