------------------------------ MODULE Grading ------------------------------
(***************************************************************************)
(* controller/grading: how one recording of a turn is graded.  The text    *)
(* the learner was to read and the transcript of what was heard are        *)
(* sequences of words (text_align.tokenize); the two are aligned word by   *)
(* word, the alignment gives the scores, the mispronounced words and the   *)
(* analysis that is stored with the turn.                                  *)
(*                                                                         *)
(* Ratios are compared by cross-multiplication and leniency is in tenths,  *)
(* so that the arithmetic is exact where Python's is floating point.       *)
(***************************************************************************)
EXTENDS Integers, Sequences, FiniteSets, FiniteSetsExt, SequencesExt

CONSTANTS
  Word,       \* the words of the texts and transcripts
  Spelling    \* the letters of each word

ASSUME WordAssumption ==
  /\ "" \notin Word
  /\ DOMAIN Spelling = Word

\* The members of a finite set, those that precede the others first.
Sorted(S, Precedes(_, _)) ==
  [k \in 1 .. Cardinality(S) |->
     CHOOSE x \in S : Cardinality({y \in S : Precedes(y, x)}) = k - 1]

----------------------------------------------------------------------------
(* text_align *)

\* dp of edit_distance and of align_words: the fewest deletions, insertions
\* and substitutions from the first p[1] members of a to the first p[2] of b.
Distances(a, b) ==
  LET dp[p \in (0 .. Len(a)) \X (0 .. Len(b))] ==
        LET i == p[1]
            j == p[2]
        IN IF i = 0 \/ j = 0 THEN i + j
           ELSE Min({dp[<<i - 1, j>>] + 1, dp[<<i, j - 1>>] + 1,
                     dp[<<i - 1, j - 1>>] + (IF a[i] = b[j] THEN 0 ELSE 1)})
  IN dp

EditDistance == [p \in Word \X Word |->
  LET v == Spelling[p[1]]
      w == Spelling[p[2]]
  IN Distances(v, w)[<<Len(v), Len(w)>>]]

\* normalized_edit_distance(v, w) <= MISPRONOUNCED_THRESHOLD, which is 0.4.
NearMiss(v, w) ==
  10 * EditDistance[<<v, w>>] <= 4 * Max({1, Len(Spelling[v]), Len(Spelling[w])})

Pair(op, v, w) == [op |-> op, expected |-> v, actual |-> w]

\* Variant that pairs the words by their position.
AlignWordsByPosition(expected, actual) ==
  [i \in 1 .. Min({Len(expected), Len(actual)}) |->
     Pair(IF expected[i] = actual[i] THEN "eq" ELSE "sub", expected[i], actual[i])]

\* align_words: of equally cheap operations the back-trace takes a deletion
\* before an insertion before a substitution or a match.
AlignWords(expected, actual) ==
  LET dp == Distances(expected, actual)
      aligned[p \in (0 .. Len(expected)) \X (0 .. Len(actual))] ==
        LET i == p[1]
            j == p[2]
        IN IF i = 0 /\ j = 0 THEN <<>>
           ELSE IF i > 0 /\ dp[p] = dp[<<i - 1, j>>] + 1
             THEN Append(aligned[<<i - 1, j>>], Pair("del", expected[i], ""))
           ELSE IF j > 0 /\ dp[p] = dp[<<i, j - 1>>] + 1
             THEN Append(aligned[<<i, j - 1>>], Pair("ins", "", actual[j]))
           ELSE Append(aligned[<<i - 1, j - 1>>],
                       Pair(IF expected[i] = actual[j] THEN "eq" ELSE "sub",
                            expected[i], actual[j]))
  IN aligned[<<Len(expected), Len(actual)>>]

\* The counters of an AlignmentResult.
Count(alignment, op) == Cardinality({k \in DOMAIN alignment : alignment[k].op = op})

\* Variant that does not count what was left out.
ErrorsHeard(alignment) == Count(alignment, "sub") + Count(alignment, "ins")

Errors(alignment) ==
  Count(alignment, "sub") + Count(alignment, "ins") + Count(alignment, "del")

----------------------------------------------------------------------------
(* scoring *)

FillerWords == {"um", "uh", "uhm", "umm", "erm", "hmm", "like"}

\* "you know" counts once; neither of its words is a filler by itself.
CountFillers(tokens) ==
  Cardinality({i \in DOMAIN tokens : tokens[i] \in FillerWords})
  + Cardinality({i \in DOMAIN tokens :
                   /\ tokens[i] = "you"
                   /\ i < Len(tokens) /\ tokens[i + 1] = "know"})

\* Of the words read as a different word that is spelled alike, each once.
MispronouncedWords(alignment) ==
  FoldLeft(LAMBDA found, p :
             IF p.expected # "" /\ p.actual # "" /\ p.expected # p.actual
                /\ NearMiss(p.expected, p.actual) /\ p.expected \notin Range(found)
             THEN Append(found, p.expected)
             ELSE found,
           <<>>, alignment)

Clamp(value) == Max({0, Min({100, value})})
ClampLeniency(leniency) == Max({5, Min({15, leniency})})

\* Variant that is not clamped.
OutOf100Unclamped(n, d) == (100 * d - n) \div d

\* round(100 - n / d), halves to the even number as Python rounds them.
OutOf100(n, d) ==
  LET value == 100 * d - n
      below == value \div d
      twice == 2 * (value % d)
  IN Clamp(IF twice > d \/ (twice = d /\ below % 2 = 1) THEN below + 1 ELSE below)

\* compute_scores: strictness is 1 / leniency, here 10 / tenths.
ComputeScores(expected, actual, leniency) ==
  LET alignment == AlignWords(expected, actual)
      tenths == ClampLeniency(leniency)
      fillers == CountFillers(actual)
      tokens == Max({1, Len(actual)})
      words == Max({1, Len(expected)})
      wrong == Errors(alignment)
      near == Len(MispronouncedWords(alignment))
  IN [hesitation |-> OutOf100(10 * 140 * fillers, tokens * tenths),
      confidence |-> OutOf100(10 * 110 * wrong, words * tenths),
      fluency |-> OutOf100(10 * (80 * fillers * words
                                 + (120 * near + 40 * wrong) * tokens),
                           tokens * words * tenths)]

----------------------------------------------------------------------------
(* speech_analysis_builder *)

ClassifyOp(v, w) ==
  IF v # "" /\ w # "" THEN IF v = w THEN "match" ELSE "substitute"
  ELSE IF v # "" THEN "delete" ELSE IF w # "" THEN "insert" ELSE "match"

\* The cursors: how many words of that side came before the k-th pair.
ExpectedIdx(alignment, k) == Cardinality({l \in 1 .. k - 1 : alignment[l].expected # ""})
ActualIdx(alignment, k) == Cardinality({l \in 1 .. k - 1 : alignment[l].actual # ""})

AlignedPairs(alignment) ==
  [k \in DOMAIN alignment |->
     [op |-> ClassifyOp(alignment[k].expected, alignment[k].actual),
      expected |-> alignment[k].expected, actual |-> alignment[k].actual,
      expectedIdx |-> ExpectedIdx(alignment, k), actualIdx |-> ActualIdx(alignment, k)]]

\* Variant that reports a near miss each time the word is misread.
ReasonTwice(pairs, k) ==
  CASE pairs[k].op = "insert" -> "insertion"
    [] pairs[k].op = "delete" -> "deletion"
    [] pairs[k].op = "match" -> "exact_match"
    [] OTHER -> IF NearMiss(pairs[k].expected, pairs[k].actual)
                THEN "near_miss" ELSE "too_far_from_expected"

\* Why the k-th pair is reported or ignored.
Reason(pairs, k) ==
  LET Near(l) == /\ pairs[l].op = "substitute"
                 /\ NearMiss(pairs[l].expected, pairs[l].actual)
      seen == \E l \in 1 .. k - 1 : Near(l) /\ pairs[l].expected = pairs[k].expected
  IN CASE pairs[k].op = "insert" -> "insertion"
       [] pairs[k].op = "delete" -> "deletion"
       [] pairs[k].op = "match" -> "exact_match"
       [] OTHER -> IF ~Near(k) THEN "too_far_from_expected"
                   ELSE IF seen THEN "deduped" ELSE "near_miss"

\* The entries for reporting (why = "near_miss") and for ignoring.
Entries(pairs, reported) ==
  FoldLeftDomain(LAMBDA entries, k :
                   IF (Reason(pairs, k) = "near_miss") = reported
                   THEN Append(entries, [why |-> Reason(pairs, k), pair |-> pairs[k]])
                   ELSE entries,
                 <<>>, pairs)

\* The reported entries in the order of the mispronounced words: a stable sort.
InOrderOf(words, entries) ==
  LET Place(i) == SelectInSeq(words, LAMBDA w : w = entries[i].pair.expected)
      order == Sorted(DOMAIN entries, LAMBDA i, j :
                 Place(i) < Place(j) \/ (Place(i) = Place(j) /\ i < j))
  IN [k \in DOMAIN entries |-> entries[order[k]]]

BuildSpeechAnalysis(expected, actual, alignment, words) ==
  LET pairs == AlignedPairs(alignment) IN
  [expectedTokens |-> expected, actualTokens |-> actual,
   pairs |-> pairs,
   mispronounced |-> InOrderOf(words, Entries(pairs, TRUE)),
   ignored |-> Entries(pairs, FALSE),
   substitutions |-> Count(alignment, "sub"),
   insertions |-> Count(alignment, "ins"),
   deletions |-> Count(alignment, "del"),
   correct |-> Max({0, Len(expected) - Count(alignment, "sub")
                                     - Count(alignment, "del")})]
=============================================================================
