--------------------------- MODULE MCTurnGrading ---------------------------
(***************************************************************************)
(* A script of five turns, the fewest a plan may have, up to three         *)
(* recordings of its user turns, and the grading algorithms compared with  *)
(* their reference.  The edit distance of ship and sheep is 2/5, exactly   *)
(* the threshold of a near miss; like is a filler word.                    *)
(***************************************************************************)
EXTENDS GradingReference

MCSpelling ==
  [ship |-> <<"s", "h", "i", "p">>, sheep |-> <<"s", "h", "e", "e", "p">>,
   like |-> <<"l", "i", "k", "e">>, you |-> <<"y", "o", "u">>,
   know |-> <<"k", "n", "o", "w">>]

MCTexts == BoundedSeq({"ship", "sheep", "like"}, 3)
           \cup BoundedSeq({"ship", "you", "know"}, 2)

MCText == 1 :> <<"ship", "know">> @@ 3 :> <<"ship", "ship">>

\* Read well, a near miss, a word too far off, a repeated near miss, a filler.
MCHeard == 1 :> {<<"ship", "know">>, <<"sheep", "know">>, <<"like", "you">>}
           @@ 3 :> {<<"ship", "ship">>, <<"sheep", "like", "sheep">>, <<>>}
=============================================================================
