------------------------- MODULE MCCandidateSearch --------------------------
(* Instance of CandidateSearch for TLC. *)
EXTENDS CandidateSearch

Blob(n, s, bull, bear, bs) ==
    [trades |-> n, sharpe |-> s, regimes |-> [bull |-> [n |-> bull, sharpe |-> 40],
                                              bear |-> [n |-> bear, sharpe |-> bs]]]
\* No trades, too few, one regime only, exactly 85%, a bad bear market, a loss,
\* a good result, and one without variance.
MCBlobs ==
    {[trades |-> 0, sharpe |-> None, regimes |-> [r \in {} |-> 0]],
     Blob(14, 60, 10, 4, 20), Blob(40, 80, 40, 0, None), Blob(40, 60, 34, 6, 10),
     Blob(40, 30, 20, 20, -150), Blob(15, -20, 10, 5, -30), Blob(40, 90, 22, 18, 30),
     Blob(30, None, 20, 10, None)}

Answer(s, c, r, a, k) ==
    [score |-> s, confidence |-> c, raw |-> r, accept |-> a, components |-> k, flags |-> <<>>, feedback |-> "text"]
MCRawAnswers ==
    {Answer(s, c, r, a, 5) : s \in {2, 7, 11}, c \in {1, 8}, r \in {7, Bad}, a \in {TRUE, FALSE, Bad}}
    \cup {Answer(7, 8, 7, TRUE, 12), Answer(7, 8, 7, TRUE, Bad), Answer(Bad, 8, 7, TRUE, 5),
          [Answer(7, 8, 7, TRUE, 5) EXCEPT !.flags = Bad]}
MCRawProposals ==
    [wellFormed : {TRUE}, cluster : {{"C2"}, {"C2", "C3"}}, field : {"regime_high"}, pct : {10, 60}]
    \cup {[wellFormed |-> FALSE, cluster |-> {"C2"}, field |-> "x", pct |-> 0]}

MCDraws == {-2, 3}
\* The parsed answers are not used here: the review parses RawAnswers.
MCAnswers == [accept : BOOLEAN, raw : {0, 10}, confidence : {0, 10}]
MCCalibrated == [s \in 0..10 |-> s]
=============================================================================
