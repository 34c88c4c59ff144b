--------------------------- MODULE MCStateRoot ------------------------------
(* Instance of StateRoot for TLC. *)
EXTENDS StateRoot, TLC

\* Two objectives tell dominance from incomparability: two incomparable points,
\* and a second outcome of the first experiment, with a missing metric, that
\* the second point dominates.
MCWorst == [o \in Objective |-> 0]
At(s, x, y) == [sha |-> s, metrics |-> ("sharpe" :> x @@ "calmar" :> y)]
MCPoint == {At("a", 2, 1), At("a", Missing, 2), At("c", 1, 3)}

\* Scores in tenths: answers on both sides of every threshold.
MCAnswers == [accept : BOOLEAN, raw : {2, 7, 10}, confidence : {1, 8}]
MCCalibrated == [s \in 0..10 |-> s]

\* Quiet hours that wrap midnight, that do not, and that leave no active hour;
\* a back-off after one or two generations.
Config(s, e, w) == [start |-> s, end |-> e, weekend |-> w, backoff |-> IF w THEN 1 ELSE 2, max |-> 60]
MCConfigs == {Config(23, 7, FALSE), Config(23, 7, TRUE), Config(0, 6, TRUE), Config(9, 9, FALSE)}

\* Every half past of a week, and the full hours around the quiet ones.
MCStarts ==
    {h * Hour + 30 : h \in 0..167} \cup {d * Day + h * Hour : d \in 0..6, h \in {0, 6, 7, 22, 23}}
MCResults == {<<>>, <<1>>, <<2>>, <<1, 2>>}

Symmetry == Permutations(Driver) \cup Permutations(Call) \cup Permutations(Candidate)
=============================================================================
