---------------------------- MODULE MakerChecker ----------------------------
(***************************************************************************)
(* The review of one tuning candidate: the heuristic checker (M4), the LLM *)
(* checker behind its thresholds, and the arbiter that merges the two with *)
(* the maker's own score.  Scores and confidences are integers, in any     *)
(* unit; flags are the names of the heuristics that fired.                 *)
(***************************************************************************)
EXTENDS Integers

CONSTANTS
    Answers,             \* parsed answers of the LLM: [accept, raw, confidence]
    Failure,             \* the backend raised, or its answer does not parse
    Calibrated,          \* calibration of a raw score
    RejectionThreshold,  \* CheckerConfig.rejection_threshold
    MinConfidence,       \* CheckerConfig.min_confidence
    GapThreshold,        \* ArbiterConfig.maker_checker_gap_threshold
    NoMakerScore         \* the maker's score when no proposal is at hand

Flags == {"low_sample", "regime_imbalance", "bear_sharpe", "fitness_gain_trade_drop"}

ASSUME MakerCheckerAssumption ==
    /\ \A a \in Answers : a.accept \in BOOLEAN /\ a.raw \in Int /\ a.confidence \in Int
    /\ Failure \notin Answers
    /\ \A a \in Answers : Calibrated[a.raw] \in Int
    /\ {RejectionThreshold, MinConfidence, GapThreshold, NoMakerScore} \subseteq Int

\* The heuristics: what the worker did not accept is rejected, any flag makes
\* the rest suspicious.
check_candidate(decision, flags) ==
    IF decision # "accepted" THEN "rejected"
    ELSE IF flags # {} THEN "suspicious" ELSE "promising"

\* The LLM checker fails closed.
verify(answer) ==
    IF answer = Failure THEN [accept |-> FALSE, score |-> 0]
    ELSE LET score == Calibrated[answer.raw] IN
         [accept |-> /\ answer.accept
                     /\ score >= RejectionThreshold
                     /\ answer.confidence >= MinConfidence,
          score |-> score]

Gap(a, b) == IF a >= b THEN a - b ELSE b - a

resolve(m4, llm, maker) ==
    IF m4 = "rejected" \/ ~llm.accept THEN "rejected"
    ELSE IF m4 = "suspicious" \/ Gap(maker, llm.score) > GapThreshold
         THEN "suspicious_to_human"
    ELSE "accepted"

\* The driver's verdict with a Maker-Checker runner attached; the runner has no
\* proposal at hand.
evaluate_candidate(decision, flags, answer) ==
    resolve(check_candidate(decision, flags), verify(answer), NoMakerScore)

-----------------------------------------------------------------------------
(* What the review promises *)

Rank(final) ==
    IF final = "rejected" THEN 0 ELSE IF final = "accepted" THEN 2 ELSE 1

\* An answer that is no more favourable: a failure, a reject, or the same score
\* with less confidence.
NoBetter(a, b) ==
    \/ a = Failure
    \/ a # Failure /\ b # Failure /\ ~a.accept
    \/ /\ a # Failure /\ b # Failure
       /\ a.raw = b.raw /\ a.confidence <= b.confidence /\ (a.accept => b.accept)

\* More red flags, a worse worker decision or a less favourable answer of the
\* LLM checker never improve the verdict.
DoubtNeverHelps ==
    \A d, e \in {"accepted", "rejected", "error"}, f, g \in SUBSET Flags,
       a, b \in Answers \cup {Failure} :
        (d = "accepted" => e = "accepted") /\ g \subseteq f /\ NoBetter(a, b) =>
            Rank(evaluate_candidate(d, f, a)) <= Rank(evaluate_candidate(e, g, b))
=============================================================================
