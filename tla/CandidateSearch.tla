-------------------------- MODULE CandidateSearch ---------------------------
(***************************************************************************)
(* The tools around the tuning driver.                                     *)
(*                                                                         *)
(* How a new set of tuning constants is made from an old one: the mutators *)
(* of app/loop/mutation.py, the sensitivity scan that sets their step      *)
(* sizes, the candidates of a search or baseline generation, and the       *)
(* proposals of the Maker.  A random draw is a number of standard          *)
(* deviations out of the set Draws.                                        *)
(*                                                                         *)
(* What happens to a candidate's results after the backtest: the worker's  *)
(* trade-count floor, the heuristics over the metrics, the LLM checker     *)
(* behind its isolation and parsing, the quarters of a walk-forward run    *)
(* and the out-of-sample validation.  Sharpe ratios are in hundredths,     *)
(* scores in tenths.                                                       *)
(*                                                                         *)
(* The tools as processes that share the state root: the search writes     *)
(* next_generation.json, in place, and the driver reads it and runs its    *)
(* candidates; a generation may start from a child of the one before.      *)
(***************************************************************************)
EXTENDS SignalMath, MakerChecker

CONSTANTS
    Draws,       \* the draws of rng.gauss, in standard deviations
    Deltas,      \* bound: the fitness differences a scan measures, in thousandths
    Trials       \* bound: which clusters are explored

Scalar(name, kind, lo, hi) == [name |-> name, kind |-> kind, lo |-> lo, hi |-> hi]

\* DEFAULT_CLUSTER_MAP, one or more fields of every kind and every constraint;
\* ratios are in thousandths.
ClusterMap ==
    [C1 |-> <<Scalar("atr_prz_sweep", "abs_small", 50, 1000),
              Scalar("atr_stop_buffer", "dict_per_key", 100, 2000)>>,
     C2 |-> <<Scalar("max_d_age_bars", "int_threshold", 5, 60),
              Scalar("authenticity_halve", "int_threshold", 30, 70),
              Scalar("authenticity_veto", "int_threshold", 10, 40),
              Scalar("regime_moderate", "int_threshold", 20, 50),
              Scalar("regime_high", "int_threshold", 40, 80)>>,
     C3 |-> <<Scalar("a_grade_min", "int_threshold", 50, 90),
              Scalar("confluence_weights", "dict_per_key", -50, 200),
              Scalar("stability_window", "int_threshold", 3, 15)>>,
     C4 |-> <<Scalar("trending_inverse", "abs_small", 300, 900),
              Scalar("ranging_aligned", "abs_small", 800, 1500),
              Scalar("extreme_inverse", "abs_small", 900, 1500),
              Scalar("min_daily_bars", "int_window", 100, 400)>>,
     C5 |-> <<Scalar("atr_window", "int_window", 5, 50),
              Scalar("atr_long_window", "int_window", 50, 200)>>]
Clusters == DOMAIN ClusterMap \cap Trials
Members(c) == Range(ClusterMap[c])
KeyBounds(k) == CASE k = "conservative" -> [lo |-> 500, hi |-> 2000]
                  [] k = "standard" -> [lo |-> 200, hi |-> 500]
                  [] k = "aggressive" -> [lo |-> 100, hi |-> 400]
                  [] OTHER -> [lo |-> -50, hi |-> 200]

\* getattr and dataclasses.replace; the macro multipliers are one record here.
Get(t, name) == IF name \in DOMAIN t.mult THEN t.mult[name] ELSE t[name]
Put(t, name, v) == IF name \in DOMAIN t.mult THEN [t EXCEPT !.mult[name] = v]
                   ELSE [t EXCEPT ![name] = v]

\* One standard deviation at sigma_scale 1, in the unit of the field.
Sigma(m) == CASE m.name = "atr_stop_buffer" -> 200
              [] m.name = "confluence_weights" -> 5
              [] m.kind = "abs_small" -> 50
              [] m.kind = "int_window" -> 5
              [] OTHER -> 3
Step(m, scale, z) == (z * Sigma(m) * scale) \div 1000
-----------------------------------------------------------------------------
\* Mutated forms; no specification uses them.
Replace_unchecked(t, S, name) == {Put(t, name, v) : v \in S}
-----------------------------------------------------------------------------
Clip(m, x) == Clamp(m.lo, m.hi, x)
RoundDiv(a, b) == LET n == IF b < 0 THEN 0 - a ELSE a IN (2 * n + Abs(b)) \div (2 * Abs(b))

\* Renormalisation to target_sum 100: every value is rounded, the last key
\* takes what is left.
Renormalise(d) ==
    LET s == SumFunction(d)
        scaled == [k \in DOMAIN d |-> RoundDiv(d[k] * 100, s)]
        drift == 100 - SumFunction(scaled)
    IN  IF s = 0 THEN d ELSE [scaled EXCEPT !["funding"] = @ + drift]

\* The draws of a dict field: all keys move together, or one of them alone.
KeyDraws(K) == {[k \in K |-> z] : z \in Draws}
               \cup {[k \in K |-> IF k = j THEN z ELSE 0] : j \in K, z \in Draws}

\* _apply_one_mutation: the values one try may give.
Tries(m, t, scale) ==
    IF m.kind # "dict_per_key" THEN {Clip(m, Get(t, m.name) + Step(m, scale, z)) : z \in Draws}
    ELSE LET old == Get(t, m.name)
             moved == {[k \in DOMAIN old |->
                          Clamp(KeyBounds(k).lo, KeyBounds(k).hi, old[k] + Step(m, scale, d[k]))] :
                        d \in KeyDraws(DOMAIN old)}
         IN  IF m.name = "confluence_weights" THEN {Renormalise(d) : d \in moved} ELSE moved

\* A try that __post_init__ refuses is repeated; when all six are refused the
\* instance stays as it was.
Replace(t, S, name) ==
    LET all == {Put(t, name, v) : v \in S}
        ok  == {n \in all : post_init(n)}
    IN  ok \cup (IF ok = all THEN {} ELSE {t})
mutate_field(m, t, scale) == Replace(t, Tries(m, t, scale), m.name)

\* SensitivityReport: the step size of a field, 1.0 for one it does not hold.
scale_for(report, name) == IF name \in DOMAIN report THEN report[name] ELSE 1000
NoReport == [n \in {} |-> 1000]

\* sensitivity_scan: 0.5 / (gradient + 1e-6) within 0.25 and 4.
Scale(plus, minus) ==
    LET g == (Abs(plus) + Abs(minus)) \div 2
    IN  IF g = 0 THEN 4000 ELSE Clamp(250, 4000, (500 * 1000) \div g)

\* mutate_cluster, and the sensitivity branch of make_child_candidates: n
\* different members of the cluster, one after the other.
Picks(c, n) == {s \in [1..Min({n, Len(ClusterMap[c])}) -> Members(c)] :
                  \A i, j \in DOMAIN s : i # j => s[i] # s[j]}
Mutate(T, m, scale) == UNION {mutate_field(m, t, scale) : t \in T}
MutateEach(t, s, report) ==
    LET T[k \in 0..Len(s)] == IF k = 0 THEN {t} ELSE Mutate(T[k - 1], s[k], scale_for(report, s[k].name))
    IN  T[Len(s)]
mutate_cluster(t, c, n, report) == UNION {MutateEach(t, s, report) : s \in Picks(c, n)}

\* build_baseline_candidates: the live constants, then mutations with growing
\* steps (here the largest and the smallest of them).
build_baseline_candidates(c) ==
    {<<Default, child>> : child \in UNION {Mutate({Default}, m, scale) :
                                             m \in Members(c), scale \in {500, 2000}}}

-----------------------------------------------------------------------------
(* app/loop/maker_checker/maker_agent.py *)

MAX_DIFF_PCT == 50
\* round(n * llm_ratio), with a ratio of 0.6.
LlmCount(n) == RoundDiv(n * 6, 10)

\* The proposal of slot i of the math-only path: the field is taken in turn,
\* none is made for a dict field or when the value did not change, and a
\* magnitude beyond the limit is cut.
TradProposal(t, c, i, z) ==
    LET m == ClusterMap[c][((i - 1) % Len(ClusterMap[c])) + 1]
        old == Get(t, m.name)
        new == Get(CHOOSE n \in Replace(t, {Clip(m, old + Step(m, 1000, z))}, m.name) : TRUE, m.name)
    IN  IF m.kind = "dict_per_key" THEN None
        ELSE IF new = old THEN None
        ELSE [cluster |-> {c}, field |-> m.name,
              pct |-> Clamp(-MAX_DIFF_PCT, MAX_DIFF_PCT, ((new - old) * 100) \div Abs(old))]
Made(slots) == Kept(slots, {i \in DOMAIN slots : slots[i] # None})
traditional_proposals(t, c, n, zs) == Made([i \in 1..n |-> TradProposal(t, c, i, zs[i])])

\* _parse_proposal and Proposal.__post_init__: what the LLM may say.
parse_proposal(raw, c) ==
    IF raw.wellFormed /\ raw.cluster # {} /\ raw.cluster \subseteq {c} /\ Abs(raw.pct) <= MAX_DIFF_PCT
    THEN [cluster |-> raw.cluster, field |-> raw.field, pct |-> raw.pct] ELSE None
propose_via_llm(raws, c) == Made([i \in DOMAIN raws |-> parse_proposal(raws[i], c)])

WithinCount(seq, n) == SubSeq(seq, 1, Min({n, Len(seq)}))

\* propose_batch.  raws is what the backend answered, <<>> when it raised; the
\* traditional path starts over from slot 1 with the same seed each time.
propose_batch(mode, t, c, n, raws, zs) ==
    IF mode = "trad_only" THEN traditional_proposals(t, c, n, zs)
    ELSE LET target == IF mode = "llm_only" THEN n ELSE LlmCount(n)
             llm    == propose_via_llm(raws, c)
             topUp  == IF Len(llm) < target THEN traditional_proposals(t, c, target - Len(llm), zs)
                       ELSE <<>>
             trad   == IF mode = "mix" THEN traditional_proposals(t, c, n - LlmCount(n), zs) ELSE <<>>
         IN  WithinCount((IF target > 0 THEN llm \o topUp ELSE <<>>) \o trad, n)

-----------------------------------------------------------------------------
(* The review of a result *)

CONSTANT Bad     \* a value of the wrong type in an answer of the LLM

TRADE_FLOOR == 30
MIN_OOS_TRADES == 15
DROP_TOLERANCE == 50       \* sharpe_drop_tolerance, in per cent
SKEW == 85                 \* the share of one regime, in per cent

\* A metrics blob is [trades, sharpe, regimes], a regime [n, sharpe].
Sharpe0(s) == IF s = None THEN 0 ELSE s
ListSum(s) == LET S[i \in 0..Len(s)] == IF i = 0 THEN 0 ELSE S[i - 1] + s[i] IN S[Len(s)]
MeanSharpe(blobs) ==
    IF blobs = <<>> THEN 0 ELSE ListSum([i \in DOMAIN blobs |-> Sharpe0(blobs[i].sharpe)]) \div Len(blobs)

-----------------------------------------------------------------------------
\* Mutated forms; no specification uses them.
parse_verdict_truthy(raw) ==
    IF raw.score = Bad \/ raw.confidence = Bad \/ raw.components = Bad \/ raw.flags = Bad \/ raw.feedback = Bad
    THEN Failure
    ELSE IF {raw.score, raw.confidence, raw.components} \subseteq 0..10
         THEN [accept |-> raw.accept # FALSE, raw |-> raw.score, confidence |-> raw.confidence]
    ELSE Failure
oos_validate_meanOnly(inSample, oos) ==
    LET mean == MeanSharpe(inSample)
    IN  [passed |-> oos.sharpe # None /\ 100 * Sharpe0(oos.sharpe) >= mean * (100 - DROP_TOLERANCE),
         mean |-> mean]
-----------------------------------------------------------------------------
(* app/loop/worker.py, app/loop/checker.py *)

\* run_candidate: a timeout, a failed harness or a missing file is an error, and
\* too few trades a rejection; LOOP_WORKER_DRY_RUN never gets so far.
run_candidate(valid, outcome, metrics) ==
    IF ~valid \/ outcome # "finished" THEN "error"
    ELSE IF metrics.trades < TRADE_FLOOR THEN "rejected" ELSE "accepted"

Counts(m) == {r \in DOMAIN m.regimes : m.regimes[r].n > 0}
TradeSum(m) == SumFunction([r \in DOMAIN m.regimes |-> m.regimes[r].n])
regime_imbalance(m) ==
    TradeSum(m) >= 10 /\ \E r \in Counts(m) : m.regimes[r].n * 100 > SKEW * TradeSum(m)
low_sample(m) == m.trades < TRADE_FLOOR
\* The bear bucket, or the range bucket when there is no bear bucket.
bear_sharpe(m) ==
    LET name == IF "bear" \in DOMAIN m.regimes THEN "bear" ELSE "range"
    IN  /\ name \in DOMAIN m.regimes
        /\ m.regimes[name].n >= 3
        /\ m.regimes[name].sharpe = None \/ Sharpe0(m.regimes[name].sharpe) < -100
HeuristicFlags(m) ==
    (IF low_sample(m) THEN {"low_sample"} ELSE {})
    \cup (IF regime_imbalance(m) THEN {"regime_imbalance"} ELSE {})
    \cup (IF bear_sharpe(m) THEN {"bear_sharpe"} ELSE {})

-----------------------------------------------------------------------------
(* app/loop/maker_checker: isolation, checker_agent, runner *)

BaseFields == {"maker_intent", "reasoning", "self_score", "prompt_version"}
LineageFields == {"clusters_touched", "diff", "expected_impact", "generation_id", "parent_id",
                  "parent_metrics", "gen", "cluster", "fingerprint"}
StrictFields == BaseFields \cup LineageFields
strip_maker_artifacts(keys, level) ==
    keys \ (CASE level = "strict" -> StrictFields
              [] level = "moderate" -> BaseFields
              [] level = "minimal" -> {"maker_intent", "reasoning"})

\* The keys a payload may have, in alphabetical order.
KeyOrder == <<"candidate_id", "cluster", "clusters_touched", "decision", "diff", "elapsed_seconds",
              "expected_impact", "fingerprint", "fitness", "gen", "generation_id", "maker_intent",
              "metrics", "parent_id", "parent_metrics", "prompt_version", "proposal_id", "reasoning",
              "self_score">>
PayloadKeys == {"metrics", "fitness", "decision", "elapsed_seconds", "candidate_id"}
MakerKeys == Range(KeyOrder) \ PayloadKeys

\* _build_prompt: formatting a Sharpe ratio of None raises.
build_prompt(keys, m) ==
    IF m.sharpe = None THEN Raised
    ELSE LET shown == Kept(KeyOrder, {i \in DOMAIN KeyOrder : KeyOrder[i] \in keys})
         IN  [sharpe |-> m.sharpe, trades |-> m.trades,
              top |-> SubSeq(shown, 1, Min({5, Len(shown)}))]

\* _parse_verdict and Verdict.__post_init__: every field has its type and every
\* score its range, or there is no verdict.
parse_verdict(raw) ==
    LET given == IF raw.raw = Bad THEN raw.score ELSE raw.raw
    IN  IF Bad \in {raw.score, raw.confidence, raw.components, raw.flags, raw.feedback}
        THEN Failure
        ELSE IF raw.accept = Bad \/ ~({raw.score, raw.confidence, raw.components, given} \subseteq 0..10)
        THEN Failure
        ELSE [accept |-> raw.accept, raw |-> given, confidence |-> raw.confidence]

\* CheckerAgent.verify: a backend that raises rejects, as an answer that does
\* not parse; the prompt is built outside the try block.
verify_results(keys, m, answer) ==
    IF build_prompt(strip_maker_artifacts(keys, "strict"), m) = Raised THEN Raised
    ELSE IF answer = Failure THEN verify(Failure) ELSE verify(parse_verdict(answer))

\* MakerCheckerRunner.evaluate.
evaluate(decision, keys, m, answer) ==
    LET llm == verify_results(keys, m, answer)
    IN  IF llm = Raised THEN Raised
        ELSE resolve(check_candidate(decision, HeuristicFlags(m)), llm, NoMakerScore)

-----------------------------------------------------------------------------
(* app/loop/walk_forward.py, oos_validator.py, regime_buckets.py *)

\* walk_forward: the quarters that did not end in an error, with their numbers.
Ran(quarters) == Kept([i \in DOMAIN quarters |-> [q |-> i, m |-> quarters[i]]],
                      {i \in DOMAIN quarters : quarters[i] # None})
aggregate(quarters) ==
    LET ran == Ran(quarters)
        oos == {e \in Range(ran) : e.q = Len(quarters)}
        bad(m) == m.sharpe = None \/ Sharpe0(m.sharpe) < 0 \/ m.trades < MIN_OOS_TRADES
    IN  [ran |-> Len(ran),
         worst |-> IF ran = <<>> THEN 0 ELSE Min({Sharpe0(e.m.sharpe) : e \in Range(ran)}),
         collapse |-> \E e \in oos : bad(e.m)]

oos_validate(inSample, oos) ==
    LET mean == MeanSharpe(inSample)
    IN  [passed |-> /\ oos.trades >= MIN_OOS_TRADES
                    /\ oos.sharpe # None
                    /\ Sharpe0(oos.sharpe) >= 0
                    /\ 100 * Sharpe0(oos.sharpe) >= mean * (100 - DROP_TOLERANCE),
         mean |-> mean]

\* aggregate_regimes: trades are summed, the worst regime has the least mean
\* Sharpe ratio of the buckets with at least three trades.
RegimeTrades(blobs, r) ==
    ListSum([i \in DOMAIN blobs |-> IF r \in DOMAIN blobs[i] THEN blobs[i][r].n ELSE 0])
aggregate_regimes(blobs) ==
    LET names == UNION {DOMAIN b : b \in Range(blobs)}
        used(r) == Kept(blobs, {i \in DOMAIN blobs : /\ r \in DOMAIN blobs[i]
                                                     /\ blobs[i][r].n >= 3 /\ blobs[i][r].sharpe # None})
        mean(r) == MeanSharpe([i \in DOMAIN used(r) |-> used(r)[i][r]])
        known == {r \in names : used(r) # <<>>}
        total == SumFunction([r \in names |-> RegimeTrades(blobs, r)])
    IN  [total |-> total,
         worst |-> IF known = {} THEN 0 ELSE Min({mean(r) : r \in known}),
         skewed |-> total > 0 /\ \E r \in names : RegimeTrades(blobs, r) * 100 >= SKEW * total]

-----------------------------------------------------------------------------
(* The tools *)

CONSTANTS
    Tools,        \* which of the tools run
    MaxGen,       \* bound: generations of the search
    NMutations,   \* --n-mutations
    Lambdas,      \* --lambda
    Timeouts,     \* --timeout
    Blobs,        \* metrics of a backtest
    RawAnswers,   \* answers of the LLM checker
    RawProposals, \* proposals of the LLM maker
    MaxSlots,     \* bound: proposals asked for
    Quarters      \* bound: quarters of a walk-forward run

ASSUME SearchAssumption ==
    /\ post_init(Default)
    /\ Draws \subseteq Int /\ Deltas \subseteq Int /\ NMutations \subseteq Nat /\ Lambdas \subseteq Nat
    /\ MaxSlots \in Nat /\ Quarters \in Nat \ {0} /\ Bad \notin BOOLEAN
    /\ \A m \in Blobs : /\ m # None /\ m.trades \in Nat /\ m.sharpe \in Int \cup {None}
                        /\ \A r \in DOMAIN m.regimes : m.regimes[r].n \in Nat
                        /\ TradeSum(m) \in Nat
    /\ \A a \in RawAnswers : a.accept \in BOOLEAN \cup {Bad}
    /\ \A p \in RawProposals : p.pct \in Int

VARIABLES
    tool,     \* the tool that runs
    gen,      \* generations written so far
    parent,   \* --parent-yaml
    report,   \* sensitivity.json
    file,     \* next_generation.json: [whole, gen, cluster, n, parent, children]
    ran,      \* the generation the driver runs
    batch,    \* proposals of the Maker: [cluster, n, proposals]
    result,   \* a result and its review: [decision, metrics, keys, answer, final]
    quarters, \* a walk-forward run and what the validators say of it
    failed    \* a tool has ended with an exception

toolVars == <<tool, gen, parent, report, file, ran, batch, result, quarters, failed>>
searchVars == <<gen, parent, report, file, ran>>

NoFile == [whole |-> FALSE, gen |-> 0, cluster |-> "none", n |-> 0, parent |-> Default, children |-> <<>>]
NoBatch == [cluster |-> "none", n |-> 0, proposals |-> <<>>]
NoResult == [decision |-> "none"]
NoQuarters == [done |-> FALSE]

-----------------------------------------------------------------------------
(* app/loop/search.py *)

\* check_safety.  The spend of the week is never passed in, and a candidate
\* counts as a cent of the 25 dollars.
check_safety(c, lambda, n, timeout) ==
    n <= 5 /\ timeout >= 60 /\ lambda <= 2500 /\ c \in DOMAIN ClusterMap

SearchInit ==
    /\ tool \in Tools
    /\ gen = 0 /\ parent = Default /\ report = NoReport /\ file = NoFile /\ ran = NoFile
    /\ batch = NoBatch /\ result = NoResult /\ quarters = NoQuarters /\ failed = FALSE

\* sensitivity_scan and save_report: one field that the fitness depends on, the
\* others flat.
Scan ==
    /\ tool = "search" /\ gen = 0 /\ report = NoReport
    /\ \E c \in Clusters, p, m \in Deltas : \E hot \in Members(c) :
        report' = [n \in {x.name : x \in Members(c)} |->
                     IF n = hot.name THEN Scale(p, m) ELSE Scale(0, 0)]
    /\ UNCHANGED <<tool, gen, parent, file, ran, batch, result, quarters, failed>>

\* run_generation: children of the parent, then write_text truncates the file.
\* A generation that the safety rails refuse leaves the file alone.
Generate ==
    /\ tool = "search" /\ gen < MaxGen /\ (gen = 0 \/ file.whole)
    /\ \E c \in Clusters, n \in NMutations, lambda \in Lambdas, timeout \in Timeouts :
        IF ~check_safety(c, lambda, n, timeout) THEN UNCHANGED file
        ELSE \E kids \in [1..lambda -> mutate_cluster(parent, c, n, report)] :
            file' = [whole |-> FALSE, gen |-> gen + 1, cluster |-> c, n |-> n, parent |-> parent,
                     children |-> kids]
    /\ gen' = gen + 1
    /\ UNCHANGED <<tool, parent, report, ran, batch, result, quarters, failed>>

\* app/loop/baseline.py: the same file format, written and then driven in one
\* process.
Baseline ==
    /\ tool = "baseline" /\ gen = 0
    /\ \E c \in Clusters : \E kids \in build_baseline_candidates(c) :
        /\ file' = [whole |-> TRUE, gen |-> 1, cluster |-> c, n |-> 1, parent |-> Default, children |-> kids]
        /\ ran' = file'
    /\ gen' = 1
    /\ UNCHANGED <<tool, parent, report, batch, result, quarters, failed>>

\* The rest of the text reaches the file.
Flush ==
    /\ tool = "search" /\ gen > 0 /\ file.gen = gen /\ ~file.whole
    /\ file' = [file EXCEPT !.whole = TRUE]
    /\ UNCHANGED <<tool, gen, parent, report, ran, batch, result, quarters, failed>>

\* The driver reads the file: json.load raises on a truncated one.
Drive ==
    /\ tool = "search" /\ file # NoFile /\ ~failed /\ ran # file
    /\ IF file.whole THEN ran' = file /\ UNCHANGED failed
       ELSE failed' = TRUE /\ UNCHANGED ran
    /\ UNCHANGED <<tool, gen, parent, report, file, batch, result, quarters>>

\* The run is over, and the operator continues from one of its candidates.
Adopt ==
    /\ tool = "search" /\ ran # NoFile /\ ran = file /\ gen < MaxGen
    /\ \E i \in DOMAIN ran.children : parent' = ran.children[i]
    /\ ran' = NoFile
    /\ UNCHANGED <<tool, gen, report, file, batch, result, quarters, failed>>

-----------------------------------------------------------------------------
\* MakerAgent.propose_batch; the backend raises or answers with any proposals.
Propose ==
    /\ tool = "maker" /\ batch = NoBatch
    /\ \E c \in Clusters, n \in 1..MaxSlots, mode \in {"mix", "llm_only", "trad_only"},
          raws \in SeqOf(RawProposals, MaxSlots + 1), zs \in [1..MaxSlots -> Draws] :
        batch' = [cluster |-> c, n |-> n, proposals |-> propose_batch(mode, Default, c, n, raws, zs)]
    /\ UNCHANGED <<tool, searchVars, result, quarters, failed>>

\* A worker ends: run_candidate.
Score ==
    /\ tool = "review" /\ result = NoResult
    /\ \E m \in Blobs, outcome \in {"finished", "timeout"}, extra \in SUBSET MakerKeys, a \in RawAnswers \cup {Failure} :
        /\ Cardinality(extra) <= 2
        /\ result' = [decision |-> run_candidate(TRUE, outcome, m), metrics |-> m,
                      keys |-> PayloadKeys \cup extra, answer |-> a, final |-> "none"]
    /\ UNCHANGED <<tool, searchVars, batch, quarters, failed>>

\* The driver's review of it, which an exception of the checker ends.
Review ==
    /\ tool = "review" /\ result # NoResult
    /\ LET final == evaluate(result.decision, result.keys, result.metrics, result.answer) IN
        /\ result.final = "none" /\ ~failed
        /\ IF final = Raised THEN failed' = TRUE /\ UNCHANGED result
           ELSE result' = [result EXCEPT !.final = final] /\ UNCHANGED failed
    /\ UNCHANGED <<tool, searchVars, batch, quarters>>

\* walk_forward over a few quarters, any of which may end in an error, then the
\* validators over the quarters that ran.
WalkForward ==
    /\ tool = "walk" /\ ~quarters.done
    /\ \E qs \in [1..Quarters -> Blobs \cup {None}] :
        LET ran_ == Ran(qs)
            blobs == [i \in DOMAIN ran_ |-> ran_[i].m]
        IN  quarters' = [done |-> TRUE, aggregate |-> aggregate(qs), blobs |-> blobs,
                         oosRan |-> qs[Quarters] # None,
                         oos |-> IF qs[Quarters] = None THEN [passed |-> FALSE, mean |-> 0]
                                 ELSE oos_validate(SubSeq(blobs, 1, Len(blobs) - 1), qs[Quarters]),
                         regimes |-> aggregate_regimes([i \in DOMAIN blobs |-> blobs[i].regimes])]
    /\ UNCHANGED <<tool, searchVars, batch, result, failed>>

SearchNext ==
    Scan \/ Generate \/ Flush \/ Drive \/ Adopt \/ Baseline \/ Propose \/ Score \/ Review \/ WalkForward
SearchSpec == SearchInit /\ [][SearchNext]_toolVars

-----------------------------------------------------------------------------
(* Properties *)

Differ(t, u) == {m \in UNION {Members(c) : c \in DOMAIN ClusterMap} : Get(t, m.name) # Get(u, m.name)}
Sound(child, f) ==
    /\ post_init(child)
    /\ Differ(child, f.parent) \subseteq Members(f.cluster)
    /\ Cardinality(Differ(child, f.parent)) <= f.n
    /\ \A m \in Differ(child, f.parent) :
        IF m.kind # "dict_per_key" THEN Get(child, m.name) \in m.lo..m.hi
        ELSE m.name = "atr_stop_buffer" =>
            \A k \in DOMAIN child.atr_stop_buffer :
                child.atr_stop_buffer[k] \in KeyBounds(k).lo..KeyBounds(k).hi
\* Whatever makes the next candidates stays inside its limits, over generations
\* that build on each other and with step sizes from a sensitivity scan: a child
\* passes the checks of TuningConstants, so no worker fails on it, it differs
\* from its parent in at most n fields of the one cluster, each in its range,
\* and no answer of the LLM makes the Maker propose more than it was asked for,
\* another cluster, or a change of more than 50%.
CandidatesContained ==
    /\ \A i \in DOMAIN ran.children : Sound(ran.children[i], ran)
    /\ Len(batch.proposals) <= batch.n
    /\ \A i \in DOMAIN batch.proposals :
        batch.proposals[i].cluster = {batch.cluster} /\ Abs(batch.proposals[i].pct) <= MAX_DIFF_PCT

\* The review fails closed: a candidate is accepted only on an answer that
\* parses, says so and passes the thresholds, with no flag of the heuristics;
\* nor does it reach a human without such an answer.
FailsClosed ==
    result # NoResult => (result.final \in {"accepted", "suspicious_to_human"} =>
        /\ result.decision = "accepted"
        /\ result.answer # Failure
        /\ result.answer.accept = TRUE /\ result.answer.score \in 0..10
        /\ result.answer.confidence \in MinConfidence..10
        /\ (result.final = "accepted" => HeuristicFlags(result.metrics) = {}))

\* "the agent never sees Maker metadata": what the Maker knows about a candidate
\* changes nothing in the prompt of the checker.
StrictIsBlind ==
    result # NoResult =>
        build_prompt(strip_maker_artifacts(result.keys, "strict"), result.metrics)
            = build_prompt(strip_maker_artifacts(PayloadKeys, "strict"), result.metrics)

\* The review of a candidate fails closed and is blind to the Maker.
ReviewSound == FailsClosed /\ StrictIsBlind

\* The two out-of-sample checks and the two regime checks agree: a candidate that
\* the walk-forward run flags as collapsed fails the validation, and one quarter
\* that the heuristics call imbalanced is skewed for the aggregation too.
ValidatorsAgree ==
    quarters.done =>
        /\ quarters.aggregate.collapse => ~quarters.oos.passed
        /\ quarters.oos.passed => quarters.aggregate.ran > 0
        /\ quarters.aggregate.ran = 1 /\ regime_imbalance(quarters.blobs[1]) => quarters.regimes.skewed
=============================================================================
