----------------------------- MODULE SignalMath -----------------------------
(***************************************************************************)
(* The arithmetic of the signal engine: app/domain/signals.py,             *)
(* app/domain/validation.py and the feature and scoring functions of       *)
(* app/services/signal_engine.py, as operators.                            *)
(*                                                                         *)
(* Prices, the ATR and scores are integers in thousandths, ratios are in   *)
(* thousandths, net R in ten-thousandths (the code rounds to 4 digits).    *)
(* A division that is not exact is rounded down, but for the buffer of a   *)
(* stop, which is positive in the code and is rounded up.  Exponential     *)
(* averages (RSI, MACD, the EMAs of the higher timeframe) are inputs: the  *)
(* operators model what the code decides from them.                        *)
(*                                                                         *)
(* A bar is [o, h, l, c, v].  A candidate is [family, name, bullish,       *)
(* formed, x, a, cmin, cmax, times, indices].  t is a TuningConstants.     *)
(***************************************************************************)
EXTENDS Integers, Sequences, FiniteSets, FiniteSetsExt, SequencesExt

CONSTANTS
    None,      \* Python's None
    Raised     \* an icontract.ViolationError or another exception

Inf == 1000000
Reference == "C(ref)"       \* the grade C(参考)
MAX_STOP_BUFFER_MULT == 2000

ASSUME NoneAssumption == None # Raised /\ {None, Raised} \cap {"A", "B", "C", Reference} = {}

Weights == {"price_action", "htf_trend", "rsi", "structure", "macd", "funding"}

Tail_(s, n) == IF Len(s) <= n THEN s ELSE SubSeq(s, Len(s) - n + 1, Len(s))
LastBar(bars) == bars[Len(bars)]
\* What a comprehension with a condition leaves of a list: the places in I.
Kept(s, I) ==
    LET F[i \in 0..Len(s)] == IF i = 0 THEN <<>> ELSE IF i \in I THEN Append(F[i - 1], s[i]) ELSE F[i - 1]
    IN  F[Len(s)]
Clamp(lo, hi, x) == Max({lo, Min({hi, x})})
Abs(n) == IF n < 0 THEN -n ELSE n
Part(x, num, den) == (x * num) \div den

prz_low(c) == Min({c.cmin, c.cmax})
prz_high(c) == Max({c.cmin, c.cmax})
prz_mid(c) == (prz_low(c) + prz_high(c)) \div 2
Sign(c) == IF c.bullish THEN 1 ELSE -1
-----------------------------------------------------------------------------
\* Mutated forms; no specification uses them.
GradeMult_inverted(g) == CASE g = "A" -> 13 [] g = "B" -> 13 [] OTHER -> 10
-----------------------------------------------------------------------------
(* app/config/tuning.py *)

Default ==
    [fib |-> <<382, 618, 1272>>,
     atr_stop_buffer |-> [conservative |-> 1000, standard |-> 300, aggressive |-> 250],
     extended |-> {"butterfly", "crab", "shark"},
     atr_prz_sweep |-> 300, tp_close_pcts |-> <<50, 30, 20>>, cost |-> 3,
     max_d_age_bars |-> 20, max_prz_distance_atr |-> 3000, max_forming_prz_width_atr |-> 1000,
     authenticity_halve |-> 40, authenticity_veto |-> 25, adverse_sharpe_threshold |-> 1000,
     regime_moderate |-> 35, regime_high |-> 60, target_atr_pct |-> 2500, default_ttl_bars |-> 40,
     confluence_weights |-> [price_action |-> 25, htf_trend |-> 25, rsi |-> 15, structure |-> 15,
                             macd |-> 10, funding |-> 10],
     a_grade_min |-> 70, a_grade_min_high_quant |-> 85, high_quant_position_mult |-> 600,
     pattern_base_score |-> [gartley |-> 5, bat |-> 2, butterfly |-> 0, crab |-> -3, shark |-> -8],
     stability_window |-> 5, min_candles |-> 60, atr_window |-> 14, atr_long_window |-> 100,
     volume_ma_window |-> 20, swing_lookback |-> 60, window |-> 60, regime_window |-> 100,
     mult |-> [trending_aligned |-> 1000, ranging_aligned |-> 1000, trending_inverse |-> 600,
               ranging_inverse |-> 500, extreme_inverse |-> 1200, data_short |-> 800],
     slope |-> 500, extreme_deviation |-> 20000, min_daily_bars |-> 210]

\* TuningConstants.__post_init__: what a constructed instance satisfies.
post_init(t) ==
    /\ t.fib[1] < t.fib[2] /\ t.fib[2] < t.fib[3]
    /\ t.tp_close_pcts[1] + t.tp_close_pcts[2] + t.tp_close_pcts[3] = 100
    /\ t.authenticity_veto < t.authenticity_halve
    /\ t.regime_moderate < t.regime_high
    /\ Weights \subseteq DOMAIN t.confluence_weights
    /\ SumFunction(t.confluence_weights) = 100
    /\ {"conservative", "standard", "aggressive"} \subseteq DOMAIN t.atr_stop_buffer
    /\ t.atr_stop_buffer["standard"] \in 200..500
    /\ Default.extended \subseteq t.extended
    /\ DOMAIN Default.pattern_base_score \subseteq DOMAIN t.pattern_base_score
    /\ t.mult.extreme_inverse >= Max({t.mult.trending_inverse, t.mult.ranging_inverse})
    /\ Min({t.mult.trending_aligned, t.mult.ranging_aligned})
            >= Min({t.mult.trending_inverse, t.mult.ranging_inverse})
    /\ t.mult.data_short \in 500..1000 /\ t.mult.extreme_inverse <= 1500
    /\ \A w \in {t.max_d_age_bars, t.default_ttl_bars, t.atr_window, t.min_candles, t.stability_window,
                 t.volume_ma_window, t.swing_lookback, t.authenticity_veto, t.a_grade_min} : w > 0
    /\ t.atr_long_window >= t.atr_window

\* from_dict, dataclasses.replace: the given fields over the defaults.
from_dict(d) == [k \in DOMAIN Default |-> IF k \in DOMAIN d THEN d[k] ELSE Default[k]]
-----------------------------------------------------------------------------
(* app/domain/signals.py *)

is_swept(bar, c) ==
    \/ bar.l < prz_low(c) /\ bar.c \in prz_low(c)..prz_high(c)
    \/ bar.h > prz_high(c) /\ bar.c \in prz_low(c)..prz_high(c)

prz_state(price, c, swept) ==
    CASE swept -> "swept"
      [] ~swept /\ prz_low(c) <= price /\ price <= prz_high(c) -> "in_prz"
      [] OTHER -> "approaching"

\* REGIME_STOP_MULTIPLIER and GRADE_STOP_MULTIPLIER, in tenths.
RegimeMult(regime) == IF regime = "high_quant" THEN 15 ELSE 10
GradeMult(g) == CASE g = "C" -> 13 [] g = Reference -> 15 [] OTHER -> 10

\* The multiplier chain of compute_stop; the escape hatch replaces the base
\* only, the other factors still apply.
StopMult(t, level, trap, regime, g, hatch) ==
    LET base == IF hatch = None THEN t.atr_stop_buffer[level] ELSE hatch
    IN  Min({MAX_STOP_BUFFER_MULT,
             Part(Part(base, Max({1000, trap}), 1000), RegimeMult(regime) * GradeMult(g), 100)})

\* The structural anchor, or the recent swing when it is tighter and on the
\* stop's side of the entry.
Anchor(t, c, level, swing, entry) ==
    LET s     == Sign(c)
        edge  == IF c.bullish THEN prz_low(c) ELSE prz_high(c)
        outer == s * Min({s * c.x, s * edge})
        base  == CASE level = "conservative" -> edge
                   [] level = "aggressive" -> outer
                   [] OTHER -> IF c.name \in t.extended THEN edge ELSE outer
    IN  IF swing \in Nat \ {0} /\ entry # None /\ s * swing < s * entry /\ s * swing > s * base
        THEN swing ELSE base

compute_stop(t, c, atr, level, swing, entry, mult) ==
    LET anchor == Anchor(t, c, level, swing, entry)
    IN  [stop |-> anchor - Sign(c) * ((atr * mult + 999) \div 1000), invalidation |-> anchor]

a_price(c) == c.a
compute_targets(t, c, entry) ==
    [i \in 1..3 |-> entry + Sign(c) * Part(Abs(a_price(c) - entry), t.fib[i], 1000)]

\* Ten-thousandths; None for degenerate geometry.  A ratio that rounds to zero
\* violates the function's own postcondition.
net_rr(t, entry, stop, target) ==
    LET cost   == Part(entry, t.cost, 1000)
        reward == Abs(target - entry) - cost
    IN  IF Abs(entry - stop) = 0 \/ reward <= 0 THEN None
        ELSE (20000 * reward + Abs(entry - stop) + cost) \div (2 * (Abs(entry - stop) + cost))

grade(score, rr1, rr2, aligned, counter, a_min, wide) ==
    LET reference == IF score >= 45000 THEN Reference ELSE None
    IN  CASE rr1 = None \/ rr2 = None -> None
          [] rr1 # None /\ rr2 # None /\ (wide \/ counter \/ rr1 < 10000 \/ rr2 < 15000) -> reference
          [] OTHER -> IF score >= a_min * 1000 /\ rr2 >= 20000 /\ aligned THEN "A"
                      ELSE IF score >= 60000 THEN "B" ELSE reference

\* The gates run_symbol_group puts in the place of grade while it replays.
backtest_grade(score, rr1, rr2, counter, wide) ==
    CASE rr1 = None \/ rr2 = None -> None
      [] rr1 # None /\ rr2 # None /\ (wide \/ counter \/ rr1 < 10000 \/ rr2 < 15000) ->
            IF score >= 15000 THEN Reference ELSE None
      [] OTHER -> IF score >= 60000 THEN "B" ELSE IF score >= 30000 THEN Reference ELSE None

-----------------------------------------------------------------------------
(* app/domain/validation.py *)

\* Raised: compute_stop refuses a stop that is not positive.
rejection_reason(t, c, price, atr, n) ==
    LET s     == Sign(c)
        width == prz_high(c) - prz_low(c)
        stop  == compute_stop(t, c, atr, "standard", None, None,
                              StopMult(t, "standard", 1000, "normal", None, None)).stop
    IN  CASE Abs(price - prz_mid(c)) * 1000 > t.max_prz_distance_atr * atr -> "stale_distance"
          [] c.times # <<>> /\ n - 1 - Last(c.times) > t.max_d_age_bars -> "stale_age"
          [] ~c.formed /\ (width <= 0 \/ width * 1000 > t.max_forming_prz_width_atr * atr) -> "degenerate_prz"
          [] stop <= 0 -> Raised
          [] s * price < s * stop -> "violated"
          [] s * price > s * compute_targets(t, c, prz_mid(c))[2] -> "completed"
          [] OTHER -> None

filter_candidates(t, cands, price, atr, n) ==
    IF \E i \in DOMAIN cands : rejection_reason(t, cands[i], price, atr, n) = Raised THEN Raised
    ELSE Kept(cands, {i \in DOMAIN cands : rejection_reason(t, cands[i], price, atr, n) = None})

direction_invariant_ok(c, entry, stop, tps) ==
    LET s == Sign(c)
    IN  /\ s * stop < s * entry /\ s * entry <= s * tps[1]
        /\ s * tps[1] < s * tps[2] /\ s * tps[2] < s * tps[3]

\* Thousandths of the bars for which a pattern is found.
Rate(found, of) == Part(1000, Cardinality(found), of)

\* What the score of quant_trap_risk loses to the three rates.
TrapPenalty(broken, hunts, climax) ==
    (IF broken > 250 THEN 0 ELSE IF broken > 150 THEN 20 ELSE IF broken > 80 THEN 8 ELSE 0)
        + (IF hunts > 100 THEN 15 ELSE 0) + (IF climax > 120 THEN 15 ELSE 0)

quant_trap_risk(bars, c) ==
    LET n == Len(bars)
        highest(i, k) == Max({bars[j].h : j \in (i - k)..(i - 1)})
        lowest(i, k)  == Min({bars[j].l : j \in (i - k)..(i - 1)})
        broken == {i \in 6..n :
            \/ bars[i].h * 100 > highest(i, 5) * 101 /\ bars[i].c < highest(i, 5)
            \/ bars[i].l * 100 < lowest(i, 5) * 99 /\ bars[i].c > lowest(i, 5)}
        hunts == {i \in 4..(n - 1) : bars[i].l * 1000 < lowest(i, 3) * 995 /\ bars[i + 1].c > bars[i].h}
        climax == {i \in 2..n : /\ bars[i - 1].v > 0 /\ bars[i].v > 2 * bars[i - 1].v
                                /\ Abs(bars[i].c - bars[i].o) * 1000 < 15 * bars[i].c}
        fb == Rate(broken, n - 5)
        failed == \E i \in 1..n :
            IF c.bullish THEN bars[i].l \in prz_low(c)..prz_high(c) /\ bars[i].c < prz_low(c)
            ELSE bars[i].h \in prz_low(c)..prz_high(c) /\ bars[i].c > prz_high(c)
    IN  IF n < 15 THEN [score |-> 50, veto |-> FALSE]
        ELSE [score |-> Clamp(10, 90, 50 - TrapPenalty(fb, Rate(hunts, n - 4), Rate(climax, n - 1))),
              veto |-> fb > 250 \/ failed]

trap_stop_multiplier(score) ==
    CASE score < 60 -> 1000
      [] score \in 60..74 -> 1000 + Part(score - 60, 500, 15)
      [] score \in 75..84 -> 1500 + (score - 75) * 30
      [] OTHER -> Min({2000, 1800 + (score - 85) * 40})

volume_authenticity(bars) ==
    LET n      == Len(bars)
        sum    == SumFunction([i \in 1..n |-> bars[i].v])
        dev(i) == n * bars[i].v - sum
        denom  == SumFunction([i \in 1..n |-> dev(i) * dev(i)])
        aligned == {i \in 2..n : (bars[i].c > bars[i - 1].c) <=> (bars[i].v > bars[i - 1].v)}
        spikes  == {i \in 1..n : bars[i].v * n * 10 > sum * 25}
        corr    == IF denom = 0 THEN 0
                   ELSE Part(100, SumFunction([i \in 1..(n - 1) |-> dev(i) * dev(i + 1)]), denom)
    IN  IF n < 10 THEN 50
        ELSE Clamp(0, 100, (40 * (Rate(aligned, n - 1) \div 10)
                          + 40 * Max({0, 100 - 4 * (Rate(spikes, n) \div 10)})
                          + 20 * Max({0, 50 + corr \div 2})) \div 100)

stability_verdict(full, sub1, sub2) ==
    CASE sub1 # None /\ sub2 # None ->
            [score |-> IF full = sub1 /\ full = sub2 THEN 85
                       ELSE IF full \in {sub1, sub2} THEN 55 ELSE 25, suspect |-> FALSE]
      [] sub1 = None /\ sub2 = None -> [score |-> 20, suspect |-> TRUE]
      [] OTHER -> [score |-> 40, suspect |-> FALSE]

\* The largest r with r * r <= x, for x below 9 * 10^6.
Root(x) == CHOOSE r \in 0..3000 : r * r <= x /\ (r + 1) * (r + 1) > x

\* The tail events (returns beyond three standard deviations) are an input.
quant_regime(t, bars, tails) ==
    LET n    == Len(bars)
        sum  == SumFunction([i \in 1..n |-> bars[i].v])
        sq   == SumFunction([i \in 1..n |-> bars[i].v * bars[i].v])
        gaps == {i \in 2..n : Abs(bars[i].o - bars[i - 1].c) * 1000 > 8 * bars[i - 1].c}
        reversals == {i \in 1..n : /\ (bars[i].h - bars[i].l) * 100 > 3 * bars[i].l
                                   /\ Abs(bars[i].c - bars[i].o) * 1000 < 5 * bars[i].o}
        score == (25 * Min({100, Part(300, Cardinality(gaps), n - 1)})
                + 25 * Min({100, Part(500, Cardinality(reversals), n)})
                + 30 * Min({100, IF sum = 0 THEN 0 ELSE Part(80, Root(n * sq - sum * sum), sum)})
                + 20 * Min({100, Part(1000, tails, n - 1)})) \div 100
    IN  CASE n < 20 -> "normal"
          [] n >= 20 /\ score >= t.regime_high -> "high_quant"
          [] OTHER -> IF score >= t.regime_moderate THEN "moderate_quant" ELSE "normal"

\* mean and deviation of the last returns, in any common unit.
per_bar_sharpe(rets) ==
    CASE rets.n < 3 -> 0
      [] rets.n >= 3 /\ rets.std = 0 -> IF rets.mean > 0 THEN Inf ELSE IF rets.mean < 0 THEN -Inf ELSE 0
      [] OTHER -> Part(1000, rets.mean, rets.std)

adverse_momentum_veto(t, c, sharpe) == Sign(c) * sharpe < -t.adverse_sharpe_threshold

volatility_multiplier(t, atr, close) ==
    Clamp(500, 1500, Part(1000, t.target_atr_pct, Max({500, Part(100000, atr, close)})))
=============================================================================
