---------------------------- MODULE SignalEngine ----------------------------
(***************************************************************************)
(* The signal pipeline of app/services/signal_engine.py (build_signal) as  *)
(* the backtests drive it: candidates are extracted from a detection,      *)
(* filtered, scored one by one, ranked and checked for stability.          *)
(*                                                                         *)
(* Every stage reads get_tuning(), a process-wide stack of overrides, and  *)
(* the callers patch module functions (rejection_reason, grade) around the *)
(* call: what a failing call leaves behind is part of the state.           *)
(***************************************************************************)
EXTENDS SignalMath

CONSTANTS
    Frame,       \* sequence of candle frames
    Market,      \* what the averages of a frame say: RSI, trend, MACD, returns, days
    Detection,   \* sequences of raw patterns a detector may report
    Override,    \* fields a tuning file or a weight candidate may set
    Level,       \* stop levels used
    Hatch,       \* None, or a stop buffer that overrides the level's
    MaxBuilds    \* bound: pipeline runs in a behaviour

VARIABLES
    tuning,   \* the override stack, the applied override, the patched functions
    caller,   \* the backtest around the runs: where it is, and the override it tries
    job,      \* the pipeline run in progress
    signal,   \* the last signal handed to a caller
    builds    \* pipeline runs so far

\* A tuning whose fields have their types.
Numeric(t) ==
    /\ \A i \in 1..3 : t.fib[i] \in Int
    /\ t.cost \in Nat /\ t.min_candles \in Nat \ {0}
    /\ \A k \in Weights : t.confluence_weights[k] \in Int
    /\ \A k \in DOMAIN t.pattern_base_score : t.pattern_base_score[k] \in Int
    /\ \A k \in {"conservative", "standard", "aggressive"} : t.atr_stop_buffer[k] \in Nat \ {0}

ASSUME EngineAssumption ==
    /\ \A f \in DOMAIN Frame : /\ Frame[f] \in Seq(Range(Frame[f]))
                               /\ \A i \in 1..Len(Frame[f]) : Frame[f][i].c \in Nat
    /\ \A det \in Detection :
         /\ det \in Seq(Range(det))
         /\ \A i \in 1..Len(det) : det[i].numeric => {det[i].x, det[i].a, det[i].cmin, det[i].cmax} \subseteq Int
    /\ None \notin Override /\ \A o \in Override : Numeric(from_dict(o))
    /\ Level \subseteq {"conservative", "standard", "aggressive"} /\ Hatch \subseteq {None} \cup (Nat \ {0})
    /\ MaxBuilds \in Nat

engineVars == <<tuning, caller, job, signal, builds>>
NoJob == [pc |-> "idle"]
NoCaller == [at |-> "none", o |-> None]
Clean == [context |-> <<>>, applied |-> None, patched |-> {}]

\* get_tuning: innermost scope, then the applied value, then the defaults.
get_tuning ==
    CASE tuning.context # <<>> -> from_dict(Last(tuning.context))
      [] tuning.context = <<>> /\ tuning.applied # None -> from_dict(tuning.applied)
      [] OTHER -> Default
-----------------------------------------------------------------------------
(* Mutated forms; no specification uses them. *)
restore_filters_unscoped(tn, saved) ==
    IF saved THEN [tn EXCEPT !.patched = @ \ {"rejection"}] ELSE tn
-----------------------------------------------------------------------------
(* Features of a frame. *)

compute_atr(t, bars) ==
    LET tr(i) == IF i = 1 THEN bars[1].h - bars[1].l
                 ELSE Max({bars[i].h - bars[i].l, Abs(bars[i].h - bars[i - 1].c), Abs(bars[i].l - bars[i - 1].c)})
        n == Len(bars)
        mean(k) == SumFunction([i \in (n - k + 1)..n |-> tr(i)]) \div k
        recent == {bars[i] : i \in Max({1, n - t.atr_window + 1})..n}
    IN  IF n < t.atr_window
        THEN (Max({b.h : b \in recent}) - Min({b.l : b \in recent})) \div t.atr_window
        ELSE Min({mean(t.atr_window), mean(Min({n, t.atr_long_window}))})

compute_rsi(m) == IF m.loss = 0 THEN (IF m.gain > 0 THEN 100 ELSE 50) ELSE Part(100, m.gain, m.gain + m.loss)

htf_trend(m) ==
    IF ~m.htf.known \/ m.htf.bars < 55 \/ m.htf.fast = m.htf.slow THEN "unknown"
    ELSE IF m.htf.fast > m.htf.slow THEN "bullish" ELSE "bearish"

is_reversal_candle(bar, bullish) ==
    /\ bar.h > bar.l
    /\ IF bullish THEN bar.c > bar.o /\ 2 * (Min({bar.o, bar.c}) - bar.l) >= bar.h - bar.l
       ELSE bar.c < bar.o /\ 2 * (bar.h - Max({bar.o, bar.c})) >= bar.h - bar.l

rsi_zone_score(rsi, bullish, rising) ==
    LET r    == IF bullish THEN rsi ELSE 100 - rsi
        zone == CASE r <= 30 -> 7 [] r \in 31..40 -> 5 [] r \in 41..50 -> 2 [] OTHER -> 0
    IN  zone + (IF zone > 0 /\ (rising <=> bullish) THEN 3 ELSE 0) - (IF r >= 60 THEN 3 ELSE 0)

\* Regular divergence in the pattern's direction counts for it, hidden against.
Divergence(divs, bullish, plus) ==
    IF <<"Regular", bullish>> \in divs THEN plus ELSE IF <<"Hidden", bullish>> \in divs THEN -5 ELSE 0

confluence_score(t, bars, c, ctx) ==
    LET w     == t.confluence_weights
        last  == LastBar(bars)
        ma    == Tail_(bars, t.volume_ma_window)
        surge == 2 * last.v * Len(ma) >= 3 * SumFunction([i \in DOMAIN ma |-> ma[i].v])
        pa    == IF ~is_reversal_candle(last, c.bullish) THEN 0 ELSE IF surge THEN 25 ELSE 15
        own   == IF c.bullish THEN "bullish" ELSE "bearish"
        htf   == CASE ctx.trend = own -> 1000 * w.htf_trend
                   [] ctx.trend = "unknown" -> 400 * w.htf_trend
                   [] OTHER -> 0
        rsi   == Divergence(ctx.divs.rsi, c.bullish, 8) + rsi_zone_score(ctx.rsi, c.bullish, ctx.rising)
        zone  == Tail_(bars, t.swing_lookback)
        swing == IF c.bullish THEN Min({b.l : b \in Range(zone)}) ELSE Max({b.h : b \in Range(zone)})
        near  == Abs(prz_mid(c) - swing) * 1000 <= t.atr_prz_sweep * ctx.atr
        macd  == Divergence(ctx.divs.macd, c.bullish, 10)
        regular == Cardinality({k \in {"rsi", "macd"} : <<"Regular", c.bullish>> \in ctx.divs[k]})
        s     == Sign(c)
    IN  Part(40 * pa * w.price_action, ctx.pa_scale, 1000)
      + htf
      + Clamp(-1000 * w.rsi, 1000 * w.rsi, Part(1000 * rsi, w.rsi, 15))
      + (IF near THEN 1000 * w.structure ELSE 0)
      + Clamp(-1000 * w.macd, 1000 * w.macd, 100 * macd * w.macd)
      + (IF s * ctx.macd.line < 0 THEN 8000 ELSE -4000)
      + (CASE regular = 2 -> 8000 [] regular = 1 -> 3000 [] OTHER -> 0)
      + (IF s * ctx.macd.hist > 0 /\ s * ctx.macd.hist > s * ctx.macd.prev THEN 5000 ELSE 0)
      + 500 * w.funding

pattern_base_score(t, name) == IF name \in DOMAIN t.pattern_base_score THEN t.pattern_base_score[name] ELSE 0

compute_swing_anchor(bars, atr, bullish) ==
    LET n      == Len(bars)
        recent == Range(Tail_(bars, 60))
        span   == Max({b.h : b \in recent}) - Min({b.l : b \in recent})
        window == Range(Tail_(bars, Clamp(20, 120, Part(480, atr, span))))
    IN  IF atr <= 0 \/ n < 20 \/ span <= 0 THEN None
        ELSE IF bullish THEN Min({b.l : b \in window}) ELSE Max({b.h : b \in window})

\* _prepare_score_context; None when the frame has no volatility.
prepare_score_context(t, bars, m) ==
    LET auth   == volume_authenticity(Tail_(bars, t.window))
        atr    == compute_atr(t, bars)
        regime == quant_regime(t, Tail_(bars, t.regime_window), m.tails)
        high   == regime = "high_quant"
        price  == LastBar(bars).c
    IN  IF atr \notin Nat \ {0} THEN None
        ELSE [atr |-> atr, rsi |-> compute_rsi(m), rising |-> m.rising, trend |-> htf_trend(m),
              sharpe |-> per_bar_sharpe(m.rets), regime |-> regime,
              a_min |-> IF high THEN t.a_grade_min_high_quant ELSE t.a_grade_min,
              pa_scale |-> IF auth < t.authenticity_halve THEN 500 ELSE 1000,
              position_mult |-> Part(volatility_multiplier(t, atr, price),
                                     IF high THEN t.high_quant_position_mult ELSE 1000, 1000),
              price |-> price, divs |-> m.divs, auth |-> auth, macd |-> m.macd]
-----------------------------------------------------------------------------
(* Candidates. *)

\* _extract_times: positions outside the frame have no close time.
extract_times(pos, n) == Kept(pos, {i \in DOMAIN pos : pos[i] \in 0..(n - 1)})

to_candidate(raw, n) ==
    IF ~raw.numeric \/ raw.points < 3 \/ raw.cmin <= 0 \/ raw.cmax <= 0 THEN None
    ELSE [family |-> raw.family, name |-> raw.name, bullish |-> raw.bullish, formed |-> raw.formed,
          x |-> raw.x, a |-> IF raw.family = "XABCD" THEN raw.a ELSE raw.x,
          cmin |-> raw.cmin, cmax |-> raw.cmax, times |-> extract_times(raw.pos, n), indices |-> raw.pos]

\* Formed patterns first, what cannot be read is skipped.
extract_candidates(det, n) ==
    LET all == [i \in DOMAIN det |-> to_candidate(det[i], n)]
        read(formed) == Kept(all, {i \in DOMAIN det : det[i].formed = formed /\ all[i] # None})
    IN  read(TRUE) \o read(FALSE)

\* The state of the zone, confirmed by a reversal candle, and the entry: the
\* price, or the near edge of a zone that is still approached.
status(ctx, last, c) ==
    LET state == prz_state(ctx.price, c, is_swept(last, c))
    IN  IF state # "approaching" /\ is_reversal_candle(last, c.bullish) THEN "confirmed" ELSE state
entry_price(ctx, last, c) ==
    IF status(ctx, last, c) # "approaching" THEN ctx.price ELSE IF c.bullish THEN prz_high(c) ELSE prz_low(c)

\* The stop with a multiplier, and the net R of target i at a stop.
stop_at(t, ctx, bars, c, level, mult) ==
    compute_stop(t, c, ctx.atr, level, compute_swing_anchor(bars, ctx.atr, c.bullish),
                 entry_price(ctx, LastBar(bars), c), mult)
rr_at(t, ctx, bars, c, stop, i) ==
    LET entry == entry_price(ctx, LastBar(bars), c) IN net_rr(t, entry, stop, compute_targets(t, c, entry)[i])

total_score(t, ctx, bars, c) ==
    Clamp(0, 100000, confluence_score(t, bars, c, ctx) + 1000 * pattern_base_score(t, c.name))
is_wide(c) == (prz_high(c) - prz_low(c)) * 25 >= prz_mid(c)
graded(t, ctx, bars, c, stop, patched) ==
    LET own     == IF c.bullish THEN "bullish" ELSE "bearish"
        counter == ctx.trend \notin {own, "unknown"}
        sc      == total_score(t, ctx, bars, c)
        rr(i)   == rr_at(t, ctx, bars, c, stop, i)
    IN  IF "grade" \in patched THEN backtest_grade(sc, rr(1), rr(2), counter, is_wide(c))
        ELSE grade(sc, rr(1), rr(2), ctx.trend = own, counter, ctx.a_min, is_wide(c))
\* The multiplier of the final stop, which knows the trap risk, the regime and
\* the grade.
Widening(t, ctx, bars, c, level, hatch, g) ==
    StopMult(t, level, trap_stop_multiplier(quant_trap_risk(Tail_(bars, t.window), c).score), ctx.regime, g, hatch)

\* score_candidate: None when a gate rejects, Raised when a contract of the
\* called functions does (a stop or ratio that is not positive).
score_candidate(t, ctx, bars, c, level, hatch, patched) ==
    LET entry  == entry_price(ctx, LastBar(bars), c)
        first  == stop_at(t, ctx, bars, c, level, StopMult(t, level, 1000, "normal", None, None))
        tps    == compute_targets(t, c, entry)
        g      == graded(t, ctx, bars, c, first.stop, patched)
        final  == stop_at(t, ctx, bars, c, level, Widening(t, ctx, bars, c, level, hatch, g))
        rr(stop, i) == rr_at(t, ctx, bars, c, stop, i)
        or0(r) == IF r = None THEN 0 ELSE r
    IN  CASE ctx.auth < (IF c.formed THEN t.authenticity_veto ELSE t.authenticity_halve) -> None
          [] first.stop <= 0 -> Raised
          [] quant_trap_risk(Tail_(bars, t.window), c).veto \/ adverse_momentum_veto(t, c, ctx.sharpe) -> None
          [] ~direction_invariant_ok(c, entry, first.stop, tps) -> None
          [] tps[2] <= 0 \/ 0 \in {rr(first.stop, 1), rr(first.stop, 2)} \ {None} -> Raised
          [] g = None -> None
          [] final.stop <= 0 \/ 0 \in {rr(final.stop, 1), rr(final.stop, 2)} \ {None} -> Raised
          [] OTHER ->
                [grade |-> g, bullish |-> c.bullish, name |-> c.name, formed |-> c.formed,
                 status |-> status(ctx, LastBar(bars), c), entry |-> entry, stop |-> final.stop,
                 invalidation |-> final.invalidation, tps |-> tps,
                 rr1 |-> or0(rr(final.stop, 1)), rr2 |-> or0(rr(final.stop, 2)),
                 score |-> total_score(t, ctx, bars, c) \div 1000,
                 regime |-> ctx.regime, atr |-> ctx.atr, tradable |-> g # Reference, stability |-> None,
                 level |-> level, hatch |-> hatch, wide |-> is_wide(c), price |-> ctx.price, size |-> 1000, c |-> c]

\* rank_signals: a later signal must be strictly better.
RankOf(sig) ==
    <<CASE sig.grade = "A" -> 3 [] sig.grade = "B" -> 2 [] OTHER -> 0, sig.score, IF sig.formed THEN 1 ELSE 0>>
Better(r, q) ==
    \/ r[1] > q[1]
    \/ r[1] = q[1] /\ (r[2] > q[2] \/ (r[2] = q[2] /\ r[3] > q[3]))
rank_signals(signals) ==
    LET best[i \in 0..Len(signals)] ==
            IF i = 0 THEN None
            ELSE IF best[i - 1] = None \/ Better(RankOf(signals[i]), RankOf(best[i - 1])) THEN signals[i]
            ELSE best[i - 1]
    IN  best[Len(signals)]

\* apply_stability; subs is None without a detector, a raising detector counts
\* as two windows without the pattern.
apply_stability(sig, subs) ==
    IF sig = None \/ sig.grade \notin {"A", "B"} \/ subs = None THEN sig
    ELSE LET seen == IF subs = Raised THEN <<None, None>> ELSE subs
             v    == stability_verdict(sig.name, seen[1], seen[2])
         IN  IF v.suspect THEN None ELSE [sig EXCEPT !.stability = v.score]
-----------------------------------------------------------------------------
(* The discipline and macro layers of the replaying caller. *)

discipline_evaluate(t, bars, c, price) ==
    LET n      == Len(bars)
        cidx   == IF Len(c.indices) >= 2 THEN c.indices[Len(c.indices) - 1]
                  ELSE IF Len(c.times) >= 2 THEN c.times[Len(c.times) - 1] ELSE 0
        since  == IF cidx < 0 THEN 0 ELSE Max({0, n - 1 - cidx})
        touched == \E i \in (cidx + 2)..n : bars[i].h >= prz_low(c) /\ bars[i].l <= prz_high(c)
        tp2    == compute_targets(t, c, prz_mid(c))[2]
        past   == Sign(c) * price > Sign(c) * tp2
    IN  [passed |-> ~touched /\ ~past, past_tp2 |-> past, stale |-> since > t.default_ttl_bars]

\* macro_bias.compute: the size multiplier for a daily close series.
macro_compute(t, daily, bullish) ==
    LET above     == daily.price > daily.ema
        slope     == Part(100000, daily.ema - daily.old, daily.old)
        deviation == Part(100000, daily.price - daily.ema, daily.ema)
        up        == slope >= t.slope
        down      == slope <= -t.slope
    IN  CASE daily.n < t.min_daily_bars -> t.mult.data_short
          [] daily.n >= t.min_daily_bars /\ bullish # above /\ Abs(deviation) > t.extreme_deviation ->
                t.mult.extreme_inverse
          [] daily.n >= t.min_daily_bars /\ bullish = above ->
                IF up \/ down THEN t.mult.trending_aligned ELSE t.mult.ranging_aligned
          [] OTHER -> IF (up /\ bullish) \/ (down /\ ~bullish) THEN t.mult.trending_inverse
                      ELSE t.mult.ranging_inverse
-----------------------------------------------------------------------------
(* The callers and the stages. *)

TuningIs(o) == get_tuning = IF o = None THEN Default ELSE from_dict(o)

EngineInit == tuning = Clean /\ caller = NoCaller /\ job = NoJob /\ signal = None /\ builds = 0

\* main() of .scratch/backtest/run_backtest_v3.py: a tuning file that violates a
\* constraint stops it before anything is applied; its finally block resets the
\* tuning only if it applied one.
main ==
    /\ caller = NoCaller
    /\ \E o \in Override \cup {None} :
          /\ o # None => post_init(from_dict(o))
          /\ caller' = [at |-> "main", o |-> o]
          /\ tuning' = [tuning EXCEPT !.applied = IF o = None THEN @ ELSE o]
    /\ UNCHANGED <<job, builds>> /\ signal' = None
leave_main ==
    /\ caller.at = "main"
    /\ tuning' = IF caller.o = None THEN tuning ELSE [tuning EXCEPT !.applied = None]
    /\ caller' = NoCaller
    /\ UNCHANGED <<job, builds>> /\ signal' = None

\* run_symbol_group patches the grade for the loop over the fresh patterns.
run_symbol_group ==
    /\ caller.at = "main"
    /\ caller' = [caller EXCEPT !.at = "group"]
    /\ tuning' = [tuning EXCEPT !.patched = @ \cup {"grade"}]
    /\ UNCHANGED <<job, builds>> /\ signal' = None
leave_group ==
    /\ caller.at = "group"
    /\ caller' = [caller EXCEPT !.at = "main"]
    /\ tuning' = [tuning EXCEPT !.patched = @ \ {"grade"}]
    /\ UNCHANGED <<job, builds>> /\ signal' = None

\* grid_search_weights: a TuningScope with the candidate's weights around the
\* windows of walk_forward.
grid_search_weights ==
    /\ caller = NoCaller
    /\ \E o \in Override :
          /\ DOMAIN o = {"confluence_weights"} /\ post_init(from_dict(o))
          /\ caller' = [at |-> "grid", o |-> o]
          /\ tuning' = [tuning EXCEPT !.context = Append(@, o)]
    /\ UNCHANGED <<job, builds>> /\ signal' = None
leave_grid ==
    /\ caller.at = "grid"
    /\ caller' = NoCaller
    /\ tuning' = [tuning EXCEPT !.context = Front(@)]
    /\ UNCHANGED <<job, builds>> /\ signal' = None

MayBegin == job.pc = "idle" /\ builds < MaxBuilds
Begin(f, det, lvl, htch, saved) ==
    /\ builds' = builds + 1
    /\ \E m \in Market :
          job' = [pc |-> "prepare", m |-> m, level |-> lvl, hatch |-> htch, saved |-> saved,
                  bars |-> f, queue |-> extract_candidates(det, Len(Frame[f])), scored |-> <<>>,
                  ctx |-> None, out |-> None]
    /\ signal' = None
    /\ UNCHANGED caller

\* One fresh pattern of a group.
fresh_pattern(f, det, lvl) ==
    /\ caller.at = "group" /\ Len(det) = 1
    /\ Begin(f, det, lvl, None, FALSE)
    /\ UNCHANGED tuning

\* _maybe_relax_filters patches the freshness filter away and enters a scope of
\* its own, built from the defaults; _restore_filters undoes what it saved.
Relaxed == [min_candles |-> 30]
maybe_relax_filters(tn, relax) ==
    IF relax THEN [context |-> Append(tn.context, Relaxed), applied |-> tn.applied,
                   patched |-> tn.patched \cup {"rejection"}]
    ELSE tn
restore_filters(tn, saved) ==
    IF saved THEN [context |-> Front(tn.context), applied |-> tn.applied, patched |-> tn.patched \ {"rejection"}]
    ELSE tn

\* extract_signal of scripts/backtest_harmonic_lib.py; walk_forward always relaxes.
extract_signal(f, det, lvl) ==
    /\ caller.at \in {"none", "grid"} /\ det # <<>>
    /\ \E relax \in BOOLEAN, h \in Hatch :
        /\ caller.at = "grid" => relax
        /\ Begin(f, det, lvl, h, relax)
        /\ tuning' = maybe_relax_filters(tuning, relax)

Bars == LET all == Frame[job.bars] IN IF caller.at = "group" THEN Front(all) ELSE all

prepare ==
    /\ job.pc = "prepare"
    /\ LET t == get_tuning
           ctx == prepare_score_context(t, Bars, job.m)
           valid == IF "rejection" \in tuning.patched THEN job.queue
                    ELSE filter_candidates(t, job.queue, ctx.price, ctx.atr, Len(Bars))
       IN  job' = IF Len(Bars) < t.min_candles \/ job.queue = <<>> \/ ctx = None
                  THEN [job EXCEPT !.pc = "restore"]
                  ELSE IF valid = Raised THEN [job EXCEPT !.pc = "restore", !.out = Raised]
                  ELSE [job EXCEPT !.pc = "score", !.ctx = ctx, !.queue = valid]
    /\ UNCHANGED <<tuning, caller, signal, builds>>

score ==
    /\ job.pc = "score" /\ job.queue # <<>>
    /\ LET sig == score_candidate(get_tuning, job.ctx, Bars, Head(job.queue), job.level, job.hatch, tuning.patched)
       IN  job' = CASE sig = Raised -> [job EXCEPT !.pc = "restore", !.out = Raised]
                    [] sig = None -> [job EXCEPT !.queue = Tail(@)]
                    [] OTHER -> [job EXCEPT !.queue = Tail(@), !.scored = Append(@, sig)]
    /\ UNCHANGED <<tuning, caller, signal, builds>>

\* No backtest passes a stability detector; the answers it may give are all
\* the re-detections of two sub-windows, and its failure.
rank ==
    /\ job.pc = "score" /\ job.queue = <<>>
    /\ LET best == rank_signals(job.scored)
       IN  \E subs \in {None, Raised} \cup ({None, "bat", "crab"} \X {None, "bat"}) :
              job' = [job EXCEPT !.pc = "restore", !.out = apply_stability(best, subs)]
    /\ UNCHANGED <<tuning, caller, signal, builds>>

\* The end of a run, whatever happened: the finally block of extract_signal, or
\* the except of the replaying caller, which goes on to drop what the discipline
\* filters reject, and sizes what is left by the daily trend.
finish ==
    /\ job.pc = "restore"
    /\ tuning' = restore_filters(tuning, job.saved)
    /\ \E group \in {"control"} \cup (IF caller.at = "group" THEN {"strict", "experimental"} ELSE {}) :
          LET all  == Frame[job.bars]
              d    == discipline_evaluate(get_tuning, all, job.out.c, LastBar(all).c)
              keep == group = "control" \/ IF job.out.formed THEN ~d.past_tp2 ELSE d.passed
              size == IF group = "experimental" THEN macro_compute(get_tuning, job.m.daily, job.out.bullish) ELSE 1000
          IN  signal' = IF job.out \in {None, Raised} THEN None
                        ELSE IF keep THEN [job.out EXCEPT !.size = size] ELSE None
    /\ job' = NoJob
    /\ UNCHANGED <<caller, builds>>

EngineNext ==
    \/ /\ MayBegin
       /\ \/ main \/ run_symbol_group \/ grid_search_weights
          \/ \E f \in DOMAIN Frame, det \in Detection, lvl \in Level :
                fresh_pattern(f, det, lvl) \/ extract_signal(f, det, lvl)
    \/ job.pc = "idle" /\ (leave_main \/ leave_group \/ leave_grid)
    \/ prepare \/ score \/ rank \/ finish
-----------------------------------------------------------------------------

\* Whatever a pipeline run does, raising included, each caller finds its own
\* tuning again: between two windows of a grid search the candidate it tries is
\* in force with nothing patched, between two patterns of a group the applied
\* file and the patched grade, and when the last of them has left, the process's
\* own tuning and functions.
Restored ==
    job.pc = "idle" =>
        CASE caller.at = "grid"  -> get_tuning = from_dict(caller.o) /\ tuning.patched = {}
          [] caller.at = "group" -> TuningIs(caller.o) /\ tuning.patched = {"grade"}
          [] caller.at = "main"  -> TuningIs(caller.o) /\ tuning.patched = {}
          [] OTHER -> tuning = Clean

\* "it is applied through TuningScope so confluence_score reads it live": a window
\* of a grid search is scored with the weights the search tries.  The scope that
\* relaxes the filters, built from the defaults, covers them.
WeightsApplied ==
    (caller.at = "grid" /\ job.pc = "score") =>
        get_tuning.confluence_weights = caller.o.confluence_weights

\* A signal stays executable after its stop was moved a second time: stop, entry
\* and targets in order, and the stop at most MAX_STOP_BUFFER_MULT ATRs beyond
\* the invalidation point, whatever the multiplier chain.
Executable ==
    signal # None =>
        /\ direction_invariant_ok(signal, signal.entry, signal.stop, signal.tps)
        /\ Abs(signal.stop - signal.invalidation) * 1000 <= MAX_STOP_BUFFER_MULT * signal.atr

\* "Hard gates: TP1 net R >= 1.0 and TP2 net R >= 1.5, otherwise the signal is
\* observation-only": outside the high-quant regime, and without the escape
\* hatch, a tradable signal still meets them at the stop it is sent with,
\* although it was graded at another one.
GatesKept ==
    (signal # None /\ signal.tradable /\ signal.regime # "high_quant" /\ signal.hatch = None) =>
        signal.rr1 >= 10000 /\ signal.rr2 >= 15000 /\ ~signal.wide

\* A scored reference zone never displaces a tradable signal, nor a weaker
\* signal a stronger one of the same grade; what passes the stability check was
\* seen in a second window.
BestKept ==
    (job.pc = "restore" /\ job.out \notin {None, Raised}) =>
        /\ \A i \in DOMAIN job.scored :
              LET s == job.scored[i]
              IN  /\ s.tradable => job.out.tradable
                  /\ s.grade = "A" => job.out.grade = "A"
                  /\ s.grade = job.out.grade => s.score <= job.out.score
        /\ job.out.stability # None => job.out.stability > 20

\* The signal a run sends is executable, keeps the gates it was graded by and is
\* the best of those scored.
SignalSound == Executable /\ GatesKept /\ BestKept
=============================================================================
