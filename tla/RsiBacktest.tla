---------------------------- MODULE RsiBacktest ----------------------------
(***************************************************************************)
(* The trend-RSI strategy on one bar (entry signals and their quality, the *)
(* decision of the trading plan with its targets and position size), and   *)
(* its event-driven backtest, one bar a step: a signal is taken when no    *)
(* trade covers its bar, the open trade goes through the exits in their    *)
(* order, and the report is kept up as trades close.                       *)
(*                                                                         *)
(* A bar carries its indicators: open, high, low, close, ema200, ema50,    *)
(* atr (prices) and rsi (NaN when flat).  Side is 1 for long and           *)
(* -1 for short.  Ratios and R are in hundredths, position sizes are       *)
(* quarters, and realised profit is in quarters of a price unit.           *)
(***************************************************************************)
EXTENDS Integers, Sequences, FiniteSets, SequencesExt, FiniteSetsExt

-----------------------------------------------------------------------------
(* The strategy on one bar *)

NaN == -1
LONG == 1
SHORT == -1
OVERSOLD == 30
OVERBOUGHT == 70
RSI_ZONES == [extreme |-> <<30, 70>>, pullback |-> <<40, 60>>]

Least(a, b) == IF a < b THEN a ELSE b
Magnitude(x) == IF x < 0 THEN -x ELSE x

(* 40 for the distance from the trend, 20 for the fast average, 25 for the *)
(* size of the cross, 15 for the colour of the candle.                     *)
signal_quality(side, b, prev) ==
    IF b.atr <= 0 THEN 0
    ELSE Least(100, (Least(Magnitude(b.close - b.ema200), 10 * b.atr) * 4) \div b.atr
                    + (IF side * b.close > side * b.ema50 THEN 20 ELSE 0)
                    + (Least(Magnitude(b.rsi - prev), 20) * 25) \div 20
                    + (IF side * b.close > side * b.open THEN 15 ELSE 0))

(* The RSI leaves the extreme zone in the direction of the trend.          *)
crossed(side, b, prev, zone) ==
    IF side = LONG THEN prev <= RSI_ZONES[zone][1] /\ b.rsi > RSI_ZONES[zone][1]
    ELSE prev >= RSI_ZONES[zone][2] /\ b.rsi < RSI_ZONES[zone][2]

(* Stop behind the bar by atr_mult (in halves), target at reward_risk.     *)
StopOf(side, b, p) ==
    (IF side = LONG THEN b.low ELSE b.high) - side * ((p.atr_mult * b.atr) \div 2)

passes_filters(side, b, prev, p) ==
    /\ p.use_ema50 => side * b.close > side * b.ema50
    /\ p.require_candle_color => side * b.close > side * b.open
    /\ side = SHORT /\ p.short_rsi_min > 0 => prev >= p.short_rsi_min
    /\ side * (b.close - StopOf(side, b, p)) > 0

(* The signal of a bar, as a sequence of none or one: the close is on one  *)
(* side of the average.                                                    *)
detect_signals_core(b, prev, p) ==
    LET fires(side) ==
          /\ NaN \notin {b.rsi, prev, b.atr}
          /\ crossed(side, b, prev, p.rsi_zone)
          /\ side * b.close > side * b.ema200
          /\ passes_filters(side, b, prev, p)
        signal(side) ==
          [side |-> side, entry |-> b.close, stop |-> StopOf(side, b, p),
           target |-> b.close + p.reward_risk * (b.close - StopOf(side, b, p)),
           atr |-> b.atr, quality |-> signal_quality(side, b, prev), age |-> 0]
        kept == {side \in {LONG, SHORT} :
                   fires(side) /\ signal_quality(side, b, prev) >= p.min_quality_score}
    IN IF kept = {} THEN <<>> ELSE <<signal(CHOOSE side \in kept : TRUE)>>

----------------------------------------------------------------------------
(* The trading plan.                                                       *)

DEVIATION_WATCH_PCT == 15
STALE_BARS == 12
QUALITY_HARD_FLOOR == 50
RISK_BY_APPETITE == [conservative |-> 5, balanced |-> 10, aggressive |-> 15]

current_state_core(b) ==
    [trend |-> CASE b.close > b.ema200 -> LONG [] b.close < b.ema200 -> SHORT [] OTHER -> 0,
     deviation |-> ((b.close - b.ema200) * 100) \div b.ema200,
     entangled |-> 2 * Magnitude(b.close - b.ema200) < b.atr]

volatility_regime(b) ==
    CASE b.atr * 1000 < 8 * b.close -> "low"
      [] b.atr * 100 > 3 * b.close -> "high"
      [] OTHER -> "normal"

(* Weights of trend strength, quality, RSI momentum and freshness.         *)
compute_trend_strength(b) ==
    LET aligned == (b.close > b.ema50 /\ b.ema50 > b.ema200) \/ (b.close < b.ema50 /\ b.ema50 < b.ema200)
        strength == (Least(10, (Magnitude(b.close - b.ema200) * 100) \div b.ema200)) * 5
    IN Least(100, (IF aligned THEN 50 ELSE 0)
                  + (IF current_state_core(b).entangled THEN (strength * 4) \div 10 ELSE strength))

compute_confidence(strength, quality, age) ==
    LET fresh == IF age >= 2 * STALE_BARS THEN 0 ELSE 100 - (100 * age) \div (2 * STALE_BARS)
    IN (35 * strength + 30 * quality + 20 * 70 + 15 * fresh) \div 100

(* Does not look at the direction of the signal.                           *)
evaluate_decision_any_side(b, signals) ==
    LET s == current_state_core(b)
    IN CASE s.trend = 0 -> "watch"
         [] Magnitude(s.deviation) >= DEVIATION_WATCH_PCT -> "watch"
         [] s.entangled -> "watch"
         [] signals = <<>> -> "no_trade"
         [] Last(signals).age > STALE_BARS -> "watch"
         [] Last(signals).quality < QUALITY_HARD_FLOOR -> "no_trade"
         [] OTHER -> "trade"

(* The layers in their order; signals is the sequence found so far, each   *)
(* with the number of bars since.                                          *)
evaluate_decision(b, signals) ==
    LET s == current_state_core(b)
        latest == Last(signals)
    IN CASE s.trend = 0 -> "watch"
         [] Magnitude(s.deviation) >= DEVIATION_WATCH_PCT -> "watch"
         [] s.entangled -> "watch"
         [] signals = <<>> -> "no_trade"
         [] latest.side # s.trend -> "no_trade"
         [] latest.age > STALE_BARS -> "watch"
         [] latest.quality < QUALITY_HARD_FLOOR -> "no_trade"
         [] OTHER -> "trade"

(* Twice the price of the three targets, at 1, 2 and 3.5 times the risk.   *)
compute_targets(entry, stop, side) ==
    IF entry = stop THEN <<>>
    ELSE LET risk == Magnitude(entry - stop)
         IN <<2 * entry + side * 2 * risk, 2 * entry + side * 4 * risk, 2 * entry + side * 7 * risk>>

derive_appetite(cfg) ==
    CASE cfg.emergency >= 40 -> "conservative"
      [] cfg.altcoin >= 20 -> "aggressive"
      [] OTHER -> "balanced"

(* Position size; 0 when capital or risk is missing.                       *)
compute_position(entry, stop, capital, appetite, regime) ==
    LET amount == (capital * RISK_BY_APPETITE[appetite]) \div 1000
        size == (amount * entry) \div Magnitude(entry - stop)
    IN IF capital <= 0 \/ entry = stop THEN 0
       ELSE IF regime = "high" THEN size \div 2 ELSE size

(* The plan is for the trend's direction and the latest signal's prices.   *)
build_plan(b, signals, cfg) ==
    LET s == Last(signals)
        side == current_state_core(b).trend
    IN [side |-> side, entry |-> s.entry, stop |-> s.stop,
        targets |-> compute_targets(s.entry, s.stop, side),
        confidence |-> compute_confidence(compute_trend_strength(b), s.quality, s.age),
        size |-> compute_position(s.entry, s.stop, cfg.capital, derive_appetite(cfg),
                                  volatility_regime(b))]
-----------------------------------------------------------------------------
(* The backtest *)

CONSTANTS Bars,      \* the bars the market may produce
          Params,    \* parameter sets: those of the request plus the exits'
          Accounts,  \* position configurations of users
          MaxBars    \* length of the series after the warm-up

VARIABLES params, account,
          bar,         \* the last bar
          n,           \* bars seen since the warm-up
          signals,     \* the signals found, with their age in bars
          pos,         \* the open trade, or Flat
          trades,      \* the closed trades: [r, reason, t1]
          curve,       \* the equity curve: cumulative R at the start and after each trade
          peak, max_dd,
          insight      \* the plan's cached AI text: the bar it is about, 0 for none

rsiVars == <<params, account, bar, n, signals, pos, trades, curve, peak, max_dd, insight>>

ASSUME BacktestAssumption ==
    /\ MaxBars \in Nat
    /\ \A p \in Params :
         /\ p.atr_mult \in 1..6 /\ p.reward_risk \in 1..5 /\ p.min_quality_score \in 0..100
         /\ {p.partial_mode, p.trailing_stop, p.use_ema50, p.require_candle_color} \subseteq BOOLEAN
         /\ p.short_rsi_min \in Int
    /\ \A a \in Accounts : a.capital \in Int

(* A candle is one, prices are in units that half an ATR is a multiple of. *)
ASSUME BarAssumption ==
    \A b \in Bars :
       /\ {b.open, b.high, b.low, b.close, b.ema200, b.ema50, b.rsi} \subseteq Int
       /\ 0 < b.low /\ b.low <= b.close /\ b.close <= b.high /\ b.ema200 > 0
       /\ b.atr \in Nat \cup {NaN} /\ (b.atr # NaN => b.atr % 2 = 0)

Flat == [remaining |-> 0]

RsiInit ==
    /\ params \in Params /\ account \in Accounts
    /\ bar \in Bars /\ n = 0
    /\ signals = <<>> /\ pos = Flat /\ trades = <<>>
    /\ curve = <<0>> /\ peak = 0 /\ max_dd = 0 /\ insight = 0

----------------------------------------------------------------------------
(* The exits of _simulate_one, in the order of the code.  Each is the      *)
(* identity on a trade that is closed already.                             *)

Gain(t, price) == t.side * (price - t.entry)

Exit(t, price, why) ==
    [t EXCEPT !.realized = @ + t.remaining * Gain(t, price), !.remaining = 0, !.reason = why]

Reduce(t, price) ==
    [t EXCEPT !.realized = @ + (t.remaining \div 2) * Gain(t, price),
              !.remaining = t.remaining - t.remaining \div 2]

Worst(t, b) == IF t.side = LONG THEN b.low ELSE b.high
Best(t, b) == IF t.side = LONG THEN b.high ELSE b.low

(* Fills at the extreme of the bar instead of the stop.                    *)
StopLoss_at_worst(t, b) ==
    IF t.remaining > 0 /\ t.side * Worst(t, b) <= t.side * t.stop
    THEN Exit(t, Worst(t, b), "stop_loss") ELSE t

StopLoss(t, b) ==
    IF t.remaining > 0 /\ t.side * Worst(t, b) <= t.side * t.stop
    THEN Exit(t, t.stop, "stop_loss") ELSE t

FirstTarget(t, b, p) ==
    IF t.remaining = 0 \/ t.t1_done \/ t.side * Best(t, b) < t.side * t.target THEN t
    ELSE IF ~p.partial_mode THEN Exit(t, t.target, "target")
    ELSE [Reduce(t, t.target) EXCEPT !.t1_done = TRUE, !.stop = t.entry,
                                     !.trailing = p.trailing_stop]

RsiExtreme(t, b, p) ==
    IF /\ t.remaining > 0 /\ p.partial_mode /\ t.t1_done /\ ~t.rsi_done /\ b.rsi # NaN
       /\ IF t.side = LONG THEN b.rsi > OVERBOUGHT ELSE b.rsi < OVERSOLD
    THEN [Reduce(t, b.close) EXCEPT !.rsi_done = TRUE] ELSE t

Trail(t, b) ==
    LET candidate == b.close - t.side * b.atr
    IN IF t.remaining > 0 /\ t.trailing /\ b.atr # NaN /\ t.side * candidate > t.side * t.stop
       THEN [t EXCEPT !.stop = candidate] ELSE t

TrendFlip(t, b, p) ==
    LET ema == IF p.exit_ema = "ema200" THEN b.ema200 ELSE b.ema50
    IN IF t.remaining > 0 /\ t.side * b.close < t.side * ema
       THEN Exit(t, b.close, "trend_flip") ELSE t

Ttl(t, b, p) ==
    IF t.remaining > 0 /\ p.ttl_bars > 0 /\ t.held >= p.ttl_bars
    THEN Exit(t, b.close, "ttl") ELSE t

(* The stop is looked at before the target of the same bar.                *)
simulate_bar(t, b, p) ==
    Ttl(TrendFlip(Trail(RsiExtreme(FirstTarget(StopLoss(t, b), b, p), b, p), b), b, p), b, p)

(* A trade opened by a signal; on its own bar only the stop counts.        *)
Open(s, b) ==
    StopLoss([side |-> s.side, entry |-> s.entry, risk |-> s.side * (s.entry - s.stop),
              stop |-> s.stop, target |-> s.target, remaining |-> 4, realized |-> 0,
              t1_done |-> FALSE, rsi_done |-> FALSE, trailing |-> FALSE,
              held |-> 0, reason |-> "open"], b)

RMultiple(t) == (100 * t.realized) \div (4 * t.risk)

----------------------------------------------------------------------------
(* The report's running sums when a trade closes.                          *)
Record(t) ==
    /\ trades' = Append(trades, [r |-> RMultiple(t), reason |-> t.reason, t1 |-> t.t1_done])
    /\ LET cumulative == Last(curve) + RMultiple(t) IN
        /\ curve' = Append(curve, cumulative)
        /\ peak' = Max({peak, cumulative})
        /\ max_dd' = Max({max_dd, peak' - cumulative})

(* The scan of the last bars, on the bar that closes.                      *)
scan_core(b) == detect_signals_core(b, bar.rsi, params)

(* A bar: signals are found on every bar, but only one on a bar that no    *)
(* trade covers opens one.                                                 *)
OnBar(b) ==
    /\ n < MaxBars
    /\ bar' = b /\ n' = n + 1
    /\ LET found == scan_core(b)
           t == IF pos.remaining > 0
                THEN simulate_bar([pos EXCEPT !.held = @ + 1], b, params)
                ELSE IF found # <<>> THEN Open(found[1], b) ELSE Flat
       IN /\ signals' = [i \in DOMAIN signals |-> [signals[i] EXCEPT !.age = @ + 1]] \o found
          /\ IF (pos.remaining > 0 \/ found # <<>>) /\ t.remaining = 0
             THEN Record(t) /\ pos' = Flat
             ELSE pos' = t /\ UNCHANGED <<trades, curve, peak, max_dd>>
    /\ UNCHANGED <<params, account, insight>>

(* End of data: what is open is closed at the last close.                  *)
EndOfData ==
    /\ n = MaxBars /\ pos.remaining > 0
    /\ Record(Exit(pos, bar.close, "end_of_data")) /\ pos' = Flat
    /\ UNCHANGED <<params, account, bar, n, signals, insight>>

Decision == evaluate_decision(bar, signals)

(* The AI text of a plan: the cache key has no bar in it, because the      *)
(* request never carries one, so the first text that parses is kept.       *)
ai_insight ==
    /\ Decision \in {"trade", "watch"}
    /\ insight = 0 /\ n > 0
    /\ insight' = n
    /\ UNCHANGED <<params, account, bar, n, signals, pos, trades, curve, peak, max_dd>>

RsiNext == (\E b \in Bars : OnBar(b)) \/ EndOfData \/ ai_insight

RsiSpec == RsiInit /\ [][RsiNext]_rsiVars

----------------------------------------------------------------------------
(* No trade loses more than its initial risk and, closed in one piece, none*)
(* makes more than its target; one that reached its first target in the    *)
(* partial mode keeps half of it less half a risk: the worst the close of  *)
(* that same bar can do.  _simulate_one.                                   *)
TradesBounded ==
    \A i \in DOMAIN trades :
       /\ trades[i].r >= -100
       /\ ~params.partial_mode => trades[i].r <= 100 * params.reward_risk
       /\ trades[i].t1 => trades[i].r >= 50 * params.reward_risk - 50

(* The equity curve adds up the trades, and the reported drawdown is its   *)
(* largest fall between any two closes, the start included.                *)
DrawdownExact ==
    /\ Len(curve) = Len(trades) + 1 /\ curve[1] = 0
    /\ \A i \in DOMAIN trades : curve[i + 1] = curve[i] + trades[i].r
    /\ max_dd = Max(UNION {{curve[i] - curve[j] : j \in i..Len(curve)} : i \in DOMAIN curve})

(* The backtest reports what its rules allow: bounded trades, and the      *)
(* drawdown of the curve they make.                                        *)
BacktestSound == TradesBounded /\ DrawdownExact

(* A plan to trade is consistent although its direction comes from the     *)
(* last bar and its prices from a signal that may be twelve bars old: the  *)
(* stop is on the losing side, the targets climb on the winning one, and a *)
(* stopped position loses no more than the risk the account allows.        *)
PlanSound ==
    Decision = "trade" =>
      LET p == build_plan(bar, signals, account) IN
      /\ p.side * (p.entry - p.stop) > 0
      /\ Len(p.targets) = 3
      /\ p.side * p.targets[1] > p.side * 2 * p.entry
      /\ \A i \in 1..2 : p.side * p.targets[i] < p.side * p.targets[i + 1]
      /\ p.size >= 0
      /\ p.size > 0 => p.size * Magnitude(p.entry - p.stop) * 1000 <= account.capital * p.entry * 15
      /\ p.confidence \in 0..100
=============================================================================
