---------------------------- MODULE MCStrategies ----------------------------
(* Instances of the two strategy components for TLC.  They share nothing:  *)
(* a behaviour is one of the lifecycle or one of the RSI backtest, and the *)
(* other component stands still.                                           *)
EXTENDS FtStrategy, RsiBacktest, TLC

VARIABLE component  \* "lifecycle" or "rsi"

(* Two requests at a time on one strategy.                                 *)
MCRequests == {"r1", "r2"}
MCReports == {"rep"}
MCFindings == {"TODO", "found", "other"}
MCDocuments == {[length |-> 200, sections |-> REQUIRED_SECTIONS],
                [length |-> 199, sections |-> REQUIRED_SECTIONS]}

Regimes(s, c) == {[sharpe |-> s, calmar |-> c], [sharpe |-> s + 100, calmar |-> c]}
Sound == [sharpe |-> 900, max_dd |-> 312, calmar |-> 1500, win_rate |-> 500,
          profit_pct |-> 50, trades |-> 30, per_timerange |-> Regimes(0, 1000)]
Crashed == [Sound EXCEPT !.max_dd = 313]
MCResults == {Sound, Crashed}

(* A strategy that does not exist yet; one at its second version, analyzed,*)
(* with a sound result, a closed shadow window and a drafted report; one   *)
(* that two rounds left unchanged.                                         *)
Row(status, last, stag) ==
    [status |-> status, version |-> 2, last |-> last, stag |-> stag, result |-> Sound]
MCPasts ==
    {[strat |-> NoRow, log |-> <<>>, reports |-> [i \in MCReports |-> NoRow]],
     [strat |-> Row("analyzed", "shadow_end", 0), log |-> <<"create", "evolve", "shadow_end">>,
      reports |-> [i \in MCReports |-> [status |-> "draft", finding |-> None, published |-> FALSE]]],
     [strat |-> Row("analyzed", "stable", 2), log |-> <<"create", "evolve", "stable", "stable">>,
      reports |-> [i \in MCReports |-> NoRow]]}

(* Bars around 100 with an ATR of 4 that cross, touch and gap through the  *)
(* levels of a long at 104 and a short at 96, and bars at the edges: no    *)
(* volatility, no RSI, an entangled average.                               *)
Bar(o, h, l, c, r, e, a) ==
    [open |-> o, high |-> h, low |-> l, close |-> c, rsi |-> r, ema200 |-> e,
     ema50 |-> (c + e) \div 2, atr |-> a]

MCBars ==
    {Bar(100, 104, 99, 101, 30, 100, 4),      \* in the zone
     Bar(101, 105, 102, 104, 45, 98, 4),      \* long cross
     Bar(101, 105, 99, 99, 80, 104, 4),       \* overbought, under the average
     Bar(98, 99, 95, 96, 60, 102, 4),         \* short cross
     Bar(104, 126, 97, 103, 75, 98, 4),       \* first target of the long, deep low
     Bar(104, 130, 80, 101, 50, 98, 4),       \* target and stop in one bar
     Bar(96, 97, 74, 95, 25, 102, 4),         \* first target of the short
     Bar(104, 112, 103, 111, 72, 98, 2),      \* runs on
     Bar(104, 104, 104, 104, NaN, 104, 0)}    \* flat

P(part, trail, ttl, ema, rr, zone) ==
    [partial_mode |-> part, trailing_stop |-> trail, ttl_bars |-> ttl, exit_ema |-> ema,
     reward_risk |-> rr, rsi_zone |-> zone, use_ema50 |-> FALSE, require_candle_color |-> FALSE,
     atr_mult |-> 2, min_quality_score |-> 0, short_rsi_min |-> 65]

MCParams == {P(FALSE, FALSE, 0, "ema200", 2, "extreme"), P(TRUE, TRUE, 2, "ema200", 2, "extreme"),
             P(TRUE, FALSE, 0, "ema50", 1, "extreme"),
             [P(FALSE, FALSE, 0, "ema200", 2, "pullback") EXCEPT !.require_candle_color = TRUE, !.use_ema50 = TRUE]}

MCAccounts == {[capital |-> 10000, emergency |-> 10, altcoin |-> 20]}

AtRest == <<params, account, bar>> = CHOOSE x \in Params \X Accounts \X Bars : TRUE

StrategiesInit ==
    /\ Init /\ RsiInit
    /\ \/ component = "lifecycle" /\ AtRest
       \/ component = "rsi" /\ strat = NoRow

Lifecycle == component = "lifecycle" /\ Next /\ UNCHANGED <<component, rsiVars>>
Backtest == component = "rsi" /\ RsiNext /\ UNCHANGED <<component, vars>>

StrategiesSpec == StrategiesInit /\ [][Lifecycle \/ Backtest]_<<component, vars, rsiVars>>
=============================================================================
