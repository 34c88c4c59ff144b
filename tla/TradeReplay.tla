---------------------------- MODULE TradeReplay -----------------------------
(***************************************************************************)
(* From a signal to the end of its trade: the pipeline of SignalEngine     *)
(* hands a signal over, and every following bar is given to the position   *)
(* manager and to the two trade simulators of the repository, the one of   *)
(* the walk-forward library (simulate_one over simulate_trades) and the    *)
(* one of run_backtest_v3.py (_simulate_trade).                            *)
(***************************************************************************)
EXTENDS SignalEngine

CONSTANTS MaxBars,   \* bound: bars in the forward window
          CdLegs     \* lengths of the CD leg

VARIABLES
    pos,     \* the position of the position manager
    trade,   \* the levels of the signal being replayed
    eng,     \* simulate_one
    sim,     \* _simulate_trade
    fed      \* bars replayed so far

tradeVars == <<pos, trade, eng, sim, fed>>
vars == <<engineVars, tradeVars>>

-----------------------------------------------------------------------------
(* app/services/position_manager.py: an open position advanced bar by bar. *)
(* TP1 closes 50 % and moves the stop to the entry, TP2 closes 30 % and    *)
(* moves it to TP1, TP3 closes the rest; from TP1 on the stop trails the   *)
(* best price by k ATRs; after 1.5 times the CD leg the position is closed *)
(* whatever the price.  Sizes are in tenths.                               *)

Flat == [closed |-> TRUE, close_reason |-> "flat"]

\* At or beyond y, in the direction the trade profits from.
Gain(bullish, x, y) == IF bullish THEN x >= y ELSE x <= y

\* PositionState.__post_init__, and the order build_signal guarantees.
ValidSetup(p) ==
    /\ {p.entry_price, p.initial_stop, p.tp1, p.tp2, p.tp3, p.atr} \subseteq Nat \ {0}
    /\ p.cd_leg_bars >= 0
    /\ Gain(p.bullish, p.entry_price, p.initial_stop)
    /\ Gain(p.bullish, p.tp1, p.entry_price)
    /\ Gain(p.bullish, p.tp2, p.tp1) /\ Gain(p.bullish, p.tp3, p.tp2)

Opened(p) ==
    [bullish |-> p.bullish, entry_price |-> p.entry_price, current_stop |-> p.initial_stop,
     tp1 |-> p.tp1, tp2 |-> p.tp2, tp3 |-> p.tp3, trail |-> 2 * p.atr, cd_leg_bars |-> p.cd_leg_bars,
     bars_held |-> 0, size_remaining |-> 10, tp1_hit |-> FALSE, tp2_hit |-> FALSE,
     closed |-> FALSE, close_reason |-> "", extreme |-> p.entry_price]

tp_hit(bar, tp, bullish) == IF bullish THEN bar.h >= tp ELSE bar.l <= tp
stop_hit(bar, stop, bullish) == IF bullish THEN bar.l <= stop ELSE bar.h >= stop
Best(bar, bullish) == IF bullish THEN bar.h ELSE bar.l

chandelier_stop(p) == IF p.bullish THEN p.extreme - p.trail ELSE p.extreme + p.trail

-----------------------------------------------------------------------------
\* Mutated forms; no specification uses them.
Ratchet_quiet(p, bar) ==
    IF ~p.tp1_hit \/ p.closed \/ p.current_stop = p.tp1 THEN p
    ELSE LET q == [p EXCEPT !.extreme = IF Gain(p.bullish, Best(bar, p.bullish), @) THEN Best(bar, p.bullish) ELSE @]
         IN  IF Gain(p.bullish, chandelier_stop(q), q.current_stop)
             THEN [q EXCEPT !.current_stop = chandelier_stop(q)] ELSE q
Expired_never(p) == FALSE
-----------------------------------------------------------------------------

Close(p, reason) == [p EXCEPT !.closed = TRUE, !.size_remaining = 0, !.close_reason = reason]

Expired(p) == 2 * p.bars_held > 3 * p.cd_leg_bars

\* The targets a bar reaches, in order; TP3 closes the position.
TakeProfits(p, bar) ==
    LET hit1 == p.tp1_hit \/ tp_hit(bar, p.tp1, p.bullish)
        hit2 == hit1 /\ (p.tp2_hit \/ tp_hit(bar, p.tp2, p.bullish))
        hit3 == hit2 /\ tp_hit(bar, p.tp3, p.bullish)
        q == [p EXCEPT !.tp1_hit = hit1, !.tp2_hit = hit2,
                       !.extreme = IF hit1 /\ ~p.tp1_hit THEN Best(bar, p.bullish) ELSE @,
                       !.size_remaining = IF hit2 THEN 2 ELSE IF hit1 THEN 5 ELSE 10,
                       !.current_stop = IF hit2 /\ ~p.tp2_hit THEN p.tp1
                                        ELSE IF hit1 /\ ~p.tp1_hit THEN p.entry_price ELSE @]
    IN  IF hit3 THEN Close(q, "tp3") ELSE q

\* The trailing stop, from the bar that hit TP1 on; it only ever tightens.
Ratchet(p, bar) ==
    IF ~p.tp1_hit \/ p.closed THEN p
    ELSE LET q == [p EXCEPT !.extreme = IF Gain(p.bullish, Best(bar, p.bullish), @) THEN Best(bar, p.bullish) ELSE @]
         IN  IF Gain(p.bullish, chandelier_stop(q), q.current_stop)
             THEN [q EXCEPT !.current_stop = chandelier_stop(q)] ELSE q

\* process_bar: the stop is looked at first, then the time, then the targets.
process_bar(p, bar) ==
    LET q == [p EXCEPT !.bars_held = @ + 1]
    IN  IF p.closed THEN p
        ELSE IF stop_hit(bar, q.current_stop, q.bullish) THEN Close(q, "stop")
        ELSE IF Expired(q) THEN Close(q, "time_stop")
        ELSE Ratchet(TakeProfits(q, bar), bar)

Open(s) == pos.closed /\ ValidSetup(s) /\ pos' = Opened(s)

-----------------------------------------------------------------------------
(* The simulators *)

\* Mutated forms; no specification uses them.
simulate_v3_targets_first(s, tr, bar) ==
    CASE s # "open" -> s
      [] s = "open" /\ tp_hit(bar, tr.tps[1], tr.bullish) -> "tp1"
      [] s = "open" /\ ~tp_hit(bar, tr.tps[1], tr.bullish) /\ stop_hit(bar, tr.stop, tr.bullish) -> "stop_loss"
      [] OTHER -> s
-----------------------------------------------------------------------------

\* Signal.direction, and the comparison simulate_one makes with it.
direction(sig) == IF sig.bullish THEN "long" ELSE "short"
replays_long(sig) == direction(sig) = "bullish"

\* _resolve_exit: the level nearer the entry is taken to come first.
resolve_exit(long, bar, tr) ==
    LET stop   == stop_hit(bar, tr.stop, long)
        target == tp_hit(bar, tr.tps[1], long)
    IN  CASE stop /\ (~target \/ Abs(tr.entry - tr.stop) <= Abs(tr.tps[1] - tr.entry)) -> "loss"
          [] target /\ ~(stop /\ Abs(tr.entry - tr.stop) <= Abs(tr.tps[1] - tr.entry)) -> "win"
          [] OTHER -> "open"

\* simulate_one: levels on the wrong side of the entry are skipped; a trade is
\* entered on the first bar that straddles the entry.  Only the first trade of
\* simulate_trades is kept.
simulate_one(tr) ==
    LET s == IF replays_long(tr) THEN 1 ELSE -1
    IN  IF s * tr.stop < s * tr.entry /\ s * tr.entry < s * tr.tps[1] THEN "waiting" ELSE "skipped"
simulate_trades(e, tr, bar) ==
    CASE e = "waiting" /\ bar.l <= tr.entry /\ tr.entry <= bar.h -> resolve_exit(replays_long(tr), bar, tr)
      [] e = "open" -> resolve_exit(replays_long(tr), bar, tr)
      [] OTHER -> e

\* _simulate_trade: entered at once, the stop before TP1 in the same bar; TP2
\* lies beyond TP1 and is never the exit.
simulate_v3(s, tr, bar) ==
    CASE s # "open" -> s
      [] s = "open" /\ stop_hit(bar, tr.stop, tr.bullish) -> "stop_loss"
      [] s = "open" /\ ~stop_hit(bar, tr.stop, tr.bullish) /\ tp_hit(bar, tr.tps[1], tr.bullish) -> "tp1"
      [] OTHER -> s
-----------------------------------------------------------------------------

Idle == trade = None
Init == EngineInit /\ pos = Flat /\ trade = None /\ eng = "idle" /\ sim = "idle" /\ fed = 0

Build == Idle /\ EngineNext /\ UNCHANGED tradeVars

OpenTrade ==
    /\ Idle /\ job.pc = "idle" /\ signal # None
    /\ \E cd \in CdLegs, entry \in {signal.entry, signal.price} :
          LET tr == [bullish |-> signal.bullish, entry |-> entry, stop |-> signal.stop, tps |-> signal.tps]
          IN  /\ trade' = tr
              /\ eng' = simulate_one(tr)
              /\ Open([bullish |-> signal.bullish, entry_price |-> signal.entry, initial_stop |-> signal.stop,
                          tp1 |-> signal.tps[1], tp2 |-> signal.tps[2], tp3 |-> signal.tps[3],
                          atr |-> signal.atr, cd_leg_bars |-> cd])
    /\ sim' = "open" /\ fed' = 0 /\ signal' = None
    /\ UNCHANGED <<tuning, caller, job, builds>>

\* The prices that tell the simulators apart: each level, and one between TP1
\* and TP2.
Levels(tr) == <<tr.stop, tr.entry, tr.tps[1], (tr.tps[1] + tr.tps[2]) \div 2, tr.tps[2], tr.tps[3]>>
ForwardBar ==
    /\ ~Idle /\ fed < MaxBars /\ ~(pos.closed /\ sim # "open" /\ eng \notin {"waiting", "open"})
    /\ \E i, j \in 1..6 :
          LET a   == Levels(trade)[i]
              b   == Levels(trade)[j]
              bar == [l |-> Min({a, b}), h |-> Max({a, b})]
          IN  /\ i <= j
              /\ pos' = process_bar(pos, bar)
              /\ eng' = simulate_trades(eng, trade, bar)
              /\ sim' = simulate_v3(sim, trade, bar)
    /\ fed' = fed + 1
    /\ UNCHANGED <<engineVars, trade>>

\* The end of the forward window: what is still open is closed there.
EndOfData ==
    /\ ~Idle /\ (fed = MaxBars \/ (pos.closed /\ sim # "open" /\ eng \notin {"waiting", "open"}))
    /\ pos' = Flat /\ trade' = None /\ eng' = "idle" /\ sim' = "idle" /\ fed' = 0
    /\ UNCHANGED engineVars

Next == Build \/ OpenTrade \/ ForwardBar \/ EndOfData
Spec == Init /\ [][Next]_vars /\ WF_vars(ForwardBar)
-----------------------------------------------------------------------------

StopTightens == (~pos.closed /\ ~pos'.closed) => Gain(pos.bullish, pos'.current_stop, pos.current_stop)
\* "Never moves the stop backwards", for the signals the engine builds: from
\* bar to bar the stop of a position that stays open only tightens, also on the
\* bar of TP2, where it is first set to TP1 although the trailing stop may
\* already have been beyond it.
StopNeverRetreats == [][StopTightens]_pos

\* The position manager and _simulate_trade see the same trade: they agree on
\* whether the stop or TP1 came first, until the time stop ends the position.
SimulatorsAgree ==
    (~Idle /\ pos.close_reason # "time_stop") =>
        /\ (sim = "stop_loss") <=> (pos.close_reason = "stop" /\ ~pos.tp1_hit)
        /\ (sim = "tp1") <=> pos.tp1_hit

\* "Time stop: bars_held > 1.5 x CD_leg => forced market close": fed with bars,
\* every position is closed.
PositionCloses == (~pos.closed) ~> pos.closed
=============================================================================
