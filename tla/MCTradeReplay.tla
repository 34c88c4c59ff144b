--------------------------- MODULE MCTradeReplay ----------------------------
(***************************************************************************)
(* Frames around 100.000 with an ATR near 2: a calm one that ends in a     *)
(* reversal candle, a short one, one of the high-quant regime, one with    *)
(* faked volume, one that fell through the zone, one with a flash crash   *)
(* below which no stop fits.                                               *)
(***************************************************************************)
EXTENDS TradeReplay

B(open, high, low, close, vol) == [o |-> open, h |-> high, l |-> low, c |-> close, v |-> vol]
Up == B(99800, 101200, 99200, 100200, 10)
Down == B(100200, 100800, 98800, 99800, 9)
Hammer == B(100000, 100300, 98300, 100200, 20)
Calm(n) == [i \in 1..n |-> IF i % 2 = 1 THEN Up ELSE Down]
Crash(n) == [i \in 1..n |-> IF i = 55 THEN B(99800, 101200, 500, 100200, 10) ELSE Calm(n)[i]]

Jump == B(100900, 102000, 98700, 100700, 16)
Fall == B(99600, 100800, 98800, 99800, 6)
Quant(n) == [i \in 1..n |-> IF i % 2 = 1 THEN Jump ELSE Fall]
Fake(n) == [i \in 1..n |-> IF i % 4 = 0 THEN [Down EXCEPT !.v = 40] ELSE IF i % 2 = 1 THEN [Up EXCEPT !.v = 1] ELSE [Down EXCEPT !.v = 1]]

MCFrame ==
    <<Append(Append(Calm(60), Hammer), Up),
      Append(Calm(40), Hammer),
      Append(Append(Quant(60), Hammer), Up),
      Append(Append(Fake(60), Hammer), Up),
      Append(Append(Calm(60), B(99500, 99600, 98200, 98500, 11)), Up),
      Append(Append(Crash(60), Hammer), Up)>>

Mkt(g, l, trend, tails_) ==
    [gain |-> g, loss |-> l, rising |-> TRUE,
     htf |-> [known |-> trend # 0, bars |-> 60, fast |-> 100 + trend, slow |-> 100],
     rets |-> [n |-> 20, mean |-> 0, std |-> 1], tails |-> tails_,
     daily |-> [n |-> 210 + trend, price |-> 100 + 30 * trend, ema |-> 100, old |-> 99],
     macd |-> [line |-> -1, hist |-> 1, prev |-> 0],
     divs |-> [rsi |-> {<<"Regular", TRUE>>}, macd |-> {}]]
MCMarket == {Mkt(1, 2, 1, 2), Mkt(1, 1, 0, 0), [Mkt(2, 1, -1, 0) EXCEPT !.rets.mean = -2]}

P(name_, up, done, x_, a_, lo, hi, at) ==
    [numeric |-> TRUE, points |-> 4, family |-> "XABCD", name |-> name_, bullish |-> up, formed |-> done,
     x |-> x_, a |-> a_, cmin |-> lo, cmax |-> hi, pos |-> at]
Bat == P("bat", TRUE, TRUE, 93600, 108500, 99000, 101000, <<5, 10, 20, 50>>)
Crab == P("crab", TRUE, FALSE, 97000, 112000, 99200, 100900, <<5, 10, 20, 50>>)
Bear == P("gartley", FALSE, TRUE, 104000, 90000, 99000, 101000, <<5, 10, 20, 55>>)
Wide == P("bat", TRUE, FALSE, 93600, 120000, 97000, 102000, <<5, 10, 20>>)
MCDetection ==
    {<<>>, <<Bat>>, <<Crab>>, <<Bear>>, <<Wide>>, <<[Bat EXCEPT !.numeric = FALSE]>>,
     <<[Bat EXCEPT !.a = 200000]>>, <<[Bat EXCEPT !.x = 500]>>, <<Bat, Crab>>, <<Wide, Bat, Bear>>}

MCOverride ==
    {[a_grade_min |-> 60], [tp_close_pcts |-> <<50, 30, 30>>],
     [confluence_weights |-> [price_action |-> 35, htf_trend |-> 35, rsi |-> 10, structure |-> 10,
                              macd |-> 5, funding |-> 5]]}
=============================================================================
