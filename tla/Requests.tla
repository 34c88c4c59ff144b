------------------------------ MODULE Requests ------------------------------
(***************************************************************************)
(* The request side of the service, in parts that share no state (part,    *)
(* fixed at the start): the analyze route with its rate limiter, with      *)
(* ("analyze") and without ("limit") what follows an admission, the list   *)
(* of futures symbols ("symbols"), the downloads of candles and quotes     *)
(* ("feeds"), and the stores of the chat ("chat", "events").               *)
(***************************************************************************)
EXTENDS AnalyzeRoute, VibeStores

CONSTANTS
    Parts,       \* the parts checked
    AnalyzeTime, \* bound: ticks of a part "analyze"
    Candle,      \* milliseconds of a candle
    History,     \* candles the exchange has
    Starts, Ends,\* windows asked for
    Symbol,      \* symbols
    Asked,       \* lists of symbols asked for
    Prices       \* prices in a payload

ASSUME FeedsAssumption ==
    /\ Candle \in Nat \ {0} /\ History \in Nat /\ Starts \subseteq Int /\ Ends \subseteq Int
    /\ IsFiniteSet(Symbol) /\ Asked \subseteq Seq(Symbol)

VARIABLES part, feed
vars == <<part, feed, routeVars, cacheVars, storeVars>>

Init ==
    /\ part \in Parts
    /\ feed = [kind |-> "none"]
    /\ RouteInit
    /\ IF part = "symbols" THEN CacheInit
       ELSE CacheInit /\ stale = FALSE /\ path = NoInode
    /\ StoresInit /\ (part # "chat" => backend = "redis")

-----------------------------------------------------------------------------
\* A backtest's window of candles; an empty one is an error.
Opens == [i \in 1..History |-> (i - 1) * Candle]
Backtest ==
    /\ feed.kind = "none"
    /\ \E s \in Starts, e \in Ends, outs \in Attempts :
        /\ s < e
        /\ feed' = LET window == fetch_binance_range(Opens, s, e, Candle)
                   IN  IF request_with_retry(outs) # "ok" THEN [kind |-> "error"]
                       ELSE IF window = <<>> THEN [kind |-> "error"]
                       ELSE [kind |-> "range", start |-> s, end |-> e, rows |-> window]
    /\ UNCHANGED <<routeVars, cacheVars, storeVars>>

\* batch_quotes; both payloads have a row for every symbol, or none for one.
Payload == UNION {[D -> Prices] : D \in SUBSET Symbol}
RowsOf(pay) == [i \in 1..Cardinality(DOMAIN pay) |->
                  LET s == SetToSeq(DOMAIN pay)[i] IN [symbol |-> s, value |-> pay[s]]]
MAX_QUOTE_SYMBOLS == 3
BatchQuotes ==
    /\ feed.kind = "none"
    /\ \E asked \in Asked, listed \in SUBSET Symbol, tick, prem \in Payload, o1, o2 \in QuoteAttempts :
        LET split  == filter_known_symbols(asked, listed)
            quotes == parse_quotes_payload(split.known, RowsOf(tick), RowsOf(prem))
            up     == split.known = <<>> \/ (get_with_retry(o1) /\ get_with_retry(o2))
        IN  feed' = IF Len(asked) \notin 1..MAX_QUOTE_SYMBOLS THEN [kind |-> "error"]
                    ELSE IF ~up THEN [kind |-> "error"]
                    ELSE [kind |-> "quotes", asked |-> asked, tick |-> tick, unknown |-> split.unknown,
                          quotes |-> [i \in DOMAIN split.known |-> <<split.known[i], quotes[split.known[i]]>>]]
    /\ UNCHANGED <<routeVars, cacheVars, storeVars>>

\* A request has more states where it goes on.
RequestsOf == IF part = "limit" THEN Request ELSE 1..2
AnalyzeNext ==
    \/ \E r \in RequestsOf, p \in Server, k \in Keys : Ask(r, p, k)
    \/ \E r \in Request : LimitStep(r) \/ (part = "analyze" /\ RouteStep(r))
    \/ \E p \in Server : Restart(p)
    \/ (part = "analyze" => now < AnalyzeTime) /\ Tick

Next ==
    /\ UNCHANGED part
    /\ \/ part \in {"limit", "analyze"} /\ AnalyzeNext /\ UNCHANGED <<feed, cacheVars, storeVars>>
       \/ part = "symbols" /\ CacheNext /\ UNCHANGED <<feed, routeVars, storeVars>>
       \/ part = "feeds" /\ Backtest
       \/ part = "feeds" /\ BatchQuotes
       \/ part = "chat" /\ SessionNext /\ UNCHANGED <<feed, routeVars, cacheVars>>
       \/ part = "events" /\ EventNext /\ UNCHANGED <<feed, routeVars, cacheVars>>

Spec == Init /\ [][Next]_vars
\* The threads of the symbol cache run on; the download has a timeout.
FairSpec ==
    Spec /\ \A t \in Thread :
                WF_vars(part = "symbols" /\ Work(t) /\ UNCHANGED <<part, feed, routeVars, storeVars>>)

-----------------------------------------------------------------------------
(* Properties *)

\* What the caches serve is what the exchange had: candles within their time to
\* live, and a whole list of symbols.
CachesHonest == CandlesFresh /\ ServesSnapshot

Due(start, end) == {t \in ToSet(Opens) : start <= t /\ t <= end}
\* A window that is downloaded page by page has every candle of the exchange
\* from its start to its end, once and in order, or the latest of them when they
\* are more than the cap; and every symbol of a quotes
\* request is answered once, with its own last price, or named as unknown.
FeedsComplete ==
    CASE feed.kind = "range"  ->
           /\ \A i, j \in DOMAIN feed.rows : i < j => feed.rows[i] < feed.rows[j]
           /\ ToSet(feed.rows) \subseteq Due(feed.start, feed.end)
           /\ \A t \in Due(feed.start, feed.end) \ ToSet(feed.rows) :
                Len(feed.rows) = MAX_RANGE /\ t < feed.rows[1]
      [] feed.kind = "quotes" ->
           /\ \A s \in ToSet(feed.asked) :
                Cardinality({i \in DOMAIN feed.quotes : feed.quotes[i][1] = s}) = IF s \in ToSet(feed.unknown) THEN 0 ELSE 1
           /\ \A i \in DOMAIN feed.quotes :
                LET s == feed.quotes[i][1]
                IN  feed.quotes[i][2].last = IF s \in DOMAIN feed.tick THEN feed.tick[s] ELSE None
      [] OTHER -> TRUE

-----------------------------------------------------------------------------
(* Values of the instances *)

MCAsked == {<<>>, <<"S1">>, <<"S1", "S2", "S1">>, <<"S2", "S2">>, <<"S1", "S1", "S2", "S2">>}
MCThread == ({"w1", "w2"} \X {"request", "background"}) \cup {<<"w1", "admin">>}
=============================================================================
