----------------------------- MODULE MarketFeed -----------------------------
(***************************************************************************)
(* What the market-data code computes: the bounded in-memory cache, the    *)
(* choice of a source for candles with its retries, the paged download of  *)
(* a window of candles, and the quotes of a watchlist.  A candle is its    *)
(* open time, and a quote the price of the ticker and of the premium       *)
(* index.                                                                  *)
(*                                                                         *)
(* The file-backed list of futures symbols.  Every server process has a    *)
(* FuturesSymbolsCache: a request reads the file, and fetches the list     *)
(* itself when there is none it can read; a list that is a week old is     *)
(* refreshed by a background thread, and an admin refreshes it at once.    *)
(* All of them write one temporary file and rename it.                     *)
(*                                                                         *)
(* Files are inodes, as a descriptor outlives the rename; a list is the    *)
(* number of the exchange's listing it was fetched from.                   *)
(***************************************************************************)
EXTENDS Integers, Sequences, SequencesExt, FiniteSets, FiniteSetsExt

CONSTANTS
    None,        \* no value
    CacheSize,   \* max_size of a MemoryCache
    KlineTtl,    \* KLINE_CACHE_TTL_SECONDS
    MaxRetries,  \* retries of one request
    PageSize     \* MAX_CANDLES of one request

ASSUME PageAssumption == PageSize \in Nat \ {0}

-----------------------------------------------------------------------------
(* app/infra/memory_cache.py.  A cache is the set of its entries, of which *)
(* used gives the order.                                                   *)

Without(c, k) == {e \in c : e.key # k}
Newest(c) == Max({0} \cup {e.used : e \in c}) + 1
With(c, k, v, x) == c \cup {[key |-> k, value |-> v, expires |-> x, used |-> Newest(c)]}

\* MemoryCache.get: a value that has not expired moves to the end.
Lives(e, now) == now <= e.expires
cache_get(c, k, now) ==
    LET e == CHOOSE e \in c : e.key = k
    IN  IF Without(c, k) = c THEN [value |-> None, cache |-> c]
        ELSE IF ~Lives(e, now) THEN [value |-> None, cache |-> Without(c, k)]
        ELSE [value |-> e.value, cache |-> With(Without(c, k), k, e.value, e.expires)]

\* MemoryCache.set evicts from the front.
Evicted(c) == {e \in c : Cardinality({f \in c : f.used > e.used}) < CacheSize}
cache_set(c, k, v, now) == Evicted(With(Without(c, k), k, v, now + KlineTtl))

\* The same two over Redis: setex drops the key itself and nothing is evicted.
redis_get(c, k, now) ==
    LET found == {e \in c : e.key = k /\ now < e.expires}
    IN  [value |-> IF found = {} THEN None ELSE (CHOOSE e \in found : TRUE).value, cache |-> c]
redis_set(c, k, v, now) == With(Without(c, k), k, v, now + KlineTtl)

\* KLineCache._get_raw, _set_raw.
kline_get(redis, c, k, now) == IF redis THEN redis_get(c, k, now) ELSE cache_get(c, k, now)
kline_set(redis, c, k, v, now) == IF redis THEN redis_set(c, k, v, now) ELSE cache_set(c, k, v, now)

-----------------------------------------------------------------------------
(* app/infra/tradingview_adapter.py, marketdata.py, pyharmonics_adapter.py *)

\* _request_with_retry: the outcome of the last attempt made.
Transient == {"retry", "451"}
Attempts == [1..(MaxRetries + 1) -> {"ok", "fatal"} \cup Transient]
request_with_retry(outs) ==
    LET final == {i \in DOMAIN outs : outs[i] \notin Transient}
    IN  outs[IF final = {} THEN Len(outs) ELSE Min(final)]

\* DirectBinanceCandleData.get_candles: a region that is blocked asks the other
\* host; the futures class has no other.
get_candles(market, com, us) ==
    IF market = "binance" /\ request_with_retry(com) = "451" THEN request_with_retry(us)
    ELSE request_with_retry(com)

\* tradingview_adapter.fetch_candles: anything but candles is an error.
BridgeReplies == {"unreachable", "error", "no_candles", "candles"}
fetch_candles(enabled, reply) == enabled /\ reply = "candles"

\* fetch_market_data without the cache: TradingView when it is healthy and
\* answers, else the exchange.
SourceOf(healthy, tvAnswers, legacy) ==
    IF healthy /\ tvAnswers THEN "tradingview" ELSE IF legacy = "ok" THEN "binance" ELSE None

-----------------------------------------------------------------------------
\* Mutated forms; no specification uses them.
EstimatedCandles_short(start, end, ms) == Max({(end - start) \div ms, 1})
-----------------------------------------------------------------------------

\* The members of s at the places I, in order.
Filtered(s, I) ==
    LET F[i \in 0..Len(s)] == IF i = 0 THEN <<>>
                              ELSE IF i \in I THEN Append(F[i - 1], s[i]) ELSE F[i - 1]
    IN  F[Len(s)]
LastOf(s, n) == SubSeq(s, Max({1, Len(s) - n + 1}), Len(s))

\* A page: what the exchange has up to end, at most limit candles of it.
Page(data, limit, end) == LastOf(Filtered(data, {i \in DOMAIN data : data[i] <= end}), limit)

\* _fetch_paginated, backwards in time: what is collected after i requests and
\* where the next one ends.  Every request but the last adds a candle.
NextEnd(batch) == batch[1] - 1
NextPage(data, start, n, was) ==
    LET size  == Min({n - Len(was.rows), PageSize})
        page  == Page(data, size, was.end)
        batch == Filtered(page, {i \in DOMAIN page : page[i] >= start})
    IN  IF was.over \/ size = 0 THEN was
        ELSE IF batch = <<>> THEN [was EXCEPT !.over = TRUE]
        ELSE [rows |-> batch \o was.rows, end |-> NextEnd(batch),
              over |-> Len(batch) < size \/ NextEnd(batch) < start]
fetch_paginated(data, start, end, n) ==
    LET Pages[i \in 0..n] == IF i = 0 THEN [rows |-> <<>>, end |-> end, over |-> FALSE]
                             ELSE NextPage(data, start, n, Pages[i - 1])
    IN  Pages[n].rows

\* fetch_historical_data for Binance.  The TradingView branch before it asks for
\* a column that its frame no longer has, raises and falls through.
MAX_RANGE == 50000
EstimatedCandles(start, end, ms) == Max({(end - start) \div ms, 1}) + 1
fetch_binance_range(data, start, end, ms) ==
    LET n == Min({EstimatedCandles(start, end, ms), MAX_RANGE})
    IN  LastOf(fetch_paginated(data, start, end, n), n)

-----------------------------------------------------------------------------
(* app/infra/futures_quote.py *)

\* The first of equal symbols is kept.
filter_known_symbols(asked, whitelist) ==
    LET allowed == {i \in DOMAIN asked : asked[i] \in whitelist}
    IN  [known   |-> Filtered(asked, {i \in allowed : \A j \in 1..(i - 1) : asked[j] # asked[i]}),
         unknown |-> Filtered(asked, DOMAIN asked \ allowed)]

\* _get_with_retry: a rate limit or a network error is tried again, an HTTP
\* error or bad JSON is not.
QuoteAttempts == [1..MaxRetries -> {"ok", "limited", "http", "badjson"}]
get_with_retry(outs) ==
    LET final == {i \in DOMAIN outs : outs[i] # "limited"}
    IN  final # {} /\ outs[Min(final)] = "ok"

\* parse_quotes_payload: rows of other symbols are skipped, a field that does
\* not parse keeps what it had.
Field(rows, s) ==
    LET parsed == {i \in DOMAIN rows : rows[i].symbol = s /\ rows[i].value # None}
    IN  IF parsed = {} THEN None ELSE rows[Max(parsed)].value
parse_quotes_payload(known, ticker, premium) ==
    [s \in ToSet(known) |-> [last |-> Field(ticker, s), mark |-> Field(premium, s)]]

-----------------------------------------------------------------------------
(* app/infra/futures_symbols_cache.py *)

CONSTANTS
    Proc,        \* server processes
    Thread,      \* their threads: <<process, role>>, of "request", "background", "admin"
    MaxListing,  \* bound: listings of the exchange
    MaxInode,    \* bound: files ever created
    MaxGets      \* bound: requests of one process

\* There is always a free inode.
ASSUME SymbolsAssumption ==
    /\ IsFiniteSet(Thread) /\ Thread \subseteq Proc \X {"request", "background", "admin"}
    /\ MaxListing \in Nat /\ MaxGets \in Nat
    /\ MaxInode \in Nat /\ MaxInode > Cardinality(Thread)

NoInode == 0
Torn == -1       \* the contents of a file that is being written
Nothing == -2    \* no answer yet
Empty == -3      \* the empty list

VARIABLES
    listing,     \* what the exchange lists now
    path, tmp,   \* the inodes of futures_symbols.json and of its .tmp
    disk,        \* the contents of every inode
    stale,       \* the file is older than a week
    step,        \* where each thread is
    got,         \* the list a thread has fetched
    fd,          \* the file a thread writes
    refreshing,  \* _refresh_in_progress of each process
    answer,      \* the last answer to a request of each process
    unserved,    \* history: processes whose last request's own fetch failed
    gets         \* requests made

cacheVars == <<listing, path, tmp, disk, stale, step, got, fd, refreshing, answer, unserved, gets>>

\* The thread that holds self._lock of its process.
Locked(p) == \E t \in Thread : /\ t[1] = p /\ t[2] # "request"
                              /\ step[t] \in {"fetch", "open", "write", "replace"}

CacheInit ==
    /\ listing = 1 /\ tmp = NoInode /\ stale \in BOOLEAN
    /\ \/ path = NoInode /\ disk = [i \in 1..MaxInode |-> NoInode]
       \/ path = 1 /\ disk = [i \in 1..MaxInode |-> IF i = 1 THEN 1 ELSE NoInode]
    /\ step = [t \in Thread |-> "idle"]
    /\ got = [t \in Thread |-> Nothing]
    /\ fd = [t \in Thread |-> NoInode]
    /\ refreshing = [p \in Proc |-> FALSE]
    /\ answer = [p \in Proc |-> Nothing]
    /\ unserved = {}
    /\ gets = [p \in Proc |-> 0]

At(t, s) == step' = [step EXCEPT ![t] = s]

-----------------------------------------------------------------------------
\* Mutated forms; no specification uses them.
Readable_any(i) == i # NoInode
RefreshOver_kept(t) == UNCHANGED refreshing
-----------------------------------------------------------------------------

\* get, _ensure_loaded: a file that cannot be parsed counts as none, and the
\* list is then fetched in the request.
Readable(i) == i # NoInode /\ disk[i] # Torn
Get(p) ==
    LET t == <<p, "request">> IN
    /\ step[t] = "idle" /\ gets[p] < MaxGets
    /\ gets' = [gets EXCEPT ![p] = @ + 1] /\ unserved' = unserved \ {p}
    /\ IF path = NoInode THEN At(t, "fetch") /\ answer' = [answer EXCEPT ![p] = Nothing]
       ELSE IF ~Readable(path) THEN At(t, "fetch") /\ answer' = [answer EXCEPT ![p] = Nothing]
       ELSE At(t, "loaded") /\ answer' = [answer EXCEPT ![p] = disk[path]]
    /\ UNCHANGED <<listing, path, tmp, disk, stale, got, fd, refreshing>>

\* _should_refresh and _kick_background_refresh, which waits for the lock.
ShouldRefresh(p) == ~refreshing[p] /\ (path = NoInode \/ stale)
Kick(p) ==
    LET t == <<p, "request">>
        b == <<p, "background">>
    IN
    /\ step[t] = "loaded"
    /\ IF ShouldRefresh(p)
       THEN /\ ~Locked(p)
            /\ refreshing' = [refreshing EXCEPT ![p] = TRUE]
            /\ step' = [step EXCEPT ![t] = "idle", ![b] = "start"]
       ELSE At(t, "idle") /\ UNCHANGED refreshing
    /\ UNCHANGED <<listing, path, tmp, disk, stale, got, fd, answer, unserved, gets>>

\* refresh takes the lock; an admin may call it once.
Lock(t) ==
    /\ <<t[2], step[t]>> \in {<<"background", "start">>, <<"admin", "idle">>}
    /\ ~Locked(t[1])
    /\ At(t, "fetch")
    /\ UNCHANGED <<listing, path, tmp, disk, stale, got, fd, refreshing, answer, unserved, gets>>

\* The finally block of _background_worker.
RefreshOver(t) ==
    IF t[2] = "background" THEN refreshing' = [refreshing EXCEPT ![t[1]] = FALSE] ELSE UNCHANGED refreshing
Done(t) == At(t, CASE t[2] = "request" -> "loaded" [] t[2] = "background" -> "idle" [] OTHER -> "done")

Fetch(t) ==
    /\ step[t] = "fetch"
    /\ got' = [got EXCEPT ![t] = listing]
    /\ At(t, "open")
    /\ UNCHANGED <<listing, path, tmp, disk, stale, fd, refreshing, answer, unserved, gets>>

\* The exchange does not answer: a request then has the empty list.
FetchFails(t) ==
    /\ step[t] = "fetch"
    /\ Done(t) /\ RefreshOver(t)
    /\ IF t[2] = "request"
       THEN answer' = [answer EXCEPT ![t[1]] = Empty] /\ unserved' = unserved \cup {t[1]}
       ELSE UNCHANGED <<answer, unserved>>
    /\ UNCHANGED <<listing, path, tmp, disk, stale, got, fd, gets>>

\* A file that has no name and that nobody has open is gone.
Kept(d) == [i \in 1..MaxInode |-> IF i \in {path', tmp'} \/ \E t \in Thread : fd'[t] = i THEN d[i] ELSE NoInode]

\* _write: open truncates whatever the name has now.
Free == 1..MaxInode \ ({path, tmp} \cup {fd[t] : t \in Thread})
OpenTmp(t) ==
    /\ step[t] = "open"
    /\ tmp' = IF tmp = NoInode THEN CHOOSE i \in Free : TRUE ELSE tmp
    /\ disk' = [disk EXCEPT ![tmp'] = Torn] /\ fd' = [fd EXCEPT ![t] = tmp']
    /\ At(t, "write")
    /\ UNCHANGED <<listing, path, stale, got, refreshing, answer, unserved, gets>>

\* Over the longer text of another thread a shorter one leaves a tail.
WriteTmp(t) ==
    /\ step[t] = "write"
    /\ UNCHANGED tmp /\ UNCHANGED path
    /\ fd' = [fd EXCEPT ![t] = NoInode]
    /\ \E c \in IF disk[fd[t]] = Torn THEN {got[t]} ELSE {got[t], Torn} : disk' = Kept([disk EXCEPT ![fd[t]] = c])
    /\ stale' = (stale /\ fd[t] # path)
    /\ At(t, "replace")
    /\ UNCHANGED <<listing, got, refreshing, answer, unserved, gets>>

\* os.replace, of whatever the name has now; its failure is logged.
Replace(t) ==
    /\ step[t] = "replace"
    /\ IF tmp = NoInode THEN UNCHANGED <<path, tmp, stale>>
       ELSE path' = tmp /\ tmp' = NoInode /\ stale' = FALSE
    /\ UNCHANGED fd /\ disk' = Kept(disk)
    /\ Done(t) /\ RefreshOver(t)
    /\ answer' = IF t[2] = "request" THEN [answer EXCEPT ![t[1]] = got[t]] ELSE answer
    /\ got' = [got EXCEPT ![t] = Nothing]
    /\ UNCHANGED <<listing, unserved, gets>>

\* A week passes; the exchange lists another symbol.
Week ==
    /\ path # NoInode /\ ~stale
    /\ stale' = TRUE
    /\ UNCHANGED <<listing, path, tmp, disk, step, got, fd, refreshing, answer, unserved, gets>>
NewListing ==
    /\ listing < MaxListing
    /\ listing' = listing + 1
    /\ UNCHANGED <<path, tmp, disk, stale, step, got, fd, refreshing, answer, unserved, gets>>

Work(t) == Lock(t) \/ Fetch(t) \/ FetchFails(t) \/ OpenTmp(t) \/ WriteTmp(t) \/ Replace(t)
CacheNext ==
    \/ \E p \in Proc : Get(p) \/ Kick(p)
    \/ \E t \in Thread : Work(t)
    \/ Week \/ NewListing

-----------------------------------------------------------------------------
(* Properties *)

\* However the writers share the temporary file, a request gets a list that the
\* exchange had in full; it is empty only when the request's own fetch failed.
MayAnswer(p) == answer[p] \in {Nothing} \cup 1..listing \/ (answer[p] = Empty /\ p \in unserved)
ServesSnapshot == \A p \in Proc : MayAnswer(p)

\* A refresh that began is over some time, failed or not: a flag that stayed set
\* would keep the process on its old list for ever.
RefreshEnds == \A p \in Proc : refreshing[p] ~> ~refreshing[p]
=============================================================================
