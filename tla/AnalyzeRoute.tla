---------------------------- MODULE AnalyzeRoute ----------------------------
(***************************************************************************)
(* POST /api/analyze around the quota (which QuotaLedger models): the      *)
(* sliding-window rate limiter of a server process, the idempotency lookup *)
(* with its in-process cache, the analyses row, the candles with their     *)
(* cache, and the two ways a request ends.  All requests are of one user.  *)
(* Time is counted in ticks of half a second.                              *)
(***************************************************************************)
EXTENDS MarketFeed

CONSTANTS
    Server,      \* server processes
    NRequests,   \* bound: requests
    Keys,        \* idempotency keys; None when the client sends none
    RateMax,     \* requests per window
    RateWindow,  \* the window, in seconds
    MaxWait,     \* bound: ticks a request waits for the lock
    IdemTtl,     \* _IDEM_CACHE_TTL_SECONDS, in ticks
    IdemMax,     \* _IDEM_CACHE_MAX_ENTRIES
    UseRedis,    \* the K-line cache is in Redis
    MaxTime,     \* bound: ticks
    MaxRestarts, \* bound: restarts
    MaxFaults    \* bound: calls of a store that fail

ASSUME RouteAssumption ==
    /\ None \notin Int
    /\ NRequests \in Nat /\ RateMax \in Nat \ {0} /\ RateWindow \in Nat
    /\ KlineTtl \in Nat
    /\ MaxWait \in Nat /\ MaxTime \in Nat /\ MaxRestarts \in Nat

Request == 1..NRequests
Ticks(seconds) == 2 * seconds
Window == Ticks(RateWindow)

VARIABLES
    now,
    hits,      \* SlidingWindowStore._data of each process: a timestamp is named by
               \* the request that read it, since nothing depends on their order
    born,      \* restarts of each process
    rq,        \* the requests
    idem,      \* _idem_cache of each process
    rows,      \* the analyses table
    ledger,    \* what each request is charged: "", "reserved", "consumed", "released"
    kline,     \* the K-line cache, of each process or of all
    faults     \* calls of a store that failed

routeVars == <<now, hits, born, rq, idem, rows, ledger, kline, faults>>

New == [pc |-> "new", proc |-> None, born |-> 0, key |-> None, read |-> 0, admitted |-> FALSE, left |-> {},
        promise |-> 0, again |-> FALSE, record |-> FALSE, age |-> None, ended |-> 0]
RouteInit ==
    /\ now = 0
    /\ hits = [p \in Server |-> {}] /\ born = [p \in Server |-> 0]
    /\ rq = [r \in Request |-> New]
    /\ idem = [p \in Server |-> {}] /\ rows = {} /\ ledger = [r \in Request |-> ""]
    /\ kline = [p \in Server |-> {}] /\ faults = 0

\* A call of a store works, or fails within the bound.
Works == UNCHANGED faults
Fails == faults < MaxFaults /\ faults' = faults + 1

Is(r, s) == rq[r].pc = s
Becomes(r, s) == rq' = [rq EXCEPT ![r].pc = s]

-----------------------------------------------------------------------------
\* Mutated forms; no specification uses them.
HasRoom_extra(h) == Cardinality(h) <= RateMax
-----------------------------------------------------------------------------
(* app/api/rate_limit.py *)

\* The wrapper calls check, which reads the clock before it has the lock.
Ask(r, p, k) ==
    /\ Is(r, "new")
    /\ \A s \in Request : s < r => ~Is(s, "new")
    /\ rq' = [rq EXCEPT ![r].pc = "waiting", ![r].proc = p, ![r].born = born[p], ![r].key = k, ![r].read = now]
    /\ UNCHANGED <<now, hits, born, idem, rows, ledger, kline, faults>>

Pruned(h, t) == {q \in h : rq[q].read > t - Window}
HasRoom(h) == Cardinality(h) < RateMax
is_allowed(r) ==
    LET p == rq[r].proc
        h == Pruned(hits[p], rq[r].read)
    IN  /\ Is(r, "waiting")
        /\ hits' = [hits EXCEPT ![p] = IF HasRoom(h) THEN h \cup {r} ELSE h]
        /\ rq' = [rq EXCEPT ![r].pc = IF HasRoom(h) THEN "admitted" ELSE "refused", ![r].admitted = HasRoom(h)]
        /\ UNCHANGED <<now, born, idem, rows, ledger, kline, faults>>

\* remaining is asked on every path and prunes again, with a clock of its own.
remaining(r) ==
    /\ rq[r].pc \in {"admitted", "refused"}
    /\ hits' = [hits EXCEPT ![rq[r].proc] = Pruned(@, now)]
    /\ Becomes(r, IF rq[r].admitted THEN "lookup" ELSE "reset")
    /\ UNCHANGED <<now, born, idem, rows, ledger, kline, faults>>

\* The rest of check: the seconds until the oldest entry expires.  int() cuts
\* towards zero, and the answer is at least one second.
ResetIn(oldest) ==
    LET d == oldest + Window - now IN (IF d >= 0 THEN d \div 2 ELSE 0 - ((0 - d) \div 2)) + 1
Limited(r) ==
    LET h == hits[rq[r].proc]
        s == IF h = {} THEN RateWindow ELSE Max({1, ResetIn(Min({rq[q].read : q \in h}))})
    IN  /\ Is(r, "reset")
        /\ rq' = [rq EXCEPT ![r].pc = "limited", ![r].left = h, ![r].promise = now + Ticks(s)]
        /\ UNCHANGED <<now, hits, born, idem, rows, ledger, kline, faults>>

-----------------------------------------------------------------------------
(* The route: app/api/routes.py and app/infra/supabase_client.py *)

\* get_analysis_by_idem_key; a lookup that fails counts as one that found
\* nothing, and both are cached.
Cached(p, k) == {e \in idem[p] : e.key = k /\ now - e.ts < IdemTtl}
Oldest(es) == CHOOSE e \in es : \A f \in es : e.ts <= f.ts
Remember(p, k, row) ==
    LET live == {e \in idem[p] : e.key # k}
        kept == IF Cardinality(live) >= IdemMax THEN live \ {Oldest(live)} ELSE live
    IN  idem' = [idem EXCEPT ![p] = kept \cup {[key |-> k, ts |-> now, row |-> row]}]

\* This request repeats one that was answered less than the time to live ago.
Repeats(r) == \E s \in Request : /\ Is(s, "done") /\ rq[r].key # None /\ rq[s].key = rq[r].key
                                /\ rq[r].read > rq[s].ended /\ now - rq[s].ended < IdemTtl

\* The row is answered again when it is complete and has a result.
AfterLookup(r, row) ==
    rq' = [rq EXCEPT ![r].pc = IF row = {} THEN "create"
                               ELSE IF \E w \in row : w.status = "completed" /\ w.technical THEN "replayed"
                               ELSE "create",
                     ![r].again = Repeats(r)]
Lookup(r) ==
    LET p == rq[r].proc
        k == rq[r].key
        hit == Cached(p, k)
    IN
    /\ Is(r, "lookup")
    /\ IF k = None THEN AfterLookup(r, {}) /\ UNCHANGED idem /\ Works
       ELSE IF hit # {} THEN AfterLookup(r, UNION {e.row : e \in hit}) /\ UNCHANGED idem /\ Works
       ELSE \E found \in {{w \in rows : w.key = k}, {}} :
                /\ AfterLookup(r, found) /\ Remember(p, k, found)
                /\ IF found = {w \in rows : w.key = k} THEN Works ELSE Fails
    /\ UNCHANGED <<now, hits, born, rows, ledger, kline>>

\* create_analysis_record: (user_id, idempotency_key) is unique, and a failure
\* is only logged.
Taken(k) == k # None /\ \E w \in rows : w.key = k
Create(r) ==
    /\ Is(r, "create")
    /\ \E stored \in IF Taken(rq[r].key) THEN {FALSE} ELSE BOOLEAN :
        /\ rows' = IF stored
                   THEN rows \cup {[owner |-> r, key |-> rq[r].key, status |-> "created", technical |-> FALSE]}
                   ELSE rows
        /\ rq' = [rq EXCEPT ![r].pc = "reserve", ![r].record = stored]
        /\ IF stored \/ Taken(rq[r].key) THEN Works ELSE Fails
    /\ UNCHANGED <<now, hits, born, idem, ledger, kline>>

\* check_quota grants a unit or not; a refused request deletes its row, which
\* can fail.
Reserve(r) ==
    /\ Is(r, "reserve")
    /\ \/ ledger' = [ledger EXCEPT ![r] = "reserved"] /\ Becomes(r, "candles") /\ UNCHANGED rows /\ Works
       \/ /\ Becomes(r, "quota_exceeded") /\ UNCHANGED ledger
          /\ \/ rows' = {w \in rows : w.owner # r} /\ Works
             \/ UNCHANGED rows /\ Fails
    /\ UNCHANGED <<now, hits, born, idem, kline>>

-----------------------------------------------------------------------------
(* The orchestrator: app/services/analysis.py and pyharmonics_adapter.py.  *)
(* The route passes no idempotency key, so the AnalysisCache is only       *)
(* written.                                                                *)

ReadEntry(p) == kline_get(UseRedis, kline[p], "candles", now)
\* A cache in Redis is that of every process.
Holds(p, c) == kline' = [q \in Server |-> IF q = p \/ UseRedis THEN c ELSE kline[q]]
Candles(r) ==
    LET p == rq[r].proc
        cached == ReadEntry(p)
    IN
    /\ Is(r, "candles")
    /\ Holds(p, cached.cache)
    /\ rq' = IF cached.value = None THEN [rq EXCEPT ![r].pc = "fetch"]
             ELSE [rq EXCEPT ![r].pc = "detect", ![r].age = now - cached.value]
    /\ UNCHANGED <<now, hits, born, idem, rows, ledger, faults>>

\* Settling a request: the unit is consumed or released.  On success the row
\* gets the resolved type, which is None as no signal is ever built, and the
\* column does not take that: the update is refused and logged.
ResolvedType == None
Answered(r) ==
    /\ ledger' = [ledger EXCEPT ![r] = "consumed"]
    /\ rq' = [rq EXCEPT ![r].pc = "done", ![r].ended = now]
    /\ rows' = IF ResolvedType = None THEN rows
               ELSE {IF w.owner = r THEN [w EXCEPT !.status = "completed"] ELSE w : w \in rows}
    /\ Works
Failed(r) ==
    /\ ledger' = [ledger EXCEPT ![r] = "released"]
    /\ rq' = [rq EXCEPT ![r].pc = "failed", ![r].ended = now]
    /\ \/ rows' = {IF w.owner = r THEN [w EXCEPT !.status = "failed_upstream"] ELSE w : w \in rows} /\ Works
       \/ UNCHANGED rows /\ Fails

\* fetch_market_data after a miss.  The bridge's health is what a probe said up
\* to HEALTH_CACHE_TTL ago, so either answer may meet either bridge; what it got is cached, which may fail.
Sources == {SourceOf(enabled /\ healthy, fetch_candles(enabled, reply), legacy) :
              enabled, healthy \in BOOLEAN, reply \in BridgeReplies,
              legacy \in {get_candles("binance", com, us) : com, us \in Attempts}}
FetchCandles(r) ==
    LET p == rq[r].proc IN
    /\ Is(r, "fetch")
    /\ \E source \in Sources :
        IF source = None THEN Failed(r) /\ UNCHANGED kline
        ELSE /\ \/ Holds(p, kline_set(UseRedis, kline[p], "candles", now, now)) /\ Works
                \/ UNCHANGED kline /\ Fails
             /\ rq' = [rq EXCEPT ![r].pc = "detect", ![r].age = 0]
             /\ UNCHANGED <<rows, ledger>>
    /\ UNCHANGED <<now, hits, born, idem>>

\* detect_patterns: a formed pattern before a forming one, by family; patterns
\* that are forming are searched for two types only.  The raw assessment that
\* extract_candidates reads is not part of the result.
Families == <<"XABCD", "ABCD", "ABC">>
FirstFamily(found) == SelectSeq(Families, LAMBDA f : f \in found)
detect_patterns(kind, formed, forming) ==
    LET order == FirstFamily(formed) \o FirstFamily(IF kind \in {"forming", "auto"} THEN forming ELSE {})
    IN  [position |-> IF order = <<>> THEN None ELSE order[1], raw_assessment |-> {}]

\* AnalysisOrchestrator.analyze after the candles.  Without candidates nothing
\* is scored and no signal is built; with candidates their to_dict would fail.
\* A model that fails costs the interpretation only.
AnalysisEnds(kind, formed, forming, detects, model) ==
    LET found == detect_patterns(kind, formed, forming)
        view  == IF kind = "forming" THEN found.raw_assessment ELSE {}
        interpretation == IF model = "error" THEN "unavailable" ELSE model
    IN  IF ~detects THEN "raises"
        ELSE IF found.position = None THEN "no_result"
        ELSE IF view # {} THEN "raises"
        ELSE interpretation
Endings == {AnalysisEnds(kind, formed, forming, detects, model) :
              kind \in {"auto", "forming", "formed", "divergence"}, detects \in BOOLEAN, model \in {"text", "error"},
              formed, forming \in SUBSET ToSet(Families)}
Detect(r) ==
    /\ Is(r, "detect")
    /\ \E out \in Endings : IF out = "raises" THEN Failed(r) ELSE Answered(r)
    /\ UNCHANGED <<now, hits, born, idem, kline>>

-----------------------------------------------------------------------------
Final == {"limited", "replayed", "quota_exceeded", "done", "failed", "dead"}

\* A worker restarts: what it kept in memory and its requests are gone.
Restart(p) ==
    /\ \A q \in Server : born[q] < MaxRestarts
    /\ born' = [born EXCEPT ![p] = @ + 1]
    /\ hits' = [hits EXCEPT ![p] = {}] /\ idem' = [idem EXCEPT ![p] = {}]
    /\ kline' = IF UseRedis THEN kline ELSE [kline EXCEPT ![p] = {}]
    /\ rq' = [r \in Request |-> IF rq[r].proc = p /\ rq[r].pc \notin Final THEN [rq[r] EXCEPT !.pc = "dead"]
                                ELSE rq[r]]
    /\ UNCHANGED <<now, rows, ledger, faults>>

Tick ==
    /\ now < MaxTime
    /\ \A r \in Request : Is(r, "waiting") => now - rq[r].read < MaxWait
    /\ now' = now + 1
    /\ UNCHANGED <<hits, born, rq, idem, rows, ledger, kline, faults>>

LimitStep(r) == is_allowed(r) \/ remaining(r) \/ Limited(r)
RouteStep(r) == Lookup(r) \/ Create(r) \/ Reserve(r) \/ Candles(r) \/ FetchCandles(r) \/ Detect(r)

-----------------------------------------------------------------------------
(* Properties *)

\* Within the life of one process no stretch that is shorter than the window by
\* the longest wait for the lock has more admitted requests than the limit, by
\* the clock each of them read.  A later reader may prune what an earlier one
\* that still waits would have counted, so the full window does not hold.
Admitted(p, b) == {r \in Request : rq[r].admitted /\ rq[r].proc = p /\ rq[r].born = b}
Stretch(p, b, t) == {r \in Admitted(p, b) : rq[r].read > t - (Window - MaxWait) /\ rq[r].read <= t}
RateBound ==
    \A p \in Server, b \in 0..MaxRestarts, t \in 0..MaxTime : Cardinality(Stretch(p, b, t)) <= RateMax

\* A client that comes back when Retry-After says finds room, as far as the
\* entries it was refused for are concerned.
RetryAfterHonest ==
    \A r \in Request : Is(r, "limited") => HasRoom(Pruned(rq[r].left, rq[r].promise))

\* The rate limiter keeps its limit and the promise of its Retry-After.
LimiterSound == RateBound /\ RetryAfterHonest

\* An analysis uses candles that were fetched at most the time to live before,
\* whichever request fetched them and whatever failed or restarted meanwhile.
CandlesFresh == \A r \in Request : rq[r].age # None => rq[r].age <= KlineTtl

\* What get_analysis_by_idem_key promises: a key that is sent again within the
\* time to live of an answer is answered from the row, and costs no unit.
ReplayIsFree == \A r \in Request : rq[r].again => ledger[r] = ""
=============================================================================
