--------------------------- MODULE WatchlistStore ---------------------------
(***************************************************************************)
(* The watchlist of one user: the rows of watchlist_items in Postgres, and *)
(* the fallback every operation mirrors into: one JSON value in Redis      *)
(* (read, changed and written back without a lock) or a process-local      *)
(* dictionary (under a lock).  Every request builds a store of its own, so *)
(* it finds out by itself which of the backends it can reach.              *)
(*                                                                         *)
(* A row keeps its id (creation order, as created_at), symbol, sort_index  *)
(* and note; the copied symbol metadata is left out.  A store is the set   *)
(* of its rows: every listing is sorted by sort_index and created_at, so   *)
(* the order in which Redis keeps its list is never seen.                  *)
(***************************************************************************)
EXTENDS Integers, Sequences, FiniteSets, FiniteSetsExt, Functions, TLC

CONSTANTS
    Request,      \* request threads
    Symbol,       \* symbols a client may name
    None,         \* a field the request does not carry
    Limit,        \* MAX_ITEMS_PER_USER
    MaxRequests,  \* bound: requests in a behaviour where they overlap
    MaxSerial,    \* bound: requests in a behaviour where they do not
    MaxFaults     \* bound: failing calls and crashes

ASSUME WatchlistBounds ==
    /\ IsFiniteSet(Request) /\ IsFiniteSet(Symbol)
    /\ Limit \in Nat \ {0} /\ MaxRequests \in Nat /\ MaxSerial \in Nat /\ MaxFaults \in Nat
    /\ None \notin Nat \cup {"", "n"} \cup Symbol

VARIABLES
    cfg,      \* which backends are configured, and whether requests overlap
    db,       \* watchlist_items of the user
    mirror,   \* the fallbacks: the Redis value and the process dictionary
    listed,   \* symbols in the cached futures list
    req,      \* the request of each thread
    nextId,   \* the next item id
    begun,    \* requests begun so far
    faults,   \* calls that failed and crashes so far
    everFull, \* history: Postgres has held more than Limit rows
    acked,    \* history: ids answered as created, and as deleted
    shown,    \* history: the rows behind the last answer
    answer    \* history: the last answer

vars == <<cfg, db, mirror, listed, req, nextId, begun, faults, everFull, acked, shown, answer>>

\* A thread without a request, and the fields a request does not use.
NoRow == [id |-> 0, symbol |-> None, note |-> "", sort |-> 0]
NoPatch == [sort |-> None, note |-> None]
Idle == [pc |-> "idle", op |-> "none", symbol |-> None, id |-> 0, upd |-> NoPatch, order |-> <<>>,
         client |-> FALSE, fb |-> "memory", via |-> "primary", copy |-> {}, row |-> NoRow, rows |-> <<>>]
Live(p) == req[p].pc # "idle"
Faultable == faults < MaxFaults

-----------------------------------------------------------------------------
\* Mutated forms of the definitions below; no specification uses them.
mirror_reorder_kept(rows, r) == [rows |-> rows, out |-> "ok"]
next_sort_index_count(seen) == Cardinality(seen)
MemoryCall_unlocked(p) ==
    /\ req[p].pc = "fallback" /\ req[p].fb = "memory"
    /\ req' = [req EXCEPT ![p].pc = "save", ![p].copy = mirror["memory"]]
    /\ UNCHANGED <<cfg, db, mirror, listed, nextId, begun, faults, everFull, acked, shown, answer>>
-----------------------------------------------------------------------------

IdsOf(rows) == {row.id : row \in rows}
SymbolsOf(rows) == {row.symbol : row \in rows}

\* _next_sort_index
next_sort_index(seen) == IF seen = {} THEN 0 ELSE 1 + Max({row.sort : row \in seen})

\* A new row; the metadata copied from the symbol cache is left out.
NewRow(id, symbol, sort) == [id |-> id, symbol |-> symbol, note |-> "", sort |-> sort]

\* The patch of an update applied to one row.
Patch(row, u) ==
    [row EXCEPT !.sort = IF u.sort = None THEN @ ELSE u.sort,
                !.note = IF u.note = None THEN @ ELSE u.note]

\* _create_redis, _create_memory
create_rows(rows, r) ==
    IF r.row.symbol \in SymbolsOf(rows) THEN [rows |-> rows, out |-> "409"]
    ELSE IF Cardinality(rows) >= Limit THEN [rows |-> rows, out |-> "full"]
    ELSE [rows |-> rows \cup {r.row}, out |-> "ok"]

\* _update_redis, _update_memory
update_rows(rows, r) ==
    IF r.id \notin IdsOf(rows) THEN [rows |-> rows, out |-> "404"]
    ELSE [rows |-> {IF row.id = r.id THEN Patch(row, r.upd) ELSE row : row \in rows}, out |-> "ok"]

\* _delete_redis, _delete_memory
delete_rows(rows, r) ==
    IF r.id \notin IdsOf(rows) THEN [rows |-> rows, out |-> "404"]
    ELSE [rows |-> {row \in rows : row.id # r.id}, out |-> "ok"]

\* The places order gives to the rows it names at the positions in K.
Position(order, id) == CHOOSE i \in DOMAIN order : order[i] = id
Placed(row, order) == [row EXCEPT !.sort = Position(order, row.id) - 1]
Renumber(rows, order, K) ==
    {IF \E k \in K : order[k] = row.id THEN Placed(row, order) ELSE row : row \in rows}

\* _reorder_redis changes a copy and saves it only when every id was found.
reorder_redis(rows, order) ==
    IF Range(order) \subseteq IdsOf(rows)
    THEN [rows |-> Renumber(rows, order, DOMAIN order), out |-> "ok"]
    ELSE [rows |-> rows, out |-> "404"]

\* _reorder_memory updates in place up to the first id it does not find.
Found(rows, order) == {k \in DOMAIN order : \A j \in 1..k : order[j] \in IdsOf(rows)}
reorder_memory(rows, order) ==
    [rows |-> Renumber(rows, order, Found(rows, order)),
     out |-> IF Range(order) \subseteq IdsOf(rows) THEN "ok" ELSE "404"]

\* _mirror_reorder: Redis gets the rows Postgres answered as its whole list.
mirror_reorder(rows, r) ==
    IF r.fb = "redis" THEN [rows |-> Range(r.rows), out |-> "ok"] ELSE reorder_memory(rows, r.order)

\* _create_fallback, _update_fallback, _delete_fallback, _reorder_fallback and
\* their _mirror_ counterparts: the result on the rows of the fallback.
Fallback(rows, r) ==
    CASE r.op = "create" -> create_rows(rows, r)
      [] r.op = "update" -> update_rows(rows, r)
      [] r.op = "delete" -> delete_rows(rows, r)
      [] r.op = "reorder" /\ r.via = "mirror" -> mirror_reorder(rows, r)
      [] r.op = "reorder" /\ r.via # "mirror" /\ r.fb = "redis" -> reorder_redis(rows, r.order)
      [] OTHER -> reorder_memory(rows, r.order)

\* What list_items shows when the configured backends answer.
Visible(table, fallback) == IF cfg.client THEN table ELSE fallback[cfg.fb]

\* What the client named.
Argument(r) ==
    CASE r.op = "create" -> <<r.symbol>>
      [] r.op = "reorder" -> r.order
      [] OTHER -> <<r.id>>

\* The answer of a request.  While requests come one by one and nothing has
\* failed, shown and answer record what the user has seen.
Answer(p, r, out) ==
    /\ req' = [req EXCEPT ![p] = Idle]
    /\ acked' = CASE r.op = "create" /\ out = "ok" -> [acked EXCEPT !.created = @ \cup {r.row.id}]
                  [] r.op = "delete" /\ out = "ok" -> [acked EXCEPT !.deleted = @ \cup {r.id}]
                  [] OTHER -> acked
    /\ IF cfg.serial /\ faults' = 0
       THEN /\ shown' = Visible(db', mirror')
            /\ answer' = [op |-> r.op, arg |-> Argument(r), out |-> out]
       ELSE UNCHANGED <<shown, answer>>

Continue(p, r) == req' = [req EXCEPT ![p] = r] /\ UNCHANGED <<acked, shown, answer>>
-----------------------------------------------------------------------------

Init ==
    /\ cfg \in [client : BOOLEAN, fb : {"redis", "memory"}, serial : BOOLEAN]
    /\ db = {}
    /\ mirror = [b \in {"redis", "memory"} |-> {}]
    /\ listed = Symbol
    /\ req = [p \in Request |-> Idle]
    /\ nextId = 1 /\ begun = 0 /\ faults = 0
    /\ everFull = FALSE /\ acked = [created |-> {}, deleted |-> {}] /\ shown = {}
    /\ answer = [op |-> "none", arg |-> <<>>, out |-> "ok"]

\* WatchlistStore.__init__, once per request: a backend that does not answer
\* its first call is left out of this request.
Start(p, r, valid) ==
    /\ ~Live(p) /\ begun < (IF cfg.serial THEN MaxSerial ELSE MaxRequests)
    /\ cfg.serial => \A q \in Request : ~Live(q)
    /\ begun' = begun + 1
    /\ UNCHANGED <<cfg, db, mirror, listed, nextId, everFull>>
    /\ \/ valid /\ \E client \in {cfg.client, FALSE}, fb \in {cfg.fb, "memory"} :
            /\ faults' = IF client = cfg.client /\ fb = cfg.fb THEN faults ELSE faults + 1
            /\ faults' <= MaxFaults
            /\ Continue(p, [r EXCEPT !.client = client, !.fb = fb,
                                     !.via = IF client THEN "db" ELSE "primary",
                                     !.pc = IF r.op \in {"create", "reorder"} THEN "list"
                                            ELSE IF client THEN "write" ELSE "fallback"])
       \/ ~valid /\ UNCHANGED faults /\ Answer(p, r, "422")

\* The routes: what a request must satisfy before the store is asked.
add_to_watchlist(p) ==
    \E s \in Symbol : Start(p, [Idle EXCEPT !.op = "create", !.symbol = s], s \in listed)
update_watchlist_item(p) ==
    \E id \in 1..nextId, sort \in {None, 0, 1}, note \in {None, "n"} :
        Start(p, [Idle EXCEPT !.op = "update", !.id = id, !.upd = [sort |-> sort, note |-> note]],
              sort # None \/ note # None)
delete_watchlist_item(p) ==
    \E id \in 1..nextId : Start(p, [Idle EXCEPT !.op = "delete", !.id = id], TRUE)
Orders == {f \in UNION {[1..n -> 1..(nextId - 1)] : n \in 0..(nextId - 1)} : IsInjective(f)}
reorder_watchlist(p) ==
    \E order \in Orders \cup {<<1, 1>>} :
        Start(p, [Idle EXCEPT !.op = "reorder", !.order = order], order # <<>> /\ IsInjective(order))

\* The listing a request reads first; a failing SELECT is served by the
\* fallback.
Sees(r, seen) ==
    \/ ~r.client /\ seen = mirror[r.fb] /\ UNCHANGED faults
    \/ r.client /\ seen = db /\ UNCHANGED faults
    \/ r.client /\ Faultable /\ seen = mirror[r.fb] /\ faults' = faults + 1

\* create_item up to the insert.
create_item(p) ==
    LET r == req[p]
    IN  /\ r.pc = "list" /\ r.op = "create"
        /\ UNCHANGED <<cfg, db, mirror, listed, begun, everFull>>
        /\ \/ r.symbol \notin listed /\ UNCHANGED <<nextId, faults>> /\ Answer(p, r, "422")
           \/ /\ r.symbol \in listed
              /\ nextId' = nextId + 1
              /\ \E seen \in {db, mirror[r.fb]} :
                    /\ Sees(r, seen)
                    /\ Continue(p, [r EXCEPT !.pc = IF r.client THEN "write" ELSE "fallback",
                                             !.row = NewRow(nextId, r.symbol, next_sort_index(seen))])

\* reorder up to the first update.
reorder(p) ==
    LET r == req[p]
    IN  /\ r.pc = "list" /\ r.op = "reorder"
        /\ UNCHANGED <<cfg, db, mirror, listed, nextId, begun, everFull>>
        /\ \E seen \in {db, mirror[r.fb]} :
            /\ Sees(r, seen)
            /\ IF Range(r.order) = IdsOf(seen)
               THEN Continue(p, [r EXCEPT !.pc = IF r.client THEN "write" ELSE "fallback"])
               ELSE Answer(p, r, "404")

\* The statement a request sends to Postgres, and its next position.
Target(r) == {row \in db : row.id = IF r.op = "reorder" THEN r.order[Len(r.rows) + 1] ELSE r.id}
Written(r, row) ==
    CASE r.op = "update" -> Patch(row, r.upd)
      [] r.op = "reorder" -> [row EXCEPT !.sort = Len(r.rows)]
      [] OTHER -> row
Effect(r) ==
    CASE r.op = "create" ->
            IF \E row \in db : row.symbol = r.row.symbol THEN db ELSE db \cup {r.row}
      [] r.op = "delete" -> db \ Target(r)
      [] OTHER -> (db \ Target(r)) \cup {Written(r, row) : row \in Target(r)}

\* What the request does with the answer: the update mirrors the whole row it
\* got back, the reorder goes on with the next id.
Answered(r, row) ==
    CASE r.op = "update" -> [r EXCEPT !.pc = "fallback", !.via = "mirror",
                                      !.upd = [sort |-> row.sort, note |-> row.note]]
      [] r.op = "reorder" /\ Len(r.rows) + 1 < Len(r.order) -> [r EXCEPT !.rows = Append(@, row)]
      [] r.op = "reorder" /\ Len(r.rows) + 1 >= Len(r.order) ->
            [r EXCEPT !.rows = Append(@, row), !.pc = "fallback", !.via = "mirror"]
      [] OTHER -> [r EXCEPT !.pc = "fallback", !.via = "mirror"]

WriteRow(p) ==
    LET r == req[p]
    IN  /\ r.pc = "write"
        /\ UNCHANGED <<cfg, mirror, listed, nextId, begun, faults>>
        /\ db' = Effect(r)
        /\ everFull' = (everFull \/ Cardinality(db') > Limit)
        /\ CASE r.op = "create" ->
                    IF db' # db THEN Continue(p, Answered(r, r.row)) ELSE Answer(p, r, "409")
             [] r.op # "create" /\ Target(r) = {} -> Answer(p, r, "404")
             [] OTHER -> \E row \in Target(r) : Continue(p, Answered(r, Written(r, row)))

\* The statement fails, or its answer is lost; either way the fallback is asked
\* (a unique violation that is seen is answered by WriteRow).
WriteFails(p) ==
    LET r == req[p]
    IN  /\ r.pc = "write" /\ Faultable
        /\ faults' = faults + 1
        /\ db' \in {db, Effect(r)}
        /\ everFull' = (everFull \/ Cardinality(db') > Limit)
        /\ Continue(p, [r EXCEPT !.pc = "fallback", !.via = "primary"])
        /\ UNCHANGED <<cfg, mirror, listed, nextId, begun>>

\* The process dictionary, under its lock.
MemoryCall(p) ==
    LET r == req[p]
        res == Fallback(mirror["memory"], r)
    IN  /\ r.pc = "fallback" /\ r.fb = "memory"
        /\ mirror' = [mirror EXCEPT !["memory"] = res.rows]
        /\ UNCHANGED <<cfg, db, listed, nextId, begun, faults, everFull>>
        /\ Answer(p, r, IF r.via = "mirror" THEN "ok" ELSE res.out)

\* _load_redis_data, and _save_redis_data of the changed copy.
LoadRedis(p) ==
    /\ req[p].pc = "fallback" /\ req[p].fb = "redis"
    /\ Continue(p, [req[p] EXCEPT !.pc = "save", !.copy = mirror["redis"]])
    /\ UNCHANGED <<cfg, db, mirror, listed, nextId, begun, faults, everFull>>
SaveRedis(p) ==
    LET r == req[p]
        res == Fallback(r.copy, r)
    IN  /\ r.pc = "save"
        /\ mirror' = IF res.out = "ok" THEN [mirror EXCEPT ![r.fb] = res.rows] ELSE mirror
        /\ UNCHANGED <<cfg, db, listed, nextId, begun, faults, everFull>>
        /\ Answer(p, r, IF r.via = "mirror" THEN "ok" ELSE res.out)

\* A Redis call raises: swallowed by a mirror, an error of the request otherwise.
RedisFails(p) ==
    LET r == req[p]
    IN  /\ Live(p) /\ Faultable
        /\ \/ r.pc = "fallback" /\ r.fb = "redis"
           \/ r.pc = "save" \/ (r.pc = "list" /\ ~r.client /\ r.fb = "redis")
        /\ faults' = faults + 1
        /\ UNCHANGED <<cfg, db, mirror, listed, nextId, begun, everFull>>
        /\ Answer(p, r, IF r.via = "mirror" THEN "ok" ELSE "500")

\* The worker process dies with its requests and its dictionary.
Crash ==
    /\ Faultable /\ faults' = faults + 1
    /\ req' = [p \in Request |-> Idle]
    /\ mirror' = [mirror EXCEPT !["memory"] = {}]
    /\ UNCHANGED <<cfg, db, listed, nextId, begun, everFull, acked, shown, answer>>

\* The symbol cache is refreshed and has lost a symbol.
RefreshSymbols ==
    /\ listed = Symbol
    /\ \E s \in Symbol : listed' = Symbol \ {s}
    /\ UNCHANGED <<cfg, db, mirror, req, nextId, begun, faults, everFull, acked, shown, answer>>

Step(p) ==
    \/ add_to_watchlist(p) \/ update_watchlist_item(p)
    \/ delete_watchlist_item(p) \/ reorder_watchlist(p)
    \/ create_item(p) \/ reorder(p) \/ WriteRow(p) \/ WriteFails(p)
    \/ MemoryCall(p) \/ LoadRedis(p) \/ SaveRedis(p) \/ RedisFails(p)

Next == (\E p \in Request : Step(p)) \/ Crash \/ RefreshSymbols
Spec == Init /\ [][Next]_vars
-----------------------------------------------------------------------------

List == INSTANCE WatchlistList WITH items <- shown, enforced <- ~cfg.client

\* Requests that come one by one while nothing fails see the list WatchlistList
\* promises, whichever backend is configured: create_item, update_item,
\* delete_item and reorder, each several calls to Postgres or Redis, take effect
\* as a whole and answer accordingly.
ImplementsList == List!Spec

AllIdle == \A p \in Request : ~Live(p)

\* "Mirror to the active fallback so a later Supabase outage can still serve the
\* row we just wrote": between requests the fallback lists what Postgres lists,
\* as long as Postgres, which does not check the limit, stayed within it.
MirrorFresh ==
    (cfg.client /\ cfg.serial /\ faults = 0 /\ ~everFull /\ AllIdle) =>
        mirror[cfg.fb] = db

\* Whatever overlaps or fails, a fallback never lists an id or a symbol twice,
\* and stays within the limit where it is the only store.
FallbackSound ==
    \A b \in {"redis", "memory"} :
        /\ \A x, y \in mirror[b] : x # y => x.id # y.id /\ x.symbol # y.symbol
        /\ ~cfg.client => Cardinality(mirror[b]) <= Limit

\* Overlapping requests lose nothing in Postgres or in the process dictionary:
\* what was acknowledged as created and not as deleted is there.  In Redis this
\* holds for requests that do not overlap.
AckedKept ==
    (faults = 0 /\ AllIdle /\ (cfg.client \/ cfg.fb = "memory" \/ cfg.serial)) =>
        IdsOf(Visible(db, mirror)) = acked.created \ acked.deleted

\* Whatever overlaps or fails, no store doubles an item, and what a client was
\* told holds.
StoresSound == FallbackSound /\ AckedKept

\* Requests and symbols are interchangeable.
Symmetry == Permutations(Request) \cup Permutations(Symbol)
=============================================================================
