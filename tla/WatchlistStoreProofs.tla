------------------------ MODULE WatchlistStoreProofs ------------------------
(***************************************************************************)
(* Proofs about the watchlist, for any number of request threads, symbols, *)
(* requests and faults, and any limit.                                     *)
(***************************************************************************)
EXTENDS WatchlistStore, FiniteSetTheorems, TLAPS

-----------------------------------------------------------------------------
(* Types *)

Stores == {"redis", "memory"}
Row == [id : Nat, symbol : Symbol, note : {"", "n"}, sort : Nat]
Change == [sort : Nat \cup {None}, note : {"", "n", None}]
Ops == {"create", "update", "delete", "reorder"}
Asked == [pc : {"list", "write", "fallback", "save"}, op : Ops, symbol : Symbol \cup {None},
          id : Nat, upd : Change, order : Seq(Nat), client : BOOLEAN, fb : Stores,
          via : {"db", "mirror", "primary"}, copy : SUBSET Row, row : Row \cup {NoRow}, rows : Seq(Row)]

PlainTypes ==
    /\ cfg \in [client : BOOLEAN, fb : Stores, serial : BOOLEAN]
    /\ db \in SUBSET Row /\ IsFiniteSet(db)
    /\ mirror \in [Stores -> SUBSET Row]
    /\ \A b \in Stores : IsFiniteSet(mirror[b])
    /\ nextId \in Nat \ {0} /\ begun \in Nat /\ faults \in Nat /\ everFull \in BOOLEAN
    /\ acked \in [created : SUBSET Nat, deleted : SUBSET Nat]

StoreTypes == PlainTypes /\ req \in [Request -> Asked \cup {Idle}]

-----------------------------------------------------------------------------
(* Where a request is *)

Creating(r) == r.op = "create" /\ r.pc \in {"write", "fallback", "save"}
Ordering(r) == r.op = "reorder" /\ r.pc \in {"write", "fallback", "save"}

\* A set of rows names no id and no symbol twice.
Keyed(rows) == \A x, y \in rows : x # y => x.id # y.id /\ x.symbol # y.symbol

\* A request writes to Postgres only when it could reach it, and a process
\* without Postgres serves every request from the fallback.
RouteOf(r) ==
    /\ r.pc = "list" => r.op \in {"create", "reorder"}
    /\ ~cfg.client => ~r.client
    /\ r.pc = "write" => r.client
    /\ ~r.client => r.via = "primary"
    /\ r.pc \in {"list", "write"} /\ r.client => r.via = "db"
    /\ r.pc \in {"fallback", "save"} => r.via \in {"mirror", "primary"}
    /\ r.pc = "save" => r.fb = "redis"
    /\ r.op = "create" => r.symbol \in Symbol
    /\ Creating(r) => r.row \in Row /\ r.row.symbol = r.symbol
    /\ r.op = "reorder" => IsInjective(r.order) /\ r.order # <<>>
    /\ r.pc = "list" => r.rows = <<>>
    /\ r.pc = "write" /\ r.op = "reorder" => Len(r.rows) < Len(r.order)
    /\ IsFiniteSet(r.copy) /\ Keyed(r.copy)
    /\ ~cfg.client => Cardinality(r.copy) <= Limit

\* Until a call fails every request sees the configured backends.
FaultlessOf(r) ==
    r.pc # "idle" =>
        /\ r.client = cfg.client /\ r.fb = cfg.fb
        /\ r.client /\ r.pc \in {"fallback", "save"} => r.via = "mirror"

RouteInv ==
    \A p \in Request : RouteOf(req[p]) /\ (faults = 0 => FaultlessOf(req[p]))

-----------------------------------------------------------------------------
(* Ids and symbols *)

\* An id stands for one symbol, in whatever store and copy it is found.
Names(sym, rows) == \A row \in rows : row.id \in DOMAIN sym /\ row.symbol = sym[row.id]

\* A reorder has asked for distinct ids of distinct symbols, and has the rows
\* of the first of them in hand.
InOrder(sym, r) ==
    /\ IsInjective(r.order)
    /\ \A k \in DOMAIN r.order : r.order[k] \in DOMAIN sym
    /\ \A j, k \in DOMAIN r.order : j # k => sym[r.order[j]] # sym[r.order[k]]
    /\ Len(r.rows) <= Len(r.order)
    /\ \A k \in DOMAIN r.rows : r.rows[k].id = r.order[k] /\ r.rows[k].symbol = sym[r.order[k]]

KnownOf(sym, r) ==
    /\ Names(sym, r.copy)
    /\ Creating(r) => Names(sym, {r.row})
    /\ Ordering(r) => InOrder(sym, r)

Known(sym) ==
    /\ Names(sym, db) /\ \A b \in Stores : Names(sym, mirror[b])
    /\ \A p \in Request : KnownOf(sym, req[p])

KnownInv == \E sym \in [1..(nextId - 1) -> Symbol] : Known(sym)

KeyedInv ==
    /\ Keyed(db)
    /\ \A b \in Stores : Keyed(mirror[b]) /\ (~cfg.client => Cardinality(mirror[b]) <= Limit)

StoreInv == StoreTypes /\ RouteInv /\ KnownInv /\ KeyedInv

-----------------------------------------------------------------------------
(* What was acknowledged *)

\* Created, or deleted, in Postgres by a request that is not answered yet.
MadeBy(r) == IF r.op = "create" /\ r.via = "mirror" THEN {r.row.id} ELSE {}
GoneBy(r) == IF r.op = "delete" /\ r.via = "mirror" THEN {r.id} ELSE {}
Done == acked.created \cup UNION {MadeBy(req[p]) : p \in Request}
Undone == acked.deleted \cup UNION {GoneBy(req[p]) : p \in Request}

\* A row that has its id and is in no store yet.
Waiting(r) == Creating(r) /\ r.via # "mirror"

\* Requests one by one.
AloneInv ==
    cfg.serial => \A p, q \in Request : Live(p) /\ Live(q) => p = q

\* A copy of the Redis value is fresh while requests come one by one.
CopyInv ==
    cfg.serial => \A p \in Request : req[p].pc = "save" => req[p].copy = mirror[req[p].fb]

\* The backends in which overlapping requests lose nothing.
Safe == faults = 0 /\ (cfg.client \/ cfg.fb = "memory" \/ cfg.serial)

AckedInv ==
    Safe =>
        /\ Done \cup Undone \subseteq 1..(nextId - 1)
        /\ \A p \in Request : Waiting(req[p]) => req[p].row.id \notin Done \cup Undone
        /\ \A p, q \in Request : Waiting(req[p]) /\ Waiting(req[q]) /\ p # q =>
              req[p].row.id # req[q].row.id
        /\ IdsOf(Visible(db, mirror)) = Done \ Undone

AnsweredInv == StoreInv /\ AloneInv /\ CopyInv /\ AckedInv

-----------------------------------------------------------------------------
(* Serial requests while nothing fails *)

Quiet == cfg.serial /\ faults = 0

\* What a request that wrote to Postgres has made of the rows shown before.
WroteRows(r) ==
    CASE r.op = "create" -> r.row.symbol \notin SymbolsOf(shown) /\ db = shown \cup {r.row}
      [] r.op = "update" -> \E old \in shown : /\ old.id = r.id
                                               /\ r.upd.sort # None /\ r.upd.note # None
                                               /\ db = (shown \ {old}) \cup {Patch(old, r.upd)}
      [] r.op = "delete" -> \E old \in shown : old.id = r.id /\ db = shown \ {old}
      [] OTHER -> /\ Len(r.rows) = Len(r.order) /\ Range(r.rows) = db
                  /\ db = Renumber(shown, r.order, DOMAIN r.order)

\* Half of a reorder.
HalfOrdered(r) ==
    /\ Len(r.rows) < Len(r.order)
    /\ db = Renumber(shown, r.order, 1..Len(r.rows))
    /\ Range(r.rows) \subseteq db

\* Where a request stands with respect to the rows shown last.
ShownFor(r) ==
    /\ Creating(r) => \A row \in shown : row.sort < r.row.sort /\ row.id < r.row.id
    /\ Ordering(r) => Range(r.order) = IdsOf(shown)
    /\ cfg.client =>
         /\ r.pc \in {"list", "write"} /\ ~Ordering(r) => db = shown
         /\ r.pc = "write" /\ Ordering(r) => HalfOrdered(r)
         /\ r.pc \in {"fallback", "save"} => WroteRows(r)

ShownInv ==
    Quiet =>
        /\ shown \in SUBSET Row /\ IsFiniteSet(shown) /\ Keyed(shown)
        /\ ~cfg.client => shown = mirror[cfg.fb]
        /\ cfg.client /\ AllIdle => shown = db
        /\ cfg.client /\ ~everFull => mirror[cfg.fb] = shown /\ Cardinality(db) <= Limit
        /\ \A p \in Request : Live(p) => ShownFor(req[p])

-----------------------------------------------------------------------------
(* The largest of a finite set: a smallest set without one has a smaller. *)

LEMMA FiniteMax ==
  ASSUME NEW S, S \in SUBSET Int, IsFiniteSet(S), S # {}
  PROVE  Max(S) \in S /\ \A k \in S : k <= Max(S)
  <1> DEFINE HasTop(T) == \E m \in T : \A k \in T : k <= m
             Bad == {T \in FiniteSubsetsOf(S) : T # {} /\ ~HasTop(T)}
  <1>1. Bad = {}
    <2> SUFFICES ASSUME Bad # {} PROVE FALSE
      OBVIOUS
    <2>1. IsWellFoundedOn(StrictSubsetOrdering(S), FiniteSubsetsOf(S))
      BY FS_StrictSubsetOrderingWellFounded
    <2>2. Bad \subseteq FiniteSubsetsOf(S)
      OBVIOUS
    <2> HIDE DEF Bad
    <2>3. PICK T \in Bad : \A U \in Bad : ~(<<U, T>> \in StrictSubsetOrdering(S))
      BY <2>1, <2>2, WFMin
    <2>4. T \in SUBSET S /\ IsFiniteSet(T) /\ T # {} /\ ~HasTop(T)
      BY DEF Bad, FiniteSubsetsOf
    <2>5. PICK x \in T : TRUE
      BY <2>4
    <2> DEFINE U == T \ {x}
    <2>6. U \in SUBSET S /\ IsFiniteSet(U) /\ U \subseteq T /\ U # T
      BY <2>4, <2>5, FS_RemoveElement
    <2>7. <<U, T>> \in StrictSubsetOrdering(S)
      BY <2>4, <2>6 DEF StrictSubsetOrdering
    <2>8. U = {} \/ HasTop(U)
      BY <2>3, <2>6, <2>7 DEF Bad, FiniteSubsetsOf
    <2>9. CASE U = {}
      <3>1. \A k \in T : k = x /\ k <= x
        BY <2>4, <2>9
      <3>2. QED
        BY <2>4, <3>1
    <2>10. CASE HasTop(U)
      <3>1. PICK m \in U : \A k \in U : k <= m
        BY <2>10
      <3>2. \A k \in T : k \in Int /\ (k \in U \/ k = x)
        BY <2>4
      <3>3. CASE m <= x
        <4>1. \A k \in T : k <= x
          BY <2>6, <3>1, <3>2, <3>3
        <4>2. QED
          BY <2>4, <4>1
      <3>4. CASE ~(m <= x)
        <4>1. \A k \in T : k <= m
          BY <2>6, <3>1, <3>2, <3>4
        <4>2. QED
          BY <2>4, <2>6, <4>1
      <3>5. QED
        BY <3>3, <3>4
    <2>11. QED
      BY <2>8, <2>9, <2>10
  <1>2. HasTop(S)
    BY <1>1 DEF FiniteSubsetsOf
  <1>3. PICK m \in S : \A k \in S : k <= m
    BY <1>2
  <1>4. m \in S /\ \A y \in S : m >= y
    BY <1>3
  <1>5. Max(S) \in S /\ \A y \in S : Max(S) >= y
    BY <1>4 DEF Max
  <1>6. QED
    BY <1>5

LEMMA NextSort ==
  ASSUME NEW rows \in SUBSET Row, IsFiniteSet(rows)
  PROVE  /\ next_sort_index(rows) \in Nat
         /\ \A row \in rows : row.sort < next_sort_index(rows)
  <1> DEFINE S == {row.sort : row \in rows}
             f == [row \in rows |-> row.sort]
  <1>1. CASE rows = {}
    BY <1>1 DEF next_sort_index
  <1>2. CASE rows # {}
    <2>1. S \in SUBSET Nat /\ S # {} /\ S \in SUBSET Int
      <3>1. \A row \in rows : row.sort \in Nat
        BY DEF Row
      <3>2. S \in SUBSET Nat /\ S # {}
        BY <1>2, <3>1
      <3>3. QED
        BY <3>2
    <2>2. f \in Surjection(rows, S)
      BY DEF Surjection
    <2>3. IsFiniteSet(S)
      BY <2>2, FS_Surjection
    <2>4. Max(S) \in S /\ \A k \in S : k <= Max(S)
      BY <2>1, <2>3, FiniteMax
    <2>5. next_sort_index(rows) = 1 + Max(S)
      BY <1>2 DEF next_sort_index
    <2> HIDE DEF S
    <2>6. \A row \in rows : row.sort \in S /\ row.sort \in Nat
      BY DEF S, Row
    <2>7. Max(S) \in Nat
      BY <2>1, <2>4
    <2>8. QED
      BY <2>4, <2>5, <2>6, <2>7
  <1>3. QED
    BY <1>1, <1>2

-----------------------------------------------------------------------------
(* What the stores make of their rows *)

\* An operation that gives each row a new note or place and keeps its id and
\* its symbol.
Keeps(rows, f) ==
    /\ f \in [rows -> Row]
    /\ \A row \in rows : f[row].id = row.id /\ f[row].symbol = row.symbol
Image(rows, f) == {f[row] : row \in rows}

LEMMA ImageKeeps ==
  ASSUME NEW rows \in SUBSET Row, IsFiniteSet(rows), NEW f, Keeps(rows, f)
  PROVE  /\ Image(rows, f) \in SUBSET Row /\ IsFiniteSet(Image(rows, f))
         /\ Cardinality(Image(rows, f)) <= Cardinality(rows)
         /\ Keyed(rows) => Keyed(Image(rows, f))
         /\ \A sym : Names(sym, rows) => Names(sym, Image(rows, f))
         /\ IdsOf(Image(rows, f)) = IdsOf(rows)
  <1>1. f \in Surjection(rows, Image(rows, f))
    BY DEF Surjection, Image, Keeps
  <1>2. IsFiniteSet(Image(rows, f)) /\ Cardinality(Image(rows, f)) <= Cardinality(rows)
    BY <1>1, FS_Surjection
  <1>3. Image(rows, f) \in SUBSET Row
    BY DEF Image, Keeps
  <1>4. Keyed(rows) => Keyed(Image(rows, f))
    BY DEF Keyed, Image, Keeps
  <1>5. \A sym : Names(sym, rows) => Names(sym, Image(rows, f))
    BY DEF Names, Image, Keeps
  <1>6. IdsOf(Image(rows, f)) = IdsOf(rows)
    BY DEF IdsOf, Image, Keeps
  <1>7. QED
    BY <1>2, <1>3, <1>4, <1>5, <1>6

LEMMA PatchType ==
  ASSUME NEW row \in Row, NEW u \in Change
  PROVE  /\ Patch(row, u) \in Row
         /\ Patch(row, u).id = row.id /\ Patch(row, u).symbol = row.symbol
  BY DEF Row, Change, Patch

LEMMA PlacedType ==
  ASSUME NEW row \in Row, NEW order \in Seq(Nat), NEW k \in DOMAIN order, order[k] = row.id
  PROVE  /\ Placed(row, order) \in Row
         /\ Placed(row, order).id = row.id /\ Placed(row, order).symbol = row.symbol
         /\ Position(order, row.id) \in DOMAIN order /\ order[Position(order, row.id)] = row.id
         /\ IsInjective(order) => Position(order, row.id) = k
  <1> DEFINE i == Position(order, row.id)
  <1>1. i \in DOMAIN order /\ order[i] = row.id
    BY DEF Position
  <1>2. i - 1 \in Nat
    BY <1>1
  <1>3. IsInjective(order) => i = k
    BY <1>1 DEF IsInjective
  <1> HIDE DEF i
  <1>4. Placed(row, order) = [row EXCEPT !.sort = i - 1]
    BY DEF Placed, i
  <1>5. QED
    BY <1>1, <1>2, <1>3, <1>4 DEF Row, i

LEMMA RenumberKeeps ==
  ASSUME NEW rows \in SUBSET Row, IsFiniteSet(rows), NEW order \in Seq(Nat),
         NEW K \in SUBSET DOMAIN order
  PROVE  /\ Renumber(rows, order, K) \in SUBSET Row /\ IsFiniteSet(Renumber(rows, order, K))
         /\ Cardinality(Renumber(rows, order, K)) <= Cardinality(rows)
         /\ Keyed(rows) => Keyed(Renumber(rows, order, K))
         /\ \A sym : Names(sym, rows) => Names(sym, Renumber(rows, order, K))
         /\ IdsOf(Renumber(rows, order, K)) = IdsOf(rows)
  <1> DEFINE g(row) == IF \E k \in K : order[k] = row.id THEN Placed(row, order) ELSE row
             f == [row \in rows |-> g(row)]
  <1>1. ASSUME NEW row \in rows
        PROVE  g(row) \in Row /\ g(row).id = row.id /\ g(row).symbol = row.symbol
    <2>1. CASE \E k \in K : order[k] = row.id
      BY <2>1, PlacedType
    <2>2. CASE ~\E k \in K : order[k] = row.id
      BY <2>2
    <2>3. QED
      BY <2>1, <2>2
  <1>2. Renumber(rows, order, K) = {g(row) : row \in rows}
    BY DEF Renumber
  <1> HIDE DEF g
  <1>3. Keeps(rows, f)
    BY <1>1 DEF Keeps
  <1>4. Renumber(rows, order, K) = Image(rows, f)
    BY <1>2 DEF Image
  <1> HIDE DEF f
  <1>5. QED
    BY <1>3, <1>4, ImageKeeps

LEMMA UpdateKeeps ==
  ASSUME NEW rows \in SUBSET Row, IsFiniteSet(rows), NEW r \in Asked
  PROVE  LET new == update_rows(rows, r).rows
         IN  /\ new \in SUBSET Row /\ IsFiniteSet(new) /\ Cardinality(new) <= Cardinality(rows)
             /\ Keyed(rows) => Keyed(new)
             /\ \A sym : Names(sym, rows) => Names(sym, new)
             /\ IdsOf(new) = IdsOf(rows)
  <1> DEFINE g(row) == IF row.id = r.id THEN Patch(row, r.upd) ELSE row
             f == [row \in rows |-> g(row)]
  <1>1. ASSUME NEW row \in rows
        PROVE  g(row) \in Row /\ g(row).id = row.id /\ g(row).symbol = row.symbol
    <2>1. r.upd \in Change
      BY DEF Asked
    <2>2. QED
      BY <2>1, PatchType
  <1>2. CASE r.id \in IdsOf(rows)
    <2>1. update_rows(rows, r).rows = {g(row) : row \in rows}
      BY <1>2 DEF update_rows
    <2> HIDE DEF g
    <2>2. Keeps(rows, f)
      BY <1>1 DEF Keeps
    <2>3. update_rows(rows, r).rows = Image(rows, f)
      BY <2>1 DEF Image
    <2> HIDE DEF f
    <2>4. QED
      BY <2>2, <2>3, ImageKeeps
  <1>3. CASE r.id \notin IdsOf(rows)
    <2>1. update_rows(rows, r).rows = rows
      BY <1>3 DEF update_rows
    <2>2. Cardinality(rows) \in Nat
      BY FS_CardinalityType
    <2>3. QED
      BY <2>1, <2>2
  <1>4. QED
    BY <1>2, <1>3

LEMMA DeleteKeeps ==
  ASSUME NEW rows \in SUBSET Row, IsFiniteSet(rows), NEW r
  PROVE  LET new == delete_rows(rows, r).rows
         IN  /\ new \in SUBSET Row /\ IsFiniteSet(new) /\ Cardinality(new) <= Cardinality(rows)
             /\ Keyed(rows) => Keyed(new)
             /\ \A sym : Names(sym, rows) => Names(sym, new)
             /\ IdsOf(new) = IdsOf(rows) \ {r.id}
  <1> DEFINE new == delete_rows(rows, r).rows
  <1>1. new \in SUBSET rows /\ IdsOf(new) = IdsOf(rows) \ {r.id}
    BY DEF delete_rows, IdsOf
  <1> HIDE DEF new
  <1>2. IsFiniteSet(new) /\ Cardinality(new) <= Cardinality(rows)
    BY <1>1, FS_Subset
  <1>3. new \in SUBSET Row /\ (Keyed(rows) => Keyed(new))
        /\ \A sym : Names(sym, rows) => Names(sym, new)
    BY <1>1 DEF Keyed, Names
  <1>4. QED
    BY <1>1, <1>2, <1>3 DEF new

LEMMA CreateKeeps ==
  ASSUME NEW rows \in SUBSET Row, IsFiniteSet(rows), NEW r, r.row \in Row, Keyed(rows),
         NEW sym, Names(sym, rows), Names(sym, {r.row})
  PROVE  LET new == create_rows(rows, r).rows
         IN  /\ new \in SUBSET Row /\ IsFiniteSet(new)
             /\ Cardinality(rows) <= Limit => Cardinality(new) <= Limit
             /\ Keyed(new) /\ Names(sym, new)
  <1> DEFINE new == create_rows(rows, r).rows
  <1>1. CASE r.row.symbol \in SymbolsOf(rows) \/ Cardinality(rows) >= Limit
    <2>1. new = rows
      BY <1>1 DEF create_rows
    <2>2. QED
      BY <2>1
  <1>2. CASE ~(r.row.symbol \in SymbolsOf(rows) \/ Cardinality(rows) >= Limit)
    <2>1. new = rows \cup {r.row}
      BY <1>2 DEF create_rows
    <2>2. \A row \in rows : row.symbol # r.row.symbol /\ row.id # r.row.id
      BY <1>2 DEF SymbolsOf, Names
    <2>3. Keyed(new) /\ Names(sym, new)
      BY <2>1, <2>2 DEF Keyed, Names
    <2>4. Cardinality(rows) \in Nat /\ r.row \notin rows
      BY <2>2, FS_CardinalityType
    <2>5. IsFiniteSet(new) /\ Cardinality(new) = Cardinality(rows) + 1
      BY <2>1, <2>4, FS_AddElement
    <2>6. Cardinality(new) <= Limit /\ new \in SUBSET Row
      <3>1. ~(Cardinality(rows) >= Limit)
        BY <1>2
      <3> HIDE DEF new
      <3>0. Limit \in Nat
        BY WatchlistBounds
      <3> DEFINE n == Cardinality(rows)
                 m == Cardinality(new)
      <3> HIDE DEF n, m
      <3>2. m <= Limit
        <4>1. n \in Nat /\ m = n + 1 /\ ~(n >= Limit)
          BY <3>1, <2>4, <2>5 DEF n, m
        <4>2. QED
          BY <3>0, <4>1
      <3>3. QED
        BY <3>2, <2>1 DEF m
    <2>7. QED
      BY <2>3, <2>5, <2>6
  <1>3. QED
    BY <1>1, <1>2

LEMMA RowsInHand ==
  ASSUME NEW r \in Asked, NEW sym, InOrder(sym, r)
  PROVE  /\ Range(r.rows) \in SUBSET Row /\ IsFiniteSet(Range(r.rows))
         /\ Keyed(Range(r.rows)) /\ Names(sym, Range(r.rows))
  <1>1. r.rows \in Seq(Row) /\ r.order \in Seq(Nat)
    BY DEF Asked
  <1>2. DOMAIN r.rows = 1..Len(r.rows) /\ Len(r.rows) \in Nat
        /\ DOMAIN r.order = 1..Len(r.order) /\ Len(r.order) \in Nat
    BY <1>1
  <1>3. Range(r.rows) \in SUBSET Row
    BY <1>1, <1>2 DEF Range
  <1>4. IsFiniteSet(Range(r.rows))
    <2>1. r.rows \in Surjection(DOMAIN r.rows, Range(r.rows))
      BY <1>1, <1>2 DEF Surjection, Range
    <2>2. IsFiniteSet(DOMAIN r.rows)
      BY <1>2, FS_Interval
    <2>3. QED
      BY <2>1, <2>2, FS_Surjection
  <1>5. \A k \in DOMAIN r.rows : k \in DOMAIN r.order
    BY <1>2 DEF InOrder
  <1>6. \A j, k \in DOMAIN r.rows : j # k =>
            r.rows[j].id # r.rows[k].id /\ r.rows[j].symbol # r.rows[k].symbol
    BY <1>5 DEF InOrder, IsInjective
  <1>7. Keyed(Range(r.rows))
    BY <1>6 DEF Keyed, Range
  <1>8. Names(sym, Range(r.rows))
    BY <1>5 DEF Names, Range, InOrder
  <1>9. QED
    BY <1>3, <1>4, <1>7, <1>8

\* A request whose row or order is known to sym.
Fit(sym, r) ==
    /\ r \in Asked
    /\ r.op = "create" => r.row \in Row /\ Names(sym, {r.row})
    /\ r.op = "reorder" => InOrder(sym, r)

LEMMA ReorderKeeps ==
  ASSUME NEW rows \in SUBSET Row, IsFiniteSet(rows), Keyed(rows),
         NEW sym, Names(sym, rows), NEW order \in Seq(Nat)
  PROVE  LET one == reorder_redis(rows, order).rows
             two == reorder_memory(rows, order).rows
         IN  /\ one \in SUBSET Row /\ IsFiniteSet(one) /\ Keyed(one) /\ Names(sym, one)
             /\ Cardinality(one) <= Cardinality(rows)
             /\ IdsOf(one) = IdsOf(rows) /\ IdsOf(two) = IdsOf(rows)
             /\ two \in SUBSET Row /\ IsFiniteSet(two) /\ Keyed(two) /\ Names(sym, two)
             /\ Cardinality(two) <= Cardinality(rows)
  <1>1. Found(rows, order) \in SUBSET DOMAIN order /\ DOMAIN order \in SUBSET DOMAIN order
    BY DEF Found
  <1>2. reorder_memory(rows, order).rows = Renumber(rows, order, Found(rows, order))
    BY DEF reorder_memory
  <1>3. \/ reorder_redis(rows, order).rows = Renumber(rows, order, DOMAIN order)
        \/ reorder_redis(rows, order).rows = rows
    BY DEF reorder_redis
  <1>4. Cardinality(rows) \in Nat
    BY FS_CardinalityType
  <1>5. QED
    BY <1>1, <1>2, <1>3, <1>4, RenumberKeeps

LEMMA FallbackKeeps ==
  ASSUME NEW rows \in SUBSET Row, IsFiniteSet(rows), Keyed(rows),
         NEW sym, Names(sym, rows), NEW r, Fit(sym, r)
  PROVE  LET new == Fallback(rows, r).rows
         IN  /\ new \in SUBSET Row /\ IsFiniteSet(new) /\ Keyed(new) /\ Names(sym, new)
             /\ r.via # "mirror" /\ Cardinality(rows) <= Limit => Cardinality(new) <= Limit
  <1>1. r \in Asked /\ r.op \in Ops /\ r.order \in Seq(Nat)
    BY DEF Fit, Asked
  <1>0. Cardinality(rows) \in Nat /\ Limit \in Nat
    BY FS_CardinalityType, WatchlistBounds
  <1>2. CASE r.op = "create"
    <2>1. Fallback(rows, r) = create_rows(rows, r)
      BY <1>2 DEF Fallback
    <2>2. QED
      BY <1>2, <2>1, CreateKeeps DEF Fit
  <1>3. CASE r.op = "update"
    <2>1. Fallback(rows, r) = update_rows(rows, r)
      BY <1>3 DEF Fallback
    <2>2. Cardinality(Fallback(rows, r).rows) \in Nat
      BY <1>1, <2>1, UpdateKeeps, FS_CardinalityType
    <2>3. QED
      BY <1>0, <1>1, <2>1, <2>2, UpdateKeeps
  <1>4. CASE r.op = "delete"
    <2>1. Fallback(rows, r) = delete_rows(rows, r)
      BY <1>4 DEF Fallback
    <2>2. Cardinality(Fallback(rows, r).rows) \in Nat
      BY <2>1, DeleteKeeps, FS_CardinalityType
    <2>3. QED
      BY <1>0, <2>1, <2>2, DeleteKeeps
  <1>5. CASE r.op = "reorder"
    <2>1. CASE r.via = "mirror" /\ r.fb = "redis"
      <3>1. Fallback(rows, r).rows = Range(r.rows)
        BY <1>5, <2>1 DEF Fallback, mirror_reorder
      <3>2. QED
        BY <1>1, <1>5, <2>1, <3>1, RowsInHand DEF Fit
    <2>2. CASE ~(r.via = "mirror" /\ r.fb = "redis")
      <3>1. \/ Fallback(rows, r) = reorder_redis(rows, r.order)
            \/ Fallback(rows, r) = reorder_memory(rows, r.order)
        BY <1>5, <2>2 DEF Fallback, mirror_reorder
      <3>2. Cardinality(Fallback(rows, r).rows) \in Nat
        BY <1>1, <3>1, ReorderKeeps, FS_CardinalityType
      <3>3. QED
        BY <1>0, <1>1, <3>1, <3>2, ReorderKeeps
    <2>3. QED
      BY <2>1, <2>2
  <1>6. QED
    BY <1>1, <1>2, <1>3, <1>4, <1>5 DEF Ops

-----------------------------------------------------------------------------
(* Whatever overlaps or fails *)

LEMMA LimitType == Limit \in Nat /\ 0 <= Limit
  <1>1. Limit \in Nat
    BY WatchlistBounds
  <1>2. QED
    BY <1>1

LEMMA IdleFacts ==
  /\ IsFiniteSet(Idle.copy) /\ Cardinality(Idle.copy) = 0 /\ Idle.copy = {}
  /\ Idle.pc = "idle" /\ Idle.op = "none" /\ Idle.via = "primary" /\ Idle.client = FALSE
  /\ RouteOf(Idle) /\ FaultlessOf(Idle) /\ \A sym : KnownOf(sym, Idle)
  <1>1. /\ Idle.copy = {} /\ Idle.pc = "idle" /\ Idle.op = "none"
        /\ Idle.via = "primary" /\ Idle.client = FALSE
    BY DEF Idle
  <1>2. IsFiniteSet(Idle.copy) /\ Cardinality(Idle.copy) = 0
    BY <1>1, FS_EmptySet
  <1>3. Limit \in Nat /\ 0 <= Limit
    BY LimitType
  <1>4. ~Creating(Idle) /\ ~Ordering(Idle)
    BY <1>1 DEF Creating, Ordering
  <1>5. RouteOf(Idle)
    BY <1>1, <1>2, <1>3, <1>4 DEF RouteOf, Keyed
  <1>6. FaultlessOf(Idle) /\ \A sym : KnownOf(sym, Idle)
    BY <1>1, <1>4 DEF FaultlessOf, KnownOf, Names
  <1>7. QED
    BY <1>1, <1>2, <1>5, <1>6

\* One request moves.
LEMMA Frame ==
  ASSUME StoreInv, NEW p \in Request, NEW r, r \in Asked \cup {Idle},
         req' = [req EXCEPT ![p] = r], cfg' = cfg, PlainTypes',
         faults' = 0 => faults = 0 /\ FaultlessOf(r), RouteOf(r), KeyedInv',
         NEW sym \in [1..(nextId' - 1) -> Symbol], Names(sym, db)',
         \A b \in Stores : Names(sym, mirror[b])', KnownOf(sym, r),
         \A q \in Request : q # p => KnownOf(sym, req[q])
  PROVE  StoreInv'
  <1>1. /\ req'[p] = r /\ req' \in [Request -> Asked \cup {Idle}]
        /\ \A q \in Request : q # p => req'[q] = req[q]
    BY DEF StoreInv, StoreTypes
  <1>2. StoreTypes'
    BY <1>1 DEF StoreTypes
  <1>3. \A x : RouteOf(x)' = RouteOf(x) /\ FaultlessOf(x)' = FaultlessOf(x)
    BY DEF RouteOf, FaultlessOf
  <1>4. RouteInv'
    BY <1>1, <1>3 DEF StoreInv, RouteInv
  <1>5. Known(sym)'
    BY <1>1 DEF Known
  <1>6. KnownInv'
    BY <1>5 DEF KnownInv
  <1>7. QED
    BY <1>2, <1>4, <1>6 DEF StoreInv

\* A request moves and leaves the stores alone.
LEMMA QuietFrame ==
  ASSUME StoreInv, NEW p \in Request, NEW r, r \in Asked \cup {Idle},
         req' = [req EXCEPT ![p] = r], UNCHANGED <<cfg, db, mirror, nextId, everFull>>,
         begun' \in Nat, faults' \in Nat, acked' \in [created : SUBSET Nat, deleted : SUBSET Nat],
         faults' = 0 => faults = 0 /\ FaultlessOf(r), RouteOf(r),
         \A sym \in [1..(nextId - 1) -> Symbol] : Known(sym) => KnownOf(sym, r)
  PROVE  StoreInv'
  <1>1. PlainTypes'
    BY DEF StoreInv, StoreTypes, PlainTypes
  <1>2. KeyedInv'
    BY DEF StoreInv, KeyedInv, Keyed
  <1>3. PICK sym \in [1..(nextId - 1) -> Symbol] : Known(sym)
    BY DEF StoreInv, KnownInv
  <1>4. Names(sym, db)' /\ \A b \in Stores : Names(sym, mirror[b])'
    BY <1>3 DEF Known, Names
  <1>5. KnownOf(sym, r) /\ \A q \in Request : KnownOf(sym, req[q])
    BY <1>3 DEF Known
  <1>6. sym \in [1..(nextId' - 1) -> Symbol]
    OBVIOUS
  <1>7. QED
    BY <1>1, <1>2, <1>4, <1>5, <1>6, Frame

\* The answer of a request.
LEMMA AnswerFacts ==
  ASSUME StoreInv, NEW p \in Request, NEW r \in Asked, NEW out, Answer(p, r, out),
         r.op = "create" /\ out = "ok" => r.row.id \in Nat
  PROVE  /\ req' = [req EXCEPT ![p] = Idle] /\ Idle \in Asked \cup {Idle}
         /\ acked' \in [created : SUBSET Nat, deleted : SUBSET Nat]
  <1>1. acked \in [created : SUBSET Nat, deleted : SUBSET Nat] /\ r.id \in Nat /\ r.op \in Ops
    BY DEF StoreInv, StoreTypes, PlainTypes, Asked
  <1>2. \/ acked' = [acked EXCEPT !.created = @ \cup {r.row.id}] /\ r.op = "create" /\ out = "ok"
        \/ acked' = [acked EXCEPT !.deleted = @ \cup {r.id}]
        \/ acked' = acked
    BY <1>1 DEF Answer, Ops
  <1>3. acked' \in [created : SUBSET Nat, deleted : SUBSET Nat]
    BY <1>1, <1>2
  <1>4. QED
    BY <1>3 DEF Answer

-----------------------------------------------------------------------------
(* The routes *)

\* A request as the routes hand it to the store.
Blank == [pc : {"idle"}, op : Ops, symbol : Symbol \cup {None},
          id : Nat, upd : Change, order : Seq(Nat), client : {FALSE}, fb : {"memory"},
          via : {"primary"}, copy : {{}}, row : {NoRow}, rows : {<<>>}]
IsNew(r) == r \in Blank /\ (r.op = "create" => r.symbol \in Symbol)

LEMMA StartStep ==
  ASSUME StoreInv, NEW p \in Request, NEW r, IsNew(r), NEW valid, Start(p, r, valid),
         valid /\ r.op = "reorder" => IsInjective(r.order) /\ r.order # <<>>
  PROVE  StoreInv'
  <1>0. /\ begun \in Nat /\ faults \in Nat /\ begun' = begun + 1
        /\ acked \in [created : SUBSET Nat, deleted : SUBSET Nat]
        /\ cfg \in [client : BOOLEAN, fb : Stores, serial : BOOLEAN]
        /\ UNCHANGED <<cfg, db, mirror, nextId, everFull>>
    BY DEF StoreInv, StoreTypes, PlainTypes, Start
  <1>1. ASSUME ~valid, UNCHANGED faults, Answer(p, r, "422")
        PROVE  StoreInv'
    <2>1. req' = [req EXCEPT ![p] = Idle] /\ acked' = acked
      BY <1>1 DEF Answer
    <2>2. begun' \in Nat /\ faults' \in Nat /\ Idle \in Asked \cup {Idle}
      BY <1>0, <1>1
    <2>3. RouteOf(Idle) /\ FaultlessOf(Idle) /\ \A sym : KnownOf(sym, Idle)
      BY IdleFacts
    <2>4. QED
      BY <1>0, <1>1, <2>1, <2>2, <2>3, QuietFrame
  <1>2. ASSUME valid, NEW client \in {cfg.client, FALSE}, NEW fb \in {cfg.fb, "memory"},
               faults' = IF client = cfg.client /\ fb = cfg.fb THEN faults ELSE faults + 1,
               Continue(p, [r EXCEPT !.client = client, !.fb = fb,
                                     !.via = IF client THEN "db" ELSE "primary",
                                     !.pc = IF r.op \in {"create", "reorder"} THEN "list"
                                            ELSE IF client THEN "write" ELSE "fallback"])
        PROVE  StoreInv'
    <2> DEFINE v == IF client THEN "db" ELSE "primary"
               l == IF r.op \in {"create", "reorder"} THEN "list"
                    ELSE IF client THEN "write" ELSE "fallback"
               n == [r EXCEPT !.client = client, !.fb = fb, !.via = v, !.pc = l]
    <2>1. req' = [req EXCEPT ![p] = n] /\ acked' = acked
      BY <1>2 DEF Continue
    <2>2. client \in BOOLEAN /\ fb \in Stores
      BY <1>0 DEF Stores
    <2>3. v \in {"db", "primary"} /\ l \in {"list", "write", "fallback"}
          /\ (client => v = "db") /\ (~client => v = "primary")
          /\ (l = "list" <=> r.op \in {"create", "reorder"}) /\ (l = "write" => client)
          /\ (l = "fallback" => ~client)
      BY <2>2
    <2> HIDE DEF v, l
    <2>4. n \in Asked
      <3>1. {} \in SUBSET Row /\ <<>> \in Seq(Row) /\ NoRow \in Row \cup {NoRow}
        OBVIOUS
      <3>2. l \in {"list", "write", "fallback", "save"} /\ v \in {"db", "mirror", "primary"}
        BY <2>3
      <3>3. QED
        BY <2>2, <3>1, <3>2 DEF IsNew, Blank, Asked
    <2>5. /\ n.pc = l /\ n.op = r.op /\ n.client = client /\ n.fb = fb /\ n.via = v
          /\ n.copy = {} /\ n.symbol = r.symbol /\ n.op \in Ops /\ n.order = r.order /\ n.rows = <<>>
      BY DEF IsNew, Blank
    <2> HIDE DEF n
    <2>6. ~Creating(n) /\ ~Ordering(n)
      BY <2>3, <2>5 DEF Creating, Ordering
    <2>7. RouteOf(n)
      <3>1. IsFiniteSet(n.copy) /\ Keyed(n.copy) /\ Cardinality(n.copy) <= Limit
        BY <2>5, FS_EmptySet, LimitType DEF Keyed
      <3>2. ~cfg.client => ~client
        OBVIOUS
      <3>3. QED
        BY <1>2, <2>3, <2>5, <2>6, <3>1, <3>2 DEF RouteOf, IsNew
    <2>8. faults' \in Nat /\ (faults' = 0 => faults = 0 /\ client = cfg.client /\ fb = cfg.fb)
      BY <1>0, <1>2
    <2>9. faults' = 0 => faults = 0 /\ FaultlessOf(n)
      BY <2>3, <2>5, <2>8 DEF FaultlessOf
    <2>10. \A sym : KnownOf(sym, n)
      BY <2>5, <2>6 DEF KnownOf, Names
    <2>11. begun' \in Nat /\ n \in Asked \cup {Idle}
      BY <1>0, <2>4
    <2>12. QED
      BY <1>0, <2>1, <2>7, <2>8, <2>9, <2>10, <2>11, QuietFrame
  <1>3. QED
    BY <1>1, <1>2 DEF Start

LEMMA RouteStep ==
  ASSUME StoreInv, NEW p \in Request,
         \/ add_to_watchlist(p) \/ update_watchlist_item(p)
         \/ delete_watchlist_item(p) \/ reorder_watchlist(p)
  PROVE  \E r, valid : /\ IsNew(r) /\ Start(p, r, valid)
                       /\ valid /\ r.op = "reorder" => IsInjective(r.order) /\ r.order # <<>>
  <1>0. nextId \in Nat
    BY DEF StoreInv, StoreTypes, PlainTypes
  <1>1. NoPatch \in Change /\ <<>> \in Seq(Nat)
    BY DEF NoPatch, Change
  <1>2. CASE add_to_watchlist(p)
    <2>1. PICK s \in Symbol : Start(p, [Idle EXCEPT !.op = "create", !.symbol = s], s \in listed)
      BY <1>2 DEF add_to_watchlist
    <2>2. /\ IsNew([Idle EXCEPT !.op = "create", !.symbol = s])
          /\ [Idle EXCEPT !.op = "create", !.symbol = s].op = "create"
      BY <1>1 DEF IsNew, Blank, Idle, Ops
    <2>3. QED
      BY <2>1, <2>2
  <1>3. CASE update_watchlist_item(p)
    <2>1. PICK id \in 1..nextId, sort \in {None, 0, 1}, note \in {None, "n"} :
              Start(p, [Idle EXCEPT !.op = "update", !.id = id, !.upd = [sort |-> sort, note |-> note]],
                    sort # None \/ note # None)
      BY <1>3 DEF update_watchlist_item
    <2>2. [sort |-> sort, note |-> note] \in Change /\ id \in Nat
      <3>1. id \in Nat
        BY <1>0
      <3>2. sort \in Nat \cup {None}
        OBVIOUS
      <3>3. QED
        BY <3>1, <3>2 DEF Change
    <2>3. /\ IsNew([Idle EXCEPT !.op = "update", !.id = id, !.upd = [sort |-> sort, note |-> note]])
          /\ [Idle EXCEPT !.op = "update", !.id = id, !.upd = [sort |-> sort, note |-> note]].op = "update"
      BY <1>1, <2>2 DEF IsNew, Blank, Idle, Ops
    <2>4. QED
      BY <2>1, <2>3
  <1>4. CASE delete_watchlist_item(p)
    <2>1. PICK id \in 1..nextId : Start(p, [Idle EXCEPT !.op = "delete", !.id = id], TRUE)
      BY <1>4 DEF delete_watchlist_item
    <2>2. /\ IsNew([Idle EXCEPT !.op = "delete", !.id = id])
          /\ [Idle EXCEPT !.op = "delete", !.id = id].op = "delete"
      <3>1. id \in Nat
        BY <1>0
      <3>2. QED
        BY <3>1, <1>1 DEF IsNew, Blank, Idle, Ops
    <2>3. QED
      BY <2>1, <2>2
  <1>5. CASE reorder_watchlist(p)
    <2>1. PICK order \in Orders \cup {<<1, 1>>} :
              Start(p, [Idle EXCEPT !.op = "reorder", !.order = order],
                    order # <<>> /\ IsInjective(order))
      BY <1>5 DEF reorder_watchlist
    <2>2. order \in Seq(Nat)
      <3>1. ASSUME NEW n \in 0..(nextId - 1), order \in [1..n -> 1..(nextId - 1)]
            PROVE  order \in Seq(Nat)
        <4>1. n \in Nat /\ order \in [1..n -> Nat]
          BY <1>0, <3>1
        <4>2. QED
          BY <4>1
      <3>2. <<1, 1>> \in Seq(Nat)
        OBVIOUS
      <3>3. QED
        BY <2>1, <3>1, <3>2 DEF Orders
    <2>3. /\ IsNew([Idle EXCEPT !.op = "reorder", !.order = order])
          /\ [Idle EXCEPT !.op = "reorder", !.order = order].order = order
      BY <1>1, <2>2 DEF IsNew, Blank, Idle, Ops
    <2>4. QED
      BY <2>1, <2>3
  <1>6. QED
    BY <1>2, <1>3, <1>4, <1>5

-----------------------------------------------------------------------------
(* The store *)

LEMMA LiveAsked ==
  ASSUME StoreInv, NEW p \in Request, req[p].pc # "idle"
  PROVE  /\ req[p] \in Asked /\ RouteOf(req[p]) /\ (faults = 0 => FaultlessOf(req[p]))
         /\ req[p].op \in Ops /\ req[p].fb \in Stores /\ req[p].client \in BOOLEAN
  BY IdleFacts DEF StoreInv, StoreTypes, RouteInv, Asked

LEMMA PlainFacts ==
  ASSUME StoreInv
  PROVE  /\ db \in SUBSET Row /\ IsFiniteSet(db) /\ Keyed(db)
         /\ \A b \in Stores : mirror[b] \in SUBSET Row /\ IsFiniteSet(mirror[b]) /\ Keyed(mirror[b])
         /\ nextId \in Nat \ {0} /\ begun \in Nat /\ faults \in Nat
         /\ acked \in [created : SUBSET Nat, deleted : SUBSET Nat]
         /\ cfg \in [client : BOOLEAN, fb : Stores, serial : BOOLEAN]
  BY DEF StoreInv, StoreTypes, PlainTypes, KeyedInv

\* A request answered while the stores stay.
LEMMA AnswerStep ==
  ASSUME StoreInv, NEW p \in Request, req[p].pc # "idle", NEW out, Answer(p, req[p], out),
         req[p].op = "create" => out # "ok" \/ req[p].pc # "list",
         UNCHANGED <<cfg, db, mirror, nextId, begun, everFull>>,
         faults' \in Nat, faults' = 0 => faults = 0
  PROVE  StoreInv'
  <1>1. req[p] \in Asked /\ RouteOf(req[p]) /\ req[p].pc \in {"list", "write", "fallback", "save"}
    BY LiveAsked DEF Asked
  <1>2. req[p].op = "create" /\ out = "ok" => req[p].row.id \in Nat
    BY <1>1 DEF RouteOf, Creating, Row
  <1>3. /\ req' = [req EXCEPT ![p] = Idle] /\ Idle \in Asked \cup {Idle}
        /\ acked' \in [created : SUBSET Nat, deleted : SUBSET Nat]
    BY <1>1, <1>2, AnswerFacts
  <1>4. RouteOf(Idle) /\ FaultlessOf(Idle) /\ \A sym : KnownOf(sym, Idle)
    BY IdleFacts
  <1>5. begun' \in Nat
    BY PlainFacts
  <1>6. QED
    BY <1>3, <1>4, <1>5, QuietFrame

LEMMA SeenFacts ==
  ASSUME StoreInv, NEW r, r.fb \in Stores, NEW seen \in {db, mirror[r.fb]}, Sees(r, seen)
  PROVE  /\ seen \in SUBSET Row /\ IsFiniteSet(seen) /\ Keyed(seen)
         /\ \A sym : Known(sym) => Names(sym, seen)
         /\ faults' \in Nat /\ (faults' = 0 => faults = 0)
  <1>1. seen \in SUBSET Row /\ IsFiniteSet(seen) /\ Keyed(seen) /\ faults \in Nat
    BY PlainFacts
  <1>2. \A sym : Known(sym) => Names(sym, seen)
    BY DEF Known
  <1>3. faults' = faults \/ faults' = faults + 1
    BY DEF Sees
  <1>4. QED
    BY <1>1, <1>2, <1>3

LEMMA ReorderStep ==
  ASSUME StoreInv, NEW p \in Request, reorder(p)
  PROVE  StoreInv'
  <1> DEFINE r == req[p]
  <1>1. /\ r.pc = "list" /\ r.op = "reorder" /\ r \in Asked /\ RouteOf(r) /\ r.fb \in Stores
        /\ UNCHANGED <<cfg, db, mirror, nextId, begun, everFull>>
        /\ faults = 0 => FaultlessOf(r)
    BY LiveAsked DEF reorder
  <1>2. PICK seen \in {db, mirror[r.fb]} :
            /\ Sees(r, seen)
            /\ IF Range(r.order) = IdsOf(seen)
               THEN Continue(p, [r EXCEPT !.pc = IF r.client THEN "write" ELSE "fallback"])
               ELSE Answer(p, r, "404")
    BY DEF reorder
  <1>3. /\ seen \in SUBSET Row /\ IsFiniteSet(seen) /\ Keyed(seen)
        /\ \A sym : Known(sym) => Names(sym, seen)
        /\ faults' \in Nat /\ (faults' = 0 => faults = 0)
    BY <1>1, <1>2, SeenFacts
  <1>4. CASE Range(r.order) # IdsOf(seen)
    BY <1>1, <1>2, <1>3, <1>4, AnswerStep
  <1>5. CASE Range(r.order) = IdsOf(seen)
    <2> DEFINE l == IF r.client THEN "write" ELSE "fallback"
               n == [r EXCEPT !.pc = l]
    <2>1. req' = [req EXCEPT ![p] = n] /\ acked' = acked
      BY <1>2, <1>5 DEF Continue
    <2>2. /\ l \in {"write", "fallback"} /\ (l = "write" => r.client) /\ (l = "fallback" => ~r.client)
          /\ r.client \in BOOLEAN
      BY <1>1 DEF Asked
    <2> HIDE DEF l
    <2>3. n \in Asked
      BY <1>1, <2>2 DEF Asked
    <2>4. /\ n.pc = l /\ n.op = "reorder" /\ n.client = r.client /\ n.fb = r.fb /\ n.via = r.via
          /\ n.copy = r.copy /\ n.order = r.order /\ n.rows = r.rows
      BY <1>1 DEF Asked
    <2> HIDE DEF n
    <2>5. r.rows = <<>> /\ IsInjective(r.order) /\ r.order \in Seq(Nat) /\ r.order # <<>>
      BY <1>1 DEF RouteOf, Asked
    <2>0. Len(r.rows) < Len(r.order)
      BY <2>5
    <2>6. RouteOf(n)
      BY <1>1, <2>0, <2>2, <2>4, <2>5 DEF RouteOf, Creating
    <2>7. faults' = 0 => FaultlessOf(n)
      BY <1>1, <1>3, <2>2, <2>4 DEF FaultlessOf
    <2>8. ASSUME NEW sym \in [1..(nextId - 1) -> Symbol], Known(sym)
          PROVE  KnownOf(sym, n)
      <3>1. Names(sym, seen) /\ Names(sym, r.copy)
        BY <1>3, <2>8 DEF Known, KnownOf
      <3>2. \A k \in DOMAIN r.order : r.order[k] \in IdsOf(seen)
        BY <1>5 DEF Range
      <3>3. \A k \in DOMAIN r.order : r.order[k] \in DOMAIN sym
        BY <3>1, <3>2 DEF Names, IdsOf
      <3>4. \A x, y \in seen : x.id # y.id => sym[x.id] # sym[y.id]
        BY <1>3, <3>1 DEF Keyed, Names
      <3>5. ASSUME NEW j \in DOMAIN r.order, NEW k \in DOMAIN r.order, j # k
            PROVE  sym[r.order[j]] # sym[r.order[k]]
        <4>1. r.order[j] # r.order[k]
          BY <2>5, <3>5 DEF IsInjective
        <4>2. PICK x \in seen, y \in seen : x.id = r.order[j] /\ y.id = r.order[k]
          BY <3>2 DEF IdsOf
        <4>3. QED
          BY <3>4, <4>1, <4>2
      <3>6. Len(r.rows) <= Len(r.order) /\ DOMAIN r.rows = {}
        BY <2>5
      <3>7. InOrder(sym, n)
        BY <2>4, <2>5, <3>3, <3>5, <3>6 DEF InOrder
      <3>8. QED
        BY <2>4, <3>1, <3>7 DEF KnownOf, Creating
    <2>9. begun' \in Nat /\ acked' \in [created : SUBSET Nat, deleted : SUBSET Nat]
      BY <1>1, <2>1, PlainFacts
    <2>10. n \in Asked \cup {Idle}
      BY <2>3
    <2>11. QED
      BY <1>1, <1>3, <2>1, <2>6, <2>7, <2>8, <2>9, <2>10, QuietFrame
  <1>6. QED
    BY <1>4, <1>5

\* More ids are known.
LEMMA KnowsMore ==
  ASSUME NEW sym, NEW more, DOMAIN sym \subseteq DOMAIN more, \A i \in DOMAIN sym : more[i] = sym[i]
  PROVE  /\ \A rows : Names(sym, rows) => Names(more, rows)
         /\ \A r \in Asked \cup {Idle} : KnownOf(sym, r) => KnownOf(more, r)
  <1>1. \A rows : Names(sym, rows) => Names(more, rows)
    BY DEF Names
  <1>2. ASSUME NEW r \in Asked, InOrder(sym, r)
        PROVE  InOrder(more, r)
    <2>1. r.rows \in Seq(Row) /\ r.order \in Seq(Nat) /\ Len(r.rows) <= Len(r.order)
      BY <1>2 DEF Asked, InOrder
    <2>2. \A k \in DOMAIN r.rows : k \in DOMAIN r.order
      BY <2>1
    <2>3. \A k \in DOMAIN r.order : r.order[k] \in DOMAIN sym /\ sym[r.order[k]] = more[r.order[k]]
      BY <1>2 DEF InOrder
    <2>4. QED
      BY <1>2, <2>2, <2>3 DEF InOrder
  <1>3. ~Ordering(Idle)
    BY IdleFacts DEF Ordering
  <1>4. QED
    BY <1>1, <1>2, <1>3 DEF KnownOf

LEMMA CreateStep ==
  ASSUME StoreInv, NEW p \in Request, create_item(p)
  PROVE  StoreInv'
  <1> DEFINE r == req[p]
  <1>1. /\ r.pc = "list" /\ r.op = "create" /\ r \in Asked /\ RouteOf(r) /\ r.fb \in Stores
        /\ UNCHANGED <<cfg, db, mirror, begun, everFull>>
        /\ faults = 0 => FaultlessOf(r)
    BY LiveAsked DEF create_item
  <1>2. CASE UNCHANGED <<nextId, faults>> /\ Answer(p, r, "422")
    <2>1. faults' \in Nat /\ (faults' = 0 => faults = 0)
      BY <1>2, PlainFacts
    <2>2. QED
      BY <1>1, <1>2, <2>1, AnswerStep
  <1>3. ASSUME nextId' = nextId + 1, NEW seen \in {db, mirror[r.fb]}, Sees(r, seen),
               Continue(p, [r EXCEPT !.pc = IF r.client THEN "write" ELSE "fallback",
                                     !.row = NewRow(nextId, r.symbol, next_sort_index(seen))])
        PROVE  StoreInv'
    <2> DEFINE l == IF r.client THEN "write" ELSE "fallback"
               row == NewRow(nextId, r.symbol, next_sort_index(seen))
               n == [r EXCEPT !.pc = l, !.row = row]
    <2>1. req' = [req EXCEPT ![p] = n] /\ acked' = acked
      BY <1>3 DEF Continue
    <2>2. /\ seen \in SUBSET Row /\ IsFiniteSet(seen)
          /\ faults' \in Nat /\ (faults' = 0 => faults = 0)
      BY <1>1, <1>3, SeenFacts
    <2>3. /\ l \in {"write", "fallback"} /\ (l = "write" => r.client) /\ (l = "fallback" => ~r.client)
          /\ r.client \in BOOLEAN
      BY <1>1 DEF Asked
    <2>4. r.symbol \in Symbol /\ nextId \in Nat \ {0} /\ next_sort_index(seen) \in Nat
      BY <1>1, <2>2, NextSort, PlainFacts DEF RouteOf
    <2>5. row \in Row /\ row.id = nextId /\ row.symbol = r.symbol
      BY <2>4 DEF NewRow, Row
    <2> HIDE DEF l, row
    <2>6. n \in Asked
      BY <1>1, <2>3, <2>5 DEF Asked
    <2>7. /\ n.pc = l /\ n.op = "create" /\ n.client = r.client /\ n.fb = r.fb /\ n.via = r.via
          /\ n.copy = r.copy /\ n.row = row /\ n.symbol = r.symbol
      BY <1>1 DEF Asked
    <2> HIDE DEF n
    <2>8. RouteOf(n)
      BY <1>1, <2>3, <2>4, <2>5, <2>7 DEF RouteOf
    <2>9. faults' = 0 => faults = 0 /\ FaultlessOf(n)
      BY <1>1, <2>2, <2>3, <2>7 DEF FaultlessOf
    <2>10. PICK sym \in [1..(nextId - 1) -> Symbol] : Known(sym)
      BY DEF StoreInv, KnownInv
    <2>a. PICK more : more = [i \in 1..(nextId' - 1) |-> IF i = nextId THEN r.symbol ELSE sym[i]]
      OBVIOUS
    <2>11. \A i \in 1..(nextId' - 1) : i = nextId \/ i \in 1..(nextId - 1)
      BY <1>3, <2>4
    <2>12. more \in [1..(nextId' - 1) -> Symbol]
      BY <2>4, <2>10, <2>11, <2>a
    <2>13. DOMAIN sym \subseteq DOMAIN more /\ \A i \in DOMAIN sym : more[i] = sym[i]
      <3>1. \A i \in 1..(nextId - 1) : i \in 1..(nextId' - 1) /\ i # nextId
        BY <1>3, <2>4
      <3>2. QED
        BY <2>10, <3>1, <2>a
    <2>14. nextId \in DOMAIN more /\ more[nextId] = r.symbol
      <3>1. nextId \in 1..(nextId' - 1)
        BY <1>3, <2>4
      <3>2. QED
        BY <3>1, <2>a
    <2>15. req \in [Request -> Asked \cup {Idle}]
      BY DEF StoreInv, StoreTypes
    <2>16. /\ Names(more, db) /\ \A b \in Stores : Names(more, mirror[b])
           /\ \A q \in Request : KnownOf(more, req[q])
      BY <2>10, <2>13, <2>15, KnowsMore DEF Known
    <2>17. Names(more, {row})
      BY <2>5, <2>14 DEF Names
    <2>18. KnownOf(more, n)
      BY <2>7, <2>16, <2>17 DEF KnownOf, Ordering
    <2>19. PlainTypes' /\ KeyedInv'
      <3>1. nextId' \in Nat \ {0}
        BY <1>3, <2>4
      <3>2. QED
        BY <1>1, <2>1, <2>2, <3>1 DEF StoreInv, StoreTypes, PlainTypes, KeyedInv, Keyed
    <2>20. Names(more, db)' /\ \A b \in Stores : Names(more, mirror[b])'
      BY <1>1, <2>16 DEF Names
    <2>21. n \in Asked \cup {Idle}
      BY <2>6
    <2>22. QED
      BY <1>1, <2>1, <2>8, <2>9, <2>12, <2>16, <2>18, <2>19, <2>20, <2>21, Frame
  <1>4. QED
    BY <1>2, <1>3 DEF create_item

\* What Postgres makes of its rows.
LEMMA EffectKeeps ==
  ASSUME StoreInv, NEW p \in Request, req[p].pc = "write"
  PROVE  LET r == req[p] IN
         /\ Effect(r) \in SUBSET Row /\ IsFiniteSet(Effect(r)) /\ Keyed(Effect(r))
         /\ \A sym : Known(sym) => Names(sym, Effect(r))
         /\ Target(r) \in SUBSET db
         /\ r.op # "create" => \A row \in Target(r) :
               /\ Written(r, row) \in Row
               /\ Written(r, row).id = row.id /\ Written(r, row).symbol = row.symbol
               /\ r.op = "reorder" => row.id = r.order[Len(r.rows) + 1]
  <1> DEFINE r == req[p]
             f == [row \in db |-> IF row \in Target(r) THEN Written(r, row) ELSE row]
  <1>1. r \in Asked /\ RouteOf(r) /\ r.op \in Ops
    BY LiveAsked
  <1>2. db \in SUBSET Row /\ IsFiniteSet(db) /\ Keyed(db) /\ \A sym : Known(sym) => Names(sym, db)
    BY PlainFacts DEF Known
  <1>3. Target(r) \in SUBSET db
    BY DEF Target
  <1>4. ASSUME r.op # "create", NEW row \in Target(r)
        PROVE  /\ Written(r, row) \in Row
               /\ Written(r, row).id = row.id /\ Written(r, row).symbol = row.symbol
               /\ r.op = "reorder" => row.id = r.order[Len(r.rows) + 1]
    <2>0. row \in Row /\ r.upd \in Change /\ Len(r.rows) \in Nat
      BY <1>1, <1>2, <1>3, <1>4 DEF Asked
    <2>1. CASE r.op = "update"
      BY <2>0, <2>1, PatchType DEF Written
    <2>2. CASE r.op = "delete"
      BY <2>0, <2>2 DEF Written
    <2>3. CASE r.op = "reorder"
      <3>1. Written(r, row) = [row EXCEPT !.sort = Len(r.rows)]
        BY <2>3 DEF Written
      <3>2. row.id = r.order[Len(r.rows) + 1]
        BY <2>3 DEF Target
      <3>3. QED
        BY <2>0, <3>1, <3>2 DEF Row
    <2>4. QED
      BY <1>1, <1>4, <2>1, <2>2, <2>3 DEF Ops
  <1>5. CASE r.op = "create"
    <2>1. r.row \in Row
      BY <1>1, <1>5 DEF RouteOf, Creating
    <2>2. CASE \E row \in db : row.symbol = r.row.symbol
      <3>1. Effect(r) = db
        BY <1>5, <2>2 DEF Effect
      <3>2. QED
        BY <1>2, <1>3, <1>5, <3>1
    <2>3. CASE ~\E row \in db : row.symbol = r.row.symbol
      <3>1. Effect(r) = db \cup {r.row}
        BY <1>5, <2>3 DEF Effect
      <3>2. \A sym : Known(sym) => Names(sym, {r.row})
        BY <1>5 DEF Known, KnownOf, Creating
      <3>3. \A sym : Known(sym) => Names(sym, Effect(r))
        BY <1>2, <3>1, <3>2 DEF Names
      <3>4. \A row \in db : row.id # r.row.id
        <4>1. PICK sym \in [1..(nextId - 1) -> Symbol] : Known(sym)
          BY DEF StoreInv, KnownInv
        <4>2. QED
          BY <1>2, <2>3, <3>2, <4>1 DEF Names
      <3>5. Keyed(Effect(r))
        BY <1>2, <2>3, <3>1, <3>4 DEF Keyed
      <3>6. IsFiniteSet(Effect(r)) /\ Effect(r) \in SUBSET Row
        BY <1>2, <2>1, <3>1, FS_AddElement
      <3>7. QED
        BY <1>3, <1>5, <3>3, <3>5, <3>6
    <2>4. QED
      BY <2>2, <2>3
  <1>6. CASE r.op = "delete"
    <2>1. Effect(r) \in SUBSET db
      BY <1>6 DEF Effect
    <2>2. IsFiniteSet(Effect(r))
      BY <1>2, <2>1, FS_Subset
    <2>3. Keyed(Effect(r)) /\ \A sym : Known(sym) => Names(sym, Effect(r))
      BY <1>2, <2>1 DEF Keyed, Names
    <2>4. QED
      BY <1>2, <1>3, <1>4, <1>6, <2>1, <2>2, <2>3
  <1>7. CASE r.op \in {"update", "reorder"}
    <2>1. Effect(r) = (db \ Target(r)) \cup {Written(r, row) : row \in Target(r)}
      BY <1>7 DEF Effect
    <2>2. \A row \in db : f[row] = IF row \in Target(r) THEN Written(r, row) ELSE row
      OBVIOUS
    <2>3. Keeps(db, f)
      BY <1>2, <1>4, <1>7, <2>2 DEF Keeps
    <2> HIDE DEF f
    <2>4. Effect(r) = Image(db, f)
      BY <1>3, <2>1, <2>2 DEF Image
    <2>5. QED
      BY <1>2, <1>3, <1>4, <1>7, <2>3, <2>4, ImageKeeps
  <1>8. QED
    BY <1>1, <1>5, <1>6, <1>7 DEF Ops

\* The request goes on with what Postgres answered.
LEMMA AnsweredFacts ==
  ASSUME NEW r \in Asked, RouteOf(r), r.pc = "write", NEW row,
         r.op # "create" => row \in Row,
         NEW sym, KnownOf(sym, r),
         r.op = "reorder" => row.id = r.order[Len(r.rows) + 1] /\ row.symbol = sym[row.id]
  PROVE  LET n == Answered(r, row) IN
         /\ n \in Asked /\ RouteOf(n) /\ KnownOf(sym, n)
         /\ FaultlessOf(r) => FaultlessOf(n)
         /\ n.op = r.op /\ n.row = r.row /\ n.id = r.id /\ n.order = r.order
         /\ n.pc \in {"write", "fallback"} /\ (n.pc = "write" => n.op = "reorder")
         /\ n.via \in {"db", "mirror"} /\ (n.pc = "fallback" <=> n.via = "mirror")
         /\ n.client = r.client /\ n.fb = r.fb /\ n.symbol = r.symbol
  <1> DEFINE n == Answered(r, row)
  <1>0. r.op \in Ops /\ r.client /\ r.via = "db"
    BY DEF Asked, RouteOf
  <1>1. CASE r.op \in {"create", "delete"}
    <2>1. n = [r EXCEPT !.pc = "fallback", !.via = "mirror"]
      BY <1>1 DEF Answered
    <2> HIDE DEF n
    <2>2. n \in Asked
      BY <2>1 DEF Asked
    <2>3. /\ n.pc = "fallback" /\ n.via = "mirror" /\ n.op = r.op /\ n.client = r.client /\ n.fb = r.fb
          /\ n.row = r.row /\ n.id = r.id /\ n.order = r.order /\ n.rows = r.rows /\ n.copy = r.copy
          /\ n.symbol = r.symbol
      BY <2>1 DEF Asked
    <2>4. RouteOf(n) /\ KnownOf(sym, n) /\ (FaultlessOf(r) => FaultlessOf(n))
      BY <1>0, <1>1, <2>3 DEF RouteOf, KnownOf, FaultlessOf, Creating, Ordering
    <2>5. QED
      BY <1>1, <2>2, <2>3, <2>4 DEF n
  <1>2. CASE r.op = "update"
    <2>1. n = [r EXCEPT !.pc = "fallback", !.via = "mirror", !.upd = [sort |-> row.sort, note |-> row.note]]
      BY <1>2 DEF Answered
    <2> HIDE DEF n
    <2>2. [sort |-> row.sort, note |-> row.note] \in Change
      BY <1>2 DEF Row, Change
    <2>3. n \in Asked
      BY <2>1, <2>2 DEF Asked
    <2>4. /\ n.pc = "fallback" /\ n.via = "mirror" /\ n.op = r.op /\ n.client = r.client /\ n.fb = r.fb
          /\ n.row = r.row /\ n.id = r.id /\ n.order = r.order /\ n.rows = r.rows /\ n.copy = r.copy
          /\ n.symbol = r.symbol
      BY <2>1 DEF Asked
    <2>5. RouteOf(n) /\ KnownOf(sym, n) /\ (FaultlessOf(r) => FaultlessOf(n))
      BY <1>0, <1>2, <2>4 DEF RouteOf, KnownOf, FaultlessOf, Creating, Ordering
    <2>6. QED
      BY <1>2, <2>3, <2>4, <2>5 DEF n
  <1>3. CASE r.op = "reorder"
    <2> DEFINE rows == Append(r.rows, row)
               last == Len(r.rows) + 1 >= Len(r.order)
    <2>0. Len(r.rows) \in Nat /\ Len(r.order) \in Nat
      BY DEF Asked
    <2>1. /\ ~last => n = [r EXCEPT !.rows = rows]
          /\ last => n = [r EXCEPT !.rows = rows, !.pc = "fallback", !.via = "mirror"]
      BY <1>3, <2>0 DEF Answered
    <2>2. /\ r.rows \in Seq(Row) /\ r.order \in Seq(Nat) /\ row \in Row
          /\ Len(r.rows) < Len(r.order) /\ InOrder(sym, r)
      BY <1>3 DEF Asked, RouteOf, KnownOf, Ordering
    <2>3. /\ rows \in Seq(Row) /\ Len(rows) = Len(r.rows) + 1 /\ Len(rows) <= Len(r.order)
          /\ rows[Len(r.rows) + 1] = row /\ \A k \in DOMAIN r.rows : rows[k] = r.rows[k]
          /\ \A k \in DOMAIN rows : k = Len(r.rows) + 1 \/ k \in DOMAIN r.rows
          /\ ~last => Len(rows) < Len(r.order)
      BY <2>2
    <2> HIDE DEF n, rows, last
    <2>4. n \in Asked
      BY <2>1, <2>3 DEF Asked
    <2>5. /\ n.op = r.op /\ n.client = r.client /\ n.fb = r.fb /\ n.symbol = r.symbol
          /\ n.row = r.row /\ n.id = r.id /\ n.order = r.order /\ n.rows = rows /\ n.copy = r.copy
          /\ \/ ~last /\ n.pc = "write" /\ n.via = "db"
             \/ last /\ n.pc = "fallback" /\ n.via = "mirror"
      BY <1>0, <2>1 DEF Asked
    <2>6. RouteOf(n)
      BY <1>0, <1>3, <2>3, <2>5 DEF RouteOf, Creating
    <2>7. InOrder(sym, n)
      BY <1>3, <2>2, <2>3, <2>5 DEF InOrder
    <2>8. KnownOf(sym, n) /\ (FaultlessOf(r) => FaultlessOf(n))
      BY <1>0, <1>3, <2>5, <2>7 DEF KnownOf, FaultlessOf, Creating
    <2>9. QED
      BY <1>3, <2>4, <2>5, <2>6, <2>8 DEF n
  <1>4. QED
    BY <1>0, <1>1, <1>2, <1>3 DEF Ops

\* Postgres changes, and one request moves.
LEMMA DbFrame ==
  ASSUME StoreInv, NEW p \in Request, req[p].pc = "write", NEW r, r \in Asked \cup {Idle},
         db' = db \/ db' = Effect(req[p]), everFull' \in BOOLEAN,
         req' = [req EXCEPT ![p] = r], UNCHANGED <<cfg, mirror, nextId, begun>>,
         faults' \in Nat, acked' \in [created : SUBSET Nat, deleted : SUBSET Nat],
         faults' = 0 => faults = 0 /\ FaultlessOf(r), RouteOf(r),
         \A sym \in [1..(nextId - 1) -> Symbol] : Known(sym) => KnownOf(sym, r)
  PROVE  StoreInv'
  <1>1. PICK sym \in [1..(nextId - 1) -> Symbol] : Known(sym)
    BY DEF StoreInv, KnownInv
  <1>2. db \in SUBSET Row /\ IsFiniteSet(db) /\ Keyed(db) /\ Names(sym, db)
    BY <1>1, PlainFacts DEF Known
  <1>3. db' \in SUBSET Row /\ IsFiniteSet(db') /\ Keyed(db') /\ Names(sym, db')
    BY <1>1, <1>2, EffectKeeps
  <1>4. PlainTypes'
    BY <1>3 DEF StoreInv, StoreTypes, PlainTypes
  <1>5. KeyedInv'
    BY <1>3 DEF StoreInv, KeyedInv, Keyed
  <1>6. Names(sym, db)' /\ \A b \in Stores : Names(sym, mirror[b])'
    BY <1>1, <1>3 DEF Known, Names
  <1>7. KnownOf(sym, r) /\ \A q \in Request : KnownOf(sym, req[q])
    BY <1>1 DEF Known
  <1>8. sym \in [1..(nextId' - 1) -> Symbol]
    OBVIOUS
  <1>9. QED
    BY <1>4, <1>5, <1>6, <1>7, <1>8, Frame

LEMMA WriteStep ==
  ASSUME StoreInv, NEW p \in Request, WriteRow(p)
  PROVE  StoreInv'
  <1> DEFINE r == req[p]
  <1>1. /\ r.pc = "write" /\ r \in Asked /\ RouteOf(r) /\ r.op \in Ops
        /\ UNCHANGED <<cfg, mirror, listed, nextId, begun, faults>>
        /\ db' = Effect(r) /\ faults \in Nat
        /\ faults = 0 => FaultlessOf(r)
    BY LiveAsked, PlainFacts DEF WriteRow
  <1>2. everFull' \in BOOLEAN
    BY DEF WriteRow, StoreInv, StoreTypes, PlainTypes
  <1>3. CASE \E out \in {"409", "404"} : Answer(p, r, out)
    <2>1. req' = [req EXCEPT ![p] = Idle] /\ acked' = acked
      BY <1>1, <1>3 DEF Answer, Ops
    <2>2. RouteOf(Idle) /\ FaultlessOf(Idle) /\ \A sym : KnownOf(sym, Idle)
      BY IdleFacts
    <2>3. acked' \in [created : SUBSET Nat, deleted : SUBSET Nat] /\ Idle \in Asked \cup {Idle}
      BY <2>1, PlainFacts
    <2>4. QED
      BY <1>1, <1>2, <2>1, <2>2, <2>3, DbFrame
  <1>4. ASSUME NEW row, Continue(p, Answered(r, row)), r.op # "create" => row \in Row,
               \A sym : Known(sym) /\ r.op = "reorder" =>
                   row.id = r.order[Len(r.rows) + 1] /\ row.symbol = sym[row.id]
        PROVE  StoreInv'
    <2> DEFINE n == Answered(r, row)
    <2>1. req' = [req EXCEPT ![p] = n] /\ acked' = acked
      BY <1>4 DEF Continue
    <2>2. \A sym : Known(sym) => KnownOf(sym, r)
      BY DEF Known
    <2>3. PICK sym \in [1..(nextId - 1) -> Symbol] : Known(sym)
      BY DEF StoreInv, KnownInv
    <2>4. \A s : Known(s) => n \in Asked /\ RouteOf(n) /\ KnownOf(s, n) /\ (FaultlessOf(r) => FaultlessOf(n))
      BY <1>1, <1>4, <2>2, AnsweredFacts
    <2>5. acked' \in [created : SUBSET Nat, deleted : SUBSET Nat]
      BY <2>1, PlainFacts
    <2> HIDE DEF n
    <2>6. n \in Asked \cup {Idle}
      BY <2>3, <2>4
    <2>7. QED
      BY <1>1, <1>2, <2>1, <2>3, <2>4, <2>5, <2>6, DbFrame
  <1>5. CASE r.op = "create"
    <2>1. Continue(p, Answered(r, r.row)) \/ Answer(p, r, "409")
      BY <1>5 DEF WriteRow
    <2>2. QED
      BY <1>3, <1>4, <1>5, <2>1
  <1>6. CASE r.op # "create"
    <2>1. \/ Answer(p, r, "404")
          \/ \E row \in Target(r) : Continue(p, Answered(r, Written(r, row)))
      BY <1>6 DEF WriteRow
    <2>2. ASSUME NEW row \in Target(r), Continue(p, Answered(r, Written(r, row)))
          PROVE  StoreInv'
      <3>1. /\ Written(r, row) \in Row
            /\ Written(r, row).id = row.id /\ Written(r, row).symbol = row.symbol
            /\ r.op = "reorder" => row.id = r.order[Len(r.rows) + 1]
            /\ row \in db
        BY <1>1, <1>6, <2>2, EffectKeeps
      <3>2. \A sym : Known(sym) => row.symbol = sym[row.id]
        BY <3>1 DEF Known, Names
      <3>3. QED
        BY <1>4, <2>2, <3>1, <3>2
    <2>3. QED
      BY <1>3, <2>1, <2>2
  <1>7. QED
    BY <1>5, <1>6

LEMMA WriteFailsStep ==
  ASSUME StoreInv, NEW p \in Request, WriteFails(p)
  PROVE  StoreInv'
  <1> DEFINE r == req[p]
             n == [r EXCEPT !.pc = "fallback", !.via = "primary"]
  <1>1. /\ r.pc = "write" /\ r \in Asked /\ RouteOf(r) /\ r.op \in Ops
        /\ UNCHANGED <<cfg, mirror, nextId, begun>>
        /\ (db' = db \/ db' = Effect(r)) /\ faults \in Nat /\ faults' = faults + 1
        /\ req' = [req EXCEPT ![p] = n] /\ acked' = acked
    BY LiveAsked, PlainFacts DEF WriteFails, Continue
  <1>2. everFull' \in BOOLEAN
    BY DEF WriteFails, StoreInv, StoreTypes, PlainTypes
  <1>3. n \in Asked
    BY <1>1 DEF Asked
  <1>4. /\ n.pc = "fallback" /\ n.via = "primary" /\ n.op = r.op /\ n.client = r.client /\ n.fb = r.fb
        /\ n.row = r.row /\ n.id = r.id /\ n.order = r.order /\ n.rows = r.rows /\ n.copy = r.copy
        /\ n.symbol = r.symbol
    BY <1>1 DEF Asked
  <1> HIDE DEF n
  <1>5. RouteOf(n)
    BY <1>1, <1>4 DEF RouteOf, Creating
  <1>6. \A sym : Known(sym) => KnownOf(sym, n)
    <2>1. \A sym : Known(sym) => KnownOf(sym, r)
      BY DEF Known
    <2>2. (Creating(n) => Creating(r)) /\ (Ordering(n) => Ordering(r))
      BY <1>1, <1>4 DEF Creating, Ordering
    <2>3. \A sym : InOrder(sym, r) => InOrder(sym, n)
      BY <1>4 DEF InOrder
    <2>4. QED
      BY <1>4, <2>1, <2>2, <2>3 DEF KnownOf
  <1>7. /\ faults' \in Nat /\ faults' # 0 /\ n \in Asked \cup {Idle}
        /\ acked' \in [created : SUBSET Nat, deleted : SUBSET Nat]
    BY <1>1, <1>3, PlainFacts
  <1>8. QED
    BY <1>1, <1>2, <1>5, <1>6, <1>7, DbFrame

\* A fallback changes, and the request is answered.
LEMMA MirrorFrame ==
  ASSUME StoreInv, NEW p \in Request, NEW b \in Stores, NEW out,
         req[p].pc \in {"fallback", "save"}, Answer(p, req[p], out),
         NEW old, old = mirror[b] \/ old = req[p].copy,
         mirror' = mirror \/ mirror' = [mirror EXCEPT ![b] = Fallback(old, req[p]).rows],
         UNCHANGED <<cfg, db, nextId, begun, faults, everFull>>
  PROVE  StoreInv'
  <1> DEFINE r == req[p]
             new == Fallback(old, r).rows
  <1>1. r \in Asked /\ RouteOf(r) /\ r.pc \in {"list", "write", "fallback", "save"}
    BY LiveAsked DEF Asked
  <1>2. r.op = "create" /\ out = "ok" => r.row.id \in Nat
    BY <1>1 DEF RouteOf, Creating, Row
  <1>3. /\ req' = [req EXCEPT ![p] = Idle] /\ Idle \in Asked \cup {Idle}
        /\ acked' \in [created : SUBSET Nat, deleted : SUBSET Nat]
    BY <1>1, <1>2, AnswerFacts
  <1>4. PICK sym \in [1..(nextId - 1) -> Symbol] : Known(sym)
    BY DEF StoreInv, KnownInv
  <1>5. Fit(sym, r)
    BY <1>1, <1>4 DEF Fit, Known, KnownOf, RouteOf, Creating, Ordering
  <1>6. /\ old \in SUBSET Row /\ IsFiniteSet(old) /\ Keyed(old) /\ Names(sym, old)
        /\ ~cfg.client => Cardinality(old) <= Limit
    BY <1>1, <1>4, PlainFacts DEF RouteOf, Known, KnownOf, StoreInv, KeyedInv, Asked
  <1>7. ~cfg.client => r.via # "mirror"
    BY <1>1 DEF RouteOf
  <1>8. /\ new \in SUBSET Row /\ IsFiniteSet(new) /\ Keyed(new) /\ Names(sym, new)
        /\ ~cfg.client => Cardinality(new) <= Limit
    BY <1>5, <1>6, <1>7, FallbackKeeps
  <1> HIDE DEF new
  <1>9. mirror \in [Stores -> SUBSET Row]
    BY DEF StoreInv, StoreTypes, PlainTypes
  <1>10. /\ mirror' \in [Stores -> SUBSET Row]
         /\ \A c \in Stores : mirror'[c] = mirror[c] \/ mirror'[c] = new
    BY <1>8, <1>9 DEF new
  <1>11. PlainTypes'
    BY <1>3, <1>8, <1>10 DEF StoreInv, StoreTypes, PlainTypes
  <1>12. KeyedInv'
    BY <1>8, <1>10 DEF StoreInv, KeyedInv
  <1>13. Names(sym, db)' /\ \A c \in Stores : Names(sym, mirror[c])'
    BY <1>4, <1>8, <1>10 DEF Known, Names
  <1>14. /\ RouteOf(Idle) /\ FaultlessOf(Idle) /\ KnownOf(sym, Idle)
         /\ \A q \in Request : KnownOf(sym, req[q])
    BY <1>4, IdleFacts DEF Known
  <1>15. sym \in [1..(nextId' - 1) -> Symbol] /\ (faults' = 0 => faults = 0)
    OBVIOUS
  <1>16. QED
    BY <1>3, <1>11, <1>12, <1>13, <1>14, <1>15, Frame

LEMMA FallbackStep ==
  ASSUME StoreInv, NEW p \in Request, MemoryCall(p) \/ SaveRedis(p)
  PROVE  StoreInv'
  <1> DEFINE r == req[p]
  <1>1. CASE MemoryCall(p)
    <2>1. /\ r.pc = "fallback"
          /\ mirror' = [mirror EXCEPT !["memory"] = Fallback(mirror["memory"], r).rows]
          /\ UNCHANGED <<cfg, db, nextId, begun, faults, everFull>>
          /\ \E out : Answer(p, r, out)
      BY <1>1 DEF MemoryCall
    <2>2. "memory" \in Stores
      BY DEF Stores
    <2>3. PICK out : Answer(p, req[p], out)
      BY <2>1
    <2>4. PICK old : old = mirror["memory"]
      OBVIOUS
    <2>5. mirror' = [mirror EXCEPT !["memory"] = Fallback(old, req[p]).rows]
      BY <2>1, <2>4
    <2>6. PICK b \in Stores : b = "memory"
      BY <2>2
    <2>7. (old = mirror[b] \/ old = req[p].copy) /\ req[p].pc \in {"fallback", "save"}
          /\ (mirror' = mirror \/ mirror' = [mirror EXCEPT ![b] = Fallback(old, req[p]).rows])
      BY <2>1, <2>4, <2>5, <2>6
    <2>8. UNCHANGED <<cfg, db, nextId, begun, faults, everFull>>
      BY <2>1
    <2>9. QED
      BY <2>3, <2>7, <2>8, MirrorFrame
  <1>2. CASE SaveRedis(p)
    <2>1. /\ r.pc = "save" /\ r.fb \in Stores
          /\ \/ mirror' = mirror
             \/ mirror' = [mirror EXCEPT ![r.fb] = Fallback(r.copy, r).rows]
          /\ UNCHANGED <<cfg, db, nextId, begun, faults, everFull>>
          /\ \E out : Answer(p, r, out)
      BY <1>2, LiveAsked DEF SaveRedis
    <2>2. QED
      BY <2>1, MirrorFrame
  <1>3. QED
    BY <1>1, <1>2

LEMMA LoadStep ==
  ASSUME StoreInv, NEW p \in Request, LoadRedis(p)
  PROVE  StoreInv'
  <1> DEFINE r == req[p]
             n == [r EXCEPT !.pc = "save", !.copy = mirror["redis"]]
  <1>1. /\ r.pc = "fallback" /\ r.fb = "redis" /\ r \in Asked /\ RouteOf(r)
        /\ UNCHANGED <<cfg, db, mirror, nextId, begun, faults, everFull>>
        /\ req' = [req EXCEPT ![p] = n] /\ acked' = acked
        /\ faults = 0 => FaultlessOf(r)
    BY LiveAsked DEF LoadRedis, Continue
  <1>2. /\ mirror["redis"] \in SUBSET Row /\ IsFiniteSet(mirror["redis"]) /\ Keyed(mirror["redis"])
        /\ ~cfg.client => Cardinality(mirror["redis"]) <= Limit
    BY DEF StoreInv, StoreTypes, PlainTypes, KeyedInv, Stores
  <1>3. n \in Asked
    BY <1>1, <1>2 DEF Asked
  <1>4. /\ n.pc = "save" /\ n.via = r.via /\ n.op = r.op /\ n.client = r.client /\ n.fb = r.fb
        /\ n.row = r.row /\ n.id = r.id /\ n.order = r.order /\ n.rows = r.rows
        /\ n.copy = mirror["redis"] /\ n.symbol = r.symbol
    BY <1>1 DEF Asked
  <1> HIDE DEF n
  <1>5. RouteOf(n) /\ (faults' = 0 => faults = 0 /\ FaultlessOf(n))
    BY <1>1, <1>2, <1>4 DEF RouteOf, Creating, FaultlessOf
  <1>6. \A sym : Known(sym) => KnownOf(sym, n)
    <2>1. \A sym : Known(sym) => KnownOf(sym, r) /\ Names(sym, mirror["redis"])
      BY DEF Known, Stores
    <2>2. (Creating(n) => Creating(r)) /\ (Ordering(n) => Ordering(r))
      BY <1>1, <1>4 DEF Creating, Ordering
    <2>3. \A sym : InOrder(sym, r) => InOrder(sym, n)
      BY <1>4 DEF InOrder
    <2>4. QED
      BY <1>4, <2>1, <2>2, <2>3 DEF KnownOf
  <1>7. /\ faults' \in Nat /\ begun' \in Nat /\ n \in Asked \cup {Idle}
        /\ acked' \in [created : SUBSET Nat, deleted : SUBSET Nat]
    BY <1>1, <1>3, PlainFacts
  <1>8. QED
    BY <1>1, <1>5, <1>6, <1>7, QuietFrame

LEMMA RedisFailsStep ==
  ASSUME StoreInv, NEW p \in Request, RedisFails(p)
  PROVE  StoreInv'
  <1> DEFINE r == req[p]
  <1>1. /\ r.pc # "idle" /\ faults' = faults + 1
        /\ UNCHANGED <<cfg, db, mirror, nextId, begun, everFull>>
        /\ Answer(p, r, IF r.via = "mirror" THEN "ok" ELSE "500")
        /\ \/ r.pc = "fallback" \/ r.pc = "save" \/ (r.pc = "list" /\ ~r.client)
    BY DEF RedisFails, Live
  <1>2. r.pc = "list" => r.via # "mirror"
    BY <1>1, LiveAsked DEF RouteOf
  <1>3. faults' \in Nat /\ faults' # 0
    BY <1>1, PlainFacts
  <1>4. \E out : Answer(p, r, out) /\ (out = "ok" => r.pc # "list")
    BY <1>1, <1>2
  <1>5. QED
    BY <1>1, <1>3, <1>4, AnswerStep

LEMMA CrashStep ==
  ASSUME StoreInv, Crash
  PROVE  StoreInv'
  <1>1. /\ UNCHANGED <<cfg, db, nextId, begun, everFull, acked>> /\ faults' = faults + 1
        /\ req' = [p \in Request |-> Idle] /\ mirror' = [mirror EXCEPT !["memory"] = {}]
    BY DEF Crash
  <1>2. faults' \in Nat /\ faults' # 0 /\ mirror \in [Stores -> SUBSET Row]
    BY <1>1, PlainFacts DEF StoreInv, StoreTypes, PlainTypes
  <1>3. mirror' \in [Stores -> SUBSET Row] /\ \A b \in Stores : mirror'[b] = mirror[b] \/ mirror'[b] = {}
    BY <1>1, <1>2
  <1>4. IsFiniteSet({}) /\ Cardinality({}) <= Limit
    BY FS_EmptySet, LimitType
  <1>5. StoreTypes'
    BY <1>1, <1>2, <1>3, <1>4 DEF StoreInv, StoreTypes, PlainTypes
  <1>6. KeyedInv'
    BY <1>1, <1>3, <1>4 DEF StoreInv, KeyedInv, Keyed
  <1>7. \A x : RouteOf(x)' = RouteOf(x)
    BY <1>1 DEF RouteOf
  <1>8. RouteInv'
    BY <1>1, <1>2, <1>7, IdleFacts DEF RouteInv
  <1>9. PICK sym \in [1..(nextId - 1) -> Symbol] : Known(sym)
    BY DEF StoreInv, KnownInv
  <1>10. Known(sym)'
    BY <1>1, <1>3, <1>9, IdleFacts DEF Known, Names
  <1>11. QED
    BY <1>1, <1>5, <1>6, <1>8, <1>9, <1>10 DEF StoreInv, KnownInv

LEMMA StoreStill ==
  ASSUME StoreInv, UNCHANGED <<cfg, db, mirror, req, nextId, begun, faults, everFull, acked>>
  PROVE  StoreInv'
  <1>1. StoreTypes' /\ KeyedInv'
    BY DEF StoreInv, StoreTypes, PlainTypes, KeyedInv
  <1>2. \A x : RouteOf(x)' = RouteOf(x) /\ FaultlessOf(x)' = FaultlessOf(x)
    BY DEF RouteOf, FaultlessOf
  <1>3. RouteInv'
    BY <1>2 DEF StoreInv, RouteInv
  <1>4. KnownInv'
    BY DEF StoreInv, KnownInv, Known
  <1>5. QED
    BY <1>1, <1>3, <1>4 DEF StoreInv

LEMMA StoreInit == Init => StoreInv
  <1> SUFFICES ASSUME Init PROVE StoreInv
    OBVIOUS
  <1> USE DEF Init
  <1>1. mirror \in [Stores -> SUBSET Row] /\ \A b \in Stores : mirror[b] = {}
    BY DEF Stores
  <1>2. StoreTypes
    <2>0. cfg \in [client : BOOLEAN, fb : Stores, serial : BOOLEAN]
      BY DEF Stores
    <2>1. nextId \in Nat \ {0} /\ begun \in Nat /\ faults \in Nat /\ everFull \in BOOLEAN
      <3>1. nextId = 1 /\ begun = 0 /\ faults = 0
        OBVIOUS
      <3>2. everFull \in BOOLEAN
        OBVIOUS
      <3> HIDE DEF Init
      <3>3. QED
        BY <3>1, <3>2
    <2>2. db \in SUBSET Row /\ IsFiniteSet(db) /\ \A b \in Stores : IsFiniteSet(mirror[b])
      BY <1>1, FS_EmptySet
    <2>3. acked \in [created : SUBSET Nat, deleted : SUBSET Nat]
      OBVIOUS
    <2>4. req \in [Request -> Asked \cup {Idle}]
      OBVIOUS
    <2>5. QED
      BY <1>1, <2>0, <2>1, <2>2, <2>3, <2>4 DEF StoreTypes, PlainTypes
  <1>3. KeyedInv
    BY <1>1, FS_EmptySet, LimitType DEF KeyedInv, Keyed
  <1>4. RouteInv
    BY IdleFacts DEF RouteInv
  <1>5. [i \in 1..(nextId - 1) |-> CHOOSE s \in Symbol : TRUE] \in [1..(nextId - 1) -> Symbol]
    <2>1. 1..(nextId - 1) = {}
      OBVIOUS
    <2>2. QED
      BY <2>1
  <1>6. \A sym : Known(sym)
    BY <1>1, IdleFacts DEF Known, Names
  <1>7. QED
    BY <1>2, <1>3, <1>4, <1>5, <1>6 DEF StoreInv, KnownInv

LEMMA StoreNext == StoreInv /\ [Next]_vars => StoreInv'
  <1> SUFFICES ASSUME StoreInv, [Next]_vars PROVE StoreInv'
    OBVIOUS
  <1>1. ASSUME NEW p \in Request, Step(p) PROVE StoreInv'
    <2>1. CASE \/ add_to_watchlist(p) \/ update_watchlist_item(p)
               \/ delete_watchlist_item(p) \/ reorder_watchlist(p)
      BY <2>1, RouteStep, StartStep
    <2>2. QED
      BY <1>1, <2>1, CreateStep, ReorderStep, WriteStep, WriteFailsStep, FallbackStep,
         LoadStep, RedisFailsStep DEF Step
  <1>2. CASE Crash
    BY <1>2, CrashStep
  <1>3. CASE RefreshSymbols \/ UNCHANGED vars
    BY <1>3, StoreStill DEF RefreshSymbols, vars
  <1>4. QED
    BY <1>1, <1>2, <1>3 DEF Next

-----------------------------------------------------------------------------
(* What was acknowledged *)

LEMMA FallbackIds ==
  ASSUME NEW rows \in SUBSET Row, IsFiniteSet(rows), Keyed(rows),
         NEW sym, Names(sym, rows), NEW r, Fit(sym, r)
  PROVE  LET res == Fallback(rows, r)
         IN  /\ r.op = "create" =>
                   \/ res.out = "ok" /\ IdsOf(res.rows) = IdsOf(rows) \cup {r.row.id}
                   \/ res.out # "ok" /\ res.rows = rows
             /\ r.op = "delete" =>
                   \/ /\ res.out = "ok" /\ r.id \in IdsOf(rows)
                      /\ IdsOf(res.rows) = IdsOf(rows) \ {r.id}
                   \/ res.out # "ok" /\ res.rows = rows
             /\ r.op \in {"update", "reorder"} /\ r.via # "mirror" => IdsOf(res.rows) = IdsOf(rows)
  <1>1. r \in Asked /\ r.order \in Seq(Nat)
    BY DEF Fit, Asked
  <1>2. ASSUME r.op = "create"
        PROVE  \/ Fallback(rows, r).out = "ok" /\ IdsOf(Fallback(rows, r).rows) = IdsOf(rows) \cup {r.row.id}
               \/ Fallback(rows, r).out # "ok" /\ Fallback(rows, r).rows = rows
    <2>1. Fallback(rows, r) = create_rows(rows, r)
      BY <1>2 DEF Fallback
    <2>2. QED
      BY <2>1 DEF create_rows, IdsOf
  <1>3. ASSUME r.op = "delete"
        PROVE  \/ /\ Fallback(rows, r).out = "ok" /\ r.id \in IdsOf(rows)
                  /\ IdsOf(Fallback(rows, r).rows) = IdsOf(rows) \ {r.id}
               \/ Fallback(rows, r).out # "ok" /\ Fallback(rows, r).rows = rows
    <2>1. Fallback(rows, r) = delete_rows(rows, r)
      BY <1>3 DEF Fallback
    <2>2. IdsOf(delete_rows(rows, r).rows) = IdsOf(rows) \ {r.id}
      BY DeleteKeeps
    <2>3. QED
      BY <2>1, <2>2 DEF delete_rows
  <1>4. ASSUME r.op = "update"
        PROVE  IdsOf(Fallback(rows, r).rows) = IdsOf(rows)
    <2>1. Fallback(rows, r) = update_rows(rows, r)
      BY <1>4 DEF Fallback
    <2>2. QED
      BY <1>1, <2>1, UpdateKeeps
  <1>5. ASSUME r.op = "reorder", r.via # "mirror"
        PROVE  IdsOf(Fallback(rows, r).rows) = IdsOf(rows)
    <2>1. \/ Fallback(rows, r) = reorder_redis(rows, r.order)
          \/ Fallback(rows, r) = reorder_memory(rows, r.order)
      BY <1>5 DEF Fallback
    <2>2. QED
      BY <1>1, <2>1, ReorderKeeps
  <1>6. QED
    BY <1>2, <1>3, <1>4, <1>5

\* What one request adds to the rest.
LEMMA DoneMoves ==
  ASSUME StoreInv, NEW p \in Request, NEW n, req' = [req EXCEPT ![p] = n]
  PROVE  \E A, B :
            /\ Done = acked.created \cup A \cup MadeBy(req[p])
            /\ Done' = acked'.created \cup A \cup MadeBy(n)
            /\ Undone = acked.deleted \cup B \cup GoneBy(req[p])
            /\ Undone' = acked'.deleted \cup B \cup GoneBy(n)
  <1> DEFINE A == UNION {MadeBy(req[q]) : q \in Request \ {p}}
             B == UNION {GoneBy(req[q]) : q \in Request \ {p}}
  <1>1. req'[p] = n /\ \A q \in Request \ {p} : req'[q] = req[q]
    BY DEF StoreInv, StoreTypes
  <1>2. UNION {MadeBy(req[q]) : q \in Request} = A \cup MadeBy(req[p])
    OBVIOUS
  <1>3. UNION {GoneBy(req[q]) : q \in Request} = B \cup GoneBy(req[p])
    OBVIOUS
  <1>4. UNION {MadeBy(req'[q]) : q \in Request} = A \cup MadeBy(n)
    BY <1>1
  <1>5. UNION {GoneBy(req'[q]) : q \in Request} = B \cup GoneBy(n)
    BY <1>1
  <1>6. Done = acked.created \cup A \cup MadeBy(req[p])
    BY <1>2 DEF Done
  <1>7. Undone = acked.deleted \cup B \cup GoneBy(req[p])
    BY <1>3 DEF Undone
  <1>8. Done' = acked'.created \cup A \cup MadeBy(n)
    BY <1>4 DEF Done, MadeBy
  <1>9. Undone' = acked'.deleted \cup B \cup GoneBy(n)
    BY <1>5 DEF Undone, GoneBy
  <1>10. QED
    BY <1>6, <1>7, <1>8, <1>9

LEMMA WaitingKnown ==
  ASSUME StoreInv, NEW p \in Request, Waiting(req[p])
  PROVE  req[p].row.id \in 1..(nextId - 1)
  <1>1. PICK sym \in [1..(nextId - 1) -> Symbol] : Known(sym)
    BY DEF StoreInv, KnownInv
  <1>2. Names(sym, {req[p].row})
    BY <1>1 DEF Known, KnownOf, Waiting
  <1>3. QED
    BY <1>1, <1>2 DEF Names

\* One request moves: X is what it makes visible, Y what it takes away.
LEMMA AckedFrame ==
  ASSUME AnsweredInv, StoreInv', NEW p \in Request, NEW n,
         req' = [req EXCEPT ![p] = n], cfg' = cfg, faults' = 0 => faults = 0,
         cfg.serial => \A q \in Request : q # p => ~Live(q),
         n.pc = "save" => n.copy = mirror'[n.fb],
         nextId' = nextId \/ nextId' = nextId + 1,
         Waiting(n) => \/ Waiting(req[p]) /\ n.row.id = req[p].row.id
                       \/ n.row.id = nextId /\ nextId' = nextId + 1,
         NEW X, NEW Y,
         Safe' =>
            /\ acked'.created \cup MadeBy(n) = acked.created \cup MadeBy(req[p]) \cup X
            /\ acked'.deleted \cup GoneBy(n) = acked.deleted \cup GoneBy(req[p]) \cup Y
            /\ IdsOf(Visible(db, mirror))' = (IdsOf(Visible(db, mirror)) \cup X) \ Y
            /\ Y \subseteq IdsOf(Visible(db, mirror))
            /\ X # {} => Waiting(req[p]) /\ X = {req[p].row.id} /\ ~Waiting(n)
  PROVE  AnsweredInv'
  <1>1. /\ req'[p] = n /\ \A q \in Request : q # p => req'[q] = req[q]
        /\ \A x : Waiting(x)' = Waiting(x)
    BY DEF AnsweredInv, StoreInv, StoreTypes, Waiting, Creating
  <1>2. AloneInv'
    BY <1>1 DEF AloneInv, Live
  <1>3. CopyInv'
    BY <1>1 DEF CopyInv, Live
  <1>4. AckedInv'
    <2> SUFFICES ASSUME Safe'
                 PROVE  /\ Done' \cup Undone' \subseteq 1..(nextId' - 1)
                        /\ \A q \in Request : Waiting(req'[q]) => req'[q].row.id \notin Done' \cup Undone'
                        /\ \A q, t \in Request : Waiting(req'[q]) /\ Waiting(req'[t]) /\ q # t =>
                              req'[q].row.id # req'[t].row.id
                        /\ IdsOf(Visible(db, mirror))' = Done' \ Undone'
      BY <1>1 DEF AckedInv
    <2> DEFINE seen == IdsOf(Visible(db, mirror))
    <2>1. /\ Safe /\ Done \cup Undone \subseteq 1..(nextId - 1) /\ seen = Done \ Undone
          /\ \A q \in Request : Waiting(req[q]) => req[q].row.id \notin Done \cup Undone
          /\ \A q, t \in Request : Waiting(req[q]) /\ Waiting(req[t]) /\ q # t =>
                req[q].row.id # req[t].row.id
      BY DEF Safe, AnsweredInv, AckedInv
    <2>2. PICK A, B :
            /\ Done = acked.created \cup A \cup MadeBy(req[p])
            /\ Done' = acked'.created \cup A \cup MadeBy(n)
            /\ Undone = acked.deleted \cup B \cup GoneBy(req[p])
            /\ Undone' = acked'.deleted \cup B \cup GoneBy(n)
      BY DoneMoves DEF AnsweredInv
    <2>3. Done' = Done \cup X /\ Undone' = Undone \cup Y
      BY <2>2
    <2> HIDE DEF seen
    <2>4. /\ Y \subseteq Done \ Undone
          /\ X # {} => Waiting(req[p]) /\ X = {req[p].row.id} /\ ~Waiting(n)
      BY <2>1 DEF seen
    <2>5. \A q \in Request : Waiting(req[q]) => req[q].row.id \in 1..(nextId - 1)
      BY WaitingKnown DEF AnsweredInv
    <2>6. nextId \in Nat \ {0} /\ 1..(nextId - 1) \subseteq 1..(nextId' - 1) /\ nextId \notin 1..(nextId - 1)
      BY PlainFacts DEF AnsweredInv
    <2>7. Done' \cup Undone' \subseteq 1..(nextId' - 1)
      BY <2>1, <2>3, <2>4, <2>5, <2>6
    <2>8. ASSUME NEW q \in Request, Waiting(req'[q])
          PROVE  req'[q].row.id \notin Done' \cup Undone'
      <3>1. CASE q # p
        <4>1. req'[q] = req[q] /\ req[q].row.id \notin Done \cup Undone /\ req[q].row.id \notin X
          BY <1>1, <2>1, <2>4, <2>8, <3>1
        <4>2. QED
          BY <2>3, <2>4, <4>1
      <3>2. CASE q = p
        <4>1. req'[q] = n /\ X = {}
          BY <1>1, <2>4, <2>8, <3>2
        <4>2. n.row.id \notin Done \cup Undone
          BY <1>1, <2>1, <2>6, <2>8, <3>2
        <4>3. QED
          BY <2>3, <2>4, <4>1, <4>2
      <3>3. QED
        BY <3>1, <3>2
    <2>9. ASSUME NEW q \in Request, NEW t \in Request, Waiting(req'[q]), Waiting(req'[t]), q # t
          PROVE  req'[q].row.id # req'[t].row.id
      <3>1. CASE q # p /\ t # p
        BY <1>1, <2>1, <2>9, <3>1
      <3>2. ASSUME NEW u \in Request, u # p, Waiting(req'[p]), Waiting(req'[u])
            PROVE  req'[u].row.id # req'[p].row.id
        BY <1>1, <2>1, <2>5, <2>6, <3>2
      <3>3. QED
        BY <2>9, <3>1, <3>2
    <2>10. IdsOf(Visible(db, mirror))' = (seen \cup X) \ Y
      BY DEF seen
    <2>11. X \cap Undone = {}
      BY <2>1, <2>4
    <2>12. (seen \cup X) \ Y = Done' \ Undone'
      BY <2>1, <2>3, <2>11
    <2>13. QED
      BY <2>7, <2>8, <2>9, <2>10, <2>12
  <1>5. QED
    BY <1>2, <1>3, <1>4 DEF AnsweredInv

LEMMA EffectIds ==
  ASSUME StoreInv, NEW p \in Request, req[p].pc = "write"
  PROVE  LET r == req[p] IN
         /\ r.op = "create" /\ Effect(r) # db => IdsOf(Effect(r)) = IdsOf(db) \cup {r.row.id}
         /\ r.op = "delete" => IdsOf(Effect(r)) = IdsOf(db) \ {r.id}
         /\ r.op = "delete" /\ Target(r) # {} => r.id \in IdsOf(db)
         /\ r.op \in {"update", "reorder"} => IdsOf(Effect(r)) = IdsOf(db)
  <1> DEFINE r == req[p]
  <1>1. r.op = "create" /\ Effect(r) # db => IdsOf(Effect(r)) = IdsOf(db) \cup {r.row.id}
    BY DEF Effect, IdsOf
  <1>2. r.op = "delete" =>
           IdsOf(Effect(r)) = IdsOf(db) \ {r.id} /\ (Target(r) # {} => r.id \in IdsOf(db))
    BY DEF Effect, Target, IdsOf
  <1>3. ASSUME r.op \in {"update", "reorder"}
        PROVE  IdsOf(Effect(r)) = IdsOf(db)
    <2>1. Effect(r) = (db \ Target(r)) \cup {Written(r, row) : row \in Target(r)}
      BY <1>3 DEF Effect
    <2>2. \A row \in Target(r) : row \in db /\ Written(r, row).id = row.id
      BY <1>3, EffectKeeps
    <2>3. QED
      BY <2>1, <2>2 DEF IdsOf
  <1>4. QED
    BY <1>1, <1>2, <1>3

LEMMA Solo ==
  ASSUME AnsweredInv, NEW p \in Request, Live(p)
  PROVE  cfg.serial => \A q \in Request : q # p => ~Live(q)
  BY DEF AnsweredInv, AloneInv

\* The request moves and the stores list the same ids.
LEMMA AckedStill ==
  ASSUME AnsweredInv, StoreInv', NEW p \in Request, NEW n,
         req' = [req EXCEPT ![p] = n], cfg' = cfg, faults' = 0 => faults = 0,
         cfg.serial => \A q \in Request : q # p => ~Live(q),
         n.pc = "save" => n.copy = mirror'[n.fb],
         nextId' = nextId \/ nextId' = nextId + 1,
         Waiting(n) => \/ Waiting(req[p]) /\ n.row.id = req[p].row.id
                       \/ n.row.id = nextId /\ nextId' = nextId + 1,
         Safe' =>
            /\ acked'.created \cup MadeBy(n) = acked.created \cup MadeBy(req[p])
            /\ acked'.deleted \cup GoneBy(n) = acked.deleted \cup GoneBy(req[p])
            /\ IdsOf(Visible(db, mirror))' = IdsOf(Visible(db, mirror))
  PROVE  AnsweredInv'
  <1> DEFINE seen == IdsOf(Visible(db, mirror))
  <1>1. PICK X : X = {}
    OBVIOUS
  <1>2. Safe' =>
            /\ acked'.created \cup MadeBy(n) = acked.created \cup MadeBy(req[p]) \cup X
            /\ acked'.deleted \cup GoneBy(n) = acked.deleted \cup GoneBy(req[p]) \cup X
            /\ IdsOf(Visible(db, mirror))' = (IdsOf(Visible(db, mirror)) \cup X) \ X
            /\ X \subseteq IdsOf(Visible(db, mirror))
            /\ X # {} => Waiting(req[p]) /\ X = {req[p].row.id} /\ ~Waiting(n)
    BY <1>1
  <1>3. QED
    BY <1>2, AckedFrame

LEMMA StartAcked ==
  ASSUME AnsweredInv, StoreInv', NEW p \in Request, NEW r, IsNew(r), NEW valid, Start(p, r, valid)
  PROVE  AnsweredInv'
  <1>1. /\ ~Live(p) /\ req[p].via = "primary" /\ UNCHANGED <<cfg, db, mirror, nextId>>
        /\ cfg.serial => \A q \in Request : q # p => ~Live(q)
        /\ faults \in Nat
    <2>1. req[p] \in Asked \cup {Idle} /\ faults \in Nat
      BY PlainFacts DEF AnsweredInv, StoreInv, StoreTypes
    <2>2. ~Live(p)
      BY DEF Start
    <2>3. req[p] = Idle
      BY <2>1, <2>2 DEF Live, Asked
    <2>4. QED
      BY <2>1, <2>2, <2>3, IdleFacts DEF Start
  <1>2. PICK n : /\ req' = [req EXCEPT ![p] = n] /\ acked' = acked
                 /\ n.via \in {"db", "primary"} /\ n.pc # "save"
                 /\ ~Creating(n) /\ (faults' = 0 => faults = 0)
    <2>1. CASE UNCHANGED faults /\ Answer(p, r, "422")
      <3>1. req' = [req EXCEPT ![p] = Idle] /\ acked' = acked
        BY <2>1 DEF Answer
      <3>2. Idle.via = "primary" /\ Idle.pc = "idle" /\ ~Creating(Idle)
        BY IdleFacts DEF Creating
      <3>3. QED
        BY <2>1, <3>1, <3>2
    <2>2. ASSUME NEW client \in {cfg.client, FALSE}, NEW fb \in {cfg.fb, "memory"},
               faults' = IF client = cfg.client /\ fb = cfg.fb THEN faults ELSE faults + 1,
               Continue(p, [r EXCEPT !.client = client, !.fb = fb,
                                     !.via = IF client THEN "db" ELSE "primary",
                                     !.pc = IF r.op \in {"create", "reorder"} THEN "list"
                                            ELSE IF client THEN "write" ELSE "fallback"])
          PROVE  \E n : /\ req' = [req EXCEPT ![p] = n] /\ acked' = acked
                        /\ n.via \in {"db", "primary"} /\ n.pc # "save"
                        /\ ~Creating(n) /\ (faults' = 0 => faults = 0)
      <3> DEFINE v == IF client THEN "db" ELSE "primary"
                 l == IF r.op \in {"create", "reorder"} THEN "list"
                      ELSE IF client THEN "write" ELSE "fallback"
                 n == [r EXCEPT !.client = client, !.fb = fb, !.via = v, !.pc = l]
      <3>1. req' = [req EXCEPT ![p] = n] /\ acked' = acked
        BY <2>2 DEF Continue
      <3>2. v \in {"db", "primary"} /\ l # "save" /\ (r.op = "create" => l = "list")
        OBVIOUS
      <3> HIDE DEF v, l
      <3>3. n.via = v /\ n.pc = l /\ n.op = r.op
        BY DEF IsNew, Blank
      <3> HIDE DEF n
      <3>4. faults' = 0 => faults = 0
        BY <1>1, <2>2
      <3>5. ~Creating(n) /\ n.via \in {"db", "primary"} /\ n.pc # "save"
        BY <3>2, <3>3 DEF Creating
      <3>6. QED
        BY <3>1, <3>4, <3>5
    <2>3. QED
      BY <2>1, <2>2 DEF Start
  <1>3. MadeBy(n) = {} /\ GoneBy(n) = {} /\ MadeBy(req[p]) = {} /\ GoneBy(req[p]) = {}
    BY <1>1, <1>2 DEF MadeBy, GoneBy
  <1>4. ~Waiting(n)
    BY <1>2 DEF Waiting
  <1>5. IdsOf(Visible(db, mirror))' = IdsOf(Visible(db, mirror))
    BY <1>1 DEF IdsOf, Visible
  <1>6. QED
    BY <1>1, <1>2, <1>3, <1>4, <1>5, AckedStill

\* A request that has only read, or whose step leaves the ids alone.
LEMMA ReadAcked ==
  ASSUME AnsweredInv, StoreInv', NEW p \in Request, create_item(p) \/ reorder(p) \/ LoadRedis(p)
  PROVE  AnsweredInv'
  <1> DEFINE r == req[p]
  <1>0. StoreInv /\ faults \in Nat
    BY PlainFacts DEF AnsweredInv
  <1>1. /\ r.pc \in {"list", "fallback"} /\ r \in Asked /\ RouteOf(r) /\ Live(p)
        /\ UNCHANGED <<cfg, db, mirror>>
    BY <1>0, LiveAsked DEF create_item, reorder, LoadRedis, Live
  <1>2. IdsOf(Visible(db, mirror))' = IdsOf(Visible(db, mirror))
    BY <1>1 DEF IdsOf, Visible
  <1>3. cfg.serial => \A q \in Request : q # p => ~Live(q)
    BY <1>1, Solo
  <1>4. CASE create_item(p)
    <2>1. r.pc = "list" /\ r.op = "create" /\ r.via # "mirror" /\ MadeBy(r) = {} /\ GoneBy(r) = {}
      BY <1>1, <1>4 DEF create_item, MadeBy, GoneBy, RouteOf
    <2>2. CASE UNCHANGED <<nextId, faults>> /\ Answer(p, r, "422")
      <3>1. req' = [req EXCEPT ![p] = Idle] /\ acked' = acked
        BY <2>1, <2>2 DEF Answer
      <3>2. MadeBy(Idle) = {} /\ GoneBy(Idle) = {} /\ ~Waiting(Idle) /\ Idle.pc # "save"
        BY IdleFacts DEF MadeBy, GoneBy, Waiting, Creating
      <3>3. QED
        BY <1>1, <1>2, <1>3, <2>1, <2>2, <3>1, <3>2, AckedStill
    <2>3. ASSUME nextId' = nextId + 1, NEW seen \in {db, mirror[r.fb]}, Sees(r, seen),
                 Continue(p, [r EXCEPT !.pc = IF r.client THEN "write" ELSE "fallback",
                                       !.row = NewRow(nextId, r.symbol, next_sort_index(seen))])
          PROVE  AnsweredInv'
      <3> DEFINE l == IF r.client THEN "write" ELSE "fallback"
                 row == NewRow(nextId, r.symbol, next_sort_index(seen))
                 n == [r EXCEPT !.pc = l, !.row = row]
      <3>1. req' = [req EXCEPT ![p] = n] /\ acked' = acked
        BY <2>3 DEF Continue
      <3>2. l # "save" /\ row.id = nextId
        BY DEF NewRow
      <3> HIDE DEF l, row
      <3>3. n.op = "create" /\ n.via = r.via /\ n.pc # "save" /\ n.row.id = nextId
        BY <1>1, <2>1, <3>2 DEF Asked
      <3> HIDE DEF n
      <3>4. MadeBy(n) = {} /\ GoneBy(n) = {}
        BY <2>1, <3>3 DEF MadeBy, GoneBy
      <3>5. faults' = 0 => faults = 0
        BY <1>0, <2>3 DEF Sees
      <3>6. QED
        BY <1>1, <1>2, <1>3, <2>1, <2>3, <3>1, <3>3, <3>4, <3>5, AckedStill
    <2>4. QED
      BY <1>4, <2>2, <2>3 DEF create_item
  <1>5. CASE reorder(p)
    <2>1. r.op = "reorder" /\ UNCHANGED nextId /\ (faults' = 0 => faults = 0)
      BY <1>0, <1>5 DEF reorder, Sees
    <2>2. PICK n : req' = [req EXCEPT ![p] = n] /\ acked' = acked /\ n.op # "create" /\ n.op # "delete"
                   /\ n.pc # "save"
      <3>1. CASE Answer(p, r, "404")
        <4>1. req' = [req EXCEPT ![p] = Idle] /\ acked' = acked
          BY <2>1, <3>1 DEF Answer
        <4>2. QED
          BY <4>1, IdleFacts
      <3>2. CASE Continue(p, [r EXCEPT !.pc = IF r.client THEN "write" ELSE "fallback"])
        <4> DEFINE l == IF r.client THEN "write" ELSE "fallback"
                   n == [r EXCEPT !.pc = l]
        <4>1. req' = [req EXCEPT ![p] = n] /\ acked' = acked
          BY <3>2 DEF Continue
        <4>2. l # "save"
          OBVIOUS
        <4> HIDE DEF l
        <4>3. n.op = "reorder" /\ n.pc # "save"
          BY <1>1, <2>1, <4>2 DEF Asked
        <4>4. QED
          BY <4>1, <4>3
      <3>3. QED
        BY <1>5, <3>1, <3>2 DEF reorder
    <2>3. MadeBy(n) = {} /\ GoneBy(n) = {} /\ MadeBy(r) = {} /\ GoneBy(r) = {} /\ ~Waiting(n)
      BY <2>1, <2>2 DEF MadeBy, GoneBy, Waiting, Creating
    <2>4. QED
      BY <1>1, <1>2, <1>3, <2>1, <2>2, <2>3, AckedStill
  <1>6. CASE LoadRedis(p)
    <2> DEFINE n == [r EXCEPT !.pc = "save", !.copy = mirror["redis"]]
    <2>1. /\ req' = [req EXCEPT ![p] = n] /\ acked' = acked /\ UNCHANGED <<nextId, faults>>
          /\ r.fb = "redis" /\ r.pc = "fallback"
      BY <1>6 DEF LoadRedis, Continue
    <2>2. /\ n.op = r.op /\ n.via = r.via /\ n.row = r.row /\ n.id = r.id /\ n.fb = "redis"
          /\ n.copy = mirror["redis"] /\ n.pc = "save"
      BY <1>1, <2>1 DEF Asked
    <2> HIDE DEF n
    <2>3. MadeBy(n) = MadeBy(r) /\ GoneBy(n) = GoneBy(r)
      BY <2>2 DEF MadeBy, GoneBy
    <2>4. Waiting(n) => Waiting(r) /\ n.row.id = r.row.id
      BY <2>1, <2>2 DEF Waiting, Creating
    <2>5. n.copy = mirror'[n.fb]
      BY <1>1, <2>2
    <2>6. QED
      BY <1>1, <1>2, <1>3, <2>1, <2>3, <2>4, <2>5, AckedStill
  <1>7. QED
    BY <1>4, <1>5, <1>6

LEMMA WriteAcked ==
  ASSUME AnsweredInv, StoreInv', NEW p \in Request, WriteRow(p)
  PROVE  AnsweredInv'
  <1> DEFINE r == req[p]
  <1>0. StoreInv
    BY DEF AnsweredInv
  <1>1. /\ r.pc = "write" /\ r \in Asked /\ RouteOf(r) /\ r.op \in Ops /\ Live(p)
        /\ UNCHANGED <<cfg, mirror, nextId, faults>> /\ db' = Effect(r)
        /\ faults = 0 => FaultlessOf(r)
    BY <1>0, LiveAsked DEF WriteRow, Live
  <1>2. r.via = "db" /\ MadeBy(r) = {} /\ GoneBy(r) = {}
    BY <1>1 DEF RouteOf, MadeBy, GoneBy
  <1>3. cfg.serial => \A q \in Request : q # p => ~Live(q)
    BY <1>1, Solo
  <1>4. Safe' => /\ IdsOf(Visible(db, mirror)) = IdsOf(db)
                 /\ IdsOf(Visible(db, mirror))' = IdsOf(Effect(r))
    <2>1. Safe' => cfg.client
      BY <1>1 DEF Safe, FaultlessOf, RouteOf
    <2>2. IdsOf(db)' = IdsOf(Effect(r))
      BY <1>1 DEF IdsOf
    <2>3. QED
      BY <1>1, <2>1, <2>2 DEF Visible
  <1>5. ASSUME NEW out \in {"409", "404"}, Answer(p, r, out), IdsOf(Effect(r)) = IdsOf(db)
        PROVE  AnsweredInv'
    <2>1. req' = [req EXCEPT ![p] = Idle] /\ acked' = acked
      BY <1>1, <1>5 DEF Answer, Ops
    <2>2. MadeBy(Idle) = {} /\ GoneBy(Idle) = {} /\ ~Waiting(Idle) /\ Idle.pc # "save"
      BY IdleFacts DEF MadeBy, GoneBy, Waiting, Creating
    <2>3. QED
      BY <1>1, <1>2, <1>3, <1>4, <1>5, <2>1, <2>2, AckedStill
  <1>6. ASSUME NEW row, Continue(p, Answered(r, row)), r.op # "create" => row \in Row,
               \A sym : Known(sym) /\ r.op = "reorder" =>
                   row.id = r.order[Len(r.rows) + 1] /\ row.symbol = sym[row.id],
               r.op = "create" => Effect(r) # db, r.op = "delete" => Target(r) # {}
        PROVE  AnsweredInv'
    <2> DEFINE n == Answered(r, row)
    <2>1. req' = [req EXCEPT ![p] = n] /\ acked' = acked
      BY <1>6 DEF Continue
    <2>2. PICK sym \in [1..(nextId - 1) -> Symbol] : Known(sym)
      BY <1>0 DEF StoreInv, KnownInv
    <2>3. KnownOf(sym, r)
      BY <2>2 DEF Known
    <2>4. /\ n.op = r.op /\ n.row = r.row /\ n.id = r.id
          /\ n.pc \in {"write", "fallback"} /\ (n.pc = "write" => n.op = "reorder")
          /\ (n.pc = "fallback" <=> n.via = "mirror")
      BY <1>1, <1>6, <2>2, <2>3, AnsweredFacts
    <2> HIDE DEF n
    <2>5. ~Waiting(n)
      BY <2>4 DEF Waiting, Creating
    <2>6. CASE r.op = "create"
      <3>1. PICK X : X = {r.row.id}
        OBVIOUS
      <3>2. PICK Y : Y = {}
        OBVIOUS
      <3>3. MadeBy(n) = X /\ GoneBy(n) = {} /\ Waiting(r)
        BY <1>1, <1>2, <2>4, <2>6, <3>1 DEF MadeBy, GoneBy, Waiting, Creating
      <3>4. IdsOf(Effect(r)) = (IdsOf(db) \cup X) \ Y
        BY <1>0, <1>1, <1>6, <2>6, <3>1, <3>2, EffectIds
      <3>5. Safe' =>
              /\ acked'.created \cup MadeBy(n) = acked.created \cup MadeBy(req[p]) \cup X
              /\ acked'.deleted \cup GoneBy(n) = acked.deleted \cup GoneBy(req[p]) \cup Y
              /\ IdsOf(Visible(db, mirror))' = (IdsOf(Visible(db, mirror)) \cup X) \ Y
              /\ Y \subseteq IdsOf(Visible(db, mirror))
              /\ X # {} => Waiting(req[p]) /\ X = {req[p].row.id} /\ ~Waiting(n)
        BY <1>2, <1>4, <2>1, <2>5, <3>1, <3>2, <3>3, <3>4
      <3>6. n.pc # "save"
        BY <2>4
      <3>7. QED
        BY <1>1, <1>3, <2>1, <2>5, <3>5, <3>6, AckedFrame
    <2>7. CASE r.op = "delete"
      <3>1. PICK X : X = {}
        OBVIOUS
      <3>2. PICK Y : Y = {r.id}
        OBVIOUS
      <3>3. MadeBy(n) = {} /\ GoneBy(n) = Y
        BY <2>4, <2>7, <3>2 DEF MadeBy, GoneBy
      <3>4. IdsOf(Effect(r)) = (IdsOf(db) \cup X) \ Y /\ Y \subseteq IdsOf(db)
        BY <1>0, <1>1, <1>6, <2>7, <3>1, <3>2, EffectIds
      <3>5. Safe' =>
              /\ acked'.created \cup MadeBy(n) = acked.created \cup MadeBy(req[p]) \cup X
              /\ acked'.deleted \cup GoneBy(n) = acked.deleted \cup GoneBy(req[p]) \cup Y
              /\ IdsOf(Visible(db, mirror))' = (IdsOf(Visible(db, mirror)) \cup X) \ Y
              /\ Y \subseteq IdsOf(Visible(db, mirror))
              /\ X # {} => Waiting(req[p]) /\ X = {req[p].row.id} /\ ~Waiting(n)
        BY <1>2, <1>4, <2>1, <2>5, <3>1, <3>2, <3>3, <3>4
      <3>6. n.pc # "save"
        BY <2>4
      <3>7. QED
        BY <1>1, <1>3, <2>1, <2>5, <3>5, <3>6, AckedFrame
    <2>8. CASE r.op \in {"update", "reorder"}
      <3>1. MadeBy(n) = {} /\ GoneBy(n) = {} /\ n.pc # "save"
        BY <2>4, <2>8 DEF MadeBy, GoneBy
      <3>2. IdsOf(Effect(r)) = IdsOf(db)
        BY <1>0, <1>1, <2>8, EffectIds
      <3>3. QED
        BY <1>1, <1>2, <1>3, <1>4, <2>1, <2>5, <3>1, <3>2, AckedStill
    <2>9. QED
      BY <1>1, <2>6, <2>7, <2>8 DEF Ops
  <1>7. CASE r.op = "create"
    <2>1. \/ Effect(r) # db /\ Continue(p, Answered(r, r.row))
          \/ Effect(r) = db /\ Answer(p, r, "409")
      BY <1>1, <1>7 DEF WriteRow
    <2>2. QED
      BY <1>5, <1>6, <1>7, <2>1
  <1>8. CASE r.op # "create"
    <2>1. \/ Target(r) = {} /\ Answer(p, r, "404")
          \/ \E row \in Target(r) : Continue(p, Answered(r, Written(r, row)))
      BY <1>8 DEF WriteRow
    <2>2. Target(r) = {} => IdsOf(Effect(r)) = IdsOf(db)
      <3>1. Target(r) = {} => Effect(r) = db
        BY <1>8 DEF Effect
      <3>2. QED
        BY <3>1
    <2>3. ASSUME NEW row \in Target(r), Continue(p, Answered(r, Written(r, row)))
          PROVE  AnsweredInv'
      <3>1. /\ Written(r, row) \in Row
            /\ Written(r, row).id = row.id /\ Written(r, row).symbol = row.symbol
            /\ r.op = "reorder" => row.id = r.order[Len(r.rows) + 1]
            /\ row \in db /\ Target(r) # {}
        BY <1>0, <1>1, <1>8, <2>3, EffectKeeps
      <3>2. \A sym : Known(sym) => row.symbol = sym[row.id]
        BY <3>1 DEF Known, Names
      <3>3. QED
        BY <1>6, <1>8, <2>3, <3>1, <3>2
    <2>4. QED
      BY <1>5, <2>1, <2>2, <2>3
  <1>9. QED
    BY <1>7, <1>8

LEMMA FallbackAcked ==
  ASSUME AnsweredInv, StoreInv', NEW p \in Request, MemoryCall(p) \/ SaveRedis(p)
  PROVE  AnsweredInv'
  <1> DEFINE r == req[p]
  <1>0. StoreInv
    BY DEF AnsweredInv
  <1>1. /\ r.pc \in {"fallback", "save"} /\ r \in Asked /\ RouteOf(r) /\ r.op \in Ops /\ Live(p)
        /\ UNCHANGED <<cfg, db, nextId, faults>>
        /\ faults = 0 => FaultlessOf(r)
    BY <1>0, LiveAsked DEF MemoryCall, SaveRedis, Live
  <1>2. cfg.serial => \A q \in Request : q # p => ~Live(q)
    BY <1>1, Solo
  <1>3. PICK rows, out :
            /\ Answer(p, r, out)
            /\ out = IF r.via = "mirror" THEN "ok" ELSE Fallback(rows, r).out
            /\ \/ mirror' = [mirror EXCEPT ![r.fb] = Fallback(rows, r).rows]
               \/ mirror' = mirror /\ Fallback(rows, r).out # "ok"
            /\ Safe' /\ ~cfg.client => rows = mirror[r.fb]
    <2>1. CASE MemoryCall(p)
      BY <1>1, <2>1 DEF MemoryCall
    <2>2. CASE SaveRedis(p)
      <3>1. r.fb = "redis" /\ r.pc = "save"
        BY <1>1, <2>2 DEF SaveRedis, RouteOf
      <3>2. Safe' => cfg.client \/ cfg.serial
        BY <1>1, <3>1 DEF Safe, FaultlessOf
      <3>3. cfg.serial => r.copy = mirror[r.fb]
        BY <3>1 DEF AnsweredInv, CopyInv
      <3>4. QED
        BY <2>2, <3>2, <3>3 DEF SaveRedis
    <2>3. QED
      BY <2>1, <2>2
  <1>4. req' = [req EXCEPT ![p] = Idle]
    BY <1>3 DEF Answer
  <1>5. MadeBy(Idle) = {} /\ GoneBy(Idle) = {} /\ ~Waiting(Idle) /\ Idle.pc # "save"
    BY IdleFacts DEF MadeBy, GoneBy, Waiting, Creating
  <1>6. acked \in [created : SUBSET Nat, deleted : SUBSET Nat]
    BY <1>0, PlainFacts
  <1>7. /\ r.op = "create" /\ out = "ok" =>
              acked'.created = acked.created \cup {r.row.id} /\ acked'.deleted = acked.deleted
        /\ r.op = "delete" /\ out = "ok" =>
              acked'.deleted = acked.deleted \cup {r.id} /\ acked'.created = acked.created
        /\ r.op \in {"update", "reorder"} \/ out # "ok" => acked' = acked
    BY <1>3, <1>6 DEF Answer
  <1>8. CASE cfg.client
    <2>1. Safe' => r.via = "mirror" /\ out = "ok"
      BY <1>1, <1>3, <1>8 DEF Safe, FaultlessOf
    <2>2. IdsOf(Visible(db, mirror))' = IdsOf(Visible(db, mirror))
      BY <1>1, <1>8 DEF Visible, IdsOf
    <2>3. Safe' => /\ acked'.created \cup MadeBy(Idle) = acked.created \cup MadeBy(r)
                   /\ acked'.deleted \cup GoneBy(Idle) = acked.deleted \cup GoneBy(r)
      BY <1>1, <1>5, <1>7, <2>1 DEF MadeBy, GoneBy, Ops
    <2>4. QED
      BY <1>1, <1>2, <1>4, <1>5, <2>2, <2>3, AckedStill
  <1>9. CASE ~cfg.client
    <2>1. r.via = "primary" /\ MadeBy(r) = {} /\ GoneBy(r) = {}
      BY <1>1, <1>9 DEF RouteOf, MadeBy, GoneBy
    <2>2. PICK sym \in [1..(nextId - 1) -> Symbol] : Known(sym)
      BY <1>0 DEF StoreInv, KnownInv
    <2>3. Fit(sym, r)
      BY <1>1, <2>2 DEF Fit, Known, KnownOf, RouteOf, Creating, Ordering
    <2>4. r.fb \in Stores
      BY <1>1 DEF Asked
    <2>5. PICK old : old = mirror[r.fb]
      OBVIOUS
    <2>6. old \in SUBSET Row /\ IsFiniteSet(old) /\ Keyed(old) /\ Names(sym, old)
      BY <1>0, <2>2, <2>4, <2>5, PlainFacts DEF Known
    <2>7. PICK new : new = Fallback(old, r)
      OBVIOUS
    <2>8. Safe' => IdsOf(Visible(db, mirror)) = IdsOf(old)
      BY <1>1, <1>9, <2>5 DEF Safe, FaultlessOf, Visible
    <2>9. Safe' => /\ out = new.out
                   /\ \/ IdsOf(Visible(db, mirror))' = IdsOf(new.rows)
                      \/ IdsOf(Visible(db, mirror))' = IdsOf(old) /\ new.out # "ok"
      <3> SUFFICES ASSUME Safe' PROVE /\ out = new.out
                   /\ \/ IdsOf(Visible(db, mirror))' = IdsOf(new.rows)
                      \/ IdsOf(Visible(db, mirror))' = IdsOf(old) /\ new.out # "ok"
        OBVIOUS
      <3>1. rows = old /\ out = new.out /\ r.fb = cfg.fb
        BY <1>1, <1>3, <1>9, <2>1, <2>5, <2>7 DEF Safe, FaultlessOf
      <3>2. mirror \in [Stores -> SUBSET Row]
        BY <1>0 DEF StoreInv, StoreTypes, PlainTypes
      <3>3. mirror'[cfg.fb] = new.rows \/ (mirror'[cfg.fb] = old /\ new.out # "ok")
        BY <1>3, <2>4, <2>5, <2>7, <3>1, <3>2
      <3>4. Visible(db, mirror)' = mirror'[cfg.fb]
        BY <1>1, <1>9 DEF Visible
      <3>5. QED
        BY <3>1, <3>3, <3>4 DEF IdsOf
    <2>10. /\ r.op = "create" =>
                   \/ new.out = "ok" /\ IdsOf(new.rows) = IdsOf(old) \cup {r.row.id}
                   \/ new.out # "ok" /\ new.rows = old
           /\ r.op = "delete" =>
                   \/ /\ new.out = "ok" /\ r.id \in IdsOf(old)
                      /\ IdsOf(new.rows) = IdsOf(old) \ {r.id}
                   \/ new.out # "ok" /\ new.rows = old
           /\ r.op \in {"update", "reorder"} => IdsOf(new.rows) = IdsOf(old)
      BY <2>1, <2>3, <2>6, <2>7, FallbackIds
    <2>11. PICK X : X = IF r.op = "create" /\ out = "ok" THEN {r.row.id} ELSE {}
      OBVIOUS
    <2>12. PICK Y : Y = IF r.op = "delete" /\ out = "ok" THEN {r.id} ELSE {}
      OBVIOUS
    <2>13. X # {} => Waiting(r) /\ X = {r.row.id}
      BY <1>1, <2>1, <2>11 DEF Waiting, Creating
    <2>14. /\ acked'.created = acked.created \cup X
           /\ acked'.deleted = acked.deleted \cup Y
      BY <1>1, <1>7, <2>11, <2>12 DEF Ops
    <2>15. Safe' => /\ IdsOf(Visible(db, mirror))' = (IdsOf(old) \cup X) \ Y
                    /\ Y \subseteq IdsOf(old)
      BY <1>1, <2>9, <2>10, <2>11, <2>12 DEF Ops
    <2>16. Safe' =>
              /\ acked'.created \cup MadeBy(Idle) = acked.created \cup MadeBy(req[p]) \cup X
              /\ acked'.deleted \cup GoneBy(Idle) = acked.deleted \cup GoneBy(req[p]) \cup Y
              /\ IdsOf(Visible(db, mirror))' = (IdsOf(Visible(db, mirror)) \cup X) \ Y
              /\ Y \subseteq IdsOf(Visible(db, mirror))
              /\ X # {} => Waiting(req[p]) /\ X = {req[p].row.id} /\ ~Waiting(Idle)
      BY <1>5, <2>1, <2>8, <2>13, <2>14, <2>15
    <2>17. QED
      BY <1>1, <1>2, <1>4, <1>5, <2>16, AckedFrame
  <1>10. QED
    BY <1>8, <1>9

LEMMA FailureAcked ==
  ASSUME AnsweredInv, StoreInv', NEW p \in Request, WriteFails(p) \/ RedisFails(p)
  PROVE  AnsweredInv'
  <1> DEFINE r == req[p]
  <1>1. /\ Live(p) /\ r \in Asked /\ RouteOf(r) /\ UNCHANGED <<cfg, mirror, nextId>>
        /\ faults' = faults + 1 /\ faults \in Nat
    <2>1. StoreInv /\ Live(p) /\ r.pc # "idle"
      BY DEF AnsweredInv, WriteFails, RedisFails, Live
    <2>2. QED
      BY <2>1, LiveAsked, PlainFacts DEF WriteFails, RedisFails
  <1>2. faults' # 0 /\ ~Safe'
    BY <1>1 DEF Safe
  <1>3. cfg.serial => \A q \in Request : q # p => ~Live(q)
    BY <1>1, Solo
  <1>4. CASE WriteFails(p)
    <2> DEFINE n == [r EXCEPT !.pc = "fallback", !.via = "primary"]
    <2>1. req' = [req EXCEPT ![p] = n] /\ r.pc = "write"
      BY <1>4 DEF WriteFails, Continue
    <2>2. n.pc = "fallback" /\ n.op = r.op /\ n.row = r.row
      BY <1>1 DEF Asked
    <2> HIDE DEF n
    <2>3. Waiting(n) => Waiting(r) /\ n.row.id = r.row.id
      BY <1>1, <2>1, <2>2 DEF Waiting, Creating, RouteOf
    <2>4. QED
      BY <1>1, <1>2, <1>3, <2>1, <2>2, <2>3, AckedStill
  <1>5. CASE RedisFails(p)
    <2>1. req' = [req EXCEPT ![p] = Idle]
      BY <1>5 DEF RedisFails, Answer
    <2>2. ~Waiting(Idle) /\ Idle.pc # "save"
      BY IdleFacts DEF Waiting, Creating
    <2>3. QED
      BY <1>1, <1>2, <1>3, <2>1, <2>2, AckedStill
  <1>6. QED
    BY <1>4, <1>5

LEMMA AnsweredInit == Init => AnsweredInv
  <1> SUFFICES ASSUME Init PROVE AnsweredInv
    OBVIOUS
  <1>1. \A p \in Request : req[p] = Idle
    BY DEF Init
  <1>2. AloneInv /\ CopyInv
    BY <1>1, IdleFacts DEF AloneInv, CopyInv, Live
  <1>3. \A p \in Request : ~Waiting(req[p]) /\ MadeBy(req[p]) = {} /\ GoneBy(req[p]) = {}
    BY <1>1, IdleFacts DEF Waiting, Creating, MadeBy, GoneBy
  <1>4. acked.created = {} /\ acked.deleted = {}
    BY DEF Init
  <1>5. Done = {} /\ Undone = {}
    BY <1>3, <1>4 DEF Done, Undone
  <1>6. Visible(db, mirror) = {}
    BY DEF Init, Visible
  <1>7. IdsOf(Visible(db, mirror)) = {}
    BY <1>6 DEF IdsOf
  <1>8. AckedInv
    BY <1>3, <1>5, <1>7 DEF AckedInv
  <1>9. QED
    BY <1>2, <1>8, StoreInit DEF AnsweredInv

LEMMA AnsweredNext == AnsweredInv /\ [Next]_vars => AnsweredInv'
  <1> SUFFICES ASSUME AnsweredInv, [Next]_vars PROVE AnsweredInv'
    OBVIOUS
  <1>0. StoreInv /\ StoreInv'
    BY StoreNext DEF AnsweredInv
  <1>1. ASSUME NEW p \in Request, Step(p) PROVE AnsweredInv'
    <2>1. CASE \/ add_to_watchlist(p) \/ update_watchlist_item(p)
               \/ delete_watchlist_item(p) \/ reorder_watchlist(p)
      BY <1>0, <2>1, RouteStep, StartAcked
    <2>2. QED
      BY <1>0, <1>1, <2>1, ReadAcked, WriteAcked, FallbackAcked, FailureAcked DEF Step
  <1>2. CASE Crash
    <2>1. cfg' = cfg /\ faults' = faults + 1 /\ faults \in Nat /\ req' = [p \in Request |-> Idle]
      BY <1>0, <1>2, PlainFacts DEF Crash
    <2>2. ~Safe'
      BY <2>1 DEF Safe
    <2>3. AloneInv' /\ CopyInv'
      BY <2>1, IdleFacts DEF AloneInv, CopyInv, Live
    <2>4. QED
      BY <1>0, <2>2, <2>3 DEF AnsweredInv, AckedInv
  <1>3. CASE RefreshSymbols \/ UNCHANGED vars
    <2>1. UNCHANGED <<cfg, db, mirror, req, nextId, faults, acked>>
      BY <1>3 DEF RefreshSymbols, vars
    <2>2. AloneInv' /\ CopyInv'
      BY <2>1 DEF AnsweredInv, AloneInv, CopyInv, Live
    <2>3. Done' = Done /\ Undone' = Undone /\ Safe' = Safe
          /\ IdsOf(Visible(db, mirror))' = IdsOf(Visible(db, mirror))
      BY <2>1 DEF Done, Undone, Safe, Visible, IdsOf, MadeBy, GoneBy
    <2>4. AckedInv'
      BY <2>1, <2>3 DEF AnsweredInv, AckedInv, Waiting, Creating
    <2>5. QED
      BY <1>0, <2>2, <2>4 DEF AnsweredInv
  <1>4. QED
    BY <1>1, <1>2, <1>3 DEF Next

LEMMA AnsweredAlways == Spec => []AnsweredInv
  BY AnsweredInit, AnsweredNext, PTL DEF Spec

\* Whatever overlaps or fails, no fallback of WatchlistStore doubles an id or a
\* symbol or outgrows the limit where it is the only store; and while nothing
\* fails, what create_item and delete_item acknowledged is what list_items
\* shows, for any number of overlapping requests.
THEOREM StoresAreSound == Spec => []StoresSound
  <1>1. ASSUME AnsweredInv PROVE StoresSound
    <2>1. FallbackSound
      BY <1>1 DEF AnsweredInv, StoreInv, KeyedInv, Keyed, FallbackSound, Stores
    <2>2. ASSUME faults = 0, AllIdle, cfg.client \/ cfg.fb = "memory" \/ cfg.serial
          PROVE  IdsOf(Visible(db, mirror)) = acked.created \ acked.deleted
      <3>1. \A p \in Request : req[p].via = "primary"
        <4>1. \A p \in Request : req[p] \in Asked \cup {Idle} /\ req[p].pc = "idle"
          BY <1>1, <2>2 DEF AnsweredInv, StoreInv, StoreTypes, AllIdle, Live
        <4>2. \A p \in Request : req[p] = Idle
          BY <4>1 DEF Asked
        <4>3. QED
          BY <4>2, IdleFacts
      <3>2. Done = acked.created /\ Undone = acked.deleted
        BY <3>1 DEF Done, Undone, MadeBy, GoneBy
      <3>3. QED
        BY <1>1, <2>2, <3>2 DEF AnsweredInv, AckedInv, Safe
    <2>3. QED
      BY <2>1, <2>2 DEF StoresSound, AckedKept
  <1>2. QED
    BY <1>1, AnsweredAlways, PTL

-----------------------------------------------------------------------------
(* Requests that come one by one while nothing fails *)

\* The row named next gets its place.
At(row, k) == [row EXCEPT !.sort = k]
PlaceNext(rows, order, k) ==
    LET T == {row \in rows : row.id = order[k + 1]} IN (rows \ T) \cup {At(row, k) : row \in T}

LEMMA RenumberStep ==
  ASSUME NEW rows \in SUBSET Row, NEW order \in Seq(Nat), IsInjective(order),
         NEW k \in Nat, k + 1 \in DOMAIN order
  PROVE  PlaceNext(Renumber(rows, order, 1..k), order, k) = Renumber(rows, order, 1..(k + 1))
  <1> DEFINE T == {row \in Renumber(rows, order, 1..k) : row.id = order[k + 1]}
             S == PlaceNext(Renumber(rows, order, 1..k), order, k)
             g(row) == IF \E j \in 1..k : order[j] = row.id THEN Placed(row, order) ELSE row
             h(row) == IF \E j \in 1..(k + 1) : order[j] = row.id THEN Placed(row, order) ELSE row
             w(row) == At(row, k)
  <1>1. /\ Renumber(rows, order, 1..k) = {g(row) : row \in rows}
        /\ Renumber(rows, order, 1..(k + 1)) = {h(row) : row \in rows}
    BY DEF Renumber
  <1>2. \A j \in 1..(k + 1) : j \in DOMAIN order /\ (j = k + 1 \/ j \in 1..k)
    BY DEF IsInjective
  <1>3. \A j \in 1..k : j \in 1..(k + 1) /\ j # k + 1
    OBVIOUS
  <1>4. ASSUME NEW x \in rows, x.id = order[k + 1]
        PROVE  g(x) = x /\ h(x) = w(x)
    <2>1. ~\E j \in 1..k : order[j] = x.id
      BY <1>2, <1>3, <1>4 DEF IsInjective
    <2>2. Position(order, x.id) = k + 1
      BY <1>4, PlacedType
    <2>3. k + 1 \in 1..(k + 1) /\ (k + 1) - 1 = k
      OBVIOUS
    <2>4. h(x) = [x EXCEPT !.sort = Position(order, x.id) - 1]
      BY <1>4, <2>3 DEF Placed
    <2>5. QED
      BY <2>1, <2>2, <2>3, <2>4 DEF At
  <1>5. ASSUME NEW x \in rows, x.id # order[k + 1]
        PROVE  h(x) = g(x) /\ g(x).id = x.id
    <2>1. (\E j \in 1..k : order[j] = x.id) <=> (\E j \in 1..(k + 1) : order[j] = x.id)
      BY <1>2, <1>3, <1>5
    <2>2. (\E j \in 1..k : order[j] = x.id) => Placed(x, order).id = x.id
      BY <1>2, <1>3, PlacedType
    <2>3. QED
      BY <2>1, <2>2
  <1> HIDE DEF g, h, w
  <1>6. \A x : x \in T <=> x \in rows /\ x.id = order[k + 1]
    BY <1>1, <1>4, <1>5
  <1>7. \A x : x \in S <=> (\E row \in rows : x = g(row) /\ x \notin T) \/ \E row \in T : x = w(row)
    BY <1>1 DEF w, PlaceNext
  <1> HIDE DEF S, T
  <1>8. \A x : x \in S <=> \E row \in rows : x = h(row)
    BY <1>4, <1>5, <1>6, <1>7
  <1>9. QED
    BY <1>1, <1>8 DEF S

LEMMA RenumberAll ==
  ASSUME NEW rows, NEW order \in Seq(Nat), Range(order) = IdsOf(rows)
  PROVE  /\ Renumber(rows, order, DOMAIN order) = {Placed(row, order) : row \in rows}
         /\ Found(rows, order) = DOMAIN order
  <1>1. \A row \in rows : \E k \in DOMAIN order : order[k] = row.id
    BY DEF Range, IdsOf
  <1>2. \A k \in DOMAIN order : \A j \in 1..k : order[j] \in IdsOf(rows)
    <2>1. \A k \in DOMAIN order : \A j \in 1..k : j \in DOMAIN order
      OBVIOUS
    <2>2. QED
      BY <2>1 DEF Range
  <1>3. Renumber(rows, order, DOMAIN order) = {Placed(row, order) : row \in rows}
    BY <1>1 DEF Renumber
  <1>4. Found(rows, order) = DOMAIN order
    BY <1>2 DEF Found
  <1>5. QED
    BY <1>3, <1>4

\* The patch of one row, as update_rows and as Postgres apply it.
LEMMA PatchOne ==
  ASSUME NEW rows, Keyed(rows), NEW id, NEW u, NEW old \in rows, old.id = id
  PROVE  {IF row.id = id THEN Patch(row, u) ELSE row : row \in rows}
            = (rows \ {old}) \cup {Patch(old, u)}
  <1>1. \A row \in rows : row.id = id <=> row = old
    BY DEF Keyed
  <1>2. QED
    BY <1>1

-----------------------------------------------------------------------------
(* The answers WatchlistList allows *)

\* The answer of r, as Answer records it.
Tells(r, out) == answer' = [op |-> r.op, arg |-> Argument(r), out |-> out]

LEMMA ListInvalid ==
  ASSUME cfg' = cfg, NEW r, Tells(r, "422"), shown' = shown
  PROVE  List!Next
  BY DEF Tells, List!Next, List!Invalid

\* WatchlistList takes Cardinality through an instance of its own.
LEMMA SameCardinality == List!Cardinality(shown) = Cardinality(shown)
  BY DEF Cardinality, List!Cardinality

LEMMA ListAdd ==
  ASSUME cfg' = cfg, NEW r, r.op = "create", NEW out, Tells(r, out),
         \/ /\ out = "ok" /\ r.row.symbol = r.symbol /\ r.symbol \notin SymbolsOf(shown)
            /\ \A row \in shown : row.sort < r.row.sort /\ row.id < r.row.id
            /\ ~cfg.client => Cardinality(shown) < Limit
            /\ shown' = shown \cup {r.row}
         \/ out = "409" /\ r.symbol \in SymbolsOf(shown) /\ shown' = shown
         \/ out = "full" /\ ~cfg.client /\ Cardinality(shown) >= Limit /\ shown' = shown
  PROVE  List!Next
  <1>1. answer'.op = "create" /\ answer'.arg = <<r.symbol>> /\ answer'.out = out
    BY DEF Tells, Argument
  <1>2. answer'.arg[1] = r.symbol
    BY <1>1
  <1>3. List!Symbols = SymbolsOf(shown)
    BY DEF List!Symbols, SymbolsOf
  <1>4. CASE out = "ok"
    <2>1. PICK row : row = r.row
      OBVIOUS
    <2>2. /\ row \in shown' /\ answer'.arg = <<row.symbol>> /\ row.symbol \notin List!Symbols
          /\ \A s \in shown : s.sort < row.sort /\ s.id < row.id
          /\ ~cfg.client => Cardinality(shown) < Limit
          /\ shown' = shown \cup {row}
      BY <1>1, <1>3, <1>4, <2>1
    <2>3. QED
      BY <1>1, <1>4, <2>2, SameCardinality DEF List!Next, List!Add, List!Answers
  <1>5. CASE out = "409"
    BY <1>1, <1>2, <1>3, <1>5 DEF List!Next, List!Add, List!Answers, List!Refuses
  <1>6. CASE out = "full"
    BY <1>1, <1>6, SameCardinality DEF List!Next, List!Add, List!Answers, List!Refuses
  <1>7. QED
    BY <1>4, <1>5, <1>6

LEMMA ListUpdate ==
  ASSUME cfg' = cfg, NEW r, r.op = "update", NEW out, Tells(r, out),
         \/ /\ out = "ok"
            /\ \E old \in shown : \E new :
                  /\ old.id = r.id /\ new.id = old.id /\ new.symbol = old.symbol
                  /\ shown' = (shown \ {old}) \cup {new}
         \/ out = "404" /\ r.id \notin IdsOf(shown) /\ shown' = shown
  PROVE  List!Next
  <1>1. answer'.op = "update" /\ answer'.arg = <<r.id>> /\ answer'.out = out
    BY DEF Tells, Argument
  <1>2. answer'.arg[1] = r.id
    BY <1>1
  <1>3. List!Ids = IdsOf(shown)
    BY DEF List!Ids, IdsOf
  <1>4. List!Update
    BY <1>1, <1>2, <1>3 DEF List!Update, List!Answers, List!Refuses
  <1>5. QED
    BY <1>4 DEF List!Next

LEMMA ListDelete ==
  ASSUME cfg' = cfg, NEW r, r.op = "delete", NEW out, Tells(r, out),
         \/ /\ out = "ok"
            /\ \E old \in shown : old.id = r.id /\ shown' = shown \ {old}
         \/ out = "404" /\ r.id \notin IdsOf(shown) /\ shown' = shown
  PROVE  List!Next
  <1>1. answer'.op = "delete" /\ answer'.arg = <<r.id>> /\ answer'.out = out
    BY DEF Tells, Argument
  <1>2. answer'.arg[1] = r.id
    BY <1>1
  <1>3. List!Ids = IdsOf(shown)
    BY DEF List!Ids, IdsOf
  <1>4. List!Delete
    BY <1>1, <1>2, <1>3 DEF List!Delete, List!Answers, List!Refuses
  <1>5. QED
    BY <1>4 DEF List!Next

LEMMA ListReorder ==
  ASSUME cfg' = cfg, NEW r, r.op = "reorder", NEW out, Tells(r, out),
         \/ /\ out = "ok" /\ IsInjective(r.order) /\ Range(r.order) = IdsOf(shown)
            /\ shown' = {Placed(row, r.order) : row \in shown}
         \/ out = "404" /\ Range(r.order) # IdsOf(shown) /\ shown' = shown
  PROVE  List!Next
  <1>1. answer'.op = "reorder" /\ answer'.arg = r.order /\ answer'.out = out
    BY DEF Tells, Argument
  <1>2. List!Ids = IdsOf(shown)
    BY DEF List!Ids, IdsOf
  <1>3. /\ List!Range(r.order) = Range(r.order)
        /\ List!IsInjective(r.order) <=> IsInjective(r.order)
    BY DEF Range, List!Range, IsInjective, List!IsInjective
  <1>4. {Placed(row, r.order) : row \in shown}
           = {[row EXCEPT !.sort = (CHOOSE i \in DOMAIN r.order : r.order[i] = row.id) - 1] : row \in shown}
    BY DEF Placed, Position
  <1>5. List!Reorder
    BY <1>1, <1>2, <1>3, <1>4 DEF List!Reorder, List!Answers, List!Refuses
  <1>6. QED
    BY <1>5 DEF List!Next

-----------------------------------------------------------------------------
(* A request goes on, or is answered *)

SerialInv == AnsweredInv /\ ShownInv
Shows == ShownInv' /\ [List!Next]_(List!vars)

LEMMA ShownMoves ==
  ASSUME SerialInv, AnsweredInv', NEW p \in Request, NEW n, req' = [req EXCEPT ![p] = n],
         n.pc # "idle", UNCHANGED <<cfg, mirror, shown, answer>>, faults' = 0 => faults = 0,
         cfg.serial => \A q \in Request : q # p => ~Live(q),
         Quiet' => ShownFor(n)',
         Quiet' /\ cfg.client /\ ~everFull' => ~everFull /\ (Cardinality(db) <= Limit)'
  PROVE  Shows
  <1>1. req'[p] = n /\ \A q \in Request : q # p => req'[q] = req[q]
    BY DEF SerialInv, AnsweredInv, StoreInv, StoreTypes
  <1>2. Quiet' => Quiet
    BY DEF Quiet
  <1>3. ~AllIdle'
    BY <1>1 DEF AllIdle, Live
  <1>4. Quiet' => \A q \in Request : Live(q)' => q = p
    BY <1>1 DEF Quiet, Live
  <1>5. Quiet' => \A q \in Request : Live(q)' => ShownFor(req[q])'
    <2>1. Quiet' => ShownFor(req[p])'
      BY <1>1 DEF ShownFor, Creating, Ordering, HalfOrdered, WroteRows
    <2>2. QED
      BY <1>4, <2>1
  <1>6. ShownInv'
    BY <1>2, <1>3, <1>5 DEF SerialInv, ShownInv, Keyed
  <1>7. QED
    BY <1>6 DEF Shows, List!vars

RowsSound ==
    /\ db \in SUBSET Row /\ IsFiniteSet(db) /\ Keyed(db)
    /\ \A b \in Stores : mirror[b] \in SUBSET Row /\ IsFiniteSet(mirror[b]) /\ Keyed(mirror[b])

LEMMA AnsweredRows == AnsweredInv => RowsSound
  BY PlainFacts DEF AnsweredInv, RowsSound

LEMMA ShownAnswer ==
  ASSUME SerialInv, AnsweredInv', NEW p \in Request, NEW r, NEW out, Answer(p, r, out),
         cfg' = cfg, faults' = 0 => faults = 0,
         cfg.serial => \A q \in Request : q # p => ~Live(q),
         Quiet' /\ cfg.client /\ ~everFull' => (mirror[cfg.fb] = db /\ Cardinality(db) <= Limit)',
         Quiet' /\ shown' = Visible(db, mirror)' /\ Tells(r, out) => List!Next
  PROVE  Shows
  <1>1. req'[p] = Idle /\ \A q \in Request : q # p => req'[q] = req[q]
    BY DEF Answer, SerialInv, AnsweredInv, StoreInv, StoreTypes
  <1>2. CASE Quiet'
    <2>1. shown' = Visible(db, mirror)' /\ Tells(r, out)
      BY <1>2 DEF Answer, Quiet, Tells, Visible
    <2>2. \A q \in Request : ~Live(q)'
      BY <1>1, <1>2, IdleFacts DEF Live, Quiet
    <2>3. cfg'.client \in BOOLEAN /\ cfg'.fb \in Stores
      BY PlainFacts DEF SerialInv, AnsweredInv
    <2>a. (AnsweredInv => RowsSound)'
      BY AnsweredRows, PTL
    <2>b. shown' \in SUBSET Row /\ IsFiniteSet(shown') /\ Keyed(shown')
      BY <2>1, <2>3, <2>a DEF Visible, Keyed, RowsSound
    <2>c. (IsFiniteSet(shown) /\ Keyed(shown))'
      BY <2>b DEF Keyed
    <2>4. ShownInv'
      BY <1>2, <2>1, <2>2, <2>3, <2>b, <2>c DEF ShownInv, Visible
    <2>5. List!Next
      BY <1>2, <2>1
    <2>6. QED
      BY <2>4, <2>5 DEF Shows
  <1>3. CASE ~Quiet'
    <2>1. UNCHANGED <<shown, answer>>
      BY <1>3 DEF Answer, Quiet
    <2>2. ShownInv'
      BY <1>3 DEF ShownInv
    <2>3. QED
      BY <2>1, <2>2 DEF Shows, List!vars
  <1>4. QED
    BY <1>2, <1>3

LEMMA StartShown ==
  ASSUME SerialInv, AnsweredInv', NEW p \in Request, NEW r, IsNew(r), NEW valid, Start(p, r, valid)
  PROVE  Shows
  <1>1. /\ UNCHANGED <<cfg, db, mirror, everFull>> /\ faults \in Nat
        /\ cfg \in [client : BOOLEAN, fb : Stores, serial : BOOLEAN]
        /\ cfg.serial => \A q \in Request : ~Live(q)
    BY PlainFacts DEF SerialInv, AnsweredInv, Start
  <1>2. Quiet => /\ shown = Visible(db, mirror) /\ (cfg.client => shown = db)
                 /\ cfg.client /\ ~everFull => mirror[cfg.fb] = db /\ Cardinality(db) <= Limit
    BY <1>1 DEF SerialInv, ShownInv, Quiet, AllIdle, Visible
  <1>3. CASE UNCHANGED faults /\ Answer(p, r, "422")
    <2>1. Quiet' => Quiet
      BY <1>1, <1>3 DEF Quiet
    <2>2. Quiet' /\ cfg.client /\ ~everFull' => (mirror[cfg.fb] = db /\ Cardinality(db) <= Limit)'
      BY <1>1, <1>2, <2>1
    <2>3. Visible(db, mirror)' = Visible(db, mirror)
      BY <1>1 DEF Visible
    <2>4. Quiet' /\ shown' = Visible(db, mirror)' /\ Tells(r, "422") => List!Next
      BY <1>1, <1>2, <2>1, <2>3, ListInvalid
    <2>5. QED
      BY <1>1, <1>3, <2>2, <2>4, ShownAnswer
  <1>4. ASSUME NEW client \in {cfg.client, FALSE}, NEW fb \in {cfg.fb, "memory"},
               faults' = IF client = cfg.client /\ fb = cfg.fb THEN faults ELSE faults + 1,
               Continue(p, [r EXCEPT !.client = client, !.fb = fb,
                                     !.via = IF client THEN "db" ELSE "primary",
                                     !.pc = IF r.op \in {"create", "reorder"} THEN "list"
                                            ELSE IF client THEN "write" ELSE "fallback"])
        PROVE  Shows
    <2> DEFINE v == IF client THEN "db" ELSE "primary"
               l == IF r.op \in {"create", "reorder"} THEN "list"
                    ELSE IF client THEN "write" ELSE "fallback"
               n == [r EXCEPT !.client = client, !.fb = fb, !.via = v, !.pc = l]
    <2>1. req' = [req EXCEPT ![p] = n] /\ UNCHANGED <<shown, answer>>
      BY <1>4 DEF Continue
    <2>2. /\ l \in {"list", "write", "fallback"} /\ (l = "fallback" => ~client)
          /\ (l = "list" <=> r.op \in {"create", "reorder"})
      BY <1>1
    <2> HIDE DEF v, l
    <2>3. n.pc = l /\ n.op = r.op
      BY DEF IsNew, Blank
    <2> HIDE DEF n
    <2>4. (faults' = 0 => faults = 0 /\ client = cfg.client) /\ (Quiet' => Quiet /\ client = cfg.client)
      BY <1>1, <1>4 DEF Quiet
    <2>5. ~Creating(n) /\ ~Ordering(n)
      BY <2>2, <2>3 DEF Creating, Ordering
    <2>6. Quiet' => ShownFor(n)'
      <3>1. Quiet' => (cfg.client => db = shown /\ n.pc \in {"list", "write"})
        BY <1>2, <2>2, <2>3, <2>4
      <3>2. QED
        BY <1>1, <2>1, <2>5, <3>1 DEF ShownFor, Creating, Ordering
    <2>7. Quiet' /\ cfg.client /\ ~everFull' => ~everFull /\ (Cardinality(db) <= Limit)'
      BY <1>1, <1>2, <2>4
    <2>8. n.pc # "idle"
      BY <2>2, <2>3
    <2>9. QED
      BY <1>1, <2>1, <2>4, <2>6, <2>7, <2>8, ShownMoves
  <1>5. QED
    BY <1>3, <1>4 DEF Start

\* What a request that has only read has seen.
LEMMA QuietSees ==
  ASSUME SerialInv, Quiet, NEW p \in Request, req[p].pc = "list"
  PROVE  /\ Visible(db, mirror) = shown /\ req[p].client = cfg.client /\ req[p].fb = cfg.fb
         /\ IF cfg.client THEN db = shown ELSE mirror[req[p].fb] = shown
  <1>1. req[p].client = cfg.client /\ req[p].fb = cfg.fb
    BY LiveAsked DEF SerialInv, AnsweredInv, Quiet, FaultlessOf
  <1>2. ShownFor(req[p]) /\ ~Ordering(req[p])
    BY DEF SerialInv, ShownInv, Live, Ordering
  <1>3. cfg.client => db = shown
    BY <1>2 DEF ShownFor
  <1>4. ~cfg.client => mirror[cfg.fb] = shown
    BY DEF SerialInv, ShownInv
  <1>5. QED
    BY <1>1, <1>3, <1>4 DEF Visible

LEMMA FullStays ==
  ASSUME SerialInv, UNCHANGED <<cfg, db, mirror, everFull>>, Quiet, Visible(db, mirror) = shown
  PROVE  /\ cfg.client /\ ~everFull' => (mirror[cfg.fb] = db /\ Cardinality(db) <= Limit)'
         /\ cfg.client /\ ~everFull' => ~everFull /\ (Cardinality(db) <= Limit)'
         /\ Visible(db, mirror)' = shown
  BY DEF SerialInv, ShownInv, Visible

LEMMA CreateShown ==
  ASSUME SerialInv, AnsweredInv', NEW p \in Request, create_item(p)
  PROVE  Shows
  <1> DEFINE r == req[p]
  <1>0. StoreInv /\ faults \in Nat /\ AnsweredInv
    BY PlainFacts DEF SerialInv, AnsweredInv
  <1>1. /\ r.pc = "list" /\ r.op = "create" /\ r \in Asked /\ RouteOf(r) /\ Live(p) /\ r.fb \in Stores
        /\ UNCHANGED <<cfg, db, mirror, everFull>>
    BY <1>0, LiveAsked DEF create_item, Live
  <1>2. cfg.serial => \A q \in Request : q # p => ~Live(q)
    BY <1>0, <1>1, Solo
  <1>3. Quiet => /\ Visible(db, mirror) = shown /\ r.client = cfg.client /\ r.fb = cfg.fb
                 /\ IF cfg.client THEN db = shown ELSE mirror[r.fb] = shown
    BY <1>1, QuietSees
  <1>4. CASE UNCHANGED faults /\ Answer(p, r, "422")
    <2>1. Quiet' => Quiet
      BY <1>1, <1>4 DEF Quiet
    <2>2. Quiet' /\ cfg.client /\ ~everFull' => (mirror[cfg.fb] = db /\ Cardinality(db) <= Limit)'
      BY <1>1, <1>3, <2>1, FullStays
    <2>3. Quiet' /\ shown' = Visible(db, mirror)' /\ Tells(r, "422") => List!Next
      BY <1>1, <1>3, <2>1, FullStays, ListInvalid
    <2>4. QED
      BY <1>1, <1>2, <1>4, <2>2, <2>3, ShownAnswer
  <1>5. ASSUME NEW seen \in {db, mirror[r.fb]}, Sees(r, seen),
               Continue(p, [r EXCEPT !.pc = IF r.client THEN "write" ELSE "fallback",
                                     !.row = NewRow(nextId, r.symbol, next_sort_index(seen))])
        PROVE  Shows
    <2> DEFINE l == IF r.client THEN "write" ELSE "fallback"
               row == NewRow(nextId, r.symbol, next_sort_index(seen))
    <2>0. PICK n : n = [r EXCEPT !.pc = l, !.row = row]
      OBVIOUS
    <2>1. req' = [req EXCEPT ![p] = n] /\ UNCHANGED <<shown, answer>>
      BY <1>5, <2>0 DEF Continue
    <2>2. l \in {"write", "fallback"} /\ (l = "fallback" => ~r.client) /\ r.client \in BOOLEAN
      BY <1>1 DEF Asked
    <2>3. row.id = nextId /\ row.sort = next_sort_index(seen)
      BY DEF NewRow
    <2> HIDE DEF l, row
    <2>4. n.pc = l /\ n.op = "create" /\ n.row = row
      BY <1>1, <2>0 DEF Asked
    <2>5. (faults' = 0 => faults = 0) /\ (Quiet' => Quiet) /\ (Quiet' => faults' = faults)
      BY <1>0, <1>1, <1>5 DEF Sees, Quiet
    <2>6. Quiet' => seen = shown
      <3>1. faults' = faults => (r.client /\ seen = db) \/ (~r.client /\ seen = mirror[r.fb])
        BY <1>0, <1>5 DEF Sees
      <3>2. QED
        BY <1>3, <2>5, <3>1
    <2>7. seen \in SUBSET Row /\ IsFiniteSet(seen) /\ \A sym : Known(sym) => Names(sym, seen)
      BY <1>0, <1>1, <1>5, SeenFacts
    <2>8. \A x \in seen : x.sort < next_sort_index(seen)
      BY <2>7, NextSort
    <2>9. \A x \in seen : x.id < nextId
      <3>1. PICK sym \in [1..(nextId - 1) -> Symbol] : Known(sym)
        BY <1>0 DEF StoreInv, KnownInv
      <3>2. \A x \in seen : x.id \in 1..(nextId - 1)
        BY <2>7, <3>1 DEF Names
      <3>3. nextId \in Nat
        BY <1>0, PlainFacts
      <3>4. QED
        BY <3>2, <3>3
    <2>10. Quiet' => ShownFor(n)'
      <3>1. Quiet' => \A x \in shown : x.sort < n.row.sort /\ x.id < n.row.id
        BY <2>3, <2>4, <2>6, <2>8, <2>9
      <3>2. ~Ordering(n)
        BY <2>4 DEF Ordering
      <3>3. Quiet' => (cfg.client => db = shown /\ n.pc = "write")
        BY <1>3, <2>2, <2>4, <2>5
      <3>4. QED
        BY <1>1, <2>1, <3>1, <3>2, <3>3 DEF ShownFor, Creating, Ordering
    <2>11. Quiet' /\ cfg.client /\ ~everFull' => ~everFull /\ (Cardinality(db) <= Limit)'
      BY <1>1, <1>3, <2>5, FullStays
    <2>12. n.pc # "idle"
      BY <2>2, <2>4
    <2>13. QED
      BY <1>1, <1>2, <2>1, <2>5, <2>10, <2>11, <2>12, ShownMoves
  <1>6. QED
    BY <1>4, <1>5 DEF create_item

LEMMA ReorderShown ==
  ASSUME SerialInv, AnsweredInv', NEW p \in Request, reorder(p)
  PROVE  Shows
  <1> DEFINE r == req[p]
  <1>0. StoreInv /\ faults \in Nat /\ AnsweredInv
    BY PlainFacts DEF SerialInv, AnsweredInv
  <1>1. /\ r.pc = "list" /\ r.op = "reorder" /\ r \in Asked /\ RouteOf(r) /\ Live(p) /\ r.fb \in Stores
        /\ UNCHANGED <<cfg, db, mirror, everFull>>
    BY <1>0, LiveAsked DEF reorder, Live
  <1>2. cfg.serial => \A q \in Request : q # p => ~Live(q)
    BY <1>0, <1>1, Solo
  <1>3. Quiet => /\ Visible(db, mirror) = shown /\ r.client = cfg.client /\ r.fb = cfg.fb
                 /\ IF cfg.client THEN db = shown ELSE mirror[r.fb] = shown
    BY <1>1, QuietSees
  <1>4. PICK seen \in {db, mirror[r.fb]} :
            /\ Sees(r, seen)
            /\ IF Range(r.order) = IdsOf(seen)
               THEN Continue(p, [r EXCEPT !.pc = IF r.client THEN "write" ELSE "fallback"])
               ELSE Answer(p, r, "404")
    BY DEF reorder
  <1>5. (faults' = 0 => faults = 0) /\ (Quiet' => Quiet) /\ (Quiet' => faults' = faults)
    BY <1>0, <1>1, <1>4 DEF Sees, Quiet
  <1>6. Quiet' => seen = shown
    <2>1. faults' = faults => (r.client /\ seen = db) \/ (~r.client /\ seen = mirror[r.fb])
      BY <1>0, <1>4 DEF Sees
    <2>2. QED
      BY <1>3, <1>5, <2>1
  <1>7. CASE Range(r.order) # IdsOf(seen)
    <2>1. Answer(p, r, "404")
      BY <1>4, <1>7
    <2>2. Quiet' /\ cfg.client /\ ~everFull' => (mirror[cfg.fb] = db /\ Cardinality(db) <= Limit)'
      BY <1>1, <1>3, <1>5, FullStays
    <2>3. Quiet' /\ shown' = Visible(db, mirror)' /\ Tells(r, "404") => List!Next
      BY <1>1, <1>3, <1>5, <1>6, <1>7, FullStays, ListReorder
    <2>4. QED
      BY <1>1, <1>2, <1>5, <2>1, <2>2, <2>3, ShownAnswer
  <1>8. CASE Range(r.order) = IdsOf(seen)
    <2> DEFINE l == IF r.client THEN "write" ELSE "fallback"
    <2>0. PICK n : n = [r EXCEPT !.pc = l]
      OBVIOUS
    <2>1. req' = [req EXCEPT ![p] = n] /\ UNCHANGED <<shown, answer>>
      BY <1>4, <1>8, <2>0 DEF Continue
    <2>2. l \in {"write", "fallback"} /\ (l = "fallback" => ~r.client) /\ r.client \in BOOLEAN
      BY <1>1 DEF Asked
    <2> HIDE DEF l
    <2>3. n.pc = l /\ n.op = "reorder" /\ n.order = r.order /\ n.rows = r.rows
      BY <1>1, <2>0 DEF Asked
    <2>4. r.rows = <<>> /\ r.order \in Seq(Nat) /\ r.order # <<>>
      BY <1>1 DEF RouteOf, Asked
    <2>5. Len(n.rows) = 0 /\ Len(n.rows) < Len(n.order) /\ Range(n.rows) = {} /\ 1..Len(n.rows) = {}
      BY <2>3, <2>4 DEF Range
    <2>6. Renumber(shown, n.order, {}) = shown
      BY DEF Renumber
    <2>7. Quiet' => (cfg.client => db = shown /\ n.pc = "write")
      BY <1>3, <1>5, <2>2, <2>3
    <2>8. Quiet' /\ cfg.client => HalfOrdered(n)
      BY <2>5, <2>6, <2>7 DEF HalfOrdered
    <2>9. HalfOrdered(n)' = HalfOrdered(n)
      BY <1>1, <2>1 DEF HalfOrdered
    <2>10. Quiet' => (Range(n.order) = IdsOf(shown))'
      BY <1>6, <1>8, <2>1, <2>3 DEF IdsOf
    <2>11. ~Creating(n) /\ Ordering(n)
      BY <2>2, <2>3 DEF Creating, Ordering
    <2>12. Quiet' => ShownFor(n)'
      BY <1>1, <2>7, <2>8, <2>9, <2>10, <2>11 DEF ShownFor, Creating, Ordering
    <2>13. Quiet' /\ cfg.client /\ ~everFull' => ~everFull /\ (Cardinality(db) <= Limit)'
      BY <1>1, <1>3, <1>5, FullStays
    <2>14. n.pc # "idle"
      BY <2>2, <2>3
    <2>15. QED
      BY <1>1, <1>2, <1>5, <2>1, <2>12, <2>13, <2>14, ShownMoves
  <1>9. QED
    BY <1>7, <1>8

LEMMA LoadShown ==
  ASSUME SerialInv, AnsweredInv', NEW p \in Request, LoadRedis(p)
  PROVE  Shows
  <1> DEFINE r == req[p]
  <1>0. StoreInv /\ AnsweredInv
    BY DEF SerialInv, AnsweredInv
  <1>1. /\ r.pc = "fallback" /\ r \in Asked /\ Live(p)
        /\ UNCHANGED <<cfg, db, mirror, faults, everFull, shown, answer>>
    BY <1>0, LiveAsked DEF LoadRedis, Live, Continue
  <1>2. cfg.serial => \A q \in Request : q # p => ~Live(q)
    BY <1>0, <1>1, Solo
  <1>3. PICK n : n = [r EXCEPT !.pc = "save", !.copy = mirror["redis"]]
    OBVIOUS
  <1>4. req' = [req EXCEPT ![p] = n]
    BY <1>3 DEF LoadRedis, Continue
  <1>5. /\ n.pc = "save" /\ n.op = r.op /\ n.row = r.row /\ n.id = r.id /\ n.upd = r.upd
        /\ n.order = r.order /\ n.rows = r.rows
    BY <1>1, <1>3 DEF Asked
  <1>6. Quiet' => Quiet
    BY <1>1 DEF Quiet
  <1>7. Quiet => ShownFor(r)
    BY <1>1 DEF SerialInv, ShownInv
  <1>8. /\ (Creating(r) <=> Creating(n)) /\ (Ordering(r) <=> Ordering(n))
        /\ WroteRows(r) => WroteRows(n)
    BY <1>1, <1>5 DEF Creating, Ordering, WroteRows
  <1>9. WroteRows(n)' = WroteRows(n)
    BY <1>1 DEF WroteRows
  <1>10. Quiet' => ShownFor(n)'
    BY <1>1, <1>5, <1>6, <1>7, <1>8, <1>9 DEF ShownFor, Creating, Ordering, IdsOf
  <1>11. Quiet' /\ cfg.client /\ ~everFull' => ~everFull /\ (Cardinality(db) <= Limit)'
    BY <1>1, <1>6 DEF SerialInv, ShownInv
  <1>12. QED
    BY <1>1, <1>2, <1>4, <1>5, <1>10, <1>11, ShownMoves

\* The next row of a reorder.
LEMMA OrderWritten ==
  ASSUME SerialInv, Quiet, NEW p \in Request, req[p].pc = "write", req[p].op = "reorder"
  PROVE  LET r == req[p] IN
         /\ Target(r) # {}
         /\ Effect(r) = Renumber(shown, r.order, 1..(Len(r.rows) + 1))
         /\ \A row \in Target(r) :
               /\ Range(Append(r.rows, Written(r, row))) \subseteq Effect(r)
               /\ Len(r.rows) + 1 >= Len(r.order) => Range(Append(r.rows, Written(r, row))) = Effect(r)
  <1> DEFINE r == req[p]
             k == Len(r.rows)
             T == Target(r)
  <1>0. StoreInv /\ AnsweredInv
    BY DEF SerialInv, AnsweredInv
  <1>1. r \in Asked /\ RouteOf(r) /\ Ordering(r) /\ Live(p) /\ cfg.client
    BY <1>0, LiveAsked DEF Ordering, Live, RouteOf, FaultlessOf, Quiet
  <1>2. /\ r.order \in Seq(Nat) /\ r.rows \in Seq(Row) /\ IsInjective(r.order)
        /\ Range(r.order) = IdsOf(shown) /\ HalfOrdered(r)
        /\ shown \in SUBSET Row /\ IsFiniteSet(shown)
    BY <1>1 DEF Asked, RouteOf, SerialInv, ShownInv, ShownFor
  <1>3. k \in Nat /\ k < Len(r.order) /\ k + 1 \in DOMAIN r.order
    BY <1>2 DEF HalfOrdered
  <1>4. db = Renumber(shown, r.order, 1..k) /\ Range(r.rows) \subseteq db
    BY <1>2 DEF HalfOrdered
  <1>5. T = {row \in Renumber(shown, r.order, 1..k) : row.id = r.order[k + 1]}
    BY <1>4 DEF Target
  <1>6. Effect(r) = (db \ T) \cup {[row EXCEPT !.sort = k] : row \in T}
    BY DEF Effect, Written
  <1>7. Effect(r) = Renumber(shown, r.order, 1..(k + 1))
    <2>1. Effect(r) = PlaceNext(Renumber(shown, r.order, 1..k), r.order, k)
      BY <1>4, <1>5, <1>6 DEF PlaceNext, At
    <2> HIDE DEF k, T
    <2>2. QED
      BY <1>2, <1>3, <2>1, RenumberStep
  <1>8. IdsOf(db) = IdsOf(shown)
    <2>1. 1..k \in SUBSET DOMAIN r.order
      BY <1>2, <1>3
    <2>2. QED
      BY <1>2, <1>4, <2>1, RenumberKeeps
  <1>9. T # {}
    <2>1. r.order[k + 1] \in IdsOf(db)
      BY <1>2, <1>3, <1>8 DEF Range
    <2>2. QED
      BY <2>1 DEF IdsOf, Target
  <1>10. ASSUME NEW row \in T
         PROVE  /\ Range(Append(r.rows, Written(r, row))) \subseteq Effect(r)
                /\ k + 1 >= Len(r.order) => Range(Append(r.rows, Written(r, row))) = Effect(r)
    <2>1. PICK w : w = Written(r, row)
      OBVIOUS
    <2>2. w \in Row /\ w.id = r.order[k + 1] /\ Keyed(Effect(r))
      BY <1>0, <1>10, <2>1, EffectKeeps
    <2>3. w \in Effect(r)
      BY <1>10, <2>1 DEF Effect
    <2>4. PICK more : more = Append(r.rows, w)
      OBVIOUS
    <2>5. /\ DOMAIN more = 1..(k + 1) /\ more[k + 1] = w
          /\ \A j \in 1..k : more[j] = r.rows[j] /\ j \in DOMAIN r.rows
          /\ \A j \in 1..(k + 1) : j = k + 1 \/ j \in 1..k
      BY <1>2, <1>3, <2>2, <2>4
    <2>6. PICK sym \in [1..(nextId - 1) -> Symbol] : Known(sym)
      BY <1>0 DEF StoreInv, KnownInv
    <2>7. InOrder(sym, r)
      BY <1>1, <2>6 DEF Known, KnownOf
    <2>8. \A j \in 1..k : more[j].id = r.order[j] /\ j \in DOMAIN r.order /\ j # k + 1
      BY <1>2, <1>3, <2>5, <2>7 DEF InOrder
    <2>9. \A j \in 1..k : more[j] \in db /\ more[j].id # r.order[k + 1]
      BY <1>2, <1>3, <1>4, <2>5, <2>8 DEF Range, IsInjective
    <2>10. \A j \in 1..k : more[j] \in Effect(r)
      BY <1>6, <2>9 DEF Target
    <2>11. \A j \in 1..(k + 1) : more[j] \in Effect(r) /\ more[j].id = r.order[j]
      BY <2>2, <2>3, <2>5, <2>8, <2>10
    <2>12. Range(more) \subseteq Effect(r)
      BY <2>5, <2>11 DEF Range
    <2>13. ASSUME k + 1 >= Len(r.order), NEW x \in Effect(r)
           PROVE  x \in Range(more)
      <3>1. IdsOf(Effect(r)) = IdsOf(db)
        BY <1>0, EffectIds
      <3>2. x.id \in Range(r.order)
        BY <1>2, <1>8, <2>13, <3>1 DEF IdsOf
      <3>3. PICK j \in DOMAIN r.order : r.order[j] = x.id
        BY <3>2 DEF Range
      <3>4. j \in 1..(k + 1)
        BY <1>2, <1>3, <2>13, <3>3
      <3>5. x = more[j]
        BY <2>2, <2>11, <2>13, <3>3, <3>4 DEF Keyed
      <3>6. QED
        BY <2>5, <3>4, <3>5 DEF Range
    <2>14. QED
      BY <2>1, <2>4, <2>12, <2>13
  <1>11. QED
    BY <1>7, <1>9, <1>10

LEMMA NoneType == (\A i \in Nat : i # None) /\ "" # None /\ "n" # None
  <1>1. \A i \in Nat : i # None
    BY WatchlistBounds
  <1>2. "" # None /\ "n" # None
    BY WatchlistBounds
  <1>3. QED
    BY <1>1, <1>2

\* The answer to an update, as a patch, makes the same row.
LEMMA PatchBack ==
  ASSUME NEW row \in Row, NEW u \in Change
  PROVE  LET w == Patch(row, u)
             v == [sort |-> w.sort, note |-> w.note]
         IN  Patch(row, v) = w /\ v.sort # None /\ v.note # None
  <1>1. PICK w : w = Patch(row, u)
    OBVIOUS
  <1>2. w \in Row
    BY <1>1, PatchType
  <1>3. w.sort # None
    BY <1>2, NoneType DEF Row
  <1>4. w.note # None
    BY <1>2, NoneType DEF Row
  <1>5. PICK v : v = [sort |-> w.sort, note |-> w.note]
    OBVIOUS
  <1>6. v.sort = w.sort /\ v.note = w.note
    BY <1>5
  <1>7. Patch(row, v) = [row EXCEPT !.sort = w.sort, !.note = w.note]
    BY <1>3, <1>4, <1>6 DEF Patch
  <1>8. w = [row EXCEPT !.sort = w.sort, !.note = w.note]
    BY <1>1, <1>2 DEF Patch, Row
  <1>9. QED
    BY <1>1, <1>3, <1>4, <1>5, <1>6, <1>7, <1>8

LEMMA WriteShown ==
  ASSUME SerialInv, AnsweredInv', NEW p \in Request, WriteRow(p)
  PROVE  Shows
  <1> DEFINE r == req[p]
  <1>0. StoreInv /\ AnsweredInv
    BY DEF SerialInv, AnsweredInv
  <1>1. /\ r.pc = "write" /\ r \in Asked /\ RouteOf(r) /\ r.op \in Ops /\ Live(p)
        /\ UNCHANGED <<cfg, mirror, nextId, faults>> /\ db' = Effect(r)
        /\ faults = 0 => FaultlessOf(r)
    BY <1>0, LiveAsked DEF WriteRow, Live
  <1>2. cfg.serial => \A q \in Request : q # p => ~Live(q)
    BY <1>0, <1>1, Solo
  <1>3. (Quiet' => Quiet /\ cfg.client /\ ShownFor(r)) /\ (faults' = 0 => faults = 0)
    BY <1>1 DEF Quiet, FaultlessOf, RouteOf, SerialInv, ShownInv
  <1>4. ~everFull' => ~everFull /\ (Cardinality(db) <= Limit)'
    <2>1. (AnsweredInv => RowsSound)'
      BY AnsweredRows, PTL
    <2>2. Cardinality(db') \in Nat
      BY <2>1, FS_CardinalityType DEF RowsSound
    <2>3. everFull' = (everFull \/ Cardinality(db') > Limit)
      BY DEF WriteRow
    <2>4. Limit \in Nat
      BY LimitType
    <2>5. ~(Cardinality(db') > Limit) => Cardinality(db') <= Limit
      BY <2>2, <2>4
    <2>6. QED
      BY <2>3, <2>5
  <1>5. Quiet' /\ r.op # "reorder" => db = shown
    BY <1>1, <1>3 DEF ShownFor, Ordering
  <1>6. Quiet' => Visible(db, mirror)' = Effect(r)
    BY <1>1, <1>3 DEF Visible
  <1>7. ASSUME NEW out, Answer(p, r, out), Effect(r) = db, r.op # "reorder",
               Quiet' /\ shown' = shown /\ Tells(r, out) => List!Next
        PROVE  Shows
    <2>1. Quiet' /\ cfg.client /\ ~everFull' => (mirror[cfg.fb] = db /\ Cardinality(db) <= Limit)'
      BY <1>1, <1>3, <1>4, <1>5, <1>7 DEF SerialInv, ShownInv
    <2>2. Quiet' /\ shown' = Visible(db, mirror)' /\ Tells(r, out) => List!Next
      BY <1>5, <1>6, <1>7
    <2>3. QED
      BY <1>1, <1>2, <1>3, <1>7, <2>1, <2>2, ShownAnswer
  <1>8. ASSUME NEW n, req' = [req EXCEPT ![p] = n], UNCHANGED <<shown, answer>>, n.op = r.op, n.row = r.row,
               n.order = r.order, n.pc \in {"write", "fallback"}, n.pc = "write" => n.op = "reorder",
               Quiet' /\ n.pc = "write" => HalfOrdered(n)',
               Quiet' /\ n.pc = "fallback" => WroteRows(n)'
        PROVE  Shows
    <2>1. (Creating(r) <=> Creating(n)) /\ (Ordering(r) <=> Ordering(n)) /\ (n.pc = "write" => Ordering(n))
      BY <1>1, <1>8 DEF Creating, Ordering
    <2>2. Quiet' => ShownFor(n)'
      BY <1>1, <1>3, <1>8, <2>1 DEF ShownFor, Creating, Ordering, IdsOf
    <2>3. n.pc # "idle"
      BY <1>8
    <2>4. QED
      BY <1>1, <1>2, <1>3, <1>4, <1>8, <2>2, <2>3, ShownMoves
  <1>9. ASSUME r.op \in {"create", "delete"}, NEW row, Continue(p, Answered(r, row)),
               Quiet' /\ r.op = "create" => r.row.symbol \notin SymbolsOf(shown) /\ Effect(r) = shown \cup {r.row},
               Quiet' /\ r.op = "delete" => \E old \in shown : old.id = r.id /\ Effect(r) = shown \ {old}
        PROVE  Shows
    <2>1. PICK n : n = [r EXCEPT !.pc = "fallback", !.via = "mirror"]
      OBVIOUS
    <2>2. req' = [req EXCEPT ![p] = n] /\ UNCHANGED <<shown, answer>>
      BY <1>9, <2>1 DEF Continue, Answered
    <2>3. /\ n.pc = "fallback" /\ n.op = r.op /\ n.row = r.row /\ n.id = r.id /\ n.order = r.order
      BY <1>1, <2>1 DEF Asked
    <2>4. Quiet' => WroteRows(n)'
      BY <1>1, <1>9, <2>2, <2>3 DEF WroteRows, SymbolsOf
    <2>5. QED
      BY <1>8, <1>9, <2>2, <2>3, <2>4
  <1>10. CASE r.op = "create"
    <2>1. CASE Effect(r) # db
      <3>1. Continue(p, Answered(r, r.row))
        BY <1>1, <1>10, <2>1 DEF WriteRow
      <3>2. Effect(r) = db \cup {r.row} /\ ~\E row \in db : row.symbol = r.row.symbol
        BY <1>10, <2>1 DEF Effect
      <3>3. Quiet' => r.row.symbol \notin SymbolsOf(shown) /\ Effect(r) = shown \cup {r.row}
        BY <1>5, <1>10, <3>2 DEF SymbolsOf
      <3>4. QED
        BY <1>9, <1>10, <3>1, <3>3
    <2>2. CASE Effect(r) = db
      <3>1. Answer(p, r, "409")
        BY <1>1, <1>10, <2>2 DEF WriteRow
      <3>2. \E row \in db : row.symbol = r.row.symbol
        BY <1>10, <2>2 DEF Effect
      <3>3. r.row.symbol = r.symbol
        BY <1>1, <1>10 DEF RouteOf, Creating
      <3>4. Quiet' => r.symbol \in SymbolsOf(shown)
        BY <1>5, <1>10, <3>2, <3>3 DEF SymbolsOf
      <3>5. Quiet' /\ shown' = shown /\ Tells(r, "409") => List!Next
        BY <1>1, <1>10, <3>4, ListAdd
      <3>6. QED
        BY <1>7, <1>10, <2>2, <3>1, <3>5
    <2>3. QED
      BY <2>1, <2>2
  <1>11. ASSUME r.op # "create", NEW row \in Target(r)
         PROVE  /\ row \in db /\ row \in Row /\ Written(r, row) \in Row
                /\ r.op # "reorder" => row.id = r.id /\ Target(r) = {row}
    <2>1. row \in db /\ row \in Row /\ Written(r, row) \in Row /\ Target(r) \in SUBSET db /\ Keyed(db)
      BY <1>0, <1>1, <1>11, EffectKeeps, PlainFacts
    <2>2. r.op # "reorder" => row.id = r.id /\ \A x \in Target(r) : x.id = r.id
      BY <1>11 DEF Target
    <2>3. r.op # "reorder" => \A x \in Target(r) : x = row
      BY <1>11, <2>1, <2>2 DEF Keyed
    <2>4. QED
      BY <1>11, <2>1, <2>2, <2>3
  <1>12. CASE r.op \in {"update", "delete"} /\ Target(r) = {}
    <2>1. Answer(p, r, "404") /\ Effect(r) = db
      BY <1>12 DEF WriteRow, Effect
    <2>2. Quiet' => r.id \notin IdsOf(shown)
      BY <1>5, <1>12 DEF Target, IdsOf
    <2>3. Quiet' /\ shown' = shown /\ Tells(r, "404") => List!Next
      BY <1>1, <1>12, <2>2, ListUpdate, ListDelete
    <2>4. QED
      BY <1>7, <1>12, <2>1, <2>3
  <1>13. CASE r.op = "delete" /\ Target(r) # {}
    <2>1. PICK row \in Target(r) : Continue(p, Answered(r, Written(r, row)))
      BY <1>13 DEF WriteRow
    <2>2. row \in db /\ row.id = r.id /\ Effect(r) = db \ {row}
      BY <1>11, <1>13 DEF Effect
    <2>3. Quiet' => \E old \in shown : old.id = r.id /\ Effect(r) = shown \ {old}
      BY <1>5, <1>13, <2>2
    <2>4. QED
      BY <1>9, <1>13, <2>1, <2>3
  <1>14. CASE r.op = "update" /\ Target(r) # {}
    <2>1. PICK row \in Target(r) : Continue(p, Answered(r, Written(r, row)))
      BY <1>14 DEF WriteRow
    <2>2. PICK w : w = Patch(row, r.upd)
      OBVIOUS
    <2>3. row \in db /\ row \in Row /\ row.id = r.id /\ Target(r) = {row} /\ r.upd \in Change
      BY <1>1, <1>11, <1>14 DEF Asked
    <2>4. Written(r, row) = w /\ Effect(r) = (db \ {row}) \cup {w}
      <3>1. Written(r, row) = w
        BY <1>14, <2>2 DEF Written
      <3>2. QED
        BY <1>14, <2>3, <3>1 DEF Effect
    <2>5. PICK v : v = [sort |-> w.sort, note |-> w.note]
      OBVIOUS
    <2>6. Patch(row, v) = w /\ v.sort # None /\ v.note # None
      BY <2>2, <2>3, <2>5, PatchBack
    <2>7. PICK n : n = [r EXCEPT !.pc = "fallback", !.via = "mirror", !.upd = v]
      OBVIOUS
    <2>8. req' = [req EXCEPT ![p] = n] /\ UNCHANGED <<shown, answer>>
      BY <1>14, <2>1, <2>4, <2>5, <2>7 DEF Continue, Answered
    <2>9. /\ n.pc = "fallback" /\ n.op = "update" /\ n.row = r.row /\ n.id = r.id /\ n.order = r.order
          /\ n.upd = v
      BY <1>1, <1>14, <2>7 DEF Asked
    <2>10. Quiet' => /\ row \in shown /\ row.id = n.id /\ n.upd.sort # None /\ n.upd.note # None
                     /\ Effect(r) = (shown \ {row}) \cup {Patch(row, n.upd)}
      BY <1>5, <1>14, <2>3, <2>4, <2>6, <2>9
    <2>11. Quiet' => WroteRows(n)'
      BY <1>1, <2>8, <2>9, <2>10 DEF WroteRows
    <2>12. QED
      BY <1>8, <1>14, <2>8, <2>9, <2>11
  <1>15. CASE r.op = "reorder"
    <2>1. Quiet' => /\ Target(r) # {}
                    /\ Effect(r) = Renumber(shown, r.order, 1..(Len(r.rows) + 1))
                    /\ \A row \in Target(r) :
                         /\ Range(Append(r.rows, Written(r, row))) \subseteq Effect(r)
                         /\ Len(r.rows) + 1 >= Len(r.order) =>
                               Range(Append(r.rows, Written(r, row))) = Effect(r)
      BY <1>1, <1>3, <1>15, OrderWritten
    <2>2. CASE Target(r) = {}
      <3>1. Answer(p, r, "404") /\ ~Quiet'
        BY <1>15, <2>1, <2>2 DEF WriteRow
      <3>2. QED
        BY <1>1, <1>2, <1>3, <3>1, ShownAnswer
    <2>3. ASSUME NEW row \in Target(r), Continue(p, Answered(r, Written(r, row)))
          PROVE  Shows
      <3>1. PICK more : more = Append(r.rows, Written(r, row))
        OBVIOUS
      <3>2. Written(r, row) \in Row /\ r.rows \in Seq(Row) /\ r.order \in Seq(Nat) /\ Len(r.rows) < Len(r.order)
        BY <1>1, <1>11, <1>15 DEF Asked, RouteOf
      <3>3. Len(more) = Len(r.rows) + 1 /\ Len(r.rows) \in Nat /\ Len(r.order) \in Nat
            /\ DOMAIN r.order = 1..Len(r.order)
        BY <3>1, <3>2
      <3>4. CASE Len(r.rows) + 1 < Len(r.order)
        <4>1. PICK n : n = [r EXCEPT !.rows = more]
          OBVIOUS
        <4>0. ~(Len(r.rows) + 1 >= Len(r.order))
          BY <3>3, <3>4
        <4>2. req' = [req EXCEPT ![p] = n] /\ UNCHANGED <<shown, answer>>
          BY <1>15, <2>3, <3>1, <3>4, <4>0, <4>1 DEF Continue, Answered
        <4>3. n.pc = "write" /\ n.op = "reorder" /\ n.row = r.row /\ n.order = r.order /\ n.rows = more
          BY <1>1, <1>15, <4>1 DEF Asked
        <4>4. Quiet' => HalfOrdered(n)'
          BY <1>1, <2>1, <3>1, <3>3, <3>4, <4>2, <4>3 DEF HalfOrdered
        <4>5. QED
          BY <1>8, <1>15, <4>2, <4>3, <4>4
      <3>5. CASE Len(r.rows) + 1 >= Len(r.order)
        <4>1. PICK n : n = [r EXCEPT !.rows = more, !.pc = "fallback", !.via = "mirror"]
          OBVIOUS
        <4>2. ~(Len(r.rows) + 1 < Len(r.order)) /\ Len(r.rows) + 1 = Len(r.order)
          BY <3>2, <3>3, <3>5
        <4>3. req' = [req EXCEPT ![p] = n] /\ UNCHANGED <<shown, answer>>
          BY <1>15, <2>3, <3>1, <3>5, <4>1, <4>2 DEF Continue, Answered
        <4>4. n.pc = "fallback" /\ n.op = "reorder" /\ n.row = r.row /\ n.order = r.order /\ n.rows = more
          BY <1>1, <1>15, <4>1 DEF Asked
        <4>5. Quiet' => WroteRows(n)'
          BY <1>1, <2>1, <3>1, <3>3, <3>5, <4>2, <4>3, <4>4 DEF WroteRows
        <4>6. QED
          BY <1>8, <1>15, <4>3, <4>4, <4>5
      <3>6. QED
        BY <3>3, <3>4, <3>5
    <2>4. QED
      BY <1>15, <2>2, <2>3 DEF WriteRow
  <1>16. QED
    BY <1>1, <1>10, <1>12, <1>13, <1>14, <1>15 DEF Ops

\* A mirror makes of the rows shown before what Postgres has made of them.
LEMMA MirrorApplies ==
  ASSUME NEW rows \in SUBSET Row, Keyed(rows), rows = shown, NEW r \in Asked, r.via = "mirror",
         WroteRows(r), r.op = "create" => ~(Cardinality(rows) >= Limit),
         r.op = "reorder" => Range(r.order) = IdsOf(rows)
  PROVE  Fallback(rows, r).rows = db /\ Fallback(rows, r).out = "ok"
  <1>0. r.op \in Ops /\ r.order \in Seq(Nat)
    BY DEF Asked
  <1>1. CASE r.op = "create"
    <2>1. r.row.symbol \notin SymbolsOf(rows) /\ db = rows \cup {r.row}
      BY <1>1 DEF WroteRows
    <2>2. QED
      BY <1>1, <2>1 DEF Fallback, create_rows
  <1>2. CASE r.op = "update"
    <2>1. PICK old \in rows : old.id = r.id /\ db = (rows \ {old}) \cup {Patch(old, r.upd)}
      BY <1>2 DEF WroteRows
    <2>2. r.id \in IdsOf(rows)
      BY <2>1 DEF IdsOf
    <2>3. Fallback(rows, r) = [rows |-> {IF row.id = r.id THEN Patch(row, r.upd) ELSE row : row \in rows},
                               out |-> "ok"]
      BY <1>2, <2>2 DEF Fallback, update_rows
    <2>4. {IF row.id = r.id THEN Patch(row, r.upd) ELSE row : row \in rows} = db
      BY <2>1, PatchOne
    <2>5. QED
      BY <2>3, <2>4
  <1>3. CASE r.op = "delete"
    <2>1. PICK old \in rows : old.id = r.id /\ db = rows \ {old}
      BY <1>3 DEF WroteRows
    <2>2. r.id \in IdsOf(rows) /\ {row \in rows : row.id # r.id} = db
      BY <2>1 DEF IdsOf, Keyed
    <2>3. QED
      BY <1>3, <2>2 DEF Fallback, delete_rows
  <1>4. CASE r.op = "reorder"
    <2>1. Range(r.rows) = db /\ db = Renumber(rows, r.order, DOMAIN r.order)
      BY <1>4 DEF WroteRows
    <2>2. Found(rows, r.order) = DOMAIN r.order
      BY <1>0, <1>4, RenumberAll
    <2>3. Fallback(rows, r) = mirror_reorder(rows, r)
      BY <1>4 DEF Fallback
    <2>4. QED
      BY <1>4, <2>1, <2>2, <2>3 DEF mirror_reorder, reorder_memory
  <1>5. QED
    BY <1>0, <1>1, <1>2, <1>3, <1>4 DEF Ops

\* With Postgres: the answer shows what the request has written.
LEMMA WroteListed ==
  ASSUME NEW r \in Asked, cfg' = cfg, cfg.client, WroteRows(r), ShownFor(r), RouteOf(r),
         shown \in SUBSET Row, r.pc \in {"fallback", "save"}, Tells(r, "ok"), shown' = db
  PROVE  List!Next
  <1>0. r.op \in Ops /\ r.order \in Seq(Nat)
    BY DEF Asked
  <1>1. CASE r.op = "create"
    <2>1. /\ r.row.symbol = r.symbol /\ r.symbol \notin SymbolsOf(shown) /\ db = shown \cup {r.row}
          /\ \A row \in shown : row.sort < r.row.sort /\ row.id < r.row.id
      BY <1>1 DEF WroteRows, RouteOf, ShownFor, Creating
    <2>2. QED
      BY <1>1, <2>1, ListAdd
  <1>2. CASE r.op = "update"
    <2>1. PICK old \in shown : old.id = r.id /\ db = (shown \ {old}) \cup {Patch(old, r.upd)}
      BY <1>2 DEF WroteRows
    <2>2. r.upd \in Change
      BY DEF Asked
    <2>3. Patch(old, r.upd).id = old.id /\ Patch(old, r.upd).symbol = old.symbol
      BY <2>1, <2>2, PatchType
    <2>4. QED
      BY <1>2, <2>1, <2>3, ListUpdate
  <1>3. CASE r.op = "delete"
    <2>1. \E old \in shown : old.id = r.id /\ db = shown \ {old}
      BY <1>3 DEF WroteRows
    <2>2. QED
      BY <1>3, <2>1, ListDelete
  <1>4. CASE r.op = "reorder"
    <2>1. Range(r.order) = IdsOf(shown) /\ IsInjective(r.order)
      BY <1>4 DEF ShownFor, Ordering, RouteOf
    <2>2. db = {Placed(row, r.order) : row \in shown}
      BY <1>0, <1>4, <2>1, RenumberAll DEF WroteRows
    <2>3. QED
      BY <1>4, <2>1, <2>2, ListReorder
  <1>5. QED
    BY <1>0, <1>1, <1>2, <1>3, <1>4 DEF Ops

\* Without Postgres: the answer of the fallback is one WatchlistList allows.
LEMMA FallbackListed ==
  ASSUME NEW r \in Asked, cfg' = cfg, ~cfg.client, ShownFor(r), RouteOf(r), r.via # "mirror",
         shown \in SUBSET Row, IsFiniteSet(shown), Keyed(shown), r.pc \in {"fallback", "save"},
         Tells(r, Fallback(shown, r).out),
         shown' = Fallback(shown, r).rows \/ (shown' = shown /\ Fallback(shown, r).out # "ok")
  PROVE  List!Next
  <1>0. r.op \in Ops /\ r.order \in Seq(Nat) /\ Cardinality(shown) \in Nat
    BY FS_CardinalityType DEF Asked
  <1>1. CASE r.op = "create"
    <2>1. /\ r.row.symbol = r.symbol
          /\ \A row \in shown : row.sort < r.row.sort /\ row.id < r.row.id
      BY <1>1 DEF RouteOf, ShownFor, Creating
    <2>2. Fallback(shown, r) = create_rows(shown, r)
      BY <1>1 DEF Fallback
    <2>3. CASE r.row.symbol \in SymbolsOf(shown)
      <3>1. Tells(r, "409") /\ shown' = shown
        BY <2>2, <2>3 DEF create_rows
      <3>2. QED
        BY <1>1, <2>1, <2>3, <3>1, ListAdd
    <2>4. CASE r.row.symbol \notin SymbolsOf(shown) /\ Cardinality(shown) >= Limit
      <3>1. Tells(r, "full") /\ shown' = shown
        BY <2>2, <2>4 DEF create_rows
      <3>2. QED
        BY <1>1, <2>4, <3>1, ListAdd
    <2>5. CASE r.row.symbol \notin SymbolsOf(shown) /\ ~(Cardinality(shown) >= Limit)
      <3>1. Tells(r, "ok") /\ shown' = shown \cup {r.row}
        BY <2>2, <2>5 DEF create_rows
      <3>2. Limit \in Nat
        BY LimitType
      <3>3. Cardinality(shown) < Limit
        BY <1>0, <2>5, <3>2
      <3>4. QED
        BY <1>1, <2>1, <2>5, <3>1, <3>3, ListAdd
    <2>6. QED
      BY <2>3, <2>4, <2>5
  <1>2. CASE r.op = "update"
    <2>1. Fallback(shown, r) = update_rows(shown, r)
      BY <1>2 DEF Fallback
    <2>2. CASE r.id \notin IdsOf(shown)
      <3>1. Tells(r, "404") /\ shown' = shown
        BY <2>1, <2>2 DEF update_rows
      <3>2. QED
        BY <1>2, <2>2, <3>1, ListUpdate
    <2>3. CASE r.id \in IdsOf(shown)
      <3>1. PICK old \in shown : old.id = r.id
        BY <2>3 DEF IdsOf
      <3>2. {IF row.id = r.id THEN Patch(row, r.upd) ELSE row : row \in shown}
               = (shown \ {old}) \cup {Patch(old, r.upd)}
        BY <3>1, PatchOne
      <3>3. Tells(r, "ok") /\ shown' = (shown \ {old}) \cup {Patch(old, r.upd)}
        BY <2>1, <2>3, <3>2 DEF update_rows
      <3>4. r.upd \in Change
        BY DEF Asked
      <3>5. Patch(old, r.upd).id = old.id /\ Patch(old, r.upd).symbol = old.symbol
        BY <3>1, <3>4, PatchType
      <3>6. QED
        BY <1>2, <3>1, <3>3, <3>5, ListUpdate
    <2>4. QED
      BY <2>2, <2>3
  <1>3. CASE r.op = "delete"
    <2>1. Fallback(shown, r) = delete_rows(shown, r)
      BY <1>3 DEF Fallback
    <2>2. CASE r.id \notin IdsOf(shown)
      <3>1. Tells(r, "404") /\ shown' = shown
        BY <2>1, <2>2 DEF delete_rows
      <3>2. QED
        BY <1>3, <2>2, <3>1, ListDelete
    <2>3. CASE r.id \in IdsOf(shown)
      <3>1. PICK old \in shown : old.id = r.id
        BY <2>3 DEF IdsOf
      <3>2. {row \in shown : row.id # r.id} = shown \ {old}
        BY <3>1 DEF Keyed
      <3>3. Tells(r, "ok") /\ shown' = shown \ {old}
        BY <2>1, <2>3, <3>2 DEF delete_rows
      <3>4. QED
        BY <1>3, <3>1, <3>3, ListDelete
    <2>4. QED
      BY <2>2, <2>3
  <1>4. CASE r.op = "reorder"
    <2>1. Range(r.order) = IdsOf(shown) /\ IsInjective(r.order)
      BY <1>4 DEF ShownFor, Ordering, RouteOf
    <2>2. PICK new : new = {Placed(row, r.order) : row \in shown}
      OBVIOUS
    <2>3. Renumber(shown, r.order, DOMAIN r.order) = new /\ Found(shown, r.order) = DOMAIN r.order
      BY <1>0, <2>1, <2>2, RenumberAll
    <2>4. /\ reorder_redis(shown, r.order) = [rows |-> new, out |-> "ok"]
          /\ reorder_memory(shown, r.order) = [rows |-> new, out |-> "ok"]
      BY <2>1, <2>3 DEF reorder_redis, reorder_memory
    <2>5. Fallback(shown, r) = [rows |-> new, out |-> "ok"]
      BY <1>4, <2>4 DEF Fallback
    <2>6. Tells(r, "ok") /\ shown' = new
      BY <2>5
    <2>7. QED
      BY <1>4, <2>1, <2>2, <2>6, ListReorder
  <1>5. QED
    BY <1>0, <1>1, <1>2, <1>3, <1>4 DEF Ops

LEMMA FallbackShown ==
  ASSUME SerialInv, AnsweredInv', NEW p \in Request, MemoryCall(p) \/ SaveRedis(p)
  PROVE  Shows
  <1>0. StoreInv /\ AnsweredInv
    BY DEF SerialInv, AnsweredInv
  <1>a. PICK r : r = req[p]
    OBVIOUS
  <1>1. /\ r.pc \in {"fallback", "save"} /\ r \in Asked /\ RouteOf(r) /\ r.fb \in Stores /\ Live(p)
        /\ UNCHANGED <<cfg, db, faults, everFull>>
        /\ faults = 0 => FaultlessOf(r)
    BY <1>0, <1>a, LiveAsked DEF MemoryCall, SaveRedis, Live
  <1>2. cfg.serial => \A q \in Request : q # p => ~Live(q)
    BY <1>0, <1>1, Solo
  <1>3. PICK rows, out :
            /\ Answer(p, r, out)
            /\ out = IF r.via = "mirror" THEN "ok" ELSE Fallback(rows, r).out
            /\ \/ mirror' = [mirror EXCEPT ![r.fb] = Fallback(rows, r).rows]
               \/ mirror' = mirror /\ Fallback(rows, r).out # "ok"
            /\ cfg.serial => rows = mirror[r.fb]
    <2>1. CASE MemoryCall(p)
      BY <1>1, <1>a, <2>1 DEF MemoryCall
    <2>2. CASE SaveRedis(p)
      <3>1. r.fb = "redis" /\ r.pc = "save"
        BY <1>1, <1>a, <2>2 DEF SaveRedis, RouteOf
      <3>2. cfg.serial => r.copy = mirror[r.fb]
        BY <1>0, <1>a, <3>1 DEF AnsweredInv, CopyInv
      <3>3. QED
        BY <1>a, <2>2, <3>2 DEF SaveRedis
    <2>3. QED
      BY <2>1, <2>2
  <1>4. CASE ~Quiet'
    BY <1>1, <1>2, <1>3, <1>4, ShownAnswer
  <1>5. CASE Quiet'
    <2>1. /\ Quiet /\ ShownFor(r) /\ r.client = cfg.client /\ r.fb = cfg.fb
          /\ cfg.client => r.via = "mirror"
          /\ shown \in SUBSET Row /\ IsFiniteSet(shown) /\ Keyed(shown)
      BY <1>1, <1>5, <1>a DEF Quiet, FaultlessOf, SerialInv, ShownInv
    <2>2. mirror \in [Stores -> SUBSET Row]
      BY <1>0 DEF StoreInv, StoreTypes, PlainTypes
    <2>3. /\ rows = mirror[cfg.fb]
          /\ \/ mirror'[cfg.fb] = Fallback(rows, r).rows
             \/ mirror'[cfg.fb] = rows /\ Fallback(rows, r).out # "ok"
      BY <1>1, <1>3, <2>1, <2>2 DEF Quiet
    <2>4. CASE cfg.client
      <3>1. out = "ok" /\ WroteRows(r) /\ (r.op = "reorder" => Range(r.order) = IdsOf(shown))
        BY <1>1, <1>3, <2>1, <2>4 DEF ShownFor, Ordering
      <3>2. Visible(db, mirror)' = db
        BY <1>1, <2>4 DEF Visible
      <3>3. Quiet' /\ shown' = Visible(db, mirror)' /\ Tells(r, out) => List!Next
        BY <1>1, <2>1, <2>4, <3>1, <3>2, WroteListed
      <3>4. ASSUME ~everFull
            PROVE  mirror'[cfg.fb] = db /\ Cardinality(db) <= Limit
        <4>1. rows = shown /\ Cardinality(db) <= Limit
          BY <2>1, <2>3, <2>4, <3>4 DEF SerialInv, ShownInv
        <4>2. r.op = "create" => ~(Cardinality(shown) >= Limit)
          <5> SUFFICES ASSUME r.op = "create" PROVE ~(Cardinality(shown) >= Limit)
            OBVIOUS
          <5>1. r.row.symbol \notin SymbolsOf(shown) /\ db = shown \cup {r.row}
            BY <3>1 DEF WroteRows
          <5>2. r.row \notin shown
            BY <5>1 DEF SymbolsOf
          <5>3. Cardinality(shown) \in Nat /\ Cardinality(db) = Cardinality(shown) + 1
            BY <2>1, <5>1, <5>2, FS_CardinalityType, FS_AddElement
          <5>4. Limit \in Nat
            BY LimitType
          <5>5. QED
            BY <4>1, <5>3, <5>4
        <4>3. Fallback(rows, r).rows = db /\ Fallback(rows, r).out = "ok"
          BY <1>1, <2>1, <2>4, <3>1, <4>1, <4>2, MirrorApplies
        <4>4. QED
          BY <2>3, <4>1, <4>3
      <3>5. Quiet' /\ cfg.client /\ ~everFull' => (mirror[cfg.fb] = db /\ Cardinality(db) <= Limit)'
        BY <1>1, <3>4
      <3>6. QED
        BY <1>1, <1>2, <1>3, <3>3, <3>5, ShownAnswer
    <2>5. CASE ~cfg.client
      <3>1. rows = shown /\ r.via = "primary" /\ out = Fallback(shown, r).out
        BY <1>1, <1>3, <2>1, <2>3, <2>5 DEF SerialInv, ShownInv, RouteOf
      <3>2. Visible(db, mirror)' = mirror'[cfg.fb]
        BY <1>1, <2>5 DEF Visible
      <3>3. Quiet' /\ shown' = Visible(db, mirror)' /\ Tells(r, out) => List!Next
        <4> SUFFICES ASSUME shown' = Visible(db, mirror)', Tells(r, out) PROVE List!Next
          OBVIOUS
        <4>1. shown' = Fallback(shown, r).rows \/ (shown' = shown /\ Fallback(shown, r).out # "ok")
          BY <2>3, <3>1, <3>2
        <4>2. Tells(r, Fallback(shown, r).out) /\ r.via # "mirror"
          BY <3>1
        <4>3. QED
          BY <1>1, <2>1, <2>5, <4>1, <4>2, FallbackListed
      <3>4. QED
        BY <1>1, <1>2, <1>3, <2>5, <3>3, ShownAnswer
    <2>6. QED
      BY <2>4, <2>5
  <1>6. QED
    BY <1>4, <1>5

\* After a failure nothing is recorded as shown.
LEMMA FailureShown ==
  ASSUME SerialInv, AnsweredInv',
         Crash \/ \E p \in Request : WriteFails(p) \/ RedisFails(p)
  PROVE  Shows
  <1>1. faults \in Nat /\ faults' = faults + 1 /\ cfg' = cfg
    BY PlainFacts DEF SerialInv, AnsweredInv, Crash, WriteFails, RedisFails
  <1>2. faults' # 0
    BY <1>1
  <1>3. ShownInv'
    BY <1>2 DEF ShownInv, Quiet
  <1>4. UNCHANGED <<shown, answer>>
    BY <1>2 DEF Crash, WriteFails, RedisFails, Continue, Answer
  <1>5. QED
    BY <1>1, <1>3, <1>4 DEF Shows, List!vars

LEMMA StillShown ==
  ASSUME SerialInv, RefreshSymbols \/ UNCHANGED vars
  PROVE  Shows
  <1>1. UNCHANGED <<cfg, db, mirror, req, faults, everFull, shown, answer>>
    BY DEF RefreshSymbols, vars
  <1>2. \A r : ShownFor(r)' = ShownFor(r)
    BY <1>1 DEF ShownFor, HalfOrdered, WroteRows, Creating, Ordering
  <1>3. Quiet' = Quiet /\ AllIdle' = AllIdle
    BY <1>1 DEF Quiet, AllIdle, Live
  <1>4. ShownInv'
    BY <1>1, <1>2, <1>3 DEF SerialInv, ShownInv, Live
  <1>5. QED
    BY <1>1, <1>4 DEF Shows, List!vars

LEMMA SerialInit == Init => SerialInv
  <1> SUFFICES ASSUME Init PROVE SerialInv
    OBVIOUS
  <1>1. db = {} /\ shown = {} /\ (\A p \in Request : req[p] = Idle) /\ mirror[cfg.fb] = {}
    BY DEF Init
  <1>2. \A p \in Request : ~Live(p)
    BY <1>1, IdleFacts DEF Live
  <1>3. shown \in SUBSET Row /\ IsFiniteSet(shown) /\ Keyed(shown) /\ Cardinality(db) <= Limit
    BY <1>1, FS_EmptySet, LimitType DEF Keyed
  <1>4. ShownInv
    BY <1>1, <1>2, <1>3 DEF ShownInv
  <1>5. QED
    BY <1>4, AnsweredInit DEF SerialInv

LEMMA SerialNext == SerialInv /\ [Next]_vars => SerialInv' /\ [List!Next]_(List!vars)
  <1> SUFFICES ASSUME SerialInv, [Next]_vars PROVE SerialInv' /\ [List!Next]_(List!vars)
    OBVIOUS
  <1>0. AnsweredInv /\ StoreInv /\ AnsweredInv'
    BY AnsweredNext DEF SerialInv, AnsweredInv
  <1>1. ASSUME NEW p \in Request, Step(p) PROVE Shows
    <2>1. CASE \/ add_to_watchlist(p) \/ update_watchlist_item(p)
               \/ delete_watchlist_item(p) \/ reorder_watchlist(p)
      BY <1>0, <2>1, RouteStep, StartShown
    <2>2. QED
      BY <1>0, <1>1, <2>1, CreateShown, ReorderShown, WriteShown, LoadShown, FallbackShown,
         FailureShown DEF Step
  <1>2. ASSUME Crash PROVE Shows
    BY <1>0, <1>2, FailureShown
  <1>3. ASSUME RefreshSymbols \/ UNCHANGED vars PROVE Shows
    BY <1>3, StillShown
  <1>4. Shows
    BY <1>1, <1>2, <1>3 DEF Next
  <1>5. QED
    BY <1>0, <1>4 DEF Shows, SerialInv

\* While requests come one by one and nothing fails, the fallback that
\* create_item, update_item, delete_item and reorder mirror into lists between
\* requests what Postgres lists, unless Postgres was let past the limit.
THEOREM MirrorIsFresh == Spec => []MirrorFresh
  <1>1. SerialInv => MirrorFresh
    BY DEF SerialInv, ShownInv, MirrorFresh, Quiet
  <1>2. QED
    BY <1>1, SerialInit, SerialNext, PTL DEF Spec

\* Serial requests without failures see the list that WatchlistList promises,
\* whichever backend is configured: every answered request is one step of
\* WatchlistList and every other step of WatchlistStore leaves the list alone.
THEOREM StoreImplementsList == Spec => ImplementsList
  <1>1. Init => List!Init
    <2> SUFFICES ASSUME Init PROVE List!Init
      OBVIOUS
    <2>1. (~cfg.client) \in BOOLEAN
      OBVIOUS
    <2>2. shown = {} /\ answer = [op |-> "none", arg |-> <<>>, out |-> "ok"]
      BY DEF Init
    <2>3. QED
      BY <2>1, <2>2 DEF List!Init
  <1>2. QED
    BY <1>1, SerialInit, SerialNext, PTL DEF Spec, ImplementsList, List!Spec
=============================================================================
