------------------------- MODULE QuotaLedgerProofs -------------------------
(***************************************************************************)
(* Proofs about QuotaLedger for every finite set of requests, every set of *)
(* users, kinds, quotas and faults.                                        *)
(***************************************************************************)
EXTENDS QuotaLedger, FiniteSetTheorems, TLAPS

-----------------------------------------------------------------------------
(* Type correctness and isolation *)

LEMMA PoolType == \A k : PoolOf(k) \in Pools
  BY DEF PoolOf, Pools

LEMMA FoundType ==
  ASSUME TypeOK, NEW r \in Req
  PROVE  /\ Found(r) \subseteq Req \cup {NoRow}
         /\ \A h \in Found(r) : h # NoRow => h \in LookupRows(r)
  BY DEF Found, LookupRows, Newest, Rows, TypeOK

LEMMA AfterConsumeType ==
  ASSUME NEW r \in Req, NEW ok \in BOOLEAN
  PROVE  AfterConsume(r, ok) \in {"responding", "retry", "completed"}
  BY DEF AfterConsume

LEMMA TypeStep == TypeOK /\ [Next]_vars => TypeOK'
  <1> SUFFICES ASSUME TypeOK, [Next]_vars PROVE TypeOK'
    OBVIOUS
  <1> USE BoundAssumption DEF TypeOK, Goto, Phases, Statuses
  <1>1. ASSUME NEW r \in Req, Begin(r) PROVE TypeOK'
    BY <1>1 DEF Begin
  <1>2. ASSUME NEW r \in Req, Reserve(r) \/ Reject(r) PROVE TypeOK'
    BY <1>2 DEF Reserve, Reject
  <1>3. ASSUME NEW r \in Req, Lookup(r) PROVE TypeOK'
    BY <1>3, FoundType DEF Lookup
  <1>4. ASSUME NEW r \in Req, LookupFails(r) \/ Respond(r) PROVE TypeOK'
    BY <1>4 DEF LookupFails, Respond
  <1>5. ASSUME NEW r \in Req, Consume(r) PROVE TypeOK'
    BY <1>5, AfterConsumeType DEF Consume, consume_quota
  <1>6. ASSUME NEW r \in Req, ConsumeFails(r) PROVE TypeOK'
    BY <1>6, AfterConsumeType DEF ConsumeFails, consume_quota
  <1>7. ASSUME NEW r \in Req, Release(r) \/ ReleaseFails(r) PROVE TypeOK'
    BY <1>7 DEF Release, ReleaseFails, release_quota
  <1>8. ASSUME NEW r \in Req, Raise(r) \/ Kill(r) PROVE TypeOK'
    BY <1>8 DEF Raise, Kill
  <1>9. ASSUME Midnight PROVE TypeOK'
    BY <1>9 DEF Midnight
  <1>10. ASSUME NEW u \in User, UpdateUser(u) PROVE TypeOK'
    BY <1>10 DEF UpdateUser
  <1>11. CASE UNCHANGED vars
    BY <1>11 DEF vars
  <1>12. QED
    BY <1>1, <1>2, <1>3, <1>4, <1>5, <1>6, <1>7, <1>8, <1>9, <1>10, <1>11
       DEF Next, Step

\* Every variable keeps its type, whatever requests, users and faults there are.
THEOREM TypeCorrect == Spec => []TypeOK
  <1>1. Init => TypeOK
    BY DEF Init, TypeOK, Phases, Statuses
  <1>2. QED
    BY <1>1, TypeStep, PTL DEF Spec

-----------------------------------------------------------------------------
(* The inductive invariant *)

\* A row exists exactly from the reservation on, and a handler holds a row
\* only once it has looked one up.
PhaseRow ==
    \A r \in Req :
        /\ phase[r] \in {"idle", "rpc"} => status[r] = "none" /\ held[r] = NoRow
        /\ phase[r] = "granted" => held[r] = NoRow
        /\ phase[r] \in InFlight \cup {"completed", "failed", "raised"} => status[r] # "none"
        /\ held[r] # NoRow => status[r] # "none"

\* The handlers that still need, or may still settle, a reserved row.
Owes(r) ==
    \/ phase[r] = "granted"
    \/ /\ phase[r] \in {"working", "retry", "responding"}
       /\ held[r] # NoRow
       /\ status[held[r]] = "reserved"
Owed(u, p) == {r \in Req : user[r] = u /\ Pool(r) = p /\ Owes(r)}
ReservedRows(u, p) == {q \in Rows(u, p) : status[q] = "reserved"}

EnoughReserved ==
    \A u \in User, p \in Pools :
        Cardinality(Owed(u, p)) <= Cardinality(ReservedRows(u, p))

CoversEveryDay ==
    \A u \in User, p \in Pools, d \in Nat : NoStraddle(u, p) =>
        Cardinality(WorkOn(u, p, d)) <= Cardinality(Charged(u, p, d))

LEMMA PhaseRowStep ==
  TypeOK /\ RowsIsolated /\ PhaseRow /\ [Next]_vars => RowsIsolated' /\ PhaseRow'
  <1> SUFFICES ASSUME TypeOK, RowsIsolated, PhaseRow, [Next]_vars
               PROVE  RowsIsolated' /\ PhaseRow'
    OBVIOUS
  <1> USE ReqAssumption
      DEF TypeOK, RowsIsolated, PhaseRow, Rows, Pool, Goto, InFlight
  <1>1. ASSUME NEW r \in Req, Begin(r) PROVE RowsIsolated' /\ PhaseRow'
    BY <1>1 DEF Begin
  <1>2. ASSUME NEW r \in Req, Reserve(r) PROVE RowsIsolated' /\ PhaseRow'
    BY <1>2 DEF Reserve
  <1>3. ASSUME NEW r \in Req, Lookup(r) PROVE RowsIsolated' /\ PhaseRow'
    BY <1>3, FoundType DEF Lookup, LookupRows
  <1>4. ASSUME NEW r \in Req,
               Reject(r) \/ LookupFails(r) \/ Respond(r) \/ Raise(r) \/ Kill(r)
        PROVE  RowsIsolated' /\ PhaseRow'
    BY <1>4 DEF Reject, LookupFails, Respond, Raise, Kill
  <1>5. ASSUME NEW r \in Req, Consume(r) PROVE RowsIsolated' /\ PhaseRow'
    BY <1>5, AfterConsumeType DEF Consume, consume_quota
  <1>6. ASSUME NEW r \in Req, ConsumeFails(r) PROVE RowsIsolated' /\ PhaseRow'
    BY <1>6, AfterConsumeType DEF ConsumeFails, consume_quota
  <1>7. ASSUME NEW r \in Req, Release(r) \/ ReleaseFails(r)
        PROVE  RowsIsolated' /\ PhaseRow'
    BY <1>7 DEF Release, ReleaseFails, release_quota, MayFail
  <1>8. ASSUME Midnight \/ (\E u \in User : UpdateUser(u)) \/ UNCHANGED vars
        PROVE  RowsIsolated' /\ PhaseRow'
    BY <1>8 DEF Midnight, UpdateUser, vars
  <1>9. QED
    BY <1>1, <1>2, <1>3, <1>4, <1>5, <1>6, <1>7, <1>8 DEF Next, Step

-----------------------------------------------------------------------------
(* Comparing two sets of requests before and after a step *)

LEMMA CountKeep ==
  ASSUME NEW A \in SUBSET Req, NEW B \in SUBSET Req,
         NEW A1 \in SUBSET Req, NEW B1 \in SUBSET Req,
         Cardinality(A) <= Cardinality(B), A1 \subseteq A, B \subseteq B1
  PROVE  Cardinality(A1) <= Cardinality(B1)
  <1>1. /\ IsFiniteSet(A) /\ IsFiniteSet(B) /\ IsFiniteSet(A1) /\ IsFiniteSet(B1)
    BY ReqAssumption, FS_Subset
  <1>2. Cardinality(A1) <= Cardinality(A) /\ Cardinality(B) <= Cardinality(B1)
    BY <1>1, FS_Subset
  <1>3. /\ Cardinality(A) \in Nat /\ Cardinality(B) \in Nat
        /\ Cardinality(A1) \in Nat /\ Cardinality(B1) \in Nat
    BY <1>1, FS_CardinalityType
  <1>4. QED
    BY <1>2, <1>3

LEMMA CountGain ==
  ASSUME NEW A \in SUBSET Req, NEW B \in SUBSET Req,
         NEW A1 \in SUBSET Req, NEW B1 \in SUBSET Req,
         NEW x \in Req, NEW y \in Req,
         Cardinality(A) <= Cardinality(B),
         A1 \subseteq A \cup {x}, y \notin B, B \cup {y} \subseteq B1
  PROVE  Cardinality(A1) <= Cardinality(B1)
  <1>1. /\ IsFiniteSet(A) /\ IsFiniteSet(B) /\ IsFiniteSet(B1)
    BY ReqAssumption, FS_Subset
  <1>2. /\ IsFiniteSet(A \cup {x}) /\ IsFiniteSet(B \cup {y})
        /\ Cardinality(A \cup {x}) \in {Cardinality(A), Cardinality(A) + 1}
        /\ Cardinality(B \cup {y}) = Cardinality(B) + 1
    BY <1>1, FS_AddElement
  <1>3. /\ Cardinality(A1) <= Cardinality(A \cup {x})
        /\ Cardinality(B \cup {y}) <= Cardinality(B1)
        /\ IsFiniteSet(A1)
    BY <1>1, <1>2, FS_Subset
  <1>4. /\ Cardinality(A) \in Nat /\ Cardinality(B) \in Nat
        /\ Cardinality(A1) \in Nat /\ Cardinality(B1) \in Nat
    BY <1>1, <1>3, FS_CardinalityType
  <1>5. QED
    BY <1>2, <1>3, <1>4

LEMMA CountLose ==
  ASSUME NEW A \in SUBSET Req, NEW B \in SUBSET Req,
         NEW A1 \in SUBSET Req, NEW B1 \in SUBSET Req,
         NEW x \in A, NEW y,
         Cardinality(A) <= Cardinality(B),
         A1 \subseteq A \ {x}, B \ {y} \subseteq B1
  PROVE  Cardinality(A1) <= Cardinality(B1)
  <1>1. /\ IsFiniteSet(A) /\ IsFiniteSet(B) /\ IsFiniteSet(B1)
    BY ReqAssumption, FS_Subset
  <1>2. /\ IsFiniteSet(A \ {x}) /\ IsFiniteSet(B \ {y})
        /\ Cardinality(A \ {x}) = Cardinality(A) - 1
        /\ Cardinality(B \ {y}) \in {Cardinality(B), Cardinality(B) - 1}
    BY <1>1, FS_RemoveElement
  <1>3. /\ Cardinality(A1) <= Cardinality(A \ {x})
        /\ Cardinality(B \ {y}) <= Cardinality(B1)
        /\ IsFiniteSet(A1)
    BY <1>1, <1>2, FS_Subset
  <1>4. /\ Cardinality(A) \in Nat /\ Cardinality(B) \in Nat
        /\ Cardinality(A1) \in Nat /\ Cardinality(B1) \in Nat
    BY <1>1, <1>3, FS_CardinalityType
  <1>5. QED
    BY <1>2, <1>3, <1>4

-----------------------------------------------------------------------------
(* What a step does to requests and rows *)

IsRow(r) == status[r] # "none"
InWork(r) == IsRow(r) /\ phase[r] \in InFlight \cup {"completed"}
IsCharged(r) == status[r] \in CountedStatuses
IsReserved(r) == status[r] = "reserved"
SamePool(q, r) == user[q] = user[r] /\ Pool(q) = Pool(r)

\* No request starts to work or to owe, no row stops being charged or reserved.
Keeps ==
    \A q \in Req : /\ InWork(q)' => InWork(q)
                   /\ IsCharged(q) => IsCharged(q)'
                   /\ Owes(q)' => Owes(q)
                   /\ IsReserved(q) => IsReserved(q)'

\* Request r gains a unit and the row for it.
Gains(r) ==
    /\ ~IsRow(r) /\ IsReserved(r)'
    /\ \A q \in Req \ {r} : /\ InWork(q)' => InWork(q)
                            /\ Owes(q)' => Owes(q)
                            /\ status'[q] = status[q]

\* Request r settles a row of its user and pool: at most that row changes.
Settles(r) ==
    /\ held[r] \in Req /\ IsRow(held[r]) /\ SamePool(held[r], r)
    /\ held'[r] = held[r]
    /\ \A q \in Req : /\ InWork(q)' => InWork(q)
                      /\ Owes(q)' => Owes(q)
                      /\ q # held[r] => status'[q] = status[q]
    /\ IsReserved(held[r]) => Owes(r) /\ ~Owes(r)'
    /\ \/ IsCharged(held[r])'
       \/ InWork(r) /\ ~InWork(r)'

\* The identity of requests and rows never changes.
Frame ==
    /\ user' = user /\ kind' = kind
    /\ \A q \in Req : IsRow(q) => day'[q] = day[q] /\ IsRow(q)'
    /\ \A q \in Req : held[q] # NoRow => held'[q] = held[q]

LEMMA StepEffect ==
  ASSUME TypeOK, RowsIsolated, PhaseRow, [Next]_vars
  PROVE  Frame /\ (Keeps \/ \E r \in Req : Gains(r) \/ Settles(r))
  <1> USE ReqAssumption
      DEF TypeOK, RowsIsolated, PhaseRow, Rows, Pool, Goto, InFlight, Frame,
          IsRow, InWork, IsCharged, IsReserved, Owes, CountedStatuses
  <1>1. ASSUME NEW r \in Req, Begin(r) PROVE Frame /\ Keeps
    BY <1>1 DEF Begin, Keeps
  <1>2. ASSUME NEW r \in Req, Reserve(r) PROVE Frame /\ Gains(r)
    BY <1>2 DEF Reserve, Gains
  <1>3. ASSUME NEW r \in Req, Lookup(r) PROVE Frame /\ Keeps
    BY <1>3 DEF Lookup, Keeps
  <1>4. ASSUME NEW r \in Req,
               Reject(r) \/ LookupFails(r) \/ Respond(r) \/ Raise(r) \/ Kill(r)
        PROVE  Frame /\ Keeps
    BY <1>4 DEF Reject, LookupFails, Respond, Raise, Kill, Keeps
  <1>5. ASSUME NEW r \in Req, Consume(r) \/ ConsumeFails(r)
        PROVE  Frame /\ (Keeps \/ Settles(r))
    <2> AfterConsume(r, TRUE) \in {"responding", "retry", "completed"}
        /\ AfterConsume(r, FALSE) \in {"responding", "retry", "completed"}
      BY AfterConsumeType
    <2>1. CASE UNCHANGED status
      BY <1>5, <2>1 DEF Consume, ConsumeFails, Keeps
    <2>2. CASE held[r] # NoRow /\ consume_quota(r)
      BY <1>5, <2>2 DEF Consume, ConsumeFails, consume_quota, Settles, SamePool
    <2>3. QED
      BY <1>5, <2>1, <2>2 DEF Consume, ConsumeFails
  <1>6. ASSUME NEW r \in Req, Release(r) \/ ReleaseFails(r)
        PROVE  Frame /\ (Keeps \/ Settles(r))
    <2>1. CASE UNCHANGED status
      BY <1>6, <2>1 DEF Release, ReleaseFails, MayFail, Keeps
    <2>2. CASE held[r] # NoRow /\ release_quota(r)
      BY <1>6, <2>2 DEF Release, ReleaseFails, MayFail, release_quota, Settles, SamePool
    <2>3. QED
      BY <1>6, <2>1, <2>2 DEF Release, ReleaseFails
  <1>7. ASSUME Midnight \/ (\E u \in User : UpdateUser(u)) \/ UNCHANGED vars
        PROVE  Frame /\ Keeps
    BY <1>7 DEF Midnight, UpdateUser, vars, Keeps
  <1>8. QED
    BY <1>1, <1>2, <1>3, <1>4, <1>5, <1>6, <1>7 DEF Next, Step

LEMMA ReservedStep ==
  ASSUME TypeOK, RowsIsolated, PhaseRow, EnoughReserved, [Next]_vars
  PROVE  EnoughReserved'
  <1> SUFFICES ASSUME NEW u \in User, NEW p \in Pools
               PROVE  Cardinality(Owed(u, p)') <= Cardinality(ReservedRows(u, p)')
    BY DEF EnoughReserved
  <1> DEFINE A == Owed(u, p)  B == ReservedRows(u, p)
  <1>1. /\ A \subseteq Req /\ B \subseteq Req /\ A' \subseteq Req /\ B' \subseteq Req
        /\ Cardinality(A) <= Cardinality(B)
    BY DEF EnoughReserved, Owed, ReservedRows, Rows
  <1>2. Frame /\ (Keeps \/ \E r \in Req : Gains(r) \/ Settles(r))
    BY StepEffect
  <1>3. CASE Keeps
    <2>1. A' \subseteq A /\ B \subseteq B'
      BY <1>2, <1>3 DEF Keeps, Frame, Owed, ReservedRows, Rows, Pool, IsReserved
    <2>2. QED
      BY ONLY <1>1, <2>1, CountKeep
  <1>4. ASSUME NEW r \in Req, Gains(r)
        PROVE  Cardinality(A') <= Cardinality(B')
    <2>1. CASE user[r] = u /\ Pool(r) = p
      <3>1. A' \subseteq A \cup {r} /\ r \notin B /\ B \cup {r} \subseteq B'
        BY <1>2, <1>4, <2>1
           DEF Gains, Frame, Owed, ReservedRows, Rows, Pool, IsRow, IsReserved
      <3>2. QED
        BY ONLY <1>1, <3>1, CountGain, r \in Req
    <2>2. CASE ~(user[r] = u /\ Pool(r) = p)
      <3>1. A' \subseteq A /\ B \subseteq B'
        BY <1>2, <1>4, <2>2
           DEF Gains, Frame, Owed, ReservedRows, Rows, Pool, IsRow, IsReserved
      <3>2. QED
        BY ONLY <1>1, <3>1, CountKeep
    <2>3. QED
      BY <2>1, <2>2
  <1>5. ASSUME NEW r \in Req, Settles(r)
        PROVE  Cardinality(A') <= Cardinality(B')
    <2>1. CASE r \in A /\ IsReserved(held[r])
      <3>1. A' \subseteq A \ {r} /\ B \ {held[r]} \subseteq B'
        BY <1>2, <1>5, <2>1
           DEF Settles, Frame, Owed, ReservedRows, Rows, Pool, IsRow, IsReserved
      <3>2. QED
        BY ONLY <1>1, <2>1, <3>1, CountLose
    <2>2. CASE ~(r \in A /\ IsReserved(held[r]))
      <3>1. held[r] \notin B
        BY <1>5, <2>2
           DEF Settles, Owed, ReservedRows, Rows, Pool, SamePool, IsReserved
      <3>2. A' \subseteq A /\ B \subseteq B'
        BY <1>2, <1>5, <3>1
           DEF Settles, Frame, Owed, ReservedRows, Rows, Pool, IsRow, IsReserved
      <3>3. QED
        BY ONLY <1>1, <3>2, CountKeep
    <2>3. QED
      BY <2>1, <2>2
  <1>6. QED
    BY <1>2, <1>3, <1>4, <1>5

LEMMA CoverStep ==
  ASSUME TypeOK, RowsIsolated, PhaseRow, LedgerCoversWork, [Next]_vars
  PROVE  LedgerCoversWork'
  <1> SUFFICES ASSUME NEW u \in User, NEW p \in Pools
               PROVE  Cardinality(Work(u, p)') <= Cardinality(ChargedEver(u, p)')
    BY DEF LedgerCoversWork
  <1> DEFINE A == Work(u, p)  B == ChargedEver(u, p)
  <1>1. /\ A \subseteq Req /\ B \subseteq Req /\ A' \subseteq Req /\ B' \subseteq Req
        /\ Cardinality(A) <= Cardinality(B)
    BY DEF LedgerCoversWork, Work, ChargedEver, Rows
  <1>2. Frame /\ (Keeps \/ \E r \in Req : Gains(r) \/ Settles(r))
    BY StepEffect
  <1> USE DEF Work, ChargedEver, Rows, Pool, Frame, IsRow, InWork, IsCharged,
              CountedStatuses
  <1>3. CASE Keeps
    <2>1. A' \subseteq A /\ B \subseteq B'
      BY <1>2, <1>3 DEF Keeps
    <2>2. QED
      BY ONLY <1>1, <2>1, CountKeep
  <1>4. ASSUME NEW r \in Req, Gains(r)
        PROVE  Cardinality(A') <= Cardinality(B')
    <2>1. CASE user[r] = u /\ Pool(r) = p
      <3>1. A' \subseteq A \cup {r} /\ r \notin B /\ B \cup {r} \subseteq B'
        BY <1>2, <1>4, <2>1 DEF Gains, IsReserved
      <3>2. QED
        BY ONLY <1>1, <3>1, CountGain, r \in Req
    <2>2. CASE ~(user[r] = u /\ Pool(r) = p)
      <3>1. A' \subseteq A /\ B \subseteq B'
        BY <1>2, <1>4, <2>2 DEF Gains
      <3>2. QED
        BY ONLY <1>1, <3>1, CountKeep
    <2>3. QED
      BY <2>1, <2>2
  <1>5. ASSUME NEW r \in Req, Settles(r)
        PROVE  Cardinality(A') <= Cardinality(B')
    <2>1. CASE r \in A /\ ~IsCharged(held[r])'
      <3>1. A' \subseteq A \ {r} /\ B \ {held[r]} \subseteq B'
        BY <1>2, <1>5, <2>1 DEF Settles
      <3>2. QED
        BY ONLY <1>1, <2>1, <3>1, CountLose
    <2>2. CASE ~(r \in A /\ ~IsCharged(held[r])')
      <3>1. held[r] \in B => IsCharged(held[r])'
        BY <1>5, <2>2 DEF Settles, SamePool
      <3>2. A' \subseteq A /\ B \subseteq B'
        BY <1>2, <1>5, <3>1 DEF Settles
      <3>3. QED
        BY ONLY <1>1, <3>2, CountKeep
    <2>3. QED
      BY <2>1, <2>2
  <1>6. QED
    BY <1>2, <1>3, <1>4, <1>5

\* A handler that has found a row of its own day keeps it.
LEMMA StraddleStep ==
  ASSUME TypeOK, RowsIsolated, PhaseRow, [Next]_vars,
         NEW u \in User, NEW p \in Pools, NoStraddle(u, p)'
  PROVE  NoStraddle(u, p)
  <1>1. Frame
    BY StepEffect
  <1>2. SUFFICES ASSUME NEW r \in Req, held[r] # NoRow, user[r] = u, Pool(r) = p
                 PROVE  day[held[r]] = day[r]
    BY DEF NoStraddle
  <1>3. /\ IsRow(held[r]) /\ held[r] \in Req /\ IsRow(r)
        /\ held'[r] = held[r] /\ user'[r] = u /\ Pool(r)' = p
    <2>1. IsRow(held[r]) /\ held[r] \in Req
      BY <1>2 DEF RowsIsolated, Rows, IsRow
    <2>2. held'[r] = held[r] /\ user'[r] = u /\ Pool(r)' = p
      BY <1>1, <1>2 DEF Frame, Pool
    <2>3. IsRow(r)
      BY <1>2 DEF PhaseRow, IsRow
    <2>4. QED
      BY <2>1, <2>2, <2>3
  <1>4. day'[held[r]] = day'[r]
    BY <1>2, <1>3 DEF NoStraddle
  <1>5. QED
    BY <1>1, <1>3, <1>4 DEF Frame

LEMMA DayStep ==
  ASSUME TypeOK, RowsIsolated, PhaseRow, CoversEveryDay, [Next]_vars
  PROVE  CoversEveryDay'
  <1> SUFFICES ASSUME NEW u \in User, NEW p \in Pools, NEW d \in Nat, NoStraddle(u, p)'
               PROVE  Cardinality(WorkOn(u, p, d)') <= Cardinality(Charged(u, p, d)')
    BY DEF CoversEveryDay
  <1>0. NoStraddle(u, p)
    BY StraddleStep
  <1> DEFINE A == WorkOn(u, p, d)  B == Charged(u, p, d)
  <1>1. /\ A \subseteq Req /\ B \subseteq Req /\ A' \subseteq Req /\ B' \subseteq Req
        /\ Cardinality(A) <= Cardinality(B)
    BY <1>0 DEF CoversEveryDay, WorkOn, Work, Charged, Rows
  <1>2. Frame /\ (Keeps \/ \E r \in Req : Gains(r) \/ Settles(r))
    BY StepEffect
  <1> USE DEF WorkOn, Work, Charged, Rows, Pool, Frame, IsRow, InWork, IsCharged,
              CountedStatuses
  <1>3. CASE Keeps
    <2>1. A' \subseteq A /\ B \subseteq B'
      BY <1>2, <1>3 DEF Keeps
    <2>2. QED
      BY ONLY <1>1, <2>1, CountKeep
  <1>4. ASSUME NEW r \in Req, Gains(r)
        PROVE  Cardinality(A') <= Cardinality(B')
    <2>1. CASE user[r] = u /\ Pool(r) = p /\ day'[r] = d
      <3>1. A' \subseteq A \cup {r} /\ r \notin B /\ B \cup {r} \subseteq B'
        BY <1>2, <1>4, <2>1 DEF Gains, IsReserved
      <3>2. QED
        BY ONLY <1>1, <3>1, CountGain, r \in Req
    <2>2. CASE ~(user[r] = u /\ Pool(r) = p /\ day'[r] = d)
      <3>1. A' \subseteq A /\ B \subseteq B'
        BY <1>2, <1>4, <2>2 DEF Gains
      <3>2. QED
        BY ONLY <1>1, <3>1, CountKeep
    <2>3. QED
      BY <2>1, <2>2
  <1>5. ASSUME NEW r \in Req, Settles(r)
        PROVE  Cardinality(A') <= Cardinality(B')
    <2>1. CASE r \in A /\ ~IsCharged(held[r])'
      <3>1. A' \subseteq A \ {r} /\ B \ {held[r]} \subseteq B'
        <4>1. ~InWork(r)'
          BY <1>5, <2>1 DEF Settles
        <4>2. \A q \in A' : q \in A /\ q # r
          BY <1>2, <1>5, <4>1 DEF Settles
        <4>3. \A q \in B : q # held[r] => q \in B'
          BY <1>2, <1>5 DEF Settles
        <4>4. QED
          BY <4>2, <4>3
      <3>2. r \in A
        BY <2>1
      <3> HIDE DEF A, B
      <3>3. QED
        BY ONLY <1>1, <3>1, <3>2, CountLose
    <2>2. CASE ~(r \in A /\ ~IsCharged(held[r])')
      <3>1. held[r] \in B => IsCharged(held[r])'
        <4>1. ASSUME held[r] \in B PROVE user[r] = u /\ Pool(r) = p /\ day[r] = d
          BY <1>0, <1>5, <4>1, ReqAssumption DEF Settles, SamePool, NoStraddle
        <4>2. QED
          BY <1>5, <2>2, <4>1 DEF Settles
      <3>2. A' \subseteq A /\ B \subseteq B'
        BY <1>2, <1>5, <3>1 DEF Settles
      <3>3. QED
        BY ONLY <1>1, <3>2, CountKeep
    <2>3. QED
      BY <2>1, <2>2
  <1>6. QED
    BY <1>2, <1>3, <1>4, <1>5

-----------------------------------------------------------------------------
(* The theorems *)

LedgerInv ==
    /\ TypeOK /\ RowsIsolated /\ PhaseRow
    /\ EnoughReserved /\ LedgerCoversWork /\ CoversEveryDay

LEMMA LedgerInvInit == Init => LedgerInv
  <1> SUFFICES ASSUME Init PROVE LedgerInv
    OBVIOUS
  <1>1. TypeOK /\ RowsIsolated /\ PhaseRow
    BY DEF Init, TypeOK, Phases, Statuses, RowsIsolated, PhaseRow, InFlight
  <1>2. \A u, p, d : /\ Owed(u, p) = {} /\ ReservedRows(u, p) = {}
                     /\ Work(u, p) = {} /\ ChargedEver(u, p) = {}
                     /\ WorkOn(u, p, d) = {} /\ Charged(u, p, d) = {}
    BY DEF Init, Owed, Owes, ReservedRows, Rows, Work, ChargedEver, WorkOn, Charged
  <1>3. QED
    BY <1>1, <1>2, FS_EmptySet
       DEF LedgerInv, EnoughReserved, LedgerCoversWork, CoversEveryDay

LEMMA LedgerInvStep == LedgerInv /\ [Next]_vars => LedgerInv'
  BY TypeStep, PhaseRowStep, ReservedStep, CoverStep, DayStep DEF LedgerInv

LEMMA LedgerInvAlways == Spec => []LedgerInv
  BY LedgerInvInit, LedgerInvStep, PTL DEF Spec

\* Settlements stay within the user and pool that reserved: no interleaving
\* of the two queries of reserve_user_quota reaches another user's row.
THEOREM Isolation == Spec => []RowsIsolated
  <1>1. LedgerInv => RowsIsolated
    BY DEF LedgerInv
  <1>2. QED
    BY <1>1, LedgerInvAlways, PTL

\* The lookup of a granted request never comes back empty.
THEOREM GrantFinds == Spec => []GrantFindsRow
  <1>1. LedgerInv => GrantFindsRow
    <2> SUFFICES ASSUME LedgerInv, NEW r \in Req, phase[r] = "granted",
                        LookupRows(r) = {}
                 PROVE  FALSE
      BY DEF GrantFindsRow
    <2> DEFINE u == user[r]  p == Pool(r)
    <2>1. u \in User /\ p \in Pools
      BY PoolType DEF LedgerInv, TypeOK, Pool
    <2>2. ReservedRows(u, p) = {} /\ r \in Owed(u, p) /\ Owed(u, p) \subseteq Req
      BY DEF LookupRows, ReservedRows, Owed, Owes
    <2>3. Cardinality(Owed(u, p)) <= 0
      BY <2>1, <2>2, FS_EmptySet DEF LedgerInv, EnoughReserved
    <2>4. IsFiniteSet(Owed(u, p)) /\ Cardinality(Owed(u, p)) \in Nat
      BY <2>2, ReqAssumption, FS_Subset, FS_CardinalityType
    <2>5. Cardinality(Owed(u, p)) = 0
      BY <2>3, <2>4
    <2>6. QED
      BY <2>2, <2>4, <2>5, FS_EmptySet
  <1>2. QED
    BY <1>1, LedgerInvAlways, PTL

\* The ledger never undercounts the requests in flight and completed.
THEOREM Coverage == Spec => [](LedgerCoversWork /\ LedgerCoversDay)
  <1>1. LedgerInv => LedgerCoversWork /\ LedgerCoversDay
    BY BoundAssumption DEF LedgerInv, CoversEveryDay, LedgerCoversDay
  <1>2. QED
    BY <1>1, LedgerInvAlways, PTL

LEMMA LeftoverStep ==
  ASSUME LedgerInv, NoLeftoverTaken, [Next]_vars
  PROVE  NoLeftoverTaken'
  <1> USE DEF NoLeftoverTaken, Goto
  <1>0. TypeOK /\ RowsIsolated /\ PhaseRow
    BY DEF LedgerInv
  <1>1. ASSUME NEW r \in Req, Begin(r) PROVE NoLeftoverTaken'
    <2>1. \A q \in Req : held[q] # NoRow => held[q] # r /\ q # r
      BY <1>0, <1>1 DEF Begin, RowsIsolated, Rows, PhaseRow
    <2>2. QED
      BY <1>0, <1>1, <2>1 DEF Begin, TypeOK
  <1>2. ASSUME NEW r \in Req, Reserve(r) PROVE NoLeftoverTaken'
    <2>1. held[r] = NoRow
      BY <1>0, <1>2 DEF Reserve, PhaseRow
    <2>2. QED
      BY <1>0, <1>2, <2>1 DEF Reserve, TypeOK
  <1>3. ASSUME NEW r \in Req, Lookup(r) PROVE NoLeftoverTaken'
    <2>1. PICK h \in Found(r) : held' = [held EXCEPT ![r] = h]
      BY <1>3 DEF Lookup
    <2>2. status[r] \in {"reserved", "consumed", "released"}
      BY <1>0, <1>3 DEF Lookup, PhaseRow, InFlight, TypeOK, Statuses
    <2>3. status[r] = "reserved" => r \in LookupRows(r)
      BY DEF LookupRows, Rows
    <2>4. h # NoRow /\ status[r] = "reserved" => stamp[r] <= stamp[h]
      BY <2>1, <2>3 DEF Found, Newest
    <2>5. QED
      BY <1>0, <1>3, <2>1, <2>2, <2>4 DEF Lookup, TypeOK
  <1>4. ASSUME NEW r \in Req,
               Reject(r) \/ LookupFails(r) \/ Respond(r) \/ Raise(r) \/ Kill(r)
        PROVE  NoLeftoverTaken'
    BY <1>4 DEF Reject, LookupFails, Respond, Raise, Kill
  <1>5. ASSUME NEW r \in Req, Consume(r) \/ ConsumeFails(r) PROVE NoLeftoverTaken'
    BY <1>0, <1>5 DEF Consume, ConsumeFails, consume_quota, TypeOK
  <1>6. ASSUME NEW r \in Req, Release(r) \/ ReleaseFails(r) PROVE NoLeftoverTaken'
    BY <1>0, <1>6 DEF Release, ReleaseFails, release_quota, TypeOK
  <1>7. ASSUME Midnight \/ (\E u \in User : UpdateUser(u)) \/ UNCHANGED vars
        PROVE  NoLeftoverTaken'
    BY <1>7 DEF Midnight, UpdateUser, vars
  <1>8. QED
    BY <1>1, <1>2, <1>3, <1>4, <1>5, <1>6, <1>7 DEF Next, Step

\* The lookup by created_at never mistakes a row that an earlier request left
\* reserved for the row of the request that asks.
THEOREM LeftoversStay == Spec => []NoLeftoverTaken
  <1>1. Init => NoLeftoverTaken
    BY DEF Init, NoLeftoverTaken
  <1>2. LedgerInv /\ NoLeftoverTaken /\ [Next]_vars => NoLeftoverTaken'
    BY LeftoverStep
  <1>3. QED
    BY <1>1, <1>2, LedgerInvAlways, PTL DEF Spec

\* reserve_quota never over-grants: a grant goes to an active user and leaves
\* the day's requests in flight and completed within daily_quota.
THEOREM NoOvergrant == Spec => GrantWithinQuota
  <1>1. LedgerInv /\ [Next]_vars => [\A r \in Req : GrantsAllowed(r)]_vars
    <2> SUFFICES ASSUME LedgerInv, Next, NEW r \in Req,
                        phase[r] = "rpc", phase'[r] = "granted"
                 PROVE  GrantsAllowed(r)
      BY DEF GrantsAllowed
    <2>1. Reserve(r)
      <3>1. PICK q \in Req : Step(q)
        BY DEF Next, Midnight, UpdateUser
      <3>2. q = r
        BY <3>1, AfterConsumeType
           DEF Step, Begin, Reserve, Reject, Lookup, LookupFails, Consume,
               ConsumeFails, Respond, Release, ReleaseFails, Raise, Kill, Goto,
               LedgerInv, TypeOK
      <3>3. QED
        BY <3>1, <3>2, AfterConsumeType
           DEF Step, Begin, Reserve, Reject, Lookup, LookupFails, Consume,
               ConsumeFails, Respond, Release, ReleaseFails, Raise, Kill, Goto,
               LedgerInv, TypeOK, MayFail, InFlight
    <2> DEFINE u == user[r]  p == Pool(r)  d == day[r]
               A == WorkOn(u, p, d)  C == Charged(u, p, d)
    <2>2. u \in User /\ p \in Pools /\ d \in Nat /\ profile[u] \in Profiles
      BY PoolType DEF LedgerInv, TypeOK, Pool
    <2>3. profile[u].active /\ Cardinality(C) + 1 <= profile[u].daily
      BY <2>1 DEF Reserve, MayReserve, HasRoom
    <2>4. ASSUME NoStraddle(u, p)
          PROVE  Cardinality(WorkOn(u, p, d)') <= profile[u].daily
      <3>1. Cardinality(A) <= Cardinality(C)
        BY <2>2, <2>4 DEF LedgerInv, CoversEveryDay
      <3>2. /\ A \subseteq Req /\ C \subseteq Req
            /\ WorkOn(u, p, d)' \subseteq A \cup {r}
        BY <2>1 DEF Reserve, Goto, WorkOn, Work, Rows, Pool, Charged, LedgerInv, TypeOK
      <3>3. IsFiniteSet(A) /\ IsFiniteSet(C)
        BY <3>2, ReqAssumption, FS_Subset
      <3>4. /\ IsFiniteSet(A \cup {r})
            /\ Cardinality(A \cup {r}) \in {Cardinality(A), Cardinality(A) + 1}
        BY <3>3, FS_AddElement
      <3>5. /\ Cardinality(WorkOn(u, p, d)') <= Cardinality(A \cup {r})
            /\ IsFiniteSet(WorkOn(u, p, d)')
        BY <3>2, <3>4, FS_Subset
      <3>6. /\ Cardinality(A) \in Nat /\ Cardinality(C) \in Nat
            /\ Cardinality(WorkOn(u, p, d)') \in Nat /\ profile[u].daily \in Nat
        BY <2>2, <3>3, <3>5, FS_CardinalityType, BoundAssumption DEF Profiles
      <3>7. QED
        BY <2>3, <3>1, <3>4, <3>5, <3>6
    <2>5. WorkOn(user[r], Pool(r), day[r])' = WorkOn(u, p, d)'
      BY <2>1 DEF Reserve, Pool
    <2>6. QED
      BY <2>3, <2>4, <2>5 DEF GrantsAllowed
  <1>2. QED
    BY <1>1, LedgerInvAlways, PTL DEF Spec, GrantWithinQuota

-----------------------------------------------------------------------------
(* Clients that wait *)

\* One request of a user and pool is under way, and every request has its own
\* row, in the state its phase says.
SerialInv ==
    /\ \A q, r \in Req : /\ phase[q] \in InFlight \cup {"rpc"}
                         /\ phase[r] \in InFlight \cup {"rpc"}
                         /\ user[q] = user[r] /\ Pool(q) = Pool(r)
                         => q = r
    /\ \A r \in Req :
        \/ phase[r] \in {"idle", "rpc", "rejected"} /\ status[r] = "none" /\ held[r] = NoRow
        \/ phase[r] = "granted" /\ status[r] = "reserved" /\ held[r] = NoRow
        \/ phase[r] = "working" /\ status[r] = "reserved" /\ held[r] = r
        \/ phase[r] \in {"responding", "completed"} /\ status[r] = "consumed" /\ held[r] = r
        \/ phase[r] = "failed" /\ status[r] = "released"
        \/ phase[r] = "raised" /\ status[r] = "reserved"

\* The row of the request under way is the newest of its user and pool, so the
\* lookup does not find one that an exception left reserved.
Ahead(r) == \A q \in Rows(user[r], Pool(r)) : q # r => stamp[q] < stamp[r]
NewestInv ==
    /\ \A r \in Req : stamp[r] <= clock
    /\ \A r \in Req : phase[r] \in {"rpc", "granted"} => Ahead(r)

LEMMA SerialStep ==
  ASSUME TypeOK, SerialInv, NewestInv, SerialNext
  PROVE  SerialInv'
  <1> USE ReqAssumption DEF TypeOK, SerialInv, Pool, Goto, InFlight
  <1>1. ASSUME NEW r \in Req, Active(user[r], Pool(r)) = {}, Begin(r) PROVE SerialInv'
    <2>1. \A q \in Req : user[q] = user[r] /\ Pool(q) = Pool(r) => phase[q] \notin InFlight \cup {"rpc"}
      BY <1>1 DEF Active
    <2>2. QED
      BY <1>1, <2>1 DEF Begin
  <1>2. ASSUME NEW r \in Req, Reserve(r) PROVE SerialInv'
    BY <1>2 DEF Reserve
  <1>3. ASSUME NEW r \in Req, Reject(r) \/ Respond(r) PROVE SerialInv'
    BY <1>3 DEF Reject, Respond
  <1>4. ASSUME NEW r \in Req, Lookup(r) PROVE SerialInv'
    <2>1. phase[r] = "granted" /\ status[r] = "reserved"
      BY <1>4 DEF Lookup
    <2>2. r \in LookupRows(r)
      BY <2>1 DEF LookupRows, Rows
    <2>3. \A q \in LookupRows(r) : q \in Req /\ (q # r => stamp[q] < stamp[r])
      BY <2>1 DEF NewestInv, Ahead, LookupRows, Rows
    <2>4. \A h \in Found(r) : h = r
      BY <2>2, <2>3 DEF Found, Newest
    <2>5. held' = [held EXCEPT ![r] = r]
      BY <1>4, <2>4 DEF Lookup
    <2>6. QED
      BY <1>4, <2>1, <2>5 DEF Lookup
  <1>5. ASSUME NEW r \in Req, Consume(r) PROVE SerialInv'
    <2>1. phase[r] = "working" /\ held[r] = r
      BY <1>5 DEF Consume
    <2>2. AfterConsume(r, TRUE) \in {"responding", "completed"}
      BY <2>1 DEF AfterConsume
    <2>3. PICK ph \in {"responding", "completed"} : phase' = [phase EXCEPT ![r] = ph]
      BY <1>5, <2>2 DEF Consume
    <2>4. /\ status' = [status EXCEPT ![r] = "consumed"]
          /\ UNCHANGED <<user, kind, held>>
      BY <1>5, <2>1 DEF Consume, consume_quota
    <2>5. QED
      BY <2>1, <2>3, <2>4
  <1>6. ASSUME NEW r \in Req, Release(r) PROVE SerialInv'
    <2>1. phase[r] \in {"working", "responding"} /\ held[r] = r
      BY <1>6 DEF Release, MayFail
    <2>2. QED
      BY <1>6, <2>1 DEF Release, release_quota
  <1>7. ASSUME NEW r \in Req, Raise(r) PROVE SerialInv'
    BY <1>7 DEF Raise
  <1>8. CASE Midnight
    BY <1>8 DEF Midnight
  <1>9. QED
    BY <1>1, <1>2, <1>3, <1>4, <1>5, <1>6, <1>7, <1>8 DEF SerialNext, Settle

LEMMA NewestStep ==
  ASSUME TypeOK, SerialInv, NewestInv, SerialNext
  PROVE  NewestInv'
  <1> USE DEF TypeOK, NewestInv, Ahead, Rows, Pool, Goto
  <1>1. ASSUME NEW r \in Req, Active(user[r], Pool(r)) = {}, Begin(r) PROVE NewestInv'
    <2>1. \A q \in Req : user[q] = user[r] /\ Pool(q) = Pool(r) => phase[q] \notin {"rpc", "granted"}
      BY <1>1 DEF Active, InFlight
    <2>2. status[r] = "none"
      BY <1>1 DEF Begin, SerialInv, InFlight
    <2>3. /\ stamp' = [stamp EXCEPT ![r] = clock + 1] /\ clock' = clock + 1
          /\ phase' = [phase EXCEPT ![r] = "rpc"] /\ UNCHANGED <<user, kind, status>>
      BY <1>1 DEF Begin
    <2>4. QED
      BY <2>1, <2>2, <2>3
  <1>2. ASSUME NEW r \in Req, Reserve(r) PROVE NewestInv'
    <2>1. \A q \in Req : /\ phase[q] \in {"rpc", "granted"} /\ user[q] = user[r] /\ Pool(q) = Pool(r)
                         => q = r
      BY <1>2 DEF Reserve, SerialInv, InFlight
    <2>2. QED
      BY <1>2, <2>1 DEF Reserve
  <1>3. ASSUME NEW r \in Req, Reject(r) \/ Respond(r) \/ Raise(r) PROVE NewestInv'
    BY <1>3 DEF Reject, Respond, Raise
  <1>4. ASSUME NEW r \in Req, Lookup(r) PROVE NewestInv'
    BY <1>4 DEF Lookup
  <1>5. ASSUME NEW r \in Req, Consume(r) \/ Release(r) PROVE NewestInv'
    <2>1. held[r] # NoRow => held[r] \in Req /\ status[held[r]] # "none"
      BY <1>5, ReqAssumption DEF Consume, Release, MayFail, SerialInv
    <2>2. AfterConsume(r, TRUE) \in {"responding", "retry", "completed"}
      BY AfterConsumeType
    <2>3. \A q \in Req : status'[q] # "none" => status[q] # "none"
      BY <1>5, <2>1 DEF Consume, Release, consume_quota, release_quota
    <2>4. \A q \in Req : phase'[q] \in {"rpc", "granted"} => phase[q] \in {"rpc", "granted"}
      BY <1>5, <2>2 DEF Consume, Release
    <2>5. UNCHANGED <<user, kind, stamp, clock>>
      BY <1>5 DEF Consume, Release
    <2>6. QED
      BY <2>3, <2>4, <2>5
  <1>6. CASE Midnight
    BY <1>6 DEF Midnight
  <1>7. QED
    BY <1>1, <1>2, <1>3, <1>4, <1>5, <1>6 DEF SerialNext, Settle

ClientInv == TypeOK /\ (client = "serial" => SerialInv /\ NewestInv)

\* What a client that waits does is among what any client does.
LEMMA SerialIsNext == SerialNext => Next
  BY DEF SerialNext, Settle, Next, Step

LEMMA ClientInvHolds == ClientSpec => []ClientInv
  <1>1. ASSUME Init PROVE ClientInv
    BY <1>1 DEF Init, ClientInv, TypeOK, Phases, Statuses, SerialInv, NewestInv, InFlight
  <1>2. ASSUME ClientInv, [ClientNext]_<<vars, client>> PROVE ClientInv'
    <2>1. CASE UNCHANGED <<vars, client>>
      BY <1>2, <2>1 DEF ClientInv, TypeOK, SerialInv, NewestInv, Ahead, Rows, Pool, vars
    <2>2. CASE ClientNext
      <3>1. TypeOK'
        BY <1>2, <2>2, SerialIsNext, TypeStep DEF ClientNext, ClientInv
      <3>2. ASSUME client' = "serial" PROVE SerialInv' /\ NewestInv'
        BY <1>2, <2>2, <3>2, SerialStep, NewestStep DEF ClientNext, ClientInv
      <3>3. QED
        BY <3>1, <3>2 DEF ClientInv
    <2>3. QED
      BY <1>2, <2>1, <2>2
  <1>3. QED
    BY <1>1, <1>2, PTL DEF ClientSpec

\* A client that waits for its answers is charged, on every day, exactly what
\* completed and what raised out of its handler, although a route may still fail
\* after it has consumed its unit, an exception leaves a row reserved that later
\* lookups range over, and the row is found by a query without a date.
\* reserve_user_quota, consume_quota, release_quota.
THEOREM SerialIsExact == ClientSpec => []SerialExact
  <1>1. ASSUME ClientInv PROVE SerialExact
    <2> SUFFICES ASSUME client = "serial", NEW u \in User, NEW p \in Pools, NEW d \in 0..MaxDay,
                        Active(u, p) = {}
                 PROVE  Charged(u, p, d) = Ended(u, p, d, {"completed", "raised"})
      BY DEF SerialExact
    <2>1. SerialInv
      BY <1>1 DEF ClientInv
    <2>2. \A r \in Rows(u, p) : phase[r] \notin InFlight \cup {"rpc"}
      BY DEF Active, Rows
    <2>3. \A r \in Rows(u, p) : status[r] \in CountedStatuses <=> phase[r] \in {"completed", "raised"}
      BY <2>1, <2>2 DEF SerialInv, Rows, InFlight, CountedStatuses
    <2>4. QED
      BY <2>3 DEF Charged, Ended
  <1>2. QED
    BY <1>1, ClientInvHolds, PTL
=============================================================================
