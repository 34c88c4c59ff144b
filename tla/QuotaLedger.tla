---------------------------- MODULE QuotaLedger ----------------------------
(***************************************************************************)
(* The daily-quota ledger.  A metered request (POST /api/analyze, the      *)
(* /api/rsi-trend routes, a direct tool call, a chat run) reserves one     *)
(* unit by the SQL function reserve_quota, looks the inserted row up by a  *)
(* second query, does its work, and then consumes or releases the row it   *)
(* found.  The two queries are separate transactions, so requests of one   *)
(* user interleave between them.                                           *)
(*                                                                         *)
(* A request inserts at most one row, always of one unit: a row is named   *)
(* by the request that inserted it.  status[r] = "none" says r has no row. *)
(***************************************************************************)
EXTENDS Naturals, FiniteSets, TLC

CONSTANTS
    Req,          \* requests, and the ledger rows they insert
    User,         \* users
    NoRow,        \* ledger_id None
    Kinds,        \* the routes of this instance, among AllKinds
    Quotas,       \* values of profiles.daily_quota
    RsiQuotas,    \* values of profiles.rsi_daily_quota
    MaxDay,       \* bound: the last CURRENT_DATE of the model
    Faults,       \* the faults of this instance, among AllFaults
    MaxInFlight   \* bound: concurrent requests of one user and pool

AllKinds == {"analyze", "rsi", "tool", "vibe"}
AllFaults == {"rpc", "late", "kill", "raise", "midnight", "admin"}

ASSUME ReqAssumption == IsFiniteSet(Req) /\ NoRow \notin Req
ASSUME KindAssumption == Kinds \subseteq AllKinds /\ Faults \subseteq AllFaults
ASSUME BoundAssumption ==
    /\ Quotas \subseteq Nat /\ RsiQuotas \subseteq Nat
    /\ MaxDay \in Nat /\ MaxInFlight \in Nat

VARIABLES
    phase,    \* where each request's handler is
    user,     \* the authenticated user of a request
    kind,     \* its route
    day,      \* CURRENT_DATE of its reserve_quota transaction (usage_date)
    stamp,    \* NOW() of that transaction (created_at of its row)
    status,   \* usage_ledger.status of its row
    held,     \* ledger_id: the row its handler settles
    today,    \* the database's date
    clock,    \* the database's clock, one tick per transaction begun
    profile,  \* profiles: status = 'active', daily_quota, rsi_daily_quota
    client    \* "serial": users wait for every answer and no call fails; or "burst"

vars == <<phase, user, kind, day, stamp, status, held, today, clock, profile>>

Phases == {"idle", "rpc", "granted", "working", "retry", "responding",
           "completed", "failed", "raised", "rejected", "killed"}
Statuses == {"none", "reserved", "consumed", "released"}
Profiles == [active : BOOLEAN, daily : Quotas, rsi : RsiQuotas]

\* The pool argument of the four routes.
PoolOf(k) == IF k = "rsi" THEN "rsi_backtest" ELSE "default"
Pools == {"default", "rsi_backtest"}
Pool(r) == PoolOf(kind[r])

Rows(u, p) == {r \in Req : status[r] # "none" /\ user[r] = u /\ Pool(r) = p}

InFlight == {"granted", "working", "retry", "responding"}
Active(u, p) ==
    {r \in Req : phase[r] \in InFlight \cup {"rpc"} /\ user[r] = u /\ Pool(r) = p}

-----------------------------------------------------------------------------
\* Mutated forms of the definitions below; no specification uses them.
CountedStatuses_consumed == {"consumed"}

release_quota_all(r) ==
    status' = [q \in Req |->
        IF q \in Rows(user[r], Pool(r)) THEN "released" ELSE status[q]]
release_quota_noop(r) == UNCHANGED status

-----------------------------------------------------------------------------

CountedStatuses == {"reserved", "consumed"}
Charged(u, p, d) ==
    {r \in Rows(u, p) : day[r] = d /\ status[r] \in CountedStatuses}

\* reserve_quota reads profiles.daily_quota whatever the pool, and finds no
\* quota for a profile that is not active.
HasRoom(quota, used) == used + 1 <= quota
MayReserve(r) ==
    LET u == user[r] IN
    /\ profile[u].active
    /\ HasRoom(profile[u].daily, Cardinality(Charged(u, Pool(r), day[r])))

\* The rows the second query of reserve_user_quota ranges over, and the one
\* that "order by created_at desc limit 1" leaves.
LookupRows(r) == {q \in Rows(user[r], Pool(r)) : status[q] = "reserved"}
Newest(S) == {h \in S : \A q \in S : stamp[q] <= stamp[h]}
Found(r) == IF LookupRows(r) = {} THEN {NoRow} ELSE Newest(LookupRows(r))

\* consume_quota and release_quota: an UPDATE by id, whatever the row's status.
consume_quota(r) == status' = [status EXCEPT ![held[r]] = "consumed"]
release_quota(r) == status' = [status EXCEPT ![held[r]] = "released"]

Goto(r, ph) == phase' = [phase EXCEPT ![r] = ph]

Init ==
    /\ phase = [r \in Req |-> "idle"]
    /\ user \in [Req -> User]
    /\ kind \in [Req -> Kinds]
    /\ day = [r \in Req |-> 0]
    /\ stamp = [r \in Req |-> 0]
    /\ status = [r \in Req |-> "none"]
    /\ held = [r \in Req |-> NoRow]
    /\ today = 0
    /\ clock = 0
    /\ profile \in [User -> Profiles]

\* The client's request begins its reserve_quota transaction: NOW() and
\* CURRENT_DATE are fixed here, before the advisory lock is acquired.
Begin(r) ==
    /\ phase[r] = "idle"
    /\ Cardinality(Active(user[r], Pool(r))) < MaxInFlight
    /\ Goto(r, "rpc")
    /\ day' = [day EXCEPT ![r] = today]
    /\ clock' = clock + 1
    /\ stamp' = [stamp EXCEPT ![r] = clock + 1]
    /\ UNCHANGED <<user, kind, status, held, today, profile>>

\* reserve_quota under the user's advisory lock: count, then insert.
Reserve(r) ==
    /\ phase[r] = "rpc"
    /\ MayReserve(r)
    /\ Goto(r, "granted")
    /\ status' = [status EXCEPT ![r] = "reserved"]
    /\ UNCHANGED <<user, kind, day, stamp, held, today, clock, profile>>

\* reserve_quota returns reserved = false; every route answers 429.
Reject(r) ==
    /\ phase[r] = "rpc"
    /\ ~MayReserve(r)
    /\ Goto(r, "rejected")
    /\ UNCHANGED <<user, kind, day, stamp, status, held, today, clock, profile>>

\* The second query of reserve_user_quota.
Lookup(r) ==
    /\ phase[r] = "granted"
    /\ \E h \in Found(r) : held' = [held EXCEPT ![r] = h]
    /\ Goto(r, "working")
    /\ UNCHANGED <<user, kind, day, stamp, status, today, clock, profile>>

\* An exception after the RPC has committed (its answer lost, or the second
\* query failing): reserve_user_quota returns (False, 0, None), answer 429.
LookupFails(r) ==
    /\ "rpc" \in Faults
    /\ phase[r] = "granted"
    /\ Goto(r, "rejected")
    /\ UNCHANGED <<user, kind, day, stamp, status, held, today, clock, profile>>

\* What a route does after consume_ledger_quota: analyze still builds its
\* answer inside the try block, a chat run whose consume failed asks again.
AfterConsume(r, ok) ==
    IF kind[r] = "analyze" THEN "responding"
    ELSE IF kind[r] = "vibe" /\ ~ok /\ phase[r] = "working" THEN "retry"
    ELSE "completed"

\* The work succeeded; "if ledger_id: consume_ledger_quota(ledger_id)".
Consume(r) ==
    /\ phase[r] \in {"working", "retry"}
    /\ IF held[r] = NoRow THEN UNCHANGED status ELSE consume_quota(r)
    /\ Goto(r, AfterConsume(r, TRUE))
    /\ UNCHANGED <<user, kind, day, stamp, held, today, clock, profile>>

\* consume_ledger_quota returns False: the update failed, or it was applied
\* and its answer lost.
ConsumeFails(r) ==
    /\ "rpc" \in Faults
    /\ phase[r] \in {"working", "retry"}
    /\ held[r] # NoRow
    /\ UNCHANGED status \/ consume_quota(r)
    /\ Goto(r, AfterConsume(r, FALSE))
    /\ UNCHANGED <<user, kind, day, stamp, held, today, clock, profile>>

Respond(r) ==
    /\ phase[r] = "responding"
    /\ Goto(r, "completed")
    /\ UNCHANGED <<user, kind, day, stamp, status, held, today, clock, profile>>

\* The work failed (or, for analyze, a statement after the consume raised
\* inside the same try block); "if ledger_id: release_ledger_quota(ledger_id)".
MayFail(r) ==
    phase[r] = "working" \/ (phase[r] = "responding" /\ "late" \in Faults)

Release(r) ==
    /\ MayFail(r)
    /\ IF held[r] = NoRow THEN UNCHANGED status ELSE release_quota(r)
    /\ Goto(r, "failed")
    /\ UNCHANGED <<user, kind, day, stamp, held, today, clock, profile>>

\* release_ledger_quota returns False, applied or not, and nobody retries.
ReleaseFails(r) ==
    /\ "rpc" \in Faults
    /\ MayFail(r)
    /\ held[r] # NoRow
    /\ UNCHANGED status \/ release_quota(r)
    /\ Goto(r, "failed")
    /\ UNCHANGED <<user, kind, day, stamp, held, today, clock, profile>>

\* An exception no handler of the route settles: ToolOutput.error(...) raises
\* TypeError out of the registry in invoke_tool, and a chat run may raise
\* before its try block or after it.
Raise(r) ==
    /\ "raise" \in Faults
    /\ kind[r] \in {"tool", "vibe"}
    /\ phase[r] \in {"working", "retry"}
    /\ Goto(r, "raised")
    /\ UNCHANGED <<user, kind, day, stamp, status, held, today, clock, profile>>

\* The process of a request in flight dies (restart, RQ stop command).
Kill(r) ==
    /\ "kill" \in Faults
    /\ phase[r] \in InFlight
    /\ Goto(r, "killed")
    /\ UNCHANGED <<user, kind, day, stamp, status, held, today, clock, profile>>

Midnight ==
    /\ "midnight" \in Faults
    /\ today < MaxDay
    /\ today' = today + 1
    /\ UNCHANGED <<phase, user, kind, day, stamp, status, held, clock, profile>>

\* update_user: an admin changes a profile.
UpdateUser(u) ==
    /\ "admin" \in Faults
    /\ \E pr \in Profiles : profile' = [profile EXCEPT ![u] = pr]
    /\ UNCHANGED <<phase, user, kind, day, stamp, status, held, today, clock>>

Settle(r) == Consume(r) \/ Respond(r) \/ Release(r)

Step(r) ==
    \/ Begin(r) \/ Reserve(r) \/ Reject(r) \/ Lookup(r) \/ LookupFails(r)
    \/ Consume(r) \/ ConsumeFails(r) \/ Respond(r)
    \/ Release(r) \/ ReleaseFails(r) \/ Raise(r) \/ Kill(r)

Next ==
    \/ \E r \in Req : Step(r)
    \/ Midnight
    \/ \E u \in User : UpdateUser(u)

Spec == Init /\ [][Next]_vars

\* What a client that waits does when the database answers: the routes'
\* exceptions, late ones and unhandled ones too, and midnight are left.
SerialNext ==
    \/ \E r \in Req :
        \/ Active(user[r], Pool(r)) = {} /\ Begin(r)
        \/ Reserve(r) \/ Reject(r) \/ Lookup(r) \/ Settle(r) \/ Raise(r)
    \/ Midnight

ClientNext ==
    /\ IF client = "serial" THEN SerialNext ELSE Next
    /\ UNCHANGED client

ClientSpec == /\ Init /\ client \in {"burst", "serial"}
              /\ [][ClientNext]_<<vars, client>>

-----------------------------------------------------------------------------
(* Properties *)

TypeOK ==
    /\ phase \in [Req -> Phases]
    /\ user \in [Req -> User]
    /\ kind \in [Req -> Kinds]
    /\ day \in [Req -> Nat]
    /\ stamp \in [Req -> Nat]
    /\ status \in [Req -> Statuses]
    /\ held \in [Req -> Req \cup {NoRow}]
    /\ today \in Nat
    /\ clock \in Nat
    /\ profile \in [User -> Profiles]

\* A handler never settles a row of another user or of another quota pool,
\* however the two queries of reserve_user_quota interleave.
RowsIsolated ==
    \A r \in Req : held[r] # NoRow =>
        held[r] \in Rows(user[r], Pool(r))

\* A granted request always finds a row to settle: the second query of
\* reserve_user_quota never comes back empty, although concurrent requests
\* may have settled the row this one inserted.  (With ledger_id None the
\* routes would skip the settlement in silence.)
GrantFindsRow ==
    \A r \in Req : phase[r] = "granted" => LookupRows(r) # {}

\* The requests that got a unit and have kept it: in flight or completed.
Work(u, p) ==
    {r \in Rows(u, p) : phase[r] \in InFlight \cup {"completed"}}
WorkOn(u, p, d) == {r \in Work(u, p) : day[r] = d}
ChargedEver(u, p) == {r \in Rows(u, p) : status[r] \in CountedStatuses}

\* The ledger never undercounts: over all days the units charged to a user
\* and pool cover the requests in flight and completed, although requests
\* settle each other's rows, in any order, with failures and crashes.
LedgerCoversWork ==
    \A u \in User, p \in Pools :
        Cardinality(Work(u, p)) <= Cardinality(ChargedEver(u, p))

\* No handler settles a row of another day than its own.
NoStraddle(u, p) ==
    \A r \in Req : held[r] # NoRow /\ user[r] = u /\ Pool(r) = p =>
        day[held[r]] = day[r]

\* The same, day by day, as long as no handler settles a row across midnight.
LedgerCoversDay ==
    \A u \in User, p \in Pools, d \in 0..MaxDay : NoStraddle(u, p) =>
        Cardinality(WorkOn(u, p, d)) <= Cardinality(Charged(u, p, d))

\* A grant never lets the requests in flight and completed on a day exceed
\* the quota the user has at that moment, and never goes to a suspended user.
GrantsAllowed(r) ==
    phase[r] = "rpc" /\ phase'[r] = "granted" =>
        LET u == user[r] IN
        /\ profile[u].active
        /\ NoStraddle(u, Pool(r)) =>
            Cardinality(WorkOn(u, Pool(r), day[r]))' <= profile[u].daily
GrantWithinQuota == [][\A r \in Req : GrantsAllowed(r)]_vars

\* A row left reserved by a failed call or a crash is never taken for the row
\* of a later request: a handler settles its own row or a newer one, unless a
\* concurrent request has settled its own already.
NoLeftoverTaken ==
    \A r \in Req : held[r] # NoRow =>
        stamp[r] <= stamp[held[r]] \/ status[r] \in {"consumed", "released"}

\* Reserved and consumed units of a day stay within daily_quota ("to prevent
\* overshoot under bursty concurrency"), while no admin changes the quota.
ChargedWithinQuota ==
    \A u \in User, p \in Pools, d \in 0..MaxDay :
        Cardinality(Charged(u, p, d)) <= profile[u].daily

\* When a user has no request under way, the day's charge is exactly the
\* requests that completed and those whose handler raised: every failure a route
\* handles is given back in full, also one after the consume, and what stays
\* charged besides is only the unit an unhandled exception left reserved, which no
\* later request settles in the place of its own.
Ended(u, p, d, phases) == {r \in Rows(u, p) : day[r] = d /\ phase[r] \in phases}
SerialExact ==
    client = "serial" =>
        \A u \in User, p \in Pools, d \in 0..MaxDay : Active(u, p) = {} =>
            Charged(u, p, d) = Ended(u, p, d, {"completed", "raised"})

-----------------------------------------------------------------------------
(* The instances: concurrent requests with every fault, and beside them    *)
(* clients that wait for each answer while nothing fails.                  *)

\* Bursts leave out the tools and have one analysis at most.
MCInit ==
    /\ Init
    /\ client \in {"burst", "serial"}
    /\ client = "burst" =>
        /\ \A r \in Req : kind[r] # "tool"
        /\ Cardinality({r \in Req : kind[r] = "analyze"}) <= 1
MCSpec == MCInit /\ [][ClientNext]_<<vars, client>>

\* Requests are interchangeable.
Symmetry == Permutations(Req) \cup Permutations(User)
=============================================================================
