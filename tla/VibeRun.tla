------------------------------ MODULE VibeRun ------------------------------
(***************************************************************************)
(* One run of the chat assistant.  POST .../messages reserves a unit,      *)
(* creates the run record and hands the run to an RQ worker, or to a       *)
(* thread of the API process when Redis is down (VibeWorker is what they   *)
(* do); an SSE stream reads its events.  DELETE /runs/<id> cancels at any  *)
(* time.                                                                   *)
(*                                                                         *)
(* An enqueue that reports failure may have been applied.  The run then    *)
(* "strays": the job stays queued while the route starts a thread for the  *)
(* same run (the twin), or fails the run and gives its unit back.          *)
(*                                                                         *)
(* The ledger side of a run that does not stray implements one "vibe"      *)
(* request of QuotaLedger (Ledger).                                        *)
(***************************************************************************)
EXTENDS VibeWorker, SequencesExt

CONSTANTS
    Run,           \* the run, and the ledger row it reserves
    Owner,         \* its user
    NoRow,         \* ledger_id None
    MaxEmptyPolls, \* max_empty_polls of the SSE loop
    PollLimit,     \* limit of one get_events call
    Cancels        \* may the user cancel?

ASSUME RunAssumption == Run # NoRow
ASSUME RunBounds ==
    /\ {MaxIterations, MaxEmptyPolls, PollLimit} \subseteq Nat \ {0}
    /\ MaxTools \in Nat /\ MaxFailures \in Nat /\ Cancels \in BOOLEAN
    /\ Faults \subseteq {"redis", "kill", "raise", "db"}

VARIABLES
    path,      \* "rq" or "thread"
    route,     \* where the route is that was told its enqueue failed
    pc2, iteration2, tools2, outcome2, billing2,  \* the twin: a thread
    cancel,    \* where the DELETE handler is
    stream,    \* where the SSE stream is
    seen,      \* seen_count
    empty      \* empty_polls

local == <<iteration, tools, outcome, billing, failures>>
store == <<ledger, record, answered, events>>
sending == <<path, route, stray>>
twin == <<pc2, iteration2, tools2, outcome2, billing2>>
canceller == <<token, cancel, stop>>
sse == <<stream, seen, empty>>
beside == <<sending, canceller, sse>>
vars == <<pc, local, store, twin, beside>>

Outcomes == Success \cup {"failed"}
Terminal == {"done", "error"}
Statuses == {"none", "reserved", "consumed", "released"}

EndsStream(i) == \E k \in DOMAIN events : k <= i /\ events[k] \in Terminal

\* A thread of the API process executes the run a second time.
Twin == INSTANCE VibeWorker WITH
    pc <- pc2, iteration <- iteration2, tools <- tools2, outcome <- outcome2,
    billing <- billing2, stop <- FALSE

-----------------------------------------------------------------------------
(* POST /sessions/<id>/messages *)

Init ==
    /\ pc = "idle" /\ path = "rq" /\ iteration = 0 /\ tools = 0
    /\ outcome = "completed" /\ billing = "open" /\ failures = 0
    /\ ledger = "none" /\ record = "none" /\ answered = FALSE /\ events = <<>>
    /\ route = "idle" /\ stray = FALSE
    /\ pc2 = "idle" /\ iteration2 = 0 /\ tools2 = 0
    /\ outcome2 = "completed" /\ billing2 = "open"
    /\ token = FALSE /\ cancel = "idle" /\ stop = FALSE
    /\ stream = "off" /\ seen = 0 /\ empty = 0

\* reserve_user_quota: begin, reserve, look the row up.
SendMessage ==
    /\ pc = "idle"
    /\ pc' = "rpc"
    /\ UNCHANGED <<local, store, twin, beside>>

Reserve ==
    /\ pc = "rpc"
    /\ pc' = "granted"
    /\ ledger' = "reserved"
    /\ UNCHANGED <<local, record, answered, events, twin, beside>>

Lookup ==
    /\ pc = "granted"
    /\ pc' = "sending"
    /\ UNCHANGED <<local, store, twin, beside>>

\* An exception after the RPC committed: 429 without a run.
LookupFails ==
    /\ pc = "granted"
    /\ failures < MaxFailures
    /\ failures' = failures + 1
    /\ pc' = "rejected"
    /\ UNCHANGED <<iteration, tools, outcome, billing, store, twin, beside>>

\* create_run and _enqueue_or_run_sync: a queued job, or a thread when Redis is
\* down.  Nobody else knows the run before.
Enqueue ==
    /\ pc = "sending"
    /\ path' \in {"rq"} \cup (IF "redis" \in Faults THEN {"thread"} ELSE {})
    /\ record' = "running"
    /\ pc' = "queued"
    /\ UNCHANGED <<local, ledger, answered, events, route, stray, twin, canceller, sse>>

\* Any other exception of the enqueue: _enqueue_or_run_sync returns False.
EnqueueFails ==
    /\ pc = "sending"
    /\ record' = "running"
    /\ pc' = "unsent" /\ route' = "failing"
    /\ UNCHANGED <<local, ledger, answered, events, path, stray, twin, canceller, sse>>

\* The job is queued and the reply lost: a connection error starts the thread as
\* well, any other exception (redis' TimeoutError is one) returns False.
EnqueueUnheard ==
    /\ pc = "sending"
    /\ "redis" \in Faults
    /\ record' = "running"
    /\ pc' = "queued" /\ path' = "rq" /\ stray' = TRUE
    /\ \/ pc2' = "queued" /\ UNCHANGED route
       \/ route' = "failing" /\ UNCHANGED pc2
    /\ UNCHANGED <<local, ledger, answered, events, iteration2, tools2, outcome2,
                   billing2, canceller, sse>>

\* "if not enqueued": the run failed,
FailRun ==
    /\ route = "failing"
    /\ Update("failed")
    /\ route' = "returning"
    /\ UNCHANGED <<pc, local, ledger, answered, events, path, stray, twin, canceller, sse>>

\* and its unit is released.
GiveBack ==
    /\ route = "returning"
    /\ ReleaseCall
    /\ billing' = IF stray THEN billing ELSE "released"
    /\ route' = "done"
    /\ UNCHANGED <<pc, iteration, tools, outcome, record, answered, events, path, stray,
                   twin, canceller, sse>>

\* The API process dies while it sends the run on, or takes it back.
RouteDies ==
    /\ "kill" \in Faults
    /\ pc = "sending" \/ route \in {"failing", "returning"}
    /\ pc' = IF stray THEN pc ELSE "killed"
    /\ route' = "done"
    /\ UNCHANGED <<local, store, path, stray, twin, canceller, sse>>

-----------------------------------------------------------------------------
(* run_vibe_agent: by the worker or the thread, and by the twin *)

Worker(A) == A /\ UNCHANGED <<twin, beside>>
Second(A) == stray /\ A /\ UNCHANGED <<pc, iteration, tools, outcome, billing, beside>>

-----------------------------------------------------------------------------
(* DELETE /runs/<id> *)

\* job.cancel() takes a queued job off the queue; the stop command reaches a
\* job that is being executed.
CancelJob ==
    /\ Cancels /\ cancel = "idle" /\ record # "none"
    /\ cancel' = "signal"
    /\ IF path = "rq" /\ pc = "queued"
       THEN pc' = "dropped" /\ UNCHANGED stop
       ELSE stop' = (path = "rq" /\ pc \in Working) /\ UNCHANGED pc
    /\ UNCHANGED <<local, store, sending, twin, token, sse>>

\* Redis is down, as when the run fell back to a thread: fetch_job raises and
\* the handler answers "cancelled" having done nothing.
CancelUnheard ==
    /\ Cancels /\ cancel = "idle" /\ record # "none"
    /\ "redis" \in Faults
    /\ cancel' = "done"
    /\ UNCHANGED <<pc, local, store, sending, twin, token, stop, sse>>

\* signal_cancel_run: the Redis key a worker polls, or the event of a thread,
\* when that thread belongs to the process that serves the request.  Of the two
\* executions of a strayed run it may reach one only.
Signal ==
    /\ cancel = "signal"
    /\ token' \in IF path = "thread" \/ stray THEN BOOLEAN ELSE {TRUE}
    /\ cancel' = "mark"
    /\ UNCHANGED <<pc, local, store, sending, twin, stop, sse>>

\* store.cancel_run, whatever the status is by now.
MarkCancelled ==
    /\ cancel = "mark"
    /\ Update("cancelled")
    /\ cancel' = "done"
    /\ UNCHANGED <<pc, local, ledger, answered, events, sending, twin, token, stop, sse>>

-----------------------------------------------------------------------------
(* The SSE stream *)

OpenStream ==
    /\ stream = "off" /\ record # "none"
    /\ stream' = "polling"
    /\ UNCHANGED <<pc, local, store, sending, twin, canceller, seen, empty>>

\* get_events from seen_count; the stream ends with a done or error event.
Upto == IF seen + PollLimit < Len(events) THEN seen + PollLimit ELSE Len(events)
Poll ==
    /\ stream = "polling"
    /\ seen' = Upto
    /\ stream' = IF Upto = seen THEN "checking"
                 ELSE IF EndsStream(Upto) THEN "closed" ELSE "polling"
    /\ UNCHANGED <<pc, local, store, sending, twin, canceller, empty>>

\* No new event: get_run.  Polls of a terminal run are counted, any other
\* status starts the count again.
Terminated == {"completed", "failed", "cancelled"}
CheckRun ==
    /\ stream = "checking"
    /\ empty' = IF record \in Terminated THEN empty + 1 ELSE 0
    /\ stream' = IF empty' < MaxEmptyPolls THEN "polling" ELSE "closed"
    /\ UNCHANGED <<pc, local, store, sending, twin, canceller, seen>>

-----------------------------------------------------------------------------

Sending == Reserve \/ Lookup \/ Enqueue \/ EnqueueFails \/ EnqueueUnheard
Withdrawing == FailRun \/ GiveBack
Progress == Sending \/ Withdrawing \/ Worker(Work) \/ Second(Twin!Work)
Streaming == Poll \/ CheckRun
Cancelling == Signal \/ MarkCancelled

Next ==
    \/ SendMessage \/ Progress \/ LookupFails \/ RouteDies
    \/ Worker(Raise \/ Kill) \/ Second(Twin!Raise \/ Twin!Kill)
    \/ CancelJob \/ CancelUnheard \/ Cancelling
    \/ OpenStream \/ Streaming

Spec == Init /\ [][Next]_vars

-----------------------------------------------------------------------------
(* Properties *)

\* "Mark quota consumed before emitting done so callers see consistent state."
DoneIsPaid == "done" \in Range(events) => ledger = "consumed"

\* The user pays for a run that says done and never for one that says error, and
\* a run that says done has stored its answer.  One ledger call that reports
\* failure does not break it (two do), but a run that was enqueued although the
\* enqueue reported failure may contradict itself: only its answer is sure.
BilledAsTold ==
    /\ ~stray => DoneIsPaid /\ ("error" \in Range(events) => ledger # "consumed")
    /\ "done" \in Range(events) => answered

\* A run that was not cancelled never leaves a terminal status, unless it was
\* enqueued although the enqueue reported failure; and whatever happened, a
\* success is recorded only with the answer stored.
RecordFinal ==
    [][/\ ~stray' /\ record \in Outcomes /\ record' # record => record' = "cancelled"
       /\ record' \in Success => answered]_vars

\* A consume is repeated when it reports failure, a failing lookup or release is
\* not.
NotRepeated == pc = "rejected" \/ (billing = "released" /\ failures > 0)

\* The phase of this request in QuotaLedger.
Phase ==
    IF pc \in {"idle", "rpc", "granted", "rejected"} THEN pc
    ELSE IF billing \in {"consumed", "unpaid"} THEN "completed"
    ELSE IF billing = "released" THEN "failed"
    ELSE IF pc = "raised" THEN "raised"
    ELSE IF pc \in {"killed", "dropped"} THEN "killed"
    ELSE IF billing = "retry" THEN "retry"
    ELSE "working"

Ledger == INSTANCE QuotaLedger WITH
    Req <- {Run}, User <- {Owner}, Kinds <- {"vibe"}, Quotas <- {1},
    RsiQuotas <- {1}, MaxDay <- 0, MaxInFlight <- 1,
    Faults <- {"rpc", "kill", "raise"},
    phase <- [r \in {Run} |-> Phase],
    user <- [r \in {Run} |-> Owner],
    kind <- [r \in {Run} |-> "vibe"],
    day <- [r \in {Run} |-> 0],
    stamp <- [r \in {Run} |-> IF pc = "idle" THEN 0 ELSE 1],
    status <- [r \in {Run} |-> ledger],
    held <- [r \in {Run} |->
                IF pc \in {"idle", "rpc", "granted", "rejected"} THEN NoRow ELSE Run],
    today <- 0,
    clock <- IF pc = "idle" THEN 0 ELSE 1,
    profile <- [u \in {Owner} |-> [active |-> TRUE, daily |-> 1, rsi |-> 1]],
    client <- "burst"

\* A chat run is a "vibe" request of the quota ledger: until it strays, whatever
\* it does to its row, with crashes, cancellations and failing calls, QuotaLedger
\* allows.
IsMeteredRequest ==
    Ledger!Init /\ [][stray' \/ Ledger!Next]_(Ledger!vars)
=============================================================================
