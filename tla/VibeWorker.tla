----------------------------- MODULE VibeWorker -----------------------------
(***************************************************************************)
(* run_vibe_agent and VibeOrchestrator.run: one execution of a chat run,   *)
(* by an RQ worker or by a thread of the API process.  It loops over model *)
(* calls and tool calls, settles the unit, stores the answer and the run's *)
(* status, and publishes events.  The row of the ledger, the record, the   *)
(* answer and the events are shared with the routes, and with a second     *)
(* execution of the same run when the run has strayed (VibeRun).           *)
(***************************************************************************)
EXTENDS Naturals, Sequences

CONSTANTS
    MaxIterations, \* VIBE_MAX_ITERATIONS
    MaxTools,      \* bound: tool calls of one response
    MaxFailures,   \* bound: ledger calls that report failure
    Faults         \* "redis", "kill", "raise", "db" of this instance

VARIABLES
    pc,        \* where the execution is
    iteration, \* completed iterations of the model loop
    tools,     \* tool calls left of the current response
    outcome,   \* the local status of VibeOrchestrator.run
    billing,   \* what the execution knows of its unit
    failures,  \* ledger calls that reported failure
    ledger,    \* status of the usage_ledger row
    record,    \* vibe_runs.status
    answered,  \* the assistant message is stored
    events,    \* types of the published events
    token,     \* the cancellation token it polls was set
    stop,      \* a stop command for its job is under way
    stray      \* the run was enqueued although the enqueue reported failure

Working == {"prepare", "opened", "loop", "calling", "tools", "executing",
            "settle", "answer", "save", "emit"}
Success == {"completed", "completed_with_limit"}

Publish(e) == events' = Append(events, e)

\* update_run: a failing update is logged and its caller goes on.
Update(status) ==
    record' \in {status} \cup (IF "db" \in Faults THEN {record} ELSE {})

\* is_set finds nothing when the cancellation did not come, or when the other
\* execution of the run has ended and deleted the key (unregister_run).
NotCancelled == ~token \/ stray

-----------------------------------------------------------------------------
\* Mutated forms of the definitions below; no specification uses them.
ConsumesOn_any(o) == TRUE

RecordAfter_successOnly(o) == IF o = "failed" THEN record ELSE o
AfterSettle_unanswered == "save"

Raise_releasing ==
    /\ "raise" \in Faults
    /\ pc \in {"prepare", "opened", "answer", "save", "emit"}
    /\ pc' = "raised"
    /\ ledger' = "released"
    /\ UNCHANGED <<iteration, tools, outcome, billing, failures, record, answered, events>>
-----------------------------------------------------------------------------

\* The worker pops the job, or the thread starts: register_run.
Start ==
    /\ pc = "queued"
    /\ pc' = "prepare"
    /\ UNCHANGED <<iteration, tools, outcome, billing, failures, ledger, record, answered, events>>

Open ==
    /\ pc = "prepare"
    /\ Publish("run_started")
    /\ pc' = "opened"
    /\ UNCHANGED <<iteration, tools, outcome, billing, failures, ledger,
                   record, answered>>

\* The session, the user's message and the history.
LoadContext ==
    /\ pc = "opened"
    /\ pc' = "loop"
    /\ UNCHANGED <<iteration, tools, outcome, billing, failures, ledger, record, answered, events>>

\* Top of the loop: out of iterations, or the next model call.
Iterate ==
    /\ pc = "loop" /\ (NotCancelled \/ iteration = MaxIterations)
    /\ IF iteration = MaxIterations
       THEN /\ outcome' = "completed_with_limit"
            /\ pc' = "settle"
       ELSE pc' = "calling" /\ UNCHANGED outcome
    /\ UNCHANGED <<iteration, tools, billing, failures, ledger, record, answered, events>>

\* A response with tool calls.
CallTools ==
    /\ pc = "calling"
    /\ \E n \in 1..MaxTools : tools' = n
    /\ pc' = "tools"
    /\ UNCHANGED <<iteration, outcome, billing, failures, ledger, record, answered, events>>

\* A final response: its content, if any, is streamed.
Answered ==
    /\ pc = "calling"
    /\ Publish("delta") \/ UNCHANGED events
    /\ pc' = "settle"
    /\ UNCHANGED <<iteration, tools, outcome, billing, failures, ledger,
                   record, answered>>

StartTool ==
    /\ pc = "tools" /\ NotCancelled
    /\ Publish("tool_call_start")
    /\ pc' = "executing"
    /\ UNCHANGED <<iteration, tools, outcome, billing, failures, ledger,
                   record, answered>>

EndTool ==
    /\ pc = "executing"
    /\ Publish("tool_call_end")
    /\ tools' = tools - 1
    /\ IF tools = 1
       THEN pc' = "loop" /\ iteration' = iteration + 1
       ELSE pc' = "tools" /\ UNCHANGED iteration
    /\ UNCHANGED <<outcome, billing, failures, ledger, record, answered>>

\* The except branch: the token is found set, the model or a tool failed, or
\* the job timed out.
Fail ==
    /\ \/ pc \in {"loop", "tools"} /\ token /\ iteration < MaxIterations
       \/ pc \in {"calling", "executing"}
    /\ outcome' = "failed"
    /\ Publish("error")
    /\ pc' = "settle"
    /\ UNCHANGED <<iteration, tools, billing, failures, ledger, record,
                   answered>>

\* consume_ledger_quota, with what the run makes of a failure.
ConsumeUnit(unpaid) ==
    \/ ledger' = "consumed" /\ billing' = "consumed" /\ UNCHANGED failures
    \/ /\ failures < MaxFailures
       /\ failures' = failures + 1
       /\ ledger' \in {ledger, "consumed"}
       /\ billing' = unpaid

\* release_ledger_quota: a call that reports failure may have been applied.
ReleaseCall ==
    \/ ledger' = "released" /\ UNCHANGED failures
    \/ /\ failures < MaxFailures
       /\ failures' = failures + 1
       /\ ledger' \in {ledger, "released"}
ReleaseUnit == ReleaseCall /\ billing' = "released"

\* Consume or release, by the status.
ConsumesOn(o) == o \in Success
AfterSettle == IF outcome = "failed" THEN "save" ELSE "answer"

Settle ==
    /\ pc = "settle"
    /\ IF ConsumesOn(outcome) THEN ConsumeUnit("retry") ELSE ReleaseUnit
    /\ pc' = AfterSettle
    /\ UNCHANGED <<iteration, tools, outcome, record, answered, events>>

\* The assistant message and its cards.
Answer ==
    /\ pc = "answer"
    /\ answered' = TRUE
    /\ Publish("card") \/ UNCHANGED events
    /\ pc' = "save"
    /\ UNCHANGED <<iteration, tools, outcome, billing, failures, ledger,
                   record>>

\* update_run and save_trace, then "if status == 'failed': return".
RecordAfter(o) == o
AfterSave(o) == IF o = "failed" THEN "ended" ELSE "emit"
Save ==
    /\ pc = "save"
    /\ Update(RecordAfter(outcome))
    /\ pc' = AfterSave(outcome)
    /\ UNCHANGED <<iteration, tools, outcome, billing, failures, ledger,
                   answered, events>>

\* The second consume_ledger_quota of a run whose first one reported failure.
SecondConsume ==
    IF billing = "retry" THEN ConsumeUnit("unpaid")
    ELSE UNCHANGED <<ledger, billing, failures>>

\* The done event; unregister_run.
Emit ==
    /\ pc = "emit"
    /\ SecondConsume
    /\ Publish("done")
    /\ pc' = "ended"
    /\ UNCHANGED <<iteration, tools, outcome, record, answered>>

\* An exception outside the try block: building the provider, loading the
\* context, storing the answer, the run or the trace.
Raise ==
    /\ "raise" \in Faults
    /\ pc \in {"prepare", "opened", "answer", "save", "emit"}
    /\ pc' = "raised"
    /\ UNCHANGED <<iteration, tools, outcome, billing, failures, ledger, record, answered, events>>

\* The work horse is stopped by the command of a cancellation, or the process
\* dies.
Kill ==
    /\ pc \in Working
    /\ stop \/ "kill" \in Faults
    /\ pc' = "killed"
    /\ UNCHANGED <<iteration, tools, outcome, billing, failures, ledger, record, answered, events>>

-----------------------------------------------------------------------------

Work ==
    \/ Start \/ Open \/ LoadContext \/ Iterate \/ CallTools \/ Answered
    \/ StartTool \/ EndTool \/ Fail \/ Settle \/ Answer \/ Save \/ Emit
=============================================================================
