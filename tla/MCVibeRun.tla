----------------------------- MODULE MCVibeRun -----------------------------
(* Instance of VibeRun for TLC: runs in which no process dies and no update *)
(* is lost, runs with every fault, and runs that stray.                     *)
EXTENDS VibeRun

VARIABLE mode  \* "calm", "faulty" or "stray"

\* A step of a calm run: no exception outside the try block, no process that
\* dies but by a stop command, and every update_run is stored.
CalmStep ==
    /\ pc' # "raised"
    /\ pc' = "killed" => pc = "killed" \/ stop
    /\ route = "failing" /\ route' # route => record' = "failed"
    /\ pc = "save" /\ pc' # "killed" /\ pc' # pc => record' = RecordAfter(outcome)
    /\ cancel = "mark" /\ cancel' = "done" => record' = "cancelled"

\* The runs that stray: calm ones, without tool calls and without a stream.
StraySteps == CalmStep /\ pc' # "tools" /\ pc2' # "tools" /\ stream' = "off"

MCInit == Init /\ mode \in {"calm", "faulty", "stray"}
Allowed(A) ==
    /\ A /\ UNCHANGED mode
    /\ stray' => mode = "stray"
    /\ mode = "calm" => CalmStep
    /\ mode = "stray" => StraySteps

\* A worker serves the queue, model and tool calls have timeouts, an API thread
\* that has begun to send, to take back, to cancel or to stream goes on, and RQ
\* delivers the stop command.
MCSpec ==
    /\ MCInit /\ [][Allowed(Next)]_<<vars, mode>>
    /\ WF_vars(Allowed(Sending \/ Worker(Work)))
    /\ WF_vars(Allowed(Second(Twin!Work)))
    /\ WF_vars(Allowed(Withdrawing))
    /\ WF_vars(Allowed(Worker(Kill) /\ stop))
    /\ WF_vars(Allowed(Cancelling))
    /\ WF_vars(Allowed(Streaming))

\* Where no process dies and no enqueue strays: every run comes to a terminal
\* status, cancelled or not; its reserved unit is settled unless it is cancelled;
\* and its SSE stream ends, but for a run recorded as completed_with_limit.
ComesToRest ==
    /\ mode = "calm" /\ record = "running" ~> record \in Outcomes \cup {"cancelled"}
    /\ mode = "calm" /\ ledger = "reserved" ~> ledger # "reserved" \/ cancel # "idle" \/ NotRepeated
    /\ mode = "calm" /\ stream = "polling" ~> stream = "closed" \/ record = "completed_with_limit"
=============================================================================
