--------------------------- MODULE VibeRunProofs ---------------------------
(***************************************************************************)
(* Proofs about VibeRun for every number of iterations, tool calls, polls  *)
(* and failing ledger calls, and every set of faults: what a run says of   *)
(* its unit, how its record may change, and that it is a request of the    *)
(* quota ledger.                                                           *)
(***************************************************************************)
EXTENDS VibeRun, FiniteSetTheorems, TLAPS

-----------------------------------------------------------------------------
(* The inductive invariant *)

Unsent == {"idle", "rpc", "granted", "rejected", "sending"}
Unsettled == {"queued", "prepare", "opened", "loop", "calling", "tools",
              "executing", "settle"}
Unsaved == Unsettled \cup {"answer", "save", "dropped"}
Stopped == {"unsent", "ended", "raised", "killed", "dropped"}
EventTypes == {"run_started", "delta", "tool_call_start", "tool_call_end",
               "card", "error", "done"}

\* The values of the variables the billing and the record depend on.
RunTypes ==
    /\ pc \in Unsent \cup Unsaved \cup Stopped \cup {"emit"}
    /\ outcome \in Outcomes
    /\ billing \in {"open", "released", "consumed", "retry", "unpaid"}
    /\ failures \in Nat
    /\ ledger \in Statuses
    /\ record \in {"none", "running", "cancelled"} \cup Outcomes
    /\ events \in Seq(EventTypes)

\* What the run knows of its unit is never better than the row itself, and
\* each step of the run goes with one state of the billing.
BillingInv ==
    /\ pc \in {"idle", "rpc"} => ledger = "none"
    /\ pc \in (Unsent \ {"idle", "rpc"}) \cup Unsettled \cup {"dropped"} =>
         ledger = "reserved"
    /\ pc \in Unsent \cup Unsettled \cup {"dropped"} => billing = "open"
    /\ pc \in {"answer", "emit"} => outcome # "failed"
    /\ pc \in {"answer", "save", "emit"} =>
         billing \in IF outcome = "failed" THEN {"released"} ELSE {"consumed", "retry"}
    /\ pc = "ended" => billing \in {"released", "consumed", "unpaid"}
    /\ pc = "unsent" =>
         IF route = "done" THEN billing = "released"
         ELSE billing = "open" /\ ledger = "reserved"
    /\ route \in {"failing", "returning"} => pc = "unsent"
    /\ billing \in {"open", "retry"} => ledger # "released"
    /\ billing = "consumed" => ledger = "consumed"
    /\ billing \in {"open", "released"} => ledger # "consumed"
    /\ billing \in {"retry", "unpaid"} => failures >= 1 /\ ledger # "none"
    /\ billing = "unpaid" => failures >= 2
    /\ billing = "released" => ledger # "none"

\* What the events tell, and which answers they stand for.
EventInv ==
    /\ "error" \in Range(events) =>
         /\ outcome = "failed" /\ billing \in {"open", "released"}
         /\ pc \in {"settle", "save"} \cup Stopped
    /\ "done" \in Range(events) =>
         /\ pc = "ended"
         /\ billing \in {"consumed", "unpaid"}
    /\ pc \in Unsent \cup (Unsettled \ {"settle"}) => outcome = "completed"
    /\ outcome = "failed" => billing \in {"open", "released"}
\* Nobody but a cancellation touches the record between Enqueue and Save.
RecordInv ==
    /\ pc \in Unsent => record = "none" /\ cancel = "idle"
    /\ cancel # "idle" => record # "none"
    /\ pc \in Unsaved \/ route = "failing" => record \in {"running", "cancelled"}

\* A run that has not strayed.
SoundInv == RunTypes /\ BillingInv /\ EventInv /\ RecordInv

\* What holds of a strayed run too, of both its executions: no success is
\* recorded and no done published before an answer is stored.
Answers(p, o) ==
    /\ p = "emit" => o # "failed"
    /\ p \in {"save", "emit"} /\ o # "failed" => answered
AnswerInv ==
    /\ events \in Seq(EventTypes)
    /\ Answers(pc, outcome) /\ Answers(pc2, outcome2)
    /\ "done" \in Range(events) => answered
    /\ record \in Success => answered

RunInv == (~stray => SoundInv) /\ AnswerInv
-----------------------------------------------------------------------------
(* Lemmas on the published events *)

LEMMA RangeAppend ==
  ASSUME NEW S, NEW s \in Seq(S), NEW e \in S
  PROVE  /\ Append(s, e) \in Seq(S)
         /\ Range(Append(s, e)) = Range(s) \cup {e}
  <1>1. /\ Append(s, e) \in Seq(S)
        /\ DOMAIN s = 1..Len(s) /\ DOMAIN Append(s, e) = 1..(Len(s) + 1) /\ Len(s) \in Nat
        /\ \A i \in 1..Len(s) : Append(s, e)[i] = s[i]
        /\ Append(s, e)[Len(s) + 1] = e
    OBVIOUS
  <1>2. Range(Append(s, e)) \subseteq Range(s) \cup {e}
    BY <1>1 DEF Range
  <1>3. \A i \in DOMAIN s : i \in DOMAIN Append(s, e) /\ Append(s, e)[i] = s[i]
    BY <1>1
  <1>4. Range(s) \subseteq Range(Append(s, e))
    BY <1>3 DEF Range
  <1>5. e \in Range(Append(s, e))
    <2>1. Len(s) + 1 \in DOMAIN Append(s, e)
      BY <1>1
    <2> QED BY <1>1, <2>1 DEF Range
  <1> QED BY <1>1, <1>2, <1>4, <1>5

\* A step that publishes e, or nothing.
LEMMA Published ==
  ASSUME NEW e \in EventTypes, events \in Seq(EventTypes),
         Publish(e) \/ UNCHANGED events
  PROVE  /\ events' \in Seq(EventTypes)
         /\ Range(events)' \subseteq Range(events) \cup {e}
         /\ Range(events) \subseteq Range(events)'
  BY RangeAppend DEF Publish, Range

-----------------------------------------------------------------------------
(* The steps of a run keep the invariant *)

LEMMA RunInvInit == Init => RunInv
  <1> SUFFICES ASSUME Init PROVE RunInv
    OBVIOUS
  <1> USE DEF Init
  <1>1. events \in Seq(EventTypes) /\ Range(events) = {}
    BY DEF Range
  <1>2. RunTypes
    BY <1>1 DEF RunTypes, Unsent, Outcomes, Success, Statuses
  <1>3. BillingInv /\ RecordInv
    BY DEF BillingInv, RecordInv, Unsent, Unsettled, Unsaved, Success
  <1>4. EventInv
    BY <1>1 DEF EventInv
  <1>5. AnswerInv
    BY <1>1 DEF AnswerInv, Answers, Success
  <1> QED BY <1>2, <1>3, <1>4, <1>5 DEF RunInv, SoundInv

\* The worker's steps, in a run that has not strayed.
LEMMA SoundWork ==
  ASSUME SoundInv, Worker(Work \/ Raise \/ Kill) PROVE SoundInv'
  <1> USE DEF SoundInv, RunTypes, BillingInv, EventInv, RecordInv, Unsent, Unsettled,
              Unsaved, Stopped, Outcomes, Success, Statuses
  <1>0. UNCHANGED <<route, cancel>>
    BY DEF Worker, beside, sending, canceller
  <1>1. CASE Start \/ LoadContext \/ Iterate \/ CallTools
    BY <1>0, <1>1 DEF Start, LoadContext, Iterate, CallTools
  <1>2. CASE Open
    BY <1>0, <1>2, Published DEF Open, EventTypes
  <1>3. CASE Answered
    BY <1>0, <1>3, Published DEF Answered, EventTypes
  <1>4. CASE StartTool
    BY <1>0, <1>4, Published DEF StartTool, EventTypes
  <1>5. CASE EndTool
    BY <1>0, <1>5, Published DEF EndTool, EventTypes
  <1>6. CASE Fail
    BY <1>0, <1>6, Published DEF Fail, EventTypes
  <1>7. CASE Settle
    <2>1. CASE ConsumesOn(outcome)
      BY <1>0, <1>7, <2>1 DEF Settle, ConsumesOn, ConsumeUnit, AfterSettle
    <2>2. CASE ~ConsumesOn(outcome)
      BY <1>0, <1>7, <2>2 DEF Settle, ConsumesOn, ReleaseUnit, ReleaseCall, AfterSettle
    <2> QED BY <2>1, <2>2
  <1>8. CASE Answer
    BY <1>0, <1>8, Published DEF Answer, EventTypes
  <1>9. CASE Save
    BY <1>0, <1>9 DEF Save, Update, RecordAfter, AfterSave
  <1>10. CASE Emit
    <2>1. /\ events' \in Seq(EventTypes)
          /\ Range(events)' \subseteq Range(events) \cup {"done"}
      BY <1>10, Published DEF Emit, EventTypes
    <2>2. CASE billing = "retry"
      BY <1>0, <1>10, <2>1, <2>2 DEF Emit, SecondConsume, ConsumeUnit
    <2>3. CASE billing # "retry"
      BY <1>0, <1>10, <2>1, <2>3 DEF Emit, SecondConsume
    <2> QED BY <2>2, <2>3
  <1>11. CASE Raise \/ Kill
    BY <1>0, <1>11 DEF Raise, Kill, Working
  <1> QED
    BY <1>1, <1>2, <1>3, <1>4, <1>5, <1>6, <1>7, <1>8, <1>9, <1>10, <1>11
       DEF Work, Worker

\* The steps of the routes and of the stream, as long as the run does not stray.
LEMMA SoundRoutes ==
  ASSUME SoundInv, ~stray',
         \/ SendMessage \/ Sending \/ Withdrawing \/ LookupFails \/ RouteDies
         \/ CancelJob \/ CancelUnheard \/ Cancelling \/ OpenStream \/ Streaming
  PROVE  SoundInv'
  <1> USE DEF SoundInv, RunTypes, BillingInv, EventInv, RecordInv, Unsent, Unsettled,
              Unsaved, Stopped, Outcomes, Success, Statuses
  <1> USE DEF local, store, beside, sending, canceller, sse
  <1>1. CASE SendMessage \/ Reserve \/ Lookup \/ LookupFails
    BY <1>1 DEF SendMessage, Reserve, Lookup, LookupFails
  <1>2. CASE Enqueue \/ EnqueueFails
    BY <1>2 DEF Enqueue, EnqueueFails
  <1>3. CASE EnqueueUnheard
    BY <1>3 DEF EnqueueUnheard
  <1>4. CASE FailRun
    BY <1>4 DEF FailRun, Update
  <1>5. CASE GiveBack
    BY <1>5 DEF GiveBack, ReleaseCall
  <1>6. CASE RouteDies
    BY <1>6 DEF RouteDies
  <1>7. CASE CancelJob
    <2>1. pc' \in {pc, "dropped"} /\ (pc' # pc => pc = "queued")
      BY <1>7 DEF CancelJob
    <2>2. /\ UNCHANGED <<outcome, billing, failures, ledger, record, events, route>>
          /\ record # "none"
      BY <1>7 DEF CancelJob
    <2>3. CASE pc' = pc
      BY <2>2, <2>3
    <2>4. CASE pc' = "dropped" /\ pc = "queued"
      BY <2>2, <2>4
    <2> HIDE DEF SoundInv
    <2> QED BY <2>1, <2>3, <2>4
  <1>8. CASE CancelUnheard \/ Signal
    <2>1. /\ UNCHANGED <<pc, outcome, billing, failures, ledger, record, events, route>>
          /\ cancel' # "idle" => record # "none"
      BY <1>8 DEF CancelUnheard, Signal
    <2> QED BY <2>1
  <1>9. CASE MarkCancelled
    BY <1>9 DEF MarkCancelled, Update
  <1>10. CASE OpenStream \/ Poll \/ CheckRun
    BY <1>10 DEF OpenStream, Poll, CheckRun
  <1> QED
    BY <1>1, <1>2, <1>3, <1>4, <1>5, <1>6, <1>7, <1>8, <1>9, <1>10
       DEF Sending, Withdrawing, Cancelling, Streaming

\* What a step of one of the executions does to the answer, the record and the
\* events.
LEMMA AnswerWork ==
  ASSUME AnswerInv, Work \/ Raise \/ Kill
  PROVE  /\ events' \in Seq(EventTypes) /\ Answers(pc, outcome)'
         /\ answered => answered'
         /\ "done" \in Range(events') => answered'
         /\ record' \in Success => answered
  <1> USE DEF AnswerInv, Answers, Success
  <1>1. CASE Start \/ LoadContext \/ Iterate \/ CallTools \/ Raise \/ Kill
    BY <1>1 DEF Start, LoadContext, Iterate, CallTools, Raise, Kill, Working
  <1>2. CASE Settle
    BY <1>2 DEF Settle, AfterSettle
  <1>3. CASE Open
    BY <1>3, Published DEF Open, EventTypes
  <1>4. CASE Answered
    BY <1>4, Published DEF Answered, EventTypes
  <1>5. CASE StartTool \/ EndTool
    BY <1>5, Published DEF StartTool, EndTool, EventTypes
  <1>6. CASE Fail
    BY <1>6, Published DEF Fail, EventTypes
  <1>7. CASE Answer
    BY <1>7, Published DEF Answer, EventTypes
  <1>8. CASE Save
    BY <1>8 DEF Save, Update, RecordAfter, AfterSave
  <1>9. CASE Emit
    BY <1>9, Published DEF Emit, EventTypes
  <1> QED BY <1>1, <1>2, <1>3, <1>4, <1>5, <1>6, <1>7, <1>8, <1>9 DEF Work

LEMMA AnswerTwin ==
  ASSUME AnswerInv, Twin!Work \/ Twin!Raise \/ Twin!Kill
  PROVE  /\ events' \in Seq(EventTypes) /\ Answers(pc2, outcome2)'
         /\ answered => answered'
         /\ "done" \in Range(events') => answered'
         /\ record' \in Success => answered
  <1> USE DEF AnswerInv, Answers, Success, Twin!Success
  <1>0. \A e : Twin!Publish(e) <=> Publish(e)
    BY DEF Twin!Publish, Publish
  <1>1. CASE \/ Twin!Start \/ Twin!LoadContext \/ Twin!Iterate \/ Twin!CallTools
             \/ Twin!Raise \/ Twin!Kill
    BY <1>1 DEF Twin!Start, Twin!LoadContext, Twin!Iterate, Twin!CallTools,
                Twin!Raise, Twin!Kill, Twin!Working
  <1>2. CASE Twin!Settle
    BY <1>2 DEF Twin!Settle, Twin!AfterSettle
  <1>3. CASE Twin!Open
    BY <1>0, <1>3, Published DEF Twin!Open, EventTypes
  <1>4. CASE Twin!Answered
    BY <1>0, <1>4, Published DEF Twin!Answered, EventTypes
  <1>5. CASE Twin!StartTool \/ Twin!EndTool
    BY <1>0, <1>5, Published DEF Twin!StartTool, Twin!EndTool, EventTypes
  <1>6. CASE Twin!Fail
    BY <1>0, <1>6, Published DEF Twin!Fail, EventTypes
  <1>7. CASE Twin!Answer
    BY <1>0, <1>7, Published DEF Twin!Answer, EventTypes
  <1>8. CASE Twin!Save
    BY <1>8 DEF Twin!Save, Twin!Update, Twin!RecordAfter, Twin!AfterSave
  <1>9. CASE Twin!Emit
    BY <1>0, <1>9, Published DEF Twin!Emit, EventTypes
  <1> QED BY <1>1, <1>2, <1>3, <1>4, <1>5, <1>6, <1>7, <1>8, <1>9 DEF Twin!Work

LEMMA AnswerRoutes ==
  ASSUME AnswerInv,
         \/ SendMessage \/ Sending \/ Withdrawing \/ LookupFails \/ RouteDies
         \/ CancelJob \/ CancelUnheard \/ Cancelling \/ OpenStream \/ Streaming
  PROVE  AnswerInv' /\ (record' \in Success => answered)
  <1> USE DEF AnswerInv, Answers, Success, local, store, twin, beside
  <1>1. CASE SendMessage \/ Reserve \/ Lookup \/ LookupFails \/ RouteDies
    BY <1>1 DEF SendMessage, Reserve, Lookup, LookupFails, RouteDies
  <1>2. CASE Enqueue \/ EnqueueFails \/ EnqueueUnheard
    BY <1>2 DEF Enqueue, EnqueueFails, EnqueueUnheard
  <1>3. CASE FailRun \/ MarkCancelled
    BY <1>3 DEF FailRun, MarkCancelled, Update
  <1>4. CASE GiveBack
    BY <1>4 DEF GiveBack
  <1>5. CASE CancelJob
    BY <1>5 DEF CancelJob
  <1>6. CASE CancelUnheard \/ Signal \/ OpenStream \/ Poll \/ CheckRun
    BY <1>6 DEF CancelUnheard, Signal, OpenStream, Poll, CheckRun
  <1> QED
    BY <1>1, <1>2, <1>3, <1>4, <1>5, <1>6
       DEF Sending, Withdrawing, Cancelling, Streaming

LEMMA StrayStays == [Next]_vars /\ stray => stray'
  BY DEF Next, Progress, Sending, Withdrawing, Worker, Second, Streaming, Cancelling,
     SendMessage, Reserve, Lookup, LookupFails, Enqueue, EnqueueFails, EnqueueUnheard,
     FailRun, GiveBack, RouteDies, CancelJob, CancelUnheard, Signal, MarkCancelled,
     OpenStream, Poll, CheckRun, vars, beside, sending

\* The cases of a step.
LEMMA StepCases ==
  ASSUME [Next]_vars
  PROVE  \/ Worker(Work \/ Raise \/ Kill)
         \/ Second(Twin!Work \/ Twin!Raise \/ Twin!Kill)
         \/ \/ SendMessage \/ Sending \/ Withdrawing \/ LookupFails \/ RouteDies
            \/ CancelJob \/ CancelUnheard \/ Cancelling \/ OpenStream \/ Streaming
         \/ UNCHANGED vars
  BY DEF Next, Progress, Worker, Second

LEMMA RunInvStep ==
  RunInv /\ [Next]_vars => RunInv' /\ (record' \in Success => answered)
  <1> SUFFICES ASSUME RunInv, [Next]_vars
               PROVE  RunInv' /\ (record' \in Success => answered)
    OBVIOUS
  <1>0. AnswerInv /\ (~stray' => SoundInv)
    BY StrayStays DEF RunInv
  <1>1. CASE Worker(Work \/ Raise \/ Kill)
    <2>1. UNCHANGED <<pc2, outcome2>>
      BY <1>1 DEF Worker, twin
    <2>2. AnswerInv' /\ (record' \in Success => answered)
      <3>1. Work \/ Raise \/ Kill
        BY <1>1 DEF Worker
      <3> QED BY <1>0, <2>1, <3>1, AnswerWork DEF AnswerInv, Answers
    <2> QED BY <1>0, <1>1, <2>2, SoundWork DEF RunInv
  <1>2. CASE Second(Twin!Work \/ Twin!Raise \/ Twin!Kill)
    <2>1. UNCHANGED <<pc, outcome>> /\ stray'
      BY <1>2, StrayStays DEF Second
    <2>2. AnswerInv' /\ (record' \in Success => answered)
      <3>1. Twin!Work \/ Twin!Raise \/ Twin!Kill
        BY <1>2 DEF Second
      <3> QED BY <1>0, <2>1, <3>1, AnswerTwin DEF AnswerInv, Answers
    <2> QED BY <2>1, <2>2 DEF RunInv
  <1>3. CASE \/ SendMessage \/ Sending \/ Withdrawing \/ LookupFails \/ RouteDies
             \/ CancelJob \/ CancelUnheard \/ Cancelling \/ OpenStream \/ Streaming
    BY <1>0, <1>3, SoundRoutes, AnswerRoutes DEF RunInv
  <1>4. CASE UNCHANGED vars
    BY <1>0, <1>4
       DEF RunInv, SoundInv, AnswerInv, Answers, RunTypes, BillingInv, EventInv, RecordInv,
           vars, local, store, twin, beside, sending, canceller
  <1> QED BY <1>1, <1>2, <1>3, <1>4, StepCases

LEMMA RunInvHolds == Spec => []RunInv
  <1>1. RunInv /\ [Next]_vars => RunInv'
    BY RunInvStep
  <1> QED BY RunInvInit, <1>1, PTL DEF Spec
-----------------------------------------------------------------------------
(* What the user is told, and what is recorded *)

\* As long as at most one ledger call reported failure, a run that published
\* done is paid for and its answer stored, and one that published error is not
\* paid for: under every cancellation, crash and exception, for every number of
\* iterations and tool calls, unless the run was enqueued although the enqueue
\* reported failure; and then too done is published with an answer stored.
THEOREM PaidAsTold == Spec => [](failures <= 1 => BilledAsTold)
  <1>1. RunInv => (failures <= 1 => BilledAsTold)
    BY DEF RunInv, SoundInv, AnswerInv, RunTypes, BillingInv, EventInv, BilledAsTold, DoneIsPaid
  <1> QED BY <1>1, RunInvHolds, PTL

\* A run never leaves a terminal status but by a cancellation, unless it was
\* enqueued although the enqueue reported failure, and a success is recorded only
\* with the answer stored: although update_run is unconditional, the DELETE
\* handler runs beside the worker, and a strayed run may be executed twice.
THEOREM RecordIsFinal == Spec => RecordFinal
  <1> DEFINE A == /\ ~stray' /\ record \in Outcomes /\ record' # record =>
                       record' = "cancelled"
                  /\ record' \in Success => answered
  <1>1. RunInv /\ [Next]_vars => [A]_vars
    <2> SUFFICES ASSUME RunInv, Next, ~stray', record \in Outcomes, record' # record
                 PROVE  record' = "cancelled"
      BY RunInvStep
    <2>1. RecordInv /\ ~stray
      BY StrayStays DEF RunInv, SoundInv
    <2> USE DEF RecordInv, Unsent, Unsettled, Unsaved, Outcomes, Success
    <2>2. CASE Worker(Work \/ Raise \/ Kill)
      <3>1. Save
        BY <2>2 DEF Worker, Work, Start, Open, LoadContext, Iterate, CallTools, Answered,
           StartTool, EndTool, Fail, Settle, Answer, Emit, Raise, Kill
      <3> QED BY <2>1, <3>1 DEF Save
    <2>3. CASE Second(Twin!Work \/ Twin!Raise \/ Twin!Kill)
      BY <2>1, <2>3 DEF Second
    <2>4. CASE \/ SendMessage \/ Sending \/ Withdrawing \/ LookupFails \/ RouteDies
               \/ CancelJob \/ CancelUnheard \/ Cancelling \/ OpenStream \/ Streaming
      <3>1. CASE Enqueue \/ EnqueueFails \/ EnqueueUnheard
        BY <2>1, <3>1 DEF Enqueue, EnqueueFails, EnqueueUnheard
      <3>2. CASE FailRun
        BY <2>1, <3>2 DEF FailRun
      <3>3. CASE MarkCancelled
        BY <3>3 DEF MarkCancelled, Update
      <3> QED
        BY <2>4, <3>1, <3>2, <3>3
           DEF Sending, Withdrawing, Streaming, Cancelling, SendMessage, Reserve, Lookup,
               LookupFails, RouteDies, GiveBack, CancelJob, CancelUnheard, Signal,
               OpenStream, Poll, CheckRun, store
    <2> QED BY <2>2, <2>3, <2>4, StepCases DEF vars, store
  <1> QED BY <1>1, RunInvHolds, PTL DEF Spec, RecordFinal

-----------------------------------------------------------------------------
(* The run implements a request of the quota ledger *)

LEMMA MeteredInit == Init => Ledger!Init
  BY DEF Init, Ledger!Init, Ledger!Profiles, Phase

\* Only these parts of a run's state are seen by the ledger.
Early == {"idle", "rpc", "granted", "rejected"}

\* A step that changes neither the row nor the phase is no step of the ledger.
LEMMA MeteredStutter ==
  ASSUME Phase' = Phase, ledger' = ledger,
         pc' \in Early <=> pc \in Early, pc' = "idle" <=> pc = "idle"
  PROVE  UNCHANGED Ledger!vars
  BY DEF Ledger!vars, Early

\* Between grant and settlement: the handler works, or asks again.
LEMMA PhaseOf ==
  ASSUME SoundInv
  PROVE  /\ pc \in Early => Phase = pc
         /\ pc \in {"sending"} \cup Unsettled => Phase = "working"
         /\ pc \notin Early /\ billing \in {"consumed", "unpaid"} => Phase = "completed"
         /\ pc \notin Early /\ billing = "released" => Phase = "failed"
         /\ pc \in {"answer", "save", "emit"} /\ billing = "retry" => Phase = "retry"
         /\ pc = "raised" /\ billing \in {"open", "retry"} => Phase = "raised"
         /\ pc \in {"killed", "dropped"} /\ billing \in {"open", "retry"} => Phase = "killed"
  BY DEF Phase, Early, Unsettled, Unsent, SoundInv, BillingInv

LEMMA NothingCounted == Ledger!Cardinality({}) = 0
  <1>1. Ledger!Cardinality({}) = Cardinality({})
    BY DEF Ledger!Cardinality, Cardinality
  <1> QED BY <1>1, FS_EmptySet

LEMMA SendBegins ==
  ASSUME SendMessage PROVE Ledger!Begin(Run)
  <1> DEFINE A == Ledger!Active([r \in {Run} |-> Owner][Run], Ledger!Pool(Run))
  <1>1. A = {}
    BY DEF SendMessage, Ledger!Active, Ledger!InFlight, Phase
  <1>2. Ledger!Cardinality(A) = 0
    BY <1>1, NothingCounted
  <1>3. Ledger!Cardinality(A) < 1
    BY <1>2
  <1>4. pc = "idle" /\ pc' = "rpc" /\ ledger' = ledger
    BY DEF SendMessage, store
  <1>5. Phase = "idle" /\ Phase' = "rpc"
    BY <1>4 DEF Phase
  <1>6. Ledger!Goto(Run, "rpc")
    BY <1>5 DEF Ledger!Goto
  <1>7. [r \in {Run} |-> 0] = [[r \in {Run} |-> 0] EXCEPT ![Run] = 0]
    OBVIOUS
  <1>8. [r \in {Run} |-> 1] = [[r \in {Run} |-> 0] EXCEPT ![Run] = 0 + 1]
    OBVIOUS
  <1> HIDE DEF A
  <1> QED
    BY <1>3, <1>4, <1>5, <1>6, <1>7, <1>8 DEF A, Ledger!Begin

LEMMA ReserveReserves ==
  ASSUME SoundInv, Reserve PROVE Ledger!Reserve(Run)
  <1> DEFINE C == Ledger!Charged([r \in {Run} |-> Owner][Run], Ledger!Pool(Run),
                                 [r \in {Run} |-> 0][Run])
  <1>1. ledger = "none" /\ pc = "rpc"
    BY DEF SoundInv, BillingInv, Reserve
  <1>2. C = {}
    BY <1>1 DEF Ledger!Charged, Ledger!Rows
  <1>3. Ledger!Cardinality(C) = 0
    BY <1>2, NothingCounted
  <1>4. Ledger!MayReserve(Run)
    <2>1. Ledger!Cardinality(C) + 1 <= 1
      BY <1>3
    <2> HIDE DEF C
    <2> QED BY <2>1 DEF C, Ledger!MayReserve, Ledger!HasRoom
  <1> QED
    BY <1>1, <1>4 DEF Reserve, Ledger!Reserve, Ledger!Goto, Phase

LEMMA LookupFinds ==
  ASSUME SoundInv, Lookup PROVE Ledger!Lookup(Run)
  <1>1. ledger = "reserved" /\ billing = "open" /\ pc = "granted" /\ pc' = "sending"
    BY DEF SoundInv, BillingInv, Lookup, Unsent
  <1>2. Ledger!LookupRows(Run) = {Run}
    BY <1>1 DEF Ledger!LookupRows, Ledger!Rows
  <1>3. Ledger!Found(Run) = {Run}
    BY <1>1, <1>2 DEF Ledger!Found, Ledger!Newest
  <1>4. /\ Phase = "granted" /\ Phase' = "working"
        /\ UNCHANGED ledger
    BY <1>1 DEF Lookup, local, store, Phase
  <1>5. Ledger!Goto(Run, "working")
    BY <1>4 DEF Ledger!Goto
  <1>6. [r \in {Run} |-> IF pc' \in Early THEN NoRow ELSE Run]
          = [[r \in {Run} |-> IF pc \in Early THEN NoRow ELSE Run] EXCEPT ![Run] = Run]
    BY <1>1 DEF Early
  <1> QED
    BY <1>1, <1>3, <1>4, <1>5, <1>6 DEF Ledger!Lookup, Early

\* The row and the phase after a consume or a release of the run.
LEMMA UnitConsumed ==
  ASSUME pc \notin Early, pc' \notin Early, Phase \in {"working", "retry"},
         \/ ledger' = "consumed" /\ Phase' = "completed"
         \/ /\ ledger' \in {ledger, "consumed"}
            /\ Phase' = IF Phase = "working" THEN "retry" ELSE "completed"
  PROVE  Ledger!Consume(Run) \/ Ledger!ConsumeFails(Run)
  BY RunAssumption DEF Ledger!Consume, Ledger!ConsumeFails, Ledger!consume_quota,
     Ledger!AfterConsume, Ledger!Goto, Early

LEMMA UnitReleased ==
  ASSUME pc \notin Early, pc' \notin Early, Phase = "working", Phase' = "failed",
         ledger' \in {ledger, "released"}
  PROVE  Ledger!Release(Run) \/ Ledger!ReleaseFails(Run)
  BY RunAssumption DEF Ledger!Release, Ledger!ReleaseFails, Ledger!release_quota,
     Ledger!MayFail, Ledger!Goto, Early

\* Crashes and exceptions that settle nothing.
LEMMA UnitLeft ==
  ASSUME pc \notin Early, pc' \notin Early, ledger' = ledger,
         Phase \in {"working", "retry"}, Phase' \in {"raised", "killed"}
  PROVE  Ledger!Raise(Run) \/ Ledger!Kill(Run)
  BY DEF Ledger!Raise, Ledger!Kill, Ledger!InFlight, Ledger!Goto, Early

\* The worker, the thread or the route stops where it is, or the job is dropped.
LEMMA Stops ==
  ASSUME SoundInv, UNCHANGED <<ledger, billing>>, pc \notin Early, pc' # pc,
         pc' \in {"raised", "killed", "dropped"}, pc \notin {"raised", "killed", "dropped"}
  PROVE  Ledger!Step(Run) \/ UNCHANGED Ledger!vars
  <1>1. pc' \notin Early
    BY DEF Early
  <1>2. CASE billing \in {"consumed", "unpaid", "released"}
    BY <1>1, <1>2, MeteredStutter DEF Phase, Early
  <1>3. CASE billing \in {"open", "retry"}
    BY <1>1, <1>3, UnitLeft DEF Phase, Early, Ledger!Step
  <1> QED BY <1>2, <1>3 DEF SoundInv, RunTypes

\* A step of a worker.
LEMMA MeteredWork ==
  ASSUME SoundInv, Worker(Work \/ Raise \/ Kill)
  PROVE  Ledger!Step(Run) \/ UNCHANGED Ledger!vars
  <1> USE DEF Ledger!Step
  <1>1. CASE Settle
    <2>1. pc = "settle" /\ pc' \in {"save", "answer"} /\ Phase = "working"
      BY <1>1, PhaseOf DEF Settle, AfterSettle, Unsettled
    <2>2. CASE ConsumesOn(outcome)
      <3>1. ConsumeUnit("retry")
        BY <1>1, <2>2 DEF Settle
      <3>2. \/ ledger' = "consumed" /\ Phase' = "completed"
            \/ ledger' \in {ledger, "consumed"} /\ Phase' = "retry"
        BY <2>1, <3>1 DEF ConsumeUnit, Phase
      <3> QED BY <2>1, <3>2, UnitConsumed DEF Early
    <2>3. CASE ~ConsumesOn(outcome)
      <3>1. ReleaseUnit
        BY <1>1, <2>3 DEF Settle
      <3>2. ledger' \in {ledger, "released"} /\ Phase' = "failed"
        BY <2>1, <3>1 DEF ReleaseUnit, ReleaseCall, Phase
      <3> QED BY <2>1, <3>2, UnitReleased DEF Early
    <2> QED BY <2>2, <2>3
  <1>2. CASE Emit
    <2>1. pc = "emit" /\ pc' = "ended" /\ SecondConsume
      BY <1>2 DEF Emit
    <2>2. CASE billing = "retry"
      <3>1. /\ Phase = "retry" /\ Phase' = "completed"
            /\ ledger' \in {ledger, "consumed"}
        BY <2>1, <2>2 DEF SecondConsume, ConsumeUnit, Phase
      <3> QED BY <2>1, <3>1, UnitConsumed DEF Early
    <2>3. CASE billing # "retry"
      <3>1. Phase' = Phase /\ ledger' = ledger
        BY <2>1, <2>3 DEF SecondConsume, Phase, SoundInv, BillingInv, EventInv
      <3> QED BY <2>1, <3>1, MeteredStutter DEF Early
    <2> QED BY <2>2, <2>3
  <1>3. CASE Raise \/ Kill
    <2>1. /\ UNCHANGED <<ledger, billing>>
          /\ pc' \in {"raised", "killed"}
          /\ pc \in Working
      BY <1>3 DEF Raise, Kill, Working
    <2> QED BY <2>1, Stops DEF Working, Early
  <1>4. CASE \/ Start \/ Open \/ LoadContext \/ Iterate \/ CallTools
             \/ Answered \/ StartTool \/ EndTool \/ Fail \/ Answer \/ Save
    <2>1. /\ UNCHANGED <<ledger, billing>>
          /\ pc \in {"answer", "save"} \cup Unsettled
          /\ pc' \in {"answer", "save", "emit", "ended"} \cup Unsettled
      BY <1>4 DEF Start, Open, LoadContext, Iterate, CallTools, Answered,
         StartTool, EndTool, Fail, Answer, Save, AfterSave, Unsettled
    <2>2. Phase' = Phase
      BY <2>1 DEF Phase, Unsettled
    <2> QED BY <2>1, <2>2, MeteredStutter DEF Early, Unsettled
  <1> QED BY <1>1, <1>2, <1>3, <1>4 DEF Worker, Work

LEMMA MeteredStep ==
  RunInv /\ [Next]_vars => [stray' \/ Ledger!Next]_(Ledger!vars)
  <1> SUFFICES ASSUME RunInv, [Next]_vars, ~stray'
               PROVE  Ledger!Step(Run) \/ UNCHANGED Ledger!vars
    BY DEF Ledger!Next
  <1> USE DEF Ledger!Step
  <1>0. SoundInv
    BY StrayStays DEF RunInv
  <1>1. CASE Worker(Work \/ Raise \/ Kill)
    BY <1>0, <1>1, MeteredWork
  <1>2. CASE Second(Twin!Work \/ Twin!Raise \/ Twin!Kill)
    BY <1>2, StrayStays DEF Second
  <1>3. CASE SendMessage
    BY <1>3, SendBegins
  <1>4. CASE Reserve
    BY <1>0, <1>4, ReserveReserves
  <1>5. CASE Lookup
    BY <1>0, <1>5, LookupFinds
  <1>6. CASE LookupFails
    BY <1>6 DEF LookupFails, store, Phase, Ledger!LookupFails, Ledger!Goto
  <1>7. CASE GiveBack
    <2>1. /\ pc = "unsent" /\ pc' = "unsent" /\ billing' = "released"
          /\ billing = "open" /\ ledger' \in {ledger, "released"}
      BY <1>0, <1>7 DEF GiveBack, ReleaseCall, SoundInv, BillingInv
    <2>2. Phase = "working" /\ Phase' = "failed"
      BY <2>1 DEF Phase
    <2> QED BY <2>1, <2>2, UnitReleased DEF Early
  <1>8. CASE RouteDies
    <2>1. /\ UNCHANGED <<ledger, billing>> /\ pc' = "killed"
          /\ pc \in {"sending", "unsent"}
      BY <1>0, <1>8 DEF RouteDies, local, store, SoundInv, BillingInv
    <2> QED BY <1>0, <2>1, Stops DEF Early
  <1>9. CASE CancelJob
    <2>1. UNCHANGED <<ledger, billing>> /\ pc' \in {pc, "dropped"} /\ (pc' # pc => pc = "queued")
      BY <1>9 DEF CancelJob, local, store
    <2>2. CASE pc' = pc
      BY <2>1, <2>2, MeteredStutter DEF Phase
    <2>3. CASE pc' # pc
      BY <1>0, <2>1, <2>3, Stops DEF Early
    <2> QED BY <2>2, <2>3
  <1>10. CASE Enqueue \/ EnqueueFails \/ EnqueueUnheard
    <2>1. /\ UNCHANGED <<ledger, billing>>
          /\ pc = "sending" /\ pc' \in {"queued", "unsent"}
      BY <1>10 DEF Enqueue, EnqueueFails, EnqueueUnheard, local
    <2> QED BY <2>1, MeteredStutter DEF Phase, Early
  <1>11. CASE \/ FailRun \/ CancelUnheard \/ Signal \/ MarkCancelled \/ OpenStream
              \/ Poll \/ CheckRun \/ UNCHANGED vars
    <2>1. UNCHANGED <<pc, ledger, billing>>
      BY <1>11 DEF FailRun, CancelUnheard, Signal, MarkCancelled, OpenStream, Poll,
         CheckRun, vars, local, store
    <2> QED BY <2>1, MeteredStutter DEF Phase
  <1> QED
    BY <1>1, <1>2, <1>3, <1>4, <1>5, <1>6, <1>7, <1>8, <1>9, <1>10, <1>11, StepCases
       DEF Sending, Withdrawing, Streaming, Cancelling

\* Until it strays, every step of a chat run is a step of one "vibe" request of
\* QuotaLedger: its begin, grant, lookup, consume, second consume, release,
\* exception and death are those of the ledger, and everything else it does
\* leaves the ledger alone.
THEOREM Metered == Spec => IsMeteredRequest
  <1>1. RunInv /\ [Next]_vars => [stray' \/ Ledger!Next]_(Ledger!vars)
    BY MeteredStep
  <1> QED BY <1>1, MeteredInit, RunInvHolds, PTL DEF Spec, IsMeteredRequest
=============================================================================
