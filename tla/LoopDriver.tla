---------------------------- MODULE LoopDriver -----------------------------
(***************************************************************************)
(* The single-generation driver: it loads PARETO.json, and for each result *)
(* of its workers appends to HISTORY.jsonl, files an issue for a verdict   *)
(* "suspicious_to_human" and offers the point to the front in memory; it   *)
(* saves the front and writes STATE.md at the end.  Drivers of several     *)
(* clusters may share one state root, and a driver may die at any step.    *)
(***************************************************************************)
EXTENDS MakerChecker, FiniteSets, Sequences, SequencesExt

(* The Pareto front: dominance over the objectives of a candidate and      *)
(* ParetoSet.add.  A point is a record [sha, metrics]; the other fields of *)
(* ParetoPoint are provenance.  The list of the code is a set here: add    *)
(* keeps one point per params_sha and reads no order.                      *)

CONSTANTS
    Objective,   \* sharpe, calmar, profit_factor, worst_regime_sharpe
    Missing,     \* a metric that is None
    Worst        \* the value _safe gives a missing metric, per objective

ASSUME ParetoAssumption ==
    Missing \notin Int /\ Worst \in [Objective -> Int]

Metrics == [Objective -> Int \cup {Missing}]

-----------------------------------------------------------------------------
\* Mutated forms of the definitions below; no specification uses them.
Survivors_all(front, p) == front
-----------------------------------------------------------------------------

objectives(p) ==
    [o \in Objective |->
        IF p.metrics[o] = Missing THEN Worst[o] ELSE p.metrics[o]]

dominates(a, b) ==
    /\ \A o \in Objective : objectives(a)[o] >= objectives(b)[o]
    /\ \E o \in Objective : objectives(a)[o] > objectives(b)[o]

Known(front, p) == \E q \in front : q.sha = p.sha
Survivors(front, p) == {q \in front : ~dominates(p, q)}
Admitted(front, p) == ~\E q \in Survivors(front, p) : dominates(q, p)

\* add returns True, and the front it leaves.
moves(front, p) == ~Known(front, p) /\ Admitted(front, p)
add(front, p) ==
    IF moves(front, p) THEN Survivors(front, p) \cup {p} ELSE front

-----------------------------------------------------------------------------
(* What a front promises *)

\* No member dominates another.
Antichain(front) == \A a, b \in front : ~dominates(a, b)

\* One point per experiment.
OnePerSha(front) == \A a, b \in front : a.sha = b.sha => a = b

\* A point the front has no use for: a member of it is at least as good.
Covers(front, p) == \E q \in front : q = p \/ dominates(q, p)

-----------------------------------------------------------------------------
(* The driver *)

CONSTANTS
    Driver,      \* driver processes
    Point,       \* the results the workers can produce
    MaxBatch,    \* bound: results of one generation
    Decisions,   \* the workers' decisions: accepted, rejected, error
    MakerCheckerOn, \* is a Maker-Checker runner attached?
    Crashes      \* may a driver die?

ASSUME DriverAssumption ==
    /\ IsFiniteSet(Point)
    /\ \A p \in Point : p.metrics \in Metrics
    /\ Decisions \subseteq {"accepted", "rejected", "error"}
    /\ MakerCheckerOn \in BOOLEAN
    /\ MaxBatch \in Nat /\ Crashes \in BOOLEAN

VARIABLES
    pc,         \* where each driver is
    todo,       \* its results not yet recorded
    front,      \* its front in memory
    current,    \* the result between append_history and the rest of the loop
    history,    \* HISTORY.jsonl: records [point, decision, human]
    pareto,     \* PARETO.json
    snapshots,  \* tuning_snapshots/pareto-<sha>.yaml
    issues,     \* pending_issues/
    rejected,   \* run directories moved under REJECTED/
    stateMd,    \* what STATE.md holds: "none", "json" or "markdown"
    overlapped  \* history variable: two drivers have run at the same time

vars == <<pc, todo, front, current, history, pareto, snapshots, issues,
          rejected, stateMd, overlapped>>
disk == <<history, pareto, snapshots, issues, rejected, stateMd>>

\* human: the verdict is "suspicious_to_human", the one the driver acts on.
Result == [point : Point, decision : Decisions, human : BOOLEAN]
Running == {"loop", "apply", "state_md"}
Steps == Running \cup {"idle", "done", "crashed"}

\* The verdict on a result: of the heuristics alone, or of the whole review.
\* Which heuristics fire and what the LLM answers is up to the data.
Verdicts(decision) ==
    {IF MakerCheckerOn THEN evaluate_candidate(decision, f, a)
     ELSE check_candidate(decision, f) :
        f \in SUBSET Flags, a \in Answers \cup {Failure}}
Judged(r) ==
    \E v \in Verdicts(r.decision) : r.human = (v = "suspicious_to_human")

Goto(d, s) == pc' = [pc EXCEPT ![d] = s]
Shas(S) == {p.sha : p \in S}

-----------------------------------------------------------------------------
\* Mutated forms of the definitions below; no specification uses them.
SnapshotOf_whenBest(d, r) ==
    IF r.decision = "accepted" /\ \A q \in front[d] : dominates(r.point, q)
    THEN {r.point.sha} ELSE {}
LoadFront_empty(d) == front' = [front EXCEPT ![d] = {}]
-----------------------------------------------------------------------------

SnapshotOf(d, r) ==
    IF r.decision = "accepted" /\ moves(front[d], r.point)
    THEN {r.point.sha} ELSE {}
IssueOf(r) == IF r.human THEN {r.point.sha} ELSE {}
LoadFront(d) == front' = [front EXCEPT ![d] = pareto]
SaveFront(d) == pareto' = front[d]

Init ==
    /\ pc = [d \in Driver |-> "idle"]
    /\ todo = [d \in Driver |-> {}]
    /\ front = [d \in Driver |-> {}]
    /\ current = [d \in Driver |-> {}]
    /\ history = <<>>
    /\ pareto = {} /\ snapshots = {} /\ issues = {} /\ rejected = {}
    /\ stateMd = "none"
    /\ overlapped = FALSE

\* The workers have finished, in any order: pareto_load.
Load(d) ==
    /\ pc[d] = "idle"
    /\ overlapped' = (overlapped \/ \E e \in Driver : pc[e] \in Running)
    /\ \E S \in SUBSET Point :
        /\ Cardinality(S) <= MaxBatch
        /\ todo' = [todo EXCEPT ![d] = S]
    /\ LoadFront(d)
    /\ Goto(d, "loop")
    /\ UNCHANGED <<current, disk>>

\* append_history for one result.
Record(d) ==
    /\ pc[d] = "loop"
    /\ \E p \in todo[d] : \E r \in Result :
        /\ r.point = p /\ Judged(r)
        /\ todo' = [todo EXCEPT ![d] = @ \ {p}]
        /\ current' = [current EXCEPT ![d] = {r}]
        /\ history' = Append(history, r)
    /\ Goto(d, "apply")
    /\ UNCHANGED <<front, pareto, snapshots, issues, rejected, stateMd, overlapped>>

\* write_pending_issue, then pareto.add and the snapshot of an accepted
\* result; the run directory of any other is moved away.
Apply(d) ==
    /\ pc[d] = "apply"
    /\ \E r \in current[d] :
        /\ front' = [front EXCEPT ![d] =
                        IF r.decision = "accepted" THEN add(@, r.point) ELSE @]
        /\ issues' = issues \cup IssueOf(r)
        /\ snapshots' = snapshots \cup SnapshotOf(d, r)
        /\ rejected' = IF r.decision = "accepted" THEN rejected
                       ELSE rejected \cup {r.point.sha}
    /\ current' = [current EXCEPT ![d] = {}]
    /\ Goto(d, "loop")
    /\ UNCHANGED <<todo, history, pareto, stateMd, overlapped>>

\* pareto_save, then the first of the two writes of write_state_md: an atomic
\* JSON dump of the rendered text.
Save(d) ==
    /\ pc[d] = "loop"
    /\ todo[d] = {}
    /\ SaveFront(d)
    /\ stateMd' = "json"
    /\ Goto(d, "state_md")
    /\ UNCHANGED <<todo, front, current, history, snapshots, issues, rejected,
                   overlapped>>

\* The second write: the markdown replaces the JSON.
SecondWrite == "markdown"
WriteStateMd(d) ==
    /\ pc[d] = "state_md"
    /\ stateMd' = SecondWrite
    /\ Goto(d, "done")
    /\ UNCHANGED <<todo, front, current, history, pareto, snapshots, issues,
                   rejected, overlapped>>

Crash(d) ==
    /\ Crashes
    /\ pc[d] \in Running
    /\ Goto(d, "crashed")
    /\ UNCHANGED <<todo, front, current, disk, overlapped>>

Next == \E d \in Driver :
    Load(d) \/ Record(d) \/ Apply(d) \/ Save(d) \/ WriteStateMd(d) \/ Crash(d)

Spec == Init /\ [][Next]_vars

-----------------------------------------------------------------------------
(* Properties *)

TypeOK ==
    /\ pc \in [Driver -> Steps]
    /\ todo \in [Driver -> SUBSET Point]
    /\ front \in [Driver -> SUBSET Point]
    /\ current \in [Driver -> SUBSET Result]
    /\ history \in Seq(Result)
    /\ pareto \subseteq Point
    /\ snapshots \subseteq Shas(Point) /\ issues \subseteq Shas(Point)
    /\ rejected \subseteq Shas(Point)
    /\ stateMd \in {"none", "json", "markdown"}
    /\ overlapped \in BOOLEAN

\* PARETO.json is always a front: no member dominates another, and an
\* experiment is on it once.
FrontIsFront == Antichain(pareto) /\ OnePerSha(pareto)

\* Every point of PARETO.json was accepted in HISTORY.jsonl and has its
\* tuning snapshot, so a promotion or a rollback finds it, after a crash too.
Accepted == {r.point : r \in {e \in Range(history) : e.decision = "accepted"}}
FrontIsBacked == Shas(pareto) \subseteq snapshots /\ pareto \subseteq Accepted

Quiet == \A d \in Driver : pc[d] \in {"idle", "done"}

\* The front that adding the accepted records one after the other gives:
\* replay_from_history, through ParetoSet.add.
Added(f, r) == IF r.decision = "accepted" THEN add(f, r.point) ELSE f
Rebuilt(records) ==
    LET after[i \in 0..Len(records)] ==
            IF i = 0 THEN {} ELSE Added(after[i - 1], records[i])
    IN after[Len(records)]

\* "PARETO.json can be rebuilt from" HISTORY.jsonl: between generations it is
\* what the replay gives, as long as the generations ran one after the other.
RebuildMatches == Quiet /\ ~overlapped => pareto = Rebuilt(history)

\* No accepted point is forgotten: after generations one after the other a
\* member of PARETO.json is as good.  (Of an experiment that was repeated with
\* another outcome the front keeps the first.)
Repeated(p) == \E q \in Accepted : q # p /\ q.sha = p.sha
FrontCoversAccepted ==
    Quiet /\ ~overlapped => \A p \in Accepted : Repeated(p) \/ Covers(pareto, p)

\* The journal and the front agree between generations that ran one after the
\* other: the front can be rebuilt, and covers what was accepted.
FrontFollowsJournal == RebuildMatches /\ FrontCoversAccepted

\* Between generations, every verdict for a human has its issue on disk.
Escalated ==
    Quiet => \A r \in Range(history) : r.human => r.point.sha \in issues

\* A driver alone on its state root never takes a point off PARETO.json that
\* nothing it saves covers, whatever an earlier driver left behind by dying.
NeverWorse ==
    [][~overlapped => \A p \in pareto : Covers(pareto', p)]_vars

\* "a partial STATE.md never replaces a good one": between generations no
\* reader finds the JSON dump, however the two writes of two drivers mix.
StateMdReadable == Quiet => stateMd # "json"
=============================================================================
