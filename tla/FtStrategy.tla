----------------------------- MODULE FtStrategy -----------------------------
(***************************************************************************)
(* The life of one FT strategy: its row and the rows that hang from it in  *)
(* SQLite, its append-only .tsv, and the requests that work on them at the *)
(* same time.  Every request opens its own connection, so a step is one    *)
(* committed statement (or one statement group under one commit), one      *)
(* select, or one file operation.  Repository calls no route makes come    *)
(* from the worker, the orchestrator and the operator (external callers).  *)
(*                                                                         *)
(* The pure gates come first: the research document that opens a strategy, *)
(* the verdict on an experiment, the rule a final report obeys, and the    *)
(* nine items of the promotion gate.  Metrics are in thousandths.  A text  *)
(* is the set of the features the code looks for in it.                    *)
(***************************************************************************)
EXTENDS Integers, Sequences, FiniteSets, FiniteSetsExt, SequencesExt

None == "None"

REQUIRED_SECTIONS == {"decision", "question", "motivation", "universe",
                      "constraints", "failure modes", "open qs"}
RESEARCH_MD_MIN_LENGTH == 200
STAGNATION_ROUNDS == 3
DEFAULT_DRAWDOWN_BASELINE == 156
DRAWDOWN_MULTIPLIER == 2
DEFAULT_PROFIT_FLOOR == 50
DEFAULT_MIN_POSITION_SIZE == 30
DEFAULT_ROBUST_SHARPE_MIN == 0
DEFAULT_ROBUST_CALMAR_MIN == 1000

(* A document is its length and the required names its headings contain.   *)
validate_research_md(md) ==
    md.length >= RESEARCH_MD_MIN_LENGTH /\ REQUIRED_SECTIONS \subseteq md.sections

(* The row rule of ft_strategy_reports; findings are None, "" (empty or    *)
(* blank), "TODO" (starts with TODO:) or a text.                           *)
validate_report_final(state, finding, published) ==
    \/ state = "draft"
    \/ /\ state = "final"
       /\ finding \notin {None, "", "TODO"}
       /\ published

check_reserved_finding(finding) == finding \notin {None, "", "TODO"}

(* Boundary slip: the hard floor is reached one step early.                *)
suggest_verdict_at_bound(prev, curr, baseline) ==
    IF curr.max_dd >= DRAWDOWN_MULTIPLIER * baseline THEN "crash" ELSE "keep"

suggest_verdict(prev, curr, baseline) ==
    CASE curr.max_dd > DRAWDOWN_MULTIPLIER * baseline -> "crash"
      [] /\ curr.max_dd <= DRAWDOWN_MULTIPLIER * baseline
         /\ curr.sharpe >= prev.sharpe
         /\ curr.max_dd <= prev.max_dd
         /\ curr.win_rate >= 500 -> "keep"
      [] OTHER -> "revert"

Shape(c) == <<c.sharpe, c.calmar, -c.max_dd, c.win_rate>>

pareto_dominated(shape, priors) ==
    \E p \in priors : (\A i \in 1..4 : p[i] >= shape[i]) /\ p # shape

(* latest_result as the deploy route reads it: missing numbers are 0 and   *)
(* missing regimes are none.                                               *)
EmptyResult == [sharpe |-> 0, max_dd |-> 0, calmar |-> 0, win_rate |-> 0,
                profit_pct |-> 0, trades |-> 0, per_timerange |-> {}]

DefaultContext == [baseline |-> DEFAULT_DRAWDOWN_BASELINE, priors |-> {}]

(* The nine items, by label; clear says that no open crash was counted.    *)
PromotionItems(c, final, clear, shadow, ctx) ==
    LET robust(f(_), floor) ==
          c.per_timerange # {} /\ Min({f(t) : t \in c.per_timerange}) >= floor
    IN [robust_sharpe_min |-> robust(LAMBDA t : t.sharpe, DEFAULT_ROBUST_SHARPE_MIN),
        robust_calmar_min |-> robust(LAMBDA t : t.calmar, DEFAULT_ROBUST_CALMAR_MIN),
        max_drawdown |-> c.max_dd <= DRAWDOWN_MULTIPLIER * ctx.baseline,
        profit_floor |-> c.profit_pct >= DEFAULT_PROFIT_FLOOR,
        min_position_size |-> c.trades >= DEFAULT_MIN_POSITION_SIZE,
        not_pareto_dominated |-> ~pareto_dominated(Shape(c), ctx.priors),
        shadow_observed |-> shadow,
        report_referenced |-> final,
        no_open_crash_in_window |-> clear]

(* A gate that leaves out the report it has to reference.                  *)
check_promotion_v3_unreferenced(c, final, clear, shadow, ctx) ==
    LET items == PromotionItems(c, final, clear, shadow, ctx)
    IN {label \in DOMAIN items \ {"report_referenced"} : ~items[label]}

(* The labels of the items that fail; the gate is open when there are none.*)
check_promotion_v3(c, final, clear, shadow, ctx) ==
    LET items == PromotionItems(c, final, clear, shadow, ctx)
    IN {label \in DOMAIN items : ~items[label]}

-----------------------------------------------------------------------------
(* The life of a strategy *)

CONSTANTS Requests,   \* request threads
          Documents,  \* research documents: [length, sections]
          Results,    \* backtest results as latest_result stores them
          Findings,   \* reserved_finding texts a publisher may send
          Reports,    \* ids of the reports that may be drafted
          Pasts,      \* states of a quiet strategy to start from: [strat, log, reports]
          MaxOps,     \* operations started on the strategy
          MaxFaults   \* .tsv operations and best-effort inserts that fail

NoRow == [status |-> "none"]

(* Rows as the code writes them.  A past starts from a strategy that is    *)
(* not there, and then nothing hangs from it, or from one whose final      *)
(* reports were published.                                                 *)
EventNames == {"create", "evolve", "fork", "kill", "stable", "shadow_start", "shadow_end"}
Statuses == {"draft", "code_generated", "hyperopt_running", "backtest_running", "analyzed",
             "refining", "pending_review", "deployed", "rejected"}
StrategyRows == [status : Statuses, version : Nat \ {0}, last : EventNames, stag : Nat,
                 result : Results \cup {EmptyResult}]
ReportRows == [status : {"draft", "final"}, finding : Findings \cup {None}, published : BOOLEAN]

ASSUME FtAssumption ==
    /\ \A res \in Results : res.max_dd \in Int
    /\ \A past \in Pasts :
         /\ past.strat \in StrategyRows \cup {NoRow}
         /\ past.log \in Seq(EventNames)
         /\ past.reports \in [Reports -> ReportRows \cup {NoRow}]
         /\ \A i \in Reports : past.reports[i].status = "final" =>
              validate_report_final("final", past.reports[i].finding, past.reports[i].published)
         /\ past.strat = NoRow => past.log = <<>> /\ \A i \in Reports : past.reports[i] = NoRow

VARIABLES strat,    \* row of ft_strategies, NoRow before create and after delete
          events,   \* rows of ft_strategy_events, in id order
          exps,     \* rows of ft_strategy_experiments
          reports,  \* rows of ft_strategy_reports by id
          runs,     \* (version, stage) of ft_strategy_runs
          jobs,     \* stages of ft_jobs
          tsv,      \* the .tsv: whether it is there and not empty, its event rows
          req,      \* what each request thread is doing
          ops, faults,
          bumped    \* refine updates that were committed

rows == <<strat, events, exps, reports, runs, jobs>>
vars == <<rows, tsv, req, ops, faults, bumped>>

Exists == strat # NoRow
Idle == [op |-> "idle", pc |-> "idle"]

Init ==
    /\ \E past \in Pasts :
         /\ strat = past.strat
         /\ events = [i \in DOMAIN past.log |-> [event |-> past.log[i], id |-> i]]
         /\ reports = past.reports
         /\ tsv = [made |-> past.log # <<>>, rows |-> events]
    /\ exps = <<>> /\ runs = {}
    /\ jobs = IF Exists THEN {"code"} ELSE {}
    /\ req = [r \in Requests |-> Idle]
    /\ ops = 0 /\ faults = 0
    /\ bumped = IF Exists THEN strat.version - 1 ELSE 0

Start(r) == req[r] = Idle /\ ops < MaxOps /\ ops' = ops + 1
Goto(r, pc) == req' = [req EXCEPT ![r].pc = pc]
Finish(r) == req' = [req EXCEPT ![r] = Idle]

----------------------------------------------------------------------------
(* What the repository reads.                                              *)

list_open_crashes == Len(SelectSeq(exps, LAMBDA e : e.verdict = "crash" /\ ~e.decided))
has_final_report == \E i \in Reports : reports[i].status = "final"
has_shadow_observation == \E i \in DOMAIN events : events[i].event = "shadow_end"

(* The stable events at the end of the log, newest first.                  *)
recent_stable_count ==
    Max({0} \cup {n \in 1..Len(events) :
                    \A i \in (Len(events) - n + 1)..Len(events) : events[i].event = "stable"})

stage_from_status(status) ==
    CASE status = "hyperopt_running" -> "hyperopt"
      [] status = "backtest_running" -> "backtest"
      [] OTHER -> status

(* next_action of GET .../orient, by precedence.                           *)
orient_strategy ==
    LET iterating == strat.status \in {"analyzed", "refining"}
    IN CASE strat.status = "rejected" -> "fork"
         [] strat.status = "pending_review" -> "wait_human_merge"
         [] strat.status = "deployed" -> "monitor_shadow"
         [] stage_from_status(strat.status) \in {"hyperopt", "backtest"} -> "wait_backtest"
         [] iterating /\ recent_stable_count >= STAGNATION_ROUNDS -> "fork"
         [] strat.status \in {"draft", "code_generated"} -> None
         [] iterating /\ recent_stable_count < STAGNATION_ROUNDS /\ list_open_crashes > 0 -> "resolve_crash"
         [] iterating /\ recent_stable_count < STAGNATION_ROUNDS /\ list_open_crashes = 0 -> "refine"
         [] OTHER -> IF has_final_report THEN None ELSE "draft_report"

----------------------------------------------------------------------------
(* The routes.                                                             *)

(* POST /ft-strategies: insert the draft, enqueue its job, log "create".   *)
create_strategy_route(r) ==
    /\ ~Exists /\ ops = 0
    /\ Start(r)
    /\ \E md \in Documents : validate_research_md(md)
    /\ strat' = [status |-> "draft", version |-> 1, last |-> "create", stag |-> 0, result |-> EmptyResult]
    /\ req' = [req EXCEPT ![r] = [op |-> "create", pc |-> "enqueue", event |-> "create"]]
    /\ UNCHANGED <<events, exps, reports, runs, jobs, tsv, faults, bumped>>

enqueue_strategy_create(r) ==
    /\ req[r].pc = "enqueue"
    /\ \/ Exists /\ jobs' = jobs \cup {"code"} /\ UNCHANGED faults
       \/ ~Exists /\ UNCHANGED <<jobs, faults>>
       \/ faults < MaxFaults /\ faults' = faults + 1 /\ UNCHANGED jobs
    /\ Goto(r, "lookup")
    /\ UNCHANGED <<strat, events, exps, reports, runs, tsv, ops, bumped>>

(* POST .../refine: the stagnation rule on the log as it is now.           *)
refine_one(r) ==
    /\ Start(r) /\ Exists
    /\ \E intent \in {None, "evolve", "fork", "kill"} :
         /\ recent_stable_count >= STAGNATION_ROUNDS => intent # None
         /\ req' = [req EXCEPT ![r] = [op |-> "refine", pc |-> "bump", seen |-> strat.version,
                      event |-> IF intent = None THEN "evolve" ELSE intent]]
    /\ UNCHANGED <<rows, tsv, faults, bumped>>

(* UPDATE ... SET current_version = current_version + 1; the row is gone   *)
(* when a delete came in between, and the request fails.                   *)
refine(r) ==
    IF Exists
    THEN /\ strat' = [strat EXCEPT !.version = @ + 1, !.status = "refining"]
         /\ bumped' = bumped + 1
         /\ Goto(r, "lookup")
    ELSE /\ Finish(r)
         /\ UNCHANGED <<strat, bumped>>

Bump(r) ==
    /\ req[r].pc = "bump"
    /\ refine(r)
    /\ UNCHANGED <<events, exps, reports, runs, jobs, tsv, ops, faults>>

(* record_event_dual of the orchestrator; the routes enter at "lookup" too *)
Observe(r) ==
    /\ Start(r) /\ Exists
    /\ \E e \in {"stable", "shadow_start", "shadow_end"} :
         req' = [req EXCEPT ![r] = [op |-> "event", pc |-> "lookup", event |-> e]]
    /\ UNCHANGED <<rows, tsv, faults, bumped>>

(* get_strategy before any write; what is raised from here on is swallowed *)
(* by the routes and ends the request.                                     *)
record_event_dual(r) ==
    /\ req[r].pc = "lookup"
    /\ IF Exists THEN Goto(r, "insert") ELSE Finish(r)
    /\ UNCHANGED <<rows, tsv, ops, faults, bumped>>

(* INSERT and commit: the savepoint opened around it is gone with the      *)
(* commit.  The foreign key refuses the row of a deleted strategy.         *)
record_event(r) ==
    IF Exists
    THEN /\ events' = Append(events, [event |-> req[r].event, id |-> Len(events) + 1])
         /\ req' = [req EXCEPT ![r] = [op |-> req[r].op, pc |-> "mirror", event |-> req[r].event,
                                       id |-> Len(events) + 1]]
    ELSE Finish(r) /\ UNCHANGED events

InsertEvent(r) ==
    /\ req[r].pc = "insert"
    /\ record_event(r)
    /\ UNCHANGED <<strat, exps, reports, runs, jobs, tsv, ops, faults, bumped>>

(* The second commit: last_event and stagnation_count.                     *)
MirrorEvent(r) ==
    /\ req[r].pc = "mirror"
    /\ strat' = IF ~Exists THEN strat
                ELSE [strat EXCEPT !.last = req[r].event,
                        !.stag = CASE req[r].event = "stable" -> @ + 1
                                   [] req[r].event \in {"evolve", "fork", "kill"} -> 0
                                   [] OTHER -> @]
    /\ Goto(r, "header")
    /\ UNCHANGED <<events, exps, reports, runs, jobs, tsv, ops, faults, bumped>>

(* _append_crash_safe: test whether the file is there and not empty; when  *)
(* it is not, open it with "w", which empties what another request may     *)
(* have put there since, and write the header to the file that was opened, *)
(* which may have been replaced in between.                                *)
write_header_if_missing(r) ==
    /\ req[r].pc = "header"
    /\ Goto(r, IF tsv.made THEN "read" ELSE "truncate")
    /\ UNCHANGED <<rows, tsv, ops, faults, bumped>>

Truncate(r) ==
    /\ req[r].pc = "truncate"
    /\ tsv' = [made |-> FALSE, rows |-> <<>>]
    /\ Goto(r, "headline")
    /\ UNCHANGED <<rows, ops, faults, bumped>>

WriteHeader(r) ==
    /\ req[r].pc = "headline"
    /\ \E made \in {TRUE, tsv.made} : tsv' = [made |-> made, rows |-> tsv.rows]
    /\ Goto(r, "read")
    /\ UNCHANGED <<rows, ops, faults, bumped>>

(* Read the file, write the copy with the row added and put it in the      *)
(* file's place.                                                           *)

ReadTsv(r) ==
    /\ req[r].pc = "read"
    /\ req' = [req EXCEPT ![r] = [op |-> req[r].op, pc |-> "replace", event |-> req[r].event,
                                  id |-> req[r].id, chunk |-> tsv.rows]]
    /\ UNCHANGED <<rows, tsv, ops, faults, bumped>>

(* The row is labelled with the newest event instead of the request's own. *)
append_newest(r) ==
    /\ req[r].pc = "replace"
    /\ tsv' = [made |-> TRUE, rows |-> Append(tsv.rows, [event |-> req[r].event, id |-> Len(events)])]
    /\ Finish(r)
    /\ UNCHANGED <<rows, ops, faults, bumped>>

append_crash_safe(r) ==
    /\ req[r].pc = "replace"
    /\ tsv' = [made |-> TRUE,
                rows |-> Append(req[r].chunk, [event |-> req[r].event, id |-> req[r].id])]
    /\ Finish(r)
    /\ UNCHANGED <<rows, ops, faults, bumped>>

(* A file operation fails: ROLLBACK TO finds no savepoint and the event    *)
(* stays in the database.                                                  *)
TsvFails(r) ==
    /\ req[r].pc \in {"header", "truncate", "headline", "read", "replace"}
    /\ faults < MaxFaults /\ faults' = faults + 1
    /\ Finish(r)
    /\ UNCHANGED <<rows, tsv, ops, bumped>>

(* DELETE .../<id>: the foreign keys take every dependent row along; the   *)
(* .tsv stays.                                                             *)
delete_one ==
    /\ strat' = NoRow /\ events' = <<>> /\ exps' = <<>> /\ runs' = {} /\ jobs' = {}
    /\ reports' = [i \in Reports |-> NoRow]

Delete ==
    /\ Exists /\ ops < MaxOps /\ ops' = ops + 1
    /\ delete_one
    /\ UNCHANGED <<tsv, req, faults, bumped>>

(* POST .../deploy: the row with the latest result, then the open crashes, *)
(* the final report and the shadow window in selects of their own, with    *)
(* the verdict of the gate on the last one, then the status.               *)
deploy_one(r) ==
    /\ Start(r) /\ Exists
    /\ req' = [req EXCEPT ![r] = [op |-> "deploy", pc |-> "crashes", cand |-> strat.result]]
    /\ UNCHANGED <<rows, tsv, faults, bumped>>

ReadCrashes(r) ==
    /\ req[r].pc = "crashes"
    /\ req' = [req EXCEPT ![r] = [op |-> "deploy", pc |-> "report", cand |-> req[r].cand,
                                  clear |-> list_open_crashes = 0]]
    /\ UNCHANGED <<rows, tsv, ops, faults, bumped>>

ReadReport(r) ==
    /\ req[r].pc = "report"
    /\ req' = [req EXCEPT ![r] = [op |-> "deploy", pc |-> "shadow", cand |-> req[r].cand,
                                  clear |-> req[r].clear, final |-> has_final_report]]
    /\ UNCHANGED <<rows, tsv, ops, faults, bumped>>

Gate(r) ==
    /\ req[r].pc = "shadow"
    /\ IF check_promotion_v3(req[r].cand, req[r].final, req[r].clear,
                             has_shadow_observation, DefaultContext) = {}
       THEN Goto(r, "mark") ELSE Finish(r)
    /\ UNCHANGED <<rows, tsv, ops, faults, bumped>>

Mark(r) ==
    /\ req[r].pc = "mark"
    /\ strat' = IF Exists THEN [strat EXCEPT !.status = "pending_review"] ELSE strat
    /\ Finish(r)
    /\ UNCHANGED <<events, exps, reports, runs, jobs, tsv, ops, faults, bumped>>

----------------------------------------------------------------------------
(* Repository calls of the worker, the orchestrator and the operator.      *)

External == Exists /\ ops < MaxOps /\ ops' = ops + 1 /\ UNCHANGED <<tsv, req, faults, bumped>>

update_status ==
    /\ External
    /\ \E s \in {"backtest_running", "analyzed", "deployed", "rejected"} :
         strat' = [strat EXCEPT !.status = s]
    /\ UNCHANGED <<events, exps, reports, runs, jobs>>

update_latest_result ==
    /\ External
    /\ \E res \in Results : strat' = [strat EXCEPT !.result = res]
    /\ UNCHANGED <<events, exps, reports, runs, jobs>>

create_run ==
    /\ External
    /\ <<strat.version, "backtest">> \notin runs
    /\ runs' = runs \cup {<<strat.version, "backtest">>}
    /\ UNCHANGED <<strat, events, exps, reports, jobs>>

(* The experiment the verdict policy suggests for a new result, with its   *)
(* reasoning (always long enough), decided by someone or left open.        *)
record_experiment ==
    /\ External
    /\ \E res \in Results, decided \in BOOLEAN :
         exps' = Append(exps, [verdict |-> suggest_verdict(strat.result, res,
                                              DEFAULT_DRAWDOWN_BASELINE),
                               from |-> strat.version, to |-> strat.version + 1, decided |-> decided])
    /\ UNCHANGED <<strat, events, reports, runs, jobs>>

create_report ==
    /\ External
    /\ \E i \in Reports, f \in Findings \cup {None} :
         /\ reports[i] = NoRow
         /\ reports' = [reports EXCEPT ![i] = [status |-> "draft", finding |-> f, published |-> FALSE]]
    /\ UNCHANGED <<strat, events, exps, runs, jobs>>

reset_stagnation ==
    /\ External
    /\ strat' = [strat EXCEPT !.stag = 0]
    /\ UNCHANGED <<events, exps, reports, runs, jobs>>

(* publish_report: the select and its checks, then the UPDATE by id.       *)
publish_report(r) ==
    /\ Start(r) /\ Exists
    /\ \E i \in Reports, f \in Findings :
         /\ reports[i].status = "draft"
         /\ check_reserved_finding(f) /\ validate_report_final("final", f, TRUE)
         /\ req' = [req EXCEPT ![r] = [op |-> "publish", pc |-> "publish", report |-> i, finding |-> f]]
    /\ UNCHANGED <<rows, tsv, faults, bumped>>

Publish(r) ==
    /\ req[r].pc = "publish"
    /\ reports' = IF reports[req[r].report] = NoRow THEN reports
                  ELSE [reports EXCEPT ![req[r].report] =
                          [status |-> "final", finding |-> req[r].finding, published |-> TRUE]]
    /\ Finish(r)
    /\ UNCHANGED <<strat, events, exps, runs, jobs, tsv, ops, faults, bumped>>

Handler(r) ==
    \/ create_strategy_route(r) \/ enqueue_strategy_create(r)
    \/ refine_one(r) \/ Bump(r) \/ Observe(r)
    \/ record_event_dual(r) \/ InsertEvent(r) \/ MirrorEvent(r)
    \/ write_header_if_missing(r) \/ Truncate(r) \/ WriteHeader(r)
    \/ ReadTsv(r) \/ append_crash_safe(r) \/ TsvFails(r)
    \/ deploy_one(r) \/ ReadCrashes(r) \/ ReadReport(r) \/ Gate(r) \/ Mark(r)
    \/ publish_report(r) \/ Publish(r)

Repository ==
    \/ Delete \/ update_status \/ update_latest_result \/ create_run
    \/ record_experiment \/ create_report \/ reset_stagnation

Next == Repository \/ \E r \in Requests : Handler(r)

Spec == Init /\ [][Next]_vars

----------------------------------------------------------------------------
(* Properties.                                                             *)

(* D-FT-08: whatever refines overlap, the version counts every committed   *)
(* one (current_version = current_version + 1).                            *)
VersionCounts == Exists => strat.version = 1 + bumped

(* D-FT-18, the half the code keeps: the database is written first, so a   *)
(* row of the .tsv is an event of the database, and no event is in the     *)
(* file twice, whichever appends overlap or fail.  The other half it does  *)
(* not keep: an event may be missing from the file.                        *)
TsvBacked ==
    Exists =>
      /\ \A i \in DOMAIN tsv.rows :
           tsv.rows[i].id \in DOMAIN events /\ events[tsv.rows[i].id].event = tsv.rows[i].event
      /\ \A i, j \in DOMAIN tsv.rows : tsv.rows[i].id = tsv.rows[j].id => i = j

(* ON DELETE CASCADE with foreign keys on: no request that was under way   *)
(* when the strategy was deleted leaves a row behind.                      *)
NoOrphans ==
    ~Exists => /\ events = <<>> /\ exps = <<>> /\ runs = {} /\ jobs = {}
               /\ \A i \in Reports : reports[i] = NoRow

(* The records of a strategy add up: versions, the .tsv against the        *)
(* database, and nothing left of a strategy that was deleted.              *)
RecordsSound == VersionCounts /\ TsvBacked /\ NoOrphans

(* D-FT-20 and D-FT-22: of what deploy read before it writes the status,   *)
(* the final report and the shadow window still stand when it does, however*)
(* the reads were spread: nothing takes a final report or a shadow_end     *)
(* back.  The result and the open crashes may have changed in between.     *)
DeployBacked ==
    [][(strat'.status = "pending_review" /\ strat.status # "pending_review")
         => has_final_report /\ has_shadow_observation]_vars

(* The row rule of ft_strategy_reports, which SQLite does not enforce:     *)
(* every final report carries a finding, and a final report stays final.   *)
FinalSticky ==
    [][\A i \in Reports :
         /\ reports'[i].status = "final" =>
              validate_report_final("final", reports'[i].finding, reports'[i].published)
         /\ reports[i].status = "final" => reports'[i].status = "final" \/ strat' = NoRow]_vars

(* No step of two requests in flight deploys what is not backed, or takes  *)
(* a final report back.                                                    *)
LifecycleSteps == DeployBacked /\ FinalSticky

(* What orient advises, the routes and gates accept: refine is advised     *)
(* only where a refine without intent is allowed and no crash is open; and *)
(* the verdict policy and the promotion gate draw the same drawdown line.  *)
AdviceConsistent ==
    Exists =>
      /\ orient_strategy = "refine" =>
           recent_stable_count < STAGNATION_ROUNDS /\ list_open_crashes = 0
      /\ \A res \in Results :
           suggest_verdict(strat.result, res, DEFAULT_DRAWDOWN_BASELINE) = "crash"
             <=> "max_drawdown" \in check_promotion_v3(res, TRUE, TRUE, TRUE, DefaultContext)
============================================================================
