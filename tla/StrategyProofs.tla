--------------------------- MODULE StrategyProofs ---------------------------
(***************************************************************************)
(* Proofs about the two strategies a user sees.  The life of a freqtrade   *)
(* strategy (FtStrategy): its records add up, no step deploys what is not  *)
(* backed or takes a final report back, and what is advised is what the    *)
(* gates accept, for any number of requests in flight, operations and      *)
(* failures.  The trend-RSI strategy (RsiBacktest), for any series of      *)
(* candles, any parameters of a request and any account: what a trade can  *)
(* win and lose, the drawdown that is reported and the plan that is given. *)
(***************************************************************************)
EXTENDS FtStrategy, RsiBacktest, TLAPS


Ops == {"create", "refine", "event", "deploy", "publish"}
EventRows == [event : EventNames, id : Nat]

(* A request has, at each place, what the code has read by then.           *)
Posted == [op : Ops, pc : {"enqueue", "lookup", "insert"}, event : EventNames]
Refining == [op : Ops, pc : {"bump", "lookup", "insert"}, seen : Nat, event : EventNames]
Mirroring == [op : Ops, pc : {"mirror", "header", "truncate", "headline", "read"}, event : EventNames, id : Nat]
Appending == [op : Ops, pc : {"replace"}, event : EventNames, id : Nat, chunk : Seq(EventRows)]
Candidates == Results \cup {EmptyResult}
Gating == [op : Ops, pc : {"crashes"}, cand : Candidates]
Counted == [op : Ops, pc : {"report"}, cand : Candidates, clear : BOOLEAN]
Deploying == [op : Ops, pc : {"shadow", "mark"}, cand : Candidates, clear : BOOLEAN, final : BOOLEAN]
Publishing == [op : Ops, pc : {"publish"}, report : Reports, finding : Findings]
Doing == {Idle} \cup Posted \cup Refining \cup Mirroring \cup Appending
           \cup Gating \cup Counted \cup Deploying \cup Publishing

FtTypes ==
    /\ strat \in StrategyRows \cup {NoRow}
    /\ events \in Seq(EventRows)
    /\ reports \in [Reports -> ReportRows \cup {NoRow}]
    /\ tsv \in [made : BOOLEAN, rows : Seq(EventRows)]
    /\ req \in [Requests -> Doing]
    /\ ops \in Nat /\ bumped \in Nat

(* The strategy is created before anything else happens and never again.   *)
Unborn == ~Exists /\ ops = 0
UnbornInv == Unborn => bumped = 0 /\ tsv.rows = <<>> /\ \A r \in Requests : req[r] = Idle

(* Rows of a .tsv, or of a copy of it, are events, each at most once.      *)
Backed(list) ==
    /\ \A i \in DOMAIN list : list[i].id \in DOMAIN events /\ events[list[i].id].event = list[i].event
    /\ \A i, j \in DOMAIN list : list[i].id = list[j].id => i = j
Absent(id, list) == \A i \in DOMAIN list : list[i].id # id

(* The event of a request that has still to reach the file is in the       *)
(* database, is its own, and is in no copy of the file.                    *)
Owes(r) == req[r].pc \in {"mirror", "header", "truncate", "headline", "read", "replace"}
MirrorInv ==
    Exists =>
      /\ Backed(tsv.rows)
      /\ \A r \in Requests : req[r].pc = "replace" => Backed(req[r].chunk)
      /\ \A r \in Requests : Owes(r) =>
           /\ req[r].id \in DOMAIN events /\ events[req[r].id].event = req[r].event
           /\ Absent(req[r].id, tsv.rows)
           /\ \A q \in Requests : req[q].pc = "replace" => Absent(req[r].id, req[q].chunk)
           /\ \A q \in Requests : Owes(q) /\ req[q].id = req[r].id => q = r

(* What a deploy saw of the report and the shadow window still stands.     *)
DeployInv ==
    Exists => \A r \in Requests :
      /\ req[r].pc \in {"shadow", "mark"} /\ req[r].final => has_final_report
      /\ req[r].pc = "mark" => req[r].final /\ has_shadow_observation

(* A finding under way to a report, or in a final one, is one.             *)
ReportInv ==
    /\ \A r \in Requests : req[r].pc = "publish" => check_reserved_finding(req[r].finding)
    /\ \A i \in Reports : reports[i].status = "final" =>
         validate_report_final("final", reports[i].finding, reports[i].published)

FtInv == FtTypes /\ UnbornInv /\ VersionCounts /\ MirrorInv /\ DeployInv /\ ReportInv /\ NoOrphans

-----------------------------------------------------------------------------
(* Where a request is tells what it has read.                              *)
LEMMA Shapes ==
  ASSUME FtTypes, NEW r \in Requests
  PROVE  /\ req[r].pc = "enqueue" => req[r] \in Posted
         /\ req[r].pc = "bump" => req[r] \in Refining
         /\ req[r].pc \in {"lookup", "insert"} => req[r] \in Posted \cup Refining
         /\ req[r].pc \in {"mirror", "header", "truncate", "headline", "read"} => req[r] \in Mirroring
         /\ req[r].pc = "replace" => req[r] \in Appending
         /\ req[r].pc = "crashes" => req[r] \in Gating
         /\ req[r].pc = "report" => req[r] \in Counted
         /\ req[r].pc \in {"shadow", "mark"} => req[r] \in Deploying
         /\ req[r].pc = "publish" => req[r] \in Publishing
BY DEF FtTypes, Doing, Idle, Posted, Refining, Mirroring, Appending, Gating, Counted, Deploying, Publishing

LEMMA RowsAreRows ==
  /\ NoRow \notin StrategyRows
  /\ NoRow \notin ReportRows
  /\ NoRow.status = "none"
  /\ Idle.pc = "idle"
  /\ Idle \in Doing
BY DEF NoRow, StrategyRows, ReportRows, Idle, Doing

(* The other requests stay where they are.                                 *)
LEMMA Finishes ==
  ASSUME FtTypes, NEW r \in Requests, Finish(r)
  PROVE  /\ req' \in [Requests -> Doing]
         /\ req'[r] = Idle /\ \A q \in Requests \ {r} : req'[q] = req[q]
BY RowsAreRows DEF FtTypes, Finish

LEMMA Becomes ==
  ASSUME FtTypes, NEW r \in Requests, NEW d \in Doing, req' = [req EXCEPT ![r] = d]
  PROVE  /\ req' \in [Requests -> Doing]
         /\ req'[r] = d /\ \A q \in Requests \ {r} : req'[q] = req[q]
BY DEF FtTypes

LEMMA GoesTo ==
  ASSUME FtTypes, NEW r \in Requests, NEW pc, Goto(r, pc), [req[r] EXCEPT !.pc = pc] \in Doing
  PROVE  /\ req' \in [Requests -> Doing]
         /\ req'[r] = [req[r] EXCEPT !.pc = pc] /\ \A q \in Requests \ {r} : req'[q] = req[q]
BY DEF FtTypes, Goto

-----------------------------------------------------------------------------
LEMMA FtInvInit == Init => FtInv
<1> SUFFICES ASSUME Init PROVE FtInv
  OBVIOUS
<1>1. PICK past \in Pasts :
        /\ strat = past.strat
        /\ events = [i \in DOMAIN past.log |-> [event |-> past.log[i], id |-> i]]
        /\ reports = past.reports
        /\ tsv = [made |-> past.log # <<>>, rows |-> events]
  BY DEF Init
<1>2. /\ past.strat \in StrategyRows \cup {NoRow} /\ past.log \in Seq(EventNames)
      /\ past.reports \in [Reports -> ReportRows \cup {NoRow}]
      /\ \A i \in Reports : past.reports[i].status = "final" =>
           validate_report_final("final", past.reports[i].finding, past.reports[i].published)
      /\ past.strat = NoRow => past.log = <<>> /\ \A i \in Reports : past.reports[i] = NoRow
  BY FtAssumption
<1>3. events \in Seq(EventRows) /\ DOMAIN events = DOMAIN past.log
  <2>1. DOMAIN past.log = 1..Len(past.log) /\ Len(past.log) \in Nat
    BY <1>2
  <2>2. \A i \in 1..Len(past.log) : [event |-> past.log[i], id |-> i] \in EventRows
    BY <1>2, <2>1 DEF EventRows
  <2>3. events = [i \in 1..Len(past.log) |-> [event |-> past.log[i], id |-> i]]
    BY <1>1, <2>1
  <2> QED
    BY <2>1, <2>2, <2>3
<1>4. \A i \in DOMAIN events : events[i].id = i
  BY <1>1, <1>3
<1>5. /\ exps = <<>> /\ runs = {} /\ jobs = IF Exists THEN {"code"} ELSE {}
      /\ req = [r \in Requests |-> Idle] /\ ops = 0
      /\ bumped = IF Exists THEN strat.version - 1 ELSE 0
  BY DEF Init
<1>6. \A r \in Requests : req[r] = Idle /\ req[r].pc = "idle"
  BY <1>5, RowsAreRows
<1>7. bumped \in Nat /\ VersionCounts /\ (~Exists => bumped = 0)
  BY <1>1, <1>2, <1>5 DEF VersionCounts, Exists, StrategyRows
<1>8. tsv \in [made : BOOLEAN, rows : Seq(EventRows)] /\ tsv.rows = events
  BY <1>1, <1>3
<1>9. FtTypes
  BY <1>1, <1>2, <1>3, <1>5, <1>7, <1>8, RowsAreRows DEF FtTypes
<1>10. ~Exists => events = <<>>
  BY <1>1, <1>2, <1>3 DEF Exists
<1>11. UnbornInv
  BY <1>6, <1>7, <1>8, <1>10 DEF UnbornInv, Unborn
<1>12. MirrorInv
  BY <1>4, <1>6, <1>8 DEF MirrorInv, Backed, Owes
<1>13. DeployInv /\ ReportInv
  BY <1>1, <1>2, <1>6 DEF DeployInv, ReportInv
<1>14. NoOrphans
  BY <1>1, <1>2, <1>5, <1>10 DEF NoOrphans, Exists
<1> QED
  BY <1>7, <1>9, <1>11, <1>12, <1>13, <1>14 DEF FtInv

(* A request that goes where it neither owes the file a row nor has read   *)
(* what it is about to rely on.                                            *)
LEMMA QuietRequest ==
  ASSUME FtInv, NEW r \in Requests,
         req' \in [Requests -> Doing], \A q \in Requests \ {r} : req'[q] = req[q],
         req'[r].pc \notin {"mirror", "header", "truncate", "headline", "read", "replace", "shadow", "mark",
                          "publish"},
         UNCHANGED <<strat, events, exps, reports, runs, tsv, bumped>>,
         jobs' = jobs \/ Exists,
         ops' = ops + 1 \/ (ops' = ops /\ req[r] # Idle)
  PROVE  FtInv'
<1>1. FtTypes'
  BY DEF FtInv, FtTypes
<1>2. UnbornInv'
  BY DEF FtInv, FtTypes, UnbornInv, Unborn, Exists
<1>3. VersionCounts'
  BY DEF FtInv, VersionCounts, Exists
<1>4. MirrorInv'
  BY DEF FtInv, MirrorInv, Backed, Absent, Owes, Exists
<1>5. DeployInv' /\ ReportInv'
  BY DEF FtInv, DeployInv, ReportInv, Exists, has_final_report, has_shadow_observation
<1>6. NoOrphans'
  BY DEF FtInv, NoOrphans, Exists
<1> QED
  BY <1>1, <1>2, <1>3, <1>4, <1>5, <1>6 DEF FtInv

(* A write to the row, or to what hangs from it, that leaves the version   *)
(* and the log alone and takes no final report back.                       *)
LEMMA RowWrite ==
  ASSUME FtInv, Exists, strat' \in StrategyRows, strat'.version = strat.version,
         reports' \in [Reports -> ReportRows \cup {NoRow}],
         \A i \in Reports : reports'[i] = reports[i] \/ (reports[i].status # "final" /\ reports'[i].status # "final"),
         ops' \in Nat, req' = req, UNCHANGED <<events, tsv, bumped>>
  PROVE  FtInv'
<1>1. Exists'
  BY RowsAreRows DEF Exists
<1>2. FtTypes'
  BY DEF FtInv, FtTypes
<1>3. UnbornInv' /\ NoOrphans' /\ VersionCounts'
  BY <1>1 DEF UnbornInv, Unborn, NoOrphans, FtInv, VersionCounts
<1>4. MirrorInv'
  BY DEF FtInv, MirrorInv, Backed, Absent, Owes
<1>5. DeployInv' /\ ReportInv'
  BY DEF FtInv, DeployInv, ReportInv, has_final_report, has_shadow_observation
<1> QED
  BY <1>2, <1>3, <1>4, <1>5 DEF FtInv

LEMMA RepositoryKeeps == ASSUME FtInv, Repository PROVE FtInv'
<1>0. FtTypes /\ ops \in Nat
  BY DEF FtInv, FtTypes
<1>1. ASSUME External, strat' = strat \/ (strat' \in StrategyRows /\ strat'.version = strat.version),
             reports' = reports, events' = events
      PROVE  FtInv'
  <2>1. Exists /\ strat \in StrategyRows /\ reports' \in [Reports -> ReportRows \cup {NoRow}]
    BY <1>0, <1>1 DEF External, Exists, FtTypes
  <2>2. ops' \in Nat /\ req' = req /\ UNCHANGED <<events, tsv, bumped>>
    BY <1>0, <1>1 DEF External
  <2>3. strat' \in StrategyRows /\ strat'.version = strat.version
    BY <1>1, <2>1
  <2> QED
    BY <1>1, <2>1, <2>2, <2>3, RowWrite
<1>2. CASE update_status \/ update_latest_result \/ reset_stagnation
  <2>1. External /\ reports' = reports /\ events' = events
    BY <1>2 DEF update_status, update_latest_result, reset_stagnation
  <2>2. strat \in StrategyRows
    BY <1>0, <2>1 DEF External, Exists, FtTypes
  <2>3. strat' \in StrategyRows /\ strat'.version = strat.version
    BY <1>2, <2>2 DEF update_status, update_latest_result, reset_stagnation, StrategyRows, Statuses
  <2> QED
    BY <1>1, <2>1, <2>3
<1>3. CASE create_run \/ record_experiment
  BY <1>1, <1>3 DEF create_run, record_experiment
<1>4. CASE create_report
  <2>1. External /\ strat' = strat /\ events' = events
    BY <1>4 DEF create_report
  <2>2. PICK i \in Reports, f \in Findings \cup {None} :
          /\ reports[i] = NoRow
          /\ reports' = [reports EXCEPT ![i] = [status |-> "draft", finding |-> f, published |-> FALSE]]
    BY <1>4 DEF create_report
  <2>3. [status |-> "draft", finding |-> f, published |-> FALSE] \in ReportRows
    BY DEF ReportRows
  <2>4. reports' \in [Reports -> ReportRows \cup {NoRow}]
    BY <1>0, <2>2, <2>3 DEF FtTypes
  <2>5. \A j \in Reports :
          reports'[j] = reports[j] \/ (reports[j].status # "final" /\ reports'[j].status # "final")
    BY <1>0, <2>2, RowsAreRows DEF FtTypes
  <2> QED
    <3>1. Exists /\ strat' \in StrategyRows /\ strat'.version = strat.version
      BY <1>0, <2>1 DEF External, Exists, FtTypes
    <3>2. ops' \in Nat /\ req' = req /\ UNCHANGED <<events, tsv, bumped>>
      BY <1>0, <2>1 DEF External
    <3> QED
      BY <2>4, <2>5, <3>1, <3>2, RowWrite
<1>5. CASE Delete
  <2>1. /\ ops' = ops + 1 /\ strat' = NoRow /\ events' = <<>> /\ exps' = <<>> /\ runs' = {} /\ jobs' = {}
        /\ reports' = [i \in Reports |-> NoRow] /\ UNCHANGED <<tsv, req, bumped>>
    BY <1>5 DEF Delete, delete_one
  <2>2. ~Exists'
    BY <2>1 DEF Exists
  <2>3. FtTypes'
    BY <1>0, <2>1 DEF FtTypes
  <2>4. UnbornInv' /\ VersionCounts' /\ MirrorInv' /\ DeployInv'
    BY <1>0, <2>1, <2>2 DEF UnbornInv, Unborn, VersionCounts, MirrorInv, DeployInv
  <2>5. ReportInv' /\ NoOrphans'
    BY <2>1, RowsAreRows DEF FtInv, ReportInv, NoOrphans
  <2> QED
    BY <2>3, <2>4, <2>5 DEF FtInv
<1> QED
  BY <1>2, <1>3, <1>4, <1>5 DEF Repository

LEMMA CreateKeeps == ASSUME FtInv, NEW r \in Requests, create_strategy_route(r) PROVE FtInv'
<1>0. FtTypes
  BY DEF FtInv
<1> DEFINE row == [status |-> "draft", version |-> 1, last |-> "create", stag |-> 0, result |-> EmptyResult]
           d == [op |-> "create", pc |-> "enqueue", event |-> "create"]
<1>1. /\ Unborn /\ ops' = ops + 1 /\ strat' = row /\ req' = [req EXCEPT ![r] = d]
      /\ UNCHANGED <<events, exps, reports, runs, jobs, tsv, bumped>>
  BY DEF create_strategy_route, Start, Unborn
<1>2. row \in StrategyRows /\ row.version = 1 /\ d \in Doing /\ d.pc = "enqueue"
  BY DEF StrategyRows, Statuses, EventNames, Doing, Posted, Ops
<1> HIDE DEF row, d
<1>3. /\ req' \in [Requests -> Doing] /\ req'[r] = d /\ \A q \in Requests \ {r} : req'[q] = req[q]
  BY <1>0, <1>1, <1>2, Becomes
<1>4. bumped = 0 /\ tsv.rows = <<>> /\ \A q \in Requests : req[q] = Idle
  BY <1>1 DEF FtInv, UnbornInv
<1>5. \A q \in Requests : req'[q].pc \in {"enqueue", "idle"}
  BY <1>2, <1>3, <1>4, RowsAreRows
<1>6. Exists' /\ FtTypes' /\ VersionCounts'
  BY <1>0, <1>1, <1>2, <1>3, <1>4, RowsAreRows DEF Exists, FtTypes, VersionCounts
<1>7. UnbornInv' /\ NoOrphans'
  BY <1>6 DEF UnbornInv, Unborn, NoOrphans
<1>8. MirrorInv'
  BY <1>1, <1>4, <1>5 DEF MirrorInv, Owes, Backed
<1>9. DeployInv' /\ ReportInv'
  BY <1>1, <1>5 DEF DeployInv, ReportInv, FtInv
<1> QED
  BY <1>6, <1>7, <1>8, <1>9 DEF FtInv

(* Steps that change where the request is and nothing of what is proved    *)
(* about.                                                                  *)
LEMMA WaitingKeeps ==
  ASSUME FtInv, NEW r \in Requests,
         \/ enqueue_strategy_create(r) \/ refine_one(r) \/ Observe(r) \/ record_event_dual(r)
         \/ TsvFails(r) \/ deploy_one(r) \/ ReadCrashes(r)
  PROVE  FtInv'
<1>0. FtTypes
  BY DEF FtInv
<1>1. CASE enqueue_strategy_create(r)
  <2>1. req[r] \in Posted /\ req[r] # Idle /\ Goto(r, "lookup")
    BY <1>0, <1>1, Shapes, RowsAreRows DEF enqueue_strategy_create
  <2>2. [req[r] EXCEPT !.pc = "lookup"] \in Doing /\ [req[r] EXCEPT !.pc = "lookup"].pc = "lookup"
    BY <2>1 DEF Posted, Doing
  <2>3. /\ req' \in [Requests -> Doing] /\ req'[r].pc = "lookup"
        /\ \A q \in Requests \ {r} : req'[q] = req[q]
    BY <1>0, <2>1, <2>2, GoesTo
  <2> QED
    BY <1>1, <2>1, <2>3, QuietRequest DEF enqueue_strategy_create
<1>2. CASE refine_one(r)
  <2>1. strat \in StrategyRows
    BY <1>0, <1>2 DEF refine_one, Exists, FtTypes
  <2>2. PICK intent \in {None, "evolve", "fork", "kill"} :
          req' = [req EXCEPT ![r] = [op |-> "refine", pc |-> "bump", seen |-> strat.version,
                                     event |-> IF intent = None THEN "evolve" ELSE intent]]
    BY <1>2 DEF refine_one
  <2> DEFINE d == [op |-> "refine", pc |-> "bump", seen |-> strat.version,
                   event |-> IF intent = None THEN "evolve" ELSE intent]
  <2>3. d \in Doing /\ d.pc = "bump"
    BY <2>1 DEF Doing, Refining, StrategyRows, None, EventNames, Ops
  <2> HIDE DEF d
  <2>4. /\ req' \in [Requests -> Doing] /\ req'[r] = d
        /\ \A q \in Requests \ {r} : req'[q] = req[q]
    BY <1>0, <2>2, <2>3, Becomes DEF d
  <2> QED
    BY <1>2, <2>3, <2>4, QuietRequest DEF refine_one, Start, rows
<1>3. CASE Observe(r)
  <2>1. PICK e \in {"stable", "shadow_start", "shadow_end"} :
          req' = [req EXCEPT ![r] = [op |-> "event", pc |-> "lookup", event |-> e]]
    BY <1>3 DEF Observe
  <2>2. [op |-> "event", pc |-> "lookup", event |-> e] \in Doing
    BY DEF Doing, Posted, EventNames, Ops
  <2>3. /\ req' \in [Requests -> Doing] /\ req'[r].pc = "lookup"
        /\ \A q \in Requests \ {r} : req'[q] = req[q]
    BY <1>0, <2>1, <2>2, Becomes
  <2> QED
    BY <1>3, <2>3, QuietRequest DEF Observe, Start, rows
<1>4. CASE record_event_dual(r)
  <2>1. req[r] \in Posted \cup Refining /\ req[r] # Idle
    BY <1>0, <1>4, Shapes, RowsAreRows DEF record_event_dual
  <2>2. [req[r] EXCEPT !.pc = "insert"] \in Doing /\ [req[r] EXCEPT !.pc = "insert"].pc = "insert"
    BY <2>1 DEF Posted, Refining, Doing
  <2>3. /\ req' \in [Requests -> Doing] /\ req'[r].pc \in {"insert", "idle"}
        /\ \A q \in Requests \ {r} : req'[q] = req[q]
    BY <1>0, <1>4, <2>1, <2>2, GoesTo, Finishes, RowsAreRows DEF record_event_dual
  <2> QED
    BY <1>4, <2>1, <2>3, QuietRequest DEF record_event_dual, rows
<1>5. CASE TsvFails(r)
  <2>1. req[r] # Idle /\ Finish(r)
    BY <1>5, RowsAreRows DEF TsvFails
  <2>2. /\ req' \in [Requests -> Doing] /\ req'[r].pc = "idle"
        /\ \A q \in Requests \ {r} : req'[q] = req[q]
    BY <1>0, <2>1, Finishes, RowsAreRows
  <2> QED
    BY <1>5, <2>1, <2>2, QuietRequest DEF TsvFails, rows
<1>6. CASE deploy_one(r)
  <2>1. [op |-> "deploy", pc |-> "crashes", cand |-> strat.result] \in Doing
    BY <1>0, <1>6 DEF deploy_one, Exists, FtTypes, StrategyRows, Doing, Gating, Candidates, Ops
  <2>2. /\ req' \in [Requests -> Doing] /\ req'[r].pc = "crashes"
        /\ \A q \in Requests \ {r} : req'[q] = req[q]
    BY <1>0, <1>6, <2>1, Becomes DEF deploy_one
  <2> QED
    BY <1>6, <2>2, QuietRequest DEF deploy_one, Start, rows
<1>7. CASE ReadCrashes(r)
  <2>1. req[r] \in Gating /\ req[r] # Idle
    BY <1>0, <1>7, Shapes, RowsAreRows DEF ReadCrashes
  <2> DEFINE none == list_open_crashes = 0
             d == [op |-> "deploy", pc |-> "report", cand |-> req[r].cand, clear |-> none]
  <2>2. none \in BOOLEAN
    OBVIOUS
  <2> HIDE DEF none
  <2>3. d \in Doing /\ d.pc = "report"
    BY <2>1, <2>2 DEF Gating, Counted, Doing, Ops
  <2>4. req' = [req EXCEPT ![r] = d]
    BY <1>7 DEF ReadCrashes, none
  <2> HIDE DEF d
  <2>5. /\ req' \in [Requests -> Doing] /\ req'[r].pc = "report"
        /\ \A q \in Requests \ {r} : req'[q] = req[q]
    BY <1>0, <2>3, <2>4, Becomes
  <2> QED
    BY <1>7, <2>1, <2>5, QuietRequest DEF ReadCrashes, rows
<1> QED
  BY <1>1, <1>2, <1>3, <1>4, <1>5, <1>6, <1>7

LEMMA BumpKeeps == ASSUME FtInv, NEW r \in Requests, Bump(r) PROVE FtInv'
<1>0. FtTypes /\ req[r] \in Refining /\ req[r] # Idle
  BY Shapes, RowsAreRows DEF FtInv, Bump
<1>1. CASE ~Exists
  <2>1. /\ req' \in [Requests -> Doing] /\ req'[r].pc = "idle"
        /\ \A q \in Requests \ {r} : req'[q] = req[q]
    BY <1>0, <1>1, Finishes, RowsAreRows DEF Bump, refine
  <2> QED
    BY <1>0, <1>1, <2>1, QuietRequest DEF Bump, refine
<1>2. CASE Exists
  <2>1. /\ strat' = [strat EXCEPT !.version = @ + 1, !.status = "refining"] /\ bumped' = bumped + 1
        /\ Goto(r, "lookup") /\ UNCHANGED <<events, exps, reports, runs, jobs, tsv, ops>>
    BY <1>2 DEF Bump, refine
  <2>2. strat \in StrategyRows
    BY <1>0, <1>2 DEF FtTypes, Exists
  <2>3. strat' \in StrategyRows /\ strat'.version = strat.version + 1
    <3>1. strat.version + 1 \in Nat \ {0} /\ "refining" \in Statuses
      BY <2>2 DEF StrategyRows, Statuses
    <3> QED
      BY <2>1, <2>2, <3>1 DEF StrategyRows
  <2>4. [req[r] EXCEPT !.pc = "lookup"] \in Doing /\ [req[r] EXCEPT !.pc = "lookup"].pc = "lookup"
    BY <1>0 DEF Refining, Doing
  <2>5. /\ req' \in [Requests -> Doing] /\ req'[r].pc = "lookup"
        /\ \A q \in Requests \ {r} : req'[q] = req[q]
    BY <1>0, <2>1, <2>4, GoesTo
  <2>6. Exists' /\ FtTypes'
    BY <1>0, <2>1, <2>3, <2>5, RowsAreRows DEF Exists, FtTypes
  <2>7. VersionCounts'
    BY <1>2, <2>1, <2>2, <2>3 DEF FtInv, FtTypes, VersionCounts, StrategyRows
  <2>8. UnbornInv' /\ NoOrphans'
    BY <2>6 DEF UnbornInv, Unborn, NoOrphans
  <2>9. MirrorInv'
    BY <1>2, <2>1, <2>5 DEF FtInv, MirrorInv, Backed, Absent, Owes
  <2>10. DeployInv' /\ ReportInv'
    BY <1>2, <2>1, <2>5 DEF FtInv, DeployInv, ReportInv, has_final_report, has_shadow_observation
  <2> QED
    BY <2>6, <2>7, <2>8, <2>9, <2>10 DEF FtInv
<1> QED
  BY <1>1, <1>2

(* The new event has an id that no row and no copy of the file has.        *)
LEMMA InsertKeeps == ASSUME FtInv, NEW r \in Requests, InsertEvent(r) PROVE FtInv'
<1>0. FtTypes /\ req[r] \in Posted \cup Refining /\ req[r] # Idle
  BY Shapes, RowsAreRows DEF FtInv, InsertEvent
<1>1. CASE ~Exists
  <2>1. /\ req' \in [Requests -> Doing] /\ req'[r].pc = "idle"
        /\ \A q \in Requests \ {r} : req'[q] = req[q]
    BY <1>0, <1>1, Finishes, RowsAreRows DEF InsertEvent, record_event
  <2> QED
    BY <1>0, <1>1, <2>1, QuietRequest DEF InsertEvent, record_event
<1>2. CASE Exists
  <2> DEFINE num == Len(events) + 1
             e == req[r].event
             d == [op |-> req[r].op, pc |-> "mirror", event |-> e, id |-> num]
             row == [event |-> e, id |-> num]
  <2>1. /\ events' = Append(events, row) /\ req' = [req EXCEPT ![r] = d]
        /\ UNCHANGED <<strat, exps, reports, runs, jobs, tsv, ops, bumped>>
    BY <1>2 DEF InsertEvent, record_event
  <2>2. num \in Nat /\ e \in EventNames /\ req[r].op \in Ops
    BY <1>0 DEF FtTypes, Posted, Refining
  <2>3. d \in Doing /\ d.pc = "mirror" /\ d.event = e /\ d.id = num /\ row \in EventRows /\ row.event = e
    BY <2>2 DEF Doing, Mirroring, EventRows
  <2>4. /\ events' \in Seq(EventRows) /\ num \notin DOMAIN events /\ num \in DOMAIN events'
        /\ events'[num] = row /\ DOMAIN events \subseteq DOMAIN events'
        /\ \A i \in DOMAIN events : events'[i] = events[i]
    <3>1. Len(events) \in Nat /\ DOMAIN events = 1..Len(events)
      BY <1>0 DEF FtTypes
    <3>2. events \in Seq(EventRows)
      BY <1>0 DEF FtTypes
    <3> HIDE DEF row
    <3>3. /\ Append(events, row) \in Seq(EventRows) /\ DOMAIN Append(events, row) = 1..(Len(events) + 1)
          /\ Append(events, row)[Len(events) + 1] = row
          /\ \A i \in 1..Len(events) : Append(events, row)[i] = events[i]
      BY <2>3, <3>2
    <3> QED
      BY <2>1, <3>1, <3>3
  <2> HIDE DEF num, e, d, row
  <2>5. /\ req' \in [Requests -> Doing] /\ req'[r] = d /\ \A q \in Requests \ {r} : req'[q] = req[q]
    BY <1>0, <2>1, <2>3, Becomes
  <2>6. FtTypes' /\ Exists' /\ VersionCounts'
    BY <1>0, <1>2, <2>1, <2>4, <2>5 DEF FtTypes, Exists, FtInv, VersionCounts
  <2>7. UnbornInv' /\ NoOrphans'
    BY <2>6 DEF UnbornInv, Unborn, NoOrphans
  <2>8. MirrorInv'
    <3>1. Backed(tsv.rows)' /\ Absent(num, tsv'.rows)
      BY <1>2, <2>1, <2>4 DEF FtInv, MirrorInv, Backed, Absent
    <3>2. \A q \in Requests : req'[q].pc = "replace" =>
            q # r /\ Backed(req[q].chunk) /\ Backed(req[q].chunk)' /\ Absent(num, req[q].chunk)
      BY <1>2, <2>3, <2>4, <2>5 DEF FtInv, MirrorInv, Backed, Absent
    <3>3. \A q \in Requests \ {r} : Owes(q)' => Owes(q) /\ req'[q].id # num
      BY <1>2, <2>4, <2>5 DEF FtInv, MirrorInv, Owes
    <3> QED
      BY <1>2, <2>1, <2>3, <2>4, <2>5, <3>1, <3>2, <3>3 DEF FtInv, MirrorInv, Owes, Backed, Absent
  <2>9. DeployInv' /\ ReportInv'
    BY <1>2, <2>1, <2>3, <2>4, <2>5 DEF FtInv, DeployInv, ReportInv, has_final_report, has_shadow_observation
  <2> QED
    BY <2>6, <2>7, <2>8, <2>9 DEF FtInv
<1> QED
  BY <1>1, <1>2

(* Between the insert and the append a request keeps its event.            *)
LEMMA MirrorKeeps ==
  ASSUME FtInv, NEW r \in Requests,
         MirrorEvent(r) \/ write_header_if_missing(r) \/ Truncate(r) \/ WriteHeader(r)
  PROVE  FtInv'
<1>0. FtTypes /\ req[r] \in Mirroring /\ req[r] # Idle /\ Owes(r)
  BY Shapes, RowsAreRows
     DEF FtInv, MirrorEvent, write_header_if_missing, Truncate, WriteHeader, Owes
<1>1. PICK pc \in {"header", "truncate", "headline", "read"} : Goto(r, pc)
  BY DEF MirrorEvent, write_header_if_missing, Truncate, WriteHeader
<1> DEFINE d == [req[r] EXCEPT !.pc = pc]
<1>2. d \in Doing /\ d.pc = pc /\ d.id = req[r].id /\ d.event = req[r].event
  BY <1>0 DEF Mirroring, Doing
<1>3. /\ req' \in [Requests -> Doing] /\ req'[r] = d /\ \A q \in Requests \ {r} : req'[q] = req[q]
  BY <1>0, <1>1, <1>2, GoesTo
<1> HIDE DEF d
<1>4. /\ UNCHANGED <<events, exps, reports, runs, jobs, ops, bumped>>
      /\ tsv'.rows \in {tsv.rows, <<>>} /\ tsv' \in [made : BOOLEAN, rows : Seq(EventRows)]
  <2>1. tsv \in [made : BOOLEAN, rows : Seq(EventRows)] /\ <<>> \in Seq(EventRows)
    BY <1>0 DEF FtTypes
  <2>2. CASE MirrorEvent(r)
    BY <2>1, <2>2 DEF MirrorEvent
  <2>3. CASE write_header_if_missing(r)
    BY <2>1, <2>3 DEF write_header_if_missing, rows
  <2>4. CASE Truncate(r)
    <3>1. tsv' = [made |-> FALSE, rows |-> <<>>] /\ UNCHANGED <<rows, ops, bumped>>
      BY <2>4 DEF Truncate
    <3> QED
      BY <2>1, <3>1 DEF rows
  <2>5. CASE WriteHeader(r)
    <3>1. PICK made \in {TRUE, tsv.made} : tsv' = [made |-> made, rows |-> tsv.rows]
      BY <2>5 DEF WriteHeader
    <3>2. made \in BOOLEAN /\ tsv.rows \in Seq(EventRows)
      BY <2>1
    <3>3. UNCHANGED <<rows, ops, bumped>>
      BY <2>5 DEF WriteHeader
    <3> QED
      BY <3>1, <3>2, <3>3 DEF rows
  <2> QED
    BY <2>2, <2>3, <2>4, <2>5
<1>5. ~Exists => strat' = strat
  BY DEF MirrorEvent, write_header_if_missing, Truncate, WriteHeader, rows
<1>6. Exists => strat' \in StrategyRows /\ strat'.version = strat.version
  <2>1. ASSUME Exists PROVE strat \in StrategyRows
    BY <1>0, <2>1 DEF FtTypes, Exists
  <2>2. ASSUME Exists, MirrorEvent(r) PROVE strat' \in StrategyRows /\ strat'.version = strat.version
    <3>1. PICK num \in Nat : strat' = [strat EXCEPT !.last = req[r].event, !.stag = num]
      <4>1. strat.stag \in Nat /\ strat.stag + 1 \in Nat
        BY <2>1, <2>2 DEF StrategyRows
      <4>2. \/ strat' = [strat EXCEPT !.last = req[r].event, !.stag = strat.stag + 1]
            \/ strat' = [strat EXCEPT !.last = req[r].event, !.stag = 0]
            \/ strat' = [strat EXCEPT !.last = req[r].event, !.stag = strat.stag]
        BY <2>2 DEF MirrorEvent
      <4> QED
        BY <4>1, <4>2
    <3>2. req[r].event \in EventNames
      BY <1>0 DEF Mirroring
    <3> QED
      BY <2>1, <2>2, <3>1, <3>2 DEF StrategyRows
  <2> QED
    BY <2>1, <2>2 DEF write_header_if_missing, Truncate, WriteHeader, rows
<1>7. Exists' = Exists /\ FtTypes'
  BY <1>0, <1>3, <1>4, <1>5, <1>6, RowsAreRows DEF Exists, FtTypes
<1>8. UnbornInv' /\ NoOrphans' /\ VersionCounts'
  BY <1>0, <1>3, <1>4, <1>5, <1>6, <1>7 DEF FtInv, UnbornInv, Unborn, NoOrphans, VersionCounts
<1>9. MirrorInv'
  <2> SUFFICES ASSUME Exists PROVE MirrorInv'
    BY <1>7 DEF MirrorInv
  <2>1. Backed(tsv.rows)' /\ \A q \in Requests : Owes(q) => Absent(req[q].id, tsv'.rows)
    BY <1>4 DEF FtInv, MirrorInv, Backed, Absent
  <2>2. \A q \in Requests : req'[q].pc = "replace" => req[q].pc = "replace" /\ req'[q] = req[q]
    BY <1>1, <1>2, <1>3
  <2>3. \A q \in Requests : Owes(q)' =>
          Owes(q) /\ req'[q].id = req[q].id /\ req'[q].event = req[q].event
    BY <1>0, <1>2, <1>3 DEF Owes
  <2>4. \A q \in Requests : req'[q].pc = "replace" => Backed(req[q].chunk)'
    BY <1>4, <2>2 DEF FtInv, MirrorInv, Backed
  <2>5. ASSUME NEW p \in Requests, Owes(p)'
        PROVE  /\ req'[p].id \in DOMAIN events' /\ events'[req'[p].id].event = req'[p].event
               /\ Absent(req'[p].id, tsv'.rows)
               /\ \A q \in Requests : req'[q].pc = "replace" => Absent(req'[p].id, req'[q].chunk)
               /\ \A q \in Requests : Owes(q)' /\ req'[q].id = req'[p].id => q = p
    BY <1>4, <2>1, <2>2, <2>3, <2>5 DEF FtInv, MirrorInv
  <2> QED
    BY <2>1, <2>4, <2>5 DEF MirrorInv, Absent
<1>10. DeployInv' /\ ReportInv'
  BY <1>2, <1>3, <1>4, <1>7 DEF FtInv, DeployInv, ReportInv, has_final_report, has_shadow_observation
<1> QED
  BY <1>7, <1>8, <1>9, <1>10 DEF FtInv

(* The copy that is read has what the file has.                            *)
LEMMA ReadKeeps == ASSUME FtInv, NEW r \in Requests, ReadTsv(r) PROVE FtInv'
<1>0. FtTypes /\ req[r] \in Mirroring /\ req[r] # Idle /\ Owes(r)
  BY Shapes, RowsAreRows DEF FtInv, ReadTsv, Owes
<1> DEFINE d == [op |-> req[r].op, pc |-> "replace", event |-> req[r].event,
                 id |-> req[r].id, chunk |-> tsv.rows]
<1>1. req' = [req EXCEPT ![r] = d] /\ UNCHANGED <<strat, events, exps, reports, runs, jobs, tsv, ops, bumped>>
  BY DEF ReadTsv, rows
<1>2. /\ d \in Doing /\ d.pc = "replace" /\ d.id = req[r].id /\ d.event = req[r].event
      /\ d.chunk = tsv.rows
  BY <1>0 DEF Mirroring, Appending, Doing, FtTypes
<1> HIDE DEF d
<1>3. /\ req' \in [Requests -> Doing] /\ req'[r] = d /\ \A q \in Requests \ {r} : req'[q] = req[q]
  BY <1>0, <1>1, <1>2, Becomes
<1>4. FtTypes' /\ Exists' = Exists
  BY <1>0, <1>1, <1>3 DEF FtTypes, Exists
<1>5. UnbornInv' /\ NoOrphans' /\ VersionCounts'
  BY <1>0, <1>1, <1>4 DEF FtInv, UnbornInv, Unborn, NoOrphans, VersionCounts
<1>6. MirrorInv'
  <2> SUFFICES ASSUME Exists PROVE MirrorInv'
    BY <1>4 DEF MirrorInv
  <2>1. Backed(tsv.rows)' /\ \A q \in Requests : req'[q].pc = "replace" => Backed(req[q].chunk)'
    BY <1>1, <1>2, <1>3 DEF FtInv, MirrorInv, Backed
  <2>2. ASSUME NEW q \in Requests, Owes(q)'
        PROVE  Owes(q) /\ req'[q].id = req[q].id /\ req'[q].event = req[q].event
    BY <1>0, <1>2, <1>3, <2>2 DEF Owes
  <2>3. ASSUME NEW q \in Requests, req'[q].pc = "replace"
        PROVE  req'[q].chunk = tsv.rows \/ (req[q].pc = "replace" /\ req'[q].chunk = req[q].chunk)
    BY <1>2, <1>3, <2>3
  <2>4. ASSUME NEW p \in Requests, Owes(p)'
        PROVE  /\ req'[p].id \in DOMAIN events' /\ events'[req'[p].id].event = req'[p].event
               /\ Absent(req'[p].id, tsv'.rows)
               /\ \A q \in Requests : req'[q].pc = "replace" => Absent(req'[p].id, req'[q].chunk)
               /\ \A q \in Requests : Owes(q)' /\ req'[q].id = req'[p].id => q = p
    BY <1>1, <2>2, <2>3, <2>4 DEF FtInv, MirrorInv
  <2> QED
    BY <2>1, <2>4 DEF MirrorInv, Absent
<1>7. DeployInv' /\ ReportInv'
  BY <1>1, <1>2, <1>3, <1>4 DEF FtInv, DeployInv, ReportInv, has_final_report, has_shadow_observation
<1> QED
  BY <1>4, <1>5, <1>6, <1>7 DEF FtInv

(* The file becomes the copy with one more row, which no other request     *)
(* owes.                                                                   *)
LEMMA AppendKeeps == ASSUME FtInv, NEW r \in Requests, append_crash_safe(r) PROVE FtInv'
<1>0. FtTypes /\ req[r] \in Appending /\ req[r] # Idle /\ Owes(r) /\ req[r].pc = "replace"
  BY Shapes, RowsAreRows DEF FtInv, append_crash_safe, Owes
<1> DEFINE chunk == req[r].chunk
           row == [event |-> req[r].event, id |-> req[r].id]
           num == Len(chunk) + 1
<1>1. /\ tsv' = [made |-> TRUE, rows |-> Append(chunk, row)] /\ Finish(r)
      /\ UNCHANGED <<strat, events, exps, reports, runs, jobs, ops, bumped>>
  BY DEF append_crash_safe, rows
<1>2. chunk \in Seq(EventRows) /\ row \in EventRows /\ row.id = req[r].id /\ row.event = req[r].event
  BY <1>0 DEF Appending, EventRows
<1> HIDE DEF chunk, row
<1>3. /\ Len(chunk) \in Nat /\ DOMAIN chunk = 1..Len(chunk)
      /\ Append(chunk, row) \in Seq(EventRows) /\ DOMAIN Append(chunk, row) = 1..(Len(chunk) + 1)
      /\ Append(chunk, row)[Len(chunk) + 1] = row
      /\ \A i \in 1..Len(chunk) : Append(chunk, row)[i] = chunk[i]
  BY <1>2
<1>4. /\ tsv' \in [made : BOOLEAN, rows : Seq(EventRows)]
      /\ num \notin DOMAIN chunk /\ DOMAIN tsv'.rows = DOMAIN chunk \cup {num} /\ tsv'.rows[num] = row
      /\ \A i \in DOMAIN chunk : tsv'.rows[i] = chunk[i]
  <2>1. tsv' \in [made : BOOLEAN, rows : Seq(EventRows)] /\ tsv'.rows = Append(chunk, row)
    BY <1>0, <1>1, <1>3 DEF FtTypes
  <2>2. num \notin DOMAIN chunk /\ 1..(Len(chunk) + 1) = DOMAIN chunk \cup {num}
    BY <1>3
  <2> QED
    BY <1>3, <2>1, <2>2
<1> HIDE DEF num
<1>5. /\ req' \in [Requests -> Doing] /\ req'[r] = Idle /\ \A q \in Requests \ {r} : req'[q] = req[q]
  BY <1>0, <1>1, Finishes
<1>6. FtTypes' /\ Exists' = Exists
  BY <1>0, <1>1, <1>4, <1>5 DEF FtTypes, Exists
<1>7. UnbornInv' /\ NoOrphans' /\ VersionCounts'
  BY <1>0, <1>1, <1>6 DEF FtInv, UnbornInv, Unborn, NoOrphans, VersionCounts
<1>8. MirrorInv'
  <2> SUFFICES ASSUME Exists PROVE MirrorInv'
    BY <1>6 DEF MirrorInv
  <2>1. /\ Backed(chunk) /\ Absent(row.id, chunk)
        /\ row.id \in DOMAIN events /\ events[row.id].event = row.event
    BY <1>0, <1>2 DEF FtInv, MirrorInv, chunk
  <2>2. Backed(tsv.rows)'
    BY <1>1, <1>4, <2>1 DEF Backed, Absent
  <2>3. \A q \in Requests : Owes(q)' => q # r /\ Owes(q) /\ req'[q] = req[q]
    BY <1>5, RowsAreRows DEF Owes
  <2>4. \A q \in Requests : req'[q].pc = "replace" => q # r /\ req'[q] = req[q]
    BY <1>5, RowsAreRows
  <2>5. \A q \in Requests : Owes(q) /\ q # r => Absent(req[q].id, tsv'.rows)
    <3> SUFFICES ASSUME NEW q \in Requests, Owes(q), q # r PROVE Absent(req[q].id, tsv'.rows)
      OBVIOUS
    <3>1. Absent(req[q].id, chunk) /\ req[q].id # row.id
      BY <1>0, <1>2 DEF FtInv, MirrorInv, chunk
    <3> QED
      BY <1>4, <3>1 DEF Absent
  <2>6. \A q \in Requests : req'[q].pc = "replace" => Backed(req[q].chunk)'
    BY <1>1, <2>4 DEF FtInv, MirrorInv, Backed
  <2>7. ASSUME NEW p \in Requests, Owes(p)'
        PROVE  /\ req'[p].id \in DOMAIN events' /\ events'[req'[p].id].event = req'[p].event
               /\ Absent(req'[p].id, tsv'.rows)
               /\ \A q \in Requests : req'[q].pc = "replace" => Absent(req'[p].id, req'[q].chunk)
               /\ \A q \in Requests : Owes(q)' /\ req'[q].id = req'[p].id => q = p
    BY <1>1, <2>3, <2>4, <2>5, <2>7 DEF FtInv, MirrorInv
  <2> QED
    BY <2>2, <2>6, <2>7 DEF MirrorInv, Absent
<1>9. DeployInv' /\ ReportInv'
  BY <1>1, <1>5, <1>6, RowsAreRows DEF FtInv, DeployInv, ReportInv, has_final_report, has_shadow_observation
<1> QED
  BY <1>6, <1>7, <1>8, <1>9 DEF FtInv

(* The gate is open only with a final report and a closed shadow window.   *)
LEMMA GateReads ==
  ASSUME NEW c, NEW final \in BOOLEAN, NEW clear, NEW shadow \in BOOLEAN, NEW ctx,
         check_promotion_v3(c, final, clear, shadow, ctx) = {}
  PROVE  final /\ shadow
<1> DEFINE items == PromotionItems(c, final, clear, shadow, ctx)
<1>1. /\ "report_referenced" \in DOMAIN items /\ items["report_referenced"] = final
      /\ "shadow_observed" \in DOMAIN items /\ items["shadow_observed"] = shadow
  BY DEF PromotionItems
<1> HIDE DEF items
<1>2. {label \in DOMAIN items : ~items[label]} = {}
  BY DEF check_promotion_v3, items
<1> QED
  BY <1>1, <1>2

LEMMA ReadReportKeeps == ASSUME FtInv, NEW r \in Requests, ReadReport(r) PROVE FtInv'
<1>0. FtTypes /\ req[r] \in Counted /\ req[r] # Idle
  BY Shapes, RowsAreRows DEF FtInv, ReadReport
<1> DEFINE d == [op |-> "deploy", pc |-> "shadow", cand |-> req[r].cand,
                 clear |-> req[r].clear, final |-> has_final_report]
<1>1. req' = [req EXCEPT ![r] = d] /\ UNCHANGED <<strat, events, exps, reports, runs, jobs, tsv, ops, bumped>>
  BY DEF ReadReport, rows
<1>2. d \in Doing /\ d.pc = "shadow" /\ d.final = has_final_report
  <2>1. has_final_report \in BOOLEAN
    BY DEF has_final_report
  <2> QED
    BY <1>0, <2>1 DEF Counted, Deploying, Doing, Ops
<1> HIDE DEF d
<1>3. /\ req' \in [Requests -> Doing] /\ req'[r] = d /\ \A q \in Requests \ {r} : req'[q] = req[q]
  BY <1>0, <1>1, <1>2, Becomes
<1>4. FtTypes' /\ Exists' = Exists
  BY <1>0, <1>1, <1>3 DEF FtTypes, Exists
<1>5. UnbornInv' /\ NoOrphans' /\ VersionCounts'
  BY <1>0, <1>1, <1>4 DEF FtInv, UnbornInv, Unborn, NoOrphans, VersionCounts
<1>6. MirrorInv'
  BY <1>1, <1>2, <1>3, <1>4 DEF FtInv, MirrorInv, Backed, Absent, Owes
<1>7. DeployInv'
  BY <1>1, <1>2, <1>3, <1>4 DEF FtInv, DeployInv, has_final_report, has_shadow_observation
<1>8. ReportInv'
  BY <1>1, <1>2, <1>3 DEF FtInv, ReportInv
<1> QED
  BY <1>4, <1>5, <1>6, <1>7, <1>8 DEF FtInv

LEMMA GateKeeps == ASSUME FtInv, NEW r \in Requests, Gate(r) PROVE FtInv'
<1>0. FtTypes /\ req[r] \in Deploying /\ req[r] # Idle
  BY Shapes, RowsAreRows DEF FtInv, Gate
<1>1. UNCHANGED <<strat, events, exps, reports, runs, jobs, tsv, ops, bumped>>
  BY DEF Gate, rows
<1>2. CASE Finish(r)
  <2>1. /\ req' \in [Requests -> Doing] /\ req'[r].pc = "idle"
        /\ \A q \in Requests \ {r} : req'[q] = req[q]
    BY <1>0, <1>2, Finishes, RowsAreRows
  <2> QED
    BY <1>0, <1>1, <2>1, QuietRequest
<1>3. CASE /\ Goto(r, "mark")
           /\ check_promotion_v3(req[r].cand, req[r].final, req[r].clear,
                                 has_shadow_observation, DefaultContext) = {}
  <2>1. req[r].final /\ has_shadow_observation /\ (Exists => has_final_report)
    <3>1. req[r].final \in BOOLEAN /\ has_shadow_observation \in BOOLEAN
      BY <1>0 DEF Deploying, has_shadow_observation
    <3>2. req[r].final /\ has_shadow_observation
      BY <1>3, <3>1, GateReads
    <3> QED
      BY <3>2 DEF Gate, FtInv, DeployInv
  <2> DEFINE d == [req[r] EXCEPT !.pc = "mark"]
  <2>2. d \in Doing /\ d.pc = "mark" /\ d.final = req[r].final
    BY <1>0 DEF Deploying, Doing
  <2>3. /\ req' \in [Requests -> Doing] /\ req'[r].pc = "mark" /\ req'[r].final
        /\ \A q \in Requests \ {r} : req'[q] = req[q]
    BY <1>0, <1>3, <2>1, <2>2, GoesTo
  <2> HIDE DEF d
  <2>4. FtTypes' /\ Exists' = Exists
    BY <1>0, <1>1, <2>3 DEF FtTypes, Exists
  <2>5. UnbornInv' /\ NoOrphans' /\ VersionCounts'
    BY <1>0, <1>1, <2>4 DEF FtInv, UnbornInv, Unborn, NoOrphans, VersionCounts
  <2>6. MirrorInv'
    BY <1>1, <2>3, <2>4 DEF FtInv, MirrorInv, Backed, Absent, Owes
  <2>7. DeployInv' /\ ReportInv'
    BY <1>1, <2>1, <2>3, <2>4 DEF FtInv, DeployInv, ReportInv, has_final_report, has_shadow_observation
  <2> QED
    BY <2>4, <2>5, <2>6, <2>7 DEF FtInv
<1> QED
  BY <1>2, <1>3 DEF Gate

LEMMA MarkKeeps == ASSUME FtInv, NEW r \in Requests, Mark(r) PROVE FtInv'
<1>0. FtTypes /\ req[r] # Idle
  BY RowsAreRows DEF FtInv, Mark
<1>1. /\ req' \in [Requests -> Doing] /\ req'[r].pc = "idle"
      /\ \A q \in Requests \ {r} : req'[q] = req[q]
  BY <1>0, Finishes, RowsAreRows DEF Mark
<1>2. CASE ~Exists
  BY <1>0, <1>1, <1>2, QuietRequest DEF Mark
<1>3. CASE Exists
  <2>1. strat \in StrategyRows /\ strat' = [strat EXCEPT !.status = "pending_review"]
    BY <1>0, <1>3 DEF Mark, FtTypes, Exists
  <2>2. strat' \in StrategyRows /\ strat'.version = strat.version
    BY <2>1 DEF StrategyRows, Statuses
  <2>3. UNCHANGED <<events, exps, reports, runs, jobs, tsv, ops, bumped>>
    BY DEF Mark
  <2>4. FtTypes' /\ Exists'
    BY <1>0, <1>1, <2>2, <2>3, RowsAreRows DEF FtTypes, Exists
  <2>5. UnbornInv' /\ NoOrphans' /\ VersionCounts'
    BY <1>3, <2>2, <2>3, <2>4 DEF FtInv, UnbornInv, Unborn, NoOrphans, VersionCounts
  <2>6. MirrorInv'
    BY <1>1, <1>3, <2>3 DEF FtInv, MirrorInv, Backed, Absent, Owes
  <2>7. DeployInv' /\ ReportInv'
    BY <1>1, <1>3, <2>3 DEF FtInv, DeployInv, ReportInv, has_final_report, has_shadow_observation
  <2> QED
    BY <2>4, <2>5, <2>6, <2>7 DEF FtInv
<1> QED
  BY <1>2, <1>3

LEMMA PublishKeeps ==
  ASSUME FtInv, NEW r \in Requests, publish_report(r) \/ Publish(r)
  PROVE  FtInv'
<1>0. FtTypes
  BY DEF FtInv
<1>1. CASE publish_report(r)
  <2>1. PICK i \in Reports, f \in Findings :
          /\ check_reserved_finding(f)
          /\ req' = [req EXCEPT ![r] = [op |-> "publish", pc |-> "publish", report |-> i, finding |-> f]]
    BY <1>1 DEF publish_report
  <2> DEFINE d == [op |-> "publish", pc |-> "publish", report |-> i, finding |-> f]
  <2>2. d \in Doing /\ d.pc = "publish" /\ d.finding = f
    BY DEF Doing, Publishing, Ops
  <2> HIDE DEF d
  <2>3. /\ req' \in [Requests -> Doing] /\ req'[r] = d /\ \A q \in Requests \ {r} : req'[q] = req[q]
    BY <1>0, <2>1, <2>2, Becomes DEF d
  <2>4. ops' = ops + 1 /\ UNCHANGED <<strat, events, exps, reports, runs, jobs, tsv, bumped>>
    BY <1>1 DEF publish_report, Start, rows
  <2>5. FtTypes' /\ Exists' = Exists
    BY <1>0, <2>3, <2>4 DEF FtTypes, Exists
  <2>6. UnbornInv' /\ NoOrphans' /\ VersionCounts'
    BY <1>0, <2>4, <2>5 DEF FtInv, FtTypes, UnbornInv, Unborn, NoOrphans, VersionCounts
  <2>7. MirrorInv'
    BY <2>2, <2>3, <2>4, <2>5 DEF FtInv, MirrorInv, Backed, Absent, Owes
  <2>8. DeployInv' /\ ReportInv'
    BY <2>1, <2>2, <2>3, <2>4, <2>5 DEF FtInv, DeployInv, ReportInv, has_final_report, has_shadow_observation
  <2> QED
    BY <2>5, <2>6, <2>7, <2>8 DEF FtInv
<1>2. CASE Publish(r)
  <2>1. req[r] \in Publishing /\ req[r] # Idle /\ check_reserved_finding(req[r].finding)
    BY <1>0, <1>2, Shapes, RowsAreRows DEF Publish, FtInv, ReportInv
  <2>2. /\ req' \in [Requests -> Doing] /\ req'[r].pc = "idle"
        /\ \A q \in Requests \ {r} : req'[q] = req[q]
    BY <1>0, <1>2, Finishes, RowsAreRows DEF Publish
  <2>3. UNCHANGED <<strat, events, exps, runs, jobs, tsv, ops, bumped>>
    BY <1>2 DEF Publish
  <2> DEFINE i == req[r].report
             row == [status |-> "final", finding |-> req[r].finding, published |-> TRUE]
  <2>4. CASE reports' = reports
    BY <1>0, <2>1, <2>2, <2>3, <2>4, QuietRequest
  <2>5. CASE reports[i] # NoRow /\ reports' = [reports EXCEPT ![i] = row]
    <3>1. /\ i \in Reports /\ row \in ReportRows /\ row.status = "final"
          /\ validate_report_final("final", row.finding, row.published)
      BY <2>1 DEF Publishing, ReportRows, validate_report_final, check_reserved_finding
    <3> HIDE DEF row, i
    <3>2. /\ reports' \in [Reports -> ReportRows \cup {NoRow}]
          /\ \A j \in Reports : reports'[j] = row \/ reports'[j] = reports[j]
      BY <1>0, <2>5, <3>1 DEF FtTypes
    <3>3. Exists
      BY <2>5, <3>1 DEF FtInv, NoOrphans
    <3>4. FtTypes' /\ Exists'
      BY <1>0, <2>2, <2>3, <3>2, <3>3 DEF FtTypes, Exists
    <3>5. UnbornInv' /\ NoOrphans' /\ VersionCounts'
      BY <2>3, <3>3, <3>4 DEF FtInv, UnbornInv, Unborn, NoOrphans, VersionCounts
    <3>6. MirrorInv'
      BY <2>2, <2>3, <3>3 DEF FtInv, MirrorInv, Backed, Absent, Owes
    <3>7. DeployInv' /\ ReportInv'
      BY <2>2, <2>3, <3>1, <3>2, <3>3
         DEF FtInv, DeployInv, ReportInv, has_final_report, has_shadow_observation
    <3> QED
      BY <3>4, <3>5, <3>6, <3>7 DEF FtInv
  <2> QED
    BY <1>2, <2>4, <2>5 DEF Publish
<1> QED
  BY <1>1, <1>2

LEMMA FtInvHolds == Spec => []FtInv
<1>1. FtInv /\ [Next]_vars => FtInv'
  <2> SUFFICES ASSUME FtInv, [Next]_vars PROVE FtInv'
    OBVIOUS
  <2>1. CASE UNCHANGED vars
    <3>1. UNCHANGED <<strat, events, exps, reports, runs, jobs, tsv, req, ops, bumped>>
      BY <2>1 DEF vars, rows
    <3>2. FtTypes' /\ UnbornInv' /\ VersionCounts'
      BY <3>1 DEF FtInv, FtTypes, UnbornInv, Unborn, VersionCounts, Exists
    <3>3. MirrorInv'
      BY <3>1 DEF FtInv, MirrorInv, Backed, Absent, Owes, Exists
    <3>4. DeployInv' /\ ReportInv' /\ NoOrphans'
      BY <3>1 DEF FtInv, DeployInv, ReportInv, NoOrphans, Exists, has_final_report, has_shadow_observation
    <3> QED
      BY <3>2, <3>3, <3>4 DEF FtInv
  <2> QED
    BY <2>1, RepositoryKeeps, CreateKeeps, WaitingKeeps, BumpKeeps, InsertKeeps, MirrorKeeps, ReadKeeps,
       AppendKeeps, ReadReportKeeps, GateKeeps, MarkKeeps, PublishKeeps DEF Next, Handler
<1> QED
  BY <1>1, FtInvInit, PTL DEF Spec

-----------------------------------------------------------------------------
(* Whatever requests overlap or fail, the version counts every committed   *)
(* refine, every row of the .tsv is an event of the database and is there  *)
(* once, and nothing is left of a strategy that was deleted.               *)
THEOREM RecordsAreSound == Spec => []RecordsSound
<1>1. FtInv => RecordsSound
  BY DEF FtInv, RecordsSound, MirrorInv, Backed, TsvBacked
<1> QED
  BY <1>1, FtInvHolds, PTL

(* The final report and the closed shadow window that deploy read still    *)
(* stand when it writes the status (the result and the open crashes it     *)
(* read may have changed), every final report has its finding, and none is *)
(* taken back but with the strategy.                                       *)
THEOREM LifecycleStepsHold == Spec => LifecycleSteps
<1> DEFINE Marks == strat'.status = "pending_review" /\ strat.status # "pending_review"
                      => has_final_report /\ has_shadow_observation
           Sticks == \A i \in Reports :
                       /\ reports'[i].status = "final" =>
                            validate_report_final("final", reports'[i].finding, reports'[i].published)
                       /\ reports[i].status = "final" => reports'[i].status = "final" \/ strat' = NoRow
<1>1. ASSUME FtInv, [Next]_vars PROVE Marks \/ UNCHANGED vars
  <2> SUFFICES ASSUME Next, strat'.status = "pending_review", strat.status # "pending_review"
               PROVE  has_final_report /\ has_shadow_observation
    BY <1>1
  <2>0. FtTypes /\ (Exists => strat \in StrategyRows)
    BY <1>1 DEF FtInv, FtTypes, Exists
  <2>1. ~(UNCHANGED strat)
    OBVIOUS
  <2>2. ~Repository
    BY <2>0, <2>1, RowsAreRows DEF Repository, Delete, delete_one, update_status, update_latest_result,
       create_run, record_experiment, create_report, reset_stagnation, External, StrategyRows
  <2>3. PICK r \in Requests : Handler(r)
    BY <2>2 DEF Next
  <2>4. ~create_strategy_route(r)
    BY DEF create_strategy_route
  <2>5. ~Bump(r)
    BY <2>0, <2>1 DEF Bump, refine, StrategyRows
  <2>6. ~MirrorEvent(r)
    BY <2>0, <2>1 DEF MirrorEvent, StrategyRows
  <2>7. Mark(r)
    BY <2>1, <2>3, <2>4, <2>5, <2>6 DEF Handler, enqueue_strategy_create, refine_one, Observe,
       record_event_dual, InsertEvent, write_header_if_missing, Truncate, WriteHeader, ReadTsv,
       append_crash_safe, TsvFails, deploy_one, ReadCrashes, ReadReport, Gate, publish_report, Publish, rows
  <2> QED
    BY <1>1, <2>1, <2>7 DEF Mark, FtInv, DeployInv
<1>2. ASSUME FtInv, FtInv', [Next]_vars PROVE Sticks
  <2>1. \A i \in Reports : reports'[i].status = "final" =>
          validate_report_final("final", reports'[i].finding, reports'[i].published)
    BY <1>2 DEF FtInv, ReportInv
  <2>2. \A i \in Reports : reports[i].status = "final" => reports'[i].status = "final" \/ strat' = NoRow
    <3> SUFFICES ASSUME NEW i \in Reports, reports[i].status = "final", reports' # reports, strat' # NoRow
                 PROVE  reports'[i].status = "final"
      OBVIOUS
    <3>0. reports \in [Reports -> ReportRows \cup {NoRow}]
      BY <1>2 DEF FtInv, FtTypes
    <3>1. create_report \/ \E r \in Requests : Publish(r)
      BY <1>2 DEF Next, Handler, Repository, Delete, delete_one, update_status, update_latest_result,
         create_run, record_experiment, reset_stagnation, External, create_strategy_route,
         enqueue_strategy_create, refine_one, Bump, Observe, record_event_dual, InsertEvent, MirrorEvent,
         write_header_if_missing, Truncate, WriteHeader, ReadTsv, append_crash_safe, TsvFails,
         deploy_one, ReadCrashes, ReadReport, Gate, Mark, publish_report, rows, vars
    <3>2. CASE create_report
      BY <3>0, <3>2, RowsAreRows DEF create_report
    <3>3. ASSUME NEW r \in Requests, Publish(r) PROVE reports'[i].status = "final"
      BY <3>0, <3>3 DEF Publish
    <3> QED
      BY <3>1, <3>2, <3>3
  <2> QED
    BY <2>1, <2>2
<1>3. Spec => DeployBacked
  BY <1>1, FtInvHolds, PTL DEF Spec, DeployBacked
<1>4. Spec => FinalSticky
  BY <1>2, FtInvHolds, PTL DEF Spec, FinalSticky
<1> QED
  BY <1>3, <1>4 DEF LifecycleSteps

(* Where refine is advised it is accepted, and the verdict policy and the  *)
(* promotion gate draw the same line, for any results.                     *)
THEOREM AdviceIsConsistent == Spec => []AdviceConsistent
<1>1. AdviceConsistent
  <2>1. orient_strategy = "refine" => recent_stable_count < STAGNATION_ROUNDS /\ list_open_crashes = 0
    BY DEF orient_strategy, None
  <2>2. ASSUME NEW res \in Results
        PROVE  suggest_verdict(strat.result, res, DEFAULT_DRAWDOWN_BASELINE) = "crash"
                 <=> "max_drawdown" \in check_promotion_v3(res, TRUE, TRUE, TRUE, DefaultContext)
    <3> DEFINE items == PromotionItems(res, TRUE, TRUE, TRUE, DefaultContext)
    <3>1. "max_drawdown" \in DOMAIN items
      BY DEF PromotionItems
    <3>2. items["max_drawdown"] <=> res.max_dd <= DRAWDOWN_MULTIPLIER * DEFAULT_DRAWDOWN_BASELINE
      BY DEF PromotionItems, DefaultContext
    <3> HIDE DEF items
    <3>3. "max_drawdown" \in check_promotion_v3(res, TRUE, TRUE, TRUE, DefaultContext) <=> ~items["max_drawdown"]
      BY <3>1 DEF check_promotion_v3, items
    <3>4. res.max_dd \in Int
      BY FtAssumption
    <3>5. res.max_dd > DRAWDOWN_MULTIPLIER * DEFAULT_DRAWDOWN_BASELINE
            <=> ~(res.max_dd <= DRAWDOWN_MULTIPLIER * DEFAULT_DRAWDOWN_BASELINE)
      BY <3>4 DEF DRAWDOWN_MULTIPLIER, DEFAULT_DRAWDOWN_BASELINE
    <3>6. suggest_verdict(strat.result, res, DEFAULT_DRAWDOWN_BASELINE) = "crash"
            <=> ~(res.max_dd <= DRAWDOWN_MULTIPLIER * DEFAULT_DRAWDOWN_BASELINE)
      BY <3>5 DEF suggest_verdict
    <3> QED
      BY <3>2, <3>3, <3>6, Zenon
  <2> QED
    BY <2>1, <2>2 DEF AdviceConsistent
<1> QED
  BY <1>1, PTL

-----------------------------------------------------------------------------
(* The trend-RSI strategy *)


-----------------------------------------------------------------------------
(* Arithmetic *)

LEMMA MaxIs ==
  ASSUME NEW S, S \subseteq Int, NEW m \in S, \A y \in S : y <= m
  PROVE  Max(S) = m
<1>1. \A x \in S : (\A y \in S : x >= y) => x = m
  OBVIOUS
<1>2. \A y \in S : m >= y
  OBVIOUS
<1> QED
  BY <1>1, <1>2 DEF Max

LEMMA MaxOfTwo ==
  ASSUME NEW a \in Int, NEW b \in Int
  PROVE  /\ Max({a, b}) \in Int /\ Max({a, b}) \in {a, b}
         /\ a <= Max({a, b}) /\ b <= Max({a, b})
<1>1. CASE a <= b
  BY <1>1, MaxIs
<1>2. CASE b <= a
  BY <1>2, MaxIs
<1> QED
  BY <1>1, <1>2

LEMMA Quotient ==
  ASSUME NEW a \in Int, NEW b \in Nat \ {0}
  PROVE  a \div b \in Int /\ b * (a \div b) <= a /\ a < b * (a \div b) + b
OBVIOUS

\* A quotient lies between the integers that the dividend lies between.
LEMMA QuotientAtLeast ==
  ASSUME NEW a \in Int, NEW b \in Nat \ {0}, NEW k \in Int, k * b <= a
  PROVE  a \div b \in Int /\ k <= a \div b
<1>1. a \div b \in Int /\ b * (a \div b) <= a /\ a < b * (a \div b) + b
  BY Quotient
<1>2. SUFFICES ASSUME a \div b <= k - 1 PROVE FALSE
  BY <1>1
<1>3. b * (a \div b) <= b * (k - 1)
  BY <1>1, <1>2
<1>4. b * (k - 1) = k * b - b
  OBVIOUS
<1> QED
  BY <1>1, <1>3, <1>4

LEMMA QuotientAtMost ==
  ASSUME NEW a \in Int, NEW b \in Nat \ {0}, NEW k \in Int, a <= k * b
  PROVE  a \div b \in Int /\ a \div b <= k
<1>1. a \div b \in Int /\ b * (a \div b) <= a /\ a < b * (a \div b) + b
  BY Quotient
<1>2. SUFFICES ASSUME k + 1 <= a \div b PROVE FALSE
  BY <1>1
<1>3. b * (k + 1) <= b * (a \div b)
  BY <1>1, <1>2
<1>4. b * (k + 1) = k * b + b
  OBVIOUS
<1> QED
  BY <1>1, <1>3, <1>4

-----------------------------------------------------------------------------
(* The drawdown *)

Reasons == {"open", "stop_loss", "target", "trend_flip", "ttl", "end_of_data"}
ClosedTrade == [r : Int, reason : Reasons, t1 : BOOLEAN]

\* peak and max_dd are the highest point and the largest fall of the curve.
CurveInv ==
    /\ trades \in Seq(ClosedTrade)
    /\ curve \in Seq(Int) /\ Len(curve) = Len(trades) + 1 /\ curve[1] = 0
    /\ \A i \in DOMAIN trades : curve[i + 1] = curve[i] + trades[i].r
    /\ peak \in Int /\ max_dd \in Int
    /\ \E i \in DOMAIN curve : peak = curve[i]
    /\ \A i \in DOMAIN curve : curve[i] <= peak
    /\ \E i, j \in DOMAIN curve : i <= j /\ max_dd = curve[i] - curve[j]
    /\ \A i, j \in DOMAIN curve : i <= j => curve[i] - curve[j] <= max_dd

LEMMA CurveStarts == RsiInit => CurveInv
BY DEF RsiInit, CurveInv

\* A trade that closes moves the curve on by its R.
LEMMA CurveGrows ==
  ASSUME CurveInv, NEW t, RMultiple(t) \in Int, t.reason \in Reasons, t.t1_done \in BOOLEAN, Record(t)
  PROVE  CurveInv'
<1> DEFINE c == curve[Len(curve)] + RMultiple(t)
           n1 == Len(curve) + 1
<1>1. /\ Len(curve) \in Nat \ {0} /\ DOMAIN curve = 1..Len(curve) /\ \A i \in DOMAIN curve : curve[i] \in Int
  BY DEF CurveInv
<1>2. c \in Int
  BY <1>1
<1>3. curve' = Append(curve, c) /\ peak' = Max({peak, c}) /\ max_dd' = Max({max_dd, peak' - c})
  BY DEF Record, Last
<1>4. trades' = Append(trades, [r |-> RMultiple(t), reason |-> t.reason, t1 |-> t.t1_done])
  BY DEF Record
<1> HIDE DEF c
<1>5. /\ curve' \in Seq(Int) /\ Len(curve') = n1 /\ DOMAIN curve' = 1..n1
      /\ curve'[n1] = c /\ \A i \in DOMAIN curve : curve'[i] = curve[i]
  BY <1>1, <1>2, <1>3 DEF CurveInv
<1>6. trades' \in Seq(ClosedTrade) /\ Len(trades') = Len(curve) /\ trades'[Len(curve)].r = RMultiple(t)
      /\ \A i \in DOMAIN trades : trades'[i] = trades[i]
  <2> DEFINE row == [r |-> RMultiple(t), reason |-> t.reason, t1 |-> t.t1_done]
  <2>1. row \in ClosedTrade /\ row.r = RMultiple(t)
    BY DEF ClosedTrade
  <2>2. trades' = Append(trades, row)
    BY <1>4
  <2> HIDE DEF row
  <2> QED
    BY <2>1, <2>2 DEF CurveInv
<1>7. curve'[1] = 0 /\ \A i \in DOMAIN trades' : curve'[i + 1] = curve'[i] + trades'[i].r
  <2>1. curve'[1] = 0
    <3>1. 1 \in DOMAIN curve /\ curve[1] = 0
      BY <1>1 DEF CurveInv
    <3> QED
      BY <1>5, <3>1
  <2> SUFFICES ASSUME NEW i \in DOMAIN trades' PROVE curve'[i + 1] = curve'[i] + trades'[i].r
    BY <2>1
  <2>2. DOMAIN trades' = 1..Len(curve) /\ DOMAIN trades = 1..(Len(curve) - 1)
    BY <1>1, <1>6 DEF CurveInv
  <2>3. CASE i = Len(curve)
    BY <1>1, <1>5, <1>6, <2>3 DEF c
  <2>4. CASE i \in DOMAIN trades
    <3>1. i \in DOMAIN curve /\ i + 1 \in DOMAIN curve
      BY <1>1, <2>2, <2>4
    <3> QED
      BY <1>5, <1>6, <2>4, <3>1 DEF CurveInv
  <2> QED
    BY <1>1, <2>2, <2>3, <2>4
<1>8. /\ peak' \in Int /\ peak' \in {peak, c} /\ peak <= peak' /\ c <= peak'
  BY <1>2, <1>3, MaxOfTwo DEF CurveInv
<1>9. /\ max_dd' \in Int /\ max_dd' \in {max_dd, peak' - c} /\ max_dd <= max_dd' /\ peak' - c <= max_dd'
  <2> DEFINE d == peak' - c
  <2>1. d \in Int /\ max_dd \in Int
    BY <1>2, <1>8 DEF CurveInv
  <2>2. max_dd' = Max({max_dd, d})
    BY <1>3
  <2> HIDE DEF d
  <2>3. max_dd' \in Int /\ max_dd' \in {max_dd, d} /\ max_dd <= max_dd' /\ d <= max_dd'
    BY <2>1, <2>2, MaxOfTwo
  <2> QED
    BY <2>3 DEF d
<1>10. (\E i \in DOMAIN curve' : peak' = curve'[i]) /\ \A i \in DOMAIN curve' : curve'[i] \in Int /\ curve'[i] <= peak'
  <2>1. \E i \in DOMAIN curve' : peak' = curve'[i]
    <3>1. CASE peak' = c
      BY <1>1, <1>5, <3>1
    <3>2. CASE peak' = peak
      <4>1. PICK i \in DOMAIN curve : peak = curve[i]
        BY DEF CurveInv
      <4>2. i \in DOMAIN curve'
        BY <1>1, <1>5
      <4> QED
        BY <1>5, <3>2, <4>1, <4>2
    <3> QED
      BY <1>8, <3>1, <3>2
  <2>2. ASSUME NEW i \in DOMAIN curve' PROVE curve'[i] \in Int /\ curve'[i] <= peak'
    <3>1. CASE i = n1
      BY <1>2, <1>5, <1>8, <3>1
    <3>2. CASE i # n1
      <4>1. i \in DOMAIN curve
        BY <1>1, <1>5, <3>2
      <4>2. curve'[i] = curve[i] /\ curve[i] \in Int
        BY <1>1, <1>5, <4>1
      <4>3. curve[i] <= peak /\ peak \in Int
        BY <4>1 DEF CurveInv
      <4> QED
        BY <1>8, <4>2, <4>3
    <3> QED
      BY <3>1, <3>2
  <2> QED
    BY <2>1, <2>2
<1>11. \E i, j \in DOMAIN curve' : i <= j /\ max_dd' = curve'[i] - curve'[j]
  <2>1. CASE max_dd' = max_dd
    BY <1>1, <1>5, <2>1 DEF CurveInv
  <2>2. CASE max_dd' = peak' - c
    <3>1. PICK i \in DOMAIN curve' : peak' = curve'[i]
      BY <1>10
    <3>2. n1 \in DOMAIN curve' /\ i <= n1 /\ curve'[n1] = c
      BY <1>1, <1>5
    <3> QED
      BY <2>2, <3>1, <3>2
  <2> QED
    BY <1>9, <2>1, <2>2
<1>12. \A i, j \in DOMAIN curve' : i <= j => curve'[i] - curve'[j] <= max_dd'
  <2> SUFFICES ASSUME NEW i \in DOMAIN curve', NEW j \in DOMAIN curve', i <= j
               PROVE  curve'[i] - curve'[j] <= max_dd'
    OBVIOUS
  <2>1. CASE j = n1
    <3>1. curve'[i] \in Int /\ curve'[i] <= peak' /\ curve'[j] = c
      BY <1>5, <1>10, <2>1
    <3>2. curve'[i] - c <= peak' - c
      BY <1>2, <1>8, <3>1
    <3>3. peak' - c \in Int /\ curve'[i] - c \in Int
      BY <1>2, <1>8, <3>1
    <3>4. peak' - c <= max_dd' /\ max_dd' \in Int
      BY <1>9
    <3> QED
      BY <3>1, <3>2, <3>3, <3>4
  <2>2. CASE j # n1
    <3>1. i \in DOMAIN curve /\ j \in DOMAIN curve
      BY <1>1, <1>5, <2>2
    <3>2. curve[i] - curve[j] <= max_dd /\ curve[i] \in Int /\ curve[j] \in Int /\ max_dd \in Int
      BY <1>1, <3>1 DEF CurveInv
    <3> QED
      BY <1>5, <1>9, <3>1, <3>2
  <2> QED
    BY <2>1, <2>2
<1> QED
  BY <1>1, <1>5, <1>6, <1>7, <1>8, <1>9, <1>10, <1>11, <1>12 DEF CurveInv

LEMMA CurveExact == CurveInv => DrawdownExact
<1> SUFFICES ASSUME CurveInv PROVE DrawdownExact
  OBVIOUS
<1> DEFINE falls == UNION {{curve[i] - curve[j] : j \in i..Len(curve)} : i \in DOMAIN curve}
<1>1. Len(curve) \in Nat /\ DOMAIN curve = 1..Len(curve) /\ \A i \in DOMAIN curve : curve[i] \in Int
  BY DEF CurveInv
<1>2. \A x \in falls : \E i, j \in DOMAIN curve : i <= j /\ x = curve[i] - curve[j]
  BY <1>1
<1>3. \A x \in falls : x \in Int /\ x <= max_dd
  <2> TAKE x \in falls
  <2>1. PICK i \in DOMAIN curve, j \in DOMAIN curve : i <= j /\ x = curve[i] - curve[j]
    BY <1>2
  <2>2. curve[i] \in Int /\ curve[j] \in Int
    BY <1>1
  <2>3. curve[i] - curve[j] <= max_dd
    BY <2>1 DEF CurveInv
  <2> QED
    BY <2>1, <2>2, <2>3
<1>4. max_dd \in falls
  <2>1. PICK i \in DOMAIN curve, j \in DOMAIN curve : i <= j /\ max_dd = curve[i] - curve[j]
    BY DEF CurveInv
  <2>2. j \in i..Len(curve)
    BY <1>1, <2>1
  <2> QED
    BY <2>1, <2>2
<1>5. Max(falls) = max_dd
  BY <1>3, <1>4, MaxIs
<1> QED
  BY <1>5 DEF CurveInv, DrawdownExact

-----------------------------------------------------------------------------
(* A trade *)

Trade == [side : {LONG, SHORT}, entry : Int, risk : Int, stop : Int, target : Int,
          remaining : 0..4, realized : Int, t1_done : BOOLEAN, rsi_done : BOOLEAN,
          trailing : BOOLEAN, held : Nat, reason : Reasons]

Reward(t, p) == p.reward_risk * t.risk

\* What the parts that are closed have made, in quarters, and where the stop
\* may be.  Until the first target nothing is closed; then half is closed there.
Banked(t, p) ==
    /\ ~t.t1_done => /\ t.remaining \in {0, 4} /\ (t.remaining = 4 => t.realized = 0)
                     /\ t.realized >= -4 * t.risk
    /\ t.t1_done => /\ p.partial_mode /\ t.remaining \in {0, 1, 2}
                    /\ t.realized >= 2 * Reward(t, p) - (2 - t.remaining) * t.risk
    /\ ~p.partial_mode => t.realized <= 4 * Reward(t, p)

Stopped(t, p) ==
    /\ -t.risk <= Gain(t, t.stop)
    /\ ~p.partial_mode => ~t.trailing /\ Gain(t, t.stop) <= Reward(t, p)

Sane(t, p) ==
    /\ t \in Trade /\ t.risk >= 1 /\ Gain(t, t.target) = Reward(t, p)
    /\ Banked(t, p) /\ Stopped(t, p)

\* A price at which no more than the risk is lost, nor more than the target won.
Within(t, p, price) ==
    price \in Int /\ -t.risk <= Gain(t, price) /\ (p.partial_mode \/ Gain(t, price) <= Reward(t, p))

\* What is open may be closed at the close of the bar.
Safe(t, p, b) == t.remaining > 0 => Within(t, p, b.close)

\* A trade keeps what it was opened with.
Same(t, u) == u.side = t.side /\ u.entry = t.entry /\ u.risk = t.risk /\ u.target = t.target

LEMMA Numbers ==
  ASSUME NEW p \in Params, NEW t \in Trade, t.risk >= 1
  PROVE  /\ Reward(t, p) \in Int /\ Reward(t, p) >= 1
         /\ \A price \in Int : Gain(t, price) \in Int
         /\ p.partial_mode \in BOOLEAN
<1>1. p.reward_risk \in 1..5 /\ p.partial_mode \in BOOLEAN
  BY BacktestAssumption
<1>2. t.risk \in Int /\ t.entry \in Int /\ t.side \in {1, -1}
  BY DEF Trade, LONG, SHORT
<1>3. p.reward_risk * t.risk \in Int /\ p.reward_risk * t.risk >= 1
  BY <1>1, <1>2
<1> QED
  BY <1>1, <1>2, <1>3 DEF Reward, Gain

\* Closing what is open at such a price.
LEMMA ExitKeeps ==
  ASSUME NEW p \in Params, NEW t, Sane(t, p), t.remaining > 0, NEW price, Within(t, p, price),
         NEW why \in Reasons
  PROVE  Sane(Exit(t, price, why), p) /\ Same(t, Exit(t, price, why)) /\ Exit(t, price, why).remaining = 0
<1> DEFINE g == Gain(t, price)
           w == Reward(t, p)
           x == t.realized + t.remaining * g
           u == Exit(t, price, why)
<1>1. t \in Trade /\ t.risk >= 1
  BY DEF Sane
<1>2. g \in Int /\ w \in Int /\ w >= 1 /\ -t.risk <= g /\ (p.partial_mode \/ g <= w) /\ p.partial_mode \in BOOLEAN
  BY <1>1, Numbers DEF Within
<1>3. u = [t EXCEPT !.realized = x, !.remaining = 0, !.reason = why]
  BY DEF Exit
<1>4. x \in Int
  BY <1>1, <1>2 DEF Trade
<1> HIDE DEF u, g, x
<1>5. u \in Trade
  <2>1. 0 \in 0..4
    OBVIOUS
  <2> QED
    BY <1>1, <1>3, <1>4, <2>1 DEF Trade
<1>6. /\ u.remaining = 0 /\ u.realized = t.realized + t.remaining * g
      /\ u.t1_done = t.t1_done /\ u.stop = t.stop /\ u.trailing = t.trailing
  BY <1>1, <1>3 DEF Trade, x
<1>7. Same(t, u)
  BY <1>1, <1>3 DEF Trade, Same
<1>8. Reward(u, p) = w /\ \A y \in Int : Gain(u, y) = Gain(t, y)
  BY <1>7 DEF Same, Reward, Gain
<1>9. Banked(u, p)
  <2>1. CASE ~t.t1_done
    <3>1. t.remaining = 4 /\ t.realized = 0
      BY <2>1 DEF Sane, Banked
    <3>2. u.realized = 4 * g
      BY <1>2, <1>6, <3>1
    <3> QED
      BY <1>1, <1>2, <1>6, <1>7, <1>8, <2>1, <3>2 DEF Banked, Same, Trade
  <2>2. CASE t.t1_done
    <3>1. p.partial_mode /\ t.remaining \in {1, 2} /\ t.realized >= 2 * w - (2 - t.remaining) * t.risk
      BY <2>2 DEF Sane, Banked
    <3>2. u.realized >= 2 * w - 2 * t.risk
      <4>1. CASE t.remaining = 1
        BY <1>1, <1>2, <1>6, <3>1, <4>1 DEF Trade
      <4>2. CASE t.remaining = 2
        BY <1>1, <1>2, <1>6, <3>1, <4>2 DEF Trade
      <4> QED
        BY <3>1, <4>1, <4>2
    <3> QED
      BY <1>1, <1>2, <1>6, <1>7, <1>8, <2>2, <3>1, <3>2 DEF Banked, Same, Trade
  <2> QED
    BY <1>1, <2>1, <2>2 DEF Trade
<1>10. t.stop \in Int /\ t.target \in Int
  BY <1>1 DEF Trade
<1>11. Stopped(u, p)
  BY <1>6, <1>7, <1>8, <1>10 DEF Sane, Stopped, Same
<1>12. Gain(u, u.target) = Reward(u, p)
  BY <1>7, <1>8, <1>10 DEF Sane, Same
<1> QED
  BY <1>1, <1>5, <1>6, <1>7, <1>9, <1>11, <1>12 DEF Sane, Same, u

\* Trades with the same levels gain the same.
LEMMA SameGains ==
  ASSUME NEW p, NEW t, NEW u, Same(t, u)
  PROVE  /\ Reward(u, p) = Reward(t, p) /\ \A x : Gain(u, x) = Gain(t, x)
         /\ \A x : Within(t, p, x) <=> Within(u, p, x)
BY DEF Same, Reward, Gain, Within

LEMMA IsBar ==
  ASSUME NEW b \in Bars
  PROVE  /\ b.open \in Int /\ b.high \in Int /\ b.low \in Int /\ b.close \in Int
         /\ b.ema200 \in Int /\ b.ema50 \in Int /\ b.rsi \in Int /\ b.atr \in Int
         /\ 0 < b.low /\ b.low <= b.close /\ b.close <= b.high /\ b.ema200 > 0
BY BarAssumption DEF NaN

\* The stop fills at the stop; who is not stopped closes on the right side of it.
LEMMA StopLossKeeps ==
  ASSUME NEW p \in Params, NEW b \in Bars, NEW t, Sane(t, p)
  PROVE  LET u == StopLoss(t, b) IN
         /\ Sane(u, p) /\ Same(t, u)
         /\ u.remaining > 0 => u = t /\ -t.risk <= Gain(t, b.close)
<1> DEFINE u == StopLoss(t, b)
           hit == t.remaining > 0 /\ t.side * Worst(t, b) <= t.side * t.stop
<1>1. /\ t \in Trade /\ t.risk >= 1 /\ t.risk \in Int /\ t.side \in {1, -1} /\ t.entry \in Int
      /\ t.stop \in Int /\ t.remaining \in Int
  BY DEF Sane, Trade, LONG, SHORT
<1>2. CASE hit
  <2>1. u = Exit(t, t.stop, "stop_loss") /\ t.remaining > 0
    BY <1>2 DEF StopLoss
  <2>2. Within(t, p, t.stop)
    BY <1>1 DEF Sane, Stopped, Within
  <2> DEFINE x == Exit(t, t.stop, "stop_loss")
  <2>3. Sane(x, p) /\ Same(t, x) /\ x.remaining = 0
    BY <2>1, <2>2, ExitKeeps DEF Reasons
  <2> QED
    BY <2>1, <2>3
<1>3. CASE ~hit
  <2>1. u = t
    BY <1>3 DEF StopLoss
  <2>2. ASSUME t.remaining > 0 PROVE -t.risk <= Gain(t, b.close)
    <3>1. t.side * Worst(t, b) > t.side * t.stop
      <4>1. Worst(t, b) \in Int
        BY IsBar DEF Worst
      <4> QED
        BY <1>1, <1>3, <2>2, <4>1
    <3>2. -t.risk <= Gain(t, t.stop)
      BY DEF Sane, Stopped
    <3>3. CASE t.side = 1
      BY <1>1, <3>1, <3>2, <3>3, IsBar DEF Gain, Worst, LONG
    <3>4. CASE t.side = -1
      BY <1>1, <3>1, <3>2, <3>4, IsBar DEF Gain, Worst, LONG
    <3> QED
      BY <1>1, <3>3, <3>4
  <2> QED
    BY <2>1, <2>2 DEF Same
<1> QED
  BY <1>2, <1>3

\* Half of what is open is closed at a price that keeps the bound.
LEMMA FirstTargetKeeps ==
  ASSUME NEW p \in Params, NEW b \in Bars, NEW t, Sane(t, p),
         t.remaining > 0 => -t.risk <= Gain(t, b.close)
  PROVE  LET u == FirstTarget(t, b, p) IN Sane(u, p) /\ Same(t, u) /\ Safe(u, p, b)
<1> DEFINE u == FirstTarget(t, b, p)
           w == Reward(t, p)
<1>1. /\ t \in Trade /\ t.risk >= 1 /\ t.risk \in Int /\ t.side \in {1, -1} /\ t.entry \in Int
      /\ t.target \in Int /\ t.remaining \in Int /\ t.t1_done \in BOOLEAN
  BY DEF Sane, Trade, LONG, SHORT
<1>2. w \in Int /\ w >= 1 /\ p.partial_mode \in BOOLEAN /\ p.trailing_stop \in BOOLEAN /\ (\A x \in Int : Gain(t, x) \in Int)
  BY <1>1, Numbers, BacktestAssumption
<1>3. Gain(t, t.target) = w /\ Within(t, p, t.target)
  BY <1>1, <1>2 DEF Sane, Within
<1>4. CASE t.remaining = 0
  BY <1>4 DEF FirstTarget, Same, Safe
<1>5. CASE t.remaining # 0 /\ t.t1_done
  <2>1. u = t /\ p.partial_mode
    BY <1>5 DEF FirstTarget, Sane, Banked
  <2> QED
    BY <1>1, <1>5, <2>1, IsBar DEF Same, Safe, Within, Trade
<1>6. CASE t.remaining # 0 /\ ~t.t1_done /\ t.side * Best(t, b) < t.side * t.target
  <2>1. u = t
    BY <1>6 DEF FirstTarget
  <2>2. Gain(t, b.close) <= w
    <3>1. CASE t.side = 1
      BY <1>1, <1>3, <1>6, <3>1, IsBar DEF Gain, Best, LONG
    <3>2. CASE t.side = -1
      BY <1>1, <1>3, <1>6, <3>2, IsBar DEF Gain, Best, LONG
    <3> QED
      BY <1>1, <3>1, <3>2
  <2> QED
    BY <2>1, <2>2, IsBar DEF Same, Safe, Within
<1>7. CASE t.remaining # 0 /\ ~t.t1_done /\ ~(t.side * Best(t, b) < t.side * t.target) /\ ~p.partial_mode
  <2>1. u = Exit(t, t.target, "target") /\ t.remaining > 0
    BY <1>1, <1>7 DEF FirstTarget, Trade
  <2> DEFINE x == Exit(t, t.target, "target")
  <2>2. Sane(x, p) /\ Same(t, x) /\ x.remaining = 0
    BY <1>3, <2>1, ExitKeeps DEF Reasons
  <2> QED
    BY <2>1, <2>2 DEF Safe
<1>8. CASE t.remaining # 0 /\ ~t.t1_done /\ ~(t.side * Best(t, b) < t.side * t.target) /\ p.partial_mode
  <2>1. t.remaining = 4 /\ t.realized = 0
    BY <1>8 DEF Sane, Banked
  <2>2. t.realized + (t.remaining \div 2) * Gain(t, t.target) = 2 * w /\ t.remaining - t.remaining \div 2 = 2
    BY <1>2, <1>3, <2>1
  <2>3. u = [[t EXCEPT !.realized = 2 * w, !.remaining = 2]
              EXCEPT !.t1_done = TRUE, !.stop = t.entry, !.trailing = p.trailing_stop]
    BY <1>8, <2>2 DEF FirstTarget, Reduce
  <2>4. 2 * w \in Int /\ 2 \in 0..4
    BY <1>2
  <2> HIDE DEF u, w
  <2>5. u \in Trade
    BY <1>1, <1>2, <2>3, <2>4 DEF Trade
  <2>6. u.realized = 2 * w /\ u.remaining = 2 /\ u.t1_done /\ u.stop = t.entry
    BY <1>1, <2>3 DEF Trade
  <2>7. Same(t, u)
    BY <1>1, <2>3 DEF Trade, Same
  <2>8. Reward(u, p) = w /\ (\A x : Gain(u, x) = Gain(t, x)) /\ u.risk = t.risk
    BY <2>7, SameGains DEF Same, w
  <2>9. Banked(u, p)
    BY <1>1, <1>2, <1>8, <2>6, <2>8 DEF Banked
  <2>10. Gain(t, t.entry) = 0
    BY <1>1 DEF Gain
  <2>11. Stopped(u, p)
    BY <1>1, <1>8, <2>6, <2>8, <2>10 DEF Stopped
  <2>12. Gain(u, u.target) = Reward(u, p)
    BY <1>3, <2>7, <2>8 DEF Same
  <2>13. Safe(u, p, b)
    BY <1>1, <1>8, <2>1, <2>8, IsBar DEF Safe, Within
  <2> QED
    BY <1>1, <2>5, <2>7, <2>8, <2>9, <2>11, <2>12, <2>13 DEF Sane, u
<1> QED
  BY <1>1, <1>2, <1>4, <1>5, <1>6, <1>7, <1>8

LEMMA RsiExtremeKeeps ==
  ASSUME NEW p \in Params, NEW b \in Bars, NEW t, Sane(t, p), Safe(t, p, b)
  PROVE  LET u == RsiExtreme(t, b, p) IN Sane(u, p) /\ Same(t, u) /\ Safe(u, p, b)
<1> DEFINE u == RsiExtreme(t, b, p)
           g == Gain(t, b.close)
           w == Reward(t, p)
           half == t.remaining \div 2
           x == t.realized + half * g
           y == t.remaining - half
<1>1. /\ t \in Trade /\ t.risk >= 1 /\ t.risk \in Int /\ t.remaining \in 0..4 /\ t.stop \in Int /\ t.realized \in Int
  BY DEF Sane, Trade
<1>2. w \in Int /\ p.partial_mode \in BOOLEAN /\ g \in Int
  BY <1>1, Numbers, IsBar
<1>3. CASE u = t
  BY <1>3 DEF Same
<1>4. CASE u # t
  <2>1. t.remaining > 0 /\ p.partial_mode /\ t.t1_done /\ u = [Reduce(t, b.close) EXCEPT !.rsi_done = TRUE]
    BY <1>4 DEF RsiExtreme
  <2>2. u = [[t EXCEPT !.realized = x, !.remaining = y] EXCEPT !.rsi_done = TRUE]
    BY <2>1 DEF Reduce
  <2>3. -t.risk <= g
    BY <2>1 DEF Safe, Within
  <2>4. t.remaining \in {1, 2} /\ t.realized >= 2 * w - (2 - t.remaining) * t.risk
    BY <2>1 DEF Sane, Banked
  <2>5. x \in Int /\ y = 1 /\ x >= 2 * w - t.risk
    <3>1. CASE t.remaining = 1
      <4>1. half = 0
        BY <3>1
      <4> HIDE DEF half
      <4> QED
        BY <1>1, <1>2, <2>4, <3>1, <4>1
    <3>2. CASE t.remaining = 2
      <4>1. half = 1
        BY <3>2
      <4> HIDE DEF half
      <4> QED
        BY <1>1, <1>2, <2>3, <2>4, <3>2, <4>1
    <3> QED
      BY <2>4, <3>1, <3>2
  <2> HIDE DEF u, x, y, g, w, half
  <2>6. u \in Trade
    <3>1. y \in 0..4
      BY <2>5
    <3>2. [t EXCEPT !.realized = x, !.remaining = y] \in Trade
      BY <1>1, <2>5, <3>1 DEF Trade
    <3> QED
      BY <2>2, <3>2 DEF Trade
  <2>7. /\ u.realized = x /\ u.remaining = 1 /\ u.t1_done = t.t1_done /\ u.stop = t.stop /\ u.trailing = t.trailing
    BY <1>1, <2>2, <2>5 DEF Trade
  <2>8. Same(t, u)
    BY <1>1, <2>2 DEF Trade, Same
  <2>9. Reward(u, p) = w /\ (\A v : Gain(u, v) = Gain(t, v)) /\ u.risk = t.risk /\ u.target = t.target
        /\ (\A v : Within(t, p, v) <=> Within(u, p, v))
    BY <2>8, SameGains DEF Same, w
  <2>10. Banked(u, p)
    <3>1. (2 - u.remaining) * u.risk = t.risk
      BY <1>1, <2>7, <2>9
    <3> QED
      BY <1>1, <1>2, <2>1, <2>5, <2>7, <2>9, <3>1 DEF Banked
  <2>11. Stopped(u, p)
    BY <2>7, <2>9 DEF Sane, Stopped, w
  <2>12. Gain(u, u.target) = Reward(u, p)
    BY <2>9 DEF Sane, w
  <2>13. Safe(u, p, b)
    BY <2>1, <2>9 DEF Safe
  <2> QED
    BY <1>1, <2>6, <2>8, <2>9, <2>10, <2>11, <2>12, <2>13 DEF Sane, u
<1> QED
  BY <1>3, <1>4

\* The stop only climbs, and only in the partial mode.
LEMMA TrailKeeps ==
  ASSUME NEW p \in Params, NEW b \in Bars, NEW t, Sane(t, p), Safe(t, p, b)
  PROVE  LET u == Trail(t, b) IN Sane(u, p) /\ Same(t, u) /\ Safe(u, p, b)
<1> DEFINE u == Trail(t, b)
           c == b.close - t.side * b.atr
<1>1. /\ t \in Trade /\ t.risk >= 1 /\ t.risk \in Int /\ t.side \in {1, -1} /\ t.stop \in Int /\ t.entry \in Int
      /\ t.trailing \in BOOLEAN
  BY DEF Sane, Trade, LONG, SHORT
<1>2. c \in Int
  BY <1>1, IsBar
<1>3. CASE u = t
  BY <1>3 DEF Same
<1>4. CASE u # t
  <2>1. t.trailing /\ t.side * c > t.side * t.stop /\ u = [t EXCEPT !.stop = c]
    BY <1>4 DEF Trail
  <2> HIDE DEF u, c
  <2>2. u \in Trade
    BY <1>1, <1>2, <2>1 DEF Trade
  <2>3. /\ u.stop = c /\ u.realized = t.realized /\ u.remaining = t.remaining
        /\ u.t1_done = t.t1_done /\ u.trailing = t.trailing
    BY <1>1, <2>1 DEF Trade
  <2>4. Same(t, u)
    BY <1>1, <2>1 DEF Trade, Same
  <2>5. Reward(u, p) = Reward(t, p) /\ (\A v : Gain(u, v) = Gain(t, v)) /\ u.risk = t.risk /\ u.target = t.target
        /\ (\A v : Within(t, p, v) <=> Within(u, p, v))
    BY <2>4, SameGains DEF Same
  <2>6. Banked(u, p)
    BY <2>3, <2>5 DEF Sane, Banked
  <2>7. p.partial_mode /\ -t.risk <= Gain(t, t.stop)
    BY <2>1 DEF Sane, Stopped
  <2>8. -t.risk <= Gain(t, c)
    <3>1. CASE t.side = 1
      BY <1>1, <1>2, <2>1, <2>7, <3>1 DEF Gain
    <3>2. CASE t.side = -1
      BY <1>1, <1>2, <2>1, <2>7, <3>2 DEF Gain
    <3> QED
      BY <1>1, <3>1, <3>2
  <2>9. Stopped(u, p)
    BY <2>3, <2>5, <2>7, <2>8 DEF Stopped
  <2>10. Gain(u, u.target) = Reward(u, p)
    BY <2>5 DEF Sane
  <2>11. Safe(u, p, b)
    BY <2>3, <2>5 DEF Safe
  <2> QED
    BY <1>1, <2>2, <2>4, <2>5, <2>6, <2>9, <2>10, <2>11 DEF Sane, u
<1> QED
  BY <1>3, <1>4

\* Whatever closes the rest closes it at the close of the bar.
LEMMA CloseKeeps ==
  ASSUME NEW p \in Params, NEW b \in Bars, NEW t, Sane(t, p), Safe(t, p, b), NEW why \in Reasons,
         NEW u, u = t \/ (t.remaining > 0 /\ u = Exit(t, b.close, why))
  PROVE  Sane(u, p) /\ Same(t, u) /\ Safe(u, p, b)
<1>1. CASE u = t
  BY <1>1 DEF Same
<1>2. CASE t.remaining > 0 /\ u = Exit(t, b.close, why)
  <2>1. Within(t, p, b.close)
    BY <1>2 DEF Safe
  <2>2. Sane(u, p) /\ Same(t, u) /\ u.remaining = 0
    BY <1>2, <2>1, ExitKeeps
  <2> QED
    BY <2>2 DEF Safe
<1> QED
  BY <1>1, <1>2

LEMMA BarKeeps ==
  ASSUME NEW p \in Params, NEW b \in Bars, NEW t, Sane(t, p)
  PROVE  Sane(simulate_bar(t, b, p), p) /\ Safe(simulate_bar(t, b, p), p, b)
<1> DEFINE s1 == StopLoss(t, b)
           s2 == FirstTarget(s1, b, p)
           s3 == RsiExtreme(s2, b, p)
           s4 == Trail(s3, b)
           s5 == TrendFlip(s4, b, p)
           s6 == Ttl(s5, b, p)
<1>0. simulate_bar(t, b, p) = s6
  BY DEF simulate_bar
<1> HIDE DEF s1, s2, s3, s4, s5, s6
<1>1. Sane(s1, p) /\ (s1.remaining > 0 => -s1.risk <= Gain(s1, b.close))
  BY StopLossKeeps DEF s1
<1>2. Sane(s2, p) /\ Safe(s2, p, b)
  BY <1>1, FirstTargetKeeps DEF s2
<1>3. Sane(s3, p) /\ Safe(s3, p, b)
  BY <1>2, RsiExtremeKeeps DEF s3
<1>4. Sane(s4, p) /\ Safe(s4, p, b)
  BY <1>3, TrailKeeps DEF s4
<1>5. Sane(s5, p) /\ Safe(s5, p, b)
  <2>1. s5 = s4 \/ (s4.remaining > 0 /\ s5 = Exit(s4, b.close, "trend_flip"))
    BY DEF s5, TrendFlip
  <2>2. "trend_flip" \in Reasons
    BY DEF Reasons
  <2> QED
    BY <1>4, <2>1, <2>2, CloseKeeps
<1>6. Sane(s6, p) /\ Safe(s6, p, b)
  <2>1. s6 = s5 \/ (s5.remaining > 0 /\ s6 = Exit(s5, b.close, "ttl"))
    BY DEF s6, Ttl
  <2>2. "ttl" \in Reasons
    BY DEF Reasons
  <2> QED
    BY <1>5, <2>1, <2>2, CloseKeeps
<1> QED
  BY <1>0, <1>6

-----------------------------------------------------------------------------
(* A signal *)

Signal == [side : {LONG, SHORT}, entry : Int, stop : Int, target : Int, atr : Int,
           quality : 0..100, age : Nat]

\* It has a risk, a target in proportion and a price.
Usable(s, p) ==
    /\ s \in Signal /\ s.entry > 0 /\ s.side * (s.entry - s.stop) > 0
    /\ s.side * (s.target - s.entry) = p.reward_risk * (s.side * (s.entry - s.stop))

LEMMA QualityRange ==
  ASSUME NEW side \in {LONG, SHORT}, NEW b \in Bars, NEW was \in Int
  PROVE  signal_quality(side, b, was) \in 0..100
<1>1. CASE b.atr <= 0
  BY <1>1 DEF signal_quality
<1>2. CASE ~(b.atr <= 0)
  <2> DEFINE x == Least(Magnitude(b.close - b.ema200), 10 * b.atr) * 4
             y == Least(Magnitude(b.rsi - was), 20) * 25
             e == IF side * b.close > side * b.ema50 THEN 20 ELSE 0
             c == IF side * b.close > side * b.open THEN 15 ELSE 0
  <2>1. b.atr \in Nat \ {0}
    BY <1>2, IsBar
  <2>2. x \in Int /\ 0 <= x
    BY <2>1, IsBar DEF Least, Magnitude
  <2>3. y \in Int /\ 0 <= y
    BY IsBar DEF Least, Magnitude
  <2>4. e \in 0..20 /\ c \in 0..15
    OBVIOUS
  <2>5. signal_quality(side, b, was) = Least(100, x \div b.atr + e + y \div 20 + c)
    BY <1>2 DEF signal_quality
  <2> HIDE DEF x, y, e, c
  <2>6. x \div b.atr \in Int /\ 0 <= x \div b.atr
    BY <2>1, <2>2, QuotientAtLeast
  <2>7. y \div 20 \in Int /\ 0 <= y \div 20
    BY <2>3
  <2> QED
    BY <2>4, <2>5, <2>6, <2>7 DEF Least
<1> QED
  BY <1>1, <1>2

\* What the scan of a bar finds.
Found(found, b, p) ==
    found # <<>> => found = <<found[1]>> /\ Usable(found[1], p) /\ found[1].entry = b.close /\ found[1].age = 0

LEMMA StopType ==
  ASSUME NEW p \in Params, NEW b \in Bars, NEW side \in {LONG, SHORT}
  PROVE  StopOf(side, b, p) \in Int
<1>1. p.atr_mult \in 1..6
  BY BacktestAssumption
<1>2. (p.atr_mult * b.atr) \div 2 \in Int
  BY <1>1, IsBar
<1> QED
  BY <1>2, IsBar DEF StopOf, LONG, SHORT

LEMMA ScanFinds ==
  ASSUME NEW p \in Params, NEW b \in Bars, NEW was \in Int
  PROVE  Found(detect_signals_core(b, was, p), b, p)
<1> DEFINE found == detect_signals_core(b, was, p)
           fires(side) == /\ NaN \notin {b.rsi, was, b.atr}
                          /\ crossed(side, b, was, p.rsi_zone)
                          /\ side * b.close > side * b.ema200
                          /\ passes_filters(side, b, was, p)
           kept == {side \in {LONG, SHORT} : fires(side) /\ signal_quality(side, b, was) >= p.min_quality_score}
           side == CHOOSE x \in kept : TRUE
           s == [side |-> side, entry |-> b.close, stop |-> StopOf(side, b, p),
                 target |-> b.close + p.reward_risk * (b.close - StopOf(side, b, p)),
                 atr |-> b.atr, quality |-> signal_quality(side, b, was), age |-> 0]
<1>1. found = IF kept = {} THEN <<>> ELSE <<s>>
  BY DEF detect_signals_core
<1>2. SUFFICES ASSUME kept # {} PROVE found = <<s>> /\ Usable(s, p) /\ s.entry = b.close /\ s.age = 0
  BY <1>1 DEF Found
<1>3. side \in kept
  BY <1>2
<1>4. side \in {LONG, SHORT} /\ fires(side)
  BY <1>3
<1> HIDE DEF side, found, kept
<1>5. side * (b.close - StopOf(side, b, p)) > 0
  BY <1>4 DEF passes_filters
<1>6. /\ StopOf(side, b, p) \in Int /\ b.close \in Int /\ b.close > 0 /\ b.atr \in Int
      /\ p.reward_risk \in Int
  BY <1>4, StopType, IsBar, BacktestAssumption
<1>7. b.close + p.reward_risk * (b.close - StopOf(side, b, p)) \in Int
  BY <1>6
<1>8. signal_quality(side, b, was) \in 0..100
  BY <1>4, QualityRange
<1>9. s \in Signal
  BY <1>4, <1>6, <1>7, <1>8 DEF Signal
<1>10. side * ((b.close + p.reward_risk * (b.close - StopOf(side, b, p))) - b.close)
         = p.reward_risk * (side * (b.close - StopOf(side, b, p)))
  BY <1>4, <1>6 DEF LONG, SHORT
<1> QED
  BY <1>1, <1>2, <1>5, <1>6, <1>9, <1>10 DEF Usable

LEMMA OpenKeeps ==
  ASSUME NEW p \in Params, NEW b \in Bars, NEW s, Usable(s, p), s.entry = b.close
  PROVE  Sane(Open(s, b), p) /\ Safe(Open(s, b), p, b)
<1> DEFINE k == s.side * (s.entry - s.stop)
           t == [side |-> s.side, entry |-> s.entry, risk |-> k,
                 stop |-> s.stop, target |-> s.target, remaining |-> 4, realized |-> 0,
                 t1_done |-> FALSE, rsi_done |-> FALSE, trailing |-> FALSE,
                 held |-> 0, reason |-> "open"]
<1>0. Open(s, b) = StopLoss(t, b)
  BY DEF Open
<1>1. /\ s.side \in {LONG, SHORT} /\ s.side \in {1, -1} /\ s.entry \in Int /\ s.stop \in Int /\ s.target \in Int
  BY DEF Usable, Signal, LONG, SHORT
<1>2. k \in Int /\ k >= 1 /\ s.side * (s.target - s.entry) = p.reward_risk * k
  BY <1>1 DEF Usable
<1> HIDE DEF k
<1>3. t \in Trade
  BY <1>1, <1>2 DEF Trade, Reasons
<1>4. Reward(t, p) = p.reward_risk * k /\ \A x : Gain(t, x) = s.side * (x - s.entry)
  BY DEF Reward, Gain
<1>5. Reward(t, p) \in Int /\ Reward(t, p) >= 1 /\ p.partial_mode \in BOOLEAN
  BY <1>2, <1>3, Numbers
<1>6. Banked(t, p)
  BY <1>2, <1>5 DEF Banked
<1>7. Gain(t, t.stop) = -k
  <2>1. Gain(t, t.stop) = s.side * (s.stop - s.entry)
    BY <1>4
  <2>2. s.side * (s.stop - s.entry) = -(s.side * (s.entry - s.stop))
    BY <1>1
  <2> QED
    BY <2>1, <2>2 DEF k
<1>8. Stopped(t, p)
  BY <1>2, <1>5, <1>7 DEF Stopped
<1>9. Sane(t, p)
  BY <1>2, <1>3, <1>4, <1>6, <1>8 DEF Sane
<1>10. Gain(t, b.close) = 0
  <2>1. Gain(t, b.close) = s.side * (s.entry - s.entry)
    BY <1>4
  <2>2. s.side * (s.entry - s.entry) = 0
    BY <1>1
  <2> QED
    BY <2>1, <2>2
<1>11. Within(t, p, b.close)
  BY <1>2, <1>5, <1>10, IsBar DEF Within
<1> HIDE DEF t
<1>12. Sane(StopLoss(t, b), p) /\ (StopLoss(t, b).remaining > 0 => StopLoss(t, b) = t)
  BY <1>9, StopLossKeeps
<1> QED
  BY <1>0, <1>11, <1>12 DEF Safe

\* What a closed trade made of its risk.
RowBounded(row, p) ==
    /\ row.r >= -100
    /\ ~p.partial_mode => row.r <= 100 * p.reward_risk
    /\ row.t1 => row.r >= 50 * p.reward_risk - 50

LEMMA ClosedBounded ==
  ASSUME NEW p \in Params, NEW t, Sane(t, p), t.remaining = 0
  PROVE  RMultiple(t) \in Int /\ RowBounded([r |-> RMultiple(t), reason |-> t.reason, t1 |-> t.t1_done], p)
<1> DEFINE w == Reward(t, p)
           d == 4 * t.risk
           a == 100 * t.realized
           m == p.reward_risk
<1>1. t \in Trade /\ t.risk >= 1 /\ t.risk \in Int /\ t.realized \in Int /\ t.t1_done \in BOOLEAN
  BY DEF Sane, Trade
<1>2. w \in Int /\ w >= 1 /\ p.partial_mode \in BOOLEAN /\ m \in 1..5
  BY <1>1, Numbers, BacktestAssumption
<1>3. d \in Nat \ {0} /\ a \in Int /\ RMultiple(t) = a \div d
  BY <1>1 DEF RMultiple
<1>4. m * t.risk = w
  BY DEF Reward
<1>5. m * t.risk \in Int
  BY <1>1, <1>2
<1>6. (100 * m) * d = 400 * w /\ (50 * m - 50) * d = 200 * w - 200 * t.risk /\ (-100) * d = -400 * t.risk
  <2>1. (100 * m) * (4 * t.risk) = 400 * (m * t.risk)
    BY <1>1, <1>2
  <2>2. (50 * m - 50) * (4 * t.risk) = 200 * (m * t.risk) - 200 * t.risk
    BY <1>1, <1>2
  <2> QED
    BY <1>1, <1>4, <2>1, <2>2
<1> HIDE DEF w, m
<1>7. ~p.partial_mode => a <= (100 * m) * d
  <2>1. ~p.partial_mode => t.realized <= 4 * w
    BY DEF Sane, Banked, w
  <2> QED
    BY <1>1, <1>2, <1>6, <2>1
<1>8. t.t1_done => (50 * m - 50) * d <= a
  <2>1. t.t1_done => t.realized >= 2 * w - (2 - t.remaining) * t.risk
    BY DEF Sane, Banked, w
  <2>2. (2 - t.remaining) * t.risk = 2 * t.risk
    BY <1>1
  <2> QED
    BY <1>1, <1>2, <1>6, <2>1, <2>2
<1>9. (-100) * d <= a
  <2>1. CASE t.t1_done
    <3>1. (50 * m - 50) * d >= 0
      BY <1>2, <1>3
    <3>2. (-100) * d <= 0 /\ 0 <= a
      BY <1>2, <1>3, <1>8, <2>1, <3>1
    <3> QED
      BY <1>3, <3>2
  <2>2. CASE ~t.t1_done
    BY <1>1, <1>6, <2>2 DEF Sane, Banked
  <2> QED
    BY <2>1, <2>2
<1> HIDE DEF d, a
<1>10. a \div d \in Int /\ -100 <= a \div d
  BY <1>3, <1>9, QuotientAtLeast
<1>11. ~p.partial_mode => a \div d <= 100 * m
  <2>1. 100 * m \in Int
    BY <1>2
  <2> QED
    BY <1>3, <1>7, <2>1, QuotientAtMost
<1>12. t.t1_done => 50 * m - 50 <= a \div d
  <2>1. 50 * m - 50 \in Int
    BY <1>2
  <2> QED
    BY <1>3, <1>8, <2>1, QuotientAtLeast
<1>13. a \div d >= -100 /\ (t.t1_done => a \div d >= 50 * m - 50)
  BY <1>2, <1>10, <1>12
<1> QED
  BY <1>3, <1>10, <1>11, <1>13 DEF RowBounded, m

-----------------------------------------------------------------------------
(* The backtest *)

\* The open trade may be closed at the last close within its bounds.
OpenInv == /\ pos.remaining \in 0..4
           /\ pos.remaining > 0 => Sane(pos, params) /\ Safe(pos, params, bar)

SignalsInv == signals \in Seq(Signal) /\ \A i \in DOMAIN signals : Usable(signals[i], params)

RsiInv ==
    /\ params \in Params /\ account \in Accounts /\ bar \in Bars
    /\ OpenInv /\ SignalsInv /\ CurveInv /\ TradesBounded

LEMMA RsiStarts == RsiInit => RsiInv
<1> SUFFICES ASSUME RsiInit PROVE RsiInv
  OBVIOUS
<1>1. params \in Params /\ account \in Accounts /\ bar \in Bars
  BY IsBar DEF RsiInit
<1>2. OpenInv
  BY DEF RsiInit, OpenInv, Flat
<1>3. SignalsInv /\ TradesBounded
  BY DEF RsiInit, SignalsInv, TradesBounded
<1> QED
  BY <1>1, <1>2, <1>3, CurveStarts DEF RsiInv

\* A closed trade is recorded.
LEMMA RecordKeeps ==
  ASSUME RsiInv, NEW t, Sane(t, params), t.remaining = 0, Record(t), UNCHANGED params
  PROVE  CurveInv' /\ TradesBounded'
<1> DEFINE row == [r |-> RMultiple(t), reason |-> t.reason, t1 |-> t.t1_done]
<1>1. RMultiple(t) \in Int /\ RowBounded(row, params)
  BY ClosedBounded DEF RsiInv
<1>2. t.reason \in Reasons /\ t.t1_done \in BOOLEAN
  BY DEF Sane, Trade
<1>3. CurveInv'
  BY <1>1, <1>2, CurveGrows DEF RsiInv
<1>4. row \in ClosedTrade
  BY <1>1, <1>2 DEF ClosedTrade
<1>5. trades' = Append(trades, row) /\ trades \in Seq(ClosedTrade)
  BY DEF Record, RsiInv, CurveInv
<1> HIDE DEF row
<1>6. \A i \in DOMAIN trades' : (i \in DOMAIN trades /\ trades'[i] = trades[i]) \/ trades'[i] = row
  BY <1>4, <1>5
<1>7. \A i \in DOMAIN trades' : RowBounded(trades'[i], params)
  BY <1>1, <1>6 DEF RsiInv, TradesBounded, RowBounded
<1>8. params' = params
  OBVIOUS
<1>9. TradesBounded'
  BY <1>7, <1>8 DEF TradesBounded, RowBounded
<1> QED
  BY <1>3, <1>9

\* The signals grow older, and the one of this bar is added.
LEMMA SignalsGrow ==
  ASSUME NEW p, NEW old \in Seq(Signal), \A i \in DOMAIN old : Usable(old[i], p),
         NEW found, NEW b, Found(found, b, p)
  PROVE  LET all == [i \in DOMAIN old |-> [old[i] EXCEPT !.age = @ + 1]] \o found IN
         /\ all \in Seq(Signal) /\ (\A i \in DOMAIN all : Usable(all[i], p))
         /\ found # <<>> => \E i \in DOMAIN all : all[i] = found[1]
<1> DEFINE aged == [i \in DOMAIN old |-> [old[i] EXCEPT !.age = @ + 1]]
           all == aged \o found
<1>1. ASSUME NEW i \in DOMAIN old PROVE aged[i] \in Signal /\ Usable(aged[i], p)
  <2>1. old[i] \in Signal /\ Usable(old[i], p)
    OBVIOUS
  <2>2. old[i].age + 1 \in Nat
    BY <2>1 DEF Signal
  <2>3. aged[i] = [old[i] EXCEPT !.age = old[i].age + 1]
    OBVIOUS
  <2> HIDE DEF aged, all
  <2>4. aged[i] \in Signal
    BY <2>1, <2>2, <2>3 DEF Signal
  <2>5. aged[i].side = old[i].side /\ aged[i].entry = old[i].entry /\ aged[i].stop = old[i].stop /\ aged[i].target = old[i].target
    BY <2>1, <2>3 DEF Signal
  <2> QED
    BY <2>1, <2>4, <2>5 DEF Usable
<1>2. DOMAIN aged = 1..Len(old) /\ Len(old) \in Nat
  OBVIOUS
<1>3. aged \in Seq(Signal) /\ Len(aged) = Len(old)
  <2>1. aged \in [1..Len(old) -> Signal]
    BY <1>1, <1>2
  <2> HIDE DEF aged
  <2> QED
    BY <1>2, <2>1
<1>4. found \in Seq(Signal) /\ \A i \in DOMAIN found : i = 1 /\ found # <<>> /\ Usable(found[i], p)
  <2>1. CASE found = <<>>
    BY <2>1
  <2>2. CASE found # <<>>
    <3>1. PICK x \in Signal : found = <<x>> /\ Usable(x, p)
      BY <2>2 DEF Found, Usable
    <3>2. found \in Seq(Signal) /\ DOMAIN found = {1} /\ found[1] = x
      BY <3>1
    <3> QED
      BY <2>2, <3>1, <3>2
  <2> QED
    BY <2>1, <2>2
<1> HIDE DEF aged
<1>5. all \in Seq(Signal) /\ Len(all) = Len(old) + Len(found)
  BY <1>3, <1>4
<1>6. \A i \in DOMAIN all : IF i <= Len(old) THEN i \in DOMAIN old /\ all[i] = aged[i]
                            ELSE (i - Len(old)) \in DOMAIN found /\ all[i] = found[i - Len(old)]
  BY <1>2, <1>3, <1>4, <1>5
<1>7. \A i \in DOMAIN all : Usable(all[i], p)
  BY <1>1, <1>4, <1>6
<1>8. ASSUME found # <<>> PROVE \E i \in DOMAIN all : all[i] = found[1]
  <2>1. Len(found) >= 1
    BY <1>4, <1>8
  <2>2. Len(old) + 1 \in DOMAIN all
    BY <1>2, <1>5, <2>1, <1>4
  <2>3. all[Len(old) + 1] = found[1]
    BY <1>2, <1>6, <2>2
  <2> QED
    BY <2>2, <2>3
<1> QED
  BY <1>5, <1>7, <1>8 DEF aged

LEMMA BarStep ==
  ASSUME RsiInv, NEW b \in Bars, OnBar(b)
  PROVE  RsiInv'
<1> DEFINE found == detect_signals_core(b, bar.rsi, params)
           t == IF pos.remaining > 0 THEN simulate_bar([pos EXCEPT !.held = @ + 1], b, params)
                ELSE IF found # <<>> THEN Open(found[1], b) ELSE Flat
<1>1. /\ bar' = b /\ UNCHANGED <<params, account>>
      /\ signals' = [i \in DOMAIN signals |-> [signals[i] EXCEPT !.age = @ + 1]] \o found
      /\ IF (pos.remaining > 0 \/ found # <<>>) /\ t.remaining = 0
         THEN Record(t) /\ pos' = Flat ELSE pos' = t /\ UNCHANGED <<trades, curve, peak, max_dd>>
  BY DEF OnBar, scan_core
<1>2. /\ params \in Params /\ account \in Accounts /\ bar \in Bars /\ bar.rsi \in Int
      /\ pos.remaining \in 0..4
  BY IsBar DEF RsiInv, OpenInv
<1>3. Found(found, b, params)
  BY <1>2, ScanFinds
<1>4. params' \in Params /\ account' \in Accounts /\ bar' \in Bars /\ params' = params
  BY <1>1, <1>2
<1>5. SignalsInv' /\ (found # <<>> => \E i \in DOMAIN signals' : signals'[i] = found[1])
  <2> HIDE DEF found, t
  <2>1. signals \in Seq(Signal) /\ \A i \in DOMAIN signals : Usable(signals[i], params)
    BY DEF RsiInv, SignalsInv
  <2>2. /\ signals' \in Seq(Signal) /\ (\A i \in DOMAIN signals' : Usable(signals'[i], params))
        /\ found # <<>> => \E i \in DOMAIN signals' : signals'[i] = found[1]
    BY <1>1, <1>3, <2>1, SignalsGrow
  <2> QED
    BY <1>4, <2>2 DEF SignalsInv
<1>6. pos.remaining > 0 \/ found # <<>> => Sane(t, params) /\ Safe(t, params, b)
  <2>1. CASE pos.remaining > 0
    <3> DEFINE u == [pos EXCEPT !.held = @ + 1]
    <3>1. Sane(pos, params) /\ pos \in Trade
      BY <2>1 DEF RsiInv, OpenInv, Sane
    <3>2. u \in Trade
      BY <3>1 DEF Trade
    <3>3. /\ u.side = pos.side /\ u.entry = pos.entry /\ u.risk = pos.risk /\ u.target = pos.target
          /\ u.stop = pos.stop /\ u.remaining = pos.remaining /\ u.realized = pos.realized
          /\ u.t1_done = pos.t1_done /\ u.trailing = pos.trailing
      BY <3>1 DEF Trade
    <3> HIDE DEF u
    <3>4. Same(pos, u)
      BY <3>3 DEF Same
    <3>5. Reward(u, params) = Reward(pos, params) /\ \A x : Gain(u, x) = Gain(pos, x)
      BY <3>4, SameGains
    <3>6. Sane(u, params)
      BY <3>1, <3>2, <3>3, <3>5 DEF Sane, Banked, Stopped
    <3>7. t = simulate_bar(u, b, params)
      BY <2>1 DEF u
    <3> QED
      BY <1>2, <3>6, <3>7, BarKeeps
  <2>2. CASE ~(pos.remaining > 0) /\ found # <<>>
    <3>1. t = Open(found[1], b) /\ Usable(found[1], params) /\ found[1].entry = b.close
      BY <1>3, <2>2 DEF Found
    <3> QED
      BY <1>2, <3>1, OpenKeeps
  <2> QED
    BY <2>1, <2>2
<1> HIDE DEF t, found
<1>7. CASE (pos.remaining > 0 \/ found # <<>>) /\ t.remaining = 0
  <2>1. Sane(t, params) /\ Record(t) /\ pos' = Flat
    BY <1>1, <1>6, <1>7
  <2>2. CurveInv' /\ TradesBounded'
    BY <1>1, <1>7, <2>1, RecordKeeps
  <2>3. OpenInv'
    BY <2>1 DEF OpenInv, Flat
  <2> QED
    BY <1>4, <1>5, <2>2, <2>3 DEF RsiInv
<1>8. CASE ~((pos.remaining > 0 \/ found # <<>>) /\ t.remaining = 0)
  <2>1. pos' = t /\ UNCHANGED <<trades, curve, peak, max_dd>>
    BY <1>1, <1>8
  <2>2. CurveInv' /\ TradesBounded'
    BY <1>4, <2>1 DEF RsiInv, CurveInv, TradesBounded
  <2>3. OpenInv'
    <3>1. CASE pos.remaining > 0 \/ found # <<>>
      <4>1. Sane(t, params) /\ Safe(t, params, b) /\ t.remaining \in 0..4
        BY <1>6, <3>1 DEF Sane, Trade
      <4> QED
        BY <1>1, <1>4, <2>1, <4>1 DEF OpenInv
    <3>2. CASE ~(pos.remaining > 0) /\ found = <<>>
      BY <2>1, <3>2 DEF OpenInv, Flat, t
    <3> QED
      BY <3>1, <3>2
  <2> QED
    BY <1>4, <1>5, <2>2, <2>3 DEF RsiInv
<1> QED
  BY <1>7, <1>8

LEMMA EndStep ==
  ASSUME RsiInv, EndOfData
  PROVE  RsiInv'
<1> DEFINE t == Exit(pos, bar.close, "end_of_data")
<1>1. pos.remaining > 0 /\ Record(t) /\ pos' = Flat /\ UNCHANGED <<params, account, bar, n, signals>>
  BY DEF EndOfData
<1>2. params \in Params /\ bar \in Bars /\ Sane(pos, params) /\ Within(pos, params, bar.close)
  BY <1>1 DEF RsiInv, OpenInv, Safe
<1>3. Sane(t, params) /\ t.remaining = 0
  BY <1>1, <1>2, ExitKeeps DEF Reasons
<1> HIDE DEF t
<1>4. CurveInv' /\ TradesBounded'
  BY <1>1, <1>3, RecordKeeps
<1>5. OpenInv'
  BY <1>1 DEF OpenInv, Flat
<1>6. SignalsInv'
  BY <1>1 DEF RsiInv, SignalsInv
<1> QED
  BY <1>1, <1>4, <1>5, <1>6 DEF RsiInv

LEMMA RsiInvHolds == RsiSpec => []RsiInv
<1>1. ASSUME RsiInv, [RsiNext]_rsiVars PROVE RsiInv'
  <2>1. CASE ai_insight \/ UNCHANGED rsiVars
    BY <1>1, <2>1 DEF ai_insight, rsiVars, RsiInv, OpenInv, SignalsInv, CurveInv, TradesBounded
  <2> QED
    BY <1>1, <2>1, BarStep, EndStep DEF RsiNext
<1> QED
  BY <1>1, RsiStarts, PTL DEF RsiSpec

\* Whatever candles come, no trade of the backtest loses more than its risk,
\* closed in one piece none makes more than its target, one that reached its
\* first target keeps half of it less half a risk, and the drawdown that is
\* reported is the largest fall of the equity curve.  _simulate_one,
\* run_backtest.
THEOREM BacktestIsSound == RsiSpec => []BacktestSound
<1>1. RsiInv => BacktestSound
  BY CurveExact DEF RsiInv, BacktestSound
<1> QED
  BY <1>1, RsiInvHolds, PTL

-----------------------------------------------------------------------------
(* The plan *)

LEMMA StrengthRange ==
  ASSUME NEW b \in Bars
  PROVE  compute_trend_strength(b) \in 0..100
<1> DEFINE x == Magnitude(b.close - b.ema200) * 100
           k == (Least(10, x \div b.ema200)) * 5
           e == IF (b.close > b.ema50 /\ b.ema50 > b.ema200) \/ (b.close < b.ema50 /\ b.ema50 < b.ema200)
                THEN 50 ELSE 0
           g == IF current_state_core(b).entangled THEN (k * 4) \div 10 ELSE k
<1>1. b.ema200 \in Nat \ {0} /\ x \in Int /\ 0 <= x
  BY IsBar DEF Magnitude
<1>2. compute_trend_strength(b) = Least(100, e + g)
  BY DEF compute_trend_strength
<1>3. e \in 0..50
  OBVIOUS
<1> HIDE DEF x, e
<1>4. x \div b.ema200 \in Int /\ 0 <= x \div b.ema200
  BY <1>1, QuotientAtLeast
<1>5. k \in 0..50
  BY <1>4 DEF Least
<1> HIDE DEF k
<1>6. (k * 4) \div 10 \in 0..50
  BY <1>5
<1>7. g \in 0..50
  BY <1>5, <1>6
<1> HIDE DEF g
<1> QED
  BY <1>2, <1>3, <1>7 DEF Least

LEMMA ConfidenceRange ==
  ASSUME NEW strength \in 0..100, NEW quality \in 0..100, NEW age \in Nat
  PROVE  compute_confidence(strength, quality, age) \in 0..100
<1> DEFINE fresh == IF age >= 2 * STALE_BARS THEN 0 ELSE 100 - (100 * age) \div (2 * STALE_BARS)
<1>1. fresh \in 0..100
  BY DEF STALE_BARS
<1> HIDE DEF fresh
<1>2. compute_confidence(strength, quality, age) = (35 * strength + 30 * quality + 20 * 70 + 15 * fresh) \div 100
  BY DEF compute_confidence, fresh
<1> QED
  BY <1>1, <1>2

\* What a stopped position loses is at most the amount at risk.
LEMMA SizeBounded ==
  ASSUME NEW entry \in Nat \ {0}, NEW stop \in Int, entry # stop, NEW capital \in Int,
         NEW appetite \in {"conservative", "balanced", "aggressive"}, NEW regime
  PROVE  LET size == compute_position(entry, stop, capital, appetite, regime) IN
         size >= 0 /\ (size > 0 => size * Magnitude(entry - stop) * 1000 <= capital * entry * 15)
<1> DEFINE d == Magnitude(entry - stop)
           rate == RISK_BY_APPETITE[appetite]
           amount == (capital * rate) \div 1000
           whole == (amount * entry) \div d
           size == compute_position(entry, stop, capital, appetite, regime)
<1>1. d \in Nat \ {0}
  BY DEF Magnitude
<1>2. rate \in 5..15
  BY DEF RISK_BY_APPETITE
<1>3. size = IF capital <= 0 THEN 0 ELSE IF regime = "high" THEN whole \div 2 ELSE whole
  BY DEF compute_position
<1> SUFFICES ASSUME capital \in Nat PROVE size >= 0 /\ (size > 0 => size * d * 1000 <= capital * entry * 15)
  BY <1>3
<1> HIDE DEF d, rate
<1>4. capital * rate \in Nat /\ capital * rate <= capital * 15
  BY <1>2
<1>5. amount \in Nat /\ amount * 1000 <= capital * 15
  <2> DEFINE c == capital * rate
  <2>1. c \in Nat /\ c <= capital * 15 /\ amount = c \div 1000
    BY <1>4
  <2> HIDE DEF c, amount
  <2>2. amount \in Nat /\ amount * 1000 <= c
    BY <2>1
  <2> QED
    BY <2>1, <2>2
<1> HIDE DEF amount
<1>6. amount * entry \in Nat
  BY <1>5
<1>7. whole \in Nat /\ d * whole <= amount * entry
  <2> DEFINE a == amount * entry
  <2>1. a \in Nat /\ whole = a \div d /\ 0 * d <= a
    BY <1>1, <1>6
  <2> HIDE DEF a, whole
  <2>2. a \div d \in Int /\ d * (a \div d) <= a
    BY <1>1, <2>1, Quotient
  <2>3. 0 <= a \div d
    BY <1>1, <2>1, QuotientAtLeast
  <2>4. whole \in Nat /\ d * whole <= a
    BY <2>1, <2>2, <2>3
  <2> QED
    BY <2>4 DEF a
<1> HIDE DEF whole, size
<1>8. size \in Nat /\ size <= whole
  BY <1>3, <1>7
<1>9. d * size <= d * whole
  BY <1>1, <1>7, <1>8
<1>10. d * size * 1000 <= amount * entry * 1000
  <2> DEFINE u == d * size
             v == d * whole
             w == amount * entry
  <2>1. u \in Int /\ v \in Int /\ w \in Int
    BY <1>1, <1>5, <1>7, <1>8
  <2>2. u <= v /\ v <= w
    BY <1>7, <1>9
  <2> HIDE DEF u, v, w
  <2>3. u * 1000 <= w * 1000
    BY <2>1, <2>2
  <2> QED
    BY <2>3 DEF u, w
<1>11. amount * entry * 1000 <= capital * entry * 15
  <2>1. (amount * 1000) * entry <= (capital * 15) * entry
    <3> DEFINE u == amount * 1000
               v == capital * 15
    <3>1. u \in Int /\ v \in Int /\ u <= v
      BY <1>5
    <3> HIDE DEF u, v
    <3>2. u * entry <= v * entry
      BY <3>1
    <3> QED
      BY <3>2 DEF u, v
  <2>2. (amount * 1000) * entry = amount * entry * 1000 /\ (capital * 15) * entry = capital * entry * 15
    BY <1>5
  <2> QED
    BY <2>1, <2>2
<1>12. d * size * 1000 \in Int /\ amount * entry * 1000 \in Int /\ capital * entry * 15 \in Int
  BY <1>1, <1>5, <1>8
<1>13. size * d * 1000 = d * size * 1000
  BY <1>1, <1>8
<1>14. size * d * 1000 <= capital * entry * 15
  BY <1>10, <1>11, <1>12, <1>13
<1> QED
  BY <1>8, <1>14

\* The targets are on the winning side, each beyond the one before.
LEMMA TargetsClimb ==
  ASSUME NEW side \in {1, -1}, NEW entry \in Int, NEW stop \in Int, side * (entry - stop) > 0
  PROVE  LET targets == compute_targets(entry, stop, side) IN
         /\ Len(targets) = 3 /\ side * targets[1] > side * 2 * entry
         /\ \A i \in 1..2 : side * targets[i] < side * targets[i + 1]
<1> DEFINE risk == Magnitude(entry - stop)
           targets == compute_targets(entry, stop, side)
<1>1. entry # stop /\ risk \in Int /\ risk >= 1
  BY DEF Magnitude
<1>2. targets = <<2 * entry + side * 2 * risk, 2 * entry + side * 4 * risk, 2 * entry + side * 7 * risk>>
  BY <1>1 DEF compute_targets
<1> HIDE DEF risk, targets
<1>3. /\ Len(targets) = 3 /\ targets[1] = 2 * entry + side * 2 * risk
      /\ targets[2] = 2 * entry + side * 4 * risk /\ targets[3] = 2 * entry + side * 7 * risk
  BY <1>2
<1>4. /\ side * targets[1] > side * 2 * entry
      /\ side * targets[1] < side * targets[2] /\ side * targets[2] < side * targets[3]
  <2>1. CASE side = 1
    BY <1>1, <1>3, <2>1
  <2>2. CASE side = -1
    BY <1>1, <1>3, <2>2
  <2> QED
    BY <2>1, <2>2
<1>5. \A i \in 1..2 : side * targets[i] < side * targets[i + 1]
  <2> TAKE i \in 1..2
  <2>1. CASE i = 1
    BY <1>4, <2>1
  <2>2. CASE i = 2
    BY <1>4, <2>2
  <2> QED
    BY <2>1, <2>2
<1> QED
  BY <1>3, <1>4, <1>5 DEF targets

\* A plan to trade has its stop on the losing side and its targets on the
\* winning one, and a stopped position loses no more than the account allows,
\* for any candles, parameters and account: although the direction of the plan
\* comes from the last bar and its prices from an earlier signal.
\* evaluate_decision, build_plan, compute_targets, compute_position.
THEOREM PlanIsSound == RsiSpec => []PlanSound
<1>1. ASSUME RsiInv PROVE PlanSound
  <2> DEFINE s == Last(signals)
             side == current_state_core(bar).trend
             p == build_plan(bar, signals, account)
  <2>1. SUFFICES ASSUME Decision = "trade"
                 PROVE  /\ p.side * (p.entry - p.stop) > 0
                        /\ Len(p.targets) = 3
                        /\ p.side * p.targets[1] > p.side * 2 * p.entry
                        /\ \A i \in 1..2 : p.side * p.targets[i] < p.side * p.targets[i + 1]
                        /\ p.size >= 0
                        /\ p.size > 0 => p.size * Magnitude(p.entry - p.stop) * 1000
                                           <= account.capital * p.entry * 15
                        /\ p.confidence \in 0..100
    BY DEF PlanSound
  <2>2. signals # <<>> /\ s.side = side
    BY <2>1 DEF Decision, evaluate_decision
  <2>3. Usable(s, params) /\ s \in Signal
    <3>1. signals \in Seq(Signal) /\ \A i \in DOMAIN signals : Usable(signals[i], params)
      BY <1>1 DEF RsiInv, SignalsInv
    <3>2. Len(signals) \in DOMAIN signals /\ s = signals[Len(signals)]
      BY <2>2, <3>1 DEF Last
    <3> QED
      BY <3>1, <3>2 DEF Usable
  <2>4. /\ side \in {1, -1} /\ s.entry \in Nat \ {0} /\ s.stop \in Int /\ s.quality \in 0..100 /\ s.age \in Nat
        /\ side * (s.entry - s.stop) > 0
    BY <2>2, <2>3 DEF Usable, Signal, LONG, SHORT
  <2>5. s.entry # s.stop
    BY <2>4
  <2>6. bar \in Bars /\ account \in Accounts /\ account.capital \in Int
    BY <1>1, BacktestAssumption DEF RsiInv
  <2>7. derive_appetite(account) \in {"conservative", "balanced", "aggressive"}
    BY DEF derive_appetite
  <2>8. /\ p.side = side /\ p.entry = s.entry /\ p.stop = s.stop
        /\ p.targets = compute_targets(s.entry, s.stop, side)
        /\ p.confidence = compute_confidence(compute_trend_strength(bar), s.quality, s.age)
        /\ p.size = compute_position(s.entry, s.stop, account.capital, derive_appetite(account),
                                     volatility_regime(bar))
    BY DEF build_plan
  <2> HIDE DEF s, side, p
  <2>9. /\ Len(p.targets) = 3 /\ p.side * p.targets[1] > p.side * 2 * p.entry
        /\ \A i \in 1..2 : p.side * p.targets[i] < p.side * p.targets[i + 1]
    BY <2>4, <2>8, TargetsClimb
  <2>10. /\ p.size >= 0
         /\ p.size > 0 => p.size * Magnitude(p.entry - p.stop) * 1000 <= account.capital * p.entry * 15
    BY <2>4, <2>5, <2>6, <2>7, <2>8, SizeBounded
  <2>11. p.confidence \in 0..100
    <3> DEFINE k == compute_trend_strength(bar)
    <3>1. k \in 0..100
      BY <2>6, StrengthRange
    <3> HIDE DEF k
    <3>2. compute_confidence(k, s.quality, s.age) \in 0..100
      BY <2>4, <3>1, ConfidenceRange
    <3> QED
      BY <2>8, <3>2 DEF k
  <2> QED
    BY <2>4, <2>8, <2>9, <2>10, <2>11
<1> QED
  BY <1>1, RsiInvHolds, PTL
=============================================================================
