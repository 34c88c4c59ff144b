# TLA+ models of CryptoAggHarmonic

The project models the parts of this repository whose correctness depends on
the order in which things happen, and the decision code whose arithmetic is
easy to get wrong: the quota ledger and what is billed through it, the tuning
loop, the watchlist, the strategy lifecycle, the bridges to exchanges and to
Alipay, the request side of the service, and the signal, trade and RSI code.
TLC checks small instances; TLAPS proves the safety properties of the ledger, the
chat run, the loop's files, the watchlist, the strategy lifecycle, the bridges,
the signal pipeline, the candidate search, the request side and the RSI strategy
for every value of the constants; liveness and the heartbeat stay with TLC.

## 1. The system

A Flask service (`app/`) analyses markets for registered users; Supabase
(Postgres) holds profiles, usage and results, Redis holds queues, events and
caches, and an RQ worker executes chat runs. Beside the service an offline loop
(`app/loop/`) tunes the parameters of the signal engine, and bridges talk to
exchanges, freqtrade and Alipay. Clients are a web front end, a TradingView
bridge and cron jobs.

| Component | State | Operations | Talks to | What makes it correct |
|---|---|---|---|---|
| Quota ledger (`supabase_client.py`, SQL functions) | `usage_ledger` rows, `profiles` | reserve_quota, lookup, consume_quota, release_quota, update_user | analyze, RSI, tool and chat routes | no over-grant, no foreign row settled, never undercounted |
| Chat run (`vibe_routes.py`, `services/vibe/`) | run record, events, cancellation token, RQ job | send_message, run_vibe_agent, cancel_run, SSE stream | ledger, RQ, Redis, model, tools | billed as told, terminal status, stream ends |
| Event and session stores | lists in Redis or memory, tables | publish, get_events, create_message, create_session, archive_session | chat runs, routes | what was stored is read, once and in order |
| Loop journal (`loop/state.py`) | `HISTORY.jsonl`, archives, locks | append_history, rotation, replay_from_history | every tuning loop | complete replay, source mutex |
| Loop driver (`loop/driver.py`, `pareto.py`) | `PARETO.json`, `STATE.md`, snapshots, issues | one generation | journal, worker, checker | a front, backed, never worse |
| Candidate search (`loop/mutation.py`, `search.py`, ...) | `next_generation.json` | search, baseline, maker, walk-forward | driver, LLM | candidates valid and contained |
| Maker-Checker review | review log, salt, calibration | check_candidate, verify, resolve | driver, LLM | fails closed, blind, doubt never helps |
| Heartbeat (`loop/scheduler.py`) | none, reads the journal | next_wake_at | journal, caller | neither spins nor oversleeps |
| Watchlist store | a list per user in Postgres, mirrored to Redis or memory | list, create, update, delete, reorder | routes, scan | one list with atomic operations, mirror equals table |
| Strategy lifecycle (`ft_strategy/`) | strategies, experiments, reports, events in table and `.tsv` | create, refine, verdict, publish, record_event, deploy, delete | worker, gates | records add up, final stays final, deploy is backed |
| Signal engine, backtests, position manager | a process-wide tuning stack, patched functions; an open position | build_signal, simulate, process_bar | routes, tools, loop | executable signals, patches undone, simulators agree |
| RSI trend strategy | an open trade, the report | signals, backtest, plan | routes, freqtrade | trades within their risk, plan consistent |
| Bridges (`services/okx`, `freqtrade`, `binance`) | pipes, audit log, outbox, journal, counters | dispatch, call_tool, fetch, write_*_to_history | external processes | caps, complete audit, calls return, stops hold |
| Skill payment (`alipay_client.py`, `skill_publisher.py`) | skill directory, backups, packages | fulfill, install, webhook, publish | alipay-bot | no version lost |
| Analyze route, rate limiter, idempotency | windows of timestamps, lookup cache, `analyses` | is_allowed, get_analysis_by_idem_key, analyze | ledger, caches | limit, no double charge |
| Market data and caches, symbol list | TTL and LRU maps, a JSON file shared by processes | get, set, fetch, refresh | exchanges | complete windows, fresh and whole answers |
| Scan and notifications, tools and prompts, service shell, benchmark, command line, front ends | see 7 | | | |

`PROJECT.json` lists every component with its files and status, and every hazard
at the line where it bites.

What is hard to test here: the reservation of a unit and the search for its row
are two transactions; consume and release ignore the row's status; a chat run
is settled, stored and announced by separate calls while it may be cancelled or
its process may die; Redis values are read, changed and written back without a
lock; files shared by processes are rotated, replaced and copied without one;
requests check a row and update it later; a server process answers late, or
half a line; a call that reports failure may have been applied.

## 2. Modules

| Module | Models | Uses |
|---|---|---|
| `QuotaLedger`; `QuotaLedgerProofs` | the ledger and its clients; theorems | |
| `VibeWorker`, `VibeRun`; `VibeRunProofs` | one execution of a chat run; the run with its routes, its cancellation and its SSE stream; theorems | refines `QuotaLedger` |
| `MakerChecker`, `LoopDriver` | verdict; Pareto front and generations | |
| `LoopHistory`, `LoopScheduler` | the journal, the heartbeat | |
| `StateRoot`; `StateRootProofs` | the programs on one state root; theorems on front, driver, journal and verdict | `LoopDriver`, `LoopHistory`, `LoopScheduler`, `MakerChecker` |
| `CandidateSearch` | mutators and proposals; isolation, prompt and parsing of the review; the tools as processes | `MakerChecker`, `SignalMath` |
| `WatchlistList`, `WatchlistStore`; `WatchlistStoreProofs` | the abstract list; the three stores behind it; theorems | store refines list |
| `FtStrategy` | the gates; the lifecycle of a strategy | |
| `SignalMath`, `SignalEngine`, `TradeReplay` | arithmetic, pipeline; the position manager and the replay of a signal by the simulators | each uses the ones before |
| `RsiBacktest` | decisions on a bar; the backtest and the plan | |
| `StrategyProofs` | theorems on the two strategies | `FtStrategy`, `RsiBacktest` |
| `SignalProofs` | theorems on the engine, the replay and the search | `TradeReplay`, `CandidateSearch` |
| `FreqtradeBridge`, `OkxBridge`, `SkillShop`, `Bridges`; `BridgesProofs` | the bridges of one host; theorems | each uses the ones before |
| `MarketFeed`, `AnalyzeRoute`, `VibeStores`, `Requests`; `RequestsProofs` | the request side; theorems | |
| `MC*` | instances for TLC; `QuotaLedger`, `WatchlistStore` and `Requests` are checked as they are | |

Operators whose name is that of another definition with a suffix
(`release_quota_all`, `After_inclusive`, ...) are mutated forms: each changes
the definition as a plausible bug would, and shows that a property can fail. No
specification uses them.

*QuotaLedger.* A row is named by the request that inserted it, since every call
site reserves one unit. `Begin` fixes NOW() and CURRENT_DATE of the transaction,
`Reserve` and `Reject` are reserve_quota under its advisory lock, `Lookup` the
second query of reserve_user_quota ("reserved", same user and pool, newest
first, no date). `Consume` and `Release` are updates by id. The routes differ in
what follows the consume (`AfterConsume`). A failing call is applied or not.
`Raise` is an exception that no handler settles: the call of a single tool has one
without any fault of a store, since what it answers for a tool that failed raises
(section 5). `Kill` is the end of a process, `Midnight` and `UpdateUser` are the
environment. A client either sends requests at once or waits for each answer.

*VibeWorker, VibeRun.* `SendMessage` to `GiveBack` are POST .../messages, `Start`
to `Emit` (in `VibeWorker`) the worker or the thread, `CancelJob` to `MarkCancelled` the DELETE handler,
`OpenStream`, `Poll` and `CheckRun` the SSE loop. The run knows of its unit only
what the ledger calls answered (`billing`); the row itself is `ledger`. The
refinement mapping `Phase` is the view QuotaLedger has of the run. An enqueue
that was applied although it reported failure (`EnqueueUnheard`) makes the run
*stray*: the queued job runs beside a thread for the same run, which is a second
instance of `VibeWorker` (the twin), or after the route has failed the run and
given its unit back. Of a run that strays the properties promise only what the
code keeps, that done and a recorded success have the answer stored.

*VibeStores.* The stores such a run writes to, with two runs of one session and
two route calls in flight. A Redis operation is a read and a write of a whole
value; a Supabase operation is one statement, and a failing one goes to the
memory of the store object, which only its own run sees. `raced` names the
values that two calls held at the same time: it says exactly when something may
be lost.

*LoopHistory, LoopDriver, LoopScheduler, StateRoot.* A call is named by the
record it writes, a file is an inode, so a descriptor outlives the path; the
mutex check, the append, the opening of the archive, the end of the stream into it
and the unlink are separate steps; an archive is cut short from its opening to its
end, and stays so when the process dies in between or another call writes the same
one. A generation is `Load`, `Record`, `Apply`, `Save`,
`WriteStateMd`; the backtest of a worker is its outcome, and which heuristics
fire and what the LLM answers is nondeterministic. The scheduler counts minutes
since a Monday, 00:00; `next_wake_at` has the code's branches in their order.

*CandidateSearch.* A candidate is a function on representatives of every kind of
field and constraint. Beside the mutators, clusters and the Maker's proposals the
module has what the checker sees and how its answer is read; an answer is the set
of features the parser looks for.

*WatchlistStore.* A request is its route; every call to Postgres, Redis or the
process dictionary is a step that may fail before or after it took effect. The
configuration says which stores exist. A store is the set of its rows, each with
its id and its sort_order, which is what a list is sorted by. `WatchlistList` is
the promise: one list per user, changed by atomic operations.

*FtStrategy.* One strategy with its rows and its `.tsv`; a step is one committed
statement, select or file operation: deploy reads the crashes, the report and the
shadow window in three selects, and the first event of a file tests for it, opens it
anew, which truncates, and writes the header. The gates are operators; documents
are the features the code looks for.

*SignalMath* to *TradeReplay.* Fixed-point arithmetic (thousandths) of the
pipeline of build_signal; the averages behind RSI, MACD and the higher timeframe
are inputs, since they are recurrences in floating point. `SignalEngine` runs
the pipeline as its callers do: within an applied tuning file and the patched
grade of a symbol group, within the candidate of a grid search, within a scope
that relaxes the filters. Each has the undo that its own code has, the stack of
overrides and the patched functions are the state; a signal that comes out is then replayed bar by bar by the
position manager and by the two simulators of the backtests.

*RsiBacktest.* A bar carries its indicators. One bar a step, in the order of the
code's exits. `curve` is the list of cumulative R that the report walks through.

*Bridges.* `OkxBridge` has the client, both pipes, the server and the audit log
as separate actors; answers carry no id. The server may begin a line and not end
it, close its output and go on, or die at any time; the client's deadline is on
select only, the reads after it wait. `FreqtradeBridge` has the journal of results
(outbox, append, unlink), the caps and the stop of a translated strategy; `Bridges` itself has the
observations of the Binance routes. `SkillShop` is the skill directory: an installation is the test,
the move to the backup of this second, mkdir, and one step per file.

*Requests.* The parts of the request side share no state and are explored one at
a time: `AnalyzeRoute` (limiter, lookup, row, quota, candles, both endings),
`MarketFeed` (pages, retries, quotes; the symbol list, with processes and threads
on one file and one `.tmp` name), `VibeStores`. A timestamp of the limiter
is named by the request that left it, whose clock it is; a cache is the set of
its entries, each with the position it has in the order of use.

## 3. Runs

| Run | Shows |
|---|---|
| `quota_ledger` | three concurrent requests of one user in both pools, two days, an admin, lost answers, crashes: no over-grant (`GrantWithinQuota`), the ledger never undercounts (`LedgerCoversWork`); clients that wait for their answers, from a database that answers, are charged exactly what completed and what raised out of its handler (`SerialExact`) |
| `quota_overshoot` | violation: concurrent requests, no fault, and a day is charged beyond its quota |
| `state_root` | the front is a front (`FrontIsFront`), backed by journal and snapshots (`FrontIsBacked`), and after generations one after the other equals the replay and covers what was accepted (`FrontFollowsJournal`); a driver alone never makes it worse (`NeverWorse`); a record is lost only by a rotation together with overlapping calls, the mutex passed only by one of the two, and of calls one after the other the replay raises only during a copy or after one died in it (`JournalSound`); the heartbeat neither spins nor sleeps through an active hour for quiet hours or a weekend (`WakesInTime`) |
| `vibe_run` | `BilledAsTold`, `RecordFinal`, a run is a request of QuotaLedger (`IsMeteredRequest`), and where no process dies and no enqueue strays everything comes to rest (`ComesToRest`) |
| `watchlist_list` | serial requests implement `WatchlistList` (`ImplementsList`), the mirror is a true copy between them (`MirrorFresh`), no fallback doubles an item and nothing acknowledged is lost outside the unlocked Redis value (`StoresSound`) |
| `trade_lifecycle` | each caller finds its own tuning and patches again, whatever a run within it does (`Restored`); the signal sent is executable, within its gates and the best (`SignalSound`); simulators and position manager see the same trade (`SimulatorsAgree`), the stop never retreats from bar to bar, every position ends |
| `grid_weights` | violation: a window of a grid search is scored with the default weights (`WeightsApplied`) |
| `bridges` | `OrdersAccounted` (caps, audit, journal), `FeedTruth`, `StopsHold` (a generated strategy stops where its signal does), `CallReturns` (unless the client hangs in a read without a deadline); `SkillsKept` in a workload of its own |
| `strategies` | lifecycle: `RecordsSound` (versions, `.tsv` against table, no orphans), `AdviceConsistent` (orient, routes, verdict policy and gate agree), `LifecycleSteps` (the report and the shadow window deploy read still stand when it writes, final stays final); RSI: `BacktestSound` (trades within their risk, drawdown exact), `PlanSound`. The two share nothing, a behaviour is one of either |
| `candidate_search` | `CandidatesContained`, `ReviewSound` (fails closed, blind to the Maker), `ValidatorsAgree` |
| `requests` | `LimiterSound` (limit and Retry-After), `CachesHonest`, `FeedsComplete`, `ChatKept`, `RefreshEnds` |
| `replay` | violation: a request that repeats the key of an answered one is charged again |

Bounds. Three requests are what it takes for one to release the row of a second
and a third to be granted in between; two days let a reservation, its lookup
and its settlement fall on different sides of midnight. Two model iterations
with two tools reach every branch of a chat run (a run that strays is explored
without tools, without a stream and without further faults); one failing ledger call is the
most BilledAsTold allows (two failing consumes leave a finished run unpaid).
Three appends, rotation at two records and two seconds give overlapping
rotations. Two drivers with three results, of which two are outcomes of one
experiment, two incomparable and one dominated, give every case of `add`.
Heartbeats start at every hour of a week, and three generations begin, break and
see a plateau. Two overlapping watchlist requests of three, or four serial ones,
with a limit of two items and one fault reach the limit, every fallback and a
reorder of two items. Six frames, ten detections and three markets take every
branch of the pipeline's vetoes, gates and hatches, and four bars reach TP3 and
the time stop. Three operations in two requests are enough for a check and its
update to be separated by a third operation; the strategies they start from are
new, ready to deploy, and near stagnation. Four orders exceed the cap of three;
two generations and one fault let an answer arrive in the wrong generation or
call, a line stay without its end or a server close its output and stay. Two installations, a publisher and two files let backups of one second
collide, and a copy be interrupted or fall into the next second (not both). Five bars open, move, partially close and
close an RSI trade. Two generations of the search let a child be the parent of
the next. Four requests against a limit of two in a window of two ticks, one of
them delayed by a tick, reach the edge of the window; two processes with a
request, a background and an admin thread share the symbol file; windows start
and end on, before and after candle boundaries and are longer than a page. Two
chat runs and two route calls race for every stored value; pages of two events
let a poller fall behind six. Requests, calls, candidates and drivers are
symmetric where no liveness is checked.

Deadlock is not checked: each instance has finitely many requests, calls, bars
or generations, and all of them may end.

Fairness. `MCVibeRun`: a worker serves the queue, model and tool calls have
timeouts, RQ delivers a stop command, an API thread that has begun to send, to
take back, to cancel or to stream goes on. `Bridges`: the thread that dispatches goes on; its select has
a timeout, its reads have none; the server and the exchange owe nothing. `Requests`: the threads of
the symbol cache go on, the download has a timeout. `TradeReplay`: the market
has a next bar. Nothing is assumed of clients, administrators or faults.

## 4. Proofs

All theorems hold for every value of the constants. The assumptions are those
the modules state, and TLC evaluates them in the runs: finite sets of requests,
orders, calls and results; quotas, days, lengths, limits and windows that are
naturals; metrics that are integers or missing; in `RsiBacktest`, parameters in
the ranges the request schema accepts and candles with a positive low <= close
<= high, in price units that half an ATR is a multiple of; in `MarketFeed`,
more inodes than threads; in `MarketFeed` and `Requests`, a page of at least one
candle, candles of a positive length and windows in whole milliseconds; in `SignalMath`, that the tags None and Raised are no
grades; in `SignalEngine`, that frames and detections are lists, that what a
detection calls numeric is, that an override gives numbers (`Numeric`) and that a
hatch is positive; in `CandidateSearch`, that the default tuning passes its own
checks and that metrics hold numbers where the worker writes them; in `Bridges`, that a fill is not a row of the market
feed. Where a theorem has a condition (no overlap, at most one fault, serial
requests), it is part of the property that the run checks too.

*QuotaLedger* (TypeCorrect, Isolation, GrantFinds, Coverage, NoOvergrant,
LeftoversStay, SerialIsExact). LedgerCoversWork is not inductive: handlers settle each other's
rows. `LedgerInv` adds PhaseRow (which phases have a row and hold one) and
EnoughReserved: the reserved rows of a user and pool are at least as many as the
handlers that still look for one or hold one that is reserved. `StepEffect`
reduces the twelve actions of a request to three effects: nothing counted
changes for the worse (Keeps), a request gains a unit and its row (Gains), a
request settles one row of its pool (Settles). Three lemmas on cardinalities
(CountKeep, CountGain, CountLose) then carry each inequality across each effect.
NoOvergrant follows from the inequality of the day and the guard of
reserve_quota, LeftoversStay from the order of the lookup. The day-wise
statements hold while no handler settles a row of another day (NoStraddle):
around midnight the lookup has no date, and a unit may move between two days.
SerialIsExact is about clients that wait for each answer, of routes that may
raise: the rows of requests that raised stay reserved. `SerialInv` says that at
most one request of a user and pool is under way, and that every request has its
own row, in the state its phase implies; `NewestInv`, that the row of the request
under way is the newest, so that its lookup never finds a leftover instead.

*VibeRun* (PaidAsTold, RecordIsFinal, Metered). `RunInv` is SoundInv until the
run strays, and AnswerInv always. SoundInv ties the three views of a run
together: BillingInv what the ledger calls answered to the row and to the faults
so far, EventInv the events to the worker's place in the code, RecordInv the
stored status to who may still write it. Of a run that strays only AnswerInv is
left, over both its executions: no success is recorded and no done published
before an answer is stored. Metered shows the refinement, until the run strays:
with the mapping `Phase` the first state is one of QuotaLedger, and every step is
a step of it or leaves its variables alone.

*StateRoot* (FrontOnDisk, FrontBacked, AddCovers, SerialNeverWorse, HumanIsTold,
StateMdIsMarkdown, JournalIsSound, FrontFollows, MoreDoubtNeverHelps). DominatesTransitive
makes dominance a strict order although missing metrics are replaced; AddCovers
says that `add` loses nothing; DriverInv extends FrontIsFront and FrontIsBacked
to the fronts in memory and the result in hand; SerialInv says that the front in
memory of a driver alone covers PARETO.json; LeftInv says who owes an issue or
the second write of STATE.md. `JournalInv` follows a record through open, lock,
append, the copy and the unlink: a call alone still has the current file open
(AloneInv, FirstFile, OpenInv), what an archive holds is of one file (ArchiveInv),
a file that is to be unlinked has been copied whole (CopiedInv), an archive that is
cut short is that of the call that copies or of one that died in its copy
(TornInv), and the records a call checked against are still the ones it appends to
(CheckedInv).
MoreDoubtNeverHelps is by cases on the verdict. FrontFollows rests on
`FollowInv` (while generations ran one after the other and none crashed, the
front of the driver under way, or else PARETO.json, is the replay of the journal,
but for the record in hand) and on Replays, which says what one
more record adds to the replay: Rebuilt is a recursive function, and its
unfolding is shown by the least index at which it could fail (LeastMember).

*WatchlistStore* (StoresAreSound, MirrorIsFresh, StoreImplementsList). `StoreInv`
says that the ids of a store are known and name one symbol, in the stores and in
the copies that requests hold. AnsweredInv adds, for states without failures,
that a request alone holds a true copy and that what was acknowledged is in the
store that answers. SerialInv adds what the list shows, and gives the refinement:
the last call of a serial request is the atomic step of `WatchlistList`.

*FtStrategy* (RecordsAreSound, LifecycleStepsHold, AdviceIsConsistent). `FtInv`:
nothing of a strategy exists before it (UnbornInv), the version is the count of
committed refines (VersionCounts), the `.tsv` mirrors rows once (MirrorInv), what
deploy and the final report read is still true (DeployInv, ReportInv), and no
request in flight can leave an orphan (NoOrphans).

*Bridges* (OrdersAreAccounted, FeedIsTrue, StopsAreHeld, SkillsAreKept). One
inductive invariant per part. `OrdersInv`: the counter of a generation is at
least what it placed or still has in the pipes (CountInv), what is in a pipe
passed the gates (GateInv), an answer in hand has a record on its way
(RecordInv), a writer that went past its outbox file left it (WritersInv).
`FeedInv` counts answers; `FilesInv` says that a strategy file was
translated from a signal with its levels, and FilesStop is the arithmetic of its stop;
`ShopInv` follows the old skill through move and copy (OldInv), and without
meetings every version in full (QuietInv).

*Requests* (LimiterIsSound, CachesAreHonest, FeedsAreComplete, ChatIsKept).
`LimiterInv`: a timestamp leaves
the window only when it is out of it by the true time (LeftInv), so the hits of a
stretch are among those an admission counted (HitInv). `SymbolInv`: the file and
every complete `.tmp` hold a list the exchange had; a thread that writes to an
inode that became the live file writes the whole list it had (WriterInv,
FileInv). `CandleInv`: no entry is older than it says. `ChatInv` follows each
value that a run or a route has read until it writes it back: a list of messages
in hand is the stored one unless it was raced for, and its messages are those of
operations begun and not repeated (ListInv); the question of a run is dated
before its answer (TimeInv, which the Supabase order by created_at rests on); a
stale record or list of sessions in hand shows in `raced` (SessionInv, IdsInv).
`EventInv` says that the log is numbered without gaps until an event is lost,
and that a stream and a poller that keeps up have a prefix of it. FeedsComplete is
written by one step, and the work is in the operators: a filter keeps the members
at its places (FilterUnfolds, FilterKeeps), and one that selects the places of a
stretch gives that slice (FilterSlices). `PageAt` is the invariant of the download
over its requests: what is collected is a slice that reaches to the end of the
window, and the next request ends just before it; PageAdds carries it over a page,
full or short. The estimate of the number of candles bounds those in the window
(EstimateIs), so only the cap can stop the download short of its start
(WindowComplete). SplitIs and FieldIs say the same of a quotes request: the first
of equal symbols is kept, and the last row of a symbol that parses is its own.

*RsiBacktest* (BacktestIsSound, PlanIsSound). `RsiInv` is about
the open trade: what its closed parts have made (Banked), where its stop may be
(Stopped), and that the rest may be closed at the last close within bounds
(Safe). One lemma per exit says that it keeps these, so their order is where the
proof would break. `CurveInv` says that peak and max_dd are the highest point
and the largest fall of the curve so far. Every signal ever found has a positive
risk on its own side (Usable), which is what makes a plan of a later bar
consistent; the size is bounded by two lemmas on integer quotients.

*SignalEngine, TradeReplay* (TuningRestored, SignalsSound, StopsTighten,
SimulatorsDoAgree). The properties speak of the end of a run and are not
inductive. `EngineInv` follows a job through the pipeline: outside a run the
tuning is the process's own, inside one the tuning is numeric, the queue holds
candidates and the scored signals are sound (JobLists), the context is that of
the frame (JobContext), and what is about to be handed over is sound and not
beaten by any scored signal (JobBest). CallerInv carries TuningRestored: outside a
run the tuning is what the caller that is under way put there, inside one that
with the scope and the patches of the run on top, and each undo takes off its own
frame only. StopIs and ScoreIs carry SignalSound: for
any multiplier of the chain the stop is behind the entry and at most two ATRs
from its invalidation, and where the gates still bind the second multiplier is
the first (StopMultSame). Lists are built by recursive functions (`Kept`,
`rank_signals`), which are unfolded at the least index at which they could fail
(LeastMember). A by-product: the trap score starts at 50 and only falls, so
trap_stop_multiplier never widens a stop (TrapIsSoft). `TradeInv` adds the
position: its stop is where its targets have put it or where the trailing stop
is (PosGood, which StopsTighten needs on the bar of TP2, where the stop is set to
TP1 before it trails), and the position and the simulator have seen the same of
the trade (Together).

*CandidateSearch* (ValidatorsDoAgree, ReviewIsSound, CandidatesAreContained). What
the first two speak of is
written by one step each, so the work is in the operators: OneBlobSkewed compares
two shares of the same trades; WalkAgrees the two out-of-sample checks; KeysLeft
and TopOfKeys say which keys a payload shows in the prompt; EvaluateFailsClosed
goes back from a verdict to the answer it rests on. `ResultInv` keeps result and
answer together. CandidatesContained is not inductive: a generation starts from an
adopted child, and the driver runs what it finds in the file. `SearchInv` asks the
same of the file as of what runs, and that the parent passes `__post_init__`, keeps
the fields of Default and holds numbers (Typed). The mutation of several fields is
built field by field, a set of outcomes after each: MutateEachUnfolds and a least
index give MutateEachIs, from a step that changes one field and keeps it in range
(Moved, MutateIs) while the fields changed before keep theirs (Reached,
ReachedMore). BatchIs follows a batch through its two halves to the cut.

The theorems that state a property of a run say so in `PROJECT.json`; Isolation,
GrantFinds, LeftoversStay, AddCovers, HumanIsTold, StateMdIsMarkdown and
MoreDoubtNeverHelps are not repeated by a run.

Only model-checked:
- all liveness (ComesToRest, CallReturns, RefreshEnds, the end of every position):
  fairness and ENABLED are out of the prover's reach;
- WakesInTime, a safety property of the heartbeat, from every hour of a week in
  four configurations.

## 5. Where the code and its documents disagree, and other observations

Shown by a violation run: the overshoot of a day (`quota_overshoot`), the
repeated request that is charged again (`replay`) and the grid search that scores
every candidate with the default weights (`grid_weights`). Met while modelling:

Ledger and chat
- Two requests in flight may settle the same row; the other row stays reserved.
  So does the row of a request whose RPC answer was lost or whose process died;
  nothing collects such rows before the day ends.
- A tool that fails leaves the unit of its call reserved: registry.execute answers
  it with `ToolOutput.error(...)`, but `error` is a field of that dataclass, None by
  default (the factory is from_error), so a TypeError leaves invoke_tool, which has
  no try block. Its docstring says "reserve 1 unit, consume on success, release on
  failure" (`vibe_routes.py:259-260`). SerialExact counts such rows.
- A job whose enqueue was applied although it reported failure runs beside the
  thread fallback, or after the route failed the run and released its unit
  (`vibe_routes.py:323-351`, 162-167): the run is executed twice, done may be
  published unpaid and the failed record overwritten, although orchestrator.py:266
  says "Mark quota consumed before emitting done so callers see consistent state."
- The RSI pool is limited by `daily_quota`, not by `rsi_daily_quota`.
- Cancelling an RQ job leaves its unit reserved; a cancellation while Redis is
  unreachable answers "cancelled" and does nothing; a run's own update overwrites
  "cancelled". The stream of a run recorded as completed_with_limit without a
  done event polls for ever.
- With Redis two runs of a session may lose a message, and an archived session
  is listed again after two stale writes. What a failing store kept in memory no
  route can read. With Supabase message_count is never updated. A poller that is
  more than a page behind skips the oldest unseen events.

Loop
- The source mutex is checked under another lock than the append and sees only
  the current file; a rotation without a lock loses a record appended meanwhile.
- The rotation streams into the `.gz` under its final name (`state.py:201-203`). A
  process that dies in the stream leaves an archive that is cut short, on which
  replay_from_history raises EOFError (343-346) for good, although no record is
  lost and the module calls its state "replay-safe" (20-22).
- Two drivers on one state root overwrite each other's PARETO.json; STATE.md
  holds a JSON dump between its two writes; the merged Maker-Checker verdict does
  not keep a point off the front.
- On a plateau next_wake_at takes the window of the quiet hours, which in active
  hours is the next full hour; the docstring and the comment say "skip until
  tomorrow morning", "even within active hours" (`scheduler.py:26-27`, 174-175).
  WakesInTime therefore says of a plateau only that the loop wakes later and
  within two days. A weekend after quiet hours is longer than the 48 hour
  lookahead.
- next_generation.json is written in place and may be overwritten before it is
  read; a sharpe of None raises outside the try of the review and ends the run;
  weekly spending is never passed on; an errored out-of-sample quarter is never
  flagged; renormalised weights can be negative.

Watchlist
- Postgres does not enforce the limit. A reorder that fails in the middle leaves
  half of the new order in the table.

Strategy lifecycle
- record_event commits inside the savepoint that is meant to undo it, and the
  routes swallow a failed dual write: the `.tsv` may lack rows. A delete leaves
  the `.tsv`. An open crash is never decided and blocks deploy for ever. Two
  publishers both pass the check and the later finding stays.

Signals
- simulate_one compares "long"/"short" with "bullish". The second stop may leave
  the reward ratio below the gate in the high-quant profile. The bar of TP2 moves
  the stop to TP1 even where it had trailed beyond, before it trails again.
- analyze() calls discipline_evaluate and build_signal with arguments they do
  not take; the exceptions are swallowed. detect_patterns never stores
  raw_assessment, so extract_candidates finds nothing in its result.
- grid_search_weights enters a scope with the candidate's weights, and
  walk_forward enters a second one built from the defaults, which covers it
  (`signal_engine.py:973-974`, 991).
- The RSI adapter for freqtrade computes TA-Lib indicators of its own, whose cross
  signals differ from the domain code's (`tests/test_strategy_parity_talib.py`).
- A trading plan may rest on a signal twelve bars old; AI insight is cached for
  ever.

Bridges
- `_call` puts a deadline on select and none on the readline() and the
  stderr.read() that follow (`mcp_client.py:184-192`): a server that begins a line
  and does not end it, or closes its output and stays, blocks the client for ever,
  which the comment there says the select prevents. CallReturns exempts it.
- The item 'imports' of preflight fails for every generated file, and
  run_preflight is called by nothing (the route's step is a placeholder).
- A client error of OKX is not audited; after a timeout the late line is taken
  for the next answer; the outbox is never replayed. `_call_mcp_raw` of the
  freqtrade client always raises. Short strategies get a positive
  custom_stoploss. funding_history says persisted although its record is refused.
- Of the answers of alipay-bot only a proof installs something; archives other
  than tar.gz are refused; a price is ignored once there is a manifest; two
  installations at once may mix versions (the backup stays whole).

Requests
- technical_result is never stored and the update that completes a row is
  refused (analysis_type None), so nothing is ever replayed; the K-line cache key
  has no fingerprint although its comments say so; the limiter is per process
  and reads its clock before its lock; processes share one `.tmp` name, so a late
  write goes to the live symbol file.
- futures_symbols_cache.py claims three things the code does not do (12-19,
  160-161): callers may see an empty list, when no file can be read and the fetch
  fails; get() fetches inside the request when there is no file; and nothing takes
  an fcntl.flock.

Migration `20260910_001_auth_complete.sql` declares create_invite_code with a
parameter without default after defaulted ones, which Postgres refuses.

## 6. Plan

Every component with state of its own that the code really changes is modelled,
and every safety property that a passing run checks is proved but WakesInTime,
which is only model-checked. What is left is that one, liveness, which stays with
TLC, and what section 7 leaves out.

## 7. Not modelled

- *Watchlist scan and notifications.* Every scan ends in an exception before it
  logs or sends anything: get_market_regime indexes a Series with -1, and
  _scan_user uses a name that is not imported. A model would show nothing but
  the lock.
- *Floating-point series*: the recurrences of EMA, RSI, MACD and ATR, pattern
  detection (an external library), regime statistics and calibration fits. What
  other components see of them is an input, chosen freely.
- *Vibe tools, prompts and context.* To a run a tool call succeeds, fails or
  raises, which VibeRun has.
- *Invites and sign-up*: SQL of a migration that Postgres refuses as written;
  token verification belongs to the identity provider. The administrator's
  changes to a profile are in QuotaLedger.
- *skillpay_auto_publisher*, which drives a web site through a browser; the status
  query of an order, which only reads.
- *Maker-Checker*: calibration, salt file, mock back end and the review log.
- *Service shell, benchmark, command line, front ends*: wiring, pure batch scoring,
  operator tools, and callers in any order.
- *Strategy translation and preflight*: of a generated strategy only its levels
  and its stop are modelled; its text, its class name and the preflight, which no
  route runs, are not. *The freqtrade adapter* of the RSI strategy.
- Inside modelled components: local development mode without a ledger, the
  memory-only mode of the stores, a thread that does not start, wording and layout.
