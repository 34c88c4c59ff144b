-------------------------- MODULE FreqtradeBridge --------------------------
(***************************************************************************)
(* The journal the bridges share, and freqtrade's side of it: a signal     *)
(* turned into a strategy file, and the client of the freqtrade MCP server *)
(* that the strategy loop uses.                                            *)
(*                                                                         *)
(* A result from outside, an OKX fill or a freqtrade hyperopt result, is   *)
(* written to an outbox file, appended to HISTORY.jsonl and then unlinked  *)
(* from the outbox; a Binance observation is appended directly.            *)
(* append_history itself, with its lock and its source mutex, is the       *)
(* subject of LoopHistory; the ids of the two kinds of writers never meet, *)
(* so that here it succeeds or fails.                                      *)
(***************************************************************************)
EXTENDS Integers, FiniteSets

CONSTANTS Fills, Hyperopts, \* results to journal
          Workloads,        \* what the callers may ask for, one record of bounds each
          Snapshots         \* tuning snapshots a loop is started with

VARIABLES work,          \* the workload of this behaviour
          history, outbox, \* rows of HISTORY.jsonl, files of its outbox
          writers,       \* where each writer is
          faults,
          files,         \* the strategy files on disk, each the snapshot it is for
          backtests,     \* _gen_backtest_count
          spawned,       \* server processes started for backtests this generation
          errors,        \* calls that raised
          calls          \* calls made, to bound the run

journal == <<work, history, outbox, writers>>
ftVars == <<files, backtests, spawned, errors, calls>>

(* A workload: the requests and results there are, and bounds on           *)
(* generations, tool calls, fetches and faults (crashes, failing appends,  *)
(* servers that stall or go by themselves); or that of the skill shop.     *)
ASSUME JournalAssumption ==
    /\ Fills \cap Hyperopts = {}
    /\ \A w \in Workloads : /\ DOMAIN w = {"requests", "results", "gens", "calls", "fetches", "faults", "skills"}
                             /\ {w.gens, w.calls, w.fetches, w.faults} \subseteq Nat /\ w.skills \in BOOLEAN

JournalInit ==
    /\ work \in Workloads
    /\ history = {} /\ outbox = {} /\ faults = 0
    /\ writers = [w \in Fills \cup Hyperopts |-> "new"]

Fault == faults < work.faults /\ faults' = faults + 1

ToOutbox(w) ==
    /\ w \in work.results /\ writers[w] = "new" /\ outbox' = outbox \cup {w}
    /\ writers' = [writers EXCEPT ![w] = "append"]
    /\ UNCHANGED <<work, history, faults>>

(* The append, or its failure, which leaves the outbox file for ever.      *)
append_history(w) ==
    /\ writers[w] = "append" /\ UNCHANGED <<work, outbox>>
    /\ \/ /\ history' = history \cup {w}
          /\ writers' = [writers EXCEPT ![w] = "unlink"] /\ UNCHANGED faults
       \/ /\ Fault /\ writers' = [writers EXCEPT ![w] = "failed"] /\ UNCHANGED history

Unlink(w) ==
    /\ writers[w] = "unlink" /\ outbox' = outbox \ {w}
    /\ writers' = [writers EXCEPT ![w] = "done"]
    /\ UNCHANGED <<work, history, faults>>

write_fill_to_history(f) ==
    f \in Fills /\ (ToOutbox(f) \/ append_history(f) \/ Unlink(f))

(* parse_hyperopt_yaml gives the result a fresh uuid, so parsing the same  *)
(* file again is another writer.                                           *)
write_hyperopt_to_history(h) ==
    h \in Hyperopts /\ (ToOutbox(h) \/ append_history(h) \/ Unlink(h))

JournalCrash ==
    /\ writers' = [w \in DOMAIN writers |->
                     IF writers[w] \in {"append", "unlink"} THEN "crashed" ELSE writers[w]]
    /\ UNCHANGED <<work, history, outbox>>

----------------------------------------------------------------------------
(* The strategy file.  Prices are positive ticks, or NoPrice.              *)

MAX_BACKTEST_PER_GEN == 5
BACKTEST_TOOLS == {"backtest_strategy", "hyperopt_strategy"}

NoPrice == 0

ASSUME SnapshotAssumption ==
    \A s \in Snapshots : {s.entry, s.exit, s.stop, s.zrpc} \subseteq Nat

(* Pattern mode, the only one the loop asks for, needs all three.          *)
HasLevels(s) == NoPrice \notin {s.entry, s.exit, s.stop}

(* The touch price decides the direction; without one the entry is it.     *)
Direction(s) == IF s.zrpc = NoPrice \/ s.entry >= s.zrpc THEN "long" ELSE "short"

(* A strategy is named for its pattern, and a file of that name replaced.  *)
translate(s) == files' = {f \in files : f.pattern # s.pattern} \cup {s}

(* The smaller of the two stops, so that the fixed one wins too early.     *)
custom_stoploss_min(s, rate, stoploss) ==
    IF rate <= 0 THEN stoploss
    ELSE LET frac == ((s.stop - rate) * 1000) \div rate
         IN IF frac < stoploss THEN frac ELSE stoploss

(* The stop of the generated strategy, in thousandths of the current rate. *)
custom_stoploss(s, rate, stoploss) ==
    IF rate <= 0 THEN stoploss
    ELSE LET frac == ((s.stop - rate) * 1000) \div rate
         IN IF frac > stoploss THEN frac ELSE stoploss

----------------------------------------------------------------------------
(* The client.                                                             *)

FtInit ==
    /\ files = {} /\ backtests = 0 /\ spawned = 0 /\ errors = 0 /\ calls = 0

(* communicate takes no timeout, so that the call raises once the process  *)
(* has been started.                                                       *)
call_mcp_raw(backtest) ==
    /\ errors' = errors + 1
    /\ spawned' = IF backtest THEN spawned + 1 ELSE spawned

call_tool(tool) ==
    /\ calls < work.calls /\ calls' = calls + 1
    /\ \/ /\ tool \in BACKTEST_TOOLS /\ backtests >= MAX_BACKTEST_PER_GEN
          /\ errors' = errors + 1 /\ UNCHANGED <<backtests, spawned>>
       \/ /\ tool \in BACKTEST_TOOLS /\ backtests < MAX_BACKTEST_PER_GEN
          /\ backtests' = backtests + 1 /\ call_mcp_raw(TRUE)
       \/ /\ tool \notin BACKTEST_TOOLS
          /\ call_mcp_raw(FALSE) /\ UNCHANGED backtests
    /\ UNCHANGED files

ft_reset_gen_counter ==
    /\ calls < work.calls /\ calls' = calls + 1
    /\ backtests' = 0 /\ spawned' = 0 /\ UNCHANGED <<files, errors>>

(* run_loop: translate the snapshot's signal, then open the client, whose  *)
(* discovery of the tools raises; the file stays.                          *)
run_loop(s) ==
    /\ calls < work.calls /\ calls' = calls + 1
    /\ \/ HasLevels(s) /\ translate(s) /\ call_mcp_raw(FALSE)
       \/ /\ ~HasLevels(s)
          /\ errors' = errors + 1 /\ UNCHANGED <<files, spawned>>
    /\ UNCHANGED backtests

FtNext ==
    \/ \E tool \in BACKTEST_TOOLS \cup {"download_candles"} : call_tool(tool)
    \/ \E s \in Snapshots : run_loop(s)
    \/ ft_reset_gen_counter
============================================================================
