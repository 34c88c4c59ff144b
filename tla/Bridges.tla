------------------------------ MODULE Bridges ------------------------------
(***************************************************************************)
(* The bridges of one host: those to the exchanges and to freqtrade share  *)
(* HISTORY.jsonl, its outbox and the faults of the machine; the one to     *)
(* Alipay, in a workload of its own, shares nothing with them.             *)
(*                                                                         *)
(* First the read-only routes to Binance: validate the symbol, run         *)
(* binance-cli, count the outcome, append an observation when asked to,    *)
(* answer.  What the command did is one of Outcomes; a payload is its kind.*)
(***************************************************************************)
EXTENDS OkxBridge, SkillShop

VARIABLES counter,  \* binance_market_fetch_total by endpoint and status
          answers   \* the answers given, in order

feedVars == <<counter, answers>>

Endpoints == {"mark_price", "open_interest", "funding_history"}

(* A fill or a hyperopt result is not an observation of the market.        *)
ASSUME FeedAssumption ==
    (Fills \cup Hyperopts) \cap ({"binance_market"} \X Endpoints \X Nat) = {}

(* exit: how the process ended; "warned" is a failure that only says       *)
(* EAGAIN, "unreadable" one whose output raises as it is decoded.  out:    *)
(* what is on stdout, "noisy" being JSON after other lines.  late: whether *)
(* what an error would quote says "timed out".                             *)
Outcomes == [exit : {"ok", "warned", "failed", "timeout", "missing", "unreadable"},
             out : {"json", "noisy", "none", "truncated", "malformed"}, late : BOOLEAN]

(* A failing exit is only an error if stderr says something else; anything *)
(* that is not a BinanceCliError is left to the route.                     *)
run_cli(o) ==
    CASE o.exit \in {"timeout", "missing", "failed"} -> "BinanceCliError"
      [] o.exit = "unreadable" -> "raised"
      [] OTHER -> "ok"

parse_json(o) == IF o.out \in {"none", "truncated"} THEN "BinanceCliError" ELSE "ok"

(* A malformed payload fails the single values; of a list of funding rates *)
(* only the malformed entries are left out.                                *)
fetch(endpoint, o) ==
    CASE run_cli(o) # "ok" -> run_cli(o)
      [] parse_json(o) # "ok" -> parse_json(o)
      [] o.out = "malformed" /\ endpoint # "funding_history" -> "BinanceCliError"
      [] OTHER -> "ok"

(* A BinanceCliError is classified by its text, which quotes the command.  *)
StatusOf(endpoint, o) ==
    CASE fetch(endpoint, o) = "ok" -> "ok"
      [] fetch(endpoint, o) = "raised" -> "json_error"
      [] OTHER -> IF o.exit = "timeout" \/ o.late THEN "timeout" ELSE "cli_error"

record_fetch(endpoint, status) ==
    counter' = [counter EXCEPT ![<<endpoint, status>>] = @ + 1]

(* Persists first and asks for the outcome later.                          *)
maybe_persist_anyway(endpoint, status, asked, row) ==
    IF asked /\ status # "invalid"
    THEN history' = history \cup {row} /\ UNCHANGED faults
    ELSE UNCHANGED <<history, faults>>

(* The payload of funding_history is a list, on which looking up "entries" *)
(* raises; that, like an append that fails, is logged and forgotten.       *)
maybe_persist(endpoint, status, asked, row) ==
    IF status = "ok" /\ asked /\ endpoint # "funding_history"
    THEN \/ history' = history \cup {row} /\ UNCHANGED faults
         \/ Fault /\ UNCHANGED history
    ELSE UNCHANGED <<history, faults>>

FeedInit == /\ counter = [x \in Endpoints \X {"ok", "timeout", "json_error", "cli_error"} |-> 0]
            /\ answers = <<>>

handle_endpoint(endpoint, o, valid, asked) ==
    LET status == IF valid THEN StatusOf(endpoint, o) ELSE "invalid"
        row == <<"binance_market", endpoint, Len(answers) + 1>>
    IN /\ Len(answers) < work.fetches
       /\ answers' = Append(answers, [endpoint |-> endpoint, status |-> status,
                                      persisted |-> status = "ok" /\ asked])
       /\ IF valid THEN record_fetch(endpoint, status) ELSE UNCHANGED counter
       /\ maybe_persist(endpoint, status, asked, row)
       /\ UNCHANGED <<work, outbox, writers>>

FeedNext ==
    \E e \in Endpoints, o \in Outcomes, valid, asked \in BOOLEAN :
       handle_endpoint(e, o, valid, asked)

----------------------------------------------------------------------------
(* The bridges together.                                                   *)

vars == <<okxVars, ftVars, feedVars, shopVars>>
others == <<config, call, pipes, order, audit, told>>

Init ==
    /\ OkxInit /\ FtInit /\ FeedInit /\ ShopInit
    /\ IF work.skills THEN config.paper ELSE ~paid

Next ==
    \/ OkxNext /\ UNCHANGED <<ftVars, feedVars, shopVars>>
    \/ /\ \/ \E f \in Fills : write_fill_to_history(f)
          \/ \E h \in Hyperopts : write_hyperopt_to_history(h)
       /\ UNCHANGED <<others, ftVars, feedVars, shopVars>>
    \/ FtNext /\ UNCHANGED <<okxVars, feedVars, shopVars>>
    \/ FeedNext /\ UNCHANGED <<others, ftVars, shopVars>>
    \/ work.skills /\ ShopNext /\ UNCHANGED <<okxVars, ftVars, feedVars>>

(* The thread that dispatches goes on, and so does a server that was told  *)
(* to stop; the exchange and its server owe nobody an answer.              *)
Fairness == WF_vars((invoke_tool \/ Timeout \/ EndOfFile \/ ClientError \/ Audit)
                    /\ UNCHANGED <<ftVars, feedVars, shopVars>>)

Spec == Init /\ [][Next]_vars /\ Fairness

----------------------------------------------------------------------------
(* The caps of a generation count what was started, not what succeeded: no *)
(* more than MAX_OKX_WRITE_PER_GEN orders of one generation reach the      *)
(* exchange, whatever timed out, was retried or answered late, and no more *)
(* than MAX_BACKTEST_PER_GEN backtest processes are started.               *)
GenerationCaps ==
    /\ \A g \in 1..gen :
         Cardinality({o \in placed : genOf[o] = g}) <= MAX_OKX_WRITE_PER_GEN
    /\ spawned <= MAX_BACKTEST_PER_GEN

(* Every dispatch that was answered by a code, an API error or a refusal   *)
(* has exactly that outcome in the audit log or its outbox; executor.      *)
AuditComplete ==
    \A o \in Orders : told[o] \notin {"new", "client_error", "crashed"} =>
                        [id |-> o, code |-> told[o]] \in log \cup box

(* A result whose writer got as far as its outbox file is in the journal   *)
(* or still in the outbox, wherever the writer failed or died.             *)
ResultsKept ==
    \A w \in DOMAIN writers : writers[w] # "new" => w \in history \cup outbox

(* What reaches the exchange passed the gates of the executor, also when   *)
(* it was sent again or read by a server that had been told to stop.       *)
GatesHold == \A o \in placed : Allowed(o)

(* Orders are accounted for: let through by the gates, within the caps of  *)
(* their generation, each one that was answered in the audit log or its    *)
(* outbox, and what came of them in the journal or its outbox.             *)
OrdersAccounted == GatesHold /\ GenerationCaps /\ AuditComplete /\ ResultsKept

(* A row of the market feed stands for an answer that asked for it and was *)
(* a success of its endpoint, and every answer that ran the command was    *)
(* counted under its status.                                               *)
FeedTruth ==
    /\ \A i \in 1..work.fetches, e \in Endpoints :
         <<"binance_market", e, i>> \in history =>
            i <= Len(answers) /\ answers[i].endpoint = e /\ answers[i].persisted
    /\ \A x \in DOMAIN counter :
         counter[x] = Cardinality({i \in DOMAIN answers :
                        answers[i].endpoint = x[1] /\ answers[i].status = x[2]})

(* A stop in thousandths of the rate is at the price of the signal's stop, *)
(* to the thousandth it is rounded down to.                                *)
AtStop(s, rate, stop) ==
    rate * (1000 + stop) <= s.stop * 1000 /\ s.stop * 1000 < rate * (1000 + stop) + rate

(* Every strategy file on disk stops its position at the stop of the       *)
(* signal it was written for: a long while the rate is over the stop, or   *)
(* at the configured distance where that is nearer; a short, whose stop is *)
(* a positive fraction, while the rate is under it, at any distance.       *)
StopsHold ==
    \A s \in files :
       /\ Direction(s) = "long" =>
            \A rate \in s.stop..(2 * s.entry) :
               LET stop == custom_stoploss(s, rate, -100)
               IN stop \in -100..0 /\ (stop = -100 \/ AtStop(s, rate, stop))
       /\ Direction(s) = "short" =>
            \A rate \in 1..s.stop :
               LET stop == custom_stoploss(s, rate, -100)
               IN stop >= 0 /\ AtStop(s, rate, stop)

(* A call hangs on a line that the server does not end, or on the stderr   *)
(* of a server that has ended its output and goes on running.              *)
Hangs ==
    /\ call.pc = "wait" /\ stdout = <<>>
    /\ \/ part /\ fresh /\ ~Ended
       \/ ~part /\ server = "closed"

(* A dispatch or a read returns, from a server that never answers, answers *)
(* late or dies; unless it hangs for ever in one of the two reads that     *)
(* have no deadline; mcp_client.                                           *)
CallReturns == <>[]Hangs \/ ((call.pc # "idle") ~> (call.pc = "idle"))
============================================================================
