----------------------------- MODULE OkxBridge -----------------------------
(***************************************************************************)
(* The write path to OKX: the gates of executor.dispatch, the stdio client *)
(* of the okx-trade-mcp process with its cap per generation, its retry and *)
(* its timeout, the audit log written through an outbox, and the fills     *)
(* journalled the same way.  The client is one thread; the server process  *)
(* and the file system act, fail and die between its steps.  Answers carry *)
(* no request id that anybody compares: the next line is the next answer.  *)
(* The deadline of a call is on select, which tells whether there is       *)
(* something to read; the readline after it waits for the end of the line, *)
(* and the read of stderr after the last line for the end of the process.  *)
(***************************************************************************)
EXTENDS FreqtradeBridge, Sequences

CONSTANTS Orders,    \* write requests, each with its client order id
          ReadTools, \* those of them whose tool is not one that writes
          Queries,   \* read requests
          Configs    \* subset of [paper : BOOLEAN, allow_live : BOOLEAN]

VARIABLES config,    \* how the executor was constructed
          call,      \* the request under way: [pc, req, tries]
          server,    \* "up", "terminating", "closed" (its stdout is) or "dead"
          stdin, stdout, \* the two pipes, stdout with what the client has buffered
          part,      \* whether the last line of stdout has no end yet
          fresh,     \* whether there is something the client has not buffered
          writes,    \* write_count_this_gen
          gen, genOf,\* the generation, and that of each order sent
          placed,    \* orders that reached the exchange
          log, box,  \* the audit file and its outbox
          told       \* what the caller was told of a request

okxVars == <<config, call, server, stdin, stdout, part, fresh, writes, gen, genOf, placed,
             log, box, told, journal, faults>>

MAX_OKX_WRITE_PER_GEN == 3
RATE_LIMIT_CODE == "50011"

ASSUME OkxAssumption ==
    /\ Configs \subseteq [paper : BOOLEAN, allow_live : BOOLEAN]
    /\ Orders \cap Queries = {}

Nothing == "nothing"
Idle == [pc |-> "idle", req |-> Nothing, tries |-> 0]

OkxInit ==
    /\ config \in Configs
    /\ call = Idle /\ server = "up" /\ stdin = <<>> /\ stdout = <<>>
    /\ part = FALSE /\ fresh = FALSE
    /\ writes = 0 /\ gen = 1 /\ genOf = [o \in Orders |-> 0] /\ placed = {}
    /\ log = {} /\ box = {} /\ told = [r \in Orders \cup Queries |-> "new"]
    /\ JournalInit

output == <<stdout, part, fresh>>
pipes == <<server, stdin, output>>
audit == <<log, box>>
order == <<writes, gen, genOf, placed>>

----------------------------------------------------------------------------
(* The client.                                                             *)

is_live_execution_tool(o) == o \notin ReadTools

(* Gate 3 only words the mode, it never refuses.                           *)
execution_allowed_for_tools(o, paper) == TRUE

Allowed(o) ==
    /\ is_live_execution_tool(o)
    /\ config.paper \/ config.allow_live
    /\ execution_allowed_for_tools(o, config.paper)

(* The callers make the requests of the workload one after the other.      *)
Due(r) ==
    \E i \in DOMAIN work.requests :
       /\ work.requests[i] = r /\ told[r] = "new"
       /\ \A j \in 1..(i - 1) : told[work.requests[j]] # "new"

(* _call up to the flush: a dead server breaks the pipe.                   *)
Send(req, tries) ==
    IF server = "dead"
    THEN /\ call' = [pc |-> "client_error", req |-> req, tries |-> tries]
         /\ UNCHANGED stdin
    ELSE /\ call' = [pc |-> "wait", req |-> req, tries |-> tries]
         /\ stdin' = Append(stdin, req)

(* write_count_this_gen goes up before anything is sent and never down.    *)
CountWrite(o) == writes' = writes + 1

dispatch(o) ==
    /\ call.pc = "idle" /\ Due(o)
    /\ \/ /\ ~Allowed(o)
          /\ call' = [pc |-> "audit", req |-> [id |-> o, code |-> "REJECTED"], tries |-> 0]
          /\ UNCHANGED <<stdin, writes, genOf>>
       \/ /\ Allowed(o) /\ writes >= MAX_OKX_WRITE_PER_GEN
          /\ call' = [pc |-> "client_error", req |-> o, tries |-> 0]
          /\ UNCHANGED <<stdin, writes, genOf>>
       \/ /\ Allowed(o) /\ writes < MAX_OKX_WRITE_PER_GEN
          /\ CountWrite(o)
          /\ genOf' = [genOf EXCEPT ![o] = gen]
          /\ Send(o, 1)
    /\ UNCHANGED <<config, server, output, gen, placed, audit, told, journal, faults>>

(* A market data read through the same pipe, not counted and not audited.  *)
Query(q) ==
    /\ call.pc = "idle" /\ Due(q) /\ Send(q, 1)
    /\ UNCHANGED <<config, server, output, order, audit, told, journal, faults>>

(* select sees what is new in the pipe, or that it has ended, and not what *)
(* an earlier readline has already taken out of it.                        *)
Ended == server \in {"closed", "dead"}
Ready == fresh \/ Ended

(* The first line is the answer, and whatever came after it is buffered:   *)
(* rate limited once means the same request again; a code is a result,     *)
(* which a write records; anything else is a client error.                 *)
invoke_tool ==
    /\ call.pc = "wait" /\ Ready /\ stdout # <<>>
    /\ LET code == Head(stdout) IN
       /\ stdout' = Tail(stdout) /\ fresh' = FALSE
       /\ \/ /\ code = RATE_LIMIT_CODE /\ call.tries = 1
             /\ Send(call.req, 2) /\ UNCHANGED told
          \/ /\ code # "garbage" /\ ~(code = RATE_LIMIT_CODE /\ call.tries = 1)
             /\ call' = IF call.req \in Orders
                        THEN [call EXCEPT !.pc = "audit", !.req = [id |-> call.req, code |-> code]]
                        ELSE Idle
             /\ told' = IF call.req \in Queries THEN [told EXCEPT ![call.req] = code] ELSE told
             /\ UNCHANGED stdin
          \/ /\ code = "garbage"
             /\ call' = [call EXCEPT !.pc = "client_error"]
             /\ UNCHANGED <<stdin, told>>
    /\ UNCHANGED <<config, server, part, order, audit, journal, faults>>

(* A call with no deadline on the pipe.                                    *)
Timeout_never == FALSE /\ UNCHANGED okxVars

(* select returns nothing within the timeout: the server is told to stop,  *)
(* its pipes stay open.                                                    *)
Timeout ==
    /\ call.pc = "wait" /\ ~Ready
    /\ server' = "terminating"
    /\ call' = [call EXCEPT !.pc = "client_error"]
    /\ UNCHANGED <<config, stdin, output, order, audit, told, journal, faults>>

(* Nothing is left but what the pipe ended with, which is no answer; where *)
(* it ended with a whole line the error quotes stderr to its end.          *)
EndOfFile ==
    /\ call.pc = "wait" /\ stdout = <<>>
    /\ (part /\ Ended) \/ server = "dead"
    /\ call' = [call EXCEPT !.pc = "client_error"] /\ part' = FALSE /\ fresh' = FALSE
    /\ UNCHANGED <<config, server, stdin, stdout, order, audit, told, journal, faults>>

(* OKXClientError leaves dispatch without a record.                        *)
ClientError ==
    /\ call.pc = "client_error" /\ call' = Idle
    /\ told' = [told EXCEPT ![call.req] = "client_error"]
    /\ UNCHANGED <<config, pipes, order, audit, journal, faults>>

----------------------------------------------------------------------------
(* AuditLog.write: outbox file, line in the daily file, unlink.            *)

Audit_skips_errors ==
    /\ \/ /\ call.pc = "audit" /\ box' = box \cup {call.req}
          /\ call' = [call EXCEPT !.pc = "boxed"] /\ UNCHANGED <<log, told>>
       \/ /\ call.pc = "audit" /\ call.req.code \notin {"0", "REJECTED"} /\ call' = Idle
          /\ told' = [told EXCEPT ![call.req.id] = call.req.code] /\ UNCHANGED <<log, box>>
       \/ /\ call.pc = "boxed" /\ log' = log \cup {call.req}
          /\ call' = [call EXCEPT !.pc = "logged"] /\ UNCHANGED <<box, told>>
       \/ /\ call.pc = "logged" /\ box' = box \ {call.req} /\ call' = Idle
          /\ told' = [told EXCEPT ![call.req.id] = call.req.code] /\ UNCHANGED log
    /\ UNCHANGED <<config, pipes, order, journal, faults>>

(* The three steps, the last of which lets dispatch return (or re-raise).  *)
Audit ==
    /\ \/ /\ call.pc = "audit" /\ box' = box \cup {call.req}
          /\ call' = [call EXCEPT !.pc = "boxed"] /\ UNCHANGED <<log, told>>
       \/ /\ call.pc = "boxed" /\ log' = log \cup {call.req}
          /\ call' = [call EXCEPT !.pc = "logged"] /\ UNCHANGED <<box, told>>
       \/ /\ call.pc = "logged" /\ box' = box \ {call.req} /\ call' = Idle
          /\ told' = [told EXCEPT ![call.req.id] = call.req.code] /\ UNCHANGED log
    /\ UNCHANGED <<config, pipes, order, journal, faults>>

----------------------------------------------------------------------------
(* Generations, the server and faults.                                     *)

reset_gen_counter ==
    /\ call.pc = "idle" /\ gen < work.gens
    /\ gen' = gen + 1 /\ writes' = 0
    /\ UNCHANGED <<config, call, pipes, genOf, placed, audit, told, journal, faults>>

(* The server takes a request and answers with a line, if it can; only an  *)
(* answer "0" or one that is lost on the way can stand for an order that   *)
(* was placed.                                                             *)
Serve ==
    /\ server # "dead" /\ stdin # <<>>
    /\ stdin' = Tail(stdin)
    /\ \E code \in {"0", RATE_LIMIT_CODE, "garbage"} :
         /\ IF server = "closed" THEN UNCHANGED output
            ELSE stdout' = Append(stdout, code) /\ part' = FALSE /\ fresh' = TRUE
         /\ \/ /\ code \in {"0", "garbage"} /\ Head(stdin) \in Orders
               /\ placed' = placed \cup {Head(stdin)}
            \/ /\ (code # "0" \/ Head(stdin) \notin Orders) /\ UNCHANGED placed
    /\ UNCHANGED <<config, call, server, writes, gen, genOf, audit, told, journal, faults>>

(* The server starts the line of an answer, which Serve ends.              *)
StartLine ==
    /\ ~Ended /\ stdin # <<>> /\ ~part /\ Fault
    /\ part' = TRUE /\ fresh' = TRUE
    /\ UNCHANGED <<config, call, server, stdin, stdout, order, audit, told, journal>>

(* The server ends its output and goes on running; or it is gone, because  *)
(* it was told to stop or by itself.                                       *)
CloseOutput ==
    /\ ~Ended /\ server' = "closed" /\ Fault
    /\ UNCHANGED <<config, call, stdin, output, order, audit, told, journal>>

Die ==
    /\ server # "dead"
    /\ Fault \/ (server = "terminating" /\ UNCHANGED faults)
    /\ server' = "dead" /\ stdin' = <<>>
    /\ UNCHANGED <<config, call, output, order, audit, told, journal>>

(* A new client for the next use: close terminates the old server, and     *)
(* what it had not read is gone.                                           *)
NewClient ==
    /\ server' = "up" /\ stdin' = <<>> /\ stdout' = <<>>
    /\ part' = FALSE /\ fresh' = FALSE
    /\ writes' = 0 /\ gen' = gen + 1

close ==
    /\ call.pc = "idle" /\ gen < work.gens /\ NewClient
    /\ UNCHANGED <<config, call, genOf, placed, audit, told, journal, faults>>

Current == IF call.pc \in {"audit", "boxed", "logged"} THEN call.req.id ELSE call.req

(* The host process dies and starts again.                                 *)
Crash ==
    /\ Fault /\ NewClient /\ JournalCrash
    /\ call' = Idle
    /\ told' = [r \in DOMAIN told |-> IF r = Current THEN "crashed" ELSE told[r]]
    /\ UNCHANGED <<config, genOf, placed, audit>>

OkxNext ==
    \/ \E o \in Orders : dispatch(o)
    \/ \E q \in Queries : Query(q)
    \/ invoke_tool \/ Timeout \/ EndOfFile \/ ClientError \/ Audit
    \/ reset_gen_counter \/ close
    \/ Serve \/ StartLine \/ CloseOutput \/ Die \/ Crash
============================================================================
