--------------------------- MODULE BridgesProofs ---------------------------
(***************************************************************************)
(* Proofs about the bridges: the orders of a generation are within its cap *)
(* and accounted for, the market feed tells the truth, the stop of a       *)
(* generated strategy holds, and no skill is lost.  Each part has an       *)
(* inductive invariant of its own, over the variables of that part.        *)
(***************************************************************************)
EXTENDS Bridges, FiniteSetTheorems, TLAPS

(* The indices of a sequence with one more element, and what is there.     *)
LEMMA Appended ==
  ASSUME NEW S, NEW s \in Seq(S), NEW e \in S
  PROVE  /\ Len(s) + 1 \in Nat /\ Len(s) + 1 \notin DOMAIN s
         /\ DOMAIN Append(s, e) = DOMAIN s \cup {Len(s) + 1}
         /\ Append(s, e)[Len(s) + 1] = e
         /\ \A i \in DOMAIN s : Append(s, e)[i] = s[i]
<1>1. Len(s) \in Nat /\ DOMAIN s = 1..Len(s) /\ DOMAIN Append(s, e) = 1..(Len(s) + 1)
  OBVIOUS
<1>2. 1..(Len(s) + 1) = 1..Len(s) \cup {Len(s) + 1}
  BY <1>1
<1> QED
  BY <1>1, <1>2

----------------------------------------------------------------------------
(* The write path to OKX.                                                  *)

Codes == {"0", RATE_LIMIT_CODE, "garbage", "REJECTED"}
Requests == Orders \cup Queries
Records == [id : Orders, code : Codes]

(* What travels: the caller's request, its answers and what is recorded.   *)
OkxTypes ==
    /\ call \in [pc : {"idle", "wait", "client_error", "audit", "boxed", "logged"},
                 req : Requests \cup Records \cup {Nothing}, tries : 0..2]
    /\ call.pc \in {"wait", "client_error"} => call.req \in Requests
    /\ call.pc \in {"audit", "boxed", "logged"} => call.req \in Records
    /\ stdin \in Seq(Requests)
    /\ stdout \in Seq(Codes)
    /\ told \in [Requests -> Codes \cup {"new", "client_error", "crashed"}]

(* The orders that were sent for in a generation.                          *)
SentIn(g) == {o \in Orders : genOf[o] = g}

(* The counter stands for every order of the current generation, and no    *)
(* generation, this or an earlier one, has more of them than the cap; what *)
(* is on its way or at the exchange was counted once, when it was sent.    *)
CountInv ==
    /\ gen \in Nat /\ gen >= 1
    /\ writes \in 0..MAX_OKX_WRITE_PER_GEN
    /\ genOf \in [Orders -> 0..gen]
    /\ \A g \in 1..gen : /\ IsFiniteSet(SentIn(g))
                         /\ Cardinality(SentIn(g)) <= MAX_OKX_WRITE_PER_GEN
    /\ Cardinality(SentIn(gen)) <= writes
    /\ placed \subseteq Orders

(* A record under way is in the outbox once it was boxed, and in the log   *)
(* before it leaves the outbox.                                            *)
RecordInv ==
    /\ call.pc = "boxed" => call.req \in box
    /\ call.pc = "logged" => call.req \in log

(* A request that waits, or that the server has still to read, passed the  *)
(* gates if it is an order.                                                *)
GateInv ==
    /\ call.pc = "wait" /\ call.req \in Orders => Allowed(call.req)
    /\ \A i \in DOMAIN stdin : stdin[i] \in Orders => Allowed(stdin[i])

WritersInv ==
    /\ writers \in [Fills \cup Hyperopts ->
                      {"new", "append", "unlink", "done", "failed", "crashed"}]
    /\ \A w \in Fills \cup Hyperopts :
         /\ writers[w] = "append" => w \in outbox
         /\ writers[w] = "unlink" => w \in history

(* A process is started for a backtest only once the backtest was counted. *)
SpawnInv ==
    /\ spawned \in Nat /\ backtests \in Nat
    /\ spawned <= backtests /\ backtests <= MAX_BACKTEST_PER_GEN

OrdersInv ==
    OkxTypes /\ GateInv /\ CountInv /\ RecordInv /\ WritersInv /\ SpawnInv /\ OrdersAccounted

LEMMA OrdersInvInit == Init => OrdersInv
<1> SUFFICES ASSUME Init PROVE OrdersInv
  OBVIOUS
<1> USE DEF Init, OkxInit, FtInit, JournalInit
<1>1. OkxTypes
  BY DEF OkxTypes, Idle, Requests
<1>2. CountInv
  <2>1. SentIn(gen) = {} /\ \A g \in 1..gen : SentIn(g) = {}
    BY DEF SentIn
  <2>2. IsFiniteSet({}) /\ Cardinality({}) = 0
    BY FS_EmptySet
  <2>3. gen \in Nat /\ gen >= 1 /\ genOf \in [Orders -> 0..gen] /\ placed \subseteq Orders
    OBVIOUS
  <2>4. writes = 0 /\ writes \in 0..MAX_OKX_WRITE_PER_GEN
    BY DEF MAX_OKX_WRITE_PER_GEN
  <2>5. /\ Cardinality(SentIn(gen)) <= writes
        /\ \A g \in 1..gen : IsFiniteSet(SentIn(g)) /\ Cardinality(SentIn(g)) <= MAX_OKX_WRITE_PER_GEN
    <3> HIDE DEF Init
    <3> QED
      BY <2>1, <2>2, <2>4 DEF MAX_OKX_WRITE_PER_GEN
  <2> QED
    BY <2>3, <2>4, <2>5 DEF CountInv
<1>3. RecordInv /\ WritersInv /\ SpawnInv
  BY DEF RecordInv, WritersInv, SpawnInv, Idle, MAX_BACKTEST_PER_GEN
<1>4. GenerationCaps
  <2>1. \A g \in 1..gen : {o \in placed : genOf[o] = g} = {}
    OBVIOUS
  <2> QED
    BY <2>1, FS_EmptySet DEF GenerationCaps, MAX_OKX_WRITE_PER_GEN, MAX_BACKTEST_PER_GEN
<1>5. GateInv /\ GatesHold /\ AuditComplete /\ ResultsKept
  BY DEF GateInv, GatesHold, AuditComplete, ResultsKept, Idle
<1> QED
  BY <1>1, <1>2, <1>3, <1>4, <1>5 DEF OrdersInv, OrdersAccounted

(* The caps follow from the counts: what was placed of a generation was    *)
(* sent for in it.                                                         *)
LEMMA CapsFromCounts == CountInv /\ SpawnInv => GenerationCaps
<1> SUFFICES ASSUME CountInv, SpawnInv, NEW g \in 1..gen
             PROVE Cardinality({o \in placed : genOf[o] = g}) <= MAX_OKX_WRITE_PER_GEN
  BY DEF GenerationCaps, SpawnInv, MAX_BACKTEST_PER_GEN
<1> DEFINE P == {o \in placed : genOf[o] = g}
<1>1. P \subseteq SentIn(g)
  BY DEF CountInv, SentIn
<1>2. IsFiniteSet(SentIn(g)) /\ Cardinality(SentIn(g)) <= MAX_OKX_WRITE_PER_GEN
  BY DEF CountInv
<1>3. Cardinality(P) <= Cardinality(SentIn(g)) /\ IsFiniteSet(P)
  BY <1>1, <1>2, FS_Subset
<1>4. Cardinality(P) \in Nat /\ Cardinality(SentIn(g)) \in Nat
  BY <1>2, <1>3, FS_CardinalityType
<1> QED
  BY <1>2, <1>3, <1>4 DEF MAX_OKX_WRITE_PER_GEN

(* An order sent for now is one more of the current generation and at most *)
(* one less of an earlier one.                                             *)
LEMMA SentOneMore ==
  ASSUME CountInv, NEW o \in Orders, writes < MAX_OKX_WRITE_PER_GEN,
         genOf' = [genOf EXCEPT ![o] = gen], writes' = writes + 1,
         gen' = gen, placed' = placed
  PROVE  CountInv'
<1>1. genOf' \in [Orders -> 0..gen]
  BY DEF CountInv
<1>2. \A g \in 1..gen : SentIn(g)' \subseteq SentIn(g) \cup {o}
  BY DEF CountInv, SentIn
<1>3. \A g \in 1..gen : g # gen => SentIn(g)' \subseteq SentIn(g)
  BY DEF CountInv, SentIn
<1>4. gen \in 1..gen /\ IsFiniteSet(SentIn(gen)) /\ Cardinality(SentIn(gen)) <= writes
  BY DEF CountInv
<1>5. IsFiniteSet(SentIn(gen) \cup {o}) /\ Cardinality(SentIn(gen) \cup {o}) <= Cardinality(SentIn(gen)) + 1
  <2>1. Cardinality(SentIn(gen)) \in Nat
    BY <1>4, FS_CardinalityType
  <2>2. /\ IsFiniteSet(SentIn(gen) \cup {o})
        /\ Cardinality(SentIn(gen) \cup {o})
             = IF o \in SentIn(gen) THEN Cardinality(SentIn(gen)) ELSE Cardinality(SentIn(gen)) + 1
    BY <1>4, FS_AddElement
  <2> QED
    BY <1>4, <2>1, <2>2
<1>6. IsFiniteSet(SentIn(gen)') /\ Cardinality(SentIn(gen)') <= writes'
  <2>1. IsFiniteSet(SentIn(gen)') /\ Cardinality(SentIn(gen)') <= Cardinality(SentIn(gen) \cup {o})
    BY <1>2, <1>4, <1>5, FS_Subset
  <2>2. Cardinality(SentIn(gen)') \in Nat /\ Cardinality(SentIn(gen) \cup {o}) \in Nat /\ Cardinality(SentIn(gen)) \in Nat
    BY <1>4, <1>5, <2>1, FS_CardinalityType
  <2> QED
    BY <1>4, <1>5, <2>1, <2>2 DEF CountInv
<1>7. ASSUME NEW g \in 1..gen
      PROVE  IsFiniteSet(SentIn(g)') /\ Cardinality(SentIn(g)') <= MAX_OKX_WRITE_PER_GEN
  <2>1. CASE g = gen
    BY <1>6, <2>1, FS_CardinalityType DEF CountInv, MAX_OKX_WRITE_PER_GEN
  <2>2. CASE g # gen
    <3>1. IsFiniteSet(SentIn(g)) /\ Cardinality(SentIn(g)) <= MAX_OKX_WRITE_PER_GEN
      BY DEF CountInv
    <3>2. IsFiniteSet(SentIn(g)') /\ Cardinality(SentIn(g)') <= Cardinality(SentIn(g))
      BY <1>3, <2>2, <3>1, FS_Subset
    <3> QED
      BY <3>1, <3>2, FS_CardinalityType DEF MAX_OKX_WRITE_PER_GEN
  <2> QED
    BY <2>1, <2>2
<1> QED
  BY <1>1, <1>6, <1>7 DEF CountInv, MAX_OKX_WRITE_PER_GEN

(* A new generation starts from an empty count: nothing was sent for in it.*)
LEMMA CountsAnew ==
  ASSUME CountInv, gen' = gen + 1, writes' = 0, genOf' = genOf, placed' = placed
  PROVE  CountInv'
<1>1. genOf' \in [Orders -> 0..gen']
  BY DEF CountInv
<1>2. \A g \in Nat : SentIn(g)' = SentIn(g)
  BY DEF SentIn
<1>3. SentIn(gen + 1) = {}
  BY DEF CountInv, SentIn
<1>4. IsFiniteSet({}) /\ Cardinality({}) = 0
  BY FS_EmptySet
<1>5. \A g \in 1..gen' : IsFiniteSet(SentIn(g)) /\ Cardinality(SentIn(g)) <= MAX_OKX_WRITE_PER_GEN
  BY <1>3, <1>4 DEF CountInv, MAX_OKX_WRITE_PER_GEN
<1>6. SentIn(gen)' = {}
  BY <1>3 DEF SentIn
<1>7. \A g \in 1..gen' : IsFiniteSet(SentIn(g)') /\ Cardinality(SentIn(g)') <= MAX_OKX_WRITE_PER_GEN
  BY <1>2, <1>5 DEF CountInv
<1>8. gen' \in Nat /\ gen' >= 1 /\ writes' \in 0..MAX_OKX_WRITE_PER_GEN /\ placed' \subseteq Orders
  BY DEF CountInv, MAX_OKX_WRITE_PER_GEN
<1>9. Cardinality(SentIn(gen)') <= writes'
  BY <1>4, <1>6
<1> QED
  BY <1>1, <1>7, <1>8, <1>9 DEF CountInv

(* What a step that is none of the bridge to OKX leaves alone.             *)
LEMMA OtherSteps ==
  ASSUME \/ FtNext /\ UNCHANGED <<okxVars, feedVars, shopVars>>
         \/ FeedNext /\ UNCHANGED <<others, ftVars, shopVars>>
         \/ work.skills /\ ShopNext /\ UNCHANGED <<okxVars, ftVars, feedVars>>
         \/ UNCHANGED vars
         \/ /\ \/ \E f \in Fills : write_fill_to_history(f)
               \/ \E h \in Hyperopts : write_hyperopt_to_history(h)
            /\ UNCHANGED <<others, ftVars, feedVars, shopVars>>
  PROVE  UNCHANGED others
BY DEF vars, others, okxVars, pipes, output, order, audit

LEMMA SendTypes ==
  ASSUME stdin \in Seq(Requests), NEW r \in Requests, NEW n \in 0..2, Send(r, n)
  PROVE  /\ stdin' \in Seq(Requests)
         /\ call' \in [pc : {"wait", "client_error"}, req : {r}, tries : {n}]
<1>1. CASE server = "dead"
  BY <1>1 DEF Send
<1>2. CASE server # "dead"
  <2>1. stdin' = Append(stdin, r) /\ call' = [pc |-> "wait", req |-> r, tries |-> n]
    BY <1>2 DEF Send
  <2>2. Append(stdin, r) \in Seq(Requests)
    OBVIOUS
  <2> QED
    BY <2>1, <2>2
<1> QED
  BY <1>1, <1>2

LEMMA OkxTypesStep == OkxTypes /\ [Next]_vars => OkxTypes'
<1> SUFFICES ASSUME OkxTypes, [Next]_vars PROVE OkxTypes'
  OBVIOUS
<1> USE DEF OkxTypes, Requests, Records, Idle
<1>1. ASSUME NEW o \in Orders, dispatch(o) PROVE OkxTypes'
  <2>1. stdout' = stdout /\ told' = told
    BY <1>1 DEF dispatch, output
  <2>2. CASE Send(o, 1)
    BY <2>1, <2>2, SendTypes
  <2>3. CASE call' = [pc |-> "audit", req |-> [id |-> o, code |-> "REJECTED"], tries |-> 0] /\ stdin' = stdin
    BY <2>1, <2>3 DEF Codes
  <2>4. CASE call' = [pc |-> "client_error", req |-> o, tries |-> 0] /\ stdin' = stdin
    BY <2>1, <2>4
  <2> QED
    BY <1>1, <2>2, <2>3, <2>4 DEF dispatch
<1>2. ASSUME NEW q \in Queries, Query(q) PROVE OkxTypes'
  <2>1. Send(q, 1) /\ stdout' = stdout /\ told' = told
    BY <1>2 DEF Query, output
  <2> QED
    BY <2>1, SendTypes
<1>3. CASE invoke_tool
  <2>1. Head(stdout) \in Codes /\ stdout' \in Seq(Codes)
    BY <1>3 DEF invoke_tool
  <2>2. CASE Head(stdout) = RATE_LIMIT_CODE /\ call.tries = 1
    <3>1. Send(call.req, 2) /\ call.req \in Requests /\ told' = told
      BY <1>3, <2>2 DEF invoke_tool, RATE_LIMIT_CODE
    <3> QED
      BY <2>1, <3>1, SendTypes
  <2>3. CASE ~(Head(stdout) = RATE_LIMIT_CODE /\ call.tries = 1) /\ call.req \in Orders
    <3>1. stdin' = stdin /\ told' = told
      BY <1>3, <2>3, OkxAssumption DEF invoke_tool, RATE_LIMIT_CODE
    <3>2. \/ call' = [call EXCEPT !.pc = "audit", !.req = [id |-> call.req, code |-> Head(stdout)]]
          \/ call' = [call EXCEPT !.pc = "client_error"]
      BY <1>3, <2>3 DEF invoke_tool
    <3>3. call.req \in Orders /\ [id |-> call.req, code |-> Head(stdout)] \in Records
      BY <2>1, <2>3
    <3> QED
      BY <2>1, <3>1, <3>2, <3>3
  <2>4. CASE ~(Head(stdout) = RATE_LIMIT_CODE /\ call.tries = 1) /\ call.req \notin Orders
    BY <1>3, <2>1, <2>4 DEF invoke_tool, RATE_LIMIT_CODE
  <2> QED
    BY <2>2, <2>3, <2>4
<1>4. CASE Timeout \/ EndOfFile \/ ClientError \/ StartLine \/ CloseOutput
  BY <1>4 DEF Timeout, StartLine, CloseOutput, EndOfFile, ClientError, pipes, output
<1>5. CASE Audit
  <2>1. stdin' = stdin /\ stdout' = stdout
    BY <1>5 DEF Audit, pipes, output
  <2> QED
    BY <1>5, <2>1 DEF Audit
<1>6. CASE reset_gen_counter \/ close \/ Die
  <2>1. call' = call /\ told' = told
    BY <1>6 DEF reset_gen_counter, close, Die
  <2>2. stdin' \in {stdin, <<>>} /\ stdout' \in {stdout, <<>>}
    BY <1>6 DEF reset_gen_counter, close, Die, NewClient, pipes, output
  <2>3. <<>> \in Seq(Requests) /\ <<>> \in Seq(Codes)
    OBVIOUS
  <2>4. stdin' \in Seq(Requests) /\ stdout' \in Seq(Codes)
    BY <2>2, <2>3
  <2> QED
    BY <2>1, <2>4
<1>7. CASE Serve
  <2>1. stdin' \in Seq(Requests) /\ call' = call /\ told' = told
    BY <1>7 DEF Serve
  <2>2. PICK code \in {"0", RATE_LIMIT_CODE, "garbage"} : stdout' = stdout \/ stdout' = Append(stdout, code)
    BY <1>7 DEF Serve, output
  <2>3. stdout' \in Seq(Codes)
    BY <2>2 DEF Codes
  <2> QED
    BY <2>1, <2>3
<1>8. CASE Crash
  BY <1>8 DEF Crash, NewClient
<1>9. CASE UNCHANGED others
  BY <1>9 DEF others, pipes, output
<1> QED
  BY <1>1, <1>2, <1>3, <1>4, <1>5, <1>6, <1>7, <1>8, <1>9, OtherSteps DEF Next, OkxNext

LEMMA CountStep == OkxTypes /\ CountInv /\ [Next]_vars => CountInv'
<1> SUFFICES ASSUME OkxTypes, CountInv, [Next]_vars PROVE CountInv'
  OBVIOUS
<1>0. ASSUME gen' = gen, writes' = writes, genOf' = genOf, placed' \subseteq Orders
      PROVE  CountInv'
  <2>1. \A g : SentIn(g)' = SentIn(g)
    BY <1>0 DEF SentIn
  <2>2. SentIn(gen)' = SentIn(gen)
    BY <1>0 DEF SentIn
  <2> QED
    BY <1>0, <2>1, <2>2 DEF CountInv
<1>1. ASSUME NEW o \in Orders, dispatch(o) PROVE CountInv'
  <2>1. CASE writes' = writes + 1
    BY <1>1, <2>1, SentOneMore DEF dispatch, CountWrite, CountInv
  <2>2. CASE writes' # writes + 1
    BY <1>0, <1>1, <2>2 DEF dispatch, CountWrite, CountInv
  <2> QED
    BY <2>1, <2>2
<1>2. CASE \/ \E q \in Queries : Query(q)
           \/ invoke_tool \/ Timeout \/ EndOfFile \/ ClientError \/ Audit
           \/ StartLine \/ CloseOutput \/ Die
  BY <1>0, <1>2 DEF Query, invoke_tool, Timeout, EndOfFile, ClientError, Audit,
                    StartLine, CloseOutput, Die, order, CountInv
<1>3. CASE Serve
  BY <1>0, <1>3 DEF Serve, CountInv, OkxTypes
<1>4. CASE reset_gen_counter \/ close \/ Crash
  BY <1>4, CountsAnew DEF reset_gen_counter, close, Crash, NewClient
<1>5. CASE UNCHANGED others
  BY <1>0, <1>5 DEF others, order, CountInv
<1> QED
  BY <1>1, <1>2, <1>3, <1>4, <1>5, OtherSteps DEF Next, OkxNext

(* Only dispatch puts an order on the way, past the gates; a second try    *)
(* repeats what waited.                                                    *)
LEMMA GateStep == OkxTypes /\ CountInv /\ GateInv /\ GatesHold /\ [Next]_vars => GateInv' /\ GatesHold'
<1> SUFFICES ASSUME OkxTypes, CountInv, GateInv, GatesHold, [Next]_vars PROVE GateInv' /\ GatesHold'
  OBVIOUS
<1>a. ASSUME NEW r \in Requests, NEW n \in 0..2, Send(r, n), r \in Orders => Allowed(r), config' = config
      PROVE  GateInv'
  <2>1. call'.pc = "wait" => call'.req = r
    BY <1>a, SendTypes DEF OkxTypes
  <2>2. \A i \in DOMAIN stdin' : stdin'[i] = r \/ (i \in DOMAIN stdin /\ stdin'[i] = stdin[i])
    <3>1. stdin' = stdin \/ stdin' = Append(stdin, r)
      BY <1>a DEF Send
    <3> QED
      BY <3>1, Appended DEF OkxTypes
  <2> QED
    BY <1>a, <2>1, <2>2 DEF GateInv, Allowed
<1>b. ASSUME config' = config, call'.pc # "wait" \/ call' = call,
             \A i \in DOMAIN stdin' : \E j \in DOMAIN stdin : stdin'[i] = stdin[j]
      PROVE  GateInv'
  BY <1>b DEF GateInv, Allowed
<1>c. ASSUME config' = config, placed' = placed PROVE GatesHold'
  BY <1>c DEF GatesHold, Allowed
<1>1. ASSUME NEW o \in Orders, dispatch(o) PROVE GateInv' /\ GatesHold'
  <2>1. CASE Allowed(o) /\ writes < MAX_OKX_WRITE_PER_GEN
    <3>1. Send(o, 1) /\ config' = config /\ placed' = placed
      BY <1>1, <2>1 DEF dispatch, CountInv, MAX_OKX_WRITE_PER_GEN
    <3> QED
      BY <1>a, <1>c, <2>1, <3>1 DEF Requests
  <2>2. CASE ~(Allowed(o) /\ writes < MAX_OKX_WRITE_PER_GEN)
    BY <1>1, <1>b, <1>c, <2>2 DEF dispatch
  <2> QED
    BY <2>1, <2>2
<1>2. ASSUME NEW q \in Queries, Query(q) PROVE GateInv' /\ GatesHold'
  BY <1>2, <1>a, <1>c, OkxAssumption DEF Query, order, Requests
<1>3. CASE invoke_tool
  <2>1. CASE Head(stdout) = RATE_LIMIT_CODE /\ call.tries = 1
    <3>1. Send(call.req, 2) /\ call.req \in Requests /\ (call.req \in Orders => Allowed(call.req))
      BY <1>3, <2>1 DEF invoke_tool, RATE_LIMIT_CODE, OkxTypes, GateInv
    <3> QED
      BY <1>3, <1>a, <1>c, <3>1 DEF invoke_tool, order
  <2>2. CASE ~(Head(stdout) = RATE_LIMIT_CODE /\ call.tries = 1)
    <3>1. \/ call' = Idle \/ call' = [call EXCEPT !.pc = "client_error"]
          \/ call' = [call EXCEPT !.pc = "audit", !.req = [id |-> call.req, code |-> Head(stdout)]]
      BY <1>3, <2>2 DEF invoke_tool
    <3>2. call' = Idle => call'.pc = "idle"
      BY DEF Idle
    <3>3. call'.pc # "wait"
      BY <3>1, <3>2 DEF OkxTypes
    <3> QED
      BY <1>3, <1>b, <1>c, <2>2, <3>3 DEF invoke_tool, order
  <2> QED
    BY <2>1, <2>2
<1>4. CASE Timeout \/ EndOfFile \/ ClientError \/ Audit
  <2>1. call'.pc # "wait"
    BY <1>4 DEF Timeout, EndOfFile, ClientError, Audit, Idle, OkxTypes
  <2> QED
    BY <1>4, <1>b, <1>c, <2>1 DEF Timeout, EndOfFile, ClientError, Audit, order, pipes, output
<1>5. CASE reset_gen_counter \/ close \/ StartLine \/ CloseOutput \/ Die \/ Crash
  <2>1. call'.pc # "wait" \/ call' = call
    BY <1>5 DEF reset_gen_counter, close, StartLine, CloseOutput, Die, Crash, Idle
  <2>2. stdin' = stdin \/ stdin' = <<>>
    BY <1>5 DEF reset_gen_counter, close, StartLine, CloseOutput, Die, Crash, NewClient, pipes, output
  <2> QED
    BY <1>5, <1>b, <1>c, <2>1, <2>2 DEF reset_gen_counter, close, StartLine, CloseOutput, Die, Crash, order
<1>6. CASE Serve
  <2>1. \A i \in DOMAIN stdin' : \E j \in DOMAIN stdin : stdin'[i] = stdin[j]
    BY <1>6 DEF Serve, OkxTypes
  <2>2. \A o \in placed' : o \in placed \/ (o = Head(stdin) /\ o \in Orders)
    BY <1>6 DEF Serve
  <2>3. 1 \in DOMAIN stdin /\ Head(stdin) = stdin[1]
    BY <1>6 DEF Serve, OkxTypes
  <2> QED
    BY <1>6, <1>b, <2>1, <2>2, <2>3 DEF Serve, GateInv, GatesHold, Allowed
<1>7. CASE UNCHANGED others
  BY <1>7, <1>b, <1>c DEF others, order, pipes, output
<1> QED
  BY <1>1, <1>2, <1>3, <1>4, <1>5, <1>6, <1>7, OtherSteps DEF Next, OkxNext

(* A record is taken out of the outbox only when it is in the log, so that *)
(* it is in one of the two from its first step on.                         *)
LEMMA AuditStep ==
  OkxTypes /\ RecordInv /\ AuditComplete /\ [Next]_vars => RecordInv' /\ AuditComplete'
<1> SUFFICES ASSUME OkxTypes, RecordInv, AuditComplete, [Next]_vars
             PROVE  RecordInv' /\ AuditComplete'
  OBVIOUS
<1> DEFINE Unanswered == {"new", "client_error", "crashed"}
<1>0. ASSUME log' = log, box' = box, call'.pc \notin {"boxed", "logged"} \/ call' = call,
             \A o \in Orders : told'[o] = told[o] \/ told'[o] \in Unanswered
      PROVE  RecordInv' /\ AuditComplete'
  BY <1>0 DEF RecordInv, AuditComplete
<1>1. ASSUME NEW o \in Orders, dispatch(o) PROVE RecordInv' /\ AuditComplete'
  BY <1>0, <1>1 DEF dispatch, Send, audit
<1>2. ASSUME NEW q \in Queries, Query(q) PROVE RecordInv' /\ AuditComplete'
  BY <1>0, <1>2 DEF Query, Send, audit
<1>3. CASE invoke_tool
  <2>1. call'.pc \notin {"boxed", "logged"}
    <3>1. call.pc = "wait" /\ call \in [pc : {call.pc}, req : {call.req}, tries : {call.tries}]
      BY <1>3 DEF invoke_tool, OkxTypes
    <3>2. Send(call.req, 2) => call'.pc \in {"wait", "client_error"}
      BY DEF Send
    <3>3. \/ Send(call.req, 2) \/ call' = Idle \/ call' = [call EXCEPT !.pc = "client_error"]
          \/ call' = [call EXCEPT !.pc = "audit", !.req = [id |-> call.req, code |-> Head(stdout)]]
      BY <1>3 DEF invoke_tool
    <3>4. call' = Idle => call'.pc = "idle"
      BY DEF Idle
    <3>5. call' = [call EXCEPT !.pc = "client_error"] => call'.pc = "client_error"
      BY <3>1
    <3>6. call' = [call EXCEPT !.pc = "audit", !.req = [id |-> call.req, code |-> Head(stdout)]]
            => call'.pc = "audit"
      BY <3>1
    <3> QED
      BY <3>2, <3>3, <3>4, <3>5, <3>6
  <2>2. \A o \in Orders : told'[o] = told[o]
    BY <1>3, OkxAssumption DEF invoke_tool, OkxTypes, Requests
  <2> QED
    BY <1>0, <1>3, <2>1, <2>2 DEF invoke_tool, audit
<1>4. CASE Timeout \/ EndOfFile
  BY <1>0, <1>4 DEF Timeout, EndOfFile, audit, OkxTypes
<1>5. CASE ClientError
  <2>1. \A o \in Orders : told'[o] = told[o] \/ told'[o] = "client_error"
    BY <1>5 DEF ClientError, OkxTypes, Requests
  <2> QED
    BY <1>0, <1>5, <2>1 DEF ClientError, audit, Idle
<1>6. CASE Audit
  <2>1. CASE call.pc = "audit"
    BY <1>6, <2>1 DEF Audit, OkxTypes, RecordInv, AuditComplete
  <2>2. CASE call.pc = "boxed"
    BY <1>6, <2>2 DEF Audit, OkxTypes, RecordInv, AuditComplete
  <2>3. CASE call.pc = "logged"
    <3>1. /\ box' = box \ {call.req} /\ log' = log /\ call' = Idle
          /\ told' = [told EXCEPT ![call.req.id] = call.req.code]
      BY <1>6, <2>3 DEF Audit
    <3>2. call.req = [id |-> call.req.id, code |-> call.req.code] /\ call.req \in log
      BY <2>3 DEF OkxTypes, RecordInv, Records
    <3>3. ASSUME NEW o \in Orders, told'[o] \notin Unanswered
          PROVE  [id |-> o, code |-> told'[o]] \in log' \cup box'
      <4>1. CASE o = call.req.id
        BY <2>3, <3>1, <3>2, <3>3, <4>1 DEF OkxTypes, Requests
      <4>2. CASE o # call.req.id
        <5>1. told'[o] = told[o]
          BY <3>1, <4>2 DEF OkxTypes, Requests
        <5>2. [id |-> o, code |-> told[o]] \in log \cup box
          BY <3>3, <5>1 DEF AuditComplete
        <5> QED
          BY <3>1, <3>2, <5>1, <5>2
      <4> QED
        BY <4>1, <4>2
    <3> QED
      BY <3>1, <3>3 DEF RecordInv, AuditComplete, Idle
  <2> QED
    BY <1>6, <2>1, <2>2, <2>3 DEF Audit
<1>7. CASE reset_gen_counter \/ close \/ Serve \/ StartLine \/ CloseOutput \/ Die
  BY <1>0, <1>7 DEF reset_gen_counter, close, Serve, StartLine, CloseOutput, Die, audit
<1>8. CASE Crash
  BY <1>0, <1>8 DEF Crash, audit, Idle, OkxTypes, Requests
<1>9. CASE UNCHANGED others
  BY <1>0, <1>9 DEF others, audit
<1> QED
  BY <1>1, <1>2, <1>3, <1>4, <1>5, <1>6, <1>7, <1>8, <1>9, OtherSteps DEF Next, OkxNext

(* An outbox file goes when its row is in the journal, and never before.   *)
LEMMA ResultsStep == WritersInv /\ ResultsKept /\ [Next]_vars => WritersInv' /\ ResultsKept'
<1> SUFFICES ASSUME WritersInv, ResultsKept, [Next]_vars PROVE WritersInv' /\ ResultsKept'
  OBVIOUS
<1> USE DEF WritersInv, ResultsKept
<1>1. ASSUME NEW w \in Fills \cup Hyperopts, ToOutbox(w) \/ append_history(w) \/ Unlink(w)
      PROVE  WritersInv' /\ ResultsKept'
  BY <1>1 DEF ToOutbox, append_history, Unlink
<1>2. CASE Crash
  BY <1>2 DEF Crash, JournalCrash
<1>3. CASE UNCHANGED <<outbox, writers>> /\ history \subseteq history'
  BY <1>3
<1>4. OkxNext => Crash \/ UNCHANGED <<outbox, writers, history>>
  BY DEF OkxNext, dispatch, Query, invoke_tool, Timeout, EndOfFile, ClientError, Audit,
         reset_gen_counter, close, Serve, StartLine, CloseOutput, Die, journal
<1>5. FeedNext => UNCHANGED <<outbox, writers>> /\ history \subseteq history'
  BY DEF FeedNext, handle_endpoint, maybe_persist
<1>6. UNCHANGED vars \/ UNCHANGED okxVars => UNCHANGED <<outbox, writers, history>>
  BY DEF vars, okxVars, journal
<1> QED
  BY <1>1, <1>2, <1>3, <1>4, <1>5, <1>6 DEF Next, write_fill_to_history, write_hyperopt_to_history

LEMMA SpawnStep == SpawnInv /\ [Next]_vars => SpawnInv'
<1> SUFFICES ASSUME SpawnInv, [Next]_vars PROVE SpawnInv'
  OBVIOUS
<1>1. CASE FtNext
  BY <1>1 DEF SpawnInv, FtNext, call_tool, call_mcp_raw, run_loop, ft_reset_gen_counter, BACKTEST_TOOLS, MAX_BACKTEST_PER_GEN
<1>2. CASE UNCHANGED ftVars
  BY <1>2 DEF SpawnInv, ftVars
<1>3. UNCHANGED vars => UNCHANGED ftVars
  BY DEF vars
<1> QED
  BY <1>1, <1>2, <1>3 DEF Next

LEMMA OrdersInvHolds == Spec => []OrdersInv
<1>0. (CountInv /\ SpawnInv => GenerationCaps)'
  BY CapsFromCounts, PTL
<1>1. OrdersInv /\ [Next]_vars => OrdersInv'
  BY OkxTypesStep, GateStep, CountStep, AuditStep, ResultsStep, SpawnStep, <1>0
     DEF OrdersInv, OrdersAccounted
<1> QED
  BY <1>1, OrdersInvInit, PTL DEF Spec

(* Whatever times out, is retried, crashes or is answered late, only what  *)
(* passed the gates reaches the exchange, the orders of a generation are   *)
(* within its cap, every answered one is in the audit log or its outbox,   *)
(* and every result whose writer started is in the journal or its outbox;  *)
(* for any orders, workloads and faults.                                   *)
THEOREM OrdersAreAccounted == Spec => []OrdersAccounted
BY OrdersInvHolds, PTL DEF OrdersInv

----------------------------------------------------------------------------
(* The market feed.                                                        *)

Statuses == {"ok", "timeout", "json_error", "cli_error"}
Answers == [endpoint : Endpoints, status : Statuses \cup {"invalid"}, persisted : BOOLEAN]

(* The answers that the counter of x stands for.                           *)
Counted(given, x) == {i \in DOMAIN given : given[i].endpoint = x[1] /\ given[i].status = x[2]}

FeedInv ==
    /\ work \in Workloads
    /\ answers \in Seq(Answers)
    /\ counter \in [Endpoints \X Statuses -> Nat]
    /\ writers \in [Fills \cup Hyperopts -> {"new", "append", "unlink", "done", "failed", "crashed"}]
    /\ \A i \in Nat, e \in Endpoints :
         <<"binance_market", e, i>> \in history =>
            i \in 1..Len(answers) /\ answers[i].endpoint = e /\ answers[i].persisted
    /\ \A x \in Endpoints \X Statuses :
         IsFiniteSet(Counted(answers, x)) /\ counter[x] = Cardinality(Counted(answers, x))

LEMMA KnownStatus == ASSUME NEW e, NEW o PROVE StatusOf(e, o) \in Statuses
BY DEF StatusOf, Statuses

(* One more answer is one more for its own counter and for no other.       *)
LEMMA CountedAppend ==
  ASSUME NEW given \in Seq(Answers), NEW a \in Answers, NEW x \in Endpoints \X Statuses,
         IsFiniteSet(Counted(given, x))
  PROVE  /\ IsFiniteSet(Counted(Append(given, a), x))
         /\ Cardinality(Counted(Append(given, a), x)) =
              IF a.endpoint = x[1] /\ a.status = x[2] THEN Cardinality(Counted(given, x)) + 1
              ELSE Cardinality(Counted(given, x))
<1> DEFINE n == Len(given) + 1
<1>1. n \in Nat /\ n \notin DOMAIN given /\ DOMAIN Append(given, a) = DOMAIN given \cup {n}
  BY Appended
<1>2. Append(given, a)[n] = a /\ \A i \in DOMAIN given : Append(given, a)[i] = given[i]
  BY Appended
<1> HIDE DEF n
<1>3. CASE a.endpoint = x[1] /\ a.status = x[2]
  <2>1. Counted(Append(given, a), x) = Counted(given, x) \cup {n} /\ n \notin Counted(given, x)
    BY <1>1, <1>2, <1>3 DEF Counted
  <2> QED
    BY <1>3, <2>1, FS_AddElement
<1>4. CASE ~(a.endpoint = x[1] /\ a.status = x[2])
  <2>1. Counted(Append(given, a), x) = Counted(given, x)
    BY <1>1, <1>2, <1>4 DEF Counted
  <2> QED
    BY <1>4, <2>1
<1> QED
  BY <1>3, <1>4

LEMMA FeedInvInit == Init => FeedInv
<1> SUFFICES ASSUME Init PROVE FeedInv
  OBVIOUS
<1>1. /\ work \in Workloads /\ answers = <<>> /\ history = {}
      /\ counter = [x \in Endpoints \X Statuses |-> 0]
      /\ writers = [w \in Fills \cup Hyperopts |-> "new"]
  BY DEF Init, FeedInit, FtInit, OkxInit, JournalInit, Statuses
<1>2. \A x : Counted(<<>>, x) = {}
  BY DEF Counted
<1>3. IsFiniteSet({}) /\ Cardinality({}) = 0
  BY FS_EmptySet
<1>4. <<>> \in Seq(Answers)
  OBVIOUS
<1>5. counter \in [Endpoints \X Statuses -> Nat]
  BY <1>1
<1>6. \A x \in Endpoints \X Statuses :
         IsFiniteSet(Counted(answers, x)) /\ counter[x] = Cardinality(Counted(answers, x))
  BY <1>1, <1>2, <1>3
<1> QED
  BY <1>1, <1>4, <1>5, <1>6 DEF FeedInv

LEMMA FeedInvStep == FeedInv /\ [Next]_vars => FeedInv'
<1> SUFFICES ASSUME FeedInv, [Next]_vars PROVE FeedInv'
  OBVIOUS
<1>0. ASSUME UNCHANGED <<work, answers, counter, writers, history>> PROVE FeedInv'
  BY <1>0 DEF FeedInv
<1>1. ASSUME NEW w \in Fills \cup Hyperopts, ToOutbox(w) \/ append_history(w) \/ Unlink(w),
             UNCHANGED feedVars
      PROVE  FeedInv'
  <2>1. \A i \in Nat, e \in Endpoints : w # <<"binance_market", e, i>>
    BY FeedAssumption
  <2>2. history' \subseteq history \cup {w} /\ work' = work
    BY <1>1 DEF ToOutbox, append_history, Unlink
  <2>3. writers' \in [Fills \cup Hyperopts -> {"new", "append", "unlink", "done", "failed", "crashed"}]
    BY <1>1 DEF ToOutbox, append_history, Unlink, FeedInv
  <2>4. answers' = answers /\ counter' = counter
    BY <1>1 DEF feedVars
  <2>5. \A i \in Nat, e \in Endpoints :
          <<"binance_market", e, i>> \in history' => <<"binance_market", e, i>> \in history
    BY <2>1, <2>2
  <2> QED
    BY <2>2, <2>3, <2>4, <2>5 DEF FeedInv
<1>2. CASE Crash /\ UNCHANGED feedVars
  <2>1. UNCHANGED <<work, answers, counter, history>>
    BY <1>2 DEF Crash, JournalCrash, feedVars
  <2>2. writers' \in [Fills \cup Hyperopts -> {"new", "append", "unlink", "done", "failed", "crashed"}]
    BY <1>2 DEF Crash, JournalCrash, FeedInv
  <2> QED
    BY <2>1, <2>2 DEF FeedInv
<1>3. ASSUME NEW e \in Endpoints, NEW o \in Outcomes, NEW valid \in BOOLEAN, NEW asked \in BOOLEAN,
             handle_endpoint(e, o, valid, asked)
      PROVE  FeedInv'
  <2> DEFINE status == IF valid THEN StatusOf(e, o) ELSE "invalid"
             a == [endpoint |-> e, status |-> status, persisted |-> status = "ok" /\ asked]
             row == <<"binance_market", e, Len(answers) + 1>>
  <2>1. /\ answers' = Append(answers, a)
        /\ IF valid THEN record_fetch(e, status) ELSE UNCHANGED counter
        /\ maybe_persist(e, status, asked, row)
        /\ UNCHANGED <<work, writers>>
    BY <1>3 DEF handle_endpoint
  <2>2. a \in Answers /\ (valid => status \in Statuses) /\ (~valid => status = "invalid")
    BY KnownStatus DEF Answers
  <2>3. history' = history \/ (history' = history \cup {row} /\ a.persisted)
    BY <2>1 DEF maybe_persist
  <2> HIDE DEF a, status
  <2>4. answers' \in Seq(Answers) /\ Len(answers) \in Nat /\ Len(answers') = Len(answers) + 1
    BY <2>1, <2>2 DEF FeedInv
  <2>5. answers'[Len(answers) + 1] = a /\ \A i \in 1..Len(answers) : answers'[i] = answers[i]
    BY <2>1, <2>2 DEF FeedInv
  <2>6. a.endpoint = e /\ a.status = status
    BY DEF a
  <2>7. \A i \in Nat, d \in Endpoints :
          <<"binance_market", d, i>> \in history' =>
             i \in 1..Len(answers') /\ answers'[i].endpoint = d /\ answers'[i].persisted
    <3> SUFFICES ASSUME NEW i \in Nat, NEW d \in Endpoints, <<"binance_market", d, i>> \in history'
                 PROVE  i \in 1..Len(answers') /\ answers'[i].endpoint = d /\ answers'[i].persisted
      OBVIOUS
    <3>1. CASE <<"binance_market", d, i>> \in history
      <4>1. i \in 1..Len(answers) /\ answers[i].endpoint = d /\ answers[i].persisted
        BY <3>1 DEF FeedInv
      <4> QED
        BY <4>1, <2>4, <2>5
    <3>2. CASE <<"binance_market", d, i>> \notin history
      <4>1. d = e /\ i = Len(answers) + 1 /\ a.persisted
        BY <2>3, <3>2
      <4> QED
        BY <4>1, <2>4, <2>5, <2>6
    <3> QED
      BY <3>1, <3>2
  <2>8. counter' \in [Endpoints \X Statuses -> Nat]
    <3>1. CASE valid
      <4>1. counter' = [counter EXCEPT ![<<e, status>>] = @ + 1] /\ <<e, status>> \in Endpoints \X Statuses
        BY <2>1, <2>2, <3>1 DEF record_fetch
      <4> QED
        BY <4>1 DEF FeedInv
    <3>2. CASE ~valid
      BY <2>1, <3>2 DEF FeedInv
    <3> QED
      BY <3>1, <3>2
  <2>9. ASSUME NEW x \in Endpoints \X Statuses
        PROVE  IsFiniteSet(Counted(answers', x)) /\ counter'[x] = Cardinality(Counted(answers', x))
    <3>1. IsFiniteSet(Counted(answers, x)) /\ counter[x] = Cardinality(Counted(answers, x)) /\ counter[x] \in Nat
      BY DEF FeedInv
    <3>2. /\ IsFiniteSet(Counted(answers', x))
          /\ Cardinality(Counted(answers', x)) =
               IF a.endpoint = x[1] /\ a.status = x[2] THEN counter[x] + 1 ELSE counter[x]
      BY <2>1, <2>2, <3>1, CountedAppend DEF FeedInv
    <3>3. counter'[x] = IF e = x[1] /\ status = x[2] THEN counter[x] + 1 ELSE counter[x]
      <4>1. CASE valid
        <5>1. counter' = [counter EXCEPT ![<<e, status>>] = @ + 1] /\ counter \in [Endpoints \X Statuses -> Nat]
          BY <2>1, <4>1 DEF record_fetch, FeedInv
        <5>2. x = <<e, status>> <=> e = x[1] /\ status = x[2]
          OBVIOUS
        <5> QED
          BY <5>1, <5>2
      <4>2. CASE ~valid
        BY <2>1, <2>2, <4>2 DEF Statuses
      <4> QED
        BY <4>1, <4>2
    <3> QED
      BY <2>6, <3>2, <3>3
  <2> QED
    BY <2>1, <2>4, <2>7, <2>8, <2>9 DEF FeedInv
<1>4. OkxNext => Crash \/ UNCHANGED <<work, writers, history>>
  BY DEF OkxNext, dispatch, Query, invoke_tool, Timeout, EndOfFile, ClientError, Audit,
         reset_gen_counter, close, Serve, StartLine, CloseOutput, Die, journal
<1>5. UNCHANGED vars \/ UNCHANGED okxVars => UNCHANGED <<work, writers, history>>
  BY DEF vars, okxVars, journal
<1>6. UNCHANGED vars => UNCHANGED feedVars
  BY DEF vars
<1>7. UNCHANGED feedVars => UNCHANGED <<answers, counter>>
  BY DEF feedVars
<1> QED
  BY <1>0, <1>1, <1>2, <1>3, <1>4, <1>5, <1>6, <1>7
     DEF Next, FeedNext, write_fill_to_history, write_hyperopt_to_history

(* Whatever the command prints, however it ends and whichever append       *)
(* fails, a row of the feed stands for a successful answer that asked for  *)
(* it, and the counters are the number of answers of each status.          *)
THEOREM FeedIsTrue == Spec => []FeedTruth
<1>1. FeedInv => FeedTruth
  <2> SUFFICES ASSUME FeedInv PROVE FeedTruth
    OBVIOUS
  <2>1. 1..work.fetches \subseteq Nat
    BY JournalAssumption DEF FeedInv
  <2>2. DOMAIN counter = Endpoints \X Statuses
    BY DEF FeedInv
  <2> QED
    <3>1. \A x \in DOMAIN counter :
            counter[x] = Cardinality({i \in DOMAIN answers :
                           answers[i].endpoint = x[1] /\ answers[i].status = x[2]})
      BY <2>2 DEF FeedInv, Counted
    <3>2. \A i \in 1..work.fetches, e \in Endpoints :
            <<"binance_market", e, i>> \in history =>
               i <= Len(answers) /\ answers[i].endpoint = e /\ answers[i].persisted
      BY <2>1 DEF FeedInv
    <3> QED
      BY <3>1, <3>2 DEF FeedTruth
<1> QED
  BY <1>1, FeedInvInit, FeedInvStep, PTL DEF Spec

----------------------------------------------------------------------------
(* The strategy file.                                                      *)

LEMMA Quotient ==
  ASSUME NEW a \in Int, NEW b \in Nat, b > 0
  PROVE  /\ a \div b \in Int
         /\ b * (a \div b) <= a /\ a < b * (a \div b) + b
OBVIOUS

(* In thousandths of the rate, rounded down: at most a thousandth too far, *)
(* and on the stop's side of the rate.                                     *)
LEMMA StopWithin ==
  ASSUME NEW s, s.stop \in Nat, s.stop > 0, NEW rate \in Nat, rate > 0
  PROVE  LET stop == custom_stoploss(s, rate, -100)
         IN /\ stop \in Int /\ stop >= -100
            /\ stop = -100 \/ AtStop(s, rate, stop)
            /\ rate >= s.stop => stop <= 0
            /\ rate <= s.stop => stop >= 0 /\ AtStop(s, rate, stop)
<1> DEFINE a == (s.stop - rate) * 1000
           q == a \div rate
           stop == custom_stoploss(s, rate, -100)
<1>1. a \in Int /\ a + rate * 1000 = s.stop * 1000 /\ (rate >= s.stop => a <= 0) /\ (rate <= s.stop => a >= 0)
  OBVIOUS
<1>2. q \in Int /\ rate * q <= a /\ a < rate * q + rate
  BY <1>1, Quotient
<1>3. stop = IF q > -100 THEN q ELSE -100
  BY <1>1 DEF custom_stoploss
<1> HIDE DEF a, q, stop
<1>4. rate >= s.stop => q <= 0
  <2>1. q > 0 => rate * q > 0
    BY <1>2
  <2> QED
    BY <1>1, <1>2, <2>1
<1>5. rate <= s.stop => q >= 0
  <2>1. q <= -1 => rate * q <= -rate
    BY <1>2
  <2> QED
    BY <1>1, <1>2, <2>1
<1>6. rate * (1000 + q) = rate * 1000 + rate * q
  BY <1>2
<1>7. rate * q \in Int /\ rate * 1000 \in Int /\ s.stop * 1000 \in Int
  BY <1>2
<1>8. AtStop(s, rate, q)
  BY <1>1, <1>2, <1>6, <1>7 DEF AtStop
<1>9. /\ stop \in Int /\ stop >= -100 /\ (stop = -100 \/ AtStop(s, rate, stop))
      /\ (rate >= s.stop => stop <= 0)
      /\ (rate <= s.stop => stop >= 0 /\ AtStop(s, rate, stop))
  BY <1>2, <1>3, <1>4, <1>5, <1>8
<1> QED
  BY <1>9 DEF stop

(* Every file is for a signal that has its levels.                         *)
FilesInv == \A s \in files : s \in Snapshots /\ HasLevels(s)

LEMMA FilesStop == FilesInv => StopsHold
<1> SUFFICES ASSUME FilesInv, NEW s \in files
             PROVE  /\ \A rate \in s.stop..(2 * s.entry) :
                         LET stop == custom_stoploss(s, rate, -100)
                         IN stop \in -100..0 /\ (stop = -100 \/ AtStop(s, rate, stop))
                    /\ \A rate \in 1..s.stop :
                         LET stop == custom_stoploss(s, rate, -100)
                         IN stop >= 0 /\ AtStop(s, rate, stop)
  BY DEF StopsHold
<1>1. s.stop \in Nat /\ s.entry \in Nat /\ s.stop > 0
  BY SnapshotAssumption DEF FilesInv, HasLevels, NoPrice
<1>2. ASSUME NEW rate \in s.stop..(2 * s.entry)
      PROVE  LET stop == custom_stoploss(s, rate, -100)
             IN stop \in -100..0 /\ (stop = -100 \/ AtStop(s, rate, stop))
  <2>1. rate \in Nat /\ rate > 0 /\ rate >= s.stop
    BY <1>1
  <2> QED
    BY <1>1, <2>1, StopWithin
<1>3. ASSUME NEW rate \in 1..s.stop
      PROVE  LET stop == custom_stoploss(s, rate, -100) IN stop >= 0 /\ AtStop(s, rate, stop)
  <2>1. rate \in Nat /\ rate > 0 /\ rate <= s.stop
    BY <1>1
  <2> QED
    BY <1>1, <2>1, StopWithin
<1> QED
  BY <1>2, <1>3

(* The stop of a strategy the loop wrote is, to the thousandth, that of    *)
(* the signal in its file, for a long the configured one where that is     *)
(* nearer; for any snapshots, however often a pattern's file is replaced.  *)
THEOREM StopsAreHeld == Spec => []StopsHold
<1>1. Init => FilesInv
  BY DEF Init, FtInit, FilesInv
<1>2. FilesInv /\ [Next]_vars => FilesInv'
  <2> SUFFICES ASSUME FilesInv, [Next]_vars PROVE FilesInv'
    OBVIOUS
  <2>1. ASSUME NEW s \in Snapshots, run_loop(s) PROVE FilesInv'
    BY <2>1 DEF FilesInv, run_loop, translate, HasLevels
  <2>2. CASE UNCHANGED files
    BY <2>2 DEF FilesInv, HasLevels
  <2>3. UNCHANGED vars \/ UNCHANGED ftVars => UNCHANGED files
    BY DEF vars, ftVars
  <2> QED
    BY <2>1, <2>2, <2>3 DEF Next, FtNext, call_tool, ft_reset_gen_counter
<1> QED
  BY <1>1, <1>2, FilesStop, PTL DEF Spec

----------------------------------------------------------------------------
(* Skills.                                                                 *)

Versions == Installer \cup {"old", "missing"}
Directories == [files : [File -> Versions], price : Nat]
Skills == Directories \cup {NoSkill}
InstallerPcs == {"idle", "archive", "exists", "move", "mkdir", "copy", "done"}
PublisherPcs == {"idle", "manifest", "pack", "close", "done"}

JobState == [pc : InstallerPcs \cup PublisherPcs, left : SUBSET File,
             failed : BOOLEAN, read : Skills]

ShopTypes ==
    /\ live \in Skills
    /\ backup \in [0..MaxClock -> Seq([File -> Versions])]
    /\ second \in 0..MaxClock
    /\ job \in [Job -> JobState]
    /\ \A i \in Installer : job[i].pc \in InstallerPcs
    /\ job["publisher"].pc \in PublisherPcs
    /\ installed \subseteq Installer
    /\ package \in Skills
    /\ crowded \in BOOLEAN
    /\ shopFaults \in Nat

(* A version lies in one of the backups.                                   *)
BackedUp(v) ==
    \E s \in 0..MaxClock : \E k \in DOMAIN backup[s] : Whole(backup[s][k], v)

(* The old version is in place until it is in a backup, and until then     *)
(* nobody has come as far as writing.                                      *)
OldInv ==
    \/ BackedUp("old")
    \/ /\ live # NoSkill /\ Whole(live.files, "old")
       /\ \A i \in Installer : job[i].pc \notin {"mkdir", "copy"}

(* As long as no two jobs met in the directory there is at most one.       *)
Alone == \A i, j \in Job : InDirectory(i) /\ InDirectory(j) => i = j

(* Who copies has a directory of its own, with the files copied so far.    *)
CopyInv ==
    \A i \in Installer :
       /\ job[i].pc \notin {"copy", "done"} => job[i].left = File /\ ~job[i].failed
       /\ job[i].pc = "mkdir" => live = NoSkill
       /\ job[i].pc = "copy" =>
            /\ live # NoSkill /\ ~job[i].failed
            /\ \A f \in File : live.files[f] = IF f \in job[i].left THEN "missing" ELSE i

(* Who was installed is whole on disk and will not copy again.             *)
InstalledInv ==
    \A i \in installed : /\ job[i].pc = "done"
                         /\ BackedUp(i) \/ (live # NoSkill /\ Whole(live.files, i))

(* Where nobody died a skill that nobody copies is whole, and so is what   *)
(* was packed.                                                             *)
WholeInv ==
    shopFaults = 0 =>
      /\ live # NoSkill /\ (\A i \in Installer : job[i].pc # "copy") =>
           \E v \in Installer \cup {"old"} : Whole(live.files, v)
      /\ package # NoSkill => \E v \in Installer \cup {"old"} : Whole(package.files, v)

(* SKILL.md tells directories apart: it comes from a request that copies   *)
(* or is done, a package's from one that is done.  A directory that the    *)
(* package came from has kept its price.                                   *)
PriceInv ==
    /\ live # NoSkill =>
         \A i \in Installer : live.files[SkillMd] = i => job[i].pc \in {"copy", "done"}
    /\ job["publisher"].pc \in {"manifest", "pack", "close"} =>
         live # NoSkill /\ live.files[SkillMd] # "missing"
    /\ job["publisher"].pc \in {"pack", "close"} => live.price > 0
    /\ job["publisher"].pc = "close" => job["publisher"].read = live
    /\ package # NoSkill =>
         /\ package.price > 0 /\ package.files[SkillMd] # "missing"
         /\ \A i \in Installer : package.files[SkillMd] = i => job[i].pc = "done"
         /\ live # NoSkill /\ live.files[SkillMd] = package.files[SkillMd] =>
              live.price = package.price

QuietInv == Alone /\ CopyInv /\ InstalledInv /\ WholeInv /\ PriceInv

ShopInv == ShopTypes /\ OldInv /\ (~crowded => QuietInv)

LEMMA NoSkillIsNone ==
  /\ NoSkill \notin Directories
  /\ \A v : ~Whole(NoSkill.files, v)
<1>1. NoSkill.price = -1 /\ NoSkill.files = <<>>
  BY DEF NoSkill
<1>2. NoSkill \notin Directories
  BY <1>1 DEF Directories
<1>3. ASSUME NEW v PROVE ~Whole(<<>>, v)
  <2>1. DOMAIN <<>> = {} /\ DOMAIN [f \in File |-> v] = File
    OBVIOUS
  <2> QED
    BY <2>1, SkillAssumption DEF Whole
<1> QED
  BY <1>1, <1>2, <1>3

(* A job that goes on changes where it is and nothing else.                *)
LEMMA GoesOn ==
  ASSUME ShopTypes, NEW i \in Job, NEW pc \in InstallerPcs \cup PublisherPcs, Goes(i, pc)
  PROVE  /\ job' \in [Job -> JobState]
         /\ job'[i].pc = pc /\ job'[i].left = job[i].left
         /\ job'[i].failed = job[i].failed /\ job'[i].read = job[i].read
         /\ \A j \in Job \ {i} : job'[j] = job[j]
BY DEF ShopTypes, Goes, JobState

LEMMA ShopInvInit == Init => ShopInv
<1> SUFFICES ASSUME Init PROVE ShopInv
  OBVIOUS
<1>0. ShopInit
  BY DEF Init
<1>1. /\ live = [files |-> [f \in File |-> "old"], price |-> 0]
      /\ backup = [s \in 0..MaxClock |-> <<>>] /\ second = 0 /\ job = [i \in Job |-> NoJob]
      /\ installed = {} /\ package = NoSkill /\ crowded = FALSE /\ shopFaults = 0
  BY <1>0 DEF ShopInit
<1>2. live \in Directories /\ live.files = [f \in File |-> "old"]
  BY <1>1 DEF Directories, Versions
<1>3. NoJob \in JobState /\ NoJob.pc = "idle" /\ NoJob.left = File /\ ~NoJob.failed
  BY DEF NoJob, JobState, InstallerPcs, Skills
<1>4. live # NoSkill /\ Whole(live.files, "old")
  BY <1>2, NoSkillIsNone DEF Whole
<1>5. \A i \in Job : job[i] = NoJob
  BY <1>1
<1>6. Installer \subseteq Job /\ "publisher" \in Job
  BY DEF Job
<1>7. backup \in [0..MaxClock -> Seq([File -> Versions])]
  BY <1>1
<1>8. ShopTypes
  <2>1. job \in [Job -> JobState]
    BY <1>1, <1>3
  <2>2. live \in Skills /\ package \in Skills
    BY <1>1, <1>2 DEF Skills
  <2>3. second \in 0..MaxClock
    BY <1>1, SkillAssumption
  <2>4. (\A i \in Installer : job[i].pc \in InstallerPcs) /\ job["publisher"].pc \in PublisherPcs
    BY <1>3, <1>5, <1>6 DEF InstallerPcs, PublisherPcs
  <2> QED
    BY <1>1, <1>7, <2>1, <2>2, <2>3, <2>4 DEF ShopTypes
<1>9. OldInv
  BY <1>3, <1>4, <1>5, <1>6 DEF OldInv
<1>10. Alone /\ CopyInv /\ InstalledInv
  BY <1>1, <1>3, <1>5, <1>6 DEF Alone, CopyInv, InstalledInv, InDirectory
<1>11. WholeInv
  BY <1>1, <1>4 DEF WholeInv
<1>12. live.files[SkillMd] = "old"
  BY <1>2, SkillAssumption
<1>13. PriceInv
  BY <1>1, <1>3, <1>5, <1>6, <1>12, SkillAssumption DEF PriceInv
<1> QED
  BY <1>8, <1>9, <1>10, <1>11, <1>13 DEF ShopInv, QuietInv

(* What is in a backup stays there when something is moved into one.       *)
LEMMA BackupKeeps ==
  ASSUME ShopTypes, NEW whole \in [File -> Versions],
         backup' = [backup EXCEPT ![second] = Append(@, whole)]
  PROVE  /\ backup' \in [0..MaxClock -> Seq([File -> Versions])]
         /\ \A v : BackedUp(v) \/ Whole(whole, v) => BackedUp(v)'
<1>1. backup[second] \in Seq([File -> Versions]) /\ second \in 0..MaxClock
  BY DEF ShopTypes
<1>2. /\ DOMAIN Append(backup[second], whole) = DOMAIN backup[second] \cup {Len(backup[second]) + 1}
      /\ Append(backup[second], whole)[Len(backup[second]) + 1] = whole
      /\ \A k \in DOMAIN backup[second] : Append(backup[second], whole)[k] = backup[second][k]
  BY <1>1, Appended
<1>3. backup'[second] = Append(backup[second], whole) /\ \A s \in 0..MaxClock : s # second => backup'[s] = backup[s]
  BY <1>1 DEF ShopTypes
<1>4. backup' \in [0..MaxClock -> Seq([File -> Versions])]
  <2>1. Append(backup[second], whole) \in Seq([File -> Versions])
    BY <1>1
  <2> QED
    BY <2>1 DEF ShopTypes
<1>5. ASSUME NEW v, Whole(whole, v) PROVE BackedUp(v)'
  <2>1. Len(backup[second]) + 1 \in DOMAIN backup'[second] /\ backup'[second][Len(backup[second]) + 1] = whole
    BY <1>2, <1>3
  <2> QED
    BY <1>1, <1>5, <2>1 DEF BackedUp, Whole
<1>6. ASSUME NEW v, BackedUp(v) PROVE BackedUp(v)'
  <2>1. PICK s \in 0..MaxClock : \E k \in DOMAIN backup[s] : Whole(backup[s][k], v)
    BY <1>6 DEF BackedUp
  <2>2. PICK k \in DOMAIN backup[s] : Whole(backup[s][k], v)
    BY <2>1
  <2>3. k \in DOMAIN backup'[s] /\ backup'[s][k] = backup[s][k]
    BY <1>2, <1>3
  <2> QED
    BY <2>2, <2>3 DEF BackedUp, Whole
<1> QED
  BY <1>4, <1>5, <1>6

(* Steps of an installer that leave the disk alone: it goes to a place     *)
(* that is not the copying, alone in the directory if it is in it, and to  *)
(* the making of the directory only if there is none.                      *)
LEMMA InstallerGoes ==
  ASSUME ShopInv, NEW i \in Installer, NEW pc \in InstallerPcs \ {"copy"}, Goes(i, pc),
         job[i].pc \notin {"copy", "done"},
         pc = "mkdir" => live = NoSkill,
         UNCHANGED <<live, backup, second, installed, package, shopFaults>>,
         crowded' \in BOOLEAN, crowded => crowded',
         pc # "done" => crowded' \/ \A j \in Job \ {i} : ~InDirectory(j)
  PROVE  ShopInv'
<1>0. i \in Job /\ Installer \subseteq Job /\ "publisher" \in Job /\ i # "publisher"
  BY SkillAssumption DEF Job
<1>1. /\ job' \in [Job -> JobState]
      /\ job'[i].pc = pc /\ job'[i].left = job[i].left
      /\ job'[i].failed = job[i].failed /\ job'[i].read = job[i].read
      /\ \A j \in Job \ {i} : job'[j] = job[j]
  BY <1>0, GoesOn DEF ShopInv
<1>2. \A v : BackedUp(v)' = BackedUp(v)
  BY DEF BackedUp
<1>3. ShopTypes'
  BY <1>0, <1>1 DEF ShopInv, ShopTypes
<1>4. OldInv'
  BY <1>0, <1>1, <1>2 DEF ShopInv, OldInv
<1>5. ASSUME ~crowded' PROVE QuietInv'
  <2>1. QuietInv
    BY <1>5 DEF ShopInv, ShopTypes
  <2>2. Alone'
    BY <1>0, <1>1, <1>5, <2>1 DEF QuietInv, Alone, InDirectory
  <2>3. CopyInv'
    BY <1>0, <1>1, <2>1 DEF QuietInv, CopyInv
  <2>4. InstalledInv'
    BY <1>0, <1>1, <1>2, <2>1 DEF QuietInv, InstalledInv, ShopInv, ShopTypes
  <2>5. WholeInv'
    BY <1>0, <1>1, <2>1 DEF QuietInv, WholeInv
  <2>6. PriceInv'
    BY <1>0, <1>1, <2>1 DEF QuietInv, PriceInv
  <2> QED
    BY <2>2, <2>3, <2>4, <2>5, <2>6 DEF QuietInv
<1> QED
  BY <1>3, <1>4, <1>5 DEF ShopInv

LEMMA EntersAlone ==
  ASSUME NEW i \in Job, crowded \in BOOLEAN, Enters(i)
  PROVE  crowded' \in BOOLEAN /\ (crowded => crowded')
         /\ (crowded' \/ \A j \in Job \ {i} : ~InDirectory(j))
BY DEF Enters

(* While it is in the directory and nobody met anybody, it is alone.       *)
LEMMA InsideAlone ==
  ASSUME ShopInv, NEW i \in Job, InDirectory(i)
  PROVE  crowded \in BOOLEAN /\ (crowded \/ \A j \in Job \ {i} : ~InDirectory(j))
BY DEF ShopInv, ShopTypes, QuietInv, Alone

LEMMA InstallerEarly ==
  ASSUME ShopInv, NEW i \in Installer,
         fulfill(i) \/ trigger_install(i) \/ Archive(i) \/ Exists(i)
  PROVE  ShopInv'
<1>0. i \in Job /\ crowded \in BOOLEAN
  BY DEF Job, ShopInv, ShopTypes
<1>1. CASE fulfill(i)
  <2>1. PICK reply \in BotAnswers : Goes(i, _process_fulfillment_response(reply))
    BY <1>1 DEF fulfill
  <2>2. CASE Goes(i, "archive")
    <3>1. job'[i].pc = "archive"
      BY <1>0, <2>2, GoesOn DEF ShopInv, InstallerPcs
    <3>2. Enters(i)
      BY <1>1, <3>1 DEF fulfill
    <3> QED
      BY <1>0, <1>1, <2>2, <3>2, EntersAlone, InstallerGoes DEF fulfill, InstallerPcs
  <2>3. CASE Goes(i, "done")
    <3>1. job'[i].pc = "done"
      BY <1>0, <2>3, GoesOn DEF ShopInv, InstallerPcs
    <3>2. crowded' = crowded
      BY <1>1, <3>1 DEF fulfill
    <3> QED
      BY <1>0, <1>1, <2>3, <3>2, InstallerGoes DEF fulfill, InstallerPcs
  <2> QED
    BY <2>1, <2>2, <2>3 DEF _process_fulfillment_response
<1>2. CASE trigger_install(i)
  BY <1>0, <1>2, EntersAlone, InstallerGoes DEF trigger_install, InstallerPcs
<1>3. CASE Archive(i)
  <2>1. InDirectory(i)
    BY <1>3 DEF Archive, InDirectory
  <2> QED
    BY <1>0, <1>3, <2>1, InsideAlone, InstallerGoes DEF Archive, InstallerPcs
<1>4. CASE Exists(i)
  <2>1. InDirectory(i)
    BY <1>4 DEF Exists, InDirectory
  <2> QED
    BY <1>0, <1>4, <2>1, InsideAlone, InstallerGoes DEF Exists, InstallerPcs
<1> QED
  BY <1>1, <1>2, <1>3, <1>4

LEMMA ShopMoveAway ==
  ASSUME ShopInv, NEW i \in Installer, MoveAway(i)
  PROVE  ShopInv'
<1>0. i \in Job /\ Installer \subseteq Job /\ "publisher" \in Job /\ i # "publisher"
  BY SkillAssumption DEF Job
<1>1. CASE ~CanMove
  BY <1>0, <1>1, InstallerGoes DEF MoveAway, InstallerPcs, ShopInv, ShopTypes
<1>2. CASE CanMove
  <2>1. /\ job[i].pc = "move" /\ live # NoSkill
        /\ backup' = [backup EXCEPT ![second] = Append(@, live.files)]
        /\ live' = NoSkill /\ Goes(i, "mkdir")
        /\ UNCHANGED <<second, installed, package, crowded, shopFaults>>
    BY <1>2 DEF MoveAway, CanMove
  <2>2. /\ job' \in [Job -> JobState]
        /\ job'[i].pc = "mkdir" /\ job'[i].left = job[i].left
        /\ job'[i].failed = job[i].failed /\ job'[i].read = job[i].read
        /\ \A j \in Job \ {i} : job'[j] = job[j]
    BY <1>0, <2>1, GoesOn DEF ShopInv, InstallerPcs
  <2>3. live.files \in [File -> Versions]
    BY <2>1 DEF ShopInv, ShopTypes, Skills, Directories
  <2>4. /\ backup' \in [0..MaxClock -> Seq([File -> Versions])]
        /\ \A v : BackedUp(v) \/ Whole(live.files, v) => BackedUp(v)'
    BY <2>1, <2>3, BackupKeeps DEF ShopInv
  <2>5. ShopTypes'
    BY <1>0, <2>1, <2>2, <2>4 DEF ShopInv, ShopTypes, Skills, InstallerPcs
  <2>6. OldInv'
    BY <2>4 DEF ShopInv, OldInv
  <2>7. ASSUME ~crowded' PROVE QuietInv'
    <3>1. QuietInv
      BY <2>1, <2>7 DEF ShopInv
    <3>2. \A j \in Job \ {i} : job[j].pc \in {"idle", "done"}
      BY <1>0, <2>1, <3>1 DEF QuietInv, Alone, InDirectory
    <3>3. Alone'
      BY <1>0, <2>2, <3>2 DEF Alone, InDirectory
    <3>4. CopyInv'
      BY <1>0, <2>1, <2>2, <3>1, <3>2 DEF QuietInv, CopyInv
    <3>5. InstalledInv'
      BY <1>0, <2>1, <2>2, <2>4, <3>1 DEF QuietInv, InstalledInv, ShopInv, ShopTypes
    <3>6. WholeInv'
      BY <2>1, <3>1 DEF QuietInv, WholeInv
    <3>7. PriceInv'
      BY <1>0, <2>1, <2>2, <3>1, <3>2 DEF QuietInv, PriceInv
    <3> QED
      BY <3>3, <3>4, <3>5, <3>6, <3>7 DEF QuietInv
  <2> QED
    BY <2>5, <2>6, <2>7 DEF ShopInv
<1> QED
  BY <1>1, <1>2

LEMMA ShopMakeDirectory ==
  ASSUME ShopInv, NEW i \in Installer, MakeDirectory(i)
  PROVE  ShopInv'
<1>0. i \in Job /\ Installer \subseteq Job /\ "publisher" \in Job /\ i # "publisher"
  BY SkillAssumption DEF Job
<1>1. CASE live # NoSkill
  BY <1>0, <1>1, InstallerGoes DEF MakeDirectory, InstallerPcs, ShopInv, ShopTypes
<1>2. CASE live = NoSkill
  <2>1. /\ job[i].pc = "mkdir" /\ live' = [files |-> NoFiles, price |-> 0] /\ Goes(i, "copy")
        /\ UNCHANGED <<backup, second, installed, package, crowded, shopFaults>>
    BY <1>2 DEF MakeDirectory
  <2>2. /\ job' \in [Job -> JobState]
        /\ job'[i].pc = "copy" /\ job'[i].left = job[i].left
        /\ job'[i].failed = job[i].failed /\ job'[i].read = job[i].read
        /\ \A j \in Job \ {i} : job'[j] = job[j]
    BY <1>0, <2>1, GoesOn DEF ShopInv, InstallerPcs
  <2>3. live' \in Directories /\ live'.files = NoFiles /\ \A f \in File : live'.files[f] = "missing"
    BY <2>1 DEF Directories, NoFiles, Versions
  <2>4. \A v : BackedUp(v)' = BackedUp(v)
    BY <2>1 DEF BackedUp
  <2>5. ShopTypes'
    BY <1>0, <2>1, <2>2, <2>3 DEF ShopInv, ShopTypes, Skills, InstallerPcs
  <2>6. BackedUp("old")
    BY <2>1 DEF ShopInv, OldInv
  <2>7. ASSUME ~crowded' PROVE QuietInv'
    <3>1. QuietInv
      BY <2>1, <2>7 DEF ShopInv
    <3>2. \A j \in Job \ {i} : job[j].pc \in {"idle", "done"}
      BY <1>0, <2>1, <3>1 DEF QuietInv, Alone, InDirectory
    <3>3. live' # NoSkill
      BY <2>3, NoSkillIsNone
    <3>4. Alone'
      BY <1>0, <2>2, <3>2 DEF Alone, InDirectory
    <3>5. CopyInv'
      BY <1>0, <2>1, <2>2, <2>3, <3>1, <3>2, <3>3 DEF QuietInv, CopyInv
    <3>6. InstalledInv'
      BY <1>0, <1>2, <2>1, <2>2, <2>4, <3>1 DEF QuietInv, InstalledInv, ShopInv, ShopTypes
    <3>7. WholeInv'
      BY <2>1, <2>2, <3>1 DEF QuietInv, WholeInv
    <3>8. PriceInv'
      BY <1>0, <2>1, <2>2, <2>3, <3>1, <3>2, SkillAssumption DEF QuietInv, PriceInv
    <3> QED
      BY <3>4, <3>5, <3>6, <3>7, <3>8 DEF QuietInv
  <2> QED
    BY <2>4, <2>5, <2>6, <2>7 DEF ShopInv, OldInv
<1> QED
  BY <1>1, <1>2

LEMMA ShopCopyFile ==
  ASSUME ShopInv, NEW i \in Installer, CopyFile(i)
  PROVE  ShopInv'
<1>0. i \in Job /\ Installer \subseteq Job /\ "publisher" \in Job /\ i # "publisher"
  BY SkillAssumption DEF Job
<1>1. PICK f \in job[i].left :
        /\ live' = IF live = NoSkill THEN live ELSE [live EXCEPT !.files[f] = i]
        /\ job' = [job EXCEPT ![i].left = @ \ {f}, ![i].failed = @ \/ live = NoSkill]
  BY DEF CopyFile
<1>2. /\ job[i].pc = "copy"
      /\ UNCHANGED <<backup, second, installed, package, crowded, shopFaults>>
  BY DEF CopyFile
<1>3. f \in File /\ job \in [Job -> JobState]
  BY <1>0 DEF ShopInv, ShopTypes, JobState
<1>4. /\ job' \in [Job -> JobState]
      /\ job'[i].pc = "copy" /\ job'[i].left = job[i].left \ {f}
      /\ job'[i].failed = (job[i].failed \/ live = NoSkill)
      /\ \A j \in Job \ {i} : job'[j] = job[j]
  BY <1>0, <1>1, <1>2, <1>3 DEF JobState
<1>5. ASSUME live # NoSkill
      PROVE  /\ live' \in Directories /\ live'.price = live.price
             /\ \A g \in File : live'.files[g] = IF g = f THEN i ELSE live.files[g]
  <2>1. live \in Directories /\ live' = [live EXCEPT !.files[f] = i]
    BY <1>1, <1>5 DEF ShopInv, ShopTypes, Skills
  <2> QED
    BY <1>3, <2>1 DEF Directories, Versions
<1>6. \A v : BackedUp(v)' = BackedUp(v)
  BY <1>2 DEF BackedUp
<1>7. ShopTypes'
  <2>1. live' \in Skills
    BY <1>1, <1>5 DEF Skills
  <2> QED
    BY <1>0, <1>2, <1>4, <2>1 DEF ShopInv, ShopTypes, InstallerPcs
<1>8. BackedUp("old")
  BY <1>2 DEF ShopInv, OldInv
<1>9. ASSUME ~crowded' PROVE QuietInv'
  <2>1. QuietInv
    BY <1>2, <1>9 DEF ShopInv
  <2>2. \A j \in Job \ {i} : job[j].pc \in {"idle", "done"}
    BY <1>0, <1>2, <2>1 DEF QuietInv, Alone, InDirectory
  <2>3. live # NoSkill /\ \A g \in File : live.files[g] = IF g \in job[i].left THEN "missing" ELSE i
    BY <1>2, <2>1 DEF QuietInv, CopyInv
  <2>4. live' # NoSkill
    BY <1>5, <2>3, NoSkillIsNone
  <2>5. Alone'
    BY <1>0, <1>2, <1>4, <2>2 DEF Alone, InDirectory
  <2>6. CopyInv'
    <3>1. \A g \in File : live'.files[g] = IF g \in job'[i].left THEN "missing" ELSE i
      BY <1>4, <1>5, <2>3
    <3>2. ~job'[i].failed
      BY <1>2, <1>4, <2>1, <2>3 DEF QuietInv, CopyInv
    <3> QED
      BY <1>0, <1>4, <2>1, <2>2, <2>4, <3>1, <3>2 DEF QuietInv, CopyInv
  <2>7. InstalledInv'
    <3>1. \A j \in installed : j \in Installer /\ j # i /\ job[j].pc = "done"
      BY <1>2, <2>1 DEF QuietInv, InstalledInv, ShopInv, ShopTypes
    <3>2. \A j \in installed : ~Whole(live.files, j)
      <4> SUFFICES ASSUME NEW j \in installed, Whole(live.files, j) PROVE FALSE
        OBVIOUS
      <4>1. live.files[SkillMd] = j /\ live.files[SkillMd] \in {i, "missing"}
        BY <2>3, SkillAssumption DEF Whole
      <4> QED
        BY <3>1, <4>1, SkillAssumption
    <3>3. \A j \in installed : BackedUp(j)
      BY <2>1, <3>2 DEF QuietInv, InstalledInv
    <3> QED
      BY <1>0, <1>2, <1>4, <1>6, <3>1, <3>3 DEF InstalledInv
  <2>8. WholeInv'
    BY <1>2, <1>4, <2>1 DEF QuietInv, WholeInv
  <2>9. PriceInv'
    <3>1. live'.files[SkillMd] \in {i, "missing"}
      BY <1>5, <2>3, SkillAssumption
    <3>2. package # NoSkill => package.files[SkillMd] \notin {i, "missing"}
      BY <1>2, <2>1 DEF QuietInv, PriceInv
    <3> QED
      BY <1>0, <1>2, <1>4, <2>1, <2>2, <3>1, <3>2, SkillAssumption DEF QuietInv, PriceInv
  <2> QED
    BY <2>5, <2>6, <2>7, <2>8, <2>9 DEF QuietInv
<1> QED
  BY <1>6, <1>7, <1>8, <1>9 DEF ShopInv, OldInv

LEMMA ShopCopied ==
  ASSUME ShopInv, NEW i \in Installer, Copied(i)
  PROVE  ShopInv'
<1>0. i \in Job /\ Installer \subseteq Job /\ "publisher" \in Job /\ i # "publisher"
  BY SkillAssumption DEF Job
<1>1. /\ job[i].pc = "copy" /\ job[i].left = {} /\ Goes(i, "done")
      /\ installed' = IF job[i].failed THEN installed ELSE installed \cup {i}
      /\ UNCHANGED <<live, backup, second, package, crowded, shopFaults>>
  BY DEF Copied
<1>2. /\ job' \in [Job -> JobState]
      /\ job'[i].pc = "done" /\ job'[i].left = job[i].left
      /\ job'[i].failed = job[i].failed /\ job'[i].read = job[i].read
      /\ \A j \in Job \ {i} : job'[j] = job[j]
  BY <1>0, <1>1, GoesOn DEF ShopInv, InstallerPcs
<1>3. \A v : BackedUp(v)' = BackedUp(v)
  BY <1>1 DEF BackedUp
<1>4. ShopTypes'
  BY <1>0, <1>1, <1>2 DEF ShopInv, ShopTypes, InstallerPcs
<1>5. OldInv'
  BY <1>0, <1>1, <1>2, <1>3 DEF ShopInv, OldInv
<1>6. ASSUME ~crowded' PROVE QuietInv'
  <2>1. QuietInv
    BY <1>1, <1>6 DEF ShopInv
  <2>2. \A j \in Job \ {i} : job[j].pc \in {"idle", "done"}
    BY <1>0, <1>1, <2>1 DEF QuietInv, Alone, InDirectory
  <2>3. live # NoSkill /\ \A g \in File : live.files[g] = i
    BY <1>1, <2>1 DEF QuietInv, CopyInv
  <2>4. Whole(live.files, i)
    <3>1. live.files \in [File -> Versions]
      BY <2>3 DEF ShopInv, ShopTypes, Skills, Directories
    <3> QED
      BY <2>3, <3>1 DEF Whole
  <2>5. Alone'
    BY <1>0, <1>2, <2>2 DEF Alone, InDirectory
  <2>6. CopyInv'
    BY <1>0, <1>2, <2>1, <2>2 DEF QuietInv, CopyInv
  <2>7. InstalledInv'
    BY <1>0, <1>1, <1>2, <1>3, <2>1, <2>3, <2>4 DEF QuietInv, InstalledInv, ShopInv, ShopTypes
  <2>8. WholeInv'
    BY <1>1, <2>1, <2>4 DEF QuietInv, WholeInv
  <2>9. PriceInv'
    BY <1>0, <1>1, <1>2, <2>1 DEF QuietInv, PriceInv
  <2> QED
    BY <2>5, <2>6, <2>7, <2>8, <2>9 DEF QuietInv
<1> QED
  BY <1>4, <1>5, <1>6 DEF ShopInv

(* The publisher changes the price of a directory at most, and its package *)
(* only when it is alone with it.                                          *)
LEMMA ShopPublisher ==
  ASSUME ShopInv, Validate \/ Manifest \/ Pack \/ ClosePackage
  PROVE  ShopInv'
<1> DEFINE p == "publisher"
<1>0. p \in Job /\ Installer \subseteq Job \ {p} /\ ShopTypes /\ crowded \in BOOLEAN
  BY SkillAssumption DEF Job, ShopInv, ShopTypes
<1>1. /\ job' \in [Job -> JobState] /\ job'[p].pc \in PublisherPcs
      /\ \A j \in Job \ {p} : job'[j] = job[j]
  <2>1. CASE Validate \/ Manifest
    <3>1. \E pc \in PublisherPcs : Goes(p, pc)
      BY <2>1 DEF Validate, Manifest, PublisherPcs
    <3> QED
      BY <1>0, <3>1, GoesOn
  <2>2. CASE Pack
    <3>1. live \in Skills /\ job \in [Job -> JobState]
      BY <1>0 DEF ShopTypes
    <3>2. PICK pc \in PublisherPcs : job' = [job EXCEPT ![p].pc = pc, ![p].read = live]
      BY <2>2 DEF Pack, PublisherPcs
    <3> QED
      BY <1>0, <3>1, <3>2 DEF JobState
  <2>3. CASE ClosePackage
    <3>1. job' = [job EXCEPT ![p] = NoJob] /\ job \in [Job -> JobState]
      BY <1>0, <2>3 DEF ClosePackage, ShopTypes
    <3>2. NoJob \in JobState /\ NoJob.pc \in PublisherPcs
      BY DEF NoJob, JobState, InstallerPcs, PublisherPcs, Skills
    <3> QED
      BY <1>0, <3>1, <3>2
  <2> QED
    BY <2>1, <2>2, <2>3
<1>2. /\ UNCHANGED <<backup, second, installed, shopFaults>>
      /\ \/ live' = live
         \/ /\ live # NoSkill /\ job[p].pc = "manifest" /\ package' = package
            /\ \E asked \in AskedPrices : live' = [live EXCEPT !.price = PriceOf(live, asked)]
  BY DEF Validate, Manifest, Pack, ClosePackage
<1>3. ASSUME live # NoSkill
      PROVE  /\ live' \in Directories /\ live' # NoSkill /\ live'.files = live.files
             /\ live.price > 0 => live'.price = live.price
             /\ live' # live => live'.price > 0
  <2>1. live \in Directories
    BY <1>3 DEF ShopInv, ShopTypes, Skills
  <2> QED
    BY <1>2, <2>1, NoSkillIsNone DEF Directories, PriceOf, AskedPrices
<1>4. live = NoSkill => live' = NoSkill
  BY <1>2
<1>5. crowded' \in BOOLEAN /\ (crowded => crowded')
  BY <1>0, EntersAlone DEF Validate, Manifest, Pack, ClosePackage
<1>6. \A v : BackedUp(v)' = BackedUp(v)
  BY <1>2 DEF BackedUp
<1>7. ShopTypes'
  <2>1. package' \in Skills
    BY <1>0 DEF Validate, Manifest, Pack, ClosePackage, ShopTypes, Skills, JobState
  <2>2. live' \in Skills
    BY <1>3, <1>4 DEF Skills
  <2> QED
    BY <1>0, <1>1, <1>2, <1>5, <2>1, <2>2 DEF ShopTypes
<1>8. OldInv'
  BY <1>0, <1>1, <1>3, <1>6 DEF ShopInv, OldInv
<1>9. ASSUME ~crowded' PROVE QuietInv'
  <2>1. QuietInv
    BY <1>0, <1>5, <1>9 DEF ShopInv
  <2>2. \A j \in Job \ {p} : ~InDirectory(j) \/ job'[p].pc = "idle"
    <3>1. CASE Validate
      BY <1>0, <1>9, <3>1, EntersAlone DEF Validate
    <3>2. CASE Manifest \/ Pack \/ ClosePackage
      <4>1. InDirectory(p)
        BY <3>2 DEF Manifest, Pack, ClosePackage, InDirectory
      <4> QED
        BY <1>0, <2>1, <4>1 DEF QuietInv, Alone
    <3> QED
      BY <3>1, <3>2
  <2>3. Alone'
    BY <1>0, <1>1, <2>1, <2>2 DEF QuietInv, Alone, InDirectory
  <2>4. CopyInv'
    BY <1>0, <1>1, <1>3, <1>4, <2>1 DEF QuietInv, CopyInv
  <2>5. InstalledInv'
    BY <1>0, <1>1, <1>2, <1>3, <1>6, <2>1 DEF QuietInv, InstalledInv, ShopTypes
  <2>6. \A j \in Job \ {p} : Manifest \/ Pack \/ ClosePackage => job[j].pc \in {"idle", "done"}
    BY <1>0, <2>1 DEF QuietInv, Alone, InDirectory, Manifest, Pack, ClosePackage
  <2>7. /\ package' # package =>
             \/ package' = NoSkill
             \/ package' = live /\ live' = live /\ job[p].pc = "close" /\ ClosePackage
    BY <2>1 DEF Validate, Manifest, Pack, ClosePackage, QuietInv, PriceInv
  <2>8. WholeInv'
    BY <1>0, <1>1, <1>2, <1>3, <1>4, <2>1, <2>6, <2>7 DEF QuietInv, WholeInv
  <2>9. PriceInv'
    <3>1. live' # NoSkill =>
            \A i \in Installer : live'.files[SkillMd] = i => job'[i].pc \in {"copy", "done"}
      BY <1>0, <1>1, <1>3, <1>4, <2>1 DEF QuietInv, PriceInv
    <3>2. job'[p].pc \in {"manifest", "pack", "close"} =>
            live' # NoSkill /\ live'.files[SkillMd] # "missing"
      <4>1. job'[p].pc \in {"manifest", "pack", "close"} => live # NoSkill /\ live.files[SkillMd] # "missing"
        BY <1>0, <2>1 DEF Validate, Manifest, Pack, ClosePackage, Goes, NoJob, QuietInv, PriceInv, ShopTypes, JobState
      <4> QED
        BY <1>3, <4>1
    <3>3. job'[p].pc \in {"pack", "close"} => live'.price > 0
      <4>1. CASE Manifest /\ live # NoSkill
        <5>1. live \in Directories
          BY <4>1 DEF ShopInv, ShopTypes, Skills
        <5> QED
          BY <4>1, <5>1 DEF Manifest, Directories, PriceOf, AskedPrices
      <4>2. CASE Pack
        BY <2>1, <4>2 DEF Pack, QuietInv, PriceInv
      <4>3. CASE Validate \/ (Manifest /\ live = NoSkill) \/ ClosePackage
        BY <1>0, <4>3 DEF Validate, Manifest, ClosePackage, Goes, NoJob, ShopTypes, JobState
      <4> QED
        BY <4>1, <4>2, <4>3
    <3>4. job'[p].pc = "close" => job'[p].read = live'
      BY <1>0 DEF Validate, Manifest, Pack, ClosePackage, Goes, NoJob, ShopTypes, JobState
    <3>5. CASE package' = NoSkill
      BY <3>1, <3>2, <3>3, <3>4, <3>5 DEF PriceInv
    <3>6. CASE package' = package /\ package # NoSkill
      <4>1. live # NoSkill /\ live.files[SkillMd] = package.files[SkillMd] => live'.price = package.price
        BY <1>3, <2>1, <3>6 DEF QuietInv, PriceInv
      <4> QED
        BY <1>0, <1>1, <1>3, <1>4, <2>1, <3>1, <3>2, <3>3, <3>4, <3>6, <4>1 DEF QuietInv, PriceInv
    <3>7. CASE package' = live /\ live' = live /\ job[p].pc = "close" /\ ClosePackage
      <4>1. live # NoSkill /\ live.price > 0 /\ live.files[SkillMd] # "missing"
        BY <2>1, <3>7 DEF QuietInv, PriceInv
      <4>2. \A i \in Installer : live.files[SkillMd] = i => job'[i].pc = "done"
        BY <1>0, <1>1, <2>1, <2>6, <3>7, <4>1 DEF QuietInv, PriceInv
      <4> QED
        BY <3>1, <3>2, <3>3, <3>4, <3>7, <4>1, <4>2 DEF PriceInv
    <3> QED
      BY <2>7, <3>5, <3>6, <3>7
  <2> QED
    BY <2>3, <2>4, <2>5, <2>8, <2>9 DEF QuietInv
<1> QED
  BY <1>7, <1>8, <1>9 DEF ShopInv

LEMMA ShopDies ==
  ASSUME ShopInv, NEW i \in Job, Dies(i)
  PROVE  ShopInv'
<1>0. Installer \subseteq Job /\ "publisher" \in Job /\ ShopTypes
  BY DEF Job, ShopInv
<1>1. /\ InDirectory(i) /\ shopFaults' = shopFaults + 1 /\ Goes(i, "done")
      /\ UNCHANGED <<live, backup, second, installed, package, crowded>>
  BY DEF Dies
<1>2. /\ job' \in [Job -> JobState]
      /\ job'[i].pc = "done" /\ job'[i].left = job[i].left
      /\ job'[i].failed = job[i].failed /\ job'[i].read = job[i].read
      /\ \A j \in Job \ {i} : job'[j] = job[j]
  BY <1>0, <1>1, GoesOn DEF InstallerPcs
<1>3. \A v : BackedUp(v)' = BackedUp(v)
  BY <1>1 DEF BackedUp
<1>4. ShopTypes'
  BY <1>0, <1>1, <1>2 DEF ShopTypes, InstallerPcs, PublisherPcs
<1>5. OldInv'
  BY <1>0, <1>1, <1>2, <1>3 DEF ShopInv, OldInv
<1>6. ASSUME ~crowded' PROVE QuietInv'
  <2>1. QuietInv
    BY <1>1, <1>6 DEF ShopInv
  <2>2. Alone' /\ CopyInv'
    BY <1>0, <1>1, <1>2, <2>1 DEF QuietInv, Alone, CopyInv, InDirectory
  <2>3. InstalledInv'
    BY <1>0, <1>1, <1>2, <1>3, <2>1 DEF QuietInv, InstalledInv, ShopTypes
  <2>4. WholeInv'
    BY <1>0, <1>1 DEF WholeInv, ShopTypes
  <2>5. PriceInv'
    BY <1>0, <1>1, <1>2, <2>1 DEF QuietInv, PriceInv
  <2> QED
    BY <2>2, <2>3, <2>4, <2>5 DEF QuietInv
<1> QED
  BY <1>4, <1>5, <1>6 DEF ShopInv

LEMMA ShopInvStep == ShopInv /\ [Next]_vars => ShopInv'
<1> SUFFICES ASSUME ShopInv, [Next]_vars PROVE ShopInv'
  OBVIOUS
<1>1. ASSUME second' \in 0..MaxClock,
             UNCHANGED <<live, backup, job, installed, package, crowded, shopFaults>>
      PROVE  ShopInv'
  <2>1. ShopTypes'
    BY <1>1 DEF ShopInv, ShopTypes
  <2>2. OldInv'
    BY <1>1 DEF ShopInv, OldInv, BackedUp
  <2>3. QuietInv => QuietInv'
    BY <1>1 DEF QuietInv, Alone, InDirectory, CopyInv, InstalledInv, BackedUp, WholeInv, PriceInv
  <2> QED
    BY <1>1, <2>1, <2>2, <2>3 DEF ShopInv
<1>2. CASE webhook \/ Passes
  BY <1>1, <1>2, SkillAssumption DEF webhook, Passes, ShopInv, ShopTypes
<1>3. CASE UNCHANGED shopVars
  BY <1>1, <1>3 DEF shopVars, ShopInv, ShopTypes
<1>4. UNCHANGED vars => UNCHANGED shopVars
  BY DEF vars
<1> QED
  BY <1>2, <1>3, <1>4, InstallerEarly, ShopMoveAway, ShopMakeDirectory, ShopCopyFile, ShopCopied,
     ShopPublisher, ShopDies DEF Next, ShopNext

(* Whatever requests meet in the directory of a skill and wherever one of  *)
(* them dies, the version installed before is still whole; and as long as  *)
(* no two jobs met, so is every version reported as installed, a package   *)
(* is one whole version if nobody died, and it has its manifest's price;   *)
(* for any number of requests, files and seconds.                          *)
THEOREM SkillsAreKept == Spec => []SkillsKept
<1>1. ShopInv => SkillsKept
  <2> SUFFICES ASSUME ShopInv PROVE SkillsKept
    OBVIOUS
  <2>1. \A v : BackedUp(v) \/ Whole(live.files, v) => \E whole \in OnDisk : Whole(whole, v)
    BY DEF BackedUp, OnDisk
  <2>2. \E whole \in OnDisk : Whole(whole, "old")
    BY <2>1 DEF ShopInv, OldInv
  <2>3. ASSUME ~crowded
        PROVE  /\ \A i \in installed : \E whole \in OnDisk : Whole(whole, i)
               /\ package # NoSkill /\ shopFaults = 0 => \E v \in Installer \cup {"old"} : Whole(package.files, v)
    BY <2>1, <2>3 DEF ShopInv, QuietInv, InstalledInv, WholeInv
  <2>4. ASSUME ~crowded, package # NoSkill, live.files = package.files, live.price > 0
        PROVE  package.price = live.price
    <3>1. live # NoSkill
      BY <2>4 DEF NoSkill
    <3> QED
      BY <2>4, <3>1 DEF ShopInv, QuietInv, PriceInv
  <2> QED
    BY <2>2, <2>3, <2>4 DEF SkillsKept
<1> QED
  BY <1>1, ShopInvInit, ShopInvStep, PTL DEF Spec
============================================================================
