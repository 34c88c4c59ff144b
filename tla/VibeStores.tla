----------------------------- MODULE VibeStores -----------------------------
(***************************************************************************)
(* What a chat leaves behind: the session, its messages and the list of    *)
(* the user's sessions (vibe_session_store), and the events of a run       *)
(* (vibe_event_store).  Runs of one session go on at the same time, while  *)
(* the routes open a second session and archive the first.  In Redis every *)
(* operation reads a value, changes it and writes it back; in Supabase an  *)
(* operation is one statement, and one that fails goes to the memory of    *)
(* the store object that made it: a run has its own, so that the routes    *)
(* never see what is there.                                                *)
(***************************************************************************)
EXTENDS Integers, Sequences, SequencesExt, FiniteSets, FiniteSetsExt

CONSTANTS
    Run,          \* runs of session "s1"
    Failing,      \* those that fail and store no answer
    Titled,       \* those that found a title when they began
    Backends,     \* subset of {"redis", "supabase"}
    EventLimit,   \* the limit of get_events
    MaxEvents,    \* bound: events a run publishes, the last one is done or error
    MaxStoreFaults

VARIABLES
    backend,
    session,      \* the stored record of "s1": [status, count]
    messages,     \* the stored messages of "s1", a sequence of [by, role, at]
    ids,          \* the stored list of the user's sessions, as a set
    caller,       \* what each run and each route call is doing
    told,         \* what was reported as done
    raced,        \* the values that two calls had read before either wrote
    log,          \* the stored events of a run: [id, seq]
    published,    \* events the run published
    missed,       \* numbers that Redis refused and the run counted itself
    lost,         \* an event or a number was refused, or an event malformed
    sent,         \* events the SSE stream sent
    polled,       \* events a poller has, in the order it got them
    behind,       \* a poll found more than EventLimit new events
    storeFaults
storeVars == <<backend, session, messages, ids, caller, told, raced, log, published, missed, lost, sent,
               polled, behind, storeFaults>>

Route == {"create_session", "archive_session"}
Caller == Run \cup Route

ASSUME StoresAssumption ==
    /\ IsFiniteSet(Run) /\ Run \cap Route = {} /\ Failing \cup Titled \subseteq Run
    /\ Backends \subseteq {"redis", "supabase"}
    /\ EventLimit \in Nat \ {0} /\ {MaxEvents, MaxStoreFaults} \subseteq Nat

\* A run stores the prompt, the answer, and a title if it found none.
Program(c) ==
    CASE c \in Route -> <<c>>
      [] c \in Failing -> <<"user">>
      [] c \in Titled \ Failing -> <<"user", "assistant">>
      [] OTHER -> <<"user", "assistant", "title">>

StoresInit ==
    /\ backend \in Backends
    /\ session = [status |-> "active", count |-> 0]
    /\ messages = <<>> /\ ids = {"s1"}
    /\ caller = [c \in Caller |-> [pc |-> "call", todo |-> Program(c), read |-> <<>>, at |-> 0]]
    /\ told = {} /\ raced = {}
    /\ log = <<>> /\ published = 0 /\ missed = 0 /\ lost = FALSE
    /\ sent = <<>> /\ polled = <<>> /\ behind = FALSE
    /\ storeFaults = 0

sessionVars == <<session, messages, ids, caller, told, raced>>
eventVars == <<log, published, missed, lost, sent, polled, behind>>
StoreUp == UNCHANGED storeFaults
StoreDown == storeFaults < MaxStoreFaults /\ storeFaults' = storeFaults + 1

Op(c) == Head(caller[c].todo)
AtPc(c, pc) == caller[c].todo # <<>> /\ caller[c].pc = pc
Goto(c, pc, value) == caller' = [caller EXCEPT ![c].pc = pc, ![c].read = value]
\* The operation returns; the caller takes its next one.
Return(c) ==
    /\ caller' = [caller EXCEPT ![c].pc = "call", ![c].todo = Tail(@), ![c].read = <<>>]
    /\ told' = told \cup {<<c, Op(c)>>}
\* The caller ends: an exception of the client, or the process is gone.
Abort(c) == caller' = [caller EXCEPT ![c].todo = <<>>, ![c].pc = "call", ![c].read = <<>>]

\* The calls that have read a value and not written it back.
Holding(value) == {c \in Caller : \/ value = "messages" /\ AtPc(c, "put")
                                  \/ value = "session" /\ caller[c].pc \in {"count", "save"}
                                  \/ value = "ids" /\ AtPc(c, "put_ids")}
Reads(c, value) == raced' = IF Holding(value) \ {c} # {} THEN raced \cup {value} ELSE raced

-----------------------------------------------------------------------------
(* Redis: _redis_get_json raises what the client raises, _redis_set_json   *)
(* swallows it.                                                            *)

IsMessage(c) == Op(c) \in {"user", "assistant"}
\* The created_at of a message: later than that of every message before it,
\* stored or not.
Stamp == Max({caller[c].at : c \in Caller}) + 1
NewMessage(c) == [by |-> c, role |-> Op(c), at |-> caller[c].at]

\* create_message: the list is read, and written with the message at its end.
create_message(c) ==
    /\ AtPc(c, "call") /\ IsMessage(c)
    /\ Reads(c, "messages") /\ Goto(c, "put", messages)
    /\ StoreUp /\ UNCHANGED <<session, messages, ids, told>>
put_message(c) ==
    /\ AtPc(c, "put")
    /\ \/ messages' = Append(caller[c].read, NewMessage(c)) /\ StoreUp
       \/ UNCHANGED messages /\ StoreDown
    /\ Goto(c, "touch", <<>>)
    /\ UNCHANGED <<session, ids, told, raced>>

\* _touch_session, the title and the archive read the record of the session.
load_session(c) ==
    /\ \/ AtPc(c, "touch")
       \/ AtPc(c, "call") /\ Op(c) \in {"title", "archive_session"}
    /\ Reads(c, "session")
    /\ CASE Op(c) = "archive_session" -> Goto(c, "save", [session EXCEPT !.status = "deleted"])
         [] Op(c) = "title" -> Goto(c, "save", session)
         [] OTHER -> Goto(c, "count", session)
    /\ StoreUp /\ UNCHANGED <<session, messages, ids, told>>
count_messages(c) ==
    /\ AtPc(c, "count")
    /\ Goto(c, "save", [caller[c].read EXCEPT !.count = Len(messages)])
    /\ StoreUp /\ UNCHANGED <<session, messages, ids, told, raced>>
save_session(c) ==
    /\ AtPc(c, "save")
    /\ \/ session' = caller[c].read /\ StoreUp
       \/ UNCHANGED session /\ StoreDown
    /\ IF Op(c) = "archive_session" THEN Goto(c, "ids", <<>>) /\ UNCHANGED told ELSE Return(c)
    /\ UNCHANGED <<messages, ids, raced>>

\* create_session and archive_session change the list of the user's sessions.
load_ids(c) ==
    /\ \/ AtPc(c, "ids")
       \/ AtPc(c, "call") /\ Op(c) = "create_session"
    /\ IF Op(c) = "create_session" THEN Goto(c, "put_ids", ids \cup {"s2"}) /\ Reads(c, "ids") /\ UNCHANGED told
       ELSE IF "s1" \in ids THEN Goto(c, "put_ids", ids \ {"s1"}) /\ Reads(c, "ids") /\ UNCHANGED told
       ELSE Return(c) /\ UNCHANGED raced
    /\ StoreUp /\ UNCHANGED <<session, messages, ids>>
put_ids(c) ==
    /\ AtPc(c, "put_ids")
    /\ \/ ids' = caller[c].read /\ StoreUp
       \/ UNCHANGED ids /\ StoreDown
    /\ Return(c)
    /\ UNCHANGED <<session, messages, raced>>

\* A read that raises, or a process that ends, in the middle of an operation.
Breaks(c) ==
    /\ caller[c].todo # <<>> /\ StoreDown
    /\ Abort(c)
    /\ UNCHANGED <<session, messages, ids, told, raced>>

RedisStep(c) ==
    \/ create_message(c) \/ put_message(c)
    \/ load_session(c) \/ count_messages(c) \/ save_session(c)
    \/ load_ids(c) \/ put_ids(c)

-----------------------------------------------------------------------------
(* Supabase: list_messages orders by created_at, which the orchestrator    *)
(* sets before it calls; the title and message_count of the table are not  *)
(* those of _touch_session, which works on the memory of the store.        *)

\* The orchestrator takes the time of a message.
Date(c) ==
    /\ AtPc(c, "call") /\ IsMessage(c)
    /\ caller' = [caller EXCEPT ![c].pc = "insert", ![c].at = Stamp]
    /\ StoreUp /\ UNCHANGED <<session, messages, ids, told, raced>>
\* The rows in the order of their times, with one more of them.
ByTime(rows, m) == InsertAt(rows, Max({0} \cup {i \in DOMAIN rows : rows[i].at <= m.at}) + 1, m)
Statement(c) ==
    /\ \/ AtPc(c, "insert")
       \/ AtPc(c, "call") /\ ~IsMessage(c)
    /\ \/ /\ messages' = IF IsMessage(c) THEN ByTime(messages, NewMessage(c)) ELSE messages
          /\ session' = IF Op(c) = "archive_session" THEN [session EXCEPT !.status = "deleted"] ELSE session
          /\ ids' = IF Op(c) = "create_session" THEN ids \cup {"s2"} ELSE ids
          /\ StoreUp
       \/ UNCHANGED <<session, messages, ids>> /\ StoreDown
    /\ Return(c) /\ UNCHANGED raced

list_sessions ==
    {s \in ids : s = "s1" => session.status = "active"}

SessionNext ==
    /\ \E c \in Caller : \/ backend = "redis" /\ RedisStep(c)
                         \/ backend = "supabase" /\ (Date(c) \/ Statement(c))
                         \/ Breaks(c)
    /\ UNCHANGED <<backend, eventVars>>

-----------------------------------------------------------------------------
(* Events: one run publishes, an SSE stream and a poller read.             *)

\* publish: a number is taken first, that of the run itself if Redis refuses
\* one; a malformed event is dropped, one that Redis refuses goes to the memory
\* of the run.
_next_seq == published - missed
publish ==
    /\ published < MaxEvents /\ published' = published + 1
    /\ \/ /\ log' = Append(log, [id |-> published + 1, seq |-> _next_seq])
          /\ StoreUp /\ UNCHANGED <<missed, lost>>
       \/ /\ log' = Append(log, [id |-> published + 1, seq |-> missed])
          /\ StoreDown /\ missed' = missed + 1 /\ lost' = TRUE
       \/ UNCHANGED <<log, missed>> /\ StoreDown /\ lost' = TRUE
    /\ UNCHANGED <<sent, polled, behind>>

Upto(limit, s) == SubSeq(s, 1, IF Len(s) < limit THEN Len(s) ELSE limit)
EndOf(limit, s) == SubSeq(s, IF Len(s) > limit THEN Len(s) - limit + 1 ELSE 1, Len(s))
_fetch_range(offset) == Upto(EventLimit, SubSeq(log, offset + 1, Len(log)))
\* Mutated form; no specification uses it: the cursor's event is sent again.
After_inclusive(id) == SubSeq(log, CHOOSE i \in DOMAIN log : log[i].id = id, Len(log))
\* The events behind the one with this event_id.
After(id) == SubSeq(log, (CHOOSE i \in DOMAIN log : log[i].id = id) + 1, Len(log))

\* The stream goes on where it is, and ends with the last event of the run.
Stream ==
    /\ \A i \in DOMAIN sent : sent[i].id # MaxEvents
    /\ sent' = sent \o _fetch_range(Len(sent))
    /\ StoreUp /\ UNCHANGED <<log, published, missed, lost, polled, behind>>
\* The poller names the last event it has; the page is the end of what follows.
Poll ==
    /\ LET new == IF polled = <<>> THEN log ELSE After(Last(polled).id)
       IN  /\ polled' = IF polled = <<>> THEN _fetch_range(0) ELSE polled \o EndOf(EventLimit, new)
           /\ behind' = (behind \/ (polled # <<>> /\ Len(new) > EventLimit))
    /\ StoreUp /\ UNCHANGED <<log, published, missed, lost, sent>>

EventNext == (publish \/ Stream \/ Poll) /\ UNCHANGED <<backend, sessionVars>>

-----------------------------------------------------------------------------
(* Properties *)

\* What a run was told is stored is in the conversation, once and in the order
\* of its steps, unless a fault was swallowed or two calls held the list at the
\* same time; the count of the record is that of the messages.
TranscriptKept ==
    /\ \A i, j \in DOMAIN messages :
         /\ messages[i] = messages[j] => i = j
         /\ messages[i].by = messages[j].by /\ messages[i].role = "user" /\ messages[j].role = "assistant" => i < j
    /\ storeFaults = 0 /\ "messages" \notin raced =>
         \A c \in Run, r \in {"user", "assistant"} :
            <<c, r>> \in told => \E i \in DOMAIN messages : messages[i].by = c /\ messages[i].role = r
    /\ storeFaults = 0 /\ backend = "redis" /\ raced = {} /\ (\A c \in Caller : caller[c].pc = "call") =>
         session.count = Len(messages)

\* A session that was archived is listed again only if two stale writes hit it:
\* one to its record and one to the list; one that was created is listed unless
\* the list was raced for.
ListHonest ==
    storeFaults = 0 =>
      /\ <<"archive_session", "archive_session">> \in told /\ "s1" \in list_sessions => {"session", "ids"} \subseteq raced
      /\ <<"create_session", "create_session">> \in told /\ "ids" \notin raced => "s2" \in list_sessions

\* A stream sends the stored events from the first on, none twice; a poller
\* gets each at most once and in order, and all of them as long as it is never
\* more than a page behind; and "seq maps directly to LRANGE index" until an
\* event is dropped.
EventsRead ==
    /\ IsPrefix(sent, log)
    /\ \A i, j \in DOMAIN polled : i < j => polled[i].id < polled[j].id
    /\ ~behind => IsPrefix(polled, log)
    /\ ~lost => \A i \in DOMAIN log : log[i].seq = i - 1

\* The stores of a chat keep what they were given.
ChatKept == TranscriptKept /\ ListHonest /\ EventsRead
=============================================================================
