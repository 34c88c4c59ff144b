--------------------------- MODULE WatchlistList ---------------------------
(***************************************************************************)
(* What the watchlist promises a user: one list of items, ordered by       *)
(* sort_index and then by age, changed by four operations that either take *)
(* effect as a whole or answer an error and change nothing.                *)
(***************************************************************************)
EXTENDS Naturals, Sequences, FiniteSets, Functions

CONSTANT Limit  \* MAX_ITEMS_PER_USER

VARIABLES
    enforced,   \* does the configured backend check the limit?
    items,      \* the user's rows
    answer      \* the last request that was answered: op, argument, outcome

vars == <<enforced, items, answer>>

Ids == {r.id : r \in items}
Symbols == {r.symbol : r \in items}
Answers(op, out) == answer'.op = op /\ answer'.out = out
Refuses(op, out) == Answers(op, out) /\ UNCHANGED items

Init == enforced \in BOOLEAN /\ items = {} /\ answer = [op |-> "none", arg |-> <<>>, out |-> "ok"]

\* The new item comes last; a symbol is listed once.
Add ==
    \/ \E r \in items' :
        /\ answer'.arg = <<r.symbol>> /\ r.symbol \notin Symbols
        /\ \A s \in items : s.sort < r.sort /\ s.id < r.id
        /\ enforced => Cardinality(items) < Limit
        /\ items' = items \cup {r}
        /\ Answers("create", "ok")
    \/ Refuses("create", "409") /\ answer'.arg[1] \in Symbols
    \/ enforced /\ Cardinality(items) >= Limit /\ Refuses("create", "full")

\* One item changes, and keeps its id and its symbol.
Update ==
    \/ \E old \in items : \E new \in items' :
        /\ answer'.arg = <<old.id>> /\ old.id = new.id /\ old.symbol = new.symbol
        /\ items' = (items \ {old}) \cup {new}
        /\ Answers("update", "ok")
    \/ Refuses("update", "404") /\ answer'.arg[1] \notin Ids

Delete ==
    \/ \E old \in items :
        /\ answer'.arg = <<old.id>>
        /\ items' = items \ {old}
        /\ Answers("delete", "ok")
    \/ Refuses("delete", "404") /\ answer'.arg[1] \notin Ids

\* A successful reorder names every item once; positions become sort_index,
\* notes and symbols stay.
Reorder ==
    LET order == answer'.arg
        Position(r) == CHOOSE i \in DOMAIN order : order[i] = r.id
        NamesAll == IsInjective(order) /\ Range(order) = Ids
    IN  \/ /\ Answers("reorder", "ok")
           /\ NamesAll
           /\ items' = {[r EXCEPT !.sort = Position(r) - 1] : r \in items}
        \/ /\ Refuses("reorder", "404")
           /\ ~NamesAll

\* A request the route or the store rejects as invalid.
Invalid == answer'.out = "422" /\ UNCHANGED items

Next ==
    /\ UNCHANGED enforced
    /\ Add \/ Update \/ Delete \/ Reorder \/ Invalid
Spec == Init /\ [][Next]_vars
=============================================================================
