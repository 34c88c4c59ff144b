--------------------------- MODULE LoopScheduler ---------------------------
(***************************************************************************)
(* The adaptive heartbeat of the tuning loop.  next_wake_at reads the      *)
(* journal, the clock and the configuration and says when the loop wakes   *)
(* again; the caller sleeps until then, runs a generation, which may       *)
(* journal an accepted result, and asks again.                             *)
(*                                                                         *)
(* Time is in minutes; minute 0 is a Monday, 00:00.  The journal holds     *)
(* accepted records only: the scheduler skips every other.                 *)
(***************************************************************************)
EXTENDS Integers, Sequences, FiniteSets, SequencesExt, FiniteSetsExt

CONSTANTS
    Configs,      \* SchedulerConfig: [start, end, weekend, backoff, max]
    Starts,       \* the minutes at which the loop may be started
    Results,      \* the accepted fitness values of one generation, in order
    MaxGen        \* bound: generations

Hour == 60
Day == 24 * Hour
NoAge == -1

VARIABLES
    config,     \* the configuration
    clock,      \* the wall clock when the loop asks
    accepted,   \* accepted records of HISTORY.jsonl: [gen, fitness, ts]
    generation, \* generations run
    pending     \* an operator action waits in NEXT_QUEUE.md

heartbeatVars == <<config, clock, accepted, generation, pending>>

HourOf(t) == (t \div Hour) % 24
Weekday(t) == (t \div Day) % 7

-----------------------------------------------------------------------------
\* Mutated forms of the definitions below; no specification uses them.
Lookahead_short == 1..8
-----------------------------------------------------------------------------
(* Quiet hours *)

InQuietHours(t, c) ==
    IF c.start < c.end THEN c.start <= HourOf(t) /\ HourOf(t) < c.end
    ELSE HourOf(t) >= c.start \/ HourOf(t) < c.end
IsWeekend(t, c) == c.weekend /\ Weekday(t) >= 5
Active(t, c) == ~InQuietHours(t, c) /\ ~IsWeekend(t, c)

\* The first of the next 48 hours that is active, snapped to the full hour.
Snap(t) == t - (t % Hour)
Lookahead == 1..48
NextActiveWindow(t, c) ==
    LET hours == {k \in Lookahead : Active(t + k * Hour, c)} IN
    IF hours = {} THEN t + Day ELSE Snap(t + Min(hours) * Hour)

-----------------------------------------------------------------------------
(* What the journal says *)

\* best_per_gen: the best accepted fitness of each generation, and the time of
\* the first record that reached it.
GensOf(h) == {h[i].gen : i \in DOMAIN h}
Best(h) == [g \in GensOf(h) |-> Max({h[i].fitness : i \in {j \in DOMAIN h : h[j].gen = g}})]
BestAt(h, g) ==
    h[Min({i \in DOMAIN h : h[i].gen = g /\ h[i].fitness = Best(h)[g]})].ts

\* One generation of the walk over the sorted generations.
NextGrowth(best, acc, g) ==
    IF best[g] > acc.best THEN [best |-> best[g], gen |-> g, plateau |-> 0]
    ELSE [acc EXCEPT !.plateau = @ + 1]
Walk(h) ==
    LET gens == SetToSortSeq(GensOf(h), <) IN
    FoldLeft(LAMBDA acc, g : NextGrowth(Best(h), acc, g),
             [best |-> Best(h)[Head(gens)], gen |-> Head(gens), plateau |-> 0],
             Tail(gens))

plateau_count(h) == IF h = <<>> THEN 0 ELSE Walk(h).plateau
last_improvement_age(h, t) == IF h = <<>> THEN NoAge ELSE t - BestAt(h, Walk(h).gen)

-----------------------------------------------------------------------------

\* The five branches of next_wake_at, in their order.
BacksOff(t, c, h, asked) ==
    ~Active(t, c) \/ (~asked /\ plateau_count(h) >= c.backoff)
Interval(t, c, h) ==
    LET age == last_improvement_age(h, t) IN
    IF age # NoAge /\ age < Day THEN 15
    ELSE IF age # NoAge /\ age < 7 * Day THEN 30 ELSE c.max
next_wake_at(t, c, h, asked) ==
    IF BacksOff(t, c, h, asked) THEN NextActiveWindow(t, c)
    ELSE IF asked THEN t + 5
    ELSE t + Interval(t, c, h)

BeatInit ==
    /\ config \in Configs
    /\ clock \in Starts
    /\ accepted = <<>>
    /\ generation = 0
    /\ pending \in BOOLEAN

\* A generation journals its accepted results; the loop sleeps until the wake
\* time.  (The caller's side, external to the scheduler.)
Heartbeat ==
    /\ generation < MaxGen
    /\ generation' = generation + 1
    /\ \E r \in Results :
        accepted' = accepted \o
            [i \in DOMAIN r |-> [gen |-> generation', fitness |-> r[i], ts |-> clock]]
    /\ clock' = next_wake_at(clock, config, accepted', pending)
    /\ UNCHANGED <<config, pending>>

-----------------------------------------------------------------------------
(* Properties *)

FullHours(a, b) == {k * Hour : k \in (a \div Hour + 1)..(b \div Hour)}
HasActiveHour(c) == \E t \in FullHours(0, 7 * Day) : Active(t, c)

\* The plateau is the number of generations, among those with an accepted
\* result, since the one that last beat all before it; that generation is
\* also the one whose age sets the interval.
Champions(h) ==
    {g \in GensOf(h) : \A k \in GensOf(h) : k < g => Best(h)[k] < Best(h)[g]}
PlateauIsTail ==
    accepted # <<>> =>
        LET last == Max(Champions(accepted)) IN
        /\ plateau_count(accepted) = Cardinality({g \in GensOf(accepted) : g > last})
        /\ last_improvement_age(accepted, clock) = clock - BestAt(accepted, last)
        /\ last_improvement_age(accepted, clock) > 0

\* next_wake_at neither spins nor oversleeps: the loop wakes later than now and
\* within two days, although a back-off is snapped to the full hour before it;
\* and a back-off for quiet hours or a weekend ends at the first active full hour
\* and sleeps through none.  (A window more than 48 hours ahead, as a weekend
\* behind the quiet hours of a Friday, is out of the lookahead: then within two
\* wakes.)  Of a plateau it only says that the loop wakes later, within two days.
OnTime ==
    /\ clock < clock' /\ clock' <= clock + 2 * Day
    /\ ~Active(clock, config) /\ HasActiveHour(config) =>
        /\ \A t \in FullHours(clock, clock' - 1) : ~Active(t, config)
        /\ Active(clock', config) \/ Active(NextActiveWindow(clock', config), config)
=============================================================================
