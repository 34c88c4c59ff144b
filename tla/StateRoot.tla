----------------------------- MODULE StateRoot ------------------------------
(***************************************************************************)
(* The programs that share the state root of the tuning loop: the drivers  *)
(* (LoopDriver), the loops that append to HISTORY.jsonl from processes of  *)
(* their own (LoopHistory), and the scheduler that reads the journal to    *)
(* say when the loop wakes (LoopScheduler).  LoopDriver appends in one     *)
(* step and the scheduler sees accepted records only, so the three are     *)
(* explored one at a time: the others stand still.                         *)
(***************************************************************************)
EXTENDS LoopDriver, LoopScheduler

CONSTANTS
    Parts,        \* which of "driver", "journal" and "heartbeat" run
    Call, Candidate, NoSource, RotateAt, MaxSecond   \* those of LoopHistory

VARIABLES
    part,         \* the program that runs
    writer, cand, source, fd, inode, live, gz, archive, second, together

journalVars == <<writer, cand, source, fd, inode, live, gz, archive, second, together>>
rootVars == <<vars, part, journalVars, heartbeatVars>>

Journal == INSTANCE LoopHistory WITH pc <- writer, now <- second, overlapped <- together

\* A journal is rotated once it holds something, the clock runs from 0, and no
\* loop goes by the name that stands for a missing source.
ASSUME JournalAssumption ==
    RotateAt \in Nat \ {0} /\ MaxSecond \in Nat /\ NoSource \notin Journal!Loops

NoJournal ==
    /\ writer = <<>> /\ cand = <<>> /\ source = <<>> /\ fd = <<>> /\ inode = <<>>
    /\ live = 0 /\ gz = <<>> /\ archive = <<>> /\ second = 0 /\ together = FALSE
NoBeat == config = <<>> /\ clock = 0 /\ accepted = <<>> /\ generation = 0 /\ pending = FALSE

RootInit ==
    /\ part \in Parts
    /\ Init
    /\ IF part = "journal" THEN Journal!Init ELSE NoJournal
    /\ IF part = "heartbeat" THEN BeatInit ELSE NoBeat

Drive == part = "driver" /\ Next /\ UNCHANGED <<part, journalVars, heartbeatVars>>
Write == part = "journal" /\ Journal!Next /\ UNCHANGED <<part, vars, heartbeatVars>>
Wake == part = "heartbeat" /\ Heartbeat /\ UNCHANGED <<part, vars, journalVars>>

RootSpec == RootInit /\ [][Drive \/ Write \/ Wake]_rootVars

-----------------------------------------------------------------------------
(* Properties of the instances *)

\* "the gz files retain full history for replay": what append_history wrote is in
\* HISTORY.jsonl or in a whole archive, in the middle of a rotation and after a
\* crash too; it takes both a rotation and overlapping calls to lose a record.
\* replay_from_history raises on an archive that is cut short: of calls one after
\* the other, only while one copies or when one died in its copy.  And no two
\* records of one candidate come from loops that must not write the same
\* candidate, for calls one after the other and until a rotation hides the earlier
\* records from the check.
JournalSound ==
    part = "journal" => Journal!HistoryKept /\ Journal!TornInCopy /\ Journal!SerialMutex

\* next_wake_at neither spins nor oversleeps: the loop wakes later than now and
\* within two days, and a back-off for quiet hours or a weekend ends at the first
\* active full hour, sleeping through none; the plateau and the age it goes by are
\* those of the generation that last beat all before it.
WakesInTime ==
    /\ [][part = "heartbeat" => OnTime]_rootVars
    /\ [](part = "heartbeat" => PlateauIsTail)
=============================================================================
