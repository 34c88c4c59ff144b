---------------------------- MODULE LoopHistory ----------------------------
(***************************************************************************)
(* HISTORY.jsonl, the journal of the tuning loop.  append_history checks   *)
(* the source mutex under a shared lock, appends under an exclusive lock   *)
(* taken on a second descriptor, and rotates a file that has grown too     *)
(* large without any lock: it streams the file into an archive and unlinks *)
(* the path.  Several loops call it in processes of their own.             *)
(*                                                                         *)
(* A call is named by the record it writes.  Files are inodes, so that a   *)
(* descriptor outlives the path it was opened by.                          *)
(***************************************************************************)
EXTENDS Naturals, Sequences, FiniteSets, SequencesExt

CONSTANTS
    Call,         \* calls of append_history, and the records they write
    Candidate,    \* candidate ids
    NoSource,     \* a record without a source field
    RotateAt,     \* rotate_bytes, in records
    MaxSecond,    \* bound: seconds on the wall clock
    Crashes       \* may a calling process die?

Loops == {"freqtrade_hyperopt", "okx_live", "okx_paper"}
Source == Loops \cup {NoSource}

VARIABLES
    pc,         \* where each call is
    cand,       \* candidate_id of its record
    source,     \* source of its record
    fd,         \* the inode it has open, 0 for none
    inode,      \* the contents of every file ever created at the path
    live,       \* the inode the path HISTORY.jsonl names, 0 for none
    gz,         \* the second that names the archive it writes
    archive,    \* HISTORY-<ts>.jsonl.gz by its second: [state, of, rows]
    now,        \* int(time.time())
    overlapped  \* history variable: two calls have run at the same time

vars == <<pc, cand, source, fd, inode, live, gz, archive, now, overlapped>>
identity == <<cand, source>>

Steps == {"idle", "check", "append", "write", "rotate", "copying", "copied",
          "done", "refused", "crashed", "torn"}
Running == {"check", "append", "write", "rotate", "copying", "copied"}
NoFile == 0
Seconds == 0..MaxSecond

\* An archive is cut short from its opening to its closing; two calls that write
\* the same one may leave any mixture of their streams.
Absent == [state |-> "none", of |-> NoFile, rows |-> <<>>]
Partial(i) == [state |-> "partial", of |-> i, rows |-> <<>>]
Mixed(i) == [state |-> "mixed", of |-> i, rows |-> <<>>]
Whole(i, rows) == [state |-> "whole", of |-> i, rows |-> rows]

-----------------------------------------------------------------------------
\* Mutated forms of the definitions below; no specification uses them.
CloseGz_early(c) ==
    /\ pc[c] = "copying"
    /\ archive' = [archive EXCEPT ![gz[c]] = Whole(fd[c], SubSeq(inode[fd[c]], 1, RotateAt - 1))]
    /\ fd' = [fd EXCEPT ![c] = NoFile]
    /\ pc' = [pc EXCEPT ![c] = "copied"]
    /\ UNCHANGED <<identity, inode, live, gz, now, overlapped>>
-----------------------------------------------------------------------------

\* _is_conflicting_source with _COMPATIBLE_SOURCES.
Compatible(a, b) ==
    \/ a = NoSource
    \/ a = b
    \/ {a, b} = {"okx_live", "okx_paper"}

\* The records the mutex check reads: the file it has open, not the archives.
Conflicts(c, file) ==
    \E e \in Range(file) : cand[e] = cand[c] /\ ~Compatible(source[e], source[c])

FileOf(i) == IF i = NoFile THEN <<>> ELSE inode[i]
Goto(c, s) == pc' = [pc EXCEPT ![c] = s]

Init ==
    /\ pc = [c \in Call |-> "idle"]
    /\ cand \in [Call -> Candidate]
    /\ source \in [Call -> Source]
    /\ fd = [c \in Call |-> NoFile]
    /\ inode = <<>>
    /\ live = NoFile
    /\ gz = [c \in Call |-> 0]
    /\ archive = [s \in Seconds |-> Absent]
    /\ now = 0
    /\ overlapped = FALSE

\* A record without a source skips the check; otherwise the path is opened
\* for reading.
Begin(c) ==
    /\ pc[c] = "idle"
    /\ overlapped' = (overlapped \/ \E d \in Call : pc[d] \in Running)
    /\ IF source[c] = NoSource \/ live = NoFile
       THEN Goto(c, "append") /\ UNCHANGED fd
       ELSE Goto(c, "check") /\ fd' = [fd EXCEPT ![c] = live]
    /\ UNCHANGED <<identity, inode, live, gz, archive, now>>

\* The scan under LOCK_SH; SourceMutexError leaves without writing.
CheckMutex(c) ==
    /\ pc[c] = "check"
    /\ Goto(c, IF Conflicts(c, inode[fd[c]]) THEN "refused" ELSE "append")
    /\ fd' = [fd EXCEPT ![c] = NoFile]
    /\ UNCHANGED <<identity, inode, live, gz, archive, now, overlapped>>

\* os.open(O_WRONLY | O_CREAT | O_APPEND).
OpenAppend(c) ==
    /\ pc[c] = "append"
    /\ IF live = NoFile
       THEN /\ inode' = Append(inode, <<>>)
            /\ live' = Len(inode) + 1
       ELSE UNCHANGED <<inode, live>>
    /\ fd' = [fd EXCEPT ![c] = live']
    /\ Goto(c, "write")
    /\ UNCHANGED <<identity, gz, archive, now, overlapped>>

\* The write and the fstat under LOCK_EX.
WriteLine(c) == inode' = [inode EXCEPT ![fd[c]] = Append(@, c)]
Write(c) ==
    /\ pc[c] = "write"
    /\ WriteLine(c)
    /\ fd' = [fd EXCEPT ![c] = NoFile]
    /\ Goto(c, IF Len(inode'[fd[c]]) >= RotateAt THEN "rotate" ELSE "done")
    /\ UNCHANGED <<identity, live, gz, archive, now, overlapped>>

\* The path is opened again and gzip.open truncates the archive of this second;
\* the OSError of a path already unlinked is swallowed.  A file takes longer than
\* a second to reach rotate_bytes (10 MB), so one that has reached it never meets
\* the archive of another file; a short one may, after a rotation by another call.
OpenGz(c) ==
    /\ pc[c] = "rotate"
    /\ IF live = NoFile
       THEN Goto(c, "done") /\ UNCHANGED <<fd, gz, archive>>
       ELSE /\ Len(inode[live]) >= RotateAt => archive[now].of \in {NoFile, live}
            /\ Goto(c, "copying")
            /\ fd' = [fd EXCEPT ![c] = live] /\ gz' = [gz EXCEPT ![c] = now]
            /\ archive' = [archive EXCEPT ![now] =
                 IF \E d \in Call : pc[d] = "copying" /\ gz[d] = now THEN Mixed(live) ELSE Partial(live)]
    /\ UNCHANGED <<identity, inode, live, now, overlapped>>

\* copyfileobj has come to the end of the file, whatever was appended since, and
\* both files are closed.
CloseGz(c) ==
    /\ pc[c] = "copying"
    /\ \E a \in {Whole(fd[c], inode[fd[c]])}
                \cup (IF archive[gz[c]] = Partial(fd[c]) THEN {} ELSE {Mixed(fd[c])}) :
         archive' = [archive EXCEPT ![gz[c]] = a]
    /\ fd' = [fd EXCEPT ![c] = NoFile]
    /\ Goto(c, "copied")
    /\ UNCHANGED <<identity, inode, live, gz, now, overlapped>>

\* path.unlink(), whatever file the path names by now.
Unlink(c) ==
    /\ pc[c] = "copied"
    /\ live' = NoFile
    /\ Goto(c, "done")
    /\ UNCHANGED <<identity, fd, inode, gz, archive, now, overlapped>>

Tick ==
    /\ now < MaxSecond
    /\ now' = now + 1
    /\ UNCHANGED <<pc, identity, fd, inode, live, gz, archive, overlapped>>

Crash(c) ==
    /\ Crashes
    /\ pc[c] \in Running
    /\ Goto(c, IF pc[c] = "copying" THEN "torn" ELSE "crashed")
    /\ fd' = [fd EXCEPT ![c] = NoFile]
    /\ UNCHANGED <<identity, inode, live, gz, archive, now, overlapped>>

Next ==
    \/ \E c \in Call :
        \/ Begin(c) \/ CheckMutex(c) \/ OpenAppend(c) \/ Write(c)
        \/ OpenGz(c) \/ CloseGz(c) \/ Unlink(c) \/ Crash(c)
    \/ Tick

Spec == Init /\ [][Next]_vars

-----------------------------------------------------------------------------
(* Properties *)

\* What the disk holds in readable form, in the archives and at the path.
OnDisk ==
    (UNION {Range(archive[s].rows) : s \in Seconds}) \cup Range(FileOf(live))

\* replay_from_history reads every archive, and raises EOFError (or BadGzipFile)
\* on one that is not whole.
ReplayRaises == \E s \in Seconds : archive[s].state \in {"partial", "mixed"}

\* The records whose line was written.
Written == {c \in Call : \E i \in DOMAIN inode : c \in Range(inode[i])}

\* A rotation has begun.
Rotated == \E s \in Seconds : archive[s].state # "none"

\* "HISTORY.jsonl is the source of truth", "the gz files retain full history":
\* a record that was written is in the file at the path or in a whole archive
\* from then on, in the middle of a rotation and after a crash too.
HistoryComplete == Written \subseteq OnDisk

\* It takes both a rotation and overlapping calls to lose a record: it holds
\* of calls one after the other, and of concurrent calls before any rotation.
HistoryKept == ~overlapped \/ ~Rotated => HistoryComplete

\* The replay of calls one after the other cannot be read only while one copies,
\* or when one died in its copy: no other step leaves an archive cut short.
TornInCopy ==
    ~overlapped /\ ReplayRaises => \E c \in Call : pc[c] \in {"copying", "torn"}

\* Source mutex: no two records of one candidate come from loops that must not
\* write the same candidate, whatever order the records were written in.
SourceMutex ==
    \A c, d \in Written : cand[c] = cand[d] =>
        \/ NoSource \in {source[c], source[d]}
        \/ Compatible(source[c], source[d])

\* It holds of calls one after the other, until a rotation hides the earlier
\* records from the check.
SerialMutex == ~overlapped /\ ~Rotated => SourceMutex
=============================================================================
