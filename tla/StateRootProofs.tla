-------------------------- MODULE StateRootProofs ---------------------------
(***************************************************************************)
(* Proofs about the tuning loop: the review of a candidate is monotone;    *)
(* the Pareto front and the driver that keeps it on disk, for every set of *)
(* objectives, points and drivers, with crashes and any number of drivers  *)
(* at once; and the journal, for every number of calls, candidates and     *)
(* seconds, with crashes in every step: what it takes to lose a record, or *)
(* to let two loops write the same candidate.                              *)
(***************************************************************************)
EXTENDS StateRoot, WellFoundedInduction, TLAPS

-----------------------------------------------------------------------------
(* The review: for every scale of scores, calibration and thresholds *)

\* More doubt, from the heuristics, the worker or the LLM checker, never gives
\* a better verdict.
THEOREM MoreDoubtNeverHelps == DoubtNeverHelps
  <1> SUFFICES ASSUME NEW d \in {"accepted", "rejected", "error"},
                      NEW e \in {"accepted", "rejected", "error"},
                      NEW f \in SUBSET Flags, NEW g \in SUBSET Flags,
                      NEW a \in Answers \cup {Failure},
                      NEW b \in Answers \cup {Failure},
                      d = "accepted" => e = "accepted", g \subseteq f, NoBetter(a, b)
               PROVE  Rank(evaluate_candidate(d, f, a))
                        <= Rank(evaluate_candidate(e, g, b))
    BY DEF DoubtNeverHelps
  <1> DEFINE m == check_candidate(d, f)  n == check_candidate(e, g)
             v == verify(a)  w == verify(b)
  <1>1. /\ m = "rejected" \/ n # "rejected"
        /\ m = "promising" => n = "promising"
        /\ m \in {"rejected", "suspicious", "promising"}
    BY DEF check_candidate
  <1>2. v.accept => w.accept /\ v.score = w.score
    BY MakerCheckerAssumption DEF verify, NoBetter
  <1>3. resolve(m, v, NoMakerScore) = "rejected"
        \/ Rank(resolve(m, v, NoMakerScore)) <= Rank(resolve(n, w, NoMakerScore))
    <2> HIDE DEF m, n, v, w
    <2>1. SUFFICES ASSUME m # "rejected", v.accept
                   PROVE  Rank(resolve(m, v, NoMakerScore))
                            <= Rank(resolve(n, w, NoMakerScore))
      BY DEF resolve
    <2>2. n # "rejected" /\ w.accept /\ v.score = w.score
      BY <1>1, <1>2, <2>1
    <2>3. QED
      BY <1>1, <2>1, <2>2 DEF resolve, Rank
  <1>4. QED
    BY <1>3 DEF evaluate_candidate, Rank

-----------------------------------------------------------------------------
(* The front and the driver *)

IsPoint(p) == p.metrics \in Metrics

-----------------------------------------------------------------------------
(* Dominance is a strict partial order *)

LEMMA ObjectiveType ==
  ASSUME NEW p, IsPoint(p)
  PROVE  objectives(p) \in [Objective -> Int]
  BY ParetoAssumption DEF IsPoint, Metrics, objectives

LEMMA DominatesIrreflexive ==
  ASSUME NEW p, IsPoint(p)
  PROVE  ~dominates(p, p)
  BY ObjectiveType DEF dominates

LEMMA DominatesTransitive ==
  ASSUME NEW a, NEW b, NEW c, IsPoint(a), IsPoint(b), IsPoint(c),
         dominates(a, b), dominates(b, c)
  PROVE  dominates(a, c)
  <1> DEFINE x == objectives(a)  y == objectives(b)  z == objectives(c)
  <1>1. x \in [Objective -> Int] /\ y \in [Objective -> Int] /\ z \in [Objective -> Int]
    BY ObjectiveType
  <1>2. /\ \A o \in Objective : x[o] >= y[o] /\ y[o] >= z[o]
        /\ \E o \in Objective : x[o] > y[o]
    BY DEF dominates
  <1> HIDE DEF x, y, z
  <1>3. /\ \A o \in Objective : x[o] >= z[o]
        /\ \E o \in Objective : x[o] > z[o]
    BY <1>1, <1>2
  <1>4. QED
    BY <1>3 DEF dominates, x, z

-----------------------------------------------------------------------------
(* What ParetoSet.add preserves and promises *)

LEMMA AddKeepsFront ==
  ASSUME NEW f, NEW p, IsPoint(p), Antichain(f), OnePerSha(f)
  PROVE  Antichain(add(f, p)) /\ OnePerSha(add(f, p))
  BY DominatesIrreflexive
     DEF add, moves, Known, Admitted, Survivors, Antichain, OnePerSha

\* ParetoSet.add loses nothing: the front it leaves covers the point it was
\* given, unless that experiment is on the front already, and whatever the
\* front it found covered.
THEOREM AddCovers ==
  ASSUME NEW f, NEW p, IsPoint(p), \A q \in f : IsPoint(q)
  PROVE  /\ Known(f, p) \/ Covers(add(f, p), p)
         /\ \A q : IsPoint(q) /\ Covers(f, q) => Covers(add(f, p), q)
  <1>1. Known(f, p) \/ Covers(add(f, p), p)
    BY DEF add, moves, Known, Admitted, Survivors, Covers
  <1>2. ASSUME NEW q, IsPoint(q), NEW m \in f, m = q \/ dominates(m, q)
        PROVE  Covers(add(f, p), q)
    <2>1. CASE m \in add(f, p)
      BY <1>2, <2>1 DEF Covers
    <2>2. CASE m \notin add(f, p)
      <3>1. dominates(p, m) /\ p \in add(f, p)
        BY <2>2 DEF add, Survivors
      <3>2. dominates(p, q)
        BY <1>2, <3>1, DominatesTransitive
      <3>3. QED
        BY <3>1, <3>2 DEF Covers
    <2>3. QED
      BY <2>1, <2>2
  <1>3. QED
    BY <1>1, <1>2 DEF Covers

-----------------------------------------------------------------------------
(* The driver *)

\* Every front, in memory or on disk, is a front backed by the journal and by
\* its snapshots; a result between two statements of the loop is journalled.
Backed(f) == Shas(f) \subseteq snapshots /\ f \subseteq Accepted
DriverInv ==
    /\ TypeOK
    /\ FrontIsFront /\ Backed(pareto)
    /\ \A d \in Driver :
        /\ Antichain(front[d]) /\ OnePerSha(front[d]) /\ Backed(front[d])
        /\ \A r \in current[d] : r.decision = "accepted" => r.point \in Accepted

LEMMA PointIsPoint == \A p \in Point : IsPoint(p)
  BY DriverAssumption DEF IsPoint

LEMMA AddType ==
  ASSUME NEW f \in SUBSET Point, NEW p \in Point
  PROVE  add(f, p) \in SUBSET Point
  BY DEF add, Survivors

LEMMA AcceptedGrows ==
  ASSUME TypeOK, NEW r \in Result, history' = Append(history, r)
  PROVE  /\ Accepted \subseteq Accepted'
         /\ r.decision = "accepted" => r.point \in Accepted'
         /\ history' \in Seq(Result)
  <1>1. history \in Seq(Result) /\ history' \in Seq(Result)
    BY DEF TypeOK
  <1>2. /\ Len(history') = Len(history) + 1
        /\ \A i \in 1..Len(history) : history'[i] = history[i]
        /\ history'[Len(history) + 1] = r
    BY <1>1
  <1>3. Range(history) \subseteq Range(history') /\ r \in Range(history')
    BY <1>1, <1>2 DEF Range
  <1>4. QED
    BY <1>1, <1>3 DEF Accepted

LEMMA DriverTypeStep == TypeOK /\ [Next]_vars => TypeOK'
  <1> SUFFICES ASSUME TypeOK, [Next]_vars PROVE TypeOK'
    OBVIOUS
  <1> USE DEF TypeOK, Goto, Steps, Running
  <1>1. ASSUME NEW d \in Driver, Load(d) PROVE TypeOK'
    BY <1>1 DEF Load, LoadFront, disk
  <1>2. ASSUME NEW d \in Driver, Record(d) PROVE TypeOK'
    <2>1. PICK r \in Result : /\ history' = Append(history, r)
                              /\ current' = [current EXCEPT ![d] = {r}]
                              /\ todo' = [todo EXCEPT ![d] = @ \ {r.point}]
      BY <1>2 DEF Record
    <2>2. history' \in Seq(Result)
      BY <2>1, AcceptedGrows
    <2>3. QED
      BY <1>2, <2>1, <2>2 DEF Record
  <1>3. ASSUME NEW d \in Driver, Apply(d) PROVE TypeOK'
    <2>1. PICK r \in current[d] :
            /\ front' = [front EXCEPT ![d] =
                    IF r.decision = "accepted" THEN add(@, r.point) ELSE @]
            /\ issues' = issues \cup IssueOf(r)
            /\ snapshots' = snapshots \cup SnapshotOf(d, r)
            /\ rejected' = IF r.decision = "accepted" THEN rejected
                           ELSE rejected \cup {r.point.sha}
      BY <1>3 DEF Apply
    <2>2. r \in Result /\ r.point \in Point
      BY <2>1 DEF Result
    <2>3. front' \in [Driver -> SUBSET Point]
      BY <2>1, <2>2, AddType
    <2>4. /\ issues' \subseteq Shas(Point) /\ snapshots' \subseteq Shas(Point)
          /\ rejected' \subseteq Shas(Point)
      BY <2>1, <2>2 DEF IssueOf, SnapshotOf, Shas
    <2>5. QED
      BY <1>3, <2>3, <2>4 DEF Apply
  <1>4. ASSUME NEW d \in Driver, Save(d) PROVE TypeOK'
    BY <1>4 DEF Save, SaveFront
  <1>5. ASSUME NEW d \in Driver, WriteStateMd(d) \/ Crash(d) PROVE TypeOK'
    BY <1>5 DEF WriteStateMd, SecondWrite, Crash, disk
  <1>6. CASE UNCHANGED vars
    BY <1>6 DEF vars
  <1>7. QED
    BY <1>1, <1>2, <1>3, <1>4, <1>5, <1>6 DEF Next

LEMMA DriverInvStep == DriverInv /\ [Next]_vars => DriverInv'
  <1> SUFFICES ASSUME DriverInv, [Next]_vars PROVE DriverInv'
    OBVIOUS
  <1>0. TypeOK /\ TypeOK'
    BY DriverTypeStep DEF DriverInv
  <1>1. ASSUME NEW d \in Driver, Load(d) PROVE DriverInv'
    BY <1>0, <1>1 DEF DriverInv, TypeOK, Load, LoadFront, disk, FrontIsFront, Backed, Accepted
  <1>2. ASSUME NEW d \in Driver, Record(d) PROVE DriverInv'
    <2>1. PICK r \in Result : /\ history' = Append(history, r)
                              /\ current' = [current EXCEPT ![d] = {r}]
      BY <1>2 DEF Record
    <2>2. Accepted \subseteq Accepted' /\ (r.decision = "accepted" => r.point \in Accepted')
      BY <1>0, <2>1, AcceptedGrows
    <2>3. QED
      BY <1>0, <1>2, <2>1, <2>2 DEF DriverInv, TypeOK, Record, FrontIsFront, Backed
  <1>3. ASSUME NEW d \in Driver, Apply(d) PROVE DriverInv'
    <2>1. PICK r \in current[d] :
            /\ front' = [front EXCEPT ![d] =
                    IF r.decision = "accepted" THEN add(@, r.point) ELSE @]
            /\ snapshots' = snapshots \cup SnapshotOf(d, r)
      BY <1>3 DEF Apply
    <2>2. /\ r \in Result /\ r.point \in Point /\ IsPoint(r.point)
          /\ r.decision = "accepted" => r.point \in Accepted
      BY <1>0, <2>1, PointIsPoint DEF Result, TypeOK, DriverInv
    <2>3. /\ UNCHANGED <<history, pareto>> /\ Accepted' = Accepted
          /\ snapshots \subseteq snapshots'
          /\ current' = [current EXCEPT ![d] = {}]
      BY <1>3, <2>1 DEF Apply, Accepted
    <2>4. ASSUME NEW e \in Driver
          PROVE  Antichain(front'[e]) /\ OnePerSha(front'[e]) /\ Backed(front[e])'
      <3>1. CASE e # d \/ r.decision # "accepted"
        BY <1>0, <2>1, <2>3, <3>1 DEF DriverInv, TypeOK, Backed
      <3>2. CASE e = d /\ r.decision = "accepted"
        <4>1. front'[e] = add(front[e], r.point)
          BY <1>0, <2>1, <3>2 DEF TypeOK
        <4>2. Antichain(front'[e]) /\ OnePerSha(front'[e])
          BY <2>2, <4>1, AddKeepsFront DEF DriverInv
        <4>3. Backed(front[e])'
          BY <2>1, <2>2, <2>3, <3>2, <4>1
             DEF DriverInv, Backed, add, Survivors, SnapshotOf, Shas
        <4>4. QED
          BY <4>2, <4>3
      <3>3. QED
        BY <3>1, <3>2
    <2>5. FrontIsFront' /\ Backed(pareto)'
      BY <2>3 DEF DriverInv, FrontIsFront, Backed
    <2>6. QED
      BY <1>0, <2>3, <2>4, <2>5 DEF DriverInv, TypeOK
  <1>4. ASSUME NEW d \in Driver, Save(d) PROVE DriverInv'
    BY <1>0, <1>4 DEF DriverInv, TypeOK, Save, SaveFront, FrontIsFront, Backed, Accepted
  <1>5. ASSUME (\E d \in Driver : WriteStateMd(d) \/ Crash(d)) \/ UNCHANGED vars
        PROVE  DriverInv'
    BY <1>0, <1>5
       DEF DriverInv, WriteStateMd, Crash, disk, vars, FrontIsFront, Backed, Accepted
  <1>6. QED
    BY <1>1, <1>2, <1>3, <1>4, <1>5 DEF Next

LEMMA DriverInvAlways == Spec => []DriverInv
  <1>1. Init => DriverInv
    <2>1. ASSUME Init PROVE TypeOK
      <3>1. overlapped \in BOOLEAN /\ stateMd \in {"none", "json", "markdown"}
        BY <2>1 DEF Init
      <3>2. history \in Seq(Result)
        BY <2>1 DEF Init
      <3>3. QED
        BY <2>1, <3>1, <3>2 DEF Init, TypeOK, Steps
    <2>2. Init => FrontIsFront /\ Backed(pareto)
      BY DEF Init, FrontIsFront, Antichain, OnePerSha, Backed, Shas
    <2>3. ASSUME Init, NEW d \in Driver
          PROVE  /\ Antichain(front[d]) /\ OnePerSha(front[d]) /\ Backed(front[d])
                 /\ current[d] = {}
      BY <2>3 DEF Init, Antichain, OnePerSha, Backed, Shas
    <2>4. QED
      BY <2>1, <2>2, <2>3 DEF DriverInv
  <1>2. QED
    BY <1>1, DriverInvStep, PTL DEF Spec

\* PARETO.json never holds a dominated point or an experiment twice, however
\* many drivers share the state root and wherever one of them dies.
THEOREM FrontOnDisk == Spec => []FrontIsFront
  <1>1. DriverInv => FrontIsFront
    BY DEF DriverInv
  <1>2. QED
    BY <1>1, DriverInvAlways, PTL

\* Every point of PARETO.json is accepted in HISTORY.jsonl and has a snapshot.
THEOREM FrontBacked == Spec => []FrontIsBacked
  <1>1. DriverInv => FrontIsBacked
    BY DEF DriverInv, FrontIsBacked, Backed
  <1>2. QED
    BY <1>1, DriverInvAlways, PTL

-----------------------------------------------------------------------------
(* A driver alone on its state root *)

\* Until two drivers have overlapped at most one is running, and its front in
\* memory covers the one on disk.
SerialInv ==
    ~overlapped => \A d \in Driver : pc[d] \in Running =>
        /\ \A e \in Driver : pc[e] \in Running => e = d
        /\ \A p \in pareto : Covers(front[d], p)

LEMMA SerialInvStep == DriverInv /\ SerialInv /\ [Next]_vars => SerialInv'
  <1> SUFFICES ASSUME DriverInv, SerialInv, [Next]_vars, ~overlapped' PROVE SerialInv'
    BY DEF SerialInv
  <1>0. /\ TypeOK /\ ~overlapped
        /\ pareto \subseteq Point /\ \A e \in Driver : front[e] \subseteq Point
    BY DEF DriverInv, TypeOK, Next, Load, Record, Apply, Save, WriteStateMd, Crash, vars
  <1>1. ASSUME NEW d \in Driver, Load(d) PROVE SerialInv'
    BY <1>0, <1>1 DEF SerialInv, TypeOK, Load, LoadFront, Goto, Covers, disk, Running
  <1>2. ASSUME NEW d \in Driver, Record(d) PROVE SerialInv'
    BY <1>0, <1>2 DEF SerialInv, TypeOK, Record, Goto, Running
  <1>3. ASSUME NEW d \in Driver, Apply(d) PROVE SerialInv'
    <2>1. PICK r \in current[d] : front' = [front EXCEPT ![d] =
                    IF r.decision = "accepted" THEN add(@, r.point) ELSE @]
      BY <1>3 DEF Apply
    <2>2. IsPoint(r.point) /\ \A q \in front[d] \cup pareto : IsPoint(q)
      BY <1>0, <2>1, PointIsPoint DEF TypeOK, Result
    <2>3. \A p \in pareto : Covers(front[d], p) => Covers(front'[d], p)
      BY <1>0, <2>1, <2>2, AddCovers DEF TypeOK
    <2>4. /\ pc[d] = "apply" /\ pc' = [pc EXCEPT ![d] = "loop"] /\ pareto' = pareto
      BY <1>3 DEF Apply, Goto
    <2>5. QED
      BY <1>0, <2>1, <2>3, <2>4 DEF SerialInv, TypeOK, Running
  <1>4. ASSUME NEW d \in Driver, Save(d) PROVE SerialInv'
    BY <1>0, <1>4 DEF SerialInv, TypeOK, Save, SaveFront, Goto, Covers, Running
  <1>5. ASSUME NEW d \in Driver, WriteStateMd(d) \/ Crash(d) PROVE SerialInv'
    BY <1>0, <1>5 DEF SerialInv, TypeOK, WriteStateMd, Crash, Goto, disk, Running
  <1>6. CASE UNCHANGED vars
    BY <1>0, <1>6 DEF SerialInv, vars
  <1>7. QED
    BY <1>1, <1>2, <1>3, <1>4, <1>5, <1>6 DEF Next

LEMMA SerialInvSafe ==
  ASSUME DriverInv, SerialInv, [Next]_vars, ~overlapped
  PROVE  \A p \in pareto : Covers(pareto', p)
  <1>1. CASE pareto' = pareto
    BY <1>1 DEF Covers
  <1>2. ASSUME NEW d \in Driver, Save(d) PROVE \A p \in pareto : Covers(pareto', p)
    BY <1>2 DEF SerialInv, Save, SaveFront, Running
  <1>3. QED
    BY <1>1, <1>2 DEF Next, Load, Record, Apply, WriteStateMd, Crash, disk, vars

\* A driver alone on its state root never makes PARETO.json worse: whatever it
\* replaces, the front it saves has a point at least as good.
THEOREM SerialNeverWorse == Spec => NeverWorse
  <1>1. Init => SerialInv
    BY DEF Init, SerialInv, Running
  <1>2. DriverInv /\ SerialInv /\ [Next]_vars
            => [~overlapped => \A p \in pareto : Covers(pareto', p)]_vars
    BY SerialInvSafe
  <1>3. QED
    BY <1>1, <1>2, SerialInvStep, DriverInvAlways, PTL DEF Spec, NeverWorse

-----------------------------------------------------------------------------
(* What a generation leaves behind *)

\* A driver has at most one result in hand; a verdict for a human that has no
\* issue yet is in the hand of a driver about to file it, or that died; JSON
\* in STATE.md is a driver's between its two writes, or one's that died.
LeftInv ==
    /\ \A d \in Driver : \A r, s \in current[d] : r = s
    /\ \A r \in Range(history) : r.human =>
        \/ r.point.sha \in issues
        \/ \E d \in Driver : r \in current[d] /\ pc[d] \in {"apply", "crashed"}
    /\ stateMd = "json" => \E d \in Driver : pc[d] \in {"state_md", "crashed"}

LEMMA LeftInvStep == TypeOK /\ LeftInv /\ [Next]_vars => LeftInv'
  <1> SUFFICES ASSUME TypeOK, LeftInv, [Next]_vars PROVE LeftInv'
    OBVIOUS
  <1> USE DEF TypeOK, LeftInv, Goto
  <1>1. ASSUME NEW d \in Driver, Load(d) PROVE LeftInv'
    BY <1>1 DEF Load, disk
  <1>2. ASSUME NEW d \in Driver, Record(d) PROVE LeftInv'
    <2>1. PICK r \in Result : /\ history' = Append(history, r)
                              /\ current' = [current EXCEPT ![d] = {r}]
      BY <1>2 DEF Record
    <2>2. Range(history') \subseteq Range(history) \cup {r}
      BY <2>1 DEF Range
    <2>3. /\ pc[d] = "loop" /\ pc' = [pc EXCEPT ![d] = "apply"]
          /\ UNCHANGED <<issues, stateMd>>
      BY <1>2 DEF Record
    <2>4. /\ pc'[d] = "apply" /\ current'[d] = {r}
          /\ \A e \in Driver \ {d} : pc'[e] = pc[e] /\ current'[e] = current[e]
      BY <2>1, <2>3
    <2>5. ASSUME NEW h \in Range(history'), h.human
          PROVE  \/ h.point.sha \in issues'
                 \/ \E e \in Driver : h \in current'[e] /\ pc'[e] \in {"apply", "crashed"}
      <3>1. CASE h = r
        BY <2>4, <3>1
      <3>2. CASE h \in Range(history)
        <4>1. \/ h.point.sha \in issues
              \/ \E e \in Driver : h \in current[e] /\ pc[e] \in {"apply", "crashed"}
          BY <2>5, <3>2
        <4>2. QED
          BY <2>3, <2>4, <4>1
      <3>3. QED
        BY <2>2, <3>1, <3>2
    <2>6. \A e \in Driver : \A x, y \in current'[e] : x = y
      BY <2>4
    <2>7. stateMd' = "json" => \E e \in Driver : pc'[e] \in {"state_md", "crashed"}
      BY <2>3, <2>4
    <2>8. QED
      BY <2>5, <2>6, <2>7
  <1>3. ASSUME NEW d \in Driver, Apply(d) PROVE LeftInv'
    <2>1. PICK r \in current[d] : issues' = issues \cup IssueOf(r)
      BY <1>3 DEF Apply
    <2>2. r.human => r.point.sha \in issues'
      BY <2>1 DEF IssueOf
    <2>3. QED
      BY <1>3, <2>1, <2>2 DEF Apply
  <1>4. ASSUME NEW d \in Driver, Save(d) \/ WriteStateMd(d) \/ Crash(d) PROVE LeftInv'
    BY <1>4 DEF Save, WriteStateMd, SecondWrite, Crash, disk, Running
  <1>5. CASE UNCHANGED vars
    BY <1>5 DEF vars
  <1>6. QED
    BY <1>1, <1>2, <1>3, <1>4, <1>5 DEF Next

LEMMA LeftInvAlways == Spec => []LeftInv
  <1>1. Init => LeftInv
    BY DEF Init, LeftInv, Range
  <1>2. DriverInv => TypeOK
    BY DEF DriverInv
  <1>3. QED
    BY <1>1, <1>2, LeftInvStep, DriverInvAlways, PTL DEF Spec

\* Between generations every verdict for a human has its issue, although the
\* journal is written first and several drivers run at once.
THEOREM HumanIsTold == Spec => []Escalated
  <1>1. LeftInv => Escalated
    BY DEF LeftInv, Escalated, Quiet
  <1>2. QED
    BY <1>1, LeftInvAlways, PTL

\* Between generations STATE.md never holds the JSON of the first write.
THEOREM StateMdIsMarkdown == Spec => []StateMdReadable
  <1>1. LeftInv => StateMdReadable
    BY DEF LeftInv, StateMdReadable, Quiet
  <1>2. QED
    BY <1>1, LeftInvAlways, PTL


-----------------------------------------------------------------------------
(* The replay of the journal *)

\* A set of natural numbers that is not empty has a least member.
LEMMA LeastMember ==
  ASSUME NEW S \in SUBSET Nat, S # {}
  PROVE  \E x \in S : \A y \in S : x <= y
  <1> DEFINE Less == {ss \in Nat \X Nat : ss[1] < ss[2]}
  <1>1. OpToRel(<, Nat) = Less
    BY DEF OpToRel
  <1>2. PICK x \in S : \A y \in S : <<y, x>> \notin Less
    <2>1. \E x \in S : \A y \in S : <<y, x>> \notin OpToRel(<, Nat)
      BY NatLessThanWellFounded, WFMin
    <2>2. QED
      BY <1>1, <2>1
  <1>3. ASSUME NEW y \in S PROVE x <= y
    <2>1. y \in Nat /\ x \in Nat /\ <<y, x>> \in Nat \X Nat
      OBVIOUS
    <2>2. ~(<<y, x>>[1] < <<y, x>>[2])
      BY <1>2, <2>1
    <2>3. QED
      BY <2>1, <2>2
  <1>4. QED
    BY <1>3

\* g[i] is the front after the first i of n records.
Replays(h, n, g) == g = [i \in 0..n |-> IF i = 0 THEN {} ELSE Added(g[i - 1], h[i])]

LEMMA ReplayValues ==
  ASSUME NEW h, NEW n \in Nat, NEW g, Replays(h, n, g)
  PROVE  g[0] = {} /\ \A i \in 1..n : g[i] = Added(g[i - 1], h[i])
  <1> DEFINE G(i) == IF i = 0 THEN {} ELSE Added(g[i - 1], h[i])
  <1>1. g = [i \in 0..n |-> G(i)]
    BY DEF Replays
  <1> HIDE DEF G
  <1>2. \A i \in 0..n : g[i] = G(i)
    BY <1>1
  <1>3. G(0) = {} /\ \A i \in 1..n : G(i) = Added(g[i - 1], h[i])
    BY DEF G
  <1>4. QED
    BY <1>2, <1>3

LEMMA ReplayExtends ==
  ASSUME NEW h, NEW n \in Nat, NEW g, Replays(h, n, g)
  PROVE  \E k : Replays(h, n + 1, k)
  <1> DEFINE x == Added(g[n], h[n + 1])
             k == [i \in 0..(n + 1) |-> IF i = n + 1 THEN x ELSE g[i]]
             v(i) == IF i = 0 THEN {} ELSE Added(k[i - 1], h[i])
  <1>0. g[0] = {} /\ \A i \in 1..n : g[i] = Added(g[i - 1], h[i])
    BY ReplayValues
  <1>1. k[n + 1] = x /\ \A i \in 0..n : k[i] = g[i]
    OBVIOUS
  <1>2. ASSUME NEW i \in 0..(n + 1) PROVE k[i] = v(i)
    <2>1. CASE i = 0
      BY <1>0, <1>1, <2>1
    <2>2. CASE i = n + 1
      <3>1. i # 0 /\ i - 1 = n /\ k[n] = g[n]
        BY <1>1, <2>2
      <3>2. QED
        BY <1>1, <2>2, <3>1
    <2>3. CASE i \in 1..n
      <3>1. k[i] = g[i] /\ k[i - 1] = g[i - 1] /\ i # 0
        BY <1>1, <2>3
      <3>2. QED
        BY <1>0, <2>3, <3>1
    <2>4. QED
      BY <2>1, <2>2, <2>3
  <1>3. k = [i \in 0..(n + 1) |-> k[i]]
    OBVIOUS
  <1> HIDE DEF k
  <1>4. k = [i \in 0..(n + 1) |-> v(i)]
    BY <1>2, <1>3
  <1>5. QED
    BY <1>4 DEF Replays

LEMMA ReplayExists ==
  ASSUME NEW h, NEW n \in Nat
  PROVE  \E g : Replays(h, n, g)
  <1> DEFINE bad == {m \in Nat : ~\E g : Replays(h, m, g)}
  <1>1. SUFFICES ASSUME bad # {} PROVE FALSE
    OBVIOUS
  <1>2. PICK m \in bad : \A y \in bad : m <= y
    BY <1>1, LeastMember
  <1>3. 0 \notin bad
    <2> DEFINE g == [i \in 0..0 |-> {}]
    <2>1. g = [i \in 0..0 |-> IF i = 0 THEN {} ELSE Added(g[i - 1], h[i])]
      OBVIOUS
    <2>2. QED
      BY <2>1 DEF Replays
  <1>4. m \in Nat /\ m # 0 /\ m - 1 \in Nat /\ m - 1 \notin bad
    BY <1>2, <1>3
  <1>5. PICK g : Replays(h, m - 1, g)
    BY <1>4
  <1>6. \E k : Replays(h, (m - 1) + 1, k)
    BY <1>4, <1>5, ReplayExtends
  <1>7. QED
    BY <1>2, <1>4, <1>6

LEMMA ReplayUnique ==
  ASSUME NEW h, NEW k, NEW n \in Nat, NEW m \in Nat, NEW a, NEW b, Replays(h, n, a), Replays(k, m, b),
         n <= m, \A i \in 1..n : h[i] = k[i]
  PROVE  \A i \in 0..n : a[i] = b[i]
  <1> DEFINE bad == {i \in 0..n : a[i] # b[i]}
  <1>1. SUFFICES ASSUME bad # {} PROVE FALSE
    OBVIOUS
  <1>2. PICK i \in bad : \A y \in bad : i <= y
    <2>1. bad \in SUBSET Nat
      OBVIOUS
    <2> HIDE DEF bad
    <2>2. QED
      BY <1>1, <2>1, LeastMember
  <1>3. /\ a[0] = {} /\ \A j \in 1..n : a[j] = Added(a[j - 1], h[j])
        /\ b[0] = {} /\ \A j \in 1..m : b[j] = Added(b[j - 1], k[j])
    BY ReplayValues
  <1>4. i \in 1..n /\ i \in 1..m /\ i - 1 \in 0..n
    <2>1. i \in 0..n /\ a[i] # b[i]
      OBVIOUS
    <2>2. i # 0
      BY <1>3, <2>1
    <2>3. QED
      BY <2>1, <2>2
  <1>5. a[i - 1] = b[i - 1]
    BY <1>2, <1>4
  <1>6. QED
    BY <1>2, <1>3, <1>4, <1>5

LEMMA RebuiltIs ==
  ASSUME NEW h \in Seq(Result)
  PROVE  \E g : Replays(h, Len(h), g) /\ Rebuilt(h) = g[Len(h)]
  <1> DEFINE g == CHOOSE g : Replays(h, Len(h), g)
  <1>1. Replays(h, Len(h), g)
    BY ReplayExists
  <1>2. Rebuilt(h) = g[Len(h)]
    BY DEF Rebuilt, Replays
  <1>3. QED
    BY <1>1, <1>2

\* A record more is one more offer to the front.
LEMMA RebuiltGrows ==
  ASSUME NEW h \in Seq(Result), NEW r \in Result
  PROVE  Rebuilt(Append(h, r)) = Added(Rebuilt(h), r)
  <1> DEFINE k == Append(h, r)
             n == Len(h)
  <1>1. /\ n \in Nat /\ k \in Seq(Result) /\ Len(k) = n + 1 /\ k[n + 1] = r
        /\ \A i \in 1..n : h[i] = k[i]
    OBVIOUS
  <1>2. PICK a : Replays(h, n, a) /\ Rebuilt(h) = a[n]
    BY RebuiltIs
  <1>3. PICK b : Replays(k, Len(k), b) /\ Rebuilt(k) = b[Len(k)]
    BY <1>1, RebuiltIs
  <1> HIDE DEF k, n
  <1>4. Replays(k, n + 1, b) /\ Rebuilt(k) = b[n + 1] /\ n + 1 \in Nat /\ n <= n + 1
    BY <1>1, <1>3
  <1>5. \A i \in 0..n : a[i] = b[i]
    BY <1>1, <1>2, <1>4, ReplayUnique
  <1>6. b[n + 1] = Added(b[n], k[n + 1])
    <2>1. \A i \in 1..(n + 1) : b[i] = Added(b[i - 1], k[i])
      BY <1>4, ReplayValues
    <2>2. n + 1 \in 1..(n + 1) /\ (n + 1) - 1 = n
      BY <1>1
    <2>3. QED
      BY <2>1, <2>2
  <1>7. QED
    BY <1>1, <1>2, <1>4, <1>5, <1>6 DEF k

LEMMA RebuiltEmpty == Rebuilt(<<>>) = {}
  <1>1. <<>> \in Seq(Result) /\ Len(<<>>) = 0
    OBVIOUS
  <1>2. PICK g : Replays(<<>>, 0, g) /\ Rebuilt(<<>>) = g[0]
    BY <1>1, RebuiltIs
  <1>3. QED
    BY <1>2, ReplayValues

\* What a front holds once every record but those of S was offered to it: each
\* accepted point, unless another outcome of its experiment came first.
HasAll(f, S) == \A p \in Accepted \ S : Repeated(p) \/ Covers(f, p)

\* Between the steps of a driver alone its front is the one the journal gives,
\* but for the record in its hand; between generations that front is on disk.
FollowInv ==
    ~overlapped /\ (\A d \in Driver : pc[d] # "crashed") =>
        /\ \A d \in Driver : pc[d] = "loop" => front[d] = Rebuilt(history) /\ HasAll(front[d], {})
        /\ \A d \in Driver : pc[d] = "apply" =>
            \A r \in current[d] : /\ Added(front[d], r) = Rebuilt(history)
                                  /\ HasAll(front[d], IF r.decision = "accepted" THEN {r.point} ELSE {})
        /\ (\A d \in Driver : pc[d] \notin {"loop", "apply"}) => pareto = Rebuilt(history) /\ HasAll(pareto, {})

\* A record more: all is there but its point.
LEMMA HasAllGrows ==
  ASSUME TypeOK, NEW r \in Result, history' = Append(history, r), NEW f, HasAll(f, {})
  PROVE  HasAll(f, IF r.decision = "accepted" THEN {r.point} ELSE {})'
  <1>1. Accepted' = Accepted \cup (IF r.decision = "accepted" THEN {r.point} ELSE {})
    <2>1. Range(history') = Range(history) \cup {r}
      <3>1. history \in Seq(Result) /\ Len(history) \in Nat
        BY DEF TypeOK
      <3>2. /\ DOMAIN history' = 1..(Len(history) + 1) /\ DOMAIN history = 1..Len(history)
            /\ history'[Len(history) + 1] = r /\ \A i \in 1..Len(history) : history'[i] = history[i]
        BY <3>1
      <3>3. 1..(Len(history) + 1) = 1..Len(history) \cup {Len(history) + 1}
        BY <3>1
      <3>4. QED
        BY <3>2, <3>3 DEF Range
    <2>2. QED
      BY <2>1 DEF Accepted
  <1>2. \A p : Repeated(p) => Repeated(p)'
    BY <1>1 DEF Repeated
  <1>3. QED
    BY <1>1, <1>2 DEF HasAll

\* The record in hand is offered: nothing is missing any more.
LEMMA HasAllAdded ==
  ASSUME TypeOK, NEW f \in SUBSET Point, f \subseteq Accepted, NEW r \in Result,
         r.decision = "accepted" => r.point \in Accepted,
         HasAll(f, IF r.decision = "accepted" THEN {r.point} ELSE {})
  PROVE  HasAll(Added(f, r), {})
  <1>1. CASE r.decision # "accepted"
    BY <1>1 DEF Added, HasAll
  <1>2. CASE r.decision = "accepted"
    <2> DEFINE x == r.point
               g == add(f, x)
    <2>1. x \in Point /\ IsPoint(x) /\ (\A q \in f : IsPoint(q)) /\ x \in Accepted
      BY <1>2, PointIsPoint DEF Result
    <2>2. /\ Known(f, x) \/ Covers(g, x)
          /\ \A q : IsPoint(q) /\ Covers(f, q) => Covers(g, q)
      BY <2>1, AddCovers
    <2>3. Known(f, x) => Repeated(x) \/ Covers(g, x)
      <3>1. SUFFICES ASSUME NEW q \in f, q.sha = x.sha PROVE Repeated(x) \/ Covers(g, x)
        BY DEF Known
      <3>2. CASE q = x
        BY <2>1, <2>2, <3>2 DEF Covers
      <3>3. CASE q # x
        BY <3>1, <3>3 DEF Repeated
      <3>4. QED
        BY <3>2, <3>3
    <2>4. \A p \in Accepted : IsPoint(p)
      <3>1. \A e \in Range(history) : e \in Result
        BY DEF TypeOK, Range
      <3>2. QED
        BY <3>1, PointIsPoint DEF Accepted, Result
    <2>5. Added(f, r) = g
      BY <1>2 DEF Added
    <2> HIDE DEF g, x
    <2>6. ASSUME NEW p \in Accepted PROVE Repeated(p) \/ Covers(g, p)
      <3>1. CASE p = x
        BY <2>2, <2>3, <3>1
      <3>2. CASE p # x
        BY <1>2, <2>2, <2>4, <3>2 DEF HasAll, x
      <3>3. QED
        BY <3>1, <3>2
    <2>7. QED
      BY <2>5, <2>6 DEF HasAll
  <1>3. QED
    BY <1>1, <1>2

LEMMA FollowStep ==
  ASSUME DriverInv, SerialInv, LeftInv, FollowInv, [Next]_vars
  PROVE  FollowInv'
  <1>1. SUFFICES ASSUME ~overlapped', \A d \in Driver : pc'[d] # "crashed" PROVE FollowInv'
    BY DEF FollowInv
  <1>2. TypeOK /\ ~overlapped /\ \A d \in Driver : pc[d] # "crashed"
    BY <1>1 DEF DriverInv, TypeOK, Next, Load, Record, Apply, Save, WriteStateMd, Crash, Goto, vars, disk, Running
  <1>3. /\ \A d \in Driver : pc[d] = "loop" => front[d] = Rebuilt(history) /\ HasAll(front[d], {})
        /\ \A d \in Driver : pc[d] = "apply" =>
            \A r \in current[d] : /\ Added(front[d], r) = Rebuilt(history)
                                  /\ HasAll(front[d], IF r.decision = "accepted" THEN {r.point} ELSE {})
        /\ (\A d \in Driver : pc[d] \notin {"loop", "apply"}) => pareto = Rebuilt(history) /\ HasAll(pareto, {})
    BY <1>2 DEF FollowInv
  <1>4. \A d, e \in Driver : pc[d] \in Running /\ pc[e] \in Running => e = d
    BY <1>2 DEF SerialInv
  <1>5. history' = history => Rebuilt(history)' = Rebuilt(history) /\ \A f, S : HasAll(f, S) => HasAll(f, S)'
    BY DEF HasAll, Accepted, Repeated
  <1>6. ASSUME NEW d \in Driver, Load(d) PROVE FollowInv'
    <2>1. \A e \in Driver : pc[e] \notin Running
      BY <1>1, <1>6 DEF Load
    <2>2. pareto = Rebuilt(history) /\ HasAll(pareto, {})
      BY <1>3, <2>1 DEF Running
    <2>3. /\ pc' = [pc EXCEPT ![d] = "loop"] /\ front' = [front EXCEPT ![d] = pareto]
          /\ history' = history /\ pareto' = pareto
      BY <1>6 DEF Load, LoadFront, Goto, disk
    <2>4. pc'[d] = "loop" /\ front'[d] = pareto /\ \A e \in Driver : e # d => pc'[e] \notin {"loop", "apply"}
      BY <1>2, <2>1, <2>3 DEF TypeOK, Running
    <2>5. QED
      BY <1>5, <2>2, <2>3, <2>4 DEF FollowInv
  <1>7. ASSUME NEW d \in Driver, Record(d) PROVE FollowInv'
    <2>1. PICK r \in Result : history' = Append(history, r) /\ current' = [current EXCEPT ![d] = {r}]
      BY <1>7 DEF Record
    <2>2. pc[d] = "loop" /\ pc' = [pc EXCEPT ![d] = "apply"] /\ UNCHANGED <<front, pareto>>
      BY <1>7 DEF Record, Goto
    <2>3. front[d] = Rebuilt(history) /\ HasAll(front[d], {})
      BY <1>3, <2>2
    <2>4. Rebuilt(history') = Added(front[d], r)
      BY <1>2, <2>1, <2>3, RebuiltGrows DEF TypeOK
    <2>5. HasAll(front[d], IF r.decision = "accepted" THEN {r.point} ELSE {})'
      <3> DEFINE f == front[d]
      <3>1. HasAll(f, {})
        BY <2>3
      <3>2. f' = f
        BY <2>2
      <3> HIDE DEF f
      <3>3. QED
        BY <1>2, <2>1, <3>1, <3>2, HasAllGrows DEF f
    <2>6. pc'[d] = "apply" /\ current'[d] = {r} /\ \A e \in Driver : e # d => pc'[e] \notin {"loop", "apply"}
      BY <1>2, <1>4, <2>1, <2>2 DEF TypeOK, Running
    <2>7. QED
      BY <2>2, <2>4, <2>5, <2>6 DEF FollowInv
  <1>8. ASSUME NEW d \in Driver, Apply(d) PROVE FollowInv'
    <2>1. PICK r \in current[d] : front' = [front EXCEPT ![d] = IF r.decision = "accepted" THEN add(@, r.point) ELSE @]
      BY <1>8 DEF Apply
    <2>2. pc[d] = "apply" /\ pc' = [pc EXCEPT ![d] = "loop"] /\ UNCHANGED <<history, pareto>>
      BY <1>8 DEF Apply, Goto
    <2>3. r \in Result /\ front[d] \in SUBSET Point /\ front[d] \subseteq Accepted
          /\ (r.decision = "accepted" => r.point \in Accepted)
      BY <1>2, <2>1 DEF DriverInv, TypeOK, Backed
    <2>4. front'[d] = Added(front[d], r)
      BY <1>2, <2>1 DEF TypeOK, Added
    <2>5. /\ Added(front[d], r) = Rebuilt(history)
          /\ HasAll(front[d], IF r.decision = "accepted" THEN {r.point} ELSE {})
      BY <1>3, <2>1, <2>2
    <2>6. HasAll(Added(front[d], r), {})
      BY <1>2, <2>3, <2>5, HasAllAdded
    <2>7. pc'[d] = "loop" /\ \A e \in Driver : e # d => pc'[e] \notin {"loop", "apply"}
      BY <1>2, <1>4, <2>2 DEF TypeOK, Running
    <2>8. QED
      BY <1>5, <2>2, <2>4, <2>5, <2>6, <2>7 DEF FollowInv
  <1>9. ASSUME NEW d \in Driver, Save(d) PROVE FollowInv'
    <2>1. /\ pc[d] = "loop" /\ pc' = [pc EXCEPT ![d] = "state_md"] /\ pareto' = front[d]
          /\ UNCHANGED history
      BY <1>9 DEF Save, SaveFront, Goto
    <2>2. front[d] = Rebuilt(history) /\ HasAll(front[d], {})
      BY <1>3, <2>1
    <2>3. pc'[d] = "state_md" /\ \A e \in Driver : e # d => pc'[e] \notin {"loop", "apply"}
      BY <1>2, <1>4, <2>1 DEF TypeOK, Running
    <2>4. QED
      BY <1>5, <2>1, <2>2, <2>3 DEF FollowInv
  <1>10. ASSUME NEW d \in Driver, WriteStateMd(d) PROVE FollowInv'
    <2>1. /\ pc[d] = "state_md" /\ pc' = [pc EXCEPT ![d] = "done"]
          /\ UNCHANGED <<front, current, history, pareto>>
      BY <1>10 DEF WriteStateMd, Goto
    <2>2. pc'[d] = "done" /\ \A e \in Driver : e # d => pc'[e] = pc[e]
      BY <1>2, <2>1 DEF TypeOK
    <2>3. \A e \in Driver : pc[e] \notin {"loop", "apply"}
      BY <1>4, <2>1 DEF Running
    <2>4. QED
      BY <1>3, <1>5, <2>1, <2>2, <2>3 DEF FollowInv
  <1>11. CASE UNCHANGED vars
    BY <1>3, <1>5, <1>11 DEF FollowInv, vars
  <1>12. ASSUME NEW d \in Driver, Crash(d) PROVE FALSE
    BY <1>1, <1>2, <1>12 DEF Crash, Goto, TypeOK
  <1>13. QED
    BY <1>6, <1>7, <1>8, <1>9, <1>10, <1>11, <1>12 DEF Next

\* After generations that ran one after the other PARETO.json is what replaying
\* HISTORY.jsonl gives, and no accepted point is forgotten, for any results in
\* any order.  replay_from_history, ParetoSet.add, run_generation.
THEOREM FrontFollows == Spec => []FrontFollowsJournal
  <1>1. Init => FollowInv
    BY RebuiltEmpty DEF Init, FollowInv, HasAll, Accepted, Range
  <1>2. FollowInv => FrontFollowsJournal
    BY DEF FollowInv, FrontFollowsJournal, RebuildMatches, FrontCoversAccepted, Quiet, HasAll
  <1>3. Init => SerialInv
    BY DEF Init, SerialInv, Running
  <1>4. DriverInv /\ SerialInv /\ LeftInv /\ FollowInv /\ [Next]_vars => FollowInv'
    BY FollowStep
  <1>5. QED
    BY <1>1, <1>2, <1>3, <1>4, SerialInvStep, DriverInvAlways, LeftInvAlways, PTL DEF Spec

-----------------------------------------------------------------------------
(* The journal *)

\* The records the archives hold, and those of the file at the path.
Archived == UNION {Journal!Range(archive[s].rows) : s \in Journal!Seconds}
AtPath == Journal!Range(Journal!FileOf(live))

RunsIn(c, steps) == writer[c] \in steps

Archives == [state : {"none", "partial", "mixed", "whole"}, of : Nat, rows : Seq(Call)]

JournalTypes ==
    /\ writer \in [Call -> Journal!Steps]
    /\ cand \in [Call -> Candidate]
    /\ source \in [Call -> Journal!Source]
    /\ fd \in [Call -> Nat]
    /\ inode \in Seq(Seq(Call))
    /\ live \in 0..Len(inode)
    /\ gz \in [Call -> Journal!Seconds]
    /\ archive \in [Journal!Seconds -> Archives]
    /\ second \in Journal!Seconds
    /\ together \in BOOLEAN

\* A call that has a file open has opened a file that exists; when it is alone
\* the path still names it.
OpenInv ==
    \A c \in Call : RunsIn(c, {"check", "write", "copying"}) =>
        fd[c] \in 1..Len(inode) /\ (~together => fd[c] = live)

\* As long as no two calls have overlapped, at most one runs.
AloneInv ==
    ~together => \A c, d \in Call :
        RunsIn(c, Journal!Running) /\ RunsIn(d, Journal!Running) => c = d

\* Before the first rotation the path has named one file only, and nobody
\* copies it or is about to unlink it.
FirstFile ==
    ~Journal!Rotated =>
        /\ live = Len(inode) /\ Len(inode) <= 1
        /\ \A c \in Call : ~RunsIn(c, {"copying", "copied"})

\* An archive holds records of the file it is a copy of.
ArchiveInv ==
    \A s \in Journal!Seconds :
        \/ archive[s].rows = <<>>
        \/ /\ archive[s].of \in 1..Len(inode)
           /\ Journal!Range(archive[s].rows) \subseteq Journal!Range(inode[archive[s].of])

\* Calls one after the other leave every record at the path or in an archive.
\* Who is about to rotate finds a full file at the path, the archive it then
\* writes is its own, and who is about to unlink the path has copied what it
\* names.
CopiedInv ==
    ~together =>
        /\ \A i \in 1..Len(inode) : Journal!Range(inode[i]) \subseteq Archived \cup AtPath
        /\ \A c \in Call :
              /\ RunsIn(c, {"rotate"}) => live # 0 /\ Len(inode[live]) >= RotateAt
              /\ RunsIn(c, {"copying"}) => archive[gz[c]] = Journal!Partial(fd[c])
              /\ RunsIn(c, {"copied"}) => AtPath \subseteq Archived

\* An archive that is cut short is the one of the call that copies, or of one
\* that died in its copy.
TornInv ==
    ~together =>
        \A s \in Journal!Seconds : archive[s].state \in {"partial", "mixed"} =>
            \E c \in Call : RunsIn(c, {"torn"}) \/ (RunsIn(c, {"copying"}) /\ gz[c] = s)

\* A call that has passed the check is compatible with what is written.
CheckedInv ==
    ~together /\ ~Journal!Rotated =>
        \A c \in Call : RunsIn(c, {"append", "write"}) /\ source[c] # NoSource =>
            \A e \in Journal!Written : cand[e] = cand[c] =>
                Journal!Compatible(source[e], source[c])

JournalInv ==
    /\ JournalTypes /\ OpenInv /\ AloneInv /\ FirstFile /\ ArchiveInv /\ CopiedInv
    /\ TornInv /\ CheckedInv /\ Journal!SerialMutex

-----------------------------------------------------------------------------
(* Files *)

LEMMA AppendRange ==
  ASSUME NEW S, NEW s \in Seq(S), NEW c \in S
  PROVE  /\ Journal!Range(Append(s, c)) = Journal!Range(s) \cup {c}
         /\ Append(s, c) # <<>> /\ Append(s, c) \in Seq(S)
  <1>1. /\ Append(s, c) \in Seq(S) /\ Len(Append(s, c)) = Len(s) + 1
        /\ Append(s, c)[Len(s) + 1] = c
        /\ \A i \in 1..Len(s) : Append(s, c)[i] = s[i]
    OBVIOUS
  <1>2. DOMAIN s = 1..Len(s) /\ DOMAIN Append(s, c) = 1..(Len(s) + 1) /\ Len(s) \in Nat
    BY <1>1
  <1> DEFINE t == Append(s, c)
  <1> HIDE DEF t
  <1>3. \A i \in 1..(Len(s) + 1) : i = Len(s) + 1 \/ i \in 1..Len(s)
    BY <1>2
  <1>4. Journal!Range(t) \subseteq Journal!Range(s) \cup {c}
    BY <1>1, <1>2, <1>3 DEF Journal!Range, t
  <1>5. Journal!Range(s) \cup {c} \subseteq Journal!Range(t)
    BY <1>1, <1>2 DEF Journal!Range, t
  <1>6. Append(s, c) # <<>>
    <2>1. 1 \in DOMAIN t /\ DOMAIN << >> = {}
      BY <1>2 DEF t
    <2>2. QED
      BY <2>1, Zenon DEF t
  <1>7. QED
    BY <1>1, <1>4, <1>5, <1>6 DEF t

LEMMA PathRange ==
  AtPath = IF live = 0 THEN {} ELSE Journal!Range(inode[live])
  <1>1. Journal!Range(<<>>) = {}
    BY DEF Journal!Range
  <1>2. CASE live = 0
    <2>1. Journal!FileOf(live) = <<>>
      BY <1>2 DEF Journal!FileOf, Journal!NoFile
    <2>2. QED
      BY <1>1, <1>2, <2>1, Zenon DEF AtPath
  <1>3. CASE live # 0
    BY <1>3 DEF AtPath, Journal!FileOf, Journal!NoFile
  <1>4. QED
    BY <1>2, <1>3

LEMMA NextPathRange ==
  AtPath' = IF live' = 0 THEN {} ELSE Journal!Range(inode'[live'])
  <1>1. Journal!Range(<<>>) = {}
    BY DEF Journal!Range
  <1>2. CASE live' = 0
    <2>1. Journal!FileOf(live)' = <<>>
      BY <1>2 DEF Journal!FileOf, Journal!NoFile
    <2>2. QED
      BY <1>1, <1>2, <2>1, Zenon DEF AtPath
  <1>3. CASE live' # 0
    BY <1>3 DEF AtPath, Journal!FileOf, Journal!NoFile
  <1>4. QED
    BY <1>2, <1>3

LEMMA JournalPieces ==
  ASSUME UNCHANGED <<inode, live, archive>>
  PROVE  /\ Archived' = Archived /\ AtPath' = AtPath
         /\ Journal!Rotated' = Journal!Rotated /\ Journal!Written' = Journal!Written
         /\ ArchiveInv => ArchiveInv'
  BY DEF Archived, AtPath, Journal!FileOf, Journal!Rotated, Journal!Written, ArchiveInv,
     Journal!Seconds

-----------------------------------------------------------------------------
(* One step of one call *)

LEMMA JournalInit == Journal!Init => JournalInv
  <1> SUFFICES ASSUME Journal!Init PROVE JournalInv
    OBVIOUS
  <1> USE DEF Journal!Init
  <1>0. 0 \in Journal!Seconds
    BY JournalAssumption DEF Journal!Seconds
  <1>1. JournalTypes
    <2>1. writer \in [Call -> Journal!Steps]
      BY DEF Journal!Steps
    <2>2. /\ cand \in [Call -> Candidate] /\ source \in [Call -> Journal!Source]
          /\ together \in BOOLEAN
      OBVIOUS
    <2>3. fd \in [Call -> Nat] /\ gz \in [Call -> Journal!Seconds]
      BY <1>0 DEF Journal!NoFile
    <2>4. inode \in Seq(Seq(Call)) /\ live \in 0..Len(inode)
      BY DEF Journal!NoFile
    <2>5. archive \in [Journal!Seconds -> Archives]
      <3>1. Journal!Absent \in Archives
        BY DEF Journal!Absent, Archives, Journal!NoFile
      <3>2. QED
        BY <3>1
    <2>6. second \in Journal!Seconds
      BY <1>0
    <2>7. QED
      BY <2>1, <2>2, <2>3, <2>4, <2>5, <2>6 DEF JournalTypes
  <1>2. /\ \A c \in Call : writer[c] = "idle"
        /\ \A s \in Journal!Seconds : archive[s].state = "none" /\ archive[s].rows = <<>>
    BY DEF Journal!Absent
  <1>3. Journal!Written = {}
    BY DEF Journal!Written
  <1>4. OpenInv /\ AloneInv /\ FirstFile /\ ArchiveInv /\ CopiedInv /\ TornInv
    BY <1>2 DEF OpenInv, AloneInv, FirstFile, ArchiveInv, CopiedInv, TornInv, RunsIn,
       Journal!Running, Journal!NoFile
  <1>5. CheckedInv /\ Journal!SerialMutex
    BY <1>2, <1>3 DEF CheckedInv, RunsIn, Journal!SerialMutex, Journal!SourceMutex
  <1>6. QED
    BY <1>1, <1>4, <1>5 DEF JournalInv

LEMMA BeginStep == ASSUME JournalInv, NEW c \in Call, Journal!Begin(c) PROVE JournalInv'
  <1>1. /\ JournalTypes /\ writer[c] = "idle"
        /\ UNCHANGED <<cand, source, inode, live, gz, archive, second>>
        /\ together' = (together \/ \E d \in Call : writer[d] \in Journal!Running)
    BY DEF JournalInv, Journal!Begin, Journal!identity
  <1>2. \/ /\ writer' = [writer EXCEPT ![c] = "append"] /\ fd' = fd
           /\ (source[c] = NoSource \/ live = 0)
        \/ /\ writer' = [writer EXCEPT ![c] = "check"]
           /\ fd' = [fd EXCEPT ![c] = live] /\ live # 0
    BY DEF Journal!Begin, Journal!Goto, Journal!NoFile
  <1>3. JournalTypes'
    <2>1. writer' \in [Call -> Journal!Steps]
      BY <1>1, <1>2 DEF JournalTypes, Journal!Steps
    <2>2. fd' \in [Call -> Nat]
      <3>1. live \in Nat
        BY <1>1 DEF JournalTypes
      <3>2. QED
        BY <1>1, <1>2, <3>1 DEF JournalTypes
    <2>3. together' \in BOOLEAN
      BY <1>1 DEF JournalTypes
    <2>4. QED
      BY <1>1, <2>1, <2>2, <2>3 DEF JournalTypes
  <1>4. /\ Archived' = Archived /\ AtPath' = AtPath /\ Journal!Rotated' = Journal!Rotated
        /\ Journal!Written' = Journal!Written /\ ArchiveInv'
    BY <1>1, JournalPieces DEF JournalInv
  <1>5. \A d \in Call : d # c => writer'[d] = writer[d] /\ fd'[d] = fd[d]
    BY <1>1, <1>2 DEF JournalTypes
  <1>6. writer'[c] \in {"append", "check"} /\ (writer'[c] = "check" => fd'[c] = live /\ live # 0)
    BY <1>1, <1>2 DEF JournalTypes
  <1>7. ~together' => ~together /\ \A d \in Call : writer[d] \notin Journal!Running
    BY <1>1
  <1>8. OpenInv'
    BY <1>1, <1>5, <1>6, <1>7 DEF JournalInv, OpenInv, RunsIn, JournalTypes
  <1>9. AloneInv'
    BY <1>5, <1>7 DEF AloneInv, RunsIn
  <1>10. FirstFile'
    BY <1>1, <1>4, <1>5, <1>6 DEF JournalInv, FirstFile, RunsIn
  <1>11. CopiedInv'
    BY <1>1, <1>4, <1>5, <1>6, <1>7 DEF JournalInv, CopiedInv, RunsIn
  <1>16. TornInv'
    BY <1>1, <1>4, <1>5, <1>7 DEF JournalInv, TornInv, RunsIn
  <1>12. Journal!SerialMutex'
    BY <1>1, <1>4, <1>7 DEF JournalInv, Journal!SerialMutex, Journal!SourceMutex, Journal!Compatible
  <1>13. ~Journal!Rotated /\ live = 0 => Journal!Written = {}
    BY <1>1 DEF JournalInv, FirstFile, Journal!Written, JournalTypes
  <1>14. CheckedInv'
    <2> SUFFICES ASSUME ~together', ~Journal!Rotated', NEW d \in Call,
                        writer'[d] \in {"append", "write"}, source[d] # NoSource,
                        NEW e \in Journal!Written
                 PROVE  FALSE
      BY <1>1, <1>4 DEF CheckedInv, RunsIn
    <2>1. d = c
      BY <1>5, <1>7 DEF Journal!Running
    <2>2. live = 0
      BY <1>1, <1>2, <2>1 DEF JournalTypes
    <2>3. QED
      BY <1>4, <1>13, <2>2
  <1>15. QED
    BY <1>3, <1>4, <1>8, <1>9, <1>10, <1>11, <1>16, <1>12, <1>14 DEF JournalInv

LEMMA CheckStep == ASSUME JournalInv, NEW c \in Call, Journal!CheckMutex(c) PROVE JournalInv'
  <1>1. /\ JournalTypes /\ writer[c] = "check"
        /\ UNCHANGED <<cand, source, inode, live, gz, archive, second, together>>
        /\ fd' = [fd EXCEPT ![c] = 0]
    BY DEF JournalInv, Journal!CheckMutex, Journal!identity, Journal!NoFile
  <1>2. \/ writer' = [writer EXCEPT ![c] = "refused"]
        \/ writer' = [writer EXCEPT ![c] = "append"] /\ ~Journal!Conflicts(c, inode[fd[c]])
    BY DEF Journal!CheckMutex, Journal!Goto
  <1>3. JournalTypes'
    BY <1>1, <1>2 DEF JournalTypes, Journal!Steps
  <1>4. /\ Archived' = Archived /\ AtPath' = AtPath /\ Journal!Rotated' = Journal!Rotated
        /\ Journal!Written' = Journal!Written /\ ArchiveInv'
    BY <1>1, JournalPieces DEF JournalInv
  <1>5. \A d \in Call : d # c => writer'[d] = writer[d] /\ fd'[d] = fd[d]
    BY <1>1, <1>2 DEF JournalTypes
  <1>6. writer'[c] \in {"append", "refused"} /\ writer[c] \in Journal!Running
    BY <1>1, <1>2 DEF JournalTypes, Journal!Running
  <1>7. OpenInv'
    BY <1>1, <1>5, <1>6 DEF JournalInv, OpenInv, RunsIn
  <1>8. AloneInv'
    BY <1>1, <1>5, <1>6 DEF JournalInv, AloneInv, RunsIn
  <1>9. FirstFile'
    BY <1>1, <1>4, <1>5, <1>6 DEF JournalInv, FirstFile, RunsIn
  <1>10. CopiedInv'
    BY <1>1, <1>4, <1>5, <1>6 DEF JournalInv, CopiedInv, RunsIn
  <1>15. TornInv'
    BY <1>1, <1>4, <1>5, <1>6 DEF JournalInv, TornInv, RunsIn
  <1>11. Journal!SerialMutex'
    BY <1>1, <1>4 DEF JournalInv, Journal!SerialMutex, Journal!SourceMutex, Journal!Compatible
  <1>12. ASSUME ~together, ~Journal!Rotated, writer'[c] = "append",
                NEW e \in Journal!Written, cand[e] = cand[c]
         PROVE  Journal!Compatible(source[e], source[c])
    <2>1. fd[c] = live /\ live = 1 /\ Len(inode) = 1
      BY <1>1, <1>12 DEF JournalInv, OpenInv, FirstFile, RunsIn, JournalTypes
    <2>2. e \in Journal!Range(inode[1])
      BY <1>1, <2>1 DEF Journal!Written, JournalTypes
    <2>3. ~Journal!Conflicts(c, inode[1])
      BY <1>1, <1>2, <1>12, <2>1 DEF JournalTypes
    <2>4. QED
      BY <2>2, <2>3, <1>12 DEF Journal!Conflicts
  <1>13. CheckedInv'
    BY <1>1, <1>4, <1>5, <1>6, <1>12
       DEF JournalInv, CheckedInv, RunsIn, Journal!Compatible
  <1>14. QED
    BY <1>3, <1>4, <1>7, <1>8, <1>9, <1>10, <1>15, <1>11, <1>13 DEF JournalInv

LEMMA OpenStep == ASSUME JournalInv, NEW c \in Call, Journal!OpenAppend(c) PROVE JournalInv'
  <1>1. /\ JournalTypes /\ writer[c] = "append"
        /\ UNCHANGED <<cand, source, gz, archive, second, together>>
        /\ fd' = [fd EXCEPT ![c] = live'] /\ writer' = [writer EXCEPT ![c] = "write"]
    BY DEF JournalInv, Journal!OpenAppend, Journal!identity, Journal!Goto
  <1>2. \/ live # 0 /\ inode' = inode /\ live' = live
        \/ live = 0 /\ inode' = Append(inode, <<>>) /\ live' = Len(inode) + 1
    BY DEF Journal!OpenAppend, Journal!NoFile
  <1>3. /\ inode' \in Seq(Seq(Call)) /\ live' \in 1..Len(inode')
        /\ Len(inode) \in Nat /\ Len(inode) <= Len(inode')
        /\ \A i \in 1..Len(inode) : inode'[i] = inode[i]
        /\ \A i \in 1..Len(inode') : i \in 1..Len(inode) \/ (i = live' /\ inode'[i] = <<>>)
    <2>1. inode \in Seq(Seq(Call)) /\ Len(inode) \in Nat /\ live \in 0..Len(inode)
      BY <1>1 DEF JournalTypes
    <2>2. CASE live # 0
      BY <1>2, <2>1, <2>2
    <2>3. CASE live = 0
      <3>1. inode' = Append(inode, <<>>) /\ live' = Len(inode) + 1
        BY <1>2, <2>3
      <3>2. <<>> \in Seq(Call)
        OBVIOUS
      <3>3. /\ inode' \in Seq(Seq(Call)) /\ Len(inode') = Len(inode) + 1
            /\ inode'[Len(inode) + 1] = <<>>
            /\ \A i \in 1..Len(inode) : inode'[i] = inode[i]
        BY <2>1, <3>1, <3>2
      <3>4. QED
        BY <2>1, <3>1, <3>3
    <2>4. QED
      BY <2>2, <2>3
  <1>4. JournalTypes'
    BY <1>1, <1>3 DEF JournalTypes, Journal!Steps
  <1>5. Archived' = Archived /\ Journal!Rotated' = Journal!Rotated
    BY <1>1 DEF Archived, Journal!Rotated
  <1>6. Journal!Written' = Journal!Written
    <2>1. DOMAIN inode = 1..Len(inode) /\ DOMAIN inode' = 1..Len(inode')
      BY <1>1, <1>3 DEF JournalTypes
    <2>2. Journal!Range(<<>>) = {}
      BY DEF Journal!Range
    <2>3. \A i \in 1..Len(inode) : i \in 1..Len(inode')
      BY <1>3
    <2>4. QED
      BY <1>3, <2>1, <2>2, <2>3 DEF Journal!Written
  <1>7. /\ \A d \in Call : d # c => writer'[d] = writer[d] /\ fd'[d] = fd[d]
        /\ writer'[c] = "write" /\ fd'[c] = live'
    BY <1>1, <1>3 DEF JournalTypes
  <1>8. writer[c] \in Journal!Running /\ writer'[c] \in Journal!Running
    BY <1>1, <1>7 DEF Journal!Running
  <1>9. ~together => \A d \in Call : d # c => writer[d] \notin Journal!Running
    BY <1>8 DEF JournalInv, AloneInv, RunsIn
  <1>20. AtPath' = AtPath
    <2>1. CASE live # 0 /\ inode' = inode /\ live' = live
      BY <2>1, PathRange, NextPathRange
    <2>2. CASE live = 0 /\ live' = Len(inode) + 1
      <3>1. inode'[live'] = <<>> /\ live' # 0
        BY <1>3, <2>2
      <3>2. Journal!Range(<<>>) = {}
        BY DEF Journal!Range
      <3>3. QED
        BY <2>2, <3>1, <3>2, PathRange, NextPathRange, Zenon
    <2>3. QED
      BY <1>2, <2>1, <2>2
  <1>10. OpenInv'
    <2>1. ASSUME NEW d \in Call, writer'[d] \in {"check", "write", "copying"}, d # c
          PROVE  fd'[d] \in 1..Len(inode') /\ together
      <3>1. \A i \in 1..Len(inode) : i \in 1..Len(inode')
        BY <1>3
      <3>2. QED
        BY <3>1, <1>7, <1>9, <2>1 DEF JournalInv, OpenInv, RunsIn, Journal!Running
    <2>2. QED
      BY <1>1, <1>3, <1>7, <2>1 DEF OpenInv, RunsIn
  <1>11. AloneInv'
    BY <1>1, <1>7, <1>9 DEF AloneInv, RunsIn
  <1>12. FirstFile'
    BY <1>1, <1>2, <1>3, <1>5, <1>7 DEF JournalInv, FirstFile, RunsIn
  <1>13. CopiedInv'
    <2> SUFFICES ASSUME ~together PROVE CopiedInv'
      BY <1>1 DEF CopiedInv
    <2>1. \A i \in 1..Len(inode') : Journal!Range(inode'[i]) \subseteq Archived' \cup AtPath'
      <3>1. Journal!Range(<<>>) = {}
        BY DEF Journal!Range
      <3>2. QED
        BY <1>3, <1>5, <1>20, <3>1 DEF JournalInv, CopiedInv
    <2>2. \A d \in Call : writer'[d] \notin {"rotate", "copying", "copied"}
      BY <1>7, <1>9 DEF Journal!Running
    <2>3. QED
      BY <2>1, <2>2 DEF CopiedInv, RunsIn
  <1>16. ArchiveInv'
    <2>1. \A i \in 1..Len(inode) : i \in 1..Len(inode') /\ inode'[i] = inode[i]
      BY <1>3
    <2>2. QED
      BY <1>1, <2>1 DEF JournalInv, ArchiveInv
  <1>17. TornInv'
    BY <1>1, <1>7 DEF JournalInv, TornInv, RunsIn
  <1>14. CheckedInv' /\ Journal!SerialMutex'
    BY <1>1, <1>5, <1>6, <1>7
       DEF JournalInv, CheckedInv, RunsIn, Journal!SerialMutex, Journal!SourceMutex, Journal!Compatible
  <1>15. QED
    BY <1>4, <1>10, <1>11, <1>12, <1>13, <1>14, <1>16, <1>17 DEF JournalInv

LEMMA WriteStep == ASSUME JournalInv, NEW c \in Call, Journal!Write(c) PROVE JournalInv'
  <1>1. /\ JournalTypes /\ writer[c] = "write"
        /\ UNCHANGED <<cand, source, live, gz, archive, second, together>>
        /\ fd' = [fd EXCEPT ![c] = 0]
        /\ inode' = [inode EXCEPT ![fd[c]] = Append(inode[fd[c]], c)]
        /\ \/ writer' = [writer EXCEPT ![c] = "rotate"] /\ Len(inode'[fd[c]]) >= RotateAt
           \/ writer' = [writer EXCEPT ![c] = "done"]
    BY DEF JournalInv, Journal!Write, Journal!WriteLine, Journal!identity, Journal!Goto, Journal!NoFile
  <1> DEFINE f == fd[c]
  <1>2. f \in 1..Len(inode) /\ (~together => f = live) /\ inode[f] \in Seq(Call)
    BY <1>1 DEF JournalInv, OpenInv, RunsIn, JournalTypes
  <1> HIDE DEF f
  <1>3. /\ Append(inode[f], c) \in Seq(Call) /\ Append(inode[f], c) # <<>>
        /\ Journal!Range(Append(inode[f], c)) = Journal!Range(inode[f]) \cup {c}
    BY <1>2, AppendRange
  <1>4. /\ inode' \in Seq(Seq(Call)) /\ Len(inode') = Len(inode)
        /\ DOMAIN inode = 1..Len(inode) /\ DOMAIN inode' = 1..Len(inode)
        /\ inode'[f] = Append(inode[f], c)
        /\ \A i \in 1..Len(inode) : i # f => inode'[i] = inode[i]
    BY <1>1, <1>2, <1>3 DEF JournalTypes, f
  <1>5. JournalTypes'
    BY <1>1, <1>4 DEF JournalTypes, Journal!Steps
  <1>6. Archived' = Archived /\ Journal!Rotated' = Journal!Rotated
    BY <1>1 DEF Archived, Journal!Rotated
  <1>7. Journal!Written' = Journal!Written \cup {c}
    BY <1>2, <1>3, <1>4 DEF Journal!Written
  <1>8. /\ \A d \in Call : d # c => writer'[d] = writer[d] /\ fd'[d] = fd[d]
        /\ writer'[c] \in {"rotate", "done"}
        /\ writer'[c] = "rotate" => Len(inode'[f]) >= RotateAt
    BY <1>1 DEF JournalTypes, f
  <1>9. ~together => \A d \in Call : d # c => writer[d] \notin Journal!Running
    BY <1>1 DEF JournalInv, AloneInv, RunsIn, Journal!Running
  <1>10. OpenInv'
    BY <1>1, <1>4, <1>8 DEF JournalInv, OpenInv, RunsIn
  <1>11. AloneInv'
    BY <1>1, <1>8, <1>9 DEF AloneInv, RunsIn
  <1>12. FirstFile'
    <2> SUFFICES ASSUME ~Journal!Rotated PROVE FirstFile'
      BY <1>6 DEF FirstFile
    <2>1. live = Len(inode) /\ Len(inode) = 1 /\ f = 1 /\ live = 1
      BY <1>1, <1>2 DEF JournalInv, FirstFile, JournalTypes
    <2>2. QED
      BY <1>1, <1>4, <1>8, <2>1 DEF JournalInv, FirstFile, RunsIn
  <1>13. CopiedInv'
    <2> SUFFICES ASSUME ~together PROVE CopiedInv'
      BY <1>1 DEF CopiedInv
    <2>1. f = live /\ live # 0
      BY <1>1, <1>2 DEF JournalTypes
    <2>2. AtPath' = AtPath \cup {c}
      BY <1>1, <1>3, <1>4, <2>1, PathRange, NextPathRange
    <2>3. \A i \in 1..Len(inode') : Journal!Range(inode'[i]) \subseteq Archived' \cup AtPath'
      BY <1>3, <1>4, <1>6, <2>2 DEF JournalInv, CopiedInv
    <2>4. \A d \in Call : writer'[d] \notin {"copying", "copied"}
      BY <1>8, <1>9 DEF Journal!Running
    <2>5. \A d \in Call : writer'[d] = "rotate" => live # 0 /\ Len(inode'[live]) >= RotateAt
      BY <1>8, <1>9, <2>1 DEF Journal!Running
    <2>6. QED
      BY <1>1, <2>3, <2>4, <2>5 DEF CopiedInv, RunsIn
  <1>17. ArchiveInv'
    <2>1. \A i \in 1..Len(inode) : Journal!Range(inode[i]) \subseteq Journal!Range(inode'[i])
      BY <1>3, <1>4
    <2>2. QED
      BY <1>1, <1>4, <2>1 DEF JournalInv, ArchiveInv
  <1>18. TornInv'
    BY <1>1, <1>8 DEF JournalInv, TornInv, RunsIn
  <1>14. CheckedInv'
    BY <1>1, <1>8, <1>9 DEF CheckedInv, RunsIn, Journal!Running
  <1>15. Journal!SerialMutex'
    <2> SUFFICES ASSUME ~together, ~Journal!Rotated PROVE Journal!SourceMutex'
      BY <1>1, <1>6 DEF Journal!SerialMutex
    <2>1. \A e \in Journal!Written : cand[e] = cand[c] =>
             source[c] = NoSource \/ Journal!Compatible(source[e], source[c])
      BY <1>1 DEF JournalInv, CheckedInv, RunsIn
    <2>2. Journal!SourceMutex
      BY DEF JournalInv, Journal!SerialMutex
    <2>3. \A a, b : Journal!Compatible(a, a) /\
             (Journal!Compatible(a, b) => NoSource \in {a, b} \/ Journal!Compatible(b, a))
      BY DEF Journal!Compatible
    <2>4. \A a, b : Journal!Compatible(a, b)' = Journal!Compatible(a, b)
      BY DEF Journal!Compatible
    <2>5. QED
      BY <1>1, <1>7, <2>1, <2>2, <2>3, <2>4 DEF Journal!SourceMutex
  <1>16. QED
    BY <1>5, <1>10, <1>11, <1>12, <1>13, <1>14, <1>15, <1>17, <1>18 DEF JournalInv

\* Opening an archive of the file at the path drops only records of that file.
LEMMA OpenGzStep == ASSUME JournalInv, NEW c \in Call, Journal!OpenGz(c) PROVE JournalInv'
  <1>1. /\ JournalTypes /\ writer[c] = "rotate"
        /\ UNCHANGED <<cand, source, inode, live, second, together>>
    BY DEF JournalInv, Journal!OpenGz, Journal!identity
  <1>2. CASE live = 0
    <2>1. writer' = [writer EXCEPT ![c] = "done"] /\ UNCHANGED <<fd, gz, archive>>
      BY <1>2 DEF Journal!OpenGz, Journal!Goto, Journal!NoFile
    <2>2. JournalTypes'
      BY <1>1, <2>1 DEF JournalTypes, Journal!Steps
    <2>3. /\ Archived' = Archived /\ AtPath' = AtPath /\ Journal!Rotated' = Journal!Rotated
          /\ Journal!Written' = Journal!Written /\ ArchiveInv'
      BY <1>1, <2>1, JournalPieces DEF JournalInv
    <2>4. \A d \in Call : writer'[d] = writer[d] \/ (d = c /\ writer'[d] = "done")
      BY <1>1, <2>1 DEF JournalTypes
    <2>5. OpenInv' /\ FirstFile' /\ CopiedInv' /\ TornInv'
      BY <1>1, <2>1, <2>3, <2>4 DEF JournalInv, OpenInv, FirstFile, CopiedInv, TornInv, RunsIn,
         Journal!Partial
    <2>6. AloneInv'
      BY <1>1, <2>4 DEF JournalInv, AloneInv, RunsIn, Journal!Running
    <2>7. CheckedInv' /\ Journal!SerialMutex'
      BY <1>1, <2>3, <2>4 DEF JournalInv, CheckedInv, RunsIn,
         Journal!SerialMutex, Journal!SourceMutex, Journal!Compatible
    <2>8. QED
      BY <2>2, <2>3, <2>5, <2>6, <2>7 DEF JournalInv
  <1>3. CASE live # 0
    <2> DEFINE new == archive'[second]
    <2>1. /\ writer' = [writer EXCEPT ![c] = "copying"]
          /\ fd' = [fd EXCEPT ![c] = live] /\ gz' = [gz EXCEPT ![c] = second]
          /\ Len(inode[live]) >= RotateAt => archive[second].of \in {0, live}
      BY <1>3 DEF Journal!OpenGz, Journal!Goto, Journal!NoFile
    <2>2. \E a \in {Journal!Mixed(live), Journal!Partial(live)} :
             /\ archive' = [archive EXCEPT ![second] = a]
             /\ (\A d \in Call : ~(writer[d] = "copying" /\ gz[d] = second)) =>
                   a = Journal!Partial(live)
      BY <1>3, Zenon DEF Journal!OpenGz, Journal!NoFile
    <2>3. /\ new \in Archives /\ new.rows = <<>> /\ new.of = live
          /\ new.state \in {"partial", "mixed"}
          /\ (\A d \in Call : ~(writer[d] = "copying" /\ gz[d] = second)) =>
                   new = Journal!Partial(live)
          /\ archive' \in [Journal!Seconds -> Archives]
          /\ \A s \in Journal!Seconds : s # second => archive'[s] = archive[s]
      <3>1. PICK a \in {Journal!Mixed(live), Journal!Partial(live)} :
             /\ archive' = [archive EXCEPT ![second] = a]
             /\ (\A d \in Call : ~(writer[d] = "copying" /\ gz[d] = second)) =>
                   a = Journal!Partial(live)
        BY <2>2
      <3>2. /\ a \in Archives /\ a.rows = <<>> /\ a.of = live /\ a.state \in {"partial", "mixed"}
        <4>1. <<>> \in Seq(Call) /\ live \in Nat
          BY <1>1 DEF JournalTypes
        <4>2. CASE a = Journal!Mixed(live)
          BY <4>1, <4>2 DEF Journal!Mixed, Archives
        <4>3. CASE a = Journal!Partial(live)
          BY <4>1, <4>3 DEF Journal!Partial, Archives
        <4>4. QED
          BY <4>2, <4>3
      <3>3. new = a /\ second \in Journal!Seconds
        BY <1>1, <3>1 DEF JournalTypes
      <3>4. QED
        BY <1>1, <3>1, <3>2, <3>3 DEF JournalTypes
    <2> HIDE DEF new
    <2>4. second \in Journal!Seconds /\ live \in 1..Len(inode) /\ live \in Nat
      BY <1>1, <1>3 DEF JournalTypes
    <2>5. JournalTypes'
      <3>1. writer' \in [Call -> Journal!Steps]
        BY <1>1, <2>1 DEF JournalTypes, Journal!Steps
      <3>2. fd' \in [Call -> Nat] /\ gz' \in [Call -> Journal!Seconds]
        BY <1>1, <2>1, <2>4 DEF JournalTypes
      <3>3. QED
        BY <1>1, <2>3, <3>1, <3>2 DEF JournalTypes
    <2>6. /\ \A d \in Call : d # c => writer'[d] = writer[d] /\ fd'[d] = fd[d] /\ gz'[d] = gz[d]
          /\ writer'[c] = "copying" /\ fd'[c] = live /\ gz'[c] = second
      BY <1>1, <2>1 DEF JournalTypes
    <2>7. Journal!Rotated'
      BY <2>3, <2>4 DEF Journal!Rotated, new
    <2>8. FirstFile' /\ CheckedInv' /\ Journal!SerialMutex'
      BY <2>7 DEF FirstFile, CheckedInv, Journal!SerialMutex
    <2>9. OpenInv'
      BY <1>1, <2>4, <2>6 DEF JournalInv, OpenInv, RunsIn
    <2>10. AloneInv'
      BY <1>1, <2>6 DEF JournalInv, AloneInv, RunsIn, Journal!Running
    <2>11. ArchiveInv'
      BY <1>1, <2>3, <2>4 DEF JournalInv, ArchiveInv, new
    <2>12. ASSUME ~together
           PROVE  /\ \A d \in Call : d # c => writer[d] \notin Journal!Running
                  /\ new = Journal!Partial(live)
      <3>1. \A d \in Call : d # c => writer[d] \notin Journal!Running
        BY <1>1, <2>12 DEF JournalInv, AloneInv, RunsIn, Journal!Running
      <3>2. \A d \in Call : writer[d] # "copying"
        BY <1>1, <3>1 DEF Journal!Running
      <3>3. QED
        BY <2>3, <3>1, <3>2
    <2>13. CopiedInv'
      <3> SUFFICES ASSUME ~together PROVE CopiedInv'
        BY <1>1 DEF CopiedInv
      <3>1. AtPath = Journal!Range(inode[live]) /\ AtPath' = AtPath
        BY <1>1, <1>3, PathRange, NextPathRange
      <3>2. Journal!Range(archive[second].rows) \subseteq AtPath
        <4>1. archive[second].of \in {0, live}
          BY <1>1, <2>1 DEF JournalInv, CopiedInv, RunsIn
        <4>2. Journal!Range(<<>>) = {}
          BY DEF Journal!Range
        <4>3. QED
          BY <2>4, <3>1, <4>1, <4>2 DEF JournalInv, ArchiveInv
      <3>3. \A s \in Journal!Seconds :
               Journal!Range(archive[s].rows) \subseteq Archived' \cup AtPath
        <4>1. \A s \in Journal!Seconds : s # second =>
                 Journal!Range(archive[s].rows) \subseteq Archived'
          BY <2>3 DEF Archived
        <4>2. QED
          BY <3>2, <4>1
      <3>4. Archived \subseteq Archived' \cup AtPath'
        BY <3>1, <3>3 DEF Archived
      <3>5. \A d \in Call : d # c => writer'[d] \notin {"rotate", "copying", "copied"}
        BY <2>6, <2>12 DEF Journal!Running
      <3>6. \A i \in 1..Len(inode') : Journal!Range(inode'[i]) \subseteq Archived' \cup AtPath'
        BY <1>1, <3>1, <3>4 DEF JournalInv, CopiedInv
      <3>7. archive'[gz'[c]] = Journal!Partial(fd'[c])
        BY <2>6, <2>12 DEF new
      <3>8. \A d \in Call : /\ ~RunsIn(d, {"rotate"})' /\ ~RunsIn(d, {"copied"})'
                            /\ RunsIn(d, {"copying"})' => d = c
        BY <2>6, <3>5 DEF RunsIn
      <3>9. \A d \in Call :
               RunsIn(d, {"copying"})' => archive'[gz'[d]] = Journal!Partial(fd'[d])
        BY <3>7, <3>8
      <3>10. Journal!Partial(0)' = Journal!Partial(0)
        BY DEF Journal!Partial
      <3>11. QED
        BY <3>6, <3>8, <3>9 DEF CopiedInv, Journal!Partial
    <2>14. TornInv'
      <3> SUFFICES ASSUME ~together, NEW s \in Journal!Seconds,
                          archive'[s].state \in {"partial", "mixed"}
                   PROVE  \E d \in Call : writer'[d] = "torn" \/ (writer'[d] = "copying" /\ gz'[d] = s)
        BY <1>1 DEF TornInv, RunsIn
      <3>1. CASE s = second
        BY <2>6, <3>1
      <3>2. CASE s # second
        <4>1. archive[s].state \in {"partial", "mixed"}
          BY <2>3, <3>2
        <4>2. PICK d \in Call : writer[d] = "torn" \/ (writer[d] = "copying" /\ gz[d] = s)
          BY <4>1 DEF JournalInv, TornInv, RunsIn
        <4>3. d # c
          BY <1>1, <4>2
        <4>4. QED
          BY <2>6, <4>2, <4>3
      <3>3. QED
        BY <3>1, <3>2
    <2>15. QED
      BY <2>5, <2>8, <2>9, <2>10, <2>11, <2>13, <2>14 DEF JournalInv
  <1>4. QED
    BY <1>2, <1>3

\* Closing it makes it whole, unless another call writes the same one.
LEMMA CloseGzStep == ASSUME JournalInv, NEW c \in Call, Journal!CloseGz(c) PROVE JournalInv'
  <1>1. /\ JournalTypes /\ writer[c] = "copying"
        /\ UNCHANGED <<cand, source, inode, live, gz, second, together>>
        /\ fd' = [fd EXCEPT ![c] = 0] /\ writer' = [writer EXCEPT ![c] = "copied"]
    BY DEF JournalInv, Journal!CloseGz, Journal!identity, Journal!Goto, Journal!NoFile
  <1> DEFINE t == gz[c]  f == fd[c]  new == archive'[t]
  <1>2. /\ t \in Journal!Seconds /\ f \in 1..Len(inode) /\ (~together => f = live)
        /\ inode[f] \in Seq(Call) /\ f \in Nat
    BY <1>1 DEF JournalInv, OpenInv, RunsIn, JournalTypes
  <1>3. \E a \in {Journal!Whole(f, inode[f]), Journal!Mixed(f)} :
           /\ archive' = [archive EXCEPT ![t] = a]
           /\ archive[t] = Journal!Partial(f) => a = Journal!Whole(f, inode[f])
    <2>1. PICK a \in {Journal!Whole(f, inode[f])}
                \cup (IF archive[t] = Journal!Partial(f) THEN {} ELSE {Journal!Mixed(f)}) :
             archive' = [archive EXCEPT ![t] = a]
      BY DEF Journal!CloseGz
    <2>2. QED
      BY <2>1
  <1>4. /\ new \in Archives /\ new.of = f /\ new.state \in {"whole", "mixed"}
        /\ new.rows \in {<<>>, inode[f]}
        /\ archive[t] = Journal!Partial(f) => new.rows = inode[f] /\ new.state = "whole"
        /\ archive' \in [Journal!Seconds -> Archives]
        /\ \A s \in Journal!Seconds : s # t => archive'[s] = archive[s]
    <2>1. PICK a \in {Journal!Whole(f, inode[f]), Journal!Mixed(f)} :
           /\ archive' = [archive EXCEPT ![t] = a]
           /\ archive[t] = Journal!Partial(f) => a = Journal!Whole(f, inode[f])
      BY <1>3
    <2>2. /\ a \in Archives /\ a.of = f /\ a.state \in {"whole", "mixed"}
          /\ a.rows \in {<<>>, inode[f]}
          /\ a = Journal!Whole(f, inode[f]) => a.rows = inode[f] /\ a.state = "whole"
      <3> HIDE DEF f, t
      <3>1. <<>> \in Seq(Call)
        OBVIOUS
      <3>2. CASE a = Journal!Whole(f, inode[f])
        BY <1>2, <3>1, <3>2 DEF Journal!Whole, Archives
      <3>3. CASE a = Journal!Mixed(f)
        <4>1. Journal!Mixed(f) # Journal!Whole(f, inode[f])
          <5>1. Journal!Mixed(f).state = "mixed"
            BY DEF Journal!Mixed
          <5>2. Journal!Whole(f, inode[f]).state = "whole"
            BY DEF Journal!Whole
          <5>3. QED
            BY <5>1, <5>2
        <4>2. QED
          BY <1>2, <3>1, <3>3, <4>1 DEF Journal!Mixed, Archives
      <3>4. QED
        BY <2>1, <3>2, <3>3
    <2>3. archive'[t] = a
      BY <1>1, <1>2, <2>1 DEF JournalTypes
    <2>4. QED
      BY <1>1, <1>2, <2>1, <2>2, <2>3 DEF JournalTypes
  <1> HIDE DEF t, f, new
  <1>5. JournalTypes'
    BY <1>1, <1>4 DEF JournalTypes, Journal!Steps
  <1>6. /\ \A d \in Call : d # c => writer'[d] = writer[d] /\ fd'[d] = fd[d]
        /\ writer'[c] = "copied"
    BY <1>1 DEF JournalTypes
  <1>7. Journal!Rotated'
    BY <1>2, <1>4 DEF Journal!Rotated, new
  <1>8. FirstFile' /\ CheckedInv' /\ Journal!SerialMutex'
    BY <1>7 DEF FirstFile, CheckedInv, Journal!SerialMutex
  <1>9. OpenInv'
    BY <1>1, <1>6 DEF JournalInv, OpenInv, RunsIn
  <1>10. AloneInv'
    BY <1>1, <1>6 DEF JournalInv, AloneInv, RunsIn, Journal!Running
  <1>11. ArchiveInv'
    BY <1>1, <1>2, <1>4 DEF JournalInv, ArchiveInv, new
  <1>12. ASSUME ~together
         PROVE  /\ \A d \in Call : d # c => writer[d] \notin Journal!Running
                /\ archive[t] = Journal!Partial(f) /\ new.rows = inode[f] /\ new.state = "whole"
    <2>1. \A d \in Call : d # c => writer[d] \notin Journal!Running
      BY <1>1, <1>12 DEF JournalInv, AloneInv, RunsIn, Journal!Running
    <2>2. archive[t] = Journal!Partial(f)
      BY <1>1, <1>12 DEF JournalInv, CopiedInv, RunsIn, t, f
    <2>3. QED
      BY <1>4, <2>1, <2>2
  <1>13. CopiedInv'
    <2> SUFFICES ASSUME ~together PROVE CopiedInv'
      BY <1>1 DEF CopiedInv
    <2>1. AtPath = Journal!Range(inode[f]) /\ AtPath' = AtPath
      BY <1>1, <1>2, PathRange, NextPathRange
    <2>2. AtPath \subseteq Archived'
      BY <1>2, <1>12, <2>1 DEF Archived, new
    <2>3. archive[t].rows = <<>>
      BY <1>12 DEF Journal!Partial
    <2>4. Journal!Range(<<>>) = {}
      BY DEF Journal!Range
    <2>5. Archived \subseteq Archived'
      <3>1. \A s \in Journal!Seconds : s # t =>
               Journal!Range(archive[s].rows) \subseteq Archived'
        BY <1>4 DEF Archived
      <3>2. \A s \in Journal!Seconds : Journal!Range(archive[s].rows) \subseteq Archived'
        BY <2>3, <2>4, <3>1
      <3>3. QED
        BY <3>2 DEF Archived
    <2>6. \A d \in Call : writer'[d] \notin {"rotate", "copying"}
      BY <1>6, <1>12 DEF Journal!Running
    <2>7. \A i \in 1..Len(inode') : Journal!Range(inode'[i]) \subseteq Archived' \cup AtPath'
      BY <1>1, <2>1, <2>5 DEF JournalInv, CopiedInv
    <2>8. QED
      BY <2>1, <2>2, <2>6, <2>7 DEF CopiedInv, RunsIn
  <1>14. TornInv'
    <2> SUFFICES ASSUME ~together, NEW s \in Journal!Seconds,
                        archive'[s].state \in {"partial", "mixed"}
                 PROVE  \E d \in Call : writer'[d] = "torn" \/ (writer'[d] = "copying" /\ gz'[d] = s)
      BY <1>1 DEF TornInv, RunsIn
    <2>1. s # t
      BY <1>12 DEF new
    <2>2. archive[s].state \in {"partial", "mixed"}
      BY <1>4, <2>1
    <2>3. PICK d \in Call : writer[d] = "torn" \/ (writer[d] = "copying" /\ gz[d] = s)
      BY <2>2 DEF JournalInv, TornInv, RunsIn
    <2>4. d # c
      BY <1>1, <2>1, <2>3 DEF t
    <2>5. QED
      BY <1>1, <1>6, <2>3, <2>4
  <1>15. QED
    BY <1>5, <1>8, <1>9, <1>10, <1>11, <1>13, <1>14 DEF JournalInv

LEMMA UnlinkStep == ASSUME JournalInv, NEW c \in Call, Journal!Unlink(c) PROVE JournalInv'
  <1>1. /\ JournalTypes /\ writer[c] = "copied" /\ live' = 0
        /\ UNCHANGED <<cand, source, fd, inode, gz, archive, second, together>>
        /\ writer' = [writer EXCEPT ![c] = "done"]
    BY DEF JournalInv, Journal!Unlink, Journal!identity, Journal!Goto, Journal!NoFile
  <1>2. JournalTypes'
    BY <1>1 DEF JournalTypes, Journal!Steps
  <1>3. /\ \A d \in Call : d # c => writer'[d] = writer[d]
        /\ writer'[c] = "done"
    BY <1>1 DEF JournalTypes
  <1>4. Archived' = Archived /\ Journal!Rotated' = Journal!Rotated /\ Journal!Rotated
    BY <1>1 DEF JournalInv, FirstFile, RunsIn, Archived, Journal!Rotated
  <1>5. FirstFile' /\ CheckedInv' /\ Journal!SerialMutex'
    BY <1>4 DEF FirstFile, CheckedInv, Journal!SerialMutex
  <1>6. ~together => \A d \in Call : writer'[d] \notin Journal!Running
    BY <1>1, <1>3 DEF JournalInv, AloneInv, RunsIn, Journal!Running
  <1>7. AloneInv'
    BY <1>1, <1>6 DEF AloneInv, RunsIn
  <1>8. OpenInv'
    BY <1>1, <1>3, <1>6 DEF JournalInv, OpenInv, RunsIn, Journal!Running
  <1>9. CopiedInv'
    <2> SUFFICES ASSUME ~together PROVE CopiedInv'
      BY <1>1 DEF CopiedInv
    <2>1. AtPath \subseteq Archived
      BY <1>1 DEF JournalInv, CopiedInv, RunsIn
    <2>2. \A i \in 1..Len(inode') : Journal!Range(inode'[i]) \subseteq Archived' \cup AtPath'
      BY <1>1, <1>4, <2>1 DEF JournalInv, CopiedInv
    <2>3. \A d \in Call : writer'[d] \notin {"rotate", "copying", "copied"}
      BY <1>6 DEF Journal!Running
    <2>4. QED
      BY <2>2, <2>3 DEF CopiedInv, RunsIn
  <1>11. ArchiveInv' /\ TornInv'
    BY <1>1, <1>3 DEF JournalInv, ArchiveInv, TornInv, RunsIn
  <1>10. QED
    BY <1>2, <1>5, <1>7, <1>8, <1>9, <1>11 DEF JournalInv

LEMMA CrashStep == ASSUME JournalInv, NEW c \in Call, Journal!Crash(c) PROVE JournalInv'
  <1>1. /\ JournalTypes /\ writer[c] \in Journal!Running
        /\ UNCHANGED <<cand, source, inode, live, gz, archive, second, together>>
        /\ fd' = [fd EXCEPT ![c] = 0]
        /\ writer' = [writer EXCEPT ![c] = IF writer[c] = "copying" THEN "torn" ELSE "crashed"]
    BY DEF JournalInv, Journal!Crash, Journal!identity, Journal!Goto, Journal!NoFile
  <1>2. JournalTypes'
    BY <1>1 DEF JournalTypes, Journal!Steps
  <1>3. /\ \A d \in Call : d # c => writer'[d] = writer[d] /\ fd'[d] = fd[d]
        /\ writer'[c] = IF writer[c] = "copying" THEN "torn" ELSE "crashed"
    BY <1>1 DEF JournalTypes
  <1>4. /\ Archived' = Archived /\ AtPath' = AtPath /\ Journal!Rotated' = Journal!Rotated
        /\ Journal!Written' = Journal!Written /\ ArchiveInv'
    BY <1>1, JournalPieces DEF JournalInv
  <1>5. OpenInv' /\ FirstFile'
    BY <1>1, <1>3, <1>4 DEF JournalInv, OpenInv, FirstFile, RunsIn
  <1>9. CopiedInv'
    BY <1>1, <1>3, <1>4 DEF JournalInv, CopiedInv, RunsIn, Journal!Partial
  <1>10. TornInv'
    <2> SUFFICES ASSUME ~together, NEW s \in Journal!Seconds,
                        archive[s].state \in {"partial", "mixed"}
                 PROVE  \E d \in Call : writer'[d] = "torn" \/ (writer'[d] = "copying" /\ gz[d] = s)
      BY <1>1 DEF TornInv, RunsIn
    <2>1. PICK d \in Call : writer[d] = "torn" \/ (writer[d] = "copying" /\ gz[d] = s)
      BY DEF JournalInv, TornInv, RunsIn
    <2>2. QED
      BY <1>1, <1>3, <2>1 DEF Journal!Running
  <1>6. AloneInv'
    BY <1>1, <1>3 DEF JournalInv, AloneInv, RunsIn, Journal!Running
  <1>7. CheckedInv' /\ Journal!SerialMutex'
    BY <1>1, <1>3, <1>4 DEF JournalInv, CheckedInv, RunsIn,
       Journal!SerialMutex, Journal!SourceMutex, Journal!Compatible
  <1>8. QED
    BY <1>2, <1>4, <1>5, <1>6, <1>7, <1>9, <1>10 DEF JournalInv

LEMMA TickStep == ASSUME JournalInv, Journal!Tick PROVE JournalInv'
  <1>1. /\ UNCHANGED <<writer, cand, source, fd, inode, live, gz, archive, together>>
        /\ second < MaxSecond /\ second' = second + 1
    BY DEF Journal!Tick, Journal!identity
  <1>2. JournalTypes'
    BY <1>1, JournalAssumption DEF JournalInv, JournalTypes, Journal!Seconds
  <1>3. /\ Archived' = Archived /\ AtPath' = AtPath /\ Journal!Rotated' = Journal!Rotated
        /\ Journal!Written' = Journal!Written /\ ArchiveInv'
    BY <1>1, JournalPieces DEF JournalInv
  <1>4. OpenInv' /\ FirstFile' /\ CopiedInv' /\ AloneInv' /\ TornInv'
    BY <1>1, <1>3 DEF JournalInv, OpenInv, FirstFile, CopiedInv, AloneInv, TornInv, RunsIn,
       Journal!Partial, Journal!Seconds
  <1>5. CheckedInv' /\ Journal!SerialMutex'
    BY <1>1, <1>3 DEF JournalInv, CheckedInv, RunsIn,
       Journal!SerialMutex, Journal!SourceMutex, Journal!Compatible
  <1>6. QED
    BY <1>2, <1>3, <1>4, <1>5 DEF JournalInv

LEMMA JournalStill == ASSUME JournalInv, UNCHANGED journalVars PROVE JournalInv'
  <1>1. UNCHANGED <<writer, cand, source, fd, inode, live, gz, archive, second, together>>
    BY DEF journalVars
  <1>2. /\ Archived' = Archived /\ AtPath' = AtPath /\ Journal!Rotated' = Journal!Rotated
        /\ Journal!Written' = Journal!Written /\ ArchiveInv'
    BY <1>1, JournalPieces DEF JournalInv
  <1>3. /\ JournalTypes' /\ OpenInv' /\ FirstFile' /\ CopiedInv' /\ AloneInv' /\ TornInv'
    BY <1>1, <1>2 DEF JournalInv, JournalTypes, OpenInv, FirstFile, CopiedInv, AloneInv,
       TornInv, RunsIn, Journal!Partial, Journal!Seconds
  <1>4. CheckedInv' /\ Journal!SerialMutex'
    BY <1>1, <1>2 DEF JournalInv, CheckedInv, RunsIn,
       Journal!SerialMutex, Journal!SourceMutex, Journal!Compatible
  <1>5. QED
    BY <1>2, <1>3, <1>4 DEF JournalInv

-----------------------------------------------------------------------------
(* What the replay finds *)

LEMMA JournalComplete == ASSUME JournalInv PROVE Journal!HistoryKept
  <1>1. inode \in Seq(Seq(Call)) /\ DOMAIN inode = 1..Len(inode) /\ live \in 0..Len(inode)
    BY DEF JournalInv, JournalTypes
  <1>2. Journal!OnDisk = Archived \cup AtPath
    BY DEF Journal!OnDisk, Archived, AtPath
  <1>3. ASSUME ~together PROVE Journal!HistoryComplete
    BY <1>1, <1>2, <1>3 DEF JournalInv, CopiedInv, Journal!HistoryComplete, Journal!Written
  <1>4. ASSUME ~Journal!Rotated PROVE Journal!HistoryComplete
    <2>1. \A i \in 1..Len(inode) : i = live /\ live # 0
      BY <1>1, <1>4 DEF JournalInv, FirstFile
    <2>2. QED
      BY <1>1, <1>2, <2>1, PathRange DEF Journal!HistoryComplete, Journal!Written
  <1>5. QED
    BY <1>3, <1>4 DEF Journal!HistoryKept

LEMMA TornIsCopy == ASSUME JournalInv PROVE Journal!TornInCopy
  BY DEF JournalInv, TornInv, RunsIn, Journal!TornInCopy, Journal!ReplayRaises

\* append_history, for any number of calls in processes of their own that may
\* die in any step, also in the middle of the copy of a rotation: what was
\* written is in the file or in a whole archive, unless calls overlapped and a
\* rotation began; of calls one after the other, an archive that the replay
\* cannot read is one that a call copies to, or died copying to; and until a
\* rotation, calls one after the other respect the source mutex.
THEOREM JournalIsSound == RootSpec => []JournalSound
  <1> DEFINE Inv == part = "journal" => JournalInv
  <1>1. RootInit => Inv
    BY JournalInit DEF RootInit
  <1>2. Inv /\ [Drive \/ Write \/ Wake]_rootVars => Inv'
    <2> SUFFICES ASSUME Inv, [Drive \/ Write \/ Wake]_rootVars, part' = "journal"
                 PROVE  JournalInv'
      OBVIOUS
    <2>1. CASE Drive \/ Wake \/ UNCHANGED rootVars
      <3>1. UNCHANGED journalVars /\ part' = part
        BY <2>1 DEF Drive, Wake, rootVars
      <3>2. QED
        BY <3>1, JournalStill
    <2>2. CASE Write
      <3>1. JournalInv /\ Journal!Next
        BY <2>2 DEF Write
      <3>2. QED
        BY <3>1, BeginStep, CheckStep, OpenStep, WriteStep, OpenGzStep, CloseGzStep, UnlinkStep,
           CrashStep, TickStep DEF Journal!Next
    <2>3. QED
      BY <2>1, <2>2
  <1>3. Inv => JournalSound
    BY JournalComplete, TornIsCopy DEF JournalSound, JournalInv
  <1>4. QED
    BY <1>1, <1>2, <1>3, PTL DEF RootSpec
=============================================================================
