--------------------------- MODULE RequestsProofs ---------------------------
(***************************************************************************)
(* Proofs about the request side of the service: the rate limiter keeps    *)
(* its limit and its Retry-After, the caches serve only what the exchange  *)
(* had, the downloads are complete, and the stores of a chat keep what     *)
(* they were given, for any number of requests, processes, threads, runs,  *)
(* restarts and failing calls, and for every limit, window, page, history  *)
(* and time to live.                                                       *)
(***************************************************************************)
EXTENDS Requests, FiniteSetTheorems, SequenceTheorems, WellFoundedInduction, TLAPS

\* A set of natural numbers that is not empty has a least member.
LEMMA LeastNatural ==
  ASSUME NEW S \in SUBSET Nat, S # {}
  PROVE  Min(S) \in S /\ \A y \in S : Min(S) <= y
<1> DEFINE Less == {ss \in Nat \X Nat : ss[1] < ss[2]}
<1>1. OpToRel(<, Nat) = Less
  BY DEF OpToRel
<1>2. PICK x \in S : \A y \in S : <<y, x>> \notin Less
  <2>1. \E x \in S : \A y \in S : <<y, x>> \notin OpToRel(<, Nat)
    BY NatLessThanWellFounded, WFMin
  <2> QED
    BY <1>1, <2>1
<1>3. ASSUME NEW y \in S PROVE x <= y
  <2>1. y \in Nat /\ x \in Nat /\ <<y, x>> \in Nat \X Nat
    OBVIOUS
  <2>2. ~(<<y, x>>[1] < <<y, x>>[2])
    BY <1>2, <2>1
  <2> QED
    BY <2>1, <2>2
<1> QED
  BY <1>3 DEF Min

-----------------------------------------------------------------------------
(* The rate limiter *)

Pcs == {"new", "waiting", "admitted", "refused", "reset", "lookup", "create", "reserve", "candles", "fetch", "detect"}
          \cup Final
RqState == [pc : Pcs, proc : Server \cup {None}, born : Nat, key : Keys \cup {None}, read : Nat,
            admitted : BOOLEAN, left : SUBSET Request, promise : Int, again : BOOLEAN, record : BOOLEAN,
            age : Int \cup {None}, ended : Nat]

RouteTypes ==
    /\ now \in Nat
    /\ hits \in [Server -> SUBSET Request]
    /\ born \in [Server -> Nat]
    /\ rq \in [Request -> RqState]

\* A request that goes on runs in the process as it is since its last restart.
LiveInv ==
    \A r \in Request :
        /\ rq[r].pc \notin Final \cup {"new"} => rq[r].proc \in Server /\ rq[r].born = born[rq[r].proc]
        /\ rq[r].proc \in Server => rq[r].born <= born[rq[r].proc]
        /\ rq[r].pc = "new" => ~rq[r].admitted
        /\ rq[r].pc = "waiting" => /\ ~rq[r].admitted
                                   /\ rq[r].read <= now /\ now - rq[r].read <= MaxWait

\* A timestamp that an admission left is dropped only when it is out of the
\* window by the true time.
HitInv ==
    \A p \in Server :
        /\ Cardinality(hits[p]) <= RateMax
        /\ \A r \in hits[p] : rq[r].pc # "new"
        /\ \A r \in Admitted(p, born[p]) : r \notin hits[p] => rq[r].read <= now - Window

\* What a refused request was told about.
LeftInv == \A r \in Request : \A q \in rq[r].left : rq[q].pc # "new"

LimiterInv == RouteTypes /\ LiveInv /\ HitInv /\ LeftInv /\ LimiterSound

LEMMA RequestsAreFinite ==
  /\ IsFiniteSet(Request)
  /\ \A S \in SUBSET Request : IsFiniteSet(S) /\ Cardinality(S) \in Nat
<1>1. IsFiniteSet(Request)
  BY FS_Interval, RouteAssumption DEF Request
<1> QED
  BY <1>1, FS_Subset, FS_CardinalityType

LEMMA LimiterStarts == Init => LimiterInv
<1> SUFFICES ASSUME RouteInit PROVE LimiterInv
  BY DEF Init
<1>1. New \in RqState /\ New.pc = "new" /\ ~New.admitted /\ New.born = 0 /\ New.left = {}
  BY DEF New, RqState, Pcs
<1>2. /\ now = 0 /\ \A r \in Request : rq[r] = New
      /\ \A p \in Server : hits[p] = {} /\ born[p] = 0
  BY DEF RouteInit
<1>3. RouteTypes
  BY <1>1 DEF RouteInit, RouteTypes
<1>4. LiveInv
  BY <1>1, <1>2 DEF LiveInv
<1>5. \A p, b, t : Admitted(p, b) = {} /\ Stretch(p, b, t) = {}
  BY <1>1, <1>2 DEF Admitted, Stretch
<1>6. Cardinality({}) = 0 /\ 0 <= RateMax
  BY FS_EmptySet, RouteAssumption
<1>7. HitInv
  BY <1>2, <1>5, <1>6 DEF HitInv
<1>8. LeftInv /\ LimiterSound
  BY <1>1, <1>2, <1>5, <1>6 DEF LeftInv, LimiterSound, RateBound, RetryAfterHonest, Is, Final
<1> QED
  BY <1>3, <1>4, <1>7, <1>8 DEF LimiterInv

-----------------------------------------------------------------------------
\* What was admitted, where and when, stays on record.
Recorded ==
    \A r \in Request :
        /\ rq'[r].admitted = rq[r].admitted
        /\ rq[r].pc # "new" => /\ rq'[r].pc # "new" /\ rq'[r].proc = rq[r].proc
                               /\ rq'[r].born = rq[r].born /\ rq'[r].read = rq[r].read

LEMMA RecordKeeps ==
  ASSUME LimiterInv, Recorded
  PROVE  RateBound' /\ \A p, b : Admitted(p, b)' = Admitted(p, b)
<1>1. \A p, b : Admitted(p, b)' = Admitted(p, b)
  BY DEF LimiterInv, LiveInv, Recorded, Admitted
<1>2. \A p, b, t : Stretch(p, b, t)' = Stretch(p, b, t)
  <2> TAKE p, b, t
  <2>1. \A r \in Admitted(p, b) : rq'[r].read = rq[r].read
    BY DEF LimiterInv, LiveInv, Recorded, Admitted
  <2> QED
    BY <1>1, <2>1 DEF Stretch
<1> QED
  BY <1>1, <1>2 DEF LimiterInv, LimiterSound, RateBound

\* A request that was refused keeps its promise.
LEMMA PromiseKeeps ==
  ASSUME LimiterInv, Recorded, NEW r \in Request,
         rq'[r].left = rq[r].left, rq'[r].promise = rq[r].promise,
         rq'[r].pc = "limited" => rq[r].pc = "limited"
  PROVE  /\ Is(r, "limited")' => HasRoom(Pruned(rq[r].left, rq[r].promise))'
         /\ \A q \in rq'[r].left : rq'[q].pc # "new"
<1>1. rq[r].left \subseteq Request /\ \A q \in rq[r].left : rq[q].pc # "new"
  BY DEF LimiterInv, LeftInv, RouteTypes, RqState
<1>2. \A q \in rq[r].left : rq'[q].pc # "new" /\ rq'[q].read = rq[q].read
  BY <1>1 DEF Recorded
<1>3. Pruned(rq[r].left, rq[r].promise)' = Pruned(rq[r].left, rq[r].promise)
  BY <1>2 DEF Pruned
<1>4. Is(r, "limited")' => HasRoom(Pruned(rq[r].left, rq[r].promise))
  BY DEF LimiterInv, LimiterSound, RetryAfterHonest, Is
<1> QED
  BY <1>2, <1>3, <1>4 DEF HasRoom

\* Timestamps that are out of the window may go.
LEMMA PruneKeeps ==
  ASSUME LimiterInv, Recorded, born' = born, now' \in Nat, now <= now',
         hits' \in [Server -> SUBSET Request],
         \A p \in Server : /\ hits'[p] \subseteq hits[p]
                           /\ \A q \in hits[p] \ hits'[p] : rq[q].read <= now' - Window
  PROVE  HitInv'
<1> SUFFICES ASSUME NEW p \in Server
             PROVE  /\ Cardinality(hits'[p]) <= RateMax
                    /\ \A r \in hits'[p] : rq'[r].pc # "new"
                    /\ \A r \in Admitted(p, born[p])' : r \notin hits'[p] => rq'[r].read <= now' - Window
  BY DEF HitInv
<1>1. hits[p] \subseteq Request /\ hits'[p] \subseteq hits[p] /\ now \in Nat /\ Window \in Nat
  BY RouteAssumption DEF LimiterInv, RouteTypes, Window, Ticks
<1>2. Cardinality(hits'[p]) <= RateMax
  <2>1. Cardinality(hits'[p]) <= Cardinality(hits[p])
    BY <1>1, RequestsAreFinite, FS_Subset
  <2> QED
    BY <1>1, <2>1, RequestsAreFinite, RouteAssumption DEF LimiterInv, HitInv
<1>3. \A r \in hits'[p] : rq'[r].pc # "new"
  BY <1>1 DEF LimiterInv, HitInv, Recorded
<1>4. ASSUME NEW r \in Admitted(p, born[p])', r \notin hits'[p] PROVE rq'[r].read <= now' - Window
  <2>1. r \in Admitted(p, born[p])
    BY RecordKeeps, <1>4
  <2>2. r \in Request /\ rq[r].pc # "new"
    BY <2>1 DEF Admitted, LimiterInv, LiveInv
  <2>3. rq'[r].read = rq[r].read /\ rq[r].read \in Nat
    BY <2>2 DEF Recorded, LimiterInv, RouteTypes, RqState
  <2>4. rq[r].read <= now - Window \/ r \in hits[p] \ hits'[p]
    BY <2>1, <1>4 DEF LimiterInv, HitInv
  <2> QED
    BY <1>1, <2>3, <2>4
<1> QED
  BY <1>2, <1>3, <1>4

\* A step of one request that is past the limiter's lock, or at its remaining().
Passes(r) ==
    /\ rq[r].pc \notin Final \cup {"new", "waiting"}
    /\ rq'[r].pc \notin {"new", "waiting"}
    /\ rq'[r].proc = rq[r].proc /\ rq'[r].born = rq[r].born /\ rq'[r].read = rq[r].read
    /\ rq'[r].admitted = rq[r].admitted
    /\ \A q \in Request : q # r => rq'[q] = rq[q]
    /\ rq' \in [Request -> RqState]
    /\ UNCHANGED <<now, born>>

LEMMA PassingKeeps ==
  ASSUME LimiterInv, NEW r \in Request, Passes(r),
         hits' \in [Server -> SUBSET Request],
         \A p \in Server : /\ hits'[p] \subseteq hits[p]
                           /\ \A q \in hits[p] \ hits'[p] : rq[q].read <= now - Window,
         rq'[r].pc = "limited" =>
            HasRoom(Pruned(rq[r].left, rq[r].promise))' /\ \A q \in rq'[r].left : rq[q].pc # "new",
         rq'[r].pc # "limited" => rq'[r].left = rq[r].left /\ rq'[r].promise = rq[r].promise
  PROVE  LimiterInv'
<1>1. Recorded
  BY DEF Passes, Recorded
<1>2. RouteTypes'
  BY DEF LimiterInv, RouteTypes, Passes
<1>3. LiveInv'
  BY DEF LimiterInv, LiveInv, Passes
<1>4. HitInv'
  BY <1>1, PruneKeeps DEF Passes, LimiterInv, RouteTypes
<1>5. ASSUME NEW q \in Request
      PROVE  /\ Is(q, "limited")' => HasRoom(Pruned(rq[q].left, rq[q].promise))'
             /\ \A s \in rq'[q].left : rq'[s].pc # "new"
  <2>1. CASE q = r /\ rq'[r].pc = "limited"
    <3>1. rq'[r].left \subseteq Request
      BY DEF Passes, RqState
    <3> QED
      BY <2>1, <3>1, <1>1 DEF Recorded
  <2>2. CASE ~(q = r /\ rq'[r].pc = "limited")
    <3>1. rq'[q].left = rq[q].left /\ rq'[q].promise = rq[q].promise /\ (rq'[q].pc = "limited" => rq[q].pc = "limited")
      BY <2>2 DEF Passes
    <3> QED
      BY <1>1, <3>1, PromiseKeeps
  <2> QED
    BY <2>1, <2>2
<1>6. LeftInv' /\ RetryAfterHonest'
  BY <1>5 DEF LeftInv, RetryAfterHonest
<1> QED
  BY <1>1, <1>2, <1>3, <1>4, <1>6, RecordKeeps DEF LimiterInv, LimiterSound

-----------------------------------------------------------------------------
(* The steps of the limiter *)

LEMMA AskKeeps ==
  ASSUME LimiterInv, NEW r \in Request, NEW p \in Server, NEW k \in Keys, Ask(r, p, k)
  PROVE  LimiterInv'
<1>1. /\ rq[r].pc = "new" /\ UNCHANGED <<now, hits, born>>
      /\ rq' = [rq EXCEPT ![r].pc = "waiting", ![r].proc = p, ![r].born = born[p], ![r].key = k, ![r].read = now]
  BY DEF Ask, Is
<1>2. rq \in [Request -> RqState] /\ born[p] \in Nat /\ now \in Nat
  BY DEF LimiterInv, RouteTypes
<1>3. /\ rq' \in [Request -> RqState]
      /\ \A q \in Request : q # r => rq'[q] = rq[q]
      /\ rq'[r].pc = "waiting" /\ rq'[r].proc = p /\ rq'[r].born = born[p] /\ rq'[r].read = now
      /\ rq'[r].admitted = rq[r].admitted /\ rq'[r].left = rq[r].left /\ rq'[r].promise = rq[r].promise
  <2>1. rq[r] \in RqState
    BY <1>2
  <2>2. rq'[r] = [rq[r] EXCEPT !.pc = "waiting", !.proc = p, !.born = born[p], !.key = k, !.read = now]
    BY <1>1, <1>2
  <2>3. "waiting" \in Pcs /\ p \in Server \cup {None} /\ k \in Keys \cup {None}
    BY DEF Pcs
  <2>4. rq'[r] \in RqState
    BY <1>2, <2>1, <2>2, <2>3 DEF RqState
  <2>5. /\ rq'[r].pc = "waiting" /\ rq'[r].proc = p /\ rq'[r].born = born[p] /\ rq'[r].read = now
        /\ rq'[r].admitted = rq[r].admitted /\ rq'[r].left = rq[r].left /\ rq'[r].promise = rq[r].promise
    BY <2>1, <2>2 DEF RqState
  <2> QED
    BY <1>1, <1>2, <2>4, <2>5
<1>4. Recorded
  BY <1>1, <1>3 DEF Recorded
<1>5. RouteTypes'
  BY <1>1, <1>3 DEF LimiterInv, RouteTypes
<1>6. LiveInv'
  BY <1>1, <1>2, <1>3, RouteAssumption DEF LimiterInv, LiveInv
<1>7. HitInv'
  BY <1>1, <1>2, <1>4, PruneKeeps DEF LimiterInv, RouteTypes
<1>8. \A q \in Request : rq'[q].left = rq[q].left /\ rq'[q].promise = rq[q].promise
                           /\ (rq'[q].pc = "limited" => rq[q].pc = "limited")
  BY <1>3
<1>9. LeftInv' /\ RetryAfterHonest'
  BY <1>4, <1>8, PromiseKeeps DEF LeftInv, RetryAfterHonest
<1> QED
  BY <1>4, <1>5, <1>6, <1>7, <1>9, RecordKeeps DEF LimiterInv, LimiterSound

\* The admission itself: whoever is in the stretch that ends with this request
\* is still in the list, since the request waited at most MaxWait for the lock.
LEMMA AllowKeeps ==
  ASSUME LimiterInv, NEW r \in Request, is_allowed(r)
  PROVE  LimiterInv'
<1> DEFINE p == rq[r].proc
           h == Pruned(hits[p], rq[r].read)
           ok == HasRoom(h)
<1>1. /\ rq[r].pc = "waiting" /\ UNCHANGED <<now, born>>
      /\ hits' = [hits EXCEPT ![p] = IF ok THEN h \cup {r} ELSE h]
      /\ rq' = [rq EXCEPT ![r].pc = IF ok THEN "admitted" ELSE "refused", ![r].admitted = ok]
  BY DEF is_allowed, Is
<1>2. /\ rq \in [Request -> RqState] /\ hits \in [Server -> SUBSET Request] /\ now \in Nat
      /\ p \in Server /\ rq[r].born = born[p] /\ ~rq[r].admitted
      /\ rq[r].read \in Nat /\ rq[r].read <= now /\ now - rq[r].read <= MaxWait
  <2>1. p \in Server /\ rq[r].born = born[p]
    BY <1>1 DEF LimiterInv, LiveInv, Final
  <2> QED
    BY <1>1, <2>1 DEF LimiterInv, LiveInv, RouteTypes, RqState
<1>3. Window \in Nat /\ MaxWait \in Nat /\ RateMax \in Nat
  BY RouteAssumption DEF Window, Ticks
<1>4. ok \in BOOLEAN
  BY DEF HasRoom
<1>5. /\ rq' \in [Request -> RqState]
      /\ \A q \in Request : q # r => rq'[q] = rq[q]
      /\ rq'[r].pc \in {"admitted", "refused"} /\ rq'[r].proc = p /\ rq'[r].born = rq[r].born
      /\ rq'[r].read = rq[r].read /\ rq'[r].admitted = ok
      /\ rq'[r].left = rq[r].left /\ rq'[r].promise = rq[r].promise
  <2> HIDE DEF ok
  <2>1. rq[r] \in RqState
    BY <1>2
  <2>2. rq'[r] = [rq[r] EXCEPT !.pc = IF ok THEN "admitted" ELSE "refused", !.admitted = ok]
    BY <1>1, <1>2
  <2>3. (IF ok THEN "admitted" ELSE "refused") \in Pcs
    BY DEF Pcs
  <2>4. rq'[r] \in RqState
    BY <1>4, <2>1, <2>2, <2>3 DEF RqState
  <2>5. /\ rq'[r].pc = (IF ok THEN "admitted" ELSE "refused") /\ rq'[r].proc = rq[r].proc
        /\ rq'[r].born = rq[r].born /\ rq'[r].read = rq[r].read /\ rq'[r].admitted = ok
        /\ rq'[r].left = rq[r].left /\ rq'[r].promise = rq[r].promise
    BY <2>1, <2>2 DEF RqState
  <2> QED
    BY <1>1, <1>2, <2>4, <2>5
<1>6. h \subseteq hits[p] /\ h \subseteq Request /\ \A q \in hits[p] : q \notin h => rq[q].read <= rq[r].read - Window
  BY <1>2, <1>3 DEF Pruned, RqState
<1>7. /\ hits' \in [Server -> SUBSET Request]
      /\ \A s \in Server : s # p => hits'[s] = hits[s]
      /\ hits'[p] = IF ok THEN h \cup {r} ELSE h
  <2> HIDE DEF ok, h
  <2> QED
    BY <1>1, <1>2, <1>6
<1> HIDE DEF h, p, ok
<1>8. ok => Cardinality(h) < RateMax
  BY DEF ok, HasRoom
<1>9. Cardinality(hits'[p]) <= RateMax
  <2>1. CASE ok
    <3>1. Cardinality(h \cup {r}) <= Cardinality(h) + 1
      BY <1>6, RequestsAreFinite, FS_AddElement
    <3> QED
      BY <2>1, <1>3, <1>6, <1>7, <1>8, <3>1, RequestsAreFinite
  <2>2. CASE ~ok
    <3>1. Cardinality(h) <= Cardinality(hits[p]) /\ Cardinality(hits[p]) <= RateMax
      BY <1>2, <1>6, RequestsAreFinite, FS_Subset DEF LimiterInv, HitInv
    <3> QED
      BY <2>2, <1>2, <1>3, <1>6, <1>7, <3>1, RequestsAreFinite
  <2> QED
    BY <2>1, <2>2
<1>10. \A s, b : Admitted(s, b)' = IF ok /\ s = p /\ b = born[p] THEN Admitted(s, b) \cup {r} ELSE Admitted(s, b)
  <2> TAKE s, b
  <2>1. \A q \in Request : q # r => (q \in Admitted(s, b)' <=> q \in Admitted(s, b))
    BY <1>5 DEF Admitted
  <2>2. r \in Admitted(s, b)' <=> (ok /\ s = p /\ b = born[p])
    BY <1>2, <1>5 DEF Admitted
  <2>3. r \notin Admitted(s, b) /\ Admitted(s, b) \subseteq Request /\ Admitted(s, b)' \subseteq Request
    BY <1>2 DEF Admitted
  <2> QED
    BY <2>1, <2>2, <2>3
<1>11. \A q \in Request : rq'[q].read = rq[q].read /\ rq[q].read \in Nat /\ (rq[q].pc # "new" => rq'[q].pc # "new")
  BY <1>2, <1>5 DEF RqState
<1>12. HitInv'
  <2> SUFFICES ASSUME NEW s \in Server
               PROVE  /\ Cardinality(hits'[s]) <= RateMax
                      /\ \A q \in hits'[s] : rq'[q].pc # "new"
                      /\ \A q \in Admitted(s, born[s])' : q \notin hits'[s] => rq'[q].read <= now - Window
    BY <1>1 DEF HitInv
  <2>1. Cardinality(hits'[s]) <= RateMax
    BY <1>7, <1>9 DEF LimiterInv, HitInv
  <2>2. \A q \in hits[s] : q \in Request /\ rq[q].pc # "new"
    BY <1>2 DEF LimiterInv, HitInv
  <2>3. \A q \in hits'[s] : q \in hits[s] \/ q = r
    BY <1>6, <1>7
  <2>4. \A q \in hits'[s] : rq'[q].pc # "new"
    BY <1>1, <1>11, <2>2, <2>3
  <2>5. ASSUME NEW q \in Admitted(s, born[s])', q \notin hits'[s] PROVE rq'[q].read <= now - Window
    <3>0. Admitted(s, born[s])' = IF ok /\ s = p THEN Admitted(s, born[s]) \cup {r} ELSE Admitted(s, born[s])
      BY <1>1, <1>10
    <3>1. q \in Admitted(s, born[s])
      BY <2>5, <3>0, <1>7
    <3>2. q \in Request
      BY <3>1 DEF Admitted
    <3>3. CASE q \notin hits[s]
      BY <3>1, <3>2, <3>3, <1>11 DEF LimiterInv, HitInv
    <3>4. CASE q \in hits[s]
      <4>1. s = p /\ q \notin h
        BY <2>5, <3>4, <1>7
      <4>2. rq[q].read <= rq[r].read - Window
        BY <4>1, <3>4, <1>6
      <4> QED
        BY <4>2, <3>2, <1>2, <1>3, <1>11
    <3> QED
      BY <3>3, <3>4
  <2> QED
    BY <2>1, <2>4, <2>5
<1>13. RateBound'
  <2> SUFFICES ASSUME NEW s \in Server, NEW b \in 0..MaxRestarts, NEW t \in 0..MaxTime
               PROVE  Cardinality(Stretch(s, b, t)') <= RateMax
    BY DEF RateBound
  <2>1. t \in Int /\ b \in Int
    BY RouteAssumption
  <2>2. CASE r \notin Stretch(s, b, t)'
    <3>1. \A q : q \in Stretch(s, b, t)' <=> q \in Stretch(s, b, t)
      <4> TAKE q
      <4>1. CASE q = r
        BY <4>1, <2>2, <1>2 DEF Stretch, Admitted
      <4>2. CASE q # r
        <5>1. q \in Admitted(s, b)' <=> q \in Admitted(s, b)
          BY <4>2, <1>10
        <5> QED
          BY <5>1, <1>11 DEF Stretch, Admitted
      <4> QED
        BY <4>1, <4>2
    <3>2. Stretch(s, b, t)' = Stretch(s, b, t)
      BY <3>1
    <3> QED
      BY <3>2 DEF LimiterInv, LimiterSound, RateBound
  <2>3. CASE r \in Stretch(s, b, t)'
    <3>1. ok /\ s = p /\ b = born[p] /\ rq[r].read <= t
      <4>1. r \in Admitted(s, b)' /\ rq'[r].read <= t
        BY <2>3 DEF Stretch
      <4>2. r \notin Admitted(s, b)
        BY <1>2 DEF Admitted
      <4> QED
        BY <4>1, <4>2, <1>10, <1>11
    <3>2. ASSUME NEW q \in Stretch(s, b, t)', q # r PROVE q \in h
      <4>1. q \in Admitted(p, born[p]) /\ q \in Request /\ rq[q].read > t - (Window - MaxWait)
        <5>1. q \in Admitted(s, b)' /\ rq'[q].read > t - (Window - MaxWait)
          BY <3>2 DEF Stretch
        <5>2. q \in Admitted(p, born[p]) /\ q \in Request
          <6>1. Admitted(s, b)' = Admitted(p, born[p]) \cup {r}
            BY <3>1, <1>10
          <6> QED
            BY <5>1, <6>1, <3>2 DEF Admitted
        <5> QED
          BY <5>1, <5>2, <1>11
      <4>2. rq[q].read \in Nat /\ rq[q].read > now - Window /\ rq[q].read > rq[r].read - Window
        BY <4>1, <3>1, <2>1, <1>2, <1>3, <1>11
      <4>3. q \in hits[p]
        BY <4>1, <4>2, <1>2, <1>3 DEF LimiterInv, HitInv
      <4> QED
        BY <4>2, <4>3, <1>2, <1>3, <1>6
    <3>3. Stretch(s, b, t)' \subseteq h \cup {r}
      BY <3>2
    <3>4. Cardinality(h \cup {r}) <= RateMax
      BY <3>1, <1>7, <1>9
    <3>5. Cardinality(Stretch(s, b, t)') <= Cardinality(h \cup {r})
      BY <3>3, <1>6, RequestsAreFinite, FS_Subset
    <3> QED
      BY <3>3, <3>4, <3>5, <1>3, <1>6, RequestsAreFinite
  <2> QED
    BY <2>2, <2>3
<1>14. LiveInv'
  BY <1>1, <1>2, <1>5 DEF LimiterInv, LiveInv
<1>15. LeftInv' /\ RetryAfterHonest'
  <2> SUFFICES ASSUME NEW q \in Request
               PROVE  /\ \A s \in rq'[q].left : rq'[s].pc # "new"
                      /\ Is(q, "limited")' => HasRoom(Pruned(rq[q].left, rq[q].promise))'
    BY DEF LeftInv, RetryAfterHonest
  <2>1. rq'[q].left = rq[q].left /\ rq'[q].promise = rq[q].promise /\ (rq'[q].pc = "limited" => rq[q].pc = "limited")
    BY <1>5
  <2>2. rq[q].left \subseteq Request /\ \A s \in rq[q].left : rq[s].pc # "new"
    BY <1>2 DEF LimiterInv, LeftInv, RqState
  <2>3. Pruned(rq[q].left, rq[q].promise)' = Pruned(rq[q].left, rq[q].promise)
    BY <2>1, <2>2, <1>11 DEF Pruned
  <2> QED
    BY <2>1, <2>2, <2>3, <1>11 DEF LimiterInv, LimiterSound, RetryAfterHonest, HasRoom, Is
<1>16. RouteTypes'
  BY <1>1, <1>2, <1>5, <1>7 DEF LimiterInv, RouteTypes
<1> QED
  BY <1>12, <1>13, <1>14, <1>15, <1>16 DEF LimiterInv, LimiterSound

LEMMA RemainingKeeps ==
  ASSUME LimiterInv, NEW r \in Request, remaining(r)
  PROVE  LimiterInv'
<1>1. PICK s \in {"lookup", "reset"} :
        /\ rq[r].pc \in {"admitted", "refused"} /\ UNCHANGED <<now, born>>
        /\ rq' = [rq EXCEPT ![r].pc = s]
        /\ hits' = [hits EXCEPT ![rq[r].proc] = Pruned(@, now)]
  BY DEF remaining, Becomes
<1>2. /\ rq \in [Request -> RqState] /\ hits \in [Server -> SUBSET Request] /\ now \in Nat
      /\ Window \in Nat /\ \A q \in Request : rq[q].read \in Nat
  BY RouteAssumption DEF LimiterInv, RouteTypes, RqState, Window, Ticks
<1>3. Passes(r) /\ rq'[r].pc = s /\ rq'[r].left = rq[r].left /\ rq'[r].promise = rq[r].promise
  <2>1. rq[r] \in RqState /\ rq'[r] = [rq[r] EXCEPT !.pc = s] /\ s \in Pcs
    BY <1>1, <1>2 DEF Pcs
  <2>2. rq'[r] \in RqState
    BY <2>1 DEF RqState
  <2>3. /\ rq'[r].pc = s /\ rq'[r].left = rq[r].left /\ rq'[r].promise = rq[r].promise
        /\ rq'[r].proc = rq[r].proc /\ rq'[r].born = rq[r].born /\ rq'[r].read = rq[r].read
        /\ rq'[r].admitted = rq[r].admitted
    BY <2>1 DEF RqState
  <2> QED
    BY <1>1, <1>2, <2>2, <2>3 DEF Passes, Final
<1>4. ASSUME NEW p \in Server
      PROVE  /\ hits'[p] \subseteq hits[p]
             /\ \A q \in hits[p] \ hits'[p] : rq[q].read <= now - Window
  BY <1>1, <1>2 DEF Pruned
<1>5. hits' \in [Server -> SUBSET Request]
  BY <1>1, <1>2, <1>4
<1>6. s # "limited"
  BY <1>1
<1> QED
  BY <1>3, <1>4, <1>5, <1>6, PassingKeeps

\* The oldest entry of a full list is out of the window when Retry-After is over.
LEMMA LimitedKeeps ==
  ASSUME LimiterInv, NEW r \in Request, Limited(r)
  PROVE  LimiterInv'
<1> DEFINE p == rq[r].proc
           h == hits[p]
           reads == {rq[q].read : q \in h}
           secs == IF h = {} THEN RateWindow ELSE Max({1, ResetIn(Min(reads))})
<1>1. /\ rq[r].pc = "reset" /\ UNCHANGED <<now, born, hits>>
      /\ rq' = [rq EXCEPT ![r].pc = "limited", ![r].left = h, ![r].promise = now + Ticks(secs)]
  BY DEF Limited, Is
<1>2. /\ rq \in [Request -> RqState] /\ hits \in [Server -> SUBSET Request] /\ now \in Nat
      /\ Window \in Nat /\ RateMax \in Nat \ {0} /\ \A q \in Request : rq[q].read \in Nat
  BY RouteAssumption DEF LimiterInv, RouteTypes, RqState, Window, Ticks
<1>3. p \in Server /\ h \subseteq Request
  BY <1>1, <1>2 DEF LimiterInv, LiveInv, Final
<1>4. h # {} => \E o \in h : /\ rq[o].read = Min(reads) /\ Min(reads) \in Nat
  <2>1. reads \subseteq Nat /\ (h # {} => reads # {})
    BY <1>2, <1>3
  <2>2. h # {} => Min(reads) \in reads
    BY <2>1, LeastNatural
  <2> QED
    BY <2>1, <2>2
<1>5. /\ h # {} => secs \in Nat /\ secs >= 1 /\ secs >= ResetIn(Min(reads)) /\ ResetIn(Min(reads)) \in Int
      /\ h = {} => secs \in Nat
  <2>1. h = {} => secs \in Nat
    BY RouteAssumption
  <2>2. ASSUME h # {} PROVE secs \in Nat /\ secs >= 1 /\ secs >= ResetIn(Min(reads)) /\ ResetIn(Min(reads)) \in Int
    <3> DEFINE m == ResetIn(Min(reads))
    <3>1. m \in Int
      BY <2>2, <1>2, <1>4 DEF ResetIn
    <3> HIDE DEF m
    <3>2. Max({1, m}) = IF m > 1 THEN m ELSE 1
      BY <3>1 DEF Max
    <3>3. secs = IF m > 1 THEN m ELSE 1
      BY <2>2, <3>2 DEF m
    <3> QED
      BY <3>1, <3>3 DEF m
  <2> QED
    BY <2>1, <2>2
<1> DEFINE promise == now + Ticks(secs)
<1>6. promise \in Int /\ promise = now + 2 * secs
  <2> HIDE DEF secs
  <2> QED
    BY <1>2, <1>5 DEF Ticks
<1>7. h # {} => \E o \in h : rq[o].read <= promise - Window
  <2> SUFFICES ASSUME h # {} PROVE \E o \in h : rq[o].read <= promise - Window
    OBVIOUS
  <2>1. PICK o \in h : rq[o].read = Min(reads) /\ Min(reads) \in Nat
    BY <1>4
  <2> DEFINE d == rq[o].read + Window - now
  <2>2. d \in Int /\ ResetIn(Min(reads)) = (IF d >= 0 THEN d \div 2 ELSE 0 - ((0 - d) \div 2)) + 1
    BY <2>1, <1>2 DEF ResetIn
  <2>3. d >= 0 => 2 * (d \div 2) >= d - 1
    <3> HIDE DEF d
    <3> QED
      BY <2>2
  <2> HIDE DEF secs, promise
  <2>4. d <= 2 * secs
    <3> HIDE DEF d
    <3>1. CASE d >= 0
      <4>1. secs \in Nat /\ secs >= d \div 2 + 1
        BY <3>1, <2>2, <1>5
      <4> QED
        BY <4>1, <2>2, <2>3, <3>1
    <3>2. CASE d < 0
      BY <3>2, <2>2, <1>5
    <3> QED
      BY <3>1, <3>2, <2>2
  <2>5. rq[o].read <= promise - Window
    BY <2>1, <2>4, <1>2, <1>5, <1>6
  <2> QED
    BY <2>5
<1> HIDE DEF promise, secs, reads
<1>8. rq'[r] = [rq[r] EXCEPT !.pc = "limited", !.left = h, !.promise = promise]
  BY <1>1, <1>2 DEF promise
<1>9. /\ rq'[r] \in RqState /\ rq'[r].pc = "limited" /\ rq'[r].left = h /\ rq'[r].promise = promise
      /\ rq'[r].proc = rq[r].proc /\ rq'[r].born = rq[r].born /\ rq'[r].read = rq[r].read
      /\ rq'[r].admitted = rq[r].admitted
  <2>1. rq[r] \in RqState /\ "limited" \in Pcs /\ h \in SUBSET Request
    BY <1>2, <1>3 DEF Pcs, Final
  <2> QED
    BY <1>6, <1>8, <2>1 DEF RqState
<1>10. Passes(r)
  BY <1>1, <1>2, <1>9 DEF Passes, Final
<1>11. HasRoom(Pruned(rq[r].left, rq[r].promise))'
  <2> DEFINE stay == {q \in h : rq[q].read > promise - Window}
  <2>1. \A q \in Request : rq'[q].read = rq[q].read
    BY <1>9, <1>10 DEF Passes
  <2>2. Pruned(rq[r].left, rq[r].promise)' = stay
    BY <1>3, <1>9, <2>1 DEF Pruned
  <2>3. Cardinality(h) <= RateMax
    BY <1>3 DEF LimiterInv, HitInv
  <2>4. h = {} => Cardinality(stay) = 0
    BY FS_EmptySet
  <2>5. h # {} => Cardinality(stay) < Cardinality(h)
    <3> SUFFICES ASSUME h # {} PROVE Cardinality(stay) < Cardinality(h)
      OBVIOUS
    <3>1. PICK o \in h : rq[o].read <= promise - Window
      BY <1>7
    <3>2. o \notin stay /\ stay \subseteq h
      BY <3>1, <1>2, <1>3, <1>6
    <3> HIDE DEF stay, h
    <3>3. Cardinality(stay) <= Cardinality(h) /\ (Cardinality(stay) = Cardinality(h) => stay = h)
      BY <3>2, <1>3, RequestsAreFinite, FS_Subset
    <3> QED
      BY <3>1, <3>2, <3>3, <1>3, RequestsAreFinite
  <2>6. Cardinality(stay) < RateMax
    <3>1. stay \subseteq h
      OBVIOUS
    <3> HIDE DEF stay, h
    <3> QED
      BY <3>1, <2>3, <2>4, <2>5, <1>2, <1>3, RequestsAreFinite
  <2> QED
    BY <2>2, <2>6 DEF HasRoom
<1>12. \A q \in rq'[r].left : rq[q].pc # "new"
  BY <1>3, <1>9 DEF LimiterInv, HitInv
<1> QED
  BY <1>1, <1>2, <1>9, <1>10, <1>11, <1>12, PassingKeeps

LEMMA TickKeeps ==
  ASSUME LimiterInv, Tick
  PROVE  LimiterInv'
<1>1. /\ now' = now + 1 /\ UNCHANGED <<hits, born, rq>> /\ now \in Nat
      /\ \A r \in Request : rq[r].pc = "waiting" => now - rq[r].read < MaxWait
  BY DEF Tick, Is, LimiterInv, RouteTypes
<1>2. Recorded
  BY <1>1 DEF Recorded
<1>3. RouteTypes'
  BY <1>1 DEF LimiterInv, RouteTypes
<1>4. LiveInv'
  BY <1>1, RouteAssumption DEF LimiterInv, LiveInv, RouteTypes, RqState
<1>5. HitInv'
  <2>1. \A p \in Server : hits'[p] \subseteq hits[p] /\ hits[p] \ hits'[p] = {}
    BY <1>1
  <2> QED
    BY <1>1, <1>2, <2>1, PruneKeeps DEF LimiterInv, RouteTypes
<1>6. LeftInv' /\ RetryAfterHonest'
  BY <1>1, <1>2, PromiseKeeps DEF LeftInv, RetryAfterHonest
<1> QED
  BY <1>2, <1>3, <1>4, <1>5, <1>6, RecordKeeps DEF LimiterInv, LimiterSound

\* A process that restarts admits under a number that nobody has yet.
LEMMA RestartKeeps ==
  ASSUME LimiterInv, NEW p \in Server, Restart(p)
  PROVE  LimiterInv'
<1>1. /\ born' = [born EXCEPT ![p] = @ + 1] /\ hits' = [hits EXCEPT ![p] = {}] /\ now' = now
      /\ rq' = [r \in Request |-> IF rq[r].proc = p /\ rq[r].pc \notin Final THEN [rq[r] EXCEPT !.pc = "dead"]
                                  ELSE rq[r]]
  BY DEF Restart
<1>2. /\ rq \in [Request -> RqState] /\ hits \in [Server -> SUBSET Request] /\ born \in [Server -> Nat] /\ now \in Nat
  BY DEF LimiterInv, RouteTypes
<1>3. ASSUME NEW r \in Request
      PROVE  /\ rq'[r] \in RqState
             /\ rq'[r] = rq[r] \/ (rq'[r].pc = "dead" /\ rq[r].proc = p)
             /\ rq'[r].pc \notin Final => rq'[r] = rq[r] /\ rq[r].proc # p
             /\ rq'[r].proc = rq[r].proc /\ rq'[r].born = rq[r].born /\ rq'[r].read = rq[r].read
             /\ rq'[r].admitted = rq[r].admitted
             /\ rq'[r].left = rq[r].left /\ rq'[r].promise = rq[r].promise
  <2>1. rq[r] \in RqState /\ "dead" \in Pcs /\ "dead" \in Final
    BY <1>2 DEF Pcs, Final
  <2>2. CASE rq[r].proc = p /\ rq[r].pc \notin Final
    <3>1. rq'[r] = [rq[r] EXCEPT !.pc = "dead"]
      BY <1>1, <2>2
    <3> QED
      BY <2>1, <2>2, <3>1 DEF RqState
  <2>3. CASE ~(rq[r].proc = p /\ rq[r].pc \notin Final)
    BY <1>1, <2>1, <2>3
  <2> QED
    BY <2>2, <2>3
<1>4. Recorded
  BY <1>3 DEF Recorded
<1>5. rq' \in [Request -> RqState]
  BY <1>1, <1>3
<1>6. RouteTypes'
  BY <1>1, <1>2, <1>5 DEF RouteTypes
<1>7. LiveInv'
  <2> SUFFICES ASSUME NEW r \in Request
               PROVE  /\ rq'[r].pc \notin Final \cup {"new"} => rq'[r].proc \in Server /\ rq'[r].born = born'[rq'[r].proc]
                      /\ rq'[r].proc \in Server => rq'[r].born <= born'[rq'[r].proc]
                      /\ rq'[r].pc = "new" => ~rq'[r].admitted
                      /\ rq'[r].pc = "waiting" => /\ ~rq'[r].admitted
                                                  /\ rq'[r].read <= now' /\ now' - rq'[r].read <= MaxWait
    BY DEF LiveInv
  <2>1. "new" \notin Final /\ "waiting" \notin Final
    BY DEF Final
  <2>2. \A s \in Server : born'[s] \in Nat /\ born[s] \in Nat /\ born[s] <= born'[s] /\ (s # p => born'[s] = born[s])
    BY <1>1, <1>2
  <2>3. rq[r].born \in Nat
    BY <1>2 DEF RqState
  <2> QED
    BY <1>1, <1>3, <2>1, <2>2, <2>3 DEF LimiterInv, LiveInv
<1>8. HitInv'
  <2> SUFFICES ASSUME NEW s \in Server
               PROVE  /\ Cardinality(hits'[s]) <= RateMax
                      /\ \A r \in hits'[s] : rq'[r].pc # "new"
                      /\ \A r \in Admitted(s, born[s])' : r \notin hits'[s] => rq'[r].read <= now' - Window
    BY DEF HitInv
  <2>1. CASE s # p
    <3>1. hits'[s] = hits[s] /\ born'[s] = born[s] /\ hits[s] \subseteq Request
      BY <1>1, <1>2, <2>1
    <3>2. Admitted(s, born[s])' = Admitted(s, born[s])
      BY <1>4, <3>1, RecordKeeps
    <3>3. \A r \in Admitted(s, born[s]) : rq'[r].read = rq[r].read
      BY <1>3 DEF Admitted
    <3> QED
      BY <1>1, <1>4, <3>1, <3>2, <3>3 DEF LimiterInv, HitInv, Recorded
  <2>2. CASE s = p
    <3>1. hits'[s] = {} /\ born'[s] = born[s] + 1 /\ born[s] \in Nat
      BY <1>1, <1>2, <2>2
    <3>2. Cardinality(hits'[s]) <= RateMax
      BY <3>1, FS_EmptySet, RouteAssumption
    <3>3. \A r \in Request : ~(rq'[r].admitted /\ rq'[r].proc = s /\ rq'[r].born = born'[s])
      <4> SUFFICES ASSUME NEW r \in Request, rq'[r].proc = s, rq'[r].born = born'[s] PROVE FALSE
        OBVIOUS
      <4>1. rq[r].born <= born[s] /\ rq[r].born = born[s] + 1
        BY <1>3, <3>1 DEF LimiterInv, LiveInv
      <4> QED
        BY <3>1, <4>1
    <3>4. Admitted(s, born[s])' = {}
      BY <3>3 DEF Admitted
    <3> QED
      BY <3>1, <3>2, <3>4
  <2> QED
    BY <2>1, <2>2
<1>9. LeftInv' /\ RetryAfterHonest'
  <2>1. \A r \in Request : rq'[r].left = rq[r].left /\ rq'[r].promise = rq[r].promise
                             /\ (rq'[r].pc = "limited" => rq[r].pc = "limited")
    BY <1>3
  <2> QED
    BY <1>4, <2>1, PromiseKeeps DEF LeftInv, RetryAfterHonest
<1> QED
  BY <1>4, <1>6, <1>7, <1>8, <1>9, RecordKeeps DEF LimiterInv, LimiterSound

-----------------------------------------------------------------------------
(* The candles *)

\* An entry was fetched the time to live before it expires.
IsEntry(e) == e.value \in Int /\ e.expires = e.value + KlineTtl
CandleInv ==
    /\ RouteTypes
    /\ DOMAIN kline = Server
    /\ \A p \in Server : \A e \in kline[p] : IsEntry(e)
    /\ CandlesFresh

LEMMA CandlesStart == Init => CandleInv
<1> SUFFICES ASSUME Init PROVE CandleInv
  OBVIOUS
<1>1. RouteTypes
  BY LimiterStarts DEF LimiterInv
<1>2. \A r \in Request : rq[r].age = None
  BY DEF Init, RouteInit, New
<1> QED
  BY <1>1, <1>2 DEF CandleInv, Init, RouteInit, CandlesFresh

\* What a cache keeps, moves or takes in are entries, whatever it evicts.
LEMMA WithEntry ==
  ASSUME NEW c, \A e \in c : IsEntry(e), NEW k, NEW v \in Int, NEW x, x = v + KlineTtl
  PROVE  \A e \in With(Without(c, k), k, v, x) : IsEntry(e)
BY DEF With, Without, IsEntry

LEMMA SetEntry ==
  ASSUME NEW c, \A e \in c : IsEntry(e), NEW k, NEW t \in Int
  PROVE  \A e \in kline_set(UseRedis, c, k, t, t) : IsEntry(e)
<1>1. \A e \in With(Without(c, k), k, t, t + KlineTtl) : IsEntry(e)
  BY WithEntry, RouteAssumption
<1>2. kline_set(UseRedis, c, k, t, t) \subseteq With(Without(c, k), k, t, t + KlineTtl)
  BY DEF kline_set, redis_set, cache_set, Evicted
<1> QED
  BY <1>1, <1>2

\* A value that is served is younger than the time to live; a read does not
\* make it younger.
LEMMA GetEntry ==
  ASSUME NEW c, \A e \in c : IsEntry(e), NEW k, NEW t \in Int
  PROVE  /\ \A e \in kline_get(UseRedis, c, k, t).cache : IsEntry(e)
         /\ LET v == kline_get(UseRedis, c, k, t).value
            IN  v = None \/ (v \in Int /\ t - v <= KlineTtl)
<1>0. KlineTtl \in Nat
  BY RouteAssumption
<1>1. CASE UseRedis
  <2> DEFINE found == {e \in c : e.key = k /\ t < e.expires}
  <2>1. kline_get(UseRedis, c, k, t) =
          [value |-> IF found = {} THEN None ELSE (CHOOSE e \in found : TRUE).value, cache |-> c]
    BY <1>1 DEF kline_get, redis_get
  <2>2. CASE found = {}
    BY <2>1, <2>2
  <2>3. CASE found # {}
    <3>1. PICK e \in found : e = (CHOOSE f \in found : TRUE)
      BY <2>3
    <3>2. e.value \in Int /\ t - e.value <= KlineTtl
      BY <1>0 DEF IsEntry
    <3> QED
      BY <2>1, <2>3, <3>1, <3>2
  <2> QED
    BY <2>2, <2>3
<1>2. CASE ~UseRedis
  <2>1. kline_get(UseRedis, c, k, t) = cache_get(c, k, t)
    BY <1>2 DEF kline_get
  <2>2. \A e \in Without(c, k) : IsEntry(e)
    BY DEF Without
  <2>3. CASE Without(c, k) = c
    BY <2>1, <2>3 DEF cache_get
  <2>4. CASE Without(c, k) # c
    <3> DEFINE e == CHOOSE e \in c : e.key = k
    <3>1. e \in c
      BY <2>4 DEF Without
    <3>2. IsEntry(e)
      BY <3>1
    <3> HIDE DEF e
    <3>3. CASE ~Lives(e, t)
      BY <2>1, <2>2, <2>4, <3>3 DEF cache_get, e
    <3>4. CASE Lives(e, t)
      <4>1. cache_get(c, k, t) = [value |-> e.value, cache |-> With(Without(c, k), k, e.value, e.expires)]
        BY <2>4, <3>4 DEF cache_get, e
      <4>2. \A f \in With(Without(c, k), k, e.value, e.expires) : IsEntry(f)
        BY <3>2, WithEntry DEF IsEntry
      <4>3. t - e.value <= KlineTtl
        BY <1>0, <3>2, <3>4 DEF Lives, IsEntry
      <4> QED
        BY <2>1, <3>2, <4>1, <4>2, <4>3 DEF IsEntry
    <3> QED
      BY <3>3, <3>4
  <2> QED
    BY <2>3, <2>4
<1> QED
  BY <1>1, <1>2

\* What a process puts into its cache, or into everybody's, are entries.
LEMMA HoldsEntries ==
  ASSUME CandleInv, NEW p \in Server, NEW c, \A e \in c : IsEntry(e), Holds(p, c)
  PROVE  DOMAIN kline' = Server /\ \A q \in Server : \A e \in kline'[q] : IsEntry(e)
BY DEF CandleInv, Holds

-----------------------------------------------------------------------------
(* The route *)

\* A step of the route: a request goes on, with candles that are fresh.
Goes(r) ==
    /\ Passes(r) /\ rq'[r].pc # "limited" /\ UNCHANGED hits
    /\ rq'[r].left = rq[r].left /\ rq'[r].promise = rq[r].promise
    /\ DOMAIN kline' = Server /\ \A p \in Server : \A e \in kline'[p] : IsEntry(e)
    /\ rq'[r].age # None => rq'[r].age <= KlineTtl

LEMMA GoingKeeps ==
  ASSUME LimiterInv, CandleInv, NEW r \in Request, Goes(r)
  PROVE  LimiterInv' /\ CandleInv'
<1>1. LimiterInv'
  <2>1. \A p \in Server : hits'[p] \subseteq hits[p] /\ hits[p] \ hits'[p] = {}
    BY DEF Goes
  <2> QED
    BY <2>1, PassingKeeps DEF Goes, LimiterInv, RouteTypes
<1>2. CandlesFresh'
  BY DEF CandleInv, CandlesFresh, Goes, Passes
<1> QED
  BY <1>1, <1>2 DEF LimiterInv, CandleInv, Goes

LEMMA LookupKeeps ==
  ASSUME LimiterInv, CandleInv, NEW r \in Request, Lookup(r)
  PROVE  LimiterInv' /\ CandleInv'
<1>1. rq[r].pc = "lookup" /\ UNCHANGED <<now, hits, born, kline>> /\ \E row : AfterLookup(r, row)
  BY DEF Lookup, Is
<1>2. Repeats(r) \in BOOLEAN
  BY DEF Repeats
<1>3. PICK x \in {"create", "replayed"}, a \in BOOLEAN : rq' = [rq EXCEPT ![r].pc = x, ![r].again = a]
  BY <1>1, <1>2 DEF AfterLookup
<1>4. rq \in [Request -> RqState] /\ rq[r] \in RqState /\ x \in Pcs
  BY DEF LimiterInv, RouteTypes, Pcs, Final
<1>5. rq'[r] = [rq[r] EXCEPT !.pc = x, !.again = a] /\ rq' = [rq EXCEPT ![r] = rq'[r]]
  BY <1>3, <1>4
<1>6. rq'[r] \in RqState
  BY <1>4, <1>5 DEF RqState
<1>7. /\ rq'[r].pc = x /\ rq'[r].proc = rq[r].proc /\ rq'[r].born = rq[r].born /\ rq'[r].read = rq[r].read
      /\ rq'[r].admitted = rq[r].admitted /\ rq'[r].left = rq[r].left /\ rq'[r].promise = rq[r].promise
      /\ rq'[r].age = rq[r].age
  BY <1>4, <1>5 DEF RqState
<1>8. DOMAIN kline' = Server /\ (\A p \in Server : \A e \in kline'[p] : IsEntry(e))
        /\ (rq[r].age # None => rq[r].age <= KlineTtl)
  BY <1>1 DEF CandleInv, CandlesFresh
<1>9. rq' \in [Request -> RqState] /\ \A q \in Request : q # r => rq'[q] = rq[q]
  BY <1>1, <1>5, <1>6, <1>7, <1>8 DEF LimiterInv, RouteTypes
<1>10. Goes(r)
  BY <1>1, <1>5, <1>6, <1>7, <1>8, <1>9 DEF Goes, Passes, Final
<1> QED
  BY <1>10, GoingKeeps

LEMMA CreateKeeps ==
  ASSUME LimiterInv, CandleInv, NEW r \in Request, Create(r)
  PROVE  LimiterInv' /\ CandleInv'
<1>1. rq[r].pc = "create" /\ UNCHANGED <<now, hits, born, kline>>
  BY DEF Create, Is
<1>2. PICK a \in BOOLEAN : rq' = [rq EXCEPT ![r].pc = "reserve", ![r].record = a]
  BY DEF Create
<1>3. rq \in [Request -> RqState] /\ rq[r] \in RqState /\ "reserve" \in Pcs
  BY DEF LimiterInv, RouteTypes, Pcs
<1>4. rq'[r] = [rq[r] EXCEPT !.pc = "reserve", !.record = a] /\ rq' = [rq EXCEPT ![r] = rq'[r]]
  BY <1>2, <1>3
<1>5. rq'[r] \in RqState
  BY <1>3, <1>4 DEF RqState
<1>6. /\ rq'[r].pc = "reserve" /\ rq'[r].proc = rq[r].proc /\ rq'[r].born = rq[r].born
      /\ rq'[r].read = rq[r].read /\ rq'[r].admitted = rq[r].admitted
      /\ rq'[r].left = rq[r].left /\ rq'[r].promise = rq[r].promise /\ rq'[r].age = rq[r].age
  BY <1>3, <1>4 DEF RqState
<1>7. DOMAIN kline' = Server /\ (\A p \in Server : \A e \in kline'[p] : IsEntry(e))
        /\ (rq[r].age # None => rq[r].age <= KlineTtl)
  BY <1>1 DEF CandleInv, CandlesFresh
<1>8. rq' \in [Request -> RqState] /\ \A q \in Request : q # r => rq'[q] = rq[q]
  BY <1>1, <1>4, <1>5, <1>6, <1>7 DEF LimiterInv, RouteTypes
<1>9. Goes(r)
  BY <1>1, <1>4, <1>5, <1>6, <1>7, <1>8 DEF Goes, Passes, Final
<1> QED
  BY <1>9, GoingKeeps

LEMMA ReserveKeeps ==
  ASSUME LimiterInv, CandleInv, NEW r \in Request, Reserve(r)
  PROVE  LimiterInv' /\ CandleInv'
<1>1. rq[r].pc = "reserve" /\ UNCHANGED <<now, hits, born, kline>>
  BY DEF Reserve, Is
<1>2. PICK x \in {"candles", "quota_exceeded"} : rq' = [rq EXCEPT ![r].pc = x]
  BY DEF Reserve, Becomes
<1>3. rq \in [Request -> RqState] /\ rq[r] \in RqState /\ x \in Pcs
  BY DEF LimiterInv, RouteTypes, Pcs, Final
<1>4. rq'[r] = [rq[r] EXCEPT !.pc = x] /\ rq' = [rq EXCEPT ![r] = rq'[r]]
  BY <1>2, <1>3
<1>5. rq'[r] \in RqState
  BY <1>3, <1>4 DEF RqState
<1>6. /\ rq'[r].pc = x /\ rq'[r].proc = rq[r].proc /\ rq'[r].born = rq[r].born
      /\ rq'[r].read = rq[r].read /\ rq'[r].admitted = rq[r].admitted
      /\ rq'[r].left = rq[r].left /\ rq'[r].promise = rq[r].promise /\ rq'[r].age = rq[r].age
  BY <1>3, <1>4 DEF RqState
<1>7. DOMAIN kline' = Server /\ (\A p \in Server : \A e \in kline'[p] : IsEntry(e))
        /\ (rq[r].age # None => rq[r].age <= KlineTtl)
  BY <1>1 DEF CandleInv, CandlesFresh
<1>8. rq' \in [Request -> RqState] /\ \A q \in Request : q # r => rq'[q] = rq[q]
  BY <1>1, <1>4, <1>5, <1>6, <1>7 DEF LimiterInv, RouteTypes
<1>9. Goes(r)
  BY <1>1, <1>4, <1>5, <1>6, <1>7, <1>8 DEF Goes, Passes, Final
<1> QED
  BY <1>9, GoingKeeps

\* The request has candles from the cache, or goes on to fetch them.
LEMMA CandlesKeep ==
  ASSUME LimiterInv, CandleInv, NEW r \in Request, Candles(r)
  PROVE  LimiterInv' /\ CandleInv'
<1> DEFINE p == rq[r].proc
           hit == kline_get(UseRedis, kline[p], "candles", now)
<1>1. rq[r].pc = "candles" /\ UNCHANGED <<now, hits, born>> /\ Holds(p, hit.cache)
  BY DEF Candles, Is, ReadEntry
<1>2. rq' = IF hit.value = None THEN [rq EXCEPT ![r].pc = "fetch"]
            ELSE [rq EXCEPT ![r].pc = "detect", ![r].age = now - hit.value]
  BY DEF Candles, ReadEntry
<1>3. rq \in [Request -> RqState] /\ rq[r] \in RqState /\ "fetch" \in Pcs /\ "detect" \in Pcs /\ now \in Int
  BY DEF LimiterInv, RouteTypes, Pcs
<1>4. p \in Server
  BY <1>1 DEF LimiterInv, LiveInv, Final
<1>5. \A e \in kline[p] : IsEntry(e)
  BY <1>4 DEF CandleInv
<1>6. (\A e \in hit.cache : IsEntry(e)) /\ (hit.value = None \/ (hit.value \in Int /\ now - hit.value <= KlineTtl))
  BY <1>3, <1>5, GetEntry
<1> HIDE DEF hit, p
<1>7. DOMAIN kline' = Server /\ \A q \in Server : \A e \in kline'[q] : IsEntry(e)
  BY <1>1, <1>4, <1>6, HoldsEntries
<1>8. rq[r].age # None => rq[r].age <= KlineTtl
  BY DEF CandleInv, CandlesFresh
<1>9. CASE hit.value = None
  <2>1. rq'[r] = [rq[r] EXCEPT !.pc = "fetch"] /\ rq' = [rq EXCEPT ![r] = rq'[r]]
    BY <1>2, <1>3, <1>9
  <2>2. rq'[r] \in RqState
    BY <1>3, <2>1 DEF RqState
  <2>3. /\ rq'[r].pc = "fetch" /\ rq'[r].proc = rq[r].proc /\ rq'[r].born = rq[r].born
        /\ rq'[r].read = rq[r].read /\ rq'[r].admitted = rq[r].admitted
        /\ rq'[r].left = rq[r].left /\ rq'[r].promise = rq[r].promise /\ rq'[r].age = rq[r].age
    BY <1>3, <2>1 DEF RqState
  <2>4. rq' \in [Request -> RqState] /\ \A q \in Request : q # r => rq'[q] = rq[q]
    BY <1>1, <1>7, <1>8, <2>1, <2>2, <2>3 DEF LimiterInv, RouteTypes
  <2>5. Goes(r)
    BY <1>1, <1>7, <1>8, <2>1, <2>2, <2>3, <2>4 DEF Goes, Passes, Final
  <2> QED
    BY <2>5, GoingKeeps
<1>10. CASE hit.value # None
  <2>0. now - hit.value \in Int /\ now - hit.value <= KlineTtl
    BY <1>3, <1>6, <1>10
  <2>1. rq'[r] = [rq[r] EXCEPT !.pc = "detect", !.age = now - hit.value] /\ rq' = [rq EXCEPT ![r] = rq'[r]]
    BY <1>2, <1>3, <1>10
  <2>2. rq'[r] \in RqState
    BY <1>3, <2>0, <2>1 DEF RqState
  <2>3. /\ rq'[r].pc = "detect" /\ rq'[r].proc = rq[r].proc /\ rq'[r].born = rq[r].born
        /\ rq'[r].read = rq[r].read /\ rq'[r].admitted = rq[r].admitted
        /\ rq'[r].left = rq[r].left /\ rq'[r].promise = rq[r].promise /\ rq'[r].age = now - hit.value
    BY <1>3, <2>1 DEF RqState
  <2>4. rq' \in [Request -> RqState] /\ \A q \in Request : q # r => rq'[q] = rq[q]
    BY <1>1, <1>7, <2>0, <2>1, <2>2, <2>3 DEF LimiterInv, RouteTypes
  <2>5. Goes(r)
    BY <1>1, <1>7, <2>0, <2>1, <2>2, <2>3, <2>4 DEF Goes, Passes, Final
  <2> QED
    BY <2>5, GoingKeeps
<1> QED
  BY <1>9, <1>10

\* Both ways a request ends.
LEMMA EndKeeps ==
  ASSUME LimiterInv, CandleInv, NEW r \in Request, rq[r].pc \in {"fetch", "detect"},
         Answered(r) \/ Failed(r), UNCHANGED <<now, hits, born, kline>>
  PROVE  LimiterInv' /\ CandleInv'
<1>1. PICK x \in {"done", "failed"} : rq' = [rq EXCEPT ![r].pc = x, ![r].ended = now]
  BY DEF Answered, Failed
<1>2. rq \in [Request -> RqState] /\ rq[r] \in RqState /\ x \in Pcs /\ now \in Nat
  BY DEF LimiterInv, RouteTypes, Pcs, Final
<1>3. rq'[r] = [rq[r] EXCEPT !.pc = x, !.ended = now] /\ rq' = [rq EXCEPT ![r] = rq'[r]]
  BY <1>1, <1>2
<1>4. rq'[r] \in RqState
  BY <1>2, <1>3 DEF RqState
<1>5. /\ rq'[r].pc = x /\ rq'[r].proc = rq[r].proc /\ rq'[r].born = rq[r].born
      /\ rq'[r].read = rq[r].read /\ rq'[r].admitted = rq[r].admitted
      /\ rq'[r].left = rq[r].left /\ rq'[r].promise = rq[r].promise /\ rq'[r].age = rq[r].age
  BY <1>2, <1>3 DEF RqState
<1>6. DOMAIN kline' = Server /\ (\A p \in Server : \A e \in kline'[p] : IsEntry(e))
        /\ (rq[r].age # None => rq[r].age <= KlineTtl)
  BY DEF CandleInv, CandlesFresh
<1>7. rq' \in [Request -> RqState] /\ \A q \in Request : q # r => rq'[q] = rq[q]
  BY <1>3, <1>4, <1>5, <1>6 DEF LimiterInv, RouteTypes
<1>8. Goes(r)
  BY <1>3, <1>4, <1>5, <1>6, <1>7 DEF Goes, Passes, Final
<1> QED
  BY <1>8, GoingKeeps

LEMMA FetchKeeps ==
  ASSUME LimiterInv, CandleInv, NEW r \in Request, FetchCandles(r)
  PROVE  LimiterInv' /\ CandleInv'
<1> DEFINE p == rq[r].proc
           set == kline_set(UseRedis, kline[p], "candles", now, now)
<1>1. rq[r].pc = "fetch" /\ UNCHANGED <<now, hits, born>>
  BY DEF FetchCandles, Is
<1>2. \/ Failed(r) /\ UNCHANGED kline
      \/ /\ Holds(p, set) \/ UNCHANGED kline
         /\ rq' = [rq EXCEPT ![r].pc = "detect", ![r].age = 0]
  BY DEF FetchCandles
<1>3. CASE Failed(r) /\ UNCHANGED kline
  BY <1>1, <1>3, EndKeeps
<1>4. CASE (Holds(p, set) \/ UNCHANGED kline) /\ rq' = [rq EXCEPT ![r].pc = "detect", ![r].age = 0]
  <2>1. rq \in [Request -> RqState] /\ rq[r] \in RqState /\ "detect" \in Pcs /\ now \in Int
    BY DEF LimiterInv, RouteTypes, Pcs
  <2>2. p \in Server
    BY <1>1 DEF LimiterInv, LiveInv, Final
  <2>3. \A e \in set : IsEntry(e)
    BY <2>1, <2>2, SetEntry DEF CandleInv
  <2> HIDE DEF p, set
  <2>4. DOMAIN kline' = Server /\ \A q \in Server : \A e \in kline'[q] : IsEntry(e)
    BY <1>4, <2>2, <2>3, HoldsEntries DEF CandleInv
  <2>5. rq'[r] = [rq[r] EXCEPT !.pc = "detect", !.age = 0] /\ rq' = [rq EXCEPT ![r] = rq'[r]]
    BY <1>4, <2>1
  <2>6. rq'[r] \in RqState
    <3>1. 0 \in Int \cup {None}
      OBVIOUS
    <3> QED
      BY <2>1, <2>5, <3>1 DEF RqState
  <2>7. /\ rq'[r].pc = "detect" /\ rq'[r].proc = rq[r].proc /\ rq'[r].born = rq[r].born
        /\ rq'[r].read = rq[r].read /\ rq'[r].admitted = rq[r].admitted
        /\ rq'[r].left = rq[r].left /\ rq'[r].promise = rq[r].promise /\ rq'[r].age = 0
    BY <2>1, <2>5 DEF RqState
  <2>8. 0 <= KlineTtl
    BY RouteAssumption
  <2>9. rq' \in [Request -> RqState] /\ \A q \in Request : q # r => rq'[q] = rq[q]
    BY <1>1, <2>4, <2>5, <2>6, <2>7, <2>8 DEF LimiterInv, RouteTypes
  <2>10. Goes(r)
    BY <1>1, <2>4, <2>5, <2>6, <2>7, <2>8, <2>9 DEF Goes, Passes, Final
  <2> QED
    BY <2>10, GoingKeeps
<1> QED
  BY <1>2, <1>3, <1>4

LEMMA DetectKeeps ==
  ASSUME LimiterInv, CandleInv, NEW r \in Request, Detect(r)
  PROVE  LimiterInv' /\ CandleInv'
<1>1. rq[r].pc = "detect" /\ UNCHANGED <<now, hits, born, kline>> /\ (Answered(r) \/ Failed(r))
  BY DEF Detect, Is
<1> QED
  BY <1>1, EndKeeps

\* The limiter and the clock leave the candles alone.
LEMMA AgesKeep ==
  ASSUME CandleInv, RouteTypes', UNCHANGED kline, \A r \in Request : rq'[r].age = rq[r].age
  PROVE  CandleInv'
BY DEF CandleInv, CandlesFresh

LEMMA LimitStepKeeps ==
  ASSUME LimiterInv, CandleInv, NEW r \in Request, LimitStep(r)
  PROVE  LimiterInv' /\ CandleInv'
<1>1. LimiterInv'
  BY AllowKeeps, RemainingKeeps, LimitedKeeps DEF LimitStep
<1>2. rq \in [Request -> RqState] /\ rq[r] \in RqState
  BY DEF LimiterInv, RouteTypes
<1>3. \A q \in Request : q # r => rq'[q] = rq[q]
  BY <1>2 DEF LimitStep, is_allowed, remaining, Limited, Becomes
<1>4. rq'[r].age = rq[r].age
  <2>1. CASE is_allowed(r)
    <3>1. PICK x, y : rq'[r] = [rq[r] EXCEPT !.pc = x, !.admitted = y]
      BY <1>2, <2>1 DEF is_allowed
    <3> QED
      BY <1>2, <3>1 DEF RqState
  <2>2. CASE remaining(r)
    <3>1. PICK x : rq'[r] = [rq[r] EXCEPT !.pc = x]
      BY <1>2, <2>2 DEF remaining, Becomes
    <3> QED
      BY <1>2, <3>1 DEF RqState
  <2>3. CASE Limited(r)
    <3>1. PICK x, y, z : rq'[r] = [rq[r] EXCEPT !.pc = x, !.left = y, !.promise = z]
      BY <1>2, <2>3 DEF Limited
    <3> QED
      BY <1>2, <3>1 DEF RqState
  <2> QED
    BY <2>1, <2>2, <2>3 DEF LimitStep
<1>5. UNCHANGED kline
  BY DEF LimitStep, is_allowed, remaining, Limited
<1> QED
  BY <1>1, <1>3, <1>4, <1>5, AgesKeep DEF LimiterInv

LEMMA AnalyzeKeeps ==
  ASSUME LimiterInv, CandleInv, AnalyzeNext
  PROVE  LimiterInv' /\ CandleInv'
<1>0. rq \in [Request -> RqState]
  BY DEF LimiterInv, RouteTypes
<1>1. ASSUME NEW r \in RequestsOf, NEW p \in Server, NEW k \in Keys, Ask(r, p, k)
      PROVE  LimiterInv' /\ CandleInv'
  <2>1. CASE r \in Request
    <3>1. LimiterInv'
      BY <1>1, <2>1, AskKeeps
    <3>2. UNCHANGED kline /\ \A q \in Request : rq'[q].age = rq[q].age
      BY <1>0, <1>1 DEF Ask, RqState
    <3> QED
      BY <3>1, <3>2, AgesKeep DEF LimiterInv
  <2>2. CASE r \notin Request
    <3>1. UNCHANGED <<now, hits, born, kline>> /\ rq' = rq
      BY <1>0, <1>1, <2>2 DEF Ask
    <3> QED
      BY <3>1 DEF LimiterInv, CandleInv, RouteTypes, LiveInv, HitInv, LeftInv, LimiterSound, RateBound, RetryAfterHonest,
                  Admitted, Stretch, Pruned, HasRoom, Is, CandlesFresh
  <2> QED
    BY <2>1, <2>2
<1>2. ASSUME NEW r \in Request, RouteStep(r)
      PROVE  LimiterInv' /\ CandleInv'
  BY <1>2, LookupKeeps, CreateKeeps, ReserveKeeps, CandlesKeep, FetchKeeps, DetectKeeps DEF RouteStep
<1>3. ASSUME NEW p \in Server, Restart(p)
      PROVE  LimiterInv' /\ CandleInv'
  <2>1. LimiterInv'
    BY <1>3, RestartKeeps
  <2>2. \A q \in Request : rq'[q].age = rq[q].age
    BY <1>0, <1>3 DEF Restart, RqState
  <2>3. DOMAIN kline' = Server /\ \A q \in Server : \A e \in kline'[q] : IsEntry(e)
    BY <1>3 DEF Restart, CandleInv
  <2> QED
    BY <2>1, <2>2, <2>3 DEF LimiterInv, CandleInv, CandlesFresh
<1>4. ASSUME Tick
      PROVE  LimiterInv' /\ CandleInv'
  <2>1. LimiterInv'
    BY <1>4, TickKeeps
  <2> QED
    BY <1>4, <2>1, AgesKeep DEF LimiterInv, Tick
<1> QED
  BY <1>1, <1>2, <1>3, <1>4, LimitStepKeeps DEF AnalyzeNext

LEMMA RouteUnchanged ==
  ASSUME LimiterInv, CandleInv, UNCHANGED routeVars
  PROVE  LimiterInv' /\ CandleInv'
BY DEF routeVars, LimiterInv, CandleInv, RouteTypes, LiveInv, HitInv, LeftInv, LimiterSound, RateBound,
       RetryAfterHonest, Admitted, Stretch, Pruned, HasRoom, Is, CandlesFresh

LEMMA RouteKeeps == LimiterInv /\ CandleInv /\ [Next]_vars => LimiterInv' /\ CandleInv'
<1> SUFFICES ASSUME LimiterInv, CandleInv, [Next]_vars PROVE LimiterInv' /\ CandleInv'
  OBVIOUS
<1>1. AnalyzeNext \/ UNCHANGED routeVars
  BY DEF Next, vars, Backtest, BatchQuotes
<1> QED
  BY <1>1, AnalyzeKeeps, RouteUnchanged

\* However requests wait for the lock, overlap, fail or meet a restart, no
\* stretch of the window less the longest wait has more admissions of a process
\* than the limit (SlidingWindowStore.is_allowed), and a client that comes back
\* after Retry-After finds room (RateLimiter.check).
THEOREM LimiterIsSound == Spec => []LimiterSound
<1>1. Init => LimiterInv /\ CandleInv
  BY LimiterStarts, CandlesStart
<1>2. LimiterInv => LimiterSound
  BY DEF LimiterInv
<1> QED
  BY <1>1, <1>2, RouteKeeps, PTL DEF Spec

-----------------------------------------------------------------------------
(* The list of symbols *)

Stages == {"idle", "loaded", "start", "fetch", "open", "write", "replace", "done"}
Named(i) == i = path \/ i = tmp \/ \E t \in Thread : fd[t] = i

SymbolTypes ==
    /\ listing \in Nat /\ listing >= 1
    /\ path \in 0..MaxInode /\ tmp \in 0..MaxInode
    /\ disk \in [1..MaxInode -> Int]
    /\ step \in [Thread -> Stages]
    /\ fd \in [Thread -> 0..MaxInode]
    /\ got \in [Thread -> Int]
    /\ answer \in [Proc -> Int]

\* A file that has a name or that somebody writes holds a list that the
\* exchange had, or is being written.
FileInv == \A i \in 1..MaxInode : Named(i) => disk[i] \in {Torn} \cup 1..listing

\* A thread that writes has a list, and a file.
WriterInv ==
    \A t \in Thread :
        /\ step[t] \in {"open", "write", "replace"} => got[t] \in 1..listing
        /\ step[t] = "write" <=> fd[t] # NoInode

SymbolInv == SymbolTypes /\ FileInv /\ WriterInv /\ ServesSnapshot

LEMMA SymbolsStart == Init => SymbolInv
<1> SUFFICES ASSUME CacheInit PROVE SymbolInv
  BY DEF Init
<1>0. MaxInode \in Nat /\ 1 \in 1..MaxInode
  <2>1. Cardinality(Thread) \in Nat
    BY SymbolsAssumption, FS_CardinalityType
  <2> QED
    BY <2>1, SymbolsAssumption
<1>1. SymbolTypes
  BY <1>0 DEF CacheInit, SymbolTypes, Stages, NoInode, Nothing
<1>2. FileInv
  BY <1>0 DEF CacheInit, FileInv, Named, NoInode
<1>3. WriterInv
  BY DEF CacheInit, WriterInv
<1>4. ServesSnapshot
  BY DEF CacheInit, ServesSnapshot, MayAnswer
<1> QED
  BY <1>1, <1>2, <1>3, <1>4 DEF SymbolInv

\* Steps that touch no file and no list: a thread moves to where it needs none.
LEMMA MoveKeeps ==
  ASSUME SymbolInv, UNCHANGED <<listing, path, tmp, disk, got, fd>>,
         step' \in [Thread -> Stages],
         \A t \in Thread : \/ step'[t] = step[t]
                           \/ /\ step[t] # "write"
                              /\ step'[t] \notin {"open", "write", "replace"},
         answer' \in [Proc -> Int], ServesSnapshot'
  PROVE  SymbolInv'
<1>1. SymbolTypes' /\ FileInv'
  BY DEF SymbolInv, SymbolTypes, FileInv, Named
<1>2. WriterInv'
  BY DEF SymbolInv, WriterInv
<1> QED
  BY <1>1, <1>2 DEF SymbolInv

LEMMA GetKeeps ==
  ASSUME SymbolInv, NEW p \in Proc, Get(p)
  PROVE  SymbolInv'
<1> DEFINE t == <<p, "request">>
<1>1. /\ step[t] = "idle" /\ UNCHANGED <<listing, path, tmp, disk, got, fd>>
      /\ step \in [Thread -> Stages] /\ answer \in [Proc -> Int]
  BY DEF Get, SymbolInv, SymbolTypes
<1>2. PICK s \in {"fetch", "loaded"} : step' = [step EXCEPT ![t] = s]
  BY DEF Get, At
<1>3. \/ answer' = [answer EXCEPT ![p] = Nothing]
      \/ Readable(path) /\ answer' = [answer EXCEPT ![p] = disk[path]]
  BY DEF Get
<1>4. Readable(path) => disk[path] \in 1..listing
  <2>1. path # NoInode => path \in 1..MaxInode /\ disk[path] \in {Torn} \cup 1..listing
    <3>1. path # NoInode => path \in 1..MaxInode
      BY SymbolsAssumption DEF SymbolInv, SymbolTypes, NoInode
    <3> QED
      BY <3>1 DEF SymbolInv, FileInv, Named
  <2> QED
    BY <2>1 DEF Readable
<1>5. answer' \in [Proc -> Int] /\ ServesSnapshot'
  <2>1. unserved' = unserved \ {p} /\ listing' = listing
    BY DEF Get
  <2> QED
    BY <1>1, <1>3, <1>4, <2>1 DEF Nothing, SymbolInv, ServesSnapshot, MayAnswer
<1>6. s \in Stages
  BY DEF Stages
<1>7. /\ step' \in [Thread -> Stages]
      /\ \A u \in Thread : step'[u] = step[u] \/ (step[u] # "write" /\ step'[u] \notin {"open", "write", "replace"})
  BY <1>1, <1>2, <1>6
<1> QED
  BY <1>1, <1>5, <1>7, MoveKeeps

LEMMA KickKeeps ==
  ASSUME SymbolInv, NEW p \in Proc, Kick(p)
  PROVE  SymbolInv'
<1> DEFINE t == <<p, "request">>  b == <<p, "background">>
<1>1. /\ step[t] = "loaded" /\ UNCHANGED <<listing, path, tmp, disk, got, fd, answer>>
      /\ step \in [Thread -> Stages] /\ answer \in [Proc -> Int] /\ UNCHANGED unserved
  BY DEF Kick, SymbolInv, SymbolTypes
<1>2. \/ ~Locked(p) /\ step' = [step EXCEPT ![t] = "idle", ![b] = "start"]
      \/ step' = [step EXCEPT ![t] = "idle"]
  BY DEF Kick, At
<1>3. ~Locked(p) /\ b \in Thread => step[b] # "write"
  BY DEF Locked
<1>4. "idle" \in Stages /\ "start" \in Stages
  BY DEF Stages
<1>5. /\ step' \in [Thread -> Stages]
      /\ \A u \in Thread : step'[u] = step[u] \/ (step[u] # "write" /\ step'[u] \notin {"open", "write", "replace"})
  BY <1>1, <1>2, <1>3, <1>4
<1>6. ServesSnapshot'
  BY <1>1 DEF SymbolInv, ServesSnapshot, MayAnswer
<1> QED
  BY <1>1, <1>5, <1>6, MoveKeeps

LEMMA DoneStage ==
  ASSUME SymbolInv, NEW t \in Thread, Done(t)
  PROVE  /\ step' \in [Thread -> Stages] /\ \A u \in Thread : u # t => step'[u] = step[u]
         /\ step'[t] \notin {"open", "write", "replace"}
<1>1. PICK s \in {"loaded", "idle", "done"} : step' = [step EXCEPT ![t] = s]
  BY DEF Done, At
<1>2. s \in Stages /\ step \in [Thread -> Stages]
  BY DEF Stages, SymbolInv, SymbolTypes
<1> QED
  BY <1>1, <1>2

LEMMA LockFetchKeeps ==
  ASSUME SymbolInv, NEW t \in Thread, Lock(t) \/ FetchFails(t)
  PROVE  SymbolInv'
<1>1. step \in [Thread -> Stages] /\ answer \in [Proc -> Int] /\ "fetch" \in Stages
  BY DEF SymbolInv, SymbolTypes, Stages
<1>2. CASE Lock(t)
  <2>1. /\ step[t] \in {"start", "idle"} /\ step' = [step EXCEPT ![t] = "fetch"]
        /\ UNCHANGED <<listing, path, tmp, disk, got, fd, answer, unserved>>
    BY <1>2 DEF Lock, At
  <2>2. /\ step' \in [Thread -> Stages]
        /\ \A u \in Thread : step'[u] = step[u] \/ (step[u] # "write" /\ step'[u] \notin {"open", "write", "replace"})
    BY <1>1, <2>1
  <2>3. ServesSnapshot'
    BY <2>1 DEF SymbolInv, ServesSnapshot, MayAnswer
  <2> QED
    BY <1>1, <2>1, <2>2, <2>3, MoveKeeps
<1>3. CASE FetchFails(t)
  <2>1. /\ step[t] = "fetch" /\ Done(t) /\ UNCHANGED <<listing, path, tmp, disk, got, fd>>
        /\ \/ UNCHANGED <<answer, unserved>>
           \/ answer' = [answer EXCEPT ![t[1]] = Empty] /\ unserved' = unserved \cup {t[1]}
    BY <1>3 DEF FetchFails
  <2>2. answer' \in [Proc -> Int] /\ ServesSnapshot'
    BY <1>1, <2>1 DEF Empty, SymbolInv, ServesSnapshot, MayAnswer
  <2>3. /\ step' \in [Thread -> Stages]
        /\ \A u \in Thread : step'[u] = step[u] \/ (step[u] # "write" /\ step'[u] \notin {"open", "write", "replace"})
    BY <2>1, DoneStage
  <2> QED
    BY <2>1, <2>2, <2>3, MoveKeeps
<1> QED
  BY <1>2, <1>3

LEMMA FetchListKeeps ==
  ASSUME SymbolInv, NEW t \in Thread, Fetch(t)
  PROVE  SymbolInv'
<1>1. /\ step[t] = "fetch" /\ step' = [step EXCEPT ![t] = "open"] /\ got' = [got EXCEPT ![t] = listing]
      /\ UNCHANGED <<listing, path, tmp, disk, fd, answer, unserved>>
  BY DEF Fetch, At
<1>2. SymbolTypes' /\ FileInv'
  BY <1>1 DEF SymbolInv, SymbolTypes, FileInv, Named, Stages
<1>3. WriterInv'
  BY <1>1 DEF SymbolInv, SymbolTypes, WriterInv
<1>4. ServesSnapshot'
  BY <1>1 DEF SymbolInv, ServesSnapshot, MayAnswer
<1> QED
  BY <1>2, <1>3, <1>4 DEF SymbolInv

\* There are more inodes than threads, so that one is free: the thread that
\* opens has none, and there is no .tmp.
LEMMA FreeInode ==
  ASSUME SymbolInv, NEW t \in Thread, step[t] = "open", tmp = NoInode
  PROVE  Free # {} /\ Free \subseteq 1..MaxInode
<1> DEFINE used == {path} \cup {fd[u] : u \in Thread \ {t}}
<1>1. IsFiniteSet(Thread) /\ Cardinality(Thread) \in Nat /\ MaxInode \in Nat /\ MaxInode > Cardinality(Thread)
  BY SymbolsAssumption, FS_CardinalityType
<1>2. IsFiniteSet(Thread \ {t}) /\ Cardinality(Thread \ {t}) = Cardinality(Thread) - 1
  BY <1>1, FS_RemoveElement
<1>3. IsFiniteSet({fd[u] : u \in Thread \ {t}}) /\ Cardinality({fd[u] : u \in Thread \ {t}}) <= Cardinality(Thread) - 1
  <2> DEFINE S == Thread \ {t}
             T == {fd[u] : u \in Thread \ {t}}
             f == [u \in S |-> fd[u]]
  <2>1. f \in Surjection(S, T)
    BY DEF Surjection
  <2> HIDE DEF S, T, f
  <2>2. IsFiniteSet(S) /\ Cardinality(S) = Cardinality(Thread) - 1
    BY <1>2 DEF S
  <2>3. IsFiniteSet(T) /\ Cardinality(T) <= Cardinality(S)
    BY <2>1, <2>2, FS_Surjection
  <2> QED
    BY <2>2, <2>3 DEF T
<1>4. IsFiniteSet(used) /\ Cardinality(used) <= Cardinality(Thread) /\ Cardinality(used) \in Nat
  <2>1. IsFiniteSet({fd[u] : u \in Thread \ {t}} \cup {path})
        /\ Cardinality({fd[u] : u \in Thread \ {t}} \cup {path}) <= Cardinality({fd[u] : u \in Thread \ {t}}) + 1
    BY <1>3, FS_AddElement, FS_CardinalityType
  <2>2. used = {fd[u] : u \in Thread \ {t}} \cup {path}
    OBVIOUS
  <2>3. Cardinality({fd[u] : u \in Thread \ {t}}) \in Nat /\ Cardinality(used) \in Nat
    BY <1>3, <2>1, <2>2, FS_CardinalityType
  <2> QED
    BY <1>1, <1>3, <2>1, <2>2, <2>3
<1>5. IsFiniteSet(1..MaxInode) /\ Cardinality(1..MaxInode) = MaxInode
  BY <1>1, FS_Interval
<1>6. ~(1..MaxInode \subseteq used)
  BY <1>1, <1>4, <1>5, FS_Subset
<1>7. fd[t] = NoInode
  BY DEF SymbolInv, WriterInv
<1>8. \A i \in 1..MaxInode : i \notin used => i \in Free
  BY <1>7 DEF Free, NoInode
<1> QED
  BY <1>6, <1>8 DEF Free

LEMMA OpenKeeps ==
  ASSUME SymbolInv, NEW t \in Thread, OpenTmp(t)
  PROVE  SymbolInv'
<1>1. /\ step[t] = "open" /\ disk' = [disk EXCEPT ![tmp'] = Torn] /\ fd' = [fd EXCEPT ![t] = tmp']
      /\ step' = [step EXCEPT ![t] = "write"] /\ UNCHANGED <<listing, path, got, answer, unserved>>
      /\ tmp' = IF tmp = NoInode THEN CHOOSE i \in Free : TRUE ELSE tmp
  BY DEF OpenTmp, At
<1>2. tmp' \in 1..MaxInode /\ (tmp # NoInode => tmp' = tmp)
  <2>1. CASE tmp = NoInode
    BY <1>1, <2>1, FreeInode
  <2>2. CASE tmp # NoInode
    BY <1>1, <2>2, SymbolsAssumption DEF SymbolInv, SymbolTypes, NoInode
  <2> QED
    BY <2>1, <2>2
<1>3. tmp' \in 0..MaxInode /\ Torn \in Int /\ tmp' # NoInode /\ "write" \in Stages
  BY <1>2, SymbolsAssumption DEF Torn, NoInode, Stages
<1>4. SymbolTypes'
  BY <1>1, <1>2, <1>3 DEF SymbolInv, SymbolTypes
<1>5. FileInv'
  <2> SUFFICES ASSUME NEW i \in 1..MaxInode, Named(i)' PROVE disk'[i] \in {Torn} \cup 1..listing
    BY <1>1 DEF FileInv
  <2>1. CASE i = tmp'
    BY <1>1, <2>1 DEF SymbolInv, SymbolTypes
  <2>2. CASE i # tmp'
    <3>1. Named(i)
      BY <1>1, <2>2 DEF Named, SymbolInv, SymbolTypes
    <3>2. disk'[i] = disk[i]
      BY <1>1, <2>2 DEF SymbolInv, SymbolTypes
    <3> QED
      BY <3>1, <3>2 DEF SymbolInv, FileInv
  <2> QED
    BY <2>1, <2>2
<1>6. WriterInv'
  BY <1>1, <1>3 DEF SymbolInv, SymbolTypes, WriterInv
<1>7. ServesSnapshot'
  BY <1>1 DEF SymbolInv, ServesSnapshot, MayAnswer
<1> QED
  BY <1>4, <1>5, <1>6, <1>7 DEF SymbolInv

\* Whoever writes last, and over whatever, leaves one whole list or a torn one.
LEMMA WriteKeeps ==
  ASSUME SymbolInv, NEW t \in Thread, WriteTmp(t)
  PROVE  SymbolInv'
<1>1. /\ step[t] = "write" /\ UNCHANGED <<listing, path, tmp, got, answer, unserved>>
      /\ fd' = [fd EXCEPT ![t] = NoInode] /\ step' = [step EXCEPT ![t] = "replace"]
  BY DEF WriteTmp, At
<1>2. PICK c \in {got[t], Torn} : disk' = Kept([disk EXCEPT ![fd[t]] = c])
  BY DEF WriteTmp
<1>3. c \in {Torn} \cup 1..listing /\ c \in Int /\ NoInode \in 0..MaxInode
  BY <1>1, SymbolsAssumption DEF SymbolInv, SymbolTypes, WriterInv, Torn, NoInode
<1>4. disk' = [i \in 1..MaxInode |-> IF i \in {path', tmp'} \/ \E u \in Thread : fd'[u] = i
                                     THEN [disk EXCEPT ![fd[t]] = c][i] ELSE NoInode]
  BY <1>2 DEF Kept
<1>5. \A i \in 1..MaxInode : [disk EXCEPT ![fd[t]] = c][i] = IF i = fd[t] THEN c ELSE disk[i]
  BY DEF SymbolInv, SymbolTypes
<1>6. SymbolTypes'
  <2>1. \A i \in 1..MaxInode : disk[i] \in Int
    BY DEF SymbolInv, SymbolTypes
  <2>2. \A i \in 1..MaxInode : [disk EXCEPT ![fd[t]] = c][i] \in Int
    BY <1>3, <1>5, <2>1
  <2>3. disk' \in [1..MaxInode -> Int]
    BY <1>4, <2>2 DEF NoInode
  <2> QED
    BY <1>1, <1>3, <2>3 DEF SymbolInv, SymbolTypes, Stages
<1>7. FileInv'
  <2> SUFFICES ASSUME NEW i \in 1..MaxInode, Named(i)' PROVE disk'[i] \in {Torn} \cup 1..listing
    BY <1>1 DEF FileInv
  <2>1. disk'[i] = IF i = fd[t] THEN c ELSE disk[i]
    BY <1>4, <1>5 DEF Named
  <2>2. i # fd[t] => Named(i)
    <3>1. i # NoInode
      BY DEF NoInode
    <3> QED
      BY <1>1, <3>1 DEF Named, SymbolInv, SymbolTypes
  <2> QED
    BY <1>3, <2>1, <2>2 DEF SymbolInv, FileInv
<1>8. WriterInv'
  BY <1>1 DEF SymbolInv, SymbolTypes, WriterInv
<1>9. ServesSnapshot'
  BY <1>1 DEF SymbolInv, ServesSnapshot, MayAnswer
<1> QED
  BY <1>6, <1>7, <1>8, <1>9 DEF SymbolInv

LEMMA ReplaceKeeps ==
  ASSUME SymbolInv, NEW t \in Thread, Replace(t)
  PROVE  SymbolInv'
<1>1. /\ step[t] = "replace" /\ Done(t) /\ UNCHANGED <<listing, fd, unserved>> /\ disk' = Kept(disk)
      /\ got' = [got EXCEPT ![t] = Nothing]
      /\ (path' = path /\ tmp' = tmp) \/ (path' = tmp /\ tmp' = NoInode)
      /\ answer' = answer \/ answer' = [answer EXCEPT ![t[1]] = got[t]]
  BY DEF Replace
<1>2. /\ step' \in [Thread -> Stages] /\ \A u \in Thread : u # t => step'[u] = step[u]
      /\ step'[t] \notin {"open", "write", "replace"}
  BY <1>1, DoneStage
<1>3. got[t] \in 1..listing /\ fd[t] = NoInode
  BY <1>1 DEF SymbolInv, WriterInv
<1>4. disk' = [i \in 1..MaxInode |-> IF i \in {path', tmp'} \/ \E u \in Thread : fd'[u] = i THEN disk[i] ELSE NoInode]
  BY <1>1 DEF Kept
<1>5. SymbolTypes'
  <2>1. \A i \in 1..MaxInode : disk'[i] \in Int
    BY <1>4 DEF SymbolInv, SymbolTypes, NoInode
  <2>2. disk' \in [1..MaxInode -> Int]
    BY <1>4, <2>1
  <2>3. path' \in 0..MaxInode /\ tmp' \in 0..MaxInode
    BY <1>1, SymbolsAssumption DEF SymbolInv, SymbolTypes, NoInode
  <2>4. got' \in [Thread -> Int] /\ answer' \in [Proc -> Int]
    BY <1>1, <1>3 DEF SymbolInv, SymbolTypes, Nothing
  <2> QED
    BY <1>1, <1>2, <2>2, <2>3, <2>4 DEF SymbolInv, SymbolTypes
<1>6. FileInv'
  <2> SUFFICES ASSUME NEW i \in 1..MaxInode, Named(i)' PROVE disk'[i] \in {Torn} \cup 1..listing
    BY <1>1 DEF FileInv
  <2>1. disk'[i] = disk[i] /\ Named(i)
    BY <1>1, <1>4 DEF Named, NoInode
  <2> QED
    BY <2>1 DEF SymbolInv, FileInv
<1>7. WriterInv'
  BY <1>1, <1>2, <1>3 DEF SymbolInv, SymbolTypes, WriterInv
<1>8. ServesSnapshot'
  BY <1>1, <1>3 DEF SymbolInv, SymbolTypes, ServesSnapshot, MayAnswer
<1> QED
  BY <1>5, <1>6, <1>7, <1>8 DEF SymbolInv

LEMMA SymbolsUnchanged ==
  ASSUME SymbolInv, UNCHANGED <<path, tmp, disk, step, got, fd, answer, unserved>>, listing' = listing \/ listing' = listing + 1
  PROVE  SymbolInv'
<1>1. listing \in Nat /\ listing' \in Nat /\ 1..listing \subseteq 1..listing' /\ listing' >= 1
  BY DEF SymbolInv, SymbolTypes
<1> QED
  BY <1>1 DEF SymbolInv, SymbolTypes, FileInv, Named, WriterInv, ServesSnapshot, MayAnswer

LEMMA SymbolsKeep == SymbolInv /\ [Next]_vars => SymbolInv'
<1> SUFFICES ASSUME SymbolInv, [Next]_vars PROVE SymbolInv'
  OBVIOUS
<1>1. CacheNext \/ UNCHANGED cacheVars
  BY DEF Next, vars, Backtest, BatchQuotes
<1>2. CASE UNCHANGED cacheVars \/ Week \/ NewListing
  BY <1>2, SymbolsUnchanged DEF cacheVars, Week, NewListing
<1>3. CASE CacheNext /\ ~Week /\ ~NewListing
  BY <1>3, GetKeeps, KickKeeps, LockFetchKeeps, FetchListKeeps, OpenKeeps, WriteKeeps, ReplaceKeeps DEF CacheNext, Work
<1> QED
  BY <1>1, <1>2, <1>3

\* Candles are never older than their time to live, whichever request fetched
\* them, whether MemoryCache or Redis holds them and whatever is evicted, fails
\* or restarts (fetch_market_data); and however the threads of all processes
\* share the temporary file, FuturesSymbolsCache.get answers a list that the
\* exchange had in full, or none where the request's own fetch failed.
THEOREM CachesAreHonest == Spec => []CachesHonest
<1>1. Init => LimiterInv /\ CandleInv /\ SymbolInv
  BY LimiterStarts, CandlesStart, SymbolsStart
<1>2. CandleInv /\ SymbolInv => CachesHonest
  BY DEF CandleInv, SymbolInv, CachesHonest
<1> QED
  BY <1>1, <1>2, RouteKeeps, SymbolsKeep, PTL DEF Spec

-----------------------------------------------------------------------------
(* The events of a run *)

Event == [id : Nat, seq : Int]

EventInv ==
    /\ published \in Nat /\ missed \in Nat /\ lost \in BOOLEAN /\ behind \in BOOLEAN
    /\ log \in Seq(Event) /\ sent \in Seq(Event) /\ polled \in Seq(Event)
    /\ \A i \in 1..Len(log) : log[i].id <= published
    /\ \A i, j \in 1..Len(log) : i < j => log[i].id < log[j].id
    /\ ~lost => missed = 0 /\ Len(log) = published /\ \A i \in 1..Len(log) : log[i].seq = i - 1
    /\ Len(sent) <= Len(log) /\ \A i \in 1..Len(sent) : sent[i] = log[i]
    /\ \A i \in 1..Len(polled) : \E j \in 1..Len(log) : polled[i] = log[j]
    /\ \A i, j \in 1..Len(polled) : i < j => polled[i].id < polled[j].id
    /\ ~behind => Len(polled) <= Len(log) /\ \A i \in 1..Len(polled) : polled[i] = log[i]

LEMMA EventIds ==
  ASSUME NEW s \in Seq(Event), NEW i \in 1..Len(s)
  PROVE  s[i] \in Event /\ s[i].id \in Nat
<1>1. s[i] \in Event
  OBVIOUS
<1> QED
  BY <1>1 DEF Event

LEMMA EventsStart == Init => EventInv
<1> SUFFICES ASSUME Init PROVE EventInv
  OBVIOUS
<1>1. log = <<>> /\ sent = <<>> /\ polled = <<>> /\ published = 0 /\ missed = 0 /\ lost = FALSE /\ behind = FALSE
  BY DEF Init, StoresInit
<1>2. log \in Seq(Event) /\ sent \in Seq(Event) /\ polled \in Seq(Event)
  BY <1>1
<1>3. Len(log) = 0 /\ Len(sent) = 0 /\ Len(polled) = 0 /\ \A i \in 1..0 : FALSE
  BY <1>1
<1>4. published \in Nat /\ missed \in Nat
  BY <1>1
<1>5. lost \in BOOLEAN /\ behind \in BOOLEAN
  BY <1>1, Zenon
<1> QED
  BY <1>1, <1>2, <1>3, <1>4, <1>5 DEF EventInv

\* What publish stores is newer than all before, or nothing is stored.
LEMMA PublishKeeps ==
  ASSUME EventInv, publish
  PROVE  EventInv'
<1>1. CASE log' = log
  <2>1. published' \in Nat /\ missed' \in Nat /\ lost' = TRUE /\ published <= published'
    <3>1. missed' = missed /\ lost' = TRUE
      <4>1. \A e : Append(log, e) # log
        BY DEF EventInv
      <4> QED
        BY <1>1, <4>1 DEF publish
    <3> QED
      BY <3>1 DEF publish, EventInv
  <2>2. UNCHANGED <<log, sent, polled, behind>>
    BY <1>1 DEF publish
  <2>3. \A i \in 1..Len(log) : log[i].id <= published'
    BY <2>1, EventIds DEF EventInv
  <2> QED
    BY <2>1, <2>2, <2>3 DEF EventInv
<1>2. CASE log' # log
  <2>1. PICK q \in {_next_seq, missed} : log' = Append(log, [id |-> published + 1, seq |-> q])
    BY <1>2 DEF publish
  <2> DEFINE n == Len(log)
             e == [id |-> published + 1, seq |-> q]
  <2>2. /\ published' = published + 1 /\ missed' \in Nat /\ lost' \in BOOLEAN
        /\ UNCHANGED <<sent, polled, behind>>
    <3>1. missed' \in {missed, missed + 1} /\ lost' \in {lost, TRUE}
      BY DEF publish
    <3>2. missed' \in Nat
      BY <3>1 DEF EventInv
    <3>3. lost' \in BOOLEAN
      BY <3>1, Zenon DEF EventInv
    <3> QED
      BY <3>2, <3>3 DEF publish
  <2>3. e \in Event /\ n \in Nat
    BY <2>1 DEF EventInv, Event, _next_seq
  <2>4. log' \in Seq(Event) /\ Len(log') = n + 1 /\ log'[n + 1] = e /\ \A i \in 1..n : log'[i] = log[i]
    BY <2>1, <2>3 DEF EventInv
  <2>5. \A i \in 1..n : log[i] \in Event /\ log[i].id \in Nat
    BY EventIds DEF EventInv
  <2>6. \A i \in 1..(n + 1) : log'[i].id <= published'
    <3> SUFFICES ASSUME NEW i \in 1..(n + 1) PROVE log'[i].id <= published'
      OBVIOUS
    <3>1. CASE i = n + 1
      BY <3>1, <2>2, <2>4 DEF EventInv
    <3>2. CASE i \in 1..n
      <4>1. log'[i] = log[i] /\ log[i].id \in Nat /\ log[i].id <= published /\ published \in Nat
        BY <3>2, <2>4, <2>5 DEF EventInv
      <4> QED
        BY <4>1, <2>2
    <3> QED
      BY <3>1, <3>2, <2>3
  <2>7. \A i, j \in 1..(n + 1) : i < j => log'[i].id < log'[j].id
    <3> SUFFICES ASSUME NEW i \in 1..(n + 1), NEW j \in 1..(n + 1), i < j PROVE log'[i].id < log'[j].id
      OBVIOUS
    <3>1. i \in 1..n /\ log'[i] = log[i] /\ log[i].id \in Nat /\ log[i].id <= published /\ published \in Nat
      BY <2>3, <2>4, <2>5 DEF EventInv
    <3>2. CASE j = n + 1
      BY <3>1, <3>2, <2>4
    <3>3. CASE j \in 1..n
      BY <3>1, <3>3, <2>4 DEF EventInv
    <3> QED
      BY <3>2, <3>3, <2>3
  <2>8. ~lost' => missed' = 0 /\ n + 1 = published' /\ \A i \in 1..(n + 1) : log'[i].seq = i - 1
    <3> SUFFICES ASSUME ~lost' PROVE missed' = 0 /\ n + 1 = published' /\ \A i \in 1..(n + 1) : log'[i].seq = i - 1
      OBVIOUS
    <3>1. log' = Append(log, [id |-> published + 1, seq |-> _next_seq]) /\ ~lost /\ missed' = missed
      BY DEF publish
    <3>2. missed = 0 /\ n = published /\ \A i \in 1..n : log[i].seq = i - 1
      BY <3>1 DEF EventInv
    <3>3. log'[n + 1].seq = n
      BY <3>1, <3>2 DEF EventInv, _next_seq
    <3> QED
      BY <3>1, <3>2, <3>3, <2>2, <2>3, <2>4
  <2>9. Len(sent) <= n + 1 /\ \A i \in 1..Len(sent) : sent[i] = log'[i]
    BY <2>3, <2>4 DEF EventInv
  <2>10. \A i \in 1..Len(polled) : \E j \in 1..(n + 1) : polled[i] = log'[j]
    <3>1. \A j \in 1..n : j \in 1..(n + 1) /\ log'[j] = log[j]
      BY <2>3, <2>4
    <3> QED
      BY <3>1, <2>3 DEF EventInv
  <2>11. ~behind => Len(polled) <= n + 1 /\ \A i \in 1..Len(polled) : polled[i] = log'[i]
    BY <2>3, <2>4 DEF EventInv
  <2>12. published' \in Nat
    BY <2>2 DEF EventInv
  <2> HIDE DEF n, e
  <2> QED
    BY <2>2, <2>4, <2>6, <2>7, <2>8, <2>9, <2>10, <2>11, <2>12 DEF EventInv
<1> QED
  BY <1>1, <1>2

\* A slice of the log is the log from there on.
LEMMA RangeIs ==
  ASSUME EventInv, NEW k \in Nat, k <= Len(log)
  PROVE  /\ _fetch_range(k) \in Seq(Event) /\ k + Len(_fetch_range(k)) <= Len(log)
         /\ \A i \in 1..Len(_fetch_range(k)) : _fetch_range(k)[i] = log[k + i]
<1> DEFINE n == Len(log)
           s == SubSeq(log, k + 1, n)
           m == IF Len(s) < EventLimit THEN Len(s) ELSE EventLimit
<1>1. n \in Nat /\ EventLimit \in Nat /\ log \in Seq(Event)
  BY StoresAssumption DEF EventInv
<1>2. s \in Seq(Event) /\ Len(s) = n - k /\ \A i \in 1..(n - k) : s[i] = log[k + i]
  BY <1>1
<1>3. m \in Nat /\ m <= Len(s)
  BY <1>1, <1>2
<1> HIDE DEF s, m
<1>4. SubSeq(s, 1, m) \in Seq(Event) /\ Len(SubSeq(s, 1, m)) = m /\ \A i \in 1..m : SubSeq(s, 1, m)[i] = s[i]
  BY <1>2, <1>3
<1>5. _fetch_range(k) = SubSeq(s, 1, m)
  BY DEF _fetch_range, Upto, s, m
<1> QED
  BY <1>1, <1>2, <1>3, <1>4, <1>5

LEMMA StreamKeeps ==
  ASSUME EventInv, Stream
  PROVE  EventInv'
<1> DEFINE k == Len(sent)
           more == _fetch_range(k)
<1>1. k \in Nat /\ k <= Len(log) /\ sent \in Seq(Event)
  BY DEF EventInv
<1>2. /\ more \in Seq(Event) /\ k + Len(more) <= Len(log)
      /\ \A i \in 1..Len(more) : more[i] = log[k + i]
  BY <1>1, RangeIs
<1>3. sent' = sent \o more /\ UNCHANGED <<log, published, missed, lost, polled, behind>>
  BY DEF Stream
<1> HIDE DEF more
<1>4. /\ sent' \in Seq(Event) /\ Len(sent') = k + Len(more)
      /\ \A i \in 1..Len(sent') : sent'[i] = IF i <= k THEN sent[i] ELSE more[i - k]
  BY <1>1, <1>2, <1>3
<1>5. ASSUME NEW i \in 1..Len(sent') PROVE sent'[i] = log[i]
  <2>1. CASE i <= k
    BY <1>1, <1>4, <2>1 DEF EventInv
  <2>2. CASE ~(i <= k)
    <3>1. i - k \in 1..Len(more) /\ k + (i - k) = i
      BY <1>1, <1>2, <1>4, <2>2
    <3> QED
      BY <1>2, <1>4, <2>2, <3>1
  <2> QED
    BY <2>1, <2>2
<1> QED
  BY <1>2, <1>3, <1>4, <1>5 DEF EventInv

LEMMA PollKeeps ==
  ASSUME EventInv, Poll
  PROVE  EventInv'
<1>1. UNCHANGED <<log, published, missed, lost, sent>> /\ behind' \in BOOLEAN
  BY DEF Poll, EventInv
<1>2. CASE polled = <<>>
  <2> DEFINE page == _fetch_range(0)
  <2>1. /\ page \in Seq(Event) /\ Len(page) <= Len(log)
        /\ \A i \in 1..Len(page) : page[i] = log[0 + i]
    <3>1. 0 \in Nat /\ 0 <= Len(log)
      BY DEF EventInv
    <3>2. /\ page \in Seq(Event) /\ 0 + Len(page) <= Len(log)
          /\ \A i \in 1..Len(page) : page[i] = log[0 + i]
      BY <3>1, RangeIs
    <3>3. Len(page) \in Nat
      BY <3>2
    <3> HIDE DEF page
    <3> QED
      BY <3>2, <3>3
  <2>2. polled' = page
    BY <1>2 DEF Poll
  <2> HIDE DEF page
  <2>3. Len(page) \in Nat /\ Len(log) \in Nat /\ \A i \in 1..Len(page) : page[i] = log[i] /\ i \in 1..Len(log)
    BY <2>1 DEF EventInv
  <2>4. \A i, j \in 1..Len(page) : i < j => page[i].id < page[j].id
    BY <2>3 DEF EventInv
  <2> QED
    BY <1>1, <2>1, <2>2, <2>3, <2>4 DEF EventInv
<1>3. CASE polled # <<>>
  <2> DEFINE n == Len(log)
             k == Len(polled)
             last == polled[k]
             p == CHOOSE i \in DOMAIN log : log[i].id = last.id
             new == SubSeq(log, p + 1, n)
             a == IF Len(new) > EventLimit THEN Len(new) - EventLimit + 1 ELSE 1
             page == SubSeq(new, a, Len(new))
  <2>1. n \in Nat /\ k \in Nat /\ k >= 1 /\ log \in Seq(Event) /\ polled \in Seq(Event) /\ EventLimit \in Nat /\ EventLimit >= 1
    BY <1>3, StoresAssumption DEF EventInv
  <2>2. Last(polled) = last
    BY DEF Last
  <2>3. p \in 1..n /\ log[p] = last /\ \A i \in 1..n : log[i].id = last.id => i = p
    <3>1. PICK j \in 1..n : last = log[j]
      BY <2>1 DEF EventInv
    <3>2. DOMAIN log = 1..n
      BY <2>1
    <3>3. p \in 1..n /\ log[p].id = last.id
      BY <3>1, <3>2
    <3>4. \A i, h \in 1..n : log[i].id = log[h].id => i = h
      <4> SUFFICES ASSUME NEW i \in 1..n, NEW h \in 1..n, log[i].id = log[h].id, i # h PROVE FALSE
        OBVIOUS
      <4>1. log[i].id \in Nat /\ log[h].id \in Nat
        BY <2>1, EventIds
      <4>2. i < h \/ h < i
        BY <2>1
      <4> QED
        BY <4>1, <4>2 DEF EventInv
    <3> HIDE DEF p
    <3> QED
      BY <3>1, <3>3, <3>4
  <2> HIDE DEF p
  <2>4. polled' = polled \o page /\ behind' = (behind \/ Len(new) > EventLimit)
    <3>1. After(Last(polled).id) = new
      BY <2>2 DEF After, p
    <3> QED
      BY <1>3, <3>1 DEF Poll, EndOf
  <2>5. new \in Seq(Event) /\ Len(new) = n - p /\ \A i \in 1..(n - p) : new[i] = log[p + i]
    BY <2>1, <2>3
  <2>6. a \in 1..(Len(new) + 1) /\ (Len(new) <= EventLimit => a = 1)
    BY <2>1, <2>3, <2>5
  <2> HIDE DEF new, a
  <2> DEFINE m == Len(new) - a + 1
  <2>7. page \in Seq(Event) /\ Len(page) = m /\ m \in Nat /\ \A i \in 1..m : page[i] = new[a + i - 1]
    <3>1. new \in Seq(Event) /\ Len(new) \in Nat /\ a \in 1..(Len(new) + 1) /\ a \in Int
      BY <2>1, <2>3, <2>5, <2>6
    <3>2. CASE a = Len(new) + 1
      BY <3>1, <3>2
    <3>3. CASE a \in 1..Len(new)
      BY <3>1, <3>3
    <3> QED
      BY <3>1, <3>2, <3>3
  <2>8. \A i \in 1..m : page[i] = log[p + a + i - 1] /\ p + a + i - 1 \in 1..n /\ p + a + i - 1 > p
    <3> SUFFICES ASSUME NEW i \in 1..m PROVE page[i] = log[p + a + i - 1] /\ p + a + i - 1 \in 1..n /\ p + a + i - 1 > p
      OBVIOUS
    <3>1. a + i - 1 \in 1..(n - p) /\ p + (a + i - 1) = p + a + i - 1
      BY <2>1, <2>3, <2>5, <2>6
    <3> QED
      <4>1. page[i] = new[a + i - 1] /\ new[a + i - 1] = log[p + (a + i - 1)]
        BY <3>1, <2>5, <2>7
      <4>2. p + (a + i - 1) \in 1..n /\ p + (a + i - 1) > p
        BY <3>1, <2>1, <2>3
      <4> QED
        BY <4>1, <4>2, <3>1
  <2> HIDE DEF page
  <2>9. /\ polled' \in Seq(Event) /\ Len(polled') = k + m
        /\ \A i \in 1..(k + m) : polled'[i] = IF i <= k THEN polled[i] ELSE page[i - k]
    <3>1. Len(page) = m /\ page \in Seq(Event) /\ polled \in Seq(Event) /\ Len(polled) = k
      BY <2>1, <2>7
    <3> HIDE DEF m
    <3>2. m \in Nat /\ k \in Nat
      BY <2>1, <2>7
    <3>3. /\ polled \o page \in Seq(Event) /\ Len(polled \o page) = Len(polled) + Len(page)
          /\ \A i \in 1..(Len(polled) + Len(page)) :
                (polled \o page)[i] = IF i <= Len(polled) THEN polled[i] ELSE page[i - Len(polled)]
      BY <3>1
    <3> HIDE DEF k
    <3> QED
      BY <2>4, <3>1, <3>3
  <2> HIDE DEF m
  <2>10. \A i \in 1..(k + m) : i <= k \/ i - k \in 1..m
    BY <2>1, <2>7
  <2>11. \A i \in 1..(k + m) : \E j \in 1..n : polled'[i] = log[j]
    <3> SUFFICES ASSUME NEW i \in 1..(k + m) PROVE \E j \in 1..n : polled'[i] = log[j]
      OBVIOUS
    <3>1. CASE i <= k
      <4>1. i \in 1..k /\ polled'[i] = polled[i]
        BY <2>1, <2>9, <3>1
      <4> QED
        BY <4>1 DEF EventInv
    <3>2. CASE ~(i <= k)
      <4>1. i - k \in 1..m /\ polled'[i] = page[i - k]
        BY <2>9, <2>10, <3>2
      <4> QED
        BY <4>1, <2>8
    <3> QED
      BY <3>1, <3>2
  <2>12. \A i \in 1..k : polled[i].id \in Nat /\ polled[i].id <= last.id
    <3> SUFFICES ASSUME NEW i \in 1..k PROVE polled[i].id \in Nat /\ polled[i].id <= last.id
      OBVIOUS
    <3>1. polled[i].id \in Nat /\ last.id \in Nat
      BY <2>1, EventIds
    <3>2. i < k => polled[i].id < polled[k].id
      BY <2>1 DEF EventInv
    <3> QED
      BY <2>1, <3>1, <3>2
  <2>13. \A i \in 1..m : page[i].id \in Nat /\ last.id < page[i].id
    <3> SUFFICES ASSUME NEW i \in 1..m PROVE page[i].id \in Nat /\ last.id < page[i].id
      OBVIOUS
    <3>1. page[i].id \in Nat
      BY <2>7, EventIds
    <3> QED
      BY <3>1, <2>3, <2>8 DEF EventInv
  <2>14. \A i, j \in 1..m : i < j => page[i].id < page[j].id
    <3> SUFFICES ASSUME NEW i \in 1..m, NEW j \in 1..m, i < j PROVE page[i].id < page[j].id
      OBVIOUS
    <3>1. p + a + i - 1 < p + a + j - 1
      BY <2>3, <2>6
    <3> QED
      BY <3>1, <2>8 DEF EventInv
  <2>15. \A i, j \in 1..(k + m) : i < j => polled'[i].id < polled'[j].id
    <3> SUFFICES ASSUME NEW i \in 1..(k + m), NEW j \in 1..(k + m), i < j PROVE polled'[i].id < polled'[j].id
      OBVIOUS
    <3>1. CASE j <= k
      <4>1. i \in 1..k /\ j \in 1..k /\ i <= k
        BY <2>1, <3>1
      <4> QED
        BY <4>1, <2>9, <3>1 DEF EventInv
    <3>2. CASE ~(i <= k)
      <4>1. ~(j <= k) /\ i - k \in 1..m /\ j - k \in 1..m /\ i - k < j - k
        BY <2>1, <2>7, <2>10, <3>2
      <4> QED
        BY <4>1, <2>9, <2>14, <3>2
    <3>3. CASE i <= k /\ ~(j <= k)
      <4>1. i \in 1..k /\ j - k \in 1..m
        BY <2>1, <2>10, <3>3
      <4>2. polled'[i] = polled[i] /\ polled'[j] = page[j - k]
        BY <2>9, <3>3
      <4>3. polled[i].id \in Nat /\ polled[i].id <= last.id /\ page[j - k].id \in Nat /\ last.id < page[j - k].id
        BY <4>1, <2>12, <2>13
      <4>4. last.id \in Nat
        BY <2>1, <2>12
      <4> QED
        BY <4>2, <4>3, <4>4
    <3> QED
      BY <3>1, <3>2, <3>3
  <2>16. ~behind' => k + m <= n /\ \A i \in 1..(k + m) : polled'[i] = log[i]
    <3> SUFFICES ASSUME ~behind' PROVE k + m <= n /\ \A i \in 1..(k + m) : polled'[i] = log[i]
      OBVIOUS
    <3>1. a = 1 /\ ~behind
      <4>1. ~(Len(new) > EventLimit) /\ ~behind
        BY <2>4
      <4>2. Len(new) \in Int
        BY <2>5, <2>1, <2>3
      <4> QED
        BY <4>1, <4>2, <2>1, <2>6
    <3>2. p = k
      <4>1. log[k] = last /\ k \in 1..n
        BY <3>1, <2>1 DEF EventInv
      <4> QED
        BY <4>1, <2>3
    <3>3. k + m <= n
      BY <3>1, <3>2, <2>1, <2>5, <2>7 DEF m
    <3>4. ASSUME NEW i \in 1..(k + m) PROVE polled'[i] = log[i]
      <4>1. CASE i <= k
        <5>1. i \in 1..k
          BY <2>1, <4>1
        <5> QED
          BY <2>9, <3>1, <4>1, <5>1 DEF EventInv
      <4>2. CASE ~(i <= k)
        <5>1. i - k \in 1..m /\ polled'[i] = page[i - k] /\ page[i - k] = log[p + a + (i - k) - 1]
          BY <2>8, <2>9, <2>10, <4>2
        <5>2. p + a + (i - k) - 1 = i
          BY <3>1, <3>2, <2>1, <2>7
        <5> QED
          BY <5>1, <5>2
      <4> QED
        BY <4>1, <4>2
    <3> QED
      BY <3>3, <3>4
  <2> QED
    BY <1>1, <2>9, <2>11, <2>15, <2>16 DEF EventInv
<1> QED
  BY <1>2, <1>3

-----------------------------------------------------------------------------
(* The session, its messages and the list of sessions *)

Role == {"user", "assistant"}
Message == [by : Run, role : Role, at : Nat]
SessionRecord == [status : {"active", "deleted"}, count : Nat]
SessionIds == SUBSET {"s1", "s2"}
CallPcs == {"call", "insert", "put", "touch", "count", "save", "ids", "put_ids"}

\* What is left of a program.
Todos(c) ==
    IF c \in Route THEN {<<c>>, <<>>}
    ELSE {<<"user", "assistant", "title">>, <<"user", "assistant">>, <<"user">>,
          <<"assistant", "title">>, <<"assistant">>, <<"title">>, <<>>}

\* What a call holds at each place, with t left to do.
HeldAt(p, t, v) ==
    /\ p # "call" => t # <<>>
    /\ p \in {"insert", "put", "touch", "count"} => Head(t) \in Role
    /\ p = "put" => v \in Seq(Message)
    /\ p \in {"count", "save"} => v \in SessionRecord
    /\ p = "save" => Head(t) # "create_session"
    /\ p = "ids" => Head(t) = "archive_session"
    /\ p = "put_ids" => Head(t) \in Route /\ v \in SessionIds

Callers ==
    caller = [c \in Caller |-> [pc |-> caller[c].pc, todo |-> caller[c].todo, read |-> caller[c].read,
                                at |-> caller[c].at]]
ChatTypes ==
    /\ backend \in {"redis", "supabase"}
    /\ messages \in Seq(Message) /\ session \in SessionRecord /\ ids \in SessionIds
    /\ storeFaults \in Nat
    /\ Callers
    /\ \A c \in Caller :
        /\ caller[c].pc \in CallPcs /\ caller[c].todo \in Todos(c) /\ caller[c].at \in Nat
        /\ HeldAt(caller[c].pc, caller[c].todo, caller[c].read)
        /\ IF backend = "redis" THEN caller[c].pc # "insert" ELSE caller[c].pc \in {"call", "insert"}

\* The messages that their runs have yet to store.
Early == {"call", "put", "insert"}
Waiting ==
    {w \in Run \X Role : /\ caller[w[1]].todo # <<>>
                         /\ \/ Op(w[1]) = w[2] /\ caller[w[1]].pc \in Early
                            \/ Op(w[1]) = "user" /\ w[2] = "assistant"}

\* A list has no message twice, no answer before its question and none of W.
Tidy(ms, W) ==
    /\ \A i, j \in 1..Len(ms) :
        /\ ms[i].by = ms[j].by /\ ms[i].role = ms[j].role => i = j
        /\ ms[i].by = ms[j].by /\ ms[i].role = "user" /\ ms[j].role = "assistant" => i < j
    /\ \A i \in 1..Len(ms) : <<ms[i].by, ms[i].role>> \notin W
TidyInv ==
    /\ Tidy(messages, Waiting)
    /\ \A c \in Caller : caller[c].pc = "put" => Tidy(caller[c].read, Waiting)

\* A message that is about to be stored is later than those its run has stored.
TimeInv ==
    backend = "supabase" =>
        \A i \in 1..Len(messages) :
            /\ messages[i].at <= caller[messages[i].by].at
            /\ caller[messages[i].by].pc = "insert" => messages[i].at < caller[messages[i].by].at

\* Without a race at most one call is at these places.
Alone(pcs) == \A c, d \in Caller : caller[c].pc \in pcs /\ caller[d].pc \in pcs => c = d

Stored(c, r) == \E i \in 1..Len(messages) : messages[i].by = c /\ messages[i].role = r
\* Without a race for the list a call holds it as it is, and without a fault what
\* was written is there.
ListInv ==
    "messages" \notin raced =>
        /\ Alone({"put"})
        /\ \A c \in Caller : caller[c].pc = "put" => caller[c].read = messages
        /\ storeFaults = 0 =>
            /\ \A c \in Run : caller[c].pc \in {"touch", "count", "save"} /\ Op(c) \in Role => Stored(c, Op(c))
            /\ \A c \in Run, r \in Role : <<c, r>> \in told => Stored(c, r)

Archived == <<"archive_session", "archive_session">>
Created == <<"create_session", "create_session">>
\* The same for the record of the session; its count is right once nobody is
\* about to take it.
SessionInv ==
    "session" \notin raced =>
        /\ Alone({"count", "save"})
        /\ \A c \in Caller : caller[c].pc \in {"count", "save"} =>
              caller[c].read.status = IF Op(c) = "archive_session" THEN "deleted" ELSE session.status
        /\ storeFaults = 0 /\ (caller["archive_session"].pc \in {"ids", "put_ids"} \/ Archived \in told) =>
              session.status = "deleted"
        /\ storeFaults = 0 /\ backend = "redis" /\ (\A c \in Caller : caller[c].pc \notin {"touch", "count"}) =>
              /\ \A c \in Caller : caller[c].pc = "save" => caller[c].read.count = Len(messages)
              /\ (\A c \in Caller : caller[c].pc # "save") => session.count = Len(messages)

\* The same for the list of the user's sessions.
IdsInv ==
    "ids" \notin raced =>
        /\ Alone({"put_ids"})
        /\ \A c \in Caller : caller[c].pc = "put_ids" =>
              caller[c].read = IF Op(c) = "create_session" THEN ids \cup {"s2"} ELSE ids \ {"s1"}
        /\ storeFaults = 0 /\ backend = "redis" /\ Archived \in told => "s1" \notin ids
        /\ storeFaults = 0 /\ Created \in told => "s2" \in ids

\* Reports are made only by the one whose operation it was.
ChatInv == ChatTypes /\ TidyInv /\ TimeInv /\ ListInv /\ SessionInv /\ IdsInv

-----------------------------------------------------------------------------
\* What the operations do to the one who calls.
MovedTo(c, p, t, v, a) ==
    /\ Callers'
    /\ caller'[c].pc = p /\ caller'[c].todo = t /\ caller'[c].read = v /\ caller'[c].at = a
    /\ \A d \in Caller : d # c => caller'[d] = caller[d]

LEMMA GotoIs ==
  ASSUME ChatTypes, NEW c \in Caller, NEW p, NEW v, Goto(c, p, v)
  PROVE  MovedTo(c, p, caller[c].todo, v, caller[c].at)
<1>1. Callers
  BY DEF ChatTypes
<1>2. caller' = [caller EXCEPT ![c] = [caller[c] EXCEPT !.pc = p, !.read = v]]
  BY DEF Goto
<1>3. caller'[c] = [caller[c] EXCEPT !.pc = p, !.read = v] /\ \A d \in Caller : d # c => caller'[d] = caller[d]
  BY <1>1, <1>2 DEF Callers
<1>4. caller[c] = [pc |-> caller[c].pc, todo |-> caller[c].todo, read |-> caller[c].read, at |-> caller[c].at]
  BY <1>1 DEF Callers
<1>5. caller'[c] = [pc |-> p, todo |-> caller[c].todo, read |-> v, at |-> caller[c].at]
  BY <1>3, <1>4
<1>6. \A d \in Caller : caller'[d] = [pc |-> caller'[d].pc, todo |-> caller'[d].todo, read |-> caller'[d].read,
                                      at |-> caller'[d].at]
  BY <1>1, <1>3, <1>5 DEF Callers
<1>7. caller' = [d \in Caller |-> caller'[d]]
  BY <1>1, <1>2 DEF Callers
<1> QED
  BY <1>3, <1>5, <1>6, <1>7 DEF MovedTo, Callers

LEMMA ReturnIs ==
  ASSUME ChatTypes, NEW c \in Caller, Return(c)
  PROVE  MovedTo(c, "call", Tail(caller[c].todo), <<>>, caller[c].at)
<1>1. Callers
  BY DEF ChatTypes
<1>2. caller' = [caller EXCEPT ![c] = [caller[c] EXCEPT !.pc = "call", !.todo = Tail(@), !.read = <<>>]]
  BY DEF Return
<1>3. caller'[c] = [caller[c] EXCEPT !.pc = "call", !.todo = Tail(@), !.read = <<>>] /\ \A d \in Caller : d # c => caller'[d] = caller[d]
  BY <1>1, <1>2 DEF Callers
<1>4. caller[c] = [pc |-> caller[c].pc, todo |-> caller[c].todo, read |-> caller[c].read, at |-> caller[c].at]
  BY <1>1 DEF Callers
<1>5. caller'[c] = [pc |-> "call", todo |-> Tail(caller[c].todo), read |-> <<>>, at |-> caller[c].at]
  BY <1>3, <1>4
<1>6. \A d \in Caller : caller'[d] = [pc |-> caller'[d].pc, todo |-> caller'[d].todo, read |-> caller'[d].read,
                                      at |-> caller'[d].at]
  BY <1>1, <1>3, <1>5 DEF Callers
<1>7. caller' = [d \in Caller |-> caller'[d]]
  BY <1>1, <1>2 DEF Callers
<1> QED
  BY <1>3, <1>5, <1>6, <1>7 DEF MovedTo, Callers

LEMMA AbortIs ==
  ASSUME ChatTypes, NEW c \in Caller, Abort(c)
  PROVE  MovedTo(c, "call", <<>>, <<>>, caller[c].at)
<1>1. Callers
  BY DEF ChatTypes
<1>2. caller' = [caller EXCEPT ![c] = [caller[c] EXCEPT !.todo = <<>>, !.pc = "call", !.read = <<>>]]
  BY DEF Abort
<1>3. caller'[c] = [caller[c] EXCEPT !.todo = <<>>, !.pc = "call", !.read = <<>>] /\ \A d \in Caller : d # c => caller'[d] = caller[d]
  BY <1>1, <1>2 DEF Callers
<1>4. caller[c] = [pc |-> caller[c].pc, todo |-> caller[c].todo, read |-> caller[c].read, at |-> caller[c].at]
  BY <1>1 DEF Callers
<1>5. caller'[c] = [pc |-> "call", todo |-> <<>>, read |-> <<>>, at |-> caller[c].at]
  BY <1>3, <1>4
<1>6. \A d \in Caller : caller'[d] = [pc |-> caller'[d].pc, todo |-> caller'[d].todo, read |-> caller'[d].read,
                                      at |-> caller'[d].at]
  BY <1>1, <1>3, <1>5 DEF Callers
<1>7. caller' = [d \in Caller |-> caller'[d]]
  BY <1>1, <1>2 DEF Callers
<1> QED
  BY <1>3, <1>5, <1>6, <1>7 DEF MovedTo, Callers

LEMMA DateIs ==
  ASSUME ChatTypes, NEW c \in Caller, Date(c)
  PROVE  MovedTo(c, "insert", caller[c].todo, caller[c].read, Stamp)
<1>1. Callers
  BY DEF ChatTypes
<1>2. caller' = [caller EXCEPT ![c] = [caller[c] EXCEPT !.pc = "insert", !.at = Stamp]]
  BY DEF Date
<1>3. caller'[c] = [caller[c] EXCEPT !.pc = "insert", !.at = Stamp] /\ \A d \in Caller : d # c => caller'[d] = caller[d]
  BY <1>1, <1>2 DEF Callers
<1>4. caller[c] = [pc |-> caller[c].pc, todo |-> caller[c].todo, read |-> caller[c].read, at |-> caller[c].at]
  BY <1>1 DEF Callers
<1>5. caller'[c] = [pc |-> "insert", todo |-> caller[c].todo, read |-> caller[c].read, at |-> Stamp]
  BY <1>3, <1>4
<1>6. \A d \in Caller : caller'[d] = [pc |-> caller'[d].pc, todo |-> caller'[d].todo, read |-> caller'[d].read,
                                      at |-> caller'[d].at]
  BY <1>1, <1>3, <1>5 DEF Callers
<1>7. caller' = [d \in Caller |-> caller'[d]]
  BY <1>1, <1>2 DEF Callers
<1> QED
  BY <1>3, <1>5, <1>6, <1>7 DEF MovedTo, Callers

\* The operations of a caller, and what comes after each.
LEMMA OpIs ==
  ASSUME NEW c \in Caller, NEW t \in Todos(c), t # <<>>
  PROVE  /\ c \in Run => Head(t) \in {"user", "assistant", "title"}
         /\ c \in Route => Head(t) = c /\ Tail(t) = <<>>
         /\ Tail(t) \in Todos(c)
         /\ Tail(t) # <<>> => Head(Tail(t)) # "user" /\ (Head(Tail(t)) = "assistant" => Head(t) = "user")
<1>1. CASE c \in Route
  <2>1. t = <<c>>
    BY <1>1 DEF Todos
  <2>2. Head(t) = c /\ Tail(t) = <<>>
    BY <2>1
  <2>3. c \notin Run
    BY <1>1, StoresAssumption
  <2> QED
    BY <1>1, <2>2, <2>3 DEF Todos
<1>2. CASE c \notin Route
  <2>1. t \in {<<"user", "assistant", "title">>, <<"user", "assistant">>, <<"user">>,
               <<"assistant", "title">>, <<"assistant">>, <<"title">>}
    BY <1>2 DEF Todos
  <2>2. CASE t = <<"user", "assistant", "title">>
    <3>1. Head(t) = "user" /\ Tail(t) = <<"assistant", "title">> /\ Head(Tail(t)) = "assistant"
      BY <2>2
    <3> QED
      BY <1>2, <3>1 DEF Todos
  <2>3. CASE t = <<"user", "assistant">>
    <3>1. Head(t) = "user" /\ Tail(t) = <<"assistant">> /\ Head(Tail(t)) = "assistant"
      BY <2>3
    <3> QED
      BY <1>2, <3>1 DEF Todos
  <2>4. CASE t = <<"assistant", "title">>
    <3>1. Head(t) = "assistant" /\ Tail(t) = <<"title">> /\ Head(Tail(t)) = "title"
      BY <2>4
    <3> QED
      BY <1>2, <3>1 DEF Todos
  <2>5. CASE t \in {<<"user">>, <<"assistant">>, <<"title">>}
    <3>1. PICK x \in {"user", "assistant", "title"} : t = <<x>>
      BY <2>5
    <3>2. Head(t) = x /\ Tail(t) = <<>>
      BY <3>1
    <3> QED
      BY <1>2, <3>2 DEF Todos
  <2> QED
    BY <2>1, <2>2, <2>3, <2>4, <2>5
<1> QED
  BY <1>1, <1>2

\* The types after a step of c, from those of what it writes.
LEMMA TypesKeep ==
  ASSUME ChatTypes, NEW c \in Caller, NEW p \in CallPcs, NEW t \in Todos(c), NEW v, NEW a \in Nat,
         MovedTo(c, p, t, v, a), HeldAt(p, t, v), UNCHANGED backend,
         IF backend = "redis" THEN p # "insert" ELSE p \in {"call", "insert"},
         messages' \in Seq(Message), session' \in SessionRecord, ids' \in SessionIds, storeFaults' \in Nat
  PROVE  ChatTypes'
<1>1. ASSUME NEW d \in Caller
      PROVE  /\ caller'[d].pc \in CallPcs /\ caller'[d].todo \in Todos(d) /\ caller'[d].at \in Nat
             /\ HeldAt(caller'[d].pc, caller'[d].todo, caller'[d].read)
             /\ IF backend = "redis" THEN caller'[d].pc # "insert" ELSE caller'[d].pc \in {"call", "insert"}
  <2>1. CASE d = c
    BY <2>1 DEF MovedTo
  <2>2. CASE d # c
    BY <2>2 DEF MovedTo, ChatTypes
  <2> QED
    BY <2>1, <2>2
<1> QED
  BY <1>1 DEF MovedTo, ChatTypes

\* A step of c stores no message that others wait to store, and c itself goes on.
LEMMA WaitingShrinks ==
  ASSUME ChatTypes, NEW c \in Caller, NEW p, NEW t, NEW v, NEW a, MovedTo(c, p, t, v, a),
         \/ t = caller[c].todo /\ (p \in Early => caller[c].pc \in Early)
         \/ caller[c].todo # <<>> /\ t = Tail(caller[c].todo)
         \/ t = <<>>
  PROVE  Waiting' \subseteq Waiting
<1> SUFFICES ASSUME NEW w \in Waiting' PROVE w \in Waiting
  OBVIOUS
<1>1. PICK d \in Run, r \in Role :
         /\ w = <<d, r>> /\ caller'[d].todo # <<>>
         /\ \/ Head(caller'[d].todo) = r /\ caller'[d].pc \in Early
            \/ Head(caller'[d].todo) = "user" /\ r = "assistant"
  <2>1. w \in Run \X Role
    BY DEF Waiting
  <2>2. PICK d \in Run, r \in Role : w = <<d, r>>
    BY <2>1
  <2> QED
    BY <2>2 DEF Waiting, Op
<1>2. d \in Caller
  BY DEF Caller
<1> SUFFICES /\ caller[d].todo # <<>>
             /\ \/ Head(caller[d].todo) = r /\ caller[d].pc \in Early
                \/ Head(caller[d].todo) = "user" /\ r = "assistant"
  BY <1>1 DEF Waiting, Op
<1>3. CASE d # c
  BY <1>1, <1>2, <1>3 DEF MovedTo
<1>4. CASE d = c
  <2>1. t # <<>> /\ ((Head(t) = r /\ p \in Early) \/ (Head(t) = "user" /\ r = "assistant"))
    BY <1>1, <1>4 DEF MovedTo
  <2>2. CASE t = caller[c].todo /\ (p \in Early => caller[c].pc \in Early)
    BY <1>4, <2>1, <2>2
  <2>3. CASE caller[c].todo # <<>> /\ t = Tail(caller[c].todo)
    <3>1. caller[c].todo \in Todos(c)
      BY DEF ChatTypes
    <3>2. Head(t) # "user" /\ (Head(t) = "assistant" => Head(caller[c].todo) = "user")
      BY <2>1, <2>3, <3>1, OpIs
    <3>3. r = "assistant" /\ Head(caller[c].todo) = "user"
      BY <2>1, <3>2 DEF Role
    <3> QED
      BY <1>4, <2>3, <3>3
  <2> QED
    BY <2>1, <2>2, <2>3
<1> QED
  BY <1>3, <1>4

LEMMA TidyLess ==
  ASSUME NEW ms, NEW W, NEW V \in SUBSET W, Tidy(ms, W)
  PROVE  Tidy(ms, V)
  BY DEF Tidy

-----------------------------------------------------------------------------
(* What a step leaves alone, when it does not touch the value in question. *)

LEMMA TidyFrame ==
  ASSUME ChatTypes, TidyInv, NEW c \in Caller, NEW p, NEW t, NEW v, NEW a, MovedTo(c, p, t, v, a),
         p # "put", Waiting' \subseteq Waiting, UNCHANGED messages
  PROVE  TidyInv'
<1>1. Tidy(messages, Waiting')
  BY TidyLess DEF TidyInv
<1>2. ASSUME NEW d \in Caller, caller'[d].pc = "put" PROVE Tidy(caller'[d].read, Waiting')
  <2>1. caller'[d] = caller[d]
    BY <1>2 DEF MovedTo
  <2>2. Tidy(caller[d].read, Waiting)
    BY <1>2, <2>1 DEF TidyInv
  <2> QED
    BY <2>1, <2>2, TidyLess
<1> QED
  BY <1>1, <1>2 DEF TidyInv

LEMMA TimeFrame ==
  ASSUME ChatTypes, TimeInv, NEW c \in Caller, NEW p, NEW t, NEW v, NEW a \in Nat, MovedTo(c, p, t, v, a),
         a >= caller[c].at, p = "insert" => a > caller[c].at, UNCHANGED <<messages, backend>>
  PROVE  TimeInv'
<1> SUFFICES ASSUME backend = "supabase", NEW i \in 1..Len(messages)
             PROVE  /\ messages[i].at <= caller'[messages[i].by].at
                    /\ caller'[messages[i].by].pc = "insert" => messages[i].at < caller'[messages[i].by].at
  BY DEF TimeInv
<1> DEFINE d == messages[i].by
<1>1. messages[i] \in Message
  BY DEF ChatTypes
<1>2. messages[i].at \in Nat /\ d \in Caller
  BY <1>1 DEF Message, Caller
<1>3. messages[i].at <= caller[d].at /\ (caller[d].pc = "insert" => messages[i].at < caller[d].at)
  BY DEF TimeInv
<1>4. caller[d].at \in Nat /\ caller[c].at \in Nat
  BY <1>2 DEF ChatTypes
<1> HIDE DEF d
<1>5. CASE d # c
  <2>1. caller'[d] = caller[d]
    BY <1>2, <1>5 DEF MovedTo
  <2> QED
    BY <1>3, <2>1 DEF d
<1>6. CASE d = c
  <2>1. caller'[d].at = a /\ caller'[d].pc = p
    BY <1>6 DEF MovedTo
  <2>2. messages[i].at <= a /\ (p = "insert" => messages[i].at < a)
    BY <1>2, <1>3, <1>4, <1>6
  <2> QED
    BY <2>1, <2>2 DEF d
<1> QED
  BY <1>5, <1>6

LEMMA ListFrame ==
  ASSUME ChatTypes, ListInv, NEW c \in Caller, NEW p, NEW t, NEW v, NEW a, MovedTo(c, p, t, v, a),
         p # "put", UNCHANGED messages, raced \subseteq raced', storeFaults' = 0 => storeFaults = 0,
         storeFaults' = 0 /\ p \in {"touch", "count", "save"} /\ Head(t) \in Role =>
             caller[c].pc \in {"touch", "count", "save"} /\ t = caller[c].todo,
         told' \subseteq told \cup {<<c, Op(c)>>},
         storeFaults' = 0 /\ told' # told /\ Op(c) \in Role => caller[c].pc \in {"touch", "count", "save"}
  PROVE  ListInv'
<1> SUFFICES ASSUME "messages" \notin raced'
             PROVE  /\ Alone({"put"})'
                    /\ \A d \in Caller : caller'[d].pc = "put" => caller'[d].read = messages
                    /\ storeFaults' = 0 =>
                        /\ \A d \in Run : caller'[d].pc \in {"touch", "count", "save"} /\ Head(caller'[d].todo) \in Role =>
                               Stored(d, Head(caller'[d].todo))
                        /\ \A d \in Run, r \in Role : <<d, r>> \in told' => Stored(d, r)
  BY DEF ListInv, Stored, Op
<1>1. /\ Alone({"put"})
      /\ \A d \in Caller : caller[d].pc = "put" => caller[d].read = messages
      /\ storeFaults = 0 =>
          /\ \A d \in Run : caller[d].pc \in {"touch", "count", "save"} /\ Op(d) \in Role => Stored(d, Op(d))
          /\ \A d \in Run, r \in Role : <<d, r>> \in told => Stored(d, r)
  BY DEF ListInv
<1>2. \A d \in Caller : caller'[d].pc = "put" => d # c /\ caller'[d] = caller[d]
  BY DEF MovedTo
<1>3. Alone({"put"})' /\ \A d \in Caller : caller'[d].pc = "put" => caller'[d].read = messages
  BY <1>1, <1>2 DEF Alone
<1>4. ASSUME storeFaults' = 0, NEW d \in Run, caller'[d].pc \in {"touch", "count", "save"}, Head(caller'[d].todo) \in Role
      PROVE  Stored(d, Head(caller'[d].todo))
  <2>1. d \in Caller
    BY DEF Caller
  <2>2. CASE d # c
    BY <1>1, <1>4, <2>1, <2>2 DEF MovedTo, Op
  <2>3. CASE d = c
    <3>1. caller'[d].pc = p /\ caller'[d].todo = t
      BY <2>3 DEF MovedTo
    <3>2. caller[c].pc \in {"touch", "count", "save"} /\ t = caller[c].todo
      BY <1>4, <3>1
    <3> QED
      BY <1>1, <1>4, <2>3, <3>1, <3>2 DEF Op
  <2> QED
    BY <2>2, <2>3
<1>5. ASSUME storeFaults' = 0, NEW d \in Run, NEW r \in Role, <<d, r>> \in told' PROVE Stored(d, r)
  <2>1. CASE <<d, r>> \in told
    BY <1>1, <1>5, <2>1
  <2>2. CASE <<d, r>> \notin told
    <3>1. <<d, r>> = <<c, Op(c)>> /\ told' # told
      BY <1>5, <2>2
    <3>2. d = c /\ r = Op(c)
      BY <3>1
    <3> QED
      BY <1>1, <1>5, <3>1, <3>2
  <2> QED
    BY <2>1, <2>2
<1> QED
  BY <1>3, <1>4, <1>5

LEMMA SessionFrame ==
  ASSUME ChatTypes, SessionInv, NEW c \in Caller, NEW p, NEW t, NEW v, NEW a, MovedTo(c, p, t, v, a),
         p \notin {"count", "save"}, UNCHANGED <<session, backend>>, raced \subseteq raced',
         storeFaults' = 0 => storeFaults = 0,
         storeFaults' = 0 /\ ((c = "archive_session" /\ p \in {"ids", "put_ids"}) \/ Archived \in told') =>
             caller["archive_session"].pc \in {"ids", "put_ids"} \/ Archived \in told,
         \/ p = "touch" \/ backend # "redis"
         \/ UNCHANGED messages /\ (storeFaults' = 0 => caller[c].pc \notin {"touch", "count", "save"})
  PROVE  SessionInv'
<1> SUFFICES ASSUME "session" \notin raced' PROVE SessionInv'
  BY DEF SessionInv
<1>1. /\ Alone({"count", "save"})
      /\ \A d \in Caller : caller[d].pc \in {"count", "save"} =>
            caller[d].read.status = IF Op(d) = "archive_session" THEN "deleted" ELSE session.status
      /\ storeFaults = 0 /\ (caller["archive_session"].pc \in {"ids", "put_ids"} \/ Archived \in told) =>
            session.status = "deleted"
      /\ storeFaults = 0 /\ backend = "redis" /\ (\A d \in Caller : caller[d].pc \notin {"touch", "count"}) =>
            /\ \A d \in Caller : caller[d].pc = "save" => caller[d].read.count = Len(messages)
            /\ (\A d \in Caller : caller[d].pc # "save") => session.count = Len(messages)
  BY DEF SessionInv
<1>2. \A d \in Caller : caller'[d].pc \in {"count", "save"} => d # c /\ caller'[d] = caller[d]
  BY DEF MovedTo
<1>3. Alone({"count", "save"})'
  BY <1>1, <1>2 DEF Alone
<1>4. \A d \in Caller : caller'[d].pc \in {"count", "save"} =>
         caller'[d].read.status = IF Head(caller'[d].todo) = "archive_session" THEN "deleted" ELSE session.status
  BY <1>1, <1>2 DEF Op
<1>5. ASSUME storeFaults' = 0, caller'["archive_session"].pc \in {"ids", "put_ids"} \/ Archived \in told'
      PROVE  session.status = "deleted"
  <2>1. "archive_session" \in Caller
    BY DEF Caller, Route
  <2>2. caller'["archive_session"].pc \in {"ids", "put_ids"} =>
            (c = "archive_session" /\ p \in {"ids", "put_ids"}) \/ caller["archive_session"].pc \in {"ids", "put_ids"}
    BY <2>1 DEF MovedTo
  <2>3. storeFaults = 0 /\ (caller["archive_session"].pc \in {"ids", "put_ids"} \/ Archived \in told)
    BY <1>5, <2>2
  <2> QED
    BY <1>1, <2>3
<1>6. ASSUME storeFaults' = 0, backend = "redis", \A d \in Caller : caller'[d].pc \notin {"touch", "count"}
      PROVE  /\ \A d \in Caller : caller'[d].pc = "save" => caller'[d].read.count = Len(messages')
             /\ (\A d \in Caller : caller'[d].pc # "save") => session.count = Len(messages')
  <2>1. p # "touch"
    BY <1>6 DEF MovedTo
  <2>2. messages' = messages /\ storeFaults = 0 /\ caller[c].pc \notin {"touch", "count", "save"}
    BY <1>6, <2>1
  <2>3. \A d \in Caller : caller[d].pc \notin {"touch", "count"}
    BY <1>6, <2>2 DEF MovedTo
  <2>4. \A d \in Caller : caller'[d].pc = "save" => caller[d].pc = "save" /\ caller'[d] = caller[d]
    BY <1>2
  <2>5. (\A d \in Caller : caller'[d].pc # "save") => \A d \in Caller : caller[d].pc # "save"
    BY <2>2 DEF MovedTo
  <2>6. /\ \A d \in Caller : caller[d].pc = "save" => caller[d].read.count = Len(messages)
        /\ (\A d \in Caller : caller[d].pc # "save") => session.count = Len(messages)
    BY <1>1, <1>6, <2>2, <2>3
  <2> QED
    BY <2>2, <2>4, <2>5, <2>6
<1> QED
  BY <1>3, <1>4, <1>5, <1>6 DEF SessionInv, Op

LEMMA IdsFrame ==
  ASSUME ChatTypes, IdsInv, NEW c \in Caller, NEW p, NEW t, NEW v, NEW a, MovedTo(c, p, t, v, a),
         p # "put_ids", UNCHANGED <<ids, backend>>, raced \subseteq raced', storeFaults' = 0 => storeFaults = 0,
         storeFaults' = 0 /\ backend = "redis" /\ Archived \in told' => Archived \in told,
         storeFaults' = 0 /\ Created \in told' => Created \in told
  PROVE  IdsInv'
<1> SUFFICES ASSUME "ids" \notin raced' PROVE IdsInv'
  BY DEF IdsInv
<1>1. /\ Alone({"put_ids"})
      /\ \A d \in Caller : caller[d].pc = "put_ids" =>
            caller[d].read = IF Op(d) = "create_session" THEN ids \cup {"s2"} ELSE ids \ {"s1"}
      /\ storeFaults = 0 /\ backend = "redis" /\ Archived \in told => "s1" \notin ids
      /\ storeFaults = 0 /\ Created \in told => "s2" \in ids
  BY DEF IdsInv
<1>2. \A d \in Caller : caller'[d].pc = "put_ids" => d # c /\ caller'[d] = caller[d]
  BY DEF MovedTo
<1>3. Alone({"put_ids"})'
  BY <1>1, <1>2 DEF Alone
<1>4. \A d \in Caller : caller'[d].pc = "put_ids" =>
         caller'[d].read = IF Head(caller'[d].todo) = "create_session" THEN ids \cup {"s2"} ELSE ids \ {"s1"}
  BY <1>1, <1>2 DEF Op
<1> QED
  BY <1>1, <1>3, <1>4 DEF IdsInv, Op

-----------------------------------------------------------------------------
(* Lists with one more message *)

\* A finite set of natural numbers that is not empty has a greatest member.
LEMMA GreatestNatural ==
  ASSUME NEW S \in SUBSET Nat, IsFiniteSet(S), S # {}
  PROVE  Max(S) \in S /\ \A y \in S : Max(S) >= y
<1> DEFINE Top(T) == \E x \in T : \A y \in T : x >= y
           Bad == {n \in Nat : \E T \in SUBSET S : T # {} /\ Cardinality(T) = n /\ ~Top(T)}
<1>1. Bad = {}
  <2> SUFFICES ASSUME Bad # {} PROVE FALSE
    OBVIOUS
  <2> DEFINE n == Min(Bad)
  <2>1. n \in Bad /\ \A y \in Bad : n <= y
    BY LeastNatural
  <2> HIDE DEF n
  <2>2. PICK T \in SUBSET S : T # {} /\ Cardinality(T) = n /\ ~Top(T)
    BY <2>1
  <2>3. PICK x \in T : TRUE
    BY <2>2
  <2> DEFINE R == T \ {x}
  <2>4. IsFiniteSet(T) /\ IsFiniteSet(R) /\ Cardinality(R) = n - 1 /\ n \in Nat /\ Cardinality(R) \in Nat
    BY <2>1, <2>2, <2>3, FS_Subset, FS_RemoveElement, FS_CardinalityType
  <2>5. R # {}
    <3> SUFFICES ASSUME R = {} PROVE FALSE
      OBVIOUS
    <3>1. \A y \in T : y = x
      OBVIOUS
    <3>2. x \in Nat
      OBVIOUS
    <3> QED
      BY <2>2, <2>3, <3>1, <3>2
  <2>6. Top(R)
    <3>1. ~(n <= n - 1)
      BY <2>4
    <3>2. n - 1 \notin Bad
      BY <2>1, <3>1
    <3> QED
      BY <2>4, <2>5, <3>2
  <2>7. PICK z \in R : \A y \in R : z >= y
    BY <2>6
  <2>8. x \in Nat /\ z \in Nat /\ z \in T /\ \A y \in T : y \in Nat /\ (y = x \/ y \in R)
    OBVIOUS
  <2>9. CASE z >= x
    BY <2>2, <2>7, <2>8, <2>9
  <2>10. CASE ~(z >= x)
    <3>1. \A y \in T : x >= y
      BY <2>7, <2>8, <2>10
    <3> QED
      BY <2>2, <2>3, <3>1
  <2> QED
    BY <2>9, <2>10
<1>2. Cardinality(S) \in Nat
  BY FS_CardinalityType
<1>3. Top(S)
  BY <1>1, <1>2
<1> QED
  BY <1>3 DEF Max

\* ns is ms with m behind its first k messages.
Inserted(ns, ms, k, m) ==
    /\ ns \in Seq(Message) /\ Len(ns) = Len(ms) + 1 /\ k \in 0..Len(ms)
    /\ \A i \in 1..Len(ns) : ns[i] = IF i <= k THEN ms[i] ELSE IF i = k + 1 THEN m ELSE ms[i - 1]

LEMMA AppendInserts ==
  ASSUME NEW ms \in Seq(Message), NEW m \in Message
  PROVE  Inserted(Append(ms, m), ms, Len(ms), m)
<1>1. Len(ms) \in Nat
  OBVIOUS
<1>2. /\ Append(ms, m) \in Seq(Message) /\ Len(Append(ms, m)) = Len(ms) + 1
      /\ Append(ms, m)[Len(ms) + 1] = m /\ \A i \in 1..Len(ms) : Append(ms, m)[i] = ms[i]
  OBVIOUS
<1>3. \A i \in 1..(Len(ms) + 1) : i = Len(ms) + 1 \/ (i \in 1..Len(ms) /\ i <= Len(ms))
  BY <1>1
<1> QED
  BY <1>1, <1>2, <1>3 DEF Inserted

LEMMA ByTimeInserts ==
  ASSUME NEW ms \in Seq(Message), NEW m \in Message
  PROVE  \E k \in 0..Len(ms) : /\ Inserted(ByTime(ms, m), ms, k, m)
                               /\ \A i \in 1..Len(ms) : ms[i].at <= m.at => i <= k
<1> DEFINE n == Len(ms)
           S == {0} \cup {i \in DOMAIN ms : ms[i].at <= m.at}
           k == Max(S)
           a == SubSeq(ms, 1, (k + 1) - 1)
           b == SubSeq(ms, k + 1, n)
<1>1. n \in Nat /\ DOMAIN ms = 1..n
  OBVIOUS
<1>2. S \subseteq 0..n /\ S # {}
  BY <1>1
<1>3. IsFiniteSet(S) /\ S \in SUBSET Nat
  <2>1. IsFiniteSet(0..n)
    BY <1>1, FS_Interval
  <2> QED
    BY <1>2, <2>1, FS_Subset
<1>4. k \in S /\ \A i \in S : k >= i
  BY <1>2, <1>3, GreatestNatural
<1>5. k \in 0..n /\ \A i \in 1..n : ms[i].at <= m.at => i <= k
  BY <1>1, <1>2, <1>4
<1>6. ByTime(ms, m) = a \o <<m>> \o b
  BY DEF ByTime, InsertAt
<1> HIDE DEF k, S
<1>7. (k + 1) - 1 = k /\ k \in Nat
  BY <1>1, <1>5
<1>b. n \in Int /\ k \in Int /\ k <= n
  BY <1>1, <1>5, <1>7
<1>8. a \in Seq(Message) /\ Len(a) = k /\ \A i \in 1..k : a[i] = ms[i]
  BY <1>1, <1>5, <1>7
<1>9. b \in Seq(Message) /\ Len(b) = n - k /\ \A i \in 1..(n - k) : b[i] = ms[k + i]
  <2>1. CASE k = n
    BY <1>1, <1>7, <2>1
  <2>2. CASE k # n
    <3>1. k + 1 \in 1..n
      <4> HIDE DEF n
      <4> QED
        BY <1>b, <1>7, <2>2
    <3>2. b \in Seq(Message) /\ Len(b) = n - (k + 1) + 1 /\ \A i \in 1..(n - (k + 1) + 1) : b[i] = ms[(k + 1) + i - 1]
      BY <1>1, <3>1
    <3>3. n - (k + 1) + 1 = n - k /\ \A i \in 1..(n - k) : (k + 1) + i - 1 = k + i
      BY <1>1, <1>7
    <3> HIDE DEF b
    <3> QED
      BY <3>2, <3>3
  <2> QED
    BY <2>1, <2>2
<1> HIDE DEF a, b
<1>10. /\ a \o <<m>> \in Seq(Message) /\ Len(a \o <<m>>) = k + 1
       /\ \A i \in 1..(k + 1) : (a \o <<m>>)[i] = IF i <= k THEN a[i] ELSE m
  BY <1>7, <1>8
<1> DEFINE c == a \o <<m>>
<1>a. c \in Seq(Message) /\ b \in Seq(Message) /\ Len(c) = k + 1 /\ Len(b) = n - k
  BY <1>9, <1>10
<1> HIDE DEF c, n
<1>11. /\ c \o b \in Seq(Message) /\ Len(c \o b) = Len(c) + Len(b)
       /\ \A i \in 1..(Len(c) + Len(b)) : (c \o b)[i] = IF i <= Len(c) THEN c[i] ELSE b[i - Len(c)]
  BY <1>a
<1>12. Len(c) = k + 1 /\ Len(c) + Len(b) = n + 1
  BY <1>a, <1>b
<1>13. ASSUME NEW i \in 1..(n + 1)
       PROVE  (c \o b)[i] = IF i <= k THEN ms[i] ELSE IF i = k + 1 THEN m ELSE ms[i - 1]
  <2>1. CASE i <= k
    <3>1. i \in 1..k /\ i \in 1..(k + 1) /\ i <= k + 1
      BY <1>7, <2>1
    <3> QED
      BY <1>8, <1>10, <1>11, <1>12, <2>1, <3>1 DEF c
  <2>2. CASE i = k + 1
    <3>1. i \in 1..(k + 1) /\ ~(i <= k) /\ i <= k + 1
      BY <1>7, <2>2
    <3> QED
      BY <1>10, <1>11, <1>12, <2>2, <3>1 DEF c
  <2>3. CASE i > k + 1
    <3>1. i - (k + 1) \in 1..(n - k) /\ ~(i <= k) /\ i # k + 1 /\ ~(i <= k + 1) /\ k + (i - (k + 1)) = i - 1
      BY <1>b, <1>7, <2>3
    <3> QED
      BY <1>9, <1>11, <1>12, <3>1
  <2> QED
    <3>1. i \in Int
      BY <1>b
    <3>2. i <= k \/ i = k + 1 \/ i > k + 1
      BY <1>b, <3>1
    <3> QED
      BY <2>1, <2>2, <2>3, <3>2, Zenon
<1>14. Inserted(ByTime(ms, m), ms, k, m)
  BY <1>5, <1>6, <1>11, <1>12, <1>13 DEF Inserted, c, n
<1> QED
  BY <1>5, <1>14 DEF n

\* What is in a list with one more message.
LEMMA InsertedHas ==
  ASSUME NEW ns, NEW ms \in Seq(Message), NEW k, NEW m, Inserted(ns, ms, k, m)
  PROVE  /\ Len(ms) \in Nat /\ Len(ns) \in Nat
         /\ k + 1 \in 1..Len(ns) /\ ns[k + 1] = m
         /\ \A i \in 1..Len(ms) : \E j \in 1..Len(ns) : ns[j] = ms[i]
         /\ \A j \in 1..Len(ns) : ns[j] = m \/ \E i \in 1..Len(ms) : ns[j] = ms[i]
<1>1. Len(ms) \in Nat /\ Len(ns) = Len(ms) + 1 /\ k \in 0..Len(ms)
  BY DEF Inserted
<1>2. \A i \in 1..Len(ns) : ns[i] = IF i <= k THEN ms[i] ELSE IF i = k + 1 THEN m ELSE ms[i - 1]
  BY DEF Inserted
<1>3. k + 1 \in 1..Len(ns) /\ ns[k + 1] = m
  <2>1. k + 1 \in 1..Len(ns) /\ ~(k + 1 <= k)
    BY <1>1
  <2> QED
    BY <1>2, <2>1
<1>4. ASSUME NEW i \in 1..Len(ms) PROVE \E j \in 1..Len(ns) : ns[j] = ms[i]
  <2>1. CASE i <= k
    <3>1. i \in 1..Len(ns)
      BY <1>1
    <3> QED
      BY <1>2, <2>1, <3>1
  <2>2. CASE ~(i <= k)
    <3>1. i + 1 \in 1..Len(ns) /\ ~(i + 1 <= k) /\ i + 1 # k + 1 /\ (i + 1) - 1 = i
      BY <1>1, <2>2
    <3> QED
      BY <1>2, <3>1
  <2> QED
    BY <2>1, <2>2
<1>5. ASSUME NEW j \in 1..Len(ns) PROVE ns[j] = m \/ \E i \in 1..Len(ms) : ns[j] = ms[i]
  <2>1. CASE j <= k
    <3>1. j \in 1..Len(ms)
      BY <1>1, <2>1
    <3> QED
      BY <1>2, <2>1, <3>1
  <2>2. CASE j = k + 1
    BY <1>3, <2>2
  <2>3. CASE ~(j <= k) /\ j # k + 1
    <3>1. j - 1 \in 1..Len(ms)
      BY <1>1, <2>3
    <3> QED
      BY <1>2, <2>3, <3>1
  <2> QED
    BY <2>1, <2>2, <2>3
<1> QED
  BY <1>1, <1>3, <1>4, <1>5

\* A message that was waited for goes where its question is before it.
LEMMA InsertTidy ==
  ASSUME NEW ns, NEW ms \in Seq(Message), NEW k, NEW m \in Message, Inserted(ns, ms, k, m),
         NEW W, NEW V \in SUBSET W, Tidy(ms, W), <<m.by, m.role>> \in W, <<m.by, m.role>> \notin V,
         m.role = "user" => <<m.by, "assistant">> \in W,
         \A i \in 1..Len(ms) : ms[i].by = m.by /\ ms[i].role = "user" => i <= k
  PROVE  Tidy(ns, V)
<1> DEFINE Place(i) == IF i <= k THEN i ELSE i - 1
<1>1. Len(ms) \in Nat /\ Len(ns) = Len(ms) + 1 /\ k \in 0..Len(ms)
  BY DEF Inserted
<1>2. \A i \in 1..Len(ns) : i # k + 1 => Place(i) \in 1..Len(ms) /\ ns[i] = ms[Place(i)]
  <2> SUFFICES ASSUME NEW i \in 1..Len(ns), i # k + 1 PROVE Place(i) \in 1..Len(ms) /\ ns[i] = ms[Place(i)]
    OBVIOUS
  <2>1. Place(i) \in 1..Len(ms)
    BY <1>1
  <2>2. ns[i] = IF i <= k THEN ms[i] ELSE IF i = k + 1 THEN m ELSE ms[i - 1]
    BY DEF Inserted
  <2> QED
    BY <2>1, <2>2
<1>3. ns[k + 1] = m /\ k + 1 \in 1..Len(ns)
  BY InsertedHas
<1>4. \A i, j \in 1..Len(ns) : i # k + 1 /\ j # k + 1 => (Place(i) < Place(j) => i < j) /\ (Place(i) = Place(j) => i = j)
  BY <1>1
<1>5. \A i \in 1..Len(ns) : i # k + 1 => (Place(i) <= k => i < k + 1)
  BY <1>1
<1> HIDE DEF At
<1>6. \A i \in 1..Len(ms) : <<ms[i].by, ms[i].role>> \notin W
  BY DEF Tidy
<1>7. \A i \in 1..Len(ms) : ~(ms[i].by = m.by /\ ms[i].role = m.role)
  BY <1>6
<1>8. ASSUME NEW i \in 1..Len(ns), NEW j \in 1..Len(ns), ns[i].by = ns[j].by, ns[i].role = ns[j].role PROVE i = j
  <2>1. CASE i = k + 1 /\ j = k + 1
    BY <2>1
  <2>2. CASE i # k + 1 /\ j = k + 1
    <3>1. Place(i) \in 1..Len(ms) /\ ns[i] = ms[Place(i)]
      BY <1>2, <2>2
    <3> QED
      BY <1>3, <1>7, <1>8, <2>2, <3>1
  <2>3. CASE i = k + 1 /\ j # k + 1
    <3>1. Place(j) \in 1..Len(ms) /\ ns[j] = ms[Place(j)]
      BY <1>2, <2>3
    <3> QED
      BY <1>3, <1>7, <1>8, <2>3, <3>1
  <2>4. CASE i # k + 1 /\ j # k + 1
    <3>0. /\ Place(i) \in 1..Len(ms) /\ ns[i] = ms[Place(i)]
          /\ Place(j) \in 1..Len(ms) /\ ns[j] = ms[Place(j)]
      BY <1>2, <2>4
    <3>1. Place(i) = Place(j)
      BY <1>8, <3>0 DEF Tidy
    <3> QED
      BY <1>4, <2>4, <3>1
  <2> QED
    BY <2>1, <2>2, <2>3, <2>4
<1>9. ASSUME NEW i \in 1..Len(ns), NEW j \in 1..Len(ns), ns[i].by = ns[j].by, ns[i].role = "user", ns[j].role = "assistant"
      PROVE  i < j
  <2>1. CASE i = k + 1 /\ j = k + 1
    BY <1>9, <2>1
  <2>2. CASE i # k + 1 /\ j = k + 1
    <3>1. Place(i) <= k
      BY <1>2, <1>3, <1>9, <2>2
    <3> QED
      BY <1>5, <2>2, <3>1
  <2>3. CASE i = k + 1 /\ j # k + 1
    <3>1. m.role = "user" /\ <<m.by, "assistant">> \in W
      BY <1>3, <1>9, <2>3
    <3>2. Place(j) \in 1..Len(ms) /\ ms[Place(j)].by = m.by /\ ms[Place(j)].role = "assistant"
      BY <1>2, <1>3, <1>9, <2>3
    <3>3. <<ms[Place(j)].by, ms[Place(j)].role>> \notin W
      BY <1>6, <3>2
    <3> QED
      BY <3>1, <3>2, <3>3
  <2>4. CASE i # k + 1 /\ j # k + 1
    <3>0. /\ Place(i) \in 1..Len(ms) /\ ns[i] = ms[Place(i)]
          /\ Place(j) \in 1..Len(ms) /\ ns[j] = ms[Place(j)]
      BY <1>2, <2>4
    <3>1. Place(i) < Place(j)
      BY <1>9, <3>0 DEF Tidy
    <3> QED
      BY <1>4, <2>4, <3>1
  <2> QED
    BY <2>1, <2>2, <2>3, <2>4
<1>10. ASSUME NEW i \in 1..Len(ns) PROVE <<ns[i].by, ns[i].role>> \notin V
  <2>1. CASE i = k + 1
    BY <1>3, <2>1
  <2>2. CASE i # k + 1
    <3>1. <<ms[Place(i)].by, ms[Place(i)].role>> \notin W
      BY <1>2, <1>6, <2>2
    <3> QED
      BY <1>2, <2>2, <3>1
  <2> QED
    BY <2>1, <2>2
<1> QED
  BY <1>8, <1>9, <1>10 DEF Tidy

\* What a run is about to store is waited for, and then no more.
LEMMA WaitsNow ==
  ASSUME NEW c \in Run, caller[c].todo # <<>>, Op(c) \in Role, caller[c].pc \in Early
  PROVE  <<c, Op(c)>> \in Waiting /\ (Op(c) = "user" => <<c, "assistant">> \in Waiting)
  BY DEF Waiting, Role

LEMMA WaitsNoMore ==
  ASSUME ChatTypes, NEW c \in Run, caller[c].todo # <<>>, Op(c) \in Role, NEW p, NEW t, NEW v, NEW a, MovedTo(c, p, t, v, a),
         \/ t = caller[c].todo /\ p \notin Early
         \/ t = Tail(caller[c].todo)
  PROVE  <<c, Op(c)>> \notin Waiting'
<1> SUFFICES ASSUME <<c, Op(c)>> \in Waiting' PROVE FALSE
  OBVIOUS
<1>1. c \in Caller /\ caller[c].todo \in Todos(c)
  BY DEF Caller, ChatTypes
<1>2. /\ t # <<>>
      /\ (Head(t) = Op(c) /\ p \in Early) \/ (Head(t) = "user" /\ Op(c) = "assistant")
  <2>1. caller'[c].todo = t /\ caller'[c].pc = p
    BY DEF MovedTo
  <2>2. /\ caller'[c].todo # <<>>
        /\ (Head(caller'[c].todo) = Op(c) /\ caller'[c].pc \in Early) \/ (Head(caller'[c].todo) = "user" /\ Op(c) = "assistant")
    BY DEF Waiting, Op
  <2> QED
    BY <2>1, <2>2
<1>3. CASE t = caller[c].todo /\ p \notin Early
  BY <1>2, <1>3 DEF Op
<1>4. CASE t = Tail(caller[c].todo)
  <2>1. Head(t) # "user" /\ (Head(t) = "assistant" => Op(c) = "user")
    BY <1>1, <1>2, <1>4, OpIs DEF Op
  <2> QED
    BY <1>2, <2>1 DEF Role
<1> QED
  BY <1>3, <1>4

-----------------------------------------------------------------------------
(* The steps of a call *)

LEMMA CallTypes ==
  ASSUME ChatTypes, NEW c \in Caller
  PROVE  /\ caller[c].pc \in CallPcs /\ caller[c].todo \in Todos(c) /\ caller[c].at \in Nat
         /\ HeldAt(caller[c].pc, caller[c].todo, caller[c].read)
         /\ caller[c].pc # "call" => caller[c].todo # <<>>
         /\ caller[c].todo # <<>> => /\ Op(c) \in Role => c \in Run
                                     /\ Op(c) = "archive_session" <=> c = "archive_session"
                                     /\ Op(c) = "create_session" <=> c = "create_session"
                                     /\ Tail(caller[c].todo) \in Todos(c)
<1>1. /\ caller[c].pc \in CallPcs /\ caller[c].todo \in Todos(c) /\ caller[c].at \in Nat
      /\ HeldAt(caller[c].pc, caller[c].todo, caller[c].read)
  BY DEF ChatTypes
<1>2. caller[c].pc # "call" => caller[c].todo # <<>>
  BY <1>1 DEF HeldAt
<1>3. ASSUME caller[c].todo # <<>>
      PROVE  /\ Op(c) \in Role => c \in Run
             /\ Op(c) = "archive_session" <=> c = "archive_session"
             /\ Op(c) = "create_session" <=> c = "create_session"
             /\ Tail(caller[c].todo) \in Todos(c)
  <2>1. /\ c \in Run => Op(c) \in {"user", "assistant", "title"}
        /\ c \in Route => Op(c) = c
        /\ Tail(caller[c].todo) \in Todos(c)
    BY <1>1, <1>3, OpIs DEF Op
  <2>2. c \in Run \/ c \in Route
    BY DEF Caller
  <2>3. CASE c \in Run
    <3>1. c \notin Route
      BY <2>3, StoresAssumption
    <3> QED
      BY <2>1, <2>3, <3>1 DEF Route
  <2>4. CASE c \in Route
    BY <2>1, <2>4 DEF Route, Role
  <2> QED
    BY <2>2, <2>3, <2>4
<1> QED
  BY <1>1, <1>2, <1>3

\* A read adds to what is raced for, and nobody else held what it does not add.
LEMMA ReadsAre ==
  ASSUME ChatTypes, NEW c \in Caller, NEW x, Reads(c, x)
  PROVE  /\ raced \subseteq raced'
         /\ x \notin raced' => \A d \in Caller : d # c =>
               /\ x = "messages" => caller[d].pc # "put"
               /\ x = "session" => caller[d].pc \notin {"count", "save"}
               /\ x = "ids" => caller[d].pc # "put_ids"
<1>1. raced \subseteq raced' /\ (x \notin raced' => Holding(x) \ {c} = {})
  BY DEF Reads
<1>2. ASSUME x \notin raced', NEW d \in Caller, d # c
      PROVE  /\ x = "messages" => caller[d].pc # "put"
             /\ x = "session" => caller[d].pc \notin {"count", "save"}
             /\ x = "ids" => caller[d].pc # "put_ids"
  <2>1. d \notin Holding(x)
    BY <1>1, <1>2
  <2>2. caller[d].pc # "call" => caller[d].todo # <<>>
    BY CallTypes
  <2> QED
    BY <2>1, <2>2 DEF Holding, AtPc
<1> QED
  BY <1>1, <1>2

LEMMA CreateMessageKeeps ==
  ASSUME ChatInv, NEW c \in Caller, backend = "redis", UNCHANGED backend, create_message(c)
  PROVE  ChatInv'
<1> USE DEF ChatInv
<1>1. /\ caller[c].pc = "call" /\ caller[c].todo # <<>> /\ Op(c) \in Role
      /\ UNCHANGED <<session, messages, ids, told, storeFaults>>
  BY DEF create_message, AtPc, IsMessage, Role, StoreUp
<1>2. MovedTo(c, "put", caller[c].todo, messages, caller[c].at)
  BY GotoIs DEF create_message
<1>3. /\ raced \subseteq raced'
      /\ "messages" \notin raced' => \A d \in Caller : d # c => caller[d].pc # "put"
  BY ReadsAre DEF create_message
<1>4. ChatTypes'
  <2>1. HeldAt("put", caller[c].todo, messages) /\ "put" \in CallPcs
    BY <1>1 DEF HeldAt, Op, ChatTypes, CallPcs
  <2>2. /\ messages' \in Seq(Message) /\ session' \in SessionRecord /\ ids' \in SessionIds /\ storeFaults' \in Nat
        /\ caller[c].todo \in Todos(c) /\ caller[c].at \in Nat
    BY <1>1 DEF ChatTypes
  <2> QED
    BY <1>2, <2>1, <2>2, TypesKeep
<1>5. Waiting' \subseteq Waiting
  BY <1>1, <1>2, WaitingShrinks DEF Early
<1>6. TidyInv'
  <2>1. Tidy(messages, Waiting')
    BY <1>5, TidyLess DEF TidyInv
  <2>2. ASSUME NEW d \in Caller, caller'[d].pc = "put" PROVE Tidy(caller'[d].read, Waiting')
    <3>1. CASE d = c
      BY <1>2, <2>1, <3>1 DEF MovedTo
    <3>2. CASE d # c
      <4>1. caller'[d] = caller[d]
        BY <1>2, <3>2 DEF MovedTo
      <4>2. Tidy(caller[d].read, Waiting)
        BY <2>2, <4>1 DEF TidyInv
      <4> QED
        BY <1>5, <4>1, <4>2, TidyLess
    <3> QED
      BY <3>1, <3>2
  <2> QED
    BY <1>1, <2>1, <2>2 DEF TidyInv
<1>7. TimeInv'
  BY DEF TimeInv
<1>8. ListInv'
  <2> SUFFICES ASSUME "messages" \notin raced' PROVE ListInv'
    BY DEF ListInv
  <2>1. \A d \in Caller : caller'[d].pc = "put" => d = c
    BY <1>2, <1>3 DEF MovedTo
  <2>2. caller'[c].read = messages /\ caller'[c].pc = "put"
    BY <1>2 DEF MovedTo
  <2>3. storeFaults = 0 =>
          /\ \A d \in Run : caller[d].pc \in {"touch", "count", "save"} /\ Op(d) \in Role => Stored(d, Op(d))
          /\ \A d \in Run, r \in Role : <<d, r>> \in told => Stored(d, r)
    BY <1>3 DEF ListInv
  <2>4. \A d \in Run : caller'[d].pc \in {"touch", "count", "save"} => caller'[d] = caller[d]
    <3>1. Run \subseteq Caller
      BY DEF Caller
    <3> QED
      BY <1>2, <3>1 DEF MovedTo
  <2>5. \A d, r : Stored(d, r)' <=> Stored(d, r)
    BY <1>1 DEF Stored
  <2>6. storeFaults' = 0 =>
          /\ \A d \in Run : caller'[d].pc \in {"touch", "count", "save"} /\ Head(caller'[d].todo) \in Role =>
                                Stored(d, Head(caller'[d].todo))
          /\ \A d \in Run, r \in Role : <<d, r>> \in told' => Stored(d, r)
    BY <1>1, <2>3, <2>4 DEF Op
  <2> QED
    BY <1>1, <2>1, <2>2, <2>6 DEF ListInv, Alone, Stored, Op
<1>9. SessionInv'
  BY <1>1, <1>2, <1>3, SessionFrame
<1>10. IdsInv'
  BY <1>1, <1>2, <1>3, IdsFrame
<1> QED
  BY <1>4, <1>6, <1>7, <1>8, <1>9, <1>10

LEMMA PutMessageKeeps ==
  ASSUME ChatInv, NEW c \in Caller, backend = "redis", UNCHANGED backend, put_message(c)
  PROVE  ChatInv'
<1> USE DEF ChatInv
<1>1. /\ caller[c].pc = "put" /\ caller[c].todo # <<>> /\ Op(c) \in Role /\ caller[c].read \in Seq(Message)
      /\ UNCHANGED <<session, ids, told, raced>> /\ c \in Run /\ storeFaults \in Nat
  <2>1. caller[c].pc = "put" /\ caller[c].todo # <<>> /\ UNCHANGED <<session, ids, told, raced>>
    BY DEF put_message, AtPc
  <2>2. HeldAt("put", caller[c].todo, caller[c].read)
    BY <2>1, CallTypes
  <2>3. Op(c) \in Role /\ caller[c].read \in Seq(Message)
    BY <2>2 DEF HeldAt, Op
  <2> QED
    BY <2>1, <2>3, CallTypes DEF ChatTypes
<1>2. MovedTo(c, "touch", caller[c].todo, <<>>, caller[c].at)
  BY GotoIs DEF put_message
<1> DEFINE m == NewMessage(c)
           ms == caller[c].read
<1>3. m \in Message /\ m.by = c /\ m.role = Op(c)
  BY <1>1, CallTypes DEF NewMessage, Message
<1>4. \/ messages' = Append(ms, m) /\ storeFaults' = storeFaults
      \/ messages' = messages /\ storeFaults' = storeFaults + 1
  BY DEF put_message, StoreUp, StoreDown
<1> HIDE DEF m
<1>5. Inserted(Append(ms, m), ms, Len(ms), m)
  BY <1>1, <1>3, AppendInserts
<1>6. ChatTypes'
  <2>1. HeldAt("touch", caller[c].todo, <<>>) /\ "touch" \in CallPcs
    BY <1>1 DEF HeldAt, Op, CallPcs
  <2>2. /\ session' \in SessionRecord /\ ids' \in SessionIds /\ storeFaults' \in Nat
        /\ caller[c].todo \in Todos(c) /\ caller[c].at \in Nat
    BY <1>1, <1>4 DEF ChatTypes
  <2>3. messages' \in Seq(Message)
    BY <1>4, <1>5 DEF Inserted, ChatTypes
  <2> QED
    BY <1>2, <2>1, <2>2, <2>3, TypesKeep
<1>7. Waiting' \subseteq Waiting
  BY <1>1, <1>2, WaitingShrinks DEF Early
<1>8. TidyInv'
  <2>1. CASE messages' = messages
    BY <1>2, <1>7, <2>1, TidyFrame
  <2>2. CASE messages' = Append(ms, m)
    <3>1. Tidy(Append(ms, m), Waiting')
      <4>1. <<c, Op(c)>> \in Waiting /\ (Op(c) = "user" => <<c, "assistant">> \in Waiting)
        BY <1>1, WaitsNow DEF Early
      <4>2. <<c, Op(c)>> \notin Waiting'
        BY <1>1, <1>2, WaitsNoMore DEF Early
      <4>3. Tidy(ms, Waiting)
        BY <1>1 DEF TidyInv
      <4>4. \A i \in 1..Len(ms) : i <= Len(ms)
        BY <1>1
      <4>5. /\ <<m.by, m.role>> \in Waiting /\ <<m.by, m.role>> \notin Waiting'
            /\ m.role = "user" => <<m.by, "assistant">> \in Waiting
        BY <1>3, <4>1, <4>2
      <4>6. ms \in Seq(Message) /\ Waiting' \in SUBSET Waiting
        BY <1>1, <1>7
      <4> HIDE DEF ms
      <4> QED
        BY <1>3, <1>5, <4>3, <4>4, <4>5, <4>6, InsertTidy
    <3>2. ASSUME NEW d \in Caller, caller'[d].pc = "put" PROVE Tidy(caller'[d].read, Waiting')
      <4>1. caller'[d] = caller[d]
        BY <1>2, <3>2 DEF MovedTo
      <4>2. Tidy(caller[d].read, Waiting)
        BY <3>2, <4>1 DEF TidyInv
      <4> QED
        BY <1>7, <4>1, <4>2, TidyLess
    <3> QED
      BY <2>2, <3>1, <3>2 DEF TidyInv
  <2> QED
    BY <1>4, <2>1, <2>2
<1>9. TimeInv'
  BY DEF TimeInv
<1>10. ListInv'
  <2>1. CASE messages' = messages /\ storeFaults' = storeFaults + 1
    <3>1. storeFaults' # 0
      BY <1>1, <2>1
    <3> QED
      BY <1>1, <1>2, <2>1, <3>1, ListFrame
  <2>2. CASE messages' = Append(ms, m) /\ storeFaults' = storeFaults
    <3> SUFFICES ASSUME "messages" \notin raced PROVE ListInv'
      BY <1>1 DEF ListInv
    <3>1. /\ \A d \in Caller : caller[d].pc = "put" => d = c
          /\ ms = messages
          /\ storeFaults = 0 =>
              /\ \A d \in Run : caller[d].pc \in {"touch", "count", "save"} /\ Op(d) \in Role => Stored(d, Op(d))
              /\ \A d \in Run, r \in Role : <<d, r>> \in told => Stored(d, r)
      BY <1>1 DEF ListInv, Alone
    <3>2. \A d \in Caller : caller'[d].pc # "put"
      BY <1>2, <3>1 DEF MovedTo
    <3>3. \A d, r : Stored(d, r) => Stored(d, r)'
      BY <1>1, <1>5, <2>2, <3>1, InsertedHas DEF Stored
    <3>4. Stored(c, Op(c))'
      <4>1. \E j \in 1..Len(messages') : messages'[j] = m
        <5>1. ms \in Seq(Message)
          BY <1>1
        <5> HIDE DEF ms
        <5>2. Len(ms) + 1 \in 1..Len(Append(ms, m)) /\ Append(ms, m)[Len(ms) + 1] = m
          BY <1>5, <5>1, InsertedHas
        <5> QED
          BY <2>2, <5>2
      <4>2. PICK j \in 1..Len(messages') : messages'[j] = m
        BY <4>1
      <4>3. caller'[c].todo = caller[c].todo
        BY <1>2 DEF MovedTo
      <4> QED
        BY <1>3, <4>2, <4>3 DEF Stored, Op
    <3>5. ASSUME storeFaults = 0, NEW d \in Run, caller'[d].pc \in {"touch", "count", "save"}, Op(d)' \in Role
          PROVE  Stored(d, Op(d))'
      <4>1. CASE d = c
        BY <3>4, <4>1
      <4>2. CASE d # c
        <5>1. d \in Caller /\ caller'[d] = caller[d]
          BY <1>2, <4>2 DEF MovedTo, Caller
        <5>2. Op(d)' = Op(d)
          BY <5>1 DEF Op
        <5>3. Stored(d, Op(d))
          BY <3>1, <3>5, <5>1, <5>2
        <5> QED
          BY <3>3, <5>2, <5>3 DEF Stored
      <4> QED
        BY <4>1, <4>2
    <3>6. storeFaults = 0 => \A d \in Run, r \in Role : <<d, r>> \in told => Stored(d, r)'
      BY <3>1, <3>3
    <3> QED
      BY <1>1, <2>2, <3>2, <3>5, <3>6 DEF ListInv, Alone
  <2> QED
    BY <1>4, <2>1, <2>2
<1>11. raced \subseteq raced' /\ (storeFaults' = 0 => storeFaults = 0)
  BY <1>1, <1>4
<1>12. SessionInv'
  BY <1>1, <1>2, <1>11, SessionFrame
<1>13. IdsInv'
  BY <1>1, <1>2, <1>11, IdsFrame
<1> QED
  BY <1>6, <1>8, <1>9, <1>10, <1>12, <1>13

LEMMA LoadSessionKeeps ==
  ASSUME ChatInv, NEW c \in Caller, backend = "redis", UNCHANGED backend, load_session(c)
  PROVE  ChatInv'
<1> USE DEF ChatInv
<1>1. /\ caller[c].todo # <<>> /\ UNCHANGED <<session, messages, ids, told, storeFaults>>
      /\ \/ caller[c].pc = "touch"
         \/ caller[c].pc = "call" /\ Op(c) \in {"title", "archive_session"}
  BY DEF load_session, AtPc, StoreUp
<1>2. session \in SessionRecord /\ [session EXCEPT !.status = "deleted"] \in SessionRecord
      /\ [session EXCEPT !.status = "deleted"].status = "deleted"
      /\ [session EXCEPT !.status = "deleted"].count = session.count
  BY DEF ChatTypes, SessionRecord
<1>3. caller[c].pc = "touch" => Op(c) \in Role
  BY CallTypes DEF HeldAt, Op
<1>4. PICK p \in {"count", "save"}, v \in SessionRecord :
         /\ Goto(c, p, v)
         /\ v.status = IF Op(c) = "archive_session" THEN "deleted" ELSE session.status
         /\ v.count = session.count
         /\ p = "save" <=> Op(c) \in {"title", "archive_session"}
  <2>1. CASE Op(c) = "archive_session"
    <3>1. Goto(c, "save", [session EXCEPT !.status = "deleted"])
      BY <2>1 DEF load_session
    <3> QED
      BY <1>2, <2>1, <3>1
  <2>2. CASE Op(c) = "title"
    <3>1. Goto(c, "save", session)
      BY <2>2 DEF load_session
    <3> QED
      BY <1>2, <2>2, <3>1
  <2>3. CASE Op(c) \notin {"title", "archive_session"}
    <3>1. Goto(c, "count", session)
      BY <2>3 DEF load_session
    <3> QED
      BY <1>2, <2>3, <3>1
  <2> QED
    BY <2>1, <2>2, <2>3
<1>5. MovedTo(c, p, caller[c].todo, v, caller[c].at)
  BY <1>4, GotoIs
<1>6. /\ raced \subseteq raced'
      /\ "session" \notin raced' => \A d \in Caller : d # c => caller[d].pc \notin {"count", "save"}
  BY ReadsAre DEF load_session
<1>7. p = "count" => Op(c) \in Role /\ caller[c].pc = "touch"
  BY <1>1, <1>3, <1>4
<1>8. ChatTypes'
  <2>1. HeldAt(p, caller[c].todo, v) /\ p \in CallPcs
    <3>1. p = "save" => Head(caller[c].todo) # "create_session"
      BY <1>4 DEF Op
    <3> QED
      BY <1>1, <1>4, <1>7, <3>1 DEF HeldAt, Op, CallPcs
  <2>2. /\ messages' \in Seq(Message) /\ session' \in SessionRecord /\ ids' \in SessionIds /\ storeFaults' \in Nat
        /\ caller[c].todo \in Todos(c) /\ caller[c].at \in Nat
    BY <1>1 DEF ChatTypes
  <2>3. p # "insert"
    BY <1>4
  <2> QED
    BY <1>5, <2>1, <2>2, <2>3, TypesKeep
<1>9. Waiting' \subseteq Waiting
  BY <1>4, <1>5, WaitingShrinks DEF Early
<1>10. TidyInv' /\ TimeInv'
  <2>1. p # "put"
    BY <1>4
  <2> QED
    BY <1>1, <1>5, <1>9, <2>1, TidyFrame DEF TimeInv
<1>11. ListInv'
  <2>1. Op(c) \in Role => caller[c].pc = "touch"
    BY <1>1 DEF Role
  <2>2. p # "put" /\ Head(caller[c].todo) = Op(c)
    BY <1>4 DEF Op
  <2> QED
    BY <1>1, <1>5, <1>6, <2>1, <2>2, ListFrame
<1>12. SessionInv'
  <2> SUFFICES ASSUME "session" \notin raced' PROVE SessionInv'
    BY DEF SessionInv
  <2>1. \A d \in Caller : d # c => caller'[d] = caller[d] /\ caller[d].pc \notin {"count", "save"}
    BY <1>5, <1>6 DEF MovedTo
  <2>2. caller'[c].pc = p /\ caller'[c].read = v /\ Op(c)' = Op(c)
    BY <1>5 DEF MovedTo, Op
  <2>3. Alone({"count", "save"})'
    BY <2>1 DEF Alone
  <2>4. \A d \in Caller : caller'[d].pc \in {"count", "save"} =>
           caller'[d].read.status = IF Op(d)' = "archive_session" THEN "deleted" ELSE session'.status
    BY <1>1, <1>4, <2>1, <2>2
  <2>5. storeFaults = 0 /\ (caller'["archive_session"].pc \in {"ids", "put_ids"} \/ Archived \in told') => session.status = "deleted"
    <3>1. "archive_session" \in Caller
      BY DEF Caller, Route
    <3>2. caller'["archive_session"].pc \in {"ids", "put_ids"} => caller["archive_session"].pc \in {"ids", "put_ids"}
      BY <1>4, <2>1, <2>2, <3>1
    <3> QED
      BY <1>1, <1>6, <3>2 DEF SessionInv
  <2>6. ASSUME storeFaults = 0, \A d \in Caller : caller'[d].pc \notin {"touch", "count"}
        PROVE  /\ \A d \in Caller : caller'[d].pc = "save" => caller'[d].read.count = Len(messages)
               /\ \E d \in Caller : caller'[d].pc = "save"
    <3>1. p = "save"
      BY <1>4, <2>2, <2>6
    <3>2. Op(c) \notin Role
      BY <1>4, <3>1 DEF Role
    <3>3. caller[c].pc = "call"
      BY <1>1, <1>3, <3>2
    <3>4. \A d \in Caller : caller[d].pc \notin {"touch", "count", "save"}
      BY <2>1, <2>6, <3>3
    <3>5. session.count = Len(messages)
      BY <1>6, <2>6, <3>4 DEF SessionInv
    <3> QED
      BY <1>4, <2>1, <2>2, <3>1, <3>5
  <2> QED
    BY <1>1, <2>3, <2>4, <2>5, <2>6 DEF SessionInv
<1>13. IdsInv'
  <2>1. p # "put_ids"
    BY <1>4
  <2> QED
    BY <1>1, <1>5, <1>6, <2>1, IdsFrame
<1> QED
  BY <1>8, <1>10, <1>11, <1>12, <1>13

LEMMA CountMessagesKeeps ==
  ASSUME ChatInv, NEW c \in Caller, backend = "redis", UNCHANGED backend, count_messages(c)
  PROVE  ChatInv'
<1> USE DEF ChatInv
<1> DEFINE v == [caller[c].read EXCEPT !.count = Len(messages)]
<1>1. /\ caller[c].pc = "count" /\ caller[c].todo # <<>>
      /\ UNCHANGED <<session, messages, ids, told, raced, storeFaults>>
  BY DEF count_messages, AtPc, StoreUp
<1>2. MovedTo(c, "save", caller[c].todo, v, caller[c].at)
  BY GotoIs DEF count_messages
<1>3. Op(c) \in Role /\ caller[c].read \in SessionRecord
  <2>1. HeldAt("count", caller[c].todo, caller[c].read)
    BY <1>1, CallTypes
  <2> QED
    BY <2>1 DEF HeldAt, Op
<1>4. v \in SessionRecord /\ v.status = caller[c].read.status /\ v.count = Len(messages)
  <2>1. Len(messages) \in Nat
    BY DEF ChatTypes
  <2> QED
    BY <1>3, <2>1 DEF SessionRecord
<1> HIDE DEF v
<1>5. ChatTypes'
  <2>1. HeldAt("save", caller[c].todo, v) /\ "save" \in CallPcs
    BY <1>1, <1>3, <1>4 DEF HeldAt, Op, CallPcs, Role
  <2>2. /\ messages' \in Seq(Message) /\ session' \in SessionRecord /\ ids' \in SessionIds /\ storeFaults' \in Nat
        /\ caller[c].todo \in Todos(c) /\ caller[c].at \in Nat
    BY <1>1 DEF ChatTypes
  <2> QED
    BY <1>2, <2>1, <2>2, TypesKeep
<1>6. Waiting' \subseteq Waiting
  BY <1>2, WaitingShrinks DEF Early
<1>7. TidyInv' /\ TimeInv'
  BY <1>1, <1>2, <1>6, TidyFrame DEF TimeInv
<1>8. ListInv'
  BY <1>1, <1>2, ListFrame
<1>9. SessionInv'
  <2> SUFFICES ASSUME "session" \notin raced PROVE SessionInv'
    BY <1>1 DEF SessionInv
  <2>1. \A d \in Caller : d # c => caller'[d] = caller[d] /\ caller[d].pc \notin {"count", "save"}
    BY <1>1, <1>2 DEF MovedTo, SessionInv, Alone
  <2>2. caller'[c].pc = "save" /\ caller'[c].read = v /\ Op(c)' = Op(c)
    BY <1>2 DEF MovedTo, Op
  <2>3. Alone({"count", "save"})'
    BY <2>1 DEF Alone
  <2>4. v.status = IF Op(c) = "archive_session" THEN "deleted" ELSE session.status
    BY <1>1, <1>4 DEF SessionInv
  <2>5. \A d \in Caller : caller'[d].pc \in {"count", "save"} =>
           caller'[d].read.status = IF Op(d)' = "archive_session" THEN "deleted" ELSE session'.status
    BY <1>1, <2>1, <2>2, <2>4
  <2>6. storeFaults = 0 /\ (caller'["archive_session"].pc \in {"ids", "put_ids"} \/ Archived \in told') => session.status = "deleted"
    <3>1. "archive_session" \in Caller
      BY DEF Caller, Route
    <3>2. caller'["archive_session"].pc \in {"ids", "put_ids"} => caller["archive_session"].pc \in {"ids", "put_ids"}
      BY <2>1, <2>2, <3>1
    <3> QED
      BY <1>1, <3>2 DEF SessionInv
  <2>7. /\ \A d \in Caller : caller'[d].pc = "save" => caller'[d].read.count = Len(messages)
        /\ \E d \in Caller : caller'[d].pc = "save"
    BY <1>4, <2>1, <2>2
  <2> QED
    BY <1>1, <2>3, <2>5, <2>6, <2>7 DEF SessionInv
<1>10. IdsInv'
  BY <1>1, <1>2, IdsFrame
<1> QED
  BY <1>5, <1>7, <1>8, <1>9, <1>10

LEMMA SaveSessionKeeps ==
  ASSUME ChatInv, NEW c \in Caller, backend = "redis", UNCHANGED backend, save_session(c)
  PROVE  ChatInv'
<1> USE DEF ChatInv
<1>1. /\ caller[c].pc = "save" /\ caller[c].todo # <<>> /\ UNCHANGED <<messages, ids, raced>> /\ storeFaults \in Nat
      /\ \/ session' = caller[c].read /\ storeFaults' = storeFaults
         \/ session' = session /\ storeFaults' = storeFaults + 1
  BY DEF save_session, AtPc, StoreUp, StoreDown, ChatTypes
<1>2. Op(c) # "create_session" /\ caller[c].read \in SessionRecord
  <2>1. HeldAt("save", caller[c].todo, caller[c].read)
    BY <1>1, CallTypes
  <2> QED
    BY <2>1 DEF HeldAt, Op
<1>3. PICK p \in {"ids", "call"}, t \in Todos(c) :
         /\ MovedTo(c, p, t, <<>>, caller[c].at)
         /\ p = "ids" <=> Op(c) = "archive_session"
         /\ p = "ids" => told' = told /\ t = caller[c].todo
         /\ p = "call" => told' = told \cup {<<c, Op(c)>>} /\ t = Tail(caller[c].todo)
  <2>1. CASE Op(c) = "archive_session"
    <3>1. Goto(c, "ids", <<>>) /\ told' = told
      BY <2>1 DEF save_session
    <3> QED
      BY <2>1, <3>1, GotoIs, CallTypes
  <2>2. CASE Op(c) # "archive_session"
    <3>1. Return(c)
      BY <2>2 DEF save_session
    <3>2. Tail(caller[c].todo) \in Todos(c) /\ MovedTo(c, "call", Tail(caller[c].todo), <<>>, caller[c].at)
      BY <1>1, <3>1, ReturnIs, CallTypes
    <3> QED
      BY <2>2, <3>1, <3>2 DEF Return
  <2> QED
    BY <2>1, <2>2
<1>4. /\ Archived \in told' => Archived \in told
      /\ Created \in told' => Created \in told
      /\ told' \subseteq told \cup {<<c, Op(c)>>}
  BY <1>2, <1>3 DEF Archived, Created
<1>5. ChatTypes'
  <2>1. HeldAt(p, t, <<>>) /\ p \in CallPcs
    BY <1>1, <1>3 DEF HeldAt, Op, CallPcs
  <2>2. /\ messages' \in Seq(Message) /\ ids' \in SessionIds /\ storeFaults' \in Nat /\ caller[c].at \in Nat
    BY <1>1 DEF ChatTypes
  <2>3. session' \in SessionRecord /\ p # "insert"
    BY <1>1, <1>2, <1>3 DEF ChatTypes
  <2> QED
    BY <1>3, <2>1, <2>2, <2>3, TypesKeep
<1>6. Waiting' \subseteq Waiting
  BY <1>1, <1>3, WaitingShrinks DEF Early
<1>7. storeFaults' = 0 => storeFaults = 0
  BY <1>1
<1>8. TidyInv' /\ TimeInv'
  <2>1. p # "put"
    BY <1>3
  <2> QED
    BY <1>1, <1>3, <1>6, <2>1, TidyFrame DEF TimeInv
<1>9. ListInv'
  <2>1. p # "put" /\ p \notin {"touch", "count", "save"} /\ raced \subseteq raced'
    BY <1>1, <1>3
  <2> QED
    BY <1>1, <1>3, <1>4, <1>7, <2>1, ListFrame
<1>10. SessionInv'
  <2>1. CASE session' = session /\ storeFaults' = storeFaults + 1
    <3>1. storeFaults' # 0 /\ p \notin {"count", "save"} /\ raced \subseteq raced'
      BY <1>1, <1>3, <2>1
    <3> QED
      BY <1>1, <1>3, <2>1, <3>1, SessionFrame
  <2>2. CASE session' = caller[c].read /\ storeFaults' = storeFaults
    <3> SUFFICES ASSUME "session" \notin raced PROVE SessionInv'
      BY <1>1 DEF SessionInv
    <3>1. \A d \in Caller : d # c => caller'[d] = caller[d] /\ caller[d].pc \notin {"count", "save"}
      BY <1>1, <1>3 DEF MovedTo, SessionInv, Alone
    <3>2. caller'[c].pc = p /\ p \in {"ids", "call"}
      BY <1>3 DEF MovedTo
    <3>3. \A d \in Caller : caller'[d].pc \notin {"count", "save"}
      BY <3>1, <3>2
    <3>4. session'.status = IF Op(c) = "archive_session" THEN "deleted" ELSE session.status
      BY <1>1, <2>2 DEF SessionInv
    <3>5. ASSUME storeFaults = 0, caller'["archive_session"].pc \in {"ids", "put_ids"} \/ Archived \in told'
          PROVE  session'.status = "deleted"
      <4>1. CASE Op(c) = "archive_session"
        BY <3>4, <4>1
      <4>2. CASE Op(c) # "archive_session"
        <5>1. c # "archive_session" /\ "archive_session" \in Caller
          BY <1>1, <4>2, CallTypes DEF Caller, Route
        <5>2. caller["archive_session"].pc \in {"ids", "put_ids"} \/ Archived \in told
          BY <1>4, <3>1, <3>5, <5>1
        <5> QED
          BY <3>4, <3>5, <4>2, <5>2 DEF SessionInv
      <4> QED
        BY <4>1, <4>2
    <3>6. ASSUME storeFaults = 0, \A d \in Caller : caller'[d].pc \notin {"touch", "count"}
          PROVE  session'.count = Len(messages)
      <4>1. \A d \in Caller : caller[d].pc \notin {"touch", "count"}
        BY <1>1, <3>1, <3>6
      <4>2. caller[c].read.count = Len(messages)
        BY <1>1, <3>6, <4>1 DEF SessionInv
      <4> QED
        BY <2>2, <4>2
    <3> QED
      BY <1>1, <2>2, <3>3, <3>5, <3>6 DEF SessionInv, Alone
  <2> QED
    BY <1>1, <2>1, <2>2
<1>11. IdsInv'
  <2>1. p # "put_ids" /\ raced \subseteq raced'
    BY <1>1, <1>3
  <2> QED
    BY <1>1, <1>3, <1>4, <1>7, <2>1, IdsFrame
<1> QED
  BY <1>5, <1>8, <1>9, <1>10, <1>11

LEMMA LoadIdsKeeps ==
  ASSUME ChatInv, NEW c \in Caller, backend = "redis", UNCHANGED backend, load_ids(c)
  PROVE  ChatInv'
<1> USE DEF ChatInv
<1>1. /\ caller[c].todo # <<>> /\ UNCHANGED <<session, messages, ids, storeFaults>>
      /\ \/ caller[c].pc = "ids"
         \/ caller[c].pc = "call" /\ Op(c) = "create_session"
  BY DEF load_ids, AtPc, StoreUp
<1>2. /\ caller[c].pc = "ids" => Op(c) = "archive_session"
      /\ Op(c) = "archive_session" <=> c = "archive_session"
      /\ Op(c) = "create_session" <=> c = "create_session"
  <2>1. HeldAt(caller[c].pc, caller[c].todo, caller[c].read)
    BY CallTypes
  <2> QED
    BY <1>1, <2>1, CallTypes DEF HeldAt, Op
<1> DEFINE v == IF Op(c) = "create_session" THEN ids \cup {"s2"} ELSE ids \ {"s1"}
<1>3. CASE Op(c) = "create_session" \/ "s1" \in ids
  <2>1. /\ Goto(c, "put_ids", v) /\ told' = told /\ Reads(c, "ids")
    BY <1>3 DEF load_ids
  <2>2. MovedTo(c, "put_ids", caller[c].todo, v, caller[c].at)
    BY <2>1, GotoIs
  <2>3. /\ raced \subseteq raced'
        /\ "ids" \notin raced' => \A d \in Caller : d # c => caller[d].pc # "put_ids"
    BY <2>1, ReadsAre
  <2>4. v \in SessionIds
    BY DEF ChatTypes, SessionIds
  <2> HIDE DEF v
  <2>5. ChatTypes'
    <3>1. HeldAt("put_ids", caller[c].todo, v) /\ "put_ids" \in CallPcs
      BY <1>1, <1>2, <2>4 DEF HeldAt, Op, CallPcs, Route
    <3>2. /\ messages' \in Seq(Message) /\ session' \in SessionRecord /\ ids' \in SessionIds /\ storeFaults' \in Nat
          /\ caller[c].todo \in Todos(c) /\ caller[c].at \in Nat
      BY <1>1 DEF ChatTypes
    <3> QED
      BY <2>2, <3>1, <3>2, TypesKeep
  <2>6. Waiting' \subseteq Waiting
    BY <2>2, WaitingShrinks DEF Early
  <2>7. TidyInv' /\ TimeInv'
    BY <1>1, <2>2, <2>6, TidyFrame DEF TimeInv
  <2>8. ListInv'
    BY <1>1, <2>1, <2>2, <2>3, ListFrame
  <2>9. SessionInv'
    <3>1. c = "archive_session" => caller["archive_session"].pc = "ids"
      BY <1>1, <1>2
    <3>2. caller[c].pc \notin {"touch", "count", "save"}
      BY <1>1
    <3> QED
      BY <1>1, <2>1, <2>2, <2>3, <3>1, <3>2, SessionFrame
  <2>10. IdsInv'
    <3> SUFFICES ASSUME "ids" \notin raced' PROVE IdsInv'
      BY DEF IdsInv
    <3>1. \A d \in Caller : d # c => caller'[d] = caller[d] /\ caller[d].pc # "put_ids"
      BY <2>2, <2>3 DEF MovedTo
    <3>2. caller'[c].read = v /\ Op(c)' = Op(c)
      BY <2>2 DEF MovedTo, Op
    <3>3. \A d \in Caller : caller'[d].pc = "put_ids" =>
             caller'[d].read = IF Op(d)' = "create_session" THEN ids' \cup {"s2"} ELSE ids' \ {"s1"}
      BY <1>1, <3>1, <3>2 DEF v
    <3>4. Alone({"put_ids"})'
      BY <3>1 DEF Alone
    <3>5. /\ storeFaults = 0 /\ Archived \in told => "s1" \notin ids
          /\ storeFaults = 0 /\ Created \in told => "s2" \in ids
      BY <2>3 DEF IdsInv
    <3> QED
      BY <1>1, <2>1, <3>3, <3>4, <3>5 DEF IdsInv
  <2> QED
    BY <2>5, <2>7, <2>8, <2>9, <2>10
<1>4. CASE ~(Op(c) = "create_session" \/ "s1" \in ids)
  <2>1. Return(c) /\ UNCHANGED raced
    BY <1>4 DEF load_ids
  <2>2. /\ MovedTo(c, "call", Tail(caller[c].todo), <<>>, caller[c].at)
        /\ told' = told \cup {<<c, Op(c)>>} /\ Tail(caller[c].todo) \in Todos(c)
    BY <1>1, <2>1, ReturnIs, CallTypes DEF Return
  <2>3. c = "archive_session" /\ Op(c) = "archive_session" /\ caller[c].pc = "ids"
    BY <1>1, <1>2, <1>4
  <2>4. ChatTypes'
    <3>1. HeldAt("call", Tail(caller[c].todo), <<>>) /\ "call" \in CallPcs
      BY DEF HeldAt, CallPcs
    <3>2. /\ messages' \in Seq(Message) /\ session' \in SessionRecord /\ ids' \in SessionIds /\ storeFaults' \in Nat
          /\ caller[c].at \in Nat
      BY <1>1 DEF ChatTypes
    <3> QED
      BY <2>2, <3>1, <3>2, TypesKeep
  <2>5. Waiting' \subseteq Waiting
    BY <1>1, <2>2, WaitingShrinks DEF Early
  <2>6. TidyInv' /\ TimeInv'
    BY <1>1, <2>2, <2>5, TidyFrame DEF TimeInv
  <2>7. raced \subseteq raced' /\ Op(c) \notin Role
    BY <2>1, <2>3 DEF Role
  <2>8. ListInv'
    BY <1>1, <2>2, <2>7, ListFrame
  <2>9. SessionInv'
    BY <1>1, <2>2, <2>3, <2>7, SessionFrame
  <2>10. IdsInv'
    <3> SUFFICES ASSUME "ids" \notin raced PROVE IdsInv'
      BY <2>1 DEF IdsInv
    <3>1. \A d \in Caller : caller'[d].pc = "put_ids" => d # c /\ caller'[d] = caller[d]
      BY <2>2 DEF MovedTo
    <3>2. Alone({"put_ids"})'
      BY <3>1 DEF Alone, IdsInv
    <3>3. \A d \in Caller : caller'[d].pc = "put_ids" =>
             caller'[d].read = IF Op(d)' = "create_session" THEN ids \cup {"s2"} ELSE ids \ {"s1"}
      BY <3>1 DEF IdsInv, Op
    <3>4. Created \in told' => Created \in told
      BY <2>2, <2>3 DEF Created
    <3>5. storeFaults = 0 /\ Created \in told => "s2" \in ids
      BY DEF IdsInv
    <3> QED
      BY <1>1, <1>4, <3>2, <3>3, <3>4, <3>5 DEF IdsInv
  <2> QED
    BY <2>4, <2>6, <2>8, <2>9, <2>10
<1> QED
  BY <1>3, <1>4

LEMMA PutIdsKeeps ==
  ASSUME ChatInv, NEW c \in Caller, backend = "redis", UNCHANGED backend, put_ids(c)
  PROVE  ChatInv'
<1> USE DEF ChatInv
<1>1. /\ caller[c].pc = "put_ids" /\ caller[c].todo # <<>> /\ UNCHANGED <<session, messages, raced>> /\ storeFaults \in Nat
      /\ \/ ids' = caller[c].read /\ storeFaults' = storeFaults
         \/ ids' = ids /\ storeFaults' = storeFaults + 1
  BY DEF put_ids, AtPc, StoreUp, StoreDown, ChatTypes
<1>2. Op(c) \in Route /\ caller[c].read \in SessionIds
  <2>1. HeldAt("put_ids", caller[c].todo, caller[c].read)
    BY <1>1, CallTypes
  <2> QED
    BY <2>1 DEF HeldAt, Op
<1>3. /\ MovedTo(c, "call", Tail(caller[c].todo), <<>>, caller[c].at)
      /\ told' = told \cup {<<c, Op(c)>>} /\ Tail(caller[c].todo) \in Todos(c)
  <2>1. Return(c)
    BY DEF put_ids
  <2> QED
    BY <1>1, <2>1, ReturnIs, CallTypes DEF Return
<1>4. storeFaults' = 0 => storeFaults = 0
  BY <1>1
<1>5. ChatTypes'
  <2>1. HeldAt("call", Tail(caller[c].todo), <<>>) /\ "call" \in CallPcs
    BY DEF HeldAt, CallPcs
  <2>2. messages' \in Seq(Message) /\ session' \in SessionRecord /\ storeFaults' \in Nat /\ caller[c].at \in Nat
    BY <1>1 DEF ChatTypes
  <2>3. ids' \in SessionIds
    BY <1>1, <1>2 DEF ChatTypes
  <2> QED
    BY <1>3, <2>1, <2>2, <2>3, TypesKeep
<1>6. Waiting' \subseteq Waiting
  BY <1>1, <1>3, WaitingShrinks DEF Early
<1>7. TidyInv' /\ TimeInv'
  BY <1>1, <1>3, <1>6, TidyFrame DEF TimeInv
<1>8. raced \subseteq raced' /\ Op(c) \notin Role
  BY <1>1, <1>2 DEF Role, Route
<1>9. ListInv'
  BY <1>1, <1>3, <1>4, <1>8, ListFrame
<1>10. SessionInv'
  <2>1. Archived \in told' => Archived \in told \/ c = "archive_session"
    BY <1>3 DEF Archived
  <2> QED
    BY <1>1, <1>3, <1>4, <1>8, <2>1, SessionFrame
<1>11. IdsInv'
  <2>1. CASE ids' = ids /\ storeFaults' = storeFaults + 1
    <3>1. storeFaults' # 0
      BY <1>1, <2>1
    <3> QED
      BY <1>1, <1>3, <1>8, <2>1, <3>1, IdsFrame
  <2>2. CASE ids' = caller[c].read /\ storeFaults' = storeFaults
    <3> SUFFICES ASSUME "ids" \notin raced PROVE IdsInv'
      BY <1>1 DEF IdsInv
    <3>1. \A d \in Caller : caller'[d].pc # "put_ids"
      BY <1>1, <1>3 DEF MovedTo, IdsInv, Alone
    <3>2. ids' = IF Op(c) = "create_session" THEN ids \cup {"s2"} ELSE ids \ {"s1"}
      BY <1>1, <2>2 DEF IdsInv
    <3>3. /\ storeFaults = 0 /\ Archived \in told => "s1" \notin ids
          /\ storeFaults = 0 /\ Created \in told => "s2" \in ids
      BY DEF IdsInv
    <3>4. CASE Op(c) = "create_session"
      <4>1. Archived \in told' => Archived \in told
        BY <1>3, <3>4 DEF Archived
      <4> QED
        BY <2>2, <3>1, <3>2, <3>3, <3>4, <4>1 DEF IdsInv, Alone
    <3>5. CASE Op(c) = "archive_session"
      <4>1. Created \in told' => Created \in told
        BY <1>3, <3>5 DEF Created
      <4> QED
        BY <2>2, <3>1, <3>2, <3>3, <3>5, <4>1 DEF IdsInv, Alone
    <3> QED
      BY <1>2, <3>4, <3>5 DEF Route
  <2> QED
    BY <1>1, <2>1, <2>2
<1> QED
  BY <1>5, <1>7, <1>9, <1>10, <1>11

LEMMA BreaksKeeps ==
  ASSUME ChatInv, NEW c \in Caller, UNCHANGED backend, Breaks(c)
  PROVE  ChatInv'
<1> USE DEF ChatInv
<1>1. /\ UNCHANGED <<session, messages, ids, told, raced>> /\ storeFaults \in Nat /\ storeFaults' = storeFaults + 1
  BY DEF Breaks, StoreDown, ChatTypes
<1>2. MovedTo(c, "call", <<>>, <<>>, caller[c].at)
  BY AbortIs DEF Breaks
<1>3. storeFaults' # 0 /\ storeFaults' \in Nat /\ raced \subseteq raced'
  BY <1>1
<1>4. ChatTypes'
  <2>1. HeldAt("call", <<>>, <<>>) /\ "call" \in CallPcs /\ <<>> \in Todos(c)
    BY DEF HeldAt, CallPcs, Todos
  <2>2. /\ messages' \in Seq(Message) /\ session' \in SessionRecord /\ ids' \in SessionIds /\ storeFaults' \in Nat
        /\ caller[c].at \in Nat
    BY <1>1, <1>3 DEF ChatTypes
  <2> QED
    BY <1>2, <2>1, <2>2, TypesKeep
<1>5. Waiting' \subseteq Waiting
  BY <1>2, WaitingShrinks
<1>6. TidyInv'
  BY <1>1, <1>2, <1>5, TidyFrame
<1>7. TimeInv'
  <2>1. caller[c].at \in Nat /\ caller[c].at >= caller[c].at
    BY DEF ChatTypes
  <2> QED
    BY <1>1, <1>2, <2>1, TimeFrame
<1>8. ListInv'
  BY <1>1, <1>2, <1>3, ListFrame
<1>9. SessionInv'
  BY <1>1, <1>2, <1>3, SessionFrame
<1>10. IdsInv'
  BY <1>1, <1>2, <1>3, IdsFrame
<1> QED
  BY <1>4, <1>6, <1>7, <1>8, <1>9, <1>10

\* The time of a message is later than that of any other.
LEMMA StampIsLater ==
  ASSUME ChatTypes
  PROVE  Stamp \in Nat /\ \A c \in Caller : Stamp > caller[c].at
<1> DEFINE S == {caller[c].at : c \in Caller}
           f == [c \in Caller |-> caller[c].at]
<1>1. IsFiniteSet(Caller)
  <2>1. IsFiniteSet({"create_session", "archive_session"})
    <3>1. IsFiniteSet({"create_session"})
      BY FS_Singleton
    <3>2. IsFiniteSet({"create_session"} \cup {"archive_session"})
      BY <3>1, FS_AddElement
    <3>3. {"create_session"} \cup {"archive_session"} = {"create_session", "archive_session"}
      OBVIOUS
    <3> QED
      BY <3>2, <3>3
  <2>2. IsFiniteSet(Run)
    BY StoresAssumption
  <2> QED
    BY <2>1, <2>2, FS_Union DEF Caller, Route
<1>2. \A c \in Caller : caller[c].at \in Nat
  BY DEF ChatTypes
<1>3. f \in Surjection(Caller, S)
  BY DEF Surjection
<1>4. IsFiniteSet(S) /\ S \in SUBSET Nat
  BY <1>1, <1>2, <1>3, FS_Surjection
<1>5. S # {}
  <2>1. "create_session" \in Caller
    BY DEF Caller, Route
  <2> QED
    BY <2>1
<1>6. Max(S) \in Nat /\ \A x \in S : Max(S) >= x
  BY <1>4, <1>5, GreatestNatural
<1>7. Stamp = Max(S) + 1
  BY DEF Stamp
<1> QED
  <2>1. \A c \in Caller : Max(S) >= caller[c].at
    BY <1>6
  <2> HIDE DEF S
  <2> QED
    BY <1>2, <1>6, <1>7, <2>1

LEMMA DateKeeps ==
  ASSUME ChatInv, NEW c \in Caller, backend = "supabase", UNCHANGED backend, Date(c)
  PROVE  ChatInv'
<1> USE DEF ChatInv
<1>1. /\ caller[c].pc = "call" /\ caller[c].todo # <<>> /\ Op(c) \in Role
      /\ UNCHANGED <<session, messages, ids, told, raced, storeFaults>>
  BY DEF Date, AtPc, IsMessage, Role, StoreUp
<1>2. MovedTo(c, "insert", caller[c].todo, caller[c].read, Stamp)
  BY DateIs
<1>3. Stamp \in Nat /\ Stamp > caller[c].at /\ caller[c].at \in Nat /\ raced \subseteq raced'
  BY <1>1, StampIsLater DEF ChatTypes
<1>4. ChatTypes'
  <2>1. HeldAt("insert", caller[c].todo, caller[c].read) /\ "insert" \in CallPcs
    BY <1>1 DEF HeldAt, Op, CallPcs
  <2>2. /\ messages' \in Seq(Message) /\ session' \in SessionRecord /\ ids' \in SessionIds /\ storeFaults' \in Nat
        /\ caller[c].todo \in Todos(c)
    BY <1>1 DEF ChatTypes
  <2> QED
    BY <1>2, <1>3, <2>1, <2>2, TypesKeep
<1>5. Waiting' \subseteq Waiting
  BY <1>1, <1>2, WaitingShrinks DEF Early
<1>6. TidyInv'
  BY <1>1, <1>2, <1>5, TidyFrame
<1>7. TimeInv'
  <2>1. Stamp >= caller[c].at
    BY <1>3
  <2> QED
    BY <1>1, <1>2, <1>3, <2>1, TimeFrame
<1>8. ListInv'
  BY <1>1, <1>2, <1>3, ListFrame
<1>9. SessionInv'
  BY <1>1, <1>2, <1>3, SessionFrame
<1>10. IdsInv'
  BY <1>1, <1>2, <1>3, IdsFrame
<1> QED
  BY <1>4, <1>6, <1>7, <1>8, <1>9, <1>10

LEMMA StatementKeeps ==
  ASSUME ChatInv, NEW c \in Caller, backend = "supabase", UNCHANGED backend, Statement(c)
  PROVE  ChatInv'
<1> USE DEF ChatInv
<1>1. /\ caller[c].todo # <<>> /\ UNCHANGED raced /\ storeFaults \in Nat
      /\ \/ caller[c].pc = "insert"
         \/ caller[c].pc = "call" /\ ~IsMessage(c)
  BY DEF Statement, AtPc, ChatTypes
<1>2. /\ MovedTo(c, "call", Tail(caller[c].todo), <<>>, caller[c].at)
      /\ told' = told \cup {<<c, Op(c)>>} /\ Tail(caller[c].todo) \in Todos(c)
  <2>1. Return(c)
    BY DEF Statement
  <2> QED
    BY <1>1, <2>1, ReturnIs, CallTypes DEF Return
<1>3. \/ /\ messages' = IF IsMessage(c) THEN ByTime(messages, NewMessage(c)) ELSE messages
         /\ session' = IF Op(c) = "archive_session" THEN [session EXCEPT !.status = "deleted"] ELSE session
         /\ ids' = IF Op(c) = "create_session" THEN ids \cup {"s2"} ELSE ids
         /\ storeFaults' = storeFaults
      \/ UNCHANGED <<session, messages, ids>> /\ storeFaults' = storeFaults + 1
  BY DEF Statement, StoreUp, StoreDown
<1>4. Waiting' \subseteq Waiting
  BY <1>1, <1>2, WaitingShrinks DEF Early
<1>5. /\ raced \subseteq raced' /\ (storeFaults' = 0 => storeFaults = 0) /\ storeFaults' \in Nat
      /\ told' \subseteq told \cup {<<c, Op(c)>>}
  BY <1>1, <1>2, <1>3
<1>6. caller[c].at \in Nat /\ caller[c].at >= caller[c].at
  BY DEF ChatTypes
<1>7. \A d \in Caller : caller[d].pc \in {"call", "insert"}
  BY DEF ChatTypes
<1>8. \A d \in Caller : caller'[d].pc \in {"call", "insert"}
  BY <1>2, <1>7 DEF MovedTo
<1>9. ASSUME messages' \in Seq(Message), session' \in SessionRecord, ids' \in SessionIds PROVE ChatTypes'
  <2>1. HeldAt("call", Tail(caller[c].todo), <<>>) /\ "call" \in CallPcs
    BY DEF HeldAt, CallPcs
  <2> QED
    BY <1>2, <1>5, <1>6, <1>9, <2>1, TypesKeep
<1>10. IsMessage(c) <=> Op(c) \in Role
  BY DEF IsMessage, Role
<1>11. CASE UNCHANGED <<session, messages, ids>> /\ storeFaults' = storeFaults + 1
  <2>1. storeFaults' # 0
    BY <1>1, <1>11
  <2>2. ChatTypes'
    BY <1>9, <1>11 DEF ChatTypes
  <2>3. TidyInv'
    BY <1>2, <1>4, <1>11, TidyFrame
  <2>4. TimeInv'
    BY <1>2, <1>6, <1>11, TimeFrame
  <2>5. ListInv'
    BY <1>2, <1>5, <1>11, <2>1, ListFrame
  <2>6. SessionInv'
    BY <1>2, <1>5, <1>11, <2>1, SessionFrame
  <2>7. IdsInv'
    BY <1>2, <1>5, <1>11, <2>1, IdsFrame
  <2> QED
    BY <2>2, <2>3, <2>4, <2>5, <2>6, <2>7
<1>12. CASE IsMessage(c) /\ messages' = ByTime(messages, NewMessage(c)) /\ storeFaults' = storeFaults
            /\ UNCHANGED <<session, ids>>
  <2> DEFINE m == NewMessage(c)
  <2>1. c \in Run /\ Op(c) \in Role /\ caller[c].pc = "insert" /\ messages \in Seq(Message)
    BY <1>1, <1>10, <1>12, CallTypes DEF ChatTypes
  <2>2. m \in Message /\ m.by = c /\ m.role = Op(c) /\ m.at = caller[c].at
    BY <1>6, <2>1 DEF NewMessage, Message
  <2>3. messages' = ByTime(messages, m)
    BY <1>12
  <2> HIDE DEF m
  <2>4. PICK k \in 0..Len(messages) : /\ Inserted(ByTime(messages, m), messages, k, m)
                                      /\ \A i \in 1..Len(messages) : messages[i].at <= m.at => i <= k
    BY <2>1, <2>2, ByTimeInserts
  <2>5. Inserted(messages', messages, k, m)
    BY <2>3, <2>4
  <2>6. /\ k + 1 \in 1..Len(messages') /\ messages'[k + 1] = m
        /\ \A i \in 1..Len(messages) : \E j \in 1..Len(messages') : messages'[j] = messages[i]
        /\ \A j \in 1..Len(messages') : messages'[j] = m \/ \E i \in 1..Len(messages) : messages'[j] = messages[i]
    BY <2>1, <2>5, InsertedHas
  <2>7. ChatTypes'
    BY <1>9, <1>12, <2>5 DEF Inserted, ChatTypes
  <2>8. \A i \in 1..Len(messages) : messages[i].by = c => messages[i].at <= m.at
    <3> SUFFICES ASSUME NEW i \in 1..Len(messages), messages[i].by = c PROVE messages[i].at <= m.at
      OBVIOUS
    <3>1. messages[i].at <= caller[messages[i].by].at
      BY DEF TimeInv
    <3> QED
      BY <2>2, <3>1
  <2>9. Tidy(messages', Waiting')
    <3>1. <<c, Op(c)>> \in Waiting /\ (Op(c) = "user" => <<c, "assistant">> \in Waiting)
      BY <1>1, <2>1, WaitsNow DEF Early
    <3>2. <<c, Op(c)>> \notin Waiting'
      BY <1>1, <1>2, <2>1, WaitsNoMore
    <3>3. Tidy(messages, Waiting)
      BY DEF TidyInv
    <3>4. \A i \in 1..Len(messages) : messages[i].by = m.by /\ messages[i].role = "user" => i <= k
      BY <2>2, <2>4, <2>8
    <3>5. /\ <<m.by, m.role>> \in Waiting /\ <<m.by, m.role>> \notin Waiting'
          /\ m.role = "user" => <<m.by, "assistant">> \in Waiting
      BY <2>2, <3>1, <3>2
    <3> QED
      BY <1>4, <2>1, <2>2, <2>5, <3>3, <3>4, <3>5, InsertTidy
  <2>10. TidyInv'
    <3>1. \A d \in Caller : caller'[d].pc # "put"
      BY <1>8
    <3> QED
      BY <2>9, <3>1 DEF TidyInv
  <2>11. TimeInv'
    <3> SUFFICES ASSUME NEW j \in 1..Len(messages')
                 PROVE  /\ messages'[j].at <= caller'[messages'[j].by].at
                        /\ caller'[messages'[j].by].pc = "insert" => messages'[j].at < caller'[messages'[j].by].at
      BY DEF TimeInv
    <3>1. caller'[c].at = caller[c].at /\ caller'[c].pc = "call"
      BY <1>2 DEF MovedTo
    <3>2. CASE messages'[j] = m
      BY <1>6, <2>2, <3>1, <3>2
    <3>3. CASE messages'[j] # m
      <4>1. PICK i \in 1..Len(messages) : messages'[j] = messages[i]
        BY <2>6, <3>3
      <4>2. messages[i] \in Message
        BY <2>1
      <4>3. messages[i].by \in Caller
        BY <4>2 DEF Message, Caller
      <4>4. /\ messages[i].at <= caller[messages[i].by].at
            /\ caller[messages[i].by].pc = "insert" => messages[i].at < caller[messages[i].by].at
        BY DEF TimeInv
      <4>5. CASE messages[i].by = c
        BY <3>1, <4>1, <4>4, <4>5
      <4>6. CASE messages[i].by # c
        <5>1. caller'[messages[i].by] = caller[messages[i].by]
          BY <1>2, <4>3, <4>6 DEF MovedTo
        <5> QED
          BY <4>1, <4>4, <5>1
      <4> QED
        BY <4>5, <4>6
    <3> QED
      BY <3>2, <3>3
  <2>12. ListInv'
    <3> SUFFICES ASSUME "messages" \notin raced PROVE ListInv'
      BY <1>1 DEF ListInv
    <3>1. \A d \in Caller : caller'[d].pc \notin {"put", "touch", "count", "save"}
      BY <1>8
    <3>2. ASSUME storeFaults = 0, NEW d \in Run, NEW r \in Role, <<d, r>> \in told' PROVE Stored(d, r)'
      <4>1. CASE <<d, r>> \in told
        <5>1. Stored(d, r)
          BY <3>2, <4>1 DEF ListInv
        <5> QED
          BY <2>6, <5>1 DEF Stored
      <4>2. CASE <<d, r>> \notin told
        <5>1. <<d, r>> = <<c, Op(c)>>
          BY <1>2, <3>2, <4>2
        <5>2. d = c /\ r = Op(c)
          BY <5>1
        <5> QED
          BY <2>2, <2>6, <5>2 DEF Stored
      <4> QED
        BY <4>1, <4>2
    <3>3. Run \subseteq Caller
      BY DEF Caller
    <3> QED
      BY <1>12, <3>1, <3>2, <3>3 DEF ListInv, Alone
  <2>13. /\ Archived \in told' => Archived \in told
         /\ Created \in told' => Created \in told
    BY <1>2, <2>1 DEF Archived, Created, Role
  <2>14. SessionInv'
    BY <1>2, <1>5, <1>12, <2>13, SessionFrame
  <2>15. IdsInv'
    BY <1>2, <1>5, <1>12, <2>13, IdsFrame
  <2> QED
    BY <2>7, <2>10, <2>11, <2>12, <2>14, <2>15
<1>13. CASE /\ ~IsMessage(c) /\ messages' = messages /\ storeFaults' = storeFaults
            /\ session' = IF Op(c) = "archive_session" THEN [session EXCEPT !.status = "deleted"] ELSE session
            /\ ids' = IF Op(c) = "create_session" THEN ids \cup {"s2"} ELSE ids
  <2>1. ChatTypes'
    <3>1. messages' \in Seq(Message)
      BY <1>13 DEF ChatTypes
    <3>2. session' \in SessionRecord
      BY <1>13 DEF ChatTypes, SessionRecord
    <3>3. ids' \in SessionIds
      BY <1>13 DEF ChatTypes, SessionIds
    <3> QED
      BY <1>9, <3>1, <3>2, <3>3
  <2>2. TidyInv'
    BY <1>2, <1>4, <1>13, TidyFrame
  <2>3. TimeInv'
    BY <1>2, <1>6, <1>13, TimeFrame
  <2>4. ListInv'
    BY <1>2, <1>5, <1>10, <1>13, ListFrame
  <2>5. SessionInv'
    <3>1. CASE Op(c) = "archive_session"
      <4>1. session'.status = "deleted"
        BY <1>13, <3>1 DEF ChatTypes, SessionRecord
      <4> QED
        BY <1>8, <4>1 DEF SessionInv, Alone
    <3>2. CASE Op(c) # "archive_session"
      <4>1. Archived \in told' => Archived \in told
        BY <1>2, <3>2 DEF Archived
      <4> QED
        BY <1>2, <1>5, <1>13, <3>2, <4>1, SessionFrame
    <3> QED
      BY <3>1, <3>2
  <2>6. IdsInv'
    <3>1. CASE Op(c) = "create_session"
      <4>1. "s2" \in ids'
        BY <1>13, <3>1
      <4> QED
        BY <1>8, <4>1 DEF IdsInv, Alone
    <3>2. CASE Op(c) # "create_session"
      <4>1. Created \in told' => Created \in told
        BY <1>2, <3>2 DEF Created
      <4> QED
        BY <1>2, <1>5, <1>13, <3>2, <4>1, IdsFrame
    <3> QED
      BY <3>1, <3>2
  <2> QED
    BY <2>1, <2>2, <2>3, <2>4, <2>5, <2>6
<1>14. IsMessage(c) => Op(c) \notin {"archive_session", "create_session"}
  BY DEF IsMessage
<1> QED
  BY <1>3, <1>11, <1>12, <1>13, <1>14

-----------------------------------------------------------------------------
(* All steps *)

LEMMA ChatStarts == Init => ChatInv
<1> SUFFICES ASSUME StoresInit PROVE ChatInv
  BY DEF Init
<1>1. \A c \in Caller : /\ caller[c] = [pc |-> "call", todo |-> Program(c), read |-> <<>>, at |-> 0]
                        /\ caller[c].pc = "call" /\ caller[c].todo = Program(c) /\ caller[c].read = <<>> /\ caller[c].at = 0
  BY DEF StoresInit
<1>2. ASSUME NEW c \in Caller PROVE Program(c) \in Todos(c)
  <2>1. CASE c \in Route
    <3>1. c \notin Failing /\ c \notin Titled
      BY <2>1, StoresAssumption
    <3> QED
      BY <2>1, <3>1 DEF Program, Todos
  <2>2. CASE c \notin Route
    BY <2>2 DEF Program, Todos
  <2> QED
    BY <2>1, <2>2
<1>3. Callers
  BY <1>1 DEF StoresInit, Callers
<1>4. /\ messages = <<>> /\ Len(messages) = 0 /\ messages \in Seq(Message) /\ storeFaults = 0 /\ told = {}
      /\ session = [status |-> "active", count |-> 0] /\ session.count = 0
      /\ \A i \in 1..0 : FALSE
  BY DEF StoresInit
<1>5. session \in SessionRecord /\ ids \in SessionIds /\ backend \in {"redis", "supabase"}
  BY <1>4, StoresAssumption DEF StoresInit, SessionRecord, SessionIds
<1>6. ChatTypes
  <2>1. \A c \in Caller : HeldAt(caller[c].pc, caller[c].todo, caller[c].read) /\ caller[c].pc \in CallPcs
    BY <1>1 DEF HeldAt, CallPcs
  <2>2. storeFaults \in Nat
    BY <1>4
  <2>3. \A c \in Caller : caller[c].todo \in Todos(c) /\ caller[c].at \in Nat /\ caller[c].pc = "call"
    <3>1. \A c \in Caller : caller[c].todo = Program(c) /\ caller[c].at = 0 /\ caller[c].pc = "call"
      BY <1>1
    <3>2. 0 \in Nat
      OBVIOUS
    <3> QED
      BY <1>2, <3>1, <3>2, Zenon
  <2> QED
    BY <1>3, <1>4, <1>5, <2>1, <2>2, <2>3 DEF ChatTypes
<1>7. TidyInv /\ TimeInv
  BY <1>1, <1>4 DEF TidyInv, TimeInv, Tidy
<1>8. ListInv
  <2>1. Run \subseteq Caller
    BY DEF Caller
  <2> QED
    BY <1>1, <1>4, <2>1 DEF ListInv, Alone
<1>9. SessionInv /\ IdsInv
  <2>1. "archive_session" \in Caller
    BY DEF Caller, Route
  <2> QED
    BY <1>1, <1>4, <2>1 DEF SessionInv, IdsInv, Alone
<1> QED
  BY <1>6, <1>7, <1>8, <1>9 DEF ChatInv

\* A step that is none of a call.
LEMMA ChatUnchanged ==
  ASSUME ChatInv, UNCHANGED <<backend, sessionVars>>, storeFaults' \in Nat, storeFaults' = 0 => storeFaults = 0
  PROVE  ChatInv'
<1>1. UNCHANGED <<backend, session, messages, ids, caller, told, raced>>
  BY DEF sessionVars
<1>2. ChatTypes'
  BY <1>1 DEF ChatInv, ChatTypes, Callers
<1>3. TidyInv' /\ TimeInv'
  BY <1>1 DEF ChatInv, TidyInv, TimeInv, Waiting, Op
<1>4. ListInv'
  BY <1>1 DEF ChatInv, ListInv, Alone, Stored, Op
<1>5. SessionInv'
  BY <1>1 DEF ChatInv, SessionInv, Alone, Op
<1>6. IdsInv'
  BY <1>1 DEF ChatInv, IdsInv, Alone, Op
<1> QED
  BY <1>2, <1>3, <1>4, <1>5, <1>6 DEF ChatInv

\* No value is raced for in Supabase.
RaceInv == backend = "supabase" => raced = {}

LEMMA StoresKeep == ChatInv /\ EventInv /\ RaceInv /\ [Next]_vars => ChatInv' /\ EventInv' /\ RaceInv'
<1> SUFFICES ASSUME ChatInv, EventInv, RaceInv, [Next]_vars PROVE ChatInv' /\ EventInv' /\ RaceInv'
  OBVIOUS
<1>1. CASE SessionNext
  <2>1. UNCHANGED backend /\ EventInv'
    BY <1>1 DEF SessionNext, EventInv, eventVars
  <2>2. PICK c \in Caller : \/ backend = "redis" /\ RedisStep(c)
                            \/ backend = "supabase" /\ (Date(c) \/ Statement(c))
                            \/ Breaks(c)
    BY <1>1 DEF SessionNext
  <2>3. CASE backend = "redis" /\ RedisStep(c)
    <3>1. RaceInv'
      BY <2>1, <2>3 DEF RaceInv
    <3>2. ChatInv'
      BY <2>1, <2>3, CreateMessageKeeps, PutMessageKeeps, LoadSessionKeeps, CountMessagesKeeps, SaveSessionKeeps,
         LoadIdsKeeps, PutIdsKeeps DEF RedisStep
    <3> QED
      BY <2>1, <3>1, <3>2
  <2>4. CASE backend = "supabase" /\ (Date(c) \/ Statement(c))
    <3>1. RaceInv'
      BY <2>1, <2>4 DEF RaceInv, Date, Statement
    <3>2. ChatInv'
      BY <2>1, <2>4, DateKeeps, StatementKeeps
    <3> QED
      BY <2>1, <3>1, <3>2
  <2>5. CASE Breaks(c)
    <3>1. RaceInv'
      BY <2>1, <2>5 DEF RaceInv, Breaks
    <3>2. ChatInv'
      BY <2>1, <2>5, BreaksKeeps
    <3> QED
      BY <2>1, <3>1, <3>2
  <2> QED
    BY <2>2, <2>3, <2>4, <2>5
<1>2. CASE EventNext
  <2>1. UNCHANGED <<backend, sessionVars>> /\ (publish \/ Stream \/ Poll)
    BY <1>2 DEF EventNext
  <2>2. storeFaults' \in {storeFaults, storeFaults + 1} /\ storeFaults \in Nat
    BY <2>1 DEF publish, Stream, Poll, StoreUp, StoreDown, ChatInv, ChatTypes
  <2>3. storeFaults' \in Nat /\ (storeFaults' = 0 => storeFaults = 0)
    BY <2>2
  <2>4. ChatInv'
    BY <2>1, <2>3, ChatUnchanged
  <2>5. EventInv'
    BY <2>1, PublishKeeps, StreamKeeps, PollKeeps
  <2>6. RaceInv'
    BY <2>1 DEF RaceInv, sessionVars
  <2> QED
    BY <2>4, <2>5, <2>6
<1>3. CASE UNCHANGED storeVars
  <2>1. UNCHANGED <<backend, sessionVars, eventVars, storeFaults>>
    BY <1>3 DEF storeVars, sessionVars, eventVars
  <2>2. storeFaults \in Nat
    BY DEF ChatInv, ChatTypes
  <2>3. ChatInv'
    BY <2>1, <2>2, ChatUnchanged
  <2>4. EventInv' /\ RaceInv'
    BY <2>1 DEF EventInv, RaceInv, eventVars, sessionVars
  <2> QED
    BY <2>3, <2>4
<1> QED
  BY <1>1, <1>2, <1>3 DEF Next, vars, Backtest, BatchQuotes

LEMMA PrefixIs ==
  ASSUME NEW s \in Seq(Event), NEW t \in Seq(Event), Len(s) <= Len(t), \A i \in 1..Len(s) : s[i] = t[i]
  PROVE  IsPrefix(s, t)
<1>1. Len(s) \in Nat /\ Len(t) \in Nat
  OBVIOUS
<1>2. SubSeq(s, 1, Len(s)) \in Seq(Event) /\ Len(SubSeq(s, 1, Len(s))) = Len(s)
      /\ \A i \in 1..Len(s) : SubSeq(s, 1, Len(s))[i] = s[i]
  BY <1>1
<1>3. SubSeq(t, 1, Len(s)) \in Seq(Event) /\ Len(SubSeq(t, 1, Len(s))) = Len(s)
      /\ \A i \in 1..Len(s) : SubSeq(t, 1, Len(s))[i] = t[i]
  BY <1>1
<1>4. SubSeq(s, 1, Len(s)) = SubSeq(t, 1, Len(s))
  BY <1>2, <1>3
<1> QED
  BY <1>4 DEF IsPrefix

LEMMA StoresHold == ChatInv /\ EventInv /\ RaceInv => ChatKept
<1> SUFFICES ASSUME ChatInv, EventInv, RaceInv PROVE ChatKept
  OBVIOUS
<1>1. DOMAIN messages = 1..Len(messages)
  BY DEF ChatInv, ChatTypes
<1>2. TranscriptKept
  <2>1. \A i, j \in 1..Len(messages) :
          /\ messages[i] = messages[j] => i = j
          /\ messages[i].by = messages[j].by /\ messages[i].role = "user" /\ messages[j].role = "assistant" => i < j
    BY DEF ChatInv, TidyInv, Tidy
  <2>2. storeFaults = 0 /\ "messages" \notin raced =>
          \A c \in Run, r \in {"user", "assistant"} :
            <<c, r>> \in told => \E i \in 1..Len(messages) : messages[i].by = c /\ messages[i].role = r
    BY DEF ChatInv, ListInv, Stored, Role
  <2>3. storeFaults = 0 /\ backend = "redis" /\ raced = {} /\ (\A c \in Caller : caller[c].pc = "call") =>
          session.count = Len(messages)
    BY DEF ChatInv, SessionInv
  <2> QED
    BY <1>1, <2>1, <2>2, <2>3 DEF TranscriptKept
<1>3. ListHonest
  <2> SUFFICES ASSUME storeFaults = 0
               PROVE  /\ Archived \in told /\ "s1" \in list_sessions => {"session", "ids"} \subseteq raced
                      /\ Created \in told /\ "ids" \notin raced => "s2" \in list_sessions
    BY DEF ListHonest, Archived, Created
  <2>1. ASSUME Archived \in told, "s1" \in list_sessions PROVE {"session", "ids"} \subseteq raced
    <3>1. "s1" \in ids /\ session.status = "active"
      BY <2>1 DEF list_sessions
    <3>2. "session" \in raced
      BY <2>1, <3>1 DEF ChatInv, SessionInv
    <3>3. backend = "redis"
      BY <3>2 DEF RaceInv, ChatInv, ChatTypes
    <3>4. "ids" \in raced
      BY <2>1, <3>1, <3>3 DEF ChatInv, IdsInv
    <3> QED
      BY <3>2, <3>4
  <2>2. Created \in told /\ "ids" \notin raced => "s2" \in list_sessions
    BY DEF ChatInv, IdsInv, list_sessions
  <2> QED
    BY <2>1, <2>2
<1>4. EventsRead
  <2>1. DOMAIN polled = 1..Len(polled) /\ DOMAIN log = 1..Len(log)
    BY DEF EventInv
  <2>2. IsPrefix(sent, log)
    BY PrefixIs DEF EventInv
  <2>3. ~behind => IsPrefix(polled, log)
    BY PrefixIs DEF EventInv
  <2> QED
    BY <2>1, <2>2, <2>3 DEF EventsRead, EventInv
<1> QED
  BY <1>2, <1>3, <1>4 DEF ChatKept

\* The stores of a chat keep what they were given, for any number of runs,
\* events and faults of either backend: a message that was reported is in the
\* conversation once and behind its question, an archived session comes back
\* only by two stale writes, a stream and a poller get the events in order.
THEOREM ChatIsKept == Spec => []ChatKept
<1>1. Init => ChatInv /\ EventInv /\ RaceInv
  BY ChatStarts, EventsStart DEF Init, StoresInit, RaceInv
<1> QED
  BY <1>1, StoresKeep, StoresHold, PTL DEF Spec

-----------------------------------------------------------------------------
(* Filters *)

LEMMA MinTwo ==
  ASSUME NEW a \in Int, NEW b \in Int
  PROVE  Min({a, b}) = IF a <= b THEN a ELSE b
<1> DEFINE m == IF a <= b THEN a ELSE b
<1>1. m \in {a, b} /\ \A y \in {a, b} : m <= y
  OBVIOUS
<1>2. \A x \in {a, b} : (\A y \in {a, b} : x <= y) => x = m
  OBVIOUS
<1> HIDE DEF m
<1>3. Min({a, b}) = m
  BY <1>1, <1>2 DEF Min
<1> QED
  BY <1>3 DEF m

LEMMA MaxTwo ==
  ASSUME NEW a \in Int, NEW b \in Int
  PROVE  Max({a, b}) = IF a >= b THEN a ELSE b
<1> DEFINE m == IF a >= b THEN a ELSE b
<1>1. m \in {a, b} /\ \A y \in {a, b} : m >= y
  OBVIOUS
<1>2. \A x \in {a, b} : (\A y \in {a, b} : x >= y) => x = m
  OBVIOUS
<1> HIDE DEF m
<1>3. Max({a, b}) = m
  BY <1>1, <1>2 DEF Max
<1> QED
  BY <1>3 DEF m

\* What a filter has kept after each place.
FilterOf(F, s, I, m) ==
    /\ F = [i \in 0..m |-> F[i]] /\ F[0] = <<>>
    /\ \A i \in 1..m : F[i] = IF i \in I THEN Append(F[i - 1], s[i]) ELSE F[i - 1]

LEMMA FilterExists ==
  ASSUME NEW s, NEW I, NEW n, n \in Nat
  PROVE  \E F : FilterOf(F, s, I, n)
<1> DEFINE bad == {m \in 0..n : ~\E F : FilterOf(F, s, I, m)}
<1>1. SUFFICES ASSUME bad # {} PROVE FALSE
  BY <1>1
<1>2. PICK m \in bad : \A j \in bad : m <= j
  <2>1. bad \in SUBSET Nat
    OBVIOUS
  <2> HIDE DEF bad
  <2> QED
    BY <1>1, <2>1, LeastNatural
<1>3. 0 \notin bad
  <2> DEFINE g == [i \in 0..0 |-> <<>>]
  <2>1. FilterOf(g, s, I, 0)
    BY DEF FilterOf
  <2> QED
    BY <2>1
<1>4. m \in 0..n /\ m # 0 /\ m - 1 \in 0..n /\ m - 1 \notin bad
  <2>1. m \in 0..n /\ m # 0
    BY <1>2, <1>3
  <2>2. m - 1 \in 0..n /\ ~(m <= m - 1)
    BY <2>1
  <2> HIDE DEF bad
  <2> QED
    BY <1>2, <2>1, <2>2
<1>5. PICK g : FilterOf(g, s, I, m - 1)
  BY <1>4
<1> DEFINE last == IF m \in I THEN Append(g[m - 1], s[m]) ELSE g[m - 1]
           h == [i \in 0..m |-> IF i = m THEN last ELSE g[i]]
<1> HIDE DEF last
<1>6. h = [i \in 0..m |-> h[i]]
  OBVIOUS
<1>7. h[0] = <<>>
  BY <1>4, <1>5 DEF FilterOf
<1>8. ASSUME NEW i \in 1..m PROVE h[i] = IF i \in I THEN Append(h[i - 1], s[i]) ELSE h[i - 1]
  <2>1. CASE i = m
    <3>1. h[i] = last /\ h[i - 1] = g[m - 1]
      BY <1>4, <2>1
    <3> QED
      BY <2>1, <3>1 DEF last
  <2>2. CASE i # m
    <3>1. h[i] = g[i] /\ h[i - 1] = g[i - 1] /\ i \in 1..(m - 1)
      BY <1>4, <2>2
    <3> QED
      BY <1>5, <3>1 DEF FilterOf
  <2> QED
    BY <2>1, <2>2
<1>9. FilterOf(h, s, I, m)
  <2> HIDE DEF h
  <2> QED
    BY <1>6, <1>7, <1>8 DEF FilterOf
<1> QED
  BY <1>2, <1>9

LEMMA FilterUnfolds ==
  ASSUME NEW s, NEW I, Len(s) \in Nat
  PROVE  \E F : Filtered(s, I) = F[Len(s)] /\ FilterOf(F, s, I, Len(s))
<1> DEFINE n == Len(s)
           Fun(f) == f = [i \in 0..Len(s) |-> IF i = 0 THEN <<>> ELSE IF i \in I THEN Append(f[i - 1], s[i]) ELSE f[i - 1]]
<1>1. \E f : Fun(f)
  <2>1. PICK g : FilterOf(g, s, I, n)
    BY FilterExists
  <2>2. ASSUME NEW i \in 0..n PROVE g[i] = IF i = 0 THEN <<>> ELSE IF i \in I THEN Append(g[i - 1], s[i]) ELSE g[i - 1]
    <3>1. CASE i = 0
      BY <2>1, <3>1 DEF FilterOf
    <3>2. CASE i # 0
      <4>1. i \in 1..n
        BY <3>2
      <4> QED
        BY <2>1, <3>2, <4>1 DEF FilterOf
    <3> QED
      BY <3>1, <3>2
  <2>3. g = [i \in 0..n |-> g[i]]
    BY <2>1 DEF FilterOf
  <2>4. Fun(g)
    BY <2>2, <2>3
  <2> QED
    BY <2>4
<1> DEFINE F == CHOOSE f : Fun(f)
<1>2. Fun(F)
  <2> HIDE DEF Fun
  <2> QED
    BY <1>1
<1>3. Filtered(s, I) = F[n]
  BY DEF Filtered
<1> HIDE DEF F
<1>4. ASSUME NEW i \in 0..n PROVE F[i] = IF i = 0 THEN <<>> ELSE IF i \in I THEN Append(F[i - 1], s[i]) ELSE F[i - 1]
  BY <1>2
<1>5. F[0] = <<>> /\ \A i \in 1..n : F[i] = IF i \in I THEN Append(F[i - 1], s[i]) ELSE F[i - 1]
  BY <1>4
<1>6. F = [i \in 0..n |-> F[i]]
  BY <1>2
<1> HIDE DEF Fun
<1>7. FilterOf(F, s, I, n)
  BY <1>5, <1>6 DEF FilterOf
<1> QED
  BY <1>3, <1>7

\* A filter keeps the members at the places it is given, each once if they
\* differ.
LEMMA FilterKeeps ==
  ASSUME NEW X, NEW s, NEW I, s \in Seq(X)
  PROVE  /\ Filtered(s, I) \in Seq(X)
         /\ ToSet(Filtered(s, I)) = {s[i] : i \in I \cap (1..Len(s))}
         /\ (\A i, j \in I \cap (1..Len(s)) : i # j => s[i] # s[j]) =>
              \A i, j \in DOMAIN Filtered(s, I) : i # j => Filtered(s, I)[i] # Filtered(s, I)[j]
<1> DEFINE n == Len(s)
           differ == \A i, j \in I \cap (1..n) : i # j => s[i] # s[j]
<1>1. n \in Nat /\ \A i \in 1..n : s[i] \in X
  OBVIOUS
<1>2. PICK F : Filtered(s, I) = F[n] /\ FilterOf(F, s, I, n)
  BY <1>1, FilterUnfolds
<1>3. F[0] = <<>> /\ \A i \in 1..n : F[i] = IF i \in I THEN Append(F[i - 1], s[i]) ELSE F[i - 1]
  BY <1>2 DEF FilterOf
<1> DEFINE R(k) == {s[i] : i \in I \cap (1..k)}
           Claim(k) == /\ F[k] \in Seq(X) /\ \A x : x \in R(k) <=> \E i \in 1..Len(F[k]) : F[k][i] = x
                       /\ differ => \A i, j \in 1..Len(F[k]) : i # j => F[k][i] # F[k][j]
           bad == {k \in 0..n : ~Claim(k)}
<1>4. bad = {}
  <2> SUFFICES ASSUME bad # {} PROVE FALSE
    OBVIOUS
  <2>1. PICK m \in bad : \A j \in bad : m <= j
    <3>1. bad \in SUBSET Nat
      BY <1>1
    <3> HIDE DEF bad
    <3> QED
      BY <3>1, LeastNatural
  <2>2. m # 0
    <3>1. SUFFICES Claim(0)
      BY <2>1
    <3>2. F[0] = <<>> /\ R(0) = {}
      BY <1>3
    <3> HIDE DEF R
    <3> QED
      BY <3>2
  <2>3. m \in 1..n /\ m - 1 \in 0..n /\ m - 1 \notin bad
    <3>1. m \in 0..n /\ m \in 1..n /\ m - 1 \in 0..n /\ ~(m <= m - 1)
      BY <1>1, <2>1, <2>2
    <3> HIDE DEF bad
    <3> QED
      BY <2>1, <3>1
  <2>4. Claim(m - 1)
    BY <2>3
  <2>5. F[m] = IF m \in I THEN Append(F[m - 1], s[m]) ELSE F[m - 1]
    BY <1>3, <2>3
  <2>6. I \cap (1..m) = (I \cap (1..(m - 1))) \cup (I \cap {m})
    BY <2>3
  <2> DEFINE q == F[m - 1]
             y == s[m]
             A == R(m - 1)
             B == R(m)
  <2>7. /\ q \in Seq(X) /\ \A x : x \in A <=> \E i \in 1..Len(q) : q[i] = x
        /\ differ => \A i, j \in 1..Len(q) : i # j => q[i] # q[j]
    BY <2>4
  <2>8. CASE m \in I
    <3>1. B = A \cup {y} /\ y \in X
      BY <1>1, <2>3, <2>6, <2>8
    <3>2. ASSUME differ, y \in A PROVE FALSE
      <4>1. PICK i \in I \cap (1..(m - 1)) : s[i] = y
        BY <3>2
      <4>2. i \in I \cap (1..n) /\ m \in I \cap (1..n) /\ i # m
        BY <1>1, <2>3, <2>8, <4>1
      <4> QED
        BY <3>2, <4>1, <4>2
    <3>3. F[m] = Append(q, y)
      BY <2>5, <2>8
    <3> DEFINE u == Append(q, y)
    <3>4. Claim(m) = (/\ u \in Seq(X) /\ \A x : x \in B <=> \E i \in 1..Len(u) : u[i] = x
                      /\ differ => \A i, j \in 1..Len(u) : i # j => u[i] # u[j])
      BY <3>3, Zenon
    <3> HIDE DEF Claim, A, B, y, q, R, differ
    <3>5. /\ u \in Seq(X) /\ Len(u) = Len(q) + 1 /\ Len(q) \in Nat
          /\ u[Len(q) + 1] = y /\ \A i \in 1..Len(q) : u[i] = q[i]
      BY <2>7, <3>1, AppendProperties
    <3> HIDE DEF u
    <3>6. \A x : x \in B <=> \E i \in 1..Len(u) : u[i] = x
      <4>1. ASSUME NEW x, x \in B PROVE \E i \in 1..Len(u) : u[i] = x
        <5>1. CASE x = y
          BY <3>5, <5>1
        <5>2. CASE x # y
          <6>1. PICK i \in 1..Len(q) : q[i] = x
            BY <2>7, <3>1, <4>1, <5>2
          <6> QED
            BY <3>5, <6>1
        <5> QED
          BY <5>1, <5>2
      <4>2. ASSUME NEW x, NEW i, i \in 1..Len(u), u[i] = x PROVE x \in B
        <5>1. CASE i \in 1..Len(q)
          BY <2>7, <3>1, <3>5, <4>2, <5>1
        <5>2. CASE i = Len(q) + 1
          BY <3>1, <3>5, <4>2, <5>2
        <5>3. i \in 1..Len(q) \/ i = Len(q) + 1
          BY <3>5, <4>2
        <5> QED
          BY <5>1, <5>2, <5>3
      <4> QED
        BY <4>1, <4>2
    <3>7. ASSUME differ PROVE \A i, j \in 1..Len(u) : i # j => u[i] # u[j]
      <4>1. y \notin A /\ \A i \in 1..Len(q) : q[i] \in A
        BY <2>7, <3>2, <3>7
      <4> QED
        BY <2>7, <3>5, <3>7, <4>1
    <3>8. Claim(m)
      BY <3>4, <3>5, <3>6, <3>7, Zenon
    <3> QED
      BY <2>1, <3>8
  <2>9. CASE m \notin I
    <3>1. B = A /\ F[m] = q
      BY <2>5, <2>6, <2>9
    <3>2. Claim(m)
      BY <2>7, <3>1, Zenon
    <3> QED
      BY <2>1, <3>2
  <2> QED
    BY <2>8, <2>9
<1>5. Claim(n)
  <2> HIDE DEF Claim
  <2> QED
    BY <1>1, <1>4
<1> DEFINE q == Filtered(s, I)
<1>6. /\ q \in Seq(X) /\ \A x : x \in R(n) <=> \E i \in 1..Len(q) : q[i] = x
      /\ differ => \A i, j \in 1..Len(q) : i # j => q[i] # q[j]
  BY <1>2, <1>5
<1> HIDE DEF q, R, differ
<1>7. DOMAIN q = 1..Len(q)
  BY <1>6
<1>8. ToSet(q) = R(n)
  BY <1>6, <1>7 DEF ToSet
<1> QED
  BY <1>6, <1>7, <1>8 DEF q, R, differ

-----------------------------------------------------------------------------
(* Pieces of a list *)

Slice(s, a, b) == [j \in 1..(b - a + 1) |-> s[a + j - 1]]
Piece(X, s, q, a, b) ==
    q \in Seq(X) /\ Len(q) = b - a + 1 /\ \A j \in 1..(b - a + 1) : q[j] = s[a + j - 1]

LEMMA SliceIs ==
  ASSUME NEW X, NEW s, s \in Seq(X), NEW a, a \in Nat \ {0}, NEW b, b \in Nat, a <= b + 1, b <= Len(s)
  PROVE  Piece(X, s, Slice(s, a, b), a, b)
<1> DEFINE l == b - a + 1
<1>1. l \in Nat /\ \A j \in 1..l : a + j - 1 \in 1..Len(s)
  OBVIOUS
<1>2. \A i \in 1..Len(s) : s[i] \in X
  OBVIOUS
<1>3. Slice(s, a, b) = [j \in 1..l |-> s[a + j - 1]]
  BY DEF Slice
<1>4. \A j \in 1..l : s[a + j - 1] \in X
  BY <1>1, <1>2
<1> HIDE DEF l
<1>5. Slice(s, a, b) \in [1..l -> X]
  BY <1>3, <1>4
<1>6. Slice(s, a, b) \in Seq(X) /\ Len(Slice(s, a, b)) = l
  BY <1>1, <1>5
<1>7. \A j \in 1..l : Slice(s, a, b)[j] = s[a + j - 1]
  BY <1>3
<1> QED
  BY <1>6, <1>7 DEF l, Piece

LEMMA SliceEmpty ==
  ASSUME NEW s, NEW a, NEW b, a \in Int, b \in Int, a = b + 1
  PROVE  Slice(s, a, b) = <<>>
<1>1. 1..(b - a + 1) = {}
  OBVIOUS
<1> QED
  BY <1>1 DEF Slice

LEMMA SliceGrows ==
  ASSUME NEW X, NEW s, s \in Seq(X), NEW a, a \in Nat \ {0}, NEW b, b \in Nat \ {0}, a <= b, b <= Len(s)
  PROVE  Append(Slice(s, a, b - 1), s[b]) = Slice(s, a, b)
<1> DEFINE t == Slice(s, a, b - 1)
           u == Slice(s, a, b)
           v == Append(t, s[b])
<1>1. t \in Seq(X) /\ Len(t) = b - a /\ \A j \in 1..(b - a) : t[j] = s[a + j - 1]
  <2> DEFINE c == b - 1
  <2>1. c \in Nat /\ a <= c + 1 /\ c <= Len(s) /\ c - a + 1 = b - a
    OBVIOUS
  <2> HIDE DEF c
  <2>2. Piece(X, s, Slice(s, a, c), a, c)
    BY <2>1, SliceIs
  <2> QED
    BY <2>1, <2>2 DEF c, Piece
<1>2. u \in Seq(X) /\ Len(u) = b - a + 1 /\ \A j \in 1..(b - a + 1) : u[j] = s[a + j - 1]
  <2>1. b \in Nat /\ a <= b + 1
    OBVIOUS
  <2>2. Piece(X, s, Slice(s, a, b), a, b)
    BY <2>1, SliceIs
  <2> QED
    BY <2>2 DEF Piece
<1>3. s[b] \in X
  OBVIOUS
<1> HIDE DEF t, u
<1>4. v \in Seq(X) /\ Len(v) = Len(t) + 1 /\ v[Len(t) + 1] = s[b] /\ \A i \in 1..Len(t) : v[i] = t[i]
  BY <1>1, <1>3, AppendProperties
<1> HIDE DEF v
<1>5. Len(v) = Len(u)
  BY <1>1, <1>2, <1>4
<1>6. ASSUME NEW i \in 1..Len(v) PROVE v[i] = u[i]
  <2>1. CASE i = b - a + 1
    <3>1. a + i - 1 = b /\ i \in 1..(b - a + 1)
      BY <2>1
    <3> QED
      BY <1>1, <1>2, <1>4, <2>1, <3>1
  <2>2. CASE i # b - a + 1
    <3>1. i \in 1..(b - a) /\ i \in 1..(b - a + 1)
      BY <1>1, <1>4, <2>2
    <3> QED
      BY <1>1, <1>2, <1>4, <3>1
  <2> QED
    BY <2>1, <2>2
<1>7. v = u
  BY <1>2, <1>4, <1>5, <1>6, SeqEqual
<1> QED
  BY <1>7 DEF v, u, t

\* a and b are places of a list s, or the place before a follows b.
Span(X, s, a, b) == s \in Seq(X) /\ a \in Nat \ {0} /\ b \in Nat /\ a <= b + 1 /\ b <= Len(s)
Selects(I, s, a, b) == I \cap (1..Len(s)) = a..b

\* A filter that keeps the places of an interval gives a piece of the list.
LEMMA FilterSlices ==
  ASSUME NEW X, NEW s, NEW I, NEW a, NEW b, Span(X, s, a, b), Selects(I, s, a, b)
  PROVE  Filtered(s, I) = Slice(s, a, b)
<1> USE DEF Span, Selects
<1> DEFINE n == Len(s)
<1>1. n \in Nat
  OBVIOUS
<1>2. PICK F : Filtered(s, I) = F[n] /\ FilterOf(F, s, I, n)
  BY <1>1, FilterUnfolds
<1>3. F[0] = <<>> /\ \A i \in 1..n : F[i] = IF i \in I THEN Append(F[i - 1], s[i]) ELSE F[i - 1]
  BY <1>2 DEF FilterOf
<1> DEFINE upto(k) == IF k < a THEN a - 1 ELSE IF k > b THEN b ELSE k
           Claim(k) == F[k] = Slice(s, a, upto(k))
           bad == {k \in 0..n : ~Claim(k)}
<1>4. bad = {}
  <2> SUFFICES ASSUME bad # {} PROVE FALSE
    OBVIOUS
  <2>1. PICK m \in bad : \A j \in bad : m <= j
    <3>1. bad \in SUBSET Nat
      BY <1>1
    <3> HIDE DEF bad
    <3> QED
      BY <3>1, LeastNatural
  <2>2. m # 0
    <3>1. SUFFICES Claim(0)
      BY <2>1
    <3>2. upto(0) \in Int /\ a = upto(0) + 1
      OBVIOUS
    <3> HIDE DEF upto
    <3>3. Slice(s, a, upto(0)) = <<>>
      BY <3>2, SliceEmpty
    <3> QED
      BY <1>3, <3>3
  <2>3. m \in 1..n /\ m - 1 \in 0..n /\ m - 1 \notin bad
    <3>1. m \in 0..n /\ m \in 1..n /\ m - 1 \in 0..n /\ ~(m <= m - 1)
      BY <1>1, <2>1, <2>2
    <3> HIDE DEF bad
    <3> QED
      BY <2>1, <3>1
  <2>4. F[m - 1] = Slice(s, a, upto(m - 1))
    BY <2>3
  <2>5. F[m] = IF m \in I THEN Append(F[m - 1], s[m]) ELSE F[m - 1]
    BY <1>3, <2>3
  <2>6. m \in I <=> m \in a..b
    BY <2>3
  <2>7. CASE m \in a..b
    <3>1. upto(m - 1) = m - 1 /\ upto(m) = m
      BY <2>7
    <3>2. F[m] = Append(Slice(s, a, m - 1), s[m])
      BY <2>4, <2>5, <2>6, <2>7, <3>1
    <3>3. m \in Nat \ {0} /\ a <= m /\ m <= Len(s)
      BY <2>3, <2>7
    <3>4. F[m] = Slice(s, a, m)
      BY <3>2, <3>3, SliceGrows
    <3>5. Claim(m)
      BY <3>1, <3>4, Zenon
    <3> QED
      BY <2>1, <3>5
  <2>8. CASE m \notin a..b
    <3>1. upto(m - 1) = upto(m)
      BY <2>3, <2>8
    <3>2. F[m] = F[m - 1]
      BY <2>5, <2>6, <2>8
    <3>3. Claim(m)
      BY <2>4, <3>1, <3>2, Zenon
    <3> QED
      BY <2>1, <3>3
  <2> QED
    BY <2>7, <2>8
<1>5. Claim(n)
  <2> HIDE DEF Claim
  <2> QED
    BY <1>1, <1>4
<1>6. upto(n) = b
  BY <1>1
<1> HIDE DEF upto
<1> QED
  BY <1>2, <1>5, <1>6

LEMMA LastOfSlice ==
  ASSUME NEW X, NEW s, s \in Seq(X), NEW a, a \in Nat \ {0}, NEW b, b \in Nat, a <= b + 1, b <= Len(s),
         NEW n, n \in Nat
  PROVE  LastOf(Slice(s, a, b), n) = Slice(s, IF a >= b - n + 1 THEN a ELSE b - n + 1, b)
<1> DEFINE q == Slice(s, a, b)
           l == b - a + 1
           k == IF 1 >= l - n + 1 THEN 1 ELSE l - n + 1
           c == IF a >= b - n + 1 THEN a ELSE b - n + 1
           u == SubSeq(q, k, l)
           v == Slice(s, c, b)
<1>1. q \in Seq(X) /\ Len(q) = l /\ l \in Nat /\ \A j \in 1..l : q[j] = s[a + j - 1]
  <2>1. Piece(X, s, Slice(s, a, b), a, b)
    BY SliceIs
  <2> QED
    BY <2>1 DEF Piece
<1>2. c \in Nat \ {0} /\ c <= b + 1 /\ c = a + k - 1 /\ k \in Nat \ {0} /\ k <= l + 1
  OBVIOUS
<1>3. v \in Seq(X) /\ Len(v) = b - c + 1 /\ \A j \in 1..(b - c + 1) : v[j] = s[c + j - 1]
  <2> HIDE DEF c
  <2>1. Piece(X, s, Slice(s, c, b), c, b)
    BY <1>2, SliceIs
  <2> QED
    BY <2>1 DEF Piece
<1>4. Max({1, l - n + 1}) = k
  <2> DEFINE d == l - n + 1
  <2>1. d \in Int
    BY <1>1
  <2> HIDE DEF d
  <2>2. Max({1, d}) = IF 1 >= d THEN 1 ELSE d
    BY <2>1, MaxTwo
  <2> QED
    BY <2>2 DEF d
<1>5. LastOf(q, n) = u
  BY <1>1, <1>4 DEF LastOf
<1> HIDE DEF q, k, c
<1>6. \A i \in k..l : q[i] \in X
  BY <1>1, <1>2
<1>7. /\ u \in Seq(X) /\ Len(u) = IF k <= l THEN l - k + 1 ELSE 0
      /\ \A i \in 1..(l - k + 1) : u[i] = q[k + i - 1]
  <2> HIDE DEF l
  <2> QED
    BY <1>1, <1>2, <1>6, SubSeqProperties
<1> HIDE DEF u, v
<1>8. Len(u) = b - c + 1 /\ l - k + 1 = b - c + 1
  BY <1>2, <1>7
<1>9. ASSUME NEW i \in 1..Len(v) PROVE u[i] = v[i]
  <2>1. i \in 1..(l - k + 1) /\ k + i - 1 \in 1..l /\ a + (k + i - 1) - 1 = c + i - 1 /\ i \in 1..(b - c + 1)
    BY <1>2, <1>3, <1>8
  <2>2. u[i] = q[k + i - 1] /\ q[k + i - 1] = s[a + (k + i - 1) - 1]
    BY <1>1, <1>7, <2>1
  <2> QED
    BY <1>3, <2>1, <2>2
<1>10. u = v
  BY <1>3, <1>7, <1>8, <1>9, SeqEqual
<1> QED
  BY <1>5, <1>10 DEF q, c, v

LEMMA JoinedSlices ==
  ASSUME NEW X, NEW s, NEW a, NEW c, NEW b, Span(X, s, c, b), a \in Nat \ {0}, a <= c
  PROVE  Slice(s, a, c - 1) \o Slice(s, c, b) = Slice(s, a, b)
<1> USE DEF Span
<1> DEFINE p == Slice(s, a, c - 1)
           q == Slice(s, c, b)
           v == Slice(s, a, b)
           u == p \o q
<1>1. p \in Seq(X) /\ Len(p) = c - a /\ \A j \in 1..(c - a) : p[j] = s[a + j - 1]
  <2> DEFINE d == c - 1
  <2>1. d \in Nat /\ a <= d + 1 /\ d <= Len(s) /\ d - a + 1 = c - a
    OBVIOUS
  <2> HIDE DEF d
  <2>2. Piece(X, s, Slice(s, a, d), a, d)
    BY <2>1, SliceIs
  <2> QED
    BY <2>1, <2>2 DEF d, Piece
<1>2. q \in Seq(X) /\ Len(q) = b - c + 1 /\ \A j \in 1..(b - c + 1) : q[j] = s[c + j - 1]
  <2>1. Piece(X, s, Slice(s, c, b), c, b)
    BY SliceIs
  <2> QED
    BY <2>1 DEF Piece
<1>3. v \in Seq(X) /\ Len(v) = b - a + 1 /\ \A j \in 1..(b - a + 1) : v[j] = s[a + j - 1]
  <2>1. a <= b + 1
    OBVIOUS
  <2>2. Piece(X, s, Slice(s, a, b), a, b)
    BY <2>1, SliceIs
  <2> QED
    BY <2>2 DEF Piece
<1> HIDE DEF p, q, v
<1>4. /\ u \in Seq(X) /\ Len(u) = Len(p) + Len(q)
      /\ \A i \in 1..(Len(p) + Len(q)) : u[i] = IF i <= Len(p) THEN p[i] ELSE q[i - Len(p)]
  BY <1>1, <1>2, ConcatProperties
<1> HIDE DEF u
<1>5. Len(u) = Len(v)
  BY <1>1, <1>2, <1>3, <1>4
<1>6. ASSUME NEW i \in 1..Len(v) PROVE u[i] = v[i]
  <2>1. i \in 1..(b - a + 1) /\ i \in 1..(Len(p) + Len(q))
    BY <1>3, <1>4, <1>5
  <2>2. v[i] = s[a + i - 1]
    BY <1>3, <2>1
  <2>3. CASE i <= c - a
    <3>1. i \in 1..(c - a)
      BY <2>1, <2>3
    <3> QED
      BY <1>1, <1>4, <2>1, <2>2, <2>3, <3>1
  <2>4. CASE ~(i <= c - a)
    <3> DEFINE j == i - (c - a)
    <3>1. j \in 1..(b - c + 1) /\ c + j - 1 = a + i - 1
      BY <2>1, <2>4
    <3> HIDE DEF j
    <3>2. u[i] = q[j]
      BY <1>1, <1>4, <2>1, <2>4 DEF j
    <3> QED
      BY <1>2, <2>2, <3>1, <3>2
  <2> QED
    BY <2>3, <2>4
<1>7. u = v
  BY <1>3, <1>4, <1>5, <1>6, SeqEqual
<1> QED
  BY <1>7 DEF u, p, q, v

-----------------------------------------------------------------------------
(* A window of candles, page by page *)

Rising(s) == s \in Seq(Int) /\ \A i, j \in 1..Len(s) : i < j => s[i] < s[j]
\* b is the last place up to end, a the first from start on.
LastUpTo(s, end, b) == b \in 0..Len(s) /\ \A i \in 1..Len(s) : s[i] <= end <=> i <= b
FirstFrom(s, start, a) == a \in 1..(Len(s) + 1) /\ \A i \in 1..Len(s) : start <= s[i] <=> a <= i

LEMMA SomeFirst ==
  ASSUME NEW s, NEW start, Rising(s), start \in Int
  PROVE  \E a : FirstFrom(s, start, a)
<1> DEFINE n == Len(s)
           after == {i \in 1..n : start <= s[i]}
<1>1. n \in Nat /\ \A i \in 1..n : s[i] \in Int
  BY DEF Rising
<1>2. CASE after = {}
  <2> DEFINE a == n + 1
  <2>1. a \in 1..(n + 1) /\ \A i \in 1..n : start <= s[i] <=> a <= i
    BY <1>1, <1>2
  <2> HIDE DEF a
  <2>2. FirstFrom(s, start, a)
    BY <2>1 DEF FirstFrom
  <2> QED
    BY <2>2
<1>3. CASE after # {}
  <2>1. after \in SUBSET Nat
    BY <1>1
  <2> DEFINE a == Min(after)
  <2>2. a \in after /\ \A y \in after : a <= y
    <3> HIDE DEF after
    <3> QED
      BY <1>3, <2>1, LeastNatural
  <2> HIDE DEF a
  <2>3. ASSUME NEW i \in 1..n PROVE start <= s[i] <=> a <= i
    <3>1. CASE start <= s[i]
      BY <2>2, <3>1
    <3>2. CASE ~(start <= s[i])
      <4>1. ASSUME a <= i PROVE FALSE
        <5>1. a \in 1..n /\ start <= s[a] /\ s[a] \in Int /\ s[i] \in Int
          BY <1>1, <2>2
        <5>2. a = i \/ s[a] < s[i]
          BY <1>1, <4>1, <5>1 DEF Rising
        <5> QED
          BY <3>2, <5>1, <5>2
      <4> QED
        BY <3>2, <4>1
    <3> QED
      BY <3>1, <3>2
  <2>4. FirstFrom(s, start, a)
    BY <1>1, <2>2, <2>3 DEF FirstFrom
  <2> QED
    BY <2>4
<1> QED
  BY <1>2, <1>3

LEMMA SomeLast ==
  ASSUME NEW s, NEW end, Rising(s), end \in Int
  PROVE  \E b : LastUpTo(s, end, b)
<1> DEFINE e == end + 1
<1>1. e \in Int
  OBVIOUS
<1>2. PICK a : FirstFrom(s, e, a)
  <2> HIDE DEF e
  <2> QED
    BY <1>1, SomeFirst
<1> DEFINE b == a - 1
<1>3. b \in 0..Len(s) /\ \A i \in 1..Len(s) : s[i] <= end <=> i <= b
  <2>1. Len(s) \in Nat /\ \A i \in 1..Len(s) : s[i] \in Int
    BY DEF Rising
  <2> QED
    BY <1>2, <2>1 DEF FirstFrom
<1> HIDE DEF b
<1>4. LastUpTo(s, end, b)
  BY <1>3 DEF LastUpTo
<1> QED
  BY <1>4

LEMMA WindowIs ==
  ASSUME NEW s, NEW start, NEW end, NEW a, NEW b, Rising(s), start \in Int, end \in Int, start <= end,
         FirstFrom(s, start, a), LastUpTo(s, end, b)
  PROVE  a <= b + 1
<1>1. Len(s) \in Nat /\ \A i \in 1..Len(s) : s[i] \in Int
  BY DEF Rising
<1>2. a \in Int /\ b \in Int /\ b >= 0 /\ a <= Len(s) + 1
  BY <1>1 DEF FirstFrom, LastUpTo
<1>3. ASSUME a > b + 1 PROVE FALSE
  <2> DEFINE i == b + 1
  <2>1. i \in 1..Len(s) /\ ~(i <= b) /\ ~(a <= i)
    BY <1>1, <1>2, <1>3
  <2> HIDE DEF i
  <2>2. s[i] \in Int /\ ~(s[i] <= end) /\ ~(start <= s[i])
    BY <1>1, <2>1 DEF FirstFrom, LastUpTo
  <2> QED
    BY <2>2
<1> QED
  BY <1>2, <1>3

Inner(p, b, f, l, c) == f \in Nat \ {0} /\ l = b - p + 1 /\ f <= l + 1 /\ c = p + f - 1
LEMMA SliceOfSlice ==
  ASSUME NEW X, NEW s, NEW p, NEW b, Span(X, s, p, b), NEW f, NEW l, NEW c, Inner(p, b, f, l, c)
  PROVE  Slice(Slice(s, p, b), f, l) = Slice(s, c, b)
<1> USE DEF Span, Inner
<1> DEFINE q == Slice(s, p, b)
           u == Slice(q, f, l)
           v == Slice(s, c, b)
<1>1. Piece(X, s, q, p, b)
  BY SliceIs
<1>2. c \in Nat \ {0} /\ c <= b + 1 /\ l \in Nat /\ l - f + 1 = b - c + 1
  OBVIOUS
<1>3. Piece(X, s, v, c, b)
  BY <1>2, SliceIs
<1> HIDE DEF q, v
<1>4. q \in Seq(X) /\ l <= Len(q)
  BY <1>1, <1>2 DEF Piece
<1>5. Piece(X, q, u, f, l)
  BY <1>2, <1>4, SliceIs
<1> HIDE DEF u
<1>6. u \in Seq(X) /\ v \in Seq(X) /\ Len(u) = l - f + 1 /\ Len(v) = b - c + 1
  BY <1>3, <1>5 DEF Piece
<1>7. ASSUME NEW j \in 1..Len(u) PROVE u[j] = v[j]
  <2> DEFINE k == f + j - 1
  <2>1. j \in 1..(l - f + 1) /\ j \in 1..(b - c + 1) /\ k \in 1..(b - p + 1) /\ p + k - 1 = c + j - 1
    BY <1>2, <1>6
  <2>2. u[j] = q[k] /\ v[j] = s[c + j - 1]
    BY <1>3, <1>5, <2>1 DEF Piece
  <2> HIDE DEF k
  <2>3. q[k] = s[p + k - 1]
    BY <1>1, <2>1 DEF Piece
  <2> QED
    BY <2>1, <2>2, <2>3
<1>8. u = v
  BY <1>2, <1>6, <1>7, SeqEqual
<1> QED
  BY <1>8 DEF u, v, q

\* A page from start on is the piece of the candles before the place where the
\* collected ones begin.
LEMMA PageIs ==
  ASSUME NEW s, NEW start, NEW end, NEW a, NEW b, Rising(s), FirstFrom(s, start, a), LastUpTo(s, end, b), a <= b + 1,
         NEW size, size \in Nat \ {0}
  PROVE  LET page == Page(s, size, end)
         IN  Filtered(page, {i \in DOMAIN page : page[i] >= start}) = Slice(s, IF a >= b - size + 1 THEN a ELSE b - size + 1, b)
<1> DEFINE n == Len(s)
           one == 1
           p == IF one >= b - size + 1 THEN one ELSE b - size + 1
           page == Page(s, size, end)
           l == b - p + 1
           f == IF 1 >= a - p + 1 THEN 1 ELSE a - p + 1
           c == IF a >= b - size + 1 THEN a ELSE b - size + 1
           I == {i \in DOMAIN s : s[i] <= end}
           J == {i \in DOMAIN page : page[i] >= start}
<1>1. s \in Seq(Int) /\ n \in Nat /\ DOMAIN s = 1..n /\ \A i \in 1..n : s[i] \in Int
  BY DEF Rising
<1>2. a \in Nat \ {0} /\ a <= n + 1 /\ b \in Nat /\ b <= n
  BY <1>1 DEF FirstFrom, LastUpTo
<1>3. one \in Nat \ {0} /\ one <= b + 1
  BY <1>2
<1>4. Selects(I, s, one, b) /\ Span(Int, s, one, b)
  BY <1>1, <1>2, <1>3 DEF LastUpTo, Selects, Span
<1> HIDE DEF I, n, one
<1>5. Filtered(s, I) = Slice(s, one, b)
  BY <1>4, FilterSlices
<1>6. page = LastOf(Slice(s, one, b), size)
  BY <1>5 DEF Page, I
<1>7. page = Slice(s, p, b)
  BY <1>1, <1>2, <1>3, <1>6, LastOfSlice DEF n
<1>8. p \in Nat \ {0} /\ p <= b + 1 /\ l \in Nat /\ f \in Nat \ {0} /\ f <= l + 1 /\ c = p + f - 1
  BY <1>2 DEF one
<1> HIDE DEF page, f, c, p
<1>9. Piece(Int, s, page, p, b)
  BY <1>1, <1>2, <1>7, <1>8, SliceIs DEF n
<1>10. page \in Seq(Int) /\ Len(page) = l /\ DOMAIN page = 1..l
  BY <1>9 DEF Piece
<1>11. Selects(J, page, f, l)
  <2>1. ASSUME NEW j \in 1..l PROVE page[j] >= start <=> j >= f
    <3> DEFINE k == p + j - 1
    <3>0. j \in Int /\ j >= 1 /\ j <= b - p + 1 /\ n \in Nat
      BY <1>1, <1>2, <1>8 DEF n
    <3>1. k \in 1..n /\ j \in 1..(b - p + 1)
      BY <1>2, <1>8, <3>0
    <3>4. a <= k <=> j >= f
      <4>1. CASE 1 >= a - p + 1
        <5>1. f = 1
          BY <4>1 DEF f
        <5> HIDE DEF l
        <5> QED
          BY <1>2, <1>8, <3>0, <4>1, <5>1
      <4>2. CASE ~(1 >= a - p + 1)
        <5>1. f = a - p + 1
          BY <4>2 DEF f
        <5> HIDE DEF l
        <5> QED
          BY <1>2, <1>8, <3>0, <5>1
      <4> QED
        BY <4>1, <4>2
    <3>2. page[j] = s[k]
      BY <1>9, <3>1 DEF Piece
    <3> HIDE DEF k
    <3>3. start <= s[k] <=> a <= k
      BY <3>1 DEF FirstFrom, n
    <3> QED
      BY <3>2, <3>3, <3>4
  <2> QED
    BY <1>8, <1>10, <2>1 DEF Selects
<1> HIDE DEF J
<1>12. Filtered(page, J) = Slice(page, f, l)
  <2>1. Span(Int, page, f, l)
    BY <1>8, <1>10 DEF Span
  <2> HIDE DEF l
  <2> QED
    BY <1>11, <2>1, FilterSlices
<1>13. Slice(page, f, l) = Slice(s, c, b)
  <2>1. Span(Int, s, p, b) /\ Inner(p, b, f, l, c)
    BY <1>1, <1>2, <1>8 DEF Span, Inner, n
  <2> HIDE DEF l
  <2>2. Slice(Slice(s, p, b), f, l) = Slice(s, c, b)
    BY <2>1, SliceOfSlice
  <2> QED
    BY <1>7, <2>2
<1> QED
  BY <1>12, <1>13 DEF J, page, c

\* After k requests the candles from place c to place b are collected.
PageAt(s, a, b, n, w, k, c) ==
    /\ w = [rows |-> w.rows, end |-> w.end, over |-> w.over]
    /\ c \in Nat \ {0} /\ a <= c /\ c <= b + 1 /\ b - c + 1 <= n
    /\ w.rows = Slice(s, c, b)
    /\ IF w.over THEN c = a ELSE LastUpTo(s, w.end, c - 1) /\ (b - c + 1 >= k \/ b - c + 1 = n)
Windowed(s, start, a, b) ==
    /\ Rising(s) /\ start \in Int /\ FirstFrom(s, start, a) /\ a \in Nat \ {0} /\ b \in Nat
    /\ a <= b + 1 /\ b <= Len(s)

\* A page of this size before place c, from place a on, begins at place d.
Begins(a, c, size, d) == d = IF a >= c - size THEN a ELSE c - size

Grown(w, batch, size, start) ==
    [rows |-> batch \o w.rows, end |-> NextEnd(batch), over |-> Len(batch) < size \/ NextEnd(batch) < start]

\* The piece before place c joined to the one from there on.
LEMMA PageAdds ==
  ASSUME NEW s, NEW start, NEW a, NEW b, Windowed(s, start, a, b), NEW n, n \in Nat, NEW k, k \in Nat,
         NEW w, NEW c, PageAt(s, a, b, n, w, k, c), ~w.over, NEW size, size \in Nat \ {0}, size <= n - (b - c + 1),
         NEW d, Begins(a, c, size, d), d < c
  PROVE  PageAt(s, a, b, n, Grown(w, Slice(s, d, c - 1), size, start), k + 1, d)
<1> DEFINE batch == Slice(s, d, c - 1)
           v == Grown(w, batch, size, start)
<1> HIDE DEF batch, v
<1>1. /\ s \in Seq(Int) /\ Len(s) \in Nat /\ \A i \in 1..Len(s) : s[i] \in Int
      /\ a \in Nat \ {0} /\ b \in Nat /\ b <= Len(s) /\ start \in Int
  BY DEF Windowed, Rising
<1>2. c \in Nat \ {0} /\ a <= c /\ c <= b + 1 /\ b - c + 1 <= n /\ (b - c + 1 >= k \/ b - c + 1 = n)
  BY DEF PageAt
<1>3. d \in Nat \ {0} /\ a <= d /\ d <= b /\ d \in 1..Len(s) /\ c - d <= size
  BY <1>1, <1>2 DEF Begins
<1>4. batch \o w.rows = Slice(s, d, b)
  <2>1. w.rows = Slice(s, c, b) /\ batch = Slice(s, d, c - 1)
    BY DEF PageAt, batch
  <2>2. Span(Int, s, c, b) /\ d \in Nat \ {0} /\ d <= c
    BY <1>1, <1>2, <1>3 DEF Span
  <2>3. Slice(s, d, c - 1) \o Slice(s, c, b) = Slice(s, d, b)
    BY <2>2, JoinedSlices
  <2> QED
    BY <2>1, <2>3
<1>5. Len(batch) = c - d /\ batch[1] = s[d]
  <2> DEFINE e == c - 1
  <2>1. e \in Nat /\ d <= e + 1 /\ e <= Len(s) /\ e - d + 1 = c - d /\ 1 \in 1..(c - d) /\ d + 1 - 1 = d
    BY <1>1, <1>2, <1>3
  <2> HIDE DEF e
  <2>2. Piece(Int, s, Slice(s, d, e), d, e)
    BY <1>1, <1>3, <2>1, SliceIs
  <2> QED
    BY <2>1, <2>2 DEF e, Piece, batch
<1>6. /\ v.rows = Slice(s, d, b) /\ v.end = s[d] - 1 /\ v.over = (c - d < size \/ s[d] - 1 < start)
      /\ v = [rows |-> v.rows, end |-> v.end, over |-> v.over]
  BY <1>4, <1>5 DEF NextEnd, Grown, v
<1>7. ASSUME v.over PROVE d = a
  <2>1. CASE c - d < size
    BY <1>1, <1>2, <2>1 DEF Begins
  <2>2. CASE s[d] - 1 < start
    <3>1. a \in 1..Len(s)
      BY <1>1, <1>3
    <3>2. start <= s[a] /\ start <= s[d] /\ s[a] \in Int /\ s[d] \in Int
      BY <1>1, <1>3, <3>1 DEF Windowed, FirstFrom
    <3>3. a < d => s[a] < s[d]
      BY <1>3, <3>1 DEF Windowed, Rising
    <3> QED
      BY <1>1, <1>3, <2>2, <3>2, <3>3
  <2> QED
    BY <1>6, <1>7, <2>1, <2>2
<1>8. LastUpTo(s, v.end, d - 1)
  <2>1. ASSUME NEW i \in 1..Len(s) PROVE s[i] <= s[d] - 1 <=> i <= d - 1
    <3>1. i < d => s[i] < s[d]
      BY <1>3 DEF Windowed, Rising
    <3>2. d < i => s[d] < s[i]
      BY <1>3 DEF Windowed, Rising
    <3>3. s[i] \in Int /\ s[d] \in Int
      BY <1>1, <1>3
    <3>4. i = d \/ i < d \/ d < i
      BY <1>3
    <3> QED
      BY <1>3, <3>1, <3>2, <3>3, <3>4
  <2>2. d - 1 \in 0..Len(s)
    BY <1>1, <1>3
  <2> QED
    BY <1>6, <2>1, <2>2 DEF LastUpTo
<1>9. b - d + 1 <= n /\ b - d + 1 >= k + 1 /\ d <= b + 1
  BY <1>1, <1>2, <1>3
<1>10. PageAt(s, a, b, n, v, k + 1, d)
  BY <1>3, <1>6, <1>7, <1>8, <1>9 DEF PageAt
<1> QED
  BY <1>10 DEF v, batch

LEMMA NextPageKeeps ==
  ASSUME NEW s, NEW start, NEW a, NEW b, Windowed(s, start, a, b), NEW n, n \in Nat, NEW k, k \in Nat,
         NEW w, NEW c, PageAt(s, a, b, n, w, k, c)
  PROVE  \E d : PageAt(s, a, b, n, NextPage(s, start, n, w), k + 1, d)
<1> DEFINE size == Min({n - Len(w.rows), PageSize})
           len == b - c + 1
           page == Page(s, size, w.end)
           batch == Filtered(page, {i \in DOMAIN page : page[i] >= start})
           v == Grown(w, batch, size, start)
           u == NextPage(s, start, n, w)
<1>1. c \in Nat \ {0} /\ a <= c /\ c <= b + 1 /\ len <= n /\ a \in Nat \ {0} /\ b \in Nat /\ b <= Len(s) /\ s \in Seq(Int)
  BY DEF PageAt, Windowed, Rising
<1>2. Len(w.rows) = len
  <2>1. Piece(Int, s, Slice(s, c, b), c, b)
    BY <1>1, SliceIs
  <2>2. w.rows = Slice(s, c, b)
    BY DEF PageAt
  <2> QED
    BY <2>1, <2>2 DEF Piece
<1>3. size = (IF n - len <= PageSize THEN n - len ELSE PageSize) /\ size \in Nat /\ size <= n - len
  <2> DEFINE left == n - len
  <2>1. left \in Nat /\ PageSize \in Nat
    BY <1>1, PageAssumption
  <2> HIDE DEF len
  <2>2. size = Min({left, PageSize})
    BY <1>2
  <2> HIDE DEF left, size
  <2>3. size = IF left <= PageSize THEN left ELSE PageSize
    BY <2>1, <2>2, MinTwo
  <2> QED
    BY <2>1, <2>3 DEF left
<1>4. u = IF w.over \/ size = 0 THEN w ELSE IF batch = <<>> THEN [w EXCEPT !.over = TRUE] ELSE v
  BY DEF NextPage, Grown
<1> HIDE DEF u, size, page, v
<1>5. CASE w.over
  <2>1. PageAt(s, a, b, n, w, k + 1, c)
    BY <1>5 DEF PageAt
  <2> QED
    BY <1>4, <1>5, <2>1 DEF u
<1>6. CASE ~w.over /\ size = 0
  <2>1. len = n
    BY <1>1, <1>3, <1>6, PageAssumption
  <2>2. PageAt(s, a, b, n, w, k + 1, c)
    BY <1>6, <2>1 DEF PageAt
  <2> QED
    BY <1>4, <1>6, <2>2 DEF u
<1>7. CASE ~w.over /\ size # 0
  <2> DEFINE d == IF a >= c - size THEN a ELSE c - size
             e == c - 1
             dd == IF a >= e - size + 1 THEN a ELSE e - size + 1
  <2>1. LastUpTo(s, w.end, e) /\ a <= e + 1 /\ size \in Nat \ {0} /\ d = dd
    <3>1. LastUpTo(s, w.end, e)
      BY <1>7 DEF PageAt
    <3>2. a <= e + 1 /\ size \in Nat \ {0} /\ e - size + 1 = c - size
      BY <1>1, <1>3, <1>7
    <3> QED
      BY <3>1, <3>2
  <2>2. batch = Slice(s, d, e)
    <3> HIDE DEF e, d
    <3>1. Rising(s) /\ FirstFrom(s, start, a)
      BY DEF Windowed
    <3>2. batch = Slice(s, dd, e)
      BY <2>1, <3>1, PageIs DEF page
    <3> QED
      BY <2>1, <3>2
  <2>3. d \in Nat \ {0} /\ d <= c /\ a <= d
    BY <1>1, <1>3
  <2>4. CASE d = c
    <3>1. Slice(s, d, e) = <<>>
      <4>1. d \in Int /\ e \in Int /\ d = e + 1
        BY <1>1, <2>3, <2>4
      <4> HIDE DEF d, e
      <4> QED
        BY <4>1, SliceEmpty
    <3>2. batch = <<>> /\ c = a
      BY <1>1, <2>1, <2>2, <2>4, <3>1
    <3>3. u = [w EXCEPT !.over = TRUE]
      BY <1>4, <1>7, <3>2
    <3>4. u.rows = w.rows /\ u.over /\ u = [rows |-> u.rows, end |-> u.end, over |-> u.over]
      BY <3>3 DEF PageAt
    <3>5. PageAt(s, a, b, n, u, k + 1, c)
      BY <3>2, <3>4 DEF PageAt
    <3> QED
      BY <3>5 DEF u
  <2>5. CASE d # c
    <3>1. d < c
      BY <1>1, <2>3, <2>5
    <3>2. Len(batch) = c - d
      <4>1. e \in Nat /\ d <= e + 1 /\ e <= Len(s) /\ e - d + 1 = c - d
        BY <1>1, <2>3, <3>1
      <4> HIDE DEF d, e, batch
      <4>2. Piece(Int, s, Slice(s, d, e), d, e)
        BY <1>1, <2>3, <4>1, SliceIs
      <4> QED
        BY <2>2, <4>1, <4>2 DEF Piece
    <3>3. batch # <<>>
      <4> HIDE DEF batch, d
      <4>1. Len(batch) # 0
        BY <1>1, <2>3, <3>1, <3>2
      <4> QED
        BY <4>1
    <3>4. u = v
      BY <1>4, <1>7, <3>3
    <3>5. batch = Slice(s, d, c - 1) /\ size <= n - (b - c + 1)
      BY <1>3, <2>2
    <3>6. Begins(a, c, size, d)
      BY DEF Begins
    <3> HIDE DEF d, batch, len
    <3>7. PageAt(s, a, b, n, v, k + 1, d)
      <4>1. v = Grown(w, Slice(s, d, c - 1), size, start)
        BY <3>5 DEF v
      <4>2. ~w.over /\ size \in Nat \ {0}
        BY <1>7, <2>1
      <4>3. PageAt(s, a, b, n, Grown(w, Slice(s, d, c - 1), size, start), k + 1, d)
        BY <3>1, <3>5, <3>6, <4>2, PageAdds
      <4> QED
        BY <4>1, <4>3
    <3> QED
      BY <3>4, <3>7 DEF u
  <2> QED
    BY <2>4, <2>5
<1> QED
  BY <1>5, <1>6, <1>7

NoPage(end) == [rows |-> <<>>, end |-> end, over |-> FALSE]
PagesOf(P, s, start, end, n, m) ==
    /\ P = [i \in 0..m |-> P[i]] /\ P[0] = NoPage(end)
    /\ \A i \in 1..m : P[i] = NextPage(s, start, n, P[i - 1])

LEMMA PagesExist ==
  ASSUME NEW s, NEW start, NEW end, NEW n, n \in Nat
  PROVE  \E P : PagesOf(P, s, start, end, n, n)
<1> DEFINE bad == {m \in 0..n : ~\E P : PagesOf(P, s, start, end, n, m)}
<1>1. SUFFICES ASSUME bad # {} PROVE FALSE
  BY <1>1
<1>2. PICK m \in bad : \A j \in bad : m <= j
  <2>1. bad \in SUBSET Nat
    OBVIOUS
  <2> HIDE DEF bad
  <2> QED
    BY <1>1, <2>1, LeastNatural
<1>3. 0 \notin bad
  <2> DEFINE g == [i \in 0..0 |-> NoPage(end)]
  <2>1. PagesOf(g, s, start, end, n, 0)
    BY DEF PagesOf
  <2> QED
    BY <2>1
<1>4. m \in 0..n /\ m # 0 /\ m - 1 \in 0..n /\ m - 1 \notin bad
  <2>1. m \in 0..n /\ m # 0
    BY <1>2, <1>3
  <2>2. m - 1 \in 0..n /\ ~(m <= m - 1)
    BY <2>1
  <2> HIDE DEF bad
  <2> QED
    BY <1>2, <2>1, <2>2
<1>5. PICK g : PagesOf(g, s, start, end, n, m - 1)
  BY <1>4
<1> DEFINE last == NextPage(s, start, n, g[m - 1])
           h == [i \in 0..m |-> IF i = m THEN last ELSE g[i]]
<1> HIDE DEF last
<1>6. h = [i \in 0..m |-> h[i]]
  OBVIOUS
<1>7. h[0] = NoPage(end)
  BY <1>4, <1>5 DEF PagesOf
<1>8. ASSUME NEW i \in 1..m PROVE h[i] = NextPage(s, start, n, h[i - 1])
  <2>1. CASE i = m
    <3>1. h[i] = last /\ h[i - 1] = g[m - 1]
      BY <1>4, <2>1
    <3> QED
      BY <2>1, <3>1 DEF last
  <2>2. CASE i # m
    <3>1. h[i] = g[i] /\ h[i - 1] = g[i - 1] /\ i \in 1..(m - 1)
      BY <1>4, <2>2
    <3> QED
      BY <1>5, <3>1 DEF PagesOf
  <2> QED
    BY <2>1, <2>2
<1>9. PagesOf(h, s, start, end, n, m)
  <2> HIDE DEF h
  <2> QED
    BY <1>6, <1>7, <1>8 DEF PagesOf
<1> QED
  BY <1>2, <1>9

LEMMA PagesUnfold ==
  ASSUME NEW s, NEW start, NEW end, NEW n, n \in Nat
  PROVE  \E P : fetch_paginated(s, start, end, n) = P[n].rows /\ PagesOf(P, s, start, end, n, n)
<1> DEFINE Fun(f) == f = [i \in 0..n |-> IF i = 0 THEN [rows |-> <<>>, end |-> end, over |-> FALSE]
                                         ELSE NextPage(s, start, n, f[i - 1])]
<1>1. \E f : Fun(f)
  <2>1. PICK g : PagesOf(g, s, start, end, n, n)
    BY PagesExist
  <2>2. ASSUME NEW i \in 0..n PROVE g[i] = IF i = 0 THEN [rows |-> <<>>, end |-> end, over |-> FALSE]
                                           ELSE NextPage(s, start, n, g[i - 1])
    <3>1. CASE i = 0
      BY <2>1, <3>1 DEF PagesOf, NoPage
    <3>2. CASE i # 0
      <4>1. i \in 1..n
        BY <3>2
      <4> QED
        BY <2>1, <3>2, <4>1 DEF PagesOf
    <3> QED
      BY <3>1, <3>2
  <2>3. g = [i \in 0..n |-> g[i]]
    BY <2>1 DEF PagesOf
  <2>4. Fun(g)
    BY <2>2, <2>3
  <2> QED
    BY <2>4
<1> DEFINE P == CHOOSE f : Fun(f)
<1>2. Fun(P)
  <2> HIDE DEF Fun
  <2> QED
    BY <1>1
<1>3. fetch_paginated(s, start, end, n) = P[n].rows
  BY DEF fetch_paginated
<1> HIDE DEF P
<1>4. ASSUME NEW i \in 0..n PROVE P[i] = IF i = 0 THEN [rows |-> <<>>, end |-> end, over |-> FALSE]
                                         ELSE NextPage(s, start, n, P[i - 1])
  BY <1>2
<1>5. P[0] = NoPage(end) /\ \A i \in 1..n : P[i] = NextPage(s, start, n, P[i - 1])
  <2>1. 0 \in 0..n /\ \A i \in 1..n : i \in 0..n /\ i # 0
    OBVIOUS
  <2> HIDE DEF Fun
  <2>2. P[0] = NoPage(end)
    BY <1>4, <2>1 DEF NoPage
  <2>3. ASSUME NEW i \in 1..n PROVE P[i] = NextPage(s, start, n, P[i - 1])
    BY <1>4, <2>1
  <2> QED
    BY <2>2, <2>3
<1>6. P = [i \in 0..n |-> P[i]]
  BY <1>2
<1> HIDE DEF Fun
<1>7. PagesOf(P, s, start, end, n, n)
  BY <1>5, <1>6 DEF PagesOf
<1> QED
  BY <1>3, <1>7

\* What n requests collect: all the candles of the window, or the last n.
LEMMA FetchIs ==
  ASSUME NEW s, NEW start, NEW end, NEW a, NEW b, Windowed(s, start, a, b), LastUpTo(s, end, b), NEW n, n \in Nat
  PROVE  \E c : /\ Span(Int, s, c, b) /\ a <= c /\ b - c + 1 <= n /\ (c = a \/ b - c + 1 = n)
                /\ fetch_paginated(s, start, end, n) = Slice(s, c, b)
<1>1. PICK P : fetch_paginated(s, start, end, n) = P[n].rows /\ PagesOf(P, s, start, end, n, n)
  BY PagesUnfold
<1>2. a \in Nat \ {0} /\ b \in Nat /\ b <= Len(s) /\ a <= b + 1 /\ s \in Seq(Int)
  BY DEF Windowed, Rising
<1> DEFINE Reached(k) == \E c : PageAt(s, a, b, n, P[k], k, c)
           bad == {k \in 0..n : ~Reached(k)}
<1>3. Reached(0)
  <2> DEFINE w == NoPage(end)
             c == b + 1
  <2>1. w = [rows |-> w.rows, end |-> w.end, over |-> w.over] /\ w.rows = <<>> /\ w.end = end /\ w.over = FALSE
    BY DEF NoPage
  <2>2. c \in Nat \ {0} /\ a <= c /\ c <= b + 1 /\ b - c + 1 = 0 /\ c - 1 = b /\ b \in Int /\ c \in Int
    BY <1>2
  <2> HIDE DEF w, c
  <2>3. Slice(s, c, b) = <<>>
    <3>1. c = b + 1
      BY DEF c
    <3> QED
      BY <2>2, <3>1, SliceEmpty
  <2>4. PageAt(s, a, b, n, w, 0, c)
    BY <2>1, <2>2, <2>3 DEF PageAt
  <2>5. P[0] = w
    BY <1>1 DEF PagesOf, w
  <2> QED
    BY <2>4, <2>5
<1>4. bad = {}
  <2> SUFFICES ASSUME bad # {} PROVE FALSE
    OBVIOUS
  <2>1. PICK m \in bad : \A j \in bad : m <= j
    <3>1. bad \in SUBSET Nat
      OBVIOUS
    <3> HIDE DEF bad
    <3> QED
      BY <3>1, LeastNatural
  <2>2. m \in 1..n /\ m - 1 \in 0..n /\ m - 1 \in Nat /\ m - 1 \notin bad
    <3>1. m \in 0..n /\ m # 0
      <4> HIDE DEF Reached
      <4> QED
        BY <1>3, <2>1
    <3>2. m \in 1..n /\ m - 1 \in 0..n /\ m - 1 \in Nat /\ ~(m <= m - 1)
      BY <3>1
    <3> HIDE DEF bad
    <3> QED
      BY <2>1, <3>2
  <2> DEFINE k == m - 1
  <2>3. k \in Nat /\ k + 1 = m /\ P[m] = NextPage(s, start, n, P[k]) /\ Reached(k)
    <3>1. P[m] = NextPage(s, start, n, P[m - 1])
      BY <1>1, <2>2 DEF PagesOf
    <3>2. Reached(m - 1)
      BY <2>2
    <3>3. m - 1 \in Nat /\ m - 1 + 1 = m
      BY <2>2
    <3> HIDE DEF Reached
    <3> QED
      BY <3>1, <3>2, <3>3
  <2> HIDE DEF k
  <2>4. PICK c : PageAt(s, a, b, n, P[k], k, c)
    BY <2>3
  <2>5. \E d : PageAt(s, a, b, n, NextPage(s, start, n, P[k]), k + 1, d)
    BY <2>3, <2>4, NextPageKeeps
  <2>6. Reached(m)
    BY <2>3, <2>5
  <2> QED
    BY <2>1, <2>6
<1>5. PICK c : PageAt(s, a, b, n, P[n], n, c)
  <2> HIDE DEF Reached
  <2>1. Reached(n)
    BY <1>4
  <2> QED
    BY <2>1 DEF Reached
<1>6. c \in Nat \ {0} /\ a <= c /\ c <= b + 1 /\ b - c + 1 <= n /\ P[n].rows = Slice(s, c, b)
  BY <1>5 DEF PageAt
<1>7. c = a \/ b - c + 1 >= n
  BY <1>2, <1>5, <1>6 DEF PageAt
<1>8. Span(Int, s, c, b) /\ (c = a \/ b - c + 1 = n)
  BY <1>2, <1>6, <1>7 DEF Span
<1> QED
  BY <1>1, <1>6, <1>8

LEMMA Times ==
  ASSUME NEW x, x \in Nat, NEW c, c \in Nat \ {0}
  PROVE  x * c \in Nat /\ (x > 0 => x * c > 0)
OBVIOUS

LEMMA OpensAre ==
  /\ Opens \in Seq(Int) /\ Len(Opens) = History /\ Rising(Opens)
  /\ \A i, j \in 1..History : i <= j => Opens[j] - Opens[i] = (j - i) * Candle
<1>1. Candle \in Nat \ {0} /\ History \in Nat
  BY FeedsAssumption
<1>2. \A i \in 1..History : (i - 1) * Candle \in Int
  BY <1>1
<1>3. Opens = [i \in 1..History |-> (i - 1) * Candle]
  BY DEF Opens
<1>4. Opens \in [1..History -> Int] /\ \A i \in 1..History : Opens[i] = (i - 1) * Candle
  BY <1>2, <1>3
<1>5. Opens \in Seq(Int) /\ Len(Opens) = History
  BY <1>1, <1>4
<1>6. ASSUME NEW i \in 1..History, NEW j \in 1..History, i <= j
      PROVE  Opens[j] - Opens[i] = (j - i) * Candle
  <2>1. Opens[i] = (i - 1) * Candle /\ Opens[j] = (j - 1) * Candle
    BY <1>4
  <2> DEFINE x == i - 1
             y == j - 1
  <2>2. x \in Int /\ y \in Int /\ j - i = y - x
    OBVIOUS
  <2> HIDE DEF x, y
  <2>3. y * Candle - x * Candle = (y - x) * Candle
    BY <1>1, <2>2
  <2> QED
    BY <2>1, <2>2, <2>3 DEF x, y
<1>7. ASSUME NEW i \in 1..History, NEW j \in 1..History, i < j PROVE Opens[i] < Opens[j]
  <2> DEFINE d == j - i
             p == d * Candle
  <2>1. d \in Nat /\ d > 0
    BY <1>7
  <2> HIDE DEF d
  <2>2. p \in Nat /\ p > 0
    BY <1>1, <2>1, Times
  <2>3. Opens[j] - Opens[i] = p
    BY <1>6, <1>7 DEF d
  <2> HIDE DEF p
  <2>4. Opens[i] \in Int /\ Opens[j] \in Int
    BY <1>4
  <2> QED
    BY <2>2, <2>3, <2>4
<1> QED
  BY <1>5, <1>6, <1>7 DEF Rising

LEMMA Quotient ==
  ASSUME NEW x, x \in Nat, NEW y, y \in Int, NEW c, c \in Nat \ {0}, x * c <= y
  PROVE  y \div c \in Int /\ x <= y \div c
<1> DEFINE q == y \div c
           r == y % c
           p == c * q
<1>1. q \in Int /\ r \in 0..(c - 1) /\ y = c * q + r
  OBVIOUS
<1> HIDE DEF q, r
<1>2. ASSUME x > q PROVE FALSE
  <2> DEFINE d == x - q - 1
             m == d * c
  <2>1. d \in Nat
    BY <1>1, <1>2
  <2> HIDE DEF d
  <2>2. m \in Nat
    BY <2>1, Times
  <2>3. x = q + 1 + d
    BY <1>1, <2>1 DEF d
  <2>4. x * c = p + c + m
    BY <1>1, <2>1, <2>3
  <2>5. p \in Int
    BY <1>1
  <2>6. y = p + r
    BY <1>1
  <2> HIDE DEF p, m
  <2> DEFINE xc == x * c
  <2>7. xc = p + c + m /\ xc <= y
    BY <2>4
  <2> HIDE DEF xc
  <2> QED
    BY <1>1, <2>2, <2>5, <2>6, <2>7
<1> QED
  BY <1>1, <1>2 DEF q

LEMMA EstimateIs ==
  ASSUME NEW start, start \in Int, NEW end, end \in Int, NEW a, NEW b, FirstFrom(Opens, start, a), LastUpTo(Opens, end, b),
         a <= b
  PROVE  b - a + 1 <= EstimatedCandles(start, end, Candle)
<1>1. Candle \in Nat \ {0} /\ History \in Nat
  BY FeedsAssumption
<1>2. a \in 1..History /\ b \in 1..History
  BY <1>1, OpensAre DEF FirstFrom, LastUpTo
<1>3. start <= Opens[a] /\ Opens[b] <= end /\ Opens[a] \in Int /\ Opens[b] \in Int
  BY <1>2, OpensAre DEF FirstFrom, LastUpTo
<1> DEFINE d == b - a
           p == d * Candle
           w == end - start
           q == w \div Candle
<1>4. d \in Nat /\ w \in Int
  BY <1>2
<1>5. Opens[b] - Opens[a] = p
  BY <1>2, OpensAre
<1>6. p <= w
  <2>1. p \in Int
    BY <1>3, <1>5
  <2> HIDE DEF p
  <2> QED
    BY <1>3, <1>5, <2>1
<1> HIDE DEF d, w
<1>7. q \in Int /\ d <= q
  BY <1>1, <1>4, <1>6, Quotient
<1>8. EstimatedCandles(start, end, Candle) = Max({q, 1}) + 1
  BY DEF EstimatedCandles, w
<1> HIDE DEF q
<1>9. Max({q, 1}) \in Int /\ Max({q, 1}) >= q
  BY <1>7, MaxTwo
<1> DEFINE x == Max({q, 1})
<1> HIDE DEF x
<1>10. d + 1 <= x + 1
  BY <1>4, <1>7, <1>9 DEF x
<1> QED
  BY <1>2, <1>8, <1>10 DEF d, x

\* The candles of a window: the piece from the first to the last of them, or
\* the last MAX_RANGE.
LEMMA RangeSlices ==
  ASSUME NEW start, start \in Int, NEW end, end \in Int, start <= end
  PROVE  \E a, b, c : /\ FirstFrom(Opens, start, a) /\ LastUpTo(Opens, end, b) /\ Span(Int, Opens, c, b) /\ a <= c
                      /\ (c = a \/ b - c + 1 = MAX_RANGE)
                      /\ fetch_binance_range(Opens, start, end, Candle) = Slice(Opens, c, b)
<1>1. PICK a : FirstFrom(Opens, start, a)
  BY OpensAre, SomeFirst
<1>2. PICK b : LastUpTo(Opens, end, b)
  BY OpensAre, SomeLast
<1>3. a <= b + 1
  BY <1>1, <1>2, OpensAre, WindowIs
<1>4. History \in Nat /\ Candle \in Nat \ {0}
  BY FeedsAssumption
<1>5. a \in Nat \ {0} /\ b \in Nat /\ b <= Len(Opens)
  BY <1>1, <1>2, <1>4, OpensAre DEF FirstFrom, LastUpTo
<1>6. Windowed(Opens, start, a, b)
  BY <1>1, <1>3, <1>5, OpensAre DEF Windowed
<1> DEFINE est == EstimatedCandles(start, end, Candle)
           cap == MAX_RANGE
           n == Min({est, cap})
<1>7. est \in Nat
  <2> DEFINE q == (end - start) \div Candle
  <2>1. q \in Int
    BY <1>4
  <2> HIDE DEF q
  <2>2. Max({q, 1}) = IF q >= 1 THEN q ELSE 1
    BY <2>1, MaxTwo
  <2>3. est = Max({q, 1}) + 1
    BY DEF EstimatedCandles, q
  <2> QED
    BY <2>1, <2>2, <2>3
<1>8. cap \in Nat
  BY DEF MAX_RANGE
<1> HIDE DEF est, cap
<1>9. n \in Nat /\ n = IF est <= cap THEN est ELSE cap
  BY <1>7, <1>8, MinTwo
<1>10. fetch_binance_range(Opens, start, end, Candle) = LastOf(fetch_paginated(Opens, start, end, n), n)
  BY DEF fetch_binance_range, est, cap
<1> HIDE DEF n
<1>11. PICK c : /\ Span(Int, Opens, c, b) /\ a <= c /\ b - c + 1 <= n /\ (c = a \/ b - c + 1 = n)
                /\ fetch_paginated(Opens, start, end, n) = Slice(Opens, c, b)
  <2>1. n \in Nat
    BY <1>9
  <2> QED
    BY <1>2, <1>6, <2>1, FetchIs
<1>12. LastOf(Slice(Opens, c, b), n) = Slice(Opens, c, b)
  <2>1. Opens \in Seq(Int) /\ c \in Nat \ {0} /\ b \in Nat /\ c <= b + 1 /\ b <= Len(Opens)
    BY <1>11 DEF Span
  <2>a. n \in Nat
    BY <1>9
  <2>2. LastOf(Slice(Opens, c, b), n) = Slice(Opens, IF c >= b - n + 1 THEN c ELSE b - n + 1, b)
    BY <2>a, <2>1, LastOfSlice
  <2>3. c >= b - n + 1
    <3>1. b - c + 1 <= n
      BY <1>11
    <3> QED
      BY <2>1, <2>a, <3>1
  <2> QED
    BY <2>2, <2>3
<1>13. c = a \/ b - c + 1 = cap
  <2>1. CASE n = cap
    BY <1>11, <2>1
  <2>2. CASE n # cap
    <3>1. n = est /\ c \in Nat /\ c <= b + 1
      BY <1>9, <1>11, <2>2 DEF Span
    <3>2. CASE a <= b
      <4>1. b - a + 1 <= est
        BY <1>1, <1>2, <3>2, EstimateIs DEF est
      <4> QED
        BY <1>5, <1>7, <1>11, <3>1, <4>1
    <3>3. CASE ~(a <= b)
      BY <1>3, <1>5, <1>11, <3>1, <3>3
    <3> QED
      BY <3>2, <3>3
  <2> QED
    BY <2>1, <2>2
<1> QED
  BY <1>1, <1>2, <1>10, <1>11, <1>12, <1>13 DEF cap

RangeOk(rows_, start, end) ==
    /\ \A i, j \in DOMAIN rows_ : i < j => rows_[i] < rows_[j]
    /\ ToSet(rows_) \subseteq Due(start, end)
    /\ \A t \in Due(start, end) \ ToSet(rows_) : Len(rows_) = MAX_RANGE /\ t < rows_[1]

LEMMA WindowComplete ==
  ASSUME NEW start, start \in Int, NEW end, end \in Int, start <= end
  PROVE  RangeOk(fetch_binance_range(Opens, start, end, Candle), start, end)
<1>1. PICK a, b, c : /\ FirstFrom(Opens, start, a) /\ LastUpTo(Opens, end, b) /\ Span(Int, Opens, c, b) /\ a <= c
                     /\ (c = a \/ b - c + 1 = MAX_RANGE)
                     /\ fetch_binance_range(Opens, start, end, Candle) = Slice(Opens, c, b)
  BY RangeSlices
<1> DEFINE q == Slice(Opens, c, b)
           s == Opens
<1>2. s \in Seq(Int) /\ Rising(s) /\ Len(s) \in Nat /\ DOMAIN s = 1..Len(s)
  BY OpensAre
<1>3. c \in Nat \ {0} /\ b \in Nat /\ c <= b + 1 /\ b <= Len(s) /\ a \in Nat \ {0}
  BY <1>1, <1>2 DEF Span, FirstFrom
<1> HIDE DEF s
<1>4. Piece(Int, s, q, c, b)
  BY <1>2, <1>3, SliceIs DEF s
<1>5. q \in Seq(Int) /\ Len(q) = b - c + 1 /\ DOMAIN q = 1..(b - c + 1)
  BY <1>4 DEF Piece
<1>6. ASSUME NEW j \in DOMAIN q
      PROVE  c + j - 1 \in 1..Len(s) /\ c + j - 1 <= b /\ a <= c + j - 1 /\ q[j] = s[c + j - 1]
  <2>1. j \in 1..(b - c + 1)
    BY <1>5
  <2> HIDE DEF q
  <2> QED
    <3>1. q[j] = s[c + j - 1]
      BY <1>4, <2>1 DEF Piece
    <3>2. a <= c
      BY <1>1
    <3>3. c + j - 1 \in 1..Len(s) /\ c + j - 1 <= b /\ a <= c + j - 1
      BY <1>2, <1>3, <2>1, <3>2
    <3> QED
      BY <3>1, <3>3
<1> HIDE DEF q
<1>7. \A i, j \in DOMAIN q : i < j => q[i] < q[j]
  <2> SUFFICES ASSUME NEW i \in DOMAIN q, NEW j \in DOMAIN q, i < j PROVE q[i] < q[j]
    OBVIOUS
  <2> DEFINE x == c + i - 1
             y == c + j - 1
  <2>1. x \in 1..Len(s) /\ y \in 1..Len(s) /\ q[i] = s[x] /\ q[j] = s[y]
    BY <1>6
  <2>2. x < y
    BY <1>3, <1>5
  <2> HIDE DEF x, y
  <2> QED
    BY <1>2, <2>1, <2>2 DEF Rising
<1>8. ASSUME NEW t \in ToSet(q) PROVE t \in Due(start, end)
  <2>1. PICK j \in DOMAIN q : t = q[j]
    BY DEF ToSet
  <2> DEFINE x == c + j - 1
  <2>2. x \in 1..Len(s) /\ x <= b /\ a <= x /\ t = s[x]
    BY <1>6, <2>1
  <2> HIDE DEF x
  <2>3. start <= t /\ t <= end /\ t \in ToSet(s)
    BY <1>1, <1>2, <2>2 DEF FirstFrom, LastUpTo, ToSet, s
  <2> QED
    BY <2>3 DEF Due, s
<1>9. ASSUME NEW t \in Due(start, end) \ ToSet(q) PROVE Len(q) = MAX_RANGE /\ t < q[1]
  <2>1. PICK i \in 1..Len(s) : t = s[i] /\ start <= s[i] /\ s[i] <= end
    BY <1>2 DEF Due, ToSet, s
  <2>2. a <= i /\ i <= b
    BY <1>1, <2>1 DEF FirstFrom, LastUpTo, s
  <2>3. i < c
    <3>1. SUFFICES ASSUME i >= c PROVE FALSE
      BY <1>3, <3>1
    <3> DEFINE j == i - c + 1
    <3>2. j \in DOMAIN q /\ c + j - 1 = i
      BY <1>3, <1>5, <2>2, <3>1
    <3> HIDE DEF j
    <3>3. q[j] = t
      BY <1>6, <2>1, <3>2
    <3> QED
      BY <3>2, <3>3 DEF ToSet
  <2>4. c # a /\ c \in 1..Len(s) /\ c <= b
    <3>1. c # a
      BY <1>3, <2>2, <2>3
    <3>2. b - c + 1 = MAX_RANGE
      BY <1>1, <3>1
    <3>3. c <= b
      BY <1>3, <3>2 DEF MAX_RANGE
    <3> QED
      BY <1>2, <1>3, <3>1, <3>3
  <2>5. 1 \in DOMAIN q
    BY <1>3, <1>5, <2>4
  <2>6. q[1] = s[c]
    <3>1. c + 1 - 1 = c
      BY <1>3
    <3> QED
      BY <1>6, <2>5, <3>1
  <2>7. s[i] < s[c]
    BY <1>2, <2>3, <2>4 DEF Rising
  <2> QED
    BY <1>1, <1>5, <2>1, <2>4, <2>6, <2>7
<1> QED
  BY <1>1, <1>7, <1>8, <1>9 DEF RangeOk, q

-----------------------------------------------------------------------------
(* Quotes *)

\* The known symbols are the listed ones that were asked for, each once; the
\* unknown ones are the rest.
SplitOk(asked, listed, known, unknown) ==
    /\ known \in Seq(Symbol) /\ \A s : s \in ToSet(known) <=> s \in ToSet(asked) /\ s \in listed
    /\ \A i, j \in DOMAIN known : i # j => known[i] # known[j]
    /\ \A s : s \in ToSet(unknown) <=> s \in ToSet(asked) /\ s \notin listed

LEMMA SplitIs ==
  ASSUME NEW asked, NEW listed, asked \in Seq(Symbol)
  PROVE  SplitOk(asked, listed, filter_known_symbols(asked, listed).known, filter_known_symbols(asked, listed).unknown)
<1> DEFINE n == Len(asked)
           allowed == {i \in DOMAIN asked : asked[i] \in listed}
           firsts == {i \in allowed : \A j \in 1..(i - 1) : asked[j] # asked[i]}
           others == DOMAIN asked \ allowed
           known == Filtered(asked, firsts)
           unknown == Filtered(asked, others)
<1>1. n \in Nat /\ DOMAIN asked = 1..n
  OBVIOUS
<1>2. firsts \cap (1..n) = firsts /\ others \cap (1..n) = others
  BY <1>1
<1>3. \A I : /\ Filtered(asked, I) \in Seq(Symbol)
             /\ ToSet(Filtered(asked, I)) = {asked[i] : i \in I \cap (1..n)}
             /\ (\A i, j \in I \cap (1..n) : i # j => asked[i] # asked[j]) =>
                  \A i, j \in DOMAIN Filtered(asked, I) : i # j => Filtered(asked, I)[i] # Filtered(asked, I)[j]
  BY FilterKeeps
<1>4. known \in Seq(Symbol) /\ ToSet(known) = {asked[i] : i \in firsts}
  <2> HIDE DEF firsts
  <2> QED
    BY <1>2, <1>3
<1>5. ToSet(unknown) = {asked[i] : i \in others}
  <2> HIDE DEF others
  <2> QED
    BY <1>2, <1>3
<1>6. \A i, j \in firsts : i # j => asked[i] # asked[j]
  <2> SUFFICES ASSUME NEW i \in firsts, NEW j \in firsts, i < j PROVE asked[i] # asked[j]
    BY <1>1
  <2>1. i \in 1..(j - 1)
    BY <1>1
  <2> QED
    BY <2>1
<1>7. \A i, j \in DOMAIN known : i # j => known[i] # known[j]
  <2> HIDE DEF firsts
  <2> QED
    BY <1>2, <1>3, <1>6
<1>8. ASSUME NEW s, s \in ToSet(asked), s \in listed PROVE \E i \in firsts : asked[i] = s
  <2> DEFINE at == {i \in 1..n : asked[i] = s}
  <2>1. at # {} /\ at \in SUBSET Nat
    BY <1>1, <1>8 DEF ToSet
  <2> HIDE DEF at
  <2>2. PICK i \in at : \A j \in at : i <= j
    BY <2>1, LeastNatural
  <2>3. i \in 1..n /\ asked[i] = s
    BY DEF at
  <2>4. ASSUME NEW j \in 1..(i - 1) PROVE asked[j] # asked[i]
    <3>1. j \in 1..n /\ ~(i <= j)
      BY <1>1, <2>3
    <3>2. j \notin at
      BY <2>2, <3>1
    <3> QED
      BY <2>3, <3>1, <3>2 DEF at
  <2> QED
    BY <1>1, <1>8, <2>3, <2>4
<1>9. \A s : s \in ToSet(known) <=> s \in ToSet(asked) /\ s \in listed
  <2>1. \A i \in firsts : asked[i] \in listed /\ asked[i] \in ToSet(asked)
    BY <1>1 DEF ToSet
  <2> HIDE DEF firsts, known
  <2> QED
    BY <1>4, <1>8, <2>1
<1>10. \A s : s \in ToSet(unknown) <=> s \in ToSet(asked) /\ s \notin listed
  <2>1. \A s : s \in ToSet(asked) <=> \E i \in 1..n : asked[i] = s
    BY <1>1 DEF ToSet
  <2>2. \A i : i \in others <=> i \in 1..n /\ asked[i] \notin listed
    BY <1>1
  <2> HIDE DEF others, unknown
  <2> QED
    BY <1>5, <2>1, <2>2
<1>11. filter_known_symbols(asked, listed).known = known /\ filter_known_symbols(asked, listed).unknown = unknown
  BY DEF filter_known_symbols
<1> HIDE DEF known, unknown
<1> QED
  BY <1>4, <1>7, <1>9, <1>10, <1>11 DEF SplitOk

\* The rows of a payload are its symbols, each once.
LEMMA RowsAre ==
  ASSUME NEW pay, IsFiniteSet(DOMAIN pay)
  PROVE  \E n \in Nat : /\ DOMAIN RowsOf(pay) = 1..n
                        /\ \A i \in 1..n : /\ RowsOf(pay)[i].symbol \in DOMAIN pay
                                           /\ RowsOf(pay)[i].value = pay[RowsOf(pay)[i].symbol]
                        /\ \A s \in DOMAIN pay : \E i \in 1..n : RowsOf(pay)[i].symbol = s
<1> DEFINE D == DOMAIN pay
           n == Cardinality(D)
           q == SetToSeq(D)
<1>1. n \in Nat /\ ExistsBijection(1..n, D)
  BY FS_CardinalityType
<1>2. q \in [1..n -> D] /\ IsInjective(q)
  <2>1. PICK f : f \in Bijection(1..n, D)
    BY <1>1 DEF ExistsBijection
  <2>2. f \in [1..n -> D] /\ IsInjective(f)
    BY <2>1 DEF Bijection, Injection, IsInjective
  <2>3. \E g \in [1..n -> D] : IsInjective(g)
    BY <2>2
  <2> QED
    BY <2>3 DEF SetToSeq
<1> HIDE DEF q
<1>3. \A s \in D : \E i \in 1..n : q[i] = s
  <2>1. q \in Injection(1..n, D)
    BY <1>2 DEF Injection, IsInjective
  <2>2. Cardinality(1..n) = Cardinality(D)
    BY <1>1, FS_Interval
  <2>3. q \in Surjection(1..n, D)
    BY <2>1, <2>2, FS_Injection
  <2> QED
    BY <2>3 DEF Surjection
<1>4. DOMAIN RowsOf(pay) = 1..n
  BY DEF RowsOf
<1>5. \A i \in 1..n : RowsOf(pay)[i].symbol = q[i] /\ RowsOf(pay)[i].value = pay[q[i]]
  BY DEF RowsOf, q
<1> HIDE DEF D, n
<1>6. \A i \in 1..n : q[i] \in D
  BY <1>2
<1>7. \A i \in 1..n : /\ RowsOf(pay)[i].symbol \in D
                      /\ RowsOf(pay)[i].value = pay[RowsOf(pay)[i].symbol]
  BY <1>5, <1>6
<1>8. \A s \in D : \E i \in 1..n : RowsOf(pay)[i].symbol = s
  BY <1>3, <1>5
<1> QED
  BY <1>1, <1>4, <1>7, <1>8 DEF D

LEMMA FieldIs ==
  ASSUME NEW pay, NEW s, IsFiniteSet(DOMAIN pay)
  PROVE  Field(RowsOf(pay), s) = IF s \in DOMAIN pay THEN pay[s] ELSE None
<1> DEFINE r == RowsOf(pay)
           parsed == {i \in DOMAIN r : r[i].symbol = s /\ r[i].value # None}
<1>1. PICK n \in Nat : /\ DOMAIN r = 1..n
                       /\ \A i \in 1..n : r[i].symbol \in DOMAIN pay /\ r[i].value = pay[r[i].symbol]
                       /\ \A x \in DOMAIN pay : \E i \in 1..n : r[i].symbol = x
  BY RowsAre
<1>2. Field(r, s) = IF parsed = {} THEN None ELSE r[Max(parsed)].value
  BY DEF Field
<1> HIDE DEF r
<1>3. CASE parsed = {}
  <2>1. CASE s \in DOMAIN pay
    <3>1. PICK i \in 1..n : r[i].symbol = s
      BY <1>1, <2>1
    <3>2. i \notin parsed
      BY <1>3
    <3> QED
      BY <1>1, <1>2, <1>3, <2>1, <3>1, <3>2 DEF r
  <2>2. CASE s \notin DOMAIN pay
    BY <1>2, <1>3, <2>2 DEF r
  <2> QED
    BY <2>1, <2>2
<1>4. CASE parsed # {}
  <2>1. parsed \in SUBSET Nat /\ IsFiniteSet(parsed)
    <3>1. parsed \in SUBSET (1..n)
      BY <1>1
    <3>2. IsFiniteSet(1..n)
      BY FS_Interval
    <3>3. IsFiniteSet(parsed)
      BY <3>1, <3>2, FS_Subset
    <3> QED
      BY <3>1, <3>3
  <2>2. Max(parsed) \in parsed
    <3> HIDE DEF parsed
    <3> QED
      BY <1>4, <2>1, GreatestNatural
  <2> DEFINE m == Max(parsed)
  <2>3. m \in 1..n /\ r[m].symbol = s
    BY <1>1, <2>2
  <2>4. Field(r, s) = r[m].value
    BY <1>2, <1>4
  <2> HIDE DEF m, parsed
  <2>5. s \in DOMAIN pay /\ r[m].value = pay[s]
    BY <1>1, <2>3
  <2> QED
    BY <2>4, <2>5 DEF r
<1> QED
  BY <1>3, <1>4

\* One answer for every symbol.
QuotesOk(asked, unknown, quotes_, tick) ==
    /\ \A s \in ToSet(asked) :
         Cardinality({i \in DOMAIN quotes_ : quotes_[i][1] = s}) = IF s \in ToSet(unknown) THEN 0 ELSE 1
    /\ \A i \in DOMAIN quotes_ :
         quotes_[i][2].last = IF quotes_[i][1] \in DOMAIN tick THEN tick[quotes_[i][1]] ELSE None

LEMMA QuotesComplete ==
  ASSUME NEW asked, NEW listed, NEW known, NEW unknown, NEW tick, NEW prem,
         SplitOk(asked, listed, known, unknown), IsFiniteSet(DOMAIN tick)
  PROVE  LET answers_ == parse_quotes_payload(known, RowsOf(tick), RowsOf(prem))
         IN  QuotesOk(asked, unknown, [i \in DOMAIN known |-> <<known[i], answers_[known[i]]>>], tick)
<1> DEFINE parsed == parse_quotes_payload(known, RowsOf(tick), RowsOf(prem))
           qs == [i \in DOMAIN known |-> <<known[i], parsed[known[i]]>>]
<1>1. /\ known \in Seq(Symbol) /\ \A s : s \in ToSet(known) <=> s \in ToSet(asked) /\ s \in listed
      /\ \A i, j \in DOMAIN known : i # j => known[i] # known[j]
      /\ \A s : s \in ToSet(unknown) <=> s \in ToSet(asked) /\ s \notin listed
  BY DEF SplitOk
<1>2. \A s \in ToSet(known) : parsed[s].last = IF s \in DOMAIN tick THEN tick[s] ELSE None
  <2> SUFFICES ASSUME NEW s \in ToSet(known)
               PROVE  parsed[s].last = IF s \in DOMAIN tick THEN tick[s] ELSE None
    OBVIOUS
  <2>1. parsed[s].last = Field(RowsOf(tick), s)
    BY DEF parse_quotes_payload
  <2> QED
    BY <2>1, FieldIs
<1> HIDE DEF parsed
<1>3. DOMAIN qs = DOMAIN known /\ \A i \in DOMAIN known : qs[i][1] = known[i] /\ qs[i][2] = parsed[known[i]]
  OBVIOUS
<1>4. \A s : s \in ToSet(known) <=> \E i \in DOMAIN known : known[i] = s
  BY DEF ToSet
<1> HIDE DEF qs
<1>5. ASSUME NEW s \in ToSet(asked)
      PROVE  Cardinality({i \in DOMAIN qs : qs[i][1] = s}) = IF s \in ToSet(unknown) THEN 0 ELSE 1
  <2> DEFINE at == {i \in DOMAIN qs : qs[i][1] = s}
  <2>1. CASE s \in listed
    <3>1. PICK i \in DOMAIN known : known[i] = s
      BY <1>1, <1>4, <2>1
    <3>2. at = {i}
      BY <1>1, <1>3, <3>1
    <3>3. Cardinality({i}) = 1
      BY FS_Singleton
    <3>4. s \notin ToSet(unknown)
      BY <1>1, <2>1
    <3> QED
      BY <3>2, <3>3, <3>4
  <2>2. CASE s \notin listed
    <3>1. s \notin ToSet(known) /\ s \in ToSet(unknown)
      BY <1>1, <2>2
    <3>2. at = {}
      BY <1>3, <1>4, <3>1
    <3> QED
      BY <3>1, <3>2, FS_EmptySet
  <2> QED
    BY <2>1, <2>2
<1>6. ASSUME NEW i \in DOMAIN qs
      PROVE  qs[i][2].last = IF qs[i][1] \in DOMAIN tick THEN tick[qs[i][1]] ELSE None
  <2>1. known[i] \in ToSet(known) /\ qs[i][1] = known[i] /\ qs[i][2] = parsed[known[i]]
    BY <1>3, <1>4, <1>6
  <2> QED
    BY <1>2, <2>1
<1>7. QuotesOk(asked, unknown, qs, tick)
  BY <1>5, <1>6 DEF QuotesOk
<1> QED
  BY <1>7 DEF qs, parsed

\* Every download of candles has the whole window it was asked for, in order,
\* up to the cap on its length, and every quotes request answers each symbol
\* once, with its own last price, or names it as unknown
\* (fetch_historical_data, _fetch_paginated, filter_known_symbols,
\* parse_quotes_payload).
THEOREM FeedsAreComplete == Spec => []FeedsComplete
<1>1. Init => FeedsComplete
  BY DEF Init, FeedsComplete
<1>2. ASSUME FeedsComplete, Next PROVE FeedsComplete'
  <2>1. CASE Backtest
    <3>1. PICK start \in Starts, end \in Ends, outs \in Attempts :
            /\ start < end
            /\ feed' = LET window == fetch_binance_range(Opens, start, end, Candle)
                       IN  IF request_with_retry(outs) # "ok" THEN [kind |-> "error"]
                           ELSE IF window = <<>> THEN [kind |-> "error"]
                           ELSE [kind |-> "range", start |-> start, end |-> end, rows |-> window]
      BY <2>1 DEF Backtest
    <3> DEFINE window == fetch_binance_range(Opens, start, end, Candle)
    <3>2. start \in Int /\ end \in Int /\ start <= end
      BY <3>1, FeedsAssumption
    <3>3. RangeOk(window, start, end)
      BY <3>2, WindowComplete
    <3>4. \/ feed' = [kind |-> "error"]
          \/ feed' = [kind |-> "range", start |-> start, end |-> end, rows |-> window]
      BY <3>1
    <3> HIDE DEF window
    <3>5. CASE feed' = [kind |-> "error"]
      BY <3>5 DEF FeedsComplete
    <3>6. CASE feed' = [kind |-> "range", start |-> start, end |-> end, rows |-> window]
      <4>1. feed'.kind = "range" /\ feed'.start = start /\ feed'.end = end /\ feed'.rows = window
        BY <3>6
      <4> QED
        BY <3>3, <4>1 DEF FeedsComplete, RangeOk, Due
    <3> QED
      BY <3>4, <3>5, <3>6
  <2>2. CASE BatchQuotes
    <3>1. PICK asked \in Asked, listed \in SUBSET Symbol, tick \in Payload, prem \in Payload,
               o1 \in QuoteAttempts, o2 \in QuoteAttempts :
            LET split   == filter_known_symbols(asked, listed)
                parsed_ == parse_quotes_payload(split.known, RowsOf(tick), RowsOf(prem))
                up      == split.known = <<>> \/ (get_with_retry(o1) /\ get_with_retry(o2))
            IN  feed' = IF Len(asked) \notin 1..MAX_QUOTE_SYMBOLS THEN [kind |-> "error"]
                        ELSE IF ~up THEN [kind |-> "error"]
                        ELSE [kind |-> "quotes", asked |-> asked, tick |-> tick, unknown |-> split.unknown,
                              quotes |-> [i \in DOMAIN split.known |-> <<split.known[i], parsed_[split.known[i]]>>]]
      BY <2>2 DEF BatchQuotes
    <3> DEFINE known == filter_known_symbols(asked, listed).known
               unknown == filter_known_symbols(asked, listed).unknown
               parsed == parse_quotes_payload(known, RowsOf(tick), RowsOf(prem))
               answered == [i \in DOMAIN known |-> <<known[i], parsed[known[i]]>>]
    <3>2. SplitOk(asked, listed, known, unknown)
      BY SplitIs, FeedsAssumption
    <3>3. IsFiniteSet(DOMAIN tick)
      <4>1. DOMAIN tick \in SUBSET Symbol
        BY DEF Payload
      <4> QED
        BY <4>1, FS_Subset, FeedsAssumption
    <3>4. QuotesOk(asked, unknown, answered, tick)
      BY <3>2, <3>3, QuotesComplete
    <3>5. \/ feed' = [kind |-> "error"]
          \/ feed' = [kind |-> "quotes", asked |-> asked, tick |-> tick, unknown |-> unknown, quotes |-> answered]
      BY <3>1
    <3> HIDE DEF known, unknown, parsed, answered
    <3>6. CASE feed' = [kind |-> "error"]
      BY <3>6 DEF FeedsComplete
    <3>7. CASE feed' = [kind |-> "quotes", asked |-> asked, tick |-> tick, unknown |-> unknown, quotes |-> answered]
      <4>1. /\ feed'.kind = "quotes" /\ feed'.asked = asked /\ feed'.tick = tick
            /\ feed'.unknown = unknown /\ feed'.quotes = answered
        BY <3>7
      <4> QED
        BY <3>4, <4>1 DEF FeedsComplete, QuotesOk
    <3> QED
      BY <3>5, <3>6, <3>7
  <2>3. CASE UNCHANGED feed
    BY <1>2, <2>3 DEF FeedsComplete, Due, Opens
  <2> QED
    BY <1>2, <2>1, <2>2, <2>3 DEF Next
<1>3. FeedsComplete /\ UNCHANGED vars => FeedsComplete'
  BY DEF FeedsComplete, Due, Opens, vars
<1> QED
  BY <1>1, <1>2, <1>3, PTL DEF Spec
=============================================================================
