-------------------------------- MODULE SignalProofs --------------------------------
(***************************************************************************)
(* Proofs about the signal engine and the search for a better tuning of    *)
(* it.  The engine and the replay of its signals (SignalEngine,            *)
(* TradeReplay), for any list of patterns, any tuning, any candles and any *)
(* place of a job: the process's tuning is restored, a signal's numbers    *)
(* are on the right side of its entry, a stop never retreats and the two   *)
(* simulators agree.  The search (CandidateSearch), for any metrics, any   *)
(* answer of an LLM and any number of quarters: the two validators never   *)
(* disagree on the same quarters, the review of a result fails closed, and *)
(* every candidate stays in its cluster, its ranges and its number of      *)
(* fields.                                                                 *)
(***************************************************************************)
EXTENDS TradeReplay, CandidateSearch, FiniteSetTheorems, SequenceTheorems, WellFoundedInduction, TLAPS

-----------------------------------------------------------------------------
(* Recursive functions over the places of a list *)

\* A set of naturals that is not empty has a least member.
LEMMA LeastMember ==
  ASSUME NEW S \in SUBSET Nat, S # {}
  PROVE  \E x \in S : \A y \in S : x <= y
<1> DEFINE Less == {ss \in Nat \X Nat : ss[1] < ss[2]}
<1>1. OpToRel(<, Nat) = Less
  BY DEF OpToRel
<1>2. PICK x \in S : \A y \in S : <<y, x>> \notin Less
  <2>1. \E x \in S : \A y \in S : <<y, x>> \notin OpToRel(<, Nat)
    BY NatLessThanWellFounded, WFMin
  <2> QED
    BY <1>1, <2>1
<1>3. ASSUME NEW y \in S PROVE x <= y
  <2>1. y \in Nat /\ x \in Nat /\ <<y, x>> \in Nat \X Nat
    OBVIOUS
  <2>2. ~(<<y, x>>[1] < <<y, x>>[2])
    BY <1>2, <2>1
  <2> QED
    BY <2>1, <2>2
<1> QED
  BY <1>3

\* g follows the recursion up to m.
Follows(g, base, step, m) == g[0] = base /\ \A i \in 1..m : g[i] = step[<<i, g[i - 1]>>]

\* A recursion over a list, each value made from the one before, defines a
\* function.
LEMMA RecursionExists ==
  ASSUME NEW n \in Nat, NEW V, NEW base \in V, NEW step \in [(1..n) \X V -> V]
  PROVE  \E g \in [0..n -> V] : Follows(g, base, step, n)
<1> DEFINE bad == {m \in 0..n : ~\E g \in [0..m -> V] : Follows(g, base, step, m)}
<1>1. SUFFICES ASSUME bad # {} PROVE FALSE
  BY <1>1
<1>2. PICK m \in bad : \A j \in bad : m <= j
  <2>1. bad \in SUBSET Nat
    OBVIOUS
  <2> HIDE DEF bad
  <2> QED
    BY <1>1, <2>1, LeastMember
<1>3. 0 \notin bad
  <2> DEFINE g == [i \in 0..0 |-> base]
  <2>1. g \in [0..0 -> V] /\ Follows(g, base, step, 0)
    BY DEF Follows
  <2> QED
    BY <2>1
<1>4. m \in 0..n /\ m # 0 /\ m - 1 \in 0..n /\ m - 1 \notin bad
  <2>1. m \in 0..n /\ m # 0
    BY <1>2, <1>3
  <2>2. m - 1 \in 0..n /\ ~(m <= m - 1)
    BY <2>1
  <2> HIDE DEF bad
  <2> QED
    BY <1>2, <2>1, <2>2
<1>5. PICK g \in [0..(m - 1) -> V] : Follows(g, base, step, m - 1)
  BY <1>4
<1> DEFINE last == step[<<m, g[m - 1]>>]
           h == [i \in 0..m |-> IF i = m THEN last ELSE g[i]]
<1>6. last \in V
  BY <1>4, <1>5
<1> HIDE DEF last
<1>7. h \in [0..m -> V]
  BY <1>4, <1>5, <1>6
<1>8. h[0] = base
  BY <1>4, <1>5 DEF Follows
<1>9. ASSUME NEW i \in 1..m PROVE h[i] = step[<<i, h[i - 1]>>]
  <2>1. CASE i = m
    BY <1>4, <2>1 DEF last
  <2>2. CASE i # m
    <3>1. h[i] = g[i] /\ h[i - 1] = g[i - 1] /\ i \in 1..(m - 1)
      BY <1>4, <2>2
    <3> QED
      BY <1>5, <3>1 DEF Follows
  <2> QED
    BY <2>1, <2>2
<1>10. Follows(h, base, step, m)
  BY <1>8, <1>9 DEF Follows
<1> QED
  BY <1>2, <1>7, <1>10

-----------------------------------------------------------------------------
(* What a filter keeps *)

\* The recursion of a filter: each place is appended or left out.
LEMMA KeptUnfolds ==
  ASSUME NEW X, NEW s, NEW I, s \in Seq(X)
  PROVE  \E F : /\ Kept(s, I) = F[Len(s)] /\ F[0] = <<>>
                /\ \A i \in 1..Len(s) : F[i] = IF i \in I THEN Append(F[i - 1], s[i]) ELSE F[i - 1]
<1> DEFINE n == Len(s)
           Y == {s[i] : i \in I \cap (1..n)}
           step == [p \in (1..n) \X Seq(Y) |-> IF p[1] \in I THEN Append(p[2], s[p[1]]) ELSE p[2]]
           Fun(f) == f = [i \in 0..Len(s) |-> IF i = 0 THEN <<>> ELSE IF i \in I THEN Append(f[i - 1], s[i]) ELSE f[i - 1]]
<1>1. n \in Nat
  OBVIOUS
<1>2. step \in [(1..n) \X Seq(Y) -> Seq(Y)]
  <2> SUFFICES ASSUME NEW p \in (1..n) \X Seq(Y) PROVE (IF p[1] \in I THEN Append(p[2], s[p[1]]) ELSE p[2]) \in Seq(Y)
    BY Zenon
  <2>1. p[1] \in 1..n /\ p[2] \in Seq(Y)
    OBVIOUS
  <2>2. CASE p[1] \in I
    <3>1. s[p[1]] \in Y
      BY <2>1, <2>2
    <3> HIDE DEF Y
    <3> QED
      BY <2>1, <2>2, <3>1
  <2> QED
    BY <2>1, <2>2
<1>3. <<>> \in Seq(Y)
  OBVIOUS
<1> DEFINE V == Seq(Y)
<1>4. \E g \in [0..n -> V] : Follows(g, <<>>, step, n)
  <2> HIDE DEF step, Y, n
  <2> QED
    BY <1>1, <1>2, <1>3, RecursionExists
<1>5. \E f : Fun(f)
  <2>1. PICK g \in [0..n -> V] : Follows(g, <<>>, step, n)
    BY <1>4
  <2>2. ASSUME NEW i \in 0..n PROVE g[i] = IF i = 0 THEN <<>> ELSE IF i \in I THEN Append(g[i - 1], s[i]) ELSE g[i - 1]
    <3>1. CASE i = 0
      BY <2>1, <3>1 DEF Follows
    <3>2. CASE i # 0
      <4>1. i \in 1..n /\ i - 1 \in 0..n
        BY <1>1, <3>2
      <4>2. g[i - 1] \in V /\ g[i] = step[<<i, g[i - 1]>>]
        BY <2>1, <4>1 DEF Follows
      <4>3. step[<<i, g[i - 1]>>] = IF i \in I THEN Append(g[i - 1], s[i]) ELSE g[i - 1]
        BY <4>1, <4>2
      <4> QED
        BY <3>2, <4>2, <4>3
    <3> QED
      BY <3>1, <3>2
  <2>3. g = [i \in 0..n |-> g[i]]
    BY <2>1
  <2>4. Fun(g)
    BY <2>2, <2>3
  <2> QED
    BY <2>4
<1> DEFINE F == CHOOSE f : Fun(f)
<1>6. Fun(F)
  <2> HIDE DEF Fun
  <2> QED
    BY <1>5
<1>7. Kept(s, I) = F[n]
  BY DEF Kept
<1> HIDE DEF F, Fun
<1>8. ASSUME NEW i \in 0..n PROVE F[i] = IF i = 0 THEN <<>> ELSE IF i \in I THEN Append(F[i - 1], s[i]) ELSE F[i - 1]
  BY <1>6 DEF Fun
<1>9. F[0] = <<>>
  BY <1>1, <1>8
<1>10. \A i \in 1..n : F[i] = IF i \in I THEN Append(F[i - 1], s[i]) ELSE F[i - 1]
  BY <1>1, <1>8
<1> QED
  BY <1>7, <1>9, <1>10

\* A filtered list holds members of the list at the places that were kept, at
\* most as many as the list, and some if a place was kept.
LEMMA KeptIs ==
  ASSUME NEW X, NEW s \in Seq(X), NEW I
  PROVE  /\ Kept(s, I) \in Seq({s[i] : i \in I \cap (1..Len(s))})
         /\ Len(Kept(s, I)) <= Len(s)
         /\ I \cap (1..Len(s)) # {} => Len(Kept(s, I)) > 0
<1> DEFINE n == Len(s)
           Y == {s[i] : i \in I \cap (1..n)}
<1>1. n \in Nat
  OBVIOUS
<1>6. PICK F : /\ Kept(s, I) = F[n] /\ F[0] = <<>>
               /\ \A i \in 1..n : F[i] = IF i \in I THEN Append(F[i - 1], s[i]) ELSE F[i - 1]
  BY KeptUnfolds
<1>7. Kept(s, I) = F[n]
  BY <1>6
<1>8. ASSUME NEW i \in 0..n PROVE F[i] = IF i = 0 THEN <<>> ELSE IF i \in I THEN Append(F[i - 1], s[i]) ELSE F[i - 1]
  BY <1>1, <1>6
<1> DEFINE Claim(i) == F[i] \in Seq(Y) /\ Len(F[i]) <= i /\ (I \cap (1..i) # {} => Len(F[i]) > 0)
           bad == {i \in 0..n : ~Claim(i)}
<1>9. bad = {}
  <2> SUFFICES ASSUME bad # {} PROVE FALSE
    OBVIOUS
  <2>1. PICK m \in bad : \A j \in bad : m <= j
    <3>1. bad \in SUBSET Nat
      BY <1>1
    <3> HIDE DEF bad
    <3> QED
      BY <3>1, LeastMember
  <2>2. m # 0
    <3>1. SUFFICES Claim(0)
      BY <2>1
    <3>2. F[0] = <<>>
      BY <1>1, <1>8
    <3> QED
      BY <3>2
  <2>3. m \in 1..n /\ m - 1 \in 0..n /\ Claim(m - 1)
    BY <1>1, <2>1, <2>2
  <2>4. F[m] = IF m \in I THEN Append(F[m - 1], s[m]) ELSE F[m - 1]
    BY <1>8, <2>2, <2>3
  <2>5. CASE m \in I
    <3>1. s[m] \in Y
      BY <2>3, <2>5
    <3> HIDE DEF Y
    <3>2. F[m] \in Seq(Y) /\ Len(F[m]) = Len(F[m - 1]) + 1 /\ Len(F[m - 1]) \in Nat
      BY <2>3, <2>4, <2>5, <3>1
    <3>3. Claim(m)
      BY <2>3, <3>2
    <3> QED
      BY <2>1, <3>3
  <2>6. CASE m \notin I
    <3>1. F[m] = F[m - 1]
      BY <2>4, <2>6
    <3>2. I \cap (1..m) = I \cap (1..(m - 1))
      BY <2>3, <2>6
    <3>3. Claim(m)
      <4> HIDE DEF Y
      <4>1. Len(F[m]) \in Nat /\ Len(F[m]) <= m - 1 /\ F[m] \in Seq(Y)
        BY <2>3, <3>1
      <4> QED
        BY <2>3, <3>1, <3>2, <4>1
    <3> QED
      BY <2>1, <3>3
  <2> QED
    BY <2>5, <2>6
<1>10. Claim(n)
  BY <1>1, <1>9
<1> QED
  BY <1>7, <1>10

-----------------------------------------------------------------------------
(* The arithmetic of a signal *)

LEMMA MinTwo ==
  ASSUME NEW a \in Int, NEW b \in Int
  PROVE  Min({a, b}) = IF a <= b THEN a ELSE b
<1> DEFINE m == IF a <= b THEN a ELSE b
<1>1. m \in {a, b} /\ \A y \in {a, b} : m <= y
  OBVIOUS
<1>2. \A x \in {a, b} : (\A y \in {a, b} : x <= y) => x = m
  OBVIOUS
<1> HIDE DEF m
<1>3. Min({a, b}) = m
  BY <1>1, <1>2 DEF Min
<1> QED
  BY <1>3 DEF m

LEMMA MaxTwo ==
  ASSUME NEW a \in Int, NEW b \in Int
  PROVE  Max({a, b}) = IF a >= b THEN a ELSE b
<1> DEFINE m == IF a >= b THEN a ELSE b
<1>1. m \in {a, b} /\ \A y \in {a, b} : m >= y
  OBVIOUS
<1>2. \A x \in {a, b} : (\A y \in {a, b} : x >= y) => x = m
  OBVIOUS
<1> HIDE DEF m
<1>3. Max({a, b}) = m
  BY <1>1, <1>2 DEF Max
<1> QED
  BY <1>3 DEF m

LEMMA ClampIs ==
  ASSUME NEW lo \in Int, NEW hi \in Int, NEW x \in Int, lo <= hi
  PROVE  /\ Clamp(lo, hi, x) \in lo..hi
         /\ x <= hi => Clamp(lo, hi, x) = IF x >= lo THEN x ELSE lo
<1>1. Min({hi, x}) = IF hi <= x THEN hi ELSE x
  BY MinTwo
<1>2. Min({hi, x}) \in Int
  BY <1>1
<1>3. Max({lo, Min({hi, x})}) = IF lo >= Min({hi, x}) THEN lo ELSE Min({hi, x})
  BY <1>2, MaxTwo
<1> QED
  BY <1>1, <1>3 DEF Clamp

\* A candidate whose prices could be read.
Cand(c) == c.cmin \in Nat \ {0} /\ c.cmax \in Nat \ {0} /\ c.x \in Int /\ c.a \in Int

LEMMA ZoneIs ==
  ASSUME NEW c, Cand(c)
  PROVE  /\ prz_low(c) \in Nat \ {0} /\ prz_high(c) \in Nat \ {0} /\ prz_low(c) <= prz_high(c)
         /\ prz_mid(c) \in Int
<1>1. c.cmin \in Int /\ c.cmax \in Int
  BY DEF Cand
<1>2. /\ prz_low(c) = IF c.cmin <= c.cmax THEN c.cmin ELSE c.cmax
      /\ prz_high(c) = IF c.cmin >= c.cmax THEN c.cmin ELSE c.cmax
  BY <1>1, MinTwo, MaxTwo DEF prz_low, prz_high
<1>3. prz_low(c) \in Nat \ {0} /\ prz_high(c) \in Nat \ {0} /\ prz_low(c) <= prz_high(c)
  BY <1>2 DEF Cand
<1> QED
  BY <1>3 DEF prz_mid

LEMMA SignIs == ASSUME NEW c PROVE Sign(c) = IF c.bullish THEN 1 ELSE -1
BY DEF Sign

Names == {"conservative", "standard", "aggressive"}
Edge(c) == IF c.bullish THEN prz_low(c) ELSE prz_high(c)
\* The entry is in the zone or before it.
EntryOutside(c, entry) == entry \in Int /\ Sign(c) * Edge(c) <= Sign(c) * entry
\* The stop is behind the entry, and at most two ATRs from its invalidation.
StopBehind(r, c, entry, atr) ==
    /\ r.stop \in Int /\ r.invalidation \in Int /\ Sign(c) * r.stop < Sign(c) * entry
    /\ Abs(r.stop - r.invalidation) * 1000 <= MAX_STOP_BUFFER_MULT * atr

\* Whatever the level, the point of invalidation is not beyond the entry.
LEMMA AnchorIs ==
  ASSUME NEW t, NEW c, NEW level, NEW swing, NEW entry, Cand(c), EntryOutside(c, entry)
  PROVE  /\ Anchor(t, c, level, swing, entry) \in Int
         /\ Sign(c) * Anchor(t, c, level, swing, entry) <= Sign(c) * entry
<1> DEFINE s == Sign(c)
           edge == Edge(c)
           outer == s * Min({s * c.x, s * edge})
           base == CASE level = "conservative" -> edge
                     [] level = "aggressive" -> outer
                     [] OTHER -> IF c.name \in t.extended THEN edge ELSE outer
           near == swing \in Nat \ {0} /\ entry # None /\ s * swing < s * entry /\ s * swing > s * base
<1> USE DEF EntryOutside
<1>1. Anchor(t, c, level, swing, entry) = IF near THEN swing ELSE base
  BY DEF Anchor, Edge
<1>2. edge \in Int /\ (s = 1 \/ s = -1) /\ c.x \in Int
  BY ZoneIs, SignIs DEF Edge, Cand
<1>3. Min({s * c.x, s * edge}) = IF s * c.x <= s * edge THEN s * c.x ELSE s * edge
  <2>1. s * c.x \in Int /\ s * edge \in Int
    BY <1>2
  <2> HIDE DEF s, edge
  <2> QED
    BY <2>1, MinTwo
<1>4. outer \in Int /\ s * outer <= s * edge
  <2> HIDE DEF s, edge
  <2>1. Min({s * c.x, s * edge}) \in Int /\ Min({s * c.x, s * edge}) <= s * edge
    BY <1>2, <1>3
  <2>2. CASE s = 1
    BY <1>2, <2>1, <2>2
  <2>3. CASE s = -1
    BY <1>2, <2>1, <2>3
  <2> QED
    BY <1>2, <2>2, <2>3
<1>5. s * edge <= s * entry
  OBVIOUS
<1> HIDE DEF s, edge, outer
<1>6. base \in {edge, outer}
  OBVIOUS
<1>7. base \in Int /\ s * base <= s * entry
  <2>1. s * outer <= s * entry /\ s * outer \in Int
    BY <1>2, <1>4, <1>5
  <2> HIDE DEF base
  <2> QED
    BY <1>2, <1>4, <1>5, <1>6, <2>1
<1> HIDE DEF base
<1>8. CASE near
  BY <1>1, <1>2, <1>8 DEF s
<1>9. CASE ~near
  <2> HIDE DEF near
  <2> QED
    BY <1>1, <1>7, <1>9 DEF s
<1> QED
  BY <1>8, <1>9

\* The multiplier of a stop is positive and at most two ATRs.
LEMMA StopMultIs ==
  ASSUME NEW t, NEW level, NEW hatch, NEW regime, NEW g, level \in Names, hatch \in {None} \cup (Nat \ {0}),
         Numeric(t)
  PROVE  StopMult(t, level, 1000, regime, g, hatch) \in 1..2000
<1> DEFINE base == IF hatch = None THEN t.atr_stop_buffer[level] ELSE hatch
           factor == RegimeMult(regime) * GradeMult(g)
<1>1. base \in Nat \ {0}
  BY DEF Numeric, Names
<1>2. factor \in {100, 130, 150, 195, 225}
  <2>1. RegimeMult(regime) \in {10, 15}
    BY DEF RegimeMult
  <2>2. GradeMult(g) \in {10, 13, 15}
    BY DEF GradeMult
  <2>3. CASE RegimeMult(regime) = 10
    BY <2>2, <2>3
  <2>4. CASE RegimeMult(regime) = 15
    BY <2>2, <2>4
  <2> QED
    BY <2>1, <2>3, <2>4
<1>3. Max({1000, 1000}) = 1000
  BY MaxTwo
<1>4. StopMult(t, level, 1000, regime, g, hatch) = Min({2000, Part(Part(base, 1000, 1000), factor, 100)})
  BY <1>3 DEF StopMult, MAX_STOP_BUFFER_MULT
<1> HIDE DEF base, factor
<1>5. Part(base, 1000, 1000) = base
  BY <1>1 DEF Part
<1> DEFINE q == Part(base, factor, 100)
<1>6. q \in Int /\ q >= 1
  BY <1>1, <1>2 DEF Part
<1>7. StopMult(t, level, 1000, regime, g, hatch) = Min({2000, q})
  BY <1>4, <1>5
<1> HIDE DEF q
<1>8. Min({2000, q}) = IF 2000 <= q THEN 2000 ELSE q
  BY <1>6, MinTwo
<1> QED
  BY <1>6, <1>7, <1>8

\* Outside the high-quant regime and without the hatch, a grade that may be
\* traded leaves the multiplier as it was.
LEMMA StopMultSame ==
  ASSUME NEW t, NEW level, NEW regime, NEW g, g \in {"A", "B"}, regime # "high_quant"
  PROVE  StopMult(t, level, 1000, regime, g, None) = StopMult(t, level, 1000, "normal", None, None)
<1>1. RegimeMult(regime) = 10 /\ RegimeMult("normal") = 10
  BY DEF RegimeMult
<1>2. GradeMult(g) = 10 /\ GradeMult(None) = 10
  BY NoneAssumption DEF GradeMult, Reference
<1> QED
  BY <1>1, <1>2 DEF StopMult

\* A stop lies behind its point of invalidation, by two ATRs at most.
LEMMA StopIs ==
  ASSUME NEW t, NEW c, NEW level, NEW swing, NEW entry, NEW atr, NEW mult, atr \in Nat \ {0},
         mult \in 1..2000, Cand(c), EntryOutside(c, entry)
  PROVE  StopBehind(compute_stop(t, c, atr, level, swing, entry, mult), c, entry, atr)
<1> DEFINE anchor == Anchor(t, c, level, swing, entry)
           p == atr * mult
           buffer == (p + 999) \div 1000
           r == compute_stop(t, c, atr, level, swing, entry, mult)
<1>1. r.stop = anchor - Sign(c) * buffer /\ r.invalidation = anchor
  BY DEF compute_stop
<1>2. anchor \in Int /\ Sign(c) * anchor <= Sign(c) * entry /\ entry \in Int
  BY AnchorIs DEF EntryOutside
<1>3. p \in Int /\ p >= 1 /\ p <= 2000 * atr
  <2>1. p \in Int
    OBVIOUS
  <2>2. p >= 1
    OBVIOUS
  <2>3. p <= 2000 * atr
    <3>1. (2000 - mult) * atr >= 0
      OBVIOUS
    <3> QED
      BY <3>1
  <2> QED
    BY <2>1, <2>2, <2>3
<1> HIDE DEF p
<1>4. buffer \in Int /\ buffer >= 1 /\ buffer * 1000 <= 2000 * atr
  BY <1>3
<1> HIDE DEF buffer, anchor, r
<1>5. CASE c.bullish
  <2>1. Sign(c) = 1
    BY <1>5, SignIs
  <2>2. r.stop = anchor - buffer /\ r.stop \in Int /\ r.stop - r.invalidation = -buffer
    BY <1>1, <1>2, <1>4, <2>1
  <2>3. Abs(r.stop - r.invalidation) = buffer
    BY <1>4, <2>2 DEF Abs
  <2> QED
    BY <1>1, <1>2, <1>4, <2>1, <2>2, <2>3 DEF MAX_STOP_BUFFER_MULT, r, StopBehind
<1>6. CASE ~c.bullish
  <2>1. Sign(c) = -1
    BY <1>6, SignIs
  <2>2. r.stop = anchor + buffer /\ r.stop \in Int /\ r.stop - r.invalidation = buffer
    BY <1>1, <1>2, <1>4, <2>1
  <2>3. Abs(r.stop - r.invalidation) = buffer
    BY <1>4, <2>2 DEF Abs
  <2> QED
    BY <1>1, <1>2, <1>4, <2>1, <2>2, <2>3 DEF MAX_STOP_BUFFER_MULT, r, StopBehind
<1> QED
  BY <1>5, <1>6

-----------------------------------------------------------------------------
(* One candidate *)

\* The soft knee of the trap score is never reached: the score starts at 50 and
\* only falls.
LEMMA TrapIsSoft ==
  ASSUME NEW bars, NEW c
  PROVE  trap_stop_multiplier(quant_trap_risk(bars, c).score) = 1000
<1> DEFINE risk == quant_trap_risk(bars, c)
<1>1. \E p \in Nat : risk.score \in {50, Clamp(10, 90, 50 - p)}
  <2>1. \E f, h, k : risk.score \in {50, Clamp(10, 90, 50 - TrapPenalty(f, h, k))}
    BY DEF quant_trap_risk
  <2>2. PICK f, h, k : risk.score \in {50, Clamp(10, 90, 50 - TrapPenalty(f, h, k))}
    BY <2>1
  <2> HIDE DEF risk
  <2>3. TrapPenalty(f, h, k) \in Nat
    BY DEF TrapPenalty
  <2> QED
    BY <2>2, <2>3
<1>2. PICK p \in Nat : risk.score \in {50, Clamp(10, 90, 50 - p)}
  BY <1>1
<1> DEFINE d == 50 - p
<1>3. Clamp(10, 90, d) \in Int /\ Clamp(10, 90, d) < 60
  <2>1. d \in Int /\ d <= 50 /\ d <= 90
    OBVIOUS
  <2> HIDE DEF d
  <2>2. Clamp(10, 90, d) = IF d >= 10 THEN d ELSE 10
    BY <2>1, ClampIs
  <2> QED
    BY <2>1, <2>2
<1>4. risk.score \in Int /\ risk.score < 60
  BY <1>2, <1>3
<1> HIDE DEF risk
<1>5. trap_stop_multiplier(risk.score) = 1000
  BY <1>4 DEF trap_stop_multiplier
<1> QED
  BY <1>5 DEF risk

LEMMA RatioIs ==
  ASSUME NEW t, NEW entry, NEW stop, NEW target, entry \in Nat, stop \in Int, target \in Int, Numeric(t)
  PROVE  net_rr(t, entry, stop, target) \in Int \cup {None}
<1> DEFINE cost == Part(entry, t.cost, 1000)
           risk == Abs(entry - stop)
           reward == Abs(target - entry) - cost
<1>1. cost \in Nat
  <2>1. t.cost \in Nat /\ entry * t.cost \in Nat
    BY DEF Numeric
  <2> QED
    BY <2>1 DEF Part
<1>2. risk \in Nat /\ reward \in Int
  BY <1>1 DEF Abs
<1>3. net_rr(t, entry, stop, target) = IF risk = 0 \/ reward <= 0 THEN None
                                       ELSE (20000 * reward + risk + cost) \div (2 * (risk + cost))
  BY DEF net_rr
<1> HIDE DEF cost, risk, reward
<1>4. ASSUME risk # 0 PROVE (20000 * reward + risk + cost) \div (2 * (risk + cost)) \in Int
  <2>1. 20000 * reward + risk + cost \in Int /\ 2 * (risk + cost) \in Nat \ {0}
    BY <1>1, <1>2, <1>4
  <2> QED
    BY <2>1
<1> QED
  BY <1>3, <1>4

LEMMA TargetsAre ==
  ASSUME NEW t, NEW c, NEW entry, entry \in Int, Numeric(t), Cand(c)
  PROVE  /\ \A i \in 1..3 : compute_targets(t, c, entry)[i] \in Int
         /\ compute_targets(t, c, entry) \in [1..3 -> Int]
<1> SUFFICES ASSUME NEW i \in 1..3
             PROVE  entry + Sign(c) * Part(Abs(a_price(c) - entry), t.fib[i], 1000) \in Int
  BY DEF compute_targets
<1>1. Abs(a_price(c) - entry) \in Int /\ t.fib[i] \in Int /\ Sign(c) \in Int
  BY SignIs DEF Cand, Numeric, a_price, Abs
<1>2. Part(Abs(a_price(c) - entry), t.fib[i], 1000) \in Int
  BY <1>1 DEF Part
<1> QED
  BY <1>1, <1>2

\* A grade that may be traded has passed the gates.
LEMMA GradePasses ==
  ASSUME NEW points, NEW rr1, NEW rr2, NEW aligned, NEW counter, NEW a_min, NEW wide, NEW g, rr1 \in Int \cup {None},
         rr2 \in Int \cup {None},
         (g = grade(points, rr1, rr2, aligned, counter, a_min, wide) \/ g = backtest_grade(points, rr1, rr2, counter, wide)),
         g # None
  PROVE  /\ g \in {"A", "B", Reference}
         /\ g # Reference => rr1 # None /\ rr2 # None /\ rr1 >= 10000 /\ rr2 >= 15000 /\ ~wide
<1>1. g \in {"A", "B", Reference, None}
  BY DEF grade, backtest_grade
<1>2. ASSUME g # Reference PROVE rr1 # None /\ rr2 # None /\ ~(rr1 < 10000) /\ ~(rr2 < 15000) /\ ~wide
  BY <1>2 DEF grade, backtest_grade
<1>3. ASSUME g # Reference PROVE rr1 \in Int /\ rr2 \in Int
  BY <1>2, <1>3
<1> QED
  BY <1>1, <1>2, <1>3

LEMMA ZoneScoreIs ==
  ASSUME NEW rsi, NEW bullish, NEW rising
  PROVE  rsi_zone_score(rsi, bullish, rising) \in Int
<1> DEFINE r == IF bullish THEN rsi ELSE 100 - rsi
           zone == CASE r <= 30 -> 7 [] r \in 31..40 -> 5 [] r \in 41..50 -> 2 [] OTHER -> 0
<1>1. zone \in Int
  OBVIOUS
<1>2. rsi_zone_score(rsi, bullish, rising)
        = zone + (IF zone > 0 /\ (rising <=> bullish) THEN 3 ELSE 0) - (IF r >= 60 THEN 3 ELSE 0)
  BY DEF rsi_zone_score
<1> HIDE DEF zone
<1> QED
  BY <1>1, <1>2

LEMMA DivergenceIs ==
  ASSUME NEW divs, NEW bullish, NEW plus \in Int
  PROVE  Divergence(divs, bullish, plus) \in Int
BY DEF Divergence

LEMMA ClampInt ==
  ASSUME NEW lo \in Int, NEW hi \in Int, NEW x \in Int
  PROVE  Clamp(lo, hi, x) \in Int
<1>1. Min({hi, x}) \in Int
  BY MinTwo
<1>2. Max({lo, Min({hi, x})}) \in Int
  BY <1>1, MaxTwo
<1> QED
  BY <1>2 DEF Clamp

\* The score of a candidate is a number, whatever the features are.
LEMMA ConfluenceIs ==
  ASSUME NEW t, NEW bars, NEW c, NEW ctx, Numeric(t), ctx.pa_scale \in Int
  PROVE  confluence_score(t, bars, c, ctx) \in Int
<1> DEFINE w     == t.confluence_weights
           last  == LastBar(bars)
           ma    == Tail_(bars, t.volume_ma_window)
           surge == 2 * last.v * Len(ma) >= 3 * SumFunction([i \in DOMAIN ma |-> ma[i].v])
           pa    == IF ~is_reversal_candle(last, c.bullish) THEN 0 ELSE IF surge THEN 25 ELSE 15
           own   == IF c.bullish THEN "bullish" ELSE "bearish"
           htf   == CASE ctx.trend = own -> 1000 * w.htf_trend
                      [] ctx.trend = "unknown" -> 400 * w.htf_trend
                      [] OTHER -> 0
           rsi   == Divergence(ctx.divs.rsi, c.bullish, 8) + rsi_zone_score(ctx.rsi, c.bullish, ctx.rising)
           zone  == Tail_(bars, t.swing_lookback)
           swing == IF c.bullish THEN Min({b.l : b \in Range(zone)}) ELSE Max({b.h : b \in Range(zone)})
           near  == Abs(prz_mid(c) - swing) * 1000 <= t.atr_prz_sweep * ctx.atr
           macd  == Divergence(ctx.divs.macd, c.bullish, 10)
           regular == Cardinality({k \in {"rsi", "macd"} : <<"Regular", c.bullish>> \in ctx.divs[k]})
           s     == Sign(c)
           t1 == Part(40 * pa * w.price_action, ctx.pa_scale, 1000)
           t2 == Clamp(-1000 * w.rsi, 1000 * w.rsi, Part(1000 * rsi, w.rsi, 15))
           t3 == IF near THEN 1000 * w.structure ELSE 0
           t4 == Clamp(-1000 * w.macd, 1000 * w.macd, 100 * macd * w.macd)
           t5 == IF s * ctx.macd.line < 0 THEN 8000 ELSE -4000
           t6 == CASE regular = 2 -> 8000 [] regular = 1 -> 3000 [] OTHER -> 0
           t7 == IF s * ctx.macd.hist > 0 /\ s * ctx.macd.hist > s * ctx.macd.prev THEN 5000 ELSE 0
<1>1. confluence_score(t, bars, c, ctx) = t1 + htf + t2 + t3 + t4 + t5 + t6 + t7 + 500 * w.funding
  BY DEF confluence_score
<1>2. /\ w.price_action \in Int /\ w.htf_trend \in Int /\ w.rsi \in Int /\ w.structure \in Int /\ w.macd \in Int
      /\ w.funding \in Int
  BY DEF Numeric, Weights
<1>3. rsi \in Int /\ macd \in Int
  BY ZoneScoreIs, DivergenceIs
<1> HIDE DEF last, ma, surge, own, rsi, zone, swing, near, macd, regular, s, w
<1>4. pa \in Int /\ htf \in Int /\ t3 \in Int /\ t5 \in Int /\ t6 \in Int /\ t7 \in Int
  BY <1>2
<1> HIDE DEF pa, htf, t3, t5, t6, t7
<1>5. t1 \in Int
  <2>1. 40 * pa * w.price_action \in Int
    BY <1>2, <1>4
  <2> QED
    BY <2>1 DEF Part
<1>6. t2 \in Int
  <2> DEFINE x == Part(1000 * rsi, w.rsi, 15)
             lo == -1000 * w.rsi
             hi == 1000 * w.rsi
  <2>1. x \in Int /\ lo \in Int /\ hi \in Int
    BY <1>2, <1>3 DEF Part
  <2> HIDE DEF x, lo, hi
  <2>2. Clamp(lo, hi, x) \in Int
    BY <2>1, ClampInt
  <2> QED
    BY <2>2 DEF x, lo, hi
<1>7. t4 \in Int
  <2> DEFINE x == 100 * macd * w.macd
             lo == -1000 * w.macd
             hi == 1000 * w.macd
  <2>1. x \in Int /\ lo \in Int /\ hi \in Int
    BY <1>2, <1>3
  <2> HIDE DEF x, lo, hi
  <2>2. Clamp(lo, hi, x) \in Int
    BY <2>1, ClampInt
  <2> QED
    BY <2>2 DEF x, lo, hi
<1> HIDE DEF t1, t2, t4
<1> QED
  BY <1>1, <1>2, <1>4, <1>5, <1>6, <1>7

\* What a scored signal is: graded, executable and within its gates.
SigShape(s) ==
    s = [grade |-> s.grade, bullish |-> s.bullish, name |-> s.name, formed |-> s.formed, status |-> s.status,
         entry |-> s.entry, stop |-> s.stop, invalidation |-> s.invalidation, tps |-> s.tps,
         rr1 |-> s.rr1, rr2 |-> s.rr2, score |-> s.score, regime |-> s.regime, atr |-> s.atr,
         tradable |-> s.tradable, stability |-> s.stability, level |-> s.level, hatch |-> s.hatch,
         wide |-> s.wide, price |-> s.price, size |-> s.size, c |-> s.c]
SigGraded(s) ==
    /\ s.grade \in {"A", "B", Reference} /\ s.tradable = (s.grade # Reference) /\ s.score \in Int
    /\ s.stability # None => s.stability > 20
SigPrices(s) ==
    /\ s.entry \in Nat /\ s.price \in Nat /\ s.stop \in Int /\ s.invalidation \in Int /\ s.atr \in Nat \ {0}
    /\ \A i \in 1..3 : s.tps[i] \in Int
SigOrdered(s) ==
    /\ direction_invariant_ok(s, s.entry, s.stop, s.tps)
    /\ Abs(s.stop - s.invalidation) * 1000 <= MAX_STOP_BUFFER_MULT * s.atr
SigGated(s) ==
    (s.tradable /\ s.regime # "high_quant" /\ s.hatch = None) => s.rr1 >= 10000 /\ s.rr2 >= 15000 /\ ~s.wide
GoodSig(s) == SigShape(s) /\ SigGraded(s) /\ SigPrices(s) /\ SigOrdered(s) /\ SigGated(s)

\* A zone that is not merely approached has the price inside it.
LEMMA EntryIs ==
  ASSUME NEW c, NEW bar, NEW ctx, Cand(c), ctx.price \in Nat, bar.c = ctx.price
  PROVE  entry_price(ctx, bar, c) \in Nat /\ EntryOutside(c, entry_price(ctx, bar, c))
<1> DEFINE price == ctx.price
           st == status(ctx, bar, c)
           entry == entry_price(ctx, bar, c)
<1>1. /\ prz_low(c) \in Nat \ {0} /\ prz_high(c) \in Nat \ {0} /\ prz_low(c) <= prz_high(c)
  BY ZoneIs
<1>2. st # "approaching" => prz_low(c) <= price /\ price <= prz_high(c)
  <2>1. is_swept(bar, c) => price \in prz_low(c)..prz_high(c)
    BY DEF is_swept
  <2>2. st # "approaching" => prz_state(price, c, is_swept(bar, c)) # "approaching"
    BY DEF status
  <2>3. prz_state(price, c, is_swept(bar, c)) # "approaching" =>
          is_swept(bar, c) \/ (prz_low(c) <= price /\ price <= prz_high(c))
    BY DEF prz_state
  <2> QED
    BY <1>1, <2>1, <2>2, <2>3
<1>3. entry \in Nat /\ prz_low(c) <= entry /\ entry <= prz_high(c)
  <2>1. CASE st # "approaching"
    BY <1>2, <2>1 DEF entry_price
  <2>2. CASE st = "approaching"
    BY <1>1, <2>2 DEF entry_price
  <2> QED
    BY <2>1, <2>2
<1> HIDE DEF entry
<1>4. CASE c.bullish
  <2>1. Sign(c) = 1 /\ Edge(c) = prz_low(c)
    BY <1>4, SignIs DEF Edge
  <2> QED
    BY <1>1, <1>3, <2>1 DEF entry, EntryOutside
<1>5. CASE ~c.bullish
  <2>1. Sign(c) = -1 /\ Edge(c) = prz_high(c)
    BY <1>5, SignIs DEF Edge
  <2> QED
    BY <1>1, <1>3, <2>1 DEF entry, EntryOutside
<1> QED
  BY <1>4, <1>5

\* A context made from these bars.
ContextOf(ctx, bars) ==
    ctx.atr \in Nat \ {0} /\ ctx.pa_scale \in Int /\ ctx.price \in Nat /\ LastBar(bars).c = ctx.price

\* A stop is where StopIs says, with any multiplier of at most two ATRs.
LEMMA StopAtIs ==
  ASSUME NEW t, NEW c, NEW ctx, NEW bars, NEW level, NEW mult, mult \in 1..2000, Cand(c),
         ContextOf(ctx, bars)
  PROVE  StopBehind(stop_at(t, ctx, bars, c, level, mult), c, entry_price(ctx, LastBar(bars), c), ctx.atr)
<1>1. EntryOutside(c, entry_price(ctx, LastBar(bars), c)) /\ ctx.atr \in Nat \ {0}
  BY EntryIs DEF ContextOf
<1> QED
  BY <1>1, StopIs DEF stop_at

\* Scoring a candidate rejects it, raises, or gives a signal that is executable
\* at its final stop and keeps the gates it was graded by.
LEMMA ScoreIs ==
  ASSUME NEW t, NEW ctx, NEW bars, NEW c, NEW level, NEW hatch, NEW patched, level \in Names,
         hatch \in {None} \cup (Nat \ {0}), Numeric(t), ContextOf(ctx, bars), Cand(c)
  PROVE  LET r == score_candidate(t, ctx, bars, c, level, hatch, patched)
         IN  r = None \/ r = Raised \/ (GoodSig(r) /\ r.stability = None)
<1> DEFINE entry  == entry_price(ctx, LastBar(bars), c)
           mult1  == StopMult(t, level, 1000, "normal", None, None)
           first  == stop_at(t, ctx, bars, c, level, mult1)
           tps    == compute_targets(t, c, entry)
           g      == graded(t, ctx, bars, c, first.stop, patched)
           mult2  == Widening(t, ctx, bars, c, level, hatch, g)
           final  == stop_at(t, ctx, bars, c, level, mult2)
           sc     == total_score(t, ctx, bars, c)
           rr(stop, i) == rr_at(t, ctx, bars, c, stop, i)
           or0(r) == IF r = None THEN 0 ELSE r
           sig == [grade |-> g, bullish |-> c.bullish, name |-> c.name, formed |-> c.formed,
                   status |-> status(ctx, LastBar(bars), c), entry |-> entry, stop |-> final.stop,
                   invalidation |-> final.invalidation, tps |-> tps,
                   rr1 |-> or0(rr(final.stop, 1)), rr2 |-> or0(rr(final.stop, 2)), score |-> sc \div 1000,
                   regime |-> ctx.regime, atr |-> ctx.atr, tradable |-> g # Reference, stability |-> None,
                   level |-> level, hatch |-> hatch, wide |-> is_wide(c), price |-> ctx.price, size |-> 1000, c |-> c]
           res == score_candidate(t, ctx, bars, c, level, hatch, patched)
<1>1. \/ res = None \/ res = Raised
      \/ g # None /\ direction_invariant_ok(c, entry, first.stop, tps) /\ res = sig
  BY DEF score_candidate
<1> HIDE DEF res
<1> SUFFICES ASSUME res # None, res # Raised PROVE GoodSig(res) /\ res.stability = None
  BY DEF res
<1> USE DEF ContextOf
<1>2. entry \in Nat
  BY EntryIs
<1>3. mult1 \in 1..2000
  BY StopMultIs
<1>4. mult2 = StopMult(t, level, 1000, ctx.regime, g, hatch)
  BY TrapIsSoft DEF Widening
<1>5. \A i \in 1..3 : tps[i] \in Int
  BY <1>2, TargetsAre
<1>6. sc \in Int
  <2> DEFINE x == confluence_score(t, bars, c, ctx) + 1000 * pattern_base_score(t, c.name)
  <2>1. pattern_base_score(t, c.name) \in Int
    BY DEF pattern_base_score, Numeric
  <2>2. confluence_score(t, bars, c, ctx) \in Int
    BY ConfluenceIs
  <2>3. x \in Int
    BY <2>1, <2>2
  <2> HIDE DEF x
  <2>4. Clamp(0, 100000, x) \in Int
    BY <2>3, ClampInt
  <2> QED
    BY <2>4 DEF x, total_score
<1> HIDE DEF mult1, g, mult2, sc, ContextOf
<1>7. mult2 \in 1..2000
  BY <1>4, StopMultIs
<1>8. first.stop \in Int
  <2>1. StopBehind(first, c, entry, ctx.atr)
    BY <1>3, StopAtIs
  <2> QED
    BY <2>1 DEF StopBehind
<1>9. /\ final.stop \in Int /\ final.invalidation \in Int /\ Sign(c) * final.stop < Sign(c) * entry
      /\ Abs(final.stop - final.invalidation) * 1000 <= MAX_STOP_BUFFER_MULT * ctx.atr
  <2>1. StopBehind(final, c, entry, ctx.atr)
    BY <1>7, StopAtIs
  <2> QED
    BY <2>1 DEF StopBehind
<1>10. ctx.regime # "high_quant" /\ hatch = None /\ g \in {"A", "B"} => final = first
  <2> SUFFICES ASSUME ctx.regime # "high_quant", hatch = None, g \in {"A", "B"} PROVE mult2 = mult1
    OBVIOUS
  <2>1. mult2 = StopMult(t, level, 1000, "normal", None, None)
    BY <1>4, StopMultSame
  <2> QED
    BY <2>1 DEF mult1
<1> DEFINE r1 == rr(first.stop, 1)
           r2 == rr(first.stop, 2)
           own == IF c.bullish THEN "bullish" ELSE "bearish"
           counter == ctx.trend \notin {own, "unknown"}
           aligned == ctx.trend = own
           wide == is_wide(c)
<1>11. r1 \in Int \cup {None} /\ r2 \in Int \cup {None}
  <2>1. r1 = net_rr(t, entry, first.stop, tps[1]) /\ r2 = net_rr(t, entry, first.stop, tps[2])
    BY DEF rr_at
  <2>2. tps[1] \in Int /\ tps[2] \in Int
    BY <1>5
  <2> HIDE DEF first, tps, entry, r1, r2
  <2> QED
    BY <1>2, <1>8, <2>1, <2>2, RatioIs
<1>12. \/ g = backtest_grade(sc, r1, r2, counter, wide)
       \/ g = grade(sc, r1, r2, aligned, counter, ctx.a_min, wide)
  BY DEF graded, g, sc
<1> HIDE DEF r1, r2, counter, aligned
<1>13. g # None /\ direction_invariant_ok(c, entry, first.stop, tps) /\ res = sig
  BY <1>1
<1>14. /\ g \in {"A", "B", Reference}
       /\ g # Reference => r1 # None /\ r2 # None /\ r1 >= 10000 /\ r2 >= 15000 /\ ~wide
  <2>1. g # None
    BY <1>13
  <2> HIDE DEF wide
  <2> QED
    BY <1>11, <1>12, <2>1, GradePasses
<1> HIDE DEF first, final, entry, tps
<1>15. /\ sig.grade = g /\ sig.bullish = c.bullish /\ sig.entry = entry /\ sig.stop = final.stop
       /\ sig.invalidation = final.invalidation /\ sig.tps = tps /\ sig.rr1 = or0(rr(final.stop, 1))
       /\ sig.rr2 = or0(rr(final.stop, 2)) /\ sig.score = sc \div 1000 /\ sig.regime = ctx.regime
       /\ sig.atr = ctx.atr /\ sig.tradable = (g # Reference) /\ sig.stability = None /\ sig.hatch = hatch
       /\ sig.wide = wide /\ sig.price = ctx.price
  OBVIOUS
<1>16. SigShape(sig)
  BY DEF SigShape
<1> HIDE DEF sig, or0, rr
<1>17. SigGraded(sig)
  BY <1>6, <1>14, <1>15 DEF SigGraded
<1>18. SigPrices(sig)
  BY <1>2, <1>5, <1>9, <1>15 DEF SigPrices, ContextOf
<1>19. SigOrdered(sig)
  <2>1. Sign(sig) = Sign(c)
    BY <1>15, SignIs
  <2>2. direction_invariant_ok(sig, entry, final.stop, tps)
    BY <1>9, <1>13, <2>1 DEF direction_invariant_ok
  <2> QED
    BY <1>9, <1>15, <2>2 DEF SigOrdered
<1>20. SigGated(sig)
  <2> SUFFICES ASSUME sig.tradable, sig.regime # "high_quant", sig.hatch = None
               PROVE  sig.rr1 >= 10000 /\ sig.rr2 >= 15000 /\ ~sig.wide
    BY DEF SigGated
  <2>1. sig.tradable = (g # Reference)
    BY <1>15
  <2>2. g # Reference
    BY <2>1, Zenon
  <2>3. g \in {"A", "B"}
    BY <1>14, <2>2
  <2>4. final = first
    BY <1>10, <1>15, <2>3
  <2>5. sig.rr1 = r1 /\ sig.rr2 = r2
    BY <1>14, <1>15, <2>2, <2>4 DEF or0, r1, r2
  <2>6. sig.wide = wide
    BY <1>15
  <2> HIDE DEF wide
  <2>7. ~wide
    BY <1>14, <2>2
  <2>8. ~sig.wide
    BY <2>6, <2>7, Zenon
  <2> QED
    BY <1>14, <2>2, <2>5, <2>8
<1> QED
  BY <1>13, <1>15, <1>16, <1>17, <1>18, <1>19, <1>20 DEF GoodSig

-----------------------------------------------------------------------------
(* The lists of a run, and the best of the signals *)

IsList(q) == q \in Seq(Range(q))
CandList(q) == IsList(q) /\ \A i \in 1..Len(q) : Cand(q[i])
SigList(q) == IsList(q) /\ \A i \in 1..Len(q) : GoodSig(q[i]) /\ q[i].stability = None /\ q[i] # None

LEMMA ListIs ==
  ASSUME NEW X, NEW q \in Seq(X)
  PROVE  IsList(q)
<1>1. q \in [1..Len(q) -> X] /\ Len(q) \in Nat
  OBVIOUS
<1>2. q \in [1..Len(q) -> Range(q)]
  BY <1>1 DEF Range
<1> QED
  BY <1>1, <1>2 DEF IsList

LEMMA ListFacts ==
  ASSUME NEW q, IsList(q)
  PROVE  Len(q) \in Nat /\ DOMAIN q = 1..Len(q)
BY DEF IsList

\* The rank of a signal is a triple of numbers.
LEMMA RankIs ==
  ASSUME NEW s, GoodSig(s)
  PROVE  /\ RankOf(s) = <<RankOf(s)[1], RankOf(s)[2], RankOf(s)[3]>>
         /\ RankOf(s)[1] = IF s.grade = "A" THEN 3 ELSE IF s.grade = "B" THEN 2 ELSE 0
         /\ RankOf(s)[2] = s.score /\ s.score \in Int /\ RankOf(s)[3] \in {0, 1}
<1>1. s.grade \in {"A", "B", Reference} /\ s.score \in Int
  BY DEF GoodSig, SigGraded
<1> QED
  BY <1>1 DEF RankOf, Reference

IsRank(r) == r[1] \in Int /\ r[2] \in Int /\ r[3] \in Int

LEMMA BetterOrders ==
  ASSUME NEW r, NEW q, NEW s, IsRank(r), IsRank(q), IsRank(s)
  PROVE  /\ ~Better(r, r)
         /\ Better(r, q) /\ Better(q, s) => Better(r, s)
BY DEF Better, IsRank

LEMMA RanksAre ==
  ASSUME NEW s, GoodSig(s)
  PROVE  IsRank(RankOf(s))
<1>1. RankOf(s)[1] \in Int /\ RankOf(s)[2] \in Int /\ RankOf(s)[3] \in Int
  BY RankIs
<1> QED
  BY <1>1 DEF IsRank

\* rank_signals takes one of the signals, and none is better.
LEMMA RankTakesBest ==
  ASSUME NEW q, SigList(q)
  PROVE  \/ Len(q) = 0 /\ rank_signals(q) = None
         \/ \E k \in 1..Len(q) : /\ rank_signals(q) = q[k]
                                 /\ \A j \in 1..Len(q) : ~Better(RankOf(q[j]), RankOf(q[k]))
<1> DEFINE n == Len(q)
           V == Range(q) \cup {None}
           step == [p \in (1..n) \X V |->
                      IF p[2] = None \/ Better(RankOf(q[p[1]]), RankOf(p[2])) THEN q[p[1]] ELSE p[2]]
           Val(f, i) == IF i = 0 THEN None
                        ELSE IF f[i - 1] = None \/ Better(RankOf(q[i]), RankOf(f[i - 1])) THEN q[i] ELSE f[i - 1]
           Fun(f) == f = [i \in 0..Len(q) |-> Val(f, i)]
<1>1. n \in Nat /\ DOMAIN q = 1..n
  BY ListFacts DEF SigList
<1>2. \A i \in 1..n : q[i] \in V /\ GoodSig(q[i]) /\ q[i] # None
  BY <1>1 DEF SigList, Range
<1>3. step \in [(1..n) \X V -> V]
  <2> SUFFICES ASSUME NEW p \in (1..n) \X V
               PROVE  (IF p[2] = None \/ Better(RankOf(q[p[1]]), RankOf(p[2])) THEN q[p[1]] ELSE p[2]) \in V
    BY Zenon
  <2>1. p[1] \in 1..n /\ p[2] \in V
    OBVIOUS
  <2>2. q[p[1]] \in V
    BY <1>2, <2>1
  <2> HIDE DEF V
  <2> QED
    BY <2>1, <2>2
<1>4. None \in V
  OBVIOUS
<1>5. \E g \in [0..n -> V] : Follows(g, None, step, n)
  <2> HIDE DEF step, V, n
  <2> QED
    BY <1>1, <1>3, <1>4, RecursionExists
<1>6. \E f : Fun(f)
  <2>1. PICK g \in [0..n -> V] : Follows(g, None, step, n)
    BY <1>5
  <2>2. ASSUME NEW i \in 0..n PROVE g[i] = Val(g, i)
    <3>1. CASE i = 0
      BY <2>1, <3>1 DEF Follows
    <3>2. CASE i # 0
      <4>1. i \in 1..n /\ i - 1 \in 0..n
        BY <1>1, <3>2
      <4>2. g[i - 1] \in V /\ g[i] = step[<<i, g[i - 1]>>]
        BY <2>1, <4>1 DEF Follows
      <4>3. step[<<i, g[i - 1]>>] = IF g[i - 1] = None \/ Better(RankOf(q[i]), RankOf(g[i - 1])) THEN q[i] ELSE g[i - 1]
        <5> HIDE DEF V
        <5> QED
          BY <4>1, <4>2
      <4> QED
        BY <3>2, <4>2, <4>3
    <3> QED
      BY <3>1, <3>2
  <2>3. g = [i \in 0..n |-> g[i]]
    BY <2>1
  <2>4. Fun(g)
    BY <2>2, <2>3
  <2> QED
    BY <2>4
<1> DEFINE F == CHOOSE f : Fun(f)
<1>7. Fun(F)
  <2> HIDE DEF Fun
  <2> QED
    BY <1>6
<1>8. rank_signals(q) = F[n]
  BY DEF rank_signals
<1> HIDE DEF F
<1>9. ASSUME NEW i \in 0..n PROVE F[i] = Val(F, i)
  BY <1>7
<1> DEFINE Claim(i) == \E k \in 1..i : F[i] = q[k] /\ \A j \in 1..i : ~Better(RankOf(q[j]), RankOf(q[k]))
           bad == {i \in 1..n : ~Claim(i)}
<1>10. bad = {}
  <2> SUFFICES ASSUME bad # {} PROVE FALSE
    OBVIOUS
  <2>1. PICK m \in bad : \A j \in bad : m <= j
    <3>1. bad \in SUBSET Nat
      BY <1>1
    <3> HIDE DEF bad
    <3> QED
      BY <3>1, LeastMember
  <2>2. m \in 1..n /\ m \in Nat /\ m \in 0..n /\ m # 0 /\ ~Claim(m)
    BY <1>1, <2>1
  <2>3. F[m] = IF F[m - 1] = None \/ Better(RankOf(q[m]), RankOf(F[m - 1])) THEN q[m] ELSE F[m - 1]
    BY <1>9, <2>2
  <2>4. GoodSig(q[m]) /\ IsRank(RankOf(q[m]))
    BY <1>2, <2>2, RanksAre
  <2>5. CASE m = 1
    <3>1. F[0] = None
      BY <1>1, <1>9
    <3>2. F[1] = q[1]
      BY <2>3, <2>5, <3>1
    <3>3. ~Better(RankOf(q[1]), RankOf(q[1]))
      BY <2>4, <2>5, BetterOrders
    <3>4. \A j \in 1..1 : j = 1
      OBVIOUS
    <3>5. Claim(1)
      BY <3>2, <3>3, <3>4
    <3> QED
      BY <2>2, <2>5, <3>5
  <2>6. CASE m # 1
    <3>1. m - 1 \in 1..n /\ m - 1 \in Nat /\ ~(m <= m - 1)
      BY <1>1, <2>2, <2>6
    <3>2. Claim(m - 1)
      BY <2>1, <3>1
    <3>3. PICK k \in 1..(m - 1) : F[m - 1] = q[k] /\ \A j \in 1..(m - 1) : ~Better(RankOf(q[j]), RankOf(q[k]))
      BY <3>2
    <3>4. k \in 1..n /\ k \in 1..m /\ m \in 1..m
      BY <1>1, <2>2, <3>1, <3>3
    <3>5. q[k] # None /\ IsRank(RankOf(q[k]))
      BY <1>2, <3>4, RanksAre
    <3>6. \A j \in 1..m : j = m \/ j \in 1..(m - 1)
      BY <2>2
    <3>7. CASE Better(RankOf(q[m]), RankOf(q[k]))
      <4>1. F[m] = q[m]
        BY <2>3, <3>3, <3>7
      <4>2. ASSUME NEW j \in 1..m PROVE ~Better(RankOf(q[j]), RankOf(q[m]))
        <5>1. CASE j = m
          BY <2>4, <5>1, BetterOrders
        <5>2. CASE j \in 1..(m - 1)
          <6>1. j \in 1..n
            BY <1>1, <2>2, <5>2
          <6>2. IsRank(RankOf(q[j])) /\ ~Better(RankOf(q[j]), RankOf(q[k]))
            BY <1>2, <3>3, <5>2, <6>1, RanksAre
          <6> QED
            BY <2>4, <3>5, <3>7, <6>2, BetterOrders
        <5> QED
          BY <3>6, <5>1, <5>2
      <4>3. Claim(m)
        BY <3>4, <4>1, <4>2
      <4> QED
        BY <2>2, <4>3
    <3>8. CASE ~Better(RankOf(q[m]), RankOf(q[k]))
      <4>1. F[m] = q[k]
        BY <2>3, <3>3, <3>5, <3>8
      <4>2. \A j \in 1..m : ~Better(RankOf(q[j]), RankOf(q[k]))
        BY <3>3, <3>6, <3>8
      <4>3. Claim(m)
        BY <3>4, <4>1, <4>2
      <4> QED
        BY <2>2, <4>3
    <3> QED
      BY <3>7, <3>8
  <2> QED
    BY <2>5, <2>6
<1>11. CASE n = 0
  <2>1. F[n] = None
    BY <1>9, <1>11
  <2> QED
    BY <1>8, <1>11, <2>1
<1>12. CASE n # 0
  <2>1. n \in 1..n
    BY <1>1, <1>12
  <2>2. Claim(n)
    BY <1>10, <2>1
  <2> QED
    BY <1>8, <2>2
<1> QED
  BY <1>11, <1>12

\* The stability check drops a signal or notes that a second window saw it.
LEMMA StabilityIs ==
  ASSUME NEW sig, NEW subs, GoodSig(sig), sig.stability = None
  PROVE  \/ apply_stability(sig, subs) = None
         \/ /\ GoodSig(apply_stability(sig, subs)) /\ RankOf(apply_stability(sig, subs)) = RankOf(sig)
<1> DEFINE r == apply_stability(sig, subs)
<1>1. \/ r = None \/ r = sig
      \/ \E k \in {85, 55, 25, 40} : r = [sig EXCEPT !.stability = k]
  BY DEF apply_stability, stability_verdict
<1> HIDE DEF r
<1>2. CASE \E k \in {85, 55, 25, 40} : r = [sig EXCEPT !.stability = k]
  <2>1. PICK k \in {85, 55, 25, 40} : r = [sig EXCEPT !.stability = k]
    BY <1>2
  <2>2. SigShape(sig)
    BY DEF GoodSig
  <2>3. /\ SigShape(r) /\ r.stability = k /\ r.grade = sig.grade /\ r.tradable = sig.tradable /\ r.score = sig.score
        /\ r.formed = sig.formed /\ r.entry = sig.entry /\ r.price = sig.price /\ r.stop = sig.stop
        /\ r.invalidation = sig.invalidation /\ r.atr = sig.atr /\ r.tps = sig.tps /\ r.bullish = sig.bullish
        /\ r.regime = sig.regime /\ r.hatch = sig.hatch /\ r.rr1 = sig.rr1 /\ r.rr2 = sig.rr2 /\ r.wide = sig.wide
    BY <2>1, <2>2 DEF SigShape
  <2>4. SigGraded(r)
    BY <2>3 DEF GoodSig, SigGraded
  <2>5. SigPrices(r)
    BY <2>3 DEF GoodSig, SigPrices
  <2>6. SigOrdered(r)
    BY <2>3 DEF GoodSig, SigOrdered, direction_invariant_ok, Sign
  <2>7. SigGated(r)
    BY <2>3 DEF GoodSig, SigGated
  <2>8. RankOf(r) = RankOf(sig)
    BY <2>3 DEF RankOf
  <2> QED
    BY <2>3, <2>4, <2>5, <2>6, <2>7, <2>8 DEF GoodSig, r
<1> QED
  BY <1>1, <1>2 DEF r

LEMMA SizedIs ==
  ASSUME NEW sig, NEW size, GoodSig(sig)
  PROVE  GoodSig([sig EXCEPT !.size = size])
<1> DEFINE r == [sig EXCEPT !.size = size]
<1>1. SigShape(sig)
  BY DEF GoodSig
<1>2. /\ SigShape(r) /\ r.stability = sig.stability /\ r.grade = sig.grade /\ r.tradable = sig.tradable /\ r.score = sig.score
      /\ r.formed = sig.formed /\ r.entry = sig.entry /\ r.price = sig.price /\ r.stop = sig.stop
      /\ r.invalidation = sig.invalidation /\ r.atr = sig.atr /\ r.tps = sig.tps /\ r.bullish = sig.bullish
      /\ r.regime = sig.regime /\ r.hatch = sig.hatch /\ r.rr1 = sig.rr1 /\ r.rr2 = sig.rr2 /\ r.wide = sig.wide
  BY <1>1 DEF SigShape
<1> HIDE DEF r
<1>3. SigGraded(r)
  BY <1>2 DEF GoodSig, SigGraded
<1>4. SigPrices(r)
  BY <1>2 DEF GoodSig, SigPrices
<1>5. SigOrdered(r)
  BY <1>2 DEF GoodSig, SigOrdered, direction_invariant_ok, Sign
<1>6. SigGated(r)
  BY <1>2 DEF GoodSig, SigGated
<1>7. GoodSig(r)
  BY <1>2, <1>3, <1>4, <1>5, <1>6 DEF GoodSig
<1> QED
  BY <1>7 DEF r

-----------------------------------------------------------------------------
(* The candidates of a run *)

LEMMA JoinIs ==
  ASSUME NEW Y, NEW p, NEW q, p \in Seq(Y), q \in Seq(Y)
  PROVE  p \o q \in Seq(Y)
OBVIOUS

LEMMA SeqMono ==
  ASSUME NEW A, NEW B, NEW q, q \in Seq(A), A \subseteq B
  PROVE  q \in Seq(B)
<1>1. q \in [1..Len(q) -> A] /\ Len(q) \in Nat
  OBVIOUS
<1>2. q \in [1..Len(q) -> B]
  BY <1>1
<1> QED
  BY <1>1, <1>2

LEMMA CandidateIs ==
  ASSUME NEW raw, NEW n, raw.numeric => {raw.x, raw.a, raw.cmin, raw.cmax} \subseteq Int, to_candidate(raw, n) # None
  PROVE  Cand(to_candidate(raw, n))
<1> DEFINE c == [family |-> raw.family, name |-> raw.name, bullish |-> raw.bullish, formed |-> raw.formed,
                 x |-> raw.x, a |-> IF raw.family = "XABCD" THEN raw.a ELSE raw.x,
                 cmin |-> raw.cmin, cmax |-> raw.cmax, times |-> extract_times(raw.pos, n), indices |-> raw.pos]
<1>1. to_candidate(raw, n) = c /\ raw.numeric /\ ~(raw.cmin <= 0) /\ ~(raw.cmax <= 0)
  BY DEF to_candidate
<1>2. {raw.x, raw.a, raw.cmin, raw.cmax} \subseteq Int
  BY <1>1
<1>3. c.cmin \in Nat \ {0} /\ c.cmax \in Nat \ {0}
  BY <1>1, <1>2
<1>4. c.x \in Int /\ c.a \in Int
  BY <1>2
<1> QED
  BY <1>1, <1>3, <1>4 DEF Cand

\* What is extracted from a detection are candidates.
LEMMA ExtractedAre ==
  ASSUME NEW det \in Detection, NEW n
  PROVE  CandList(extract_candidates(det, n))
<1> DEFINE all == [i \in DOMAIN det |-> to_candidate(det[i], n)]
           Y == {x \in Range(all) : x # None}
           at(f) == {i \in DOMAIN det : det[i].formed = f /\ all[i] # None}
           read(f) == Kept(all, at(f))
<1>1. det \in Seq(Range(det)) /\ \A i \in 1..Len(det) : det[i].numeric => {det[i].x, det[i].a, det[i].cmin, det[i].cmax} \subseteq Int
  BY EngineAssumption
<1>2. Len(det) \in Nat /\ DOMAIN det = 1..Len(det)
  BY <1>1
<1>3. all \in [1..Len(det) -> Range(all)] /\ all \in Seq(Range(all)) /\ Len(all) = Len(det)
  BY <1>2 DEF Range
<1>4. \A y \in Y : Cand(y)
  <2> SUFFICES ASSUME NEW y \in Y PROVE Cand(y)
    OBVIOUS
  <2>1. PICK i \in DOMAIN det : y = to_candidate(det[i], n)
    BY DEF Range
  <2> QED
    BY <1>1, <1>2, <2>1, CandidateIs
<1>5. ASSUME NEW f PROVE read(f) \in Seq(Y)
  <2> DEFINE Z == {all[i] : i \in at(f) \cap (1..Len(all))}
  <2>1. Z \subseteq Y
    BY <1>2 DEF Range
  <2> HIDE DEF all, at
  <2>2. read(f) \in Seq(Z)
    BY <1>3, KeptIs
  <2> HIDE DEF Y, Z, read
  <2> QED
    BY <2>1, <2>2, SeqMono
<1>6. extract_candidates(det, n) = read(TRUE) \o read(FALSE)
  BY DEF extract_candidates
<1> HIDE DEF Y, read
<1> DEFINE r == read(TRUE) \o read(FALSE)
<1>7. r \in Seq(Y)
  <2>1. read(TRUE) \in Seq(Y)
    BY <1>5, Zenon
  <2>2. read(FALSE) \in Seq(Y)
    BY <1>5, Zenon
  <2>3. read(TRUE) \o read(FALSE) \in Seq(Y)
    BY <2>1, <2>2, JoinIs, Zenon
  <2> QED
    BY <2>3
<1> HIDE DEF r
<1>8. \A i \in 1..Len(r) : r[i] \in Y
  BY <1>7
<1>9. IsList(r)
  BY <1>7, ListIs
<1> QED
  BY <1>4, <1>6, <1>8, <1>9 DEF CandList, r

LEMMA FilteredAre ==
  ASSUME NEW t, NEW q, NEW price, NEW atr, NEW n, CandList(q)
  PROVE  \/ filter_candidates(t, q, price, atr, n) = Raised
         \/ CandList(filter_candidates(t, q, price, atr, n))
<1> DEFINE I == {i \in DOMAIN q : rejection_reason(t, q[i], price, atr, n) = None}
           r == Kept(q, I)
           Y == {q[i] : i \in I \cap (1..Len(q))}
<1>1. filter_candidates(t, q, price, atr, n) \in {Raised, r}
  BY DEF filter_candidates
<1>2. q \in Seq(Range(q)) /\ \A i \in 1..Len(q) : Cand(q[i])
  BY DEF CandList, IsList
<1> HIDE DEF I
<1>3. r \in Seq(Y)
  BY <1>2, KeptIs
<1>4. \A y \in Y : Cand(y)
  BY <1>2
<1> HIDE DEF r, Y
<1>5. IsList(r) /\ \A i \in 1..Len(r) : r[i] \in Y
  BY <1>3, ListIs
<1>6. CandList(r)
  BY <1>4, <1>5 DEF CandList
<1> QED
  BY <1>1, <1>6

-----------------------------------------------------------------------------
(* The pipeline *)

JobShape ==
    job = [pc |-> job.pc, saved |-> job.saved, m |-> job.m, level |-> job.level, hatch |-> job.hatch,
           bars |-> job.bars, queue |-> job.queue, scored |-> job.scored, ctx |-> job.ctx, out |-> job.out]
JobKinds ==
    /\ job.pc \in {"prepare", "score", "restore"} /\ job.level \in Names
    /\ job.hatch \in {None} \cup (Nat \ {0}) /\ job.bars \in DOMAIN Frame
JobLists == CandList(job.queue) /\ SigList(job.scored)
JobContext ==
    (job.pc = "score" => ContextOf(job.ctx, Bars)) /\ (job.pc \in {"prepare", "score"} => job.out = None)
JobBest ==
    (job.pc = "restore" /\ job.out \notin {None, Raised}) =>
        GoodSig(job.out) /\ \A j \in 1..Len(job.scored) : ~Better(RankOf(job.scored[j]), RankOf(job.out))
\* Inside a run the lists hold candidates and sound signals, and what is about to
\* be handed over is sound and the best of those scored.
JobInv ==
    \/ job = NoJob
    \/ JobShape /\ JobKinds /\ JobLists /\ JobContext /\ JobBest /\ Numeric(get_tuning)
PipeInv == JobInv /\ (signal = None \/ GoodSig(signal))

\* What a caller holds between two runs.
CallerHolds(c) ==
    [context |-> IF c.at = "grid" THEN <<c.o>> ELSE <<>>,
     applied |-> IF c.at \in {"main", "group"} THEN c.o ELSE None,
     patched |-> IF c.at = "group" THEN {"grade"} ELSE {}]
RelaxedOn(tn) ==
    [context |-> Append(tn.context, Relaxed), applied |-> tn.applied, patched |-> tn.patched \cup {"rejection"}]
CallerKinds ==
    /\ caller = [at |-> caller.at, o |-> caller.o]
    /\ caller.at \in {"none", "main", "group", "grid"}
    /\ caller.at = "none" => caller.o = None
    /\ caller.at = "grid" => caller.o \in Override
    /\ caller.o \in Override \cup {None}
\* The tuning is what the caller holds, and during a run that relaxes the filters
\* the scope of the run on top of it.
CallerInv ==
    /\ CallerKinds
    /\ job.pc = "idle" => tuning = CallerHolds(caller)
    /\ job.pc # "idle" =>
          /\ job.saved \in BOOLEAN
          /\ tuning = IF job.saved THEN RelaxedOn(CallerHolds(caller)) ELSE CallerHolds(caller)
EngineInv == PipeInv /\ CallerInv

LEMMA DefaultNumeric == Numeric(Default)
<1>1. \A i \in 1..3 : Default.fib[i] \in Int
  <2>1. \A i \in 1..3 : i = 1 \/ i = 2 \/ i = 3
    OBVIOUS
  <2>2. Default.fib = <<382, 618, 1272>>
    BY DEF Default
  <2> QED
    BY <2>1, <2>2
<1>2. Default.cost \in Nat /\ Default.min_candles \in Nat \ {0}
  BY DEF Default
<1>3. \A k \in Weights : Default.confluence_weights[k] \in Int
  <2>1. Default.confluence_weights = [price_action |-> 25, htf_trend |-> 25, rsi |-> 15, structure |-> 15,
                                      macd |-> 10, funding |-> 10]
    BY DEF Default
  <2> QED
    BY <2>1 DEF Weights
<1>4. \A k \in DOMAIN Default.pattern_base_score : Default.pattern_base_score[k] \in Int
  <2>1. Default.pattern_base_score = [gartley |-> 5, bat |-> 2, butterfly |-> 0, crab |-> -3, shark |-> -8]
    BY DEF Default
  <2> QED
    BY <2>1
<1>5. \A k \in {"conservative", "standard", "aggressive"} : Default.atr_stop_buffer[k] \in Nat \ {0}
  <2>1. Default.atr_stop_buffer = [conservative |-> 1000, standard |-> 300, aggressive |-> 250]
    BY DEF Default
  <2> QED
    BY <2>1
<1> QED
  BY <1>1, <1>2, <1>3, <1>4, <1>5 DEF Numeric

LEMMA RelaxedNumeric == Numeric(from_dict(Relaxed))
<1> DEFINE r == from_dict(Relaxed)
<1>1. /\ {"fib", "cost", "min_candles", "confluence_weights", "pattern_base_score", "atr_stop_buffer"} \subseteq DOMAIN Default
  BY DEF Default
<1>2. Relaxed.min_candles = 30 /\ DOMAIN Relaxed = {"min_candles"} /\ Relaxed["min_candles"] = 30
  BY DEF Relaxed
<1>3. /\ r.fib = Default.fib /\ r.cost = Default.cost /\ r.min_candles = 30
      /\ r.confluence_weights = Default.confluence_weights /\ r.pattern_base_score = Default.pattern_base_score
      /\ r.atr_stop_buffer = Default.atr_stop_buffer
  <2> HIDE DEF Default, Relaxed
  <2> QED
    BY <1>1, <1>2 DEF from_dict
<1> HIDE DEF r
<1> QED
  BY <1>3, DefaultNumeric DEF Numeric, r

\* The tuning in force within a scope.
TuningOf(tn) ==
    CASE tn.context # <<>> -> from_dict(Last(tn.context))
      [] tn.context = <<>> /\ tn.applied # None -> from_dict(tn.applied)
      [] OTHER -> Default

LEMMA ScopeIs ==
  ASSUME NEW o, NEW q, NEW ctx \in {<<>>, <<o>>}
  PROVE  /\ Front(Append(ctx, q)) = ctx /\ Last(Append(ctx, q)) = q /\ Append(ctx, q) # <<>>
         /\ Last(<<o>>) = o /\ <<o>> # <<>> /\ Front(<<o>>) = <<>> /\ Append(<<>>, o) = <<o>>
<1>1. ctx \in Seq({o, q}) /\ q \in {o, q} /\ Len(<<>>) = 0 /\ Len(<<o>>) = 1
  <2>1. <<>> \in Seq({o, q}) /\ <<o>> \in Seq({o, q}) /\ Len(<<>>) = 0 /\ Len(<<o>>) = 1
    OBVIOUS
  <2>2. ctx = <<>> \/ ctx = <<o>>
    OBVIOUS
  <2> QED
    BY <2>1, <2>2, Zenon
<1>2. /\ Append(ctx, q) \in Seq({o, q}) /\ Len(Append(ctx, q)) = Len(ctx) + 1
      /\ Append(ctx, q)[Len(ctx) + 1] = q /\ Len(ctx) \in Nat
      /\ \A i \in 1..Len(ctx) : Append(ctx, q)[i] = ctx[i]
  BY <1>1
<1> DEFINE t == Append(ctx, q)
<1>3. /\ t \in Seq({o, q}) /\ Len(t) = Len(ctx) + 1 /\ t[Len(ctx) + 1] = q
      /\ \A i \in 1..Len(ctx) : t[i] = ctx[i]
  BY <1>2
<1> HIDE DEF t
<1>4. SubSeq(t, 1, Len(t) - 1) = ctx
  BY <1>1, <1>2, <1>3
<1>5. Len(t) > 0
  BY <1>2, <1>3
<1>6. t # <<>>
  BY <1>5
<1>7. SubSeq(<<o>>, 1, 0) = <<>>
  OBVIOUS
<1>8. Last(<<o>>) = o /\ <<o>> # <<>> /\ Front(<<o>>) = <<>>
  BY <1>1, <1>7 DEF Last, Front
<1>9. Append(<<>>, o) = <<o>>
  OBVIOUS
<1>10. Front(t) = ctx /\ Last(t) = q
  BY <1>2, <1>3, <1>4 DEF Front, Last
<1> QED
  BY <1>6, <1>8, <1>9, <1>10 DEF t

\* The tuning in force between two runs, and in one that relaxes.
LEMMA HeldIs ==
  ASSUME CallerKinds
  PROVE  /\ TuningOf(CallerHolds(caller)) = IF caller.o = None THEN Default ELSE from_dict(caller.o)
         /\ TuningOf(RelaxedOn(CallerHolds(caller))) = from_dict(Relaxed)
         /\ restore_filters(RelaxedOn(CallerHolds(caller)), TRUE) = CallerHolds(caller)
<1> DEFINE h == CallerHolds(caller)  r == RelaxedOn(h)
<1>0. \A o \in Override : o # None
  BY EngineAssumption
<1>1. /\ h = [context |-> h.context, applied |-> h.applied, patched |-> h.patched]
      /\ h.context \in {<<>>, <<caller.o>>} /\ "rejection" \notin h.patched
      /\ caller.at = "grid" => h.context = <<caller.o>>
      /\ caller.at # "grid" => h.context = <<>> /\ h.applied = caller.o
  BY DEF CallerHolds, CallerKinds
<1>2. /\ r = [context |-> Append(h.context, Relaxed), applied |-> h.applied, patched |-> h.patched \cup {"rejection"}]
      /\ r.context = Append(h.context, Relaxed) /\ r.patched = h.patched \cup {"rejection"} /\ r.applied = h.applied
  BY DEF RelaxedOn
<1>3. caller.at = "grid" => caller.o \in Override
  BY DEF CallerKinds
<1> HIDE DEF h, r
<1>4. /\ Front(r.context) = h.context /\ Last(r.context) = Relaxed /\ r.context # <<>>
      /\ Last(<<caller.o>>) = caller.o /\ <<caller.o>> # <<>>
  <2>1. h.context \in {<<>>, <<caller.o>>}
    BY <1>1
  <2>2. /\ Front(Append(h.context, Relaxed)) = h.context /\ Last(Append(h.context, Relaxed)) = Relaxed
        /\ Append(h.context, Relaxed) # <<>> /\ Last(<<caller.o>>) = caller.o /\ <<caller.o>> # <<>>
    BY <2>1, ScopeIs, Zenon
  <2> QED
    BY <1>2, <2>2
<1>5. TuningOf(h) = IF caller.o = None THEN Default ELSE from_dict(caller.o)
  <2>1. CASE caller.at = "grid"
    BY <1>0, <1>1, <1>3, <1>4, <2>1 DEF TuningOf
  <2>2. CASE caller.at # "grid"
    BY <1>1, <2>2 DEF TuningOf
  <2> QED
    BY <2>1, <2>2
<1>6. TuningOf(r) = from_dict(Relaxed)
  BY <1>4 DEF TuningOf
<1>7. restore_filters(r, TRUE) = h
  <2>1. restore_filters(r, TRUE) = [context |-> Front(r.context), applied |-> r.applied, patched |-> r.patched \ {"rejection"}]
    BY DEF restore_filters
  <2>3. r.patched \ {"rejection"} = h.patched
    BY <1>1, <1>2
  <2> QED
    BY <1>1, <1>2, <1>4, <2>1, <2>3
<1> QED
  BY <1>5, <1>6, <1>7 DEF h, r

\* A run begins with nothing scored, within the scopes its caller entered.
LEMMA BeginKeeps ==
  ASSUME EngineInv, NEW f \in DOMAIN Frame, NEW det \in Detection, NEW lvl \in Level, NEW h \in Hatch \cup {None},
         NEW saved \in BOOLEAN, job.pc = "idle", Begin(f, det, lvl, h, saved),
         tuning' = IF saved THEN RelaxedOn(tuning) ELSE tuning
  PROVE  EngineInv'
<1>1. PICK m \in Market :
          job' = [pc |-> "prepare", m |-> m, level |-> lvl, hatch |-> h, saved |-> saved,
                  bars |-> f, queue |-> extract_candidates(det, Len(Frame[f])), scored |-> <<>>,
                  ctx |-> None, out |-> None]
  BY DEF Begin
<1>2. JobShape'
  BY <1>1 DEF JobShape
<1>3. JobKinds'
  BY <1>1, EngineAssumption DEF JobKinds, Names
<1>4. JobLists'
  <2>1. CandList(extract_candidates(det, Len(Frame[f])))
    BY ExtractedAre
  <2>2. <<>> \in Seq({})
    OBVIOUS
  <2>3. IsList(<<>>)
    BY <2>2, ListIs
  <2>4. SigList(<<>>)
    BY <2>3 DEF SigList
  <2> QED
    BY <1>1, <2>1, <2>4 DEF JobLists
<1>5. JobContext' /\ JobBest'
  BY <1>1 DEF JobContext, JobBest
<1>6. CallerInv'
  <2>1. tuning = CallerHolds(caller) /\ CallerKinds
    BY DEF EngineInv, CallerInv
  <2>2. caller' = caller
    BY DEF Begin
  <2>3. CallerKinds' /\ CallerHolds(caller)' = CallerHolds(caller) /\ RelaxedOn(CallerHolds(caller))' = RelaxedOn(CallerHolds(caller))
    BY <2>1, <2>2 DEF CallerKinds, CallerHolds, RelaxedOn
  <2>4. job'.pc = "prepare" /\ job'.saved = saved
    BY <1>1
  <2> QED
    BY <2>1, <2>3, <2>4 DEF CallerInv
<1>7. Numeric(get_tuning)'
  <2>1. CallerKinds /\ tuning' \in {CallerHolds(caller), RelaxedOn(CallerHolds(caller))}
    BY DEF EngineInv, CallerInv
  <2>2. get_tuning' = TuningOf(tuning')
    BY DEF get_tuning, TuningOf
  <2>3. get_tuning' \in {from_dict(o) : o \in Override} \cup {Default, from_dict(Relaxed)}
    BY <2>1, <2>2, HeldIs DEF CallerKinds
  <2>4. \A t \in {from_dict(o) : o \in Override} \cup {Default, from_dict(Relaxed)} : Numeric(t)
    BY DefaultNumeric, RelaxedNumeric, EngineAssumption
  <2>5. Numeric(get_tuning)' = Numeric(get_tuning')
    BY DEF Numeric
  <2> QED
    BY <2>3, <2>4, <2>5
<1>8. signal' = None
  BY DEF Begin
<1> QED
  BY <1>2, <1>3, <1>4, <1>5, <1>6, <1>7, <1>8 DEF EngineInv, PipeInv, JobInv

\* The caller enters and leaves what it holds.
LEMMA MovesKeep ==
  ASSUME EngineInv, job.pc = "idle",
         main \/ run_symbol_group \/ grid_search_weights \/ leave_main \/ leave_group \/ leave_grid
  PROVE  EngineInv'
<1>1. /\ tuning = CallerHolds(caller) /\ CallerKinds
      /\ job' = job /\ signal' = None /\ job = NoJob
  BY DEF EngineInv, PipeInv, JobInv, JobKinds, CallerInv, main, run_symbol_group, grid_search_weights,
     leave_main, leave_group, leave_grid
<1> DEFINE h == CallerHolds(caller)
<1>2. h = [context |-> h.context, applied |-> h.applied, patched |-> h.patched]
  BY DEF CallerHolds
<1>3. ASSUME NEW at \in {"none", "main", "group", "grid"}, NEW o \in Override \cup {None},
             caller' = [at |-> at, o |-> o], at = "none" => o = None, at = "grid" => o \in Override,
             tuning' = [context |-> IF at = "grid" THEN <<o>> ELSE <<>>,
                        applied |-> IF at \in {"main", "group"} THEN o ELSE None,
                        patched |-> IF at = "group" THEN {"grade"} ELSE {}]
      PROVE  EngineInv'
  <2>1. CallerKinds'
    BY <1>3 DEF CallerKinds
  <2>2. caller'.at = at /\ caller'.o = o
    BY <1>3
  <2>3. tuning' = CallerHolds(caller)'
    BY <1>3, <2>2 DEF CallerHolds
  <2>4. job'.pc = "idle"
    BY <1>1 DEF NoJob
  <2> QED
    BY <1>1, <2>1, <2>3, <2>4 DEF EngineInv, PipeInv, JobInv, CallerInv, NoJob
<1>4. CASE main
  <2>1. PICK o \in Override \cup {None} :
           /\ caller' = [at |-> "main", o |-> o]
           /\ tuning' = [tuning EXCEPT !.applied = IF o = None THEN tuning.applied ELSE o]
    BY <1>4 DEF main
  <2>2. h.context = <<>> /\ h.applied = None /\ h.patched = {}
    BY <1>4 DEF main, CallerHolds, NoCaller
  <2>3. tuning' = [context |-> <<>>, applied |-> o, patched |-> {}]
    BY <1>1, <1>2, <2>1, <2>2
  <2> QED
    BY <1>3, <2>1, <2>3
<1>5. CASE leave_main
  <2>1. /\ caller' = [at |-> "none", o |-> None] /\ caller.at = "main"
        /\ tuning' = IF caller.o = None THEN tuning ELSE [tuning EXCEPT !.applied = None]
    BY <1>5 DEF leave_main, NoCaller
  <2>2. h.context = <<>> /\ h.applied = caller.o /\ h.patched = {}
    BY <2>1 DEF CallerHolds
  <2>3. tuning' = [context |-> <<>>, applied |-> None, patched |-> {}]
    BY <1>1, <1>2, <2>1, <2>2
  <2> QED
    BY <1>3, <2>1, <2>3
<1>6. CASE run_symbol_group
  <2>1. /\ caller' = [caller EXCEPT !.at = "group"] /\ caller.at = "main"
        /\ tuning' = [tuning EXCEPT !.patched = tuning.patched \cup {"grade"}]
    BY <1>6 DEF run_symbol_group
  <2>2. h.context = <<>> /\ h.applied = caller.o /\ h.patched = {}
    BY <2>1 DEF CallerHolds
  <2>3. tuning' = [context |-> <<>>, applied |-> caller.o, patched |-> {"grade"}]
    <3>1. {} \cup {"grade"} = {"grade"}
      OBVIOUS
    <3> QED
      BY <1>1, <1>2, <2>1, <2>2, <3>1
  <2>4. caller' = [at |-> "group", o |-> caller.o] /\ caller.o \in Override \cup {None}
    BY <1>1, <2>1 DEF CallerKinds
  <2> QED
    BY <1>3, <2>3, <2>4
<1>7. CASE leave_group
  <2>1. /\ caller' = [caller EXCEPT !.at = "main"] /\ caller.at = "group"
        /\ tuning' = [tuning EXCEPT !.patched = tuning.patched \ {"grade"}]
    BY <1>7 DEF leave_group
  <2>2. h.context = <<>> /\ h.applied = caller.o /\ h.patched = {"grade"}
    BY <2>1 DEF CallerHolds
  <2>3. tuning' = [context |-> <<>>, applied |-> caller.o, patched |-> {}]
    <3>1. {"grade"} \ {"grade"} = {}
      OBVIOUS
    <3> QED
      BY <1>1, <1>2, <2>1, <2>2, <3>1
  <2>4. caller' = [at |-> "main", o |-> caller.o] /\ caller.o \in Override \cup {None}
    BY <1>1, <2>1 DEF CallerKinds
  <2> QED
    BY <1>3, <2>3, <2>4
<1>8. CASE grid_search_weights
  <2>1. PICK o \in Override :
           /\ caller' = [at |-> "grid", o |-> o]
           /\ tuning' = [tuning EXCEPT !.context = Append(tuning.context, o)]
    BY <1>8 DEF grid_search_weights
  <2>2. h.context = <<>> /\ h.applied = None /\ h.patched = {}
    BY <1>8 DEF grid_search_weights, CallerHolds, NoCaller
  <2>3. Append(<<>>, o) = <<o>>
    OBVIOUS
  <2>4. tuning' = [context |-> <<o>>, applied |-> None, patched |-> {}]
    BY <1>1, <1>2, <2>1, <2>2, <2>3
  <2> QED
    BY <1>3, <2>1, <2>4
<1>9. CASE leave_grid
  <2>1. /\ caller' = [at |-> "none", o |-> None] /\ caller.at = "grid"
        /\ tuning' = [tuning EXCEPT !.context = Front(tuning.context)]
    BY <1>9 DEF leave_grid, NoCaller
  <2>2. h.context = <<caller.o>> /\ h.applied = None /\ h.patched = {}
    BY <2>1 DEF CallerHolds
  <2>3. Front(<<caller.o>>) = <<>>
    BY ScopeIs
  <2>4. tuning' = [context |-> <<>>, applied |-> None, patched |-> {}]
    BY <1>1, <1>2, <2>1, <2>2, <2>3
  <2> QED
    BY <1>3, <2>1, <2>4
<1> QED
  BY <1>4, <1>5, <1>6, <1>7, <1>8, <1>9

LEMMA CallersKeep ==
  ASSUME EngineInv, job.pc = "idle", NEW f \in DOMAIN Frame, NEW det \in Detection, NEW lvl \in Level,
         fresh_pattern(f, det, lvl) \/ extract_signal(f, det, lvl)
  PROVE  EngineInv'
<1>1. CASE fresh_pattern(f, det, lvl)
  <2>1. Begin(f, det, lvl, None, FALSE) /\ tuning' = tuning
    BY <1>1 DEF fresh_pattern
  <2> QED
    BY <2>1, BeginKeeps
<1>2. CASE extract_signal(f, det, lvl)
  <2>1. PICK relax \in BOOLEAN, h \in Hatch :
           /\ Begin(f, det, lvl, h, relax)
           /\ tuning' = maybe_relax_filters(tuning, relax)
    BY <1>2 DEF extract_signal
  <2>3. tuning' = IF relax THEN RelaxedOn(tuning) ELSE tuning
    BY <2>1 DEF RelaxedOn, maybe_relax_filters
  <2>4. h \in Hatch \cup {None}
    OBVIOUS
  <2> QED
    BY <2>1, <2>3, <2>4, BeginKeeps
<1> QED
  BY <1>1, <1>2

\* The stages of a run leave the caller's tuning alone.
LEMMA StagesKeep ==
  ASSUME EngineInv, prepare \/ score \/ rank
  PROVE  CallerInv'
<1>1. UNCHANGED <<tuning, caller>> /\ job.pc \in {"prepare", "score"}
  BY DEF prepare, score, rank
<1>2. JobShape
  BY <1>1 DEF EngineInv, PipeInv, JobInv, NoJob
<1>4. job'.saved = job.saved /\ job'.pc \in {"prepare", "score", "restore"}
  <2>1. CASE prepare
    <3>1. \/ job' = [job EXCEPT !.pc = "restore"]
          \/ job' = [job EXCEPT !.pc = "restore", !.out = Raised]
          \/ \E x, y : job' = [job EXCEPT !.pc = "score", !.ctx = x, !.queue = y]
      BY <2>1 DEF prepare
    <3> QED
      BY <1>2, <3>1 DEF JobShape
  <2>2. CASE score
    <3> DEFINE sig == score_candidate(get_tuning, job.ctx, Bars, Head(job.queue), job.level, job.hatch, tuning.patched)
    <3>1. job' = CASE sig = Raised -> [job EXCEPT !.pc = "restore", !.out = Raised]
                   [] sig = None -> [job EXCEPT !.queue = Tail(@)]
                   [] OTHER -> [job EXCEPT !.queue = Tail(@), !.scored = Append(@, sig)]
      BY <2>2 DEF score
    <3> HIDE DEF sig
    <3> QED
      BY <1>1, <1>2, <3>1, NoneAssumption DEF JobShape
  <2>3. CASE rank
    <3> DEFINE best == rank_signals(job.scored)
    <3>1. \E subs \in {None, Raised} \cup ({None, "bat", "crab"} \X {None, "bat"}) :
              job' = [job EXCEPT !.pc = "restore", !.out = apply_stability(best, subs)]
      BY <2>3 DEF rank
    <3> HIDE DEF best
    <3>2. \E x : job' = [job EXCEPT !.pc = "restore", !.out = x]
      BY <3>1, Zenon
    <3> QED
      BY <1>2, <3>2 DEF JobShape
  <2> QED
    BY <2>1, <2>2, <2>3
<1> QED
  BY <1>1, <1>4 DEF EngineInv, CallerInv, CallerKinds, CallerHolds, RelaxedOn

\* The bars a run reads, the last of which is not out yet for one caller.
LEMMA BarsAre ==
  ASSUME JobShape, JobKinds
  PROVE  Len(Bars) \in Int /\ (Len(Bars) > 0 => LastBar(Bars).c \in Nat)
<1> DEFINE all == Frame[job.bars]
<1>1. all \in Seq(Range(all)) /\ \A i \in 1..Len(all) : all[i].c \in Nat
  BY EngineAssumption DEF JobKinds
<1> HIDE DEF all
<1>2. Len(all) \in Nat
  BY <1>1
<1>3. CASE caller.at = "group"
  <2>1. Bars = SubSeq(all, 1, Len(all) - 1)
    BY <1>3 DEF Bars, Front, all
  <2>2. CASE Len(all) = 0
    <3>1. SubSeq(all, 1, Len(all) - 1) = <<>>
      BY <1>2, <2>2, SubSeqEmpty
    <3>2. Len(<<>>) = 0
      OBVIOUS
    <3>3. Len(Bars) = 0
      BY <2>1, <3>1, <3>2
    <3> QED
      BY <3>3
  <2>3. CASE Len(all) # 0
    <3> DEFINE n == Len(all) - 1
    <3>1. \A i \in 1..n : all[i] \in Range(all)
      BY <1>1, <1>2
    <3>2. /\ Len(SubSeq(all, 1, n)) = IF 1 <= n THEN n - 1 + 1 ELSE 0
          /\ \A i \in 1..(n - 1 + 1) : SubSeq(all, 1, n)[i] = all[1 + i - 1]
      BY <1>2, <3>1, SubSeqProperties
    <3> DEFINE b == SubSeq(all, 1, n)
    <3> HIDE DEF b
    <3>3. Len(b) = n /\ \A i \in 1..n : b[i] = all[i]
      <4>0. n \in Nat
        BY <1>2, <2>3
      <4>1. n \in Nat /\ n - 1 + 1 = n /\ (1 <= n \/ n = 0)
        <5> HIDE DEF n
        <5> QED
          BY <4>0
      <4> HIDE DEF n
      <4>2. \A i \in 1..n : 1 + i - 1 = i
        BY <4>1
      <4>3. Len(b) = n
        BY <3>2, <4>1 DEF b
      <4> QED
        BY <3>2, <4>1, <4>2, <4>3 DEF b
    <3>4. Len(b) > 0 => b[Len(b)].c \in Nat
      BY <1>1, <1>2, <3>3
    <3> QED
      BY <1>2, <2>1, <3>3, <3>4 DEF b, LastBar
  <2> QED
    BY <2>2, <2>3
<1>4. CASE caller.at # "group"
  <2>1. Bars = all
    BY <1>4 DEF Bars, all
  <2> QED
    BY <1>1, <1>2, <2>1 DEF LastBar
<1> QED
  BY <1>3, <1>4

LEMMA PrepareKeeps ==
  ASSUME PipeInv, prepare
  PROVE  PipeInv'
<1> DEFINE t == get_tuning
           ctx == prepare_score_context(t, Bars, job.m)
           valid == IF "rejection" \in tuning.patched THEN job.queue
                    ELSE filter_candidates(t, job.queue, ctx.price, ctx.atr, Len(Bars))
<1>1. /\ JobShape /\ JobKinds /\ JobLists /\ Numeric(t) /\ job.pc = "prepare"
      /\ job # NoJob
  BY DEF PipeInv, JobInv, prepare, NoJob
<1>2. \/ job' = [job EXCEPT !.pc = "restore"]
      \/ job' = [job EXCEPT !.pc = "restore", !.out = Raised]
      \/ /\ job' = [job EXCEPT !.pc = "score", !.ctx = ctx, !.queue = valid]
         /\ ~(Len(Bars) < t.min_candles) /\ ctx # None /\ valid # Raised
  BY DEF prepare
<1>3. UNCHANGED <<tuning, caller, signal>>
  BY DEF prepare
<1>4. Numeric(get_tuning)'
  BY <1>1, <1>3 DEF get_tuning, Numeric
<1>5. CASE job' = [job EXCEPT !.pc = "restore"] \/ job' = [job EXCEPT !.pc = "restore", !.out = Raised]
  <2>0. job.out = None
    BY <1>1 DEF PipeInv, JobInv, JobContext
  <2>1. /\ job'.pc = "restore" /\ job'.level = job.level /\ job'.hatch = job.hatch /\ job'.bars = job.bars
        /\ job'.queue = job.queue /\ job'.scored = job.scored /\ job'.out \in {None, Raised} /\ JobShape'
    BY <1>1, <1>5, <2>0 DEF JobShape
  <2>2. JobKinds' /\ JobLists' /\ JobContext' /\ JobBest'
    BY <1>1, <2>1 DEF JobKinds, JobLists, JobContext, JobBest
  <2> QED
    BY <1>3, <1>4, <2>1, <2>2 DEF PipeInv, JobInv
<1>6. CASE /\ job' = [job EXCEPT !.pc = "score", !.ctx = ctx, !.queue = valid]
           /\ ~(Len(Bars) < t.min_candles) /\ ctx # None /\ valid # Raised
  <2>1. Len(Bars) > 0 /\ LastBar(Bars).c \in Nat
    <3>1. t.min_candles \in Nat \ {0}
      BY <1>1 DEF Numeric
    <3> QED
      BY <1>1, <1>6, <3>1, BarsAre
  <2>2. ContextOf(ctx, Bars)
    <3> HIDE DEF t
    <3>1. ctx.atr \in Nat \ {0} /\ ctx.pa_scale \in Int /\ ctx.price = LastBar(Bars).c
      BY <1>6 DEF prepare_score_context
    <3> QED
      BY <2>1, <3>1 DEF ContextOf
  <2>3. CandList(valid)
    <3>1. CandList(job.queue)
      BY <1>1 DEF JobLists
    <3> HIDE DEF ctx, t
    <3>2. \/ filter_candidates(t, job.queue, ctx.price, ctx.atr, Len(Bars)) = Raised
          \/ CandList(filter_candidates(t, job.queue, ctx.price, ctx.atr, Len(Bars)))
      BY <3>1, FilteredAre
    <3> QED
      BY <1>6, <3>1, <3>2
  <2> HIDE DEF ctx, valid, t
  <2>4. /\ job'.pc = "score" /\ job'.level = job.level /\ job'.hatch = job.hatch /\ job'.bars = job.bars
        /\ job'.saved = job.saved /\ job'.ctx = ctx
        /\ job'.queue = valid /\ job'.scored = job.scored /\ job'.out = None /\ JobShape'
    BY <1>1, <1>6 DEF JobShape, PipeInv, JobInv, JobContext
  <2>5. Bars' = Bars
    BY <1>3, <2>4 DEF Bars
  <2>6. JobKinds' /\ JobLists' /\ JobContext' /\ JobBest'
    BY <1>1, <2>2, <2>3, <2>4, <2>5 DEF JobKinds, JobLists, JobContext, JobBest
  <2> QED
    BY <1>3, <1>4, <2>4, <2>6 DEF PipeInv, JobInv
<1> HIDE DEF ctx, valid, t
<1> QED
  BY <1>2, <1>5, <1>6

LEMMA ScoreKeeps ==
  ASSUME PipeInv, score
  PROVE  PipeInv'
<1> DEFINE sig == score_candidate(get_tuning, job.ctx, Bars, Head(job.queue), job.level, job.hatch, tuning.patched)
<1>1. /\ JobShape /\ JobKinds /\ JobLists /\ JobContext /\ Numeric(get_tuning) /\ job.pc = "score" /\ job.queue # <<>>
  BY DEF PipeInv, JobInv, score, NoJob
<1>2. job' = CASE sig = Raised -> [job EXCEPT !.pc = "restore", !.out = Raised]
               [] sig = None -> [job EXCEPT !.queue = Tail(@)]
               [] OTHER -> [job EXCEPT !.queue = Tail(@), !.scored = Append(@, sig)]
  BY DEF score
<1>3. UNCHANGED <<tuning, caller, signal>>
  BY DEF score
<1>4. Numeric(get_tuning)'
  BY <1>1, <1>3 DEF get_tuning, Numeric
<1>5. Cand(Head(job.queue)) /\ CandList(Tail(job.queue))
  <2> DEFINE q == job.queue
  <2>1. q \in Seq(Range(q)) /\ q # <<>> /\ \A i \in 1..Len(q) : Cand(q[i])
    BY <1>1 DEF JobLists, CandList, IsList
  <2> HIDE DEF q
  <2>2. Head(q) = q[1] /\ Len(q) \in Nat /\ Len(q) > 0
    BY <2>1
  <2>3. Tail(q) \in Seq(Range(q)) /\ Len(Tail(q)) = Len(q) - 1 /\ \A i \in 1..Len(Tail(q)) : Tail(q)[i] = q[i + 1]
    BY <2>1, HeadTailProperties
  <2>4. \A i \in 1..Len(Tail(q)) : i + 1 \in 1..Len(q)
    BY <2>2, <2>3
  <2>5. \A i \in 1..Len(Tail(q)) : Cand(Tail(q)[i])
    BY <2>1, <2>3, <2>4
  <2>6. IsList(Tail(q))
    BY <2>3, ListIs
  <2>7. Cand(Head(q))
    BY <2>1, <2>2
  <2> QED
    BY <2>5, <2>6, <2>7 DEF CandList, q
<1>6. sig = None \/ sig = Raised \/ (GoodSig(sig) /\ sig.stability = None)
  <2>1. job.level \in Names /\ job.hatch \in {None} \cup (Nat \ {0}) /\ ContextOf(job.ctx, Bars)
    BY <1>1 DEF JobKinds, JobContext
  <2> QED
    BY <1>1, <1>5, <2>1, ScoreIs
<1> HIDE DEF sig
<1>7. CASE sig = Raised
  <2>0. job' = [job EXCEPT !.pc = "restore", !.out = Raised]
    <3>1. job' = CASE sig = Raised -> [job EXCEPT !.pc = "restore", !.out = Raised]
               [] sig = None -> [job EXCEPT !.queue = Tail(@)]
               [] OTHER -> [job EXCEPT !.queue = Tail(@), !.scored = Append(@, sig)]
      BY <1>2
    <3> QED
      BY <1>7, <3>1, NoneAssumption
  <2>1. /\ job'.pc = "restore" /\ job'.level = job.level /\ job'.hatch = job.hatch /\ job'.bars = job.bars
        /\ job'.queue = job.queue /\ job'.scored = job.scored /\ job'.out = Raised /\ JobShape'
    BY <1>1, <2>0 DEF JobShape
  <2>2. JobKinds' /\ JobLists' /\ JobContext' /\ JobBest'
    BY <1>1, <2>1 DEF JobKinds, JobLists, JobContext, JobBest
  <2> QED
    BY <1>3, <1>4, <2>1, <2>2 DEF PipeInv, JobInv
<1>8. CASE sig # Raised
  <2>1. \/ job' = [job EXCEPT !.queue = Tail(@)]
        \/ job' = [job EXCEPT !.queue = Tail(@), !.scored = Append(@, sig)] /\ sig # None
    BY <1>2, <1>8
  <2>2. /\ job'.pc = "score" /\ job'.level = job.level /\ job'.hatch = job.hatch /\ job'.bars = job.bars
        /\ job'.saved = job.saved /\ job'.ctx = job.ctx
        /\ job'.queue = Tail(job.queue) /\ job'.out = job.out /\ JobShape'
        /\ job'.scored = job.scored \/ (job'.scored = Append(job.scored, sig) /\ sig # None)
    BY <1>1, <2>1 DEF JobShape
  <2>3. Bars' = Bars
    BY <1>3, <2>2 DEF Bars
  <2>4. SigList(job'.scored)
    <3>1. SigList(job.scored)
      BY <1>1 DEF JobLists
    <3>2. sig # None => SigList(Append(job.scored, sig))
      <4> SUFFICES ASSUME sig # None PROVE SigList(Append(job.scored, sig))
        OBVIOUS
      <4> DEFINE q == job.scored
                 X == Range(q) \cup {sig}
      <4>1. q \in Seq(Range(q)) /\ \A i \in 1..Len(q) : GoodSig(q[i]) /\ q[i].stability = None /\ q[i] # None
        BY <3>1 DEF SigList, IsList
      <4> HIDE DEF q
      <4>2. q \in Seq(X)
        BY <4>1, SeqMono
      <4>3. sig \in X
        OBVIOUS
      <4> HIDE DEF X
      <4>4. /\ Append(q, sig) \in Seq(X) /\ Len(Append(q, sig)) = Len(q) + 1
            /\ \A i \in 1..Len(q) : Append(q, sig)[i] = q[i]
            /\ Append(q, sig)[Len(q) + 1] = sig
        BY <4>2, <4>3, AppendProperties
      <4>5. Len(q) \in Nat
        BY <4>2
      <4>6. \A i \in 1..(Len(q) + 1) : i \in 1..Len(q) \/ i = Len(q) + 1
        BY <4>5
      <4>7. IsList(Append(q, sig))
        BY <4>4, ListIs
      <4>8. GoodSig(sig) /\ sig.stability = None /\ sig # None
        BY <1>6, <1>8
      <4> DEFINE r == Append(q, sig)
      <4> HIDE DEF r
      <4>9. \A i \in 1..Len(r) : GoodSig(r[i]) /\ r[i].stability = None /\ r[i] # None
        BY <4>1, <4>4, <4>6, <4>8 DEF r
      <4> QED
        BY <4>7, <4>9 DEF SigList, r, q
    <3> QED
      BY <2>2, <3>1, <3>2
  <2>5. JobKinds' /\ JobLists' /\ JobContext' /\ JobBest'
    BY <1>1, <1>5, <2>2, <2>3, <2>4 DEF JobKinds, JobLists, JobContext, JobBest
  <2> QED
    BY <1>3, <1>4, <2>2, <2>5 DEF PipeInv, JobInv
<1> QED
  BY <1>7, <1>8

LEMMA RankKeeps ==
  ASSUME PipeInv, rank
  PROVE  PipeInv'
<1> DEFINE best == rank_signals(job.scored)
<1>1. /\ JobShape /\ JobKinds /\ JobLists /\ Numeric(get_tuning) /\ job.pc = "score"
  BY DEF PipeInv, JobInv, rank, NoJob
<1>2. PICK subs : job' = [job EXCEPT !.pc = "restore", !.out = apply_stability(best, subs)]
  BY DEF rank
<1>3. UNCHANGED <<tuning, caller, signal>>
  BY DEF rank
<1>4. Numeric(get_tuning)'
  BY <1>1, <1>3 DEF get_tuning, Numeric
<1> DEFINE out == apply_stability(best, subs)
<1>5. /\ job'.pc = "restore" /\ job'.level = job.level /\ job'.hatch = job.hatch /\ job'.bars = job.bars
      /\ job'.queue = job.queue /\ job'.scored = job.scored /\ job'.out = out /\ JobShape'
  <2> HIDE DEF out
  <2>1. job' = [job EXCEPT !.pc = "restore", !.out = out]
    BY <1>2 DEF out
  <2> QED
    BY <1>1, <2>1 DEF JobShape
<1>6. \/ out = None
      \/ GoodSig(out) /\ \A j \in 1..Len(job.scored) : ~Better(RankOf(job.scored[j]), RankOf(out))
  <2>1. SigList(job.scored)
    BY <1>1 DEF JobLists
  <2>2. CASE best = None
    BY <2>2 DEF apply_stability
  <2>3. CASE best # None
    <3> HIDE DEF best
    <3>1. PICK k \in 1..Len(job.scored) : /\ best = job.scored[k]
                                          /\ \A j \in 1..Len(job.scored) : ~Better(RankOf(job.scored[j]), RankOf(job.scored[k]))
      BY <2>1, <2>3, RankTakesBest DEF best
    <3>2. GoodSig(best) /\ best.stability = None
      BY <2>1, <3>1 DEF SigList
    <3>3. out = None \/ (GoodSig(out) /\ RankOf(out) = RankOf(best))
      BY <3>2, StabilityIs
    <3> QED
      BY <3>1, <3>3
  <2> QED
    BY <2>2, <2>3
<1> HIDE DEF out
<1>7. JobKinds' /\ JobLists' /\ JobContext' /\ JobBest'
  BY <1>1, <1>5, <1>6 DEF JobKinds, JobLists, JobContext, JobBest
<1> QED
  BY <1>3, <1>4, <1>5, <1>7 DEF PipeInv, JobInv

LEMMA FinishKeeps ==
  ASSUME EngineInv, finish
  PROVE  EngineInv'
<1>1. JobShape /\ JobBest /\ job.pc = "restore" /\ job' = NoJob
      /\ caller' = caller /\ tuning' = restore_filters(tuning, job.saved)
  BY DEF EngineInv, PipeInv, JobInv, finish, NoJob
<1>2. signal' = None \/ (job.out \notin {None, Raised} /\ \E size : signal' = [job.out EXCEPT !.size = size])
  <2> DEFINE all == Frame[job.bars]
             d == discipline_evaluate(get_tuning, all, job.out.c, LastBar(all).c)
             keep(group) == group = "control" \/ IF job.out.formed THEN ~d.past_tp2 ELSE d.passed
             size(group) == IF group = "experimental" THEN macro_compute(get_tuning, job.m.daily, job.out.bullish) ELSE 1000
  <2>1. PICK group \in {"control"} \cup (IF caller.at = "group" THEN {"strict", "experimental"} ELSE {}) :
                     signal' = IF job.out \in {None, Raised} THEN None
                               ELSE IF keep(group) THEN [job.out EXCEPT !.size = size(group)] ELSE None
    BY DEF finish
  <2> HIDE DEF keep, size
  <2> QED
    BY <2>1
<1>3. signal' = None \/ GoodSig(signal')
  BY <1>1, <1>2, SizedIs DEF JobBest
<1>4. tuning' = CallerHolds(caller)
  <2>1. /\ CallerKinds /\ job.saved \in BOOLEAN
        /\ tuning = IF job.saved THEN RelaxedOn(CallerHolds(caller)) ELSE CallerHolds(caller)
    BY <1>1 DEF EngineInv, CallerInv
  <2>2. CASE job.saved
    <3>1. job.saved = TRUE
      BY <2>1, <2>2
    <3> QED
      BY <1>1, <2>1, <3>1, HeldIs
  <2>3. CASE ~job.saved
    BY <1>1, <2>1, <2>3 DEF restore_filters
  <2> QED
    BY <2>2, <2>3
<1>5. CallerInv'
  BY <1>1, <1>4 DEF EngineInv, CallerInv, CallerKinds, CallerHolds, NoJob
<1> QED
  BY <1>1, <1>3, <1>5 DEF EngineInv, PipeInv, JobInv

\* A step that leaves the run alone, and at most takes the signal.
LEMMA EngineSame ==
  ASSUME EngineInv, UNCHANGED <<tuning, caller, job>>, signal' = None \/ signal' = signal
  PROVE  EngineInv'
<1>1. Bars' = Bars /\ get_tuning' = get_tuning
  BY DEF Bars, get_tuning
<1>2. JobInv'
  BY <1>1 DEF EngineInv, PipeInv, JobInv, JobShape, JobKinds, JobLists, JobContext, JobBest, Numeric, ContextOf
<1>3. CallerInv'
  BY DEF EngineInv, CallerInv, CallerKinds, CallerHolds, RelaxedOn
<1> QED
  BY <1>2, <1>3 DEF EngineInv, PipeInv

LEMMA EngineStepKeeps ==
  ASSUME EngineInv, EngineNext
  PROVE  EngineInv'
<1>1. CASE job.pc = "idle" /\ \E f \in DOMAIN Frame, det \in Detection, lvl \in Level :
             fresh_pattern(f, det, lvl) \/ extract_signal(f, det, lvl)
  BY <1>1, CallersKeep
<1>2. CASE /\ job.pc = "idle"
           /\ main \/ run_symbol_group \/ grid_search_weights \/ leave_main \/ leave_group \/ leave_grid
  BY <1>2, MovesKeep
<1>3. CASE prepare \/ score \/ rank
  <2>1. PipeInv'
    BY <1>3, PrepareKeeps, ScoreKeeps, RankKeeps DEF EngineInv
  <2> QED
    BY <1>3, <2>1, StagesKeep DEF EngineInv
<1> QED
  BY <1>1, <1>2, <1>3, FinishKeeps DEF EngineNext, MayBegin

LEMMA EngineInductive ==
  ASSUME EngineInv, [Next]_vars
  PROVE  EngineInv'
<1>1. CASE Build
  BY <1>1, EngineStepKeeps DEF Build
<1>2. CASE OpenTrade
  <2>1. signal' = None /\ UNCHANGED <<tuning, caller, job>>
    BY <1>2 DEF OpenTrade
  <2> QED
    BY <2>1, EngineSame
<1>3. CASE ForwardBar \/ EndOfData \/ UNCHANGED vars
  <2>1. UNCHANGED <<tuning, caller, job, signal>>
    BY <1>3 DEF ForwardBar, EndOfData, vars, engineVars
  <2> QED
    BY <2>1, EngineSame
<1> QED
  BY <1>1, <1>2, <1>3 DEF Next

LEMMA EngineBegins == Init => EngineInv
<1> SUFFICES ASSUME Init PROVE EngineInv
  OBVIOUS
<1>1. tuning = Clean /\ caller = NoCaller /\ job = NoJob /\ signal = None
  BY DEF Init, EngineInit
<1> QED
  BY <1>1 DEF EngineInv, PipeInv, JobInv, CallerInv, CallerKinds, Clean, NoCaller, NoJob, CallerHolds

\* Whatever a run of the pipeline does, raising included, each caller finds its
\* own tuning and patches again (_restore_filters, TuningScope.__exit__, the
\* finally of run_symbol_group and reset_tuning), for every override, detection
\* and number of runs.
THEOREM TuningRestored == Spec => []Restored
<1>1. EngineInv => Restored
  <2> SUFFICES ASSUME EngineInv, job.pc = "idle" PROVE Restored
    BY DEF Restored
  <2>1. tuning = CallerHolds(caller) /\ CallerKinds
    BY DEF EngineInv, CallerInv
  <2>2. get_tuning = TuningOf(tuning)
    BY DEF get_tuning, TuningOf
  <2>3. get_tuning = IF caller.o = None THEN Default ELSE from_dict(caller.o)
    BY <2>1, <2>2, HeldIs
  <2>4. caller.at = "grid" => caller.o # None
    BY <2>1, EngineAssumption DEF CallerKinds
  <2> QED
    BY <2>1, <2>3, <2>4 DEF Restored, TuningIs, CallerHolds, Clean, CallerKinds
<1> QED
  BY <1>1, EngineBegins, EngineInductive, PTL DEF Spec

\* A signal the pipeline hands over is executable at the stop it is sent with,
\* keeps the gates it was graded by, and is the best of those scored
\* (score_candidate, rank_signals, apply_stability), for every frame,
\* detection and override.
THEOREM SignalsSound == Spec => []SignalSound
<1>1. Init => EngineInv
  BY EngineBegins
<1>2. EngineInv => SignalSound
  <2> SUFFICES ASSUME EngineInv PROVE SignalSound
    OBVIOUS
  <2>1. Executable
    BY DEF EngineInv, PipeInv, GoodSig, SigOrdered, Executable
  <2>2. GatesKept
    BY DEF EngineInv, PipeInv, GoodSig, SigGated, GatesKept
  <2>3. BestKept
    <3> SUFFICES ASSUME job.pc = "restore", job.out \notin {None, Raised}
                 PROVE  /\ \A i \in DOMAIN job.scored :
                              /\ job.scored[i].tradable => job.out.tradable
                              /\ job.scored[i].grade = "A" => job.out.grade = "A"
                              /\ job.scored[i].grade = job.out.grade => job.scored[i].score <= job.out.score
                        /\ job.out.stability # None => job.out.stability > 20
      BY DEF BestKept
    <3>1. JobBest /\ JobLists
      BY DEF EngineInv, PipeInv, JobInv, NoJob
    <3>2. GoodSig(job.out)
      BY <3>1 DEF JobBest
    <3>3. ASSUME NEW i \in DOMAIN job.scored
          PROVE  /\ job.scored[i].tradable => job.out.tradable
                 /\ job.scored[i].grade = "A" => job.out.grade = "A"
                 /\ job.scored[i].grade = job.out.grade => job.scored[i].score <= job.out.score
      <4> DEFINE s == job.scored[i]
                 o == job.out
      <4>1. i \in 1..Len(job.scored)
        BY <3>1, ListFacts DEF JobLists, SigList
      <4>2. GoodSig(s) /\ ~Better(RankOf(s), RankOf(o))
        BY <3>1, <4>1 DEF JobLists, SigList, JobBest
      <4> HIDE DEF s, o
      <4>3. GoodSig(o)
        BY <3>2 DEF o
      <4>4. /\ s.grade \in {"A", "B", Reference} /\ o.grade \in {"A", "B", Reference}
            /\ s.tradable = (s.grade # Reference) /\ o.tradable = (o.grade # Reference)
        BY <4>2, <4>3 DEF GoodSig, SigGraded
      <4>5. /\ RankOf(s)[1] = IF s.grade = "A" THEN 3 ELSE IF s.grade = "B" THEN 2 ELSE 0
            /\ RankOf(o)[1] = IF o.grade = "A" THEN 3 ELSE IF o.grade = "B" THEN 2 ELSE 0
            /\ RankOf(s)[2] = s.score /\ s.score \in Int /\ RankOf(o)[2] = o.score /\ o.score \in Int
        BY <4>2, <4>3, RankIs
      <4>6. s.grade # Reference => o.grade # Reference
        BY <4>2, <4>4, <4>5 DEF Better, Reference
      <4>7. s.tradable => o.tradable
        BY <4>4, <4>6, Zenon
      <4>8. s.grade = "A" => o.grade = "A"
        BY <4>2, <4>4, <4>5 DEF Better, Reference
      <4>9. s.grade = o.grade => s.score <= o.score
        BY <4>2, <4>5 DEF Better
      <4> QED
        BY <4>7, <4>8, <4>9 DEF s, o
    <3>4. job.out.stability # None => job.out.stability > 20
      BY <3>2 DEF GoodSig, SigGraded
    <3> QED
      BY <3>3, <3>4
  <2> QED
    BY <2>1, <2>2, <2>3 DEF SignalSound
<1> QED
  BY <1>1, <1>2, EngineInductive, PTL DEF Spec

-----------------------------------------------------------------------------
(* The position manager *)

PosShape(p) ==
    p = [bullish |-> p.bullish, entry_price |-> p.entry_price, current_stop |-> p.current_stop,
         tp1 |-> p.tp1, tp2 |-> p.tp2, tp3 |-> p.tp3, trail |-> p.trail, cd_leg_bars |-> p.cd_leg_bars,
         bars_held |-> p.bars_held, size_remaining |-> p.size_remaining, tp1_hit |-> p.tp1_hit, tp2_hit |-> p.tp2_hit,
         closed |-> p.closed, close_reason |-> p.close_reason, extreme |-> p.extreme]
\* What never changes while a position is managed.
Frozen(p, q) ==
    /\ q.bullish = p.bullish /\ q.entry_price = p.entry_price /\ q.tp1 = p.tp1 /\ q.tp2 = p.tp2 /\ q.tp3 = p.tp3
    /\ q.trail = p.trail
PosNums(p) ==
    /\ p.entry_price \in Int /\ p.current_stop \in Int /\ p.tp1 \in Int /\ p.tp2 \in Int /\ p.tp3 \in Int
    /\ p.trail \in Int /\ p.extreme \in Int
PosFlags(p) == p.tp1_hit \in BOOLEAN /\ p.tp2_hit \in BOOLEAN /\ p.closed \in BOOLEAN
Hit1(p, bar) == p.tp1_hit \/ tp_hit(bar, p.tp1, p.bullish)
Hit2(p, bar) == Hit1(p, bar) /\ (p.tp2_hit \/ tp_hit(bar, p.tp2, p.bullish))
Hit3(p, bar) == Hit2(p, bar) /\ tp_hit(bar, p.tp3, p.bullish)
Extreme1(p, bar) == IF Hit1(p, bar) /\ ~p.tp1_hit THEN Best(bar, p.bullish) ELSE p.extreme
Stop1(p, bar) ==
    IF Hit2(p, bar) /\ ~p.tp2_hit THEN p.tp1
    ELSE IF Hit1(p, bar) /\ ~p.tp1_hit THEN p.entry_price ELSE p.current_stop

Changed(p, q, a, b, x, n, s) ==
    q = [p EXCEPT !.tp1_hit = a, !.tp2_hit = b, !.extreme = x, !.size_remaining = n, !.current_stop = s]
LEMMA ExceptIs ==
  ASSUME NEW p, NEW q, NEW a, NEW b, NEW x, NEW n, NEW s, PosShape(p), Changed(p, q, a, b, x, n, s)
  PROVE  /\ PosShape(q) /\ Frozen(p, q) /\ q.tp1_hit = a /\ q.tp2_hit = b /\ q.extreme = x
         /\ q.current_stop = s /\ q.closed = p.closed /\ q.close_reason = p.close_reason
<1> DEFINE q1 == [p EXCEPT !.tp1_hit = a]
           q2 == [q1 EXCEPT !.tp2_hit = b]
           q3 == [q2 EXCEPT !.extreme = x]
           q4 == [q3 EXCEPT !.size_remaining = n]
           q5 == [q4 EXCEPT !.current_stop = s]
<1>0. q = q5
  BY Zenon DEF Changed
<1>1. PosShape(q1) /\ Frozen(p, q1) /\ q1.tp1_hit = a /\ q1.closed = p.closed /\ q1.close_reason = p.close_reason
  BY DEF PosShape, Frozen
<1> HIDE DEF q1
<1>2. PosShape(q2) /\ Frozen(p, q2) /\ q2.tp1_hit = a /\ q2.tp2_hit = b /\ q2.closed = p.closed /\ q2.close_reason = p.close_reason
  BY <1>1 DEF PosShape, Frozen
<1> HIDE DEF q2
<1>3. /\ PosShape(q3) /\ Frozen(p, q3) /\ q3.tp1_hit = a /\ q3.tp2_hit = b /\ q3.extreme = x
      /\ q3.closed = p.closed /\ q3.close_reason = p.close_reason
  BY <1>2 DEF PosShape, Frozen
<1> HIDE DEF q3
<1>4. /\ PosShape(q4) /\ Frozen(p, q4) /\ q4.tp1_hit = a /\ q4.tp2_hit = b /\ q4.extreme = x
      /\ q4.closed = p.closed /\ q4.close_reason = p.close_reason
  BY <1>3 DEF PosShape, Frozen
<1> HIDE DEF q4
<1>5. /\ PosShape(q5) /\ Frozen(p, q5) /\ q5.tp1_hit = a /\ q5.tp2_hit = b /\ q5.extreme = x
      /\ q5.current_stop = s /\ q5.closed = p.closed /\ q5.close_reason = p.close_reason
  BY <1>4 DEF PosShape, Frozen
<1> HIDE DEF q5
<1> QED
  BY <1>0, <1>5

\* The bar's targets.
LEMMA TakenIs ==
  ASSUME NEW p, NEW bar, PosShape(p), PosFlags(p)
  PROVE  LET q == TakeProfits(p, bar)
         IN  /\ PosShape(q) /\ PosFlags(q) /\ Frozen(p, q)
             /\ q.tp1_hit = Hit1(p, bar) /\ q.tp2_hit = Hit2(p, bar) /\ q.extreme = Extreme1(p, bar)
             /\ q.current_stop = Stop1(p, bar)
             /\ Hit3(p, bar) => q.closed = TRUE /\ q.close_reason = "tp3"
             /\ ~Hit3(p, bar) => q.closed = p.closed /\ q.close_reason = p.close_reason
<1> DEFINE size == IF Hit2(p, bar) THEN 2 ELSE IF Hit1(p, bar) THEN 5 ELSE 10
           h1 == Hit1(p, bar)
           h2 == Hit2(p, bar)
           q == [p EXCEPT !.tp1_hit = h1, !.tp2_hit = h2, !.extreme = Extreme1(p, bar),
                          !.size_remaining = size, !.current_stop = Stop1(p, bar)]
           r == TakeProfits(p, bar)
<1>1. r = IF Hit3(p, bar) THEN Close(q, "tp3") ELSE q
  BY Zenon DEF TakeProfits, Hit1, Hit2, Hit3, Extreme1, Stop1
<1>2. h1 \in BOOLEAN /\ h2 \in BOOLEAN
  BY DEF Hit1, Hit2, PosFlags
<1> HIDE DEF h1, h2, size, r
<1>3. /\ PosShape(q) /\ Frozen(p, q) /\ q.tp1_hit = h1 /\ q.tp2_hit = h2 /\ q.extreme = Extreme1(p, bar)
      /\ q.current_stop = Stop1(p, bar) /\ q.closed = p.closed /\ q.close_reason = p.close_reason
  <2> DEFINE e == Extreme1(p, bar)
             s == Stop1(p, bar)
  <2>1. Changed(p, q, h1, h2, e, size, s)
    BY DEF Changed
  <2> HIDE DEF q, e, s
  <2>2. /\ PosShape(q) /\ Frozen(p, q) /\ q.tp1_hit = h1 /\ q.tp2_hit = h2 /\ q.extreme = e
        /\ q.current_stop = s /\ q.closed = p.closed /\ q.close_reason = p.close_reason
    BY <2>1, ExceptIs
  <2> QED
    BY <2>2 DEF e, s
<1> HIDE DEF q
<1>4. CASE Hit3(p, bar)
  <2>1. r = [q EXCEPT !.closed = TRUE, !.size_remaining = 0, !.close_reason = "tp3"]
    BY <1>1, <1>4 DEF Close
  <2>2. /\ PosShape(r) /\ Frozen(p, r) /\ r.tp1_hit = h1 /\ r.tp2_hit = h2 /\ r.extreme = Extreme1(p, bar)
        /\ r.current_stop = Stop1(p, bar) /\ r.closed = TRUE /\ r.close_reason = "tp3"
    BY <1>3, <2>1 DEF PosShape, Frozen
  <2> QED
    BY <1>2, <1>4, <2>2 DEF PosFlags, h1, h2, r
<1>5. CASE ~Hit3(p, bar)
  BY <1>1, <1>2, <1>3, <1>5 DEF PosFlags, h1, h2, r
<1> QED
  BY <1>4, <1>5

Extreme2(p, bar) == IF Gain(p.bullish, Best(bar, p.bullish), p.extreme) THEN Best(bar, p.bullish) ELSE p.extreme
Trailed(p, x) == IF p.bullish THEN x - p.trail ELSE x + p.trail

LEMMA RatchetIs ==
  ASSUME NEW p, NEW bar, PosShape(p), PosFlags(p)
  PROVE  LET r == Ratchet(p, bar)
         IN  /\ PosShape(r) /\ PosFlags(r) /\ Frozen(p, r)
             /\ r.tp1_hit = p.tp1_hit /\ r.tp2_hit = p.tp2_hit
             /\ r.closed = p.closed /\ r.close_reason = p.close_reason
             /\ (~p.tp1_hit \/ p.closed) => r = p
             /\ (p.tp1_hit /\ ~p.closed) =>
                   /\ r.extreme = Extreme2(p, bar)
                   /\ r.current_stop = IF Gain(p.bullish, Trailed(p, Extreme2(p, bar)), p.current_stop)
                                       THEN Trailed(p, Extreme2(p, bar)) ELSE p.current_stop
<1> DEFINE r == Ratchet(p, bar)
           x == Extreme2(p, bar)
           q == [p EXCEPT !.extreme = x]
<1>1. r = IF ~p.tp1_hit \/ p.closed THEN p
          ELSE IF Gain(q.bullish, chandelier_stop(q), q.current_stop)
               THEN [q EXCEPT !.current_stop = chandelier_stop(q)] ELSE q
  BY DEF Ratchet, Extreme2, PosShape
<1> HIDE DEF r, x
<1>2. /\ PosShape(q) /\ Frozen(p, q) /\ q.tp1_hit = p.tp1_hit /\ q.tp2_hit = p.tp2_hit /\ q.extreme = x
      /\ q.current_stop = p.current_stop /\ q.closed = p.closed /\ q.close_reason = p.close_reason
  BY DEF PosShape, Frozen
<1> HIDE DEF q
<1>3. chandelier_stop(q) = Trailed(p, x)
  BY <1>2 DEF chandelier_stop, Trailed, Frozen
<1>4. CASE ~p.tp1_hit \/ p.closed
  <2>1. r = p
    BY <1>1, <1>4
  <2> QED
    BY <1>4, <2>1 DEF r, Frozen
<1>5. CASE ~(~p.tp1_hit \/ p.closed) /\ Gain(p.bullish, Trailed(p, x), p.current_stop)
  <2>1. r = [q EXCEPT !.current_stop = Trailed(p, x)]
    BY <1>1, <1>2, <1>3, <1>5 DEF Frozen
  <2>2. /\ PosShape(r) /\ Frozen(p, r) /\ r.tp1_hit = p.tp1_hit /\ r.tp2_hit = p.tp2_hit /\ r.extreme = x
        /\ r.current_stop = Trailed(p, x) /\ r.closed = p.closed /\ r.close_reason = p.close_reason
    BY <1>2, <2>1 DEF PosShape, Frozen
  <2> QED
    BY <1>5, <2>2 DEF r, x, PosFlags
<1>6. CASE ~(~p.tp1_hit \/ p.closed) /\ ~Gain(p.bullish, Trailed(p, x), p.current_stop)
  <2>1. r = q
    BY <1>1, <1>2, <1>3, <1>6 DEF Frozen
  <2> QED
    BY <1>2, <1>6, <2>1 DEF r, x, PosFlags
<1> QED
  BY <1>4, <1>5, <1>6

Shut(p, q, reason) ==
    /\ PosShape(q) /\ PosFlags(q) /\ Frozen(p, q) /\ q.tp1_hit = p.tp1_hit /\ q.tp2_hit = p.tp2_hit
    /\ q.current_stop = p.current_stop /\ q.extreme = p.extreme /\ q.closed = TRUE /\ q.close_reason = reason
Held(p, q) ==
    /\ PosShape(q) /\ PosFlags(q) /\ Frozen(p, q) /\ q.tp1_hit = p.tp1_hit /\ q.tp2_hit = p.tp2_hit
    /\ q.current_stop = p.current_stop /\ q.extreme = p.extreme /\ q.closed = p.closed /\ q.close_reason = p.close_reason

\* What a bar does: nothing to a closed position; else the stop, the time or
\* the targets.
LEMMA BarIs ==
  ASSUME NEW p, NEW bar, PosShape(p), PosFlags(p)
  PROVE  LET q == process_bar(p, bar)
         IN  \/ p.closed /\ q = p
             \/ ~p.closed /\ stop_hit(bar, p.current_stop, p.bullish) /\ Shut(p, q, "stop")
             \/ ~p.closed /\ ~stop_hit(bar, p.current_stop, p.bullish) /\ Shut(p, q, "time_stop")
             \/ /\ ~p.closed /\ ~stop_hit(bar, p.current_stop, p.bullish)
                /\ \E r : Held(p, r) /\ q = Ratchet(TakeProfits(r, bar), bar)
<1> DEFINE r == [p EXCEPT !.bars_held = @ + 1]
           q == process_bar(p, bar)
<1>1. Held(p, r)
  BY DEF Held, PosShape, Frozen, PosFlags
<1>2. q = IF p.closed THEN p
          ELSE IF stop_hit(bar, r.current_stop, r.bullish) THEN Close(r, "stop")
          ELSE IF Expired(r) THEN Close(r, "time_stop")
          ELSE Ratchet(TakeProfits(r, bar), bar)
  BY Zenon DEF process_bar
<1> HIDE DEF r, q
<1>3. r.current_stop = p.current_stop /\ r.bullish = p.bullish
  BY <1>1 DEF Held, Frozen
<1>4. ASSUME NEW reason PROVE Shut(p, Close(r, reason), reason)
  <2> DEFINE z == Close(r, reason)
  <2>1. z = [r EXCEPT !.closed = TRUE, !.size_remaining = 0, !.close_reason = reason]
    BY DEF Close
  <2>2. /\ PosShape(z) /\ Frozen(r, z) /\ z.tp1_hit = r.tp1_hit /\ z.tp2_hit = r.tp2_hit
        /\ z.current_stop = r.current_stop /\ z.extreme = r.extreme /\ z.closed = TRUE /\ z.close_reason = reason
    <3> HIDE DEF z
    <3> QED
      BY <1>1, <2>1 DEF Held, PosShape, Frozen
  <2> HIDE DEF z
  <2> QED
    BY <1>1, <2>2 DEF Held, Shut, PosFlags, Frozen, z
<1> QED
  BY <1>1, <1>2, <1>3, <1>4 DEF q

BarNums(bar) == bar.l \in Int /\ bar.h \in Int
\* The stop of an open position is where its targets have put it, or where the
\* trailing stop is.
PosGood(p) ==
    ~p.closed =>
        /\ Gain(p.bullish, p.tp1, p.entry_price)
        /\ ~p.tp1_hit => ~p.tp2_hit /\ Gain(p.bullish, p.entry_price, p.current_stop)
        /\ (p.tp1_hit /\ ~p.tp2_hit) =>
              Gain(p.bullish, p.tp1, p.current_stop) \/ Gain(p.bullish, Trailed(p, p.extreme), p.current_stop)

LEMMA GainOrders ==
  ASSUME NEW b, NEW x, NEW y, NEW z, x \in Int, y \in Int, z \in Int
  PROVE  /\ Gain(b, x, x) /\ (Gain(b, x, y) \/ Gain(b, y, x))
         /\ Gain(b, x, y) /\ Gain(b, y, z) => Gain(b, x, z)
BY DEF Gain

\* A bar that leaves the position open moves its stop in its favour only.
LEMMA StopMoves ==
  ASSUME NEW p, NEW r, NEW bar, NEW q, PosNums(p), PosShape(p), PosFlags(p), PosGood(p), BarNums(bar), ~p.closed,
         Held(p, r), q = Ratchet(TakeProfits(r, bar), bar)
  PROVE  /\ PosShape(q) /\ PosFlags(q) /\ PosNums(q) /\ PosGood(q) /\ Frozen(p, q)
         /\ ~q.closed => Gain(p.bullish, q.current_stop, p.current_stop)
         /\ q.tp1_hit = Hit1(p, bar)
         /\ ~q.tp1_hit => ~q.closed /\ q.current_stop = p.current_stop
         /\ ~q.closed => q.close_reason = p.close_reason
         /\ q.closed => q.close_reason = "tp3"
<1> DEFINE u == TakeProfits(r, bar)
<1>1. PosShape(r) /\ PosFlags(r)
  BY DEF Held
<1>2. /\ Hit1(r, bar) = Hit1(p, bar) /\ Hit2(r, bar) = Hit2(p, bar) /\ Hit3(r, bar) = Hit3(p, bar)
      /\ Extreme1(r, bar) = Extreme1(p, bar) /\ Stop1(r, bar) = Stop1(p, bar)
  BY DEF Held, Frozen, Hit1, Hit2, Hit3, Extreme1, Stop1
<1>3. /\ PosShape(u) /\ PosFlags(u) /\ Frozen(p, u)
      /\ u.tp1_hit = Hit1(p, bar) /\ u.tp2_hit = Hit2(p, bar) /\ u.extreme = Extreme1(p, bar)
      /\ u.current_stop = Stop1(p, bar)
      /\ Hit3(p, bar) => u.closed = TRUE /\ u.close_reason = "tp3"
      /\ ~Hit3(p, bar) => u.closed = p.closed /\ u.close_reason = p.close_reason
  <2>1. /\ PosShape(u) /\ PosFlags(u) /\ Frozen(r, u)
        /\ u.tp1_hit = Hit1(r, bar) /\ u.tp2_hit = Hit2(r, bar) /\ u.extreme = Extreme1(r, bar)
        /\ u.current_stop = Stop1(r, bar)
        /\ Hit3(r, bar) => u.closed = TRUE /\ u.close_reason = "tp3"
        /\ ~Hit3(r, bar) => u.closed = r.closed /\ u.close_reason = r.close_reason
    BY <1>1, TakenIs
  <2> HIDE DEF u
  <2>2. Frozen(p, r) /\ r.closed = p.closed /\ r.close_reason = p.close_reason
    BY DEF Held
  <2>3. Frozen(p, u)
    BY <2>1, <2>2 DEF Frozen
  <2>4. u.tp1_hit = Hit1(p, bar) /\ u.tp2_hit = Hit2(p, bar)
    BY <1>2, <2>1, Zenon
  <2>5. u.extreme = Extreme1(p, bar) /\ u.current_stop = Stop1(p, bar)
    BY <1>2, <2>1, Zenon
  <2>6. Hit3(p, bar) => u.closed = TRUE /\ u.close_reason = "tp3"
    BY <1>2, <2>1, Zenon
  <2>7. ~Hit3(p, bar) => u.closed = p.closed /\ u.close_reason = p.close_reason
    BY <1>2, <2>1, <2>2, Zenon
  <2> QED
    BY <2>1, <2>3, <2>4, <2>5, <2>6, <2>7, Zenon
<1> HIDE DEF u
<1>4. /\ PosShape(q) /\ PosFlags(q) /\ Frozen(u, q) /\ q.tp1_hit = u.tp1_hit /\ q.tp2_hit = u.tp2_hit
      /\ q.closed = u.closed /\ q.close_reason = u.close_reason
      /\ (~u.tp1_hit \/ u.closed) => q = u
      /\ (u.tp1_hit /\ ~u.closed) =>
            /\ q.extreme = Extreme2(u, bar)
            /\ q.current_stop = IF Gain(u.bullish, Trailed(u, Extreme2(u, bar)), u.current_stop)
                                THEN Trailed(u, Extreme2(u, bar)) ELSE u.current_stop
  BY <1>3, RatchetIs DEF u
<1>5. Frozen(p, q)
  BY <1>3, <1>4 DEF Frozen
<1>6. Best(bar, p.bullish) \in Int
  BY DEF Best, BarNums
<1>7. Extreme1(p, bar) \in Int /\ Stop1(p, bar) \in Int
  BY <1>6 DEF Extreme1, Stop1, PosNums
<1>8. PosNums(u)
  BY <1>3, <1>7 DEF PosNums, Frozen
<1>9. /\ Extreme2(u, bar) \in Int /\ Trailed(u, Extreme2(u, bar)) \in Int
      /\ Gain(p.bullish, Trailed(u, Extreme2(u, bar)), Trailed(u, u.extreme))
  BY <1>3, <1>6, <1>8 DEF Extreme2, Trailed, PosNums, Frozen, Gain
<1>10. PosNums(q)
  <2>1. CASE ~u.tp1_hit \/ u.closed
    BY <1>4, <1>8, <2>1
  <2>2. CASE u.tp1_hit /\ ~u.closed
    BY <1>4, <1>8, <1>9, <2>2 DEF PosNums, Frozen
  <2> QED
    BY <2>1, <2>2
<1> DEFINE b == p.bullish
<1>11. ASSUME ~q.closed PROVE PosGood(q) /\ Gain(b, q.current_stop, p.current_stop)
  <2>1. ~Hit3(p, bar) /\ ~u.closed
    BY <1>3, <1>4, <1>11
  <2>2. p.entry_price \in Int /\ p.tp1 \in Int /\ p.current_stop \in Int /\ q.current_stop \in Int
    BY <1>10 DEF PosNums
  <2>3. Gain(b, p.tp1, p.entry_price)
    BY DEF PosGood
  <2>4. q.bullish = b /\ q.tp1 = p.tp1 /\ q.entry_price = p.entry_price /\ u.bullish = b
    BY <1>3, <1>5 DEF Frozen
  <2>5. CASE ~Hit1(p, bar)
    <3>1. ~p.tp1_hit /\ ~p.tp2_hit /\ ~Hit2(p, bar)
      BY <2>5 DEF Hit1, Hit2, PosGood
    <3>2. q = u /\ q.current_stop = p.current_stop /\ ~q.tp1_hit /\ ~q.tp2_hit
      BY <1>3, <1>4, <2>5, <3>1 DEF Stop1
    <3>3. Gain(b, p.entry_price, p.current_stop)
      BY <3>1 DEF PosGood
    <3>4. Gain(b, q.current_stop, p.current_stop)
      BY <2>2, <3>2, GainOrders
    <3> QED
      BY <2>3, <2>4, <3>2, <3>3, <3>4 DEF PosGood
  <2>6. CASE Hit1(p, bar)
    <3> DEFINE ch == Trailed(u, Extreme2(u, bar))
    <3>1. /\ u.tp1_hit /\ q.tp1_hit /\ q.extreme = Extreme2(u, bar)
          /\ q.current_stop = IF Gain(b, ch, u.current_stop) THEN ch ELSE u.current_stop
      BY <1>3, <1>4, <2>1, <2>4, <2>6
    <3>2. ch \in Int /\ u.current_stop \in Int /\ Trailed(q, q.extreme) = ch
      BY <1>4, <1>8, <1>9, <3>1 DEF PosNums, Trailed, Frozen
    <3> HIDE DEF ch
    <3>3. Gain(b, q.current_stop, ch) /\ Gain(b, q.current_stop, u.current_stop)
      BY <3>1, <3>2, GainOrders
    <3>4. CASE ~p.tp1_hit
      <4>1. Gain(b, p.entry_price, p.current_stop) /\ ~p.tp2_hit
        BY <3>4 DEF PosGood
      <4>2. u.current_stop \in {p.tp1, p.entry_price} /\ (~Hit2(p, bar) => u.current_stop = p.entry_price)
        BY <1>3, <2>6, <3>4, <4>1 DEF Stop1
      <4>3. Gain(b, p.tp1, u.current_stop) /\ Gain(b, u.current_stop, p.current_stop)
        BY <2>2, <2>3, <4>1, <4>2, GainOrders
      <4>4. Gain(b, q.current_stop, p.current_stop)
        BY <2>2, <3>2, <3>3, <4>3, GainOrders
      <4>5. Gain(b, p.tp1, q.current_stop) \/ Gain(b, ch, q.current_stop)
        BY <3>1, <3>2, <4>3, GainOrders
      <4> QED
        BY <2>3, <2>4, <3>1, <3>2, <4>4, <4>5 DEF PosGood
    <3>5. CASE p.tp1_hit
      <4>1. u.extreme = p.extreme /\ Trailed(u, u.extreme) = Trailed(p, p.extreme) /\ Trailed(p, p.extreme) \in Int
        BY <1>3, <1>8, <3>5 DEF Extreme1, Trailed, Frozen, PosNums
      <4>2. Gain(b, ch, Trailed(p, p.extreme))
        BY <1>9, <4>1 DEF ch
      <4>3. CASE Hit2(p, bar) /\ ~p.tp2_hit
        <5>1. u.current_stop = p.tp1
          BY <1>3, <4>3 DEF Stop1
        <5>2. Gain(b, p.tp1, p.current_stop) \/ Gain(b, Trailed(p, p.extreme), p.current_stop)
          BY <3>5, <4>3 DEF PosGood
        <5>3. Gain(b, q.current_stop, p.current_stop)
          BY <2>2, <3>2, <3>3, <4>1, <4>2, <5>1, <5>2, GainOrders
        <5>4. q.tp2_hit
          BY <1>3, <1>4, <4>3
        <5> QED
          BY <2>3, <2>4, <3>1, <5>3, <5>4 DEF PosGood
      <4>4. CASE ~(Hit2(p, bar) /\ ~p.tp2_hit)
        <5>1. u.current_stop = p.current_stop
          BY <1>3, <3>5, <4>4 DEF Stop1
        <5>2. ~q.tp2_hit => ~p.tp2_hit
          <6>1. q.tp2_hit = Hit2(p, bar)
            BY <1>3, <1>4
          <6>2. p.tp2_hit => Hit2(p, bar)
            BY <2>6 DEF Hit2
          <6> QED
            BY <6>1, <6>2, Zenon
        <5>3. ~p.tp2_hit => Gain(b, p.tp1, p.current_stop) \/ Gain(b, Trailed(p, p.extreme), p.current_stop)
          BY <3>5 DEF PosGood
        <5>4. ~p.tp2_hit => Gain(b, p.tp1, q.current_stop) \/ Gain(b, ch, q.current_stop)
          BY <2>2, <3>1, <3>2, <4>1, <4>2, <5>1, <5>3, GainOrders
        <5>5. Gain(b, q.current_stop, p.current_stop)
          BY <3>3, <5>1
        <5> QED
          BY <2>3, <2>4, <3>1, <3>2, <5>2, <5>4, <5>5 DEF PosGood
      <4> QED
        BY <4>3, <4>4
    <3> QED
      BY <3>4, <3>5
  <2> QED
    BY <2>5, <2>6
<1>12. q.closed => PosGood(q)
  BY DEF PosGood
<1>13. q.tp1_hit = Hit1(p, bar)
  BY <1>3, <1>4
<1>14. ASSUME ~q.tp1_hit PROVE ~q.closed /\ q.current_stop = p.current_stop
  <2>1. ~Hit1(p, bar)
    BY <1>13, <1>14, Zenon
  <2>2. ~Hit2(p, bar) /\ ~Hit3(p, bar) /\ ~p.tp1_hit
    BY <2>1 DEF Hit1, Hit2, Hit3
  <2>3. q = u
    BY <1>4, <1>14
  <2> QED
    BY <1>3, <2>1, <2>2, <2>3 DEF Stop1
<1>15. (~q.closed => q.close_reason = p.close_reason) /\ (q.closed => q.close_reason = "tp3")
  BY <1>3, <1>4
<1> QED
  BY <1>4, <1>5, <1>10, <1>11, <1>12, <1>13, <1>14, <1>15

-----------------------------------------------------------------------------
(* A trade, its position and its simulation *)

TradeNums(tr) == tr.stop \in Int /\ tr.entry \in Int /\ \A i \in 1..3 : tr.tps[i] \in Int
\* The position and _simulate_trade have seen the same of the trade.
Together(p, s, tr) ==
    /\ p.bullish = tr.bullish /\ p.tp1 = tr.tps[1]
    /\ (~p.closed /\ ~p.tp1_hit) => s = "open" /\ p.current_stop = tr.stop /\ p.close_reason = ""
    /\ (~p.closed /\ p.tp1_hit) => s = "tp1" /\ p.close_reason = ""
    /\ (p.closed /\ p.close_reason # "time_stop") =>
          IF p.tp1_hit THEN s = "tp1" /\ p.close_reason \in {"stop", "tp3"} ELSE s = "stop_loss" /\ p.close_reason = "stop"
PosInv(p) == PosShape(p) /\ PosFlags(p) /\ PosNums(p) /\ PosGood(p)
TradeInv ==
    trade # None => PosInv(pos) /\ TradeNums(trade) /\ Together(pos, sim, trade)

\* A bar that holds or ends the position tells the simulation the same.
LEMMA BarTogether ==
  ASSUME NEW p, NEW s, NEW tr, NEW bar, PosInv(p), BarNums(bar), Together(p, s, tr)
  PROVE  LET q == process_bar(p, bar)
         IN  /\ PosInv(q) /\ Together(q, simulate_v3(s, tr, bar), tr)
             /\ (~p.closed /\ ~q.closed) => Gain(p.bullish, q.current_stop, p.current_stop)
<1> DEFINE q == process_bar(p, bar)
           z == simulate_v3(s, tr, bar)
           stopped == stop_hit(bar, p.current_stop, p.bullish)
<1>1. \/ p.closed /\ q = p
      \/ ~p.closed /\ stopped /\ Shut(p, q, "stop")
      \/ ~p.closed /\ ~stopped /\ Shut(p, q, "time_stop")
      \/ ~p.closed /\ ~stopped /\ \E r : Held(p, r) /\ q = Ratchet(TakeProfits(r, bar), bar)
  BY BarIs DEF PosInv
<1>2. s # "open" => z = s
  BY DEF simulate_v3
<1>3. s = "open" /\ stop_hit(bar, tr.stop, tr.bullish) => z = "stop_loss"
  BY DEF simulate_v3
<1>4. s = "open" /\ ~stop_hit(bar, tr.stop, tr.bullish) =>
        z = IF tp_hit(bar, tr.tps[1], tr.bullish) THEN "tp1" ELSE "open"
  BY DEF simulate_v3
<1> HIDE DEF q, z, stopped
<1>5. CASE p.closed /\ q = p
  <2>1. p.close_reason # "time_stop" => z = s
    BY <1>2, <1>5 DEF Together
  <2>2. Together(p, z, tr)
    BY <1>5, <2>1 DEF Together
  <2> QED
    BY <1>5, <2>2 DEF q, z
<1>6. CASE ~p.closed /\ stopped /\ Shut(p, q, "stop")
  <2>1. PosInv(q)
    BY <1>6 DEF PosInv, Shut, PosNums, PosGood, Frozen
  <2>2. ~p.tp1_hit => z = "stop_loss"
    BY <1>3, <1>6 DEF Together, stopped
  <2>3. p.tp1_hit => z = "tp1"
    BY <1>2, <1>6 DEF Together
  <2>4. Together(q, z, tr)
    BY <1>6, <2>2, <2>3 DEF Together, Shut, Frozen
  <2> QED
    BY <1>6, <2>1, <2>4 DEF Shut, q, z
<1>7. CASE ~p.closed /\ ~stopped /\ Shut(p, q, "time_stop")
  <2>1. PosInv(q)
    BY <1>7 DEF PosInv, Shut, PosNums, PosGood, Frozen
  <2>2. Together(q, z, tr)
    BY <1>7 DEF Together, Shut, Frozen
  <2> QED
    BY <1>7, <2>1, <2>2 DEF Shut, q, z
<1>8. CASE ~p.closed /\ ~stopped /\ \E r : Held(p, r) /\ q = Ratchet(TakeProfits(r, bar), bar)
  <2>1. PICK r : Held(p, r) /\ q = Ratchet(TakeProfits(r, bar), bar)
    BY <1>8
  <2>2. /\ PosShape(q) /\ PosFlags(q) /\ PosNums(q) /\ PosGood(q) /\ Frozen(p, q)
        /\ ~q.closed => Gain(p.bullish, q.current_stop, p.current_stop)
        /\ q.tp1_hit = Hit1(p, bar)
        /\ ~q.tp1_hit => ~q.closed /\ q.current_stop = p.current_stop
        /\ ~q.closed => q.close_reason = p.close_reason
        /\ q.closed => q.close_reason = "tp3"
    BY <1>8, <2>1, StopMoves DEF PosInv
  <2>3. ~p.tp1_hit => s = "open" /\ p.current_stop = tr.stop /\ p.close_reason = ""
    BY <1>8 DEF Together
  <2>4. p.tp1_hit => s = "tp1" /\ p.close_reason = ""
    BY <1>8 DEF Together
  <2>5. p.bullish = tr.bullish /\ p.tp1 = tr.tps[1]
    BY DEF Together
  <2>6. Hit1(p, bar) => z = "tp1"
    BY <1>2, <1>4, <1>8, <2>3, <2>4, <2>5 DEF Hit1, stopped
  <2>7. ~Hit1(p, bar) => z = "open" /\ ~p.tp1_hit
    BY <1>4, <1>8, <2>3, <2>5 DEF Hit1, stopped
  <2>8. CASE Hit1(p, bar)
    <3>1. q.tp1_hit
      BY <2>2, <2>8, Zenon
    <3>2. Together(q, z, tr)
      BY <2>2, <2>3, <2>4, <2>5, <2>6, <2>8, <3>1 DEF Together, Frozen
    <3> QED
      BY <2>2, <3>2 DEF PosInv, q, z
  <2>9. CASE ~Hit1(p, bar)
    <3>1. ~q.tp1_hit
      BY <2>2, <2>9, Zenon
    <3>2. Together(q, z, tr)
      BY <2>2, <2>3, <2>5, <2>7, <2>9, <3>1 DEF Together, Frozen
    <3> QED
      BY <2>2, <3>2 DEF PosInv, q, z
  <2> QED
    BY <2>8, <2>9
<1> QED
  BY <1>1, <1>5, <1>6, <1>7, <1>8

\* The bars of the forward window are made of the trade's levels.
LEMMA BarsOfTrade ==
  ASSUME NEW tr, NEW i \in 1..6, NEW j \in 1..6, TradeNums(tr)
  PROVE  BarNums([l |-> Min({Levels(tr)[i], Levels(tr)[j]}), h |-> Max({Levels(tr)[i], Levels(tr)[j]})])
<1>1. tr.tps[1] \in Int /\ tr.tps[2] \in Int /\ tr.tps[3] \in Int /\ tr.stop \in Int /\ tr.entry \in Int
  BY DEF TradeNums
<1>2. (tr.tps[1] + tr.tps[2]) \div 2 \in Int
  BY <1>1
<1>3. ASSUME NEW k \in 1..6 PROVE Levels(tr)[k] \in Int
  <2>1. k = 1 \/ k = 2 \/ k = 3 \/ k = 4 \/ k = 5 \/ k = 6
    OBVIOUS
  <2> DEFINE m == (tr.tps[1] + tr.tps[2]) \div 2
  <2>2. Levels(tr) = <<tr.stop, tr.entry, tr.tps[1], m, tr.tps[2], tr.tps[3]>>
    BY DEF Levels
  <2> HIDE DEF m
  <2> QED
    BY <1>1, <1>2, <2>1, <2>2 DEF m
<1> DEFINE a == Levels(tr)[i]
           b == Levels(tr)[j]
<1>4. a \in Int /\ b \in Int
  BY <1>3
<1> HIDE DEF a, b
<1>5. Min({a, b}) \in Int /\ Max({a, b}) \in Int
  BY <1>4, MinTwo, MaxTwo
<1> QED
  BY <1>5 DEF BarNums, a, b

LEMMA TradeStep ==
  ASSUME EngineInv, TradeInv, [Next]_vars
  PROVE  TradeInv' /\ [StopTightens]_pos
<1>1. CASE Build \/ UNCHANGED vars
  <2>1. UNCHANGED <<pos, trade, sim>>
    BY <1>1 DEF Build, vars, tradeVars
  <2> QED
    BY <2>1 DEF TradeInv
<1>2. CASE OpenTrade
  <2> DEFINE setup(cd) ==
               [bullish |-> signal.bullish, entry_price |-> signal.entry, initial_stop |-> signal.stop,
                tp1 |-> signal.tps[1], tp2 |-> signal.tps[2], tp3 |-> signal.tps[3],
                atr |-> signal.atr, cd_leg_bars |-> cd]
             tr(entry) == [bullish |-> signal.bullish, entry |-> entry, stop |-> signal.stop, tps |-> signal.tps]
  <2>1. PICK cd \in CdLegs, entry \in {signal.entry, signal.price} : trade' = tr(entry) /\ Open(setup(cd))
    BY <1>2 DEF OpenTrade
  <2>2. sim' = "open" /\ signal # None /\ pos.closed
    BY <1>2, <2>1 DEF OpenTrade, Open
  <2>3. SigPrices(signal)
    BY <2>2 DEF EngineInv, PipeInv, GoodSig
  <2>4. TradeNums(trade')
    BY <2>1, <2>3 DEF TradeNums, SigPrices
  <2> DEFINE s == setup(cd)
  <2>5. ValidSetup(s) /\ pos' = Opened(s)
    BY <2>1 DEF Open
  <2>6. /\ s.bullish = signal.bullish /\ s.entry_price = signal.entry /\ s.initial_stop = signal.stop
        /\ s.tp1 = signal.tps[1]
    OBVIOUS
  <2> HIDE DEF s
  <2>7. /\ s.entry_price \in Nat /\ s.initial_stop \in Nat /\ s.tp1 \in Nat /\ s.tp2 \in Nat /\ s.tp3 \in Nat /\ s.atr \in Nat
        /\ Gain(s.bullish, s.entry_price, s.initial_stop) /\ Gain(s.bullish, s.tp1, s.entry_price)
    BY <2>5 DEF ValidSetup
  <2>8. PosShape(pos')
    BY <2>5 DEF Opened, PosShape
  <2>9. /\ pos'.bullish = s.bullish /\ pos'.entry_price = s.entry_price /\ pos'.current_stop = s.initial_stop
        /\ pos'.tp1 = s.tp1 /\ pos'.tp2 = s.tp2 /\ pos'.tp3 = s.tp3 /\ pos'.trail = 2 * s.atr
        /\ pos'.tp1_hit = FALSE /\ pos'.tp2_hit = FALSE /\ pos'.closed = FALSE /\ pos'.close_reason = ""
        /\ pos'.extreme = s.entry_price
    BY <2>5 DEF Opened
  <2>10. PosInv(pos')
    <3>1. PosFlags(pos')
      BY <2>9 DEF PosFlags
    <3>2. PosNums(pos')
      <4>1. 2 * s.atr \in Int
        BY <2>7
      <4>2. \A n \in Nat : n \in Int
        OBVIOUS
      <4>3. pos'.trail \in Int
        BY <2>9, <4>1, Zenon
      <4>4. pos'.entry_price \in Int /\ pos'.current_stop \in Int /\ pos'.extreme \in Int
        BY <2>7, <2>9, <4>2, Zenon
      <4>5. pos'.tp1 \in Int /\ pos'.tp2 \in Int /\ pos'.tp3 \in Int
        BY <2>7, <2>9, <4>2, Zenon
      <4> QED
        BY <4>3, <4>4, <4>5 DEF PosNums
    <3>3. PosGood(pos')
      BY <2>7, <2>9 DEF PosGood
    <3> QED
      BY <2>8, <3>1, <3>2, <3>3 DEF PosInv
  <2>11. Together(pos', sim', trade')
    BY <2>1, <2>2, <2>6, <2>9 DEF Together
  <2> QED
    BY <2>2, <2>4, <2>10, <2>11 DEF TradeInv, StopTightens
<1>3. CASE ForwardBar
  <2>1. trade # None /\ PosInv(pos) /\ TradeNums(trade) /\ Together(pos, sim, trade)
    BY <1>3 DEF ForwardBar, Idle, TradeInv
  <2> DEFINE bar(i, j) == [l |-> Min({Levels(trade)[i], Levels(trade)[j]}), h |-> Max({Levels(trade)[i], Levels(trade)[j]})]
  <2>2. PICK i \in 1..6, j \in 1..6 : pos' = process_bar(pos, bar(i, j)) /\ sim' = simulate_v3(sim, trade, bar(i, j))
    BY <1>3, Zenon DEF ForwardBar
  <2>3. BarNums(bar(i, j))
    BY <2>1, BarsOfTrade
  <2> HIDE DEF bar
  <2>4. /\ PosInv(pos') /\ Together(pos', sim', trade)
        /\ (~pos.closed /\ ~pos'.closed) => Gain(pos.bullish, pos'.current_stop, pos.current_stop)
    BY <2>1, <2>2, <2>3, BarTogether
  <2>5. trade' = trade
    BY <1>3 DEF ForwardBar
  <2> QED
    BY <2>1, <2>4, <2>5 DEF TradeInv, StopTightens
<1>4. CASE EndOfData
  <2>1. pos' = Flat /\ trade' = None
    BY <1>4 DEF EndOfData
  <2>2. pos'.closed
    BY <2>1 DEF Flat
  <2> QED
    BY <2>1, <2>2 DEF TradeInv, StopTightens
<1> QED
  BY <1>1, <1>2, <1>3, <1>4 DEF Next

LEMMA TradeInit ==
  ASSUME Init
  PROVE  EngineInv /\ TradeInv
BY EngineBegins DEF Init, TradeInv

\* "Never moves the stop backwards": from bar to bar the stop of a position that
\* stays open only tightens (process_bar, also on the bar of TP2), for every
\* signal the engine hands over and every sequence of bars.
THEOREM StopsTighten == Spec => StopNeverRetreats
<1>1. EngineInv /\ TradeInv /\ [Next]_vars => (EngineInv /\ TradeInv)' /\ [StopTightens]_pos
  BY EngineInductive, TradeStep
<1>2. Init => EngineInv /\ TradeInv
  BY TradeInit
<1> QED
  BY <1>1, <1>2, PTL DEF Spec, StopNeverRetreats

\* The position manager and _simulate_trade agree on whether the stop or TP1
\* came first until the time stop ends the position, for every trade and every
\* sequence of bars.
THEOREM SimulatorsDoAgree == Spec => []SimulatorsAgree
<1>1. EngineInv /\ TradeInv /\ [Next]_vars => (EngineInv /\ TradeInv)'
  BY EngineInductive, TradeStep
<1>2. Init => EngineInv /\ TradeInv
  BY TradeInit
<1>3. TradeInv => SimulatorsAgree
  <2> SUFFICES ASSUME TradeInv, trade # None, pos.close_reason # "time_stop"
               PROVE  /\ (sim = "stop_loss") <=> (pos.close_reason = "stop" /\ ~pos.tp1_hit)
                      /\ (sim = "tp1") <=> pos.tp1_hit
    BY DEF SimulatorsAgree, Idle
  <2>1. PosFlags(pos) /\ Together(pos, sim, trade)
    BY DEF TradeInv, PosInv
  <2>2. CASE pos.tp1_hit
    <3>1. sim = "tp1"
      BY <2>1, <2>2 DEF Together, PosFlags
    <3> QED
      BY <2>2, <3>1
  <2>3. CASE ~pos.tp1_hit
    <3>1. (~pos.closed /\ sim = "open" /\ pos.close_reason = "") \/ (sim = "stop_loss" /\ pos.close_reason = "stop")
      BY <2>1, <2>3 DEF Together, PosFlags
    <3> QED
      BY <2>3, <3>1
  <2> QED
    BY <2>2, <2>3
<1> QED
  BY <1>1, <1>2, <1>3, PTL DEF Spec

-----------------------------------------------------------------------------
(* The validators of a walk-forward run *)

LEMMA ListSumOne ==
  ASSUME NEW s, Len(s) = 1, s[1] \in Int
  PROVE  ListSum(s) = s[1]
<1> DEFINE Fun(f) == f = [i \in 0..Len(s) |-> IF i = 0 THEN 0 ELSE f[i - 1] + s[i]]
           g == [i \in 0..1 |-> IF i = 0 THEN 0 ELSE s[1]]
<1>1. g[0] = 0 /\ g[1] = s[1] /\ 0 + s[1] = s[1]
  OBVIOUS
<1>2. ASSUME NEW i \in 0..1 PROVE g[i] = IF i = 0 THEN 0 ELSE g[i - 1] + s[i]
  <2>1. i = 0 \/ (i = 1 /\ i - 1 = 0)
    OBVIOUS
  <2> HIDE DEF g
  <2> QED
    BY <1>1, <2>1
<1>3. Fun(g)
  BY <1>2
<1> DEFINE F == CHOOSE f : Fun(f)
<1>4. Fun(F)
  <2> HIDE DEF Fun, g
  <2> QED
    BY <1>3
<1>5. ListSum(s) = F[1]
  BY DEF ListSum
<1> HIDE DEF F
<1>6. F[0] = 0 /\ F[1] = F[0] + s[1]
  BY <1>4
<1> QED
  BY <1>5, <1>6

\* One quarter the heuristics call imbalanced is skewed for the aggregation.
LEMMA OneBlobSkewed ==
  ASSUME NEW m, NEW regs, m \in Blobs, DOMAIN regs = 1..1, Len(regs) = 1, regs[1] = m.regimes, regime_imbalance(m)
  PROVE  aggregate_regimes(regs).skewed
<1> DEFINE names == UNION {DOMAIN b : b \in Range(regs)}
           D == DOMAIN m.regimes
           total == SumFunction([r \in names |-> RegimeTrades(regs, r)])
<1>1. names = D
  <2>1. Range(regs) = {m.regimes}
    <3>1. \A i \in 1..1 : i = 1
      OBVIOUS
    <3> QED
      BY <3>1 DEF Range
  <2> QED
    BY <2>1
<1>2. ASSUME NEW r \in D PROVE RegimeTrades(regs, r) = m.regimes[r].n
  <2> DEFINE s == [i \in DOMAIN regs |-> IF r \in DOMAIN regs[i] THEN regs[i][r].n ELSE 0]
  <2>1. DOMAIN s = 1..1 /\ s[1] = m.regimes[r].n
    OBVIOUS
  <2>2. s \in [1..1 -> {m.regimes[r].n}]
    OBVIOUS
  <2>3. Len(s) = 1
    <3> HIDE DEF s
    <3> QED
      BY <2>2
  <2>4. s[1] \in Int
    BY <2>1, SearchAssumption
  <2> HIDE DEF s
  <2>5. ListSum(s) = s[1]
    BY <2>3, <2>4, ListSumOne
  <2> QED
    BY <2>1, <2>5 DEF s, RegimeTrades
<1>3. total = TradeSum(m)
  <2>1. [r \in names |-> RegimeTrades(regs, r)] = [r \in D |-> m.regimes[r].n]
    BY <1>1, <1>2
  <2> QED
    BY <2>1 DEF TradeSum
<1>4. TradeSum(m) \in Nat /\ \A r \in D : m.regimes[r].n \in Nat
  BY SearchAssumption
<1>5. TradeSum(m) >= 10 /\ \E r \in D : m.regimes[r].n * 100 > SKEW * TradeSum(m)
  BY DEF regime_imbalance, Counts
<1>6. aggregate_regimes(regs).skewed = (total > 0 /\ \E r \in names : RegimeTrades(regs, r) * 100 >= SKEW * total)
  BY DEF aggregate_regimes
<1> HIDE DEF total, names
<1>7. PICK r \in D : m.regimes[r].n * 100 > SKEW * TradeSum(m)
  BY <1>5
<1>8. m.regimes[r].n * 100 >= SKEW * TradeSum(m) /\ TradeSum(m) > 0
  BY <1>4, <1>5, <1>7 DEF SKEW
<1>9. total > 0 /\ \E q \in names : RegimeTrades(regs, q) * 100 >= SKEW * total
  BY <1>1, <1>2, <1>3, <1>8
<1> QED
  BY <1>6, <1>9, Zenon

LEMMA WalkAgrees ==
  ASSUME WalkForward
  PROVE  ValidatorsAgree'
<1> DEFINE blobsOf(l) == [i \in DOMAIN l |-> l[i].m]
           oosOf(qs) == IF qs[Quarters] = None THEN [passed |-> FALSE, mean |-> 0]
                        ELSE oos_validate(SubSeq(blobsOf(Ran(qs)), 1, Len(blobsOf(Ran(qs))) - 1), qs[Quarters])
           regsOf(l) == [i \in DOMAIN blobsOf(l) |-> blobsOf(l)[i].regimes]
<1>1. PICK qs \in [1..Quarters -> Blobs \cup {None}] :
          quarters' = [done |-> TRUE, aggregate |-> aggregate(qs), blobs |-> blobsOf(Ran(qs)),
                       oosRan |-> qs[Quarters] # None, oos |-> oosOf(qs), regimes |-> aggregate_regimes(regsOf(Ran(qs)))]
  BY DEF WalkForward
<1> DEFINE n == Quarters
           all == [i \in DOMAIN qs |-> [q |-> i, m |-> qs[i]]]
           I == {i \in DOMAIN qs : qs[i] # None}
           R == Ran(qs)
           Z == {all[i] : i \in I \cap (1..Len(all))}
           blobs == blobsOf(R)
           oos == oosOf(qs)
           regs == regsOf(R)
<1>2. n \in Nat \ {0} /\ n \in 1..n /\ DOMAIN qs = 1..n /\ Len(qs) = n
  BY SearchAssumption
<1>3. all \in Seq(Range(all)) /\ Len(all) = n
  <2>1. all \in [1..n -> Range(all)]
    BY <1>2 DEF Range
  <2> HIDE DEF all
  <2> QED
    BY <1>2, <2>1
<1>4. R \in Seq(Z) /\ (I \cap (1..Len(all)) # {} => Len(R) > 0)
  <2>1. R = Kept(all, I)
    BY DEF Ran
  <2> HIDE DEF all, I, R
  <2> QED
    BY <1>3, <2>1, KeptIs
<1>5. ASSUME NEW e \in Z PROVE e.q \in 1..n /\ e.m = qs[e.q] /\ e.m \in Blobs /\ e.m # None
  <2>1. PICK i \in 1..n : e = [q |-> i, m |-> qs[i]] /\ qs[i] # None
    BY <1>2, <1>3
  <2> QED
    BY <2>1
<1>6. /\ quarters'.aggregate = aggregate(qs) /\ quarters'.oos = oos /\ quarters'.blobs = blobs
      /\ quarters'.regimes = aggregate_regimes(regs)
  BY <1>1
<1>7. aggregate(qs).ran = Len(R)
  BY DEF aggregate
<1> HIDE DEF R, Z, all, I
<1>8. DOMAIN R = 1..Len(R) /\ Len(R) \in Nat /\ \A i \in 1..Len(R) : R[i] \in Z
  BY <1>4
<1>9. oos.passed => /\ n \in I /\ qs[n] \in Blobs
                    /\ qs[n].trades >= MIN_OOS_TRADES /\ qs[n].sharpe # None /\ Sharpe0(qs[n].sharpe) >= 0
  <2>1. CASE qs[n] = None
    BY <2>1
  <2>2. CASE qs[n] # None
    <3>1. qs[n] \in Blobs /\ n \in I
      BY <1>2, <2>2 DEF I
    <3> DEFINE before == SubSeq(blobsOf(R), 1, Len(blobsOf(R)) - 1)
    <3>2. oos = oos_validate(before, qs[n])
      BY <2>2 DEF R
    <3> HIDE DEF before, oos
    <3>3. oos.passed = (/\ qs[n].trades >= MIN_OOS_TRADES /\ qs[n].sharpe # None /\ Sharpe0(qs[n].sharpe) >= 0
                        /\ 100 * Sharpe0(qs[n].sharpe) >= MeanSharpe(before) * (100 - DROP_TOLERANCE))
      BY <3>2 DEF oos_validate
    <3>4. oos.passed => qs[n].trades >= MIN_OOS_TRADES /\ qs[n].sharpe # None /\ Sharpe0(qs[n].sharpe) >= 0
      BY <3>3, Zenon
    <3> QED
      BY <3>1, <3>4
  <2> QED
    BY <2>1, <2>2
<1> HIDE DEF oos, blobs, regs
<1>10. aggregate(qs).collapse => ~oos.passed
  <2> SUFFICES ASSUME aggregate(qs).collapse, oos.passed PROVE FALSE
    OBVIOUS
  <2>1. aggregate(qs).collapse
          = (\E e \in {x \in Range(R) : x.q = Len(qs)} :
                e.m.sharpe = None \/ Sharpe0(e.m.sharpe) < 0 \/ e.m.trades < MIN_OOS_TRADES)
    BY DEF aggregate, R
  <2>2. PICK e \in Range(R) : /\ e.q = n
                              /\ e.m.sharpe = None \/ Sharpe0(e.m.sharpe) < 0 \/ e.m.trades < MIN_OOS_TRADES
    BY <1>2, <2>1
  <2>3. e \in Z
    BY <1>8 DEF Range
  <2>4. e.m = qs[n]
    BY <1>5, <2>2, <2>3
  <2>5. qs[n].trades \in Nat /\ qs[n].sharpe \in Int \cup {None}
    BY <1>9, SearchAssumption
  <2> QED
    BY <1>9, <2>2, <2>4, <2>5 DEF Sharpe0, MIN_OOS_TRADES
<1>11. oos.passed => aggregate(qs).ran > 0
  BY <1>2, <1>3, <1>4, <1>7, <1>9
<1>12. aggregate(qs).ran = 1 /\ regime_imbalance(blobs[1]) => aggregate_regimes(regs).skewed
  <2> SUFFICES ASSUME aggregate(qs).ran = 1, regime_imbalance(blobs[1]) PROVE aggregate_regimes(regs).skewed
    OBVIOUS
  <2>1. Len(R) = 1 /\ DOMAIN R = 1..1 /\ R[1] \in Z
    BY <1>7, <1>8
  <2>2. blobs[1] = R[1].m /\ R[1].m \in Blobs
    BY <1>5, <2>1 DEF blobs
  <2>3. regs \in [1..1 -> {R[1].m.regimes}] /\ DOMAIN regs = 1..1 /\ regs[1] = R[1].m.regimes
    <3>1. \A i \in 1..1 : i = 1
      OBVIOUS
    <3> QED
      BY <2>1, <3>1 DEF regs
  <2>4. Len(regs) = 1
    BY <2>3
  <2> QED
    BY <2>2, <2>3, <2>4, OneBlobSkewed
<1> HIDE DEF n
<1> QED
  BY <1>6, <1>10, <1>11, <1>12 DEF ValidatorsAgree

\* The two out-of-sample checks and the two regime checks agree, for every
\* metrics of every quarter (aggregate, oos_validate, regime_imbalance and
\* aggregate_regimes).
THEOREM ValidatorsDoAgree == SearchSpec => []ValidatorsAgree
<1>1. SearchInit => ValidatorsAgree
  BY DEF SearchInit, NoQuarters, ValidatorsAgree
<1>2. ValidatorsAgree /\ [SearchNext]_toolVars => ValidatorsAgree'
  <2> SUFFICES ASSUME ValidatorsAgree, [SearchNext]_toolVars PROVE ValidatorsAgree'
    OBVIOUS
  <2>1. WalkForward \/ UNCHANGED quarters
    BY DEF SearchNext, toolVars, Scan, Generate, Flush, Drive, Adopt, Baseline, Propose, Score, Review
  <2> QED
    BY <2>1, WalkAgrees DEF ValidatorsAgree
<1> QED
  BY <1>1, <1>2, PTL DEF SearchSpec

-----------------------------------------------------------------------------
(* The review of a result *)

TopFive == <<"candidate_id", "decision", "elapsed_seconds", "fitness", "metrics">>

\* Of the keys the strict isolation leaves, at most proposal_id is the Maker's,
\* and it sorts behind the first five.
LEMMA KeysLeft ==
  ASSUME NEW keys, NEW extra, keys = PayloadKeys \cup extra
  PROVE  LET I == {i \in DOMAIN KeyOrder : KeyOrder[i] \in strip_maker_artifacts(keys, "strict")}
         IN  I = {1, 4, 6, 9, 13} \/ I = {1, 4, 6, 9, 13, 17}
<1> DEFINE left == strip_maker_artifacts(keys, "strict")
           I == {i \in DOMAIN KeyOrder : KeyOrder[i] \in left}
<1>1. left = keys \ StrictFields
  BY DEF strip_maker_artifacts
<1>2. \A k \in StrictFields : k \notin left
  BY <1>1
<1>3. {"candidate_id", "decision", "elapsed_seconds", "fitness", "metrics"} \subseteq left
  BY <1>1 DEF PayloadKeys, StrictFields, BaseFields, LineageFields
<1>4. {"cluster", "clusters_touched", "diff", "expected_impact", "fingerprint", "gen", "generation_id", "maker_intent",
       "parent_id", "parent_metrics", "prompt_version", "reasoning", "self_score"} \cap left = {}
  BY <1>2 DEF StrictFields, BaseFields, LineageFields
<1> HIDE DEF left
<1>5. DOMAIN KeyOrder = 1..19
  BY DEF KeyOrder
<1>6. /\ KeyOrder[1] = "candidate_id" /\ KeyOrder[2] = "cluster" /\ KeyOrder[3] = "clusters_touched"
      /\ KeyOrder[4] = "decision" /\ KeyOrder[5] = "diff" /\ KeyOrder[6] = "elapsed_seconds"
      /\ KeyOrder[7] = "expected_impact" /\ KeyOrder[8] = "fingerprint" /\ KeyOrder[9] = "fitness"
      /\ KeyOrder[10] = "gen" /\ KeyOrder[11] = "generation_id" /\ KeyOrder[12] = "maker_intent"
      /\ KeyOrder[13] = "metrics" /\ KeyOrder[14] = "parent_id" /\ KeyOrder[15] = "parent_metrics"
      /\ KeyOrder[16] = "prompt_version" /\ KeyOrder[18] = "reasoning" /\ KeyOrder[19] = "self_score"
  BY DEF KeyOrder
<1>7. {1, 4, 6, 9, 13} \subseteq I
  BY <1>3, <1>5, <1>6
<1>8. \A i \in {2, 3, 5, 7, 8, 10, 11, 12, 14, 15, 16, 18, 19} : i \notin I
  BY <1>4, <1>6
<1>9. I \subseteq 1..19
  BY <1>5
<1> HIDE DEF I
<1>10. \A i \in 1..19 : i \in {1, 4, 6, 9, 13} \/ i = 17 \/ i \in {2, 3, 5, 7, 8, 10, 11, 12, 14, 15, 16, 18, 19}
  OBVIOUS
<1>11. I \subseteq {1, 4, 6, 9, 13, 17}
  BY <1>8, <1>9, <1>10
<1>12. I = {1, 4, 6, 9, 13} \/ I = {1, 4, 6, 9, 13, 17}
  BY <1>7, <1>11
<1> QED
  BY <1>12 DEF I, left

LEMMA AppendIs ==
  ASSUME NEW X, NEW s, NEW e, NEW t, s \in Seq(X), t \in Seq(X), e \in X,
         Len(t) = Len(s) + 1, t[Len(s) + 1] = e, \A i \in 1..Len(s) : t[i] = s[i]
  PROVE  Append(s, e) = t
<1> DEFINE u == Append(s, e)
<1>1. u \in Seq(X) /\ Len(u) = Len(s) + 1 /\ u[Len(s) + 1] = e /\ \A i \in 1..Len(s) : u[i] = s[i]
  BY AppendProperties
<1> HIDE DEF u
<1>2. Len(u) = Len(t) /\ \A i \in 1..Len(u) : u[i] = t[i]
  BY <1>1
<1> QED
  BY <1>1, <1>2, SeqEqual DEF u

LEMMA AppendOne ==
  ASSUME NEW a, NEW b PROVE Append(<<a>>, b) = <<a, b>>
<1> DEFINE X == {a, b}
           t == <<a>>
           u == <<a, b>>
<1>1. t \in Seq(X) /\ Len(t) = 1 /\ t[1] = a
  OBVIOUS
<1>2. u \in Seq(X) /\ Len(u) = 2 /\ u[1] = a /\ u[2] = b
  OBVIOUS
<1>3. b \in X
  OBVIOUS
<1> HIDE DEF X, t, u
<1>4. Len(u) = Len(t) + 1 /\ u[Len(t) + 1] = b /\ \A i \in 1..Len(t) : u[i] = t[i]
  BY <1>1, <1>2
<1>5. Append(t, b) = u
  BY <1>1, <1>2, <1>3, <1>4, AppendIs
<1> QED
  BY <1>5 DEF t, u

LEMMA AppendTwo ==
  ASSUME NEW a, NEW b, NEW c PROVE Append(<<a, b>>, c) = <<a, b, c>>
<1> DEFINE X == {a, b, c}
           t == <<a, b>>
           u == <<a, b, c>>
<1>1. t \in Seq(X) /\ Len(t) = 2 /\ t[1] = a /\ t[2] = b
  OBVIOUS
<1>2. u \in Seq(X) /\ Len(u) = 3 /\ u[1] = a /\ u[2] = b /\ u[3] = c
  OBVIOUS
<1>3. c \in X
  OBVIOUS
<1> HIDE DEF X, t, u
<1>4. Len(u) = Len(t) + 1 /\ u[Len(t) + 1] = c /\ \A i \in 1..Len(t) : u[i] = t[i]
  BY <1>1, <1>2
<1>5. Append(t, c) = u
  BY <1>1, <1>2, <1>3, <1>4, AppendIs
<1> QED
  BY <1>5 DEF t, u

LEMMA AppendThree ==
  ASSUME NEW a, NEW b, NEW c, NEW d PROVE Append(<<a, b, c>>, d) = <<a, b, c, d>>
<1> DEFINE X == {a, b, c, d}
           t == <<a, b, c>>
           u == <<a, b, c, d>>
<1>1. t \in Seq(X) /\ Len(t) = 3 /\ t[1] = a /\ t[2] = b /\ t[3] = c
  OBVIOUS
<1>2. u \in Seq(X) /\ Len(u) = 4 /\ u[1] = a /\ u[2] = b /\ u[3] = c /\ u[4] = d
  OBVIOUS
<1>3. d \in X
  OBVIOUS
<1> HIDE DEF X, t, u
<1>4. Len(u) = Len(t) + 1 /\ u[Len(t) + 1] = d /\ \A i \in 1..Len(t) : u[i] = t[i]
  BY <1>1, <1>2
<1>5. Append(t, d) = u
  BY <1>1, <1>2, <1>3, <1>4, AppendIs
<1> QED
  BY <1>5 DEF t, u

LEMMA AppendLast ==
  ASSUME NEW a, NEW b, NEW c, NEW d, NEW e PROVE Append(<<a, b, c, d>>, e) = <<a, b, c, d, e>>
<1> DEFINE X == {a, b, c, d, e}
           t == <<a, b, c, d>>
           u == <<a, b, c, d, e>>
<1>1. t \in Seq(X) /\ Len(t) = 4 /\ t[1] = a /\ t[2] = b /\ t[3] = c /\ t[4] = d
  OBVIOUS
<1>2. u \in Seq(X) /\ Len(u) = 5 /\ u[1] = a /\ u[2] = b /\ u[3] = c /\ u[4] = d /\ u[5] = e
  OBVIOUS
<1>3. e \in X
  OBVIOUS
<1> HIDE DEF X, t, u
<1>4. Len(u) = Len(t) + 1 /\ u[Len(t) + 1] = e /\ \A i \in 1..Len(t) : u[i] = t[i]
  BY <1>1, <1>2
<1>5. Append(t, e) = u
  BY <1>1, <1>2, <1>3, <1>4, AppendIs
<1> QED
  BY <1>5 DEF t, u

Nineteen(s) == Len(s) = 19
FirstFive(I) == I = {1, 4, 6, 9, 13} \/ I = {1, 4, 6, 9, 13, 17}

\* Of nineteen the first five kept are those of the first sixteen.
LEMMA TopIs ==
  ASSUME NEW X, NEW s, NEW I, s \in Seq(X), Nineteen(s), FirstFive(I)
  PROVE  SubSeq(Kept(s, I), 1, Min({5, Len(Kept(s, I))})) = <<s[1], s[4], s[6], s[9], s[13]>>
<1>1. \E F : /\ Kept(s, I) = F[Len(s)] /\ F[0] = <<>>
             /\ \A i \in 1..Len(s) : F[i] = IF i \in I THEN Append(F[i - 1], s[i]) ELSE F[i - 1]
  BY KeptUnfolds, SMTT(60)
<1>2. PICK F : /\ Kept(s, I) = F[19] /\ F[0] = <<>>
               /\ \A i \in 1..19 : F[i] = IF i \in I THEN Append(F[i - 1], s[i]) ELSE F[i - 1]
  BY <1>1 DEF Nineteen
<1>a. ASSUME NEW i \in 1..19, NEW j, j = i - 1, i \in I PROVE F[i] = Append(F[j], s[i])
  BY <1>2, <1>a
<1>b. ASSUME NEW i \in 1..19, NEW j, j = i - 1, i \notin I PROVE F[i] = F[j]
  BY <1>2, <1>b
<1>c. 1 \in I /\ 4 \in I /\ 6 \in I /\ 9 \in I /\ 13 \in I
  BY DEF FirstFive
<1>d. \A i \in {2, 3, 5, 7, 8, 10, 11, 12, 14, 15, 16, 18, 19} : i \notin I
  BY DEF FirstFive
<1>e. /\ Append(<<s[1]>>, s[4]) = <<s[1], s[4]>> /\ Append(<<s[1], s[4]>>, s[6]) = <<s[1], s[4], s[6]>>
      /\ Append(<<s[1], s[4], s[6]>>, s[9]) = <<s[1], s[4], s[6], s[9]>>
      /\ Append(<<s[1], s[4], s[6], s[9]>>, s[13]) = <<s[1], s[4], s[6], s[9], s[13]>>
  <2> DEFINE a == s[1]
             b == s[4]
             c == s[6]
             d == s[9]
             e == s[13]
  <2> HIDE DEF a, b, c, d, e
  <2>1. Append(<<a>>, b) = <<a, b>>
    BY AppendOne, Zenon
  <2>2. Append(<<a, b>>, c) = <<a, b, c>>
    BY AppendTwo, Zenon
  <2>3. Append(<<a, b, c>>, d) = <<a, b, c, d>>
    BY AppendThree, Zenon
  <2>4. Append(<<a, b, c, d>>, e) = <<a, b, c, d, e>>
    BY AppendLast, Zenon
  <2> QED
    BY <2>1, <2>2, <2>3, <2>4 DEF a, b, c, d, e
<1>4. F[3] = <<s[1]>>
  <2>1. F[1] = Append(F[0], s[1])
    BY <1>a, <1>c
  <2>2. F[2] = F[1]
    BY <1>b, <1>d
  <2>3. F[3] = F[2]
    BY <1>b, <1>d
  <2> QED
    BY <1>2, <2>1, <2>2, <2>3
<1>5. F[5] = <<s[1], s[4]>>
  <2>1. F[4] = Append(F[3], s[4])
    BY <1>a, <1>c
  <2>2. F[5] = F[4]
    BY <1>b, <1>d
  <2> QED
    BY <1>4, <2>1, <2>2, <1>e, Zenon
<1>6. F[8] = <<s[1], s[4], s[6]>>
  <2>1. F[6] = Append(F[5], s[6])
    BY <1>a, <1>c
  <2>2. F[7] = F[6]
    BY <1>b, <1>d
  <2>3. F[8] = F[7]
    BY <1>b, <1>d
  <2> QED
    BY <1>5, <2>1, <2>2, <2>3, <1>e, Zenon
<1>7. F[12] = <<s[1], s[4], s[6], s[9]>>
  <2>1. F[9] = Append(F[8], s[9])
    BY <1>a, <1>c
  <2>2. F[10] = F[9]
    BY <1>b, <1>d
  <2>3. F[11] = F[10]
    BY <1>b, <1>d
  <2>4. F[12] = F[11]
    BY <1>b, <1>d
  <2> QED
    BY <1>6, <2>1, <2>2, <2>3, <2>4, <1>e, Zenon
<1> DEFINE t == <<s[1], s[4], s[6], s[9], s[13]>>
<1>8. F[16] = t
  <2>1. F[13] = Append(F[12], s[13])
    BY <1>a, <1>c
  <2>2. F[14] = F[13]
    BY <1>b, <1>d
  <2>3. F[15] = F[14]
    BY <1>b, <1>d
  <2>4. F[16] = F[15]
    BY <1>b, <1>d
  <2> QED
    BY <1>7, <2>1, <2>2, <2>3, <2>4, <1>e, Zenon
<1>9. F[17] = t \/ F[17] = Append(t, s[17])
  <2> HIDE DEF t
  <2>1. CASE 17 \in I
    BY <1>a, <1>8, <2>1
  <2>2. CASE 17 \notin I
    BY <1>b, <1>8, <2>2
  <2> QED
    BY <2>1, <2>2
<1>10. F[18] = F[17] /\ F[19] = F[18]
  BY <1>b, <1>d
<1>11. \A i \in 1..19 : s[i] \in X
  <2>1. \A i \in 1..Len(s) : s[i] \in X
    OBVIOUS
  <2> QED
    BY <2>1 DEF Nineteen
<1>12. t \in Seq(X) /\ Len(t) = 5
  BY <1>11
<1> DEFINE k == s[17]
<1> HIDE DEF k, t
<1>13. SubSeq(t, 1, 5) = t
  BY <1>12, SubSeqFull
<1>14. Len(Append(t, k)) = 6 /\ SubSeq(Append(t, k), 1, 5) = t
  <2> DEFINE v == Append(t, k)
  <2>0. k \in X
    BY <1>11 DEF k
  <2>a. t \in Seq(X)
    BY <1>12
  <2>b. v \in Seq(X) /\ Len(v) = Len(t) + 1 /\ \A i \in 1..Len(t) : v[i] = t[i]
    BY <2>0, <2>a, AppendProperties
  <2>1. v \in Seq(X) /\ Len(v) = 6 /\ \A i \in 1..5 : v[i] = t[i]
    BY <1>12, <2>b
  <2> HIDE DEF v
  <2>2. \A i \in 1..5 : v[i] \in X
    <3>1. \A i \in 1..Len(t) : t[i] \in X
      BY <2>a
    <3> QED
      BY <1>12, <2>1, <3>1
  <2>3. /\ SubSeq(v, 1, 5) \in Seq(X)
        /\ Len(SubSeq(v, 1, 5)) = IF 1 <= 5 THEN 5 - 1 + 1 ELSE 0
        /\ \A i \in 1..(5 - 1 + 1) : SubSeq(v, 1, 5)[i] = v[1 + i - 1]
    BY <2>2, SubSeqProperties
  <2> DEFINE u == SubSeq(v, 1, 5)
  <2> HIDE DEF u
  <2>4. u \in Seq(X) /\ Len(u) = 5 /\ \A i \in 1..5 : u[i] = t[i]
    BY <2>1, <2>3 DEF u
  <2>5. u = t
    BY <1>12, <2>4, SeqEqual
  <2> QED
    BY <2>1, <2>5 DEF v, u
<1>15. Min({5, 5}) = 5 /\ Min({5, 6}) = 5
  BY MinTwo
<1>16. Kept(s, I) = t \/ Kept(s, I) = Append(t, k)
  BY <1>2, <1>9, <1>10 DEF k
<1> DEFINE kept == Kept(s, I)
<1> HIDE DEF kept
<1>17. SubSeq(kept, 1, Min({5, Len(kept)})) = t
  <2>1. CASE kept = t
    BY <1>12, <1>13, <1>15, <2>1
  <2>2. CASE kept = Append(t, k)
    BY <1>14, <1>15, <2>2
  <2> QED
    BY <1>16, <2>1, <2>2 DEF kept
<1> QED
  BY <1>17 DEF kept, t

LEMMA TopOfKeys ==
  ASSUME NEW I, I = {1, 4, 6, 9, 13} \/ I = {1, 4, 6, 9, 13, 17}
  PROVE  SubSeq(Kept(KeyOrder, I), 1, Min({5, Len(Kept(KeyOrder, I))})) = TopFive
<1> DEFINE X == {"candidate_id", "cluster", "clusters_touched", "decision", "diff", "elapsed_seconds",
                "expected_impact", "fingerprint", "fitness", "gen", "generation_id", "maker_intent",
                "metrics", "parent_id", "parent_metrics", "prompt_version", "proposal_id", "reasoning", "self_score"}
<1>1. KeyOrder \in Seq(X) /\ Len(KeyOrder) = 19
  BY DEF KeyOrder
<1>2. <<KeyOrder[1], KeyOrder[4], KeyOrder[6], KeyOrder[9], KeyOrder[13]>> = TopFive
  BY DEF KeyOrder, TopFive
<1> HIDE DEF X
<1>3. SubSeq(Kept(KeyOrder, I), 1, Min({5, Len(Kept(KeyOrder, I))}))
        = <<KeyOrder[1], KeyOrder[4], KeyOrder[6], KeyOrder[9], KeyOrder[13]>>
  BY <1>1, TopIs DEF Nineteen, FirstFive
<1> QED
  BY <1>2, <1>3

LEMMA PromptIsBlind ==
  ASSUME NEW keys, NEW extra, NEW m, keys = PayloadKeys \cup extra
  PROVE  build_prompt(strip_maker_artifacts(keys, "strict"), m)
           = build_prompt(strip_maker_artifacts(PayloadKeys, "strict"), m)
<1> DEFINE I(ks) == {i \in DOMAIN KeyOrder : KeyOrder[i] \in strip_maker_artifacts(ks, "strict")}
           prompt(ks) == build_prompt(strip_maker_artifacts(ks, "strict"), m)
<1>1. ASSUME NEW ks, \E e : ks = PayloadKeys \cup e
      PROVE  prompt(ks) = IF m.sharpe = None THEN Raised ELSE [sharpe |-> m.sharpe, trades |-> m.trades, top |-> TopFive]
  <2>1. I(ks) = {1, 4, 6, 9, 13} \/ I(ks) = {1, 4, 6, 9, 13, 17}
    BY <1>1, KeysLeft
  <2> DEFINE shown == Kept(KeyOrder, I(ks))
  <2>2. prompt(ks) = IF m.sharpe = None THEN Raised
                     ELSE [sharpe |-> m.sharpe, trades |-> m.trades, top |-> SubSeq(shown, 1, Min({5, Len(shown)}))]
    BY DEF build_prompt
  <2> HIDE DEF I, prompt
  <2>3. SubSeq(shown, 1, Min({5, Len(shown)})) = TopFive
    BY <2>1, TopOfKeys
  <2> QED
    BY <2>2, <2>3
<1>2. PayloadKeys = PayloadKeys \cup {}
  OBVIOUS
<1>3. prompt(keys) = prompt(PayloadKeys)
  <2> HIDE DEF prompt
  <2> QED
    BY <1>1, <1>2
<1> QED
  BY <1>3

ResultShape ==
    /\ result = [decision |-> result.decision, metrics |-> result.metrics, keys |-> result.keys,
                 answer |-> result.answer, final |-> result.final]
    /\ \E extra : result.keys = PayloadKeys \cup extra
    /\ result.answer \in RawAnswers \cup {Failure}
ResultInv == (result = NoResult \/ ResultShape) /\ FailsClosed

Passes(d, keys, m, a) ==
    evaluate(d, keys, m, a) # Raised /\ evaluate(d, keys, m, a) \in {"accepted", "suspicious_to_human"}
Justified(d, keys, m, a) ==
    /\ d = "accepted" /\ a # Failure /\ a.accept = TRUE /\ a.score \in 0..10
    /\ a.confidence \in MinConfidence..10 /\ (evaluate(d, keys, m, a) = "accepted" => HeuristicFlags(m) = {})

\* A verdict that is not a rejection rests on an answer that parses and says so.
LEMMA EvaluateFailsClosed ==
  ASSUME NEW d, NEW keys, NEW m, NEW a, a \in RawAnswers \cup {Failure}, Passes(d, keys, m, a)
  PROVE  Justified(d, keys, m, a)
<1> DEFINE final == evaluate(d, keys, m, a)
           llm == verify_results(keys, m, a)
           m4 == check_candidate(d, HeuristicFlags(m))
<1>0. final # Raised /\ final \in {"accepted", "suspicious_to_human"}
  BY DEF Passes
<1>1. final = resolve(m4, llm, NoMakerScore) /\ llm # Raised
  BY <1>0 DEF evaluate
<1> HIDE DEF final
<1>2. m4 # "rejected" /\ llm.accept
  BY <1>0, <1>1 DEF resolve
<1>3. d = "accepted"
  BY <1>2 DEF check_candidate
<1>4. final = "accepted" => HeuristicFlags(m) = {}
  <2>1. HeuristicFlags(m) # {} => m4 = "suspicious"
    BY <1>3 DEF check_candidate
  <2> HIDE DEF m4, llm
  <2> QED
    BY <1>0, <1>1, <1>2, <2>1 DEF resolve
<1>5. ~verify(Failure).accept
  BY DEF verify
<1>6. llm = IF a = Failure THEN verify(Failure) ELSE verify(parse_verdict(a))
  BY <1>1 DEF verify_results
<1> HIDE DEF llm, m4
<1>7. a # Failure /\ verify(parse_verdict(a)).accept /\ parse_verdict(a) # Failure
  BY <1>2, <1>5, <1>6
<1> DEFINE given == IF a.raw = Bad THEN a.score ELSE a.raw
<1>8. /\ a.accept # Bad /\ {a.score, a.confidence, a.components, given} \subseteq 0..10
      /\ parse_verdict(a) = [accept |-> a.accept, raw |-> given, confidence |-> a.confidence]
  BY <1>7 DEF parse_verdict
<1> HIDE DEF given
<1>9. a.accept \in BOOLEAN
  BY <1>7, <1>8, SearchAssumption
<1>10. a.accept /\ a.confidence >= MinConfidence
  <2> DEFINE p == parse_verdict(a)
             sc == Calibrated[p.raw]
  <2>1. p.accept = a.accept /\ p.confidence = a.confidence
    BY <1>8
  <2> HIDE DEF p
  <2>2. verify(p).accept = (p.accept /\ sc >= RejectionThreshold /\ p.confidence >= MinConfidence)
    BY <1>7 DEF verify, p
  <2>3. verify(p).accept
    BY <1>7 DEF p
  <2>4. p.accept /\ p.confidence >= MinConfidence
    BY <2>2, <2>3, Zenon
  <2> QED
    BY <2>1, <2>4, Zenon
<1>11. MinConfidence \in Int
  BY MakerCheckerAssumption
<1> QED
  BY <1>3, <1>4, <1>7, <1>8, <1>9, <1>10, <1>11 DEF Justified, final

LEMMA ResultStep ==
  ASSUME ResultInv, [SearchNext]_toolVars
  PROVE  ResultInv'
<1>1. CASE Score
  <2>1. PICK m \in Blobs, outcome \in {"finished", "timeout"}, extra \in SUBSET MakerKeys, a \in RawAnswers \cup {Failure} :
          result' = [decision |-> run_candidate(TRUE, outcome, m), metrics |-> m,
                     keys |-> PayloadKeys \cup extra, answer |-> a, final |-> "none"]
    BY <1>1 DEF Score
  <2> DEFINE d == run_candidate(TRUE, outcome, m)
  <2> HIDE DEF d
  <2>2. result' = [decision |-> d, metrics |-> m, keys |-> PayloadKeys \cup extra, answer |-> a, final |-> "none"]
    BY <2>1 DEF d
  <2>3. ResultShape'
    BY <2>2 DEF ResultShape
  <2>4. result'.final = "none"
    BY <2>2
  <2> QED
    BY <2>3, <2>4 DEF ResultInv, FailsClosed
<1>2. CASE Review
  <2> DEFINE final == evaluate(result.decision, result.keys, result.metrics, result.answer)
  <2>1. result # NoResult /\ (UNCHANGED result \/ (final # Raised /\ result' = [result EXCEPT !.final = final]))
    BY <1>2 DEF Review
  <2>2. CASE UNCHANGED result
    BY <2>2 DEF ResultInv, ResultShape, FailsClosed
  <2>3. CASE final # Raised /\ result' = [result EXCEPT !.final = final]
    <3>1. ResultShape
      BY <2>1 DEF ResultInv
    <3> HIDE DEF final
    <3>2. /\ result'.decision = result.decision /\ result'.metrics = result.metrics /\ result'.keys = result.keys
          /\ result'.answer = result.answer /\ result'.final = final /\ ResultShape'
      BY <2>3, <3>1 DEF ResultShape
    <3>3. final \in {"accepted", "suspicious_to_human"} =>
            /\ result.decision = "accepted" /\ result.answer # Failure
            /\ result.answer.accept = TRUE /\ result.answer.score \in 0..10
            /\ result.answer.confidence \in MinConfidence..10
            /\ (final = "accepted" => HeuristicFlags(result.metrics) = {})
      <4>1. result.answer \in RawAnswers \cup {Failure} /\ final # Raised
        BY <2>3, <3>1 DEF ResultShape
      <4> DEFINE d == result.decision
                 ks == result.keys
                 m == result.metrics
                 a == result.answer
      <4>2. final = evaluate(d, ks, m, a) /\ a \in RawAnswers \cup {Failure}
        BY <4>1 DEF final
      <4> HIDE DEF d, ks, m, a
      <4>3. ASSUME final \in {"accepted", "suspicious_to_human"}
            PROVE  /\ d = "accepted" /\ a # Failure /\ a.accept = TRUE /\ a.score \in 0..10
                   /\ a.confidence \in MinConfidence..10 /\ (final = "accepted" => HeuristicFlags(m) = {})
        <5>1. Passes(d, ks, m, a)
          BY <4>1, <4>2, <4>3 DEF Passes
        <5>2. Justified(d, ks, m, a)
          BY <4>2, <5>1, EvaluateFailsClosed
        <5> QED
          BY <4>2, <5>2 DEF Justified
      <4> QED
        BY <4>3 DEF d, ks, m, a
    <3>4. FailsClosed'
      <4> DEFINE flags == HeuristicFlags(result.metrics)
      <4>1. HeuristicFlags(result.metrics)' = flags
        <5>1. HeuristicFlags(result.metrics)' = HeuristicFlags(result'.metrics)
          BY DEF HeuristicFlags, low_sample, regime_imbalance, bear_sharpe, Counts, TradeSum, Sharpe0
        <5> QED
          BY <3>2, <5>1
      <4> HIDE DEF flags
      <4> QED
        BY <3>2, <3>3, <4>1 DEF FailsClosed, flags
    <3> QED
      BY <3>2, <3>4 DEF ResultInv
  <2> QED
    BY <2>1, <2>2, <2>3
<1>3. CASE UNCHANGED result
  BY <1>3 DEF ResultInv, ResultShape, FailsClosed
<1>4. Score \/ Review \/ UNCHANGED result
  BY DEF SearchNext, toolVars, Scan, Generate, Flush, Drive, Adopt, Baseline, Propose, WalkForward
<1> QED
  BY <1>1, <1>2, <1>3, <1>4

\* The review fails closed and is blind to the Maker, for every answer of the
\* LLM, every metrics and every payload (CheckerAgent.verify, _parse_verdict,
\* strip_maker_artifacts, _build_prompt).
THEOREM ReviewIsSound == SearchSpec => []ReviewSound
<1>1. SearchInit => ResultInv
  BY DEF SearchInit, ResultInv, FailsClosed
<1>2. ResultInv => ReviewSound
  <2>1. ASSUME ResultInv, result # NoResult PROVE StrictIsBlind
    <3>1. PICK extra : result.keys = PayloadKeys \cup extra
      BY <2>1 DEF ResultInv, ResultShape
    <3> QED
      BY <3>1, PromptIsBlind DEF StrictIsBlind
  <2> QED
    BY <2>1 DEF ReviewSound, ResultInv, StrictIsBlind
<1> QED
  BY <1>1, <1>2, ResultStep, PTL DEF SearchSpec

-----------------------------------------------------------------------------
(* One field of a tuning *)

AllMembers == UNION {Members(c) : c \in DOMAIN ClusterMap}
Fields == (DOMAIN Default \ {"mult"}) \cup DOMAIN Default.mult
DictFields == {"atr_stop_buffer", "confluence_weights"}
Ints(d) == \A k \in DOMAIN d : d[k] \in Int
Shaped(t) == DOMAIN t = DOMAIN Default /\ DOMAIN t.mult = DOMAIN Default.mult
\* The fields a mutator reads hold numbers.
Typed(t) ==
    /\ Shaped(t) /\ Ints(t.atr_stop_buffer)
    /\ \A m \in AllMembers : m.kind # "dict_per_key" => Get(t, m.name) \in Int
\* The range of a field that was moved.
Ranged(u, m) ==
    IF m.kind # "dict_per_key" THEN Get(u, m.name) \in m.lo..m.hi
    ELSE m.name = "atr_stop_buffer" =>
            \A k \in DOMAIN u.atr_stop_buffer : u.atr_stop_buffer[k] \in KeyBounds(k).lo..KeyBounds(k).hi

\* The members of all clusters by name.
FieldNamed ==
    [atr_prz_sweep |-> Scalar("atr_prz_sweep", "abs_small", 50, 1000),
     atr_stop_buffer |-> Scalar("atr_stop_buffer", "dict_per_key", 100, 2000),
     max_d_age_bars |-> Scalar("max_d_age_bars", "int_threshold", 5, 60),
     authenticity_halve |-> Scalar("authenticity_halve", "int_threshold", 30, 70),
     authenticity_veto |-> Scalar("authenticity_veto", "int_threshold", 10, 40),
     regime_moderate |-> Scalar("regime_moderate", "int_threshold", 20, 50),
     regime_high |-> Scalar("regime_high", "int_threshold", 40, 80),
     a_grade_min |-> Scalar("a_grade_min", "int_threshold", 50, 90),
     confluence_weights |-> Scalar("confluence_weights", "dict_per_key", -50, 200),
     stability_window |-> Scalar("stability_window", "int_threshold", 3, 15),
     trending_inverse |-> Scalar("trending_inverse", "abs_small", 300, 900),
     ranging_aligned |-> Scalar("ranging_aligned", "abs_small", 800, 1500),
     extreme_inverse |-> Scalar("extreme_inverse", "abs_small", 900, 1500),
     min_daily_bars |-> Scalar("min_daily_bars", "int_window", 100, 400),
     atr_window |-> Scalar("atr_window", "int_window", 5, 50),
     atr_long_window |-> Scalar("atr_long_window", "int_window", 50, 200)]

\* What the cluster map says of a field.
MemberFacts(m) ==
    /\ m = FieldNamed[m.name] /\ m.name \in Fields /\ m.lo \in Int /\ m.hi \in Int /\ m.lo <= m.hi
    /\ m.kind # "dict_per_key" => m.name \notin DictFields /\ Get(Default, m.name) \in Nat \ {0}

LEMMA NamesAre ==
  /\ Fields = {"fib", "atr_stop_buffer", "extended", "atr_prz_sweep", "tp_close_pcts", "cost", "max_d_age_bars",
               "max_prz_distance_atr", "max_forming_prz_width_atr", "authenticity_halve", "authenticity_veto",
               "adverse_sharpe_threshold", "regime_moderate", "regime_high", "target_atr_pct", "default_ttl_bars",
               "confluence_weights", "a_grade_min", "a_grade_min_high_quant", "high_quant_position_mult",
               "pattern_base_score", "stability_window", "min_candles", "atr_window", "atr_long_window",
               "volume_ma_window", "swing_lookback", "window", "regime_window", "slope", "extreme_deviation",
               "min_daily_bars", "trending_aligned", "ranging_aligned", "trending_inverse", "ranging_inverse",
               "extreme_inverse", "data_short"}
  /\ DOMAIN Default.mult = {"trending_aligned", "ranging_aligned", "trending_inverse", "ranging_inverse",
                            "extreme_inverse", "data_short"}
  /\ "mult" \in DOMAIN Default /\ "atr_stop_buffer" \in DOMAIN Default
<1>1. DOMAIN Default.mult = {"trending_aligned", "ranging_aligned", "trending_inverse", "ranging_inverse",
                             "extreme_inverse", "data_short"}
  BY DEF Default
<1>2. DOMAIN Default = {"fib", "atr_stop_buffer", "extended", "atr_prz_sweep", "tp_close_pcts", "cost", "max_d_age_bars",
               "max_prz_distance_atr", "max_forming_prz_width_atr", "authenticity_halve", "authenticity_veto",
               "adverse_sharpe_threshold", "regime_moderate", "regime_high", "target_atr_pct", "default_ttl_bars",
               "confluence_weights", "a_grade_min", "a_grade_min_high_quant", "high_quant_position_mult",
               "pattern_base_score", "stability_window", "min_candles", "atr_window", "atr_long_window",
               "volume_ma_window", "swing_lookback", "window", "regime_window", "slope", "extreme_deviation",
               "min_daily_bars", "mult"}
  BY DEF Default
<1> QED
  BY <1>1, <1>2 DEF Fields

LEMMA DefaultFields ==
  /\ Get(Default, "atr_prz_sweep") = 300 /\ Get(Default, "max_d_age_bars") = 20
  /\ Get(Default, "authenticity_halve") = 40 /\ Get(Default, "authenticity_veto") = 25
  /\ Get(Default, "regime_moderate") = 35 /\ Get(Default, "regime_high") = 60
  /\ Get(Default, "a_grade_min") = 70 /\ Get(Default, "stability_window") = 5
  /\ Get(Default, "trending_inverse") = 600 /\ Get(Default, "ranging_aligned") = 1000
  /\ Get(Default, "extreme_inverse") = 1200 /\ Get(Default, "min_daily_bars") = 210
  /\ Get(Default, "atr_window") = 14 /\ Get(Default, "atr_long_window") = 100
<1>1. /\ "atr_prz_sweep" \notin DOMAIN Default.mult /\ "max_d_age_bars" \notin DOMAIN Default.mult
      /\ "authenticity_halve" \notin DOMAIN Default.mult /\ "authenticity_veto" \notin DOMAIN Default.mult
      /\ "regime_moderate" \notin DOMAIN Default.mult /\ "regime_high" \notin DOMAIN Default.mult
      /\ "a_grade_min" \notin DOMAIN Default.mult /\ "stability_window" \notin DOMAIN Default.mult
      /\ "min_daily_bars" \notin DOMAIN Default.mult /\ "atr_window" \notin DOMAIN Default.mult
      /\ "atr_long_window" \notin DOMAIN Default.mult
  BY NamesAre
<1>2. /\ "trending_inverse" \in DOMAIN Default.mult /\ "ranging_aligned" \in DOMAIN Default.mult
      /\ "extreme_inverse" \in DOMAIN Default.mult
  BY NamesAre
<1>3. /\ Default["atr_prz_sweep"] = 300 /\ Default["max_d_age_bars"] = 20
      /\ Default["authenticity_halve"] = 40 /\ Default["authenticity_veto"] = 25
      /\ Default["regime_moderate"] = 35 /\ Default["regime_high"] = 60
      /\ Default["a_grade_min"] = 70 /\ Default["stability_window"] = 5
      /\ Default["min_daily_bars"] = 210 /\ Default["atr_window"] = 14 /\ Default["atr_long_window"] = 100
  BY DEF Default
<1>4. /\ Default.mult["trending_inverse"] = 600 /\ Default.mult["ranging_aligned"] = 1000
      /\ Default.mult["extreme_inverse"] = 1200
  BY DEF Default
<1> QED
  BY <1>1, <1>2, <1>3, <1>4 DEF Get

LEMMA FieldNamedIs ==
  /\ FieldNamed["atr_prz_sweep"] = Scalar("atr_prz_sweep", "abs_small", 50, 1000)
  /\ FieldNamed["atr_stop_buffer"] = Scalar("atr_stop_buffer", "dict_per_key", 100, 2000)
  /\ FieldNamed["max_d_age_bars"] = Scalar("max_d_age_bars", "int_threshold", 5, 60)
  /\ FieldNamed["authenticity_halve"] = Scalar("authenticity_halve", "int_threshold", 30, 70)
  /\ FieldNamed["authenticity_veto"] = Scalar("authenticity_veto", "int_threshold", 10, 40)
  /\ FieldNamed["regime_moderate"] = Scalar("regime_moderate", "int_threshold", 20, 50)
  /\ FieldNamed["regime_high"] = Scalar("regime_high", "int_threshold", 40, 80)
  /\ FieldNamed["a_grade_min"] = Scalar("a_grade_min", "int_threshold", 50, 90)
  /\ FieldNamed["confluence_weights"] = Scalar("confluence_weights", "dict_per_key", -50, 200)
  /\ FieldNamed["stability_window"] = Scalar("stability_window", "int_threshold", 3, 15)
  /\ FieldNamed["trending_inverse"] = Scalar("trending_inverse", "abs_small", 300, 900)
  /\ FieldNamed["ranging_aligned"] = Scalar("ranging_aligned", "abs_small", 800, 1500)
  /\ FieldNamed["extreme_inverse"] = Scalar("extreme_inverse", "abs_small", 900, 1500)
  /\ FieldNamed["min_daily_bars"] = Scalar("min_daily_bars", "int_window", 100, 400)
  /\ FieldNamed["atr_window"] = Scalar("atr_window", "int_window", 5, 50)
  /\ FieldNamed["atr_long_window"] = Scalar("atr_long_window", "int_window", 50, 200)
BY DEF FieldNamed

LEMMA MembersAre ==
  ASSUME NEW m, m \in AllMembers
  PROVE  MemberFacts(m)
<1>0. ASSUME NEW name, NEW kind, NEW lo, NEW hi, m = Scalar(name, kind, lo, hi), FieldNamed[name] = m,
             name \in Fields, lo \in Int, hi \in Int, lo <= hi,
             kind # "dict_per_key" => name \notin DictFields /\ Get(Default, name) \in Nat \ {0}
      PROVE  MemberFacts(m)
  BY <1>0 DEF Scalar, MemberFacts
<1>1. \/ m \in Range(ClusterMap.C1) \/ m \in Range(ClusterMap.C2) \/ m \in Range(ClusterMap.C3)
      \/ m \in Range(ClusterMap.C4) \/ m \in Range(ClusterMap.C5)
  BY DEF AllMembers, ClusterMap, Members
<1>2. CASE m \in Range(ClusterMap.C1)
  <2>1. \/ m = Scalar("atr_prz_sweep", "abs_small", 50, 1000)
        \/ m = Scalar("atr_stop_buffer", "dict_per_key", 100, 2000)
    BY <1>2 DEF ClusterMap, Range
  <2>2. CASE m = Scalar("atr_prz_sweep", "abs_small", 50, 1000)
    BY <1>0, <2>2, NamesAre, FieldNamedIs, DefaultFields DEF DictFields
  <2>3. CASE m = Scalar("atr_stop_buffer", "dict_per_key", 100, 2000)
    BY <1>0, <2>3, NamesAre, FieldNamedIs
  <2> QED
    BY <2>1, <2>2, <2>3
<1>3. CASE m \in Range(ClusterMap.C2)
  <2>1. \/ m = Scalar("max_d_age_bars", "int_threshold", 5, 60)
        \/ m = Scalar("authenticity_halve", "int_threshold", 30, 70)
        \/ m = Scalar("authenticity_veto", "int_threshold", 10, 40)
        \/ m = Scalar("regime_moderate", "int_threshold", 20, 50)
        \/ m = Scalar("regime_high", "int_threshold", 40, 80)
    BY <1>3 DEF ClusterMap, Range
  <2>2. CASE m = Scalar("max_d_age_bars", "int_threshold", 5, 60)
    BY <1>0, <2>2, NamesAre, FieldNamedIs, DefaultFields DEF DictFields
  <2>3. CASE m = Scalar("authenticity_halve", "int_threshold", 30, 70)
    BY <1>0, <2>3, NamesAre, FieldNamedIs, DefaultFields DEF DictFields
  <2>4. CASE m = Scalar("authenticity_veto", "int_threshold", 10, 40)
    BY <1>0, <2>4, NamesAre, FieldNamedIs, DefaultFields DEF DictFields
  <2>5. CASE m = Scalar("regime_moderate", "int_threshold", 20, 50)
    BY <1>0, <2>5, NamesAre, FieldNamedIs, DefaultFields DEF DictFields
  <2>6. CASE m = Scalar("regime_high", "int_threshold", 40, 80)
    BY <1>0, <2>6, NamesAre, FieldNamedIs, DefaultFields DEF DictFields
  <2> QED
    BY <2>1, <2>2, <2>3, <2>4, <2>5, <2>6
<1>4. CASE m \in Range(ClusterMap.C3)
  <2>1. \/ m = Scalar("a_grade_min", "int_threshold", 50, 90)
        \/ m = Scalar("confluence_weights", "dict_per_key", -50, 200)
        \/ m = Scalar("stability_window", "int_threshold", 3, 15)
    BY <1>4 DEF ClusterMap, Range
  <2>2. CASE m = Scalar("a_grade_min", "int_threshold", 50, 90)
    BY <1>0, <2>2, NamesAre, FieldNamedIs, DefaultFields DEF DictFields
  <2>3. CASE m = Scalar("confluence_weights", "dict_per_key", -50, 200)
    BY <1>0, <2>3, NamesAre, FieldNamedIs
  <2>4. CASE m = Scalar("stability_window", "int_threshold", 3, 15)
    BY <1>0, <2>4, NamesAre, FieldNamedIs, DefaultFields DEF DictFields
  <2> QED
    BY <2>1, <2>2, <2>3, <2>4
<1>5. CASE m \in Range(ClusterMap.C4)
  <2>1. \/ m = Scalar("trending_inverse", "abs_small", 300, 900)
        \/ m = Scalar("ranging_aligned", "abs_small", 800, 1500)
        \/ m = Scalar("extreme_inverse", "abs_small", 900, 1500)
        \/ m = Scalar("min_daily_bars", "int_window", 100, 400)
    BY <1>5 DEF ClusterMap, Range
  <2>2. CASE m = Scalar("trending_inverse", "abs_small", 300, 900)
    BY <1>0, <2>2, NamesAre, FieldNamedIs, DefaultFields DEF DictFields
  <2>3. CASE m = Scalar("ranging_aligned", "abs_small", 800, 1500)
    BY <1>0, <2>3, NamesAre, FieldNamedIs, DefaultFields DEF DictFields
  <2>4. CASE m = Scalar("extreme_inverse", "abs_small", 900, 1500)
    BY <1>0, <2>4, NamesAre, FieldNamedIs, DefaultFields DEF DictFields
  <2>5. CASE m = Scalar("min_daily_bars", "int_window", 100, 400)
    BY <1>0, <2>5, NamesAre, FieldNamedIs, DefaultFields DEF DictFields
  <2> QED
    BY <2>1, <2>2, <2>3, <2>4, <2>5
<1>6. CASE m \in Range(ClusterMap.C5)
  <2>1. \/ m = Scalar("atr_window", "int_window", 5, 50)
        \/ m = Scalar("atr_long_window", "int_window", 50, 200)
    BY <1>6 DEF ClusterMap, Range
  <2>2. CASE m = Scalar("atr_window", "int_window", 5, 50)
    BY <1>0, <2>2, NamesAre, FieldNamedIs, DefaultFields DEF DictFields
  <2>3. CASE m = Scalar("atr_long_window", "int_window", 50, 200)
    BY <1>0, <2>3, NamesAre, FieldNamedIs, DefaultFields DEF DictFields
  <2> QED
    BY <2>1, <2>2, <2>3
<1> QED
  BY <1>1, <1>2, <1>3, <1>4, <1>5, <1>6

LEMMA NamesDiffer ==
  ASSUME NEW m, NEW p, m \in AllMembers, p \in AllMembers, m.name = p.name
  PROVE  m = p
BY MembersAre DEF MemberFacts

\* dataclasses.replace changes one field and leaves the others.
LEMMA PutIs ==
  ASSUME NEW t, NEW name, NEW v, Shaped(t), name \in Fields
  PROVE  /\ Shaped(Put(t, name, v)) /\ Get(Put(t, name, v), name) = v
         /\ \A x \in Fields : x # name => Get(Put(t, name, v), x) = Get(t, x)
<1> DEFINE D == DOMAIN Default
           E == DOMAIN Default.mult
           u == Put(t, name, v)
<1>1. "mult" \in D /\ "mult" \notin E /\ Fields = (D \ {"mult"}) \cup E
  BY NamesAre DEF Fields
<1>2. DOMAIN t = D /\ DOMAIN t.mult = E
  BY DEF Shaped
<1> HIDE DEF D, E
<1>3. CASE name \in E
  <2>1. u = [t EXCEPT !.mult = [t.mult EXCEPT ![name] = v]]
    BY <1>2, <1>3 DEF Put
  <2> HIDE DEF u
  <2>2. DOMAIN u = D /\ u.mult = [t.mult EXCEPT ![name] = v]
    BY <1>1, <1>2, <2>1
  <2>3. DOMAIN u.mult = E /\ u.mult[name] = v /\ \A x \in E : x # name => u.mult[x] = t.mult[x]
    BY <1>2, <1>3, <2>2
  <2>4. \A x \in D \ {"mult"} : u[x] = t[x]
    BY <1>2, <2>1
  <2>5. Get(u, name) = v /\ \A x \in Fields : x # name => Get(u, x) = Get(t, x)
    BY <1>1, <1>2, <1>3, <2>3, <2>4 DEF Get
  <2> QED
    BY <2>2, <2>3, <2>5 DEF u, Shaped, D, E
<1>4. CASE name \notin E
  <2>1. u = [t EXCEPT ![name] = v] /\ name # "mult" /\ name \in D
    BY <1>1, <1>2, <1>4 DEF Put
  <2> HIDE DEF u
  <2>2. DOMAIN u = D /\ u.mult = t.mult /\ u[name] = v /\ \A x \in D : x # name => u[x] = t[x]
    BY <1>1, <1>2, <2>1
  <2>5. Get(u, name) = v /\ \A x \in Fields : x # name => Get(u, x) = Get(t, x)
    BY <1>1, <1>2, <1>4, <2>2 DEF Get
  <2> QED
    BY <1>2, <2>2, <2>5 DEF u, Shaped, D, E
<1> QED
  BY <1>3, <1>4

\* A value that a try may give a field.
Fits(m, v) ==
    IF m.kind # "dict_per_key" THEN v \in m.lo..m.hi
    ELSE m.name = "atr_stop_buffer" => Ints(v) /\ \A k \in DOMAIN v : v[k] \in KeyBounds(k).lo..KeyBounds(k).hi
\* u is t with at most the field m moved, into its range.
Moved(t, u, m) ==
    /\ post_init(u) /\ Typed(u) /\ \A x \in Fields : x # m.name => Get(u, x) = Get(t, x)
    /\ Get(u, m.name) = Get(t, m.name) \/ Ranged(u, m)

LEMMA BufferIs ==
  ASSUME NEW t, Shaped(t)
  PROVE  Get(t, "atr_stop_buffer") = t.atr_stop_buffer /\ "atr_stop_buffer" \in Fields
<1>1. "atr_stop_buffer" \notin DOMAIN Default.mult /\ "atr_stop_buffer" \in Fields
  BY NamesAre
<1> QED
  BY <1>1 DEF Get, Shaped

LEMMA PutFits ==
  ASSUME NEW t, NEW m, NEW v, m \in AllMembers, Typed(t), Fits(m, v), post_init(Put(t, m.name, v))
  PROVE  Moved(t, Put(t, m.name, v), m)
<1> DEFINE u == Put(t, m.name, v)
<1>1. MemberFacts(m)
  BY MembersAre
<1>2. Shaped(t) /\ m.name \in Fields
  BY <1>1 DEF Typed, MemberFacts
<1>3. Shaped(u) /\ Get(u, m.name) = v /\ \A x \in Fields : x # m.name => Get(u, x) = Get(t, x)
  BY <1>2, PutIs
<1>4. post_init(u)
  OBVIOUS
<1> HIDE DEF u
<1>5. Ranged(u, m)
  <2>1. CASE m.kind # "dict_per_key"
    BY <1>3, <2>1 DEF Ranged, Fits
  <2>2. CASE m.kind = "dict_per_key" /\ m.name = "atr_stop_buffer"
    <3>1. u.atr_stop_buffer = v
      BY <1>3, <2>2, BufferIs
    <3> QED
      BY <2>2, <3>1 DEF Ranged, Fits
  <2>3. CASE m.kind = "dict_per_key" /\ m.name # "atr_stop_buffer"
    BY <2>3 DEF Ranged
  <2> QED
    BY <2>1, <2>2, <2>3
<1>6. Ints(u.atr_stop_buffer)
  <2>1. u.atr_stop_buffer = Get(u, "atr_stop_buffer") /\ t.atr_stop_buffer = Get(t, "atr_stop_buffer") /\ "atr_stop_buffer" \in Fields
    BY <1>2, <1>3, BufferIs
  <2>2. CASE m.name = "atr_stop_buffer"
    <3>1. m.kind = "dict_per_key"
      BY <1>1, <2>2 DEF MemberFacts, DictFields
    <3> QED
      BY <1>3, <2>1, <2>2, <3>1 DEF Fits
  <2>3. CASE m.name # "atr_stop_buffer"
    BY <1>3, <2>1, <2>3 DEF Typed
  <2> QED
    BY <2>2, <2>3
<1>7. ASSUME NEW p \in AllMembers, p.kind # "dict_per_key" PROVE Get(u, p.name) \in Int
  <2>1. CASE p.name = m.name
    <3>1. p = m
      BY <2>1, NamesDiffer
    <3> QED
      BY <1>1, <1>3, <1>7, <3>1 DEF Fits, MemberFacts
  <2>2. CASE p.name # m.name
    <3>1. p.name \in Fields
      BY MembersAre DEF MemberFacts
    <3> QED
      BY <1>3, <1>7, <2>2, <3>1 DEF Typed
  <2> QED
    BY <2>1, <2>2
<1> QED
  BY <1>3, <1>4, <1>5, <1>6, <1>7 DEF Moved, Typed, u

\* Six tries, or the instance as it was.
LEMMA ReplaceIs ==
  ASSUME NEW t, NEW S, NEW m, m \in AllMembers, Typed(t), post_init(t), \A v \in S : Fits(m, v),
         NEW u, u \in Replace(t, S, m.name)
  PROVE  Moved(t, u, m)
<1>1. u = t \/ \E v \in S : u = Put(t, m.name, v) /\ post_init(u)
  BY DEF Replace
<1>2. CASE u = t
  BY <1>2 DEF Moved
<1>3. ASSUME NEW v \in S, u = Put(t, m.name, v), post_init(u) PROVE Moved(t, u, m)
  BY <1>3, PutFits
<1> QED
  BY <1>1, <1>2, <1>3

-----------------------------------------------------------------------------
(* The mutators *)

LEMMA StepIs ==
  ASSUME NEW m, NEW scale, NEW z, scale \in Int, z \in Int
  PROVE  Step(m, scale, z) \in Int
<1>1. Sigma(m) \in Int
  BY DEF Sigma
<1> DEFINE a == z * Sigma(m)
           b == a * scale
<1>2. a \in Int
  BY <1>1
<1> HIDE DEF a
<1>3. b \in Int
  BY <1>2
<1> HIDE DEF b
<1>4. b \div 1000 \in Int
  BY <1>3
<1> QED
  BY <1>4 DEF Step, a, b

LEMMA ScaleIs ==
  ASSUME NEW p, NEW q, p \in Int, q \in Int
  PROVE  Scale(p, q) \in Int
<1> DEFINE g == (Abs(p) + Abs(q)) \div 2
<1>1. Abs(p) \in Nat /\ Abs(q) \in Nat
  BY DEF Abs
<1>2. g \in Nat
  BY <1>1
<1> DEFINE a == 500 * 1000
           lo == 250
           hi == 4000
<1>3. a \in Int /\ lo \in Int /\ hi \in Int /\ lo <= hi
  OBVIOUS
<1>4. Scale(p, q) = IF g = 0 THEN hi ELSE Clamp(lo, hi, a \div g)
  BY DEF Scale
<1> HIDE DEF g, a, lo, hi
<1>5. CASE g = 0
  BY <1>3, <1>4, <1>5
<1>6. CASE g # 0
  <2> DEFINE x == a \div g
  <2>1. x \in Int
    BY <1>2, <1>3, <1>6
  <2> HIDE DEF x
  <2>2. Clamp(lo, hi, x) \in lo..hi
    BY <1>3, <2>1, ClampIs
  <2>3. Scale(p, q) = Clamp(lo, hi, x)
    BY <1>4, <1>6 DEF x
  <2> QED
    BY <1>3, <2>2, <2>3
<1> QED
  BY <1>5, <1>6

LEMMA BoundsAre ==
  ASSUME NEW k
  PROVE  KeyBounds(k).lo \in Int /\ KeyBounds(k).hi \in Int /\ KeyBounds(k).lo <= KeyBounds(k).hi
BY DEF KeyBounds

LEMMA DrawsAre ==
  ASSUME NEW K, NEW d, d \in KeyDraws(K), NEW k, k \in K
  PROVE  d[k] \in Int
<1>1. Draws \subseteq Int
  BY SearchAssumption
<1>2. CASE \E z \in Draws : d = [j \in K |-> z]
  BY <1>1, <1>2
<1>3. CASE \E i \in K, z \in Draws : d = [j \in K |-> IF j = i THEN z ELSE 0]
  <2>1. PICK i \in K, z \in Draws : d = [j \in K |-> IF j = i THEN z ELSE 0]
    BY <1>3
  <2> QED
    BY <1>1, <2>1
<1> QED
  BY <1>2, <1>3 DEF KeyDraws

\* Whatever is drawn, a try gives a value in the range of its field.
LEMMA ClipFits ==
  ASSUME NEW m, NEW x, m \in AllMembers, m.kind # "dict_per_key", x \in Int
  PROVE  Fits(m, Clip(m, x))
<1>1. m.lo \in Int /\ m.hi \in Int /\ m.lo <= m.hi
  BY MembersAre DEF MemberFacts
<1> DEFINE lo == m.lo
           hi == m.hi
<1>2. lo \in Int /\ hi \in Int /\ lo <= hi /\ Clip(m, x) = Clamp(lo, hi, x)
  BY <1>1 DEF Clip
<1> HIDE DEF lo, hi
<1>3. Clip(m, x) \in lo..hi
  BY <1>2, ClampIs
<1> QED
  BY <1>3 DEF Fits, lo, hi

LEMMA TriesFit ==
  ASSUME NEW t, NEW m, NEW scale, m \in AllMembers, Typed(t), scale \in Int, NEW v, v \in Tries(m, t, scale)
  PROVE  Fits(m, v)
<1>1. CASE m.kind # "dict_per_key"
  <2>1. PICK z \in Draws : v = Clip(m, Get(t, m.name) + Step(m, scale, z))
    BY <1>1 DEF Tries
  <2> DEFINE x == Get(t, m.name) + Step(m, scale, z)
  <2>2. Step(m, scale, z) \in Int
    BY StepIs, SearchAssumption
  <2>3. Get(t, m.name) \in Int
    BY <1>1 DEF Typed
  <2>4. x \in Int
    BY <2>2, <2>3
  <2>5. v = Clip(m, x)
    BY <2>1
  <2> HIDE DEF x
  <2> QED
    BY <1>1, <2>4, <2>5, ClipFits
<1>2. CASE m.kind = "dict_per_key" /\ m.name # "atr_stop_buffer"
  BY <1>2 DEF Fits
<1>3. CASE m.kind = "dict_per_key" /\ m.name = "atr_stop_buffer"
  <2> DEFINE old == t.atr_stop_buffer
  <2>1. Get(t, m.name) = old /\ Ints(old)
    BY <1>3, BufferIs DEF Typed
  <2>2. PICK d \in KeyDraws(DOMAIN old) :
          v = [k \in DOMAIN old |-> Clamp(KeyBounds(k).lo, KeyBounds(k).hi, old[k] + Step(m, scale, d[k]))]
    BY <1>3, <2>1 DEF Tries
  <2>3. ASSUME NEW k, k \in DOMAIN old PROVE v[k] \in KeyBounds(k).lo..KeyBounds(k).hi
    <3> DEFINE lo == KeyBounds(k).lo
               hi == KeyBounds(k).hi
               x == old[k] + Step(m, scale, d[k])
    <3>1. v[k] = Clamp(lo, hi, x)
      BY <2>2, <2>3
    <3>2. d[k] \in Int
      BY <2>3, DrawsAre
    <3>3. Step(m, scale, d[k]) \in Int
      BY <3>2, StepIs
    <3>4. old[k] \in Int
      BY <2>1, <2>3 DEF Ints
    <3>5. x \in Int
      BY <3>3, <3>4
    <3>6. lo \in Int /\ hi \in Int /\ lo <= hi
      BY BoundsAre
    <3> HIDE DEF lo, hi, x
    <3>7. v[k] \in lo..hi
      BY <3>1, <3>5, <3>6, ClampIs
    <3> QED
      BY <3>7 DEF lo, hi
  <2>4. DOMAIN v = DOMAIN old
    BY <2>2
  <2>5. Ints(v)
    BY <2>3, <2>4, BoundsAre DEF Ints
  <2> QED
    BY <1>3, <2>3, <2>4, <2>5 DEF Fits
<1> QED
  BY <1>1, <1>2, <1>3

LEMMA MutateIs ==
  ASSUME NEW t, NEW m, NEW scale, m \in AllMembers, Typed(t), post_init(t), scale \in Int,
         NEW u, u \in mutate_field(m, t, scale)
  PROVE  Moved(t, u, m)
<1> DEFINE S == Tries(m, t, scale)
<1>1. \A v \in S : Fits(m, v)
  BY TriesFit
<1>2. u \in Replace(t, S, m.name)
  BY DEF mutate_field
<1> HIDE DEF S
<1> QED
  BY <1>1, <1>2, ReplaceIs

\* u comes from t by moving fields out of M, each into its range.
Reached(t, u, M) ==
    /\ post_init(u) /\ Typed(u)
    /\ \A m \in AllMembers : Get(u, m.name) = Get(t, m.name) \/ (m \in M /\ Ranged(u, m))

LEMMA RangedSame ==
  ASSUME NEW t, NEW u, NEW m, Shaped(t), Shaped(u), m \in AllMembers, Get(u, m.name) = Get(t, m.name), Ranged(t, m)
  PROVE  Ranged(u, m)
<1>1. CASE m.kind # "dict_per_key"
  BY <1>1 DEF Ranged
<1>2. CASE m.kind = "dict_per_key" /\ m.name = "atr_stop_buffer"
  <2>1. u.atr_stop_buffer = t.atr_stop_buffer
    BY <1>2, BufferIs
  <2> QED
    BY <1>2, <2>1 DEF Ranged
<1>3. CASE m.kind = "dict_per_key" /\ m.name # "atr_stop_buffer"
  BY <1>3 DEF Ranged
<1> QED
  BY <1>1, <1>2, <1>3

LEMMA ReachedMore ==
  ASSUME NEW t, NEW u, NEW v, NEW M, NEW N, NEW p, Reached(t, u, M), p \in AllMembers, Moved(u, v, p), M \subseteq N, p \in N
  PROVE  Reached(t, v, N)
<1>1. Shaped(u) /\ Shaped(v)
  BY DEF Reached, Moved, Typed
<1>2. ASSUME NEW m \in AllMembers
      PROVE  Get(v, m.name) = Get(t, m.name) \/ (m \in N /\ Ranged(v, m))
  <2>1. CASE Get(v, m.name) = Get(u, m.name)
    <3>1. CASE Get(u, m.name) = Get(t, m.name)
      BY <2>1, <3>1
    <3>2. CASE m \in M /\ Ranged(u, m)
      BY <1>1, <2>1, <3>2, RangedSame
    <3> QED
      BY <3>1, <3>2 DEF Reached
  <2>2. CASE Get(v, m.name) # Get(u, m.name)
    <3>1. m.name \in Fields
      BY MembersAre DEF MemberFacts
    <3>2. m.name = p.name
      BY <2>2, <3>1 DEF Moved
    <3>3. m = p
      BY <3>2, NamesDiffer
    <3> QED
      BY <2>2, <3>3 DEF Moved
  <2> QED
    BY <2>1, <2>2
<1> QED
  BY <1>2 DEF Reached, Moved

-----------------------------------------------------------------------------
(* Several fields, one after the other *)

After(T, s, sizes, i) == Mutate(T, s[i], scale_for(sizes, s[i].name))
Stages(g, t, s, sizes, m) ==
    /\ g = [i \in 0..m |-> g[i]] /\ g[0] = {t}
    /\ \A i \in 1..m : g[i] = After(g[i - 1], s, sizes, i)

LEMMA StagesExist ==
  ASSUME NEW t, NEW s, NEW sizes, NEW n, n \in Nat
  PROVE  \E g : Stages(g, t, s, sizes, n)
<1> DEFINE bad == {m \in 0..n : ~\E g : Stages(g, t, s, sizes, m)}
<1>1. SUFFICES ASSUME bad # {} PROVE FALSE
  BY <1>1
<1>2. PICK m \in bad : \A j \in bad : m <= j
  <2>1. bad \in SUBSET Nat
    OBVIOUS
  <2> HIDE DEF bad
  <2> QED
    BY <1>1, <2>1, LeastMember
<1>3. 0 \notin bad
  <2> DEFINE g == [i \in 0..0 |-> {t}]
  <2>1. Stages(g, t, s, sizes, 0)
    BY DEF Stages
  <2> QED
    BY <2>1
<1>4. m \in 0..n /\ m # 0 /\ m - 1 \in 0..n /\ m - 1 \notin bad
  <2>1. m \in 0..n /\ m # 0
    BY <1>2, <1>3
  <2>2. m - 1 \in 0..n /\ ~(m <= m - 1)
    BY <2>1
  <2> HIDE DEF bad
  <2> QED
    BY <1>2, <2>1, <2>2
<1>5. PICK g : Stages(g, t, s, sizes, m - 1)
  BY <1>4
<1> DEFINE last == After(g[m - 1], s, sizes, m)
           h == [i \in 0..m |-> IF i = m THEN last ELSE g[i]]
<1> HIDE DEF last
<1>6. h = [i \in 0..m |-> h[i]]
  OBVIOUS
<1>7. h[0] = {t}
  BY <1>4, <1>5 DEF Stages
<1>8. ASSUME NEW i \in 1..m PROVE h[i] = After(h[i - 1], s, sizes, i)
  <2>1. CASE i = m
    <3>1. h[i] = last /\ h[i - 1] = g[m - 1]
      BY <1>4, <2>1
    <3> QED
      BY <2>1, <3>1 DEF last
  <2>2. CASE i # m
    <3>1. h[i] = g[i] /\ h[i - 1] = g[i - 1] /\ i \in 1..(m - 1)
      BY <1>4, <2>2
    <3> QED
      BY <1>5, <3>1 DEF Stages
  <2> QED
    BY <2>1, <2>2
<1>9. Stages(h, t, s, sizes, m)
  <2> HIDE DEF h
  <2> QED
    BY <1>6, <1>7, <1>8 DEF Stages
<1> QED
  BY <1>2, <1>9

LEMMA MutateEachUnfolds ==
  ASSUME NEW t, NEW s, NEW sizes, NEW X, s \in Seq(X)
  PROVE  \E T : MutateEach(t, s, sizes) = T[Len(s)] /\ Stages(T, t, s, sizes, Len(s))
<1> DEFINE n == Len(s)
           Fun(f) == f = [k \in 0..Len(s) |->
                            IF k = 0 THEN {t} ELSE Mutate(f[k - 1], s[k], scale_for(sizes, s[k].name))]
<1>1. n \in Nat
  OBVIOUS
<1>2. \E f : Fun(f)
  <2> HIDE DEF n
  <2>1. PICK g : Stages(g, t, s, sizes, n)
    BY <1>1, StagesExist
  <2>2. ASSUME NEW k \in 0..n
        PROVE  g[k] = IF k = 0 THEN {t} ELSE Mutate(g[k - 1], s[k], scale_for(sizes, s[k].name))
    <3>1. CASE k = 0
      BY <2>1, <3>1 DEF Stages
    <3>2. CASE k # 0
      <4>1. k \in 1..n
        BY <1>1, <3>2
      <4> QED
        BY <2>1, <3>2, <4>1 DEF Stages, After
    <3> QED
      BY <3>1, <3>2
  <2>3. g = [k \in 0..n |-> g[k]]
    BY <2>1 DEF Stages
  <2>4. Fun(g)
    BY <2>2, <2>3 DEF n
  <2> QED
    BY <2>4
<1> DEFINE T == CHOOSE f : Fun(f)
<1>3. Fun(T)
  <2> HIDE DEF Fun
  <2> QED
    BY <1>2
<1>4. MutateEach(t, s, sizes) = T[n]
  BY DEF MutateEach
<1> HIDE DEF T
<1>a. DOMAIN T = 0..n /\ T = [k \in DOMAIN T |-> T[k]]
  BY <1>3, Zenon
<1>b. ASSUME NEW k \in 0..n
      PROVE  T[k] = IF k = 0 THEN {t} ELSE Mutate(T[k - 1], s[k], scale_for(sizes, s[k].name))
  BY <1>3
<1>5. T = [k \in 0..n |-> T[k]] /\ T[0] = {t}
  <2>1. T = [k \in 0..n |-> T[k]]
    BY <1>a
  <2>2. T[0] = {t}
    BY <1>1, <1>b
  <2> QED
    BY <2>1, <2>2
<1>6. \A k \in 1..n : T[k] = Mutate(T[k - 1], s[k], scale_for(sizes, s[k].name))
  BY <1>1, <1>b
<1>7. Stages(T, t, s, sizes, n)
  BY <1>5, <1>6 DEF Stages, After
<1> QED
  BY <1>4, <1>7

Scales(sizes) == \A name \in DOMAIN sizes : sizes[name] \in Int

LEMMA ScaleFor ==
  ASSUME NEW sizes, NEW name, Scales(sizes)
  PROVE  scale_for(sizes, name) \in Int
BY DEF scale_for, Scales

LEMMA MutateEachIs ==
  ASSUME NEW t, NEW s, NEW sizes, s \in Seq(AllMembers), Typed(t), post_init(t), Scales(sizes),
         NEW u, u \in MutateEach(t, s, sizes)
  PROVE  Reached(t, u, {s[i] : i \in 1..Len(s)})
<1> DEFINE n == Len(s)
           M(k) == {s[i] : i \in 1..k}
<1>1. PICK T : MutateEach(t, s, sizes) = T[n] /\ Stages(T, t, s, sizes, n)
  BY MutateEachUnfolds
<1>2. n \in Nat /\ \A i \in 1..n : s[i] \in AllMembers
  OBVIOUS
<1> HIDE DEF n
<1> DEFINE Claim(k) == \A v \in T[k] : Reached(t, v, M(k))
           bad == {k \in 0..n : ~Claim(k)}
<1>3. bad = {}
  <2> SUFFICES ASSUME bad # {} PROVE FALSE
    OBVIOUS
  <2>1. PICK m \in bad : \A j \in bad : m <= j
    <3>1. bad \in SUBSET Nat
      BY <1>2
    <3> HIDE DEF bad
    <3> QED
      BY <3>1, LeastMember
  <2>2. m \in 0..n /\ ~Claim(m)
    BY <2>1
  <2>3. Claim(0)
    <3>1. T[0] = {t}
      BY <1>1 DEF Stages
    <3>2. Reached(t, t, M(0))
      BY DEF Reached
    <3> HIDE DEF M
    <3> QED
      BY <3>1, <3>2
  <2>4. m # 0 /\ m \in 1..n /\ m - 1 \in 0..n
    <3> HIDE DEF Claim, bad
    <3>1. m # 0
      BY <2>2, <2>3
    <3> QED
      BY <1>2, <2>2, <3>1
  <2>5. Claim(m - 1)
    <3>1. ~(m <= m - 1)
      BY <1>2, <2>4
    <3> HIDE DEF Claim
    <3> QED
      BY <2>1, <2>4, <3>1
  <2>6. ASSUME NEW v, v \in T[m] PROVE Reached(t, v, M(m))
    <3> DEFINE sc == scale_for(sizes, s[m].name)
    <3>1. T[m] = Mutate(T[m - 1], s[m], sc)
      BY <1>1, <2>4 DEF Stages, After
    <3>2. PICK w \in T[m - 1] : v \in mutate_field(s[m], w, sc)
      BY <2>6, <3>1 DEF Mutate
    <3>3. sc \in Int /\ s[m] \in AllMembers
      BY <1>2, <2>4, ScaleFor
    <3>4. Reached(t, w, M(m - 1))
      BY <2>5, <3>2
    <3>5. M(m - 1) \subseteq M(m) /\ s[m] \in M(m)
      BY <1>2, <2>4
    <3> DEFINE p == s[m]
               A == M(m - 1)
               B == M(m)
    <3> HIDE DEF sc, p, M, A, B
    <3>6. Moved(w, v, p)
      <4>1. Typed(w) /\ post_init(w)
        BY <3>4 DEF Reached
      <4>2. v \in mutate_field(p, w, sc) /\ p \in AllMembers
        BY <3>2, <3>3 DEF p
      <4> QED
        BY <3>3, <4>1, <4>2, MutateIs
    <3>7. Reached(t, w, A) /\ A \subseteq B /\ p \in B /\ p \in AllMembers
      BY <3>3, <3>4, <3>5 DEF A, B, p
    <3>8. Reached(t, v, B)
      BY <3>6, <3>7, ReachedMore
    <3> QED
      BY <3>8 DEF B
  <2> QED
    BY <2>2, <2>6
<1>4. Claim(n)
  <2> HIDE DEF Claim
  <2> QED
    BY <1>2, <1>3
<1>5. Reached(t, u, M(n))
  BY <1>1, <1>4
<1> QED
  BY <1>5 DEF n

-----------------------------------------------------------------------------
(* Generations *)

LEMMA ListCard ==
  ASSUME NEW s, NEW n, n \in Nat
  PROVE  IsFiniteSet({s[i] : i \in 1..n}) /\ Cardinality({s[i] : i \in 1..n}) <= n
<1> DEFINE M == {s[i] : i \in 1..n}
           f == [i \in 1..n |-> s[i]]
<1>1. f \in Surjection(1..n, M)
  BY DEF Surjection
<1>2. IsFiniteSet(1..n) /\ Cardinality(1..n) = n
  BY FS_Interval
<1> HIDE DEF f, M
<1>4. IsFiniteSet(M) /\ Cardinality(M) <= n
  BY <1>1, <1>2, FS_Surjection
<1> QED
  BY <1>4 DEF M

LEMMA SoundIf ==
  ASSUME NEW t, NEW u, NEW f, NEW M, Reached(t, u, M), f.parent = t, M \subseteq Members(f.cluster),
         IsFiniteSet(M), Cardinality(M) <= f.n, f.n \in Nat
  PROVE  Sound(u, f) /\ Typed(u)
<1> DEFINE d == Differ(u, t)
<1>1. \A m \in d : m \in AllMembers /\ Get(u, m.name) # Get(t, m.name)
  BY DEF Differ, AllMembers
<1> HIDE DEF d
<1>2. d \subseteq M /\ \A m \in d : Ranged(u, m)
  BY <1>1 DEF Reached
<1>3. Cardinality(d) <= f.n
  <2>1. Cardinality(d) <= Cardinality(M) /\ IsFiniteSet(d)
    BY <1>2, FS_Subset
  <2>2. Cardinality(d) \in Nat /\ Cardinality(M) \in Nat
    BY <2>1, FS_CardinalityType
  <2> QED
    BY <2>1, <2>2
<1>4. d = Differ(u, f.parent)
  BY DEF d
<1>5. post_init(u) /\ Typed(u)
  BY DEF Reached
<1> QED
  BY <1>2, <1>3, <1>4, <1>5 DEF Sound, Ranged

LEMMA ClustersAre ==
  ASSUME NEW c, c \in Clusters
  PROVE  Members(c) \subseteq AllMembers /\ Len(ClusterMap[c]) \in Nat \ {0} /\ DOMAIN ClusterMap[c] = 1..Len(ClusterMap[c])
<1>1. c \in DOMAIN ClusterMap
  BY DEF Clusters
<1>2. c \in {"C1", "C2", "C3", "C4", "C5"}
  BY <1>1 DEF ClusterMap
<1>3. Len(ClusterMap[c]) \in Nat \ {0} /\ DOMAIN ClusterMap[c] = 1..Len(ClusterMap[c])
  <2>1. CASE c = "C1"
    BY <2>1 DEF ClusterMap
  <2>2. CASE c = "C2"
    BY <2>2 DEF ClusterMap
  <2>3. CASE c = "C3"
    BY <2>3 DEF ClusterMap
  <2>4. CASE c = "C4"
    BY <2>4 DEF ClusterMap
  <2>5. CASE c = "C5"
    BY <2>5 DEF ClusterMap
  <2> QED
    BY <1>2, <2>1, <2>2, <2>3, <2>4, <2>5
<1> QED
  BY <1>1, <1>3 DEF AllMembers

LEMMA ClusterIs ==
  ASSUME NEW t, NEW c, NEW n, NEW sizes, NEW u, NEW f, c \in Clusters, n \in Nat, Typed(t), post_init(t), Scales(sizes),
         u \in mutate_cluster(t, c, n, sizes), f.parent = t, f.cluster = c, f.n = n
  PROVE  Sound(u, f) /\ Typed(u)
<1>1. PICK s \in Picks(c, n) : u \in MutateEach(t, s, sizes)
  BY DEF mutate_cluster
<1> DEFINE k == Min({n, Len(ClusterMap[c])})
           l == Len(ClusterMap[c])
<1>2. l \in Nat /\ Members(c) \subseteq AllMembers
  BY ClustersAre
<1>3. k = IF n <= l THEN n ELSE l
  <2> HIDE DEF l
  <2>1. Min({n, l}) = IF n <= l THEN n ELSE l
    BY <1>2, MinTwo
  <2> QED
    BY <2>1 DEF l
<1> HIDE DEF l
<1>4. k \in Nat /\ k <= n
  BY <1>2, <1>3
<1>5. s \in [1..k -> Members(c)]
  BY DEF Picks
<1> HIDE DEF k
<1>6. s \in Seq(Members(c)) /\ Len(s) = k
  BY <1>4, <1>5
<1>7. s \in Seq(AllMembers)
  BY <1>2, <1>6, SeqMono
<1> DEFINE M == {s[i] : i \in 1..Len(s)}
<1>8. Reached(t, u, M)
  BY <1>1, <1>7, MutateEachIs
<1>9. IsFiniteSet(M) /\ Cardinality(M) <= Len(s) /\ Len(s) \in Nat
  BY <1>4, <1>6, ListCard
<1>10. M \subseteq Members(c)
  BY <1>5, <1>6
<1> HIDE DEF M
<1>11. Cardinality(M) <= f.n
  <2>1. Cardinality(M) \in Nat
    BY <1>9, FS_CardinalityType
  <2> QED
    BY <1>4, <1>6, <1>9, <2>1
<1> QED
  BY <1>8, <1>9, <1>10, <1>11, SoundIf

LEMMA DefaultTyped == Typed(Default) /\ post_init(Default)
<1>1. Ints(Default.atr_stop_buffer)
  BY DEF Default, Ints
<1>2. ASSUME NEW m \in AllMembers, m.kind # "dict_per_key" PROVE Get(Default, m.name) \in Int
  BY <1>2, MembersAre DEF MemberFacts
<1> QED
  BY <1>1, <1>2, SearchAssumption DEF Typed, Shaped

LEMMA BaselineIs ==
  ASSUME NEW c, c \in Clusters, NEW kids, kids \in build_baseline_candidates(c), NEW f, f.parent = Default,
         f.cluster = c, f.n = 1, NEW i, i \in DOMAIN kids
  PROVE  Sound(kids[i], f) /\ Typed(kids[i])
<1>1. PICK child \in UNION {Mutate({Default}, m, scale) : m \in Members(c), scale \in {500, 2000}} : kids = <<Default, child>>
  BY DEF build_baseline_candidates
<1>2. PICK m \in Members(c), scale \in {500, 2000} : child \in Mutate({Default}, m, scale)
  BY <1>1
<1>3. m \in AllMembers /\ scale \in Int
  BY ClustersAre
<1>4. child \in mutate_field(m, Default, scale)
  BY <1>2 DEF Mutate
<1>5. Moved(Default, child, m)
  BY <1>3, <1>4, DefaultTyped, MutateIs
<1>6. Reached(Default, Default, {})
  BY DefaultTyped DEF Reached
<1>7. Reached(Default, child, {m})
  BY <1>3, <1>5, <1>6, ReachedMore
<1>8. IsFiniteSet({}) /\ Cardinality({}) = 0 /\ IsFiniteSet({m}) /\ Cardinality({m}) = 1
  BY FS_EmptySet, FS_Singleton
<1>9. Sound(Default, f) /\ Typed(Default)
  <2> DEFINE E == {}
  <2>1. Reached(Default, Default, E) /\ E \subseteq Members(f.cluster) /\ IsFiniteSet(E) /\ Cardinality(E) <= f.n
    BY <1>6, <1>8
  <2> HIDE DEF E
  <2> QED
    BY <2>1, SoundIf
<1>10. Sound(child, f) /\ Typed(child)
  <2> DEFINE E == {m}
  <2>1. Reached(Default, child, E) /\ E \subseteq Members(f.cluster) /\ IsFiniteSet(E) /\ Cardinality(E) <= f.n
    BY <1>2, <1>7, <1>8
  <2> HIDE DEF E
  <2> QED
    BY <2>1, SoundIf
<1>11. kids[i] = Default \/ kids[i] = child
  BY <1>1
<1> QED
  BY <1>9, <1>10, <1>11

-----------------------------------------------------------------------------
(* The proposals of the Maker *)

Within(p, c) == p.cluster = {c} /\ Abs(p.pct) <= MAX_DIFF_PCT
Proposals(q, c) == \E Y : q \in Seq(Y) /\ \A y \in Y : Within(y, c)

LEMMA TradIs ==
  ASSUME NEW c, c \in Clusters, NEW i, i \in Nat \ {0}, NEW z, z \in Draws
  PROVE  TradProposal(Default, c, i, z) = None \/ Within(TradProposal(Default, c, i, z), c)
<1> DEFINE l == Len(ClusterMap[c])
           m == ClusterMap[c][((i - 1) % l) + 1]
           old == Get(Default, m.name)
           S == {Clip(m, old + Step(m, 1000, z))}
           w == CHOOSE n \in Replace(Default, S, m.name) : TRUE
           new == Get(w, m.name)
           d == ((new - old) * 100) \div Abs(old)
<1>1. l \in Nat \ {0} /\ DOMAIN ClusterMap[c] = 1..l /\ Members(c) \subseteq AllMembers
  BY ClustersAre
<1>2. m \in AllMembers
  <2> HIDE DEF l
  <2>1. i - 1 \in Nat
    OBVIOUS
  <2> DEFINE j == i - 1
  <2> HIDE DEF j
  <2>2. j % l \in 0..(l - 1)
    BY <1>1, <2>1 DEF j
  <2>3. (j % l) + 1 \in 1..l
    BY <1>1, <2>2
  <2>4. m \in Range(ClusterMap[c])
    BY <1>1, <2>3 DEF Range, j
  <2> QED
    BY <1>1, <2>4 DEF Members
<1> HIDE DEF m
<1>3. TradProposal(Default, c, i, z) =
        IF m.kind = "dict_per_key" THEN None ELSE IF new = old THEN None
        ELSE [cluster |-> {c}, field |-> m.name, pct |-> Clamp(-MAX_DIFF_PCT, MAX_DIFF_PCT, d)]
  BY DEF TradProposal, m
<1>4. ASSUME m.kind # "dict_per_key" PROVE d \in Int
  <2>1. old \in Nat \ {0}
    BY <1>2, <1>4, MembersAre DEF MemberFacts
  <2>2. Step(m, 1000, z) \in Int
    BY StepIs, SearchAssumption
  <2>3. old + Step(m, 1000, z) \in Int
    BY <2>1, <2>2
  <2>4. \A v \in S : Fits(m, v)
    BY <1>2, <1>4, <2>3, ClipFits
  <2>5. Replace(Default, S, m.name) # {}
    <3>1. \A T : {Put(Default, m.name, v) : v \in {T}} # {}
      OBVIOUS
    <3> QED
      BY <3>1 DEF Replace
  <2> HIDE DEF S
  <2>6. w \in Replace(Default, S, m.name)
    BY <2>5
  <2> HIDE DEF w
  <2>7. Moved(Default, w, m)
    BY <1>2, <2>4, <2>6, DefaultTyped, ReplaceIs
  <2>8. new \in Int
    BY <1>2, <1>4, <2>7 DEF Moved, Typed
  <2> HIDE DEF new, old
  <2>9. (new - old) * 100 \in Int /\ Abs(old) = old
    BY <2>1, <2>8 DEF Abs
  <2> DEFINE a == (new - old) * 100
  <2> HIDE DEF a
  <2>10. a \in Int /\ d = a \div old
    BY <2>9 DEF a
  <2> HIDE DEF d
  <2> QED
    BY <2>1, <2>10
<1> HIDE DEF new, old, d, w, S, l
<1>5. ASSUME d \in Int PROVE Abs(Clamp(-MAX_DIFF_PCT, MAX_DIFF_PCT, d)) <= MAX_DIFF_PCT
  <2> DEFINE hi == MAX_DIFF_PCT
             lo == -MAX_DIFF_PCT
  <2>1. lo \in Int /\ hi \in Int /\ lo <= hi /\ lo = -hi
    BY DEF MAX_DIFF_PCT
  <2> HIDE DEF lo, hi
  <2>2. Clamp(lo, hi, d) \in lo..hi
    BY <1>5, <2>1, ClampIs
  <2> DEFINE x == Clamp(lo, hi, d)
  <2> HIDE DEF x
  <2>3. x \in lo..hi
    BY <2>2 DEF x
  <2>4. Abs(x) <= hi
    BY <2>1, <2>3 DEF Abs
  <2> QED
    BY <2>4 DEF x, lo, hi
<1> QED
  BY <1>3, <1>4, <1>5 DEF Within

LEMMA ParsedIs ==
  ASSUME NEW raw, NEW c
  PROVE  parse_proposal(raw, c) = None \/ Within(parse_proposal(raw, c), c)
BY DEF parse_proposal, Within

LEMMA MadeIs ==
  ASSUME NEW slots, NEW X, NEW c, slots \in Seq(X), \A i \in 1..Len(slots) : slots[i] = None \/ Within(slots[i], c)
  PROVE  Proposals(Made(slots), c) /\ Len(Made(slots)) \in Nat /\ Len(Made(slots)) <= Len(slots)
<1> DEFINE I == {i \in DOMAIN slots : slots[i] # None}
           Y == {slots[i] : i \in I \cap (1..Len(slots))}
<1>1. Made(slots) = Kept(slots, I)
  BY DEF Made
<1>2. \A y \in Y : Within(y, c)
  OBVIOUS
<1>3. Kept(slots, I) \in Seq(Y) /\ Len(Kept(slots, I)) <= Len(slots)
  <2> HIDE DEF I
  <2> QED
    BY KeptIs
<1> HIDE DEF I, Y
<1>4. Len(Kept(slots, I)) \in Nat
  BY <1>3
<1> QED
  BY <1>1, <1>2, <1>3, <1>4 DEF Proposals

LEMMA TradsAre ==
  ASSUME NEW c, c \in Clusters, NEW n, n \in Nat, NEW zs, \A i \in 1..n : zs[i] \in Draws
  PROVE  LET q == traditional_proposals(Default, c, n, zs)
         IN  Proposals(q, c) /\ Len(q) \in Nat /\ Len(q) <= n
<1> DEFINE slots == [i \in 1..n |-> TradProposal(Default, c, i, zs[i])]
           X == {TradProposal(Default, c, i, zs[i]) : i \in 1..n}
<1>1. slots \in Seq(X) /\ Len(slots) = n
  OBVIOUS
<1>2. ASSUME NEW i \in 1..n PROVE slots[i] = None \/ Within(slots[i], c)
  <2>1. slots[i] = TradProposal(Default, c, i, zs[i]) /\ i \in Nat \ {0} /\ zs[i] \in Draws
    OBVIOUS
  <2> HIDE DEF slots
  <2> QED
    BY <2>1, TradIs
<1>3. traditional_proposals(Default, c, n, zs) = Made(slots)
  BY DEF traditional_proposals
<1> HIDE DEF slots, X
<1>4. \A i \in 1..Len(slots) : slots[i] = None \/ Within(slots[i], c)
  BY <1>1, <1>2
<1>5. Proposals(Made(slots), c) /\ Len(Made(slots)) \in Nat /\ Len(Made(slots)) <= Len(slots)
  BY <1>1, <1>4, MadeIs
<1> QED
  BY <1>1, <1>3, <1>5

LEMMA LlmsAre ==
  ASSUME NEW c, NEW raws, NEW X, raws \in Seq(X)
  PROVE  Proposals(propose_via_llm(raws, c), c) /\ Len(propose_via_llm(raws, c)) \in Nat
<1> DEFINE slots == [i \in DOMAIN raws |-> parse_proposal(raws[i], c)]
           Y == {parse_proposal(raws[i], c) : i \in DOMAIN raws}
<1>1. slots \in Seq(Y) /\ Len(slots) = Len(raws)
  OBVIOUS
<1>2. ASSUME NEW i \in 1..Len(slots) PROVE slots[i] = None \/ Within(slots[i], c)
  <2>1. slots[i] = parse_proposal(raws[i], c)
    BY <1>1
  <2> HIDE DEF slots
  <2> QED
    BY <2>1, ParsedIs
<1>3. propose_via_llm(raws, c) = Made(slots)
  BY DEF propose_via_llm
<1> HIDE DEF slots, Y
<1> QED
  BY <1>1, <1>2, <1>3, MadeIs

LEMMA JoinedAre ==
  ASSUME NEW p, NEW q, NEW c, Proposals(p, c), Proposals(q, c)
  PROVE  Proposals(p \o q, c)
<1>1. PICK Y : p \in Seq(Y) /\ \A y \in Y : Within(y, c)
  BY DEF Proposals
<1>2. PICK Z : q \in Seq(Z) /\ \A y \in Z : Within(y, c)
  BY DEF Proposals
<1> DEFINE W == Y \cup Z
<1>3. Y \subseteq W /\ Z \subseteq W /\ \A y \in W : Within(y, c)
  BY <1>1, <1>2
<1> HIDE DEF W
<1>4. p \in Seq(W)
  BY <1>1, <1>3, SeqMono
<1>5. q \in Seq(W)
  BY <1>2, <1>3, SeqMono
<1>6. p \o q \in Seq(W)
  BY <1>4, <1>5, JoinIs
<1> QED
  BY <1>3, <1>6 DEF Proposals

LEMMA CutIs ==
  ASSUME NEW q, NEW c, NEW n, n \in Nat, Proposals(q, c)
  PROVE  Proposals(WithinCount(q, n), c) /\ Len(WithinCount(q, n)) <= n
<1>1. PICK Y : q \in Seq(Y) /\ \A y \in Y : Within(y, c)
  BY DEF Proposals
<1> DEFINE l == Len(q)
           k == IF n <= l THEN n ELSE l
<1>2. l \in Nat /\ \A i \in 1..l : q[i] \in Y
  BY <1>1
<1> HIDE DEF l
<1>3. Min({n, l}) = k
  BY <1>2, MinTwo
<1>4. WithinCount(q, n) = SubSeq(q, 1, k)
  BY <1>3 DEF WithinCount, l
<1>5. k \in Nat /\ k <= n /\ k <= l
  BY <1>2
<1> HIDE DEF k
<1>6. \A i \in 1..k : q[i] \in Y
  BY <1>2, <1>5
<1>7. /\ SubSeq(q, 1, k) \in Seq(Y)
      /\ Len(SubSeq(q, 1, k)) = IF 1 <= k THEN k - 1 + 1 ELSE 0
  BY <1>5, <1>6, SubSeqProperties
<1> DEFINE u == SubSeq(q, 1, k)
<1>8. u \in Seq(Y) /\ Len(u) <= n
  <2>1. Len(u) = IF 1 <= k THEN k - 1 + 1 ELSE 0
    BY <1>7
  <2> HIDE DEF u
  <2> QED
    BY <1>5, <1>7, <2>1 DEF u
<1> HIDE DEF u
<1>9. Proposals(u, c)
  BY <1>1, <1>8 DEF Proposals
<1> QED
  BY <1>4, <1>8, <1>9 DEF u

LEMMA CountIs ==
  ASSUME NEW n, n \in Nat \ {0}
  PROVE  LlmCount(n) \in Nat /\ LlmCount(n) <= n
<1>1. LlmCount(n) = (2 * (n * 6) + 10) \div (2 * 10)
  BY DEF LlmCount, RoundDiv, Abs
<1> QED
  BY <1>1

\* Whatever the LLM answers, a batch is no longer than asked for and stays in
\* its cluster and within the limit.
LEMMA BatchIs ==
  ASSUME NEW mode, mode \in {"mix", "llm_only", "trad_only"}, NEW c, c \in Clusters, NEW n, n \in Nat \ {0},
         NEW X, NEW raws, raws \in Seq(X), NEW zs, \A i \in 1..n : zs[i] \in Draws
  PROVE  LET q == propose_batch(mode, Default, c, n, raws, zs) IN Proposals(q, c) /\ Len(q) <= n
<1>1. CASE mode = "trad_only"
  BY <1>1, TradsAre DEF propose_batch
<1>2. CASE mode # "trad_only"
  <2> DEFINE target == IF mode = "llm_only" THEN n ELSE LlmCount(n)
             llm == propose_via_llm(raws, c)
             topUp == IF Len(llm) < target THEN traditional_proposals(Default, c, target - Len(llm), zs) ELSE <<>>
             trad == IF mode = "mix" THEN traditional_proposals(Default, c, n - LlmCount(n), zs) ELSE <<>>
             first == IF target > 0 THEN llm \o topUp ELSE <<>>
  <2>1. propose_batch(mode, Default, c, n, raws, zs) = WithinCount(first \o trad, n)
    BY <1>2 DEF propose_batch
  <2>2. Proposals(<<>>, c)
    <3> DEFINE Y == {}
               e == <<>>
    <3>1. e \in Seq(Y) /\ \A y \in Y : Within(y, c)
      OBVIOUS
    <3> HIDE DEF Y, e
    <3>2. Proposals(e, c)
      BY <3>1 DEF Proposals
    <3> QED
      BY <3>2 DEF e
  <2>3. Proposals(llm, c) /\ Len(llm) \in Nat
    BY LlmsAre
  <2>4. target \in Nat /\ target <= n
    BY CountIs
  <2>5. ASSUME NEW k, k \in Nat, k <= n PROVE Proposals(traditional_proposals(Default, c, k, zs), c)
    <3>1. \A i \in 1..k : zs[i] \in Draws
      BY <2>5
    <3> QED
      BY <2>5, <3>1, TradsAre
  <2> HIDE DEF target, llm
  <2>6. Proposals(topUp, c)
    <3>1. CASE Len(llm) < target
      <4> DEFINE k == target - Len(llm)
      <4>1. k \in Nat /\ k <= n
        BY <2>3, <2>4, <3>1
      <4>2. topUp = traditional_proposals(Default, c, k, zs)
        BY <3>1
      <4> HIDE DEF k, topUp
      <4> QED
        BY <2>5, <4>1, <4>2
    <3> QED
      BY <2>2, <3>1
  <2>7. Proposals(trad, c)
    <3> DEFINE k == n - LlmCount(n)
    <3>1. k \in Nat /\ k <= n
      BY CountIs
    <3>2. trad = IF mode = "mix" THEN traditional_proposals(Default, c, k, zs) ELSE <<>>
      OBVIOUS
    <3> HIDE DEF k, trad
    <3> QED
      BY <2>2, <2>5, <3>1, <3>2
  <2> HIDE DEF topUp, trad
  <2>8. Proposals(first, c)
    <3>1. Proposals(llm \o topUp, c)
      BY <2>3, <2>6, JoinedAre
    <3> QED
      BY <2>2, <3>1
  <2> HIDE DEF first
  <2>9. Proposals(first \o trad, c)
    BY <2>7, <2>8, JoinedAre
  <2> QED
    BY <2>1, <2>9, CutIs
<1> QED
  BY <1>1, <1>2

-----------------------------------------------------------------------------
(* Every generation is contained *)

FileOk(f) ==
    /\ f = [whole |-> f.whole, gen |-> f.gen, cluster |-> f.cluster, n |-> f.n, parent |-> f.parent, children |-> f.children]
    /\ \A i \in DOMAIN f.children : Sound(f.children[i], f) /\ Typed(f.children[i])
BatchOk(b) == Len(b.proposals) <= b.n /\ \A i \in DOMAIN b.proposals : Within(b.proposals[i], b.cluster)
ParentOk(t) == Typed(t) /\ post_init(t)

\* The parent of the next generation passes its checks, the step sizes are
\* numbers, and what is on disk is as contained as what runs.
SearchInv == ParentOk(parent) /\ Scales(report) /\ FileOk(file) /\ FileOk(ran) /\ BatchOk(batch)

LEMMA NoFileOk == FileOk(NoFile)
<1>1. DOMAIN NoFile.children = {}
  BY DEF NoFile
<1> QED
  BY <1>1 DEF FileOk, NoFile

LEMMA ScanScales ==
  ASSUME Scan
  PROVE  Scales(report')
<1>0. PICK c \in Clusters, p \in Deltas, m \in Deltas : \E hot \in Members(c) :
        report' = [n \in {x.name : x \in Members(c)} |-> IF n = hot.name THEN Scale(p, m) ELSE Scale(0, 0)]
  BY DEF Scan
<1>1. PICK hot \in Members(c) :
        report' = [n \in {x.name : x \in Members(c)} |-> IF n = hot.name THEN Scale(p, m) ELSE Scale(0, 0)]
  BY <1>0
<1>2. p \in Int /\ m \in Int
  BY SearchAssumption
<1>3. Scale(p, m) \in Int /\ Scale(0, 0) \in Int
  BY <1>2, ScaleIs
<1> QED
  BY <1>1, <1>3 DEF Scales

LEMMA GenerateOk ==
  ASSUME SearchInv, Generate
  PROVE  FileOk(file')
<1>1. CASE UNCHANGED file
  BY <1>1 DEF SearchInv
<1>2. ASSUME NEW c \in Clusters, NEW n \in NMutations, NEW lambda \in Lambdas,
             NEW kids \in [1..lambda -> mutate_cluster(parent, c, n, report)],
             file' = [whole |-> FALSE, gen |-> gen + 1, cluster |-> c, n |-> n, parent |-> parent, children |-> kids]
      PROVE  FileOk(file')
  <2> DEFINE f == [whole |-> FALSE, gen |-> gen + 1, cluster |-> c, n |-> n, parent |-> parent, children |-> kids]
  <2>1. f.parent = parent /\ f.cluster = c /\ f.n = n /\ f.children = kids
    OBVIOUS
  <2>2. f = [whole |-> f.whole, gen |-> f.gen, cluster |-> f.cluster, n |-> f.n, parent |-> f.parent, children |-> f.children]
    OBVIOUS
  <2> HIDE DEF f
  <2>3. n \in Nat /\ ParentOk(parent) /\ Scales(report)
    BY SearchAssumption DEF SearchInv
  <2>4. ASSUME NEW i \in DOMAIN kids PROVE Sound(kids[i], f) /\ Typed(kids[i])
    <3>1. kids[i] \in mutate_cluster(parent, c, n, report)
      OBVIOUS
    <3> QED
      BY <2>1, <2>3, <3>1, ClusterIs DEF ParentOk
  <2>5. FileOk(f)
    BY <2>1, <2>2, <2>4 DEF FileOk
  <2> QED
    BY <1>2, <2>5 DEF f
<1> QED
  BY <1>1, <1>2 DEF Generate

LEMMA BaselineOk ==
  ASSUME Baseline
  PROVE  FileOk(file') /\ ran' = file'
<1>0. PICK c \in Clusters : \E kids \in build_baseline_candidates(c) :
        file' = [whole |-> TRUE, gen |-> 1, cluster |-> c, n |-> 1, parent |-> Default, children |-> kids]
  BY DEF Baseline
<1>1. PICK kids \in build_baseline_candidates(c) :
        file' = [whole |-> TRUE, gen |-> 1, cluster |-> c, n |-> 1, parent |-> Default, children |-> kids]
  BY <1>0
<1> DEFINE f == [whole |-> TRUE, gen |-> 1, cluster |-> c, n |-> 1, parent |-> Default, children |-> kids]
<1>2. f.parent = Default /\ f.cluster = c /\ f.n = 1 /\ f.children = kids
  OBVIOUS
<1>3. f = [whole |-> f.whole, gen |-> f.gen, cluster |-> f.cluster, n |-> f.n, parent |-> f.parent, children |-> f.children]
  OBVIOUS
<1> HIDE DEF f
<1>4. ASSUME NEW i \in DOMAIN kids PROVE Sound(kids[i], f) /\ Typed(kids[i])
  BY <1>2, BaselineIs
<1>5. FileOk(f)
  BY <1>2, <1>3, <1>4 DEF FileOk
<1> QED
  BY <1>1, <1>5 DEF f, Baseline

LEMMA FlushOk ==
  ASSUME SearchInv, Flush
  PROVE  FileOk(file')
<1> DEFINE g == file'
<1>1. file' = [file EXCEPT !.whole = TRUE] /\ FileOk(file)
  BY DEF Flush, SearchInv
<1>2. /\ g.parent = file.parent /\ g.cluster = file.cluster /\ g.n = file.n /\ g.children = file.children
      /\ g = [whole |-> g.whole, gen |-> g.gen, cluster |-> g.cluster, n |-> g.n, parent |-> g.parent, children |-> g.children]
  BY <1>1 DEF FileOk
<1> HIDE DEF g
<1>3. ASSUME NEW i \in DOMAIN g.children PROVE Sound(g.children[i], g) /\ Typed(g.children[i])
  <2>1. Sound(file.children[i], file) /\ Typed(file.children[i]) /\ g.children[i] = file.children[i]
    BY <1>1, <1>2 DEF FileOk
  <2> DEFINE u == file.children[i]
  <2>2. Sound(u, file) /\ Typed(u) /\ g.children[i] = u
    BY <2>1
  <2> HIDE DEF u
  <2>3. Sound(u, g)
    BY <1>2, <2>2 DEF Sound
  <2> QED
    BY <2>2, <2>3
<1>4. FileOk(g)
  BY <1>2, <1>3 DEF FileOk
<1> QED
  BY <1>4 DEF g

LEMMA ProposeOk ==
  ASSUME Propose
  PROVE  BatchOk(batch')
<1>1. PICK c \in Clusters, n \in 1..MaxSlots, mode \in {"mix", "llm_only", "trad_only"},
           raws \in SeqOf(RawProposals, MaxSlots + 1), zs \in [1..MaxSlots -> Draws] :
        batch' = [cluster |-> c, n |-> n, proposals |-> propose_batch(mode, Default, c, n, raws, zs)]
  BY DEF Propose
<1>2. raws \in Seq(RawProposals)
  <2>1. PICK m \in 0..(MaxSlots + 1) : raws \in [1..m -> RawProposals]
    BY <1>1 DEF SeqOf
  <2>2. m \in Nat
    BY SearchAssumption
  <2> QED
    BY <2>1, <2>2
<1>3. n \in Nat \ {0} /\ \A i \in 1..n : zs[i] \in Draws
  BY SearchAssumption
<1> DEFINE q == propose_batch(mode, Default, c, n, raws, zs)
<1>4. Proposals(q, c) /\ Len(q) <= n
  BY <1>2, <1>3, BatchIs
<1> HIDE DEF q
<1>5. batch'.cluster = c /\ batch'.n = n /\ batch'.proposals = q
  BY <1>1 DEF q
<1>6. ASSUME NEW i \in DOMAIN q PROVE Within(q[i], c)
  <2>1. PICK Y : q \in Seq(Y) /\ \A y \in Y : Within(y, c)
    BY <1>4 DEF Proposals
  <2>2. q[i] \in Y
    BY <2>1
  <2> QED
    BY <2>1, <2>2
<1> QED
  BY <1>4, <1>5, <1>6 DEF BatchOk

LEMMA SearchStep ==
  ASSUME SearchInv, [SearchNext]_toolVars
  PROVE  SearchInv'
<1>1. CASE Scan
  <2>1. UNCHANGED <<parent, file, ran, batch>>
    BY <1>1 DEF Scan
  <2> QED
    BY <1>1, <2>1, ScanScales DEF SearchInv
<1>2. CASE Generate
  <2>1. UNCHANGED <<parent, report, ran, batch>>
    BY <1>2 DEF Generate
  <2> QED
    BY <1>2, <2>1, GenerateOk DEF SearchInv
<1>3. CASE Flush
  <2>1. UNCHANGED <<parent, report, ran, batch>>
    BY <1>3 DEF Flush
  <2> QED
    BY <1>3, <2>1, FlushOk DEF SearchInv
<1>4. CASE Drive
  <2>1. UNCHANGED <<parent, report, file, batch>> /\ (ran' = file \/ ran' = ran)
    BY <1>4 DEF Drive
  <2> QED
    BY <2>1 DEF SearchInv
<1>5. CASE Adopt
  <2>1. UNCHANGED <<report, file, batch>> /\ ran' = NoFile
    BY <1>5 DEF Adopt
  <2>2. PICK i \in DOMAIN ran.children : parent' = ran.children[i]
    BY <1>5 DEF Adopt
  <2>3. Sound(parent', ran) /\ Typed(parent')
    BY <2>2 DEF SearchInv, FileOk
  <2>4. ParentOk(parent')
    BY <2>3 DEF Sound, ParentOk
  <2> QED
    BY <2>1, <2>4, NoFileOk DEF SearchInv
<1>6. CASE Baseline
  <2>1. UNCHANGED <<parent, report, batch>>
    BY <1>6 DEF Baseline
  <2> QED
    BY <1>6, <2>1, BaselineOk DEF SearchInv
<1>7. CASE Propose
  <2>1. UNCHANGED <<parent, report, file, ran>>
    BY <1>7 DEF Propose, searchVars
  <2> QED
    BY <1>7, <2>1, ProposeOk DEF SearchInv
<1>8. CASE UNCHANGED <<parent, report, file, ran, batch>>
  BY <1>8 DEF SearchInv
<1>9. Score \/ Review \/ WalkForward \/ UNCHANGED toolVars => UNCHANGED <<parent, report, file, ran, batch>>
  BY DEF Score, Review, WalkForward, toolVars, searchVars
<1> QED
  BY <1>1, <1>2, <1>3, <1>4, <1>5, <1>6, <1>7, <1>8, <1>9 DEF SearchNext

\* Whatever makes the next candidates stays inside its limits, over any number
\* of generations, fields per child and answers of the LLM: every child passes
\* __post_init__ and differs from its parent in at most n fields of its cluster,
\* each in its range (mutate_cluster, build_baseline_candidates), and a batch of
\* the Maker is no larger, in no other cluster and no bolder than it may be
\* (propose_batch).
THEOREM CandidatesAreContained == SearchSpec => []CandidatesContained
<1>1. SearchInit => SearchInv
  <2> SUFFICES ASSUME SearchInit PROVE SearchInv
    OBVIOUS
  <2>1. parent = Default /\ report = NoReport /\ file = NoFile /\ ran = NoFile /\ batch = NoBatch
    BY DEF SearchInit
  <2>2. Scales(NoReport)
    BY DEF Scales, NoReport
  <2>3. BatchOk(NoBatch)
    BY DEF BatchOk, NoBatch
  <2> QED
    BY <2>1, <2>2, <2>3, NoFileOk, DefaultTyped DEF SearchInv, ParentOk
<1>2. SearchInv => CandidatesContained
  BY DEF SearchInv, FileOk, BatchOk, Within, CandidatesContained
<1> QED
  BY <1>1, <1>2, SearchStep, PTL DEF SearchSpec

=============================================================================
