------------------------- MODULE TrainingDAG_proofs --------------------------
(***************************************************************************)
(* TrainingDAG, for every pipeline graph.                                   *)
(***************************************************************************)
EXTENDS TrainingDAG, FiniteSetTheorems, WellFoundedInduction, TLAPS

-----------------------------------------------------------------------------
(* Induction over sets of naturals, from the well-foundedness of < *)

\* Every nonempty set of naturals has a least element.
LEMMA LeastElement ==
    ASSUME NEW T \in SUBSET Nat, T # {}
    PROVE  \E x \in T : \A y \in T : x <= y
<1> DEFINE R == OpToRel(<, Nat)
<1>1. IsWellFoundedOn(R, Nat)
  BY NatLessThanWellFounded, Zenon
<1>2. \A x, y \in Nat : x < y => <<x, y>> \in R
  BY DEF OpToRel
<1> HIDE DEF R
<1>3. PICK x \in T : \A y \in T : ~(<<y, x>> \in R)
  BY <1>1, WFMin
<1>4. ASSUME NEW y \in T
      PROVE  x <= y
  <2>1. x \in Nat /\ y \in Nat
    OBVIOUS
  <2>2. ~(y < x)
    BY <1>2, <1>3, <2>1
  <2> QED
    BY <2>1, <2>2
<1> QED
  BY <1>4

LEMMA SetInduction ==
    ASSUME NEW S \in SUBSET Nat, 0 \in S, \A n \in S : n + 1 \in S
    PROVE  \A n \in Nat : n \in S
<1> DEFINE T == Nat \ S
<1> SUFFICES ASSUME T # {} PROVE FALSE
  OBVIOUS
<1>1. PICK x \in T : \A y \in T : x <= y
  BY LeastElement
<1>2. x \in Nat /\ x # 0 /\ x - 1 \in Nat
  OBVIOUS
<1>3. x - 1 \in S
  BY <1>1, <1>2
<1> QED
  BY <1>2, <1>3

\* A nonempty set of naturals with a bound has a maximum, which is its Max.
LEMMA MaxIs ==
    ASSUME NEW S \in SUBSET Nat, NEW x \in S, \A y \in S : y <= x
    PROVE  Max(S) = x
<1> DEFINE IsMax(z) == z \in S /\ \A y \in S : z >= y
<1>1. IsMax(x)
  OBVIOUS
<1>2. ASSUME NEW z, IsMax(z)
      PROVE  z = x
  BY <1>2
<1>3. Max(S) = CHOOSE z \in S : \A y \in S : z >= y
  BY DEF Max
<1> QED
  BY <1>1, <1>2, <1>3

LEMMA MaxOfBounded ==
    ASSUME NEW S \in SUBSET Nat, S # {}, NEW b \in Nat, \A y \in S : y <= b
    PROVE  Max(S) \in S /\ \A y \in S : y <= Max(S)
<1> DEFINE U == {u \in Nat : \A y \in S : y <= u}
<1>1. PICK x \in U : \A u \in U : x <= u
  BY LeastElement
<1>2. x \in S
  <2> SUFFICES ASSUME x \notin S PROVE FALSE
    OBVIOUS
  <2>1. x \in Nat /\ \A y \in S : y \in Nat /\ y < x
    BY <1>1
  <2>5. PICK z \in S : TRUE
    OBVIOUS
  <2>6. z \in Nat /\ z < x
    BY <2>1
  <2>2. x - 1 \in Nat
    BY <2>1, <2>6
  <2>3. \A y \in S : y <= x - 1
    BY <2>1, <2>2
  <2>4. x - 1 \in U
    BY <2>2, <2>3
  <2> QED
    BY <1>1, <2>1, <2>4
<1> QED
  BY <1>1, <1>2, MaxIs

-----------------------------------------------------------------------------
(* topoLevels *)

K == Cardinality(Steps)
FirstRound(d)   == [done |-> {}, current |-> {s \in Steps : d[s] = {}}]
NextRound(d, r) == [done |-> r.done \cup r.current, current |-> NextLevel(d, r.done, r.current)]

LEMMA StepsFinite == K \in Nat /\ K > 0
  BY StepsAssumption, FS_CardinalityType, FS_EmptySet DEF K

\* The recursive definition has a solution, and Rounds is it.
LEMMA RoundsDef ==
    ASSUME NEW d
    PROVE  Rounds(d) = [n \in 1..K |-> IF n = 1 THEN FirstRound(d) ELSE NextRound(d, Rounds(d)[n - 1])]
<1> DEFINE Body(f, n) == IF n = 1 THEN FirstRound(d) ELSE NextRound(d, f[n - 1])
           S == {n \in Nat : \E f : f = [m \in 1..n |-> Body(f, m)]}
<1>1. 0 \in S
  <2>1. [m \in 1..0 |-> 0] = [m \in 1..0 |-> Body([k \in 1..0 |-> 0], m)]
    OBVIOUS
  <2> QED
    BY <2>1
<1>2. ASSUME NEW n \in S
      PROVE  n + 1 \in S
  <2>1. PICK f : f = [m \in 1..n |-> Body(f, m)]
    OBVIOUS
  <2> DEFINE g == [m \in 1..(n + 1) |-> Body(f, m)]
  <2>2. ASSUME NEW m \in 1..(n + 1)
        PROVE  Body(f, m) = Body(g, m)
    <3>1. CASE m = 1
      BY <3>1
    <3>2. CASE m # 1
      <4>1. m - 1 \in 1..n /\ m - 1 \in 1..(n + 1)
        BY <3>2
      <4>2. g[m - 1] = Body(f, m - 1) /\ f[m - 1] = Body(f, m - 1)
        BY <2>1, <4>1
      <4> QED
        BY <3>2, <4>2
    <3> QED
      BY <3>1, <3>2
  <2>3. g = [m \in 1..(n + 1) |-> Body(g, m)]
    <3> HIDE DEF Body
    <3> QED
      BY <2>2
  <2>4. n + 1 \in Nat
    OBVIOUS
  <2> HIDE DEF g, Body
  <2> QED
    BY <2>3, <2>4
<1>3. K \in S
  <2>1. S \in SUBSET Nat
    OBVIOUS
  <2> HIDE DEF S
  <2> QED
    BY <1>1, <1>2, <2>1, SetInduction, StepsFinite
<1>4. PICK f : f = [m \in 1..K |-> Body(f, m)]
  BY <1>3
<1>5. Rounds(d) = CHOOSE g : g = [n \in 1..K |-> Body(g, n)]
  BY DEF Rounds, K, FirstRound, NextRound
<1> QED
  BY <1>4, <1>5

\* The steps of the n-th round, and of the rounds before it.
Current(d, n) == Rounds(d)[n].current
Done(d, n)    == Rounds(d)[n].done

LEMMA RoundParts ==
    ASSUME NEW d
    PROVE  /\ Done(d, 1) = {} /\ Current(d, 1) = {s \in Steps : d[s] = {}}
           /\ \A n \in 1..K : n # 1 =>
                /\ Done(d, n) = Done(d, n - 1) \cup Current(d, n - 1)
                /\ Current(d, n) = NextLevel(d, Done(d, n - 1), Current(d, n - 1))
<1>1. 1 \in 1..K
  BY StepsFinite
<1>2. Rounds(d)[1] = FirstRound(d)
  BY <1>1, RoundsDef
<1>3. ASSUME NEW n \in 1..K, n # 1
      PROVE  Rounds(d)[n] = NextRound(d, Rounds(d)[n - 1])
  BY <1>3, RoundsDef
<1>4. Done(d, 1) = {} /\ Current(d, 1) = {s \in Steps : d[s] = {}}
  BY <1>2 DEF FirstRound, Current, Done
<1>5. ASSUME NEW n \in 1..K, n # 1
      PROVE  /\ Done(d, n) = Done(d, n - 1) \cup Current(d, n - 1)
             /\ Current(d, n) = NextLevel(d, Done(d, n - 1), Current(d, n - 1))
  <2> DEFINE q == Rounds(d)[n - 1]
  <2>1. /\ NextRound(d, q).done = q.done \cup q.current
        /\ NextRound(d, q).current = NextLevel(d, q.done, q.current)
    BY DEF NextRound
  <2>2. Rounds(d)[n] = NextRound(d, q)
    BY <1>3, <1>5
  <2> QED
    BY <2>1, <2>2, Zenon DEF Current, Done
<1> QED
  BY <1>4, <1>5

LEMMA CurrentInSteps ==
    ASSUME NEW d, NEW n \in 1..K
    PROVE  Current(d, n) \subseteq Steps
<1>1. CASE n = 1
  BY <1>1, RoundParts
<1>2. CASE n # 1
  <2>1. Current(d, n) = NextLevel(d, Done(d, n - 1), Current(d, n - 1))
    BY <1>2, RoundParts
  <2> QED
    BY <2>1 DEF NextLevel
<1> QED
  BY <1>1, <1>2

\* Done is what the earlier rounds have reached.
LEMMA DoneIsEarlier ==
    ASSUME NEW d
    PROVE  \A n \in 1..K : \A s : s \in Done(d, n) <=> \E m \in 1..(n - 1) : s \in Current(d, m)
<1> DEFINE P(n) == \A s : s \in Done(d, n) <=> \E m \in 1..(n - 1) : s \in Current(d, m)
           S == {n \in Nat : n + 1 \in 1..K => P(n + 1)}
<1>1. 0 \in S
  BY RoundParts
<1>2. ASSUME NEW n \in S
      PROVE  n + 1 \in S
  <2> SUFFICES ASSUME n + 2 \in 1..K
               PROVE  P(n + 2)
    OBVIOUS
  <2>1. P(n + 1)
    BY StepsFinite
  <2>2. Done(d, n + 2) = Done(d, n + 1) \cup Current(d, n + 1)
    BY RoundParts
  <2>3. 1..(n + 2 - 1) = 1..(n + 1 - 1) \cup {n + 1}
    OBVIOUS
  <2> QED
    BY <2>1, <2>2, <2>3
<1>3. \A n \in Nat : n \in S
  <2>1. S \in SUBSET Nat
    OBVIOUS
  <2> HIDE DEF S
  <2> QED
    BY <1>1, <1>2, <2>1, SetInduction
<1>4. ASSUME NEW n \in 1..K
      PROVE  P(n)
  <2>1. n - 1 \in S
    BY <1>3, StepsFinite
  <2> QED
    BY <2>1, StepsFinite
<1> QED
  BY <1>4

\* A step joins a round when its parents were reached, the last of them just now.
LEMMA RoundParents ==
    ASSUME NEW d, NEW n \in 1..K, NEW s \in Current(d, n)
    PROVE  /\ \A p \in d[s] : \E m \in 1..(n - 1) : p \in Current(d, m)
           /\ n = 1 => d[s] = {}
           /\ n # 1 => \E p \in d[s] : p \in Current(d, n - 1)
<1>1. CASE n = 1
  BY <1>1, RoundParts
<1>2. CASE n # 1
  <2>1. /\ s \in NextLevel(d, Done(d, n - 1), Current(d, n - 1))
        /\ Done(d, n) = Done(d, n - 1) \cup Current(d, n - 1)
    BY <1>2, RoundParts
  <2>2. d[s] \cap Current(d, n - 1) # {} /\ d[s] \subseteq Done(d, n)
    BY <2>1 DEF NextLevel
  <2> QED
    BY <1>2, <2>2, DoneIsEarlier
<1> QED
  BY <1>1, <1>2

\* No step is in two rounds.
LEMMA RoundsDisjoint ==
    ASSUME NEW d
    PROVE  \A m, n \in 1..K : \A s : s \in Current(d, m) /\ s \in Current(d, n) => m = n
<1> DEFINE P(n) == \A i, j \in 1..K : i <= n /\ j <= n =>
                      \A s : s \in Current(d, i) /\ s \in Current(d, j) => i = j
           S == {n \in Nat : P(n)}
<1>1. 0 \in S
  OBVIOUS
<1>2. ASSUME NEW n \in S
      PROVE  n + 1 \in S
  <2>1. ASSUME n + 1 \in 1..K, NEW m \in 1..n, NEW s, s \in Current(d, m), s \in Current(d, n + 1)
        PROVE  FALSE
    <3>1. n \in 1..K /\ n + 1 # 1 /\ m \in 1..K
      BY <2>1, StepsFinite
    <3>2. PICK p \in d[s] : p \in Current(d, n)
      BY <2>1, <3>1, RoundParents
    <3>3. PICK k \in 1..(m - 1) : p \in Current(d, k)
      BY <2>1, <3>1, RoundParents
    <3>4. k \in 1..K /\ k <= n /\ k # n
      BY <3>1, StepsFinite
    <3> QED
      BY <3>1, <3>2, <3>3, <3>4
  <2> SUFFICES ASSUME NEW i \in 1..K, NEW j \in 1..K, i <= n + 1, j <= n + 1,
                      NEW s, s \in Current(d, i), s \in Current(d, j)
               PROVE  i = j
    OBVIOUS
  <2>2. CASE i <= n /\ j <= n
    BY <2>2
  <2>3. CASE i = n + 1 /\ j # n + 1
    BY <2>1, <2>3
  <2>4. CASE j = n + 1 /\ i # n + 1
    BY <2>1, <2>4
  <2> QED
    BY <2>2, <2>3, <2>4
<1>3. \A n \in Nat : n \in S
  <2>1. S \in SUBSET Nat
    OBVIOUS
  <2> HIDE DEF S
  <2> QED
    BY <1>1, <1>2, <2>1, SetInduction
<1>4. P(K)
  BY <1>3, StepsFinite
<1> QED
  BY <1>4, StepsFinite

\* The level of a step is the round that reached it.
LEMMA LevelIsRound ==
    ASSUME NEW d, NEW s \in Steps
    PROVE  /\ \A n \in 1..K : TopoLevels(d)[s] = n <=> s \in Current(d, n)
           /\ TopoLevels(d)[s] \in 0..K
           /\ TopoLevels(d)[s] = 0 <=> \A n \in 1..K : s \notin Current(d, n)
<1> DEFINE N == {n \in 1..K : s \in Current(d, n)}
<1>1. TopoLevels(d)[s] = Max({0} \cup N)
  BY DEF TopoLevels, Current, K
<1>2. ASSUME NEW n \in 1..K, s \in Current(d, n)
      PROVE  TopoLevels(d)[s] = n
  <2>1. N = {n}
    BY <1>2, RoundsDisjoint
  <2>2. {0} \cup N \in SUBSET Nat /\ n \in {0} \cup N /\ \A y \in {0} \cup N : y <= n
    BY <2>1
  <2> HIDE DEF N
  <2> QED
    BY <1>1, <2>2, MaxIs
<1>3. ASSUME \A n \in 1..K : s \notin Current(d, n)
      PROVE  TopoLevels(d)[s] = 0
  <2>1. N = {}
    BY <1>3
  <2>2. {0} \cup N \in SUBSET Nat /\ 0 \in {0} \cup N /\ \A y \in {0} \cup N : y <= 0
    BY <2>1
  <2> HIDE DEF N
  <2> QED
    BY <1>1, <2>2, MaxIs
<1> QED
  BY <1>2, <1>3, StepsFinite

\* The levels of a closed graph without a cycle are its longest-path levels.
Ranks(d, lev) == \A s \in Steps : lev[s] = 1 + Max({0} \cup {lev[p] : p \in d[s]})

LEMMA LevelsRank ==
    ASSUME NEW d, \A s \in Steps : d[s] \subseteq Steps, ~CycleDetected(d)
    PROVE  TopoLevels(d) \in [Steps -> 1..K] /\ Ranks(d, TopoLevels(d))
<1> DEFINE lev == TopoLevels(d)
<1>1. \A s \in Steps : lev[s] \in 1..K /\ s \in Current(d, lev[s])
  BY LevelIsRound, StepsFinite DEF CycleDetected
<1>2. lev \in [Steps -> 1..K]
  BY <1>1 DEF TopoLevels
<1>3. ASSUME NEW s \in Steps
      PROVE  lev[s] = 1 + Max({0} \cup {lev[p] : p \in d[s]})
  <2> DEFINE n == lev[s]
             M == {0} \cup {lev[p] : p \in d[s]}
  <2>1. n \in 1..K /\ s \in Current(d, n)
    BY <1>1
  <2> HIDE DEF n
  <2>2. \A p \in d[s] : lev[p] \in 1..(n - 1)
    <3> SUFFICES ASSUME NEW p \in d[s]
                 PROVE  lev[p] \in 1..(n - 1)
      OBVIOUS
    <3>1. PICK m \in 1..(n - 1) : p \in Current(d, m)
      BY <2>1, RoundParents
    <3>2. m \in 1..K /\ p \in Steps
      BY <2>1, StepsFinite
    <3>3. lev[p] = m
      BY <3>1, <3>2, LevelIsRound
    <3> QED
      BY <3>3
  <2>3. n # 1 => \E p \in d[s] : lev[p] = n - 1
    <3> SUFFICES ASSUME n # 1
                 PROVE  \E p \in d[s] : lev[p] = n - 1
      OBVIOUS
    <3>1. PICK p \in d[s] : p \in Current(d, n - 1)
      BY <2>1, RoundParents
    <3>2. n - 1 \in 1..K /\ p \in Steps
      BY <2>1, StepsFinite
    <3> QED
      BY <3>1, <3>2, LevelIsRound
  <2> HIDE DEF lev
  <2>4. M \in SUBSET Nat /\ \A y \in M : y <= n - 1
    BY <2>1, <2>2, StepsFinite
  <2>5. n - 1 \in M
    BY <2>1, <2>3
  <2> HIDE DEF M
  <2>6. Max(M) = n - 1
    BY <2>4, <2>5, MaxIs
  <2> QED
    BY <2>1, <2>6, StepsFinite DEF n, M
<1> QED
  BY <1>2, <1>3 DEF Ranks

\* In longest-path levels a parent is lower, and some parent just one lower.
LEMMA RankParents ==
    ASSUME NEW d, \A s \in Steps : d[s] \subseteq Steps, NEW lev \in [Steps -> 1..K], Ranks(d, lev),
           NEW s \in Steps
    PROVE  /\ \A p \in d[s] : lev[p] <= lev[s] - 1
           /\ lev[s] # 1 => \E p \in d[s] : lev[p] = lev[s] - 1
<1> DEFINE M == {0} \cup {lev[p] : p \in d[s]}
<1>1. M \in SUBSET Nat /\ M # {} /\ \A y \in M : y <= K
  BY StepsFinite
<1>2. lev[s] = 1 + Max(M)
  BY DEF Ranks
<1>3. Max(M) \in M /\ \A y \in M : y <= Max(M)
  <2> HIDE DEF M
  <2> QED
    BY <1>1, StepsFinite, MaxOfBounded
<1>4. Max(M) \in Nat
  BY <1>1, <1>3
<1> DEFINE x == Max(M)
<1>5. lev[s] - 1 = x
  BY <1>2, <1>4
<1> HIDE DEF x
<1>6. \A p \in d[s] : lev[p] <= x
  BY <1>3 DEF x
<1>7. x # 0 => \E p \in d[s] : lev[p] = x
  BY <1>3 DEF x
<1> QED
  BY <1>4, <1>5, <1>6, <1>7 DEF x

\* So no level is left out.
LEMMA NoLevelGap ==
    ASSUME NEW d, \A s \in Steps : d[s] \subseteq Steps, NEW lev \in [Steps -> 1..K], Ranks(d, lev),
           NEW n \in Nat, n > 0, \A s \in Steps : lev[s] # n
    PROVE  \A s \in Steps : lev[s] < n
<1> DEFINE T == {m \in Nat : m > n /\ \E s \in Steps : lev[s] = m}
<1> SUFFICES ASSUME NEW t \in Steps, ~(lev[t] < n)
             PROVE  FALSE
  OBVIOUS
<1>1. lev[t] \in T
  BY StepsFinite
<1>2. PICK x \in T : \A y \in T : x <= y
  <2>1. T \in SUBSET Nat /\ T # {}
    BY <1>1
  <2> HIDE DEF T
  <2> QED
    BY <2>1, LeastElement
<1>3. PICK s \in Steps : lev[s] = x
  OBVIOUS
<1>4. x \in Nat /\ x > n /\ x # 1
  OBVIOUS
<1>5. PICK p \in d[s] : lev[p] = x - 1
  BY <1>3, <1>4, RankParents
<1>6. p \in Steps /\ x - 1 # n
  BY <1>5
<1>7. x - 1 \in T
  BY <1>4, <1>5, <1>6
<1> QED
  BY <1>2, <1>4, <1>7

\* A graph with longest-path levels is closed, has no cycle, and the rounds find them.
LEMMA RankIsRound ==
    ASSUME NEW d, \A s \in Steps : d[s] \subseteq Steps, NEW lev \in [Steps -> 1..K], Ranks(d, lev)
    PROVE  /\ \A s \in Steps : s \in Current(d, lev[s])
           /\ \A s \in Steps : \A p \in d[s] : lev[p] < lev[s]
<1>1. ASSUME NEW s \in Steps
      PROVE  /\ \A p \in d[s] : lev[p] <= lev[s] - 1
             /\ lev[s] # 1 => \E p \in d[s] : lev[p] = lev[s] - 1
  BY RankParents
<1> DEFINE P(n) == \A s \in Steps : lev[s] <= n => s \in Current(d, lev[s])
           S == {n \in Nat : P(n)}
<1>2. 0 \in S
  BY StepsFinite
<1>3. ASSUME NEW n \in S
      PROVE  n + 1 \in S
  <2> SUFFICES ASSUME NEW s \in Steps, lev[s] = n + 1
               PROVE  s \in Current(d, n + 1)
    BY StepsFinite
  <2>0. n + 1 \in 1..K
    BY StepsFinite
  <2>1. \A p \in d[s] : p \in Steps /\ lev[p] \in 1..n /\ p \in Current(d, lev[p])
    BY <1>1, StepsFinite
  <2>2. CASE n = 0
    <3>1. d[s] = {}
      BY <2>1, <2>2
    <3> QED
      BY <2>2, <3>1, RoundParts
  <2>3. CASE n # 0
    <3>1. n \in 1..K /\ n + 1 # 1 /\ n + 1 - 1 = n
      BY <2>0, <2>3, StepsFinite
    <3>2. PICK p \in d[s] : lev[p] = n
      BY <1>1, <3>1
    <3>3. d[s] \cap Current(d, n) # {}
      BY <2>1, <3>2
    <3>4. Done(d, n + 1) = Done(d, n) \cup Current(d, n) /\ Current(d, n + 1) = NextLevel(d, Done(d, n), Current(d, n))
      BY <2>0, <3>1, RoundParts
    <3>5. d[s] \subseteq Done(d, n + 1)
      BY <2>0, <2>1, <3>1, DoneIsEarlier
    <3> QED
      BY <3>3, <3>4, <3>5 DEF NextLevel
  <2> QED
    BY <2>2, <2>3
<1>4. \A n \in Nat : n \in S
  <2>1. S \in SUBSET Nat
    OBVIOUS
  <2> HIDE DEF S
  <2> QED
    BY <1>2, <1>3, <2>1, SetInduction
<1>5. P(K)
  BY <1>4, StepsFinite
<1> QED
  BY <1>1, <1>5, StepsFinite

\* validateGraph accepts exactly the closed graphs that have longest-path levels.
LEMMA ValidIffRanked ==
    ASSUME NEW d
    PROVE  ValidateGraph(d) <=>
             (\A s \in Steps : d[s] \subseteq Steps) /\ \E lev \in [Steps -> 1..K] : Ranks(d, lev)
<1>1. ASSUME ValidateGraph(d)
      PROVE  (\A s \in Steps : d[s] \subseteq Steps) /\ \E lev \in [Steps -> 1..K] : Ranks(d, lev)
  BY <1>1, LevelsRank DEF ValidateGraph
<1>2. ASSUME \A s \in Steps : d[s] \subseteq Steps, NEW lev \in [Steps -> 1..K], Ranks(d, lev)
      PROVE  ValidateGraph(d)
  <2>1. /\ \A s \in Steps : s \in Current(d, lev[s])
        /\ \A s \in Steps : \A p \in d[s] : lev[p] < lev[s]
    BY <1>2, RankIsRound
  <2>2. \A s \in Steps : s \notin d[s]
    BY <2>1, StepsFinite
  <2>3. \A s \in Steps : TopoLevels(d)[s] # 0
    BY <2>1, LevelIsRound
  <2> QED
    BY <1>2, <2>2, <2>3 DEF ValidateGraph, CycleDetected
<1> QED
  BY <1>1, <1>2

-----------------------------------------------------------------------------
(* The inductive invariants *)

StepStatus == {"PENDING", "RUNNING", "COMPLETED", "FAILED", "SKIPPED"}

\* Every variable has its type.
TypeInv ==
    /\ deps \in [Steps -> SUBSET (Steps \cup {Unknown})]
    /\ pipeline \in {"none", "rejected", "active", "archived"}
    /\ pc \in [Calls -> {"idle", "insert", "run", "done"}]
    /\ answer \in [Calls -> {"none", "replay", "archived", "error"} \cup Terminal]
    /\ runs \in Nat
    /\ phase \in {"none", "start", "level", "join", "settle", "saving", "done", "crashed"}
    /\ ctx \in {"live", "cancelled", "expired"}
    /\ level \in [Steps -> Nat] /\ at \in Nat /\ at > 0
    /\ failed \in SUBSET Steps /\ firstErr \in Errors
    /\ go \in [Steps -> {"off", "attempt", "exec", "ok", "exhausted", "joined"}]
    /\ att \in [Steps -> Nat] /\ res \in [Steps -> Errors]
    /\ step \in [Steps -> StepStatus] /\ errs \in BOOLEAN
    /\ status \in {"PENDING", "RUNNING"} \cup Terminal
    /\ dbStatus \in {"none", "PENDING", "RUNNING"} \cup Terminal
    /\ dbStep \in [Steps -> StepStatus]
    /\ faults \in Nat

\* The row a run or a replay speaks of is there, and its insertion is the one run.
KeyInv ==
    /\ runs = IF phase = "none" THEN 0 ELSE 1
    /\ phase # "none" => dbStatus # "none"
    /\ \A c \in Calls : answer[c] = "replay" => dbStatus # "none"

\* Only a validated graph gets as far as a run, whose levels are that graph's.
PlanInv ==
    /\ pipeline = "rejected" => ~ValidateGraph(deps)
    /\ pipeline \in {"active", "archived"} => ValidateGraph(deps)
    /\ \A c \in Calls : pc[c] = "insert" => pipeline \in {"active", "archived"}
    /\ phase # "none" => pipeline \in {"active", "archived"}
    /\ phase \in {"none", "start"} => at = 1
    /\ phase \in {"level", "join"} => level = TopoLevels(deps)

\* A step of a level that is still to come.
Waiting(s) == go[s] = "off" /\ res[s] = "none" /\ step[s] = "PENDING" /\ s \notin failed

\* A step of a level that has been joined, or one that was skipped.
Settled(s) ==
    /\ go[s] = "off" /\ res[s] = "none" /\ step[s] \in {"COMPLETED", "FAILED", "SKIPPED"}
    /\ s \in failed <=> step[s] # "COMPLETED"
    /\ step[s] = "SKIPPED" <=> \E d \in deps[s] : step[d] # "COMPLETED"

\* A step of the level at work, in its goroutine.
Working(s) ==
    /\ go[s] # "off" /\ s \notin failed
    /\ \A d \in deps[s] : step[d] = "COMPLETED"
    /\ go[s] = "attempt" => step[s] \in {"PENDING", "RUNNING"}
    /\ go[s] \in {"exec", "ok", "exhausted"} => step[s] = "RUNNING"
    /\ go[s] = "joined" => step[s] = IF res[s] = "none" THEN "COMPLETED" ELSE "FAILED"
    /\ go[s] # "joined" => res[s] = "none"

\* runStepsDAG has not begun, or was never reached; it has returned.
NotYet == phase \in {"none", "start", "crashed"} \/ (phase = "done" /\ status \notin Terminal)
Over   == phase \in {"settle", "saving"} \/ (phase = "done" /\ status \in Terminal)

\* The barrier: what each step may be up to while runStepsDAG is at a level.
BarrierInv ==
    /\ NotYet => \A s \in Steps : Waiting(s)
    /\ phase \in {"level", "join"} =>
        \A s \in Steps :
            /\ level[s] < at => Settled(s)
            /\ level[s] > at => Waiting(s)
            /\ level[s] = at /\ phase = "level" => Waiting(s)
            /\ level[s] = at /\ phase = "join" => Working(s) \/ (Settled(s) /\ step[s] = "SKIPPED")
    /\ Over => \A s \in Steps : Settled(s)

\* What the errors stand for.
ErrorInv ==
    /\ firstErr = "none" => failed = {}
    /\ firstErr = "cancelled" => ctx # "live"
    /\ \A s \in Steps : res[s] = "cancelled" => ctx # "live"
    /\ phase # "crashed" /\ ~errs => dbStep = step

\* What the execution's status stands for, and an answer that repeats it.
StatusInv ==
    /\ phase \in {"none", "start", "crashed"} => status = "PENDING"
    /\ phase \in {"level", "join", "settle"} => status = "RUNNING"
    /\ phase = "saving" => status \in Terminal
    /\ phase = "done" => status \in Terminal \cup {"PENDING"}
    /\ status = "COMPLETED" => firstErr = "none"
    /\ status = "CANCELLED" => firstErr = "cancelled"
    /\ \A c \in Calls : answer[c] \in Terminal =>
        phase = "done" /\ answer[c] = dbStatus /\ dbStep = step

RunInv == BarrierInv /\ ErrorInv /\ StatusInv

\* The initial states satisfy them.
LEMMA InitInv == Init => TypeInv /\ KeyInv /\ PlanInv /\ RunInv
<1> SUFFICES ASSUME Init PROVE TypeInv /\ KeyInv /\ PlanInv /\ RunInv
  OBVIOUS
<1>1. TypeInv
  <2>1. /\ level \in [Steps -> Nat] /\ att \in [Steps -> Nat] /\ res \in [Steps -> Errors]
        /\ go \in [Steps -> {"off", "attempt", "exec", "ok", "exhausted", "joined"}]
        /\ step \in [Steps -> StepStatus] /\ dbStep \in [Steps -> StepStatus]
    BY DEF Init, All, Errors, StepStatus
  <2>2. /\ pc \in [Calls -> {"idle", "insert", "run", "done"}]
        /\ answer \in [Calls -> {"none", "replay", "archived", "error"} \cup Terminal]
    BY DEF Init
  <2> QED
    <3>1. /\ runs \in Nat /\ at \in Nat /\ at > 0 /\ faults \in Nat
          /\ failed \in SUBSET Steps /\ firstErr \in Errors
          /\ status = "PENDING" /\ dbStatus = "none" /\ phase = "none" /\ ctx = "live"
          /\ deps \in [Steps -> SUBSET (Steps \cup {Unknown})] /\ pipeline = "none"
      BY DEF Init, Errors
    <3>2. errs \in BOOLEAN
      BY Zenon DEF Init
    <3> QED
      BY <2>1, <2>2, <3>1, <3>2 DEF TypeInv
<1>2. KeyInv /\ PlanInv
  BY DEF Init, KeyInv, PlanInv
<1>3. BarrierInv
  <2>1. \A s \in Steps : Waiting(s)
    BY DEF Init, Waiting, All
  <2> QED
    BY <2>1 DEF Init, BarrierInv, NotYet, Over
<1>4. ErrorInv /\ StatusInv
  BY DEF Init, ErrorInv, StatusInv, All, Terminal
<1> QED
  BY <1>1, <1>2, <1>3, <1>4 DEF RunInv

-----------------------------------------------------------------------------
(* Types and the idempotency key *)

LEMMA MarkStepType ==
    ASSUME TypeInv, NEW s \in Steps, NEW st \in StepStatus, NEW b \in BOOLEAN, MarkStep(s, st, b)
    PROVE  /\ step' \in [Steps -> StepStatus] /\ dbStep' \in [Steps -> StepStatus]
           /\ errs' \in BOOLEAN /\ faults' \in Nat
  BY DEF TypeInv, MarkStep, Spend

LEMMA AnswerType ==
    ASSUME TypeInv, NEW r, NEW a \in {"none", "replay", "archived", "error"} \cup Terminal, Answer(r, a)
    PROVE  /\ pc' \in [Calls -> {"idle", "insert", "run", "done"}]
           /\ answer' \in [Calls -> {"none", "replay", "archived", "error"} \cup Terminal]
  BY DEF TypeInv, Answer

LEMMA LevelType == ASSUME NEW d PROVE TopoLevels(d) \in [Steps -> Nat]
<1>1. \A s \in Steps : TopoLevels(d)[s] \in Nat
  BY LevelIsRound, StepsFinite
<1> QED
  BY <1>1 DEF TopoLevels

LEMMA TypeStep == TypeInv /\ StatusInv /\ [Next]_vars => TypeInv'
<1> SUFFICES ASSUME TypeInv, StatusInv, [Next]_vars PROVE TypeInv'
  OBVIOUS
<1> USE DEF defn, calls, sched, rout, rows, Shared, Answer, Goto, All, Terminal, Errors
<1>1. CASE CreatePipeline \/ DeletePipeline
  BY <1>1 DEF CreatePipeline, DeletePipeline, TypeInv
<1>2. ASSUME NEW c \in Calls, LoadPipeline(c) PROVE TypeInv'
  BY <1>2 DEF LoadPipeline, TypeInv
<1>3. ASSUME NEW c \in Calls, InsertExecution(c) PROVE TypeInv'
  BY <1>3 DEF InsertExecution, Wins, TypeInv
<1>4. CASE StartRun
  BY <1>4, LevelType DEF StartRun, Spend, TypeInv
<1>5. CASE StartLevel
  <2> DEFINE here == {s \in Steps : level[s] = at}
             skip == {s \in here : AnyParentFailed(s)}
             runnable == here \ skip
  <2>1. PICK lost \in SUBSET skip :
            /\ faults' = faults + Cardinality(lost)
            /\ step'   = [s \in Steps |-> IF s \in skip THEN "SKIPPED" ELSE step[s]]
            /\ dbStep' = [s \in Steps |-> IF s \in skip \ lost THEN "SKIPPED" ELSE dbStep[s]]
            /\ errs'   = (errs \/ lost # {})
    BY <1>5 DEF StartLevel
  <2>2. Cardinality(lost) \in Nat
    <3>1. lost \in SUBSET Steps
      OBVIOUS
    <3> QED
      BY <3>1, StepsAssumption, FS_Subset, FS_CardinalityType
  <2>3. /\ failed' = failed \cup skip
        /\ go' = [s \in Steps |-> IF s \in runnable THEN "attempt" ELSE go[s]]
        /\ at' \in {at, at + 1} /\ phase' \in {phase, "join"}
        /\ UNCHANGED <<defn, calls, ctx, level, firstErr, att, res, status, dbStatus>>
    BY <1>5 DEF StartLevel
  <2>4. skip \subseteq Steps
    OBVIOUS
  <2> HIDE DEF skip, runnable
  <2> QED
    BY <2>1, <2>2, <2>3, <2>4 DEF TypeInv, StepStatus
<1>6. CASE JoinLevel
  BY <1>6 DEF JoinLevel, FirstErr, TypeInv
<1>7. CASE LevelsDone
  BY <1>7 DEF LevelsDone, TypeInv
<1>8. ASSUME NEW s \in Steps, RunOneStep(s) PROVE TypeInv'
  <2>1. CASE NoExecutor(s)
    <3>1. MarkStep(s, "FAILED", FALSE)
      BY <2>1 DEF NoExecutor, OnRunCtx
    <3>2. /\ step' \in [Steps -> StepStatus] /\ dbStep' \in [Steps -> StepStatus]
          /\ errs' \in BOOLEAN /\ faults' \in Nat
      BY <3>1, MarkStepType DEF StepStatus
    <3>3. /\ go' \in [Steps -> {"off", "attempt", "exec", "ok", "exhausted", "joined"}]
          /\ res' \in [Steps -> Errors]
      BY <2>1 DEF NoExecutor, Finish, TypeInv
    <3>4. UNCHANGED <<Shared, att>>
      BY <2>1 DEF NoExecutor
    <3> QED
      BY <3>2, <3>3, <3>4 DEF TypeInv
  <2>2. CASE AbortAttempt(s)
    <3>1. MarkStep(s, "FAILED", TRUE)
      BY <2>2 DEF AbortAttempt, Detached
    <3>2. /\ step' \in [Steps -> StepStatus] /\ dbStep' \in [Steps -> StepStatus]
          /\ errs' \in BOOLEAN /\ faults' \in Nat
      BY <3>1, MarkStepType DEF StepStatus
    <3>3. /\ go' \in [Steps -> {"off", "attempt", "exec", "ok", "exhausted", "joined"}]
          /\ res' \in [Steps -> Errors]
      BY <2>2 DEF AbortAttempt, Finish, TypeInv
    <3>4. UNCHANGED <<Shared, att>>
      BY <2>2 DEF AbortAttempt
    <3> QED
      BY <3>2, <3>3, <3>4 DEF TypeInv
  <2>3. CASE BeginAttempt(s)
    <3>1. MarkStep(s, "RUNNING", FALSE)
      BY <2>3 DEF BeginAttempt, OnRunCtx
    <3>2. /\ step' \in [Steps -> StepStatus] /\ dbStep' \in [Steps -> StepStatus]
          /\ errs' \in BOOLEAN /\ faults' \in Nat
      BY <3>1, MarkStepType DEF StepStatus
    <3> QED
      BY <2>3, <3>2, ZenonT(40) DEF BeginAttempt, TypeInv
  <2>4. CASE ExecuteSucceeds(s)
    BY <2>4 DEF ExecuteSucceeds, TypeInv
  <2>5. CASE ExecuteFails(s)
    BY <2>5 DEF ExecuteFails, TypeInv
  <2>6. CASE ExecuteCancelled(s)
    <3>1. MarkStep(s, "FAILED", TRUE)
      BY <2>6 DEF ExecuteCancelled, Detached
    <3>2. /\ step' \in [Steps -> StepStatus] /\ dbStep' \in [Steps -> StepStatus]
          /\ errs' \in BOOLEAN /\ faults' \in Nat
      BY <3>1, MarkStepType DEF StepStatus
    <3>3. /\ go' \in [Steps -> {"off", "attempt", "exec", "ok", "exhausted", "joined"}]
          /\ res' \in [Steps -> Errors]
      BY <2>6 DEF ExecuteCancelled, Finish, TypeInv
    <3>4. UNCHANGED <<Shared, att>>
      BY <2>6 DEF ExecuteCancelled
    <3> QED
      BY <3>2, <3>3, <3>4 DEF TypeInv
  <2>7. CASE RecordSuccess(s)
    <3>1. MarkStep(s, "COMPLETED", FALSE)
      BY <2>7 DEF RecordSuccess, OnRunCtx
    <3>2. /\ step' \in [Steps -> StepStatus] /\ dbStep' \in [Steps -> StepStatus]
          /\ errs' \in BOOLEAN /\ faults' \in Nat
      BY <3>1, MarkStepType DEF StepStatus
    <3>3. /\ go' \in [Steps -> {"off", "attempt", "exec", "ok", "exhausted", "joined"}]
          /\ res' \in [Steps -> Errors]
      BY <2>7 DEF RecordSuccess, Finish, TypeInv
    <3>4. UNCHANGED <<Shared, att>>
      BY <2>7 DEF RecordSuccess
    <3> QED
      BY <3>2, <3>3, <3>4 DEF TypeInv
  <2>8. CASE RecordExhausted(s)
    <3>1. MarkStep(s, "FAILED", FALSE)
      BY <2>8 DEF RecordExhausted, OnRunCtx
    <3>2. /\ step' \in [Steps -> StepStatus] /\ dbStep' \in [Steps -> StepStatus]
          /\ errs' \in BOOLEAN /\ faults' \in Nat
      BY <3>1, MarkStepType DEF StepStatus
    <3>3. /\ go' \in [Steps -> {"off", "attempt", "exec", "ok", "exhausted", "joined"}]
          /\ res' \in [Steps -> Errors]
      BY <2>8 DEF RecordExhausted, Finish, TypeInv
    <3>4. UNCHANGED <<Shared, att>>
      BY <2>8 DEF RecordExhausted
    <3> QED
      BY <3>2, <3>3, <3>4 DEF TypeInv
  <2> QED
    BY <1>8, <2>1, <2>2, <2>3, <2>4, <2>5, <2>6, <2>7, <2>8 DEF RunOneStep
<1>9. CASE Settle
  BY <1>9 DEF Settle, TypeInv
<1>10. CASE SaveTerminal
  <2>1. PICK o \in Outcome(Detached) :
            /\ faults' \in {faults, faults + 1} /\ dbStatus' \in {status, dbStatus}
            /\ Answer(Runner, IF o = "ok" /\ ~errs THEN status ELSE "error")
    BY <1>10 DEF SaveTerminal, Spend
  <2>2. status \in Terminal
    BY <1>10 DEF SaveTerminal, StatusInv
  <2>3. /\ pc' \in [Calls -> {"idle", "insert", "run", "done"}]
        /\ answer' \in [Calls -> {"none", "replay", "archived", "error"} \cup Terminal]
    BY <2>1, <2>2, AnswerType
  <2>4. UNCHANGED <<defn, runs, ctx, sched, rout, step, errs, status, dbStep>> /\ phase' = "done"
    BY <1>10 DEF SaveTerminal
  <2> HIDE DEF Answer
  <2> QED
    BY <2>1, <2>3, <2>4 DEF TypeInv
<1>11. CASE ContextEnds
  BY <1>11 DEF ContextEnds, TypeInv
<1>12. CASE Crash
  <2>1. /\ pc' \in [Calls -> {"idle", "insert", "run", "done"}]
        /\ answer' \in [Calls -> {"none", "replay", "archived", "error"} \cup Terminal]
    BY <1>12, AnswerType DEF Crash
  <2>2. /\ level' \in [Steps -> Nat] /\ att' \in [Steps -> Nat] /\ res' \in [Steps -> Errors]
        /\ go' \in [Steps -> {"off", "attempt", "exec", "ok", "exhausted", "joined"}]
        /\ step' \in [Steps -> StepStatus]
    BY <1>12 DEF Crash, StepStatus
  <2>3. /\ phase' = "crashed" /\ ctx' = "live" /\ at' = 1 /\ failed' = {} /\ firstErr' = "none"
        /\ status' = "PENDING" /\ UNCHANGED <<defn, runs, rows, faults>>
    BY <1>12 DEF Crash
  <2>4. errs' \in BOOLEAN
    BY <1>12, Zenon DEF Crash
  <2> QED
    BY <2>1, <2>2, <2>3, <2>4 DEF TypeInv
<1>13. CASE UNCHANGED vars
  BY <1>13 DEF vars, TypeInv
<1> QED
  BY <1>1, <1>2, <1>3, <1>4, <1>5, <1>6, <1>7, <1>8, <1>9, <1>10, <1>11, <1>12, <1>13
     DEF Next, TriggerExecution, Engine

\* A goroutine leaves the engine's variables alone.
LEMMA RoutineFrame == ASSUME NEW s, RunOneStep(s) PROVE UNCHANGED Shared
  BY DEF RunOneStep, NoExecutor, AbortAttempt, BeginAttempt, ExecuteSucceeds, ExecuteFails, ExecuteCancelled,
     RecordSuccess, RecordExhausted

\* Answering one call leaves the other calls' answers alone.
LEMMA AnswerFrame ==
    ASSUME TypeInv, NEW r, NEW a, Answer(r, a), NEW c \in Calls
    PROVE  /\ answer'[c] = answer[c] \/ answer'[c] = a
           /\ pc'[c] = pc[c] \/ pc'[c] = "done"
  BY DEF TypeInv, Answer

LEMMA KeyStep == TypeInv /\ KeyInv /\ StatusInv /\ [Next]_vars => KeyInv'
<1> SUFFICES ASSUME TypeInv, KeyInv, StatusInv, [Next]_vars PROVE KeyInv'
  OBVIOUS
<1> USE DEF defn, calls, sched, rout, rows
<1>1. CASE CreatePipeline \/ DeletePipeline
  BY <1>1 DEF CreatePipeline, DeletePipeline, KeyInv
<1>2. ASSUME NEW c \in Calls, LoadPipeline(c) PROVE KeyInv'
  <2>1. UNCHANGED <<runs, phase, dbStatus>>
    BY <1>2 DEF LoadPipeline
  <2>2. \/ UNCHANGED answer
        \/ \E a \in {"replay", "archived", "error"} :
            Answer(c, a) /\ (a = "replay" => dbStatus # "none")
    BY <1>2 DEF LoadPipeline, Goto
  <2> QED
    BY <2>1, <2>2, AnswerFrame DEF KeyInv
<1>3. ASSUME NEW c \in Calls, InsertExecution(c) PROVE KeyInv'
  <2>1. CASE dbStatus = "none" /\ Wins(c)
    <3>1. /\ dbStatus' = "PENDING" /\ runs' = runs + 1 /\ phase' = "start" /\ answer' = answer
          /\ phase = "none"
      BY <2>1 DEF Wins, Goto, KeyInv
    <3> QED
      BY <3>1 DEF KeyInv
  <2>2. CASE dbStatus # "none" /\ Answer(c, "replay") /\ UNCHANGED <<runs, phase, dbStatus, faults>>
    BY <2>2, AnswerFrame DEF KeyInv
  <2>3. CASE /\ CanFail /\ Answer(c, "error") /\ faults' = faults + 1 /\ UNCHANGED <<runs, phase>>
             /\ dbStatus' \in {dbStatus, IF dbStatus = "none" THEN "PENDING" ELSE dbStatus}
    BY <2>3, AnswerFrame DEF KeyInv
  <2> QED
    BY <1>3, <2>1, <2>2, <2>3 DEF InsertExecution
<1>4. CASE StartRun
  <2>1. UNCHANGED runs /\ phase = "start" /\ phase' # "none" /\ dbStatus' \in {dbStatus, "RUNNING"}
    BY <1>4 DEF StartRun
  <2>2. UNCHANGED answer \/ Answer(Runner, "error")
    BY <1>4 DEF StartRun
  <2> QED
    BY <2>1, <2>2, AnswerFrame DEF KeyInv
<1>5. CASE StartLevel
  BY <1>5 DEF StartLevel, KeyInv
<1>6. CASE JoinLevel
  BY <1>6 DEF JoinLevel, KeyInv
<1>7. CASE LevelsDone
  BY <1>7 DEF LevelsDone, KeyInv
<1>8. ASSUME NEW s \in Steps, RunOneStep(s) PROVE KeyInv'
  BY <1>8, RoutineFrame DEF KeyInv, Shared
<1>9. CASE Settle
  BY <1>9 DEF Settle, KeyInv
<1>10. CASE SaveTerminal
  <2>1. /\ UNCHANGED runs /\ phase = "saving" /\ phase' = "done" /\ dbStatus' \in {dbStatus, status}
        /\ \E a \in {status, "error"} : Answer(Runner, a)
    BY <1>10 DEF SaveTerminal
  <2>2. status \in Terminal
    BY <2>1 DEF StatusInv
  <2> QED
    BY <2>1, <2>2, AnswerFrame DEF KeyInv, Terminal
<1>11. CASE ContextEnds
  BY <1>11 DEF ContextEnds, KeyInv
<1>12. CASE Crash
  <2>1. /\ UNCHANGED <<runs, dbStatus>> /\ phase # "none" /\ phase' = "crashed"
        /\ Answer(Runner, "error")
    BY <1>12 DEF Crash
  <2> QED
    BY <2>1, AnswerFrame DEF KeyInv
<1>13. CASE UNCHANGED vars
  BY <1>13 DEF vars, KeyInv
<1> QED
  BY <1>1, <1>2, <1>3, <1>4, <1>5, <1>6, <1>7, <1>8, <1>9, <1>10, <1>11, <1>12, <1>13
     DEF Next, TriggerExecution, Engine

-----------------------------------------------------------------------------
(* The plan of the run *)

LEMMA PlanStep == TypeInv /\ PlanInv /\ KeyInv /\ [Next]_vars => PlanInv'
<1> SUFFICES ASSUME TypeInv, PlanInv, KeyInv, [Next]_vars PROVE PlanInv'
  OBVIOUS
<1> USE DEF defn, calls, sched, rout, rows
<1>0. deps' = deps
  BY RoutineFrame DEF Next, CreatePipeline, DeletePipeline, TriggerExecution, LoadPipeline, InsertExecution,
     Engine, StartRun, StartLevel, JoinLevel, LevelsDone, Settle, SaveTerminal, ContextEnds, Crash, vars, Shared
<1>1. CASE CreatePipeline
  BY <1>1 DEF CreatePipeline, PlanInv
<1>2. CASE DeletePipeline
  BY <1>2 DEF DeletePipeline, PlanInv
<1>3. ASSUME NEW c \in Calls, TriggerExecution(c) PROVE PlanInv'
  <2>1. pipeline \in {"active", "archived"} /\ UNCHANGED <<deps, pipeline, level, at>>
    BY <1>3 DEF TriggerExecution, LoadPipeline, InsertExecution, PlanInv
  <2>2. UNCHANGED phase \/ (phase = "none" /\ phase' = "start")
    BY <1>3 DEF TriggerExecution, LoadPipeline, InsertExecution, Wins, KeyInv
  <2> QED
    BY <2>1, <2>2 DEF PlanInv
<1>4. CASE StartRun
  <2>1. /\ phase = "start" /\ pipeline' = pipeline /\ pipeline \in {"active", "archived"}
        /\ phase' = "done" \/ (phase' = "level" /\ level' = TopoLevels(deps))
    BY <1>4 DEF StartRun, PlanInv
  <2> QED
    BY <1>0, <2>1 DEF PlanInv
<1>5. CASE StartLevel \/ JoinLevel \/ LevelsDone \/ Settle
  <2>1. /\ UNCHANGED <<deps, pipeline, pc, level>> /\ phase # "none"
        /\ phase' \in {"level", "join"} => phase \in {"level", "join"}
        /\ phase' \notin {"none", "start"}
    BY <1>5 DEF StartLevel, JoinLevel, LevelsDone, Settle
  <2> QED
    BY <2>1 DEF PlanInv
<1>6. ASSUME NEW s \in Steps, RunOneStep(s) PROVE PlanInv'
  BY <1>6, RoutineFrame DEF PlanInv, Shared
<1>7. CASE SaveTerminal \/ Crash
  <2>1. /\ phase # "none" /\ pipeline' = pipeline /\ phase' \in {"done", "crashed"}
    BY <1>7 DEF SaveTerminal, Crash
  <2> QED
    BY <1>0, <2>1 DEF PlanInv
<1>8. CASE ContextEnds
  BY <1>8 DEF ContextEnds, PlanInv
<1>9. CASE UNCHANGED vars
  BY <1>9 DEF vars, PlanInv
<1> QED
  BY <1>1, <1>2, <1>3, <1>4, <1>5, <1>6, <1>7, <1>8, <1>9 DEF Next, Engine

\* While the levels run, a parent is in an earlier level.
LEMMA ParentsBelow ==
    ASSUME TypeInv, PlanInv, phase \in {"level", "join"}
    PROVE  /\ level \in [Steps -> 1..K] /\ Ranks(deps, level)
           /\ \A s \in Steps : deps[s] \subseteq Steps /\ \A d \in deps[s] : level[d] < level[s]
<1>1. ValidateGraph(deps) /\ level = TopoLevels(deps)
  BY DEF PlanInv
<1>2. \A s \in Steps : deps[s] \subseteq Steps
  BY <1>1 DEF ValidateGraph
<1>3. level \in [Steps -> 1..K] /\ Ranks(deps, level)
  BY <1>1, <1>2, LevelsRank DEF ValidateGraph
<1> QED
  BY <1>2, <1>3, RankIsRound

-----------------------------------------------------------------------------
(* The barrier *)

\* A step that has a goroutine is one of the level at work.
LEMMA RoutineIsWorking ==
    ASSUME TypeInv, BarrierInv, NEW s \in Steps, go[s] # "off"
    PROVE  phase = "join" /\ level[s] = at /\ Working(s)
  BY DEF TypeInv, BarrierInv, NotYet, Over, Waiting, Settled

\* Settled depends on the step's own state and on what its parents came to.
LEMMA SettledFrame ==
    ASSUME NEW s, Settled(s), deps' = deps, \A d \in deps[s] : step'[d] = step[d],
           go'[s] = go[s], res'[s] = res[s], step'[s] = step[s], s \in failed' <=> s \in failed
    PROVE  Settled(s)'
  BY DEF Settled

\* So does Working.
LEMMA WorkingFrame ==
    ASSUME NEW s, Working(s), deps' = deps, \A d \in deps[s] : step'[d] = step[d],
           go'[s] = go[s], res'[s] = res[s], step'[s] = step[s], s \in failed' <=> s \in failed
    PROVE  Working(s)'
  BY DEF Working

\* What a goroutine does to its own step keeps the barrier.
LEMMA OneRoutine ==
    ASSUME TypeInv, PlanInv, BarrierInv, NEW s \in Steps, go[s] # "off", UNCHANGED Shared,
           Working(s)', \A t \in Steps \ {s} : go'[t] = go[t] /\ res'[t] = res[t] /\ step'[t] = step[t]
    PROVE  BarrierInv'
<1> USE DEF Shared, defn, calls, sched
<1>1. phase = "join" /\ level[s] = at
  BY RoutineIsWorking
<1>2. phase' = phase /\ level' = level /\ at' = at /\ failed' = failed /\ deps' = deps
  OBVIOUS
<1>3. level \in [Steps -> 1..K] /\ \A t \in Steps : deps[t] \subseteq Steps /\ \A d \in deps[t] : level[d] < level[t]
  BY <1>1, ParentsBelow
<1>4. at \in Nat /\ \A t \in Steps : level[t] \in Nat
  BY DEF TypeInv
<1>5. \A t \in Steps : level[t] <= at => \A d \in deps[t] : d \in Steps \ {s}
  BY <1>1, <1>3, <1>4
<1>6. ASSUME NEW t \in Steps, level[t] < at PROVE Settled(t)'
  <2>1. t # s /\ Settled(t)
    BY <1>1, <1>4, <1>6 DEF BarrierInv
  <2> QED
    BY <1>2, <1>4, <1>5, <1>6, <2>1, SettledFrame
<1>7. ASSUME NEW t \in Steps, level[t] > at PROVE Waiting(t)'
  <2>1. t # s /\ Waiting(t)
    BY <1>1, <1>4, <1>7 DEF BarrierInv
  <2> QED
    BY <1>2, <2>1 DEF Waiting
<1>8. ASSUME NEW t \in Steps, level[t] = at PROVE (Working(t) \/ (Settled(t) /\ step[t] = "SKIPPED"))'
  <2>1. CASE t = s
    BY <2>1
  <2>2. CASE t # s
    <3>1. Working(t) \/ (Settled(t) /\ step[t] = "SKIPPED")
      BY <1>1, <1>8 DEF BarrierInv
    <3>2. \A d \in deps[t] : step'[d] = step[d]
      BY <1>4, <1>5, <1>8
    <3> QED
      BY <1>2, <2>2, <3>1, <3>2, SettledFrame, WorkingFrame
  <2> QED
    BY <2>1, <2>2
<1> QED
  BY <1>1, <1>2, <1>6, <1>7, <1>8 DEF BarrierInv, NotYet, Over

\* Each action of a goroutine.
LEMMA RoutineStep ==
    ASSUME TypeInv, PlanInv, BarrierInv, NEW s \in Steps, RunOneStep(s)
    PROVE  BarrierInv'
<1>1. go[s] # "off" /\ UNCHANGED Shared
  BY RoutineFrame DEF RunOneStep, NoExecutor, AbortAttempt, BeginAttempt, ExecuteSucceeds, ExecuteFails, ExecuteCancelled,
     RecordSuccess, RecordExhausted
<1>2. phase = "join" /\ level[s] = at /\ Working(s) /\ s \notin deps[s]
  BY <1>1, RoutineIsWorking, ParentsBelow DEF TypeInv
<1>3. deps' = deps /\ failed' = failed
  BY <1>1 DEF Shared, defn, sched
<1>4. \A t \in Steps \ {s} : go'[t] = go[t] /\ res'[t] = res[t] /\ step'[t] = step[t]
  BY DEF RunOneStep, NoExecutor, AbortAttempt, BeginAttempt, ExecuteSucceeds, ExecuteFails, ExecuteCancelled,
     RecordSuccess, RecordExhausted, MarkStep, Finish, TypeInv
<1>5. \A d \in deps[s] : step'[d] = "COMPLETED"
  <2>1. deps[s] \subseteq Steps \ {s}
    BY <1>2, ParentsBelow
  <2> QED
    BY <1>2, <1>4, <2>1 DEF Working
<1>6. /\ go'[s] # "off"
      /\ go'[s] = "attempt" => step'[s] \in {"PENDING", "RUNNING"}
      /\ go'[s] \in {"exec", "ok", "exhausted"} => step'[s] = "RUNNING"
      /\ go'[s] = "joined" => step'[s] = IF res'[s] = "none" THEN "COMPLETED" ELSE "FAILED"
      /\ go'[s] # "joined" => res'[s] = "none"
  BY <1>2 DEF RunOneStep, NoExecutor, AbortAttempt, BeginAttempt, ExecuteSucceeds, ExecuteFails, ExecuteCancelled,
     RecordSuccess, RecordExhausted, MarkStep, Finish, TypeInv, Working
<1>7. Working(s)'
  BY <1>2, <1>3, <1>5, <1>6 DEF Working
<1> QED
  BY <1>1, <1>4, <1>7, OneRoutine

\* Starting a level: what hangs below a failure is settled at once, the rest works.
LEMMA LevelStarts ==
    ASSUME TypeInv, PlanInv, BarrierInv, StartLevel
    PROVE  BarrierInv'
<1> DEFINE skip == {s \in Steps : level[s] = at /\ AnyParentFailed(s)}
           runnable == {s \in Steps : level[s] = at} \ skip
<1>1. /\ phase = "level" /\ UNCHANGED <<deps, level, res, status>>
      /\ step' = [s \in Steps |-> IF s \in skip THEN "SKIPPED" ELSE step[s]]
      /\ failed' = failed \cup skip
      /\ go' = [s \in Steps |-> IF s \in runnable THEN "attempt" ELSE go[s]]
      /\ IF runnable = {} THEN at' = at + 1 /\ phase' = "level" ELSE at' = at /\ phase' = "join"
  <2> DEFINE here == {s \in Steps : level[s] = at}
  <2>1. skip = {s \in here : AnyParentFailed(s)}
    OBVIOUS
  <2>2. /\ phase = "level" /\ UNCHANGED <<deps, level, res, status>>
        /\ step' = [s \in Steps |-> IF s \in {t \in here : AnyParentFailed(t)} THEN "SKIPPED" ELSE step[s]]
        /\ failed' = failed \cup {s \in here : AnyParentFailed(s)}
        /\ go' = [s \in Steps |-> IF s \in here \ {t \in here : AnyParentFailed(t)} THEN "attempt" ELSE go[s]]
        /\ IF here \ {s \in here : AnyParentFailed(s)} = {}
           THEN at' = at + 1 /\ phase' = "level" ELSE at' = at /\ phase' = "join"
    BY DEF StartLevel, defn
  <2> HIDE DEF here, skip
  <2> QED
    BY <2>1, <2>2 DEF here
<1>2. /\ level \in [Steps -> 1..K] /\ at \in Nat
      /\ \A t \in Steps : level[t] \in Nat /\ deps[t] \subseteq Steps /\ \A d \in deps[t] : level[d] < level[t]
  BY <1>1, ParentsBelow DEF TypeInv
<1>3. \A t \in Steps : level[t] <= at =>
        \A d \in deps[t] : d \in Steps /\ d \notin skip /\ step'[d] = step[d] /\ level[d] < at /\ Settled(d)
  <2>1. \A t \in Steps : level[t] <= at => \A d \in deps[t] : d \in Steps /\ level[d] < at
    BY <1>2
  <2>2. \A d \in Steps : level[d] < at => d \notin skip /\ step'[d] = step[d] /\ Settled(d)
    BY <1>1, <1>2 DEF BarrierInv
  <2> QED
    BY <2>1, <2>2
<1>4. ASSUME NEW t \in Steps, level[t] < at PROVE Settled(t)'
  <2>1. Settled(t) /\ t \notin skip /\ t \notin runnable
    BY <1>1, <1>2, <1>4 DEF BarrierInv
  <2>2. go'[t] = go[t] /\ res'[t] = res[t] /\ step'[t] = step[t] /\ (t \in failed' <=> t \in failed)
    BY <1>1, <2>1
  <2>3. \A d \in deps[t] : step'[d] = step[d]
    BY <1>2, <1>3, <1>4
  <2> QED
    BY <1>1, <2>1, <2>2, <2>3, SettledFrame
<1>5. ASSUME NEW t \in Steps, level[t] > at PROVE Waiting(t)'
  <2>1. Waiting(t) /\ t \notin skip /\ t \notin runnable
    BY <1>1, <1>2, <1>5 DEF BarrierInv
  <2> QED
    BY <1>1, <2>1 DEF Waiting
<1>6. ASSUME NEW t \in skip PROVE Settled(t)' /\ step'[t] = "SKIPPED"
  <2>1. t \in Steps /\ level[t] = at /\ Waiting(t) /\ t \notin runnable /\ AnyParentFailed(t)
    BY <1>1 DEF BarrierInv
  <2>2. PICK d \in deps[t] : d \in failed
    BY <2>1 DEF AnyParentFailed
  <2>3. Settled(d) /\ step'[d] = step[d]
    BY <1>2, <1>3, <2>1
  <2>4. step'[d] # "COMPLETED"
    BY <2>2, <2>3 DEF Settled
  <2>5. go'[t] = "off" /\ res'[t] = "none" /\ step'[t] = "SKIPPED" /\ t \in failed' /\ deps' = deps
    BY <1>1, <2>1 DEF Waiting
  <2> QED
    BY <2>2, <2>4, <2>5 DEF Settled
<1>7. ASSUME NEW t \in runnable PROVE Working(t)'
  <2>1. t \in Steps /\ level[t] = at /\ Waiting(t) /\ t \notin skip /\ ~AnyParentFailed(t)
    BY <1>1 DEF BarrierInv
  <2>2. \A d \in deps[t] : step'[d] = "COMPLETED"
    <3> SUFFICES ASSUME NEW d \in deps[t] PROVE step'[d] = "COMPLETED"
      OBVIOUS
    <3>1. Settled(d) /\ step'[d] = step[d] /\ d \notin failed
      BY <1>2, <1>3, <2>1 DEF AnyParentFailed
    <3> QED
      BY <3>1 DEF Settled
  <2>3. go'[t] = "attempt" /\ res'[t] = "none" /\ step'[t] = "PENDING" /\ t \notin failed' /\ deps' = deps
    BY <1>1, <2>1 DEF Waiting
  <2> QED
    BY <2>2, <2>3 DEF Working
<1>8. CASE runnable = {}
  <2>1. phase' = "level" /\ at' = at + 1 /\ level' = level
    BY <1>1, <1>8
  <2>2. \A t \in Steps : level[t] = at => t \in skip
    BY <1>8
  <2>3. \A t \in Steps : (level[t] < at' => Settled(t)') /\ (level[t] >= at' => Waiting(t)')
    <3> HIDE DEF skip
    <3> QED
      BY <1>2, <1>4, <1>5, <1>6, <2>1, <2>2
  <2> QED
    BY <1>2, <2>1, <2>3 DEF BarrierInv, NotYet, Over
<1>9. CASE runnable # {}
  <2>1. phase' = "join" /\ at' = at /\ level' = level
    BY <1>1, <1>9
  <2>2. \A t \in Steps : level[t] = at => t \in skip \/ t \in runnable
    OBVIOUS
  <2> HIDE DEF skip, runnable
  <2> QED
    BY <1>4, <1>5, <1>6, <1>7, <2>1, <2>2 DEF BarrierInv, NotYet, Over
<1> QED
  BY <1>8, <1>9

\* wg.Wait: every step of the level is settled when all its goroutines are done.
LEMMA LevelJoins ==
    ASSUME TypeInv, PlanInv, BarrierInv, JoinLevel
    PROVE  BarrierInv'
<1> DEFINE broken == {s \in Steps : go[s] = "joined" /\ res[s] # "none"}
<1>1. /\ phase = "join" /\ phase' = "level" /\ at' = at + 1 /\ UNCHANGED <<deps, level, step>>
      /\ \A s \in Steps : go[s] \in {"off", "joined"}
      /\ failed' = failed \cup broken
      /\ go' = [s \in Steps |-> IF go[s] = "joined" THEN "off" ELSE go[s]]
      /\ res' = [s \in Steps |-> IF go[s] = "joined" THEN "none" ELSE res[s]]
  BY DEF JoinLevel, Joined, defn
<1>2. at \in Nat /\ \A t \in Steps : level[t] \in Nat
  BY DEF TypeInv
<1>3. ASSUME NEW t \in Steps, Settled(t) PROVE Settled(t)'
  <2>1. go'[t] = go[t] /\ res'[t] = res[t] /\ step'[t] = step[t] /\ (t \in failed' <=> t \in failed)
    BY <1>1, <1>3 DEF Settled
  <2> QED
    BY <1>1, <1>3, <2>1, SettledFrame
<1>4. ASSUME NEW t \in Steps, Waiting(t) PROVE Waiting(t)'
  BY <1>1, <1>4 DEF Waiting
<1>5. ASSUME NEW t \in Steps, Working(t) PROVE Settled(t)'
  <2>1. go[t] = "joined" /\ step[t] = IF res[t] = "none" THEN "COMPLETED" ELSE "FAILED"
    BY <1>1, <1>5 DEF Working
  <2>2. go'[t] = "off" /\ res'[t] = "none" /\ (t \in failed' <=> step[t] # "COMPLETED")
    BY <1>1, <1>5, <2>1 DEF Working
  <2> QED
    BY <1>1, <1>5, <2>1, <2>2 DEF Settled, Working
<1>6. \A t \in Steps : (level[t] < at' => Settled(t)') /\ (level[t] >= at' => Waiting(t)')
  BY <1>1, <1>2, <1>3, <1>4, <1>5 DEF BarrierInv
<1> QED
  BY <1>1, <1>2, <1>6 DEF BarrierInv, NotYet, Over

\* The barrier is kept by every step.
LEMMA BarrierStep == TypeInv /\ KeyInv /\ PlanInv /\ StatusInv /\ BarrierInv /\ [Next]_vars => BarrierInv'
<1> SUFFICES ASSUME TypeInv, KeyInv, PlanInv, StatusInv, BarrierInv, [Next]_vars PROVE BarrierInv'
  OBVIOUS
<1> USE DEF defn, calls, sched, rout, rows
<1>1. ASSUME UNCHANGED <<deps, failed, go, res, step>>
      PROVE  \A s \in Steps : (Settled(s)' <=> Settled(s)) /\ (Waiting(s)' <=> Waiting(s)) /\ (Working(s)' <=> Working(s))
  BY <1>1 DEF Settled, Waiting, Working
<1>2. ASSUME UNCHANGED <<deps, sched, go, res, step, phase, status>>
      PROVE  BarrierInv'
  <2> HIDE DEF sched
  <2>1. level' = level /\ at' = at /\ failed' = failed
    BY <1>2 DEF sched
  <2> QED
    BY <1>1, <1>2, <2>1 DEF BarrierInv, NotYet, Over
<1>3. CASE CreatePipeline \/ DeletePipeline \/ ContextEnds \/ UNCHANGED vars
  BY <1>2, <1>3 DEF CreatePipeline, DeletePipeline, ContextEnds, vars
<1>4. ASSUME NEW c \in Calls, TriggerExecution(c) PROVE BarrierInv'
  <2>1. /\ UNCHANGED <<deps, sched, go, res, step, status>>
        /\ phase' = phase \/ (phase = "none" /\ phase' = "start")
    BY <1>4 DEF TriggerExecution, LoadPipeline, InsertExecution, Wins, KeyInv
  <2>2. CASE phase' = phase
    BY <1>2, <2>1, <2>2
  <2>3. CASE phase = "none" /\ phase' = "start"
    BY <1>1, <1>4, <2>1, <2>3 DEF BarrierInv, NotYet, Over
  <2> QED
    BY <2>1, <2>2, <2>3
<1>5. CASE StartRun
  <2>1. /\ phase = "start" /\ at = 1 /\ ValidateGraph(deps) /\ status = "PENDING"
        /\ UNCHANGED <<deps, at, failed, go, res, step>>
    BY <1>5 DEF StartRun, PlanInv, StatusInv
  <2>2. \A s \in Steps : Waiting(s)'
    BY <1>1, <2>1 DEF BarrierInv, NotYet
  <2>3. CASE phase' = "level" /\ level' = TopoLevels(deps)
    <3>1. \A s \in Steps : level'[s] \in Nat /\ level'[s] >= 1
      BY <2>1, <2>3, LevelsRank, StepsFinite DEF ValidateGraph
    <3> QED
      BY <2>1, <2>2, <2>3, <3>1 DEF BarrierInv, NotYet, Over
  <2>4. CASE phase' = "done" /\ status' = status
    BY <2>1, <2>2, <2>4 DEF BarrierInv, NotYet, Over, Terminal
  <2> QED
    BY <1>5, <2>3, <2>4 DEF StartRun
<1>6. CASE LevelsDone
  <2>1. /\ phase = "level" /\ phase' = "settle" /\ \A s \in Steps : level[s] # at
        /\ UNCHANGED <<deps, failed, go, res, step>>
    BY <1>6 DEF LevelsDone
  <2>2. at \in Nat /\ at > 0
    BY DEF TypeInv
  <2>3. \A s \in Steps : level[s] < at
    BY <2>1, <2>2, ParentsBelow, NoLevelGap
  <2>4. \A s \in Steps : Settled(s)'
    BY <1>1, <2>1, <2>3 DEF BarrierInv
  <2> QED
    BY <2>1, <2>4 DEF BarrierInv, NotYet, Over
<1>7. CASE Settle \/ SaveTerminal
  <2>1. /\ phase \in {"settle", "saving"} /\ UNCHANGED <<deps, failed, go, res, step>>
        /\ phase' = "saving" \/ (phase' = "done" /\ status' = status /\ status \in Terminal)
    BY <1>7 DEF Settle, SaveTerminal, StatusInv
  <2>2. \A s \in Steps : Settled(s)'
    BY <1>1, <2>1 DEF BarrierInv, Over
  <2> QED
    BY <2>1, <2>2 DEF BarrierInv, NotYet, Over
<1>8. CASE Crash
  <2>1. phase' = "crashed" /\ \A s \in Steps : Waiting(s)'
    BY <1>8 DEF Crash, Waiting, All
  <2> QED
    BY <2>1 DEF BarrierInv, NotYet, Over
<1> QED
  BY <1>3, <1>4, <1>5, <1>6, <1>7, <1>8, LevelStarts, LevelJoins, RoutineStep DEF Next, Engine

-----------------------------------------------------------------------------
(* Errors, statuses and answers *)

\* A write moves memory and row together, or is counted.
LEMMA MarkedTogether ==
    ASSUME TypeInv, NEW s \in Steps, NEW st, NEW b, MarkStep(s, st, b), ~errs => dbStep = step
    PROVE  ~errs' => dbStep' = step'
  BY DEF MarkStep, TypeInv

LEMMA RoutineErrors ==
    ASSUME TypeInv, ErrorInv, BarrierInv, NEW s \in Steps, RunOneStep(s)
    PROVE  ErrorInv'
<1>1. go[s] # "off" /\ UNCHANGED Shared
  BY RoutineFrame DEF RunOneStep, NoExecutor, AbortAttempt, BeginAttempt, ExecuteSucceeds, ExecuteFails, ExecuteCancelled,
     RecordSuccess, RecordExhausted
<1>2. phase = "join" /\ phase' = phase /\ ctx' = ctx /\ failed' = failed /\ firstErr' = firstErr
  BY <1>1, RoutineIsWorking DEF Shared, sched
<1>3. \A t \in Steps : res'[t] = res[t] \/ res'[t] \in {"none", "failed"} \/ (res'[t] = "cancelled" /\ ctx = "cancelled")
  BY DEF RunOneStep, NoExecutor, AbortAttempt, BeginAttempt, ExecuteSucceeds, ExecuteFails, ExecuteCancelled,
     RecordSuccess, RecordExhausted, Finish, TypeInv
<1>4. (\E st, b : MarkStep(s, st, b)) \/ UNCHANGED <<errs, dbStep, step>>
  BY DEF RunOneStep, NoExecutor, AbortAttempt, BeginAttempt, ExecuteSucceeds, ExecuteFails, ExecuteCancelled,
     RecordSuccess, RecordExhausted
<1>5. ~errs' => dbStep' = step'
  BY <1>2, <1>4, MarkedTogether DEF ErrorInv
<1> QED
  BY <1>2, <1>3, <1>5 DEF ErrorInv

LEMMA ErrorStep == TypeInv /\ KeyInv /\ BarrierInv /\ ErrorInv /\ [Next]_vars => ErrorInv'
<1> SUFFICES ASSUME TypeInv, KeyInv, BarrierInv, ErrorInv, [Next]_vars PROVE ErrorInv'
  OBVIOUS
<1> USE DEF defn, calls, sched, rout, rows
<1>1. CASE CreatePipeline \/ DeletePipeline \/ LevelsDone \/ Settle \/ UNCHANGED vars
  BY <1>1 DEF CreatePipeline, DeletePipeline, LevelsDone, Settle, vars, ErrorInv
<1>2. ASSUME NEW c \in Calls, TriggerExecution(c) PROVE ErrorInv'
  <2>1. /\ UNCHANGED <<ctx, failed, firstErr, res, step, errs, dbStep>>
        /\ phase' = "crashed" => phase = "crashed"
        /\ phase = "crashed" => phase' = "crashed"
    BY <1>2 DEF TriggerExecution, LoadPipeline, InsertExecution, Wins, KeyInv
  <2> QED
    BY <2>1 DEF ErrorInv
<1>3. CASE StartRun
  BY <1>3 DEF StartRun, ErrorInv
<1>4. CASE StartLevel
  <2> DEFINE skip == {s \in Steps : level[s] = at /\ AnyParentFailed(s)}
  <2>1. PICK lost :
            /\ step'   = [s \in Steps |-> IF s \in skip THEN "SKIPPED" ELSE step[s]]
            /\ dbStep' = [s \in Steps |-> IF s \in skip \ lost THEN "SKIPPED" ELSE dbStep[s]]
            /\ errs'   = (errs \/ lost # {})
    <3>1. {s \in {t \in Steps : level[t] = at} : AnyParentFailed(s)} = skip
      OBVIOUS
    <3> HIDE DEF skip
    <3> QED
      BY <1>4, <3>1 DEF StartLevel
  <2>2. failed' = failed \cup skip /\ UNCHANGED <<ctx, firstErr, res>> /\ phase = "level" /\ phase' # "crashed"
    BY <1>4 DEF StartLevel
  <2>3. firstErr = "none" => failed = {} /\ skip = {}
    BY DEF ErrorInv, AnyParentFailed
  <2> HIDE DEF skip
  <2>4. ~errs' => dbStep' = step'
    <3> SUFFICES ASSUME ~errs' PROVE dbStep' = step'
      OBVIOUS
    <3>1. ~errs /\ lost = {}
      BY <2>1
    <3>2. dbStep = step
      BY <2>2, <3>1 DEF ErrorInv
    <3> QED
      BY <2>1, <3>1, <3>2
  <2> QED
    BY <2>2, <2>3, <2>4 DEF ErrorInv
<1>5. CASE JoinLevel
  <2> DEFINE broken == {s \in Steps : go[s] = "joined" /\ res[s] # "none"}
  <2>1. /\ failed' = failed \cup broken /\ firstErr' \in FirstErr(broken)
        /\ res' = [s \in Steps |-> IF go[s] = "joined" THEN "none" ELSE res[s]]
        /\ phase = "join" /\ phase' = "level" /\ UNCHANGED <<ctx, step, errs, dbStep>>
    BY <1>5 DEF JoinLevel
  <2>2. firstErr' = "none" => failed' = {}
    BY <2>1 DEF FirstErr, ErrorInv
  <2>3. firstErr' = "cancelled" => ctx # "live"
    BY <2>1 DEF FirstErr, ErrorInv
  <2> QED
    BY <2>1, <2>2, <2>3 DEF ErrorInv
<1>6. CASE SaveTerminal
  BY <1>6 DEF SaveTerminal, ErrorInv
<1>7. CASE ContextEnds
  BY <1>7 DEF ContextEnds, ErrorInv
<1>8. CASE Crash
  BY <1>8 DEF Crash, ErrorInv, All
<1> QED
  BY <1>1, <1>2, <1>3, <1>4, <1>5, <1>6, <1>7, <1>8, RoutineErrors DEF Next, Engine

LEMMA StatusStep == TypeInv /\ KeyInv /\ BarrierInv /\ ErrorInv /\ StatusInv /\ [Next]_vars => StatusInv'
<1> SUFFICES ASSUME TypeInv, KeyInv, BarrierInv, ErrorInv, StatusInv, [Next]_vars PROVE StatusInv'
  OBVIOUS
<1> USE DEF defn, calls, sched, rout, rows
<1>1. CASE CreatePipeline \/ DeletePipeline \/ ContextEnds \/ UNCHANGED vars
  BY <1>1 DEF CreatePipeline, DeletePipeline, ContextEnds, vars, StatusInv
<1>2. ASSUME NEW c \in Calls, TriggerExecution(c) PROVE StatusInv'
  <2>1. /\ UNCHANGED <<firstErr, status, step, dbStep>>
        /\ dbStatus # "none" => dbStatus' = dbStatus
        /\ UNCHANGED phase \/ (phase = "none" /\ phase' = "start")
    BY <1>2 DEF TriggerExecution, LoadPipeline, InsertExecution, Wins, KeyInv
  <2>2. UNCHANGED answer \/ \E a \in {"replay", "archived", "error"} : Answer(c, a)
    BY <1>2 DEF TriggerExecution, LoadPipeline, InsertExecution, Wins, Goto
  <2>3. \A d \in Calls : answer'[d] \in Terminal => answer[d] \in Terminal /\ answer'[d] = answer[d]
    BY <2>2, AnswerFrame DEF Terminal
  <2> QED
    BY <2>1, <2>3 DEF StatusInv, KeyInv
<1>3. ASSUME phase # "done", \A d \in Calls : answer'[d] = answer[d] \/ answer'[d] = "error"
      PROVE  \A d \in Calls : answer'[d] \notin Terminal
  BY <1>3 DEF StatusInv, Terminal
<1>4. CASE StartRun
  <2>1. /\ phase = "start" /\ status = "PENDING" /\ UNCHANGED firstErr
        /\ (phase' = "level" /\ status' = "RUNNING") \/ (phase' = "done" /\ status' = status)
        /\ UNCHANGED answer \/ Answer(Runner, "error")
    BY <1>4 DEF StartRun, StatusInv
  <2>2. \A d \in Calls : answer'[d] \notin Terminal
    BY <1>3, <2>1, AnswerFrame
  <2> QED
    BY <2>1, <2>2 DEF StatusInv
<1>5. CASE StartLevel \/ JoinLevel \/ LevelsDone
  <2>1. /\ phase \in {"level", "join"} /\ phase' \in {"level", "join", "settle"}
        /\ UNCHANGED <<answer, status>>
    BY <1>5 DEF StartLevel, JoinLevel, LevelsDone
  <2>2. \A d \in Calls : answer'[d] \notin Terminal
    BY <1>3, <2>1
  <2> QED
    BY <2>1, <2>2 DEF StatusInv
<1>6. ASSUME NEW s \in Steps, RunOneStep(s) PROVE StatusInv'
  <2>1. go[s] # "off" /\ UNCHANGED Shared
    BY <1>6, RoutineFrame DEF RunOneStep, NoExecutor, AbortAttempt, BeginAttempt, ExecuteSucceeds, ExecuteFails,
       ExecuteCancelled, RecordSuccess, RecordExhausted
  <2>2. phase = "join" /\ UNCHANGED <<answer, phase, status, firstErr>>
    BY <2>1, RoutineIsWorking DEF Shared
  <2>3. \A d \in Calls : answer'[d] \notin Terminal
    BY <1>3, <2>2
  <2> QED
    BY <2>2, <2>3 DEF StatusInv
<1>7. CASE Settle
  <2>1. phase = "settle" /\ phase' = "saving" /\ UNCHANGED <<answer, firstErr>>
    BY <1>7 DEF Settle
  <2>2. /\ status' \in Terminal /\ (status' = "COMPLETED" => firstErr = "none")
        /\ status' = "CANCELLED" => firstErr = "cancelled"
    BY <1>7 DEF Settle, Terminal
  <2>3. \A d \in Calls : answer'[d] \notin Terminal
    BY <1>3, <2>1
  <2> QED
    BY <2>1, <2>2, <2>3 DEF StatusInv
<1>8. CASE SaveTerminal
  <2>1. PICK o \in Outcome(Detached) :
            /\ dbStatus' = IF o = "ok" THEN status ELSE dbStatus
            /\ Answer(Runner, IF o = "ok" /\ ~errs THEN status ELSE "error")
    BY <1>8 DEF SaveTerminal
  <2>2. /\ phase = "saving" /\ phase' = "done" /\ UNCHANGED <<firstErr, status, errs, step, dbStep>>
    BY <1>8 DEF SaveTerminal
  <2>3. ASSUME NEW d \in Calls, answer'[d] \in Terminal
        PROVE  answer'[d] = dbStatus' /\ dbStep' = step'
    <3>1. answer[d] \notin Terminal
      BY <2>2 DEF StatusInv
    <3>2. answer'[d] = IF o = "ok" /\ ~errs THEN status ELSE "error"
      BY <2>1, <2>3, <3>1, AnswerFrame
    <3>3. o = "ok" /\ ~errs /\ answer'[d] = status
      BY <2>3, <3>2 DEF Terminal
    <3> QED
      BY <2>1, <2>2, <3>3 DEF ErrorInv
  <2> QED
    BY <2>2, <2>3 DEF StatusInv
<1>9. CASE Crash
  <2>1. /\ phase # "done" /\ phase' = "crashed" /\ status' = "PENDING" /\ Answer(Runner, "error")
    BY <1>9 DEF Crash
  <2>2. \A d \in Calls : answer'[d] \notin Terminal
    BY <1>3, <2>1, AnswerFrame
  <2> QED
    BY <2>1, <2>2 DEF StatusInv
<1> QED
  BY <1>1, <1>2, <1>4, <1>5, <1>6, <1>7, <1>8, <1>9 DEF Next, Engine

-----------------------------------------------------------------------------
(* The theorems *)

DagInv == TypeInv /\ KeyInv /\ PlanInv /\ RunInv

\* Every variable of the scheduler keeps its type, and the inductive invariant holds.
THEOREM Inductive == Spec => []DagInv
<1>1. Init => DagInv
  BY InitInv DEF DagInv
<1>2. DagInv /\ [Next]_vars => DagInv'
  BY TypeStep, KeyStep, PlanStep, BarrierStep, ErrorStep, StatusStep DEF DagInv, RunInv
<1> QED
  BY <1>1, <1>2, PTL DEF Spec

\* However many calls race on an idempotency key, whatever fails, the pipeline runs at
\* most once, and a replay speaks of a row that is there (Create).
THEOREM RunsOncePerKey == Spec => []OneRunPerKey
<1>1. DagInv => OneRunPerKey
  BY DEF DagInv, KeyInv, OneRunPerKey
<1> QED
  BY <1>1, Inductive, PTL

\* For every graph a client sends: it is stored exactly when it is closed and acyclic,
\* and the levels a run follows are its longest-path levels (validateGraph, topoLevels).
THEOREM LevelsAreRanks == Spec => []LevelsAreLongestPaths
<1>1. ASSUME DagInv PROVE LevelsAreLongestPaths
  <2>1. \A lev : IsRanking(lev) <=> Ranks(deps, lev)
    BY DEF IsRanking, Ranks
  <2>2. pipeline # "none" => (pipeline # "rejected" <=> ValidateGraph(deps))
    BY <1>1 DEF DagInv, TypeInv, PlanInv
  <2>3. phase \in {"level", "join"} => IsRanking(level)
    BY <1>1, <2>1, ParentsBelow DEF DagInv
  <2> QED
    BY <2>1, <2>2, <2>3, ValidIffRanked DEF LevelsAreLongestPaths, K
<1> QED
  BY <1>1, Inductive, PTL

\* No step's executor starts before all its parents have completed, for every graph and
\* every interleaving of goroutines, failures and cancellations (runStepsDAG).
THEOREM ParentsComeFirst == Spec => []ParentsFirst
<1>1. ASSUME DagInv PROVE ParentsFirst
  <2> SUFFICES ASSUME NEW s \in Steps, step[s] \in {"RUNNING", "COMPLETED"}, NEW d \in deps[s]
               PROVE  step[d] = "COMPLETED"
    BY DEF ParentsFirst
  <2>1. Waiting(s) \/ Settled(s) \/ Working(s)
    BY <1>1 DEF DagInv, RunInv, BarrierInv, NotYet, Over, TypeInv
  <2> QED
    BY <2>1 DEF Waiting, Settled, Working
<1> QED
  BY <1>1, Inductive, PTL

\* A failure skips exactly what depends on it; a run ends COMPLETED only with all its
\* steps, CANCELLED only if its context ended, and an answer without an error is what
\* the rows say (runStepsDAG, settle, saveTerminal).
THEOREM FailuresAreContained == Spec => []FailureIsContained
<1>1. ASSUME DagInv PROVE FailureIsContained
  <2> SUFFICES ASSUME phase = "done", status \in Terminal
               PROVE  /\ \A s \in Steps :
                          /\ step[s] \in {"COMPLETED", "FAILED", "SKIPPED"}
                          /\ step[s] = "SKIPPED" <=> \E d \in deps[s] : step[d] # "COMPLETED"
                      /\ status = "COMPLETED" => \A s \in Steps : step[s] = "COMPLETED"
                      /\ status = "CANCELLED" => ctx # "live"
                      /\ \A c \in Calls : answer[c] \in Terminal => answer[c] = dbStatus /\ dbStep = step
    BY DEF FailureIsContained
  <2>1. \A s \in Steps : Settled(s)
    BY <1>1 DEF DagInv, RunInv, BarrierInv, Over
  <2>2. status = "COMPLETED" => failed = {}
    BY <1>1 DEF DagInv, RunInv, StatusInv, ErrorInv
  <2>3. status = "CANCELLED" => ctx # "live"
    BY <1>1 DEF DagInv, RunInv, StatusInv, ErrorInv
  <2>4. \A c \in Calls : answer[c] \in Terminal => answer[c] = dbStatus /\ dbStep = step
    BY <1>1 DEF DagInv, RunInv, StatusInv
  <2> QED
    BY <2>1, <2>2, <2>3, <2>4 DEF Settled
<1> QED
  BY <1>1, Inductive, PTL
=============================================================================
