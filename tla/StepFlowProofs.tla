--------------------------- MODULE StepFlowProofs ---------------------------
(***************************************************************************)
(* Proofs about the receive window and the steps of a scenario, for every  *)
(* scenario and message: the scan of engine.rs finds what it is for, and   *)
(* every way a step leads on lands on a step or past the last one, and the *)
(* steps a call can come to are closed under all of them.                  *)
(*                                                                         *)
(* The scan's walks are recursive functions.  That such a function exists, *)
(* and is the only one, is shown by its closed form: it solves the walk's  *)
(* equation, and where another solution differs from it, the place nearest *)
(* to the walk's end would contradict the equation.                        *)
(***************************************************************************)
EXTENDS ScenarioLint, FiniteSetTheorems, WellFoundedInduction, TLAPS

\* A nonempty set of naturals has a least element.
LEMMA LeastNatural ==
    ASSUME NEW T \in SUBSET Nat, T # {}
    PROVE  \E m \in T : \A n \in T : m <= n
  <1> DEFINE R == OpToRel(<, Nat)
  <1>1. IsWellFoundedOn(R, Nat)
    BY NatLessThanWellFounded
  <1>2. PICK m \in T : \A n \in T : ~ (<<n, m>> \in R)
    BY <1>1, WFMin
  <1>3. \A n, k \in Nat : n < k => <<n, k>> \in R
    BY DEF OpToRel
  <1> HIDE DEF R
  <1>4. \A n \in T : m <= n
    <2> SUFFICES ASSUME NEW n \in T PROVE m <= n
      OBVIOUS
    <2>1. n \in Nat /\ m \in Nat
      OBVIOUS
    <2>2. ~ (n < m)
      BY <1>2, <1>3, <2>1, Zenon
    <2> QED BY <2>1, <2>2
  <1> QED BY <1>4

\* What is asked of a scenario here: it is a sequence.
IsScenario(steps) == Len(steps) \in Nat /\ DOMAIN steps = 1..Len(steps)

\* Min and Max, which choose an element, are the ones they are for.
LEMMA MinIs ==
    ASSUME NEW S \in SUBSET Nat, NEW x \in S, \A y \in S : x <= y
    PROVE  Min(S) = x
  <1>1. \A y \in S : (\A z \in S : y <= z) => y = x
    OBVIOUS
  <1> DEFINE P(y) == y \in S /\ \A z \in S : y =< z
  <1>2. P(x) /\ \A y : P(y) => y = x
    BY <1>1
  <1>3. Min(S) = CHOOSE y : P(y)
    BY DEF Min
  <1> HIDE DEF P
  <1> QED BY <1>2, <1>3

LEMMA MaxIs ==
    ASSUME NEW S \in SUBSET Nat, NEW x \in S, \A y \in S : x >= y
    PROVE  Max(S) = x
  <1>1. \A y \in S : (\A z \in S : y >= z) => y = x
    OBVIOUS
  <1> DEFINE P(y) == y \in S /\ \A z \in S : y >= z
  <1>2. P(x) /\ \A y : P(y) => y = x
    BY <1>1
  <1>3. Max(S) = CHOOSE y : P(y)
    BY DEF Max
  <1> HIDE DEF P
  <1> QED BY <1>2, <1>3

\* A set of numbers that is not empty has its least, and a bounded one its
\* greatest element.
LEMMA MinExists ==
    ASSUME NEW S \in SUBSET Nat, S # {}
    PROVE  Min(S) \in S /\ \A y \in S : Min(S) <= y
  <1>1. PICK x \in S : \A y \in S : x <= y
    BY LeastNatural
  <1> QED BY <1>1, MinIs

LEMMA MaxExists ==
    ASSUME NEW S \in SUBSET Nat, S # {}, NEW n \in Nat, \A y \in S : y <= n
    PROVE  Max(S) \in S /\ \A y \in S : Max(S) >= y
  <1> DEFINE B == {b \in Nat : \A y \in S : y <= b}
  <1>1. PICK b \in B : \A c \in B : b <= c
    <2>1. B \in SUBSET Nat /\ n \in B
      OBVIOUS
    <2> HIDE DEF B
    <2> QED BY <2>1, LeastNatural
  <1>2. b \in S
    <2> SUFFICES ASSUME b \notin S PROVE FALSE
      OBVIOUS
    <2>1. \A y \in S : y < b /\ y \in Nat
      BY <1>1
    <2>2. b # 0
      <3>1. PICK y : y \in S
        OBVIOUS
      <3> QED BY <2>1, <3>1
    <2>3. b - 1 \in B
      BY <1>1, <2>1, <2>2
    <2> QED BY <1>1, <2>3
  <1>3. \A y \in S : b >= y
    BY <1>1
  <1> QED BY <1>2, <1>3, MaxIs

-----------------------------------------------------------------------------
(* The walk forward.                                                       *)

Ahead(steps, branched, i, m) == Matching(steps, branched, m) \cap Window(steps, i)

\* What it finds from step i, without a walk.
ForwardFrom(steps, branched, i, m) ==
    IF Ahead(steps, branched, i, m) = {} THEN NoMatch
    ELSE Forward(Min(Ahead(steps, branched, i, m)))

\* The walk's equation.
ForwardStep(w, steps, branched, i, m) ==
    IF i > Len(steps) THEN NoMatch
    ELSE IF RecvMatches(steps, branched, i, m) THEN Forward(i)
    ELSE IF Skippable(steps[i]) THEN w[i + 1]
    ELSE NoMatch

ForwardWalk(w, steps, branched, start, m) ==
    w = [i \in start..Len(steps) + 1 |-> ForwardStep(w, steps, branched, i, m)]

\* The closed form solves the equation.
LEMMA ForwardFromSteps ==
    ASSUME NEW steps, IsScenario(steps), NEW branched, NEW m, NEW i \in 1..Len(steps) + 1
    PROVE  ForwardFrom(steps, branched, i, m) =
             IF i > Len(steps) THEN NoMatch
             ELSE IF RecvMatches(steps, branched, i, m) THEN Forward(i)
             ELSE IF Skippable(steps[i]) THEN ForwardFrom(steps, branched, i + 1, m)
             ELSE NoMatch
  <1> DEFINE A(k) == Ahead(steps, branched, k, m)
             M(k) == RecvMatches(steps, branched, k, m)
             S(k) == Skippable(steps[k])
             n == Len(steps)
  <1>0. n \in Nat /\ \A k \in Nat : \A j : j \in A(k) <=> j \in 1..n /\ M(j) /\ j \in k..n /\ \A h \in k..j - 1 : S(h)
    BY DEF IsScenario, Ahead, Matching, Window
  <1>1. A(i) \in SUBSET Nat
    BY <1>0
  <1>f. \A k : ForwardFrom(steps, branched, k, m) = IF A(k) = {} THEN NoMatch ELSE Forward(Min(A(k)))
    BY DEF ForwardFrom
  <1> HIDE DEF A, M, S, n
  <1>2. CASE i > n
    <2>1. A(i) = {}
      BY <1>0, <1>2
    <2> QED BY <2>1, <1>2, <1>f DEF n
  <1>3. CASE i <= n /\ M(i)
    <2>1. i \in A(i) /\ \A j \in A(i) : i <= j
      BY <1>0, <1>3
    <2>2. Min(A(i)) = i
      BY <1>1, <2>1, MinIs
    <2> QED BY <1>0, <1>3, <1>f, <2>1, <2>2 DEF n, M
  <1>4. CASE i <= n /\ ~M(i) /\ S(i)
    <2>0. i \in Nat /\ i + 1 \in Nat
      BY <1>0 DEF n
    <2>1. A(i) \subseteq A(i + 1)
      BY <1>0, <1>4, <2>0
    <2>2. A(i + 1) \subseteq A(i)
      <3> SUFFICES ASSUME NEW j \in A(i + 1) PROVE j \in A(i)
        OBVIOUS
      <3>1. j \in 1..n /\ M(j) /\ j \in i + 1..n /\ \A h \in i + 1..j - 1 : S(h)
        BY <1>0, <2>0
      <3>2. \A h \in i..j - 1 : S(h)
        BY <1>4, <2>0, <3>1
      <3> QED BY <1>0, <1>4, <2>0, <3>1, <3>2
    <2>3. A(i) = A(i + 1)
      BY <2>1, <2>2
    <2> QED BY <1>0, <1>4, <1>f, <2>3 DEF n, M, S
  <1>5. CASE i <= n /\ ~M(i) /\ ~S(i)
    <2>1. A(i) = {}
      BY <1>0, <1>5
    <2> QED BY <1>0, <1>5, <1>f, <2>1 DEF n, M, S
  <1> QED BY <1>0, <1>2, <1>3, <1>4, <1>5 DEF n

LEMMA ForwardWalkExists ==
    ASSUME NEW steps, IsScenario(steps), NEW branched, NEW m, NEW start \in 1..Len(steps) + 1
    PROVE  \E w : ForwardWalk(w, steps, branched, start, m)
  <1> DEFINE w == [i \in start..Len(steps) + 1 |-> ForwardFrom(steps, branched, i, m)]
  <1>1. Len(steps) \in Nat
    BY DEF IsScenario
  <1>2. ASSUME NEW i \in start..Len(steps) + 1
        PROVE  w[i] = ForwardStep(w, steps, branched, i, m)
    <2>1. i \in 1..Len(steps) + 1 /\ (i <= Len(steps) => w[i + 1] = ForwardFrom(steps, branched, i + 1, m))
      BY <1>1
    <2>2. w[i] = ForwardFrom(steps, branched, i, m)
      OBVIOUS
    <2> HIDE DEF w
    <2> QED BY <1>1, <2>1, <2>2, ForwardFromSteps DEF ForwardStep
  <1>3. w = [i \in start..Len(steps) + 1 |-> w[i]]
    OBVIOUS
  <1>4. w = [i \in start..Len(steps) + 1 |-> ForwardStep(w, steps, branched, i, m)]
    <2> HIDE DEF w
    <2> QED BY <1>2, <1>3
  <1> HIDE DEF w
  <1> QED BY <1>4 DEF ForwardWalk

\* Every solution of the walk's equation is its closed form: where one is not,
\* the walk's rest would not be either.
LEMMA ForwardWalkIs ==
    ASSUME NEW steps, IsScenario(steps), NEW branched, NEW m, NEW start \in 1..Len(steps) + 1,
           NEW w, ForwardWalk(w, steps, branched, start, m)
    PROVE  w[start] = ForwardFrom(steps, branched, start, m)
  <1> DEFINE n == Len(steps)
             Wrong(i) == w[i] # ForwardFrom(steps, branched, i, m)
             T == {d \in 0..n + 1 - start : Wrong(n + 1 - d)}
  <1>1. n \in Nat /\ start \in 1..n + 1
    BY DEF IsScenario
  <1>2. \A i \in start..n + 1 : w[i] = ForwardStep(w, steps, branched, i, m)
    BY DEF ForwardWalk
  <1>3. SUFFICES T = {}
    <2>1. n + 1 - start \in 0..n + 1 - start /\ n + 1 - (n + 1 - start) = start
      BY <1>1
    <2> QED BY <1>3, <2>1
  <1>4. SUFFICES ASSUME NEW d \in T, \A e \in T : d <= e PROVE FALSE
    <2>1. T \in SUBSET Nat
      BY <1>1
    <2> HIDE DEF T
    <2> QED BY <1>4, <2>1, LeastNatural
  <1> DEFINE i == n + 1 - d
  <1>5. d \in 0..n + 1 - start /\ i \in start..n + 1 /\ i \in 1..n + 1 /\ Wrong(i)
    BY <1>1, <1>4
  <1>6. i <= n => ~Wrong(i + 1)
    <2> SUFFICES ASSUME i <= n PROVE ~Wrong(i + 1)
      OBVIOUS
    <2>1. d - 1 \in 0..n + 1 - start /\ n + 1 - (d - 1) = i + 1 /\ ~(d <= d - 1)
      BY <1>1, <1>5
    <2>2. d - 1 \notin T
      BY <1>4, <2>1
    <2>3. ~Wrong(n + 1 - (d - 1))
      BY <2>1, <2>2
    <2> QED BY <2>1, <2>3
  <1>7. w[i] = ForwardStep(w, steps, branched, i, m)
    BY <1>2, <1>5
  <1> HIDE DEF i
  <1>8. i <= n \/ i > n
    BY <1>1, <1>5
  <1> QED BY <1>5, <1>6, <1>7, <1>8, ForwardFromSteps DEF ForwardStep

LEMMA ScanForwardIs ==
    ASSUME NEW steps, IsScenario(steps), NEW branched, NEW m, NEW start \in 1..Len(steps) + 1
    PROVE  ScanForward(steps, branched, start, m) = ForwardFrom(steps, branched, start, m)
  <1> DEFINE w == CHOOSE v : ForwardWalk(v, steps, branched, start, m)
  <1>1. ScanForward(steps, branched, start, m) = w[start]
    BY DEF ScanForward, ForwardWalk, ForwardStep
  <1>2. ForwardWalk(w, steps, branched, start, m)
    BY ForwardWalkExists
  <1> HIDE DEF w
  <1> QED BY <1>1, <1>2, ForwardWalkIs
-----------------------------------------------------------------------------
(* The walk back.                                                          *)

\* The receives passed last, while nothing but they and labels was passed.
BehindOf(steps, branched, i, contig, m) ==
    {k \in Matching(steps, branched, m) : contig /\ k <= i /\ \A j \in k..i : Behind(steps[j])}
\* The responses of named transactions before step i.
TxnsOf(steps, branched, i, m) ==
    {k \in Matching(steps, branched, m) : k <= i /\ ~m.request /\ steps[k].txn # 0}

\* What it finds from step i, without a walk.
BackFrom(steps, branched, i, contig, m) ==
    IF BehindOf(steps, branched, i, contig, m) # {}
      THEN Old(Max(BehindOf(steps, branched, i, contig, m)))
    ELSE IF TxnsOf(steps, branched, i, m) # {}
      THEN OldTxn(steps[Max(TxnsOf(steps, branched, i, m))].txn)
    ELSE NoMatch

\* The walk's equation.
BackStep(w, steps, branched, i, contig, m) ==
    IF i = 0 \/ (~contig /\ ~HasTransactions(steps)) THEN NoMatch
    ELSE LET still == contig /\ Behind(steps[i])
         IN  IF RecvMatches(steps, branched, i, m)
                  /\ (still \/ (~steps[i].request /\ steps[i].txn # 0))
               THEN IF still THEN Old(i) ELSE OldTxn(steps[i].txn)
               ELSE w[i - 1][still]

BackWalk(w, steps, branched, start, m) ==
    w = [i \in 0..start - 1 |-> [contig \in BOOLEAN |-> BackStep(w, steps, branched, i, contig, m)]]

\* The closed form solves the equation.
LEMMA BackFromSteps ==
    ASSUME NEW steps, IsScenario(steps), NEW branched, NEW m, NEW i \in 0..Len(steps),
           NEW contig \in BOOLEAN, NEW still, still = (contig /\ Behind(steps[i]))
    PROVE  BackFrom(steps, branched, i, contig, m) =
             IF i = 0 \/ (~contig /\ ~HasTransactions(steps)) THEN NoMatch
             ELSE IF RecvMatches(steps, branched, i, m)
                       /\ (still \/ (~steps[i].request /\ steps[i].txn # 0))
               THEN IF still THEN Old(i) ELSE OldTxn(steps[i].txn)
             ELSE BackFrom(steps, branched, i - 1, still, m)
  <1> DEFINE n == Len(steps)
             M(k) == RecvMatches(steps, branched, k, m)
             X(k) == ~m.request /\ steps[k].txn # 0
             Y(k) == Behind(steps[k])
             B(k, c) == BehindOf(steps, branched, k, c, m)
             T(k) == TxnsOf(steps, branched, k, m)
             F(k, c) == BackFrom(steps, branched, k, c, m)
  <1>1. /\ n \in Nat /\ still \in BOOLEAN /\ still = (contig /\ Y(i))
        /\ \A k, c : \A j : j \in B(k, c) <=> j \in 1..n /\ M(j) /\ c /\ j <= k /\ \A h \in j..k : Y(h)
        /\ \A k : \A j : j \in T(k) <=> j \in 1..n /\ M(j) /\ j <= k /\ X(j)
    BY DEF IsScenario, BehindOf, TxnsOf, Matching, Behind
  <1>2. /\ \A k : T(k) \in SUBSET Nat /\ \A c : B(k, c) \in SUBSET Nat
    BY <1>1
  <1>3. \A k, c : F(k, c) = IF B(k, c) # {} THEN Old(Max(B(k, c)))
                           ELSE IF T(k) # {} THEN OldTxn(steps[Max(T(k))].txn) ELSE NoMatch
    BY DEF BackFrom
  <1>4. \A k \in 1..n : ~HasTransactions(steps) => ~X(k)
    BY DEF HasTransactions, IsScenario
  <1>5. M(i) => (X(i) <=> ~steps[i].request /\ steps[i].txn # 0)
    BY DEF RecvMatches
  <1>6. /\ X(i) \in BOOLEAN /\ M(i) \in BOOLEAN /\ i \in 0..n /\ i \in Nat
    BY <1>1 DEF RecvMatches
  <1> DEFINE G == RecvMatches(steps, branched, i, m)
                       /\ (still \/ (~steps[i].request /\ steps[i].txn # 0))
  <1>7. G <=> M(i) /\ (still \/ X(i))
    BY <1>5
  <1>11. still => contig /\ Y(i)
    BY <1>1
  <1>12. \A j : j \in B(i, contig) <=> j \in 1..n /\ M(j) /\ contig /\ j <= i /\ \A h \in j..i : Y(h)
    BY <1>1
  <1> SUFFICES F(i, contig) =
             IF i = 0 \/ (~contig /\ ~HasTransactions(steps)) THEN NoMatch
             ELSE IF G THEN IF still THEN Old(i) ELSE OldTxn(steps[i].txn)
             ELSE F(i - 1, still)
    OBVIOUS
  <1> HIDE DEF n, M, X, Y, B, T, F, G
  <1>8. CASE i = 0 \/ (~contig /\ ~HasTransactions(steps))
    <2>1. B(i, contig) = {} /\ T(i) = {}
      BY <1>1, <1>4, <1>6, <1>8
    <2> QED BY <1>3, <1>8, <2>1
  <1>9. CASE i # 0 /\ ~(~contig /\ ~HasTransactions(steps)) /\ G
    <2>1. i \in 1..n /\ M(i)
      BY <1>6, <1>7, <1>9
    <2>2. CASE still
      <3>0. contig /\ \A h \in i..i : Y(h)
        BY <1>1, <1>6, <1>11, <2>2
      <3>a. i \in B(i, contig)
        <4>1. i <= i
          BY <1>6
        <4> QED BY <1>12, <2>1, <3>0, <4>1
      <3>1. i \in B(i, contig) /\ \A j \in B(i, contig) : i >= j
        BY <1>6, <1>12, <3>a
      <3>2. Max(B(i, contig)) = i
        BY <1>2, <3>1, MaxIs
      <3> QED BY <1>3, <1>9, <2>2, <3>1, <3>2
    <2>3. CASE ~still
      <3>1. B(i, contig) = {}
        BY <1>1, <1>6, <2>3
      <3>2. i \in T(i) /\ \A j \in T(i) : i >= j
        BY <1>1, <1>6, <1>7, <1>9, <2>1, <2>3
      <3>3. Max(T(i)) = i
        BY <1>2, <3>2, MaxIs
      <3> QED BY <1>3, <1>9, <2>3, <3>1, <3>2, <3>3
    <2> QED BY <2>2, <2>3
  <1>10. CASE i # 0 /\ ~(~contig /\ ~HasTransactions(steps)) /\ ~G
    <2>1. ASSUME NEW j PROVE j \in B(i, contig) <=> j \in B(i - 1, still)
      <3>1. j \in B(i, contig) => j # i /\ still
        BY <1>1, <1>6, <1>7, <1>10
      <3>2. j \in 1..n /\ (\A h \in j..i : Y(h)) => \A h \in j..i - 1 : Y(h)
        BY <1>1, <1>6
      <3>3. still /\ j \in 1..n /\ (\A h \in j..i - 1 : Y(h)) => \A h \in j..i : Y(h)
        <4> SUFFICES ASSUME still, j \in 1..n, \A h \in j..i - 1 : Y(h), NEW h \in j..i PROVE Y(h)
          OBVIOUS
        <4>1. h = i \/ h \in j..i - 1
          BY <1>1, <1>6
        <4> QED BY <1>11, <4>1
      <3>4. j \in 1..n => (j <= i /\ j # i <=> j <= i - 1)
        BY <1>1, <1>6
      <3>5. j \in 1..n /\ j <= i - 1 => j <= i
        BY <1>1, <1>6
      <3> QED BY <1>1, <3>1, <3>2, <3>3, <3>4, <3>5
    <2>2. ASSUME NEW j PROVE j \in T(i) <=> j \in T(i - 1)
      <3>1. j \in T(i) => j # i
        BY <1>1, <1>7, <1>10
      <3>2. j \in 1..n => (j <= i /\ j # i <=> j <= i - 1) /\ (j <= i - 1 => j <= i)
        BY <1>1, <1>6
      <3> QED BY <1>1, <3>1, <3>2
    <2>3. B(i, contig) = B(i - 1, still) /\ T(i) = T(i - 1)
      BY <2>1, <2>2
    <2> QED BY <1>3, <1>10, <2>3
  <1> QED BY <1>8, <1>9, <1>10

LEMMA BackWalkExists ==
    ASSUME NEW steps, IsScenario(steps), NEW branched, NEW m, NEW start \in 1..Len(steps) + 1
    PROVE  \E w : BackWalk(w, steps, branched, start, m)
  <1> DEFINE row(i) == [contig \in BOOLEAN |-> BackFrom(steps, branched, i, contig, m)]
             w == [i \in 0..start - 1 |-> row(i)]
  <1>1. Len(steps) \in Nat
    BY DEF IsScenario
  <1>2. ASSUME NEW i \in 0..start - 1, NEW contig \in BOOLEAN
        PROVE  BackFrom(steps, branched, i, contig, m) = BackStep(w, steps, branched, i, contig, m)
    <2>0. PICK still : still = (contig /\ Behind(steps[i]))
      OBVIOUS
    <2>1. i \in 0..Len(steps) /\ still \in BOOLEAN
      BY <1>1, <2>0
    <2>2. i # 0 => w[i - 1][still] = BackFrom(steps, branched, i - 1, still, m)
      BY <1>1, <2>1
    <2> HIDE DEF w
    <2>3. BackFrom(steps, branched, i, contig, m) =
             IF i = 0 \/ (~contig /\ ~HasTransactions(steps)) THEN NoMatch
             ELSE IF RecvMatches(steps, branched, i, m)
                       /\ (still \/ (~steps[i].request /\ steps[i].txn # 0))
               THEN IF still THEN Old(i) ELSE OldTxn(steps[i].txn)
             ELSE BackFrom(steps, branched, i - 1, still, m)
      BY <2>0, <2>1, BackFromSteps
    <2>4. BackStep(w, steps, branched, i, contig, m) =
             IF i = 0 \/ (~contig /\ ~HasTransactions(steps)) THEN NoMatch
             ELSE IF RecvMatches(steps, branched, i, m)
                       /\ (still \/ (~steps[i].request /\ steps[i].txn # 0))
               THEN IF still THEN Old(i) ELSE OldTxn(steps[i].txn)
             ELSE w[i - 1][still]
      BY <2>0 DEF BackStep
    <2> QED BY <2>2, <2>3, <2>4
  <1>3. ASSUME NEW i \in 0..start - 1
        PROVE  row(i) = [contig \in BOOLEAN |-> BackStep(w, steps, branched, i, contig, m)]
    <2> HIDE DEF w
    <2> QED BY <1>2
  <1>4. w = [i \in 0..start - 1 |-> [contig \in BOOLEAN |-> BackStep(w, steps, branched, i, contig, m)]]
    <2>1. w = [i \in 0..start - 1 |-> row(i)]
      OBVIOUS
    <2> HIDE DEF w, row
    <2> QED BY <1>3, <2>1
  <1> HIDE DEF w
  <1> QED BY <1>4 DEF BackWalk

\* And it is the equation's only solution.
LEMMA BackWalkIs ==
    ASSUME NEW steps, IsScenario(steps), NEW branched, NEW m, NEW start \in 1..Len(steps) + 1,
           NEW w, BackWalk(w, steps, branched, start, m)
    PROVE  w[start - 1][TRUE] = BackFrom(steps, branched, start - 1, TRUE, m)
  <1> DEFINE Wrong(i) == \E contig \in BOOLEAN : w[i][contig] # BackFrom(steps, branched, i, contig, m)
             T == {i \in 0..start - 1 : Wrong(i)}
  <1>1. Len(steps) \in Nat /\ start - 1 \in 0..start - 1 /\ start \in Nat
    BY DEF IsScenario
  <1>2. \A i \in 0..start - 1 : \A contig \in BOOLEAN :
            w[i][contig] = BackStep(w, steps, branched, i, contig, m)
    BY DEF BackWalk
  <1>3. SUFFICES ASSUME T # {} PROVE FALSE
    BY <1>1
  <1>4. T \in SUBSET Nat
    BY <1>1
  <1>5. PICK i \in T : \A j \in T : i <= j
    <2> HIDE DEF T
    <2> QED BY <1>3, <1>4, LeastNatural
  <1>6. PICK contig \in BOOLEAN : w[i][contig] # BackFrom(steps, branched, i, contig, m)
    BY <1>5
  <1>a. PICK still : still = (contig /\ Behind(steps[i]))
    OBVIOUS
  <1>7. i \in 0..start - 1 /\ i \in 0..Len(steps) /\ still \in BOOLEAN
    BY <1>1, <1>5, <1>a
  <1>8. i # 0 => w[i - 1][still] = BackFrom(steps, branched, i - 1, still, m)
    <2>1. i # 0 => i - 1 \in 0..start - 1 /\ ~(i <= i - 1)
      BY <1>1, <1>7
    <2>2. i # 0 => ~Wrong(i - 1)
      BY <1>5, <2>1
    <2> QED BY <1>7, <2>2
  <1>9. w[i][contig] = BackStep(w, steps, branched, i, contig, m)
    BY <1>2, <1>7
  <1>10. BackFrom(steps, branched, i, contig, m) =
             IF i = 0 \/ (~contig /\ ~HasTransactions(steps)) THEN NoMatch
             ELSE IF RecvMatches(steps, branched, i, m)
                       /\ (still \/ (~steps[i].request /\ steps[i].txn # 0))
               THEN IF still THEN Old(i) ELSE OldTxn(steps[i].txn)
             ELSE BackFrom(steps, branched, i - 1, still, m)
    BY <1>7, <1>a, BackFromSteps
  <1>11. BackStep(w, steps, branched, i, contig, m) =
             IF i = 0 \/ (~contig /\ ~HasTransactions(steps)) THEN NoMatch
             ELSE IF RecvMatches(steps, branched, i, m)
                       /\ (still \/ (~steps[i].request /\ steps[i].txn # 0))
               THEN IF still THEN Old(i) ELSE OldTxn(steps[i].txn)
             ELSE w[i - 1][still]
    BY <1>a DEF BackStep
  <1> QED BY <1>6, <1>8, <1>9, <1>10, <1>11

LEMMA ScanBackIs ==
    ASSUME NEW steps, IsScenario(steps), NEW branched, NEW m, NEW start \in 1..Len(steps) + 1
    PROVE  ScanBack(steps, branched, start, m) = BackFrom(steps, branched, start - 1, TRUE, m)
  <1> DEFINE w == CHOOSE v : BackWalk(v, steps, branched, start, m)
  <1>1. ScanBack(steps, branched, start, m) = w[start - 1][TRUE]
    BY DEF ScanBack, BackWalk, BackStep
  <1>2. BackWalk(w, steps, branched, start, m)
    BY BackWalkExists
  <1> HIDE DEF w
  <1> QED BY <1>1, <1>2, BackWalkIs

-----------------------------------------------------------------------------
(* The scan finds what it is for, in every scenario and for every message:  *)
(* the next step of the window that takes the message, else the last one    *)
(* that was passed, else the latest transaction it answers                  *)
(* (scan_for_match_guarded).                                                *)
THEOREM ScanIsExpected ==
    ASSUME NEW steps, IsScenario(steps), NEW branched, NEW start \in 1..Len(steps) + 1,
           NEW waiting \in BOOLEAN, NEW m, NEW ackGuard
    PROVE  Scan(steps, branched, start, waiting, m, ackGuard)
             = Expected(steps, branched, start, waiting, m, ackGuard)
  <1> DEFINE ahead  == Matching(steps, branched, m) \cap Window(steps, start)
             behind == Matching(steps, branched, m) \cap Passed(steps, start)
             txns   == {i \in Matching(steps, branched, m) \cap 1..start - 1 :
                           ~m.request /\ steps[i].txn # 0}
  <1>1. Len(steps) \in Nat /\ DOMAIN steps = 1..Len(steps) /\ start - 1 \in 0..Len(steps)
    BY DEF IsScenario
  <1>2. ScanForward(steps, branched, start, m) = IF ahead = {} THEN NoMatch ELSE Forward(Min(ahead))
    BY ScanForwardIs DEF ForwardFrom, Ahead
  <1>3. BehindOf(steps, branched, start - 1, TRUE, m) = behind
    BY <1>1 DEF BehindOf, Matching, Passed
  <1>4. TxnsOf(steps, branched, start - 1, m) = txns
    BY <1>1 DEF TxnsOf, Matching
  <1>5. ScanBack(steps, branched, start, m) =
           IF behind # {} THEN Old(Max(behind))
           ELSE IF txns # {} THEN OldTxn(steps[Max(txns)].txn) ELSE NoMatch
    BY <1>3, <1>4, ScanBackIs DEF BackFrom
  <1>6. Forward(Min(ahead)) # NoMatch
    BY DEF Forward, NoMatch
  <1>7. Expected(steps, branched, start, waiting, m, ackGuard) =
          IF Guarded(m, ackGuard) THEN NoMatch
          ELSE IF waiting /\ ahead # {} THEN Forward(Min(ahead))
          ELSE IF behind # {} THEN Old(Max(behind))
          ELSE IF txns # {} THEN OldTxn(steps[Max(txns)].txn)
          ELSE NoMatch
    BY DEF Expected
  <1> HIDE DEF ahead, behind, txns
  <1> QED BY <1>2, <1>5, <1>6, <1>7 DEF Scan
-----------------------------------------------------------------------------
(* Where steps lead.                                                       *)

\* What the compiler's resolution of labels and indexes leaves.
LEMMA StepsAreTyped ==
    ASSUME Resolved
    PROVE  /\ Len(Steps) \in Nat /\ Len(Steps) > 0 /\ DOMAIN Steps = 1..Len(Steps)
           /\ End = Len(Steps) + 1 /\ End \in Nat
           /\ \A i \in DOMAIN Steps :
                 /\ Steps[i] \in Step
                 /\ Steps[i].next \in 0..End /\ Steps[i].ontimeout \in 0..End /\ Steps[i].jump \in 0..End
  <1>1. Steps \in Seq(Step) /\ Steps # <<>>
    BY DEF Resolved
  <1>2. Len(Steps) \in Nat /\ Len(Steps) > 0 /\ DOMAIN Steps = 1..Len(Steps)
        /\ \A i \in DOMAIN Steps : Steps[i] \in Step
    BY <1>1
  <1> QED BY <1>2 DEF Resolved, End

LEMMA ScenarioOfSteps == Resolved => IsScenario(Steps)
  BY StepsAreTyped DEF IsScenario

\* next_step, step_after_jump and what they rest on stay within the scenario.
LEMMA NextStepsLand ==
    ASSUME Resolved, NEW i \in DOMAIN Steps
    PROVE  NextSteps(i) \subseteq 1..End
  BY StepsAreTyped DEF NextSteps, Branches

LEMMA MessagesBeforeLand ==
    ASSUME Resolved, NEW i \in 1..End
    PROVE  /\ MessagesBefore(i) \subseteq DOMAIN Steps /\ MessagesBefore(i) \in SUBSET Nat
           /\ MessageIndex(i) \in Nat
           /\ MessageBefore(i) \in 0..Len(Steps)
  <1>1. MessagesBefore(i) \subseteq 1..Len(Steps) /\ MessagesBefore(i) \in SUBSET Nat
        /\ \A y \in MessagesBefore(i) : y <= Len(Steps)
    BY StepsAreTyped DEF MessagesBefore
  <1>2. IsFiniteSet(1..Len(Steps))
    BY StepsAreTyped, FS_Interval
  <1>3. MessageIndex(i) \in Nat
    BY <1>1, <1>2, FS_Subset, FS_CardinalityType DEF MessageIndex
  <1>4. MessagesBefore(i) # {} => Max(MessagesBefore(i)) \in MessagesBefore(i)
    BY <1>1, StepsAreTyped, MaxExists
  <1> QED BY <1>1, <1>3, <1>4, StepsAreTyped DEF MessageBefore

LEMMA AfterJumpLands ==
    ASSUME Resolved, NEW target \in 1..End
    PROVE  AfterJump(target) \subseteq 1..End
  BY MessagesBeforeLand, StepsAreTyped DEF AfterJump, Branches

LEMMA MovesOnLands ==
    ASSUME Resolved, NEW i \in DOMAIN Steps
    PROVE  MovesOn(i) \subseteq 1..End
  BY NextStepsLand, StepsAreTyped DEF MovesOn, Unset, Branches

\* A receive that waits on after a jump waits at a step.
LEMMA WaitAfterJumpLands ==
    ASSUME Resolved, NEW target \in 1..End
    PROVE  WaitAfterJump(target) \in DOMAIN Steps
  <1>1. MessageBefore(target) \in 0..Len(Steps) /\ Len(Steps) \in Nat /\ Len(Steps) > 0
    BY StepsAreTyped, MessagesBeforeLand
  <1> DEFINE S == {1, MessageBefore(target)}
  <1>2. S \in SUBSET Nat /\ S # {} /\ \A y \in S : y <= Len(Steps)
    BY <1>1
  <1>3. Max(S) \in S /\ Max(S) >= 1
    <2> HIDE DEF S
    <2>1. Max(S) \in S /\ \A y \in S : Max(S) >= y
      BY <1>1, <1>2, MaxExists
    <2> QED BY <2>1 DEF S
  <1> QED BY <1>1, <1>2, <1>3, StepsAreTyped DEF WaitAfterJump

\* Every message index a call was at leads back to a step.
LEMMA StepOfMessageLands ==
    ASSUME Resolved, NEW j \in 1..End
    PROVE  /\ StepOfMessage(MessageIndex(j)) \in 1..End
           /\ MessageIndex(StepOfMessage(MessageIndex(j))) = MessageIndex(j)
  <1> DEFINE n == Len(Steps)
             S == {i \in 1..End : i >= j /\ (i = End \/ IsMessage(i))}
  <1>1. n \in Nat /\ End = n + 1 /\ j \in Nat
    BY StepsAreTyped
  <1>2. End \in S /\ S \in SUBSET Nat
    BY <1>1
  <1>3. PICK i \in S : \A k \in S : i <= k
    <2> HIDE DEF S
    <2> QED BY <1>2, LeastNatural
  <1>4. \A k \in j..i - 1 : ~IsMessage(k)
    <2> SUFFICES ASSUME NEW k \in j..i - 1, IsMessage(k) PROVE FALSE
      OBVIOUS
    <2>1. k \in S /\ ~(i <= k)
      BY <1>1, <1>3
    <2> QED BY <1>3, <2>1
  <1>5. MessagesBefore(i) = MessagesBefore(j)
    <2>1. \A k : k \in 1..i - 1 => k \in 1..j - 1 \/ k \in j..i - 1
      BY <1>1, <1>3
    <2>2. \A k : k \in 1..j - 1 => k \in 1..i - 1
      BY <1>1, <1>3
    <2> QED BY <1>4, <2>1, <2>2 DEF MessagesBefore
  <1> DEFINE P(k) == k \in 1..End /\ MessageIndex(k) = MessageIndex(j) /\ (k = End \/ IsMessage(k))
  <1>6. P(i)
    BY <1>3, <1>5 DEF MessageIndex
  <1>7. StepOfMessage(MessageIndex(j)) = CHOOSE k : P(k)
    BY DEF StepOfMessage
  <1>8. P(CHOOSE k : P(k))
    <2> HIDE DEF P
    <2> QED BY <1>6
  <1> QED BY <1>7, <1>8

\* A jump finds its step, also one back to a message a call was at.
IsNoted(back) == \E j \in 1..End : back = MessageIndex(j)

LEMMA TargetsLand ==
    ASSUME Resolved, NEW i \in DOMAIN Steps, NEW back, IsNoted(back)
    PROVE  Targets(i, back) \subseteq 1..End
  <1>1. StepOfMessage(back) \in 1..End
    BY StepOfMessageLands DEF IsNoted
  <1> QED BY <1>1, StepsAreTyped DEF Targets

LEMMA DestinationsLand ==
    ASSUME Resolved, NEW i \in DOMAIN Steps, NEW back, IsNoted(back)
    PROVE  Destinations(i, back) \subseteq 1..End
  <1>1. \A target \in Targets(i, back) : AfterJump(target) \subseteq 1..End
    BY TargetsLand, AfterJumpLands
  <1> QED BY <1>1, NextStepsLand DEF Destinations

\* What a scan that goes forward finds.
LEMMA ForwardScans ==
    ASSUME Resolved, NEW branched, NEW start \in 1..End, NEW waiting \in BOOLEAN, NEW m, NEW ackGuard,
           Scan(Steps, branched, start, waiting, m, ackGuard).found = "forward"
    PROVE  /\ waiting
           /\ Scan(Steps, branched, start, waiting, m, ackGuard).at
                 \in {i \in Window(Steps, start) \cap DOMAIN Steps : Steps[i].kind = "recv"}
  <1> DEFINE e == Expected(Steps, branched, start, waiting, m, ackGuard)
             ahead == Matching(Steps, branched, m) \cap Window(Steps, start)
  <1>1. Scan(Steps, branched, start, waiting, m, ackGuard) = e
    BY ScenarioOfSteps, ScanIsExpected, StepsAreTyped
  <1>2. e = NoMatch \/ (waiting /\ ahead # {} /\ e = Forward(Min(ahead)))
        \/ (\E k : e = Old(k)) \/ (\E t : e = OldTxn(t))
    BY DEF Expected
  <1>3. waiting /\ ahead # {} /\ e = Forward(Min(ahead))
    <2> HIDE DEF e, ahead
    <2> QED BY <1>1, <1>2 DEF NoMatch, Old, OldTxn
  <1>4. /\ ahead \subseteq {i \in Window(Steps, start) \cap DOMAIN Steps : Steps[i].kind = "recv"}
        /\ ahead \in SUBSET Nat
    BY StepsAreTyped DEF Matching, RecvMatches
  <1>5. Min(ahead) \in ahead
    <2> HIDE DEF ahead
    <2> QED BY <1>3, <1>4, MinExists
  <1> DEFINE receives == {i \in Window(Steps, start) \cap DOMAIN Steps : Steps[i].kind = "recv"}
  <1>6. ahead \subseteq receives
    BY <1>4
  <1> HIDE DEF e, ahead, receives
  <1>7. e.at \in receives
    BY <1>3, <1>5, <1>6 DEF Forward
  <1>8. Scan(Steps, branched, start, waiting, m, ackGuard).at \in receives
    BY <1>1, <1>7
  <1> QED BY <1>3, <1>8 DEF receives
-----------------------------------------------------------------------------
(* The steps a call can come to: Within grows until it is closed under what *)
(* its steps lead to, and cannot grow for longer than there are steps.      *)

Noted == {MessageIndex(j) : j \in 1..End}

First == [at |-> {1} \cup ({Handler} \ {0}), backs |-> {0}]

Wider(w) ==
    [at    |-> w.at \cup UNION {Leads(i, w.backs) : i \in w.at \cap DOMAIN Steps},
     backs |-> w.backs \cup UNION {Marks(i, w.backs) : i \in w.at \cap DOMAIN Steps}]

\* The first n values of an iteration of F from `first`.
Iterates(f, F, first, n) == f[0] = first /\ \A k \in 1..n : f[k] = F[f[k - 1]]

LEMMA IterationsExist == ASSUME NEW F, NEW first PROVE \A n \in Nat : \E f : Iterates(f, F, first, n)
  <1> DEFINE T == {n \in Nat : ~\E f : Iterates(f, F, first, n)}
  <1>1. SUFFICES ASSUME T # {} PROVE FALSE
    OBVIOUS
  <1>2. PICK n \in T : \A k \in T : n <= k
    <2>1. T \in SUBSET Nat
      OBVIOUS
    <2> HIDE DEF T
    <2> QED BY <1>1, <2>1, LeastNatural
  <1>3. n \in Nat /\ ~\E f : Iterates(f, F, first, n)
    BY <1>2
  <1>4. n # 0
    <2> SUFFICES ASSUME n = 0 PROVE FALSE
      OBVIOUS
    <2> DEFINE f == [k \in {0} |-> first]
    <2>1. Iterates(f, F, first, n)
      BY DEF Iterates
    <2> QED BY <1>3, <2>1
  <1>5. PICK f : Iterates(f, F, first, n - 1)
    <2>1. n - 1 \in Nat /\ ~(n <= n - 1)
      BY <1>3, <1>4
    <2> QED BY <1>2, <2>1
  <1> DEFINE last == F[f[n - 1]]
             g == [k \in 0..n |-> IF k = n THEN last ELSE f[k]]
  <1>6. g[0] = first
    BY <1>3, <1>4, <1>5 DEF Iterates
  <1>7. ASSUME NEW k \in 1..n PROVE g[k] = F[g[k - 1]]
    <2>1. k \in 0..n /\ k - 1 \in 0..n /\ k - 1 # n /\ g[k - 1] = f[k - 1]
      BY <1>3
    <2>2. CASE k = n
      BY <2>1, <2>2
    <2>3. CASE k # n
      <3>1. k \in 1..n - 1 /\ g[k] = f[k]
        BY <1>3, <2>3
      <3>2. f[k] = F[f[k - 1]]
        BY <1>5, <3>1 DEF Iterates
      <3> QED BY <2>1, <3>1, <3>2
    <2> QED BY <2>2, <2>3
  <1> HIDE DEF g
  <1> QED BY <1>3, <1>6, <1>7 DEF Iterates

LEMMA IterationsAgree ==
    ASSUME NEW F, NEW first, NEW n \in Nat, NEW f, NEW g,
           Iterates(f, F, first, n), Iterates(g, F, first, n), NEW k \in 0..n
    PROVE  f[k] = g[k]
  <1> DEFINE T == {j \in 0..n : f[j] # g[j]}
  <1>1. SUFFICES ASSUME T # {} PROVE FALSE
    OBVIOUS
  <1>2. PICK j \in T : \A i \in T : j <= i
    <2>1. T \in SUBSET Nat
      OBVIOUS
    <2> HIDE DEF T
    <2> QED BY <1>1, <2>1, LeastNatural
  <1>3. j \in 0..n /\ f[j] # g[j] /\ j # 0
    BY <1>2 DEF Iterates
  <1>4. j \in 1..n /\ j - 1 \in 0..n /\ ~(j <= j - 1)
    BY <1>3
  <1>5. f[j - 1] = g[j - 1]
    BY <1>2, <1>4
  <1>6. f[j] = F[f[j - 1]] /\ g[j] = F[g[j - 1]]
    BY <1>4 DEF Iterates
  <1> QED BY <1>3, <1>5, <1>6

\* An iteration that stays in D is there, and goes on for ever.
Iteration(v, D, F, first) ==
    v \in [Nat -> D] /\ v[0] = first /\ \A n \in Nat : n # 0 => v[n] = F[v[n - 1]]

LEMMA IterationExists ==
    ASSUME NEW D, NEW F, NEW first \in D, \A d \in D : F[d] \in D
    PROVE  \E v : Iteration(v, D, F, first)
  <1> DEFINE G(n) == CHOOSE f : Iterates(f, F, first, n)
             V(n) == G(n)[n]
             v == [n \in Nat |-> V(n)]
  <1>1. \A n \in Nat : Iterates(G(n), F, first, n)
    BY IterationsExist
  <1>2. V(0) = first
    BY <1>1 DEF Iterates
  <1>3. ASSUME NEW n \in Nat, n # 0 PROVE n - 1 \in Nat /\ V(n) = F[V(n - 1)]
    <2>1. n \in 1..n /\ n - 1 \in Nat /\ n - 1 \in 0..n - 1
      BY <1>3
    <2>2. V(n) = F[G(n)[n - 1]]
      BY <1>1, <2>1 DEF Iterates
    <2>3. Iterates(G(n), F, first, n - 1) /\ Iterates(G(n - 1), F, first, n - 1)
      <3>1. Iterates(G(n), F, first, n) /\ Iterates(G(n - 1), F, first, n - 1)
        BY <1>1, <2>1
      <3>2. \A k \in 1..n - 1 : k \in 1..n
        OBVIOUS
      <3> HIDE DEF G
      <3> QED BY <3>1, <3>2 DEF Iterates
    <2>4. G(n)[n - 1] = G(n - 1)[n - 1]
      <3> HIDE DEF G
      <3> QED BY <2>1, <2>3, IterationsAgree
    <2> QED BY <2>1, <2>2, <2>4
  <1> HIDE DEF G, V
  <1>4. v[0] = first /\ \A n \in Nat : n # 0 => v[n] = F[v[n - 1]]
    BY <1>2, <1>3
  <1>5. \A n \in Nat : v[n] \in D
    <2> DEFINE T == {n \in Nat : v[n] \notin D}
    <2>1. SUFFICES ASSUME T # {} PROVE FALSE
      OBVIOUS
    <2>2. PICK n \in T : \A k \in T : n <= k
      <3>1. T \in SUBSET Nat
        OBVIOUS
      <3> HIDE DEF T
      <3> QED BY <2>1, <3>1, LeastNatural
    <2>3. n \in Nat /\ v[n] \notin D
      BY <2>2
    <2> HIDE DEF v
    <2>4. n # 0
      BY <1>4, <2>3
    <2>5. n - 1 \in Nat /\ ~(n <= n - 1)
      BY <2>3, <2>4
    <2>6. v[n - 1] \in D
      BY <2>2, <2>5
    <2> QED BY <1>4, <2>3, <2>4, <2>6
  <1>6. v \in [Nat -> D]
    <2>1. v = [n \in Nat |-> v[n]]
      OBVIOUS
    <2> HIDE DEF v
    <2> QED BY <1>5, <2>1
  <1> HIDE DEF v
  <1> QED BY <1>4, <1>6 DEF Iteration

\* What a step leads to are steps, and what it leaves to return to are messages.
LEMMA OntoLands ==
    ASSUME Resolved, NEW i \in DOMAIN Steps, NEW backs \in SUBSET Noted
    PROVE  /\ Onto(i, backs) \subseteq 1..End /\ WaitsOn(i, backs) \subseteq DOMAIN Steps
           /\ PassesOver(i, backs) \subseteq DOMAIN Steps
  <1>1. i + 1 \in 1..End
    BY StepsAreTyped
  <1>2. \A back \in backs : IsNoted(back)
    BY DEF Noted, IsNoted
  <1>3. \A back \in backs : Destinations(i, back) \subseteq 1..End /\ Targets(i, back) \subseteq 1..End
    BY <1>2, DestinationsLand, TargetsLand
  <1>4. Onto(i, backs) \subseteq 1..End
    BY <1>1, <1>3, MovesOnLands, NextStepsLand DEF Onto
  <1>5. WaitsOn(i, backs) \subseteq DOMAIN Steps
    BY <1>3, WaitAfterJumpLands DEF WaitsOn
  <1>6. PassesOver(i, backs) \subseteq DOMAIN Steps
    BY DEF PassesOver
  <1> QED BY <1>4, <1>5, <1>6

LEMMA LeadsLand ==
    ASSUME Resolved, NEW i \in DOMAIN Steps, NEW backs \in SUBSET Noted
    PROVE  Leads(i, backs) \subseteq 1..End /\ Marks(i, backs) \subseteq Noted
  <1>1. /\ i \in 1..End /\ i + 1 \in 1..End /\ DOMAIN Steps \subseteq 1..End
        /\ \A j \in DOMAIN Steps : j + 1 \in 1..End
        /\ DOMAIN Steps = 1..Len(Steps)
    BY StepsAreTyped
  <1>2. /\ Onto(i, backs) \subseteq 1..End /\ WaitsOn(i, backs) \subseteq DOMAIN Steps
        /\ PassesOver(i, backs) \subseteq DOMAIN Steps
    BY OntoLands
  <1>3. Rests(i, backs) \subseteq 1..End
    BY <1>1, <1>2 DEF Rests
  <1>4. \A j \in 1..End : TakesCmd(j) \subseteq 1..End
    BY <1>1 DEF TakesCmd
  <1>5. Answers(i) \subseteq 1..End
    BY <1>1, <1>4 DEF Answers, Window
  <1>6. TimeoutLabels(i) \subseteq 1..End
    BY StepsAreTyped DEF TimeoutLabels
  <1>7. Leads(i, backs) \subseteq 1..End
    <2> DEFINE A == UNION {TakesCmd(j) : j \in Rests(i, backs)}
               B == IF Steps[i].cond THEN {i + 1} ELSE {}
               C == IF Steps[i].kind \in {"recv", "recvCmd"} THEN Answers(i) ELSE {}
               D == IF Steps[i].kind = "timewait" THEN TakesCmd(i + 1) ELSE {}
               E == IF Anywhere(i) THEN 1..End ELSE {}
    <2>1. Leads(i, backs) = Onto(i, backs) \cup Rests(i, backs) \cup A \cup B \cup C \cup D
                               \cup TimeoutLabels(i) \cup E
      BY DEF Leads
    <2>2. A \subseteq 1..End
      BY <1>3, <1>4
    <2>3. B \subseteq 1..End
      BY <1>1
    <2>4. C \subseteq 1..End
      BY <1>5
    <2>5. D \subseteq 1..End
      BY <1>1, <1>4
    <2>6. E \subseteq 1..End
      OBVIOUS
    <2> HIDE DEF A, B, C, D, E
    <2> QED BY <1>2, <1>3, <1>6, <2>1, <2>2, <2>3, <2>4, <2>5, <2>6
  <1>8. Marks(i, backs) \subseteq Noted
    BY <1>1, <1>2 DEF Marks, Noted
  <1> QED BY <1>7, <1>8

LEMMA NotedAreFew == ASSUME Resolved PROVE IsFiniteSet(Noted) /\ Cardinality(Noted) <= End
  <1> DEFINE f == [j \in 1..End |-> MessageIndex(j)]
  <1>1. End \in Nat /\ IsFiniteSet(1..End) /\ Cardinality(1..End) = End
    BY StepsAreTyped, FS_Interval
  <1>2. f \in Surjection(1..End, Noted)
    BY DEF Surjection, Noted
  <1> HIDE DEF f
  <1> QED BY <1>1, <1>2, FS_Surjection

\* How much is found.
Amount(w) == Cardinality(w.at) + Cardinality(w.backs)

Lands(w) == w.at \subseteq 1..End /\ w.backs \subseteq Noted

LEMMA FirstLands == ASSUME Resolved PROVE Lands(First) /\ 1 \in First.at /\ 0 \in First.backs
  <1>1. 1 \in 1..End /\ (Handler # 0 => Handler \in 1..End)
    BY StepsAreTyped DEF Resolved
  <1>2. MessageIndex(1) = 0
    <2>1. MessagesBefore(1) = {}
      BY DEF MessagesBefore
    <2> QED BY <2>1, FS_EmptySet DEF MessageIndex
  <1>3. 0 \in Noted
    BY <1>1, <1>2 DEF Noted
  <1> QED BY <1>1, <1>3 DEF First, Lands

LEMMA WiderLands ==
    ASSUME Resolved, NEW w, Lands(w)
    PROVE  /\ Lands(Wider(w)) /\ w.at \subseteq Wider(w).at /\ w.backs \subseteq Wider(w).backs
  <1>1. \A i \in w.at \cap DOMAIN Steps : Leads(i, w.backs) \subseteq 1..End /\ Marks(i, w.backs) \subseteq Noted
    BY LeadsLand DEF Lands
  <1> QED BY <1>1 DEF Lands, Wider

\* Within is there, goes through these sets, and stays in the scenario.
LEMMA WithinGrows ==
    ASSUME Resolved
    PROVE  Within[0] = First /\ \A n \in Nat : Lands(Within[n]) /\ Within[n + 1] = Wider(Within[n])
  <1> DEFINE D == [at : SUBSET (1..End), backs : SUBSET Noted]
             F == [w \in D |-> Wider(w)]
             next(w, n) == IF n = 0 THEN First ELSE Wider(w[n - 1])
             Solves(w) == w = [n \in Nat |-> next(w, n)]
  <1>1. First \in D
    BY FirstLands DEF First, Lands
  <1>2. ASSUME NEW w \in D PROVE Lands(w) /\ F[w] = Wider(w) /\ F[w] \in D
    <2>1. Lands(w) /\ Lands(Wider(w))
      BY <1>2, WiderLands DEF Lands
    <2> QED BY <2>1 DEF Lands, Wider
  <1> HIDE DEF D
  <1>3. PICK v : Iteration(v, D, F, First)
    <2>1. \A w \in D : F[w] \in D
      BY <1>2
    <2> HIDE DEF F, next, Solves
    <2> QED BY <1>1, <2>1, IterationExists
  <1>4. \A n \in Nat : v[n] = next(v, n)
    <2>1. ASSUME NEW n \in Nat, n # 0 PROVE v[n] = Wider(v[n - 1])
      <3>1. n - 1 \in Nat /\ v[n - 1] \in D
        BY <1>3, <2>1 DEF Iteration
      <3> HIDE DEF F
      <3> QED BY <1>2, <1>3, <2>1, <3>1 DEF Iteration
    <2> QED BY <1>3, <2>1 DEF Iteration
  <1>5. Solves(v)
    <2>1. v = [n \in Nat |-> v[n]]
      BY <1>3 DEF Iteration
    <2> QED BY <1>4, <2>1
  <1>6. Within = CHOOSE w : Solves(w)
    BY DEF Within, First, Wider
  <1>7. Solves(Within)
    <2> HIDE DEF Solves
    <2> QED BY <1>5, <1>6
  <1>8. \A n \in Nat : Within[n] = next(Within, n)
    BY <1>7
  <1>9. \A n \in Nat : n + 1 \in Nat /\ n + 1 # 0 /\ (n + 1) - 1 = n
    OBVIOUS
  <1>10. Within[0] = First /\ \A n \in Nat : Within[n + 1] = Wider(Within[n])
    BY <1>8, <1>9
  <1>11. \A n \in Nat : Lands(Within[n])
    <2> DEFINE T == {n \in Nat : ~Lands(Within[n])}
    <2>1. SUFFICES ASSUME T # {} PROVE FALSE
      OBVIOUS
    <2>2. PICK n \in T : \A k \in T : n <= k
      <3>1. T \in SUBSET Nat
        OBVIOUS
      <3> HIDE DEF T
      <3> QED BY <2>1, <3>1, LeastNatural
    <2>3. n \in Nat /\ ~Lands(Within[n])
      BY <2>2
    <2>4. n # 0
      BY <1>10, <2>3, FirstLands
    <2>5. n - 1 \in Nat /\ ~(n <= n - 1) /\ (n - 1) + 1 = n
      BY <2>3, <2>4
    <2>6. Lands(Within[n - 1])
      BY <2>2, <2>5
    <2>7. Within[(n - 1) + 1] = Wider(Within[n - 1])
      BY <1>10, <2>5
    <2> QED BY <2>3, <2>5, <2>6, <2>7, WiderLands
  <1> QED BY <1>10, <1>11

\* It counts no more than there is to find, and more with every move that finds
\* anything.
LEMMA FoundIsBounded ==
    ASSUME Resolved, NEW w, Lands(w)
    PROVE  /\ IsFiniteSet(w.at) /\ IsFiniteSet(w.backs)
           /\ Cardinality(w.at) \in Nat /\ Cardinality(w.backs) \in Nat
           /\ Amount(w) \in Nat /\ Amount(w) <= 2 * End
  <1>1. End \in Nat /\ IsFiniteSet(1..End) /\ Cardinality(1..End) = End
    BY StepsAreTyped, FS_Interval
  <1>2. IsFiniteSet(Noted) /\ Cardinality(Noted) <= End
    BY NotedAreFew
  <1>3. w.at \in SUBSET (1..End) /\ w.backs \in SUBSET Noted
    BY DEF Lands
  <1>4. IsFiniteSet(w.at) /\ Cardinality(w.at) <= End
    BY <1>1, <1>3, FS_Subset
  <1>5. IsFiniteSet(w.backs) /\ Cardinality(w.backs) <= Cardinality(Noted)
    BY <1>2, <1>3, FS_Subset
  <1>6. Cardinality(w.at) \in Nat /\ Cardinality(w.backs) \in Nat /\ Cardinality(Noted) \in Nat
    BY <1>2, <1>4, <1>5, FS_CardinalityType
  <1> QED BY <1>1, <1>2, <1>4, <1>5, <1>6 DEF Amount

LEMMA FoundGrows ==
    ASSUME Resolved, NEW w, Lands(w)
    PROVE  Amount(Wider(w)) > Amount(w)
           \/ (Wider(w).at = w.at /\ Wider(w).backs = w.backs)
  <1> DEFINE v == Wider(w)
  <1>1. Lands(v) /\ w.at \in SUBSET v.at /\ w.backs \in SUBSET v.backs
    BY WiderLands
  <1> HIDE DEF v
  <1>2. /\ IsFiniteSet(v.at) /\ IsFiniteSet(v.backs)
        /\ Cardinality(v.at) \in Nat /\ Cardinality(v.backs) \in Nat
        /\ Cardinality(w.at) \in Nat /\ Cardinality(w.backs) \in Nat
    BY <1>1, FoundIsBounded
  <1>3. Cardinality(w.at) <= Cardinality(v.at) /\ (Cardinality(v.at) = Cardinality(w.at) => v.at = w.at)
    BY <1>1, <1>2, FS_Subset
  <1>4. /\ Cardinality(w.backs) <= Cardinality(v.backs)
        /\ Cardinality(v.backs) = Cardinality(w.backs) => v.backs = w.backs
    BY <1>1, <1>2, FS_Subset
  <1>5. Amount(v) > Amount(w) \/ (v.at = w.at /\ v.backs = w.backs)
    BY <1>2, <1>3, <1>4 DEF Amount
  <1> QED BY <1>5 DEF v

Closed(w) == Wider(w).at = w.at /\ Wider(w).backs = w.backs

\* Until it is closed, n moves find n things more.
LEMMA WithinCounts ==
    ASSUME Resolved
    PROVE  \A n \in Nat : Closed(Within[n]) \/ Amount(Within[n]) >= n + 1
  <1> DEFINE T == {n \in Nat : ~(Closed(Within[n]) \/ Amount(Within[n]) >= n + 1)}
  <1>1. SUFFICES ASSUME T # {} PROVE FALSE
    OBVIOUS
  <1>2. PICK n \in T : \A k \in T : n <= k
    <2>1. T \in SUBSET Nat
      OBVIOUS
    <2> HIDE DEF T
    <2> QED BY <1>1, <2>1, LeastNatural
  <1>3. n \in Nat /\ ~Closed(Within[n]) /\ ~(Amount(Within[n]) >= n + 1)
    BY <1>2
  <1>4. n # 0
    <2>1. Within[0] = First /\ Lands(First) /\ 1 \in First.at
      BY WithinGrows, FirstLands
    <2>2. IsFiniteSet(First.at) /\ Cardinality(First.at) \in Nat /\ Cardinality(First.backs) \in Nat
      BY <2>1, FoundIsBounded
    <2>3. Cardinality(First.at) # 0
      BY <2>1, <2>2, FS_EmptySet
    <2>4. Amount(First) >= 1
      BY <2>2, <2>3 DEF Amount
    <2> QED BY <1>3, <2>1, <2>4
  <1>5. n - 1 \in Nat /\ ~(n <= n - 1) /\ (n - 1) + 1 = n
    BY <1>3, <1>4
  <1> DEFINE w == Within[n - 1]
  <1>6. Lands(w) /\ Within[n] = Wider(w) /\ Amount(w) \in Nat
    <2>1. Within[(n - 1) + 1] = Wider(w)
      BY <1>5, WithinGrows
    <2>2. Lands(w)
      BY <1>5, WithinGrows
    <2> QED BY <1>5, <2>1, <2>2, FoundIsBounded
  <1>7. Closed(w) \/ Amount(w) >= n
    <2>1. Closed(w) \/ Amount(w) >= (n - 1) + 1
      BY <1>2, <1>5
    <2> QED BY <1>5, <2>1
  <1> HIDE DEF w
  <1>8. ~Closed(w)
    <2> SUFFICES ASSUME Closed(w) PROVE FALSE
      OBVIOUS
    <2>1. Wider(Wider(w)) = Wider(w)
      BY DEF Closed, Wider
    <2> QED BY <1>3, <1>6, <2>1 DEF Closed
  <1>9. Amount(Wider(w)) > Amount(w) /\ Amount(Wider(w)) \in Nat
    BY <1>6, <1>8, FoundGrows, WiderLands, FoundIsBounded DEF Closed
  <1> QED BY <1>3, <1>6, <1>7, <1>8, <1>9

\* What _unexp.retaddr may hold.
Noticed == Within[2 * End].backs

\* What is reached leads nowhere else.
THEOREM ReachedIsClosed ==
    ASSUME Resolved
    PROVE  /\ Reached \subseteq 1..End /\ Noticed \subseteq Noted
           /\ 1 \in Reached /\ (Handler # 0 => Handler \in Reached) /\ 0 \in Noticed
           /\ \A i \in Reached \cap DOMAIN Steps :
                 Leads(i, Noticed) \subseteq Reached /\ Marks(i, Noticed) \subseteq Noticed
  <1> DEFINE n == 2 * End
             w == Within[n]
  <1>1. n \in Nat
    BY StepsAreTyped
  <1>2. Lands(w) /\ Amount(w) \in Nat /\ Amount(w) <= n
    BY <1>1, WithinGrows, FoundIsBounded
  <1>3. Closed(w)
    <2>1. Closed(w) \/ Amount(w) >= n + 1
      BY <1>1, WithinCounts
    <2> HIDE DEF n, w
    <2> QED BY <1>1, <1>2, <2>1
  <1>4. \A k \in Nat : First.at \subseteq Within[k].at /\ First.backs \subseteq Within[k].backs
    <2> DEFINE T == {k \in Nat : ~(First.at \subseteq Within[k].at /\ First.backs \subseteq Within[k].backs)}
    <2>1. SUFFICES ASSUME T # {} PROVE FALSE
      OBVIOUS
    <2>2. PICK k \in T : \A j \in T : k <= j
      <3>1. T \in SUBSET Nat
        OBVIOUS
      <3> HIDE DEF T
      <3> QED BY <2>1, <3>1, LeastNatural
    <2>3. k \in Nat /\ k # 0
      BY <2>2, WithinGrows
    <2>4. k - 1 \in Nat /\ ~(k <= k - 1) /\ (k - 1) + 1 = k
      BY <2>3
    <2>5. First.at \subseteq Within[k - 1].at /\ First.backs \subseteq Within[k - 1].backs
      BY <2>2, <2>4
    <2>6. Within[(k - 1) + 1] = Wider(Within[k - 1]) /\ Lands(Within[k - 1])
      BY <2>4, WithinGrows
    <2>7. Within[k - 1].at \subseteq Within[k].at /\ Within[k - 1].backs \subseteq Within[k].backs
      BY <2>4, <2>6, WiderLands
    <2> QED BY <2>2, <2>5, <2>7
  <1>5. First.at \subseteq w.at /\ First.backs \subseteq w.backs
    BY <1>1, <1>4
  <1>6. 1 \in First.at /\ (Handler # 0 => Handler \in First.at) /\ 0 \in First.backs
    BY DEF First
  <1>7. w.at = Reached /\ w.backs = Noticed
    BY DEF Reached, Noticed
  <1> HIDE DEF w
  <1>8. \A i \in w.at \cap DOMAIN Steps : Leads(i, w.backs) \subseteq w.at /\ Marks(i, w.backs) \subseteq w.backs
    BY <1>3 DEF Closed, Wider
  <1> QED BY <1>2, <1>5, <1>6, <1>7, <1>8 DEF Lands

LEMMA ReachedLeads ==
    ASSUME Resolved, NEW i \in Reached \cap DOMAIN Steps
    PROVE  /\ Onto(i, Noticed) \subseteq Reached
           /\ \A j \in Rests(i, Noticed) : j \in Reached /\ TakesCmd(j) \subseteq Reached
           /\ Steps[i].cond => i + 1 \in Reached
           /\ Steps[i].kind \in {"recv", "recvCmd"} => Answers(i) \subseteq Reached
           /\ Steps[i].kind \in {"send", "recv", "recvCmd"} /\ Steps[i].ontimeout # 0
                => Steps[i].ontimeout \in Reached
           /\ Anywhere(i) => 1..End \subseteq Reached
  <1>1. Leads(i, Noticed) \subseteq Reached
    BY ReachedIsClosed
  <1> DEFINE A == UNION {TakesCmd(j) : j \in Rests(i, Noticed)}
             B == IF Steps[i].cond THEN {i + 1} ELSE {}
             C == IF Steps[i].kind \in {"recv", "recvCmd"} THEN Answers(i) ELSE {}
             D == IF Steps[i].kind = "timewait" THEN TakesCmd(i + 1) ELSE {}
             E == IF Anywhere(i) THEN 1..End ELSE {}
  <1>2. Leads(i, Noticed) = Onto(i, Noticed) \cup Rests(i, Noticed) \cup A \cup B \cup C \cup D
                               \cup TimeoutLabels(i) \cup E
    BY DEF Leads
  <1>3. /\ Onto(i, Noticed) \subseteq Reached /\ Rests(i, Noticed) \subseteq Reached
        /\ A \subseteq Reached /\ B \subseteq Reached /\ C \subseteq Reached
        /\ TimeoutLabels(i) \subseteq Reached /\ E \subseteq Reached
    <2> HIDE DEF A, B, C, D, E
    <2> QED BY <1>1, <1>2
  <1>4. \A j \in Rests(i, Noticed) : TakesCmd(j) \subseteq Reached
    BY <1>3
  <1>5. Steps[i].kind \in {"send", "recv", "recvCmd"} /\ Steps[i].ontimeout # 0
           => Steps[i].ontimeout \in Reached
    BY <1>3 DEF TimeoutLabels
  <1>6. Steps[i].cond => i + 1 \in Reached
    BY <1>3
  <1> QED BY <1>3, <1>4, <1>5, <1>6

LEMMA ReachedMarks ==
    ASSUME Resolved, NEW i \in Reached \cap DOMAIN Steps
    PROVE  /\ Steps[i].kind \in {"recv", "recvCmd", "pause"} => MessageIndex(i) \in Noticed
           /\ \A j \in WaitsOn(i, Noticed) \cup PassesOver(i, Noticed) : MessageIndex(j) \in Noticed
           /\ Steps[i].kind = "timewait" => \A j \in Onto(i, Noticed) : MessageIndex(j) \in Noticed
           /\ Anywhere(i) => \A j \in 1..End : MessageIndex(j) \in Noticed
  <1> DEFINE P == (IF Steps[i].kind \in {"recv", "recvCmd", "pause"} THEN {i} ELSE {})
                     \cup WaitsOn(i, Noticed) \cup PassesOver(i, Noticed)
                     \cup (IF Steps[i].kind = "timewait" THEN Onto(i, Noticed) ELSE {})
                     \cup (IF Anywhere(i) THEN 1..End ELSE {})
  <1>1. Marks(i, Noticed) = {MessageIndex(j) : j \in P}
    BY DEF Marks
  <1>2. \A j \in P : MessageIndex(j) \in Noticed
    <2>1. Marks(i, Noticed) \subseteq Noticed
      BY ReachedIsClosed
    <2> HIDE DEF P
    <2> QED BY <1>1, <2>1
  <1> QED BY <1>2

\* Nothing is known of where the call goes: it is taken to reach all.
AllReached == \A i \in 1..End : i \in Reached /\ MessageIndex(i) \in Noticed

LEMMA AnywhereIsAll ==
    ASSUME Resolved, NEW i \in Reached \cap DOMAIN Steps, Anywhere(i)
    PROVE  AllReached
  BY ReachedLeads, ReachedMarks DEF AllReached

\* The call may rest at step i: a command and an unexpected message may find it there.
MayRest(i) == i \in Reached /\ TakesCmd(i) \subseteq Reached

\* A restored pause may pass over step i.
MayPass(i) == i \in DOMAIN Steps => MayRest(i + 1) /\ MessageIndex(i) \in Noticed

LEMMA AllMay == ASSUME Resolved, AllReached, NEW i \in 1..End PROVE MayRest(i) /\ MayPass(i)
  <1>1. \A j \in 1..End : TakesCmd(j) \subseteq 1..End
    BY StepsAreTyped DEF TakesCmd
  <1>2. \A j \in DOMAIN Steps : j \in 1..End /\ j + 1 \in 1..End
    BY StepsAreTyped
  <1> QED BY <1>1, <1>2 DEF AllReached, MayRest, MayPass

\* Where a step's actions leave the call.
LEMMA OntoGoes ==
    ASSUME Resolved, NEW i \in Reached \cap DOMAIN Steps, NEW at \in Onto(i, Noticed)
    PROVE  /\ at \in Reached
           /\ Steps[i].kind \in {"pause", "timewait"} => MayRest(at)
           /\ Steps[i].kind \notin {"pause", "timewait"} /\ Steps[i].restores => MayPass(at)
  <1>1. at \in Reached
    BY ReachedLeads
  <1>2. Steps[i].kind \in {"pause", "timewait"} => at \in Rests(i, Noticed)
    BY DEF Rests
  <1>3. CASE Steps[i].kind \notin {"pause", "timewait"} /\ Steps[i].restores /\ at \in DOMAIN Steps
    <2>1. at \in PassesOver(i, Noticed)
      BY <1>3 DEF PassesOver
    <2>2. at + 1 \in Rests(i, Noticed)
      BY <2>1 DEF Rests
    <2> QED BY <1>1, <1>2, <2>1, <2>2, ReachedLeads, ReachedMarks DEF MayRest, MayPass
  <1> QED BY <1>1, <1>2, <1>3, ReachedLeads DEF MayRest, MayPass

LEMMA DestinationsAreOnto ==
    ASSUME NEW i \in DOMAIN Steps, NEW back \in Noticed, Steps[i].kind \notin {"label", "recv", "recvCmd"},
           Steps[i].kind = "timewait" => Jumps(i)
    PROVE  Destinations(i, back) \subseteq Onto(i, Noticed)
  BY DEF Onto

\* A receive that leaves the call waiting.
LEMMA WaitsRest ==
    ASSUME Resolved, NEW i \in Reached \cap DOMAIN Steps, Steps[i].kind = "recv", Unset(i),
           NEW back \in Noticed, NEW target \in Targets(i, back)
    PROVE  MayRest(WaitAfterJump(target)) /\ MessageIndex(WaitAfterJump(target)) \in Noticed
  <1>1. WaitAfterJump(target) \in WaitsOn(i, Noticed)
    BY DEF WaitsOn
  <1>2. WaitAfterJump(target) \in Rests(i, Noticed)
    BY <1>1 DEF Rests
  <1> QED BY <1>1, <1>2, ReachedLeads, ReachedMarks DEF MayRest

\* A message that matches ahead: the receive is reached, and where the call waits
\* is where such receives are waited for, but for labels it has to pass.
LEMMA WindowIsReached ==
    ASSUME Resolved, NEW i \in Reached \cap DOMAIN Steps,
           NEW j \in Window(Steps, i), Steps[j].kind = "recv"
    PROVE  j \in Reached /\ MayRest(i) /\ MessageIndex(i) \in Noticed
  <1> DEFINE T == {k \in i..j : k \notin Reached \/ Steps[k].kind # "label"}
  <1>1. /\ Len(Steps) \in Nat /\ DOMAIN Steps = 1..Len(Steps) /\ i \in 1..Len(Steps)
        /\ j \in i..Len(Steps) /\ \A h \in i..j - 1 : Skippable(Steps[h])
    BY StepsAreTyped DEF Window
  <1>2. T \in SUBSET Nat /\ j \in T
    BY <1>1
  <1>3. PICK k \in T : \A h \in T : k <= h
    <2> HIDE DEF T
    <2> QED BY <1>2, LeastNatural
  <1>4. k \in i..j /\ k \in DOMAIN Steps /\ (k \notin Reached \/ Steps[k].kind # "label")
    BY <1>1, <1>3
  <1>5. \A h \in i..k - 1 : h \in Reached /\ Steps[h].kind = "label"
    <2> SUFFICES ASSUME NEW h \in i..k - 1 PROVE h \in Reached /\ Steps[h].kind = "label"
      OBVIOUS
    <2>1. h \in i..j /\ ~(k <= h)
      BY <1>1, <1>4
    <2>2. h \notin T
      BY <1>3, <2>1
    <2> QED BY <2>1, <2>2
  <1>6. k \in Reached
    <2>1. CASE k = i
      BY <2>1
    <2>2. CASE k # i
      <3>1. k - 1 \in i..k - 1 /\ k - 1 \in DOMAIN Steps /\ (k - 1) + 1 = k
        BY <1>1, <1>4, <2>2
      <3>2. k - 1 \in Reached /\ Steps[k - 1].kind = "label"
        BY <1>5, <3>1
      <3>3. k \in Onto(k - 1, Noticed)
        BY <3>1, <3>2 DEF Onto
      <3> QED BY <3>1, <3>2, <3>3, ReachedLeads
    <2> QED BY <2>1, <2>2
  <1>7. Steps[k].kind \in {"recv", "recvCmd"}
    <2>1. k = j \/ k \in i..j - 1
      BY <1>1, <1>4
    <2>2. k \in i..j - 1 => Skippable(Steps[k])
      BY <1>1
    <2> QED BY <1>4, <1>6, <2>1, <2>2 DEF Skippable
  <1>8. Answers(k) \subseteq Reached /\ MessageIndex(k) \in Noticed
    BY <1>4, <1>6, <1>7, ReachedLeads, ReachedMarks
  <1>9. j \in Reached
    <2>1. j \in k..Len(Steps) /\ \A h \in k..j - 1 : h \in i..j - 1
      BY <1>1, <1>4
    <2>2. j \in Window(Steps, k)
      BY <1>1, <2>1 DEF Window
    <2> QED BY <1>8, <2>2 DEF Answers
  <1>10. TakesCmd(i) \subseteq Reached
    <2> SUFFICES ASSUME NEW x \in TakesCmd(i) PROVE x \in Reached
      OBVIOUS
    <2>1. x \in i..Len(Steps) /\ Steps[x].kind = "recvCmd" /\ \A h \in i..x - 1 : CmdSkips(Steps[h])
      BY DEF TakesCmd
    <2>2. x \notin i..k - 1
      BY <1>5, <2>1
    <2>3. x \in k..Len(Steps) /\ \A h \in k..x - 1 : h \in i..x - 1
      BY <1>1, <1>4, <2>1, <2>2
    <2>4. x \in TakesCmd(k)
      BY <2>1, <2>3 DEF TakesCmd
    <2> QED BY <1>8, <2>4 DEF Answers
  <1>11. MessageIndex(i) = MessageIndex(k)
    <2>1. \A h \in 1..k - 1 : h \in 1..i - 1 \/ h \in i..k - 1
      BY <1>1, <1>4
    <2>2. \A h \in 1..i - 1 : h \in 1..k - 1
      BY <1>1, <1>4
    <2>3. \A h \in i..k - 1 : ~IsMessage(h)
      BY <1>5 DEF IsMessage
    <2>4. MessagesBefore(i) = MessagesBefore(k)
      BY <2>1, <2>2, <2>3 DEF MessagesBefore
    <2> QED BY <2>4 DEF MessageIndex
  <1> QED BY <1>8, <1>9, <1>10, <1>11 DEF MayRest
-----------------------------------------------------------------------------
(* What the lints claim.  The steps the lint finds are closed under its own *)
(* idea of where a step leads; in a scenario it foresees, that takes in all *)
(* that the engine makes of the steps among them.                           *)

LintFirst == {1} \cup ({Handler} \ {0})
LintWider(s) == s \cup UNION {Successors(i) : i \in s \cap DOMAIN Steps}
LintClosed(s) == LintWider(s) = s

\* The lint looks for the message before a label as the engine does.
LEMMA BeforeIsMessageBefore ==
    ASSUME Resolved, NEW dest \in 1..End
    PROVE  Before(dest) = MessageBefore(dest) /\ Before(dest) \in 0..Len(Steps)
  <1>1. {j \in 1..dest - 1 : Steps[j].kind # "label"} = MessagesBefore(dest)
    <2>1. \A j \in 1..dest - 1 : j <= Len(Steps)
      BY StepsAreTyped
    <2> QED BY <2>1 DEF MessagesBefore, IsMessage
  <1> QED BY <1>1, MessagesBeforeLand DEF Before, MessageBefore

LEMMA LandingsAreAfterJump ==
    ASSUME Resolved, NEW step, NEW dest \in 1..End
    PROVE  /\ step.kind # "recv" => JumpLanding(step, dest) = AfterJump(dest)
           /\ step.kind = "recv" => JumpLanding(step, dest) = {WaitAfterJump(dest)}
           /\ JumpLanding(step, dest) \subseteq 1..End
  <1>1. Before(dest) = MessageBefore(dest) /\ Before(dest) \in 0..Len(Steps)
    BY BeforeIsMessageBefore
  <1>2. step.kind # "recv" => JumpLanding(step, dest) = AfterJump(dest)
    BY <1>1 DEF JumpLanding, AfterJump, Branches, Conditional
  <1>3. step.kind = "recv" => JumpLanding(step, dest) = {WaitAfterJump(dest)}
    BY <1>1 DEF JumpLanding, WaitAfterJump
  <1>4. AfterJump(dest) \subseteq 1..End /\ WaitAfterJump(dest) \in 1..End
    BY AfterJumpLands, WaitAfterJumpLands, StepsAreTyped
  <1> QED BY <1>2, <1>3, <1>4

LEMMA SuccessorsLand ==
    ASSUME Resolved, NEW i \in DOMAIN Steps
    PROVE  Successors(i) \subseteq 1..End
  <1>1. /\ i + 1 \in 1..End
        /\ {Steps[i].next, Steps[i].ontimeout, Steps[i].jump} \ {0} \subseteq 1..End
    BY StepsAreTyped
  <1>2. Steps[i].jump # 0 => JumpLanding(Steps[i], Steps[i].jump) \subseteq 1..End
    BY <1>1, LandingsAreAfterJump
  <1>3. FallsThrough(i) \subseteq 1..End /\ Timeouts(Steps[i]) \subseteq 1..End
    BY <1>1 DEF FallsThrough, Timeouts
  <1> QED BY <1>1, <1>2, <1>3 DEF Successors

LEMMA LintWiderLands ==
    ASSUME Resolved, NEW s \in SUBSET (1..End)
    PROVE  LintWider(s) \in SUBSET (1..End) /\ s \subseteq LintWider(s)
  BY SuccessorsLand DEF LintWider

LEMMA NearGrows ==
    ASSUME Resolved
    PROVE  /\ Near[0] = LintFirst
           /\ \A n \in Nat : Near[n] \in SUBSET (1..End) /\ Near[n + 1] = LintWider(Near[n])
  <1> DEFINE D == SUBSET (1..End)
             F == [s \in D |-> LintWider(s)]
             next(w, n) == IF n = 0 THEN LintFirst ELSE LintWider(w[n - 1])
             Solves(w) == w = [n \in Nat |-> next(w, n)]
  <1>1. LintFirst \in D
    BY StepsAreTyped DEF LintFirst, Resolved
  <1>2. \A s \in D : F[s] = LintWider(s) /\ F[s] \in D
    BY LintWiderLands
  <1>3. PICK v : Iteration(v, D, F, LintFirst)
    <2> HIDE DEF D, F, next, Solves
    <2> QED BY <1>1, <1>2, IterationExists
  <1>4. \A n \in Nat : v[n] = next(v, n)
    <2>1. ASSUME NEW n \in Nat, n # 0 PROVE v[n] = LintWider(v[n - 1])
      <3>1. n - 1 \in Nat /\ v[n - 1] \in D
        BY <1>3, <2>1 DEF Iteration
      <3> HIDE DEF D, F
      <3> QED BY <1>2, <1>3, <2>1, <3>1 DEF Iteration
    <2> QED BY <1>3, <2>1 DEF Iteration
  <1>5. Solves(v)
    <2>1. v = [n \in Nat |-> v[n]]
      BY <1>3 DEF Iteration
    <2> QED BY <1>4, <2>1
  <1>6. Near = CHOOSE w : Solves(w)
    BY DEF Near, LintFirst, LintWider
  <1>7. Solves(Near)
    <2> HIDE DEF Solves
    <2> QED BY <1>5, <1>6
  <1>8. \A n \in Nat : Near[n] = next(Near, n)
    BY <1>7
  <1>9. \A n \in Nat : n + 1 \in Nat /\ n + 1 # 0 /\ (n + 1) - 1 = n
    OBVIOUS
  <1>10. Near[0] = LintFirst /\ \A n \in Nat : Near[n + 1] = LintWider(Near[n])
    BY <1>8, <1>9
  <1>11. \A n \in Nat : Near[n] \in D
    <2> DEFINE T == {n \in Nat : Near[n] \notin D}
    <2>1. SUFFICES ASSUME T # {} PROVE FALSE
      OBVIOUS
    <2>2. PICK n \in T : \A k \in T : n <= k
      <3>1. T \in SUBSET Nat
        OBVIOUS
      <3> HIDE DEF T
      <3> QED BY <2>1, <3>1, LeastNatural
    <2>3. n \in Nat /\ Near[n] \notin D
      BY <2>2
    <2>4. n # 0
      BY <1>1, <1>10, <2>3
    <2>5. n - 1 \in Nat /\ ~(n <= n - 1) /\ (n - 1) + 1 = n
      BY <2>3, <2>4
    <2>6. Near[n - 1] \in D
      BY <2>2, <2>5
    <2>7. Near[(n - 1) + 1] = LintWider(Near[n - 1])
      BY <1>10, <2>5
    <2> QED BY <2>3, <2>5, <2>6, <2>7, LintWiderLands
  <1> QED BY <1>10, <1>11

\* Until they are closed, n moves find n steps more: there are no more after as
\* many as there are steps.
LEMMA NearCounts ==
    ASSUME Resolved
    PROVE  \A n \in Nat : LintClosed(Near[n]) \/ Cardinality(Near[n]) >= n + 1
  <1> DEFINE T == {n \in Nat : ~(LintClosed(Near[n]) \/ Cardinality(Near[n]) >= n + 1)}
  <1>0. /\ IsFiniteSet(1..End)
        /\ \A s \in SUBSET (1..End) : IsFiniteSet(s) /\ Cardinality(s) \in Nat
    <2>1. IsFiniteSet(1..End)
      BY StepsAreTyped, FS_Interval
    <2>2. ASSUME NEW s \in SUBSET (1..End) PROVE IsFiniteSet(s) /\ Cardinality(s) \in Nat
      BY <2>1, <2>2, FS_Subset, FS_CardinalityType
    <2> QED BY <2>1, <2>2
  <1>1. SUFFICES ASSUME T # {} PROVE FALSE
    OBVIOUS
  <1>2. PICK n \in T : \A k \in T : n <= k
    <2>1. T \in SUBSET Nat
      OBVIOUS
    <2> HIDE DEF T
    <2> QED BY <1>1, <2>1, LeastNatural
  <1>3. n \in Nat /\ ~LintClosed(Near[n]) /\ ~(Cardinality(Near[n]) >= n + 1)
    BY <1>2
  <1>4. n # 0
    <2>1. Near[0] = LintFirst /\ LintFirst \in SUBSET (1..End) /\ 1 \in LintFirst
      <3>1. Near[0] = LintFirst /\ Near[0] \in SUBSET (1..End)
        BY NearGrows
      <3> QED BY <3>1 DEF LintFirst
    <2>2. Cardinality(LintFirst) # 0 /\ Cardinality(LintFirst) \in Nat
      BY <1>0, <2>1, FS_EmptySet
    <2> QED BY <1>3, <2>1, <2>2
  <1>5. n - 1 \in Nat /\ ~(n <= n - 1) /\ (n - 1) + 1 = n
    BY <1>3, <1>4
  <1> DEFINE s == Near[n - 1]
  <1>6. s \in SUBSET (1..End) /\ Near[n] = LintWider(s)
    <2>1. Near[(n - 1) + 1] = LintWider(s) /\ s \in SUBSET (1..End)
      BY <1>5, NearGrows
    <2> QED BY <1>5, <2>1
  <1>7. LintClosed(s) \/ Cardinality(s) >= n
    <2>1. LintClosed(s) \/ Cardinality(s) >= (n - 1) + 1
      BY <1>2, <1>5
    <2> QED BY <1>5, <2>1
  <1> HIDE DEF s
  <1>8. ~LintClosed(s)
    BY <1>3, <1>6 DEF LintClosed
  <1> DEFINE t == LintWider(s)
  <1>9. t \in SUBSET (1..End) /\ s \in SUBSET t /\ t # s
    BY <1>6, <1>8, LintWiderLands DEF LintClosed
  <1> HIDE DEF t
  <1>10. Cardinality(s) < Cardinality(t) /\ Cardinality(s) \in Nat /\ Cardinality(t) \in Nat
    <2>1. IsFiniteSet(t) /\ Cardinality(s) \in Nat /\ Cardinality(t) \in Nat
      BY <1>0, <1>6, <1>9
    <2>2. Cardinality(s) <= Cardinality(t) /\ (Cardinality(s) = Cardinality(t) => s = t)
      BY <1>9, <2>1, FS_Subset
    <2> QED BY <1>9, <2>1, <2>2
  <1>11. ~(Cardinality(t) >= n + 1)
    BY <1>3, <1>6 DEF t
  <1> QED BY <1>3, <1>7, <1>8, <1>10, <1>11

LEMMA FoundIsClosed ==
    ASSUME Resolved
    PROVE  /\ Found \subseteq 1..End /\ 1 \in Found /\ (Handler # 0 => Handler \in Found)
           /\ \A i \in Found \cap DOMAIN Steps : Successors(i) \subseteq Found
  <1>1. Len(Steps) \in Nat /\ End = Len(Steps) + 1
    BY StepsAreTyped
  <1>2. Found = Near[Len(Steps)] /\ Found \in SUBSET (1..End)
    BY <1>1, NearGrows DEF Found
  <1>3. LintClosed(Found)
    <2>1. CASE Cardinality(Found) >= End
      <3>1. IsFiniteSet(1..End) /\ Cardinality(1..End) = End
        BY <1>1, FS_Interval
      <3>2. Cardinality(Found) <= End /\ (Cardinality(Found) = End => Found = 1..End)
            /\ Cardinality(Found) \in Nat
        BY <1>2, <3>1, FS_Subset, FS_CardinalityType
      <3>3. Found = 1..End
        BY <1>1, <2>1, <3>2
      <3> QED BY <3>3, LintWiderLands DEF LintClosed
    <2> QED BY <1>1, <1>2, <2>1, NearCounts
  <1>4. \A n \in Nat : LintFirst \subseteq Near[n]
    <2> DEFINE T == {n \in Nat : ~(LintFirst \subseteq Near[n])}
    <2>1. SUFFICES ASSUME T # {} PROVE FALSE
      OBVIOUS
    <2>2. PICK n \in T : \A k \in T : n <= k
      <3>1. T \in SUBSET Nat
        OBVIOUS
      <3> HIDE DEF T
      <3> QED BY <2>1, <3>1, LeastNatural
    <2>3. n \in Nat /\ n # 0
      BY <2>2, NearGrows
    <2>4. n - 1 \in Nat /\ ~(n <= n - 1) /\ (n - 1) + 1 = n
      BY <2>3
    <2>5. LintFirst \subseteq Near[n - 1]
      BY <2>2, <2>4
    <2>6. Near[(n - 1) + 1] = LintWider(Near[n - 1])
      BY <2>4, NearGrows
    <2> QED BY <2>2, <2>4, <2>5, <2>6 DEF LintWider
  <1>5. 1 \in Found /\ (Handler # 0 => Handler \in Found)
    BY <1>1, <1>2, <1>4 DEF LintFirst
  <1> QED BY <1>2, <1>3, <1>5 DEF LintClosed, LintWider
\* A scenario the lint can say something of.
Judged == Resolved /\ Foreseen /\ ~Unknowable

\* What may be passed over on the way to a step leads on to the next one.
LEMMA PassedLeadOn ==
    ASSUME Resolved, NEW i \in Found \cap DOMAIN Steps,
           \/ Skippable(Steps[i])
           \/ CmdSkips(Steps[i]) /\ (Steps[i].kind = "nop" => ~AlwaysJumps(Steps[i]))
    PROVE  i + 1 \in Found
  <1>1. Steps[i].kind = "label" => i + 1 \in Successors(i)
    BY DEF Successors
  <1>2. Steps[i].kind \in {"recv", "recvCmd"} /\ Steps[i].optional => i + 1 \in Successors(i)
    BY DEF Successors, FallsThrough, IsOptional, IsReceive
  <1>3. Steps[i].kind = "nop" /\ ~AlwaysJumps(Steps[i]) => i + 1 \in Successors(i)
    BY DEF Successors, FallsThrough
  <1> QED BY <1>1, <1>2, <1>3, FoundIsClosed DEF Skippable, CmdSkips

\* So a way on from a step the lint finds stays among those it finds.
LEMMA WaysAreFound ==
    ASSUME Resolved, NEW i \in Found, NEW k \in i..End,
           \A j \in i..k - 1 : j \in Found => j + 1 \in Found
    PROVE  k \in Found
  <1> DEFINE T == {j \in i..k : j \notin Found}
  <1>0. End \in Nat /\ i \in Nat
    BY FoundIsClosed, StepsAreTyped
  <1>1. SUFFICES ASSUME T # {} PROVE FALSE
    BY <1>0
  <1>2. PICK j \in T : \A h \in T : j <= h
    <2>1. T \in SUBSET Nat
      BY <1>0
    <2> HIDE DEF T
    <2> QED BY <1>1, <2>1, LeastNatural
  <1>3. j \in i..k /\ j \notin Found /\ j # i
    BY <1>2
  <1>4. j - 1 \in i..k - 1 /\ (j - 1) + 1 = j /\ ~(j <= j - 1) /\ j - 1 \in i..k
    BY <1>0, <1>3
  <1>5. j - 1 \in Found
    BY <1>2, <1>4
  <1> QED BY <1>3, <1>4, <1>5

LEMMA WindowIsFound ==
    ASSUME Resolved, NEW i \in Found
    PROVE  Window(Steps, i) \subseteq Found
  <1> SUFFICES ASSUME NEW k \in Window(Steps, i) PROVE k \in Found
    OBVIOUS
  <1>1. k \in i..Len(Steps) /\ \A j \in i..k - 1 : Skippable(Steps[j])
    BY DEF Window
  <1>2. \A j \in i..k - 1 : j \in DOMAIN Steps
    BY <1>1, FoundIsClosed, StepsAreTyped
  <1>3. k \in i..End
    BY <1>1, StepsAreTyped
  <1> QED BY <1>1, <1>2, <1>3, PassedLeadOn, WaysAreFound

LEMMA TakersAreFound ==
    ASSUME Judged, NEW i \in Found
    PROVE  TakesCmd(i) \subseteq Found
  <1> SUFFICES ASSUME NEW k \in TakesCmd(i) PROVE k \in Found
    OBVIOUS
  <1>0. Resolved /\ i \in Nat /\ Len(Steps) \in Nat
    BY FoundIsClosed, StepsAreTyped DEF Judged
  <1>1. k \in i..Len(Steps) /\ Steps[k].kind = "recvCmd" /\ \A j \in i..k - 1 : CmdSkips(Steps[j])
    BY DEF TakesCmd
  <1>2. ASSUME NEW j \in i..k - 1, j \in Found PROVE j + 1 \in Found
    <2>1. j \in DOMAIN Steps /\ k \in j..Len(Steps) /\ \A h \in j..k - 1 : h \in i..k - 1
      BY <1>0, <1>1, FoundIsClosed, StepsAreTyped
    <2>2. k \in TakesCmd(j)
      BY <1>1, <2>1 DEF TakesCmd
    <2>3. Steps[j].kind = "nop" => ~AlwaysJumps(Steps[j])
      BY <2>1, <2>2 DEF Judged, Foreseen
    <2> QED BY <1>0, <1>1, <1>2, <2>1, <2>3, PassedLeadOn
  <1>3. k \in i..End
    BY <1>0, <1>1, StepsAreTyped
  <1> QED BY <1>0, <1>2, <1>3, WaysAreFound

\* Who goes on from a step goes where the lint has it go.
LEMMA NextStepsAreFound ==
    ASSUME Resolved, NEW i \in Found \cap DOMAIN Steps, Steps[i].kind \notin {"label", "timewait"}
    PROVE  NextSteps(i) \cup MovesOn(i) \cup TimeoutLabels(i) \subseteq Found
  <1>1. /\ FallsThrough(i) \subseteq Successors(i) /\ {Steps[i].next} \ {0} \subseteq Successors(i)
        /\ TimeoutLabels(i) \subseteq Successors(i)
    BY DEF Successors, Timeouts, TimeoutLabels
  <1>2. NextSteps(i) \subseteq Successors(i)
    BY <1>1 DEF NextSteps, Branches, Conditional, FallsThrough, AlwaysJumps
  <1>3. Unset(i) => {Steps[i].next} \cup (IF Steps[i].chance THEN {i + 1} ELSE {}) \subseteq Successors(i)
    BY <1>1 DEF Unset, Branches, FallsThrough, AlwaysJumps
  <1> QED BY <1>1, <1>2, <1>3, FoundIsClosed DEF MovesOn

\* A message index leads to the first message from where it was taken.
LEMMA StepOfMessageIsNext ==
    ASSUME Resolved, NEW j \in 1..End, NEW i \in j..End, i = End \/ IsMessage(i),
           \A k \in j..i - 1 : ~IsMessage(k)
    PROVE  StepOfMessage(MessageIndex(j)) = i
  <1> DEFINE P(k) == k \in 1..End /\ MessageIndex(k) = MessageIndex(j) /\ (k = End \/ IsMessage(k))
  <1>1. Len(Steps) \in Nat /\ End = Len(Steps) + 1
    BY StepsAreTyped
  <1>2. P(i)
    <2>1. \A k : k \in 1..i - 1 => k \in 1..j - 1 \/ k \in j..i - 1
      BY <1>1
    <2>2. \A k : k \in 1..j - 1 => k \in 1..i - 1
      BY <1>1
    <2>3. MessagesBefore(i) = MessagesBefore(j)
      BY <2>1, <2>2 DEF MessagesBefore
    <2> QED BY <1>1, <2>3 DEF MessageIndex
  <1>3. ASSUME NEW k \in 1..End, NEW h \in 1..End, k < h, IsMessage(k)
        PROVE  MessageIndex(k) # MessageIndex(h)
    <2>1. k \in MessagesBefore(h) /\ k \notin MessagesBefore(k)
      BY <1>1, <1>3 DEF MessagesBefore
    <2>2. MessagesBefore(k) \in SUBSET MessagesBefore(h)
      BY <1>1, <1>3 DEF MessagesBefore
    <2>3. IsFiniteSet(MessagesBefore(h))
      <3>1. IsFiniteSet(1..Len(Steps))
        BY <1>1, FS_Interval
      <3>2. MessagesBefore(h) \in SUBSET (1..Len(Steps))
        BY DEF MessagesBefore
      <3> QED BY <3>1, <3>2, FS_Subset
    <2>4. Cardinality(MessagesBefore(k)) = Cardinality(MessagesBefore(h)) => MessagesBefore(k) = MessagesBefore(h)
      BY <2>2, <2>3, FS_Subset
    <2> QED BY <2>1, <2>4 DEF MessageIndex
  <1>4. \A k : P(k) => k = i
    <2> SUFFICES ASSUME NEW k, P(k), k # i PROVE FALSE
      OBVIOUS
    <2>1. k \in 1..End /\ i \in 1..End /\ MessageIndex(k) = MessageIndex(i)
      BY <1>2
    <2>2. k < i => IsMessage(k)
      BY <1>1, <2>1
    <2>3. i < k => IsMessage(i)
      BY <1>1, <2>1
    <2>4. k < i \/ i < k
      BY <1>1, <2>1
    <2> QED BY <1>3, <2>1, <2>2, <2>3, <2>4
  <1>5. StepOfMessage(MessageIndex(j)) = CHOOSE k : P(k)
    BY DEF StepOfMessage
  <1> HIDE DEF P
  <1> QED BY <1>2, <1>4, <1>5

\* The steps that are found, and the end of the scenario.
FoundOrEnd == Found \cup {End}
FoundNoted == {MessageIndex(j) : j \in FoundOrEnd}

LEMMA LiveLands ==
    ASSUME Resolved
    PROVE  FoundOrEnd \subseteq 1..End /\ FoundNoted \subseteq Noted /\ FoundOrEnd \cap DOMAIN Steps = Found \cap DOMAIN Steps
  <1>1. End \in 1..End /\ End \notin DOMAIN Steps
    BY StepsAreTyped
  <1> QED BY <1>1, FoundIsClosed DEF FoundOrEnd, FoundNoted, Noted

\* Who comes back to a message comes back to one that is found.
LEMMA ReturnsAreLive ==
    ASSUME Resolved, NEW j \in FoundOrEnd
    PROVE  StepOfMessage(MessageIndex(j)) \in FoundOrEnd
  <1> DEFINE S == {i \in 1..End : i >= j /\ (i = End \/ IsMessage(i))}
  <1>1. Len(Steps) \in Nat /\ End = Len(Steps) + 1 /\ j \in 1..End
    BY StepsAreTyped, LiveLands
  <1>2. End \in S /\ S \in SUBSET Nat
    BY <1>1
  <1>3. PICK i \in S : \A k \in S : i <= k
    <2> HIDE DEF S
    <2> QED BY <1>2, LeastNatural
  <1>4. \A k \in j..i - 1 : ~IsMessage(k)
    <2> SUFFICES ASSUME NEW k \in j..i - 1, IsMessage(k) PROVE FALSE
      OBVIOUS
    <2>1. k \in S /\ ~(i <= k)
      BY <1>1, <1>3
    <2> QED BY <1>3, <2>1
  <1>5. i \in j..End /\ (i = End \/ IsMessage(i))
    BY <1>1, <1>3
  <1>6. StepOfMessage(MessageIndex(j)) = i
    BY <1>1, <1>4, <1>5, StepOfMessageIsNext
  <1>7. CASE j \in Found
    <2>1. ASSUME NEW k \in j..i - 1, k \in Found PROVE k + 1 \in Found
      <3>1. k \in DOMAIN Steps /\ Steps[k].kind = "label"
        BY <1>1, <1>4, <1>5, <2>1, StepsAreTyped DEF IsMessage
      <3> QED BY <2>1, <3>1, PassedLeadOn DEF Skippable
    <2>2. i \in Found
      BY <1>5, <1>7, <2>1, WaysAreFound
    <2> QED BY <1>6, <2>2 DEF FoundOrEnd
  <1>8. CASE j = End
    <2>1. i = End
      BY <1>1, <1>5, <1>8
    <2> QED BY <1>6, <2>1 DEF FoundOrEnd
  <1> QED BY <1>7, <1>8 DEF FoundOrEnd

LEMMA TakersAreLive ==
    ASSUME Judged, NEW i \in FoundOrEnd
    PROVE  TakesCmd(i) \subseteq Found
  <1>1. TakesCmd(End) = {}
    BY StepsAreTyped DEF Judged, TakesCmd
  <1> QED BY <1>1, TakersAreFound DEF FoundOrEnd

LEMMA DestinationsAreLive ==
    ASSUME Judged, NEW i \in Found \cap DOMAIN Steps,
           Steps[i].kind \notin {"label", "recv", "recvCmd"}, Steps[i].kind = "timewait" => Jumps(i),
           NEW back \in FoundNoted
    PROVE  Destinations(i, back) \subseteq FoundOrEnd
  <1>0. Resolved /\ Successors(i) \subseteq Found
    BY FoundIsClosed DEF Judged
  <1>1. CASE ~Jumps(i)
    <2>1. NextSteps(i) \subseteq Found
      BY <1>0, <1>1, NextStepsAreFound
    <2> QED BY <1>1, <2>1 DEF Destinations, FoundOrEnd
  <1>2. Steps[i].jump # 0 => AfterJump(Steps[i].jump) \subseteq FoundOrEnd
    <2> SUFFICES ASSUME Steps[i].jump # 0 PROVE AfterJump(Steps[i].jump) \subseteq FoundOrEnd
      OBVIOUS
    <2>1. Steps[i].jump \in 1..End
      BY <1>0, StepsAreTyped
    <2>2. JumpLanding(Steps[i], Steps[i].jump) = AfterJump(Steps[i].jump)
      BY <1>0, <2>1, LandingsAreAfterJump
    <2>3. JumpLanding(Steps[i], Steps[i].jump) \subseteq Successors(i)
      BY DEF Successors, JumpTakesEffect
    <2> QED BY <1>0, <2>2, <2>3 DEF FoundOrEnd
  <1>3. Steps[i].returns => AfterJump(StepOfMessage(back)) \subseteq FoundOrEnd
    <2> SUFFICES ASSUME Steps[i].returns PROVE AfterJump(StepOfMessage(back)) \subseteq FoundOrEnd
      OBVIOUS
    <2> DEFINE target == StepOfMessage(back)
    <2>1. target \in FoundOrEnd /\ target \in 1..End
      BY <1>0, ReturnsAreLive, LiveLands DEF FoundNoted
    <2>2. ASSUME NEW b \in DOMAIN Steps, Steps[b].next # 0 PROVE Steps[b].next \in FoundOrEnd
      <3>1. Steps[b].next \in DOMAIN Steps \/ Steps[b].next = End
        BY <1>0, <2>2, StepsAreTyped
      <3>2. Steps[b].next \notin Dead
        BY DEF Judged, Foreseen
      <3> QED BY <3>1, <3>2 DEF Judged, Dead, FoundOrEnd
    <2>3. MessageBefore(target) # 0 => MessageBefore(target) \in DOMAIN Steps
      BY <1>0, <2>1, MessagesBeforeLand, StepsAreTyped
    <2> HIDE DEF target
    <2>4. AfterJump(target) \subseteq FoundOrEnd
      BY <2>1, <2>2, <2>3 DEF AfterJump, Branches
    <2> QED BY <2>4 DEF target
  <1>4. CASE Jumps(i)
    BY <1>2, <1>3, <1>4 DEF Destinations, Targets
  <1> QED BY <1>1, <1>4

LEMMA OntoIsLive ==
    ASSUME Judged, NEW i \in Found \cap DOMAIN Steps, NEW backs \in SUBSET FoundNoted
    PROVE  /\ Onto(i, backs) \subseteq FoundOrEnd /\ WaitsOn(i, backs) \subseteq FoundOrEnd
           /\ PassesOver(i, backs) = {}
  <1>0. Resolved /\ Successors(i) \subseteq Found
    BY FoundIsClosed DEF Judged
  <1>1. Steps[i].kind = "label" => i + 1 \in FoundOrEnd
    BY <1>0 DEF Successors, FoundOrEnd
  <1>2. Steps[i].kind \in {"recv", "recvCmd"} => MovesOn(i) \subseteq FoundOrEnd /\ NextSteps(i) \subseteq FoundOrEnd
    BY <1>0, NextStepsAreFound DEF FoundOrEnd
  <1>3. Steps[i].kind \notin {"label", "recv", "recvCmd"} /\ (Steps[i].kind = "timewait" => Jumps(i))
            => \A back \in backs : Destinations(i, back) \subseteq FoundOrEnd
    BY DestinationsAreLive
  <1>4. Onto(i, backs) \subseteq FoundOrEnd
    BY <1>1, <1>2, <1>3 DEF Onto
  <1>5. WaitsOn(i, backs) \subseteq FoundOrEnd
    <2> SUFFICES ASSUME Steps[i].kind = "recv", Unset(i), NEW back \in backs, NEW target \in Targets(i, back)
                 PROVE  WaitAfterJump(target) \in FoundOrEnd
      BY DEF WaitsOn
    <2>1. ~Steps[i].returns
      BY DEF Judged, Foreseen
    <2>2. target = Steps[i].jump /\ Steps[i].jump # 0
      BY <2>1 DEF Targets
    <2>3. JumpLanding(Steps[i], target) \subseteq Successors(i)
      BY <2>2 DEF Successors, JumpTakesEffect, Unset, Branches
    <2>4. target \in 1..End
      BY <1>0, <2>2, StepsAreTyped
    <2>5. JumpLanding(Steps[i], target) = {WaitAfterJump(target)}
      BY <1>0, <2>4, LandingsAreAfterJump
    <2> QED BY <1>0, <2>3, <2>5 DEF FoundOrEnd
  <1>6. PassesOver(i, backs) = {}
    BY DEF Judged, Foreseen, PassesOver
  <1> QED BY <1>4, <1>5, <1>6

LEMMA LeadsAreLive ==
    ASSUME Judged, NEW i \in Found \cap DOMAIN Steps, NEW backs \in SUBSET FoundNoted
    PROVE  Leads(i, backs) \subseteq FoundOrEnd /\ Marks(i, backs) \subseteq FoundNoted
  <1>0. Resolved /\ Successors(i) \subseteq Found /\ Found \subseteq FoundOrEnd /\ DOMAIN Steps = 1..Len(Steps)
    BY FoundIsClosed, StepsAreTyped DEF Judged, FoundOrEnd
  <1>1. /\ Onto(i, backs) \subseteq FoundOrEnd /\ WaitsOn(i, backs) \subseteq FoundOrEnd
        /\ PassesOver(i, backs) = {}
    BY OntoIsLive
  <1>2. ~Anywhere(i)
    BY DEF Judged, Foreseen, Unknowable, Anywhere, JumpTakesEffect, Unset, Branches
  <1>3. Rests(i, backs) \subseteq FoundOrEnd
    BY <1>1 DEF Rests
  <1>4. \A j \in Rests(i, backs) : TakesCmd(j) \subseteq FoundOrEnd
    BY <1>0, <1>3, TakersAreLive
  <1>5. Steps[i].cond => i + 1 \in FoundOrEnd
    <2>1. Steps[i].kind = "timewait" => ~Steps[i].cond
      BY DEF Judged, Foreseen
    <2> QED BY <1>0, <2>1 DEF Successors, FallsThrough, AlwaysJumps
  <1>6. Steps[i].kind \in {"recv", "recvCmd"} => Answers(i) \subseteq FoundOrEnd
    BY <1>0, WindowIsFound, TakersAreFound DEF Answers
  <1>7. Steps[i].kind = "timewait" => TakesCmd(i + 1) = {}
    BY DEF Judged, Foreseen
  <1>8. TimeoutLabels(i) \subseteq FoundOrEnd
    BY <1>0, NextStepsAreFound DEF TimeoutLabels
  <1>9. Leads(i, backs) \subseteq FoundOrEnd
    <2> DEFINE A == UNION {TakesCmd(j) : j \in Rests(i, backs)}
               B == IF Steps[i].cond THEN {i + 1} ELSE {}
               C == IF Steps[i].kind \in {"recv", "recvCmd"} THEN Answers(i) ELSE {}
               D == IF Steps[i].kind = "timewait" THEN TakesCmd(i + 1) ELSE {}
               E == IF Anywhere(i) THEN 1..End ELSE {}
    <2>1. Leads(i, backs) = Onto(i, backs) \cup Rests(i, backs) \cup A \cup B \cup C \cup D
                               \cup TimeoutLabels(i) \cup E
      BY DEF Leads
    <2>2. A \subseteq FoundOrEnd /\ B \subseteq FoundOrEnd /\ C \subseteq FoundOrEnd /\ D \subseteq FoundOrEnd /\ E = {}
      BY <1>2, <1>4, <1>5, <1>6, <1>7
    <2> HIDE DEF A, B, C, D, E
    <2> QED BY <1>1, <1>3, <1>8, <2>1, <2>2
  <1>10. Marks(i, backs) \subseteq FoundNoted
    BY <1>0, <1>1, <1>2 DEF Marks, FoundNoted
  <1> QED BY <1>9, <1>10

LEMMA WithinIsLive ==
    ASSUME Judged
    PROVE  \A n \in Nat : Within[n].at \subseteq FoundOrEnd /\ Within[n].backs \subseteq FoundNoted
  <1> DEFINE I(w) == w.at \subseteq FoundOrEnd /\ w.backs \subseteq FoundNoted
             T == {n \in Nat : ~I(Within[n])}
  <1>0. Resolved
    BY DEF Judged
  <1>1. SUFFICES ASSUME T # {} PROVE FALSE
    OBVIOUS
  <1>2. PICK n \in T : \A k \in T : n <= k
    <2>1. T \in SUBSET Nat
      OBVIOUS
    <2> HIDE DEF T
    <2> QED BY <1>1, <2>1, LeastNatural
  <1>3. I(First)
    <2>1. First.at \subseteq Found /\ First.backs = {0}
      BY <1>0, FoundIsClosed DEF First
    <2>2. MessagesBefore(1) = {} /\ 1 \in FoundOrEnd
      BY <1>0, FoundIsClosed DEF MessagesBefore, FoundOrEnd
    <2>3. 0 \in FoundNoted
      BY <2>2, FS_EmptySet DEF FoundNoted, MessageIndex
    <2> QED BY <2>1, <2>3 DEF FoundOrEnd
  <1>4. ASSUME NEW w, I(w) PROVE I(Wider(w))
    <2>1. \A i \in w.at \cap DOMAIN Steps : i \in Found \cap DOMAIN Steps
      BY <1>0, <1>4, LiveLands
    <2>2. \A i \in w.at \cap DOMAIN Steps :
             Leads(i, w.backs) \subseteq FoundOrEnd /\ Marks(i, w.backs) \subseteq FoundNoted
      BY <1>4, <2>1, LeadsAreLive
    <2> QED BY <1>4, <2>2 DEF Wider
  <1>5. n \in Nat /\ ~I(Within[n]) /\ n # 0
    <2>1. n \in Nat /\ ~I(Within[n])
      BY <1>2
    <2>2. Within[0] = First
      BY <1>0, WithinGrows
    <2> HIDE DEF I
    <2> QED BY <1>3, <2>1, <2>2
  <1>6. n - 1 \in Nat /\ ~(n <= n - 1) /\ (n - 1) + 1 = n
    BY <1>5
  <1>7. I(Within[n - 1])
    BY <1>2, <1>6
  <1>8. Within[(n - 1) + 1] = Wider(Within[n - 1])
    BY <1>0, <1>6, WithinGrows
  <1> HIDE DEF I
  <1> QED BY <1>4, <1>5, <1>6, <1>7, <1>8
\* The run of optional receives that starts at step i is the window of a call
\* that waits there, up to the step that ends it.
LEMMA RunIsWindow ==
    ASSUME Resolved, NEW i \in DOMAIN Steps
    PROVE  /\ AfterRun(i) \in i..End /\ \A j \in i..AfterRun(i) - 1 : InRun(j)
           /\ AfterRun(i) # End => ~InRun(AfterRun(i))
           /\ Window(Steps, i) = i..(IF AfterRun(i) = End THEN Len(Steps) ELSE AfterRun(i))
  <1> DEFINE S == {j \in i..Len(Steps) : ~InRun(j)} \cup {End}
             a == AfterRun(i)
  <1>0. Len(Steps) \in Nat /\ End = Len(Steps) + 1 /\ i \in 1..Len(Steps) /\ DOMAIN Steps = 1..Len(Steps)
    BY StepsAreTyped
  <1>1. a \in S /\ \A y \in S : a <= y
    <2>1. S \in SUBSET Nat /\ S # {}
      BY <1>0
    <2>2. a = Min(S)
      BY DEF AfterRun
    <2> HIDE DEF S, a
    <2> QED BY <2>1, <2>2, MinExists
  <1> HIDE DEF a
  <1>2. a \in i..End /\ (a # End => ~InRun(a))
    BY <1>0, <1>1
  <1>3. \A j \in i..a - 1 : InRun(j)
    <2> SUFFICES ASSUME NEW j \in i..a - 1, ~InRun(j) PROVE FALSE
      OBVIOUS
    <2>1. j \in S /\ ~(a <= j)
      BY <1>0, <1>2
    <2> QED BY <1>1, <2>1
  <1>4. \A j \in DOMAIN Steps : Skippable(Steps[j]) <=> InRun(j)
    BY DEF Skippable, InRun, IsOptional, IsReceive
  <1>5. \A k \in i..Len(Steps) : (\A j \in i..k - 1 : Skippable(Steps[j])) <=> k <= a
    <2> TAKE k \in i..Len(Steps)
    <2>1. ASSUME k <= a PROVE \A j \in i..k - 1 : Skippable(Steps[j])
      <3>1. \A j \in i..k - 1 : j \in i..a - 1 /\ j \in DOMAIN Steps
        BY <1>0, <1>2, <2>1
      <3> QED BY <1>3, <1>4, <3>1
    <2>2. ASSUME ~(k <= a) PROVE \E j \in i..k - 1 : ~Skippable(Steps[j])
      <3>1. a \in i..k - 1 /\ a \in DOMAIN Steps /\ a # End
        BY <1>0, <1>2, <2>2
      <3> QED BY <1>2, <1>4, <3>1
    <2> QED BY <2>1, <2>2
  <1>6. Window(Steps, i) = {k \in i..Len(Steps) : k <= a}
    BY <1>5 DEF Window
  <1>7. {k \in i..Len(Steps) : k <= a} = i..(IF a = End THEN Len(Steps) ELSE a)
    BY <1>0, <1>2
  <1> QED BY <1>2, <1>3, <1>6, <1>7 DEF a

LEMMA WindowsAreAsNamed == ASSUME Resolved PROVE OptionalsHaveAWindow
  <1> SUFFICES ASSUME NEW i \in RunStarts
               PROVE  LET window == Window(Steps, i)
                          waits == {j \in window : IsReceive(j)}
                          ends == {j \in waits : ~Steps[j].optional}
                          open == Len(Steps) \in window /\ Skippable(Steps[Len(Steps)])
                      IN  ~HoldsTheCall(i) <=>
                              ends # {} \/ (open /\ \A j \in waits : Steps[j].timed /\ Steps[j].kind = "recv")
    BY DEF OptionalsHaveAWindow
  <1> DEFINE window == Window(Steps, i)
             waits == {j \in window : IsReceive(j)}
             ends == {j \in waits : ~Steps[j].optional}
             open == Len(Steps) \in window /\ Skippable(Steps[Len(Steps)])
             a == AfterRun(i)
  <1>0. Len(Steps) \in Nat /\ End = Len(Steps) + 1 /\ i \in 1..Len(Steps) /\ DOMAIN Steps = 1..Len(Steps)
    BY StepsAreTyped DEF RunStarts
  <1>1. /\ a \in i..End /\ (\A j \in i..a - 1 : InRun(j)) /\ (a # End => ~InRun(a))
        /\ window = i..(IF a = End THEN Len(Steps) ELSE a)
    BY <1>0, RunIsWindow
  <1>2. HoldsTheCall(i) = IF a = End THEN ~(\A j \in i..a - 1 : IsOptional(j) => Steps[j].kind = "recv" /\ Steps[j].timed)
                                     ELSE ~IsReceive(a)
    BY DEF HoldsTheCall, AllTimed
  <1>3. \A j \in DOMAIN Steps :
             /\ InRun(j) <=> Skippable(Steps[j])
             /\ InRun(j) => (IsReceive(j) <=> IsOptional(j))
             /\ IsOptional(j) <=> (IsReceive(j) /\ Steps[j].optional)
             /\ InRun(j) \/ ~(IsReceive(j) /\ Steps[j].optional)
    BY DEF InRun, IsOptional, IsReceive, Skippable
  <1> HIDE DEF window, a
  <1>4. CASE a = End
    <2>1. window = i..a - 1 /\ window \subseteq DOMAIN Steps /\ Len(Steps) \in window
      BY <1>0, <1>1, <1>4
    <2>2. ends = {} /\ open
      BY <1>1, <1>3, <2>1
    <2>3. ~HoldsTheCall(i) <=> \A j \in window : IsOptional(j) => Steps[j].kind = "recv" /\ Steps[j].timed
      BY <1>2, <1>4, <2>1
    <2>4. \A j \in window : IsOptional(j) <=> j \in waits
      BY <1>1, <1>3, <2>1
    <2>5. ~HoldsTheCall(i) <=> \A j \in waits : Steps[j].timed /\ Steps[j].kind = "recv"
      BY <2>3, <2>4
    <2> QED BY <2>2, <2>5 DEF window
  <1>5. CASE a # End
    <2>1. a \in window /\ a \in DOMAIN Steps /\ window = i..a /\ \A j \in window : j = a \/ j \in i..a - 1
      BY <1>0, <1>1, <1>5
    <2>2. ends # {} <=> IsReceive(a)
      <3>1. \A j \in i..a - 1 : j \notin ends
        BY <1>0, <1>1, <1>3, <2>1
      <3>2. a \in ends <=> IsReceive(a)
        BY <1>1, <1>3, <1>5, <2>1
      <3> QED BY <2>1, <3>1, <3>2
    <2>3. ~open
      <3>1. Len(Steps) \in window => Len(Steps) = a
        BY <1>0, <1>1, <1>5, <2>1
      <3> QED BY <1>1, <1>3, <1>5, <2>1, <3>1
    <2>4. ~HoldsTheCall(i) <=> IsReceive(a)
      BY <1>2, <1>5
    <2> QED BY <2>2, <2>3, <2>4 DEF window
  <1> QED BY <1>4, <1>5

\* What the lints say of a scenario is what the engine makes of it.  optional-window
\* names just the runs of optional receives whose window, as the scan takes it, no
\* message the call waits for closes.  Where the lint foresees the engine, no message,
\* command, timeout, jump or return brings a call to a step `unreachable` names.
THEOREM LintsTellTheTruth ==
    ASSUME Resolved
    PROVE  OptionalsHaveAWindow /\ (Foreseen => TellTheTruth)
  <1>1. ASSUME Foreseen PROVE DeadStepsNeverRun
    <2>1. CASE Unknowable
      BY <2>1 DEF DeadStepsNeverRun, Dead
    <2>2. CASE ~Unknowable
      <3>1. Reached \subseteq FoundOrEnd
        <4>1. 2 * End \in Nat
          BY StepsAreTyped
        <4> QED BY <1>1, <2>2, <4>1, WithinIsLive DEF Judged, Reached
      <3> QED BY <2>2, <3>1, LiveLands DEF DeadStepsNeverRun, Dead
    <2> QED BY <2>1, <2>2
  <1> QED BY <1>1, WindowsAreAsNamed DEF TellTheTruth
=============================================================================
