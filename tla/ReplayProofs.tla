------------------------------ MODULE ReplayProofs -----------------------------
(***************************************************************************)
(* Proofs about the candidate market replay, for any bars, payloads and    *)
(* number of candidates.                                                   *)
(***************************************************************************)
EXTENDS Replay, FiniteSetTheorems, SequenceTheorems, TLAPS

-----------------------------------------------------------------------------
(* Numbers: the least and the greatest member of a set, induction, folds. *)

\* A finite set of numbers that is not empty has a least member, and Min is it: of the sets
\* of members up to each member, one has none of the others in it.
LEMMA MinOfFinite ==
    ASSUME NEW S \in SUBSET Int, IsFiniteSet(S), S # {}
    PROVE  Min(S) \in S /\ \A y \in S : Min(S) <= y
<1> DEFINE Below(x) == {y \in S : y <= x}
           T == {Below(x) : x \in S}
<1>1. T \subseteq FiniteSubsetsOf(S)
  BY FS_Subset DEF FiniteSubsetsOf
<1>2. PICK B \in T : \A C \in T : <<C, B>> \notin StrictSubsetOrdering(S)
  <2> HIDE DEF T
  <2>1. T # {}
    BY DEF T
  <2> QED
    BY <1>1, <2>1, WFMin, FS_StrictSubsetOrderingWellFounded
<1>3. PICK b \in S : B = Below(b)
  OBVIOUS
<1>4. ASSUME NEW y \in S, ~(b <= y) PROVE FALSE
  <2>1. y \in Int /\ b \in Int /\ y < b /\ \A z \in S : z \in Int
    BY <1>4
  <2>2. Below(y) \subseteq Below(b)
    <3> SUFFICES ASSUME NEW z \in S, z <= y PROVE z <= b
      OBVIOUS
    <3> QED
      BY <2>1
  <2>3. b \in Below(b) /\ b \notin Below(y)
    BY <2>1
  <2>4. Below(y) # Below(b)
    BY <2>3
  <2>5. Below(y) \in SUBSET S /\ Below(b) \in SUBSET S /\ Below(y) \in T
    OBVIOUS
  <2> DEFINE C == Below(y)
  <2>6. /\ C \in T /\ C \in SUBSET S /\ B \in SUBSET S
        /\ C \subseteq B /\ C # B
    BY <2>2, <2>4, <2>5, <1>3
  <2> HIDE DEF C, Below, T
  <2> QED
    BY <2>6, <1>2 DEF StrictSubsetOrdering
<1>5. b \in S /\ \A y \in S : b <= y
  BY <1>4
<1> HIDE DEF Below, T
<1> QED
  BY <1>5 DEF Min

\* The greatest member is the negative of the least of the negatives.
LEMMA MaxOfFinite ==
    ASSUME NEW S \in SUBSET Int, IsFiniteSet(S), S # {}
    PROVE  Max(S) \in S /\ \A y \in S : y <= Max(S)
<1> DEFINE Mirror == {-x : x \in S}
           f == [x \in S |-> -x]
<1>1. Mirror \in SUBSET Int /\ Mirror # {}
  OBVIOUS
<1>2. f \in Surjection(S, Mirror)
  <2>1. f \in [S -> Mirror]
    OBVIOUS
  <2>2. \A r \in Mirror : \E x \in S : f[x] = r
    OBVIOUS
  <2> HIDE DEF Mirror, f
  <2> QED
    BY <2>1, <2>2 DEF Surjection
<1>3. IsFiniteSet(Mirror)
  <2> HIDE DEF Mirror, f
  <2> QED
    BY <1>2, FS_Surjection
<1>4. PICK r \in Mirror : \A y \in Mirror : r <= y
  <2> HIDE DEF Mirror, f
  <2> QED
    BY <1>1, <1>3, MinOfFinite
<1>5. PICK b \in S : r = -b
  OBVIOUS
<1>6. \A y \in S : y <= b
  <2> SUFFICES ASSUME NEW y \in S PROVE y <= b
    OBVIOUS
  <2>1. -y \in Mirror
    OBVIOUS
  <2>2. -b <= -y
    BY <2>1, <1>4, <1>5
  <2> QED
    BY <2>2
<1> HIDE DEF Mirror, f
<1> QED
  BY <1>6 DEF Max

\* The same of sets of numbers up to n.
LEMMA UpToIsFinite == ASSUME NEW n \in Nat PROVE IsFiniteSet(0..n)
BY FS_Interval

LEMMA MinIsLeast ==
    ASSUME NEW n \in Nat, NEW S \in SUBSET (0..n), S # {}
    PROVE  Min(S) \in S /\ \A y \in S : Min(S) <= y
<1>1. IsFiniteSet(0..n)
  BY UpToIsFinite
<1>2. IsFiniteSet(S)
  BY <1>1, FS_Subset
<1>3. S \in SUBSET Int
  OBVIOUS
<1> QED
  BY <1>2, <1>3, MinOfFinite

LEMMA MaxIsGreatest ==
    ASSUME NEW n \in Nat, NEW S \in SUBSET (0..n), S # {}
    PROVE  Max(S) \in S /\ \A y \in S : y <= Max(S)
<1>1. IsFiniteSet(0..n)
  BY UpToIsFinite
<1>2. IsFiniteSet(S)
  BY <1>1, FS_Subset
<1>3. S \in SUBSET Int
  OBVIOUS
<1> QED
  BY <1>2, <1>3, MaxOfFinite

LEMMA Induction ==
    ASSUME NEW n \in Nat, NEW S, 0 \in S, \A k \in 1..n : k - 1 \in S => k \in S
    PROVE  \A k \in 0..n : k \in S
<1> DEFINE T == {k \in 0..n : k \notin S}
<1> SUFFICES ASSUME T # {} PROVE FALSE
  OBVIOUS
<1>1. PICK m \in T : \A k \in T : m <= k
  <2>1. T \in SUBSET (0..n)
    OBVIOUS
  <2> HIDE DEF T
  <2> QED
    BY <2>1, MinIsLeast
<1>2. m \in 1..n
  OBVIOUS
<1>3. m - 1 \in 0..n /\ ~(m <= m - 1)
  BY <1>2
<1> QED
  BY <1>1, <1>2, <1>3

LEMMA GreatestOfRange ==
    ASSUME NEW k \in Nat, k # 0
    PROVE  Max(1..k) = k /\ (1..k) \ {k} = 1..(k - 1)
<1>1. 1..k \in SUBSET (0..k) /\ 1..k # {} /\ k \in 1..k
  OBVIOUS
<1>2. Max(1..k) \in 1..k /\ k <= Max(1..k)
  BY <1>1, MaxIsGreatest
<1> QED
  BY <1>2

\* g folds the numbers up to n, the greatest of a set last.
FoldOf(n, base, step, g) ==
    \A s \in SUBSET (1..n) : g[s] = IF s = {} THEN base ELSE step[<<g[s \ {Max(s)}], Max(s)>>]

LEMMA FoldExists ==
    ASSUME NEW n \in Nat, NEW V, NEW base \in V, NEW step \in [V \X (1..n) -> V]
    PROVE  \E g \in [SUBSET (1..n) -> V] : FoldOf(n, base, step, g)
<1> DEFINE S == {m \in 0..n : \E g \in [SUBSET (1..m) -> V] : FoldOf(m, base, step, g)}
<1>1. 0 \in S
  <2> DEFINE g == [s \in SUBSET (1..0) |-> base]
  <2>1. \A s \in SUBSET (1..0) : s = {}
    OBVIOUS
  <2>2. g \in [SUBSET (1..0) -> V]
    OBVIOUS
  <2>3. FoldOf(0, base, step, g)
    BY <2>1 DEF FoldOf
  <2>4. \E f \in [SUBSET (1..0) -> V] : FoldOf(0, base, step, f)
    <3> HIDE DEF g
    <3> QED
      BY <2>2, <2>3
  <2>5. 0 \in 0..n
    OBVIOUS
  <2> QED
    BY <2>4, <2>5, Zenon
<1>2. ASSUME NEW m \in 1..n, m - 1 \in S PROVE m \in S
  <2>1. PICK h \in [SUBSET (1..(m - 1)) -> V] : FoldOf(m - 1, base, step, h)
    BY <1>2
  <2> DEFINE g == [s \in SUBSET (1..m) |-> IF m \in s THEN step[<<h[s \ {m}], m>>] ELSE h[s]]
  <2>2. \A s \in SUBSET (1..m) : s \ {m} \in SUBSET (1..(m - 1)) /\ (m \notin s => s \in SUBSET (1..(m - 1)))
    OBVIOUS
  <2>3. g \in [SUBSET (1..m) -> V]
    <3> SUFFICES ASSUME NEW s \in SUBSET (1..m)
                 PROVE  (IF m \in s THEN step[<<h[s \ {m}], m>>] ELSE h[s]) \in V
      OBVIOUS
    <3>1. h[s \ {m}] \in V /\ (m \notin s => h[s] \in V)
      BY <2>2
    <3> QED
      BY <3>1
  <2>4. ASSUME NEW s \in SUBSET (1..m)
        PROVE  g[s] = IF s = {} THEN base ELSE step[<<g[s \ {Max(s)}], Max(s)>>]
    <3>1. CASE m \in s
      <4>1. s \in SUBSET (0..m) /\ s # {} /\ m \in Nat
        BY <3>1
      <4>2. Max(s) \in s /\ m <= Max(s)
        BY <4>1, <3>1, MaxIsGreatest
      <4>3. PICK x \in 1..m : x = Max(s)
        BY <4>2
      <4>4. x = m
        BY <4>2, <4>3
      <4>5. g[s] = step[<<h[s \ {m}], m>>] /\ g[s \ {m}] = h[s \ {m}]
        BY <3>1
      <4> HIDE DEF g
      <4> QED
        BY <4>1, <4>3, <4>4, <4>5
    <3>2. CASE m \notin s
      <4>1. g[s] = h[s] /\ s \in SUBSET (1..(m - 1))
        BY <3>2, <2>2
      <4>2. g[s \ {Max(s)}] = h[s \ {Max(s)}]
        BY <3>2, <2>2
      <4>3. h[s] = IF s = {} THEN base ELSE step[<<h[s \ {Max(s)}], Max(s)>>]
        BY <4>1, <2>1 DEF FoldOf
      <4> HIDE DEF g
      <4> QED
        BY <4>1, <4>2, <4>3
    <3> QED
      BY <3>1, <3>2
  <2>5. FoldOf(m, base, step, g)
    BY <2>4 DEF FoldOf
  <2> HIDE DEF g
  <2> QED
    BY <2>3, <2>5
<1>3. \A m \in 0..n : m \in S
  <2> HIDE DEF S
  <2> QED
    BY <1>1, <1>2, Induction
<1>4. n \in 0..n
  OBVIOUS
<1>5. n \in S
  <2> HIDE DEF S
  <2> QED
    BY <1>3, <1>4
<1> QED
  BY <1>5

\* P is what the fold is after each number.
RunOf(n, V, base, step, P) ==
    P \in [0..n -> V] /\ P[0] = base /\ \A k \in 1..n : P[k] = step[<<P[k - 1], k>>]
StepsTo(n, V, base, step, g) ==
    /\ g[{}] = base
    /\ \A s \in SUBSET (1..n) :
        (s # {} /\ g[s \ {Max(s)}] \in V) => g[s] = step[<<g[s \ {Max(s)}], Max(s)>>]

LEMMA FoldRuns ==
    ASSUME NEW n \in Nat, NEW V, NEW base, NEW step, NEW P, RunOf(n, V, base, step, P),
           NEW g, StepsTo(n, V, base, step, g)
    PROVE  g[1..n] = P[n]
<1> DEFINE S == {k \in 0..n : g[1..k] = P[k]}
<1>1. 0 \in S
  <2>1. 1..0 = {}
    OBVIOUS
  <2> QED
    BY <2>1 DEF RunOf, StepsTo
<1>2. ASSUME NEW k \in 1..n, k - 1 \in S PROVE k \in S
  <2>1. Max(1..k) = k /\ (1..k) \ {k} = 1..(k - 1) /\ 1..k \in SUBSET (1..n) /\ 1..k # {}
    <3>1. k \in Nat /\ k # 0
      OBVIOUS
    <3>2. Max(1..k) = k /\ (1..k) \ {k} = 1..(k - 1)
      BY <3>1, GreatestOfRange
    <3>3. k \in 1..k /\ 1..k \in SUBSET (1..n)
      OBVIOUS
    <3> QED
      BY <3>2, <3>3
  <2>2. g[1..(k - 1)] = P[k - 1] /\ P[k - 1] \in V
    BY <1>2 DEF RunOf
  <2>3. g[1..k] = step[<<P[k - 1], k>>]
    BY <2>1, <2>2 DEF StepsTo
  <2> QED
    BY <2>3 DEF RunOf
<1>3. n \in S
  <2>1. \A k \in 0..n : k \in S
    <3> HIDE DEF S
    <3> QED
      BY <1>1, <1>2, Induction
  <2> QED
    BY <2>1
<1> QED
  BY <1>3


LEMMA RunExists ==
    ASSUME NEW n \in Nat, NEW V, NEW base \in V, NEW step \in [V \X (1..n) -> V]
    PROVE  \E P : RunOf(n, V, base, step, P)
<1>1. PICK g \in [SUBSET (1..n) -> V] : FoldOf(n, base, step, g)
  BY FoldExists
<1> DEFINE P == [k \in 0..n |-> g[1..k]]
<1>2. P \in [0..n -> V]
  OBVIOUS
<1>3. P[0] = base
  <2>1. 1..0 = {} /\ {} \in SUBSET (1..n)
    OBVIOUS
  <2>2. P[0] = g[{}]
    BY <2>1
  <2> QED
    BY <1>1, <2>1, <2>2 DEF FoldOf
<1>4. ASSUME NEW k \in 1..n PROVE P[k] = step[<<P[k - 1], k>>]
  <2>1. k \in Nat /\ k # 0 /\ k - 1 \in 0..n /\ k \in 0..n
    OBVIOUS
  <2>2. Max(1..k) = k /\ (1..k) \ {k} = 1..(k - 1)
    BY <2>1, GreatestOfRange
  <2>3. k \in 1..k /\ 1..k \in SUBSET (1..n)
    OBVIOUS
  <2>4. g[1..k] = step[<<g[1..(k - 1)], k>>]
    BY <1>1, <2>2, <2>3 DEF FoldOf
  <2> QED
    BY <2>1, <2>4
<1>5. RunOf(n, V, base, step, P)
  BY <1>2, <1>3, <1>4 DEF RunOf
<1> QED
  BY <1>5

-----------------------------------------------------------------------------
(* The metrics of a run. *)

LEMMA TotalIsSum ==
    ASSUME NEW seq \in Seq(Int), NEW P \in [0..Len(seq) -> Int],
           P[0] = 0, \A k \in 1..Len(seq) : P[k] = P[k - 1] + seq[k]
    PROVE  Total(seq) = P[Len(seq)]
<1> DEFINE n == Len(seq)
           step == [x \in Int \X (1..n) |-> x[1] + seq[x[2]]]
<1>1. n \in Nat /\ DOMAIN seq = 1..n /\ \A k \in 1..n : seq[k] \in Int
  OBVIOUS
<1>2. step \in [Int \X (1..n) -> Int]
  OBVIOUS
<1>3. ASSUME NEW s \in SUBSET (1..n), s # {} PROVE Max(s) \in 1..n
  <2>1. s \in SUBSET (0..n)
    OBVIOUS
  <2> HIDE DEF n
  <2> QED
    BY <2>1, <1>1, <1>3, MaxIsGreatest
<1>4. \E g : g = [s \in SUBSET (1..n) |-> IF s = {} THEN 0 ELSE g[s \ {Max(s)}] + seq[Max(s)]]
  <2>1. PICK g \in [SUBSET (1..n) -> Int] : FoldOf(n, 0, step, g)
    <3>1. 0 \in Int
      OBVIOUS
    <3> HIDE DEF step, n
    <3> QED
      BY <3>1, <1>1, <1>2, FoldExists
  <2>2. ASSUME NEW s \in SUBSET (1..n), s # {}
        PROVE  g[s] = g[s \ {Max(s)}] + seq[Max(s)]
    <3>1. g[s \ {Max(s)}] \in Int
      OBVIOUS
    <3> QED
      BY <3>1, <1>3, <2>1, <2>2 DEF FoldOf
  <2>3. \A s \in SUBSET (1..n) : g[s] = IF s = {} THEN 0 ELSE g[s \ {Max(s)}] + seq[Max(s)]
    BY <2>1, <2>2 DEF FoldOf
  <2> HIDE DEF step, n
  <2>4. g = [s \in SUBSET (1..n) |-> IF s = {} THEN 0 ELSE g[s \ {Max(s)}] + seq[Max(s)]]
    BY <2>3
  <2> QED
    BY <2>4
<1>5. PICK g : g = [s \in SUBSET (1..n) |-> IF s = {} THEN 0 ELSE g[s \ {Max(s)}] + seq[Max(s)]]
               /\ Total(seq) = g[1..n]
  BY <1>1, <1>4 DEF Total, FoldLeft, MapThenFoldSet
<1>6. g[{}] = 0
  BY <1>5
<1>7. ASSUME NEW s \in SUBSET (1..n), s # {}, g[s \ {Max(s)}] \in Int
      PROVE  g[s] = step[<<g[s \ {Max(s)}], Max(s)>>]
  BY <1>3, <1>5, <1>7
<1>8. ASSUME NEW k \in 1..n PROVE P[k] = step[<<P[k - 1], k>>]
  <2>1. k - 1 \in 0..n /\ k \in 1..n
    BY <1>1
  <2>2. <<P[k - 1], k>> \in Int \X (1..n)
    BY <2>1
  <2> QED
    BY <1>1, <2>2
<1>9. g[1..n] = P[n]
  <2>1. RunOf(n, Int, 0, step, P)
    BY <1>8 DEF RunOf
  <2>2. StepsTo(n, Int, 0, step, g)
    BY <1>6, <1>7 DEF StepsTo
  <2>3. n \in Nat
    OBVIOUS
  <2> HIDE DEF step, n
  <2> QED
    BY <2>1, <2>2, <2>3, FoldRuns
<1> QED
  BY <1>5, <1>9

LEMMA LossesAreSum ==
    ASSUME NEW seq \in Seq(Int), NEW P \in [0..Len(seq) -> Int],
           P[0] = 0, \A k \in 1..Len(seq) : P[k] = IF seq[k] < 0 THEN P[k - 1] + seq[k] ELSE P[k - 1]
    PROVE  Losses(seq) = P[Len(seq)]
<1> DEFINE n == Len(seq)
           step == [x \in Int \X (1..n) |-> IF seq[x[2]] < 0 THEN x[1] + seq[x[2]] ELSE x[1]]
<1>1. n \in Nat /\ DOMAIN seq = 1..n /\ \A k \in 1..n : seq[k] \in Int
  OBVIOUS
<1>2. step \in [Int \X (1..n) -> Int]
  OBVIOUS
<1>3. ASSUME NEW s \in SUBSET (1..n), s # {} PROVE Max(s) \in 1..n
  <2>1. s \in SUBSET (0..n)
    OBVIOUS
  <2> HIDE DEF n
  <2> QED
    BY <2>1, <1>1, <1>3, MaxIsGreatest
<1>4. \E g : g = [s \in SUBSET (1..n) |-> IF s = {} THEN 0 ELSE IF seq[Max(s)] < 0 THEN g[s \ {Max(s)}] + seq[Max(s)] ELSE g[s \ {Max(s)}]]
  <2>1. PICK g \in [SUBSET (1..n) -> Int] : FoldOf(n, 0, step, g)
    <3>1. 0 \in Int
      OBVIOUS
    <3> HIDE DEF step, n
    <3> QED
      BY <3>1, <1>1, <1>2, FoldExists
  <2>2. ASSUME NEW s \in SUBSET (1..n), s # {}
        PROVE  g[s] = IF seq[Max(s)] < 0 THEN g[s \ {Max(s)}] + seq[Max(s)] ELSE g[s \ {Max(s)}]
    <3>1. g[s \ {Max(s)}] \in Int
      OBVIOUS
    <3> QED
      BY <3>1, <1>3, <2>1, <2>2 DEF FoldOf
  <2>3. \A s \in SUBSET (1..n) : g[s] = IF s = {} THEN 0 ELSE IF seq[Max(s)] < 0 THEN g[s \ {Max(s)}] + seq[Max(s)] ELSE g[s \ {Max(s)}]
    BY <2>1, <2>2 DEF FoldOf
  <2> HIDE DEF step, n
  <2>4. g = [s \in SUBSET (1..n) |-> IF s = {} THEN 0 ELSE IF seq[Max(s)] < 0 THEN g[s \ {Max(s)}] + seq[Max(s)] ELSE g[s \ {Max(s)}]]
    BY <2>3
  <2> QED
    BY <2>4
<1>5. PICK g : g = [s \in SUBSET (1..n) |-> IF s = {} THEN 0 ELSE IF seq[Max(s)] < 0 THEN g[s \ {Max(s)}] + seq[Max(s)] ELSE g[s \ {Max(s)}]]
               /\ Losses(seq) = g[1..n]
  BY <1>1, <1>4 DEF Losses, FoldLeft, MapThenFoldSet
<1>6. g[{}] = 0
  BY <1>5
<1>7. ASSUME NEW s \in SUBSET (1..n), s # {}, g[s \ {Max(s)}] \in Int
      PROVE  g[s] = step[<<g[s \ {Max(s)}], Max(s)>>]
  BY <1>3, <1>5, <1>7
<1>8. ASSUME NEW k \in 1..n PROVE P[k] = step[<<P[k - 1], k>>]
  <2>1. k - 1 \in 0..n /\ k \in 1..n
    BY <1>1
  <2>2. <<P[k - 1], k>> \in Int \X (1..n)
    BY <2>1
  <2> QED
    BY <1>1, <2>2
<1>9. g[1..n] = P[n]
  <2>1. RunOf(n, Int, 0, step, P)
    BY <1>8 DEF RunOf
  <2>2. StepsTo(n, Int, 0, step, g)
    BY <1>6, <1>7 DEF StepsTo
  <2>3. n \in Nat
    OBVIOUS
  <2> HIDE DEF step, n
  <2> QED
    BY <2>1, <2>2, <2>3, FoldRuns
<1> QED
  BY <1>5, <1>9

LEMMA TakenAreKept ==
    ASSUME NEW Kind, trades \in Seq(Kind), NEW P \in [0..Len(trades) -> Seq(Kind)], P[0] = <<>>,
           \A k \in 1..Len(trades) : P[k] = IF trades[k].taken THEN Append(P[k - 1], trades[k]) ELSE P[k - 1]
    PROVE  Taken = P[Len(trades)]
<1> DEFINE n == Len(trades)
           step == [x \in Seq(Kind) \X (1..n) |-> IF trades[x[2]].taken THEN Append(x[1], trades[x[2]]) ELSE x[1]]
<1>1. n \in Nat /\ DOMAIN trades = 1..n /\ \A k \in 1..n : trades[k] \in Kind
  OBVIOUS
<1>2. step \in [Seq(Kind) \X (1..n) -> Seq(Kind)]
  OBVIOUS
<1>3. ASSUME NEW s \in SUBSET (1..n), s # {} PROVE Max(s) \in 1..n
  <2>1. s \in SUBSET (0..n)
    OBVIOUS
  <2> HIDE DEF n
  <2> QED
    BY <2>1, <1>1, <1>3, MaxIsGreatest
<1>4. \E g : g = [s \in SUBSET (1..n) |-> IF s = {} THEN <<>> ELSE IF trades[Max(s)].taken THEN Append(g[s \ {Max(s)}], trades[Max(s)]) ELSE g[s \ {Max(s)}]]
  <2>1. PICK g \in [SUBSET (1..n) -> Seq(Kind)] : FoldOf(n, <<>>, step, g)
    <3>1. <<>> \in Seq(Kind)
      OBVIOUS
    <3> HIDE DEF step, n
    <3> QED
      BY <3>1, <1>1, <1>2, FoldExists
  <2>2. ASSUME NEW s \in SUBSET (1..n), s # {}
        PROVE  g[s] = IF trades[Max(s)].taken THEN Append(g[s \ {Max(s)}], trades[Max(s)]) ELSE g[s \ {Max(s)}]
    <3>1. g[s \ {Max(s)}] \in Seq(Kind)
      OBVIOUS
    <3> QED
      BY <3>1, <1>3, <2>1, <2>2 DEF FoldOf
  <2>3. \A s \in SUBSET (1..n) : g[s] = IF s = {} THEN <<>> ELSE IF trades[Max(s)].taken THEN Append(g[s \ {Max(s)}], trades[Max(s)]) ELSE g[s \ {Max(s)}]
    BY <2>1, <2>2 DEF FoldOf
  <2> HIDE DEF step, n
  <2>4. g = [s \in SUBSET (1..n) |-> IF s = {} THEN <<>> ELSE IF trades[Max(s)].taken THEN Append(g[s \ {Max(s)}], trades[Max(s)]) ELSE g[s \ {Max(s)}]]
    BY <2>3
  <2> QED
    BY <2>4
<1>5. PICK g : g = [s \in SUBSET (1..n) |-> IF s = {} THEN <<>> ELSE IF trades[Max(s)].taken THEN Append(g[s \ {Max(s)}], trades[Max(s)]) ELSE g[s \ {Max(s)}]]
               /\ Taken = g[1..n]
  BY <1>1, <1>4 DEF Taken, FoldLeft, MapThenFoldSet
<1>6. g[{}] = <<>>
  BY <1>5
<1>7. ASSUME NEW s \in SUBSET (1..n), s # {}, g[s \ {Max(s)}] \in Seq(Kind)
      PROVE  g[s] = step[<<g[s \ {Max(s)}], Max(s)>>]
  BY <1>3, <1>5, <1>7
<1>8. ASSUME NEW k \in 1..n PROVE P[k] = step[<<P[k - 1], k>>]
  <2>1. k - 1 \in 0..n /\ k \in 1..n
    BY <1>1
  <2>2. <<P[k - 1], k>> \in Seq(Kind) \X (1..n)
    BY <2>1
  <2> QED
    BY <1>1, <2>2
<1>9. g[1..n] = P[n]
  <2>1. RunOf(n, Seq(Kind), <<>>, step, P)
    BY <1>8 DEF RunOf
  <2>2. StepsTo(n, Seq(Kind), <<>>, step, g)
    BY <1>6, <1>7 DEF StepsTo
  <2>3. n \in Nat
    OBVIOUS
  <2> HIDE DEF step, n
  <2> QED
    BY <2>1, <2>2, <2>3, FoldRuns
<1> QED
  BY <1>5, <1>9

\* P and G are the sums, and the sums of the losses, of the first numbers of seq.
SumsOf(seq, P) ==
    P \in [0..Len(seq) -> Int] /\ P[0] = 0 /\ \A k \in 1..Len(seq) : P[k] = P[k - 1] + seq[k]
LossesOf(seq, G) ==
    /\ G \in [0..Len(seq) -> Int] /\ G[0] = 0
    /\ \A k \in 1..Len(seq) : G[k] = IF seq[k] < 0 THEN G[k - 1] + seq[k] ELSE G[k - 1]

LEMMA SumsExist ==
    ASSUME NEW seq \in Seq(Int)
    PROVE  (\E P : SumsOf(seq, P)) /\ (\E G : LossesOf(seq, G))
<1> DEFINE n == Len(seq)
           sum == [x \in Int \X (1..n) |-> x[1] + seq[x[2]]]
           loss == [x \in Int \X (1..n) |-> IF seq[x[2]] < 0 THEN x[1] + seq[x[2]] ELSE x[1]]
<1>1. n \in Nat /\ 0 \in Int
  OBVIOUS
<1>2. sum \in [Int \X (1..n) -> Int] /\ loss \in [Int \X (1..n) -> Int]
  OBVIOUS
<1>3. (\E P : RunOf(n, Int, 0, sum, P)) /\ (\E G : RunOf(n, Int, 0, loss, G))
  <2> HIDE DEF n, sum, loss
  <2> QED
    BY <1>1, <1>2, RunExists
<1>4. PICK P, G : RunOf(n, Int, 0, sum, P) /\ RunOf(n, Int, 0, loss, G)
  BY <1>3
<1>5. ASSUME NEW k \in 1..n
      PROVE  P[k] = P[k - 1] + seq[k] /\ G[k] = IF seq[k] < 0 THEN G[k - 1] + seq[k] ELSE G[k - 1]
  <2>1. k - 1 \in 0..n
    OBVIOUS
  <2>2. <<P[k - 1], k>> \in Int \X (1..n) /\ <<G[k - 1], k>> \in Int \X (1..n)
    BY <1>4, <2>1 DEF RunOf
  <2>3. P[k] = sum[<<P[k - 1], k>>] /\ G[k] = loss[<<G[k - 1], k>>]
    BY <1>4 DEF RunOf
  <2> QED
    BY <2>2, <2>3
<1>6. SumsOf(seq, P) /\ LossesOf(seq, G)
  BY <1>4, <1>5 DEF RunOf, SumsOf, LossesOf
<1> QED
  BY <1>6

LEMMA StretchIsDifference ==
    ASSUME NEW seq \in Seq(Int), NEW P, SumsOf(seq, P), NEW i \in 1..Len(seq), NEW j \in 1..Len(seq)
    PROVE  Total(SubSeq(seq, i, j)) = IF i <= j THEN P[j] - P[i - 1] ELSE 0
<1> DEFINE part == SubSeq(seq, i, j)
           Q == [k \in 0..Len(part) |-> P[i - 1 + k] - P[i - 1]]
<1>1. CASE i <= j
  <2>1. part \in Seq(Int) /\ Len(part) = j - i + 1 /\ \A k \in 1..Len(part) : part[k] = seq[i + k - 1]
    <3>1. \A k \in i..j : seq[k] \in Int
      OBVIOUS
    <3>2. /\ part \in Seq(Int)
          /\ Len(part) = IF i <= j THEN j - i + 1 ELSE 0
          /\ \A k \in 1..(j - i + 1) : part[k] = seq[i + k - 1]
      BY <3>1, SubSeqProperties
    <3> HIDE DEF part
    <3> QED
      BY <3>2, <1>1
  <2>2. \A k \in 0..Len(part) : P[i - 1 + k] \in Int /\ P[i - 1] \in Int
    <3>1. \A k \in 0..Len(part) : i - 1 + k \in 0..Len(seq)
      BY <1>1, <2>1
    <3>2. i - 1 \in 0..Len(seq)
      OBVIOUS
    <3> HIDE DEF part
    <3> QED
      BY <3>1, <3>2 DEF SumsOf
  <2>3. Q \in [0..Len(part) -> Int] /\ Q[0] = 0
    <3>1. Len(part) \in Nat /\ i - 1 + 0 = i - 1
      <4>1. Len(part) \in Nat
        BY <2>1, <1>1
      <4> HIDE DEF part
      <4> QED
        BY <4>1
    <3> HIDE DEF part
    <3>2. \A k \in 0..Len(part) : P[i - 1 + k] - P[i - 1] \in Int
      BY <2>2
    <3>3. 0 \in 0..Len(part)
      BY <3>1
    <3>4. P[i - 1] \in Int
      BY <2>2, <3>3
    <3>5. Q \in [0..Len(part) -> Int]
      BY <3>2
    <3>6. Q[0] = P[i - 1 + 0] - P[i - 1]
      BY <3>3
    <3>7. Q[0] = P[i - 1] - P[i - 1]
      BY <3>1, <3>6
    <3> HIDE DEF Q
    <3>8. Q[0] = 0
      BY <3>4, <3>7
    <3> QED
      BY <3>5, <3>8
  <2>4. ASSUME NEW k \in 1..Len(part) PROVE Q[k] = Q[k - 1] + part[k]
    <3>1. i - 1 + k \in 1..Len(seq) /\ (i - 1 + k) - 1 = i - 1 + (k - 1) /\ k - 1 \in 0..Len(part)
          /\ k \in 0..Len(part)
      BY <1>1, <2>1
    <3>2. P[i - 1 + k] = P[i - 1 + (k - 1)] + seq[i - 1 + k]
      BY <3>1 DEF SumsOf
    <3>3. part[k] = seq[i - 1 + k] /\ seq[i - 1 + k] \in Int
      BY <2>1, <3>1
    <3>4. Q[k] = P[i - 1 + k] - P[i - 1] /\ Q[k - 1] = P[i - 1 + (k - 1)] - P[i - 1]
      BY <3>1
    <3> QED
      <4>1. P[i - 1 + (k - 1)] \in Int /\ P[i - 1] \in Int
        BY <3>1, <2>2
      <4> HIDE DEF part, Q
      <4> DEFINE a == P[i - 1 + (k - 1)]
      <4> DEFINE b == P[i - 1]
      <4> DEFINE c == seq[i - 1 + k]
      <4>2. a \in Int /\ b \in Int /\ c \in Int
        BY <3>3, <4>1
      <4>3. Q[k] = (a + c) - b /\ Q[k - 1] = a - b /\ part[k] = c
        BY <3>2, <3>3, <3>4
      <4> HIDE DEF a, b, c
      <4>4. (a + c) - b = (a - b) + c
        BY <4>2
      <4> QED
        BY <4>3, <4>4
  <2>5. Total(part) = Q[Len(part)]
    <3> HIDE DEF part, Q
    <3> QED
      BY <2>1, <2>3, <2>4, TotalIsSum
  <2>6. Q[Len(part)] = P[j] - P[i - 1]
    <3>1. Len(part) \in 0..Len(part) /\ i - 1 + Len(part) = j
      BY <2>1, <1>1
    <3> QED
      BY <3>1
  <2> QED
    BY <2>5, <2>6, <1>1
<1>2. CASE ~(i <= j)
  <2>1. part = <<>>
    BY <1>2
  <2>2. <<>> \in Seq(Int) /\ Len(<<>>) = 0
    OBVIOUS
  <2> DEFINE Z == [k \in 0..0 |-> 0]
  <2>3. Z \in [0..0 -> Int] /\ Z[0] = 0 /\ \A k \in 1..0 : Z[k] = Z[k - 1] + <<>>[k]
    OBVIOUS
  <2>4. Total(<<>>) = Z[0]
    <3> HIDE DEF Z
    <3> QED
      BY <2>2, <2>3, TotalIsSum
  <2> QED
    BY <2>1, <2>3, <2>4, <1>2
<1> QED
  BY <1>1, <1>2

LEMMA ValuesFinite ==
    ASSUME NEW S, IsFiniteSet(S), NEW f \in [S -> Int]
    PROVE  IsFiniteSet({f[k] : k \in S})
<1> DEFINE Values == {f[k] : k \in S}
<1>1. f \in Surjection(S, Values)
  <2>1. f \in [S -> Values] /\ \A r \in Values : \E x \in S : f[x] = r
    OBVIOUS
  <2> HIDE DEF Values
  <2> QED
    BY <2>1 DEF Surjection
<1> QED
  BY <1>1, FS_Surjection

\* Each drawdown is the difference of two sums, the second the greatest so far.
LEMMA DrawdownsFromPeak ==
    ASSUME NEW seq \in Seq(Int), NEW P, SumsOf(seq, P)
    PROVE  /\ DOMAIN Drawdowns(seq) = 1..Len(seq)
           /\ \A k \in 1..Len(seq) : \E m \in 0..k :
                Drawdowns(seq)[k] = P[k] - P[m] /\ \A j \in 0..k : P[j] <= P[m]
<1> DEFINE n == Len(seq)
           equity == [k \in DOMAIN seq |-> Total(SubSeq(seq, 1, k))]
<1>1. n \in Nat /\ DOMAIN seq = 1..n
  OBVIOUS
<1>2. ASSUME NEW k \in 1..n PROVE equity[k] = P[k]
  <2>1. 1 \in 1..Len(seq) /\ k \in 1..Len(seq) /\ 1 <= k /\ 1 - 1 = 0
    OBVIOUS
  <2>2. Total(SubSeq(seq, 1, k)) = P[k] - P[0]
    BY <2>1, StretchIsDifference
  <2>3. P[k] \in Int /\ P[0] = 0
    BY <2>1 DEF SumsOf
  <2>4. equity[k] = Total(SubSeq(seq, 1, k))
    BY <1>1
  <2> HIDE DEF equity
  <2> QED
    BY <2>2, <2>3, <2>4
<1>3. Drawdowns(seq) = [k \in 1..n |-> equity[k] - Max({0} \union {equity[j] : j \in 1..k})]
  BY <1>1 DEF Drawdowns
<1>4. ASSUME NEW k \in 1..n
      PROVE  \E m \in 0..k : Drawdowns(seq)[k] = P[k] - P[m] /\ \A j \in 0..k : P[j] <= P[m]
  <2> DEFINE T == {0} \union {equity[j] : j \in 1..k}
             f == [j \in 0..k |-> P[j]]
  <2>1. f \in [0..k -> Int] /\ P[0] = 0
    <3>1. 0..k \subseteq 0..Len(seq)
      OBVIOUS
    <3>2. \A j \in 0..k : P[j] \in Int
      BY <3>1 DEF SumsOf
    <3> QED
      BY <3>2 DEF SumsOf
  <2>2. T = {f[j] : j \in 0..k}
    <3>1. \A j \in 1..k : j \in 1..n /\ f[j] = P[j]
      OBVIOUS
    <3>2. \A j \in 1..k : equity[j] = f[j]
      BY <3>1, <1>2
    <3>3. 0..k = {0} \union 1..k
      OBVIOUS
    <3>4. f[0] = 0
      BY <2>1
    <3> HIDE DEF f, equity
    <3>5. {equity[j] : j \in 1..k} = {f[j] : j \in 1..k}
      BY <3>2
    <3>6. {f[j] : j \in {0} \union 1..k} = {f[0]} \union {f[j] : j \in 1..k}
      OBVIOUS
    <3> QED
      BY <3>3, <3>4, <3>5, <3>6
  <2>3. IsFiniteSet(0..k) /\ 0 \in 0..k
    BY FS_Interval
  <2>4. IsFiniteSet(T) /\ T # {} /\ T \in SUBSET Int
    <3> HIDE DEF f, equity
    <3>1. \A j \in 0..k : f[j] \in Int
      BY <2>1
    <3>2. IsFiniteSet({f[j] : j \in 0..k})
      BY <2>1, <2>3, ValuesFinite
    <3>3. T \in SUBSET Int
      BY <2>2, <3>1
    <3> QED
      BY <2>2, <3>2, <3>3
  <2>5. Max(T) \in T /\ \A y \in T : y <= Max(T)
    <3> HIDE DEF T
    <3> QED
      BY <2>4, MaxOfFinite
  <2>6. PICK m \in 0..k : Max(T) = f[m]
    <3> HIDE DEF f, equity
    <3> QED
      BY <2>2, <2>5
  <2>7. \A j \in 0..k : P[j] <= P[m]
    <3>1. \A j \in 0..k : f[j] \in T
      BY <2>2
    <3> HIDE DEF T
    <3> QED
      BY <2>5, <2>6, <3>1
  <2>8. Drawdowns(seq)[k] = P[k] - P[m]
    <3>1. Drawdowns(seq)[k] = equity[k] - Max(T)
      BY <1>3
    <3> HIDE DEF T
    <3> QED
      BY <3>1, <2>6, <1>2
  <2> QED
    BY <2>7, <2>8
<1> QED
  BY <1>3, <1>4

LEMMA LossesBelow ==
    ASSUME NEW seq \in Seq(Int), NEW P, SumsOf(seq, P), NEW G, LossesOf(seq, G)
    PROVE  \A k \in 0..Len(seq) : \A i, j \in 0..k : i <= j => G[k] <= P[j] - P[i]
<1> DEFINE n == Len(seq)
           S == {k \in 0..n : \A i, j \in 0..k : i <= j => G[k] <= P[j] - P[i]}
<1>1. n \in Nat
  OBVIOUS
<1>2. 0 \in S
  <2>1. \A i, j \in 0..0 : i = 0 /\ j = 0
    OBVIOUS
  <2> QED
    BY <2>1 DEF SumsOf, LossesOf
<1>3. ASSUME NEW k \in 1..n, k - 1 \in S PROVE k \in S
  <2> SUFFICES ASSUME NEW i \in 0..k, NEW j \in 0..k, i <= j PROVE G[k] <= P[j] - P[i]
    OBVIOUS
  <2>1. /\ k - 1 \in 0..n /\ seq[k] \in Int /\ P[k - 1] \in Int /\ P[k] \in Int
        /\ G[k - 1] \in Int /\ G[k] \in Int /\ P[i] \in Int /\ P[j] \in Int
    <3>1. k - 1 \in 0..n /\ k \in 0..n /\ i \in 0..n /\ j \in 0..n /\ seq[k] \in Int
      OBVIOUS
    <3>2. P \in [0..n -> Int] /\ G \in [0..n -> Int]
      BY DEF SumsOf, LossesOf
    <3> HIDE DEF n
    <3>3. P[k - 1] \in Int /\ P[k] \in Int
      BY <3>1, <3>2
    <3>4. G[k - 1] \in Int /\ G[k] \in Int
      BY <3>1, <3>2
    <3>5. P[i] \in Int /\ P[j] \in Int
      BY <3>1, <3>2
    <3> QED
      BY <3>1, <3>3, <3>4, <3>5
  <2>2. G[k] <= G[k - 1] /\ G[k] <= G[k - 1] + seq[k]
    <3> DEFINE g == G[k - 1]
               x == seq[k]
    <3>1. G[k] = IF x < 0 THEN g + x ELSE g
      BY DEF LossesOf
    <3>2. g \in Int /\ x \in Int
      BY <2>1
    <3>3. (IF x < 0 THEN g + x ELSE g) <= g /\ (IF x < 0 THEN g + x ELSE g) <= g + x
      <4> HIDE DEF g, x
      <4> QED
        BY <3>2
    <3> QED
      BY <3>1, <3>3
  <2>3. CASE j # k
    <3>1. i \in 0..(k - 1) /\ j \in 0..(k - 1)
      BY <2>3
    <3>2. G[k - 1] <= P[j] - P[i]
      BY <1>3, <3>1
    <3> QED
      BY <2>1, <2>2, <3>2
  <2>4. CASE j = k /\ i # k
    <3>1. i \in 0..(k - 1) /\ k - 1 \in 0..(k - 1) /\ i <= k - 1
      BY <2>4
    <3>2. G[k - 1] <= P[k - 1] - P[i]
      BY <1>3, <3>1
    <3>3. P[k] = P[k - 1] + seq[k]
      BY DEF SumsOf
    <3> DEFINE g == G[k]
    <3> DEFINE h == G[k - 1]
    <3> DEFINE p == P[k - 1]
    <3> DEFINE q == P[i]
    <3> DEFINE x == seq[k]
    <3>4. g \in Int /\ h \in Int /\ p \in Int /\ q \in Int /\ x \in Int
      BY <2>1
    <3>5. g <= h + x /\ h <= p - q
      BY <2>2, <3>2
    <3>6. P[j] = p + x
      BY <2>4, <3>3
    <3>7. g <= (p + x) - q
      <4> HIDE DEF g, h, p, q, x
      <4> QED
        BY <3>4, <3>5
    <3> QED
      BY <3>6, <3>7
  <2>5. CASE j = k /\ i = k
    <3>1. k - 1 \in 0..(k - 1)
      OBVIOUS
    <3>2. G[k - 1] <= P[k - 1] - P[k - 1]
      BY <1>3, <3>1
    <3> QED
      BY <2>1, <2>2, <2>5, <3>2
  <2> QED
    BY <2>3, <2>4, <2>5
<1>4. \A k \in 0..n : k \in S
  <2> HIDE DEF S, n
  <2> QED
    BY <1>1, <1>2, <1>3, Induction
<1> QED
  BY <1>4

\* The sums of consecutive returns.
Stretches(seq) == {Total(SubSeq(seq, i, j)) : i, j \in DOMAIN seq}

\* Of any returns the least drawdown is the worst sum of consecutive ones, or none.
LEMMA WorstStretch ==
    ASSUME NEW seq \in Seq(Int)
    PROVE  /\ Min({0} \union Range(Drawdowns(seq)))
                = Min({0} \union Stretches(seq))
           /\ Losses(seq) <= Min({0} \union Range(Drawdowns(seq)))
           /\ Min({0} \union Range(Drawdowns(seq))) <= Total(seq)
<1>1. PICK P, G : SumsOf(seq, P) /\ LossesOf(seq, G)
  BY SumsExist
<1> DEFINE n == Len(seq)
           A == {0} \union Range(Drawdowns(seq))
           B == {0} \union Stretches(seq)
           d == [k \in 0..n |-> IF k = 0 THEN 0 ELSE Drawdowns(seq)[k]]
<1>2. /\ n \in Nat /\ DOMAIN seq = 1..n /\ n \in 0..n /\ 0 \in 0..n
      /\ \A k \in 0..n : P[k] \in Int /\ G[k] \in Int
      /\ P[0] = 0 /\ G[0] = 0
  <2>1. n \in Nat /\ DOMAIN seq = 1..n /\ n \in 0..n /\ 0 \in 0..n
    OBVIOUS
  <2>2. P \in [0..n -> Int] /\ G \in [0..n -> Int] /\ P[0] = 0 /\ G[0] = 0
    BY <1>1 DEF SumsOf, LossesOf
  <2> HIDE DEF n
  <2> QED
    BY <2>1, <2>2
<1>3. /\ DOMAIN Drawdowns(seq) = 1..n
      /\ \A k \in 1..n : \E m \in 0..k :
           Drawdowns(seq)[k] = P[k] - P[m] /\ \A j \in 0..k : P[j] <= P[m]
  BY <1>1, DrawdownsFromPeak
<1>4. \A i, j \in 1..n : Total(SubSeq(seq, i, j)) = IF i <= j THEN P[j] - P[i - 1] ELSE 0
  BY <1>1, StretchIsDifference
<1>5. A = {d[k] : k \in 0..n} /\ d \in [0..n -> Int]
  <2>1. ASSUME NEW k \in 1..n PROVE Drawdowns(seq)[k] \in Int
    <3>1. PICK m \in 0..k : Drawdowns(seq)[k] = P[k] - P[m]
      BY <1>3
    <3>2. m \in 0..n /\ k \in 0..n
      BY <1>2
    <3> QED
      BY <1>2, <3>1, <3>2
  <2>2. d \in [0..n -> Int]
    BY <2>1
  <2>3. 0..n = {0} \union 1..n /\ d[0] = 0 /\ \A k \in 1..n : d[k] = Drawdowns(seq)[k]
    BY <1>2
  <2>4. Range(Drawdowns(seq)) = {Drawdowns(seq)[k] : k \in 1..n}
    BY <1>3 DEF Range
  <2> HIDE DEF d, n
  <2> QED
    BY <2>2, <2>3, <2>4
<1>6. IsFiniteSet(A) /\ A # {} /\ A \in SUBSET Int
  <2>1. IsFiniteSet(0..n)
    BY <1>2, FS_Interval
  <2>2. A # {} /\ A \in SUBSET Int
    <3> HIDE DEF d, n
    <3> QED
      BY <1>5
  <2> HIDE DEF d, n, A
  <2> QED
    BY <2>1, <2>2, <1>5, ValuesFinite
<1>7. Min(A) \in A /\ \A y \in A : Min(A) <= y
  <2> HIDE DEF A
  <2> QED
    BY <1>6, MinOfFinite
<1>8. PICK w \in A : w = Min(A) /\ w \in Int /\ \A y \in A : w <= y
  <2> HIDE DEF A
  <2> QED
    BY <1>6, <1>7
<1>9. ASSUME NEW k \in 1..n, NEW m \in 0..k PROVE w <= P[k] - P[m]
  <2>1. PICK p \in 0..k : Drawdowns(seq)[k] = P[k] - P[p] /\ \A j \in 0..k : P[j] <= P[p]
    BY <1>3
  <2>2. Drawdowns(seq)[k] \in A
    BY <1>3 DEF Range
  <2>3. w <= P[k] - P[p] /\ P[m] <= P[p] /\ P[k] \in Int /\ P[p] \in Int /\ P[m] \in Int
    <3>1. m \in 0..n /\ p \in 0..n /\ k \in 0..n
      BY <1>2
    <3> HIDE DEF A, n
    <3> QED
      BY <2>1, <2>2, <1>8, <1>2, <3>1
  <2> QED
    BY <2>3, <1>8
<1>10. \E i, j \in 0..n : i <= j /\ w = P[j] - P[i]
  <2>1. PICK k \in 0..n : w = d[k]
    <3> HIDE DEF d, n, A
    <3> QED
      BY <1>5, <1>8
  <2>2. CASE k = 0
    <3>1. 0 <= 0 /\ w = P[0] - P[0]
      BY <2>1, <2>2, <1>2
    <3> QED
      BY <3>1, <1>2
  <2>3. CASE k # 0
    <3>1. k \in 1..n
      BY <2>3
    <3>2. PICK m \in 0..k : Drawdowns(seq)[k] = P[k] - P[m]
      BY <3>1, <1>3
    <3>3. m \in 0..n /\ m <= k /\ w = P[k] - P[m]
      BY <3>1, <3>2, <2>1
    <3> QED
      BY <3>3
  <2> QED
    BY <2>2, <2>3
<1>11. PICK i0, j0 \in 0..n : i0 <= j0 /\ w = P[j0] - P[i0]
  BY <1>10
<1>12. w \in B
  <2>1. CASE i0 = j0
    BY <2>1, <1>11, <1>2 DEF Stretches
  <2>2. CASE i0 # j0
    <3>1. i0 + 1 \in 1..n /\ j0 \in 1..n /\ i0 + 1 <= j0 /\ (i0 + 1) - 1 = i0
      BY <2>2, <1>11
    <3>2. Total(SubSeq(seq, i0 + 1, j0)) = w
      BY <3>1, <1>4, <1>11
    <3> QED
      BY <3>1, <3>2, <1>2 DEF Stretches
  <2> QED
    BY <2>1, <2>2
<1>13. ASSUME NEW b \in B PROVE b \in Int /\ w <= b
  <2>1. 0 \in A
    OBVIOUS
  <2>2. w <= 0
    <3> HIDE DEF A
    <3> QED
      BY <2>1, <1>8
  <2>3. b = 0 \/ \E i, j \in 1..n : i <= j /\ b = P[j] - P[i - 1]
    BY <1>2, <1>4 DEF Stretches
  <2>4. ASSUME NEW i \in 1..n, NEW j \in 1..n, i <= j, b = P[j] - P[i - 1] PROVE b \in Int /\ w <= b
    <3>1. i - 1 \in 0..j /\ i - 1 \in 0..n /\ j \in 0..n
      BY <2>4
    <3> QED
      BY <3>1, <2>4, <1>9, <1>2
  <2> QED
    BY <2>2, <2>3, <2>4
<1>14. Min(B) = w
  <2> HIDE DEF B
  <2>1. \A x \in B : (\A y \in B : x <= y) => x = w
    BY <1>12, <1>13
  <2>2. w \in B /\ \A y \in B : w <= y
    BY <1>12, <1>13
  <2> QED
    BY <2>1, <2>2 DEF Min
<1>15. Total(seq) = P[n] /\ Losses(seq) = G[n]
  <2>1. Total(seq) = P[n]
    BY <1>1, TotalIsSum DEF SumsOf
  <2>2. Losses(seq) = G[n]
    BY <1>1, LossesAreSum DEF LossesOf
  <2> QED
    BY <2>1, <2>2
<1>16. G[n] <= w
  BY <1>1, <1>2, <1>11, LossesBelow
<1>17. w <= P[n]
  <2>1. CASE n = 0
    <3>1. 0 \in A
      OBVIOUS
    <3> HIDE DEF A
    <3> QED
      BY <3>1, <2>1, <1>8, <1>2
  <2>2. CASE n # 0
    <3>1. n \in 1..n /\ 0 \in 0..n
      BY <2>2, <1>2
    <3>2. w <= P[n] - P[0]
      BY <3>1, <1>9
    <3> QED
      BY <3>2, <1>2
  <2> QED
    BY <2>1, <2>2
<1> HIDE DEF A, B, n
<1> QED
  BY <1>8, <1>14, <1>15, <1>16, <1>17 DEF A, B

\* A taken trade keeps its place among the candidates: there are as many of them as Taken is long.
LEMMA TakenAreCounted ==
    ASSUME NEW Kind, trades \in Seq(Kind)
    PROVE  /\ Taken \in Seq(Kind)
           /\ Len(Taken) = Cardinality({k \in DOMAIN trades : trades[k].taken})
<1> DEFINE n == Len(trades)
           keep == [x \in Seq(Kind) \X (1..n) |->
                      IF trades[x[2]].taken THEN Append(x[1], trades[x[2]]) ELSE x[1]]
           At(k) == {i \in 1..k : trades[i].taken}
<1>1. n \in Nat /\ DOMAIN trades = 1..n /\ <<>> \in Seq(Kind) /\ \A k \in 1..n : trades[k] \in Kind
  OBVIOUS
<1>2. keep \in [Seq(Kind) \X (1..n) -> Seq(Kind)]
  OBVIOUS
<1>3. PICK P : RunOf(n, Seq(Kind), <<>>, keep, P)
  <2> HIDE DEF n, keep
  <2> QED
    BY <1>1, <1>2, RunExists
<1>4. ASSUME NEW k \in 1..n
      PROVE  /\ P[k - 1] \in Seq(Kind)
             /\ P[k] = IF trades[k].taken THEN Append(P[k - 1], trades[k]) ELSE P[k - 1]
  <2>1. k - 1 \in 0..n
    OBVIOUS
  <2>2. <<P[k - 1], k>> \in Seq(Kind) \X (1..n)
    BY <1>3, <2>1 DEF RunOf
  <2>3. P[k] = keep[<<P[k - 1], k>>]
    BY <1>3 DEF RunOf
  <2> QED
    BY <2>2, <2>3
<1>5. P \in [0..n -> Seq(Kind)] /\ P[0] = <<>> /\ Taken = P[n]
  <2>1. P \in [0..n -> Seq(Kind)] /\ P[0] = <<>>
    BY <1>3 DEF RunOf
  <2> QED
    BY <2>1, <1>4, TakenAreKept
<1> DEFINE S == {k \in 0..n : Len(P[k]) = Cardinality(At(k))}
<1>6. 0 \in S
  <2>1. At(0) = {}
    OBVIOUS
  <2>2. Cardinality(At(0)) = 0
    BY <2>1, FS_EmptySet
  <2> QED
    BY <2>2, <1>1, <1>5
<1>7. ASSUME NEW k \in 1..n, k - 1 \in S PROVE k \in S
  <2>1. IsFiniteSet(At(k - 1)) /\ k \notin At(k - 1)
    <3>1. IsFiniteSet(1..(k - 1))
      BY FS_Interval
    <3>2. At(k - 1) \in SUBSET (1..(k - 1))
      OBVIOUS
    <3>3. k \notin 1..(k - 1)
      OBVIOUS
    <3> HIDE DEF At
    <3> QED
      BY <3>1, <3>2, <3>3, FS_Subset
  <2>2. Len(P[k - 1]) = Cardinality(At(k - 1))
    BY <1>7
  <2>3. At(k) = IF trades[k].taken THEN At(k - 1) \union {k} ELSE At(k - 1)
    <3>1. 1..k = (1..(k - 1)) \union {k}
      OBVIOUS
    <3> QED
      BY <3>1
  <2>4. Cardinality(At(k)) = IF trades[k].taken THEN Cardinality(At(k - 1)) + 1 ELSE Cardinality(At(k - 1))
    <3>1. Cardinality(At(k - 1) \union {k}) = Cardinality(At(k - 1)) + 1
      <4> HIDE DEF At
      <4> QED
        BY <2>1, FS_AddElement
    <3> HIDE DEF At
    <3> QED
      BY <2>3, <3>1
  <2>5. Len(P[k]) = IF trades[k].taken THEN Len(P[k - 1]) + 1 ELSE Len(P[k - 1])
    <3>1. P[k - 1] \in Seq(Kind) /\ trades[k] \in Kind
      BY <1>1, <1>4
    <3>2. Len(Append(P[k - 1], trades[k])) = Len(P[k - 1]) + 1
      BY <3>1
    <3> HIDE DEF At
    <3> QED
      BY <1>4, <3>2
  <2> HIDE DEF At
  <2> QED
    BY <2>2, <2>4, <2>5
<1>8. \A k \in 0..n : k \in S
  <2> HIDE DEF S, n
  <2> QED
    BY <1>1, <1>6, <1>7, Induction
<1>9. n \in 0..n
  BY <1>1
<1>10. Len(P[n]) = Cardinality(At(n))
  BY <1>8, <1>9
<1> QED
  BY <1>1, <1>5, <1>9, <1>10

-----------------------------------------------------------------------------
(* Configurations. *)

\* What from_payload makes of a payload has the types of its fields.
LEMMA ConfigTypes ==
    ASSUME NEW g \in ReplayConfigs
    PROVE  /\ g.counterfactual \in BOOLEAN /\ g.portfolio \in BOOLEAN /\ g.overlap \in BOOLEAN
           /\ g.allow \in BOOLEAN /\ g.onePerSetup \in BOOLEAN
           /\ g.perSymbol \in Int /\ g.inAll \in Int /\ g.afterLoss \in Int /\ g.afterTrade \in Int
           /\ g.conservative \in BOOLEAN /\ g.flat \in BOOLEAN /\ g.rth \in BOOLEAN
<1>1. PICK data \in Configs : g = FromPayload(data)
  BY DEF ReplayConfigs
<1>2. \A field \in DOMAIN data : field \in DOMAIN Fields /\ data[field] \in Fields[field]
  BY PayloadsAssumption
<1>3. PICK no \in BOOLEAN :
        g = [field \in DOMAIN Defaults(no) |-> IF field \in DOMAIN data THEN data[field] ELSE Defaults(no)[field]]
  <2>1. ("counterfactual" \in DOMAIN data /\ data.counterfactual) \in BOOLEAN
    OBVIOUS
  <2> QED
    BY <1>1, <2>1 DEF FromPayload
<1>4. \A field \in DOMAIN Defaults(no) :
        g[field] = IF field \in DOMAIN data THEN data[field] ELSE Defaults(no)[field]
  BY <1>3
<1>5. \A field \in DOMAIN Defaults(no) : Defaults(no)[field] \in Fields[field] => g[field] \in Fields[field]
  BY <1>2, <1>4
<1> HIDE <1>3, <1>4
<1>6. /\ Defaults(no).counterfactual \in BOOLEAN /\ Defaults(no).portfolio \in BOOLEAN
      /\ Defaults(no).overlap \in BOOLEAN /\ Defaults(no).allow \in BOOLEAN
      /\ Defaults(no).onePerSetup \in BOOLEAN /\ Defaults(no).perSymbol \in Int
      /\ Defaults(no).inAll \in Int /\ Defaults(no).afterLoss \in Int /\ Defaults(no).afterTrade \in Int
      /\ Defaults(no).conservative \in BOOLEAN /\ Defaults(no).flat \in BOOLEAN /\ Defaults(no).rth \in BOOLEAN
  BY DEF Defaults
<1>7. /\ Fields.counterfactual = BOOLEAN /\ Fields.portfolio = BOOLEAN /\ Fields.overlap = BOOLEAN
      /\ Fields.allow = BOOLEAN /\ Fields.onePerSetup = BOOLEAN /\ Fields.perSymbol = Int
      /\ Fields.inAll = Int /\ Fields.afterLoss = Int /\ Fields.afterTrade = Int
      /\ Fields.conservative = BOOLEAN /\ Fields.flat = BOOLEAN /\ Fields.rth = BOOLEAN
  BY DEF Fields
<1>8. {"counterfactual", "portfolio", "overlap", "allow", "onePerSetup", "perSymbol", "inAll", "afterLoss",
       "afterTrade", "conservative", "flat", "rth"} \subseteq DOMAIN Defaults(no)
  BY DEF Defaults
<1> QED
  BY <1>5, <1>6, <1>7, <1>8

-----------------------------------------------------------------------------
(* A candidate on its own. *)

LEMMA PricesAreNumbers ==
    ASSUME bars \in Paths, NEW c \in Candidate, NEW t \in 1..Times
    PROVE  Bar(c, t).open \in Int /\ Bar(c, t).low \in Int /\ Bar(c, t).high \in Int /\ Bar(c, t).close \in Int
<1>1. bars[t] \in [open : Int, high : Int, low : Int, close : Int]
  BY PathsAssumption
<1>2. /\ bars[t].open \in Int /\ bars[t].high \in Int /\ bars[t].low \in Int /\ bars[t].close \in Int
  BY <1>1
<1>3. /\ Mirrored(bars[t]).open = -bars[t].open /\ Mirrored(bars[t]).high = -bars[t].low
      /\ Mirrored(bars[t]).low = -bars[t].high /\ Mirrored(bars[t]).close = -bars[t].close
  BY DEF Mirrored
<1>4. CASE c.side = "LONG"
  BY <1>2, <1>4 DEF Bar
<1>5. CASE c.side # "LONG"
  BY <1>2, <1>3, <1>5 DEF Bar
<1> QED
  BY <1>4, <1>5

\* The stop of the bars up to any bar is a number below the entry.
LEMMA StopBelowEntry ==
    ASSUME bars \in Paths, NEW c \in Candidate, c.t < Times, NEW last \in 1..Times
    PROVE  Entry(c) \in Int /\ Stop(c, last) \in Int /\ Stop(c, last) < Entry(c)
<1> DEFINE Lows == {Bar(c, t).low : t \in 1..last}
           f == [t \in 1..last |-> Bar(c, t).low]
<1>1. Times \in Nat /\ Atr \in Nat \ {0} /\ c.t \in 1..Times
  BY BoundsAssumption DEF Candidate
<1>2. Entry(c) \in Int
  BY <1>1, PricesAreNumbers DEF Entry
<1>3. \A t \in 1..last : t \in 1..Times
  BY <1>1
<1>4. Lows \in SUBSET Int /\ Lows # {}
  <2>1. \A t \in 1..last : Bar(c, t).low \in Int
    BY <1>3, PricesAreNumbers
  <2>2. 1 \in 1..last
    BY <1>1
  <2> QED
    BY <2>1, <2>2
<1>5. IsFiniteSet(Lows)
  <2>1. IsFiniteSet(1..last)
    BY <1>1, FS_Interval
  <2>2. f \in [1..last -> Lows] /\ \A x \in Lows : \E t \in 1..last : f[t] = x
    OBVIOUS
  <2> HIDE DEF f, Lows
  <2>3. f \in Surjection(1..last, Lows)
    BY <2>2 DEF Surjection
  <2> QED
    BY <2>1, <2>3, FS_Surjection
<1>6. Min(Lows) \in Int
  <2> HIDE DEF Lows
  <2> QED
    BY <1>4, <1>5, MinOfFinite
<1> DEFINE swing == Min(Lows)
           Below == {x \in {swing, Entry(c) - Atr} : x < Entry(c)}
<1>7. Stop(c, last) = Max(Below)
  BY DEF Stop
<1> HIDE DEF Lows, f, swing
<1>8. swing \in Int
  BY <1>6 DEF swing
<1>9. Below \in SUBSET Int /\ Entry(c) - Atr \in Below
  BY <1>1, <1>2, <1>8
<1>10. IsFiniteSet(Below)
  <2> DEFINE one == {swing}
             two == {swing, Entry(c) - Atr}
  <2>1. one = {} \union {swing} /\ two = one \union {Entry(c) - Atr} /\ Below \subseteq two
    OBVIOUS
  <2> HIDE DEF Below, one, two
  <2>2. IsFiniteSet(one)
    BY <2>1, FS_EmptySet, FS_AddElement
  <2>3. IsFiniteSet(one \union {Entry(c) - Atr})
    BY <2>2, FS_AddElement
  <2> QED
    BY <2>1, <2>3, FS_Subset
<1>11. Max(Below) \in Below
  <2> HIDE DEF Below
  <2> QED
    BY <1>9, <1>10, MaxOfFinite
<1> QED
  BY <1>2, <1>7, <1>9, <1>11

\* The bars of a trade are those from its entry to the last of them.
LEMMA FutureIsRange ==
    ASSUME NEW c \in Candidate, c.t < Times
    PROVE  LET end == IF c.t + 1 + Hold <= Times THEN c.t + 1 + Hold ELSE Times IN
           /\ end \in Nat /\ c.t + 1 <= end /\ end <= Times /\ end <= c.t + 1 + Hold
           /\ Future(c) = (c.t + 1)..end
           /\ Max(Future(c)) = end
<1> DEFINE last == c.t + 1 + Hold
           end == IF last <= Times THEN last ELSE Times
<1>1. c.t \in 1..Times /\ Times \in Nat /\ Hold \in Nat
  BY BoundsAssumption DEF Candidate
<1>2. end \in Nat /\ c.t + 1 <= end /\ end <= Times /\ end <= last /\ last \in Nat
  BY <1>1
<1>3. Min({last, Times}) = end
  <2>1. {last, Times} \in SUBSET (0..(last + Times)) /\ {last, Times} # {} /\ last + Times \in Nat
    BY <1>1, <1>2
  <2> DEFINE S == {last, Times}
             n == last + Times
  <2> HIDE DEF S, n, last
  <2>2. S \in SUBSET (0..n) /\ S # {} /\ n \in Nat
    BY <2>1 DEF S, n
  <2>3. Min(S) \in S /\ \A y \in S : Min(S) <= y
    BY <2>2, MinIsLeast
  <2>4. \A y \in S : y = last \/ y = Times
    BY DEF S
  <2>5. last \in S /\ Times \in S
    BY DEF S
  <2>6. Min(S) <= last /\ Min(S) <= Times /\ (Min(S) = last \/ Min(S) = Times)
    BY <2>3, <2>4, <2>5
  <2>7. Min(S) = end
    BY <1>1, <1>2, <2>6
  <2> QED
    BY <2>7 DEF S
<1>4. Future(c) = (c.t + 1)..end
  BY <1>3 DEF Future
<1> DEFINE F == (c.t + 1)..end
<1>5. F \in SUBSET (0..Times) /\ F # {} /\ end \in F /\ \A y \in F : y <= end
  BY <1>1, <1>2
<1>6. Max(F) \in F /\ \A y \in F : y <= Max(F)
  <2> HIDE DEF F
  <2> QED
    BY <1>1, <1>5, MaxIsGreatest
<1>7. Max(F) = end
  BY <1>1, <1>2, <1>6
<1> HIDE DEF F, end, last
<1>8. Future(c) = F
  BY <1>4 DEF F
<1>9. Max(Future(c)) = end
  BY <1>7, <1>8
<1> QED
  BY <1>2, <1>4, <1>9 DEF end, last

\* A trade ends at one of its bars.
LEMMA EndsInFuture ==
    ASSUME NEW c \in Candidate, c.t < Times, NEW stop
    PROVE  ReplayExit(c, stop) \in Future(c) /\ ReplayExit(c, stop) \in (c.t + 1)..Times
<1> DEFINE Ends == {t \in Future(c) : ReplayEnds(c, stop, t)}
<1>1. c.t \in 1..Times /\ Times \in Nat
  BY BoundsAssumption DEF Candidate
<1>2. PICK end \in Nat : /\ c.t + 1 <= end /\ end <= Times
                         /\ Future(c) = (c.t + 1)..end /\ Max(Future(c)) = end
  BY FutureIsRange
<1>3. Future(c) \in SUBSET (0..Times) /\ Future(c) \subseteq (c.t + 1)..Times /\ end \in Future(c)
  BY <1>1, <1>2
<1>4. ReplayExit(c, stop) = IF Ends = {} THEN Max(Future(c)) ELSE Min(Ends)
  BY DEF ReplayExit
<1>5. Ends \subseteq Future(c)
  OBVIOUS
<1> HIDE DEF Ends
<1>6. CASE Ends = {}
  BY <1>2, <1>3, <1>4, <1>6
<1>7. CASE Ends # {}
  <2>1. Min(Ends) \in Ends
    BY <1>1, <1>3, <1>5, <1>7, MinIsLeast
  <2> QED
    BY <1>3, <1>4, <1>5, <1>7, <2>1
<1> QED
  BY <1>6, <1>7

Outcome == [c : Candidate, taken : BOOLEAN, why : Reasons, stop : Int, exit : 0..Times, r : Int]

LEMMA NumbersDivide ==
    ASSUME NEW a \in Int, NEW b \in Int, NEW d \in Int, d > 0
    PROVE  (a * b) \div d \in Int
<1>1. a * b \in Int
  OBVIOUS
<1> QED
  BY <1>1

\* A trade ends after its entry, with a return that is a number.
LEMMA SimulatedTypes ==
    ASSUME bars \in Paths, NEW c \in Candidate, c.t < Times
    PROVE  /\ Simulated(c) \in Outcome /\ Simulated(c).c = c /\ Simulated(c).taken = TRUE
           /\ Simulated(c).exit \in (c.t + 1)..Times
<1> DEFINE stop == ReplayStop(c)
           exit == ReplayExit(c, stop)
           price == ReplayPrice(c, stop, exit)
<1>1. c.t \in 1..Times /\ Times \in Nat /\ Target \in Nat /\ Unit \in Nat
  BY BoundsAssumption DEF Candidate
<1>2. c.t + 1 \in 1..Times
  BY <1>1
<1>3. Entry(c) \in Int /\ stop \in Int /\ stop < Entry(c)
  BY <1>2, StopBelowEntry DEF ReplayStop
<1> HIDE DEF stop
<1>4. exit \in (c.t + 1)..Times
  BY EndsInFuture
<1>5. Risk(c, stop) \in Int /\ Risk(c, stop) > 0
  BY <1>3 DEF Risk
<1>6. exit \in 1..Times
  BY <1>1, <1>4
<1> HIDE DEF exit
<1>7. Bar(c, exit).close \in Int
  BY <1>6, PricesAreNumbers
<1>8. TargetPrice(c, stop) \in Int
  BY <1>1, <1>3, <1>5 DEF TargetPrice
<1>9. price \in Int
  BY <1>3, <1>7, <1>8 DEF ReplayPrice
<1> HIDE DEF price
<1>10. R(c, stop, price) \in Int
  <2>1. price - Entry(c) \in Int /\ Unit \in Int
    BY <1>1, <1>3, <1>9
  <2> QED
    BY <2>1, <1>5, NumbersDivide DEF R
<1>11. Simulated(c) = [c |-> c, taken |-> TRUE, why |-> "taken", stop |-> stop, exit |-> exit,
                       r |-> R(c, stop, price)]
  BY DEF Simulated, stop, exit, price
<1>12. exit \in 0..Times /\ "taken" \in Reasons
  BY <1>6, <1>1 DEF Reasons
<1> QED
  BY <1>3, <1>4, <1>10, <1>11, <1>12 DEF Outcome

\* The replay looks at the time limit as well as at the stop and the target; its bars end
\* there, so that it ends a trade where the label ends it.
LEMMA ExitsAgree ==
    ASSUME NEW c \in Candidate, c.t < Times, ~cfg.flat, ReplayStop(c) = LabelStop(c)
    PROVE  ReplayExit(c, ReplayStop(c)) = LabelExit(c)
<1> DEFINE stop == LabelStop(c)
           Hits == {t \in Future(c) : StopHit(c, stop, t) \/ TargetHit(c, stop, t)}
           Ends == {t \in Future(c) : ReplayEnds(c, stop, t)}
           last == c.t + 1 + Hold
<1>1. c.t \in 1..Times /\ Times \in Nat /\ Hold \in Nat
  BY BoundsAssumption DEF Candidate
<1>2. PICK end \in Nat : /\ c.t + 1 <= end /\ end <= Times /\ end <= last
                         /\ Future(c) = (c.t + 1)..end /\ Max(Future(c)) = end
  BY FutureIsRange
<1>3. LabelExit(c) = IF Hits = {} THEN end ELSE Min(Hits)
  BY <1>2 DEF LabelExit
<1>4. ReplayExit(c, ReplayStop(c)) = IF Ends = {} THEN end ELSE Min(Ends)
  BY <1>2 DEF ReplayExit
<1>5. Ends = Hits \union {t \in Future(c) : t = last}
  BY DEF ReplayEnds, SessionEnds
<1>6. {t \in Future(c) : t = last} \subseteq {end}
  BY <1>1, <1>2
<1>7. /\ Hits \subseteq Future(c) /\ Hits \subseteq Ends /\ Ends \subseteq Hits \union {end}
      /\ Future(c) \in SUBSET (0..Times) /\ \A t \in Future(c) : t <= end
  BY <1>1, <1>2, <1>5, <1>6
<1> HIDE DEF Hits, Ends, last, stop
<1>8. CASE Hits = {} /\ Ends = {}
  BY <1>3, <1>4, <1>8
<1>9. CASE Hits = {} /\ Ends # {}
  <2>1. Min(Ends) \in Ends
    BY <1>1, <1>7, <1>9, MinIsLeast
  <2> QED
    BY <1>3, <1>4, <1>7, <1>9, <2>1
<1>10. CASE Hits # {}
  <2>1. Ends # {} /\ Ends \in SUBSET (0..Times) /\ Hits \in SUBSET (0..Times)
    BY <1>2, <1>7, <1>10, <1>1
  <2>2. Min(Ends) \in Ends /\ \A y \in Ends : Min(Ends) <= y
    BY <1>1, <2>1, MinIsLeast
  <2>3. Min(Hits) \in Hits /\ \A y \in Hits : Min(Hits) <= y
    BY <1>1, <1>10, <2>1, MinIsLeast
  <2>4. Min(Hits) <= end /\ Min(Ends) <= Min(Hits) /\ Min(Hits) \in Nat /\ Min(Ends) \in Nat
    <3>1. Min(Hits) \in Future(c) /\ Min(Hits) \in Ends
      BY <1>7, <2>3
    <3>2. Min(Hits) \in 0..Times /\ Min(Ends) \in 0..Times
      BY <3>1, <2>1, <2>2
    <3> QED
      BY <1>7, <2>2, <3>1, <3>2
  <2>5. CASE Min(Ends) \in Hits
    <3>1. Min(Hits) <= Min(Ends)
      BY <2>3, <2>5
    <3>2. Min(Hits) = Min(Ends)
      BY <3>1, <2>4
    <3> QED
      BY <3>2, <1>3, <1>4, <1>10, <2>1
  <2>6. CASE Min(Ends) \notin Hits
    <3>1. Min(Ends) = end
      BY <1>7, <2>2, <2>6
    <3>2. Min(Hits) = Min(Ends)
      BY <3>1, <2>4
    <3> QED
      BY <3>2, <1>3, <1>4, <1>10, <2>1
  <2> QED
    BY <2>5, <2>6
<1> QED
  BY <1>8, <1>9, <1>10

LEMMA ReturnsAgree ==
    ASSUME NEW c \in Candidate, c.t < Times, ~cfg.flat, cfg.conservative, ReplayStop(c) = LabelStop(c)
    PROVE  Simulated(c).exit = LabelExit(c) /\ Simulated(c).r = LabelR(c)
<1> DEFINE stop == LabelStop(c)
           t == LabelExit(c)
<1>1. ReplayStop(c) = stop /\ ReplayExit(c, ReplayStop(c)) = t
  BY ExitsAgree
<1>2. ReplayPrice(c, stop, t) =
        IF StopHit(c, stop, t) THEN stop
        ELSE IF TargetHit(c, stop, t) THEN TargetPrice(c, stop) ELSE Bar(c, t).close
  BY DEF ReplayPrice
<1>3. LabelR(c) = R(c, stop, ReplayPrice(c, stop, t))
  BY <1>2 DEF LabelR
<1> HIDE DEF stop, t
<1>4. Simulated(c).exit = t /\ Simulated(c).r = R(c, stop, ReplayPrice(c, stop, t))
  BY <1>1 DEF Simulated
<1> QED
  BY <1>3, <1>4 DEF t

-----------------------------------------------------------------------------
(* The rules. *)

\* The conditions of the rules that look at the trades before.
Cools(c) == cfg.portfolio /\ c.t <= cool
Overlaps(c) == cfg.overlap /\ ~cfg.allow /\ Cardinality(Active(c.t)) >= cfg.perSymbol
Full(c) == cfg.portfolio /\ Cardinality(Active(c.t)) >= cfg.inAll
Waits(c) == cfg.overlap /\ cfg.onePerSetup /\ c.t <= until[c.setup]
Blocked(c) == Cools(c) \/ Overlaps(c) \/ Full(c) \/ Waits(c)

\* A candidate that no rule skips is one that meets none of their conditions; no rule gives
\* a reason of its own to the decisions that are not theirs.
LEMMA RulesDecide ==
    ASSUME NEW c \in Candidate
    PROVE  /\ SkipReason(c) = "none" <=>
                ~((cfg.rth /\ c.t >= Close) \/ c.t \in cfg.filtered \/ Blocked(c))
           /\ SkipReason(c) # "none" =>
                SkipReason(c) \in Reasons \ {"taken", "duplicate_candidate", "missing_entry_bar"}
<1> DEFINE rules == Rules(c)
           hits == {i \in DOMAIN rules : rules[i][2]}
<1>1. /\ DOMAIN rules = 1..6
      /\ rules[1] = <<"outside_session", cfg.rth /\ c.t >= Close>>
      /\ rules[2] = <<"regime_filter_block", c.t \in cfg.filtered>>
      /\ rules[3] = <<"cooldown_active", Cools(c)>>
      /\ rules[4] = <<"overlapping_trade", Overlaps(c)>>
      /\ rules[5] = <<"portfolio_trade_limit", Full(c)>>
      /\ rules[6] = <<"overlapping_trade", Waits(c)>>
  BY DEF Rules, Cools, Overlaps, Full, Waits
<1>2. SkipReason(c) = IF hits = {} THEN "none" ELSE rules[Min(hits)][1]
  BY DEF SkipReason
<1> HIDE DEF rules
<1>3. \A i \in 1..6 : /\ rules[i][1] \in Reasons \ {"taken", "duplicate_candidate", "missing_entry_bar"}
                     /\ rules[i][1] # "none"
  BY <1>1 DEF Reasons
<1>4. hits = {} <=> ~((cfg.rth /\ c.t >= Close) \/ c.t \in cfg.filtered \/ Blocked(c))
  <2>1. hits = {} <=> ~(rules[1][2] \/ rules[2][2] \/ rules[3][2] \/ rules[4][2] \/ rules[5][2] \/ rules[6][2])
    BY <1>1
  <2>2. rules[1][2] = (cfg.rth /\ c.t >= Close) /\ rules[2][2] = (c.t \in cfg.filtered)
    BY <1>1
  <2>3. rules[3][2] = Cools(c) /\ rules[4][2] = Overlaps(c)
    BY <1>1
  <2>4. rules[5][2] = Full(c) /\ rules[6][2] = Waits(c)
    BY <1>1
  <2> QED
    BY <2>1, <2>2, <2>3, <2>4 DEF Blocked, Cools, Overlaps, Full, Waits
<1>5. hits # {} => Min(hits) \in 1..6
  <2>1. hits \in SUBSET (0..6) /\ hits \subseteq 1..6
    BY <1>1
  <2> HIDE DEF hits
  <2> QED
    BY <2>1, MinIsLeast
<1> HIDE DEF hits
<1> QED
  BY <1>2, <1>3, <1>4, <1>5

-----------------------------------------------------------------------------
(* The inductive invariant. *)

\* The places of the trades that were taken.
Places == {k \in DOMAIN trades : trades[k].taken}

\* A trade that was taken is what its candidate simulates to.
TakenAreSimulated ==
    \A k \in Places : trades[k].c.t < Times /\ trades[k] = Simulated(trades[k].c)

\* The trades that are not in the list have ended by the time of some candidate.
OpenRemembers ==
    /\ open \subseteq Places
    /\ \A j \in Places \ open : \E k \in DOMAIN trades : trades[j].exit <= trades[k].c.t

\* What is remembered of a setup is the exit of a trade of it, and where setups wait for
\* their exits, the last one.
UntilRemembers ==
    /\ \A s \in Setups : until[s] = Never \/ \E j \in Places : trades[j].c.setup = s /\ trades[j].exit = until[s]
    /\ (cfg.overlap /\ cfg.onePerSetup) => \A j \in Places : trades[j].exit <= until[trades[j].c.setup]

\* The cooldown is that of a trade, and where cooldowns count, the one that ends last.
CoolRemembers ==
    /\ cool = Never \/ \E j \in Places : Cooldown(trades[j]) > 0 /\ cool = trades[j].exit + Cooldown(trades[j])
    /\ cfg.portfolio => \A j \in Places :
        Cooldown(trades[j]) > 0 => trades[j].exit + Cooldown(trades[j]) <= cool

Memory == ~cfg.counterfactual => OpenRemembers /\ UntilRemembers /\ CoolRemembers

ReplayInv == TypeOK /\ TakenAreSimulated /\ Memory /\ WithinLimits /\ DecidesOnThePast

-----------------------------------------------------------------------------
(* Steps. *)

\* A candidate that is skipped, for one of the three kinds of reasons, or taken.
Skips(c, x) ==
    /\ x.taken = FALSE /\ Forgets
    /\ x.why = "duplicate_candidate" \/ c.t = Times \/ SkipReason(c) # "none"
Takes(c, x) == SkipReason(c) = "none" /\ c.t < Times /\ x = Simulated(c) /\ Remembers(x)
Decides(c, x) == Comes(c) /\ x.c = c /\ Decided(x) /\ (Skips(c, x) \/ Takes(c, x))

LEMMA EveryStepDecides ==
    ASSUME TypeOK, Next
    PROVE  \E c \in Candidate : \E x \in Outcome : Decides(c, x)
<1>1. PICK c \in Candidate : SkipDuplicate(c) \/ SkipByRule(c) \/ SkipNoEntry(c) \/ Take(c)
  BY DEF Next
<1>2. \A why \in Reasons : /\ Skipped(c, why) \in Outcome /\ Skipped(c, why).c = c
                           /\ Skipped(c, why).taken = FALSE /\ Skipped(c, why).why = why
  BY BoundsAssumption DEF Skipped, Outcome, Never
<1>3. CASE SkipDuplicate(c)
  <2>1. "duplicate_candidate" \in Reasons
    BY DEF Reasons
  <2> DEFINE x == Skipped(c, "duplicate_candidate")
  <2>2. x \in Outcome /\ x.c = c /\ x.taken = FALSE /\ x.why = "duplicate_candidate"
    BY <1>2, <2>1
  <2>3. Comes(c) /\ Decided(x) /\ Forgets
    BY <1>3 DEF SkipDuplicate
  <2> HIDE DEF x
  <2> QED
    BY <2>2, <2>3 DEF Decides, Skips
<1>4. CASE SkipByRule(c)
  <2> DEFINE x == Skipped(c, SkipReason(c))
  <2>1. SkipReason(c) # "none" /\ Comes(c) /\ Decided(x) /\ Forgets
    BY <1>4 DEF SkipByRule
  <2>2. x \in Outcome /\ x.c = c /\ x.taken = FALSE
    BY <1>2, <2>1, RulesDecide
  <2> HIDE DEF x
  <2> QED
    BY <2>1, <2>2 DEF Decides, Skips
<1>5. CASE SkipNoEntry(c)
  <2>1. "missing_entry_bar" \in Reasons
    BY DEF Reasons
  <2> DEFINE x == Skipped(c, "missing_entry_bar")
  <2>2. x \in Outcome /\ x.c = c /\ x.taken = FALSE
    BY <1>2, <2>1
  <2>3. Comes(c) /\ Decided(x) /\ Forgets /\ c.t = Times
    BY <1>5 DEF SkipNoEntry
  <2> HIDE DEF x
  <2> QED
    BY <2>2, <2>3 DEF Decides, Skips
<1>6. CASE Take(c)
  <2> DEFINE x == Simulated(c)
  <2>1. Comes(c) /\ SkipReason(c) = "none" /\ c.t < Times /\ Decided(x) /\ Remembers(x)
    BY <1>6 DEF Take
  <2>2. x \in Outcome /\ x.c = c
    BY <2>1, SimulatedTypes DEF TypeOK
  <2> QED
    BY <2>1, <2>2 DEF Decides, Takes
<1> QED
  BY <1>1, <1>3, <1>4, <1>5, <1>6

\* The places of a sequence with one outcome more.
LEMMA OneMore ==
    ASSUME TypeOK, NEW x \in Outcome, Decided(x)
    PROVE  /\ Len(trades) \in Nat /\ DOMAIN trades = 1..Len(trades)
           /\ trades' \in Seq(Outcome) /\ DOMAIN trades' = 1..(Len(trades) + 1)
           /\ \A k \in 1..Len(trades) : trades'[k] = trades[k] /\ trades[k] \in Outcome
           /\ trades'[Len(trades) + 1] = x
<1>1. trades \in Seq(Outcome) /\ trades' = Append(trades, x)
  BY DEF TypeOK, Outcome, Decided
<1> QED
  BY <1>1

\* A candidate simulates to the same over the same bars.
LEMMA SimulatedStays ==
    ASSUME UNCHANGED <<bars, cfg>>, NEW c
    PROVE  Simulated(c)' = Simulated(c)
<1>1. bars' = bars /\ cfg' = cfg
  OBVIOUS
<1>2. \A t : Bar(c, t)' = Bar(c, t)
  BY <1>1 DEF Bar
<1>3. Entry(c)' = Entry(c)
  BY <1>2 DEF Entry
<1>4. ReplayStop(c)' = ReplayStop(c)
  BY <1>2, <1>3 DEF ReplayStop, Stop
<1>5. \A stop, t : /\ StopHit(c, stop, t)' <=> StopHit(c, stop, t)
                   /\ TargetHit(c, stop, t)' <=> TargetHit(c, stop, t)
                   /\ TargetPrice(c, stop)' = TargetPrice(c, stop)
  BY <1>2, <1>3 DEF StopHit, TargetHit, TargetPrice, Risk
<1>6. \A stop, t : ReplayEnds(c, stop, t)' <=> ReplayEnds(c, stop, t)
  BY <1>1, <1>5 DEF ReplayEnds, SessionEnds
<1>7. \A stop : ReplayExit(c, stop)' = ReplayExit(c, stop)
  BY <1>6 DEF ReplayExit, Future
<1>8. \A stop, t : ReplayPrice(c, stop, t)' = ReplayPrice(c, stop, t)
  BY <1>1, <1>2, <1>5 DEF ReplayPrice
<1>9. \A stop, price : R(c, stop, price)' = R(c, stop, price)
  BY <1>3 DEF R, Risk
<1> QED
  BY <1>4, <1>7, <1>8, <1>9 DEF Simulated

\* What a cooldown adds is a number that the configuration alone decides.
LEMMA Cooldowns ==
    ASSUME TypeOK, NEW x \in Outcome, cfg' = cfg
    PROVE  Cooldown(x) \in Int /\ Cooldown(x)' = Cooldown(x)
<1>1. cfg.afterLoss \in Int /\ cfg.afterTrade \in Int
  BY ConfigTypes DEF TypeOK
<1> QED
  BY <1>1 DEF Cooldown

LEMMA TypeStep ==
    ASSUME TypeOK, NEW c \in Candidate, NEW x \in Outcome, Decides(c, x)
    PROVE  TypeOK'
<1>1. /\ Decided(x) /\ x.c = c
      /\ UNCHANGED <<bars, cfg>>
  BY DEF Decides, Decided
<1>2. /\ Len(trades) \in Nat /\ DOMAIN trades = 1..Len(trades)
      /\ trades' \in Seq(Outcome) /\ DOMAIN trades' = 1..(Len(trades) + 1)
  BY <1>1, OneMore
<1>3. DOMAIN trades \subseteq DOMAIN trades' /\ Len(trades) + 1 \in DOMAIN trades'
  BY <1>2
<1>4. open \subseteq DOMAIN trades /\ until \in [Setups -> 0..Times] /\ cool \in Nat
  BY DEF TypeOK
<1>5. open' \subseteq DOMAIN trades' /\ until' \in [Setups -> 0..Times] /\ cool' \in Nat
  <2>1. CASE Forgets
    BY <1>3, <1>4, <2>1 DEF Forgets
  <2>2. CASE ~Forgets
    <3>1. /\ open' = Active(x.c.t) \union {Len(trades) + 1}
          /\ until' = [until EXCEPT ![x.c.setup] = x.exit]
          /\ cool' = IF Cooldown(x) > 0 THEN x.exit + Cooldown(x) ELSE cool
      BY <2>2 DEF Decides, Skips, Takes, Remembers
    <3>2. Active(x.c.t) \subseteq open
      BY DEF Active
    <3>3. x.exit \in 0..Times /\ x.c.setup \in Setups /\ Times \in Nat
      BY <1>1, BoundsAssumption DEF Outcome, Candidate
    <3>4. Cooldown(x) \in Int
      BY <1>1, Cooldowns
    <3>5. cool' \in Nat
      BY <1>4, <3>1, <3>3, <3>4
    <3> QED
      BY <1>3, <1>4, <3>1, <3>2, <3>3, <3>5
  <2> QED
    BY <2>1, <2>2
<1>6. bars' \in Paths /\ cfg' \in ReplayConfigs
  BY <1>1 DEF TypeOK
<1> QED
  BY <1>2, <1>5, <1>6 DEF TypeOK, Outcome

\* The trades that were taken, after a step.
LEMMA PlacesStep ==
    ASSUME TypeOK, NEW c \in Candidate, NEW x \in Outcome, Decides(c, x)
    PROVE  /\ Places \subseteq 1..Len(trades)
           /\ x.taken = FALSE => Places' = Places
           /\ x.taken = TRUE => Places' = Places \union {Len(trades) + 1}
<1>1. Decided(x)
  BY DEF Decides
<1>2. /\ Len(trades) \in Nat /\ DOMAIN trades = 1..Len(trades)
      /\ DOMAIN trades' = 1..(Len(trades) + 1)
      /\ \A k \in 1..Len(trades) : trades'[k] = trades[k]
      /\ trades'[Len(trades) + 1] = x
  BY <1>1, OneMore
<1>3. DOMAIN trades' = DOMAIN trades \union {Len(trades) + 1}
  BY <1>2
<1>4. Places \subseteq 1..Len(trades)
  BY <1>2 DEF Places
<1>5. Places' = Places \union {k \in {Len(trades) + 1} : x.taken}
  BY <1>2, <1>3 DEF Places
<1> QED
  BY <1>4, <1>5

LEMMA SimulatedStep ==
    ASSUME TypeOK, TakenAreSimulated, NEW c \in Candidate, NEW x \in Outcome, Decides(c, x)
    PROVE  TakenAreSimulated'
<1>1. Decided(x) /\ x.c = c /\ UNCHANGED <<bars, cfg>>
  BY DEF Decides, Decided
<1>2. /\ Len(trades) \in Nat
      /\ \A k \in 1..Len(trades) : trades'[k] = trades[k]
      /\ trades'[Len(trades) + 1] = x
  BY <1>1, OneMore
<1> SUFFICES ASSUME NEW k \in Places'
             PROVE  (trades[k].c.t < Times /\ trades[k] = Simulated(trades[k].c))'
  BY DEF TakenAreSimulated
<1>3. CASE k \in Places
  <2>1. trades'[k] = trades[k] /\ trades[k].c.t < Times /\ trades[k] = Simulated(trades[k].c)
    BY <1>2, <1>3, PlacesStep DEF TakenAreSimulated
  <2> PICK d : d = trades[k].c
    OBVIOUS
  <2>2. Simulated(d)' = Simulated(d)
    BY <1>1, SimulatedStays
  <2> QED
    BY <2>1, <2>2
<1>4. CASE k \notin Places
  <2>1. k = Len(trades) + 1 /\ x.taken = TRUE
    BY <1>4, PlacesStep DEF Outcome
  <2>2. c.t < Times /\ x = Simulated(c)
    BY <2>1 DEF Decides, Skips, Takes
  <2>3. Simulated(c)' = Simulated(c)
    BY <1>1, SimulatedStays
  <2> QED
    BY <1>1, <1>2, <2>1, <2>2, <2>3
<1> QED
  BY <1>3, <1>4

\* A candidate that is skipped leaves what is remembered as it is.
LEMMA MemorySkip ==
    ASSUME TypeOK, Memory, NEW c \in Candidate, NEW x \in Outcome, Decides(c, x), x.taken = FALSE
    PROVE  Memory'
<1>1. Decided(x) /\ cfg' = cfg /\ Places' = Places /\ Places \subseteq 1..Len(trades)
  BY PlacesStep DEF Decides, Decided
<1>2. open' = open /\ until' = until /\ cool' = cool
  <2>1. x # Simulated(c)
    BY DEF Simulated
  <2> QED
    BY <2>1 DEF Decides, Skips, Takes, Forgets
<1>3. /\ DOMAIN trades \subseteq DOMAIN trades' /\ DOMAIN trades = 1..Len(trades)
      /\ \A k \in 1..Len(trades) : trades'[k] = trades[k] /\ trades[k] \in Outcome
  BY <1>1, OneMore
<1>4. \A k \in 1..Len(trades) : Cooldown(trades[k])' = Cooldown(trades[k])
  <2> SUFFICES ASSUME NEW k \in 1..Len(trades)
               PROVE  Cooldown(trades[k])' = Cooldown(trades[k])
    OBVIOUS
  <2> PICK y \in Outcome : y = trades[k]
    BY <1>3
  <2> QED
    BY <1>1, <1>3, Cooldowns
<1> SUFFICES ASSUME ~cfg.counterfactual
             PROVE  OpenRemembers' /\ UntilRemembers' /\ CoolRemembers'
  BY <1>1 DEF Memory
<1>5. OpenRemembers /\ UntilRemembers /\ CoolRemembers
  BY DEF Memory
<1>6. OpenRemembers'
  BY <1>1, <1>2, <1>3, <1>5 DEF OpenRemembers
<1>7. UntilRemembers'
  <2>1. \A j \in Places : trades'[j] = trades[j]
    BY <1>1, <1>3
  <2>2. \A s \in Setups :
            until'[s] = Never \/ \E j \in Places' : trades'[j].c.setup = s /\ trades'[j].exit = until'[s]
    BY <1>1, <1>2, <1>5, <2>1 DEF UntilRemembers
  <2>3. (cfg'.overlap /\ cfg'.onePerSetup) => \A j \in Places' : trades'[j].exit <= until'[trades'[j].c.setup]
    BY <1>1, <1>2, <1>5, <2>1 DEF UntilRemembers
  <2> QED
    BY <2>2, <2>3 DEF UntilRemembers
<1>8. CoolRemembers'
  BY <1>1, <1>2, <1>3, <1>4, <1>5 DEF CoolRemembers
<1> QED
  BY <1>6, <1>7, <1>8

\* One that is taken comes after the exits that the rules would have waited for, and ends
\* after it comes: where exits decide, its own is the last.
LEMMA MemoryTake ==
    ASSUME TypeOK, Memory, NEW c \in Candidate, NEW x \in Outcome, Decides(c, x), x.taken = TRUE
    PROVE  Memory'
<1>0. Len(trades) \in Nat
  BY DEF TypeOK
<1>n. PICK n \in Nat : n = Len(trades) + 1
  BY <1>0
<1>1. /\ Decided(x) /\ x.c = c /\ cfg' = cfg /\ Places \subseteq 1..Len(trades)
      /\ Places' = Places \union {n}
  BY <1>n, PlacesStep DEF Decides, Decided
<1>2. Takes(c, x) /\ Comes(c)
  BY DEF Decides, Skips
<1>3. /\ Len(trades) \in Nat /\ DOMAIN trades = 1..Len(trades)
      /\ DOMAIN trades' = 1..n /\ trades'[n] = x
      /\ \A k \in 1..Len(trades) : trades'[k] = trades[k] /\ trades[k] \in Outcome
  BY <1>1, <1>n, OneMore
<1>4. \A k \in 1..Len(trades) : Cooldown(trades[k])' = Cooldown(trades[k]) /\ Cooldown(trades[k]) \in Int
  <2> SUFFICES ASSUME NEW k \in 1..Len(trades)
               PROVE  Cooldown(trades[k])' = Cooldown(trades[k]) /\ Cooldown(trades[k]) \in Int
    OBVIOUS
  <2> PICK y \in Outcome : y = trades[k]
    BY <1>3
  <2> QED
    BY <1>1, <1>3, Cooldowns
<1>5. Cooldown(trades[n])' = Cooldown(x) /\ Cooldown(x) \in Int
  BY <1>1, <1>3, Cooldowns
<1>6. c.t \in 1..Times /\ c.setup \in Setups /\ Times \in Nat /\ x.exit \in (c.t + 1)..Times
  BY <1>2, BoundsAssumption, SimulatedTypes DEF Candidate, TypeOK, Takes
<1>7. ~Blocked(c)
  BY <1>2, RulesDecide DEF Takes
<1>8. \A k \in Places : trades[k].exit \in 0..Times /\ trades[k].c.setup \in Setups /\ trades[k].c.t \in 1..Times
  BY <1>1, <1>3 DEF Outcome, Candidate
<1>9. cool \in Nat /\ until \in [Setups -> 0..Times]
  BY DEF TypeOK
<1> SUFFICES ASSUME ~cfg.counterfactual
             PROVE  OpenRemembers' /\ UntilRemembers' /\ CoolRemembers'
  BY <1>1 DEF Memory
<1>10. OpenRemembers /\ UntilRemembers /\ CoolRemembers
  BY DEF Memory
<1>11. /\ open' = Active(c.t) \union {n}
       /\ until' = [until EXCEPT ![c.setup] = x.exit]
       /\ cool' = IF Cooldown(x) > 0 THEN x.exit + Cooldown(x) ELSE cool
  BY <1>1, <1>2, <1>n DEF Takes, Remembers
<1>12. OpenRemembers'
  <2>1. open' \subseteq Places'
    BY <1>1, <1>10, <1>11 DEF Active, OpenRemembers
  <2>2. ASSUME NEW j \in Places', j \notin open'
        PROVE  \E k \in DOMAIN trades' : trades'[j].exit <= trades'[k].c.t
    <3>1. j \in Places /\ j \notin Active(c.t)
      BY <1>1, <1>11, <2>2
    <3>2. trades'[j] = trades[j]
      BY <1>1, <1>3, <3>1
    <3>3. CASE j \in open
      <4>1. trades[j].exit <= c.t
        BY <1>6, <1>8, <3>1, <3>3 DEF Active
      <4>2. n \in DOMAIN trades'
        BY <1>3, <1>n
      <4> QED
        BY <1>1, <1>3, <3>2, <4>1, <4>2
    <3>4. CASE j \notin open
      <4>1. PICK k \in DOMAIN trades : trades[j].exit <= trades[k].c.t
        BY <1>10, <3>1, <3>4 DEF OpenRemembers
      <4>2. k \in DOMAIN trades' /\ trades'[k] = trades[k]
        BY <1>3, <1>n
      <4> QED
        BY <3>2, <4>1, <4>2
    <3> QED
      BY <3>3, <3>4
  <2> QED
    BY <2>1, <2>2 DEF OpenRemembers
<1>13. UntilRemembers'
  <2>1. ASSUME NEW s \in Setups
        PROVE  until'[s] = Never \/ \E j \in Places' : trades'[j].c.setup = s /\ trades'[j].exit = until'[s]
    <3>1. CASE s = c.setup
      BY <1>1, <1>3, <1>9, <1>11, <3>1
    <3>2. CASE s # c.setup
      <4>1. until'[s] = until[s]
        BY <1>9, <1>11, <3>2
      <4>2. until[s] = Never \/ \E j \in Places : trades[j].c.setup = s /\ trades[j].exit = until[s]
        BY <1>10 DEF UntilRemembers
      <4>3. \A j \in Places : j \in Places' /\ trades'[j] = trades[j]
        BY <1>1, <1>3
      <4> QED
        BY <4>1, <4>2, <4>3
    <3> QED
      BY <3>1, <3>2
  <2>2. ASSUME cfg.overlap, cfg.onePerSetup, NEW j \in Places'
        PROVE  trades'[j].exit <= until'[trades'[j].c.setup]
    <3>1. CASE j = n
      BY <1>1, <1>3, <1>6, <1>9, <1>11, <3>1
    <3>2. CASE j # n
      <4>1. j \in Places /\ trades'[j] = trades[j] /\ trades[j].exit <= until[trades[j].c.setup]
        BY <1>1, <1>3, <1>10, <2>2, <3>2 DEF UntilRemembers
      <4>2. ~(c.t <= until[c.setup])
        BY <1>7, <2>2 DEF Blocked, Waits
      <4>3. CASE trades[j].c.setup = c.setup
        BY <1>6, <1>8, <1>9, <1>11, <4>1, <4>2, <4>3
      <4>4. CASE trades[j].c.setup # c.setup
        BY <1>8, <1>9, <1>11, <4>1, <4>4
      <4> QED
        BY <4>3, <4>4
    <3> QED
      BY <3>1, <3>2
  <2> QED
    BY <1>1, <2>1, <2>2 DEF UntilRemembers
<1>14. CoolRemembers'
  <2>1. \/ cool' = Never
        \/ \E j \in Places' : Cooldown(trades[j])' > 0 /\ cool' = trades'[j].exit + Cooldown(trades[j])'
    <3>1. CASE Cooldown(x) > 0
      BY <1>1, <1>3, <1>5, <1>11, <3>1
    <3>2. CASE ~(Cooldown(x) > 0)
      BY <1>1, <1>3, <1>4, <1>10, <1>11, <3>2 DEF CoolRemembers
    <3> QED
      BY <3>1, <3>2
  <2>2. ASSUME cfg.portfolio, NEW j \in Places', Cooldown(trades[j])' > 0
        PROVE  trades'[j].exit + Cooldown(trades[j])' <= cool'
    <3>1. CASE j = n
      BY <1>1, <1>3, <1>5, <1>6, <1>11, <2>2, <3>1
    <3>2. CASE j # n
      <4>1. j \in Places /\ trades'[j] = trades[j] /\ Cooldown(trades[j])' = Cooldown(trades[j])
        BY <1>1, <1>3, <1>4, <3>2
      <4>2. trades[j].exit + Cooldown(trades[j]) <= cool
        BY <1>10, <2>2, <4>1 DEF CoolRemembers
      <4>3. cool < c.t
        BY <1>6, <1>7, <1>9, <2>2 DEF Blocked, Cools
      <4>4. cool <= cool'
        BY <1>5, <1>6, <1>9, <1>11, <4>3
      <4>5. cool' \in Int /\ trades[j].exit \in Int /\ Cooldown(trades[j]) \in Int
        BY <1>1, <1>4, <1>5, <1>6, <1>8, <1>9, <1>11, <4>1
      <4> QED
        BY <1>9, <4>1, <4>2, <4>4, <4>5
    <3> QED
      BY <3>1, <3>2
  <2> QED
    BY <1>1, <2>1, <2>2 DEF CoolRemembers
<1> QED
  BY <1>12, <1>13, <1>14

-----------------------------------------------------------------------------
(* The limits. *)

\* The trades that are open between t and the next bar.
Held(t) == {k \in DOMAIN trades : trades[k].taken /\ trades[k].c.t <= t /\ t < trades[k].exit}

\* The rules count all trades that are open at the time of a candidate.
LEMMA ActiveAreOpen ==
    ASSUME TypeOK, OpenRemembers, NEW c \in Candidate, Comes(c)
    PROVE  /\ Active(c.t) = {k \in Places : trades[k].exit > c.t}
           /\ IsFiniteSet(Active(c.t)) /\ Cardinality(Active(c.t)) \in Nat
<1>1. /\ DOMAIN trades = 1..Len(trades) /\ Len(trades) \in Nat /\ c.t \in 1..Times /\ Times \in Nat
      /\ \A k \in DOMAIN trades : trades[k] \in Outcome
  <2>1. trades \in Seq(Outcome)
    BY DEF TypeOK, Outcome
  <2> QED
    BY <2>1, BoundsAssumption DEF Candidate
<1>2. \A k \in DOMAIN trades : trades[k].exit \in 0..Times /\ trades[k].c.t \in 1..Times
  BY <1>1 DEF Outcome, Candidate
<1>3. ASSUME NEW k \in Places, k \notin open PROVE ~(trades[k].exit > c.t)
  <2>1. PICK j \in DOMAIN trades : trades[k].exit <= trades[j].c.t
    BY <1>3 DEF OpenRemembers
  <2>2. trades[j].c.t <= c.t
    BY DEF Comes
  <2> QED
    BY <1>1, <1>2, <2>1, <2>2 DEF Places
<1>4. Active(c.t) = {k \in Places : trades[k].exit > c.t}
  BY <1>3 DEF Active, OpenRemembers
<1>5. Active(c.t) \subseteq 1..Len(trades)
  BY <1>1, <1>4 DEF Places
<1>6. IsFiniteSet(1..Len(trades))
  BY <1>1, FS_Interval
<1>7. IsFiniteSet(Active(c.t))
  BY <1>5, <1>6, FS_Subset
<1> QED
  BY <1>4, <1>7, FS_CardinalityType

LEMMA LimitsSkip ==
    ASSUME TypeOK, WithinLimits, NEW c \in Candidate, NEW x \in Outcome, Decides(c, x), x.taken = FALSE
    PROVE  WithinLimits'
<1>1. Decided(x) /\ cfg' = cfg
  BY DEF Decides, Decided
<1>2. /\ Len(trades) \in Nat /\ DOMAIN trades = 1..Len(trades) /\ DOMAIN trades' = 1..(Len(trades) + 1)
      /\ \A k \in 1..Len(trades) : trades'[k] = trades[k]
      /\ trades'[Len(trades) + 1] = x
  BY <1>1, OneMore
<1>3. \A t \in 1..Times : Held(t)' = Held(t)
  <2>1. DOMAIN trades' = DOMAIN trades \union {Len(trades) + 1}
    BY <1>2
  <2> QED
    BY <1>2, <2>1 DEF Held
<1>4. \A k \in DOMAIN trades' : trades'[k].taken => k \in DOMAIN trades /\ trades'[k] = trades[k]
  BY <1>2
<1>5. ASSUME ~cfg'.counterfactual, NEW t \in 1..Times
      PROVE  /\ (cfg'.overlap /\ ~cfg'.allow) => Held(t)' = {} \/ Cardinality(Held(t)') <= cfg'.perSymbol
             /\ cfg'.portfolio => Held(t)' = {} \/ Cardinality(Held(t)') <= cfg'.inAll
  BY <1>1, <1>3, <1>5 DEF WithinLimits, Held
<1>6. ASSUME ~cfg'.counterfactual, cfg'.overlap, cfg'.onePerSetup,
             NEW j \in DOMAIN trades', NEW k \in DOMAIN trades', j < k, trades'[j].taken, trades'[k].taken, trades'[j].c.setup = trades'[k].c.setup
      PROVE  trades'[j].exit < trades'[k].c.t
  BY <1>1, <1>4, <1>6 DEF WithinLimits
<1> QED
  BY <1>5, <1>6 DEF WithinLimits, Held

LEMMA LimitsTake ==
    ASSUME TypeOK, Memory, WithinLimits,
           NEW c \in Candidate, NEW x \in Outcome, Decides(c, x), x.taken = TRUE
    PROVE  WithinLimits'
<1>0. Len(trades) \in Nat
  BY DEF TypeOK
<1>n. PICK n \in Nat : n = Len(trades) + 1
  BY <1>0
<1>1. Decided(x) /\ x.c = c /\ cfg' = cfg /\ Takes(c, x) /\ Comes(c)
  BY DEF Decides, Decided, Skips
<1>2. /\ DOMAIN trades = 1..Len(trades) /\ DOMAIN trades' = 1..n
      /\ \A k \in 1..Len(trades) : trades'[k] = trades[k] /\ trades[k] \in Outcome
      /\ trades'[n] = x
  BY <1>1, <1>n, OneMore
<1>3. DOMAIN trades' = DOMAIN trades \union {n} /\ n \notin DOMAIN trades
  BY <1>0, <1>2, <1>n
<1>4. c.t \in 1..Times /\ c.setup \in Setups /\ Times \in Nat
  BY BoundsAssumption DEF Candidate
<1>5. \A k \in DOMAIN trades : /\ trades[k].exit \in 0..Times /\ trades[k].c.setup \in Setups
                               /\ trades[k].c.t \in 1..Times /\ trades[k].c.t <= c.t
  BY <1>1, <1>2 DEF Outcome, Candidate, Comes
<1>6. ~Blocked(c)
  BY <1>1, RulesDecide DEF Takes
<1>7. cfg.perSymbol \in Int /\ cfg.inAll \in Int /\ until \in [Setups -> 0..Times]
  BY ConfigTypes DEF TypeOK
<1> SUFFICES ASSUME ~cfg.counterfactual PROVE WithinLimits'
  BY <1>1 DEF WithinLimits
<1>8. OpenRemembers /\ UntilRemembers
  BY DEF Memory
<1>9. /\ Active(c.t) = {k \in Places : trades[k].exit > c.t}
      /\ IsFiniteSet(Active(c.t)) /\ Cardinality(Active(c.t)) \in Nat
  BY <1>1, <1>8, ActiveAreOpen
<1>10. Cardinality(Active(c.t) \union {n}) = Cardinality(Active(c.t)) + 1 /\ IsFiniteSet(Active(c.t) \union {n})
  <2>1. n \notin Active(c.t)
    BY <1>3, <1>9 DEF Places
  <2> QED
    BY <1>9, <2>1, FS_AddElement
<1>11. ASSUME NEW t \in 1..Times
       PROVE  /\ (cfg'.overlap /\ ~cfg'.allow) => Held(t)' = {} \/ Cardinality(Held(t)') <= cfg'.perSymbol
              /\ cfg'.portfolio => Held(t)' = {} \/ Cardinality(Held(t)') <= cfg'.inAll
  <2>1. CASE t < c.t
    <3>1. Held(t)' = Held(t)
      <4>1. n \notin Held(t)'
        BY <1>1, <1>2, <1>4, <2>1 DEF Held
      <4>2. Held(t)' \subseteq DOMAIN trades
        BY <1>3, <4>1 DEF Held
      <4>3. \A k \in DOMAIN trades : k \in Held(t)' <=> k \in Held(t)
        BY <1>2, <1>3 DEF Held
      <4>4. Held(t) \subseteq DOMAIN trades
        BY DEF Held
      <4> QED
        BY <4>2, <4>3, <4>4
    <3> QED
      BY <1>1, <3>1 DEF WithinLimits, Held
  <2>2. CASE ~(t < c.t)
    <3>1. Held(t)' \subseteq Active(c.t) \union {n}
      <4> SUFFICES ASSUME NEW k \in Held(t)', k # n PROVE k \in Active(c.t)
        OBVIOUS
      <4>1. k \in DOMAIN trades /\ trades'[k] = trades[k] /\ trades[k].taken /\ t < trades[k].exit
        BY <1>2, <1>3 DEF Held
      <4>2. trades[k].exit > c.t
        BY <1>4, <1>5, <2>2, <4>1
      <4> QED
        BY <1>9, <4>1, <4>2 DEF Places
    <3> DEFINE H == Held(t)'
               A == Active(c.t) \union {n}
    <3>2. Cardinality(H) <= Cardinality(A) /\ Cardinality(H) \in Nat
      <4> HIDE DEF H, A
      <4>1. H \in SUBSET A /\ IsFiniteSet(A)
        BY <3>1, <1>10 DEF H, A
      <4> QED
        BY <4>1, FS_Subset, FS_CardinalityType
    <3>3. Cardinality(H) <= Cardinality(Active(c.t)) + 1
      BY <1>10, <3>2
    <3> HIDE DEF H
    <3>4. (cfg.overlap /\ ~cfg.allow) => Cardinality(Active(c.t)) < cfg.perSymbol
      BY <1>6, <1>7, <1>9 DEF Blocked, Overlaps
    <3>5. cfg.portfolio => Cardinality(Active(c.t)) < cfg.inAll
      BY <1>6, <1>7, <1>9 DEF Blocked, Full
    <3>6. /\ (cfg.overlap /\ ~cfg.allow) => Cardinality(H) <= cfg.perSymbol
          /\ cfg.portfolio => Cardinality(H) <= cfg.inAll
      BY <1>7, <1>9, <3>2, <3>3, <3>4, <3>5
    <3> QED
      BY <1>1, <3>6 DEF H
  <2> QED
    BY <2>1, <2>2
<1>12. ASSUME cfg'.overlap, cfg'.onePerSetup, NEW j \in DOMAIN trades', NEW k \in DOMAIN trades',
              j < k, trades'[j].taken, trades'[k].taken, trades'[j].c.setup = trades'[k].c.setup
       PROVE  trades'[j].exit < trades'[k].c.t
  <2>1. j \in DOMAIN trades /\ trades'[j] = trades[j] /\ j \in Places
    BY <1>0, <1>2, <1>n, <1>12 DEF Places
  <2>2. CASE k \in DOMAIN trades
    BY <1>1, <1>2, <1>12, <2>1, <2>2 DEF WithinLimits
  <2>3. CASE k = n
    <3>1. trades[j].exit <= until[trades[j].c.setup] /\ trades[j].c.setup = c.setup
      BY <1>1, <1>2, <1>8, <1>12, <2>1, <2>3 DEF UntilRemembers
    <3>2. ~(c.t <= until[c.setup])
      BY <1>1, <1>6, <1>12 DEF Blocked, Waits
    <3> QED
      BY <1>1, <1>2, <1>4, <1>5, <1>7, <2>1, <2>3, <3>1, <3>2
  <2> QED
    BY <1>3, <2>2, <2>3
<1> QED
  BY <1>11, <1>12 DEF WithinLimits, Held

-----------------------------------------------------------------------------
(* Decisions. *)

\* The candidates whose decision is that of the trades before.
Open(k) == ~(cfg.rth /\ trades[k].c.t >= Close) /\ trades[k].c.t \notin cfg.filtered /\ trades[k].c.t < Times
           /\ trades[k].why # "duplicate_candidate"

\* Without the counterfactual, and with one trade at a time or no cooldown.
Plain == ~cfg.counterfactual /\ (OneAtATime \/ (cfg.afterLoss = 0 /\ cfg.afterTrade = 0))

\* What the rules know at the time of a candidate is what a trader knows.
BlockedNow(t, setup) ==
    LET closed == {j \in Places : trades[j].exit <= t} IN
    \/ cfg.portfolio /\ ((\E j \in closed : Cooldown(trades[j]) > 0 /\ t <= trades[j].exit + Cooldown(trades[j]))
                         \/ Cardinality(Places \ closed) >= cfg.inAll)
    \/ cfg.overlap /\ ~cfg.allow /\ Cardinality(Places \ closed) >= cfg.perSymbol
    \/ cfg.overlap /\ cfg.onePerSetup /\ \E j \in Places :
        trades[j].c.setup = setup /\ (j \in Places \ closed \/ trades[j].exit = t)

LEMMA BlockedOnThePast ==
    ASSUME TypeOK, Memory, Plain, NEW c \in Candidate, Comes(c)
    PROVE  Blocked(c) <=> BlockedNow(c.t, c.setup)
<1> DEFINE closed == {j \in Places : trades[j].exit <= c.t}
<1>1. OpenRemembers /\ UntilRemembers /\ CoolRemembers
  BY DEF Memory, Plain
<1>2. c.t \in 1..Times /\ c.setup \in Setups /\ Times \in Nat
  BY BoundsAssumption DEF Candidate
<1>3. \A k \in Places : /\ trades[k] \in Outcome /\ trades[k].exit \in 0..Times /\ trades[k].c.setup \in Setups
                        /\ Cooldown(trades[k]) \in Int
  <2>1. trades \in Seq(Outcome)
    BY DEF TypeOK, Outcome
  <2>2. cfg.afterLoss \in Int /\ cfg.afterTrade \in Int
    BY ConfigTypes DEF TypeOK
  <2> SUFFICES ASSUME NEW k \in Places
               PROVE  /\ trades[k] \in Outcome /\ trades[k].exit \in 0..Times /\ trades[k].c.setup \in Setups
                      /\ Cooldown(trades[k]) \in Int
    OBVIOUS
  <2>3. trades[k] \in Outcome
    BY <2>1 DEF Places
  <2> QED
    BY <2>2, <2>3 DEF Outcome, Candidate, Cooldown
<1>4. /\ Active(c.t) = {k \in Places : trades[k].exit > c.t}
      /\ IsFiniteSet(Active(c.t)) /\ Cardinality(Active(c.t)) \in Nat
  BY <1>1, ActiveAreOpen
<1>5. Active(c.t) = Places \ closed
  BY <1>2, <1>3, <1>4
<1>6. cfg.perSymbol \in Int /\ cfg.inAll \in Int /\ cool \in Nat /\ until \in [Setups -> 0..Times]
  BY ConfigTypes DEF TypeOK
<1> DEFINE Coolings == \E j \in closed : Cooldown(trades[j]) > 0 /\ c.t <= trades[j].exit + Cooldown(trades[j])
           Exits == \E j \in Places :
                trades[j].c.setup = c.setup /\ (j \in Places \ closed \/ trades[j].exit = c.t)
<1>7. BlockedNow(c.t, c.setup) <=>
        \/ cfg.portfolio /\ (Coolings \/ Cardinality(Active(c.t)) >= cfg.inAll)
        \/ Overlaps(c)
        \/ cfg.overlap /\ cfg.onePerSetup /\ Exits
  BY <1>5 DEF BlockedNow, Overlaps
<1>8. ASSUME cfg.overlap, cfg.onePerSetup
      PROVE  Exits <=> c.t <= until[c.setup]
  <2>1. ASSUME Exits PROVE c.t <= until[c.setup]
    <3>1. PICK j \in Places : trades[j].c.setup = c.setup /\ ~(trades[j].exit < c.t)
      BY <1>2, <1>3, <2>1
    <3>2. trades[j].exit <= until[c.setup]
      BY <1>1, <1>8, <3>1 DEF UntilRemembers
    <3> QED
      BY <1>2, <1>3, <1>6, <3>1, <3>2
  <2>2. ASSUME c.t <= until[c.setup] PROVE Exits
    <3>1. until[c.setup] # Never
      BY <1>2, <1>6, <2>2 DEF Never
    <3>2. PICK j \in Places : trades[j].c.setup = c.setup /\ trades[j].exit = until[c.setup]
      BY <1>1, <1>2, <3>1 DEF UntilRemembers
    <3> QED
      BY <1>2, <1>3, <2>2, <3>2
  <2> QED
    BY <2>1, <2>2
<1>9. ASSUME Coolings PROVE cfg.portfolio => c.t <= cool
  BY <1>1, <1>2, <1>3, <1>6, <1>9 DEF CoolRemembers
<1>10. ASSUME c.t <= cool PROVE Coolings \/ Overlaps(c)
  <2>1. cool # Never
    BY <1>2, <1>6, <1>10 DEF Never
  <2>2. PICK j \in Places : Cooldown(trades[j]) > 0 /\ cool = trades[j].exit + Cooldown(trades[j])
    BY <1>1, <2>1 DEF CoolRemembers
  <2>3. CASE trades[j].exit <= c.t
    BY <1>10, <2>2, <2>3
  <2>4. CASE ~(trades[j].exit <= c.t)
    <3>1. ~(cfg.afterLoss = 0 /\ cfg.afterTrade = 0)
      BY <2>2 DEF Cooldown
    <3>2. cfg.overlap /\ ~cfg.allow /\ cfg.perSymbol = 1
      BY <3>1 DEF Plain, OneAtATime
    <3>3. j \in Active(c.t)
      BY <1>5, <2>4
    <3>4. Cardinality(Active(c.t)) # 0
      BY <1>4, <3>3, FS_EmptySet
    <3> QED
      BY <1>4, <3>2, <3>4 DEF Overlaps
  <2> QED
    BY <2>3, <2>4
<1> HIDE DEF Coolings, Exits, closed
<1>11. Cools(c) => cfg.portfolio /\ (Coolings \/ Overlaps(c))
  BY <1>10 DEF Cools
<1>12. cfg.portfolio /\ Coolings => Cools(c)
  BY <1>9 DEF Cools
<1>13. Waits(c) <=> cfg.overlap /\ cfg.onePerSetup /\ Exits
  BY <1>8 DEF Waits
<1>14. Full(c) <=> cfg.portfolio /\ Cardinality(Active(c.t)) >= cfg.inAll
  BY DEF Full
<1> QED
  BY <1>7, <1>11, <1>12, <1>13, <1>14 DEF Blocked

LEMMA PastStep ==
    ASSUME TypeOK, Memory, DecidesOnThePast, NEW c \in Candidate, NEW x \in Outcome, Decides(c, x)
    PROVE  DecidesOnThePast'
<1>0. Len(trades) \in Nat
  BY DEF TypeOK
<1>n. PICK n \in Nat : n = Len(trades) + 1
  BY <1>0
<1>1. Decided(x) /\ x.c = c /\ cfg' = cfg /\ Comes(c)
  BY DEF Decides, Decided
<1>2. /\ DOMAIN trades = 1..Len(trades) /\ DOMAIN trades' = 1..n
      /\ \A k \in 1..Len(trades) : trades'[k] = trades[k] /\ trades[k] \in Outcome
      /\ trades'[n] = x
  BY <1>1, <1>n, OneMore
<1>3. DOMAIN trades' = DOMAIN trades \union {n} /\ n \notin DOMAIN trades
  BY <1>0, <1>2, <1>n
<1>4. \A j \in DOMAIN trades : Cooldown(trades[j])' = Cooldown(trades[j])
  <2> SUFFICES ASSUME NEW j \in DOMAIN trades PROVE Cooldown(trades[j])' = Cooldown(trades[j])
    OBVIOUS
  <2> PICK y \in Outcome : y = trades[j]
    BY <1>2
  <2> QED
    BY <1>1, <1>2, Cooldowns
<1> SUFFICES ASSUME Plain PROVE DecidesOnThePast'
  BY <1>1 DEF DecidesOnThePast, Plain, OneAtATime
\* What a trader knows of the trades before a candidate does not change with a later one.
<1>5. ASSUME NEW k \in DOMAIN trades
      PROVE  Open(k)' => (trades'[k].taken <=> ~BlockedOnline(k)')
  <2>1. trades'[k] = trades[k] /\ k \in 1..Len(trades) /\ 1..(k - 1) \subseteq DOMAIN trades
    BY <1>0, <1>2
  <2>2. Before(k)' = Before(k) /\ Before(k) \subseteq DOMAIN trades
    BY <1>2, <2>1 DEF Before
  <2>3. \A j \in Before(k) : trades'[j] = trades[j] /\ Cooldown(trades[j])' = Cooldown(trades[j])
    BY <1>2, <1>4, <2>2
  <2>4. \A t : ClosedBy(k, t)' = ClosedBy(k, t)
    BY <2>2, <2>3 DEF ClosedBy
  <2>5. \A t : OpenAt(k, t)' = OpenAt(k, t) /\ OpenAt(k, t) \subseteq Before(k)
    BY <2>2, <2>4 DEF OpenAt
  <2>6. \A t : CoolsOnline(k, t)' <=> CoolsOnline(k, t)
    <3>1. \A t : ClosedBy(k, t) \subseteq Before(k)
      BY DEF ClosedBy
    <3> QED
      BY <2>3, <2>4, <3>1 DEF CoolsOnline
  <2>7. BlockedOnline(k)' <=> BlockedOnline(k)
    BY <1>1, <2>1, <2>2, <2>3, <2>5, <2>6 DEF BlockedOnline
  <2>8. Open(k)' <=> Open(k)
    BY <1>1, <2>1 DEF Open
  <2>9. Open(k) => (trades[k].taken <=> ~BlockedOnline(k))
    BY DEF DecidesOnThePast, Plain, Open
  <2> QED
    BY <2>1, <2>7, <2>8, <2>9
<1>6. Open(n)' => (trades'[n].taken <=> ~BlockedOnline(n)')
  <2>1. Before(n)' = Places
    <3>1. \A j \in 1..(n - 1) : j \in DOMAIN trades /\ trades'[j] = trades[j]
      BY <1>0, <1>2, <1>n
    <3>2. DOMAIN trades = 1..(n - 1)
      BY <1>0, <1>2, <1>n
    <3> QED
      BY <3>1, <3>2 DEF Before, Places
  <2>2. \A j \in Places : trades'[j] = trades[j] /\ Cooldown(trades[j])' = Cooldown(trades[j])
    BY <1>2, <1>4 DEF Places
  <2>3. ClosedBy(n, c.t)' = {j \in Places : trades[j].exit <= c.t}
    BY <2>1, <2>2 DEF ClosedBy
  <2>4. OpenAt(n, c.t)' = Places \ {j \in Places : trades[j].exit <= c.t}
    BY <2>1, <2>3 DEF OpenAt
  <2>5. CoolsOnline(n, c.t)' <=> \E j \in {j \in Places : trades[j].exit <= c.t} :
            Cooldown(trades[j]) > 0 /\ c.t <= trades[j].exit + Cooldown(trades[j])
    BY <2>2, <2>3 DEF CoolsOnline
  <2>6. BlockedOnline(n)' <=> BlockedNow(c.t, c.setup)
    <3>1. BlockedOnline(n)' <=>
            \/ cfg.portfolio /\ (CoolsOnline(n, c.t)' \/ Cardinality(OpenAt(n, c.t)') >= cfg.inAll)
            \/ cfg.overlap /\ ~cfg.allow /\ Cardinality(OpenAt(n, c.t)') >= cfg.perSymbol
            \/ cfg.overlap /\ cfg.onePerSetup /\ \E j \in Before(n)' :
                trades'[j].c.setup = c.setup /\ (j \in OpenAt(n, c.t)' \/ trades'[j].exit = c.t)
      BY <1>1, <1>2 DEF BlockedOnline
    <3>2. (\E j \in Before(n)' :
                trades'[j].c.setup = c.setup /\ (j \in OpenAt(n, c.t)' \/ trades'[j].exit = c.t))
            <=> \E j \in Places :
                trades[j].c.setup = c.setup /\ (j \in OpenAt(n, c.t)' \/ trades[j].exit = c.t)
      BY <2>1, <2>2
    <3> QED
      BY <2>4, <2>5, <3>1, <3>2 DEF BlockedNow
  <2>7. BlockedNow(c.t, c.setup) <=> Blocked(c)
    BY <1>1, BlockedOnThePast
  <2>8. ASSUME Open(n)' PROVE x.taken <=> ~Blocked(c)
    <3>1. /\ ~(cfg.rth /\ c.t >= Close) /\ c.t \notin cfg.filtered /\ c.t < Times
          /\ x.why # "duplicate_candidate"
      BY <1>1, <1>2, <2>8 DEF Open
    <3>2. SkipReason(c) = "none" <=> ~Blocked(c)
      BY <3>1, RulesDecide
    <3>3. CASE Skips(c, x)
      <4>1. SkipReason(c) # "none" /\ x.taken = FALSE
        BY <3>1, <3>3, BoundsAssumption DEF Skips, Candidate
      <4> QED
        BY <3>2, <4>1
    <3>4. CASE Takes(c, x)
      BY <3>2, <3>4 DEF Takes, Simulated
    <3> QED
      BY <3>3, <3>4 DEF Decides
  <2> QED
    BY <1>2, <2>6, <2>7, <2>8
<1> QED
  BY <1>1, <1>3, <1>5, <1>6 DEF DecidesOnThePast, Plain, Open

-----------------------------------------------------------------------------
(* Theorems. *)

LEMMA InitInv == ASSUME Init PROVE ReplayInv
<1>1. /\ trades = <<>> /\ open = {} /\ cool = 0 /\ until = [s \in Setups |-> 0]
      /\ bars \in Paths /\ cfg \in ReplayConfigs
  BY DEF Init, Never
<1>2. DOMAIN trades = {} /\ trades \in Seq(Outcome)
  BY <1>1
<1>3. TypeOK
  <2>1. 0 \in 0..Times
    BY BoundsAssumption
  <2> QED
    BY <1>1, <1>2, <2>1 DEF TypeOK, Outcome
<1>4. Places = {}
  BY <1>2 DEF Places
<1>5. TakenAreSimulated
  BY <1>4 DEF TakenAreSimulated
<1>6. Memory
  BY <1>1, <1>2, <1>4 DEF Memory, OpenRemembers, UntilRemembers, CoolRemembers, Never
<1>7. WithinLimits
  <2>1. \A t \in 1..Times : Held(t) = {}
    BY <1>2 DEF Held
  <2> QED
    BY <1>2, <2>1 DEF WithinLimits, Held
<1>8. DecidesOnThePast
  BY <1>2 DEF DecidesOnThePast
<1> QED
  BY <1>3, <1>5, <1>6, <1>7, <1>8 DEF ReplayInv

LEMMA NextInv == ASSUME ReplayInv, [Next]_vars PROVE ReplayInv'
<1>1. ASSUME Next PROVE ReplayInv'
  <2>1. PICK c \in Candidate, x \in Outcome : Decides(c, x)
    BY <1>1, EveryStepDecides DEF ReplayInv
  <2>2. TypeOK' /\ TakenAreSimulated' /\ DecidesOnThePast'
    BY <2>1, TypeStep, SimulatedStep, PastStep DEF ReplayInv
  <2>3. CASE x.taken = TRUE
    BY <2>1, <2>2, <2>3, MemoryTake, LimitsTake DEF ReplayInv
  <2>4. CASE x.taken = FALSE
    BY <2>1, <2>2, <2>4, MemorySkip, LimitsSkip DEF ReplayInv
  <2> QED
    BY <2>3, <2>4 DEF Outcome
<1>2. ASSUME UNCHANGED vars PROVE ReplayInv'
  <2>1. bars' = bars /\ cfg' = cfg /\ trades' = trades /\ open' = open /\ until' = until /\ cool' = cool
    BY <1>2 DEF vars
  <2>2. TypeOK'
    BY <2>1 DEF ReplayInv, TypeOK
  <2>3. Places' = Places
    BY <2>1 DEF Places
  <2>4. TakenAreSimulated'
    <3> SUFFICES ASSUME NEW k \in Places'
                 PROVE  (trades[k].c.t < Times /\ trades[k] = Simulated(trades[k].c))'
      BY DEF TakenAreSimulated
    <3> PICK d : d = trades[k].c
      OBVIOUS
    <3>1. Simulated(d)' = Simulated(d)
      BY <2>1, SimulatedStays
    <3> QED
      BY <2>1, <2>3, <3>1 DEF ReplayInv, TakenAreSimulated
  <2>5. \A y : Cooldown(y)' = Cooldown(y)
    BY <2>1 DEF Cooldown
  <2>6. Memory'
    BY <2>1, <2>3, <2>5 DEF ReplayInv, Memory, OpenRemembers, UntilRemembers, CoolRemembers
  <2>7. WithinLimits'
    BY <2>1 DEF ReplayInv, WithinLimits
  <2>8. DecidesOnThePast'
    <3>1. \A k : Before(k)' = Before(k)
      BY <2>1 DEF Before
    <3>2. \A k, t : ClosedBy(k, t)' = ClosedBy(k, t)
      BY <2>1, <3>1 DEF ClosedBy
    <3>3. \A k, t : OpenAt(k, t)' = OpenAt(k, t)
      BY <3>1, <3>2 DEF OpenAt
    <3>4. \A k, t : CoolsOnline(k, t)' <=> CoolsOnline(k, t)
      BY <2>1, <2>5, <3>2 DEF CoolsOnline
    <3>5. \A k : BlockedOnline(k)' <=> BlockedOnline(k)
      BY <2>1, <3>1, <3>3, <3>4 DEF BlockedOnline
    <3> QED
      BY <2>1, <3>5 DEF ReplayInv, DecidesOnThePast, OneAtATime
  <2> QED
    BY <2>2, <2>4, <2>6, <2>7, <2>8 DEF ReplayInv
<1> QED
  BY <1>1, <1>2

\* The replay remembers of the trades it took what its rules need, and only that.
THEOREM ReplayInvariant == Spec => []ReplayInv
<1>1. Init => ReplayInv
  BY InitInv
<1>2. ReplayInv /\ [Next]_vars => ReplayInv'
  BY NextInv
<1> QED
  BY <1>1, <1>2, PTL DEF Spec

\* Every variable of the replay keeps its type: prices, stops and returns are numbers and
\* every trade ends within the bars (CandidateMarketReplayEngine.run).
THEOREM TypeCorrect == Spec => []TypeOK
<1>1. ReplayInv => TypeOK
  BY DEF ReplayInv
<1> QED
  BY <1>1, ReplayInvariant, PTL

\* For any bars, payload and candidates, the open trades of a portfolio replay are within its
\* limits between any two bars, and a setup waits for its own last exit (_preflight_skip).
THEOREM WithinLimitsHolds == Spec => []WithinLimits
<1>1. ReplayInv => WithinLimits
  BY DEF ReplayInv
<1> QED
  BY <1>1, ReplayInvariant, PTL

\* For any bars and candidates, with one trade at a time or no cooldown, what is remembered
\* of exits that are still to come decides nothing (cooldown_until, open_until_setup).
THEOREM DecidesOnThePastHolds == Spec => []DecidesOnThePast
<1>1. ReplayInv => DecidesOnThePast
  BY DEF ReplayInv
<1> QED
  BY <1>1, ReplayInvariant, PTL

\* For any bars, limits of time and targets, the replay and the labels agree on the exit and
\* the return of a candidate wherever they agree on its stop and the day does not end the
\* trade (_label_candidate, _simulate_candidate).
THEOREM LabelsAgreeHolds == Spec => []LabelsAgree
<1>1. ReplayInv => LabelsAgree
  <2> SUFFICES ASSUME ReplayInv, NEW j \in DOMAIN trades, NEW c,
                      trades[j].taken, trades[j].c = c, cfg.conservative, ~cfg.flat, ReplayStop(c) = LabelStop(c)
               PROVE  trades[j].exit = LabelExit(c) /\ trades[j].r = LabelR(c)
    BY DEF LabelsAgree
  <2>1. trades[j] \in Outcome /\ trades[j] = Simulated(c) /\ c.t < Times
    <3>1. trades \in Seq(Outcome)
      BY DEF ReplayInv, TypeOK, Outcome
    <3> QED
      BY <3>1 DEF ReplayInv, TakenAreSimulated, Places
  <2>2. c \in Candidate
    BY <2>1 DEF Outcome
  <2> QED
    BY <2>1, <2>2, ReturnsAgree
<1> QED
  BY <1>1, ReplayInvariant, PTL

\* For any trades max_drawdown_r is the worst sum of consecutive returns, or none, lies between
\* the losses of the run and its total, and no taken trade is counted as invalid
\* (_drawdown_series, metrics).
THEOREM DrawdownIsWorstStretchHolds == Spec => []DrawdownIsWorstStretch
<1>1. ReplayInv => DrawdownIsWorstStretch
  <2> SUFFICES ASSUME ReplayInv PROVE DrawdownIsWorstStretch
    OBVIOUS
  <2>1. trades \in Seq(Outcome)
    BY DEF ReplayInv, TypeOK, Outcome
  <2>2. /\ Taken \in Seq(Outcome)
        /\ Len(Taken) = Cardinality({k \in DOMAIN trades : trades[k].taken})
    BY <2>1, TakenAreCounted
  <2>3. Returns \in Seq(Int)
    <3>1. PICK kept \in Seq(Outcome) : kept = Taken
      BY <2>2
    <3>2. \A k \in DOMAIN kept : kept[k] \in Outcome
      BY <3>1
    <3>3. \A k \in DOMAIN kept : kept[k].r \in Int
      BY <3>2 DEF Outcome
    <3>4. [k \in DOMAIN kept |-> kept[k].r] \in Seq(Int)
      <4>1. DOMAIN kept = 1..Len(kept) /\ Len(kept) \in Nat
        BY <3>1
      <4> QED
        BY <3>3, <4>1
    <3> QED
      BY <3>1, <3>4 DEF Returns
  <2>4. Metrics.taken <= Metrics.valid
    <3> DEFINE T == {k \in DOMAIN trades : trades[k].taken}
               V == {k \in DOMAIN trades : trades[k].why \notin Invalid}
    <3>1. IsFiniteSet(V)
      <4>1. IsFiniteSet(1..Len(trades))
        BY <2>1, FS_Interval
      <4>2. V \in SUBSET (1..Len(trades))
        BY <2>1
      <4> HIDE DEF V
      <4> QED
        BY <4>1, <4>2, FS_Subset
    <3>2. T \subseteq V
      <4> SUFFICES ASSUME NEW k \in T PROVE trades[k].why \notin Invalid
        OBVIOUS
      <4>1. trades[k] = Simulated(trades[k].c)
        BY DEF ReplayInv, TakenAreSimulated, Places
      <4>2. trades[k].why = "taken"
        BY <4>1 DEF Simulated
      <4> QED
        BY <4>2 DEF Invalid
    <3>3. Cardinality(T) <= Cardinality(V)
      <4> HIDE DEF T, V
      <4> QED
        BY <3>1, <3>2, FS_Subset
    <3> QED
      BY <2>2, <3>3 DEF Metrics
  <2>5. /\ Metrics.max_drawdown_r = Min({0} \union Range(Drawdowns(Returns)))
        /\ Metrics.gross_loss_r = Losses(Returns) /\ Metrics.total_r = Total(Returns)
    BY DEF Metrics
  <2> DEFINE worst == Min({0} \union Range(Drawdowns(Returns)))
  <2>6. /\ worst = Min({0} \union Stretches(Returns))
        /\ Losses(Returns) <= worst /\ worst <= Total(Returns)
    BY <2>3, WorstStretch
  <2> HIDE DEF worst
  <2> QED
    BY <2>4, <2>5, <2>6 DEF DrawdownIsWorstStretch, worst, Stretches
<1> QED
  BY <1>1, ReplayInvariant, PTL
================================================================================
