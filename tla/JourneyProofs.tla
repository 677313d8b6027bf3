----------------------------- MODULE JourneyProofs -----------------------------
(***************************************************************************)
(* A journey, and the field its stages come from.                          *)
(*                                                                         *)
(* The field, for a box of any size with anything in it:                   *)
(*   ClearanceIsMeasured  two passes over the cells give every cell its    *)
(*                      distance to what is shut and to the edge;          *)
(*   SearchIsBest       the search finds a cheapest way, or everywhere     *)
(*                      there is one to;                                   *)
(*   StageIsWorthIt     a stage that ends short gets somewhere.            *)
(* The journey (Travel), for every distance, limit and number of journeys: *)
(*   TypeCorrect        its variables keep their types;                    *)
(*   RoutesBelong       its routes belong to where he is;                  *)
(*   PromiseKept        it keeps the promise of Trip.                      *)
(***************************************************************************)
EXTENDS Field, MCTravel, FiniteSetTheorems, SequenceTheorems, NaturalsInduction, WellFoundedInduction, TLAPS

\* Induction over numbers, of a set.
LEMMA AllNumbers ==
  ASSUME NEW T, T \subseteq Nat, 0 \in T, \A n \in T : n + 1 \in T
  PROVE  T = Nat
<1> SUFFICES ASSUME NEW k \in Nat, k \notin T PROVE FALSE
  OBVIOUS
<1> DEFINE U == Nat \ T
<1>1. PICK R : R = OpToRel(<, Nat)
  OBVIOUS
<1>2. IsWellFoundedOn(R, Nat)
  BY <1>1, NatLessThanWellFounded
<1>3. U \subseteq Nat /\ U # {}
  OBVIOUS
<1>4. PICK n \in U : \A m \in U : ~(<<m, n>> \in R)
  <2> HIDE DEF U
  <2> QED  BY <1>2, <1>3, WFMin
<1>5. n \in Nat /\ n \notin T /\ n # 0
  BY <1>4
<1>6. n - 1 \in Nat /\ n - 1 < n /\ (n - 1) + 1 = n
  BY <1>5
<1>7. n - 1 \in T
  BY <1>1, <1>4, <1>5, <1>6 DEF OpToRel
<1> QED  BY <1>5, <1>6, <1>7

\* A step for every set of numbers up to n, the greatest taken last.
FoldsUp(h, n, V, base, F) ==
  /\ h \in [SUBSET (1..n) -> V]
  /\ \A S \in SUBSET (1..n) : h[S] = IF S = {} THEN base ELSE F[<<h[S \ {Max(S)}], Max(S)>>]

LEMMA FoldExists ==
  ASSUME NEW V, NEW base \in V, NEW F, \A v \in V : \A i \in Nat : F[<<v, i>>] \in V, NEW n \in Nat
  PROVE  \E h : FoldsUp(h, n, V, base, F)
<1> DEFINE Folds(h, m) ==
      /\ h \in [SUBSET (1..m) -> V]
      /\ \A S \in SUBSET (1..m) : h[S] = IF S = {} THEN base ELSE F[<<h[S \ {Max(S)}], Max(S)>>]
           T == {m \in Nat : \E h : Folds(h, m)}
<1>1. 0 \in T
  <2>1. PICK h : h = [S \in SUBSET (1..0) |-> base]
    OBVIOUS
  <2>2. SUBSET (1..0) = {{}}
    <3>1. 1..0 = {}
      OBVIOUS
    <3> QED  BY <3>1
  <2>3. Folds(h, 0)
    BY <2>1, <2>2
  <2> QED  BY <2>3
<1>2. ASSUME NEW m \in T
      PROVE  m + 1 \in T
  <2>1. PICK h : Folds(h, m)
    BY <1>2
  <2>2. PICK g : g = [S \in SUBSET (1..(m + 1)) |->
                        IF m + 1 \in S THEN F[<<h[S \ {m + 1}], m + 1>>] ELSE h[S]]
    OBVIOUS
  <2>3. \A S \in SUBSET (1..(m + 1)) : S \ {m + 1} \in SUBSET (1..m) /\ (m + 1 \notin S => S \in SUBSET (1..m))
    <3>1. \A x \in 1..(m + 1) : x # m + 1 => x \in 1..m
      OBVIOUS
    <3> QED  BY <3>1
  <2>4. m \in Nat /\ m + 1 \in Nat
    OBVIOUS
  <2>5. g \in [SUBSET (1..(m + 1)) -> V]
    BY <2>1, <2>2, <2>3, <2>4
  <2>6. ASSUME NEW S \in SUBSET (1..(m + 1))
        PROVE  g[S] = IF S = {} THEN base ELSE F[<<g[S \ {Max(S)}], Max(S)>>]
    <3>1. CASE m + 1 \in S
      <4>1. Max(S) = m + 1
        <5>1. \A y \in S : m + 1 >= y
          BY <2>4
        <5>2. \A x \in S : (\A y \in S : x >= y) => x = m + 1
          BY <2>4, <3>1
        <5> QED  BY <3>1, <5>1, <5>2 DEF Max
      <4>2. S \ {m + 1} \in SUBSET (1..(m + 1)) /\ m + 1 \notin S \ {m + 1}
        OBVIOUS
      <4>3. g[S \ {m + 1}] = h[S \ {m + 1}]
        BY <2>2, <4>2
      <4>4. g[S] = F[<<h[S \ {m + 1}], m + 1>>]
        BY <2>2, <3>1
      <4> QED  BY <3>1, <4>1, <4>3, <4>4
    <3>2. CASE m + 1 \notin S
      <4>1. S \in SUBSET (1..m) /\ g[S] = h[S]
        BY <2>2, <2>3, <3>2
      <4>2. S \ {Max(S)} \in SUBSET (1..(m + 1)) /\ m + 1 \notin S \ {Max(S)}
        BY <3>2
      <4>3. g[S \ {Max(S)}] = h[S \ {Max(S)}]
        BY <2>2, <4>2
      <4> QED  BY <2>1, <4>1, <4>3
    <3> QED  BY <3>1, <3>2
  <2>7. Folds(g, m + 1)
    BY <2>5, <2>6
  <2> QED  BY <2>4, <2>7
<1>3. T = Nat
  <2>1. T \subseteq Nat
    OBVIOUS
  <2> HIDE DEF T
  <2> QED  BY <1>1, <1>2, <2>1, AllNumbers
<1>4. \E h : Folds(h, n)
  BY <1>3
<1> QED  BY <1>4 DEF FoldsUp

\* The greatest of the first so many numbers is the last.
LEMMA LastTaken ==
  ASSUME NEW k \in Nat
  PROVE  Max(1..(k + 1)) = k + 1 /\ (1..(k + 1)) \ {k + 1} = 1..k
<1>1. k + 1 \in 1..(k + 1) /\ \A y \in 1..(k + 1) : k + 1 >= y
  OBVIOUS
<1>2. \A x \in 1..(k + 1) : (\A y \in 1..(k + 1) : x >= y) => x = k + 1
  BY <1>1
<1>3. Max(1..(k + 1)) = k + 1
  BY <1>1, <1>2 DEF Max
<1>4. \A x : x \in (1..(k + 1)) \ {k + 1} <=> x \in 1..k
  OBVIOUS
<1> QED  BY <1>3, <1>4

\* What Max chooses is one of them.
LEMMA GreatestIsOne ==
  ASSUME NEW n \in Nat, NEW S \in SUBSET (1..n), S # {}
  PROVE  Max(S) \in S
<1> DEFINE Has(m) == \A X \in SUBSET (1..m) : X # {} => \E x \in X : \A y \in X : x >= y
           T == {m \in Nat : Has(m)}
<1>1. 0 \in T
  <2>1. 1..0 = {}
    OBVIOUS
  <2> QED  BY <2>1
<1>2. ASSUME NEW m \in T
      PROVE  m + 1 \in T
  <2> SUFFICES ASSUME NEW X \in SUBSET (1..(m + 1)), X # {}
               PROVE  \E x \in X : \A y \in X : x >= y
    OBVIOUS
  <2>1. CASE m + 1 \in X
    BY <2>1
  <2>2. CASE m + 1 \notin X
    <3>1. \A x \in 1..(m + 1) : x # m + 1 => x \in 1..m
      OBVIOUS
    <3>2. X \in SUBSET (1..m)
      BY <2>2, <3>1
    <3> QED  BY <1>2, <3>2
  <2> QED  BY <2>1, <2>2
<1>3. T = Nat
  <2>1. T \subseteq Nat
    OBVIOUS
  <2> HIDE DEF T
  <2> QED  BY <1>1, <1>2, <2>1, AllNumbers
<1> QED  BY <1>3 DEF Max

\* Every recursion of a fold stays where its steps stay.
LEMMA FoldStays ==
  ASSUME NEW V, NEW base \in V, NEW F, \A v \in V : \A i \in Nat : F[<<v, i>>] \in V, NEW n \in Nat,
         NEW g, g[{}] = base,
         \A S \in SUBSET (1..n) : S # {} /\ g[S \ {Max(S)}] \in V =>
           g[S] = F[<<g[S \ {Max(S)}], Max(S)>>]
  PROVE  g[1..n] \in V
<1> DEFINE T == {k \in Nat : k <= n => g[1..k] \in V}
<1>1. 0 \in T
  <2>1. 1..0 = {}
    OBVIOUS
  <2> QED  BY <2>1
<1>2. ASSUME NEW k \in T
      PROVE  k + 1 \in T
  <2> SUFFICES ASSUME k + 1 <= n PROVE g[1..(k + 1)] \in V
    OBVIOUS
  <2>1. k \in Nat /\ g[1..k] \in V
    OBVIOUS
  <2>2. PICK S, m : S = 1..(k + 1) /\ m = k + 1
    OBVIOUS
  <2>3. Max(S) = m /\ S \ {m} = 1..k
    BY <2>1, <2>2, LastTaken
  <2>4. S \in SUBSET (1..n) /\ S # {} /\ m \in Nat
    BY <2>1, <2>2
  <2>5. g[S] = F[<<g[1..k], m>>]
    BY <2>1, <2>3, <2>4
  <2> QED  BY <2>1, <2>2, <2>4, <2>5
<1>3. T = Nat
  <2>1. T \subseteq Nat
    OBVIOUS
  <2> HIDE DEF T
  <2> QED  BY <1>1, <1>2, <2>1, AllNumbers
<1> QED  BY <1>3

\* Of numbered things one is numbered least.
LEMMA LeastNumbered ==
  ASSUME NEW X, NEW D \in SUBSET (Nat \X X), D # {}
  PROVE  \E o \in D : \A p \in D : o[1] <= p[1]
<1>1. PICK R : R = OpToRel(<, Nat)
  OBVIOUS
<1>2. IsWellFoundedOn(R, Nat)
  BY <1>1, NatLessThanWellFounded
<1>3. PICK U : U = {o[1] : o \in D}
  OBVIOUS
<1>4. U \subseteq Nat /\ U # {}
  BY <1>3
<1>5. PICK n \in U : \A m \in U : ~(<<m, n>> \in R)
  BY <1>2, <1>4, WFMin
<1>6. ASSUME NEW m \in U
      PROVE  n <= m
  <2>1. m \in Nat /\ n \in Nat /\ ~(<<m, n>> \in R)
    BY <1>4, <1>5
  <2>2. ~(m < n)
    BY <1>1, <2>1 DEF OpToRel
  <2> QED  BY <2>1, <2>2
<1>7. PICK o \in D : n = o[1]
  BY <1>3
<1>8. \A p \in D : p[1] \in U
  BY <1>3
<1> QED  BY <1>6, <1>7, <1>8

Runs(q, n, V, base, F) ==
  q \in [0..n -> V] /\ q[0] = base /\ \A i \in 0..(n - 1) : q[i + 1] = F[<<q[i], i + 1>>]

RunsTo(n, V, base, F, value) == \E q : Runs(q, n, V, base, F) /\ q[n] = value

LEMMA FoldRuns ==
  ASSUME NEW V, NEW base \in V, NEW F, \A v \in V : \A i \in Nat : F[<<v, i>>] \in V, NEW n \in Nat,
         NEW g, g[{}] = base,
         \A S \in SUBSET (1..n) : S # {} /\ g[S \ {Max(S)}] \in V =>
           g[S] = F[<<g[S \ {Max(S)}], Max(S)>>]
  PROVE  RunsTo(n, V, base, F, g[1..n])
<1>1. PICK q : q = [i \in 0..n |-> g[1..i]]
  OBVIOUS
<1>2. ASSUME NEW i \in 0..n
      PROVE  g[1..i] \in V
  <2>1. SUBSET (1..i) \subseteq SUBSET (1..n) /\ i \in Nat
    OBVIOUS
  <2> QED  BY <2>1, FoldStays
<1>3. q[0] = base /\ q[n] = g[1..n]
  <2>1. 1..0 = {} /\ 0 \in 0..n /\ n \in 0..n
    OBVIOUS
  <2> QED  BY <1>1, <2>1
<1>4. ASSUME NEW i \in 0..(n - 1)
      PROVE  q[i + 1] = F[<<q[i], i + 1>>]
  <2>1. PICK S, m : S = 1..(i + 1) /\ m = i + 1
    OBVIOUS
  <2>2. i \in Nat /\ i \in 0..n /\ m \in 0..n /\ m \in S
    BY <2>1
  <2>3. Max(S) = m /\ S \ {m} = 1..i
    BY <2>1, <2>2, LastTaken
  <2>4. S \in SUBSET (1..n)
    BY <2>1
  <2>5. g[S] = F[<<g[1..i], m>>]
    BY <1>2, <2>2, <2>3, <2>4
  <2> QED  BY <1>1, <2>1, <2>2, <2>5
<1> QED  BY <1>1, <1>2, <1>3, <1>4 DEF Runs, RunsTo

LEMMA UpTo ==
  ASSUME NEW n \in Nat, NEW T, 0 \in T, \A k \in 0..(n - 1) : k \in T => k + 1 \in T
  PROVE  \A k \in 0..n : k \in T
<1> DEFINE U == {k \in Nat : k <= n => k \in T}
<1>1. 0 \in U
  OBVIOUS
<1>2. ASSUME NEW k \in U
      PROVE  k + 1 \in U
  <2>1. k \in Nat
    OBVIOUS
  <2>2. CASE k + 1 <= n
    <3>1. k \in 0..(n - 1) /\ k \in T
      BY <2>1, <2>2
    <3> QED  BY <2>1, <3>1
  <2>3. CASE ~(k + 1 <= n)
    BY <2>1, <2>3
  <2> QED  BY <2>2, <2>3
<1>3. U = Nat
  <2>1. U \subseteq Nat
    OBVIOUS
  <2> HIDE DEF U
  <2> QED  BY <1>1, <1>2, <2>1, AllNumbers
<1> QED  BY <1>3

-----------------------------------------------------------------------------
(* How far the cells are from what is shut (Grid).                         *)

\* The least of some numbers is one of them.
LEMMA LeastIsOne ==
  ASSUME NEW S, S \subseteq Nat, S # {}
  PROVE  Min(S) \in S /\ \A y \in S : Min(S) <= y
<1>1. PICK D : D = {<<y, 0>> : y \in S}
  OBVIOUS
<1>2. D \in SUBSET (Nat \X {0}) /\ D # {}
  <2>1. \A y \in S : <<y, 0>> \in Nat \X {0}
    OBVIOUS
  <2> QED  BY <1>1, <2>1
<1>3. PICK o \in D : \A p \in D : o[1] <= p[1]
  BY <1>2, LeastNumbered
<1>4. o[1] \in S /\ \A y \in S : o[1] <= y
  <2>1. \A y \in S : <<y, 0>> \in D /\ <<y, 0>>[1] = y
    BY <1>1
  <2> QED  BY <1>1, <1>3, <2>1
<1> QED  BY <1>4 DEF Min

\* Cells are pairs of numbers.
LEMMA CellIsAPair ==
  ASSUME NEW c \in Cells
  PROVE  /\ W \in Nat /\ H \in Nat /\ c[1] \in Nat /\ c[2] \in Nat
         /\ c[1] < W /\ c[2] < H /\ c = <<c[1], c[2]>>
BY GridAssumption DEF GridAssumption, Cells

LEMMA PairIsACell ==
  ASSUME NEW x \in Int, NEW y \in Int, 0 <= x, x < W, 0 <= y, y < H
  PROVE  <<x, y>> \in Cells /\ <<x, y>>[1] = x /\ <<x, y>>[2] = y
BY GridAssumption DEF GridAssumption, Cells

\* A distance in straight and slanting steps.
Chess(n, c) == IF Gap(n[1], c[1]) < Gap(n[2], c[2]) THEN Gap(n[2], c[2]) ELSE Gap(n[1], c[1])
Less(n, c) == IF Gap(n[1], c[1]) < Gap(n[2], c[2]) THEN Gap(n[1], c[1]) ELSE Gap(n[2], c[2])
Off(n, c) == 3 * Chess(n, c) + Less(n, c)

LEMMA OffIs ==
  ASSUME NEW n \in Cells, NEW c \in Cells
  PROVE  /\ Off(n, c) \in Nat /\ Chess(n, c) \in Nat
         /\ LET dx == Gap(n[1], c[1])
                dy == Gap(n[2], c[2])
            IN  4 * Min({dx, dy}) + 3 * Gap(dx, dy) = Off(n, c)
<1>1. PICK x, y \in Nat : x = Gap(n[1], c[1]) /\ y = Gap(n[2], c[2])
  BY CellIsAPair DEF Gap
<1>2. Min({x, y}) = IF x < y THEN x ELSE y
  <2>1. {x, y} \subseteq Nat /\ {x, y} # {}
    OBVIOUS
  <2>2. Min({x, y}) \in {x, y} /\ Min({x, y}) <= x /\ Min({x, y}) <= y
    BY <2>1, LeastIsOne
  <2> QED  BY <2>2
<1>3. 4 * Min({x, y}) + 3 * Gap(x, y) = Off(n, c)
  BY <1>1, <1>2 DEF Off, Chess, Less, Gap
<1>4. Off(n, c) \in Nat /\ Chess(n, c) \in Nat
  BY <1>1 DEF Off, Chess, Less
<1> QED  BY <1>1, <1>3, <1>4

LEMMA OffIsWhole == \A n, c \in Cells : Off(n, c) \in Nat /\ Chess(n, c) \in Nat
BY OffIs

\* A neighbour is as far off as the step to it is long, and no step makes more
\* difference than that.
LEMMA StepIsOff ==
  ASSUME NEW c \in Cells, NEW m \in Around[c]
  PROVE  /\ m \in Cells /\ Off(m, c) = Thirds(c, m) /\ Thirds(c, m) \in Nat
         /\ \A n \in Cells : Off(n, c) <= Off(n, m) + Thirds(c, m)
<1>1. m \in Cells /\ m # c /\ Gap(m[1], c[1]) <= 1 /\ Gap(m[2], c[2]) <= 1
  BY DEF Around
<1>2. /\ c[1] \in Nat /\ c[2] \in Nat /\ m[1] \in Nat /\ m[2] \in Nat
      /\ (c[1] # m[1] \/ c[2] # m[2])
  BY <1>1, CellIsAPair
<1>3. ASSUME NEW n \in Cells
      PROVE  Off(n, c) <= Off(n, m) + Thirds(c, m)
  <2>1. n[1] \in Nat /\ n[2] \in Nat
    BY CellIsAPair
  <2>2. PICK x, y, p, q \in Nat : /\ x = Gap(n[1], c[1]) /\ y = Gap(n[2], c[2])
                                  /\ p = Gap(n[1], m[1]) /\ q = Gap(n[2], m[2])
    <3>1. \A i, j \in Nat : Gap(i, j) \in Nat
      BY DEF Gap
    <3> QED  BY <1>2, <2>1, <3>1
  <2>3. x <= p + 1 /\ y <= q + 1 /\ (c[1] = m[1] => x = p) /\ (c[2] = m[2] => y = q)
    BY <1>1, <1>2, <2>1, <2>2 DEF Gap
  <2>4. CASE c[1] # m[1] /\ c[2] # m[2]
    BY <2>2, <2>3, <2>4 DEF Off, Chess, Less, Thirds, IsDiagonal
  <2>5. CASE ~(c[1] # m[1] /\ c[2] # m[2])
    BY <2>2, <2>3, <2>5 DEF Off, Chess, Less, Thirds, IsDiagonal
  <2> QED  BY <2>4, <2>5
<1>4. Off(m, c) = Thirds(c, m) /\ Thirds(c, m) \in Nat
  BY <1>1, <1>2 DEF Off, Chess, Less, Thirds, IsDiagonal, Gap
<1> QED  BY <1>1, <1>3, <1>4

\* How far a cell is from what is shut and from the edge is told by these.
Marks(shut, c) ==
  {Off(n, c) : n \in shut} \cup {3 * (c[1] + 1), 3 * (c[2] + 1), 3 * (W - c[1]), 3 * (H - c[2])}

LEMMA DistanceIs ==
  ASSUME NEW shut \in SUBSET Cells, NEW c \in Cells
  PROVE  /\ DistanceToSolid(shut, c) \in Nat
         /\ c \in shut => DistanceToSolid(shut, c) = 0
         /\ c \notin shut => DistanceToSolid(shut, c) \in Marks(shut, c)
         /\ \A d \in Marks(shut, c) : DistanceToSolid(shut, c) <= d
<1>1. /\ W \in Nat /\ H \in Nat /\ c[1] \in Nat /\ c[2] \in Nat /\ c[1] < W /\ c[2] < H
  BY CellIsAPair
<1>2. Marks(shut, c) \subseteq Nat /\ Marks(shut, c) # {}
  <2>1. \A n \in shut : Off(n, c) \in Nat
    BY OffIs
  <2>2. 3 * (c[1] + 1) \in Nat /\ 3 * (c[2] + 1) \in Nat /\ 3 * (W - c[1]) \in Nat /\ 3 * (H - c[2]) \in Nat
    BY <1>1
  <2> QED  BY <2>1, <2>2 DEF Marks
<1>3. PICK least : least = Min(Marks(shut, c))
  OBVIOUS
<1>4. least \in Marks(shut, c) /\ \A d \in Marks(shut, c) : least <= d
  BY <1>2, <1>3, LeastIsOne
<1>5. DistanceToSolid(shut, c) = IF c \in shut THEN 0 ELSE least
  <2>1. DistanceToSolid(shut, c) =
          IF c \in shut THEN 0
          ELSE Min({LET dx == Gap(n[1], c[1])
                        dy == Gap(n[2], c[2])
                    IN  4 * Min({dx, dy}) + 3 * Gap(dx, dy) : n \in shut} \cup
                   {3 * (c[1] + 1), 3 * (c[2] + 1), 3 * (W - c[1]), 3 * (H - c[2])})
    BY Zenon DEF DistanceToSolid
  <2>2. {LET dx == Gap(n[1], c[1])
             dy == Gap(n[2], c[2])
         IN  4 * Min({dx, dy}) + 3 * Gap(dx, dy) : n \in shut} = {Off(n, c) : n \in shut}
    BY OffIs
  <2> QED  BY <1>3, <2>1, <2>2 DEF Marks
<1>6. \A d \in Marks(shut, c) : 0 <= d
  BY <1>2
<1> QED  BY <1>2, <1>4, <1>5, <1>6

\* No step makes more difference to how far a cell is than it is long, and no
\* cell is further off than the edge.
LEMMA DistanceSteps ==
  ASSUME NEW shut \in SUBSET Cells, NEW c \in Cells
  PROVE  /\ \A m \in Around[c] : /\ m \in Cells /\ Thirds(c, m) \in Nat
                                 /\ DistanceToSolid(shut, c) <= DistanceToSolid(shut, m) + Thirds(c, m)
         /\ AtTheEdge(c) => DistanceToSolid(shut, c) <= 3
         /\ DistanceToSolid(shut, c) <= Unreached
<1>1. /\ W \in Nat /\ H \in Nat /\ c[1] \in Nat /\ c[2] \in Nat /\ c[1] < W /\ c[2] < H
  BY CellIsAPair
<1>2. PICK d : d = DistanceToSolid(shut, c)
  OBVIOUS
<1>3. d \in Nat /\ (c \in shut => d = 0) /\ \A k \in Marks(shut, c) : d <= k
  BY <1>2, DistanceIs
<1>4. /\ d <= 3 * (c[1] + 1) /\ d <= 3 * (c[2] + 1) /\ d <= 3 * (W - c[1]) /\ d <= 3 * (H - c[2])
      /\ \A n \in shut : d <= Off(n, c)
  BY <1>3 DEF Marks
<1>5. ASSUME NEW m \in Around[c]
      PROVE  /\ m \in Cells /\ Thirds(c, m) \in Nat
             /\ d <= DistanceToSolid(shut, m) + Thirds(c, m)
  <2>1. /\ m \in Cells /\ Off(m, c) = Thirds(c, m) /\ Thirds(c, m) \in Nat
        /\ \A n \in Cells : Off(n, c) <= Off(n, m) + Thirds(c, m)
    BY StepIsOff
  <2>2. /\ m[1] \in Nat /\ m[2] \in Nat /\ m[1] < W /\ m[2] < H
        /\ Gap(m[1], c[1]) <= 1 /\ Gap(m[2], c[2]) <= 1 /\ Thirds(c, m) >= 3
    BY <2>1, CellIsAPair DEF Around, Thirds
  <2>3. PICK e : e = DistanceToSolid(shut, m)
    OBVIOUS
  <2>4. e \in Nat /\ (m \in shut => e = 0) /\ (m \notin shut => e \in Marks(shut, m))
    BY <2>1, <2>3, DistanceIs
  <2>5. CASE m \in shut
    BY <1>3, <1>4, <2>1, <2>3, <2>4, <2>5
  <2>6. CASE m \notin shut
    <3>1. CASE e \in {Off(n, m) : n \in shut}
      <4>1. PICK n \in shut : e = Off(n, m)
        BY <3>1
      <4>2. n \in Cells /\ Off(n, c) \in Nat /\ d <= Off(n, c) /\ Off(n, c) <= e + Thirds(c, m)
        BY <1>4, <2>1, <4>1, OffIs
      <4> QED  BY <1>3, <2>1, <2>3, <2>4, <4>2
    <3>2. CASE e \in {3 * (m[1] + 1), 3 * (m[2] + 1), 3 * (W - m[1]), 3 * (H - m[2])}
      <4>1. m[1] <= c[1] + 1 /\ c[1] <= m[1] + 1 /\ m[2] <= c[2] + 1 /\ c[2] <= m[2] + 1
        BY <1>1, <2>2 DEF Gap
      <4> QED  BY <1>1, <1>3, <1>4, <2>1, <2>2, <2>3, <3>2, <4>1
    <3> QED  BY <2>4, <2>6, <3>1, <3>2 DEF Marks
  <2> QED  BY <2>1, <2>5, <2>6
<1>6. ASSUME AtTheEdge(c) PROVE d <= 3
  BY <1>1, <1>3, <1>4, <1>6 DEF AtTheEdge
<1>7. d <= Unreached
  BY <1>1, <1>3, <1>4, UnreachedAssumption DEF UnreachedAssumption, Unreached
<1> QED  BY <1>2, <1>5, <1>6, <1>7

\* What a cell takes from those round it.
Taken3(f, c, side, edge) == {f[c]} \cup edge[c] \cup {f[n] + Thirds(c, n) : n \in side[c]}
Took(f, c, side, edge) == IF f[c] = 0 THEN f ELSE [f EXCEPT ![c] = Min(Taken3(f, c, side, edge))]

\* Values that are not below low and not above those it began with.
Between(low, f) == {v \in [Cells -> Nat] : \A c \in Cells : low[c] <= v[c] /\ v[c] <= f[c]}
IsSide(side) == side \in [Cells -> SUBSET Cells] /\ \A c \in Cells : side[c] \subseteq Around[c]
IsEdge(edge) == edge \in [Cells -> SUBSET Nat]
\* What low is below of.
Below(low, side, edge) ==
  /\ low \in [Cells -> Nat]
  /\ \A c \in Cells : /\ \A e \in edge[c] : low[c] <= e
                      /\ \A m \in side[c] : low[c] <= low[m] + Thirds(c, m)

LEMMA TakingIs ==
  ASSUME NEW side, NEW edge, IsSide(side), IsEdge(edge), NEW f \in [Cells -> Nat], NEW c \in Cells
  PROVE  LET v == Took(f, c, side, edge)
         IN  /\ v \in [Cells -> Nat] /\ v[c] <= f[c] /\ \A k \in Cells \ {c} : v[k] = f[k]
             /\ \A e \in edge[c] : v[c] <= e
             /\ \A m \in side[c] : m # c => v[c] <= v[m] + Thirds(c, m)
             /\ v[c] = f[c] \/ v[c] \in edge[c] \/ \E m \in side[c] : v[c] = f[m] + Thirds(c, m)
<1>1. PICK S : S = Taken3(f, c, side, edge)
  OBVIOUS
<1>2. \A m \in side[c] : m \in Cells /\ Thirds(c, m) \in Nat /\ f[m] \in Nat
  BY DEF IsSide, Thirds
<1>3. S \subseteq Nat /\ S # {}
  BY <1>1, <1>2 DEF Taken3, IsEdge
<1>4. PICK k : k = Min(S)
  OBVIOUS
<1>5. k \in S /\ k \in Nat /\ \A y \in S : k <= y
  BY <1>3, <1>4, LeastIsOne
<1>6. /\ k <= f[c] /\ (\A e \in edge[c] : k <= e) /\ \A m \in side[c] : k <= f[m] + Thirds(c, m)
  BY <1>1, <1>5 DEF Taken3
<1>7. PICK v : v = Took(f, c, side, edge)
  OBVIOUS
<1>8. CASE f[c] = 0
  <2>1. v = f
    BY <1>7, <1>8 DEF Took
  <2>2. \A e \in edge[c] : 0 <= e
    BY DEF IsEdge
  <2>3. \A m \in side[c] : 0 <= f[m] + Thirds(c, m)
    BY <1>2
  <2> QED  BY <1>7, <1>8, <2>1, <2>2, <2>3
<1>9. CASE f[c] # 0
  <2>1. v = [f EXCEPT ![c] = k]
    BY <1>1, <1>4, <1>7, <1>9 DEF Took
  <2>2. v \in [Cells -> Nat] /\ v[c] = k /\ \A d \in Cells \ {c} : v[d] = f[d]
    BY <1>5, <2>1
  <2>3. \A m \in side[c] : m # c => v[m] = f[m]
    BY <1>2, <2>2
  <2>4. k = f[c] \/ k \in edge[c] \/ \E m \in side[c] : k = f[m] + Thirds(c, m)
    BY <1>1, <1>5 DEF Taken3
  <2> QED  BY <1>6, <1>7, <2>2, <2>3, <2>4
<1> QED  BY <1>8, <1>9

LEMMA TakingStays ==
  ASSUME NEW side, NEW edge, IsSide(side), IsEdge(edge), NEW low, Below(low, side, edge),
         NEW clear \in [Cells -> Nat], NEW f \in Between(low, clear), NEW c \in Cells
  PROVE  Took(f, c, side, edge) \in Between(low, clear)
<1>1. PICK v : v = Took(f, c, side, edge)
  OBVIOUS
<1>2. f \in [Cells -> Nat] /\ \A k \in Cells : low[k] <= f[k] /\ f[k] <= clear[k] /\ low[k] \in Nat
  BY DEF Between, Below
<1>3. /\ v \in [Cells -> Nat] /\ v[c] <= f[c] /\ \A k \in Cells \ {c} : v[k] = f[k]
      /\ v[c] = f[c] \/ v[c] \in edge[c] \/ \E m \in side[c] : v[c] = f[m] + Thirds(c, m)
  BY <1>1, <1>2, TakingIs
<1>4. low[c] <= v[c]
  <2>1. ASSUME NEW m \in side[c], v[c] = f[m] + Thirds(c, m)
        PROVE  low[c] <= v[c]
    <3>1. m \in Cells /\ Thirds(c, m) \in Nat /\ low[c] <= low[m] + Thirds(c, m)
      BY DEF IsSide, Below, Thirds
    <3> QED  BY <1>2, <2>1, <3>1
  <2>2. \A e \in edge[c] : low[c] <= e
    BY DEF Below
  <2> QED  BY <1>2, <1>3, <2>1, <2>2
<1>5. v[c] <= clear[c]
  BY <1>2, <1>3
<1> QED  BY <1>1, <1>2, <1>3, <1>4, <1>5 DEF Between

LEMMA PassRuns ==
  ASSUME NEW side, NEW edge, IsSide(side), IsEdge(edge), NEW low, Below(low, side, edge),
         NEW clear, clear \in Between(low, clear), NEW n \in Nat, NEW order \in [1..n -> Cells]
  PROVE  \E q : /\ q \in [0..n -> Between(low, clear)] /\ q[0] = clear
                /\ q[n] = Pass(clear, order, side, edge)
                /\ \A i \in 0..(n - 1) : q[i + 1] = Took(q[i], order[i + 1], side, edge)
<1> DEFINE V == Between(low, clear)
           Taking(far, c) ==
             IF far[c] = 0 THEN far
             ELSE [far EXCEPT ![c] = Min({@} \cup edge[c] \cup {far[m] + Thirds(c, m) : m \in side[c]})]
           One(v, i) == Once(LAMBDA f : Taking(f, order[i]), v)
           F == [p \in V \X Nat |-> IF p[2] \in 1..n THEN One(p[1], p[2]) ELSE p[1]]
           Solves(g) == g = [S \in SUBSET DOMAIN order |->
                               IF S = {} THEN clear ELSE One(g[S \ {Max(S)}], Max(S))]
<1>0. ASSUME NEW v \in V, NEW i \in 1..n
      PROVE  One(v, i) = Took(v, order[i], side, edge)
  <2>1. PICK c \in Cells : c = order[i]
    OBVIOUS
  <2>2. v \in [Cells -> Nat]
    BY DEF Between
  <2>3. One(v, i) = Taking(v, c)
    <3> HIDE DEF Taking
    <3> QED  BY <2>1, Zenon DEF Once
  <2>4. Taking(v, c) = Took(v, c, side, edge)
    BY <2>2 DEF Took, Taken3
  <2> QED  BY <2>1, <2>3, <2>4
<1>1. Pass(clear, order, side, edge) = (CHOOSE g : Solves(g))[DOMAIN order]
  BY DEF Pass, FoldLeft, MapThenFoldSet
<1>2. DOMAIN order = 1..n
  OBVIOUS
<1>4. ASSUME NEW v \in V, NEW i \in 1..n
      PROVE  F[<<v, i>>] = One(v, i)
  <2> HIDE DEF V, One
  <2> QED  OBVIOUS
<1>5. ASSUME NEW v \in V, NEW i \in Nat
      PROVE  F[<<v, i>>] \in V
  <2>1. CASE i \in 1..n
    <3>1. PICK c \in Cells : c = order[i]
      BY <2>1
    <3>2. clear \in [Cells -> Nat]
      BY DEF Between
    <3>3. One(v, i) \in V
      <4> HIDE DEF One
      <4> QED  BY <1>0, <2>1, <3>1, <3>2, TakingStays
    <3> HIDE DEF One, V
    <3> QED  BY <2>1, <3>3
  <2>2. CASE i \notin 1..n
    <3> HIDE DEF One, V
    <3> QED  BY <2>2
  <2> QED  BY <2>1, <2>2
<1>6. clear \in V
  OBVIOUS
<1>7. PICK h \in [SUBSET (1..n) -> V] :
        \A S \in SUBSET (1..n) : h[S] = IF S = {} THEN clear ELSE F[<<h[S \ {Max(S)}], Max(S)>>]
  <2> HIDE DEF F, V
  <2>1. PICK U, e, G : U = V /\ e = clear /\ G = F
    OBVIOUS
  <2>2. e \in U /\ \A v \in U : \A i \in Nat : G[<<v, i>>] \in U
    BY <1>5, <1>6, <2>1
  <2>3. \E h : FoldsUp(h, n, U, e, G)
    BY <2>2, FoldExists, Zenon
  <2> QED  BY <2>1, <2>3 DEF FoldsUp
<1>8. ASSUME NEW S \in SUBSET (1..n), S # {}
      PROVE  h[S] = One(h[S \ {Max(S)}], Max(S))
  <2>1. PICK x : x = Max(S) /\ x \in S
    BY <1>8, GreatestIsOne, Zenon
  <2> HIDE DEF V, F, One
  <2>2. x \in 1..n /\ S \ {x} \in SUBSET (1..n)
    <3>1. x \in 1..n
      BY <2>1
    <3>2. S \ {x} \in SUBSET (1..n)
      OBVIOUS
    <3> QED  BY <3>1, <3>2
  <2>3. h[S \ {x}] \in V /\ h[S] = F[<<h[S \ {x}], x>>]
    BY <1>7, <1>8, <2>1, <2>2
  <2> QED  BY <1>4, <2>1, <2>2, <2>3
<1>9. Solves(h)
  <2> HIDE DEF V, F, One
  <2> QED  BY <1>2, <1>7, <1>8
<1>10. PICK g : Solves(g) /\ g[1..n] = (CHOOSE u : Solves(u))[DOMAIN order]
  <2> HIDE DEF Solves
  <2> QED  BY <1>2, <1>9
<1>11. g[{}] = clear /\ \A S \in SUBSET (1..n) : S # {} => g[S] = One(g[S \ {Max(S)}], Max(S))
  <2> HIDE DEF One
  <2> QED  BY <1>2, <1>10
<1>12. RunsTo(n, V, clear, F, g[1..n])
  <2> HIDE DEF Solves, One, F, V
  <2>1. PICK U, e, G : U = V /\ e = clear /\ G = F
    OBVIOUS
  <2>2. e \in U /\ \A v \in U : \A i \in Nat : G[<<v, i>>] \in U
    BY <1>5, <1>6, <2>1
  <2>3. ASSUME NEW S \in SUBSET (1..n), S # {}, g[S \ {Max(S)}] \in U
        PROVE  g[S] = G[<<g[S \ {Max(S)}], Max(S)>>]
    <3>1. PICK x : x = Max(S) /\ x \in S
      BY <2>3, GreatestIsOne, Zenon
    <3>2. x \in 1..n
      BY <3>1
    <3>3. g[S] = One(g[S \ {x}], x) /\ g[S \ {x}] \in V
      BY <1>11, <2>1, <2>3, <3>1
    <3> QED  BY <1>4, <2>1, <3>1, <3>2, <3>3
  <2>4. g[{}] = e
    BY <1>11, <2>1
  <2>5. \A S \in SUBSET (1..n) : S # {} /\ g[S \ {Max(S)}] \in U =>
          g[S] = G[<<g[S \ {Max(S)}], Max(S)>>]
    BY <2>3
  <2>6. e \in U /\ n \in Nat
    BY <2>2
  <2>7. \A v \in U : \A i \in Nat : G[<<v, i>>] \in U
    BY <2>2
  <2>8. RunsTo(n, U, e, G, g[1..n])
    BY ONLY <2>4, <2>5, <2>6, <2>7, FoldRuns, Zenon
  <2> QED  BY <2>1, <2>8
<1>13. PICK q : Runs(q, n, V, clear, F) /\ q[n] = Pass(clear, order, side, edge)
  <2> HIDE DEF Solves, F, V
  <2> QED  BY <1>1, <1>10, <1>12 DEF RunsTo
<1>14. \A i \in 0..(n - 1) : q[i + 1] = Took(q[i], order[i + 1], side, edge)
  <2> SUFFICES ASSUME NEW i \in 0..(n - 1) PROVE q[i + 1] = Took(q[i], order[i + 1], side, edge)
    OBVIOUS
  <2>1. i \in 0..n /\ i + 1 \in 1..n
    OBVIOUS
  <2>2. q[i] \in V /\ q[i + 1] = F[<<q[i], i + 1>>]
    <3> HIDE DEF F, V
    <3> QED  BY <1>13, <2>1 DEF Runs
  <2> HIDE DEF F, V, One
  <2> QED  BY <1>0, <1>4, <2>1, <2>2
<1> HIDE DEF F
<1> QED  BY <1>13, <1>14 DEF Runs

\* A pass in an order in which every cell comes after those it takes from: what
\* comes out is not above what it began with, the edge, or what it takes.
IsOrder(order, n, side) ==
  /\ n \in Nat /\ order \in [1..n -> Cells] /\ \A c \in Cells : \E i \in 1..n : order[i] = c
  /\ \A i, j \in 1..n : order[i] = order[j] => i = j
  /\ \A i, j \in 1..n : order[j] \in side[order[i]] => j < i

LEMMA PassSettles ==
  ASSUME NEW side, NEW edge, IsSide(side), IsEdge(edge), NEW low, Below(low, side, edge),
         NEW clear, clear \in Between(low, clear), NEW n, NEW order, IsOrder(order, n, side)
  PROVE  LET v == Pass(clear, order, side, edge)
         IN  /\ v \in Between(low, clear)
             /\ \A c \in Cells : /\ \A e \in edge[c] : v[c] <= e
                                 /\ \A m \in side[c] : v[c] <= v[m] + Thirds(c, m)
<1>0. n \in Nat /\ order \in [1..n -> Cells]
  BY DEF IsOrder
<1>1. PICK q : /\ q \in [0..n -> Between(low, clear)] /\ q[0] = clear
               /\ q[n] = Pass(clear, order, side, edge)
               /\ \A i \in 0..(n - 1) : q[i + 1] = Took(q[i], order[i + 1], side, edge)
  BY <1>0, PassRuns
<1> DEFINE Done(f, c) == /\ \A e \in edge[c] : f[c] <= e
                         /\ \A m \in side[c] : f[c] <= f[m] + Thirds(c, m)
           T == {k \in 0..n : \A j \in 1..k : Done(q[k], order[j])}
<1>2. 0 \in T
  BY <1>0
<1>3. ASSUME NEW k \in 0..(n - 1), k \in T
      PROVE  k + 1 \in T
  <2>1. k \in 0..n /\ k + 1 \in 0..n /\ k + 1 \in 1..n /\ k \in Nat
    BY <1>0
  <2>2. PICK c \in Cells : c = order[k + 1]
    BY <1>0, <2>1
  <2>3. PICK f \in [Cells -> Nat] : f = q[k]
    BY <1>1, <2>1 DEF Between
  <2>4. PICK v : v = q[k + 1]
    OBVIOUS
  <2>5. v = Took(f, c, side, edge)
    BY <1>1, <2>2, <2>3, <2>4
  <2>6. /\ \A d \in Cells \ {c} : v[d] = f[d]
        /\ \A e \in edge[c] : v[c] <= e
        /\ \A m \in side[c] : m # c => v[c] <= v[m] + Thirds(c, m)
    BY <2>5, TakingIs
  <2>7. c \notin side[c]
    BY <2>1, <2>2 DEF IsOrder
  <2>8. ASSUME NEW j \in 1..(k + 1)
        PROVE  Done(v, order[j])
    <3>1. CASE j = k + 1
      BY <2>2, <2>6, <2>7, <3>1
    <3>2. CASE j # k + 1
      <4>1. j \in 1..k /\ j \in 1..n
        BY <1>0, <2>1, <3>2
      <4>2. PICK d \in Cells : d = order[j]
        BY <1>0, <4>1
      <4>3. d # c
        BY <2>1, <2>2, <3>2, <4>1, <4>2 DEF IsOrder
      <4>4. ASSUME NEW m \in side[d]
            PROVE  m # c /\ m \in Cells
        <5>1. m \in Cells
          BY DEF IsSide
        <5>2. m = c => k + 1 < j
          BY <2>1, <2>2, <4>1, <4>2 DEF IsOrder
        <5> QED  BY <2>1, <4>1, <5>1, <5>2
      <4>5. Done(f, d)
        BY <1>3, <2>3, <4>1, <4>2
      <4>6. v[d] = f[d] /\ \A m \in side[d] : v[m] = f[m]
        BY <2>6, <4>3, <4>4
      <4> QED  BY <4>2, <4>5, <4>6
    <3> QED  BY <3>1, <3>2
  <2> QED  BY <2>1, <2>4, <2>8
<1>4. n \in T
  <2>1. \A k \in 0..n : k \in T
    <3> HIDE DEF T
    <3> QED  BY <1>0, <1>2, <1>3, UpTo
  <2> HIDE DEF T
  <2> QED  BY <1>0, <2>1
<1>5. n \in 0..n /\ q[n] \in Between(low, clear)
  BY <1>0, <1>1
<1>6. ASSUME NEW c \in Cells PROVE Done(q[n], c)
  <2>1. PICK i \in 1..n : order[i] = c
    BY DEF IsOrder
  <2> QED  BY <1>4, <2>1
<1> QED  BY <1>1, <1>5, <1>6

\* Where in the order a cell comes.
Place(c) == c[2] * W + c[1] + 1

LEMMA PlaceIs ==
  ASSUME NEW c \in Cells
  PROVE  Place(c) \in 1..W * H /\ RasterOrder[Place(c)] = c
<1>1. PICK x, y \in Nat : c = <<x, y>> /\ x = c[1] /\ y = c[2] /\ x < W /\ y < H /\ W \in Nat \ {0} /\ H \in Nat
  BY CellIsAPair, GridAssumption DEF GridAssumption
<1>2. y * W + x < W * H /\ y * W + x \in Nat
  BY <1>1
<1>3. (y * W + x) % W = x /\ (y * W + x) \div W = y
  BY <1>1
<1>4. PICK i \in Nat : i = y * W + x
  BY <1>2
<1>5. PICK m \in Nat : m = W * H
  BY <1>1
<1>6. Place(c) = i + 1 /\ i + 1 \in 1..m /\ (i + 1) - 1 = i
  BY <1>1, <1>2, <1>4, <1>5 DEF Place
<1>7. RasterOrder[i + 1] = <<i % W, i \div W>>
  BY <1>5, <1>6 DEF RasterOrder
<1> QED  BY <1>1, <1>3, <1>4, <1>5, <1>6, <1>7

LEMMA CellAt ==
  ASSUME NEW i \in 1..W * H
  PROVE  RasterOrder[i] \in Cells /\ Place(RasterOrder[i]) = i
<1>1. W \in Nat \ {0} /\ H \in Nat
  BY GridAssumption DEF GridAssumption
<1>2. PICK m \in Nat : m = W * H
  BY <1>1
<1>3. PICK n \in Nat : n = i - 1 /\ n < m /\ i \in 1..m
  <2>1. i \in 1..m
    BY <1>2
  <2>2. i - 1 \in Nat /\ i - 1 < m
    BY <2>1
  <2> QED  BY <2>1, <2>2
<1>4. PICK x, y : x = n % W /\ y = n \div W
  OBVIOUS
<1>5. x \in Nat /\ x < W /\ y \in Nat /\ n = y * W + x
  BY <1>1, <1>4
<1>6. y < H
  BY <1>1, <1>2, <1>3, <1>5
<1>7. RasterOrder[i] = <<x, y>>
  BY <1>2, <1>3, <1>4 DEF RasterOrder
<1>8. <<x, y>> \in Cells /\ <<x, y>>[1] = x /\ <<x, y>>[2] = y
  BY <1>5, <1>6, PairIsACell
<1>9. Place(<<x, y>>) = i
  BY <1>3, <1>5, <1>8 DEF Place
<1> QED  BY <1>7, <1>8, <1>9

LEMMA BeforeIsBefore ==
  ASSUME NEW c \in Cells, NEW m \in Before[c]
  PROVE  m \in Around[c] /\ Place(m) < Place(c)
<1>1. /\ m \in Around[c] /\ m \in Cells /\ Gap(m[2], c[2]) <= 1
      /\ m[2] < c[2] \/ (m[2] = c[2] /\ m[1] < c[1])
  BY DEF Before, Around
<1>2. PICK x, y, p, q \in Nat : x = c[1] /\ y = c[2] /\ p = m[1] /\ q = m[2] /\ p < W /\ W \in Nat
  BY <1>1, CellIsAPair
<1>3. CASE q < y
  <2>1. y = q + 1
    BY <1>1, <1>2, <1>3 DEF Gap
  <2>2. y * W = q * W + W
    BY <1>2, <2>1
  <2>3. q * W \in Nat
    BY <1>2
  <2> QED  BY <1>1, <1>2, <2>2, <2>3 DEF Place
<1>4. CASE q = y /\ p < x
  <2>1. q * W = y * W /\ q * W \in Nat
    BY <1>2, <1>4
  <2> QED  BY <1>1, <1>2, <1>4, <2>1 DEF Place
<1> QED  BY <1>1, <1>2, <1>3, <1>4

LEMMA AfterIsAfter ==
  ASSUME NEW c \in Cells, NEW m \in After[c]
  PROVE  m \in Around[c] /\ Place(c) < Place(m)
<1>1. m \in Around[c] /\ m \in Cells /\ c \in Cells /\ m # c /\ m \notin Before[c]
  BY DEF After, Around
<1>2. /\ c[1] \in Nat /\ c[2] \in Nat /\ m[1] \in Nat /\ m[2] \in Nat
      /\ (m[1] # c[1] \/ m[2] # c[2])
  BY <1>1, CellIsAPair
<1>3. ~(m[2] < c[2]) /\ ~(m[2] = c[2] /\ m[1] < c[1])
  BY <1>1 DEF Before
<1>4. c[2] < m[2] \/ (c[2] = m[2] /\ c[1] < m[1])
  BY <1>2, <1>3
<1>5. c \in Around[m]
  BY <1>1, <1>2 DEF Around, Gap
<1>6. c \in Before[m]
  BY <1>1, <1>4, <1>5 DEF Before
<1> QED  BY <1>1, <1>6, BeforeIsBefore

LEMMA SidesAreSides == IsSide(Before) /\ IsSide(After)
BY DEF IsSide, Before, After, Around

LEMMA RasterIsAnOrder == IsOrder(RasterOrder, W * H, Before)
<1>1. W \in Nat /\ H \in Nat /\ W * H \in Nat
  BY GridAssumption DEF GridAssumption
<1>2. RasterOrder \in [1..W * H -> Cells]
  <2>1. \E f : RasterOrder = [i \in 1..W * H |-> f[i]]
    <3>1. RasterOrder = [i \in 1..W * H |-> RasterOrder[i]]
      BY DEF RasterOrder
    <3> QED  BY <3>1
  <2> QED  BY <2>1, CellAt
<1>3. \A c \in Cells : \E i \in 1..W * H : RasterOrder[i] = c
  BY PlaceIs
<1>4. \A i, j \in 1..W * H : RasterOrder[i] = RasterOrder[j] => i = j
  BY CellAt
<1>5. ASSUME NEW i \in 1..W * H, NEW j \in 1..W * H, RasterOrder[j] \in Before[RasterOrder[i]]
      PROVE  j < i
  BY <1>5, CellAt, BeforeIsBefore
<1> QED  BY <1>1, <1>2, <1>3, <1>4, <1>5 DEF IsOrder

LEMMA ReverseIsAnOrder == IsOrder(Reverse(RasterOrder), W * H, After)
<1>1. PICK n \in Nat : n = W * H
  BY GridAssumption DEF GridAssumption
<1>2. RasterOrder \in [1..n -> Cells] /\ RasterOrder \in Seq(Cells) /\ Len(RasterOrder) = n
  <2>1. RasterOrder \in [1..n -> Cells]
    BY <1>1, RasterIsAnOrder DEF IsOrder
  <2> QED  BY <2>1
<1>3. PICK r : r = Reverse(RasterOrder)
  OBVIOUS
<1>4. r = [i \in 1..n |-> RasterOrder[(n - i) + 1]]
  BY <1>2, <1>3 DEF Reverse
<1>5. \A i \in 1..n : (n - i) + 1 \in 1..n /\ (n - ((n - i) + 1)) + 1 = i
  OBVIOUS
<1>6. ASSUME NEW i \in 1..n
      PROVE  r[i] \in Cells /\ r[i] = RasterOrder[(n - i) + 1] /\ Place(r[i]) = (n - i) + 1
  BY <1>1, <1>4, <1>5, CellAt
<1>7. r \in [1..n -> Cells]
  BY <1>4, <1>6
<1>8. ASSUME NEW c \in Cells
      PROVE  \E i \in 1..n : r[i] = c
  <2>1. PICK k \in 1..n : RasterOrder[k] = c
    BY <1>1, PlaceIs
  <2>2. (n - k) + 1 \in 1..n /\ r[(n - k) + 1] = c
    BY <1>4, <1>5, <2>1
  <2> QED  BY <2>2
<1>9. \A i, j \in 1..n : r[i] = r[j] => i = j
  <2> SUFFICES ASSUME NEW i \in 1..n, NEW j \in 1..n, r[i] = r[j] PROVE i = j
    OBVIOUS
  <2>1. (n - i) + 1 = (n - j) + 1
    BY <1>6
  <2> QED  BY <2>1
<1>10. ASSUME NEW i \in 1..n, NEW j \in 1..n, r[j] \in After[r[i]]
       PROVE  j < i
  <2>1. Place(r[i]) < Place(r[j])
    BY <1>6, <1>10, AfterIsAfter
  <2>2. Place(r[i]) = (n - i) + 1 /\ Place(r[j]) = (n - j) + 1
    BY <1>6
  <2> QED  BY <2>1, <2>2
<1> QED  BY <1>1, <1>3, <1>7, <1>8, <1>9, <1>10 DEF IsOrder

\* What the first pass brings to a cell: what lies above it, and not further to
\* the right than above.
FromAbove(c, n) == n[2] <= c[2] /\ (n[1] <= c[1] \/ n[1] - c[1] <= c[2] - n[2])

LEMMA StepAbove ==
  ASSUME NEW c \in Cells, NEW n \in Cells, c # n, FromAbove(c, n)
  PROVE  \E m \in Before[c] : /\ m \in Cells /\ FromAbove(m, n) /\ Chess(n, m) + 1 = Chess(n, c)
                              /\ Off(n, c) = Off(n, m) + Thirds(c, m)
<1>1. PICK x, y, p, q \in Nat : /\ c = <<x, y>> /\ x = c[1] /\ y = c[2] /\ x < W /\ y < H /\ W \in Nat /\ H \in Nat
                                /\ n = <<p, q>> /\ p = n[1] /\ q = n[2] /\ p < W /\ q < H
  BY CellIsAPair
<1>2. q <= y /\ (p <= x \/ p - x <= y - q) /\ (p # x \/ q # y)
  BY <1>1 DEF FromAbove
<1>3. PICK u, v \in Int : /\ u = IF p < x THEN x - 1 ELSE IF p = x THEN x ELSE x + 1
                          /\ v = IF q = y THEN y ELSE y - 1
  BY <1>1
<1>4. 0 <= u /\ u < W /\ 0 <= v /\ v < H
  BY <1>1, <1>2, <1>3
<1>5. PICK m \in Cells : m = <<u, v>> /\ m[1] = u /\ m[2] = v
  <2>1. <<u, v>> \in Cells /\ <<u, v>>[1] = u /\ <<u, v>>[2] = v
    BY <1>3, <1>4, PairIsACell
  <2> QED  BY <2>1
<1>6. m \in Around[c] /\ (v < y \/ (v = y /\ u < x))
  BY <1>1, <1>2, <1>3, <1>5 DEF Around, Gap
<1>7. m \in Before[c]
  BY <1>1, <1>5, <1>6 DEF Before
<1>8. FromAbove(m, n)
  BY <1>1, <1>2, <1>3, <1>5 DEF FromAbove
<1>9. /\ Gap(n[1], c[1]) = (IF p < x THEN x - p ELSE p - x) /\ Gap(n[2], c[2]) = y - q
      /\ Gap(n[1], m[1]) = (IF p < x THEN (x - p) - 1 ELSE IF p = x THEN 0 ELSE (p - x) - 1)
      /\ Gap(n[2], m[2]) = (IF q = y THEN 0 ELSE (y - q) - 1)
  BY <1>1, <1>2, <1>3, <1>5 DEF Gap
<1>10. Chess(n, m) + 1 = Chess(n, c) /\ Off(n, c) = Off(n, m) + Thirds(c, m)
  BY <1>1, <1>2, <1>3, <1>5, <1>9 DEF Chess, Off, Less, Thirds, IsDiagonal
<1> QED  BY <1>5, <1>7, <1>8, <1>10

LEMMA StepBelow ==
  ASSUME NEW c \in Cells, NEW n \in Cells, ~FromAbove(c, n)
  PROVE  \E m \in After[c] : /\ m \in Cells /\ Chess(n, m) + 1 = Chess(n, c)
                             /\ Off(n, c) = Off(n, m) + Thirds(c, m)
<1>1. PICK x, y, p, q \in Nat : /\ c = <<x, y>> /\ x = c[1] /\ y = c[2] /\ x < W /\ y < H /\ W \in Nat /\ H \in Nat
                                /\ n = <<p, q>> /\ p = n[1] /\ q = n[2] /\ p < W /\ q < H
  BY CellIsAPair
<1>2. y < q \/ (q <= y /\ x < p /\ y - q < p - x)
  BY <1>1 DEF FromAbove
<1>3. PICK u, v \in Int : /\ u = IF p < x THEN x - 1 ELSE IF p = x THEN x ELSE x + 1
                          /\ v = IF q <= y THEN y ELSE y + 1
  BY <1>1
<1>4. 0 <= u /\ u < W /\ 0 <= v /\ v < H
  BY <1>1, <1>2, <1>3
<1>5. PICK m \in Cells : m = <<u, v>> /\ m[1] = u /\ m[2] = v
  <2>1. <<u, v>> \in Cells /\ <<u, v>>[1] = u /\ <<u, v>>[2] = v
    BY <1>3, <1>4, PairIsACell
  <2> QED  BY <2>1
<1>6. m \in Around[c] /\ ~(v < y \/ (v = y /\ u < x))
  BY <1>1, <1>2, <1>3, <1>5 DEF Around, Gap
<1>7. m \in After[c]
  BY <1>1, <1>5, <1>6 DEF After, Before
<1>8. CASE y < q
  <2>1. /\ Gap(n[1], c[1]) = (IF p < x THEN x - p ELSE p - x) /\ Gap(n[2], c[2]) = q - y
        /\ Gap(n[1], m[1]) = (IF p < x THEN (x - p) - 1 ELSE IF p = x THEN 0 ELSE (p - x) - 1)
        /\ Gap(n[2], m[2]) = (q - y) - 1
    BY <1>1, <1>3, <1>5, <1>8 DEF Gap
  <2>2. Chess(n, m) + 1 = Chess(n, c) /\ Off(n, c) = Off(n, m) + Thirds(c, m)
    BY <1>1, <1>3, <1>5, <1>8, <2>1 DEF Chess, Off, Less, Thirds, IsDiagonal
  <2> QED  BY <1>5, <1>7, <2>2
<1>9. CASE q <= y /\ x < p /\ y - q < p - x
  <2>1. /\ Gap(n[1], c[1]) = p - x /\ Gap(n[2], c[2]) = y - q
        /\ Gap(n[1], m[1]) = (p - x) - 1 /\ Gap(n[2], m[2]) = y - q
    BY <1>1, <1>3, <1>5, <1>9 DEF Gap
  <2>2. Chess(n, m) + 1 = Chess(n, c) /\ Off(n, c) = Off(n, m) + Thirds(c, m)
    BY <1>1, <1>3, <1>5, <1>9, <2>1 DEF Chess, Off, Less, Thirds, IsDiagonal
  <2> QED  BY <1>5, <1>7, <2>2
<1> QED  BY <1>2, <1>8, <1>9

\* What the two passes come to.
IsDown(shut, down) ==
  /\ down \in [Cells -> Nat] /\ \A n \in shut : down[n] = 0
  /\ \A c \in Cells : /\ AtTheEdge(c) => down[c] <= 3
                      /\ \A m \in Before[c] : down[c] <= down[m] + Thirds(c, m)
IsUp(down, far) ==
  /\ far \in [Cells -> Nat]
  /\ \A c \in Cells : far[c] <= down[c] /\ \A m \in After[c] : far[c] <= far[m] + Thirds(c, m)

LEMMA AboveIsReached ==
  ASSUME NEW shut \in SUBSET Cells, NEW down, IsDown(shut, down),
         NEW c \in Cells, NEW n \in shut, FromAbove(c, n)
  PROVE  down[c] <= Off(n, c)
<1> DEFINE T == {k \in Nat : \A d \in Cells : FromAbove(d, n) /\ Chess(n, d) = k => down[d] <= Off(n, d)}
<1>1. n \in Cells /\ down[n] = 0
  BY DEF IsDown
<1>2. ASSUME NEW d \in Cells, d = n
      PROVE  down[d] <= Off(n, d)
  <2>1. Off(n, d) \in Nat
    BY <1>1, OffIs
  <2> QED  BY <1>1, <1>2, <2>1
<1>3. 0 \in T
  <2> SUFFICES ASSUME NEW d \in Cells, FromAbove(d, n), Chess(n, d) = 0, d # n PROVE FALSE
    BY <1>2
  <2>1. PICK m \in Cells : Chess(n, m) + 1 = 0
    BY <1>1, StepAbove
  <2> QED  BY <1>1, <2>1, OffIsWhole
<1>4. ASSUME NEW k \in T
      PROVE  k + 1 \in T
  <2> SUFFICES ASSUME NEW d \in Cells, FromAbove(d, n), Chess(n, d) = k + 1, d # n
               PROVE  down[d] <= Off(n, d)
    BY <1>2
  <2>1. PICK m \in Before[d] : /\ m \in Cells /\ FromAbove(m, n) /\ Chess(n, m) + 1 = Chess(n, d)
                               /\ Off(n, d) = Off(n, m) + Thirds(d, m)
    BY <1>1, StepAbove
  <2>2. Chess(n, m) = k /\ Off(n, m) \in Nat
    BY <1>1, <2>1, OffIsWhole
  <2>3. down[m] <= Off(n, m)
    BY <2>1, <2>2
  <2>4. down[d] \in Nat /\ down[m] \in Nat /\ down[d] <= down[m] + Thirds(d, m) /\ Thirds(d, m) \in Nat
    BY <2>1 DEF IsDown, Thirds
  <2> QED  BY <2>1, <2>2, <2>3, <2>4
<1>5. T = Nat
  <2>1. T \subseteq Nat
    OBVIOUS
  <2> HIDE DEF T
  <2> QED  BY <1>3, <1>4, <2>1, AllNumbers
<1>6. Chess(n, c) \in T
  <2>1. Chess(n, c) \in Nat
    BY <1>1, OffIs
  <2> HIDE DEF T
  <2> QED  BY <1>5, <2>1
<1> QED  BY <1>6

LEMMA SolidIsReached ==
  ASSUME NEW shut \in SUBSET Cells, NEW down, IsDown(shut, down), NEW far, IsUp(down, far),
         NEW c \in Cells, NEW n \in shut
  PROVE  far[c] <= Off(n, c)
<1> DEFINE T == {k \in Nat : \A d \in Cells : Chess(n, d) = k => far[d] <= Off(n, d)}
<1>1. n \in Cells
  OBVIOUS
<1>2. ASSUME NEW d \in Cells, FromAbove(d, n)
      PROVE  far[d] <= Off(n, d)
  <2>1. down[d] <= Off(n, d) /\ Off(n, d) \in Nat
    BY <1>1, <1>2, AboveIsReached, OffIsWhole
  <2>2. far[d] \in Nat /\ down[d] \in Nat /\ far[d] <= down[d]
    BY DEF IsDown, IsUp
  <2> QED  BY <2>1, <2>2
<1>3. 0 \in T
  <2> SUFFICES ASSUME NEW d \in Cells, Chess(n, d) = 0, ~FromAbove(d, n) PROVE FALSE
    BY <1>2
  <2>1. PICK m \in Cells : Chess(n, m) + 1 = 0
    BY <1>1, StepBelow
  <2> QED  BY <1>1, <2>1, OffIsWhole
<1>4. ASSUME NEW k \in T
      PROVE  k + 1 \in T
  <2> SUFFICES ASSUME NEW d \in Cells, Chess(n, d) = k + 1, ~FromAbove(d, n)
               PROVE  far[d] <= Off(n, d)
    BY <1>2
  <2>1. PICK m \in After[d] : /\ m \in Cells /\ Chess(n, m) + 1 = Chess(n, d)
                              /\ Off(n, d) = Off(n, m) + Thirds(d, m)
    BY <1>1, StepBelow
  <2>2. Chess(n, m) = k /\ Off(n, m) \in Nat
    BY <1>1, <2>1, OffIsWhole
  <2>3. far[m] <= Off(n, m)
    BY <2>1, <2>2
  <2>4. far[d] \in Nat /\ far[m] \in Nat /\ far[d] <= far[m] + Thirds(d, m) /\ Thirds(d, m) \in Nat
    BY <2>1 DEF IsUp, Thirds
  <2> QED  BY <2>1, <2>2, <2>3, <2>4
<1>5. T = Nat
  <2>1. T \subseteq Nat
    OBVIOUS
  <2> HIDE DEF T
  <2> QED  BY <1>3, <1>4, <2>1, AllNumbers
<1>6. Chess(n, c) \in T
  <2>1. Chess(n, c) \in Nat
    BY <1>1, OffIs
  <2> HIDE DEF T
  <2> QED  BY <1>5, <2>1
<1> QED  BY <1>6

\* Straight ways to the edge: up and to the left with the first pass, down and
\* to the right with the second.
LEMMA NextCell ==
  ASSUME NEW c \in Cells
  PROVE  /\ c[1] # 0 => <<c[1] - 1, c[2]>> \in Before[c] /\ Thirds(c, <<c[1] - 1, c[2]>>) = 3
         /\ c[2] # 0 => <<c[1], c[2] - 1>> \in Before[c] /\ Thirds(c, <<c[1], c[2] - 1>>) = 3
         /\ c[1] # W - 1 => <<c[1] + 1, c[2]>> \in After[c] /\ Thirds(c, <<c[1] + 1, c[2]>>) = 3
         /\ c[2] # H - 1 => <<c[1], c[2] + 1>> \in After[c] /\ Thirds(c, <<c[1], c[2] + 1>>) = 3
<1>1. PICK x, y \in Nat : c = <<x, y>> /\ x = c[1] /\ y = c[2] /\ x < W /\ y < H /\ W \in Nat /\ H \in Nat
  BY CellIsAPair
<1>2. ASSUME NEW u \in Int, NEW v \in Int, 0 <= u, u < W, 0 <= v, v < H,
             (u = x /\ (v = y - 1 \/ v = y + 1)) \/ (v = y /\ (u = x - 1 \/ u = x + 1))
      PROVE  /\ <<u, v>> \in Around[c] /\ Thirds(c, <<u, v>>) = 3
             /\ <<u, v>> \in Before[c] <=> (v < y \/ u < x)
  <2>1. <<u, v>> \in Cells /\ <<u, v>>[1] = u /\ <<u, v>>[2] = v
    BY <1>2, PairIsACell
  <2>2. <<u, v>> # c
    BY <1>1, <1>2
  <2>3. <<u, v>> \in Around[c] /\ Thirds(c, <<u, v>>) = 3
    BY <1>1, <1>2, <2>1, <2>2 DEF Around, Gap, Thirds, IsDiagonal
  <2>4. <<u, v>> \in Before[c] <=> (v < y \/ u < x)
    BY <1>1, <1>2, <2>1, <2>3 DEF Before
  <2> QED  BY <2>3, <2>4
<1>3. c[1] # 0 => <<c[1] - 1, c[2]>> \in Before[c] /\ Thirds(c, <<c[1] - 1, c[2]>>) = 3
  BY <1>1, <1>2
<1>4. c[2] # 0 => <<c[1], c[2] - 1>> \in Before[c] /\ Thirds(c, <<c[1], c[2] - 1>>) = 3
  BY <1>1, <1>2
<1>5. c[1] # W - 1 => <<c[1] + 1, c[2]>> \in After[c] /\ Thirds(c, <<c[1] + 1, c[2]>>) = 3
  BY <1>1, <1>2 DEF After
<1>6. c[2] # H - 1 => <<c[1], c[2] + 1>> \in After[c] /\ Thirds(c, <<c[1], c[2] + 1>>) = 3
  BY <1>1, <1>2 DEF After
<1> QED  BY <1>3, <1>4, <1>5, <1>6

\* Cells counted off from an edge.
LEMMA CountedOff ==
  ASSUME NEW far \in [Cells -> Nat], NEW K \in [Cells -> Nat],
         \A d \in Cells : K[d] = 0 => far[d] <= 3,
         \A d \in Cells : K[d] # 0 =>
           \E m \in Cells : K[m] + 1 = K[d] /\ far[d] <= far[m] + 3,
         NEW c \in Cells
  PROVE  far[c] <= 3 * (K[c] + 1)
<1> DEFINE T == {k \in Nat : \A d \in Cells : K[d] = k => far[d] <= 3 * (k + 1)}
<1>1. 0 \in T
  OBVIOUS
<1>2. ASSUME NEW k \in T
      PROVE  k + 1 \in T
  <2> SUFFICES ASSUME NEW d \in Cells, K[d] = k + 1
               PROVE  far[d] <= 3 * ((k + 1) + 1)
    OBVIOUS
  <2>1. PICK m \in Cells : K[m] + 1 = K[d] /\ far[d] <= far[m] + 3
    OBVIOUS
  <2>2. K[m] = k /\ far[m] \in Nat /\ far[d] \in Nat /\ k \in Nat
    BY <2>1
  <2>3. far[m] <= 3 * (k + 1)
    BY <2>2
  <2> QED  BY <2>1, <2>2, <2>3
<1>3. T = Nat
  <2>1. T \subseteq Nat
    OBVIOUS
  <2> HIDE DEF T
  <2> QED  BY <1>1, <1>2, <2>1, AllNumbers
<1>4. K[c] \in T
  <2>1. K[c] \in Nat
    OBVIOUS
  <2> HIDE DEF T
  <2> QED  BY <1>3, <2>1
<1> QED  BY <1>4

LEMMA EdgeIsReached ==
  ASSUME NEW shut \in SUBSET Cells, NEW down, IsDown(shut, down), NEW far, IsUp(down, far), NEW c \in Cells
  PROVE  /\ far[c] <= 3 * (c[1] + 1) /\ far[c] <= 3 * (c[2] + 1)
         /\ far[c] <= 3 * (W - c[1]) /\ far[c] <= 3 * (H - c[2])
<1>1. /\ down \in [Cells -> Nat] /\ far \in [Cells -> Nat]
      /\ \A d \in Cells : far[d] <= down[d] /\ (AtTheEdge(d) => down[d] <= 3)
  BY DEF IsDown, IsUp
<1>2. \A d \in Cells : AtTheEdge(d) => far[d] <= 3
  BY <1>1
<1>3. W \in Nat /\ H \in Nat
  BY GridAssumption DEF GridAssumption
<1>4. far[c] <= 3 * (c[1] + 1)
  <2>1. PICK K : K = [d \in Cells |-> d[1]]
    OBVIOUS
  <2>2. K \in [Cells -> Nat]
    BY <2>1, CellIsAPair
  <2>3. ASSUME NEW d \in Cells, K[d] = 0
        PROVE  down[d] <= 3
    BY <1>1, <2>1, <2>3 DEF AtTheEdge
  <2>4. ASSUME NEW d \in Cells, K[d] # 0
        PROVE  \E m \in Cells : K[m] + 1 = K[d] /\ down[d] <= down[m] + 3
    <3>1. PICK m : m = <<d[1] - 1, d[2]>>
      OBVIOUS
    <3>2. m \in Before[d] /\ Thirds(d, m) = 3
      BY <2>1, <2>4, <3>1, NextCell
    <3>3. m \in Cells
      BY <3>2 DEF Before, Around
    <3>4. K[m] + 1 = K[d]
      BY <2>1, <3>1, <3>3, CellIsAPair
    <3> QED  BY <3>2, <3>3, <3>4 DEF IsDown
  <2>5. down[c] <= 3 * (K[c] + 1)
    BY <1>1, <2>2, <2>3, <2>4, CountedOff
  <2> QED  BY <1>1, <2>1, <2>2, <2>5
<1>5. far[c] <= 3 * (c[2] + 1)
  <2>1. PICK K : K = [d \in Cells |-> d[2]]
    OBVIOUS
  <2>2. K \in [Cells -> Nat]
    BY <2>1, CellIsAPair
  <2>3. ASSUME NEW d \in Cells, K[d] = 0
        PROVE  down[d] <= 3
    BY <1>1, <2>1, <2>3 DEF AtTheEdge
  <2>4. ASSUME NEW d \in Cells, K[d] # 0
        PROVE  \E m \in Cells : K[m] + 1 = K[d] /\ down[d] <= down[m] + 3
    <3>1. PICK m : m = <<d[1], d[2] - 1>>
      OBVIOUS
    <3>2. m \in Before[d] /\ Thirds(d, m) = 3
      BY <2>1, <2>4, <3>1, NextCell
    <3>3. m \in Cells
      BY <3>2 DEF Before, Around
    <3>4. K[m] + 1 = K[d]
      BY <2>1, <3>1, <3>3, CellIsAPair
    <3> QED  BY <3>2, <3>3, <3>4 DEF IsDown
  <2>5. down[c] <= 3 * (K[c] + 1)
    BY <1>1, <2>2, <2>3, <2>4, CountedOff
  <2> QED  BY <1>1, <2>1, <2>2, <2>5
<1>6. far[c] <= 3 * (W - c[1])
  <2>1. PICK K : K = [d \in Cells |-> (W - 1) - d[1]]
    OBVIOUS
  <2>2. K \in [Cells -> Nat]
    BY <1>3, <2>1, CellIsAPair
  <2>3. ASSUME NEW d \in Cells, K[d] = 0
        PROVE  far[d] <= 3
    <3>1. d[1] = W - 1
      BY <1>3, <2>1, <2>3, CellIsAPair
    <3> QED  BY <1>2, <3>1 DEF AtTheEdge
  <2>4. ASSUME NEW d \in Cells, K[d] # 0
        PROVE  \E m \in Cells : K[m] + 1 = K[d] /\ far[d] <= far[m] + 3
    <3>1. PICK m : m = <<d[1] + 1, d[2]>>
      OBVIOUS
    <3>2. d[1] # W - 1
      BY <1>3, <2>1, <2>4
    <3>3. m \in After[d] /\ Thirds(d, m) = 3
      BY <3>1, <3>2, NextCell
    <3>4. m \in Cells
      BY <3>3 DEF After, Around
    <3>5. K[m] + 1 = K[d]
      BY <1>3, <2>1, <3>1, <3>4, CellIsAPair
    <3> QED  BY <3>3, <3>4, <3>5 DEF IsUp
  <2>5. far[c] <= 3 * (K[c] + 1)
    BY <1>1, <2>2, <2>3, <2>4, CountedOff
  <2>6. K[c] + 1 = W - c[1]
    BY <1>3, <2>1, CellIsAPair
  <2> QED  BY <2>5, <2>6
<1>7. far[c] <= 3 * (H - c[2])
  <2>1. PICK K : K = [d \in Cells |-> (H - 1) - d[2]]
    OBVIOUS
  <2>2. K \in [Cells -> Nat]
    BY <1>3, <2>1, CellIsAPair
  <2>3. ASSUME NEW d \in Cells, K[d] = 0
        PROVE  far[d] <= 3
    <3>1. d[2] = H - 1
      BY <1>3, <2>1, <2>3, CellIsAPair
    <3> QED  BY <1>2, <3>1 DEF AtTheEdge
  <2>4. ASSUME NEW d \in Cells, K[d] # 0
        PROVE  \E m \in Cells : K[m] + 1 = K[d] /\ far[d] <= far[m] + 3
    <3>1. PICK m : m = <<d[1], d[2] + 1>>
      OBVIOUS
    <3>2. d[2] # H - 1
      BY <1>3, <2>1, <2>4
    <3>3. m \in After[d] /\ Thirds(d, m) = 3
      BY <3>1, <3>2, NextCell
    <3>4. m \in Cells
      BY <3>3 DEF After, Around
    <3>5. K[m] + 1 = K[d]
      BY <1>3, <2>1, <3>1, <3>4, CellIsAPair
    <3> QED  BY <3>3, <3>4, <3>5 DEF IsUp
  <2>5. far[c] <= 3 * (K[c] + 1)
    BY <1>1, <2>2, <2>3, <2>4, CountedOff
  <2>6. K[c] + 1 = H - c[2]
    BY <1>3, <2>1, CellIsAPair
  <2> QED  BY <2>5, <2>6
<1> QED  BY <1>4, <1>5, <1>6, <1>7

\* Two passes give every cell its distance to what is shut and to the edge.
LEMMA ChamferMeasures ==
  ASSUME NEW g
  PROVE  \E far \in [Cells -> Nat] :
           /\ Chamfer(g) = [g EXCEPT !.clear = far]
           /\ \A c \in Cells : far[c] = DistanceToSolid(Cells \ Passable(g), c)
<1> DEFINE edge == [c \in Cells |-> IF AtTheEdge(c) THEN {3} ELSE {}]
           none == [c \in Cells |-> {}]
           unreached == [c \in Cells |-> IF c \in Passable(g) THEN Unreached ELSE 0]
           shut == Cells \ Passable(g)
           low == [c \in Cells |-> DistanceToSolid(shut, c)]
           down == Pass(unreached, RasterOrder, Before, edge)
           far == Pass(down, Reverse(RasterOrder), After, none)
<1>1. Chamfer(g) = [g EXCEPT !.clear = far]
  BY DEF Chamfer
<1>2. shut \in SUBSET Cells /\ \A c \in Cells : c \notin Passable(g) <=> c \in shut
  OBVIOUS
<1>3. /\ low \in [Cells -> Nat] /\ \A c \in Cells : low[c] = DistanceToSolid(shut, c)
      /\ \A c \in shut : low[c] = 0
  <2> HIDE DEF shut
  <2> QED  BY <1>2, DistanceIs
<1>4. \A c \in Cells : /\ low[c] <= Unreached
                       /\ AtTheEdge(c) => low[c] <= 3
                       /\ \A m \in Around[c] : m \in Cells /\ low[c] <= low[m] + Thirds(c, m)
  <2> HIDE DEF shut
  <2> QED  BY <1>2, DistanceSteps
<1>5. IsEdge(edge) /\ IsEdge(none)
  BY DEF IsEdge
<1>6. Below(low, Before, edge) /\ Below(low, After, none)
  <2>1. \A c \in Cells : Before[c] \subseteq Around[c] /\ After[c] \subseteq Around[c]
    BY SidesAreSides DEF IsSide
  <2>2. \A c \in Cells : (\A e \in edge[c] : low[c] <= e) /\ (\A e \in none[c] : low[c] <= e)
    <3> HIDE DEF low
    <3> QED  BY <1>4
  <2> HIDE DEF low, edge, none
  <2> QED  BY <1>3, <1>4, <2>1, <2>2 DEF Below
<1>7. unreached \in Between(low, unreached)
  <2>1. unreached \in [Cells -> Nat]
    BY DEF Unreached
  <2>2. ASSUME NEW c \in Cells
        PROVE  low[c] <= unreached[c] /\ unreached[c] <= unreached[c]
    <3>1. CASE c \in Passable(g)
      <4> HIDE DEF low
      <4> QED  BY <1>4, <2>1, <3>1
    <3>2. CASE c \notin Passable(g)
      <4>1. unreached[c] = 0 /\ c \in shut
        BY <3>2
      <4>2. low[c] = 0
        <5> HIDE DEF low, shut, unreached
        <5> QED  BY <1>3, <4>1
      <4> QED  BY <4>1, <4>2
    <3> QED  BY <3>1, <3>2
  <2> HIDE DEF low, unreached
  <2> QED  BY <2>1, <2>2 DEF Between
<1>8. /\ down \in Between(low, unreached)
      /\ \A c \in Cells : /\ \A e \in edge[c] : down[c] <= e
                          /\ \A m \in Before[c] : down[c] <= down[m] + Thirds(c, m)
  <2> HIDE DEF low, unreached, edge
  <2> QED  BY <1>5, <1>6, <1>7, SidesAreSides, RasterIsAnOrder, PassSettles
<1>9. IsDown(shut, down)
  <2>1. \A c \in shut : unreached[c] = 0
    OBVIOUS
  <2>2. \A c \in Cells : AtTheEdge(c) => 3 \in edge[c]
    OBVIOUS
  <2>3. down \in [Cells -> Nat] /\ \A c \in Cells : down[c] <= unreached[c]
    <3> HIDE DEF low, unreached, edge, down
    <3> QED  BY <1>8 DEF Between
  <2>4. \A n \in shut : down[n] = 0
    <3> HIDE DEF unreached, down, shut
    <3> QED  BY <1>2, <2>1, <2>3
  <2> HIDE DEF unreached, edge, down, shut
  <2> QED  BY <1>8, <2>2, <2>3, <2>4 DEF IsDown
<1>10. down \in Between(low, down)
  <2> HIDE DEF unreached, down, shut, low
  <2> QED  BY <1>8 DEF Between
<1>11. /\ far \in Between(low, down)
       /\ \A c \in Cells : \A m \in After[c] : far[c] <= far[m] + Thirds(c, m)
  <2> HIDE DEF low, down, none
  <2> QED  BY <1>5, <1>6, <1>10, SidesAreSides, ReverseIsAnOrder, PassSettles
<1>12. IsUp(down, far)
  <2> HIDE DEF low, down, none, far
  <2> QED  BY <1>11 DEF IsUp, Between
<1>13. ASSUME NEW c \in Cells
       PROVE  far[c] = DistanceToSolid(shut, c)
  <2> HIDE DEF low, down, none, far, unreached, edge, shut
  <2>1. far[c] \in Nat /\ low[c] <= far[c] /\ far[c] <= down[c]
    BY <1>11 DEF Between
  <2>2. PICK d \in Nat : d = DistanceToSolid(shut, c) /\ d = low[c]
    BY <1>3
  <2>3. CASE c \in shut
    <3>1. down[c] = 0 /\ d = 0
      BY <1>3, <1>9, <2>2, <2>3 DEF IsDown
    <3> QED  BY <2>1, <2>2, <3>1
  <2>4. CASE c \notin shut
    <3>1. d \in Marks(shut, c)
      BY <1>2, <2>2, <2>4, DistanceIs
    <3>2. \A n \in shut : far[c] <= Off(n, c)
      BY <1>2, <1>9, <1>12, SolidIsReached
    <3>3. /\ far[c] <= 3 * (c[1] + 1) /\ far[c] <= 3 * (c[2] + 1)
          /\ far[c] <= 3 * (W - c[1]) /\ far[c] <= 3 * (H - c[2])
      BY <1>2, <1>9, <1>12, EdgeIsReached
    <3>4. far[c] <= d
      BY <3>1, <3>2, <3>3 DEF Marks
    <3> QED  BY <2>1, <2>2, <3>4
  <2> QED  BY <2>3, <2>4
<1>14. far \in [Cells -> Nat]
  <2> HIDE DEF low, down, none, far
  <2> QED  BY <1>12 DEF IsUp
<1> HIDE DEF far
<1> QED  BY <1>1, <1>13, <1>14

LEMMA LesserSquare ==
  ASSUME NEW a \in Nat, NEW b \in Nat, a * a < b * b
  PROVE  a < b
<1> SUFFICES ASSUME b <= a PROVE b * b <= a * a
  OBVIOUS
<1>1. PICK d \in Nat : a = b + d
  <2>1. a - b \in Nat /\ a = b + (a - b)
    OBVIOUS
  <2> QED  BY <2>1
<1>2. a * a = b * b + (2 * (b * d) + d * d)
  BY <1>1
<1>3. b * d \in Nat /\ d * d \in Nat /\ b * b \in Nat
  OBVIOUS
<1> QED  BY <1>2, <1>3

IsRoot(r, n) == r \in Nat /\ r * r <= 10000 * n /\ 10000 * n < (r + 1) * (r + 1)

LEMMA RootsAre ==
  ASSUME NEW n \in 0..2 * Reach * Reach
  PROVE  IsRoot(Roots[n], n)
<1>0. Reach \in Nat /\ n \in Nat
  BY GridAssumption DEF GridAssumption
<1>1. PICK R \in Nat : R = 150 * Reach
  BY <1>0
<1>2. 10000 * n < (R + 1) * (R + 1)
  <2>1. PICK k \in Nat : k = Reach * Reach /\ n <= 2 * k
    BY <1>0
  <2>2. (R + 1) * (R + 1) = 22500 * k + 2 * R + 1
    BY <1>0, <1>1, <2>1
  <2> QED  BY <1>0, <2>1, <2>2
<1>3. PICK D : D = {x \in Nat \X {0} : 10000 * n < (x[1] + 1) * (x[1] + 1)}
  OBVIOUS
<1>4. D \in SUBSET (Nat \X {0}) /\ <<R, 0>> \in D
  BY <1>2, <1>3
<1>5. PICK z \in D : \A x \in D : z[1] <= x[1]
  BY <1>4, LeastNumbered
<1>6. PICK r \in Nat : r = z[1] /\ 10000 * n < (r + 1) * (r + 1) /\ r <= R
  <2>1. z[1] \in Nat /\ 10000 * n < (z[1] + 1) * (z[1] + 1)
    BY <1>3
  <2>2. z[1] <= R
    BY <1>4, <1>5
  <2> QED  BY <2>1, <2>2
<1>7. r * r <= 10000 * n
  <2>1. CASE r = 0
    BY <1>0, <2>1
  <2>2. CASE r # 0
    <3>1. PICK k \in Nat : k + 1 = r
      <4>1. r - 1 \in Nat /\ (r - 1) + 1 = r
        BY <2>2
      <4> QED  BY <4>1
    <3>2. <<k, 0>> \notin D
      BY <1>5, <1>6, <3>1
    <3>3. ~(10000 * n < (k + 1) * (k + 1))
      BY <1>3, <3>2
    <3>4. (k + 1) * (k + 1) = r * r /\ r * r \in Nat
      BY <3>1
    <3> QED  BY <1>0, <3>3, <3>4
  <2> QED  BY <2>1, <2>2
<1>8. r \in 0..150 * Reach /\ r * r <= 10000 * n /\ (r + 1) * (r + 1) > 10000 * n
  <2>1. (r + 1) * (r + 1) \in Nat /\ 10000 * n \in Nat
    BY <1>0
  <2> QED  BY <1>0, <1>1, <1>6, <1>7, <2>1
<1>9. PICK s : s = Roots[n]
  OBVIOUS
<1>10. s \in 0..150 * Reach /\ s * s <= 10000 * n /\ (s + 1) * (s + 1) > 10000 * n
  <2>1. s = CHOOSE q \in 0..150 * Reach : q * q <= 10000 * n /\ (q + 1) * (q + 1) > 10000 * n
    BY <1>9 DEF Roots
  <2> QED  BY <1>8, <2>1
<1>11. s \in Nat /\ (s + 1) * (s + 1) \in Nat /\ 10000 * n \in Nat
  BY <1>0, <1>10
<1> QED  BY <1>9, <1>10, <1>11 DEF IsRoot

LEMMA RootStraight ==
  ASSUME NEW p \in Nat, NEW q \in Nat, NEW x \in Nat, x <= p + 1,
         NEW r, NEW s, IsRoot(s, p * p + q * q), IsRoot(r, x * x + q * q)
  PROVE  r <= s + 100
<1>1. PICK P, Q, X \in Nat : P = p * p /\ Q = q * q /\ X = x * x
  OBVIOUS
<1>2. PICK S \in Nat : S = (s + 1) * (s + 1) /\ s \in Nat
  BY DEF IsRoot
<1>3. /\ r \in Nat /\ r * r \in Nat
      /\ 10000 * (P + Q) < S /\ r * r <= 10000 * (X + Q)
  BY <1>1, <1>2 DEF IsRoot
<1>4. X <= P + 2 * p + 1
  <2>1. (p + 1) * (p + 1) = P + 2 * p + 1
    BY <1>1
  <2>2. ~((p + 1) * (p + 1) < x * x)
    <3>1. (p + 1) * (p + 1) < x * x => p + 1 < x
      BY LesserSquare
    <3> QED  BY <3>1
  <2> QED  BY <1>1, <2>1, <2>2
<1>5. 100 * p < s + 1
  <2>1. (100 * p) * (100 * p) = 10000 * P
    BY <1>1
  <2>2. (100 * p) * (100 * p) < (s + 1) * (s + 1)
    BY <1>1, <1>2, <1>3, <2>1
  <2>3. 100 * p \in Nat /\ s + 1 \in Nat
    BY <1>2
  <2> QED  BY <2>2, <2>3, LesserSquare
<1>6. (s + 101) * (s + 101) = S + 200 * (s + 1) + 10000
  BY <1>2
<1>7. r * r < (s + 101) * (s + 101)
  BY <1>1, <1>2, <1>3, <1>4, <1>5, <1>6
<1>8. r < s + 101
  BY <1>2, <1>3, <1>7, LesserSquare
<1> QED  BY <1>2, <1>3, <1>8

LEMMA RootDiagonal ==
  ASSUME NEW p \in Nat, NEW q \in Nat, NEW x \in Nat, NEW y \in Nat, x <= p + 1, y <= q + 1,
         NEW r, NEW s, IsRoot(s, p * p + q * q), IsRoot(r, x * x + y * y)
  PROVE  r <= s + 142
<1>1. PICK P, Q, X, Y \in Nat : P = p * p /\ Q = q * q /\ X = x * x /\ Y = y * y
  OBVIOUS
<1>2. PICK S \in Nat : S = (s + 1) * (s + 1) /\ s \in Nat
  BY DEF IsRoot
<1>3. /\ r \in Nat /\ r * r \in Nat
      /\ 10000 * (P + Q) < S /\ r * r <= 10000 * (X + Y)
  BY <1>1, <1>2 DEF IsRoot
<1>4. ASSUME NEW a \in Nat, NEW b \in Nat, b <= a + 1
      PROVE  b * b <= a * a + 2 * a + 1
  <2>1. (a + 1) * (a + 1) = a * a + 2 * a + 1
    OBVIOUS
  <2>2. (a + 1) * (a + 1) < b * b => a + 1 < b
    BY LesserSquare
  <2>3. (a + 1) * (a + 1) \in Nat /\ b * b \in Nat
    OBVIOUS
  <2> QED  BY <1>4, <2>1, <2>2, <2>3
<1>5. X <= P + 2 * p + 1 /\ Y <= Q + 2 * q + 1
  BY <1>1, <1>4
<1>6. PICK k \in Nat : k = p + q
  OBVIOUS
<1>7. k * k <= 2 * (P + Q)
  <2>1. ASSUME NEW a \in Nat, NEW b \in Nat, b <= a
        PROVE  (a + b) * (a + b) <= 2 * (a * a + b * b)
    <3>1. PICK d \in Nat : a = b + d
      <4>1. a - b \in Nat /\ a = b + (a - b)
        BY <2>1
      <4> QED  BY <4>1
    <3>2. d * d + (a + b) * (a + b) = 2 * (a * a + b * b)
      BY <3>1
    <3>3. d * d \in Nat /\ (a + b) * (a + b) \in Nat
      OBVIOUS
    <3> QED  BY <3>2, <3>3
  <2>2. CASE q <= p
    <3>1. (p + q) * (p + q) <= 2 * (p * p + q * q)
      BY <2>1, <2>2
    <3> QED  BY <1>1, <1>6, <3>1
  <2>3. CASE p <= q
    <3>1. (q + p) * (q + p) <= 2 * (q * q + p * p)
      BY <2>1, <2>3
    <3>2. q + p = k /\ q * q + p * p = P + Q
      BY <1>1, <1>6
    <3> QED  BY <3>1, <3>2
  <2> QED  BY <2>2, <2>3
<1>8. 5000 * k < 71 * (s + 1)
  <2>1. PICK K \in Nat : K = k * k
    OBVIOUS
  <2>2. (5000 * k) * (5000 * k) = 25000000 * K
    BY <2>1
  <2>3. (71 * (s + 1)) * (71 * (s + 1)) = 5041 * S
    BY <1>2
  <2>4. 25000000 * K < 5041 * S
    BY <1>3, <1>7, <2>1
  <2>5. 5000 * k \in Nat /\ 71 * (s + 1) \in Nat
    BY <1>2
  <2> QED  BY <2>2, <2>3, <2>4, <2>5, LesserSquare
<1>9. (s + 143) * (s + 143) = S + 284 * (s + 1) + 20164
  BY <1>2
<1>10. r * r < (s + 143) * (s + 143)
  BY <1>1, <1>2, <1>3, <1>5, <1>6, <1>8, <1>9
<1>11. r < s + 143
  BY <1>2, <1>3, <1>10, LesserSquare
<1> QED  BY <1>2, <1>3, <1>11

\* What is as far off as distances are worked out for.
Near(a, b) == Gap(a[1], b[1]) <= Reach /\ Gap(a[2], b[2]) <= Reach

LEMMA AwayIs ==
  ASSUME NEW a \in Int \X Int, NEW b \in Int \X Int, Near(a, b)
  PROVE  \E p, q \in Nat : /\ p = Gap(a[1], b[1]) /\ q = Gap(a[2], b[2])
                           /\ IsRoot(Away(a, b), p * p + q * q)
<1>1. PICK p, q \in Nat : p = Gap(a[1], b[1]) /\ q = Gap(a[2], b[2]) /\ p <= Reach /\ q <= Reach
  BY DEF Near, Gap
<1>2. Reach \in Nat
  BY GridAssumption DEF GridAssumption
<1>3. ASSUME NEW k \in Nat, k <= Reach
      PROVE  k * k <= Reach * Reach
  <2>1. Reach * Reach < k * k => Reach < k
    BY <1>2, LesserSquare
  <2>2. Reach * Reach \in Nat /\ k * k \in Nat
    BY <1>2
  <2> QED  BY <1>2, <1>3, <2>1, <2>2
<1>4. p * p + q * q \in 0..2 * Reach * Reach
  <2>1. PICK P, Q, R \in Nat : P = p * p /\ Q = q * q /\ R = Reach * Reach /\ P <= R /\ Q <= R
    BY <1>1, <1>2, <1>3
  <2>2. 2 * Reach * Reach = 2 * R
    BY <1>2, <2>1
  <2> QED  BY <2>1, <2>2
<1>5. Away(a, b) = Roots[p * p + q * q]
  BY <1>1 DEF Away
<1> QED  BY <1>1, <1>4, <1>5, RootsAre

LEMMA CellsAreNear ==
  ASSUME NEW c \in Cells
  PROVE  /\ c \in Int \X Int
         /\ \A d \in Cells : Near(c, d)
         /\ \A t \in Targets : t \in Int \X Int /\ Near(c, t)
<1>1. W \in Nat /\ H \in Nat /\ Reach \in Nat /\ W <= Reach /\ H <= Reach
  BY GridAssumption, ReachAssumption DEF GridAssumption, ReachAssumption
<1>2. \A d \in Cells : Near(c, d)
  BY <1>1 DEF Near, Cells, Gap
<1>3. ASSUME NEW t \in Targets
      PROVE  t \in Int \X Int /\ Near(c, t)
  <2>1. t \in Int \X Int /\ Gap(t[1], c[1]) <= Reach /\ Gap(t[2], c[2]) <= Reach
    BY ReachAssumption DEF ReachAssumption
  <2>2. Gap(c[1], t[1]) = Gap(t[1], c[1]) /\ Gap(c[2], t[2]) = Gap(t[2], c[2])
    BY <1>1, <2>1 DEF Cells, Gap
  <2> QED  BY <2>1, <2>2 DEF Near
<1> QED  BY <1>1, <1>2, <1>3 DEF Cells

LEMMA AwayIsWhole ==
  ASSUME NEW c \in Cells, NEW d, d \in Cells \/ d \in Targets
  PROVE  Away(c, d) \in Nat
<1>1. d \in Int \X Int /\ c \in Int \X Int /\ Near(c, d)
  BY CellsAreNear
<1> QED  BY <1>1, AwayIs DEF IsRoot

\* No step takes him nearer than it is long.
LEMMA StepIsNoShorter ==
  ASSUME NEW c \in Cells, NEW n \in Around[c], NEW d, d \in Cells \/ d \in Targets
  PROVE  n \in Cells /\ Away(c, d) <= Away(n, d) + Run(c, n)
<1>1. n \in Cells /\ Gap(n[1], c[1]) <= 1 /\ Gap(n[2], c[2]) <= 1
  BY DEF Around
<1>2. d \in Int \X Int /\ c \in Int \X Int /\ n \in Int \X Int /\ Near(c, d) /\ Near(n, d)
  BY <1>1, CellsAreNear
<1>3. PICK x, y \in Nat : /\ x = Gap(c[1], d[1]) /\ y = Gap(c[2], d[2])
                          /\ IsRoot(Away(c, d), x * x + y * y)
  BY <1>2, AwayIs
<1>4. PICK p, q \in Nat : /\ p = Gap(n[1], d[1]) /\ q = Gap(n[2], d[2])
                          /\ IsRoot(Away(n, d), p * p + q * q)
  BY <1>2, AwayIs
<1>5. x <= p + 1 /\ y <= q + 1 /\ (n[1] = c[1] => x = p) /\ (n[2] = c[2] => y = q)
  BY <1>1, <1>2, <1>3, <1>4 DEF Gap
<1>6. CASE IsDiagonal(c, n)
  <2>1. Away(c, d) <= Away(n, d) + 142
    <3>1. /\ x \in Nat /\ y \in Nat /\ p \in Nat /\ q \in Nat /\ x <= p + 1 /\ y <= q + 1
          /\ IsRoot(Away(n, d), p * p + q * q) /\ IsRoot(Away(c, d), x * x + y * y)
      BY <1>3, <1>4, <1>5
    <3>2. PICK r, s : r = Away(c, d) /\ s = Away(n, d)
      OBVIOUS
    <3>3. IsRoot(s, p * p + q * q) /\ IsRoot(r, x * x + y * y)
      BY <3>1, <3>2
    <3>4. r <= s + 142
      BY ONLY <3>1, <3>3, RootDiagonal, ZenonT(40)
    <3> QED  BY <3>2, <3>4
  <2> QED  BY <1>1, <1>6, <2>1 DEF Run, Diagonal
<1>7. CASE ~IsDiagonal(c, n)
  <2>1. CASE n[2] = c[2]
    <3>1. Away(c, d) <= Away(n, d) + 100
      <4>1. /\ x \in Nat /\ p \in Nat /\ q \in Nat /\ x <= p + 1
            /\ IsRoot(Away(n, d), p * p + q * q) /\ IsRoot(Away(c, d), x * x + q * q)
        BY <1>3, <1>4, <1>5, <2>1
      <4> QED  BY ONLY <4>1, RootStraight, Zenon
    <3> QED  BY <1>1, <1>7, <3>1 DEF Run, Straight
  <2>2. CASE n[1] = c[1]
    <3>1. IsRoot(Away(c, d), y * y + p * p) /\ IsRoot(Away(n, d), q * q + p * p)
      <4>1. x * x + y * y = y * y + p * p /\ p * p + q * q = q * q + p * p
        BY <1>5, <2>2
      <4> QED  BY <1>3, <1>4, <4>1
    <3>2. Away(c, d) <= Away(n, d) + 100
      <4>1. /\ y \in Nat /\ p \in Nat /\ q \in Nat /\ y <= q + 1
            /\ IsRoot(Away(n, d), q * q + p * p) /\ IsRoot(Away(c, d), y * y + p * p)
        BY <1>3, <1>4, <1>5, <2>2, <3>1
      <4> QED  BY ONLY <4>1, RootStraight, Zenon
    <3> QED  BY <1>1, <1>7, <3>2 DEF Run, Straight
  <2> QED  BY <1>7, <2>1, <2>2 DEF IsDiagonal
<1> QED  BY <1>6, <1>7

-----------------------------------------------------------------------------
(* The cells there are, and the steps between them.                        *)

LEMMA CellsAreFinite == IsFiniteSet(Cells) /\ Cardinality(Cells) \in Nat
<1>1. W \in Nat /\ H \in Nat
  BY GridAssumption DEF GridAssumption
<1>2. IsFiniteSet(0..W - 1) /\ IsFiniteSet(0..H - 1)
  BY <1>1, FS_Interval
<1>3. IsFiniteSet(Cells)
  BY <1>2, FS_Product DEF Cells
<1> QED  BY <1>3, FS_CardinalityType

\* Of some cells one is worth most, and one least, whatever they are worth.
LEMMA GreatestCell ==
  ASSUME NEW S \in SUBSET Cells, S # {}, NEW f \in [S -> Int]
  PROVE  \E x \in S : \A y \in S : f[y] <= f[x]
<1> DEFINE Has(R) == \E x \in R : \A y \in R : f[y] <= f[x]
           T == {k \in Nat : \A R \in SUBSET S : R # {} /\ Cardinality(R) = k => Has(R)}
<1>0. \A R \in SUBSET S : IsFiniteSet(R) /\ Cardinality(R) \in Nat
  BY CellsAreFinite, FS_Subset, FS_CardinalityType
<1>1. 0 \in T
  BY <1>0, FS_EmptySet
<1>2. ASSUME NEW k \in T
      PROVE  k + 1 \in T
  <2> SUFFICES ASSUME NEW R \in SUBSET S, R # {}, Cardinality(R) = k + 1 PROVE Has(R)
    OBVIOUS
  <2>1. PICK x \in R : TRUE
    OBVIOUS
  <2>2. R \ {x} \in SUBSET S /\ Cardinality(R \ {x}) = k
    <3>1. Cardinality(R \ {x}) = Cardinality(R) - 1
      BY <1>0, <2>1, FS_RemoveElement
    <3> QED  BY <3>1
  <2>3. CASE R \ {x} = {}
    <3>1. \A y \in R : y = x
      BY <2>3
    <3>2. f[x] <= f[x]
      BY <2>1
    <3> QED  BY <2>1, <3>1, <3>2
  <2>4. CASE R \ {x} # {}
    <3>1. PICK z \in R \ {x} : \A y \in R \ {x} : f[y] <= f[z]
      BY <1>2, <2>2, <2>4
    <3>2. f[x] \in Int /\ f[z] \in Int
      OBVIOUS
    <3>3. CASE f[x] <= f[z]
      BY <3>1, <3>3
    <3>4. CASE f[z] <= f[x]
      <4>1. \A y \in R : f[y] \in Int
        OBVIOUS
      <4>2. \A y \in R : f[y] <= f[x]
        BY <3>1, <3>2, <3>4, <4>1
      <4> QED  BY <2>1, <4>2
    <3> QED  BY <3>2, <3>3, <3>4
  <2> QED  BY <2>3, <2>4
<1>3. T = Nat
  <2>1. T \subseteq Nat
    OBVIOUS
  <2> HIDE DEF T
  <2> QED  BY <1>1, <1>2, <2>1, AllNumbers
<1>4. S \in SUBSET S /\ Cardinality(S) \in T
  BY <1>0, <1>3
<1> QED  BY <1>4

LEMMA LeastCell ==
  ASSUME NEW S \in SUBSET Cells, S # {}, NEW f \in [S -> Int]
  PROVE  \E x \in S : \A y \in S : f[x] <= f[y]
<1>1. PICK h : h = [y \in S |-> -f[y]]
  OBVIOUS
<1>2. h \in [S -> Int]
  BY <1>1
<1>3. PICK x \in S : \A y \in S : h[y] <= h[x]
  BY <1>2, GreatestCell
<1>4. ASSUME NEW y \in S PROVE f[x] <= f[y]
  <2>1. h[y] = -f[y] /\ h[x] = -f[x] /\ f[x] \in Int /\ f[y] \in Int /\ h[y] <= h[x]
    BY <1>1, <1>3
  <2> QED  BY <2>1
<1> QED  BY <1>4

LEMMA AtLeastNothing ==
  ASSUME NEW x \in Int
  PROVE  Max({0, x}) \in Nat /\ (x >= 0 => Max({0, x}) = x)
<1>1. CASE x >= 0
  <2>1. x \in {0, x} /\ \A y \in {0, x} : x >= y
    BY <1>1
  <2>2. \A z \in {0, x} : (\A y \in {0, x} : z >= y) => z = x
    BY <1>1
  <2> QED  BY <1>1, <2>1, <2>2 DEF Max
<1>2. CASE ~(x >= 0)
  <2>1. 0 \in {0, x} /\ \A y \in {0, x} : 0 >= y
    BY <1>2
  <2>2. \A z \in {0, x} : (\A y \in {0, x} : z >= y) => z = 0
    BY <1>2
  <2> QED  BY <1>2, <2>1, <2>2 DEF Max
<1> QED  BY <1>1, <1>2

\* A grid whose clearance is worked out.
IsClear(g) == g.clear \in [Cells -> Nat]

\* A step leads to another cell, costs something, and no less than it saves.
LEMMA StepIs ==
  ASSUME NEW g, IsClear(g), NEW c \in Cells, NEW n \in StepsFrom(g, c)
  PROVE  /\ n \in Cells /\ n # c /\ StepCost(g, c, n) \in Nat
         /\ \A d \in Cells \cup Targets : 100 * Away(c, d) <= 100 * Away(n, d) + StepCost(g, c, n)
<1>1. n \in Around[c]
  BY DEF StepsFrom
<1>2. n \in Cells /\ n # c
  BY <1>1 DEF Around
<1>3. PICK x \in Nat : x = Max({0, 3 * ClearWanted - g.clear[n]})
  <2>1. 3 * ClearWanted - g.clear[n] \in Int
    BY <1>2, GridAssumption DEF GridAssumption, IsClear
  <2> QED  BY <2>1, AtLeastNothing
<1>4. PICK r \in Nat : r = Run(c, n)
  BY DEF Run, Diagonal, Straight
<1>5. StepCost(g, c, n) = r * (100 + 6 * x)
  BY <1>3, <1>4 DEF StepCost
<1>6. r * (100 + 6 * x) = 100 * r + 6 * (r * x) /\ r * x \in Nat
  OBVIOUS
<1>7. ASSUME NEW d \in Cells \cup Targets
      PROVE  100 * Away(c, d) <= 100 * Away(n, d) + StepCost(g, c, n)
  <2>1. Away(c, d) \in Nat /\ Away(n, d) \in Nat
    BY <1>2, AwayIsWhole
  <2>2. Away(c, d) <= Away(n, d) + r
    BY <1>1, <1>4, StepIsNoShorter
  <2> QED  BY <1>5, <1>6, <2>1, <2>2
<1> QED  BY <1>2, <1>5, <1>6, <1>7

-----------------------------------------------------------------------------
(* The search (Grid).                                                      *)

\* A search over the grid.
Searches ==
  [start : Cells, goal : Cells, aim : Targets,
   best : UNION {[D -> Nat] : D \in SUBSET Cells}, came : UNION {[D -> Cells] : D \in SUBSET Cells},
   closed : SUBSET Cells, open : SUBSET (Nat \X Cells), nearest : Cells,
   done : BOOLEAN, reached : BOOLEAN]

\* What a way through a cell costs at least.
Estimate(s, c) == s.best[c] + 100 * Away(c, s.aim)

\* It begins where he stands, which is closed first.
Begun(s) ==
  /\ s.start \in DOMAIN s.best /\ s.best[s.start] = 0
  /\ IF s.closed = {} THEN DOMAIN s.best = {s.start} ELSE s.start \in s.closed

\* Every other cell was come to by a step from one that is closed.
CameBySteps(g, s) ==
  /\ s.closed \subseteq DOMAIN s.best /\ DOMAIN s.came = DOMAIN s.best \ {s.start}
  /\ \A n \in DOMAIN s.came :
       /\ s.came[n] \in s.closed /\ n \in StepsFrom(g, s.came[n])
       /\ s.best[n] = s.best[s.came[n]] + StepCost(g, s.came[n], n)

\* What was come to and is not closed waits at what it costs; what waits at more
\* is out of date.
Waiting(s) ==
  /\ \A e \in s.open : e[2] \in DOMAIN s.best /\ Estimate(s, e[2]) <= e[1]
  /\ \A n \in DOMAIN s.best \ s.closed : <<Estimate(s, n), n>> \in s.open

\* Round a closed cell no step leads to anything that is dearer than it.
LookedRound(g, s) ==
  \A c \in s.closed \ {s.goal} : \A n \in StepsFrom(g, c) :
    n \in DOMAIN s.best /\ s.best[n] <= s.best[c] + StepCost(g, c, n)

\* Nothing that waits is cheaper than what is closed.
CheapestFirst(s) ==
  /\ \A c \in s.closed : \A e \in s.open : Estimate(s, c) <= e[1]
  /\ s.reached => \A c \in s.closed : Estimate(s, c) <= Estimate(s, s.goal)

\* The cells were closed one after the other, each after the one it was come to
\* from.
IsTurn(s, turn) ==
  /\ turn \in [s.closed -> Nat]
  /\ \A c \in s.closed : turn[c] < Cardinality(s.closed)
  /\ \A c \in s.closed \ {s.start} : turn[s.came[c]] < turn[c]

KnowsNearest(s) ==
  /\ s.nearest \in s.closed \cup {s.start}
  /\ \A c \in s.closed : Away(s.nearest, s.aim) <= Away(c, s.aim)

Ends(s) ==
  /\ s.reached <=> s.goal \in s.closed
  /\ s.reached => s.done
  /\ s.done /\ ~s.reached => s.open = {}

Sound(g, s) ==
  /\ s \in Searches /\ Begun(s) /\ CameBySteps(g, s) /\ Waiting(s) /\ LookedRound(g, s)
  /\ CheapestFirst(s) /\ (\E turn : IsTurn(s, turn)) /\ KnowsNearest(s) /\ Ends(s)

\* What a search's parts are.
LEMMA PartsOf ==
  ASSUME NEW s \in Searches
  PROVE  /\ s.start \in Cells /\ s.goal \in Cells /\ s.aim \in Targets /\ s.nearest \in Cells
         /\ DOMAIN s.best \subseteq Cells /\ s.best \in [DOMAIN s.best -> Nat]
         /\ DOMAIN s.came \subseteq Cells /\ s.came \in [DOMAIN s.came -> Cells]
         /\ s.closed \subseteq Cells /\ s.open \subseteq Nat \X Cells
         /\ s.done \in BOOLEAN /\ s.reached \in BOOLEAN
         /\ \A c \in Cells : Away(c, s.aim) \in Nat
         /\ \A c \in DOMAIN s.best : Estimate(s, c) \in Nat
<1>1. /\ s.start \in Cells /\ s.goal \in Cells /\ s.aim \in Targets /\ s.nearest \in Cells
      /\ s.closed \subseteq Cells /\ s.open \subseteq Nat \X Cells
      /\ s.done \in BOOLEAN /\ s.reached \in BOOLEAN
  BY DEF Searches
<1>2. PICK D \in SUBSET Cells : s.best \in [D -> Nat]
  BY DEF Searches
<1>3. PICK E \in SUBSET Cells : s.came \in [E -> Cells]
  BY DEF Searches
<1>4. \A c \in Cells : Away(c, s.aim) \in Nat
  BY <1>1, AwayIsWhole
<1>5. \A c \in DOMAIN s.best : Estimate(s, c) \in Nat
  BY <1>2, <1>4 DEF Estimate
<1> QED  BY <1>1, <1>2, <1>3, <1>4, <1>5

\* Where it starts, all is well.
LEMMA StartIsSound ==
  ASSUME NEW g, NEW start \in Cells, NEW goal \in Cells, NEW aim \in Targets
  PROVE  Sound(g, StartSearch(start, goal, aim))
<1> DEFINE s == StartSearch(start, goal, aim)
<1>1. Away(start, aim) \in Nat
  BY AwayIsWhole
<1>2. /\ s.start = start /\ s.goal = goal /\ s.aim = aim /\ s.best = [c \in {start} |-> 0]
      /\ s.came = <<>> /\ s.closed = {} /\ s.open = {<<100 * Away(start, aim), start>>}
      /\ s.nearest = start /\ s.done = FALSE /\ s.reached = FALSE
      /\ s = [start |-> start, goal |-> goal, aim |-> aim, best |-> [c \in {start} |-> 0],
              came |-> <<>>, closed |-> {}, open |-> {<<100 * Away(start, aim), start>>},
              nearest |-> start, done |-> FALSE, reached |-> FALSE]
  BY DEF StartSearch
<1> HIDE DEF s
<1>3. <<>> \in [{} -> Cells] /\ DOMAIN <<>> = {}
  OBVIOUS
<1>4. s \in Searches
  <2>1. [c \in {start} |-> 0] \in UNION {[D -> Nat] : D \in SUBSET Cells}
    <3>1. [c \in {start} |-> 0] \in [{start} -> Nat] /\ {start} \in SUBSET Cells
      OBVIOUS
    <3> QED  BY <3>1
  <2>2. <<>> \in UNION {[D -> Cells] : D \in SUBSET Cells}
    <3>1. {} \in SUBSET Cells
      OBVIOUS
    <3> QED  BY <1>3, <3>1
  <2>3. {<<100 * Away(start, aim), start>>} \in SUBSET (Nat \X Cells)
    BY <1>1
  <2> QED  BY <1>2, <2>1, <2>2, <2>3 DEF Searches
<1>5. s.best[start] = 0 /\ DOMAIN s.best = {start} /\ Estimate(s, start) = 100 * Away(start, aim)
  BY <1>1, <1>2 DEF Estimate
<1>6. Begun(s)
  BY <1>2, <1>5 DEF Begun
<1>7. CameBySteps(g, s)
  BY <1>2, <1>3, <1>5 DEF CameBySteps
<1>8. Waiting(s)
  <2>1. PICK x \in Nat : x = 100 * Away(start, aim)
    BY <1>1
  <2>2. \A e \in s.open : e = <<x, start>> /\ e[1] = x /\ e[2] = start
    BY <1>2, <2>1
  <2>3. \A e \in s.open : e[2] \in DOMAIN s.best /\ Estimate(s, e[2]) <= e[1]
    BY <1>5, <2>1, <2>2
  <2>4. \A n \in DOMAIN s.best : n = start
    BY <1>5
  <2>5. <<Estimate(s, start), start>> \in s.open
    BY <1>2, <1>5
  <2> QED  BY <2>3, <2>4, <2>5 DEF Waiting
<1>9. LookedRound(g, s) /\ CheapestFirst(s) /\ KnowsNearest(s) /\ Ends(s)
  BY <1>2 DEF LookedRound, CheapestFirst, KnowsNearest, Ends
<1>10. \E turn : IsTurn(s, turn)
  <2>1. PICK turn : turn = [c \in {} |-> 0]
    OBVIOUS
  <2>2. IsTurn(s, turn)
    BY <1>2, <2>1 DEF IsTurn
  <2> QED  BY <2>2
<1> QED  BY <1>4, <1>6, <1>7, <1>8, <1>9, <1>10 DEF Sound, s

\* Cells a closed cell is the cheapest way to so far.
Better(g, s, c) ==
  {n \in StepsFrom(g, c) \ (s.closed \cup {c}) :
     n \in DOMAIN s.best => s.best[c] + StepCost(g, c, n) < s.best[n]}

\* What is taken off the heap is closed, and some cells are better come to from
\* there.
Closes(g, s, t, top, better) ==
  LET c == top[2]
  IN  /\ t.start = s.start /\ t.goal = s.goal /\ t.aim = s.aim
      /\ t.closed = s.closed \cup {c}
      /\ t.nearest = IF Away(c, s.aim) < Away(s.nearest, s.aim) THEN c ELSE s.nearest
      /\ t.best = [n \in DOMAIN s.best \cup better |->
                     IF n \in better THEN s.best[c] + StepCost(g, c, n) ELSE s.best[n]]
      /\ t.came = [n \in DOMAIN s.came \cup better |-> IF n \in better THEN c ELSE s.came[n]]
      /\ t.open = (s.open \ {top}) \cup {<<Estimate(t, n), n>> : n \in better}

\* The heap gives up a cell at what it costs, unless it is closed already.
LEMMA TopIs ==
  ASSUME NEW g, NEW s, Sound(g, s), NEW top \in Tops(s)
  PROVE  /\ top \in s.open /\ top[1] \in Nat /\ top[2] \in Cells /\ top = <<top[1], top[2]>>
         /\ top[2] \in DOMAIN s.best /\ \A e \in s.open : e[1] \in Nat /\ top[1] <= e[1]
         /\ top[2] \notin s.closed => top[1] = Estimate(s, top[2])
<1>1. s \in Searches /\ Waiting(s)
  BY DEF Sound
<1>2. top \in s.open /\ \A e \in s.open : top[1] <= e[1]
  BY DEF Tops
<1>3. s.open \subseteq Nat \X Cells
  BY <1>1, PartsOf
<1>4. top[2] \in DOMAIN s.best /\ Estimate(s, top[2]) <= top[1]
  BY <1>1, <1>2 DEF Waiting
<1>5. Estimate(s, top[2]) \in Nat
  BY <1>1, <1>4, PartsOf
<1>6. ASSUME top[2] \notin s.closed
      PROVE  top[1] = Estimate(s, top[2])
  <2>1. PICK x, n : n = top[2] /\ x = Estimate(s, n)
    OBVIOUS
  <2>2. <<x, n>> \in s.open
    BY <1>1, <1>4, <1>6, <2>1 DEF Waiting
  <2>3. <<x, n>>[1] = x
    OBVIOUS
  <2>4. top[1] <= x
    BY <1>2, <2>2, <2>3
  <2>5. top[1] \in Nat
    BY <1>2, <1>3
  <2> QED  BY <1>4, <1>5, <2>1, <2>4, <2>5
<1> QED  BY <1>2, <1>3, <1>4, <1>6

\* A cell that is closed already is passed over.
LEMMA ExpandPasses ==
  ASSUME NEW g, NEW s, s \in Searches, NEW top \in s.open, top[2] \in s.closed
  PROVE  LET t == Expand(g, s, top)
         IN  /\ t \in Searches
             /\ t.start = s.start /\ t.goal = s.goal /\ t.aim = s.aim /\ t.closed = s.closed
             /\ t.nearest = s.nearest /\ t.best = s.best /\ t.came = s.came /\ t.reached = s.reached
             /\ t.open = s.open \ {top} /\ t.done = (t.open = {})
<1> DEFINE taken == [s EXCEPT !.open = @ \ {top}]
<1>1. Expand(g, s, top) = [taken EXCEPT !.done = taken.open = {}]
  BY DEF Expand
<1>2. taken \in Searches /\ taken.open = s.open \ {top}
  BY DEF Searches
<1>3. (taken.open = {}) \in BOOLEAN
  OBVIOUS
<1>4. /\ taken.start = s.start /\ taken.goal = s.goal /\ taken.aim = s.aim /\ taken.closed = s.closed
      /\ taken.nearest = s.nearest /\ taken.best = s.best /\ taken.came = s.came
      /\ taken.reached = s.reached
  BY DEF Searches
<1>5. PICK b \in BOOLEAN : b = (taken.open = {})
  BY <1>3
<1> HIDE DEF taken
<1>6. Expand(g, s, top) = [taken EXCEPT !.done = b]
  BY <1>1, <1>5
<1>7. LET t == [taken EXCEPT !.done = b]
      IN  /\ t \in Searches
          /\ t.start = taken.start /\ t.goal = taken.goal /\ t.aim = taken.aim
          /\ t.closed = taken.closed /\ t.nearest = taken.nearest /\ t.best = taken.best
          /\ t.came = taken.came /\ t.reached = taken.reached /\ t.open = taken.open /\ t.done = b
  BY <1>2 DEF Searches
<1> QED  BY <1>2, <1>4, <1>5, <1>6, <1>7

\* The goal is closed and not looked round.
LEMMA ExpandArrives ==
  ASSUME NEW g, NEW s, s \in Searches, NEW top \in s.open, top[2] \notin s.closed,
         top[2] = s.goal
  PROVE  LET t == Expand(g, s, top)
         IN  t \in Searches /\ Closes(g, s, t, top, {}) /\ t.reached = TRUE /\ t.done = TRUE
<1> DEFINE c == top[2]
           taken == [s EXCEPT !.open = @ \ {top}]
           closed == [taken EXCEPT !.closed = @ \cup {c},
                                   !.nearest = IF Away(c, s.aim) < Away(@, s.aim) THEN c ELSE @]
           t == [closed EXCEPT !.reached = TRUE, !.done = TRUE]
<1>1. Expand(g, s, top) = t
  BY DEF Expand
<1>2. c \in Cells
  BY PartsOf
<1>3. /\ taken \in Searches /\ taken.open = s.open \ {top}
      /\ taken.start = s.start /\ taken.goal = s.goal /\ taken.aim = s.aim /\ taken.closed = s.closed
      /\ taken.nearest = s.nearest /\ taken.best = s.best /\ taken.came = s.came
  BY DEF Searches
<1> HIDE DEF taken
<1>4. /\ closed \in Searches /\ closed.open = taken.open
      /\ closed.start = taken.start /\ closed.goal = taken.goal /\ closed.aim = taken.aim
      /\ closed.closed = taken.closed \cup {c}
      /\ closed.nearest = IF Away(c, s.aim) < Away(taken.nearest, s.aim) THEN c ELSE taken.nearest
      /\ closed.best = taken.best /\ closed.came = taken.came
  <2> HIDE DEF c
  <2> QED  BY <1>2, <1>3 DEF Searches
<1> HIDE DEF closed
<1>5. /\ t \in Searches /\ t.open = closed.open /\ t.start = closed.start /\ t.goal = closed.goal
      /\ t.aim = closed.aim /\ t.closed = closed.closed /\ t.nearest = closed.nearest
      /\ t.best = closed.best /\ t.came = closed.came /\ t.reached = TRUE /\ t.done = TRUE
  BY <1>4 DEF Searches
<1> HIDE DEF t
<1>6. /\ s.best = [n \in DOMAIN s.best \cup {} |->
                     IF n \in {} THEN s.best[c] + StepCost(g, c, n) ELSE s.best[n]]
      /\ s.came = [n \in DOMAIN s.came \cup {} |-> IF n \in {} THEN c ELSE s.came[n]]
  <2>1. s.best \in [DOMAIN s.best -> Nat] /\ s.came \in [DOMAIN s.came -> Cells]
    BY PartsOf
  <2> QED  BY <2>1
<1>7. t.open = (s.open \ {top}) \cup {<<Estimate(t, n), n>> : n \in {}}
  BY <1>3, <1>4, <1>5
<1>8. Closes(g, s, t, top, {})
  BY <1>3, <1>4, <1>5, <1>6, <1>7 DEF Closes
<1> QED  BY <1>1, <1>5, <1>8

\* Any other cell is closed and looked round.
LEMMA ExpandLooks ==
  ASSUME NEW g, IsClear(g), NEW s, s \in Searches, NEW top \in s.open, top[2] \notin s.closed,
         top[2] # s.goal, top[2] \in DOMAIN s.best
  PROVE  LET t == Expand(g, s, top)
         IN  /\ t \in Searches /\ Closes(g, s, t, top, Better(g, s, top[2]))
             /\ t.reached = s.reached /\ t.done = (t.open = {})
<1> DEFINE c == top[2]
           taken == [s EXCEPT !.open = @ \ {top}]
           closed == [taken EXCEPT !.closed = @ \cup {c},
                                   !.nearest = IF Away(c, s.aim) < Away(@, s.aim) THEN c ELSE @]
           better == Relaxed(g, closed, c)
           cost == [n \in better |-> s.best[c] + StepCost(g, c, n)]
           open == closed.open \cup {<<cost[n] + 100 * Away(n, s.aim), n>> : n \in better}
           t == [closed EXCEPT !.best = [n \in DOMAIN @ \cup better |->
                                          IF n \in better THEN cost[n] ELSE @[n]],
                               !.came = [n \in DOMAIN @ \cup better |->
                                          IF n \in better THEN c ELSE @[n]],
                               !.open = open,
                               !.done = open = {}]
<1>1. Expand(g, s, top) = t
  BY DEF Expand
<1>2. c \in Cells /\ s.best \in [DOMAIN s.best -> Nat] /\ s.came \in [DOMAIN s.came -> Cells]
      /\ DOMAIN s.best \subseteq Cells /\ DOMAIN s.came \subseteq Cells
  BY PartsOf
<1>3. /\ taken \in Searches /\ taken.open = s.open \ {top}
      /\ taken.start = s.start /\ taken.goal = s.goal /\ taken.aim = s.aim /\ taken.closed = s.closed
      /\ taken.nearest = s.nearest /\ taken.best = s.best /\ taken.came = s.came
      /\ taken.reached = s.reached
  BY DEF Searches
<1>4. /\ closed \in Searches /\ closed.open = s.open \ {top}
      /\ closed.start = s.start /\ closed.goal = s.goal /\ closed.aim = s.aim
      /\ closed.closed = s.closed \cup {c}
      /\ closed.nearest = IF Away(c, s.aim) < Away(s.nearest, s.aim) THEN c ELSE s.nearest
      /\ closed.best = s.best /\ closed.came = s.came /\ closed.reached = s.reached
  <2> HIDE DEF c, taken
  <2> QED  BY <1>2, <1>3 DEF Searches
<1> HIDE DEF taken, closed
<1>5. better = Better(g, s, c)
  BY <1>4 DEF Relaxed, Better
<1>6. better \subseteq Cells /\ \A n \in better : s.best[c] + StepCost(g, c, n) \in Nat /\ Away(n, s.aim) \in Nat
  <2>1. \A n \in better : n \in StepsFrom(g, c)
    BY <1>5 DEF Better
  <2>2. \A n \in better : n \in Cells /\ StepCost(g, c, n) \in Nat
    BY <1>2, <2>1, StepIs
  <2>3. s.best[c] \in Nat
    BY <1>2
  <2>4. \A n \in Cells : Away(n, s.aim) \in Nat
    BY PartsOf
  <2> QED  BY <2>2, <2>3, <2>4
<1> HIDE DEF better
<1>7. PICK found, came : /\ found = [n \in DOMAIN s.best \cup better |->
                                      IF n \in better THEN s.best[c] + StepCost(g, c, n) ELSE s.best[n]]
                         /\ came = [n \in DOMAIN s.came \cup better |-> IF n \in better THEN c ELSE s.came[n]]
  OBVIOUS
<1>8. /\ found \in UNION {[D -> Nat] : D \in SUBSET Cells}
      /\ came \in UNION {[D -> Cells] : D \in SUBSET Cells}
  <2>1. DOMAIN s.best \cup better \in SUBSET Cells /\ DOMAIN s.came \cup better \in SUBSET Cells
    BY <1>2, <1>6
  <2>2. found \in [DOMAIN s.best \cup better -> Nat]
    BY <1>2, <1>6, <1>7
  <2>3. came \in [DOMAIN s.came \cup better -> Cells]
    BY <1>2, <1>6, <1>7
  <2> QED  BY <2>1, <2>2, <2>3
<1>9. PICK U : U = open
  OBVIOUS
<1>10. U = (s.open \ {top}) \cup {<<found[n] + 100 * Away(n, s.aim), n>> : n \in better}
  <2>1. \A n \in better : cost[n] = found[n]
    BY <1>7
  <2> QED  BY <1>4, <1>9, <2>1
<1>11. U \in SUBSET (Nat \X Cells)
  <2>1. \A n \in better : <<found[n] + 100 * Away(n, s.aim), n>> \in Nat \X Cells
    <3>1. \A n \in better : found[n] \in Nat
      BY <1>6, <1>7
    <3> QED  BY <1>6, <3>1
  <2>2. s.open \subseteq Nat \X Cells
    BY PartsOf
  <2> QED  BY <1>10, <2>1, <2>2
<1>12. PICK b \in BOOLEAN : b = (U = {})
  <2>1. (U = {}) \in BOOLEAN
    OBVIOUS
  <2> QED  BY <2>1
<1>13. t = [closed EXCEPT !.best = found, !.came = came, !.open = U, !.done = b]
  <2>1. \A n \in better : cost[n] = s.best[c] + StepCost(g, c, n)
    OBVIOUS
  <2>2. found = [n \in DOMAIN closed.best \cup better |-> IF n \in better THEN cost[n] ELSE closed.best[n]]
    BY <1>4, <1>7, <2>1
  <2>3. came = [n \in DOMAIN closed.came \cup better |-> IF n \in better THEN c ELSE closed.came[n]]
    BY <1>4, <1>7
  <2>4. b = (open = {})
    BY <1>9, <1>12
  <2> HIDE DEF open, cost
  <2> QED  BY <1>9, <2>2, <2>3, <2>4
<1> HIDE DEF t
<1>14. /\ t \in Searches /\ t.open = U /\ t.start = s.start /\ t.goal = s.goal
       /\ t.aim = s.aim /\ t.closed = s.closed \cup {c} /\ t.nearest = closed.nearest
       /\ t.best = found /\ t.came = came /\ t.reached = s.reached /\ t.done = b
  BY <1>4, <1>8, <1>11, <1>13 DEF Searches
<1>15. t.open = (s.open \ {top}) \cup {<<Estimate(t, n), n>> : n \in better}
  BY <1>10, <1>14 DEF Estimate
<1>16. Closes(g, s, t, top, better)
  BY <1>4, <1>7, <1>14, <1>15 DEF Closes
<1> QED  BY <1>1, <1>5, <1>12, <1>14, <1>16

\* A step of the search that closes a cell.
ClosingStep(g, s, t, top, better) ==
  /\ IsClear(g) /\ Sound(g, s) /\ s.done = FALSE /\ top \in Tops(s) /\ top[2] \notin s.closed
  /\ t \in Searches /\ Closes(g, s, t, top, better)
  /\ \/ top[2] = s.goal /\ better = {}
     \/ top[2] # s.goal /\ better = Better(g, s, top[2])

\* Whatever is closed keeps its cost, nothing becomes dearer, and what is new is
\* what was better.
LEMMA ClosingIs ==
  ASSUME NEW g, NEW s, NEW t, NEW top, NEW better, ClosingStep(g, s, t, top, better)
  PROVE  LET c == top[2]
         IN  /\ c \in Cells /\ c \in DOMAIN s.best /\ s.start \in s.closed \cup {c}
             /\ \A n \in DOMAIN s.best : /\ n \in DOMAIN t.best /\ t.best[n] <= s.best[n]
                                         /\ n \in s.closed \cup {c} => t.best[n] = s.best[n]
             /\ \A n \in better : /\ n \in DOMAIN t.best /\ t.best[n] = s.best[c] + StepCost(g, c, n)
                                  /\ n \in StepsFrom(g, c) /\ n \notin s.closed \cup {c}
             /\ \A n \in DOMAIN t.best : n \in better \/ (n \in DOMAIN s.best /\ t.best[n] = s.best[n])
             /\ t.closed \subseteq DOMAIN s.best /\ t.closed \subseteq DOMAIN t.best
<1> DEFINE c == top[2]
<1>1. s \in Searches /\ Begun(s) /\ CameBySteps(g, s) /\ IsClear(g)
  BY DEF ClosingStep, Sound
<1>2. c \in Cells /\ c \in DOMAIN s.best
  BY TopIs DEF ClosingStep
<1>3. s.start \in s.closed \cup {c}
  BY <1>1, <1>2 DEF Begun
<1>4. /\ DOMAIN t.best = DOMAIN s.best \cup better
      /\ \A n \in DOMAIN s.best \cup better :
           t.best[n] = IF n \in better THEN s.best[c] + StepCost(g, c, n) ELSE s.best[n]
  BY DEF ClosingStep, Closes
<1>5. \A n \in better : /\ n \in StepsFrom(g, c) /\ n \notin s.closed \cup {c}
                        /\ n \in DOMAIN s.best => s.best[c] + StepCost(g, c, n) < s.best[n]
  BY DEF ClosingStep, Better
<1>6. \A n \in DOMAIN s.best : s.best[n] \in Nat
  BY <1>1, PartsOf
<1>7. \A n \in better : StepCost(g, c, n) \in Nat
  BY <1>1, <1>2, <1>5, StepIs
<1>8. ASSUME NEW n \in DOMAIN s.best
      PROVE  /\ n \in DOMAIN t.best /\ t.best[n] <= s.best[n]
             /\ n \in s.closed \cup {c} => t.best[n] = s.best[n]
  <2>1. CASE n \in better
    BY <1>2, <1>4, <1>5, <1>6, <1>7, <2>1
  <2>2. CASE n \notin better
    BY <1>4, <1>6, <2>2
  <2> QED  BY <2>1, <2>2
<1>9. \A n \in better : n \in DOMAIN t.best /\ t.best[n] = s.best[c] + StepCost(g, c, n)
  BY <1>4
<1>10. \A n \in DOMAIN t.best : n \in better \/ (n \in DOMAIN s.best /\ t.best[n] = s.best[n])
  BY <1>4
<1>11. t.closed = s.closed \cup {c} /\ s.closed \subseteq DOMAIN s.best
  BY <1>1 DEF ClosingStep, Closes, CameBySteps
<1> HIDE DEF c
<1>12. t.closed \subseteq DOMAIN s.best /\ t.closed \subseteq DOMAIN t.best
  BY <1>2, <1>4, <1>11
<1> QED  BY <1>2, <1>3, <1>5, <1>8, <1>9, <1>10, <1>12 DEF c

LEMMA ClosingFacts ==
  ASSUME NEW g, NEW s, NEW t, NEW top, NEW better, ClosingStep(g, s, t, top, better)
  PROVE  LET c == top[2]
         IN  /\ t.start = s.start /\ t.goal = s.goal /\ t.aim = s.aim /\ t.closed = s.closed \cup {c}
             /\ \A n \in Cells : Away(n, s.aim) \in Nat
             /\ \A n \in DOMAIN t.best : n \in Cells /\ t.best[n] \in Nat
             /\ \A n \in DOMAIN s.best : n \in Cells /\ s.best[n] \in Nat
             /\ top[1] \in Nat /\ top[1] = s.best[c] + 100 * Away(c, s.aim)
             /\ \A d \in t.closed : Estimate(t, d) <= top[1]
             /\ \A e \in t.open : e[1] \in Nat /\ e[2] \in Cells /\ top[1] <= e[1]
<1> DEFINE c == top[2]
<1>1. s \in Searches /\ t \in Searches /\ CheapestFirst(s) /\ IsClear(g)
  BY DEF ClosingStep, Sound
<1>2. t.start = s.start /\ t.goal = s.goal /\ t.aim = s.aim /\ t.closed = s.closed \cup {c}
      /\ t.open = (s.open \ {top}) \cup {<<Estimate(t, n), n>> : n \in better}
  BY DEF ClosingStep, Closes
<1>3. /\ \A n \in Cells : Away(n, s.aim) \in Nat
      /\ \A n \in DOMAIN t.best : n \in Cells /\ t.best[n] \in Nat
      /\ \A n \in DOMAIN s.best : n \in Cells /\ s.best[n] \in Nat
  BY <1>1, PartsOf
<1>4. /\ top \in s.open /\ top[1] \in Nat /\ \A e \in s.open : e[1] \in Nat /\ top[1] <= e[1]
      /\ top[1] = s.best[c] + 100 * Away(c, s.aim)
  <2>1. Sound(g, s) /\ top \in Tops(s) /\ c \notin s.closed
    BY DEF ClosingStep
  <2> QED  BY <2>1, TopIs DEF Estimate
<1>5. /\ c \in Cells /\ c \in DOMAIN s.best
      /\ \A n \in t.closed : n \in DOMAIN s.best /\ t.best[n] = s.best[n]
      /\ \A n \in better : /\ n \in DOMAIN t.best /\ t.best[n] = s.best[c] + StepCost(g, c, n)
                           /\ n \in StepsFrom(g, c)
  BY <1>2, ClosingIs
<1>6. ASSUME NEW d \in t.closed
      PROVE  Estimate(t, d) <= top[1]
  <2>1. Estimate(t, d) = Estimate(s, d)
    BY <1>2, <1>5 DEF Estimate
  <2>2. CASE d = c
    BY <1>3, <1>4, <1>5, <2>1, <2>2 DEF Estimate
  <2>3. CASE d # c
    <3>1. d \in s.closed
      BY <1>2, <2>3
    <3> QED  BY <1>1, <1>4, <2>1, <3>1 DEF CheapestFirst
  <2> QED  BY <2>2, <2>3
<1>7. ASSUME NEW e \in t.open
      PROVE  e[1] \in Nat /\ e[2] \in Cells /\ top[1] <= e[1]
  <2>0. e[1] \in Nat /\ e[2] \in Cells
    <3>1. t.open \subseteq Nat \X Cells
      BY <1>1, PartsOf
    <3> QED  BY <3>1
  <2>1. CASE e \in s.open
    BY <1>4, <2>0, <2>1
  <2>2. CASE e \notin s.open
    <3>1. PICK n \in better : e = <<Estimate(t, n), n>>
      BY <1>2, <2>2
    <3>2. PICK x : x = Estimate(t, n)
      OBVIOUS
    <3>3. e[1] = x
      <4>1. <<x, n>>[1] = x
        OBVIOUS
      <4> QED  BY <3>1, <3>2, <4>1
    <3>4. x = s.best[c] + StepCost(g, c, n) + 100 * Away(n, s.aim)
      BY <1>2, <1>5, <3>2 DEF Estimate
    <3>5. n \in Cells /\ StepCost(g, c, n) \in Nat
          /\ 100 * Away(c, s.aim) <= 100 * Away(n, s.aim) + StepCost(g, c, n)
      <4>1. s.aim \in Targets
        BY <1>1, PartsOf
      <4> QED  BY <1>1, <1>5, <4>1, StepIs
    <3> QED  BY <1>3, <1>4, <1>5, <2>0, <3>3, <3>4, <3>5
  <2> QED  BY <2>1, <2>2
<1> QED  BY <1>2, <1>3, <1>4, <1>6, <1>7

LEMMA ClosingKeepsWays ==
  ASSUME NEW g, NEW s, NEW t, NEW top, NEW better, ClosingStep(g, s, t, top, better)
  PROVE  Begun(t) /\ CameBySteps(g, t)
<1> DEFINE c == top[2]
<1>1. Begun(s) /\ CameBySteps(g, s)
  BY DEF ClosingStep, Sound
<1>2. t.start = s.start /\ t.closed = s.closed \cup {c} /\ DOMAIN t.best = DOMAIN s.best \cup better
      /\ DOMAIN t.came = DOMAIN s.came \cup better
      /\ \A n \in DOMAIN t.came : t.came[n] = IF n \in better THEN c ELSE s.came[n]
  BY DEF ClosingStep, Closes
<1>3. /\ c \in DOMAIN s.best /\ s.start \in s.closed \cup {c}
      /\ \A n \in DOMAIN s.best : n \in s.closed \cup {c} => t.best[n] = s.best[n]
      /\ \A n \in better : /\ t.best[n] = s.best[c] + StepCost(g, c, n)
                           /\ n \in StepsFrom(g, c) /\ n \notin s.closed \cup {c}
      /\ \A n \in DOMAIN t.best : n \in better \/ (n \in DOMAIN s.best /\ t.best[n] = s.best[n])
      /\ t.closed \subseteq DOMAIN t.best
  BY ClosingIs
<1> HIDE DEF c
<1>4. Begun(t)
  BY <1>1, <1>2, <1>3 DEF Begun
<1>5. s.start \notin better
  BY <1>3
<1>6. DOMAIN t.came = DOMAIN t.best \ {t.start}
  BY <1>1, <1>2, <1>5 DEF CameBySteps
<1>7. ASSUME NEW n \in DOMAIN t.came
      PROVE  /\ t.came[n] \in t.closed /\ n \in StepsFrom(g, t.came[n])
             /\ t.best[n] = t.best[t.came[n]] + StepCost(g, t.came[n], n)
  <2>1. CASE n \in better
    BY <1>2, <1>3, <2>1
  <2>2. CASE n \notin better
    <3>1. n \in DOMAIN s.came /\ t.came[n] = s.came[n]
      BY <1>2, <2>2
    <3>2. /\ s.came[n] \in s.closed /\ n \in StepsFrom(g, s.came[n])
          /\ s.best[n] = s.best[s.came[n]] + StepCost(g, s.came[n], n)
      BY <1>1, <3>1 DEF CameBySteps
    <3>3. s.came[n] \in DOMAIN s.best /\ t.best[s.came[n]] = s.best[s.came[n]]
      BY <1>1, <1>3, <3>2 DEF CameBySteps
    <3>4. t.best[n] = s.best[n]
      BY <1>2, <1>3, <1>6, <2>2
    <3> QED  BY <1>2, <3>1, <3>2, <3>3, <3>4
  <2> QED  BY <2>1, <2>2
<1>8. CameBySteps(g, t)
  BY <1>3, <1>6, <1>7 DEF CameBySteps
<1> QED  BY <1>4, <1>8

LEMMA ClosingKeepsWaiting ==
  ASSUME NEW g, NEW s, NEW t, NEW top, NEW better, ClosingStep(g, s, t, top, better)
  PROVE  Waiting(t)
<1> DEFINE c == top[2]
<1>1. Waiting(s) /\ s \in Searches
  BY DEF ClosingStep, Sound
<1>2. /\ t.aim = s.aim /\ t.closed = s.closed \cup {c}
      /\ t.open = (s.open \ {top}) \cup {<<Estimate(t, n), n>> : n \in better}
  BY DEF ClosingStep, Closes
<1>3. /\ \A n \in DOMAIN s.best : n \in DOMAIN t.best /\ t.best[n] <= s.best[n]
      /\ \A n \in better : n \in DOMAIN t.best
      /\ \A n \in DOMAIN t.best : n \in better \/ (n \in DOMAIN s.best /\ t.best[n] = s.best[n])
  BY ClosingIs
<1>4. /\ \A n \in Cells : Away(n, s.aim) \in Nat
      /\ \A n \in DOMAIN t.best : n \in Cells /\ t.best[n] \in Nat
      /\ \A n \in DOMAIN s.best : n \in Cells /\ s.best[n] \in Nat
      /\ \A e \in t.open : e[1] \in Nat
  BY ClosingFacts
<1> HIDE DEF c
<1>5. ASSUME NEW e \in t.open
      PROVE  e[2] \in DOMAIN t.best /\ Estimate(t, e[2]) <= e[1]
  <2>1. CASE e \in s.open
    <3>1. PICK n : n = e[2]
      OBVIOUS
    <3>2. n \in DOMAIN s.best /\ Estimate(s, n) <= e[1]
      BY <1>1, <2>1, <3>1 DEF Waiting
    <3>3. n \in DOMAIN t.best /\ t.best[n] <= s.best[n] /\ t.best[n] \in Nat /\ s.best[n] \in Nat
          /\ Away(n, s.aim) \in Nat
      BY <1>3, <1>4, <3>2
    <3>4. Estimate(t, n) <= e[1]
      BY <1>2, <1>4, <3>2, <3>3 DEF Estimate
    <3> QED  BY <3>1, <3>3, <3>4
  <2>2. CASE e \notin s.open
    <3>1. PICK n \in better : e = <<Estimate(t, n), n>>
      BY <1>2, <2>2
    <3>2. PICK x : x = Estimate(t, n)
      OBVIOUS
    <3>3. <<x, n>>[1] = x /\ <<x, n>>[2] = n
      OBVIOUS
    <3>4. e[1] = Estimate(t, n) /\ e[2] = n
      BY <3>1, <3>2, <3>3
    <3> QED  BY <1>3, <1>4, <3>4
  <2> QED  BY <2>1, <2>2
<1>6. ASSUME NEW n \in DOMAIN t.best \ t.closed
      PROVE  <<Estimate(t, n), n>> \in t.open
  <2>1. CASE n \in better
    BY <1>2, <2>1
  <2>2. CASE n \notin better
    <3>1. n \in DOMAIN s.best \ s.closed /\ n # c /\ Estimate(t, n) = Estimate(s, n)
      BY <1>2, <1>3, <2>2 DEF Estimate
    <3>2. PICK x : x = Estimate(t, n)
      OBVIOUS
    <3>3. <<x, n>> \in s.open /\ <<x, n>>[2] = n
      BY <1>1, <3>1, <3>2 DEF Waiting
    <3>4. <<x, n>> # top
      BY <3>1, <3>3 DEF c
    <3> QED  BY <1>2, <3>2, <3>3, <3>4
  <2> QED  BY <2>1, <2>2
<1> QED  BY <1>5, <1>6 DEF Waiting

LEMMA ClosingKeepsRound ==
  ASSUME NEW g, NEW s, NEW t, NEW top, NEW better, ClosingStep(g, s, t, top, better)
  PROVE  LookedRound(g, t)
<1> DEFINE c == top[2]
<1>1. LookedRound(g, s) /\ CheapestFirst(s) /\ s \in Searches /\ IsClear(g) /\ CameBySteps(g, s)
  BY DEF ClosingStep, Sound
<1>2. t.goal = s.goal /\ t.closed = s.closed \cup {c}
  BY DEF ClosingStep, Closes
<1>3. /\ c \in Cells /\ c \in DOMAIN s.best
      /\ \A n \in DOMAIN s.best : /\ n \in DOMAIN t.best /\ t.best[n] <= s.best[n]
                                  /\ n \in s.closed \cup {c} => t.best[n] = s.best[n]
      /\ \A n \in better : n \in DOMAIN t.best /\ t.best[n] = s.best[c] + StepCost(g, c, n)
      /\ s.closed \subseteq DOMAIN s.best
  BY <1>1, ClosingIs DEF CameBySteps
<1>4. /\ \A n \in Cells : Away(n, s.aim) \in Nat
      /\ \A n \in DOMAIN t.best : n \in Cells /\ t.best[n] \in Nat
      /\ \A n \in DOMAIN s.best : n \in Cells /\ s.best[n] \in Nat
      /\ top[1] \in Nat /\ top[1] = s.best[c] + 100 * Away(c, s.aim)
      /\ \A d \in t.closed : Estimate(t, d) <= top[1]
      /\ t.aim = s.aim
  BY ClosingFacts
<1>5. s.aim \in Targets
  BY <1>1, PartsOf
<1>6. top \in s.open
  BY DEF ClosingStep, Tops
<1>9. c # s.goal => better = Better(g, s, c)
  BY DEF ClosingStep
<1> HIDE DEF c
<1>7. ASSUME NEW d \in s.closed \ {s.goal}, NEW n \in StepsFrom(g, d)
      PROVE  n \in DOMAIN t.best /\ t.best[n] <= t.best[d] + StepCost(g, d, n)
  <2>1. n \in DOMAIN s.best /\ s.best[n] <= s.best[d] + StepCost(g, d, n)
    BY <1>1 DEF LookedRound
  <2>2. d \in Cells /\ d \in DOMAIN s.best /\ t.best[d] = s.best[d]
    BY <1>3, <1>4
  <2>3. StepCost(g, d, n) \in Nat
    BY <1>1, <2>2, StepIs
  <2>4. n \in DOMAIN t.best /\ t.best[n] <= s.best[n] /\ t.best[n] \in Nat /\ s.best[n] \in Nat
        /\ s.best[d] \in Nat
    BY <1>3, <1>4, <2>1, <2>2
  <2> QED  BY <2>1, <2>2, <2>3, <2>4
<1>8. ASSUME c # s.goal, NEW n \in StepsFrom(g, c)
      PROVE  n \in DOMAIN t.best /\ t.best[n] <= t.best[c] + StepCost(g, c, n)
  <2>1. /\ n \in Cells /\ n # c /\ StepCost(g, c, n) \in Nat
        /\ 100 * Away(c, s.aim) <= 100 * Away(n, s.aim) + StepCost(g, c, n)
    BY <1>1, <1>3, <1>5, StepIs
  <2>2. t.best[c] = s.best[c] /\ s.best[c] \in Nat
    BY <1>3, <1>4
  <2>3. CASE n \in s.closed
    <3>1. n \in DOMAIN s.best /\ n \in DOMAIN t.best /\ t.best[n] \in Nat
      BY <1>3, <1>4, <2>3
    <3>2. t.best[n] + 100 * Away(n, s.aim) <= top[1]
      BY <1>2, <1>4, <2>3 DEF Estimate
    <3>3. Away(n, s.aim) \in Nat /\ Away(c, s.aim) \in Nat
      BY <1>3, <1>4, <2>1
    <3>4. top[1] <= s.best[c] + 100 * Away(n, s.aim) + StepCost(g, c, n)
      BY <1>4, <2>1, <2>2, <3>3
    <3> QED  BY <1>4, <2>1, <2>2, <3>1, <3>2, <3>3, <3>4
  <2>4. CASE n \in better
    BY <1>3, <1>4, <2>1, <2>2, <2>4
  <2>5. CASE n \notin s.closed /\ n \notin better
    <3>1. n \in DOMAIN s.best /\ ~(s.best[c] + StepCost(g, c, n) < s.best[n])
      BY <1>8, <1>9, <2>1, <2>5 DEF Better
    <3>2. n \in DOMAIN t.best /\ t.best[n] <= s.best[n] /\ t.best[n] \in Nat /\ s.best[n] \in Nat
      BY <1>3, <1>4, <3>1
    <3> QED  BY <2>1, <2>2, <3>1, <3>2
  <2> QED  BY <2>3, <2>4, <2>5
<1> QED  BY <1>2, <1>7, <1>8 DEF LookedRound

LEMMA ClosingKeepsOrder ==
  ASSUME NEW g, NEW s, NEW t, NEW top, NEW better, ClosingStep(g, s, t, top, better)
  PROVE  /\ \A c \in t.closed : \A e \in t.open : Estimate(t, c) <= e[1]
         /\ top[2] = s.goal => \A c \in t.closed : Estimate(t, c) <= Estimate(t, t.goal)
         /\ \E turn : IsTurn(t, turn)
         /\ KnowsNearest(t)
<1> DEFINE c == top[2]
<1>1. s \in Searches /\ t \in Searches /\ CameBySteps(g, s) /\ KnowsNearest(s) /\ Begun(s)
      /\ c \notin s.closed /\ Begun(t) /\ CameBySteps(g, t)
  BY ClosingKeepsWays DEF ClosingStep, Sound
<1>2. /\ t.start = s.start /\ t.goal = s.goal /\ t.aim = s.aim /\ t.closed = s.closed \cup {c}
      /\ t.nearest = IF Away(c, s.aim) < Away(s.nearest, s.aim) THEN c ELSE s.nearest
      /\ \A n \in DOMAIN t.came : t.came[n] = IF n \in better THEN c ELSE s.came[n]
  BY DEF ClosingStep, Closes
<1>3. /\ c \in Cells /\ c \in DOMAIN s.best /\ t.best[c] = s.best[c]
      /\ \A n \in better : n \notin s.closed \cup {c}
      /\ t.closed \subseteq DOMAIN t.best /\ s.start \in s.closed \cup {c}
  BY ClosingIs
<1>4. /\ \A n \in Cells : Away(n, s.aim) \in Nat
      /\ \A n \in DOMAIN t.best : n \in Cells /\ t.best[n] \in Nat
      /\ top[1] \in Nat /\ top[1] = s.best[c] + 100 * Away(c, s.aim)
      /\ \A d \in t.closed : Estimate(t, d) <= top[1]
      /\ \A e \in t.open : e[1] \in Nat /\ top[1] <= e[1]
  BY ClosingFacts
<1>5. \A d \in t.closed : Estimate(t, d) \in Nat
  BY <1>1, <1>3, PartsOf
<1> HIDE DEF c
<1>6. \A d \in t.closed : \A e \in t.open : Estimate(t, d) <= e[1]
  BY <1>4, <1>5
<1>7. ASSUME c = s.goal
      PROVE  \A d \in t.closed : Estimate(t, d) <= Estimate(t, t.goal)
  <2>1. Estimate(t, t.goal) = top[1]
    BY <1>2, <1>3, <1>4, <1>7 DEF Estimate
  <2> QED  BY <1>4, <2>1
<1>8. \E turn : IsTurn(t, turn)
  <2>1. PICK turn : IsTurn(s, turn)
    BY DEF ClosingStep, Sound
  <2>2. PICK k \in Nat : /\ k = Cardinality(s.closed) /\ Cardinality(t.closed) = k + 1
    <3>1. s.closed \subseteq Cells
      BY <1>1, PartsOf
    <3>2. IsFiniteSet(s.closed) /\ Cardinality(s.closed) \in Nat
      BY <3>1, CellsAreFinite, FS_Subset, FS_CardinalityType
    <3>3. Cardinality(s.closed \cup {c}) = Cardinality(s.closed) + 1
      BY <1>1, <3>2, FS_AddElement
    <3> QED  BY <1>2, <3>2, <3>3
  <2>3. PICK next : next = [d \in t.closed |-> IF d = c THEN k ELSE turn[d]]
    OBVIOUS
  <2>4. turn \in [s.closed -> Nat] /\ \A d \in s.closed : turn[d] < k
    BY <2>1, <2>2 DEF IsTurn
  <2>5. \A d \in s.closed : next[d] = turn[d]
    BY <1>1, <1>2, <2>3
  <2>6. next[c] = k
    BY <1>2, <2>3
  <2>7. next \in [t.closed -> Nat] /\ \A d \in t.closed : next[d] < Cardinality(t.closed)
    <3>1. \A d \in t.closed : next[d] \in Nat /\ next[d] < k + 1
      BY <1>2, <2>4, <2>5, <2>6
    <3> QED  BY <2>2, <2>3, <3>1
  <2>8. ASSUME NEW d \in t.closed \ {t.start}
        PROVE  next[t.came[d]] < next[d]
    <3>1. d \in DOMAIN t.came /\ t.came[d] = s.came[d] /\ d \in DOMAIN s.came
      <4>1. d \in DOMAIN t.came
        BY <1>1, <1>3 DEF CameBySteps
      <4>2. d \notin better
        BY <1>2, <1>3
      <4>3. d \in DOMAIN s.best
        BY <1>1, <1>2, <1>3 DEF CameBySteps
      <4> QED  BY <1>1, <1>2, <4>1, <4>2, <4>3 DEF CameBySteps
    <3>2. s.came[d] \in s.closed
      BY <1>1, <3>1 DEF CameBySteps
    <3>3. CASE d = c
      BY <2>4, <2>5, <2>6, <3>1, <3>2, <3>3
    <3>4. CASE d # c
      <4>1. d \in s.closed \ {s.start}
        BY <1>2, <3>4
      <4>2. turn[s.came[d]] < turn[d]
        BY <2>1, <4>1 DEF IsTurn
      <4> QED  BY <2>5, <3>1, <3>2, <4>1, <4>2
    <3> QED  BY <3>3, <3>4
  <2>9. IsTurn(t, next)
    BY <2>7, <2>8 DEF IsTurn
  <2> QED  BY <2>9
<1>9. KnowsNearest(t)
  <2>1. s.nearest \in s.closed \cup {c} /\ s.nearest \in Cells /\ s.closed \subseteq Cells
    BY <1>1, <1>3, PartsOf DEF KnowsNearest
  <2>2. \A d \in s.closed : Away(s.nearest, s.aim) <= Away(d, s.aim)
    BY <1>1 DEF KnowsNearest
  <2>3. t.nearest \in t.closed
    BY <1>2, <2>1
  <2>4. \A d \in t.closed : Away(t.nearest, s.aim) <= Away(d, s.aim)
    <3>1. Away(c, s.aim) \in Nat /\ Away(s.nearest, s.aim) \in Nat
          /\ \A d \in s.closed : Away(d, s.aim) \in Nat
      BY <1>3, <1>4, <2>1
    <3>2. CASE Away(c, s.aim) < Away(s.nearest, s.aim)
      BY <1>2, <2>2, <3>1, <3>2
    <3>3. CASE ~(Away(c, s.aim) < Away(s.nearest, s.aim))
      BY <1>2, <2>2, <3>1, <3>3
    <3> QED  BY <3>2, <3>3
  <2> QED  BY <1>2, <2>3, <2>4 DEF KnowsNearest
<1> QED  BY <1>6, <1>7, <1>8, <1>9 DEF c

\* A cell that is closed already leaves the heap.
LEMMA PassingKeeps ==
  ASSUME NEW g, IsClear(g), NEW s, Sound(g, s), s.done = FALSE, NEW top \in Tops(s),
         top[2] \in s.closed
  PROVE  Sound(g, Expand(g, s, top))
<1> DEFINE t == Expand(g, s, top)
<1>1. s \in Searches /\ top \in s.open
  BY DEF Sound, Tops
<1>2. /\ t \in Searches
      /\ t.start = s.start /\ t.goal = s.goal /\ t.aim = s.aim /\ t.closed = s.closed
      /\ t.nearest = s.nearest /\ t.best = s.best /\ t.came = s.came /\ t.reached = s.reached
      /\ t.open = s.open \ {top} /\ t.done = (t.open = {})
  BY <1>1, ExpandPasses
<1> HIDE DEF t
<1>3. \A c : Estimate(t, c) = Estimate(s, c)
  BY <1>2 DEF Estimate
<1>4. Begun(t) /\ CameBySteps(g, t) /\ LookedRound(g, t) /\ KnowsNearest(t)
  BY <1>2 DEF Sound, Begun, CameBySteps, LookedRound, KnowsNearest
<1>5. Waiting(t)
  <2>1. Waiting(s)
    BY DEF Sound
  <2>2. \A e \in t.open : e[2] \in DOMAIN t.best /\ Estimate(t, e[2]) <= e[1]
    BY <1>2, <1>3, <2>1 DEF Waiting
  <2>3. ASSUME NEW n \in DOMAIN t.best \ t.closed
        PROVE  <<Estimate(t, n), n>> \in t.open
    <3>1. PICK x : x = Estimate(t, n)
      OBVIOUS
    <3>2. <<x, n>> \in s.open
      BY <1>2, <1>3, <2>1, <3>1 DEF Waiting
    <3>3. <<x, n>>[2] = n
      OBVIOUS
    <3>4. <<x, n>> # top
      BY <1>2, <3>3
    <3> QED  BY <1>2, <3>1, <3>2, <3>4
  <2> QED  BY <2>2, <2>3 DEF Waiting
<1>6. CheapestFirst(t)
  BY <1>2, <1>3 DEF Sound, CheapestFirst
<1>7. \E turn : IsTurn(t, turn)
  <2>1. PICK turn : IsTurn(s, turn)
    BY DEF Sound
  <2>2. IsTurn(t, turn)
    BY <1>2, <2>1 DEF IsTurn
  <2> QED  BY <2>2
<1>8. Ends(t)
  BY <1>2 DEF Sound, Ends
<1> QED  BY <1>2, <1>4, <1>5, <1>6, <1>7, <1>8 DEF Sound, t

\* Every step of the search keeps it sound, whichever of the cheapest the heap
\* gives up.
LEMMA ExpandKeeps ==
  ASSUME NEW g, IsClear(g), NEW s, Sound(g, s), s.done = FALSE, NEW top \in Tops(s)
  PROVE  /\ Sound(g, Expand(g, s, top))
         /\ LET t == Expand(g, s, top) IN t.start = s.start /\ t.goal = s.goal /\ t.aim = s.aim
<1> DEFINE t == Expand(g, s, top)
<1>1. s \in Searches /\ top \in s.open /\ top[2] \in DOMAIN s.best
  BY TopIs DEF Sound
<1>2. s.reached = FALSE
  <2>1. Ends(s) /\ s.reached \in BOOLEAN
    BY <1>1, PartsOf DEF Sound
  <2> QED  BY <2>1 DEF Ends
<1>3. ASSUME NEW better, ClosingStep(g, s, t, top, better), Ends(t), t.reached => top[2] = s.goal
      PROVE  Sound(g, t) /\ t.start = s.start /\ t.goal = s.goal /\ t.aim = s.aim
  <2>1. t \in Searches /\ t.start = s.start /\ t.goal = s.goal /\ t.aim = s.aim
    BY <1>3 DEF ClosingStep, Closes
  <2>2. Begun(t) /\ CameBySteps(g, t) /\ Waiting(t) /\ LookedRound(g, t)
    BY <1>3, ClosingKeepsWays, ClosingKeepsWaiting, ClosingKeepsRound
  <2>3. /\ \A c \in t.closed : \A e \in t.open : Estimate(t, c) <= e[1]
        /\ top[2] = s.goal => \A c \in t.closed : Estimate(t, c) <= Estimate(t, t.goal)
        /\ (\E turn : IsTurn(t, turn)) /\ KnowsNearest(t)
    BY <1>3, ClosingKeepsOrder
  <2>4. CheapestFirst(t)
    BY <1>3, <2>3 DEF CheapestFirst
  <2> HIDE DEF t
  <2> QED  BY <1>3, <2>1, <2>2, <2>3, <2>4 DEF Sound
<1>4. CASE top[2] \in s.closed
  <2>1. t.start = s.start /\ t.goal = s.goal /\ t.aim = s.aim
    BY <1>1, <1>4, ExpandPasses
  <2> QED  BY <1>4, <2>1, PassingKeeps
<1>5. CASE top[2] \notin s.closed /\ top[2] = s.goal
  <2>1. t \in Searches /\ Closes(g, s, t, top, {}) /\ t.reached = TRUE /\ t.done = TRUE
    BY <1>1, <1>5, ExpandArrives
  <2> HIDE DEF t
  <2>2. ClosingStep(g, s, t, top, {})
    BY <1>5, <2>1 DEF ClosingStep
  <2>3. t.goal \in t.closed
    BY <1>5, <2>1 DEF Closes
  <2>4. Ends(t)
    BY <2>1, <2>3 DEF Ends
  <2> QED  BY <1>3, <1>5, <2>2, <2>4 DEF t
<1>6. CASE top[2] \notin s.closed /\ top[2] # s.goal
  <2>1. /\ t \in Searches /\ Closes(g, s, t, top, Better(g, s, top[2]))
        /\ t.reached = s.reached /\ t.done = (t.open = {})
    BY <1>1, <1>6, ExpandLooks
  <2> HIDE DEF t
  <2>2. ClosingStep(g, s, t, top, Better(g, s, top[2]))
    BY <1>6, <2>1 DEF ClosingStep
  <2>3. t.goal \notin t.closed
    <3>1. s.goal \notin s.closed
      BY <1>2 DEF Sound, Ends
    <3> QED  BY <1>6, <2>1, <3>1 DEF Closes
  <2>4. Ends(t)
    BY <1>2, <2>1, <2>3 DEF Ends
  <2> QED  BY <1>2, <1>3, <2>1, <2>2, <2>4 DEF t
<1> QED  BY <1>4, <1>5, <1>6

-----------------------------------------------------------------------------
(* What the cells cost (CheapestFrom).                                     *)

Costs == SUBSET (Cells \X Nat)

LEMMA FurtherIs ==
  ASSUME NEW g, IsClear(g), NEW costs \in Costs
  PROVE  \E further \in Costs :
           /\ further = costs \cup UNION {{<<n, p[2] + StepCost(g, p[1], n)>> : n \in StepsFrom(g, p[1])} : p \in costs}
           /\ StepFurther(g, costs) = {p \in further : \A q \in further : q[1] = p[1] => p[2] <= q[2]}
           /\ StepFurther(g, costs) \in Costs
<1>1. PICK further : further = costs \cup UNION {{<<n, p[2] + StepCost(g, p[1], n)>> : n \in StepsFrom(g, p[1])} : p \in costs}
  OBVIOUS
<1>2. further \in Costs
  <2>1. ASSUME NEW p \in costs, NEW n \in StepsFrom(g, p[1])
        PROVE  <<n, p[2] + StepCost(g, p[1], n)>> \in Cells \X Nat
    <3>1. p[1] \in Cells /\ p[2] \in Nat
      BY DEF Costs
    <3>2. n \in Cells /\ StepCost(g, p[1], n) \in Nat
      BY <3>1, StepIs
    <3> QED  BY <3>1, <3>2
  <2> QED  BY <1>1, <2>1 DEF Costs
<1>3. StepFurther(g, costs) = {p \in further : \A q \in further : q[1] = p[1] => p[2] <= q[2]}
  BY <1>1 DEF StepFurther
<1> QED  BY <1>1, <1>2, <1>3 DEF Costs

LEMMA CostsRun ==
  ASSUME NEW g, IsClear(g), NEW start \in Cells, NEW n \in Nat, n = Cardinality(Cells)
  PROVE  \E q : /\ q \in [0..n -> Costs] /\ q[0] = {<<start, 0>>} /\ q[n] = CheapestFrom(g, start)
                /\ \A i \in 0..(n - 1) : q[i + 1] = StepFurther(g, q[i])
<1> DEFINE V == Costs
           numbers == [i \in 1..n |-> i]
           One(v, i) == Once(LAMBDA sofar : StepFurther(g, sofar), v)
           F == [p \in V \X Nat |-> IF p[2] \in 1..n THEN One(p[1], p[2]) ELSE p[1]]
           Solves(f) == f = [S \in SUBSET DOMAIN numbers |->
                               IF S = {} THEN {<<start, 0>>} ELSE One(f[S \ {Max(S)}], Max(S))]
<1>0. ASSUME NEW v \in V, NEW i \in 1..n
      PROVE  One(v, i) = StepFurther(g, v)
  BY Zenon DEF Once
<1>1. CheapestFrom(g, start) = (CHOOSE f : Solves(f))[DOMAIN numbers]
  BY DEF CheapestFrom, FoldLeft, MapThenFoldSet
<1>2. DOMAIN numbers = 1..n
  OBVIOUS
<1>4. ASSUME NEW v \in V, NEW i \in 1..n
      PROVE  F[<<v, i>>] = One(v, i)
  <2> HIDE DEF V, One
  <2> QED  OBVIOUS
<1>5. ASSUME NEW v \in V, NEW i \in Nat
      PROVE  F[<<v, i>>] \in V
  <2>1. StepFurther(g, v) \in V
    BY FurtherIs
  <2> HIDE DEF V, One
  <2> QED  BY <1>0, <2>1
<1>6. {<<start, 0>>} \in V
  BY DEF Costs
<1>7. PICK h \in [SUBSET (1..n) -> V] :
        \A S \in SUBSET (1..n) : h[S] = IF S = {} THEN {<<start, 0>>} ELSE F[<<h[S \ {Max(S)}], Max(S)>>]
  <2> HIDE DEF F, V
  <2>1. PICK U, e, G : U = V /\ e = {<<start, 0>>} /\ G = F
    OBVIOUS
  <2>2. e \in U /\ \A v \in U : \A i \in Nat : G[<<v, i>>] \in U
    BY <1>5, <1>6, <2>1
  <2>3. \E h : FoldsUp(h, n, U, e, G)
    BY <2>2, FoldExists, Zenon
  <2> QED  BY <2>1, <2>3 DEF FoldsUp
<1>8. ASSUME NEW S \in SUBSET (1..n), S # {}
      PROVE  h[S] = One(h[S \ {Max(S)}], Max(S))
  <2>1. PICK x : x = Max(S) /\ x \in S
    BY <1>8, GreatestIsOne, Zenon
  <2> HIDE DEF V, F, One
  <2>2. x \in 1..n /\ S \ {x} \in SUBSET (1..n)
    <3>1. x \in 1..n
      BY <2>1
    <3>2. S \ {x} \in SUBSET (1..n)
      OBVIOUS
    <3> QED  BY <3>1, <3>2
  <2>3. h[S \ {x}] \in V /\ h[S] = F[<<h[S \ {x}], x>>]
    BY <1>7, <1>8, <2>1, <2>2
  <2> QED  BY <1>4, <2>1, <2>2, <2>3
<1>9. Solves(h)
  <2> HIDE DEF V, F, One
  <2> QED  BY <1>2, <1>7, <1>8
<1>10. PICK z : Solves(z) /\ z[1..n] = (CHOOSE u : Solves(u))[DOMAIN numbers]
  <2> HIDE DEF Solves
  <2> QED  BY <1>2, <1>9
<1>11. z[{}] = {<<start, 0>>} /\ \A S \in SUBSET (1..n) : S # {} => z[S] = One(z[S \ {Max(S)}], Max(S))
  <2> HIDE DEF One
  <2> QED  BY <1>2, <1>10
<1>12. RunsTo(n, V, {<<start, 0>>}, F, z[1..n])
  <2> HIDE DEF Solves, One, F, V
  <2>1. PICK U, e, G : U = V /\ e = {<<start, 0>>} /\ G = F
    OBVIOUS
  <2>2. e \in U /\ \A v \in U : \A i \in Nat : G[<<v, i>>] \in U
    BY <1>5, <1>6, <2>1
  <2>3. ASSUME NEW S \in SUBSET (1..n), S # {}, z[S \ {Max(S)}] \in U
        PROVE  z[S] = G[<<z[S \ {Max(S)}], Max(S)>>]
    <3>1. PICK x : x = Max(S) /\ x \in S
      BY <2>3, GreatestIsOne, Zenon
    <3>2. x \in 1..n
      BY <3>1
    <3>3. z[S] = One(z[S \ {x}], x) /\ z[S \ {x}] \in V
      BY <1>11, <2>1, <2>3, <3>1
    <3> QED  BY <1>4, <2>1, <3>1, <3>2, <3>3
  <2>4. z[{}] = e
    BY <1>11, <2>1
  <2>5. \A S \in SUBSET (1..n) : S # {} /\ z[S \ {Max(S)}] \in U =>
          z[S] = G[<<z[S \ {Max(S)}], Max(S)>>]
    BY <2>3
  <2>6. e \in U /\ n \in Nat
    BY <2>2
  <2>7. \A v \in U : \A i \in Nat : G[<<v, i>>] \in U
    BY <2>2
  <2>8. RunsTo(n, U, e, G, z[1..n])
    BY ONLY <2>4, <2>5, <2>6, <2>7, FoldRuns, Zenon
  <2> QED  BY <2>1, <2>8
<1>13. PICK q : Runs(q, n, V, {<<start, 0>>}, F) /\ q[n] = CheapestFrom(g, start)
  <2> HIDE DEF Solves, F, V
  <2> QED  BY <1>1, <1>10, <1>12 DEF RunsTo
<1>14. \A i \in 0..(n - 1) : q[i + 1] = StepFurther(g, q[i])
  <2> SUFFICES ASSUME NEW i \in 0..(n - 1) PROVE q[i + 1] = StepFurther(g, q[i])
    OBVIOUS
  <2>1. i \in 0..n /\ i + 1 \in 1..n
    OBVIOUS
  <2>2. q[i] \in V /\ q[i + 1] = F[<<q[i], i + 1>>]
    <3> HIDE DEF F, V
    <3> QED  BY <1>13, <2>1 DEF Runs
  <2> HIDE DEF F, V, One
  <2> QED  BY <1>0, <1>4, <2>1, <2>2
<1> HIDE DEF F
<1> QED  BY <1>13, <1>14 DEF Runs

-----------------------------------------------------------------------------
(* The way back (CellsTo).                                                 *)

\* Cells one step after the other, the last of them at.
IsWayTo(g, s, at, path) ==
  /\ path \in Seq(Cells) /\ Len(path) >= 1 /\ path[1] \in s.closed /\ path[Len(path)] = at
  /\ \A i \in 2..Len(path) : path[i] \in StepsFrom(g, path[i - 1])
WaysTo(g, s, at) == {path \in Seq(Cells) : IsWayTo(g, s, at, path)}

\* One step further back.
BackFrom(s, path) == IF path[1] = s.start THEN path ELSE <<s.came[path[1]]>> \o path

LEMMA BackKeeps ==
  ASSUME NEW g, NEW s, Sound(g, s), NEW at, NEW path \in WaysTo(g, s, at)
  PROVE  /\ BackFrom(s, path) \in WaysTo(g, s, at)
         /\ path[1] # s.start => /\ path[1] \in s.closed \ {s.start}
                                /\ BackFrom(s, path)[1] = s.came[path[1]]
<1>1. s \in Searches /\ CameBySteps(g, s)
  BY DEF Sound
<1>2. IsWayTo(g, s, at, path) /\ path \in Seq(Cells)
  BY DEF WaysTo
<1>3. CASE path[1] = s.start
  BY <1>2, <1>3 DEF BackFrom, WaysTo
<1>4. CASE path[1] # s.start
  <2>1. PICK c, k : c = s.came[path[1]] /\ k = Len(path)
    OBVIOUS
  <2>2. path[1] \in s.closed \ {s.start} /\ k \in Nat /\ k >= 1 /\ path[k] = at
    BY <1>2, <1>4, <2>1 DEF IsWayTo
  <2>3. c \in s.closed /\ path[1] \in StepsFrom(g, c)
    BY <1>1, <2>1, <2>2 DEF CameBySteps
  <2>4. c \in Cells
    BY <1>1, <2>3, PartsOf
  <2>5. PICK back : back = <<c>> \o path
    OBVIOUS
  <2>6. <<c>> \in Seq(Cells) /\ Len(<<c>>) = 1 /\ <<c>>[1] = c
    BY <2>4
  <2>7. /\ back \in Seq(Cells) /\ Len(back) = k + 1
        /\ \A i \in 1..(k + 1) : back[i] = IF i <= 1 THEN <<c>>[i] ELSE path[i - 1]
    <3>1. /\ <<c>> \o path \in Seq(Cells) /\ Len(<<c>> \o path) = Len(<<c>>) + Len(path)
          /\ \A i \in 1..Len(<<c>>) + Len(path) :
               (<<c>> \o path)[i] = IF i <= Len(<<c>>) THEN <<c>>[i] ELSE path[i - Len(<<c>>)]
      BY <1>2, <2>6, ConcatProperties
    <3>2. Len(<<c>>) + Len(path) = k + 1
      BY <2>1, <2>2, <2>6
    <3> QED  BY <2>5, <2>6, <3>1, <3>2
  <2>8. back[1] = c /\ back[k + 1] = at
    BY <2>2, <2>6, <2>7
  <2>9. ASSUME NEW i \in 2..(k + 1)
        PROVE  back[i] \in StepsFrom(g, back[i - 1])
    <3>1. back[i] = path[i - 1]
      BY <2>2, <2>7
    <3>2. CASE i = 2
      BY <2>3, <2>8, <3>1, <3>2
    <3>3. CASE i # 2
      <4>1. i - 1 \in 2..k /\ i - 1 \in 1..(k + 1) /\ ~(i - 1 <= 1)
        BY <2>2, <3>3
      <4>2. back[i - 1] = path[(i - 1) - 1]
        BY <2>7, <4>1
      <4>3. path[i - 1] \in StepsFrom(g, path[(i - 1) - 1])
        BY <1>2, <2>1, <4>1 DEF IsWayTo
      <4> QED  BY <3>1, <4>2, <4>3
    <3> QED  BY <3>2, <3>3
  <2>10. IsWayTo(g, s, at, back)
    BY <2>2, <2>3, <2>7, <2>8, <2>9 DEF IsWayTo
  <2>11. BackFrom(s, path) = back
    BY <1>4, <2>1, <2>5 DEF BackFrom
  <2> QED  BY <2>1, <2>2, <2>7, <2>8, <2>10, <2>11 DEF WaysTo
<1> QED  BY <1>3, <1>4

\* The fold, step by step.
IsWayBack(g, s, at, n, q) ==
  /\ q \in [0..n -> WaysTo(g, s, at)] /\ q[0] = <<at>> /\ q[n] = CellsTo(s, at)
  /\ \A i \in 0..(n - 1) : q[i + 1] = BackFrom(s, q[i])

LEMMA BackRuns ==
  ASSUME NEW g, NEW s, Sound(g, s), NEW at \in s.closed, NEW n \in Nat, n = Cardinality(s.closed)
  PROVE  \E q : IsWayBack(g, s, at, n, q)
<1> DEFINE V == WaysTo(g, s, at)
           numbers == [i \in 1..n |-> i]
           Back(path) == IF path[1] = s.start THEN path ELSE <<s.came[path[1]]>> \o path
           One(v, i) == Once(Back, v)
           F == [p \in V \X Nat |-> IF p[2] \in 1..n THEN One(p[1], p[2]) ELSE p[1]]
           Solves(f) == f = [S \in SUBSET DOMAIN numbers |->
                               IF S = {} THEN <<at>> ELSE One(f[S \ {Max(S)}], Max(S))]
<1>0. ASSUME NEW v \in V, NEW i \in 1..n
      PROVE  One(v, i) = BackFrom(s, v)
  <2>1. One(v, i) = Back(v)
    <3> HIDE DEF Back
    <3> QED  BY Zenon DEF Once
  <2> QED  BY <2>1 DEF BackFrom
<1>1. CellsTo(s, at) = (CHOOSE f : Solves(f))[DOMAIN numbers]
  BY DEF CellsTo, FoldLeft, MapThenFoldSet
<1>2. DOMAIN numbers = 1..n
  OBVIOUS
<1>4. ASSUME NEW v \in V, NEW i \in 1..n
      PROVE  F[<<v, i>>] = One(v, i)
  <2> HIDE DEF V, One
  <2> QED  OBVIOUS
<1>5. ASSUME NEW v \in V, NEW i \in Nat
      PROVE  F[<<v, i>>] \in V
  <2>1. BackFrom(s, v) \in V
    BY BackKeeps
  <2> HIDE DEF V, One
  <2> QED  BY <1>0, <2>1
<1>6. <<at>> \in V
  <2>1. at \in Cells
    <3>1. s \in Searches
      BY DEF Sound
    <3> QED  BY <3>1, PartsOf
  <2>2. <<at>> \in Seq(Cells) /\ Len(<<at>>) = 1 /\ <<at>>[1] = at
    BY <2>1
  <2> QED  BY <2>2 DEF WaysTo, IsWayTo
<1>7. PICK h \in [SUBSET (1..n) -> V] :
        \A S \in SUBSET (1..n) : h[S] = IF S = {} THEN <<at>> ELSE F[<<h[S \ {Max(S)}], Max(S)>>]
  <2> HIDE DEF F, V
  <2>1. PICK U, e, G : U = V /\ e = <<at>> /\ G = F
    OBVIOUS
  <2>2. e \in U /\ \A v \in U : \A i \in Nat : G[<<v, i>>] \in U
    BY <1>5, <1>6, <2>1
  <2>3. \E h : FoldsUp(h, n, U, e, G)
    BY <2>2, FoldExists, Zenon
  <2> QED  BY <2>1, <2>3 DEF FoldsUp
<1>8. ASSUME NEW S \in SUBSET (1..n), S # {}
      PROVE  h[S] = One(h[S \ {Max(S)}], Max(S))
  <2>1. PICK x : x = Max(S) /\ x \in S
    BY <1>8, GreatestIsOne, Zenon
  <2> HIDE DEF V, F, One
  <2>2. x \in 1..n /\ S \ {x} \in SUBSET (1..n)
    <3>1. x \in 1..n
      BY <2>1
    <3>2. S \ {x} \in SUBSET (1..n)
      OBVIOUS
    <3> QED  BY <3>1, <3>2
  <2>3. h[S \ {x}] \in V /\ h[S] = F[<<h[S \ {x}], x>>]
    BY <1>7, <1>8, <2>1, <2>2
  <2> QED  BY <1>4, <2>1, <2>2, <2>3
<1>9. Solves(h)
  <2> HIDE DEF V, F, One
  <2> QED  BY <1>2, <1>7, <1>8
<1>10. PICK z : Solves(z) /\ z[1..n] = (CHOOSE u : Solves(u))[DOMAIN numbers]
  <2> HIDE DEF Solves
  <2> QED  BY <1>2, <1>9
<1>11. z[{}] = <<at>> /\ \A S \in SUBSET (1..n) : S # {} => z[S] = One(z[S \ {Max(S)}], Max(S))
  <2> HIDE DEF One
  <2> QED  BY <1>2, <1>10
<1>12. RunsTo(n, V, <<at>>, F, z[1..n])
  <2> HIDE DEF Solves, One, F, V
  <2>1. PICK U, e, G : U = V /\ e = <<at>> /\ G = F
    OBVIOUS
  <2>2. e \in U /\ \A v \in U : \A i \in Nat : G[<<v, i>>] \in U
    BY <1>5, <1>6, <2>1
  <2>3. ASSUME NEW S \in SUBSET (1..n), S # {}, z[S \ {Max(S)}] \in U
        PROVE  z[S] = G[<<z[S \ {Max(S)}], Max(S)>>]
    <3>1. PICK x : x = Max(S) /\ x \in S
      BY <2>3, GreatestIsOne, Zenon
    <3>2. x \in 1..n
      BY <3>1
    <3>3. z[S] = One(z[S \ {x}], x) /\ z[S \ {x}] \in V
      BY <1>11, <2>1, <2>3, <3>1
    <3> QED  BY <1>4, <2>1, <3>1, <3>2, <3>3
  <2>4. z[{}] = e
    BY <1>11, <2>1
  <2>5. \A S \in SUBSET (1..n) : S # {} /\ z[S \ {Max(S)}] \in U =>
          z[S] = G[<<z[S \ {Max(S)}], Max(S)>>]
    BY <2>3
  <2>6. e \in U /\ n \in Nat
    BY <2>2
  <2>7. \A v \in U : \A i \in Nat : G[<<v, i>>] \in U
    BY <2>2
  <2>8. RunsTo(n, U, e, G, z[1..n])
    BY ONLY <2>4, <2>5, <2>6, <2>7, FoldRuns, Zenon
  <2> QED  BY <2>1, <2>8
<1>13. PICK q : Runs(q, n, V, <<at>>, F) /\ q[n] = CellsTo(s, at)
  <2> HIDE DEF Solves, F, V
  <2> QED  BY <1>1, <1>10, <1>12 DEF RunsTo
<1>14. \A i \in 0..(n - 1) : q[i + 1] = BackFrom(s, q[i])
  <2> SUFFICES ASSUME NEW i \in 0..(n - 1) PROVE q[i + 1] = BackFrom(s, q[i])
    OBVIOUS
  <2>1. i \in 0..n /\ i + 1 \in 1..n
    OBVIOUS
  <2>2. q[i] \in V /\ q[i + 1] = F[<<q[i], i + 1>>]
    <3> HIDE DEF F, V
    <3> QED  BY <1>13, <2>1 DEF Runs
  <2> HIDE DEF F, V, One
  <2> QED  BY <1>0, <1>4, <2>1, <2>2
<1> HIDE DEF F
<1> QED  BY <1>13, <1>14 DEF Runs, IsWayBack

\* The way back from a closed cell begins where he stands, and every cell of it
\* is a step from the one before.
LEMMA WayBackIs ==
  ASSUME NEW g, NEW s, Sound(g, s), NEW at \in s.closed
  PROVE  LET cells == CellsTo(s, at)
         IN  /\ cells \in Seq(Cells) /\ Len(cells) >= 1 /\ cells[1] = s.start
             /\ cells[Len(cells)] = at
             /\ \A i \in 2..Len(cells) : cells[i] \in StepsFrom(g, cells[i - 1])
<1>1. PICK turn : IsTurn(s, turn)
  BY DEF Sound
<1>2. PICK n \in Nat : n = Cardinality(s.closed)
  <2>1. s.closed \subseteq Cells
    BY PartsOf DEF Sound
  <2> QED  BY <2>1, CellsAreFinite, FS_Subset, FS_CardinalityType
<1>0. PICK q : IsWayBack(g, s, at, n, q)
  BY <1>2, BackRuns
<1>3. /\ q \in [0..n -> WaysTo(g, s, at)] /\ q[0] = <<at>> /\ q[n] = CellsTo(s, at)
      /\ \A i \in 0..(n - 1) : q[i + 1] = BackFrom(s, q[i])
  BY <1>0 DEF IsWayBack
<1>4. turn \in [s.closed -> Nat] /\ turn[at] < n
      /\ \A c \in s.closed \ {s.start} : turn[s.came[c]] < turn[c] /\ s.came[c] \in s.closed
  <2>1. \A c \in s.closed \ {s.start} : s.came[c] \in s.closed
    BY DEF Sound, CameBySteps
  <2> QED  BY <1>1, <1>2, <2>1 DEF IsTurn
<1> DEFINE T == {k \in 0..n : q[k][1] = s.start \/ turn[q[k][1]] + k <= turn[at]}
<1>5. 0 \in T
  <2>1. q[0][1] = at
    BY <1>3
  <2> QED  BY <1>4, <2>1
<1>6. ASSUME NEW k \in 0..(n - 1), k \in T
      PROVE  k + 1 \in T
  <2>1. k \in 0..n /\ k + 1 \in 0..n /\ k \in Nat
    BY <1>2
  <2>2. q[k] \in WaysTo(g, s, at) /\ q[k + 1] = BackFrom(s, q[k])
    BY <1>3, <2>1
  <2>3. CASE q[k][1] = s.start
    BY <2>1, <2>2, <2>3 DEF BackFrom
  <2>4. CASE q[k][1] # s.start
    <3>1. q[k][1] \in s.closed \ {s.start} /\ q[k + 1][1] = s.came[q[k][1]]
      BY <2>2, <2>4, BackKeeps
    <3>2. PICK c, d \in s.closed : c = q[k][1] /\ d = q[k + 1][1]
      BY <1>4, <3>1
    <3>3. turn[d] < turn[c] /\ turn[c] + k <= turn[at] /\ turn[c] \in Nat /\ turn[d] \in Nat /\ turn[at] \in Nat
      BY <1>4, <1>6, <2>4, <3>1, <3>2
    <3>4. turn[d] + (k + 1) <= turn[at]
      BY <2>1, <3>3
    <3> QED  BY <2>1, <3>2, <3>4
  <2> QED  BY <2>3, <2>4
<1>7. n \in T
  <2>1. \A k \in 0..n : k \in T
    <3> HIDE DEF T
    <3> QED  BY <1>5, <1>6, UpTo
  <2> HIDE DEF T
  <2> QED  BY <2>1
<1>8. IsWayTo(g, s, at, q[n]) /\ q[n] \in Seq(Cells)
  BY <1>3 DEF WaysTo
<1>9. q[n][1] = s.start
  <2>1. q[n][1] \in s.closed
    BY <1>8 DEF IsWayTo
  <2>2. turn[q[n][1]] \in Nat /\ turn[at] \in Nat
    BY <1>4, <2>1
  <2> QED  BY <1>4, <1>7, <2>2
<1> QED  BY <1>3, <1>8, <1>9 DEF IsWayTo

-----------------------------------------------------------------------------
(* The search over, it has found the cheapest way there is.                *)

Finished(g, s) == IsClear(g) /\ Sound(g, s) /\ s.done = TRUE

\* No way that comes to a cell so cheaply beats what the search found.
Bounded(s, c, v) ==
  \/ c \in s.closed \ {s.goal} /\ s.best[c] <= v
  \/ s.reached = TRUE /\ Estimate(s, s.goal) <= v + 100 * Away(c, s.aim)

LEMMA FinishedIs ==
  ASSUME NEW g, NEW s, Finished(g, s)
  PROVE  /\ s.start \in s.closed /\ s.best[s.start] = 0 /\ s.closed \subseteq DOMAIN s.best
         /\ s.reached = TRUE <=> s.goal \in s.closed
         /\ s.reached = FALSE => s.closed = DOMAIN s.best
         /\ s.reached = TRUE => \A c \in s.closed : Estimate(s, c) <= Estimate(s, s.goal)
         /\ \A n \in DOMAIN s.best \ s.closed : s.reached = TRUE => Estimate(s, s.goal) <= Estimate(s, n)
<1>1. /\ s \in Searches /\ Begun(s) /\ CameBySteps(g, s) /\ Waiting(s) /\ CheapestFirst(s) /\ Ends(s)
      /\ s.done = TRUE /\ s.reached \in BOOLEAN
  BY PartsOf DEF Finished, Sound
<1>2. s.reached = TRUE <=> s.goal \in s.closed
  BY <1>1 DEF Ends
<1>3. s.reached = FALSE => s.open = {}
  BY <1>1 DEF Ends
<1>4. s.closed \subseteq DOMAIN s.best
  BY <1>1 DEF CameBySteps
<1>5. s.reached = FALSE => s.closed = DOMAIN s.best
  BY <1>1, <1>3, <1>4 DEF Waiting
<1>6. s.start \in s.closed /\ s.best[s.start] = 0
  <2>1. s.closed # {}
    BY <1>1, <1>2, <1>5 DEF Begun
  <2> QED  BY <1>1, <2>1 DEF Begun
<1>7. s.reached = TRUE => \A c \in s.closed : Estimate(s, c) <= Estimate(s, s.goal)
  BY <1>1 DEF CheapestFirst
<1>8. ASSUME NEW n \in DOMAIN s.best \ s.closed, s.reached = TRUE
      PROVE  Estimate(s, s.goal) <= Estimate(s, n)
  <2>1. PICK x : x = Estimate(s, n)
    OBVIOUS
  <2>2. <<x, n>> \in s.open
    BY <1>1, <2>1 DEF Waiting
  <2>3. <<x, n>>[1] = x
    OBVIOUS
  <2> QED  BY <1>1, <1>2, <1>8, <2>1, <2>2, <2>3 DEF CheapestFirst
<1> QED  BY <1>2, <1>4, <1>5, <1>6, <1>7, <1>8

LEMMA StartIsBounded ==
  ASSUME NEW g, NEW s, Finished(g, s)
  PROVE  Bounded(s, s.start, 0)
<1>1. s \in Searches
  BY DEF Finished, Sound
<1>2. /\ s.start \in s.closed /\ s.best[s.start] = 0
      /\ s.reached = TRUE <=> s.goal \in s.closed
  BY FinishedIs
<1>3. s.start \in Cells /\ Away(s.start, s.aim) \in Nat
  BY <1>1, PartsOf
<1> QED  BY <1>2, <1>3 DEF Bounded, Estimate

LEMMA StepIsBounded ==
  ASSUME NEW g, NEW s, Finished(g, s), NEW c \in Cells, NEW v \in Nat, Bounded(s, c, v),
         NEW n \in StepsFrom(g, c)
  PROVE  Bounded(s, n, v + StepCost(g, c, n))
<1>1. s \in Searches /\ LookedRound(g, s) /\ IsClear(g)
  BY DEF Finished, Sound
<1>2. /\ s.aim \in Targets /\ s.closed \subseteq Cells /\ s.reached \in BOOLEAN
      /\ \A d \in Cells : Away(d, s.aim) \in Nat
      /\ \A d \in DOMAIN s.best : d \in Cells /\ s.best[d] \in Nat /\ Estimate(s, d) \in Nat
  BY <1>1, PartsOf
<1>3. PICK k \in Nat : k = StepCost(g, c, n)
  BY <1>1, StepIs
<1>4. n \in Cells /\ 100 * Away(c, s.aim) <= 100 * Away(n, s.aim) + k
  BY <1>1, <1>2, <1>3, StepIs
<1>5. /\ s.closed \subseteq DOMAIN s.best
      /\ s.reached = TRUE <=> s.goal \in s.closed
      /\ s.reached = FALSE => s.closed = DOMAIN s.best
      /\ \A d \in DOMAIN s.best \ s.closed : s.reached = TRUE => Estimate(s, s.goal) <= Estimate(s, d)
  BY FinishedIs
<1>6. CASE c \in s.closed \ {s.goal} /\ s.best[c] <= v
  <2>1. n \in DOMAIN s.best /\ s.best[n] <= s.best[c] + k
    BY <1>1, <1>3, <1>6 DEF LookedRound
  <2>2. s.best[n] \in Nat /\ s.best[c] \in Nat /\ Away(n, s.aim) \in Nat
    BY <1>2, <1>4, <1>5, <1>6, <2>1
  <2>3. s.best[n] <= v + k
    BY <1>6, <2>1, <2>2
  <2>4. CASE n \in s.closed \ {s.goal}
    BY <1>3, <2>3, <2>4 DEF Bounded
  <2>5. CASE n \notin s.closed
    <3>1. s.reached = TRUE
      BY <1>2, <1>5, <2>1, <2>5
    <3>2. Estimate(s, s.goal) <= Estimate(s, n)
      BY <1>5, <2>1, <2>5, <3>1
    <3>3. Estimate(s, s.goal) \in Nat
      BY <1>2, <1>5, <3>1
    <3>4. Estimate(s, s.goal) <= (v + k) + 100 * Away(n, s.aim)
      BY <2>2, <2>3, <3>2, <3>3 DEF Estimate
    <3> QED  BY <1>3, <3>1, <3>4 DEF Bounded
  <2>6. CASE n = s.goal /\ n \in s.closed
    <3>1. s.reached = TRUE
      BY <1>5, <2>6
    <3>2. Estimate(s, s.goal) <= (v + k) + 100 * Away(n, s.aim)
      BY <2>2, <2>3, <2>6 DEF Estimate
    <3> QED  BY <1>3, <3>1, <3>2 DEF Bounded
  <2> QED  BY <2>4, <2>5, <2>6
<1>7. CASE s.reached = TRUE /\ Estimate(s, s.goal) <= v + 100 * Away(c, s.aim)
  <2>1. Estimate(s, s.goal) \in Nat
    BY <1>2, <1>5, <1>7
  <2>2. Away(c, s.aim) \in Nat /\ Away(n, s.aim) \in Nat
    BY <1>2, <1>4
  <2>3. Estimate(s, s.goal) <= (v + k) + 100 * Away(n, s.aim)
    BY <1>4, <1>7, <2>1, <2>2
  <2> QED  BY <1>3, <1>7, <2>3 DEF Bounded
<1> QED  BY <1>6, <1>7 DEF Bounded

LEMMA ClosedIsCheapest ==
  ASSUME NEW g, NEW s, Finished(g, s), NEW c \in s.closed, NEW v \in Nat, Bounded(s, c, v)
  PROVE  s.best[c] <= v
<1>1. s \in Searches
  BY DEF Finished, Sound
<1>2. c \in DOMAIN s.best /\ (s.reached = TRUE <=> s.goal \in s.closed)
      /\ (s.reached = TRUE => s.goal \in DOMAIN s.best /\ Estimate(s, c) <= Estimate(s, s.goal))
  BY FinishedIs
<1>3. /\ c \in Cells /\ Away(c, s.aim) \in Nat /\ s.best[c] \in Nat
      /\ \A d \in DOMAIN s.best : Estimate(s, d) \in Nat
  BY <1>1, <1>2, PartsOf
<1>4. CASE s.reached = TRUE /\ Estimate(s, s.goal) <= v + 100 * Away(c, s.aim)
  <2>1. Estimate(s, s.goal) \in Nat /\ Estimate(s, c) \in Nat
    BY <1>2, <1>3, <1>4
  <2>2. Estimate(s, c) <= v + 100 * Away(c, s.aim)
    BY <1>2, <1>3, <1>4, <2>1
  <2> QED  BY <1>3, <2>2 DEF Estimate
<1> QED  BY <1>4 DEF Bounded

\* What the cells cost, set against what the search found: every closed cell is
\* there at what it was found for, nothing is cheaper, and each cell has one cost.
Agrees(s, costs) ==
  /\ costs \in Costs
  /\ \A c \in s.closed : <<c, s.best[c]>> \in costs
  /\ \A p \in costs : Bounded(s, p[1], p[2])
  /\ \A p, r \in costs : p[1] = r[1] => p[2] <= r[2]

\* As far as so many steps tell.
AgreesUpTo(s, turn, k, costs) ==
  /\ costs \in Costs
  /\ \A p \in costs : Bounded(s, p[1], p[2])
  /\ \A c \in s.closed : (c = s.start \/ turn[c] <= k) => <<c, s.best[c]>> \in costs
  /\ \A p, r \in costs : p[1] = r[1] => p[2] <= r[2]

\* One round more.
LEMMA RoundAgrees ==
  ASSUME NEW g, NEW s, Finished(g, s), NEW turn, IsTurn(s, turn), NEW k \in Nat,
         NEW costs, AgreesUpTo(s, turn, k, costs)
  PROVE  AgreesUpTo(s, turn, k + 1, StepFurther(g, costs))
<1> DEFINE next == StepFurther(g, costs)
<1>0. /\ costs \in Costs /\ \A p \in costs : Bounded(s, p[1], p[2])
      /\ \A c \in s.closed : (c = s.start \/ turn[c] <= k) => <<c, s.best[c]>> \in costs
  BY DEF AgreesUpTo
<1>1. s \in Searches /\ CameBySteps(g, s) /\ IsClear(g)
  BY DEF Finished, Sound
<1>2. PICK further \in Costs :
        /\ further = costs \cup UNION {{<<n, p[2] + StepCost(g, p[1], n)>> : n \in StepsFrom(g, p[1])} : p \in costs}
        /\ next = {p \in further : \A q \in further : q[1] = p[1] => p[2] <= q[2]}
        /\ next \in Costs
  BY <1>0, <1>1, FurtherIs
<1> HIDE DEF next
<1>3. ASSUME NEW r \in further
      PROVE  Bounded(s, r[1], r[2])
  <2>1. CASE r \in costs
    BY <1>0, <2>1
  <2>2. CASE r \notin costs
    <3>1. PICK p \in costs : \E n \in StepsFrom(g, p[1]) : r = <<n, p[2] + StepCost(g, p[1], n)>>
      BY <1>2, <2>2
    <3>2. PICK n \in StepsFrom(g, p[1]) : r = <<n, p[2] + StepCost(g, p[1], n)>>
      BY <3>1
    <3>3. PICK c \in Cells, v \in Nat : c = p[1] /\ v = p[2]
      BY <1>0, <3>1 DEF Costs
    <3>4. Bounded(s, c, v) /\ n \in StepsFrom(g, c)
      BY <1>0, <3>1, <3>2, <3>3
    <3>5. Bounded(s, n, v + StepCost(g, c, n))
      BY <3>4, StepIsBounded
    <3>6. PICK x : x = v + StepCost(g, c, n)
      OBVIOUS
    <3>7. r = <<n, x>> /\ <<n, x>>[1] = n /\ <<n, x>>[2] = x
      BY <3>2, <3>3, <3>6
    <3> QED  BY <3>5, <3>6, <3>7
  <2> QED  BY <2>1, <2>2
<1>4. \A p \in next : p \in further /\ Bounded(s, p[1], p[2])
  BY <1>2, <1>3
<1>5. \A p, r \in next : p[1] = r[1] => p[2] <= r[2]
  BY <1>2
<1>6. ASSUME NEW c \in s.closed, c = s.start \/ turn[c] <= k + 1
      PROVE  <<c, s.best[c]>> \in next
  <2>1. PICK b \in Nat : b = s.best[c]
    <3>1. c \in DOMAIN s.best
      BY <1>1 DEF CameBySteps
    <3> QED  BY <1>1, <3>1, PartsOf
  <2>2. <<c, b>> \in further
    <3>1. CASE c = s.start
      BY <1>0, <1>2, <2>1, <3>1
    <3>2. CASE c # s.start
      <4>1. PICK d : d = s.came[c]
        OBVIOUS
      <4>2. c \in DOMAIN s.came
        BY <1>1, <3>2 DEF CameBySteps
      <4>3. d \in s.closed /\ c \in StepsFrom(g, d) /\ s.best[c] = s.best[d] + StepCost(g, d, c)
        BY <1>1, <4>1, <4>2 DEF CameBySteps
      <4>4. turn[d] < turn[c] /\ turn[d] \in Nat /\ turn[c] \in Nat
        BY <3>2, <4>1, <4>3 DEF IsTurn
      <4>5. turn[d] <= k
        BY <1>6, <3>2, <4>4
      <4>6. PICK x : x = s.best[d]
        OBVIOUS
      <4>7. <<d, x>> \in costs /\ <<d, x>>[1] = d /\ <<d, x>>[2] = x
        BY <1>0, <4>3, <4>5, <4>6
      <4>8. <<c, b>> = <<c, x + StepCost(g, d, c)>>
        BY <2>1, <4>3, <4>6
      <4> QED  BY <1>2, <4>3, <4>7, <4>8
    <3> QED  BY <3>1, <3>2
  <2>3. ASSUME NEW q \in further, q[1] = c
        PROVE  b <= q[2]
    <3>1. q[2] \in Nat /\ Bounded(s, c, q[2])
      BY <1>3, <2>3 DEF Costs
    <3> QED  BY <2>1, <3>1, ClosedIsCheapest
  <2>4. <<c, b>>[1] = c /\ <<c, b>>[2] = b
    OBVIOUS
  <2> QED  BY <1>2, <2>1, <2>2, <2>3, <2>4
<1> QED  BY <1>2, <1>4, <1>5, <1>6 DEF AgreesUpTo, next

\* After as many rounds as there are cells the costs are what the search found.
LEMMA CostsAgree ==
  ASSUME NEW g, NEW s, Finished(g, s)
  PROVE  Agrees(s, CheapestFrom(g, s.start))
<1> DEFINE n == Cardinality(Cells)
<1>1. s \in Searches /\ IsClear(g) /\ CameBySteps(g, s)
  BY DEF Finished, Sound
<1>2. PICK turn : IsTurn(s, turn)
  BY DEF Finished, Sound
<1>3. s.start \in Cells /\ s.closed \subseteq Cells
  BY <1>1, PartsOf
<1>4. /\ n \in Nat /\ Cardinality(s.closed) \in Nat /\ Cardinality(s.closed) <= n
  BY <1>3, CellsAreFinite, FS_Subset, FS_CardinalityType
<1> HIDE DEF n
<1>5. PICK q : /\ q \in [0..n -> Costs] /\ q[0] = {<<s.start, 0>>} /\ q[n] = CheapestFrom(g, s.start)
               /\ \A i \in 0..(n - 1) : q[i + 1] = StepFurther(g, q[i])
  BY <1>1, <1>3, <1>4, CostsRun DEF n
<1> DEFINE T == {k \in Nat : AgreesUpTo(s, turn, k, q[k])}
<1>6. 0 \in T
  <2>1. s.start \in s.closed /\ s.best[s.start] = 0
    BY FinishedIs
  <2>2. Bounded(s, s.start, 0)
    BY StartIsBounded
  <2>3. <<s.start, 0>>[1] = s.start /\ <<s.start, 0>>[2] = 0
    OBVIOUS
  <2>4. \A p \in q[0] : Bounded(s, p[1], p[2])
    BY <1>5, <2>2, <2>3
  <2>5. \A p, r \in q[0] : p[1] = r[1] => p[2] <= r[2]
    BY <1>5, <2>3
  <2>6. ASSUME NEW c \in s.closed, c = s.start \/ turn[c] <= 0
        PROVE  <<c, s.best[c]>> \in q[0]
    <3>1. c = s.start
      <4>1. SUFFICES ASSUME c # s.start PROVE FALSE
        OBVIOUS
      <4>2. c \in DOMAIN s.came
        BY <1>1, <4>1 DEF CameBySteps
      <4>3. PICK d : d = s.came[c]
        OBVIOUS
      <4>4. d \in s.closed
        BY <1>1, <4>2, <4>3 DEF CameBySteps
      <4>5. turn[d] < turn[c] /\ turn[d] \in Nat /\ turn[c] \in Nat
        BY <1>2, <4>1, <4>3, <4>4 DEF IsTurn
      <4> QED  BY <2>6, <4>1, <4>5
    <3> QED  BY <1>5, <2>1, <3>1
  <2>7. q[0] \in Costs
    <3>1. <<s.start, 0>> \in Cells \X Nat
      BY <1>3
    <3> QED  BY <1>5, <3>1 DEF Costs
  <2> QED  BY <2>4, <2>5, <2>6, <2>7 DEF AgreesUpTo
<1>7. ASSUME NEW k \in 0..(n - 1), k \in T
      PROVE  k + 1 \in T
  <2>1. k \in Nat /\ AgreesUpTo(s, turn, k, q[k]) /\ q[k + 1] = StepFurther(g, q[k])
    BY <1>4, <1>5, <1>7
  <2> HIDE DEF T
  <2>2. AgreesUpTo(s, turn, k + 1, StepFurther(g, q[k]))
    BY <1>2, <2>1, RoundAgrees
  <2> QED  BY <2>1, <2>2 DEF T
<1> HIDE DEF T
<1>8. \A k \in 0..n : k \in T
  BY <1>4, <1>6, <1>7, UpTo
<1>9. AgreesUpTo(s, turn, n, CheapestFrom(g, s.start))
  <2>1. n \in T
    BY <1>4, <1>8
  <2> QED  BY <1>5, <2>1 DEF T
<1>10. \A c \in s.closed : turn[c] <= n
  <2>1. \A c \in s.closed : turn[c] \in Nat /\ turn[c] < Cardinality(s.closed)
    BY <1>2 DEF IsTurn
  <2> QED  BY <1>4, <2>1
<1> QED  BY <1>9, <1>10 DEF AgreesUpTo, Agrees

\* What it found is the best there is: the cheapest way to the goal where there
\* is one, and else everywhere a way leads and the nearest of it.
FoundTheBest(g, s) ==
  LET costs == CheapestFrom(g, s.start)
  IN  IF s.reached
      THEN /\ <<s.goal, s.best[s.goal]>> \in costs
           /\ LET cells == CellsTo(s, s.goal)
              IN  /\ Head(cells) = s.start
                  /\ \A i \in 2..Len(cells) : cells[i] \in StepsFrom(g, cells[i - 1])
      ELSE /\ costs = {<<c, s.best[c]>> : c \in s.closed}
           /\ s.goal \notin s.closed
           /\ \A c \in s.closed : Away(s.nearest, s.aim) <= Away(c, s.aim)

LEMMA FinishedIsBest ==
  ASSUME NEW g, NEW s, Finished(g, s)
  PROVE  FoundTheBest(g, s)
<1>1. s \in Searches /\ IsClear(g) /\ Sound(g, s) /\ KnowsNearest(s)
  BY DEF Finished, Sound
<1>2. Agrees(s, CheapestFrom(g, s.start))
  BY CostsAgree
<1>3. /\ s.start \in s.closed /\ s.closed \subseteq DOMAIN s.best /\ s.reached \in BOOLEAN
      /\ s.reached = TRUE <=> s.goal \in s.closed
      /\ s.closed \subseteq Cells /\ \A d \in DOMAIN s.best : s.best[d] \in Nat
  BY <1>1, PartsOf, FinishedIs
<1> DEFINE costs == CheapestFrom(g, s.start)
<1>4. CASE s.reached = TRUE
  <2>1. <<s.goal, s.best[s.goal]>> \in costs
    BY <1>2, <1>3, <1>4 DEF Agrees
  <2> HIDE DEF costs
  <2>2. PICK cells : cells = CellsTo(s, s.goal)
    OBVIOUS
  <2>3. /\ cells \in Seq(Cells) /\ Len(cells) >= 1 /\ cells[1] = s.start
        /\ \A i \in 2..Len(cells) : cells[i] \in StepsFrom(g, cells[i - 1])
    BY <1>1, <1>3, <1>4, <2>2, WayBackIs
  <2>4. Head(cells) = s.start
    BY <2>3
  <2> QED  BY <1>4, <2>1, <2>2, <2>3, <2>4 DEF FoundTheBest, costs
<1>5. CASE s.reached = FALSE
  <2>1. \A c \in s.closed : <<c, s.best[c]>> \in costs
    BY <1>2 DEF Agrees
  <2>2. costs \in Costs
    BY <1>2 DEF Agrees
  <2>3. \A p \in costs : Bounded(s, p[1], p[2])
    BY <1>2 DEF Agrees
  <2>4. \A p, r \in costs : p[1] = r[1] => p[2] <= r[2]
    BY <1>2 DEF Agrees
  <2> HIDE DEF costs
  <2>5. ASSUME NEW p \in costs
        PROVE  p \in {<<c, s.best[c]>> : c \in s.closed}
    <3>1. PICK c \in Cells, v \in Nat : p = <<c, v>> /\ p[1] = c /\ p[2] = v
      BY <2>2 DEF Costs
    <3>2. c \in s.closed /\ s.best[c] <= v
      BY <1>5, <2>3, <3>1 DEF Bounded
    <3>3. PICK b \in Nat : b = s.best[c]
      BY <1>3, <3>2
    <3>4. <<c, b>> \in costs /\ <<c, b>>[1] = c /\ <<c, b>>[2] = b
      BY <2>1, <3>2, <3>3
    <3>5. v <= b
      BY <2>4, <3>1, <3>4
    <3>6. v = b
      BY <3>2, <3>3, <3>5
    <3> QED  BY <3>1, <3>2, <3>3, <3>6
  <2>6. costs = {<<c, s.best[c]>> : c \in s.closed}
    BY <2>1, <2>5
  <2>7. s.goal \notin s.closed
    BY <1>3, <1>5
  <2>8. \A c \in s.closed : Away(s.nearest, s.aim) <= Away(c, s.aim)
    BY <1>1 DEF KnowsNearest
  <2> QED  BY <1>5, <2>6, <2>7, <2>8 DEF FoundTheBest, costs
<1> QED  BY <1>3, <1>4, <1>5

-----------------------------------------------------------------------------
(* From the grid to the plan.                                              *)

\* The grid keeps a clearance, and from the moment it is worked out till the
\* route is pulled it is the distance to what was shut then.
HasClearance == "clear" \in DOMAIN grid
Measured ==
  phase \in {"search", "pull"} =>
    \A c \in Cells \ {from} : grid.clear[c] = DistanceToSolid(walls, c)

\* Reading the ground changes what is known of it and nothing else of the grid.
LEMMA GroundKeepsParts ==
  ASSUME Ground
  PROVE  DOMAIN grid' = DOMAIN grid
<1>1. Seeded => DOMAIN grid' = DOMAIN grid
  BY DEF Seeded
<1>2. ReadRound(queue[queueAt]) => DOMAIN grid' = DOMAIN grid
  <2> DEFINE found == {n \in Untried(queue[queueAt]) : FloorNear(n, grid.ground[queue[queueAt]])}
  <2>1. ReadRound(queue[queueAt]) =>
          grid' = [grid EXCEPT !.known = @ \cup found,
                               !.ground = [n \in Cells |-> IF n \in found THEN picture.floor[n] ELSE @[n]]]
    BY DEF ReadRound
  <2> HIDE DEF found
  <2> QED  BY <2>1
<1> QED  BY <1>1, <1>2 DEF Ground

\* The clearance is the distance to what is shut, but for the cell he stands in.
LEMMA ClearanceGives ==
  ASSUME HasClearance, Clearance
  PROVE  \E far \in [Cells -> Nat] :
           /\ DOMAIN grid' = DOMAIN grid
           /\ grid'.clear = [far EXCEPT ![from] = Max({@, 3})]
           /\ \A c \in Cells : far[c] = DistanceToSolid(walls', c)
<1> DEFINE marked == MarkLedges(SmoothBetweenReadings(grid))
<1>1. grid' = Squeezed(Chamfer(marked)) /\ walls' = Cells \ Passable(marked)
  BY DEF Clearance
<1>2. DOMAIN marked = DOMAIN grid
  <2>1. DOMAIN SmoothBetweenReadings(grid) = DOMAIN grid
    BY DEF SmoothBetweenReadings
  <2>2. \A g : DOMAIN MarkLedges(g) = DOMAIN g
    BY DEF MarkLedges
  <2> QED  BY <2>1, <2>2
<1> HIDE DEF marked
<1>3. PICK far \in [Cells -> Nat] :
        /\ Chamfer(marked) = [marked EXCEPT !.clear = far]
        /\ \A c \in Cells : far[c] = DistanceToSolid(Cells \ Passable(marked), c)
  BY ChamferMeasures
<1>4. DOMAIN Chamfer(marked) = DOMAIN grid /\ Chamfer(marked).clear = far
  BY <1>2, <1>3 DEF HasClearance
<1>5. \A g : "clear" \in DOMAIN g =>
        /\ DOMAIN Squeezed(g) = DOMAIN g
        /\ Squeezed(g).clear = [g.clear EXCEPT ![from] = Max({@, 3})]
  BY DEF Squeezed
<1>6. DOMAIN grid' = DOMAIN grid /\ grid'.clear = [far EXCEPT ![from] = Max({@, 3})]
  BY <1>1, <1>4, <1>5 DEF HasClearance
<1> QED  BY <1>1, <1>3, <1>6

\* Only the clearance's own unit brings the search on, and nothing touches the
\* grid, the walls or where he stands before the route is pulled.
LEMMA MeasuredStep == HasClearance /\ Measured /\ [Next]_vars => HasClearance' /\ Measured'
<1> SUFFICES ASSUME HasClearance, Measured, [Next]_vars PROVE HasClearance' /\ Measured'
  OBVIOUS
<1> USE DEF world, journey, reading
<1>1. ASSUME UNCHANGED grid, phase' \notin {"search", "pull"}
      PROVE  HasClearance' /\ Measured'
  BY <1>1 DEF HasClearance, Measured
<1>2. ASSUME UNCHANGED <<grid, walls, from>>, phase' \in {"search", "pull"} => phase \in {"search", "pull"}
      PROVE  HasClearance' /\ Measured'
  BY <1>2 DEF HasClearance, Measured
<1>3. CASE Start
  <2>1. "clear" \in DOMAIN NoGrid
    BY DEF NoGrid
  <2>2. grid' = [NoGrid EXCEPT !.ground = [c \in Cells |-> grid.ground[from]]] /\ phase' = "layout"
    BY <1>3 DEF Start
  <2>3. DOMAIN grid' = DOMAIN NoGrid
    BY <2>2
  <2> QED  BY <2>1, <2>2, <2>3 DEF HasClearance, Measured
<1>4. CASE Layout
  BY <1>1, <1>4 DEF Layout, Finish
<1>5. CASE Ground
  <2>1. phase' \in {"ground", "paint"}
    BY <1>5 DEF Ground
  <2>2. DOMAIN grid' = DOMAIN grid
    BY <1>5, GroundKeepsParts
  <2> QED  BY <2>1, <2>2 DEF HasClearance, Measured
<1>6. CASE Paint
  <2>1. phase' \in {"paint", "clearance"}
    BY <1>6 DEF Paint
  <2>2. DOMAIN grid' = DOMAIN grid
    BY <1>6 DEF Paint
  <2> QED  BY <2>1, <2>2 DEF HasClearance, Measured
<1>7. CASE Clearance
  <2>1. PICK far \in [Cells -> Nat] :
          /\ DOMAIN grid' = DOMAIN grid
          /\ grid'.clear = [far EXCEPT ![from] = Max({@, 3})]
          /\ \A c \in Cells : far[c] = DistanceToSolid(walls', c)
    BY <1>7, ClearanceGives
  <2>2. from' = from
    BY <1>7 DEF Clearance
  <2> QED  BY <2>1, <2>2 DEF HasClearance, Measured
<1>8. CASE Search
  BY <1>2, <1>8 DEF Search
<1>9. CASE PullTight
  BY <1>1, <1>9 DEF PullTight, Finish
<1>10. CASE Return
  BY <1>1, <1>10 DEF Return
<1>11. CASE Walk
  BY <1>1, <1>11 DEF Walk
<1>12. CASE UNCHANGED vars
  BY <1>2, <1>12 DEF vars
<1> QED
  BY <1>3, <1>4, <1>5, <1>6, <1>7, <1>8, <1>9, <1>10, <1>11, <1>12 DEF Next

\* Two passes over the cells give every cell its distance to the nearest thing
\* that is shut, or to the edge, whatever the size of the box, what stands in
\* it and how he got there (grid.cpp Chamfer).
THEOREM ClearanceIsMeasured == Spec => []ClearanceIsTheDistance
<1>1. Init => HasClearance /\ Measured
  BY DEF Init, NoGrid, HasClearance, Measured
<1>2. Measured => ClearanceIsTheDistance
  BY DEF Measured, ClearanceIsTheDistance
<1> QED  BY <1>1, <1>2, MeasuredStep, PTL DEF Spec

-----------------------------------------------------------------------------
(* Where the stage ends (Field).                                           *)

\* Where he stands and may be going, and the way he was exploring.
Placed ==
  /\ from \in Cells /\ to \in Targets /\ end \in Cells
  /\ way \in Int \X Int /\ Near(<<0, 0>>, way)

\* The search is his, from where he stands to where he is going.
Searched(s) ==
  s \in Searches /\ s.closed \subseteq DOMAIN s.best /\ s.start = from /\ s.aim = to

LEMMA FirstIsOne ==
  ASSUME NEW S \in SUBSET Cells, S # {}
  PROVE  FirstOf(S) \in S
<1> DEFINE f == [c \in S |-> Index(c)]
<1>1. f \in [S -> Int]
  <2>1. \A c \in S : Index(c) \in Int
    BY CellIsAPair DEF Index
  <2> QED  BY <2>1
<1>2. \E x \in S : \A y \in S : f[x] <= f[y]
  <2> HIDE DEF f
  <2> QED  BY <1>1, LeastCell
<1>3. \E x \in S : \A y \in S : Index(x) <= Index(y)
  BY <1>2
<1> QED  BY <1>3 DEF FirstOf

LEMMA NearestToTarget ==
  ASSUME NEW S \in SUBSET Cells, S # {}, Placed
  PROVE  /\ {c \in S : \A d \in S : Away(c, to) <= Away(d, to)} # {}
         /\ FirstOf({c \in S : \A d \in S : Away(c, to) <= Away(d, to)}) \in S
<1> DEFINE f == [c \in S |-> Away(c, to)]
           T == {c \in S : \A d \in S : Away(c, to) <= Away(d, to)}
<1>1. f \in [S -> Int]
  <2>1. \A c \in S : Away(c, to) \in Int
    BY AwayIsWhole DEF Placed
  <2> QED  BY <2>1
<1>2. \E x \in S : \A y \in S : f[x] <= f[y]
  <2> HIDE DEF f
  <2> QED  BY <1>1, LeastCell
<1>3. T # {} /\ T \in SUBSET Cells /\ T \subseteq S
  BY <1>2
<1> HIDE DEF T
<1>4. FirstOf(T) \in T
  BY <1>3, FirstIsOne
<1> QED  BY <1>3, <1>4 DEF T

\* What he can walk to is some way off.
LEMMA WalkableIs ==
  ASSUME Placed, Searched(search)
  PROVE  /\ Walkable \subseteq search.closed /\ Walkable \subseteq Cells
         /\ \A c \in Walkable : Cost(search, c) \in Int /\ Away(c, from) \in Int /\ Away(c, from) >= kExploreLeast
<1>1. search.closed \subseteq Cells
  BY PartsOf DEF Searched
<1>2. Walkable \subseteq search.closed /\ \A c \in Walkable : Cost(search, c) > 0 /\ Away(c, from) >= kExploreLeast
  BY DEF Walkable
<1>3. \A c \in Walkable : Away(c, from) \in Int
  BY <1>1, <1>2, AwayIsWhole DEF Placed
<1>4. \A c \in Walkable : Cost(search, c) \in Int
  <2> SUFFICES ASSUME NEW c \in Walkable PROVE Cost(search, c) \in Int
    OBVIOUS
  <2>1. c \in search.closed /\ c \in DOMAIN search.best
    BY <1>2 DEF Searched
  <2>2. search.best[c] \in Int
    BY <2>1, PartsOf DEF Searched
  <2> QED  BY <2>1, <2>2 DEF Cost
<1> QED  BY <1>1, <1>2, <1>3, <1>4

\* A cell has a score, whichever way he was going.
LEMMA ScoreIs ==
  ASSUME Placed, Searched(search), NEW c \in Walkable
  PROVE  Score(c) \in Int
<1>1. /\ c \in Cells /\ Cost(search, c) \in Int
      /\ Away(c, from) \in Int /\ Away(c, from) >= kExploreLeast
  BY WalkableIs
<1>2. PICK x, y \in Int : way = <<x, y>> /\ way[1] = x /\ way[2] = y
  BY DEF Placed
<1>3. PICK k \in Int : k = Cost(search, c)
  BY <1>1
<1>4. CASE way = <<0, 0>>
  BY <1>3, <1>4 DEF Score
<1>5. CASE way # <<0, 0>>
  <2>1. PICK p, q \in Nat : /\ p = Gap(<<0, 0>>[1], way[1]) /\ q = Gap(<<0, 0>>[2], way[2])
                            /\ IsRoot(Away(<<0, 0>>, way), p * p + q * q)
    <3>1. <<0, 0>> \in Int \X Int /\ way \in Int \X Int /\ Near(<<0, 0>>, way)
      BY DEF Placed
    <3> QED  BY <3>1, AwayIs
  <2>2. p = Gap(0, x) /\ q = Gap(0, y) /\ (x # 0 \/ y # 0)
    BY <1>2, <1>5, <2>1
  <2>3. p >= 1 \/ q >= 1
    BY <2>2 DEF Gap
  <2>4. p * p + q * q >= 1
    <3>1. p * p \in Nat /\ q * q \in Nat
      OBVIOUS
    <3>2. p >= 1 => p * p >= 1
      OBVIOUS
    <3>3. q >= 1 => q * q >= 1
      OBVIOUS
    <3> QED  BY <2>3, <3>1, <3>2, <3>3
  <2>5. PICK r \in Nat : r = Away(<<0, 0>>, way) /\ IsRoot(r, p * p + q * q)
    BY <2>1 DEF IsRoot
  <2>6. r # 0
    BY <2>4, <2>5 DEF IsRoot
  <2>7. PICK a \in Nat : a = Away(c, from) /\ a # 0
    BY <1>1, FieldAssumption DEF FieldAssumption
  <2>8. a * r \in Nat \ {0}
    BY <2>5, <2>6, <2>7
  <2>9. PICK m \in Int : m = ((c[1] - from[1]) * way[1] + (c[2] - from[2]) * way[2]) * 1000000
    <3>1. /\ c[1] \in Int /\ c[2] \in Int /\ from[1] \in Int /\ from[2] \in Int
      BY <1>1, CellIsAPair DEF Placed
    <3>2. PICK dx, dy \in Int : dx = c[1] - from[1] /\ dy = c[2] - from[2]
      BY <3>1
    <3>3. (dx * x + dy * y) * 1000000 \in Int
      OBVIOUS
    <3> QED  BY <1>2, <3>2, <3>3
  <2>10. m \div (a * r) \in Int
    BY <2>8, <2>9
  <2>11. Along(c) = m \div (a * r)
    BY <2>5, <2>7, <2>9 DEF Along
  <2>12. PICK v \in Int : v = Along(c)
    BY <2>10, <2>11
  <2>13. Score(c) = k * (200 + v)
    BY <1>3, <1>5, <2>12 DEF Score
  <2> QED  BY <2>13
<1> QED  BY <1>4, <1>5

LEMMA ExploringEndsAre ==
  ASSUME Placed, Searched(search)
  PROVE  ExploringEnds \subseteq Walkable /\ (ExploringEnds = {} => Walkable = {})
<1> DEFINE ahead == {c \in Walkable : ~Been(c, kExploredKeepOut) /\ (way # <<0, 0>> => Along(c) >= 0)}
<1>1. Walkable \in SUBSET Cells /\ \A c \in Walkable : Cost(search, c) \in Int
  BY WalkableIs
<1>2. ahead \subseteq Walkable
  OBVIOUS
<1>3. ExploringEnds = IF ahead # {} THEN {c \in ahead : \A d \in ahead : Score(c) >= Score(d)}
                      ELSE {c \in Walkable : \A d \in Walkable : Cost(search, c) >= Cost(search, d)}
  BY DEF ExploringEnds
<1> HIDE DEF ahead
<1>4. ASSUME ahead # {}
      PROVE  \E c \in ahead : \A d \in ahead : Score(c) >= Score(d)
  <2> DEFINE f == [c \in ahead |-> Score(c)]
  <2>1. f \in [ahead -> Int]
    <3>1. \A c \in ahead : Score(c) \in Int
      BY <1>2, ScoreIs
    <3> QED  BY <3>1
  <2>2. \E x \in ahead : \A y \in ahead : f[y] <= f[x]
    <3> HIDE DEF f
    <3> QED  BY <1>1, <1>2, <1>4, <2>1, GreatestCell
  <2>3. PICK x \in ahead : \A y \in ahead : f[y] <= f[x]
    BY <2>2
  <2>4. \A y \in ahead : Score(y) \in Int /\ Score(y) <= Score(x)
    BY <1>2, <2>3, ScoreIs
  <2> QED  BY <2>4
<1>5. ASSUME Walkable # {}
      PROVE  \E c \in Walkable : \A d \in Walkable : Cost(search, c) >= Cost(search, d)
  <2> DEFINE f == [c \in Walkable |-> Cost(search, c)]
  <2>1. f \in [Walkable -> Int]
    BY <1>1
  <2>2. \E x \in Walkable : \A y \in Walkable : f[y] <= f[x]
    <3> HIDE DEF f
    <3> QED  BY <1>1, <1>5, <2>1, GreatestCell
  <2>3. PICK x \in Walkable : \A y \in Walkable : f[y] <= f[x]
    BY <2>2
  <2>4. \A y \in Walkable : Cost(search, y) \in Int /\ Cost(search, y) <= Cost(search, x)
    BY <1>1, <2>3
  <2> QED  BY <2>4
<1>6. CASE ahead # {}
  BY <1>2, <1>3, <1>4, <1>6
<1>7. CASE ahead = {}
  BY <1>3, <1>5, <1>7
<1> QED  BY <1>6, <1>7

\* The greater and the lesser of two.
LEMMA OfTwo ==
  ASSUME NEW a \in Int, NEW b \in Int
  PROVE  /\ Max({a, b}) = IF a < b THEN b ELSE a
         /\ Min({a, b}) = IF a < b THEN a ELSE b
<1>1. PICK x \in {a, b} : x = (IF a < b THEN b ELSE a) /\ \A y \in {a, b} : x >= y
  OBVIOUS
<1>2. PICK z \in {a, b} : z = (IF a < b THEN a ELSE b) /\ \A y \in {a, b} : z <= y
  OBVIOUS
<1>3. Max({a, b}) \in {a, b} /\ \A y \in {a, b} : Max({a, b}) >= y
  BY <1>1 DEF Max
<1>4. Min({a, b}) \in {a, b} /\ \A y \in {a, b} : Min({a, b}) <= y
  BY <1>2 DEF Min
<1> QED  BY <1>3, <1>4

LEMMA ClampIs ==
  ASSUME NEW n \in Int, NEW side \in Nat \ {0}
  PROVE  Clamp(n, side) \in 0..(side - 1)
<1>1. PICK m \in Int : m = Min({n, side - 1}) /\ m <= side - 1
  <2>1. PICK k \in Int : k = side - 1
    OBVIOUS
  <2>2. Min({n, k}) = IF n < k THEN n ELSE k
    BY OfTwo
  <2> QED  BY <2>1, <2>2
<1>2. Max({0, m}) \in 0..(side - 1)
  BY <1>1, OfTwo
<1> QED  BY <1>1, <1>2 DEF Clamp

LEMMA GoalIsACell ==
  ASSUME Placed
  PROVE  <<Clamp(to[1], W), Clamp(to[2], H)>> \in Cells
<1>1. to[1] \in Int /\ to[2] \in Int
  BY ReachAssumption DEF Placed, ReachAssumption
<1>2. W \in Nat \ {0} /\ H \in Nat \ {0}
  BY GridAssumption DEF GridAssumption
<1>3. Clamp(to[1], W) \in 0..(W - 1) /\ Clamp(to[2], H) \in 0..(H - 1)
  BY <1>1, <1>2, ClampIs
<1> QED  BY <1>3 DEF Cells

-----------------------------------------------------------------------------
(* From the search to the end of the stage.                                *)

\* The stage ends nearer the target, or well off, or nowhere else could be got to.
EndsWell ==
  ~search.reached =>
    \/ Away(end, to) <= Away(from, to) - kProgressWanted
    \/ result.exploring /\ Away(end, from) >= kExploreLeast
    \/ Walkable = {}

Searching ==
  /\ IsClear(grid) /\ Sound(grid, search) /\ search.start = from /\ search.aim = to

LEMMA SearchIsHis ==
  ASSUME Searching
  PROVE  Searched(search) /\ search.reached \in BOOLEAN /\ search.goal \in Cells /\ search.nearest \in Cells
<1>1. search \in Searches /\ CameBySteps(grid, search)
  BY DEF Searching, Sound
<1> QED  BY <1>1, PartsOf DEF Searched, Searching, CameBySteps

\* The unit that picks the end: nearer the target, or far off, unless there is
\* nowhere to go.
LEMMA EndIsPicked ==
  ASSUME Placed, Searching, search.done = TRUE, Search, DOMAIN result = DOMAIN NoResult
  PROVE  /\ end' \in Cells /\ EndsWell' /\ DOMAIN result' = DOMAIN NoResult
         /\ phase' = "pull" /\ search' = search
<1>1. /\ Searched(search) /\ search.reached \in BOOLEAN /\ search.goal \in Cells
      /\ search.nearest \in Cells
  BY SearchIsHis
<1>2. /\ phase' = "pull" /\ search' = search /\ from' = from /\ to' = to
      /\ IF search.reached THEN end' = search.goal /\ UNCHANGED result
         ELSE IF Gained >= kProgressWanted THEN end' = StageEnd /\ UNCHANGED result
         ELSE IF ExploringEnds = {} THEN end' = SearchEnd(search) /\ UNCHANGED result
         ELSE /\ end' = FirstOf(ExploringEnds)
              /\ result' = [result EXCEPT !.exploring = TRUE]
  BY DEF Search, world, journey
<1>3. Walkable \in SUBSET Cells /\ \A c \in Walkable : Away(c, from) \in Int /\ Away(c, from) >= kExploreLeast
  BY <1>1, WalkableIs
<1>4. /\ Away(from, to) \in Int /\ Away(search.nearest, to) \in Int
      /\ kProgressWanted \in Int /\ \A c \in Cells : Away(c, to) \in Int
  BY <1>1, AwayIsWhole, FieldAssumption DEF Placed, FieldAssumption
<1>5. Walkable' = Walkable
  BY <1>2 DEF Walkable
<1>6. CASE search.reached = TRUE
  BY <1>1, <1>2, <1>6 DEF EndsWell
<1>7. CASE search.reached = FALSE /\ Gained >= kProgressWanted
  <2>1. end' = StageEnd /\ result' = result
    BY <1>2, <1>7
  <2>2. StageEnd \in Cells /\ Away(StageEnd, to) <= Away(from, to) - kProgressWanted
    <3> DEFINE fresh == {c \in Walkable : ~Been(c, kStageKeepOut)}
               first == FirstOf({c \in fresh : \A d \in fresh : Away(c, to) <= Away(d, to)})
    <3>1. StageEnd = IF explored # <<>> /\ fresh # {} /\ Away(first, to) < Away(from, to) - kProgressWanted
                     THEN first ELSE SearchEnd(search)
      BY DEF StageEnd
    <3>2. fresh \in SUBSET Cells
      BY <1>3
    <3>3. fresh # {} => first \in fresh
      <4> HIDE DEF fresh
      <4> QED  BY <3>2, NearestToTarget
    <3>4. SearchEnd(search) = search.nearest
      BY <1>7 DEF SearchEnd
    <3> HIDE DEF fresh, first
    <3>5. CASE explored # <<>> /\ fresh # {} /\ Away(first, to) < Away(from, to) - kProgressWanted
      <4>1. StageEnd = first /\ first \in Cells
        BY <3>1, <3>2, <3>3, <3>5
      <4> QED  BY <1>4, <3>5, <4>1
    <3>6. CASE ~(explored # <<>> /\ fresh # {} /\ Away(first, to) < Away(from, to) - kProgressWanted)
      <4>1. StageEnd = search.nearest
        BY <3>1, <3>4, <3>6
      <4> QED  BY <1>1, <1>4, <1>7, <4>1 DEF Gained
    <3> QED  BY <3>5, <3>6
  <2> QED  BY <1>2, <2>1, <2>2 DEF EndsWell
<1>8. CASE search.reached = FALSE /\ ~(Gained >= kProgressWanted) /\ ExploringEnds = {}
  <2>1. Walkable = {}
    BY <1>1, <1>8, ExploringEndsAre
  <2>2. end' = search.nearest /\ result' = result
    BY <1>2, <1>8 DEF SearchEnd
  <2> QED  BY <1>1, <1>2, <1>5, <2>1, <2>2 DEF EndsWell
<1>9. CASE search.reached = FALSE /\ ~(Gained >= kProgressWanted) /\ ExploringEnds # {}
  <2>1. end' = FirstOf(ExploringEnds) /\ result' = [result EXCEPT !.exploring = TRUE]
    BY <1>2, <1>9
  <2>2. ExploringEnds \subseteq Walkable
    BY <1>1, ExploringEndsAre
  <2>3. FirstOf(ExploringEnds) \in ExploringEnds
    BY <1>3, <1>9, <2>2, FirstIsOne
  <2>4. end' \in Cells /\ Away(end', from) >= kExploreLeast
    BY <1>3, <2>1, <2>2, <2>3
  <2>5. result'.exploring = TRUE /\ DOMAIN result' = DOMAIN NoResult
    <3>1. "exploring" \in DOMAIN NoResult
      BY DEF NoResult
    <3> QED  BY <2>1, <3>1
  <2> QED  BY <1>2, <2>4, <2>5 DEF EndsWell
<1> QED  BY <1>1, <1>6, <1>7, <1>8, <1>9

\* What holds all along: the grid keeps a clearance and the result its parts,
\* the search is sound while there is one, and the end is picked when it is over.
Going ==
  /\ Placed /\ HasClearance /\ DOMAIN result = DOMAIN NoResult
  /\ phase = "layout" => ~result.ok
  /\ phase \in {"search", "pull"} => Searching
  /\ phase = "pull" => search.done = TRUE /\ EndsWell
  /\ phase = "done" /\ result.ok => EndsWell

\* The way to where a stage ends is no longer than the box.
LEMMA WalkedWayIsNear ==
  ASSUME Placed
  PROVE  LET gone == <<end[1] - from[1], end[2] - from[2]>>
         IN  gone \in Int \X Int /\ Near(<<0, 0>>, gone)
<1>1. PICK x, y \in Nat : x = from[1] /\ y = from[2] /\ x < W /\ y < H
  BY CellIsAPair DEF Placed
<1>2. PICK u, v \in Nat : u = end[1] /\ v = end[2] /\ u < W /\ v < H
  BY CellIsAPair DEF Placed
<1>3. W <= Reach /\ H <= Reach /\ W \in Nat /\ H \in Nat /\ Reach \in Nat
  BY GridAssumption, ReachAssumption DEF GridAssumption, ReachAssumption
<1>4. PICK p, q \in Int : p = end[1] - from[1] /\ q = end[2] - from[2] /\ p = u - x /\ q = v - y
  BY <1>1, <1>2
<1>5. <<p, q>>[1] = p /\ <<p, q>>[2] = q /\ <<0, 0>>[1] = 0 /\ <<0, 0>>[2] = 0
  OBVIOUS
<1>6. Gap(0, p) <= Reach /\ Gap(0, q) <= Reach
  BY <1>1, <1>2, <1>3, <1>4 DEF Gap
<1> QED  BY <1>4, <1>5, <1>6 DEF Near

\* The grid is ready when the search begins.
LEMMA ClearanceKeeps == Going /\ Clearance => Going'
<1> SUFFICES ASSUME Going, Clearance PROVE Going'
  OBVIOUS
<1> DEFINE goal == <<Clamp(to[1], W), Clamp(to[2], H)>>
<1>1. /\ search' = StartSearch(from, goal, to) /\ phase' = "search"
      /\ from' = from /\ to' = to /\ way' = way /\ end' = end /\ result' = result
  BY DEF Clearance, world, journey
<1>2. PICK far \in [Cells -> Nat] :
        DOMAIN grid' = DOMAIN grid /\ grid'.clear = [far EXCEPT ![from] = Max({@, 3})]
  BY ClearanceGives DEF Going
<1>3. from \in Cells /\ to \in Targets
  BY DEF Going, Placed
<1>4. IsClear(grid')
  <2>1. PICK k \in Nat : k = far[from]
    BY <1>3
  <2>2. Max({k, 3}) \in Nat
    BY OfTwo
  <2> QED  BY <1>2, <2>1, <2>2 DEF IsClear
<1>5. goal \in Cells
  BY GoalIsACell DEF Going
<1> HIDE DEF goal
<1>6. Sound(grid', search') /\ search'.start = from /\ search'.aim = to
  BY <1>1, <1>3, <1>5, StartIsSound DEF StartSearch
<1>7. Searching'
  BY <1>1, <1>4, <1>6 DEF Searching
<1> QED  BY <1>1, <1>2, <1>7 DEF Going, Placed, HasClearance

LEMMA SearchKeeps == Going /\ Search => Going'
<1> SUFFICES ASSUME Going, Search PROVE Going'
  OBVIOUS
<1>1. /\ phase = "search" /\ grid' = grid /\ from' = from /\ to' = to /\ way' = way
      /\ Searching /\ Placed /\ HasClearance /\ DOMAIN result = DOMAIN NoResult
  BY DEF Going, Search, world, journey
<1>2. search.done \in BOOLEAN /\ IsClear(grid) /\ Sound(grid, search)
  BY <1>1, PartsOf DEF Searching, Sound
<1>3. CASE search.done = FALSE
  <2>1. PICK top \in Tops(search) : search' = Expand(grid, search, top)
    BY <1>3 DEF Search
  <2>2. phase' = "search" /\ end' = end /\ result' = result
    BY <1>1, <1>3 DEF Search
  <2>3. /\ Sound(grid, search') /\ search'.start = search.start /\ search'.aim = search.aim
    BY <1>2, <1>3, <2>1, ExpandKeeps
  <2>4. Searching'
    BY <1>1, <2>3 DEF Searching
  <2> QED  BY <1>1, <2>2, <2>4 DEF Going, Placed, HasClearance
<1>4. CASE search.done = TRUE
  <2>1. /\ end' \in Cells /\ EndsWell' /\ DOMAIN result' = DOMAIN NoResult
        /\ phase' = "pull" /\ search' = search
    BY <1>1, <1>4, EndIsPicked
  <2>2. Searching'
    BY <1>1, <2>1 DEF Searching
  <2> QED  BY <1>1, <1>4, <2>1, <2>2 DEF Going, Placed, HasClearance
<1> QED  BY <1>2, <1>3, <1>4

LEMMA PullKeeps == Going /\ PullTight => Going'
<1> SUFFICES ASSUME Going, PullTight PROVE Going'
  OBVIOUS
<1>1. /\ phase = "pull" /\ result' = Pulled /\ phase' = "done" /\ grid' = grid /\ search' = search
      /\ from' = from /\ to' = to /\ way' = way /\ end' = end
      /\ Placed /\ HasClearance /\ EndsWell /\ DOMAIN result = DOMAIN NoResult
  BY DEF Going, PullTight, Finish, world, journey
<1>2. DOMAIN Pulled = DOMAIN result /\ Pulled.exploring = result.exploring
  <2>1. "exploring" \in DOMAIN result
    BY <1>1 DEF NoResult
  <2>3. \A r, x, y : \A told : told = [[r EXCEPT !.reaches = x] EXCEPT !.short = y] =>
          DOMAIN told = DOMAIN r /\ ("exploring" \in DOMAIN r => told.exploring = r.exploring)
    OBVIOUS
  <2>4. \A r, x : LET told == [r EXCEPT !.why = x]
                  IN  DOMAIN told = DOMAIN r /\ ("exploring" \in DOMAIN r => told.exploring = r.exploring)
    OBVIOUS
  <2>5. \A r, x : LET told == [r EXCEPT !.ok = TRUE, !.points = x]
                  IN  DOMAIN told = DOMAIN r /\ ("exploring" \in DOMAIN r => told.exploring = r.exploring)
    OBVIOUS
  <2> QED  BY <2>1, <2>3, <2>4, <2>5 DEF Pulled
<1>3. EndsWell'
  BY <1>1, <1>2 DEF EndsWell, Walkable, Cost
<1> QED  BY <1>1, <1>2, <1>3 DEF Going, Placed, HasClearance

\* Every other unit leaves the search and its end alone, and a stage walked is
\* where the next begins.
LEMMA GoingKeeps == Going /\ [Next]_vars => Going'
<1> SUFFICES ASSUME Going, [Next]_vars PROVE Going'
  OBVIOUS
<1> USE DEF world, journey, reading
<1>1. ASSUME UNCHANGED <<from, to, end, way, result>>, DOMAIN grid' = DOMAIN grid,
             phase' \in {"ground", "paint", "clearance"}
      PROVE  Going'
  BY <1>1 DEF Going, Placed, HasClearance
<1>2. CASE Start
  <2>1. "clear" \in DOMAIN NoGrid /\ NoResult.ok = FALSE
    BY DEF NoGrid, NoResult
  <2>2. /\ grid' = [NoGrid EXCEPT !.ground = [c \in Cells |-> grid.ground[from]]]
        /\ phase' = "layout" /\ result' = NoResult /\ end' = from
        /\ from' = from /\ to' = to /\ way' = way
    BY <1>2 DEF Start
  <2>3. DOMAIN grid' = DOMAIN NoGrid
    BY <2>2
  <2> QED  BY <2>1, <2>2, <2>3 DEF Going, Placed, HasClearance
<1>3. CASE Layout
  <2>1. /\ phase = "layout" /\ UNCHANGED <<from, to, end, way, grid>>
        /\ \/ phase' = "done" /\ result' = [result EXCEPT !.why = "the world does not read"]
           \/ phase' = "ground" /\ result' = result
    BY <1>3 DEF Layout, Finish
  <2>2. CASE phase' = "done" /\ result' = [result EXCEPT !.why = "the world does not read"]
    <3>1. "ok" \in DOMAIN result
      BY DEF Going, NoResult
    <3>2. DOMAIN result' = DOMAIN result /\ result'.ok = result.ok
      BY <2>2, <3>1
    <3>3. ~result'.ok
      BY <2>1, <3>2 DEF Going
    <3> QED  BY <2>1, <2>2, <3>2, <3>3 DEF Going, Placed, HasClearance
  <2> QED  BY <1>1, <2>1, <2>2
<1>4. CASE Ground
  <2>1. phase' \in {"ground", "paint"} /\ UNCHANGED <<from, to, end, way, result>>
    BY <1>4 DEF Ground
  <2>2. DOMAIN grid' = DOMAIN grid
    BY <1>4, GroundKeepsParts
  <2> QED  BY <1>1, <2>1, <2>2
<1>5. CASE Paint
  <2>1. phase' \in {"paint", "clearance"} /\ DOMAIN grid' = DOMAIN grid
        /\ UNCHANGED <<from, to, end, way, result>>
    BY <1>5 DEF Paint
  <2> QED  BY <1>1, <2>1
<1>6. CASE Clearance
  BY <1>6, ClearanceKeeps
<1>7. CASE Search
  BY <1>7, SearchKeeps
<1>8. CASE PullTight
  BY <1>8, PullKeeps
<1>9. CASE Return
  <2>1. phase = "done" /\ UNCHANGED <<from, to, end, way, result, grid, search, phase>>
    BY <1>9 DEF Return
  <2> QED  BY <2>1 DEF Going, Placed, HasClearance, EndsWell, Walkable, Cost
<1>10. CASE Walk
  <2>1. /\ phase' = "none" /\ from' = end /\ way' = <<end[1] - from[1], end[2] - from[2]>>
        /\ UNCHANGED <<to, end, result, grid>>
    BY <1>10 DEF Walk, RememberExplored
  <2>2. Placed
    BY DEF Going
  <2>3. way' \in Int \X Int /\ Near(<<0, 0>>, way')
    BY <2>1, <2>2, WalkedWayIsNear
  <2>4. Placed'
    BY <2>1, <2>2, <2>3 DEF Placed
  <2> QED  BY <2>1, <2>4 DEF Going, HasClearance
<1>11. CASE UNCHANGED vars
  <2>1. UNCHANGED <<from, to, end, way, result, grid, search, phase>>
    BY <1>11 DEF vars
  <2> QED  BY <2>1 DEF Going, Placed, HasClearance, Searching, EndsWell, Walkable, Cost
<1> QED
  BY <1>2, <1>3, <1>4, <1>5, <1>6, <1>7, <1>8, <1>9, <1>10, <1>11 DEF Next

LEMMA GoingInit == Init => Going
<1> SUFFICES ASSUME Init PROVE Going
  OBVIOUS
<1>1. /\ from \in Cells /\ to \in Targets /\ end = from /\ way = <<0, 0>> /\ grid = NoGrid
      /\ result = NoResult /\ phase = "none"
  BY FieldAssumption DEF Init, FieldAssumption
<1>2. way \in Int \X Int /\ way[1] = 0 /\ way[2] = 0
  BY <1>1
<1>3. Reach \in Nat
  BY GridAssumption DEF GridAssumption
<1>4. Near(<<0, 0>>, way)
  BY <1>2, <1>3 DEF Near, Gap
<1>5. HasClearance
  BY <1>1 DEF HasClearance, NoGrid
<1> QED  BY <1>1, <1>2, <1>4, <1>5 DEF Going, Placed

\* Over, the search is finished and has found the best there is.
LEMMA GoingFinds == Going => SearchFindsTheBest
<1> SUFFICES ASSUME Going, phase = "pull" PROVE SearchFindsTheBest
  BY DEF SearchFindsTheBest
<1>1. /\ IsClear(grid) /\ Sound(grid, search) /\ search.done = TRUE
      /\ search.start = from /\ search.aim = to
  BY DEF Going, Searching
<1>2. FoundTheBest(grid, search)
  BY <1>1, FinishedIsBest DEF Finished
<1> QED  BY <1>1, <1>2 DEF FoundTheBest, SearchFindsTheBest

\* The search gets to the target's cell exactly when steps a body can take lead
\* there, and then by a cheapest way; and where it does not, it has been
\* everywhere he can walk and knows the nearest of it - whatever the box, what
\* stands in it, and which of the cheapest the heap gives up (grid.cpp
\* Searcher::Step).
THEOREM SearchIsBest == Spec => []SearchFindsTheBest
<1> QED  BY GoingInit, GoingKeeps, GoingFinds, PTL DEF Spec

\* A stage that ends short of the target is nearer it than where he stands, or
\* it explores and ends well away from there, unless there was nowhere he could
\* walk to (field.cpp kSearch).
THEOREM StageIsWorthIt == Spec => []StageGetsSomewhere
<1>1. Going => StageGetsSomewhere
  BY DEF Going, EndsWell, StageGetsSomewhere
<1> QED  BY <1>1, GoingInit, GoingKeeps, PTL DEF Spec

-----------------------------------------------------------------------------
(* The journey.                                                            *)

\* They have their types at the start.
LEMMA TypeInit == J!Bounds /\ J!Init => J!TypeOK
<1> SUFFICES ASSUME J!Bounds, J!Init PROVE J!TypeOK
  OBVIOUS
<1>1. J!Flags  BY Zenon DEF J!Init, J!Flags
<1>2. J!Words  BY DEF J!Init, J!Words, J!Reasons
<1>3. J!Numbers  BY DEF J!Bounds, J!Init, J!Numbers
<1> QED  BY <1>1, <1>2, <1>3 DEF J!TypeOK

\* No step gives a flag another value.
LEMMA FlagsStep == J!Bounds /\ J!Flags /\ [J!Next]_(J!vars) => J!Flags'
<1> SUFFICES ASSUME J!Bounds, J!Flags, [J!Next]_(J!vars) PROVE J!Flags'
  OBVIOUS
<1> USE DEF J!Bounds, J!Flags, J!leg, J!plan, J!gain, J!around,
        J!End, J!StandStill, J!DropPlan, J!SetOff, J!StartPlan
<1>1. CASE J!TravelTo
  BY <1>1, Zenon DEF J!TravelTo
<1>2. CASE J!CancelTravel
  BY <1>2, Zenon DEF J!CancelTravel
<1>3. CASE J!WalkByHand
  BY <1>3, Zenon DEF J!WalkByHand
<1>4. CASE J!Unreadable
  BY <1>4, Zenon DEF J!Unreadable
<1>5. CASE J!PutDown
  BY <1>5, Zenon DEF J!PutDown, J!StartAgain, J!Decide
<1>6. CASE J!Arrive
  BY <1>6, Zenon DEF J!Arrive
<1>7. CASE J!PlanFinished
  BY <1>7, Zenon DEF J!PlanFinished
<1>8. CASE J!Bridge
  BY <1>8, Zenon DEF J!Bridge
<1>9. CASE J!KeyboardTaken
  BY <1>9, Zenon DEF J!KeyboardTaken
<1>10. CASE J!JustStopped
  BY <1>10, Zenon DEF J!JustStopped
<1>11. CASE J!LookAgain
  BY <1>11, Zenon DEF J!LookAgain, J!GoOn, J!OneTooMany, J!Decide
<1>12. CASE J!GiveUp
  BY <1>12, Zenon DEF J!GiveUp, J!OneTooMany
<1>13. CASE J!WalkEnds
  BY <1>13, Zenon DEF J!WalkEnds
<1>14. CASE J!GetAbout
  BY <1>14, Zenon DEF J!GetAbout
<1>15. CASE J!Carry
  BY <1>15, Zenon DEF J!Carry
<1>16. CASE J!Surroundings
  BY <1>16, Zenon DEF J!Surroundings
<1>17. CASE J!Clock
  BY <1>17, Zenon DEF J!Clock
<1>18. CASE UNCHANGED J!vars
  BY <1>18, Zenon DEF J!vars
<1> QED
  BY <1>1, <1>2, <1>3, <1>4, <1>5, <1>6, <1>7, <1>8, <1>9, <1>10, <1>11, <1>12,
     <1>13, <1>14, <1>15, <1>16, <1>17, <1>18 DEF J!Next, J!TravelTick

\* No step leaves the states of the walk, the input and the note.
LEMMA WordsStep == J!Bounds /\ J!Words /\ [J!Next]_(J!vars) => J!Words'
<1> SUFFICES ASSUME J!Bounds, J!Words, [J!Next]_(J!vars) PROVE J!Words'
  OBVIOUS
<1> USE DEF J!Bounds, J!Words, J!leg, J!plan, J!gain, J!around,
        J!End, J!StandStill, J!DropPlan, J!SetOff, J!StartPlan, J!Reasons
<1>1. CASE J!TravelTo
  BY <1>1 DEF J!TravelTo
<1>2. CASE J!CancelTravel
  BY <1>2 DEF J!CancelTravel
<1>3. CASE J!WalkByHand
  BY <1>3 DEF J!WalkByHand
<1>4. CASE J!Unreadable
  BY <1>4 DEF J!Unreadable
<1>5. CASE J!PutDown
  BY <1>5 DEF J!PutDown, J!StartAgain, J!Decide
<1>6. CASE J!Arrive
  BY <1>6 DEF J!Arrive
<1>7. CASE J!PlanFinished
  BY <1>7 DEF J!PlanFinished
<1>8. CASE J!Bridge
  BY <1>8 DEF J!Bridge
<1>9. CASE J!KeyboardTaken
  BY <1>9 DEF J!KeyboardTaken
<1>10. CASE J!JustStopped
  BY <1>10 DEF J!JustStopped
<1>11. CASE J!LookAgain
  BY <1>11 DEF J!LookAgain, J!GoOn, J!OneTooMany, J!Decide
<1>12. CASE J!GiveUp
  BY <1>12 DEF J!GiveUp, J!OneTooMany
<1>13. CASE J!WalkEnds
  BY <1>13 DEF J!WalkEnds
<1>14. CASE J!GetAbout
  BY <1>14 DEF J!GetAbout
<1>15. CASE J!Carry
  BY <1>15 DEF J!Carry
<1>16. CASE J!Surroundings
  BY <1>16 DEF J!Surroundings
<1>17. CASE J!Clock
  BY <1>17 DEF J!Clock
<1>18. CASE UNCHANGED J!vars
  BY <1>18 DEF J!vars
<1> QED
  BY <1>1, <1>2, <1>3, <1>4, <1>5, <1>6, <1>7, <1>8, <1>9, <1>10, <1>11, <1>12,
     <1>13, <1>14, <1>15, <1>16, <1>17, <1>18 DEF J!Next, J!TravelTick

\* No step takes a count past its bound.
LEMMA NumbersStep == J!Bounds /\ J!Numbers /\ J!StagesLeft /\ [J!Next]_(J!vars) => J!Numbers'
<1> SUFFICES ASSUME J!Bounds, J!Numbers, J!StagesLeft, [J!Next]_(J!vars) PROVE J!Numbers'
  OBVIOUS
<1> USE DEF J!Bounds, J!Numbers, J!leg, J!plan, J!gain, J!around,
        J!End, J!StandStill, J!DropPlan, J!SetOff, J!StartPlan
<1>1. CASE J!TravelTo
  BY <1>1 DEF J!TravelTo
<1>2. CASE J!CancelTravel
  BY <1>2 DEF J!CancelTravel
<1>3. CASE J!WalkByHand
  BY <1>3 DEF J!WalkByHand
<1>4. CASE J!Unreadable
  BY <1>4 DEF J!Unreadable
<1>5. CASE J!PutDown
  <2>1. /\ walked' = 0 \/ walked' = walked
        /\ best' = 0 \/ best' = distance
        /\ quiet' = 0 \/ quiet' = quiet
    BY <1>5 DEF J!PutDown, J!StartAgain, J!Decide
  <2>2. UNCHANGED <<exploring, distance, journeys, carries>>
    BY <1>5 DEF J!PutDown
  <2> QED  BY <2>1, <2>2
<1>6. CASE J!Arrive
  BY <1>6 DEF J!Arrive
<1>7. CASE J!PlanFinished
  <2>1. walked' = 0 \/ walked' = walked
    BY <1>7 DEF J!PlanFinished
  <2>2. UNCHANGED <<J!gain, J!around>>
    BY <1>7 DEF J!PlanFinished
  <2> QED  BY <2>1, <2>2
<1>8. CASE J!Bridge
  BY <1>8 DEF J!Bridge
<1>9. CASE J!KeyboardTaken
  BY <1>9 DEF J!KeyboardTaken
<1>10. CASE J!JustStopped
  BY <1>10 DEF J!JustStopped
<1>11. CASE J!LookAgain
  <2>1. walked' = 0 \/ walked' = walked
    BY <1>11 DEF J!LookAgain, J!Decide
  <2>2. /\ best' = distance \/ best' = best
        /\ quiet' = 0 \/ quiet' = quiet
        /\ exploring' = exploring \/ (~J!OneTooMany /\ exploring' = exploring + 1)
    <3>1. CASE J!AlongTheRoom /\ UNCHANGED J!gain
      BY <3>1
    <3>2. CASE J!Nearer /\ best' = distance /\ quiet' = 0 /\ UNCHANGED exploring
      BY <3>2
    <3>3. CASE /\ J!NoNearer /\ lookingOut /\ ~J!OneTooMany
               /\ exploring' = exploring + 1 /\ UNCHANGED <<best, quiet>>
      BY <3>3
    <3>4. CASE J!NoNearer /\ ~lookingOut /\ quiet <= kNoGainForMs /\ UNCHANGED J!gain
      BY <3>4
    <3> QED  BY <1>11, <3>1, <3>2, <3>3, <3>4 DEF J!LookAgain, J!GoOn
  <2>3. exploring' \in 0..kMaxExploringStages
    BY <2>2 DEF J!OneTooMany
  <2>4. UNCHANGED J!around
    BY <1>11 DEF J!LookAgain
  <2> QED  BY <2>1, <2>2, <2>3, <2>4
<1>12. CASE J!GiveUp
  <2>1. exploring' = exploring \/ exploring' = exploring + 1
    BY <1>12 DEF J!GiveUp
  <2>3. exploring < kMaxExploringStages
    BY <1>12 DEF J!GiveUp, J!Looking, J!OnHisWay, J!StagesLeft
  <2>2. UNCHANGED <<best, quiet, J!around>> /\ walked' = 0
    BY <1>12 DEF J!GiveUp
  <2> QED  BY <2>1, <2>2, <2>3
<1>13. CASE J!WalkEnds
  BY <1>13 DEF J!WalkEnds
<1>14. CASE J!GetAbout
  BY <1>14 DEF J!GetAbout
<1>15. CASE J!Carry
  BY <1>15 DEF J!Carry
<1>16. CASE J!Surroundings
  BY <1>16 DEF J!Surroundings
<1>17. CASE J!Clock
  BY <1>17 DEF J!Clock
<1>18. CASE UNCHANGED J!vars
  BY <1>18 DEF J!vars
<1> QED
  BY <1>1, <1>2, <1>3, <1>4, <1>5, <1>6, <1>7, <1>8, <1>9, <1>10, <1>11, <1>12,
     <1>13, <1>14, <1>15, <1>16, <1>17, <1>18 DEF J!Next, J!TravelTick

\* A stage that looks for a way out is the last one allowed only when it ends
\* the journey.
LEMMA StagesStep == J!Bounds /\ J!TypeOK /\ J!StagesLeft /\ [J!Next]_(J!vars) => J!StagesLeft'
<1> SUFFICES ASSUME J!Bounds, J!TypeOK, J!StagesLeft, [J!Next]_(J!vars) PROVE J!StagesLeft'
  OBVIOUS
<1> USE DEF J!Bounds, J!StagesLeft, J!gain, J!End
<1>1. CASE J!TravelTo  BY <1>1 DEF J!TravelTo
<1>2. CASE UNCHANGED <<travelling, exploring>>  BY <1>2
<1>3. CASE ~travelling'  BY <1>3
<1>4. CASE J!LookAgain
  <2>1. exploring' = exploring \/ (~J!OneTooMany /\ exploring' = exploring + 1)
    BY <1>4 DEF J!LookAgain, J!GoOn
  <2> QED  BY <1>4, <2>1 DEF J!LookAgain, J!OneTooMany, J!TypeOK, J!Numbers
<1>5. J!CancelTravel \/ J!Unreadable \/ J!Arrive \/ J!KeyboardTaken \/ J!GiveUp => ~travelling'
  BY DEF J!CancelTravel, J!Unreadable, J!Arrive, J!KeyboardTaken, J!GiveUp
<1>6. J!WalkByHand \/ J!PutDown \/ J!PlanFinished \/ J!Bridge \/ J!JustStopped \/ J!WalkEnds \/ J!GetAbout
        \/ J!Carry \/ J!Surroundings \/ J!Clock \/ UNCHANGED J!vars
        => UNCHANGED <<travelling, exploring>>
  BY DEF J!WalkByHand, J!PutDown, J!PlanFinished, J!Bridge, J!JustStopped, J!WalkEnds, J!GetAbout,
         J!Carry, J!Surroundings, J!Clock, J!vars
<1> QED  BY <1>1, <1>2, <1>3, <1>4, <1>5, <1>6 DEF J!Next, J!TravelTick

\* Every variable keeps its type.
THEOREM TypeCorrect == J!Spec => []J!TypeOK
<1>1. J!Init => J!TypeOK /\ J!StagesLeft
  BY TravelAssumption, TypeInit DEF J!Bounds, J!Init, J!StagesLeft
<1>2. J!TypeOK /\ J!StagesLeft /\ [J!Next]_(J!vars) => (J!TypeOK /\ J!StagesLeft)'
  BY TravelAssumption, FlagsStep, WordsStep, NumbersStep, StagesStep DEF J!TypeOK
<1> QED  BY <1>1, <1>2, PTL DEF J!Spec

-----------------------------------------------------------------------------
\* Routes belong to where he is: the plan asked for and the leg walked are of
\* this journey, and of this place once a carry has been noticed.  Carrying
\* him marks both; only a tick that drops both takes the mark away.
THEOREM RoutesBelong == J!Spec => []J!RouteBelongsHere
<1> USE DEF J!RouteBelongsHere, J!leg, J!plan, J!gain, J!around
<1>1. J!Init => J!RouteBelongsHere
  BY DEF J!Init
<1>2. J!RouteBelongsHere /\ [J!Next]_(J!vars) => J!RouteBelongsHere'
  <2> SUFFICES ASSUME J!RouteBelongsHere, [J!Next]_(J!vars) PROVE J!RouteBelongsHere'
    OBVIOUS
  <2>1. J!TravelTo => J!RouteBelongsHere'
    BY DEF J!TravelTo, J!StandStill, J!DropPlan
  <2>2. J!CancelTravel \/ J!Unreadable \/ J!Arrive \/ J!KeyboardTaken \/ J!GiveUp => ~travelling'
    BY DEF J!CancelTravel, J!Unreadable, J!Arrive, J!KeyboardTaken, J!GiveUp, J!End
  <2>3. J!WalkByHand => J!RouteBelongsHere'
    BY DEF J!WalkByHand, J!StandStill
  <2>4. J!PutDown => J!RouteBelongsHere'
    BY DEF J!PutDown, J!StartAgain, J!Decide, J!SetOff, J!StartPlan, J!StandStill, J!DropPlan
  <2>5. J!PlanFinished => J!RouteBelongsHere'
    <3> SUFFICES ASSUME J!PlanFinished PROVE J!RouteBelongsHere'
      OBVIOUS
    <3>1. planHere /\ (walk = "leg" => legHere) /\ planning' = FALSE
      BY DEF J!PlanFinished, J!OnHisWay
    <3>2. J!SetOff(planHere) \/ J!SetOff(TRUE) \/ UNCHANGED J!leg
      BY DEF J!PlanFinished
    <3>3. walk' = "leg" => legHere'
      BY <3>1, <3>2 DEF J!SetOff
    <3> QED  BY <3>1, <3>3
  <2>6. J!Bridge => J!RouteBelongsHere'
    BY DEF J!Bridge, J!OnHisWay, J!SetOff
  <2>7. J!LookAgain => J!RouteBelongsHere'
    <3> SUFFICES ASSUME J!LookAgain PROVE J!RouteBelongsHere'
      OBVIOUS
    <3>1. ~planning /\ (walk = "leg" => legHere)
      BY DEF J!LookAgain, J!Looking, J!OnHisWay
    <3>2. J!SetOff(TRUE) \/ UNCHANGED J!leg
      BY DEF J!LookAgain, J!Decide
    <3>3. planning' => planHere'
      BY <3>1 DEF J!LookAgain, J!Decide, J!DropPlan, J!StartPlan
    <3>4. walk' = "leg" => legHere'
      BY <3>1, <3>2 DEF J!SetOff
    <3> QED  BY <3>3, <3>4
  <2>8. J!JustStopped => J!RouteBelongsHere'
    BY DEF J!JustStopped
  <2>9. J!WalkEnds => J!RouteBelongsHere'
    BY DEF J!WalkEnds, J!StandStill
  <2>10. J!Carry => J!RouteBelongsHere'
    BY DEF J!Carry
  <2>11. J!GetAbout \/ J!Surroundings \/ J!Clock \/ UNCHANGED J!vars => J!RouteBelongsHere'
    <3>1. J!GetAbout \/ J!Surroundings \/ J!Clock \/ UNCHANGED J!vars
            => UNCHANGED <<travelling, carried, planning, planHere, walk, legHere>>
      BY DEF J!GetAbout, J!Surroundings, J!Clock, J!vars
    <3> QED  BY <3>1
  <2> QED
    BY <2>1, <2>2, <2>3, <2>4, <2>5, <2>6, <2>7, <2>8, <2>9, <2>10, <2>11
    DEF J!Next, J!TravelTick
<1> QED  BY <1>1, <1>2, PTL DEF J!Spec

-----------------------------------------------------------------------------
\* Every step of a journey is a step of Trip or changes nothing Trip speaks of.
LEMMA StepIsATrip == J!Bounds /\ J!TypeOK /\ [J!Next]_(J!vars) => [J!T!Next]_(J!T!trip)
<1> SUFFICES ASSUME J!Bounds, J!TypeOK, [J!Next]_(J!vars) PROVE [J!T!Next]_(J!T!trip)
  OBVIOUS
<1> USE DEF J!leg, J!plan, J!gain, J!around
<1>1. CASE J!TravelTo
  <2>1. J!T!Begin  BY <1>1 DEF J!TravelTo, J!StandStill, J!T!Begin
  <2> QED  BY <2>1 DEF J!T!Next
<1>2. CASE J!CancelTravel
  <2>1. J!T!Cancel  BY <1>2 DEF J!CancelTravel, J!End, J!StandStill, J!T!Cancel, J!T!End
  <2> QED  BY <2>1 DEF J!T!Next
<1>3. CASE J!Unreadable
  <2>1. J!T!LoseSight
    BY <1>3 DEF J!Unreadable, J!End, J!StandStill, J!T!LoseSight, J!T!End
  <2> QED  BY <2>1 DEF J!T!Next
<1>4. CASE J!Arrive
  <2>1. J!T!Arrive  BY <1>4 DEF J!Arrive, J!End, J!StandStill, J!T!Arrive, J!T!End
  <2> QED  BY <2>1 DEF J!T!Next
<1>5. CASE J!KeyboardTaken \/ J!GiveUp
  <2>1. travelling /\ distance # 0
    <3>1. J!OnHisWay /\ distance \in 0..MaxDistance
      BY <1>5 DEF J!KeyboardTaken, J!GiveUp, J!Looking, J!TypeOK, J!Numbers
    <3> QED  BY <3>1 DEF J!OnHisWay, J!Bounds
  <2>2. J!T!GiveUp
    BY <1>5, <2>1 DEF J!KeyboardTaken, J!GiveUp, J!End, J!StandStill, J!T!GiveUp, J!T!End
  <2> QED  BY <2>2 DEF J!T!Next
<1>6. ASSUME UNCHANGED <<travelling, note>>, walk' = "leg" => travelling \/ walk = "leg"
      PROVE  J!T!Next
  BY <1>6 DEF J!T!Next, J!T!GetAbout
<1>7. CASE J!PlanFinished \/ J!Bridge \/ J!LookAgain \/ J!PutDown
  <2>1. travelling /\ UNCHANGED <<travelling, note>>
    BY <1>7 DEF J!PlanFinished, J!Bridge, J!LookAgain, J!PutDown, J!Looking, J!OnHisWay
  <2> QED  BY <1>6, <2>1
<1>8. CASE J!WalkByHand \/ J!JustStopped \/ J!WalkEnds \/ J!GetAbout \/ J!Carry \/ J!Surroundings \/ J!Clock
             \/ UNCHANGED J!vars
  <2>1. UNCHANGED <<travelling, note>> /\ (walk' = "leg" => walk = "leg")
    BY <1>8 DEF J!WalkByHand, J!JustStopped, J!WalkEnds, J!StandStill, J!GetAbout, J!Carry, J!Surroundings,
                J!Clock, J!vars
  <2> QED  BY <1>6, <2>1
<1> QED
  BY <1>1, <1>2, <1>3, <1>4, <1>5, <1>7, <1>8 DEF J!Next, J!TravelTick

\* A journey keeps the promise of travel.hpp: it says arrived only of one who
\* is there, gives up only on one who is not, and its walk ends with it.
THEOREM PromiseKept == J!Spec => IsATrip
<1>1. J!Init => J!T!Init
  BY DEF J!Init, J!T!Init
<1>2. J!TypeOK /\ [J!Next]_(J!vars) => [J!T!Next]_(J!T!trip)
  BY TravelAssumption, StepIsATrip
<1> QED  BY <1>1, <1>2, TypeCorrect, PTL DEF J!Spec, IsATrip, J!IsATrip, J!T!Spec
================================================================================
