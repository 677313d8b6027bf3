---------------------------------- MODULE Grid ----------------------------------
(***************************************************************************)
(* A field of cells and the search over it (nav/grid.cpp), with nothing of *)
(* the game in it.  A cell is <<x, y>>.  Lengths and heights are in        *)
(* hundredths of a cell and rounded so that no diagonal comes out shorter  *)
(* than it is; a search's costs are in hundredths of that.                 *)
(*                                                                         *)
(* A grid is a record: the cells shut, the cells whose ground is known     *)
(* (`known' being 1), their ground, and how far each is from a wall in     *)
(* thirds of a cell.  A search is a record as well.  Of two cells the heap *)
(* holds at the same estimate either may come first.                       *)
(***************************************************************************)
EXTENDS Integers, Sequences, FiniteSets, SequencesExt, FiniteSetsExt

CONSTANTS
  W, H,          \* the grid's sides
  Stride,        \* cells between readings of the ground
  MaxStep,       \* SearchRules::max_step
  ClearWanted,   \* SearchRules::clear_wanted, in cells
  MaxLeg,        \* of a pulled leg
  Reach          \* bound of the model: how far off a target may be, in cells

ASSUME GridAssumption ==
  /\ W \in Nat \ {0} /\ H \in Nat \ {0} /\ Stride \in Nat \ {0}
  /\ MaxStep \in Nat /\ ClearWanted \in Nat /\ MaxLeg \in Nat /\ Reach \in Nat

Cells == (0..W - 1) \X (0..H - 1)
Straight == 100
Diagonal == 142
MaxGrade == 100   \* a hundredth of the run

\* What Op makes of what has come out so far, which is worked out once and not
\* each time Op looks at it.
Once(Op(_), sofar) == CHOOSE next \in {Op(v) : v \in {sofar}} : TRUE

Gap(m, n) == IF m < n THEN n - m ELSE m - n

Roots == [n \in 0..2 * Reach * Reach |->
            CHOOSE r \in 0..150 * Reach : r * r <= 10000 * n /\ (r + 1) * (r + 1) > 10000 * n]

Away(a, b) == Roots[Gap(a[1], b[1]) * Gap(a[1], b[1]) + Gap(a[2], b[2]) * Gap(a[2], b[2])]

Passable(g) == g.known \ g.blocked

Around == [c \in Cells |-> {n \in Cells \ {c} : Gap(n[1], c[1]) <= 1 /\ Gap(n[2], c[2]) <= 1}]
IsDiagonal(a, b) == a[1] # b[1] /\ a[2] # b[2]
Beside == [c \in Cells |-> {n \in Around[c] : ~IsDiagonal(c, n)}]

(***************************************************************************)
(* From readings a stride apart to a clearance for every cell.             *)
(***************************************************************************)
IsReading(c) == c[1] % Stride = 0 /\ c[2] % Stride = 0

\* The reading taken for a corner; past the edge it is the last one there is.
LastReading(n, side) == IF n >= side THEN ((side - 1) \div Stride) * Stride ELSE n
Anchor(k) == <<LastReading(k[1], W), LastReading(k[2], H)>>

Corners(c) ==
  LET x == c[1] - (c[1] % Stride)
      y == c[2] - (c[2] % Stride)
  IN  {x, x + Stride} \X {y, y + Stride}

Weight(c, k) == (Stride - Gap(c[1], k[1])) * (Stride - Gap(c[2], k[2]))

SmoothBetweenReadings(g) ==
  LET Read(c) == {k \in Corners(c) : Weight(c, k) > 0 /\ Anchor(k) \in g.known}
      Weighed(c) == MapThenSumSet(LAMBDA k : g.ground[Anchor(k)] * Weight(c, k), Read(c))
      Total(c) == MapThenSumSet(LAMBDA k : Weight(c, k), Read(c))
  IN  [g EXCEPT
         !.known = {c \in Cells : IF IsReading(c) THEN c \in @ ELSE Read(c) # {}},
         !.ground = [c \in Cells |->
                       IF IsReading(c) \/ Read(c) = {} THEN @[c] ELSE Weighed(c) \div Total(c)]]

MarkLedges(g) ==
  [g EXCEPT !.blocked = @ \cup
     {c \in Passable(g) :
        \E n \in Beside[c] : n \in g.known /\ Gap(g.ground[n], g.ground[c]) > MaxStep}]

Unreached == 60000

\* No cell is so far from an edge.
ASSUME UnreachedAssumption == 3 * W <= Unreached

AtTheEdge(c) == c[1] \in {0, W - 1} \/ c[2] \in {0, H - 1}
RasterOrder == [i \in 1..W * H |-> <<(i - 1) % W, (i - 1) \div W>>]
Before == [c \in Cells |-> {n \in Around[c] : n[2] < c[2] \/ (n[2] = c[2] /\ n[1] < c[1])}]
After == [c \in Cells |-> Around[c] \ Before[c]]
Thirds(a, b) == IF IsDiagonal(a, b) THEN 4 ELSE 3

\* One pass over the cells, each taking what its neighbours on one side give it.
Pass(clear, order, side, edge) ==
  LET Taking(far, c) ==
        IF far[c] = 0 THEN far
        ELSE [far EXCEPT ![c] = Min({@} \cup edge[c] \cup {far[n] + Thirds(c, n) : n \in side[c]})]
  IN  FoldLeft(LAMBDA far, c : Once(LAMBDA f : Taking(f, c), far), clear, order)

\* Mutated form: as it would be if the second pass had been left out.
ChamferOnce(g) ==
  LET unreached == [c \in Cells |-> IF c \in Passable(g) THEN Unreached ELSE 0]
      edge == [c \in Cells |-> IF AtTheEdge(c) THEN {3} ELSE {}]
  IN  [g EXCEPT !.clear = Pass(unreached, RasterOrder, Before, edge)]

Chamfer(g) ==
  LET unreached == [c \in Cells |-> IF c \in Passable(g) THEN Unreached ELSE 0]
      edge == [c \in Cells |-> IF AtTheEdge(c) THEN {3} ELSE {}]
      down == Pass(unreached, RasterOrder, Before, edge)
  IN  [g EXCEPT !.clear = Pass(down, Reverse(RasterOrder), After, [c \in Cells |-> {}])]

(***************************************************************************)
(* The search.                                                             *)
(***************************************************************************)
NoSearch == [start |-> <<>>]

StartSearch(start, goal, aim) ==
  [start |-> start, goal |-> goal, aim |-> aim,
   best |-> [c \in {start} |-> 0], came |-> <<>>, closed |-> {},
   open |-> {<<100 * Away(start, aim), start>>},
   nearest |-> start, done |-> FALSE, reached |-> FALSE]

SearchEnd(s) == IF s.reached THEN s.goal ELSE s.nearest
Cost(s, c) == IF c \in s.closed THEN s.best[c] ELSE -1

Run(a, b) == IF IsDiagonal(a, b) THEN Diagonal ELSE Straight

\* Where a body may step from one cell: not into what is shut, not through the
\* corner where two walls meet, not up what is too tall or too steep.
StepsFrom(g, c) ==
  {n \in Around[c] :
     /\ n \in Passable(g)
     /\ IsDiagonal(c, n) => {<<n[1], c[2]>>, <<c[1], n[2]>>} \subseteq Passable(g)
     /\ LET rise == Gap(g.ground[n], g.ground[c])
        IN  rise <= MaxStep /\ 100 * rise <= MaxGrade * Run(c, n)}

\* Near a wall a step costs more: 0.18 for each cell short of the clearance
\* wanted, 0.06 for each third of one.
StepCost(g, c, n) == Run(c, n) * (100 + 6 * Max({0, 3 * ClearWanted - g.clear[n]}))

\* What the heap may give up next.
Tops(s) == {e \in s.open : \A o \in s.open : e[1] <= o[1]}

\* Mutated form: as it would be if a cell kept the first way found to it.
RelaxedUnseen(g, s, c) == {n \in StepsFrom(g, c) \ s.closed : n \notin DOMAIN s.best}

Relaxed(g, s, c) ==
  {n \in StepsFrom(g, c) \ s.closed :
     n \in DOMAIN s.best => s.best[c] + StepCost(g, c, n) < s.best[n]}

\* One cell taken off the heap, closed and looked round.
Expand(g, s, top) ==
  LET c == top[2]
      taken == [s EXCEPT !.open = @ \ {top}]
      closed == [taken EXCEPT !.closed = @ \cup {c},
                              !.nearest = IF Away(c, s.aim) < Away(@, s.aim) THEN c ELSE @]
      better == Relaxed(g, closed, c)
      cost == [n \in better |-> s.best[c] + StepCost(g, c, n)]
  IN  IF c \in s.closed THEN [taken EXCEPT !.done = taken.open = {}]
      ELSE IF c = s.goal THEN [closed EXCEPT !.reached = TRUE, !.done = TRUE]
      ELSE LET open == closed.open \cup
                         {<<cost[n] + 100 * Away(n, s.aim), n>> : n \in better}
           IN  [closed EXCEPT !.best = [n \in DOMAIN @ \cup better |->
                                          IF n \in better THEN cost[n] ELSE @[n]],
                              !.came = [n \in DOMAIN @ \cup better |->
                                          IF n \in better THEN c ELSE @[n]],
                              !.open = open,
                              !.done = open = {}]

\* The way back from a cell it closed, start first.
CellsTo(s, at) ==
  IF at \notin s.closed THEN <<>>
  ELSE LET Back(way) == IF way[1] = s.start THEN way ELSE <<s.came[way[1]]>> \o way
       IN  FoldLeft(LAMBDA way, i : Once(Back, way), <<at>>, [i \in 1..Cardinality(s.closed) |-> i])

(***************************************************************************)
(* The few points a way needs.                                             *)
(***************************************************************************)
\* The cells a straight line is drawn through.
LineCells(a, b) ==
  LET dx == Gap(a[1], b[1])
      dy == -Gap(a[2], b[2])
      sx == IF a[1] < b[1] THEN 1 ELSE -1
      sy == IF a[2] < b[2] THEN 1 ELSE -1
      Drawn(line) ==
        LET at == line.cells[Len(line.cells)]
            along == 2 * line.err >= dy
            across == 2 * line.err <= dx
        IN  [err |-> line.err + (IF along THEN dy ELSE 0) + (IF across THEN dx ELSE 0),
             cells |-> Append(line.cells, <<IF along THEN at[1] + sx ELSE at[1],
                                            IF across THEN at[2] + sy ELSE at[2]>>)]
  IN  FoldLeft(LAMBDA line, i : Once(Drawn, line), [err |-> dx + dy, cells |-> <<a>>],
               [i \in 1..Max({dx, -dy}) |-> i]).cells

LineFree(g, a, b, step) ==
  LET line == LineCells(a, b)
  IN  /\ \A i \in DOMAIN line : line[i] \in Passable(g) /\ g.clear[line[i]] >= 3
      /\ \A i \in 2..Len(line) : Gap(g.ground[line[i]], g.ground[line[i - 1]]) <= step

Pull(g, cells, step) ==
  LET Furthest(i) ==
        Max({i + 1} \cup {j \in i + 2..Len(cells) :
                            /\ Away(cells[i], cells[j]) <= MaxLeg
                            /\ LineFree(g, cells[i], cells[j], step)})
      Longer(taken) == IF Last(taken) >= Len(cells) THEN taken
                       ELSE Append(taken, Furthest(Last(taken)))
      pulled == FoldLeft(LAMBDA taken, c : Once(Longer, taken), <<1>>, cells)
  IN  IF cells = <<>> THEN <<>> ELSE [i \in DOMAIN pulled |-> cells[pulled[i]]]

(***************************************************************************)
(* What the algorithms are measured against.                               *)
(***************************************************************************)
\* How far a cell is from what is shut, and from the edge.
DistanceToSolid(shut, c) ==
  LET Off(n) == LET dx == Gap(n[1], c[1])
                    dy == Gap(n[2], c[2])
                IN  4 * Min({dx, dy}) + 3 * Gap(dx, dy)
  IN  IF c \in shut THEN 0
      ELSE Min({Off(n) : n \in shut} \cup
               {3 * (c[1] + 1), 3 * (c[2] + 1), 3 * (W - c[1]), 3 * (H - c[2])})

\* What the cells cost that so many steps lead to, and those a step further.
StepFurther(g, costs) ==
  LET further == costs \cup UNION {{<<n, p[2] + StepCost(g, p[1], n)>> : n \in StepsFrom(g, p[1])} : p \in costs}
  IN  {p \in further : \A q \in further : q[1] = p[1] => p[2] <= q[2]}

\* What every cell costs that can be reached: the steps tried over and over until
\* no cell can come out cheaper.
CheapestFrom(g, start) ==
  FoldLeft(LAMBDA costs, i : Once(LAMBDA sofar : StepFurther(g, sofar), costs), {<<start, 0>>},
           [i \in 1..Cardinality(Cells) |-> i])
===============================================================================
