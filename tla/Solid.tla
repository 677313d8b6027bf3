-------------------------------- MODULE Solid --------------------------------
(***************************************************************************)
(* The solid world as it is read out of the game's memory (game/            *)
(* collision.cpp), on the game thread, while the streamer puts buildings    *)
(* into the pool and takes them out.  What stands still is sorted into      *)
(* sectors of the module's own, a window of them around whoever asked last, *)
(* and sorted again every few seconds; what moves is read from the game's   *)
(* own lists, which repeat every few sectors.  A line, the ground and a     *)
(* footprint are asked of these.                                            *)
(*                                                                          *)
(* Along one axis: both are treated alike, and so a thing is a rectangle    *)
(* over it, or leans, rising by one from cell to cell.                      *)
(***************************************************************************)
EXTENDS Integers, FiniteSets, SequencesExt

CONSTANTS
  Slots,           \* of the pool, in its order
  Standings,       \* what can stand there: [at, reach, z0, z1, leans, data]
  Movers,          \* what can move: the same, and whether a "vehicle" or an "object"
  Places,          \* where is asked
  Questions,       \* lines: [a, b, lo, hi, vehicles]
  Footprints,      \* [x, radius, floor, lo, hi, inflate, kinds, budget]
  FaultsAt,        \* sectors that may fault
  SectorCells,     \* cells in a sector
  kWindow, kWindowMargin, kRebuildEvery, kRepeat, kMaxSpread

VARIABLES
  pool,     \* [in, bytes] of each slot: an emptied one may hold its bytes still
  mover,    \* what moves
  index     \* of the static world: [built, x0, age, at], at being what stood in
            \*   each slot when it was made

vars == <<pool, mover, index>>

Nothing == [at |-> 0, reach |-> -1, z0 |-> 0, z1 |-> 0, leans |-> FALSE, data |-> FALSE]
Nobody == [kind |-> "none", thing |-> Nothing]

Init ==
  /\ pool = [s \in Slots |-> [in |-> FALSE, bytes |-> Nothing]]
  /\ mover = Nobody
  /\ index = [built |-> FALSE, x0 |-> 0, age |-> 0, at |-> [s \in Slots |-> Nothing]]

-----------------------------------------------------------------------------
(* The index.                                                              *)

SectorX(x) == x \div SectorCells
Lesser(m, n) == IF m < n THEN m ELSE n
Greater(m, n) == IF m > n THEN m ELSE n

\* IndexPool: into every sector its collision can reach into, as far as
\* anything is taken to reach.
Spread(t) == Lesser(t.reach, kMaxSpread)
Reaches(t, sector) ==
  t.reach >= 0 /\ SectorX(t.at - Spread(t)) <= sector /\ sector <= SectorX(t.at + Spread(t))
InWindow(i, sector) == sector - i.x0 \in 0..(kWindow - 1)
Bucket(i, sector) == {s \in Slots : InWindow(i, sector) /\ Reaches(i.at[s], sector)}

Rebuild(sector) ==
  [built |-> TRUE, x0 |-> sector - kWindow \div 2, age |-> 0,
   at |-> [s \in Slots |-> IF pool[s].in THEN pool[s].bytes ELSE Nothing]]

\* Mutated form: an index is good for as long as he stays within it.
StandsForEver(x) ==
  /\ index.built
  /\ SectorX(x) - index.x0 \in kWindowMargin..(kWindow - kWindowMargin - 1)
Stands(x) ==
  /\ index.built /\ index.age < kRebuildEvery
  /\ SectorX(x) - index.x0 \in kWindowMargin..(kWindow - kWindowMargin - 1)
EnsureWindow(x) == IF Stands(x) THEN index ELSE Rebuild(SectorX(x))

\* A sector whose reading faults: the rest of it is not looked at.  A line asks
\* what stands before what moves; a footprint asks for them apart.
NoFault == [at |-> -1, lost |-> {}]
LineFaults == {NoFault} \cup [at : FaultsAt, lost : {{"moving"}, {"static", "moving"}}]
FootFaults == LineFaults \cup [at : FaultsAt, lost : {{"static"}}]

\* What is looked at in a sector: bytes, whatever stands there now.
Listed(t, sector) == \E n \in SectorX(t.at - t.reach)..SectorX(t.at + t.reach) : n % kRepeat = sector % kRepeat
StaticIn(i, sector, fault) ==
  IF fault.at = sector /\ "static" \in fault.lost THEN {}
  ELSE {pool[s].bytes : s \in Bucket(i, sector)} \ {Nothing}
MovingIn(sector, kinds, fault) ==
  IF \/ fault.at = sector /\ "moving" \in fault.lost
     \/ mover.kind \notin kinds \/ ~Listed(mover.thing, sector)
  THEN {} ELSE {mover.thing}

-----------------------------------------------------------------------------
(* Lines and the ground.                                                   *)

\* A thing whose collision is not loaded is not there for a line.
TestEntity(t, q) ==
  /\ t.data /\ t.at - t.reach <= Greater(q.a, q.b) /\ Lesser(q.a, q.b) <= t.at + t.reach
  /\ t.z0 <= q.hi /\ q.lo <= t.z1

Across(q) == SectorX(Lesser(q.a, q.b))..SectorX(Greater(q.a, q.b))
Sweep(i, q, kinds, fault) ==
  {t \in UNION {StaticIn(i, sector, fault) \cup MovingIn(sector, kinds, fault) : sector \in Across(q)} :
     TestEntity(t, q)}

Kinds(q) == IF q.vehicles THEN {"object", "vehicle"} ELSE {"object"}
LineClear(i, q, fault) == Sweep(i, q, Kinds(q), fault) = {}

\* The highest of what is below, or nothing.
Top(t, z) == Lesser(t.z1, z)
Below(x, z) == [a |-> x, b |-> x, lo |-> -1000, hi |-> z]
GroundBelow(i, x, z, kinds, fault) ==
  LET tops == {Top(t, z) : t \in Sweep(i, Below(x, z), kinds, fault)}
  IN  {top \in tops : \A other \in tops : other <= top}

-----------------------------------------------------------------------------
(* Footprints.                                                             *)

\* A square about x: its cells, the floor under each, the band over the floor,
\* how far a body reaches, and how many cells may be tested.
Cells(f) == (f.x - f.radius)..(f.x + f.radius)
Lowest(f) == CHOOSE z \in {f.floor[c] : c \in Cells(f)} : \A c \in Cells(f) : z <= f.floor[c]
Highest(f) == CHOOSE z \in {f.floor[c] : c \in Cells(f)} : \A c \in Cells(f) : z >= f.floor[c]

HeightOn(t, c) == Lesser(Greater(t.z0 + (c - (t.at - t.reach)), t.z0), t.z1)
InBand(t, f, c) ==
  IF t.leans /\ t.data THEN HeightOn(t, c) - f.floor[c] \in f.lo..f.hi
  ELSE t.z1 >= f.floor[c] + f.lo /\ t.z0 <= f.floor[c] + f.hi

\* PaintEntity: what is nowhere near the square or the band is left out; the
\* cells near it are tested while there is budget.  One without its collision
\* is a box.
Near(t, f) ==
  /\ t.z1 >= Lowest(f) + f.lo /\ t.z0 <= Highest(f) + f.hi
  /\ t.at + t.reach >= f.x - f.radius - f.inflate /\ t.at - t.reach <= f.x + f.radius + f.inflate
Tests(t, f) == {c \in Cells(f) : c - t.at \in -(t.reach + f.inflate)..(t.reach + f.inflate)}
PaintEntity(p, t, f) ==
  IF ~Near(t, f) THEN p
  ELSE LET within == {c \in Tests(t, f) : Cardinality({o \in Tests(t, f) : o <= c}) <= p.budget}
       IN  [blocked |-> p.blocked \cup {c \in within : InBand(t, f, c)},
            budget |-> p.budget - Cardinality(within),
            starved |-> p.starved \/ within # Tests(t, f)]

\* What moves first, for the budget may not last.
\* Mutated form: what moves is asked for last.
StaticsFirst == <<"static", "moving">>
Passes == <<"moving", "static">>
Once(Op(_), sofar) == CHOOSE next \in {Op(v) : v \in {sofar}} : TRUE
PaintFootprint(i, f, fault) ==
  LET first == SectorX(f.x - f.radius) - 1
      last == SectorX(f.x + f.radius) + 1
      In(pass, sector) == IF pass = "moving" THEN MovingIn(sector, f.kinds, fault)
                                             ELSE StaticIn(i, sector, fault)
      Painted(pass) == FlattenSeq([k \in 1..(last - first + 1) |-> SetToSeq(In(pass, first + k - 1))])
  IN  FoldLeft(LAMBDA p, t : Once(LAMBDA v : PaintEntity(v, t, f), p),
               [blocked |-> {}, budget |-> f.budget, starved |-> FALSE],
               Painted(Passes[1]) \o Painted(Passes[2]))

-----------------------------------------------------------------------------
(* Steps.                                                                  *)

StreamIn(s, t) ==
  /\ ~pool[s].in /\ pool' = [pool EXCEPT ![s] = [in |-> TRUE, bytes |-> t]]
  /\ UNCHANGED <<mover, index>>

StreamOut(s) ==
  /\ pool[s].in
  /\ \E bytes \in {pool[s].bytes, Nothing} : pool' = [pool EXCEPT ![s] = [in |-> FALSE, bytes |-> bytes]]
  /\ UNCHANGED <<mover, index>>

Moves(m) == mover' = m /\ UNCHANGED <<pool, index>>

Asked(x) == index' = EnsureWindow(x) /\ UNCHANGED <<pool, mover>>

Second ==
  /\ index.built /\ index.age < kRebuildEvery
  /\ index' = [index EXCEPT !.age = @ + 1] /\ UNCHANGED <<pool, mover>>

Next ==
  \/ \E s \in Slots : StreamOut(s) \/ \E t \in Standings : StreamIn(s, t)
  \/ \E m \in Movers \cup {Nobody} : Moves(m)
  \/ \E x \in Places : Asked(x)
  \/ Second

Spec == Init /\ [][Next]_vars

-----------------------------------------------------------------------------
(* Properties.                                                             *)

There(kinds) ==
  {pool[s].bytes : s \in {n \in Slots : pool[n].in}} \cup (IF mover.kind \in kinds THEN {mover.thing} ELSE {})
\* Gone since the index was made.
Ghosts(i) ==
  {pool[s].bytes : s \in {n \in Slots : ~pool[n].in /\ i.at[n] # Nothing /\ i.age < kRebuildEvery}}
\* There since the index was made, and no larger than is looked for.
Settled(i, kinds) ==
  {t \in There(kinds) : t.reach <= kMaxSpread /\ \A s \in Slots :
     pool[s].in /\ pool[s].bytes = t /\ i.age < kRebuildEvery => i.at[s] = t}

Blocks(t, f, c) == c - t.at \in -(t.reach + f.inflate)..(t.reach + f.inflate) /\ InBand(t, f, c)
BlockedBy(things, f) == {c \in Cells(f) : \E t \in things : Blocks(t, f, c)}

\* A line no longer than the margin of the window is met by what stands in the
\* world and by nothing else, and the ground is the top of the highest of it,
\* whoever asked elsewhere before and whatever was streamed meanwhile; but for
\* what came or went in the last seconds, what is larger than is looked for,
\* and the rest of a sector that faulted (collision.hpp, "The answers are what
\* the game would give for buildings, dummies and objects").
LinesMatchTheWorld ==
  \A q \in Questions, fault \in LineFaults :
    LET i == EnsureWindow(q.a)
        ground == GroundBelow(i, q.a, q.hi, Kinds(q), fault)
        near == \A sector \in Across(q) : sector - SectorX(q.a) \in -kWindowMargin..kWindowMargin
    IN  /\ LineClear(i, q, fault)
             \/ \E t \in There(Kinds(q)) \cup Ghosts(i) : TestEntity(t, q)
        /\ near /\ fault.at \notin Across(q) =>
             /\ LineClear(i, q, fault) => \A t \in Settled(i, Kinds(q)) : ~TestEntity(t, q)
             /\ \A t \in Settled(i, Kinds(q)) : TestEntity(t, Below(q.a, q.hi)) =>
                  \E z \in ground : z >= Top(t, q.hi)
             /\ \A z \in ground : \E t \in There(Kinds(q)) \cup Ghosts(i) : z = Top(t, q.hi)

\* A footprint shows what stands in its band, at each cell's own floor, and
\* nothing else; what is missing is owned to, and is never what moves while
\* there is budget for it (collision.hpp, "what came after the cut is missing
\* from the square, and the caller should know").
FootprintsMatchTheWorld ==
  \A f \in Footprints, fault \in FootFaults :
    LET i == EnsureWindow(f.x)
        p == PaintFootprint(i, f, fault)
    IN  /\ p.blocked \subseteq BlockedBy(There(f.kinds) \cup Ghosts(i), f)
        /\ p.starved \/ fault # NoFault \/ BlockedBy(Settled(i, f.kinds), f) \subseteq p.blocked
        /\ mover.kind \in f.kinds /\ "moving" \notin fault.lost /\ f.budget >= Cardinality(Cells(f))
             => BlockedBy({mover.thing}, f) \subseteq p.blocked
=============================================================================
