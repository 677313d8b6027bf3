--------------------------------- MODULE Field ---------------------------------
(***************************************************************************)
(* The field (nav/field.cpp): the ground flooded outward from where he     *)
(* stands, what is solid painted over it a tile at a time, then - on a     *)
(* thread of its own - the clearance, the search and the end of the stage  *)
(* it gives the journey.  The planner (nav/planner.cpp) takes the stage or *)
(* refuses it and remembers where it ends; the journey walks there and     *)
(* plans again.                                                            *)
(*                                                                         *)
(* The world is one picture for as long as he is looked at: a floor, where *)
(* there is one, under every reading, and the cells something stands in.   *)
(* The box is the same for every stage.                                    *)
(***************************************************************************)
EXTENDS Grid

CONSTANTS
  Pictures,            \* [floor, solid]: a height under every reading, or NoFloor
  NoFloor,
  Starts, Targets,     \* where he may stand, where he may be going
  Spots,               \* where he may have got stuck
  kStepChain,
  kGroundTries,
  kProgressWanted, kExploreLeast, kExploredKeepOut, kStageKeepOut,
  kPointlessRoute, kAtTheTarget,
  kFieldShortOk, kFieldStageMin, kFieldStageLeast,
  kMaxExplored, kSamePlace,
  kStuckKeepOut,
  kKeepAtMost, kShortErrand,
  MaxStages            \* bound of the model: plans of one journey

Readings == {c \in Cells : IsReading(c)}

ASSUME FieldAssumption ==
  /\ \A p \in Pictures : p.solid \subseteq Cells /\ DOMAIN p.floor = Readings
  /\ Starts \subseteq Cells /\ Spots \subseteq Cells /\ kGroundTries \in Nat /\ kMaxExplored \in Nat \ {0}
  /\ kKeepAtMost \in Nat /\ MaxStages \in Nat /\ kExploreLeast \in Nat \ {0} /\ kProgressWanted \in Nat

\* Where he may be going is no further off than distances are worked out for.
ASSUME ReachAssumption ==
  /\ W <= Reach /\ H <= Reach /\ Targets \subseteq Int \X Int
  /\ \A t \in Targets, c \in Cells : Gap(t[1], c[1]) <= Reach /\ Gap(t[2], c[2]) <= Reach

VARIABLES
  picture,
  spots,       \* RememberedObstacles: cells he got stuck at
  to,          \* where the journey goes
  from,        \* where he stands: Work::from
  phase,       \* Work::phase, "none" between two plans
  away,        \* the worker has the grid
  grid,
  queue,       \* cells whose ground was read, those from queueAt on not looked round yet
  queueAt,
  tries,
  tiles,       \* columns of the box not painted yet
  search,
  end,         \* Work::end
  result,      \* [ok, reaches, exploring, short, points], and why it ended
  explored,    \* g_explored
  way,         \* g_exploring_way, not scaled to one
  kept,        \* g_kept
  stages,
  walls        \* history: what the clearance was measured from

vars == <<picture, spots, to, from, phase, away, grid, queue, queueAt, tries, tiles,
          search, end, result, explored, way, kept, stages, walls>>
world == <<picture, spots, to>>
journey == <<from, explored, way, stages>>
reading == <<queue, queueAt, tries>>

NoGrid == [blocked |-> {}, known |-> {}, ground |-> [c \in Cells |-> 0],
           clear |-> [c \in Cells |-> 0]]
NoResult == [ok |-> FALSE, reaches |-> FALSE, exploring |-> FALSE, short |-> 0,
             points |-> <<>>, why |-> ""]

Init ==
  /\ picture \in Pictures /\ spots \in SUBSET Spots
  /\ to \in Targets /\ from \in Starts
  /\ phase = "none" /\ away = FALSE /\ grid = NoGrid
  /\ queue = <<>> /\ queueAt = 1 /\ tries = [c \in Readings |-> 0] /\ tiles = {}
  /\ search = NoSearch /\ end = from /\ result = NoResult
  /\ explored = <<>> /\ way = <<0, 0>> /\ kept = 0 /\ stages = 0 /\ walls = {}

(***************************************************************************)
(* The units of the work.                                                  *)
(***************************************************************************)
Length(points) == FoldLeft(LAMBDA sum, i : sum + Away(points[i - 1], points[i]), 0,
                           [i \in 1..Len(points) - 1 |-> i + 1])

\* Which endings are worth writing down.
WorthKeeping(r) ==
  \/ ~r.ok
  \/ r.exploring
  \/ ~r.reaches /\ Away(from, to) > kShortErrand /\ 4 * Length(r.points) < Away(from, to)

\* The work is over: whatever the result is by now stays, and what was seen is
\* written down unless one was a moment ago.
Finish(r) ==
  /\ result' = r /\ phase' = "done"
  /\ kept' \in {kept} \cup
       (IF WorthKeeping(r) /\ kept < kKeepAtMost /\ walls' # {} THEN {kept + 1} ELSE {})

Start ==
  /\ phase = "none" /\ stages < MaxStages
  /\ phase' = "layout" /\ stages' = stages + 1
  /\ grid' = [NoGrid EXCEPT !.ground = [c \in Cells |-> grid.ground[from]]]
  /\ queue' = <<>> /\ queueAt' = 1 /\ tries' = [c \in Readings |-> 0] /\ tiles' = {}
  /\ search' = NoSearch /\ end' = from /\ result' = NoResult /\ walls' = {}
  /\ UNCHANGED <<world, from, away, explored, way, kept>>

\* The world may not read at all; where it does, the box is laid out and the
\* tiles to paint are put down.
Layout ==
  /\ phase = "layout" /\ walls' = walls
  /\ \/ /\ Finish([result EXCEPT !.why = "the world does not read"])
        /\ UNCHANGED tiles
     \/ /\ phase' = "ground" /\ tiles' = 0..(W - 1) \div Stride
        /\ UNCHANGED <<result, kept>>
  /\ UNCHANGED <<world, journey, away, grid, reading, search, end>>

\* The square he stands in holds him up whatever a reading says of it.
Seeded ==
  LET seed == <<from[1] - (from[1] % Stride), from[2] - (from[2] % Stride)>>
      under == IF picture.floor[seed] = NoFloor THEN grid.ground[seed] ELSE picture.floor[seed]
  IN  /\ grid' = [grid EXCEPT !.known = {seed}, !.ground[seed] = under]
      /\ queue' = <<seed>> /\ UNCHANGED <<queueAt, tries>>

\* The readings a stride off which are still to be tried.
Untried(c) ==
  {n \in Readings \ grid.known :
     /\ Gap(n[1], c[1]) + Gap(n[2], c[2]) = Stride /\ (n[1] = c[1] \/ n[2] = c[2])
     /\ tries[n] < kGroundTries}

FloorNear(c, height) ==
  picture.floor[c] # NoFloor /\ Gap(picture.floor[c], height) <= kStepChain

\* East, west, north and south, the order they join the queue in.
Turned(c) == <<<<c[1] + Stride, c[2]>>, <<c[1] - Stride, c[2]>>,
               <<c[1], c[2] + Stride>>, <<c[1], c[2] - Stride>>>>

ReadRound(c) ==
  LET found == {n \in Untried(c) : FloorNear(n, grid.ground[c])}
  IN  /\ grid' = [grid EXCEPT !.known = @ \cup found,
                              !.ground = [n \in Cells |-> IF n \in found THEN picture.floor[n]
                                                          ELSE @[n]]]
      /\ tries' = [n \in Readings |-> IF n \in Untried(c) THEN tries[n] + 1 ELSE tries[n]]
      /\ queue' = queue \o SelectSeq(Turned(c), LAMBDA n : n \in found)
      /\ queueAt' = queueAt + 1

Ground ==
  /\ phase = "ground"
  /\ \/ queue = <<>> /\ Seeded /\ phase' = phase
     \/ queueAt <= Len(queue) /\ ReadRound(queue[queueAt]) /\ phase' = phase
     \/ /\ queue # <<>> /\ queueAt > Len(queue)
        /\ phase' = "paint" /\ UNCHANGED <<grid, reading>>
  /\ UNCHANGED <<world, journey, away, tiles, search, end, result, kept, walls>>

\* Where he got stuck is painted as well, unless he stands there or goes there.
InTheWay ==
  picture.solid \cup {s \in spots : Away(s, from) > kStuckKeepOut /\ Away(s, to) > kStuckKeepOut}

\* A tile that does not paint is passed over like one with nothing in it.
Paint ==
  /\ phase = "paint"
  /\ IF tiles = {} THEN phase' = "clearance" /\ away' = TRUE /\ UNCHANGED <<grid, tiles>>
     ELSE LET tile == Min(tiles)
          IN  /\ tiles' = tiles \ {tile}
              /\ \E painted \in {{}, {c \in InTheWay : c[1] \div Stride = tile}} :
                   grid' = [grid EXCEPT !.blocked = @ \cup painted]
              /\ UNCHANGED <<phase, away>>
  /\ UNCHANGED <<world, journey, reading, search, end, result, kept, walls>>

\* The nearest cell inside the box.
Clamp(n, side) == Max({0, Min({n, side - 1})})

\* The cell he stands in is opened whatever was painted over it, and where
\* nothing was read its ground stays the height he stands at.
Squeezed(g) ==
  [g EXCEPT !.blocked = @ \ {from}, !.known = @ \cup {from},
            !.clear[from] = Max({@, 3})]

Clearance ==
  /\ phase = "clearance"
  /\ \E marked \in {MarkLedges(SmoothBetweenReadings(grid))} :
       /\ grid' = Squeezed(Chamfer(marked))
       /\ walls' = Cells \ Passable(marked)
  /\ search' = StartSearch(from, <<Clamp(to[1], W), Clamp(to[2], H)>>, to)
  /\ phase' = "search"
  /\ UNCHANGED <<world, journey, away, reading, tiles, end, result, kept>>

(***************************************************************************)
(* Where the stage ends.                                                   *)
(***************************************************************************)
Index(c) == c[2] * W + c[1]
FirstOf(S) == CHOOSE c \in S : \A d \in S : Index(c) <= Index(d)

\* Cells it could walk to that are worth walking to.
Walkable == {c \in search.closed : Cost(search, c) > 0 /\ Away(c, from) >= kExploreLeast}
Been(c, keepOut) == \E i \in DOMAIN explored : Away(c, explored[i]) <= keepOut

Gained == Away(from, to) - Away(search.nearest, to)

\* Mutated form: as it would be if the fresh end were taken however near it is.
StageEndAnywhereFresh ==
  LET fresh == {c \in Walkable : ~Been(c, kStageKeepOut)}
  IN  IF explored # <<>> /\ fresh # {}
      THEN FirstOf({c \in fresh : \A d \in fresh : Away(c, to) <= Away(d, to)})
      ELSE SearchEnd(search)

\* Short of the target but nearer it: the nearest that is not where a stage
\* ended before, if that is nearer as well.
StageEnd ==
  LET fresh == {c \in Walkable : ~Been(c, kStageKeepOut)}
      best == FirstOf({c \in fresh : \A d \in fresh : Away(c, to) <= Away(d, to)})
  IN  IF explored # <<>> /\ fresh # {} /\ Away(best, to) < Away(from, to) - kProgressWanted
      THEN best ELSE SearchEnd(search)

\* How far a cell carries on the way he was exploring, in hundredths.
Along(c) ==
  LET dot == (c[1] - from[1]) * way[1] + (c[2] - from[2]) * way[2]
  IN  (dot * 1000000) \div (Away(c, from) * Away(<<0, 0>>, way))

Score(c) == Cost(search, c) * IF way = <<0, 0>> THEN 200 ELSE 200 + Along(c)

\* No nearer at all: the far end of what he can reach, on the way he was
\* exploring and off what he explored; failing that, the far end.
ExploringEnds ==
  LET ahead == {c \in Walkable : ~Been(c, kExploredKeepOut) /\ (way # <<0, 0>> => Along(c) >= 0)}
  IN  IF ahead # {} THEN {c \in ahead : \A d \in ahead : Score(c) >= Score(d)}
      ELSE {c \in Walkable : \A d \in Walkable : Cost(search, c) >= Cost(search, d)}

Search ==
  /\ phase = "search"
  /\ IF ~search.done
     THEN (\E top \in Tops(search) : search' = Expand(grid, search, top)) /\ UNCHANGED <<phase, end, result>>
     ELSE /\ phase' = "pull" /\ search' = search
          /\ IF search.reached THEN end' = search.goal /\ UNCHANGED result
             ELSE IF Gained >= kProgressWanted THEN end' = StageEnd /\ UNCHANGED result
             ELSE IF ExploringEnds = {} THEN end' = SearchEnd(search) /\ UNCHANGED result
             ELSE /\ end' = FirstOf(ExploringEnds)
                  /\ result' = [result EXCEPT !.exploring = TRUE]
  /\ UNCHANGED <<world, journey, away, grid, reading, tiles, kept, walls>>

\* The step a pulled line may take: a diagonal's.
PullStep == Min({MaxStep, (MaxGrade * Diagonal) \div 100})

\* Whether there is a way is asked of the search's own end, not of the stage's.
Pulled ==
  LET nearest == SearchEnd(search)
      reaches == search.reached /\ Away(nearest, to) < kAtTheTarget
      told == [result EXCEPT !.reaches = reaches, !.short = Away(nearest, to)]
      line == Pull(grid, CellsTo(search, end), PullStep)
  IN  IF nearest = from THEN [told EXCEPT !.why = "no way out of the start cell"]
      ELSE IF ~reaches /\ Away(nearest, from) < kPointlessRoute
      THEN [told EXCEPT !.why = "no way out of where he stands"]
      ELSE [told EXCEPT !.ok = TRUE,
                        !.points = [i \in DOMAIN line |->
                                      IF i = Len(line) /\ reaches THEN to ELSE line[i]]]

PullTight ==
  /\ phase = "pull" /\ walls' = walls /\ Finish(Pulled)
  /\ UNCHANGED <<world, journey, away, grid, reading, tiles, search, end>>

\* The game thread finds the worker through.
Return ==
  /\ phase = "done" /\ away /\ away' = FALSE
  /\ UNCHANGED <<world, journey, phase, grid, reading, tiles, search, end, result, kept, walls>>

(***************************************************************************)
(* What the planner makes of it, and the journey of that.                  *)
(***************************************************************************)
\* Field results good enough to walk.
Taken(r) ==
  /\ r.ok /\ Len(r.points) >= 2
  /\ \/ r.reaches
     \/ r.short <= kFieldShortOk
     \/ Length(r.points) >= kFieldStageMin
     \/ r.exploring
     \/ Length(r.points) >= kFieldStageLeast /\ r.short <= Away(from, to) - kFieldStageLeast

\* Where a stage ends is remembered unless it is all but remembered already,
\* and which way it went is remembered in any case.
RememberExplored(at) ==
  /\ way' = <<at[1] - from[1], at[2] - from[2]>>
  /\ explored' = IF \E i \in DOMAIN explored : Away(explored[i], at) < kSamePlace THEN explored
                 ELSE Append(IF Len(explored) >= kMaxExplored THEN Tail(explored) ELSE explored, at)

Walk ==
  /\ phase = "done" /\ ~away /\ Taken(result) /\ ~result.reaches
  /\ RememberExplored(end) /\ from' = end /\ phase' = "none"
  /\ UNCHANGED <<world, away, grid, reading, tiles, search, end, result, kept, stages, walls>>

Next == Start \/ Layout \/ Ground \/ Paint \/ Clearance \/ Search \/ PullTight \/ Return \/ Walk

Spec == Init /\ [][Next]_vars

(***************************************************************************)
(* What should hold.                                                       *)
(***************************************************************************)
\* Two passes over the cells give every cell its distance to the nearest thing
\* that is shut, or to the edge, as if it had been measured to each of them
\* (grid.cpp Chamfer; grid.hpp "chamfer 3-4, two passes, the edge of the grid
\* counted as solid").
ClearanceIsTheDistance ==
  phase = "pull" =>
    \A c \in Cells \ {from} : grid.clear[c] = DistanceToSolid(walls, c)

\* The search gets to the target's cell exactly when steps a body can take
\* lead there, and then by a cheapest way there is; and where it does not, it
\* has been everywhere he can walk and knows the nearest of it (grid.cpp
\* Searcher::Step; grid.hpp "when the goal is out of reach - remembers the
\* cell that came nearest to `aim`").
SearchFindsTheBest ==
  phase = "pull" =>
    LET costs == CheapestFrom(grid, from)
    IN  IF search.reached
        THEN /\ <<search.goal, search.best[search.goal]>> \in costs
             /\ LET cells == CellsTo(search, search.goal)
                IN  /\ Head(cells) = from
                    /\ \A i \in 2..Len(cells) : cells[i] \in StepsFrom(grid, cells[i - 1])
        ELSE /\ costs = {<<c, search.best[c]>> : c \in search.closed}
             /\ search.goal \notin search.closed
             /\ \A c \in search.closed : Away(search.nearest, to) <= Away(c, to)

\* A stage that ends short gets somewhere: nearer the target, or, for one that
\* explores, well away from where he stands (field.cpp kSearch "A stage that
\* ends where the last one started is the same ping-pong").
StageGetsSomewhere ==
  phase = "done" /\ result.ok /\ ~search.reached =>
    \/ Away(end, to) <= Away(from, to) - kProgressWanted
    \/ result.exploring /\ Away(end, from) >= kExploreLeast
    \/ Walkable = {}

\* Shut in where he stands nearest the target already, he is given the far end
\* of what he can reach (field.cpp kSearch "the nearest point of his pen to the
\* target is where he already stands - the route goes to the far end of the pen
\* instead").
ShutInExplores ==
  phase = "done" /\ result.exploring => result.ok
===============================================================================
