-------------------------------- MODULE MCGround --------------------------------
\* Ways over the ground, each kind on its own: a route worked out for a journey,
\* a journey staged over the field, a way over the map's nodes, a way over what he
\* has walked, and the way out of a room.
EXTENDS Field

CONSTANTS
  Cities, kWholeMapAreas, Places, kSewSquare, kSewRings, kSewRiseCosts,
  kCorridorJoin, kCorridorReach, kMinCorridorStep, kCorridorAhead, kJoinRadius, MaxErrands,
  Squares, Questions, Far(_, _), CutStep(_), CutSquare(_),
  kStepAtMost, kNearEnough, kMaxVisited, kSaveEvery, MaxSteps, MaxStepsTorn, MaxLives,
  n1, n2, A, B, Nowhere, kSmoothLookahead, kSmoothPasses, kMaxReplans,
  MaxRoute, MaxLooks, MaxPlans,
  Side, Rooms, kDoorOpen, kPickupDisc, kSqueezeOut, kBeside, kThinned

\* How far ahead smoothing looks and how long a way is are numbers.
ASSUME GroundAssumption == kSmoothLookahead \in Nat /\ MaxRoute \in Nat

\* He is on his own map (indoors.cpp:176-179), and where things are is told in
\* squares.
ASSUME RoomAssumption ==
  /\ Side \in Nat /\ {kDoorOpen, kPickupDisc, kSqueezeOut, kBeside} \subseteq Nat
  /\ \A r \in Rooms :
       /\ r.from \in (0..(Side - 1)) \X (0..(Side - 1)) /\ r.towards \in Int \X Int
       /\ r.pickups \subseteq Int \X Int

\* A city is finitely many nodes at whole places, links between them and areas of
\* them.
ASSUME CityAssumption ==
  \A c \in Cities :
    /\ IsFiniteSet(c.nodes) /\ c.at \in [c.nodes -> Int \X Int]
    /\ c.links \subseteq c.nodes \X c.nodes /\ \A a \in c.areas : a \subseteq c.nodes

VARIABLES
  what,                                                      \* what the way is over
  city, areas, sewn, mainland, islands, doing, here, there,  \* Ways
  over, start, goal, cost, came, open, outcome, found, point, errands,
  up, map, last, loaded, dirty, sinceSave, file, route,      \* Trail
  asked, steps, lives, stepped, torn,
  stage, budget, field, worker, joining, graph, startLeft,   \* Planner
  goalLeft, joinBest, startNode, goalNode, astar, banned,
  replans, lattice, looksLeft, wider, toPavement, prefix,
  tight, pulled, smoothing, pass, si, sj, legs, ok, exempt,
  plans, resumed,
  room, blocked, reached, cameFrom, flood, best, points      \* Room

planvars == <<stage, budget, field, worker, joining, graph, startLeft, goalLeft, joinBest,
              startNode, goalNode, astar, banned, replans, lattice, looksLeft, wider,
              toPavement, prefix, tight, pulled, smoothing, pass, si, sj, legs, ok,
              exempt, plans, resumed>>
waysvars == <<city, areas, sewn, mainland, islands, doing, here, there, over, start, goal,
              cost, came, open, outcome, found, point, errands>>
trailvars == <<up, map, last, loaded, dirty, sinceSave, file, route, asked, steps, lives,
               stepped, torn>>

roomvars == <<room, blocked, reached, cameFrom, flood, best, points>>

OnTheMap == INSTANCE Ways WITH from <- here, to <- there, way <- found
Trodden == INSTANCE Trail
Planning == INSTANCE Planner WITH Nodes <- {n1, n2}, loaded <- graph
Indoors == INSTANCE Room WITH queue <- flood

\* What may come to be on record: squares he stands in, and what is left of them
\* where the file was cut off.
Legible == Squares \cup UNION {CutStep(s) \cup CutSquare(s) : s \in Squares}

\* Squares are as far apart as things are, in metres (trail.cpp:68-74), there are
\* so many, and what is left of what is left of one is left of it.
ASSUME TrailAssumption ==
  /\ IsFiniteSet(Legible) /\ kNearEnough \in Nat
  /\ \A s \in Legible : CutStep(s) \cup CutSquare(s) \subseteq Legible
  /\ \A a, b \in Legible : Far(a, b) \in Nat /\ (Far(a, b) = 0 <=> a = b)
  /\ \A a, b, c \in Legible : Far(a, c) <= Far(a, b) + Far(b, c)
  /\ \A q \in Questions : q = <<q[1], q[2]>>

\* What nothing happens to stands still at one of its beginnings.
GroundInit ==
  /\ what \in {"plan", "field", "nodes", "trail", "room"}
  /\ what # "field" => picture = CHOOSE p \in Pictures : TRUE
  /\ what # "nodes" => city = CHOOSE c \in Cities : TRUE
  /\ Init /\ OnTheMap!Init /\ Trodden!Init /\ Planning!Init /\ Indoors!Init
  /\ what # "room" => room = CHOOSE r \in Rooms : TRUE
  /\ what # "field" => spots = {} /\ to = CHOOSE t \in Targets : TRUE

GroundNext ==
  /\ UNCHANGED what
  /\ \/ what = "field" /\ Next /\ UNCHANGED <<waysvars, trailvars, planvars, roomvars>>
     \/ what = "nodes" /\ OnTheMap!Next /\ UNCHANGED <<vars, trailvars, planvars, roomvars>>
     \/ what = "trail" /\ Trodden!Next /\ UNCHANGED <<vars, waysvars, planvars, roomvars>>
     \/ what = "plan" /\ Planning!Next /\ UNCHANGED <<vars, waysvars, trailvars, roomvars>>
     \/ what = "room" /\ Indoors!Next /\ UNCHANGED <<vars, waysvars, trailvars, planvars>>

GroundSpec ==
  /\ GroundInit /\ [][GroundNext]_<<what, vars, waysvars, trailvars, planvars, roomvars>>
  /\ WF_planvars(Planning!StepOnce) /\ WF_planvars(Planning!Search)
  /\ WF_planvars(joining /\ Planning!Cancel)

\* A way over nodes is made of links and as short as any (Ways).
WayIsTheShortest == OnTheMap!WayIsTheShortest

\* A way over what he has walked was walked (Trail).
WaysWereWalked == Trodden!WaysWereWalked

\* A cut off file invents nothing (Trail).
NothingInvented == Trodden!NothingInvented

\* What a plan says was walked was walked (Planner).
VerifiedWasWalked == Planning!VerifiedWasWalked

\* The grid is there as long as somebody searches it (Planner).
GridOutlivesItsSearch == Planning!GridOutlivesItsSearch

\* He is taken as near to where he was going as the room allows (Room).
RoomIsUsed == Indoors!RoomIsUsed

\* Every plan ends (Planner).
PlansEnd == Planning!PlansEnd

(***************************************************************************)
(* The field: floors under its four readings - level, a ramp he can walk   *)
(* up, one too steep to walk straight up, a spiral that ends at a drop,    *)
(* one with no floor - with two cells that are shut on the ramps, one at   *)
(* the drops, and up to three where the ground is level.                   *)
(***************************************************************************)
Floor(a, b, c, d) ==
  [r \in Readings |-> IF r = <<0, 0>> THEN a ELSE IF r = <<2, 0>> THEN b
                      ELSE IF r = <<0, 2>> THEN c ELSE d]
Level == Floor(0, 0, 0, 0)
Ramps == {Floor(0, 192, 0, 192), Floor(0, 240, 0, 240)}
Drops == {Floor(0, 600, 1200, 1200), Floor(0, NoFloor, 0, 0)}
MCSolids == {s \in SUBSET {<<1, 0>>, <<1, 1>>, <<1, 2>>, <<2, 1>>} : Cardinality(s) <= 2}
              \cup {{<<1, 0>>, <<1, 1>>, <<1, 2>>}, {<<1, 0>>, <<1, 1>>, <<0, 1>>}}
MCPictures ==
  {[floor |-> Level, solid |-> s] : s \in MCSolids}
    \cup {[floor |-> f, solid |-> s] : f \in Ramps, s \in {t \in MCSolids : Cardinality(t) = 2}}
    \cup {[floor |-> f, solid |-> s] : f \in Drops, s \in {t \in MCSolids : Cardinality(t) = 1}}
MCStarts == {<<0, 0>>}
MCTargets == {<<3, 2>>, <<0, 2>>, <<7, 1>>}
MCSpots == {<<2, 2>>}

(***************************************************************************)
(* The map: a pavement and a street of its own with two roads between      *)
(* them, and a yard.                                                       *)
(***************************************************************************)
At == [a |-> <<0, 0>>, b |-> <<3, 0>>, r |-> <<4, 3>>, s |-> <<6, 2>>, c |-> <<7, 0>>, y |-> <<5, 4>>]
Both(m, n) == {<<m, n>>, <<n, m>>}
Others == {Both("a", "b"), Both("b", "r"), Both("r", "s"), Both("r", "y"), Both("a", "y"), {<<"c", "b">>}}
MCCities ==
  {[nodes |-> DOMAIN At, at |-> At, rise |-> [n \in DOMAIN At |-> IF n = "y" THEN 1 ELSE 0],
    ped |-> {"a", "b", "c", "y"}, links |-> Both("s", "c") \cup UNION l,
    areas |-> {{"a", "b", "r", "y"}, {"s", "c"}}] : l \in SUBSET Others}
MCPlaces == {<<0, 0>>, <<7, 0>>}

(***************************************************************************)
(* What he walked: a corridor on one storey and a square of the next; what *)
(* is left of a storey's number is the number of another.                  *)
(***************************************************************************)
MCSquares == {<<1, 12>>, <<2, 12>>, <<4, 12>>, <<2, 13>>}
MCQuestions == {<<<<1, 12>>, <<4, 12>>>>, <<<<4, 12>>, <<1, 12>>>>, <<<<2, 12>>, <<2, 13>>>>}
MCFar(a, b) == Gap(a[1], b[1]) + 3 * Gap(a[2], b[2])
MCCutStep(s) == IF s[2] > 9 THEN {<<s[1], s[2] \div 10>>} ELSE {}
MCCutSquare(s) == MCCutStep(s) \cup {<<s[1], 0>>, <<0, 0>>}

(***************************************************************************)
(* A room with a wall across it that has a gap, a door, a corner two walls *)
(* meet at, or nothing; a hole in the floor; pickups on the way, at the    *)
(* door and where he was sent.                                             *)
(***************************************************************************)
Wall == {2} \X (0..4)
MCRooms ==
  {[solid |-> s, noFloor |-> f, doors |-> d, pickups |-> p, from |-> <<0, 1>>, towards |-> t] :
     s \in {Wall, Wall \ {<<2, 0>>}, Wall \ {<<2, 4>>}, {<<1, 4>>, <<2, 3>>, <<3, 2>>, <<4, 1>>}, {}},
     f \in {{}, {<<3, 1>>, <<3, 2>>}}, d \in {{}, {<<2, 2>>}},
     p \in {{}, {<<2, 1>>}, {<<1, 3>>, <<4, 4>>}}, t \in {<<4, 4>>, <<4, 0>>}}
===============================================================================
