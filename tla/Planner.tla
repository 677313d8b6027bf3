-------------------------------- MODULE Planner --------------------------------
(***************************************************************************)
(* One route being worked out (nav/planner.cpp), a unit of work at a time  *)
(* on the game thread: the ends, the straight line, the field, the         *)
(* pavements joined at both ends and searched, the open ground, and what   *)
(* came of that pulled tight and checked.                                  *)
(*                                                                         *)
(* Of the ground a model knows nothing, so every question put to it may    *)
(* be answered either way each time (the world streams in and out between  *)
(* two steps).  What is modelled is the bookkeeping: which leg was walked  *)
(* in sampling, from which point, and what the plan says of it; what is    *)
(* left over from one search when the next begins; the field's grid, which *)
(* goes to a thread of its own (nav/field.cpp) and which the job that owns *)
(* it may not outlive; and the ends the whole module holds exempt from     *)
(* what it remembers, which any plan sets and any plan clears.             *)
(***************************************************************************)
EXTENDS Naturals, Sequences, FiniteSets

CONSTANTS
  Nodes,             \* ped nodes of the graph
  A, B,              \* where he stands, and where he is going
  Nowhere,
  kSmoothLookahead,
  kSmoothPasses,
  kMaxReplans,
  MaxRoute,          \* bound of the model: cells of a way over open ground
  MaxLooks,          \* bound of the model: units a search over open ground takes
  MaxPlans           \* bound of the model: times a journey asks for a plan

\* Points he may walk over besides: along a way over open ground, counted from
\* the start, and to one side of a line.
Cell(i) == <<"cell", i>>
Aside(from, to) == <<"aside", from, to>>

VARIABLES
  stage,      \* Job::stage, "none" without a job
  budget,     \* of calls and time: "plenty", past the "half" of it, "spent"
  \* the field and its thread
  field,      \* "none", "reading" on the game thread, "away"
  worker,     \* "idle", "searching", "finished"
  joining,    \* the game thread waits for the worker, to be rid of the job
  \* the pavements
  loaded,     \* graph_loaded
  startLeft,  \* start_candidates not tried yet
  goalLeft,   \* goal_candidates not tried yet
  joinBest,   \* join_best, Nowhere without join_have
  startNode,
  goalNode,
  astar,      \* "fresh" before astar_started, "failed" once it ran out
  banned,     \* edges, as sets of two nodes
  replans,
  \* the open ground
  lattice,    \* lattice_started
  looksLeft,  \* until kLatticeMaxCells
  wider,      \* lattice_attempt > 0
  toPavement, \* lattice_to_pavement
  prefix,     \* how many cells lead to the pavement
  \* the route
  tight,      \* points: [at, seen, from]: tight_verified, and as history the
              \*   point its leg was walked from
  pulled,
  smoothing,  \* smoothing_started
  pass, si, sj,
  legs,       \* plan.legs: [from, to, ok, verified], and as history walked
  ok,         \* plan.ok
  \* the module
  exempt,     \* whose ends g_exempt holds: "nobody", "journey", "tool"
  \* history
  plans,
  resumed     \* a way over open ground was pulled tight where another left off

fields == <<field, worker, joining>>
joins == <<loaded, startLeft, goalLeft, joinBest, startNode, goalNode>>
searches == <<astar, banned, replans>>
ground == <<lattice, looksLeft, wider, toPavement, prefix>>
route == <<tight, pulled, smoothing, pass, si, sj, resumed>>
plan == <<legs, ok>>
vars == <<stage, budget, fields, joins, searches, ground, route, plan, exempt,
          plans>>

Active == stage \notin {"none", "done"}
Spent == budget = "spent"

\* A new Job.
Afresh ==
  /\ budget' = "plenty" /\ field' = "none"
  /\ worker' = IF worker = "searching" THEN worker ELSE "idle"
  /\ loaded' = FALSE /\ startLeft' = {} /\ goalLeft' = {} /\ joinBest' = Nowhere
  /\ startNode' = Nowhere /\ goalNode' = Nowhere
  /\ astar' = "fresh" /\ banned' = {} /\ replans' = 0
  /\ lattice' = FALSE /\ looksLeft' = 0 /\ wider' = FALSE /\ toPavement' = FALSE
  /\ prefix' = 0
  /\ tight' = <<>> /\ pulled' = <<>> /\ smoothing' = FALSE
  /\ pass' = 0 /\ si' = 0 /\ sj' = 0 /\ resumed' = FALSE
  /\ legs' = <<>> /\ ok' = FALSE

Init ==
  /\ stage = "none" /\ budget = "plenty"
  /\ field = "none" /\ worker = "idle" /\ joining = FALSE
  /\ loaded = FALSE /\ startLeft = {} /\ goalLeft = {} /\ joinBest = Nowhere
  /\ startNode = Nowhere /\ goalNode = Nowhere
  /\ astar = "fresh" /\ banned = {} /\ replans = 0
  /\ lattice = FALSE /\ looksLeft = 0 /\ wider = FALSE /\ toPavement = FALSE
  /\ prefix = 0
  /\ tight = <<>> /\ pulled = <<>> /\ smoothing = FALSE
  /\ pass = 0 /\ si = 0 /\ sj = 0 /\ resumed = FALSE
  /\ legs = <<>> /\ ok = FALSE
  /\ exempt = "nobody" /\ plans = 0

-----------------------------------------------------------------------------
(* Beginning, and being rid of a job: with the job goes its field, whose   *)
(* end waits for the worker.                                               *)

\* Mutated form: the field goes with its worker still at it.
AloneAlways == TRUE
Alone == worker # "searching"

Start ==
  /\ ~joining /\ plans < MaxPlans /\ Alone
  /\ plans' = plans + 1 /\ stage' = "ends" /\ Afresh
  /\ UNCHANGED <<joining, exempt>>

Cancel ==
  /\ stage # "none"
  /\ exempt' = IF Active THEN "nobody" ELSE exempt
  /\ IF Alone
     THEN stage' = "none" /\ joining' = FALSE /\ Afresh /\ UNCHANGED plans
     ELSE /\ ~joining /\ joining' = TRUE
          /\ UNCHANGED <<stage, budget, field, worker, joins, searches, ground,
                         route, plan, plans>>

Finish == exempt' = "nobody"
Done(fine) == stage' = "done" /\ ok' = fine /\ Finish

-----------------------------------------------------------------------------
(* The first stages.                                                       *)

\* The ground at the end is looked for, and room to stand on it.
Ends ==
  /\ stage = "ends"
  /\ \/ Done(FALSE)
     \/ stage' = "direct" /\ exempt' = "journey" /\ UNCHANGED ok
  /\ UNCHANGED <<budget, fields, joins, searches, ground, route, legs, plans>>

Leg(from, to, fine, verified, walked) ==
  [from |-> from, to |-> to, ok |-> fine, verified |-> verified, walked |-> walked]

Direct ==
  /\ stage = "direct"
  /\ \/ legs' = <<Leg(A, B, TRUE, TRUE, TRUE)>> /\ Done(TRUE)
     \/ stage' = "field" /\ UNCHANGED <<legs, ok, exempt>>
  /\ UNCHANGED <<budget, fields, joins, searches, ground, route, plans>>

\* A route to the end, or a stage that gets somewhere; or the pavements, if
\* their graph was ever read, or the open ground.
FieldAnswers ==
  \/ legs' = <<Leg(A, B, TRUE, TRUE, TRUE)>> /\ Done(TRUE)
  \/ stage' \in {"joinStart", "lattice"} /\ UNCHANGED <<legs, ok, exempt>>

\* Field::Step: the world is read on the game thread, the grid then searched
\* on another, and the answer taken when that one says so.
FieldStage ==
  /\ stage = "field"
  /\ \/ field = "none" /\ field' = "reading" /\ UNCHANGED <<stage, plan, exempt, worker>>
     \/ field = "reading" /\ FieldAnswers /\ UNCHANGED <<field, worker>>
     \/ /\ field = "reading" /\ field' = "away" /\ worker' = "searching"
        /\ UNCHANGED <<stage, plan, exempt>>
     \/ /\ field = "away" /\ worker = "finished"
        /\ field' = "reading" /\ worker' = "idle" /\ FieldAnswers
  /\ UNCHANGED <<budget, joining, joins, searches, ground, route, plans>>

Search ==
  /\ worker = "searching" /\ worker' = "finished"
  /\ UNCHANGED <<stage, budget, field, joining, joins, searches, ground, route,
                 plan, exempt, plans>>

-----------------------------------------------------------------------------
(* The pavements.                                                          *)

Load ==
  /\ stage = "joinStart" /\ ~loaded /\ loaded' = TRUE
  /\ startLeft' \in SUBSET Nodes /\ goalLeft' \in SUBSET Nodes
  /\ UNCHANGED <<stage, joinBest, startNode, goalNode, toPavement>>

\* The graph cannot be read.
NoGraph ==
  /\ stage = "joinStart" /\ ~loaded /\ loaded' = TRUE /\ stage' = "lattice"
  /\ UNCHANGED <<startLeft, goalLeft, joinBest, startNode, goalNode, toPavement>>

\* Weighed with what is left to walk after it: every candidate is tried.
JoinStart ==
  /\ stage = "joinStart" /\ loaded
  /\ \/ /\ startLeft # {} /\ ~Spent
        /\ \E node \in startLeft :
             /\ startLeft' = startLeft \ {node}
             /\ joinBest' \in {joinBest, node}
        /\ UNCHANGED <<stage, goalLeft, startNode, toPavement>>
     \/ /\ startLeft = {} \/ Spent
        /\ IF joinBest # Nowhere
           THEN /\ startNode' = joinBest /\ joinBest' = Nowhere /\ stage' = "joinGoal"
                /\ UNCHANGED <<startLeft, goalLeft, toPavement>>
           ELSE /\ toPavement' = TRUE /\ stage' = "lattice"
                /\ UNCHANGED <<startLeft, goalLeft, joinBest, startNode>>
  /\ UNCHANGED <<loaded, goalNode>>

\* The first that needs no more than walking, or else the cheapest.
JoinGoal ==
  /\ stage = "joinGoal"
  /\ \/ /\ goalLeft # {} /\ ~Spent
        /\ \E node \in goalLeft :
             /\ goalLeft' = goalLeft \ {node}
             /\ \/ goalNode' = node /\ joinBest' = Nowhere /\ stage' = "astar"
                \/ joinBest' \in {joinBest, node} /\ UNCHANGED <<goalNode, stage>>
     \/ /\ goalLeft = {} \/ Spent
        /\ IF joinBest # Nowhere
           THEN goalNode' = joinBest /\ joinBest' = Nowhere /\ stage' = "astar"
           ELSE stage' = "lattice" /\ UNCHANGED <<goalNode, joinBest>>
        /\ UNCHANGED goalLeft
  /\ UNCHANGED <<loaded, startLeft, startNode, toPavement>>

Joining ==
  /\ Load \/ NoGraph \/ JoinStart \/ JoinGoal
  /\ UNCHANGED <<budget, fields, searches, lattice, looksLeft, wider, prefix, route,
                 plan, exempt, plans>>

-----------------------------------------------------------------------------
(* A route found, as points to be pulled tight.                            *)

Point(at) == [at |-> at, seen |-> FALSE, from |-> Nowhere]
Walked(at, from) == [at |-> at, seen |-> TRUE, from |-> from]
\* The cells of a way over open ground, each step of it walked in searching.
OverCells(n) == [i \in 1..n |-> Walked(Cell(i), IF i = 1 THEN A ELSE Cell(i - 1))]

\* Ways through the nodes that use no banned edge.
Paths ==
  {p \in UNION {[1..n -> Nodes] : n \in 1..Cardinality(Nodes)} :
     /\ p[1] = startNode /\ p[Len(p)] = goalNode
     /\ \A i, j \in DOMAIN p : p[i] = p[j] => i = j
     /\ \A i \in 1..(Len(p) - 1) : {p[i], p[i + 1]} \notin banned}

\* The first leg and the last were walked to join; the pavements between are
\* believed.
RouteFromAStar(path) ==
  /\ tight' = <<Point(A)>> \o OverCells(prefix)
                \o <<Walked(path[1], IF prefix = 0 THEN A ELSE Cell(prefix))>>
                \o [i \in 1..(Len(path) - 1) |-> Point(path[i + 1])]
                \o <<Walked(B, goalNode)>>
  /\ smoothing' = FALSE /\ pass' = 0 /\ stage' = "smooth"
  /\ UNCHANGED <<pulled, si, sj, resumed>>

\* A search that ran out is not begun again, with whatever it is joined to.
AStar ==
  /\ stage = "astar"
  /\ \/ astar = "fresh" /\ \E path \in Paths : RouteFromAStar(path) /\ UNCHANGED astar
     \/ astar' = "failed" /\ stage' = "lattice" /\ UNCHANGED route
  /\ UNCHANGED <<budget, fields, joins, banned, replans, ground, plan, exempt, plans>>

\* Back to the search without the edge that failed.
ReplanWithout == stage' = "astar" /\ legs' = <<>>

-----------------------------------------------------------------------------
(* The open ground.                                                        *)

ResetLattice == lattice' = FALSE /\ looksLeft' = 0

\* Smoothing that was begun for another route is not begun again.
RouteFromLattice(n) ==
  /\ tight' = <<Point(A)>> \o OverCells(n) \o <<Point(B)>>
  /\ stage' = "smooth" /\ resumed' = (resumed \/ smoothing)
  /\ UNCHANGED <<pulled, smoothing, pass, si, sj>>

\* Mutated form: the search may always be made wider.
WiderAgain == wider' \in BOOLEAN
Wider == wider' = TRUE

\* No way on, or as many cells as there may be.
LatticeEnds(exhausted) ==
  IF toPavement
  THEN toPavement' = FALSE /\ wider' = FALSE /\ ResetLattice /\ UNCHANGED <<stage, ok, exempt>>
  ELSE IF exhausted /\ ~wider
  THEN Wider /\ ResetLattice /\ UNCHANGED <<toPavement, stage, ok, exempt>>
  ELSE Done(FALSE) /\ UNCHANGED <<lattice, looksLeft, wider, toPavement>>

LatticeStarts ==
  /\ stage = "lattice" /\ ~lattice
  /\ lattice' = TRUE /\ looksLeft' = MaxLooks
  /\ UNCHANGED <<stage, ok, exempt, wider, toPavement, prefix, startNode, route>>

LatticeStops ==
  /\ stage = "lattice" /\ lattice
  /\ \/ LatticeEnds(TRUE)
     \/ (looksLeft = 0 \/ Spent) /\ LatticeEnds(FALSE)
  /\ UNCHANGED <<prefix, startNode, route>>

LatticeLooks ==
  /\ stage = "lattice" /\ lattice /\ looksLeft > 0 /\ ~Spent
  /\ looksLeft' = looksLeft - 1
  /\ \/ UNCHANGED <<stage, prefix, startNode, route>>
     \/ /\ toPavement
        /\ \E n \in 1..MaxRoute, node \in Nodes :
             prefix' = n /\ startNode' = node /\ stage' = "joinGoal"
        /\ UNCHANGED route
     \/ /\ ~toPavement
        /\ \E n \in 0..MaxRoute : RouteFromLattice(n)
        /\ UNCHANGED <<prefix, startNode>>
  /\ UNCHANGED <<lattice, wider, toPavement, ok, exempt>>

Lattice ==
  /\ LatticeStarts \/ LatticeStops \/ LatticeLooks
  /\ UNCHANGED <<budget, fields, loaded, startLeft, goalLeft, joinBest, goalNode,
                 searches, legs, plans>>

-----------------------------------------------------------------------------
(* Pulling tight.                                                          *)

Furthest(i) ==
  IF i + 1 + kSmoothLookahead < Len(tight) THEN i + 1 + kSmoothLookahead ELSE Len(tight)

\* The smoothing under way: begun, where it was not.
Pulled == IF smoothing THEN pulled ELSE <<Point(tight[1].at)>>
I == IF smoothing THEN si ELSE 1
J == IF smoothing THEN sj ELSE Furthest(1)

\* Mutated form: a leg that replaces others is seen if the last of them was.
TakeBelieving(point, from) == point
\* A leg that was just walked.
Take(point, from) == Walked(point.at, from)

\* All points passed: once more, or on to the checking.
PassEnds ==
  /\ I >= Len(tight)
  /\ tight' = Pulled /\ pass' = pass + 1
  /\ IF Len(Pulled) = Len(tight) \/ pass + 1 >= kSmoothPasses \/ Len(Pulled) <= 2
     THEN stage' = "verify" /\ pulled' = Pulled /\ si' = I /\ sj' = J
     ELSE /\ pulled' = <<Point(Pulled[1].at)>> /\ si' = 1
          /\ sj' = LET n == 2 + kSmoothLookahead
                   IN IF n < Len(Pulled) THEN n ELSE Len(Pulled)
          /\ UNCHANGED stage

\* No shortcut: the next point as it was.
KeepNext ==
  /\ I < Len(tight) /\ J <= I + 1
  /\ pulled' = Append(Pulled, tight[I + 1])
  /\ si' = I + 1 /\ sj' = Furthest(I + 1)

\* The line between two of them is walked, bent round one thin thing, or not
\* to be had.
Shortcut ==
  /\ I < Len(tight) /\ J > I + 1
  /\ LET from == tight[I].at
         to == tight[J]
     IN \/ /\ ~Spent
           /\ \/ pulled' = Append(Pulled, Take(to, from))
              \/ pulled' = Pulled \o <<Walked(Aside(from, to.at), from),
                                       Take(to, Aside(from, to.at))>>
           /\ si' = J /\ sj' = Furthest(J)
        \/ sj' = J - 1 /\ si' = I /\ pulled' = Pulled

Smooth ==
  /\ stage = "smooth" /\ smoothing' = TRUE
  /\ \/ PassEnds
     \/ (KeepNext \/ Shortcut) /\ UNCHANGED <<tight, pass, stage>>
  /\ UNCHANGED <<budget, fields, joins, searches, ground, resumed, plan, exempt, plans>>

-----------------------------------------------------------------------------
(* Checking what was not walked yet.                                       *)

\* The legs checked so far are as many as plan.legs holds.
K == Len(legs) + 2

Checked ==
  LET to == tight[K]
      from == tight[K - 1].at
  IN IF to.seen THEN {Leg(from, to.at, TRUE, TRUE, to.from = from)}
     ELSE IF Spent THEN {Leg(from, to.at, TRUE, FALSE, FALSE)}
     ELSE {Leg(from, to.at, fine, TRUE, TRUE) : fine \in BOOLEAN}

\* An edge of the graph he cannot walk, while there is budget for a search.
Ban(leg) ==
  ~leg.ok /\ {leg.from, leg.to} \subseteq Nodes /\ replans < kMaxReplans /\ budget = "plenty"

Verify ==
  /\ stage = "verify"
  /\ IF K > Len(tight)
     THEN Done(TRUE) /\ UNCHANGED <<legs, searches>>
     ELSE \E leg \in Checked :
            /\ IF Ban(leg)
               THEN /\ banned' = banned \cup {{leg.from, leg.to}}
                    /\ replans' = replans + 1 /\ astar' = "fresh" /\ ReplanWithout
               ELSE legs' = Append(legs, leg) /\ UNCHANGED <<searches, stage>>
            /\ UNCHANGED <<ok, exempt>>
  /\ UNCHANGED <<budget, fields, joins, ground, route, plans>>

-----------------------------------------------------------------------------
(* Steps and what else happens.                                            *)

StepOnce ==
  /\ ~joining
  /\ Ends \/ Direct \/ FieldStage \/ Joining \/ AStar \/ Lattice \/ Smooth \/ Verify

\* Planner::Step, when the game's answers are not to be trusted any more.
Distrust ==
  /\ Active /\ ~joining /\ Done(FALSE)
  /\ UNCHANGED <<budget, fields, joins, searches, ground, route, legs, plans>>

\* Calls are used up and time goes by.
BudgetRuns ==
  /\ Active /\ stage # "ends" /\ budget # "spent"
  /\ budget' \in {"half", "spent"} \ {budget}
  /\ UNCHANGED <<stage, fields, joins, searches, ground, route, plan, exempt, plans>>

\* PlanPath, for a tool or the panel, in one go on the game thread: finished,
\* or given up on after half a second.
PlanPath ==
  /\ ~joining /\ exempt' \in {"nobody", "tool"}
  /\ UNCHANGED <<stage, budget, fields, joins, searches, ground, route, plan, plans>>

Next ==
  \/ Start \/ Cancel \/ StepOnce \/ Search \/ Distrust \/ BudgetRuns \/ PlanPath

Spec == Init /\ [][Next]_vars

\* Frames come and with them calls into the game; the worker's search is
\* finite; a thread waited for is waited for.
Fairness ==
  /\ WF_vars(StepOnce) /\ WF_vars(Search) /\ WF_vars(joining /\ Cancel)
FairSpec == Spec /\ Fairness

-----------------------------------------------------------------------------
Stages == {"none", "ends", "direct", "field", "joinStart", "joinGoal", "astar",
           "lattice", "smooth", "verify", "done"}

\* Every variable keeps its type.
TypeOK ==
  /\ stage \in Stages /\ budget \in {"plenty", "half", "spent"}
  /\ field \in {"none", "reading", "away"} /\ worker \in {"idle", "searching", "finished"}
  /\ joining \in BOOLEAN /\ loaded \in BOOLEAN
  /\ startLeft \in SUBSET Nodes /\ goalLeft \in SUBSET Nodes
  /\ {joinBest, startNode, goalNode} \subseteq Nodes \cup {Nowhere}
  /\ astar \in {"fresh", "failed"} /\ replans \in 0..kMaxReplans
  /\ banned \in SUBSET {{m, n} : m, n \in Nodes}
  /\ {lattice, wider, toPavement, smoothing, resumed, ok} \subseteq BOOLEAN
  /\ looksLeft \in 0..MaxLooks /\ prefix \in 0..MaxRoute
  /\ exempt \in {"nobody", "journey", "tool"} /\ plans \in 0..MaxPlans

\* What a plan says was walked was walked, from the point the leg begins at,
\* and its legs are its way points in order (planner.cpp:549-550, "verified[k]
\* says the leg that ends at point k has been walked in sampling"): unless a
\* way over open ground was pulled tight where the pavements' left off.
VerifiedWasWalked ==
  stage = "done" /\ ok /\ tight # <<>> =>
    /\ Len(legs) = Len(tight) - 1
    /\ \A k \in DOMAIN legs :
         /\ legs[k].from = tight[k].at /\ legs[k].to = tight[k + 1].at
         /\ legs[k].verified => legs[k].walked \/ resumed

\* The grid is there as long as somebody searches it (field.cpp:245-249).
GridOutlivesItsSearch == worker = "searching" => stage # "none" /\ field = "away"

\* Every plan ends, whatever is left over from one search when the next
\* begins: the wider search is made once, a pavement found starts no search
\* that has run out, and an edge is given up for good.
PlansEnd == Active ~> ~Active

\* An edge found impassable and given up is in no route that is found after
\* (planner.cpp:960-961, "Back to the search without the edge that failed,
\* everything after the search forgotten").
EdgeGivenUp ==
  stage = "done" /\ ok => \A k \in DOMAIN legs : {legs[k].from, legs[k].to} \notin banned
=============================================================================
