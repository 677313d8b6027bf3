---------------------------------- MODULE Ways ----------------------------------
(***************************************************************************)
(* Ways over the map's own nodes: the corridor a long walk is staged along *)
(* (nav/planner.cpp CorridorPoint) and the road a car is driven along      *)
(* (nav/roads.cpp RoadRoute).  A corridor may take pavements and roads     *)
(* alike, over a copy of the graph that is sewn into one piece first       *)
(* (SewTheCityTogether); a road keeps to the roads as they are now.        *)
(*                                                                         *)
(* A city is a record: where its nodes are, which are pavements, and which *)
(* are linked.  A place is <<x, y>> and how far it is from another is      *)
(* taken along the two axes, which keeps what the searches need of it:     *)
(* that no way is shorter than straight there.  All of it happens on the   *)
(* game thread, the copy and each search in one go.                        *)
(***************************************************************************)
EXTENDS Integers, Sequences, FiniteSets, SequencesExt, FiniteSetsExt

CONSTANTS
  Cities,        \* [nodes, at, rise, ped, links, areas]: the areas are sets of nodes
  kWholeMapAreas,
  Places,        \* where an errand may begin and end
  kSewSquare, kSewRings, kSewRiseCosts,
  kCorridorJoin, kCorridorReach, kMinCorridorStep, kCorridorAhead,
  kJoinRadius,
  MaxErrands     \* bound of the model

VARIABLES
  city,
  areas,      \* of g_corridor_graph, {} while there is no copy
  sewn,       \* g_sewn
  mainland,   \* sewing: nodes taken in so far
  islands,    \* sewing: the pieces still to be taken in
  doing,      \* "nothing", "sewing", "corridor", "road"
  from, to,
  over,       \* the nodes and links of the search in hand
  start, goal,
  cost, came, \* best and came
  open,       \* the queue: [f, at]
  outcome,    \* what came of it: "found", "none", "refused"; "" while it is looked for
  way,
  point,      \* the node a journey is staged at, {} without one
  errands

vars == <<city, areas, sewn, mainland, islands, doing, from, to, over, start, goal,
          cost, came, open, outcome, way, point, errands>>
sewing == <<areas, sewn, mainland, islands>>
search == <<over, start, goal, cost, came, open>>
answer == <<outcome, way, point>>

Gap(m, n) == IF m < n THEN n - m ELSE m - n
Away(a, b) == Gap(a[1], b[1]) + Gap(a[2], b[2])
Between(m, n) == Away(city.at[m], city.at[n])

Nothing == [nodes |-> {}, links |-> {}]

copy == UNION areas

Init ==
  /\ city \in Cities /\ areas = {} /\ sewn = {} /\ mainland = {} /\ islands = {}
  /\ doing = "nothing" /\ from \in {CHOOSE p \in Places : TRUE} /\ to = from
  /\ over = Nothing /\ start \in {CHOOSE n \in city.nodes : TRUE} /\ goal = start
  /\ cost = <<>> /\ came = <<>> /\ open = {}
  /\ outcome = "" /\ way = <<>> /\ point = {} /\ errands = 0

LinksIn(nodes) == city.links \cap (nodes \X nodes)

(***************************************************************************)
(* The copy, and sewing it together.                                       *)
(***************************************************************************)
Joined(links, nodes) == {n \in UNION {{l[1], l[2]} : l \in links} : \E l \in links :
                            \/ l[1] = n /\ l[2] \in nodes
                            \/ l[2] = n /\ l[1] \in nodes}

\* The piece of the map a node is in, whichever way its links point.
IslandOf(n, links) ==
  FoldLeft(LAMBDA piece, i : piece \cup Joined(links, piece), {n},
           [i \in 1..Cardinality(city.nodes) |-> i])

Pieces(nodes) == {IslandOf(n, LinksIn(nodes)) : n \in nodes}

\* A copy is taken while there is none, and again as long as the last was not
\* the whole map; the biggest piece of it is the mainland.
Copy ==
  /\ doing = "nothing" /\ errands < MaxErrands
  /\ Cardinality(areas) < kWholeMapAreas
  /\ areas' \in SUBSET city.areas \ {areas, {}}
  /\ LET pieces == Pieces(UNION areas')
     IN  \E main \in {p \in pieces : \A q \in pieces : Cardinality(p) >= Cardinality(q)} :
           mainland' = main /\ islands' = pieces \ {main}
  /\ sewn' = {} /\ doing' = "sewing"
  /\ UNCHANGED <<city, from, to, search, answer, errands>>

Square(n) == <<city.at[n][1] \div kSewSquare, city.at[n][2] \div kSewSquare>>
RingOf(m, n) == Max({Gap(Square(m)[1], Square(n)[1]), Gap(Square(m)[2], Square(n)[2])})

\* What of the mainland a node is matched with: everything in the first ring of
\* squares round its own that holds any.
InTheFirstRing(n) ==
  LET rings == {r \in 1..kSewRings : \E m \in mainland : RingOf(n, m) = r}
  IN  {m \in mainland : rings # {} /\ RingOf(n, m) = Min(rings)}

Stitches(island) == {s \in island \X mainland : s[2] \in InTheFirstRing(s[1])}
Length(s) == Between(s[1], s[2]) + Gap(city.rise[s[1]], city.rise[s[2]]) * kSewRiseCosts

\* The biggest piece left is stitched to the mainland where the two are closest,
\* and is part of the mainland from then on, stitched or not.
Sew ==
  /\ doing = "sewing" /\ islands # {}
  /\ \E island \in {i \in islands : \A j \in islands : Cardinality(i) >= Cardinality(j)} :
       /\ IF Stitches(island) = {} THEN sewn' = sewn
          ELSE \E s \in {p \in Stitches(island) : \A q \in Stitches(island) : Length(p) <= Length(q)} :
                 sewn' = sewn \cup {s, <<s[2], s[1]>>}
       /\ mainland' = mainland \cup island /\ islands' = islands \ {island}
  /\ UNCHANGED <<city, areas, doing, from, to, search, answer, errands>>

Sewn ==
  /\ doing = "sewing" /\ islands = {} /\ doing' = "nothing"
  /\ UNCHANGED <<city, sewing, from, to, search, answer, errands>>

(***************************************************************************)
(* A search.                                                               *)
(***************************************************************************)
Near(nodes, place, reach) == {n \in nodes : Away(city.at[n], place) <= reach}
Nearest(nodes, place) ==
  {n \in nodes : \A m \in nodes : Away(city.at[n], place) <= Away(city.at[m], place)}

\* The nodes an end may be joined at: a pavement near by, else a road further off.
Ends(nodes, place) ==
  LET pavements == Near(nodes \cap city.ped, place, kCorridorJoin)
  IN  Nearest(IF pavements # {} THEN pavements
              ELSE Near(nodes \ city.ped, place, kCorridorReach), place)

Begin(what, nodes, links, s, g) ==
  /\ doing' = what /\ over' = [nodes |-> nodes, links |-> links]
  /\ start' = s /\ goal' = g
  /\ cost' = [n \in {s} |-> 0] /\ came' = <<>>
  /\ open' = {[f |-> Between(s, g), at |-> s]}
  /\ outcome' = "" /\ way' = <<>> /\ point' = {}

Refuse == outcome' = "refused" /\ way' = <<>> /\ point' = {} /\ UNCHANGED <<doing, search>>

\* The journey asks again from where its last stage ended, or another begins.
Errand ==
  \/ point # {} /\ from' \in {city.at[n] : n \in point} /\ to' = to
  \/ from' \in Places /\ to' \in Places

Corridor ==
  /\ doing = "nothing" /\ copy # {} /\ errands < MaxErrands /\ errands' = errands + 1
  /\ Errand
  /\ \/ (Ends(copy, from') = {} \/ Ends(copy, to') = {}) /\ Refuse
     \/ \E s \in Ends(copy, from'), g \in Ends(copy, to') :
          IF s = g THEN Refuse ELSE Begin("corridor", copy, LinksIn(copy) \cup sewn, s, g)
  /\ UNCHANGED <<city, sewing>>

\* A road is asked of the roads as they are loaded now.
Road ==
  /\ doing = "nothing" /\ errands < MaxErrands /\ errands' = errands + 1
  /\ from' \in Places /\ to' \in Places
  /\ LET roads == city.nodes \ city.ped
         Joins(place) == Nearest(Near(roads, place, kJoinRadius), place)
     IN  \/ (Joins(from') = {} \/ Joins(to') = {}) /\ Refuse
         \/ \E s \in Joins(from'), g \in Joins(to') :
              Begin("road", roads, LinksIn(roads), s, g)
  /\ UNCHANGED <<city, sewing>>

\* The way back from the goal, start first.
Back ==
  FoldLeft(LAMBDA w, i : IF w[1] \in DOMAIN came THEN <<came[w[1]]>> \o w ELSE w,
           <<goal>>, [i \in 1..Cardinality(over.nodes) |-> i])

\* Where the journey is staged: the first node of the way that is far enough
\* along it, else the last if that is worth aiming at.
CorridorPoint(w) ==
  LET Gone(i) == Away(from, city.at[w[1]]) +
                 MapThenSumSet(LAMBDA k : Between(w[k - 1], w[k]), 2..i)
      far == {i \in 2..Len(w) : Gone(i) >= kCorridorAhead}
  IN  IF far # {} THEN {w[Min(far)]}
      ELSE {n \in {Last(w)} : Away(city.at[n], from) > kMinCorridorStep}

Tops == {e \in open : \A o \in open : e.f <= o.f}

\* Mutated form: as it would be if a node kept the first way found to it.
RelaxedUnseen(n) == {l[2] : l \in {k \in over.links : k[1] = n /\ k[2] \notin DOMAIN cost}}

\* A node is looked round each time it comes off the queue, however dear it was
\* when it was put there.
Relaxed(n) ==
  {l[2] : l \in {k \in over.links : k[1] = n /\ (k[2] \in DOMAIN cost =>
                                       cost[n] + Between(n, k[2]) < cost[k[2]])}}

Look ==
  /\ doing \in {"corridor", "road"} /\ open # {}
  /\ \E top \in Tops :
       IF top.at = goal
       THEN /\ way' = Back /\ outcome' = "found" /\ doing' = "nothing"
            /\ point' = IF doing = "corridor" THEN CorridorPoint(way') ELSE {}
            /\ UNCHANGED <<cost, came, open>>
       ELSE LET better == Relaxed(top.at) \ {top.at}
                dear(n) == cost[top.at] + Between(top.at, n)
            IN  /\ cost' = [n \in DOMAIN cost \cup better |->
                              IF n \in better THEN dear(n) ELSE cost[n]]
                /\ came' = [n \in DOMAIN came \cup better |->
                              IF n \in better THEN top.at ELSE came[n]]
                /\ open' = (open \ {top}) \cup
                             {[f |-> dear(n) + Between(n, goal), at |-> n] : n \in better}
                /\ UNCHANGED <<answer, doing>>
  /\ UNCHANGED <<city, sewing, from, to, over, start, goal, errands>>

NoWay ==
  /\ doing \in {"corridor", "road"} /\ open = {} /\ doing' = "nothing"
  /\ outcome' = "none"
  /\ UNCHANGED <<city, sewing, from, to, search, way, point, errands>>

Next == Copy \/ Sew \/ Sewn \/ Corridor \/ Road \/ Look \/ NoWay

Spec == Init /\ [][Next]_vars

(***************************************************************************)
(* What should hold.                                                       *)
(***************************************************************************)
Reached(links, s) ==
  FoldLeft(LAMBDA r, i : r \cup {l[2] : l \in {k \in links : k[1] \in r}}, {s},
           [i \in 1..Cardinality(city.nodes) |-> i])

\* How far each node is that a way of so many links leads to, and a link further.
Further(far) ==
  LET further == far \cup UNION {{<<l[2], p[2] + Between(l[1], l[2])>> :
                                    l \in {k \in over.links : k[1] = p[1]}} : p \in far}
  IN  {p \in further : \A q \in further : q[1] = p[1] => p[2] <= q[2]}

\* How far every node is by the shortest way there.
Shortest ==
  FoldLeft(LAMBDA far, i : CHOOSE r \in {Further(f) : f \in {far}} : TRUE, {<<start, 0>>},
           [i \in 1..Cardinality(over.nodes) |-> i])

Distance(w) ==
  FoldLeft(LAMBDA sum, k : sum + Between(w[k - 1], w[k]), 0, [i \in 1..Len(w) - 1 |-> i + 1])

\* A way that is found is links from end to end and as short as any there is,
\* and none is found only where none leads there (planner.cpp CorridorPoint,
\* roads.cpp RoadRoute, though neither closes a node it has looked round).
WayIsTheShortest ==
  /\ outcome = "none" => goal \notin Reached(over.links, start)
  /\ outcome = "found" =>
       /\ way[1] = start /\ Last(way) = goal
       /\ \A i \in 2..Len(way) : <<way[i - 1], way[i]>> \in over.links
       /\ <<goal, Distance(way)>> \in Shortest
===============================================================================
