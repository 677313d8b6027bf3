--------------------------------- MODULE MCRpc ---------------------------------
\* What runs on the game's own thread besides the game, each on its own from
\* the start: the tasks posted to it, the messages of its window, the calls to its
\* device, and the world read out of its memory.
EXTENDS Rpc, Integers

CONSTANTS Neighbours, kFrames, kRehooks, MaxNested, Lines, MaxLines,
  Slots, Standings, Movers, Places, Questions, Footprints, FaultsAt, SectorCells,
  kWindow, kWindowMargin, kRebuildEvery, kRepeat, kMaxSpread

\* Both ways of both words.
MCLines == [key : {"window", "background"}, value : {"on", "off"}]

\* A long building that is larger than is looked for, one without its
\* collision, a ramp, a parked car and a barrier, about two streets.
Thing(at, reach, z0, z1, leans, data) ==
  [at |-> at, reach |-> reach, z0 |-> z0, z1 |-> z1, leans |-> leans, data |-> data]
MCStandings ==
  {Thing(6, 6, 0, 1, FALSE, TRUE), Thing(8, 1, 2, 3, FALSE, FALSE), Thing(8, 2, 0, 2, TRUE, TRUE)}
MCMovers ==
  {[kind |-> "vehicle", thing |-> Thing(4, 1, 0, 1, FALSE, TRUE)],
   [kind |-> "object", thing |-> Thing(9, 1, 0, 1, FALSE, TRUE)]}
MCQuestions ==
  {[a |-> 5, b |-> 3, lo |-> 1, hi |-> 1, vehicles |-> TRUE],
   [a |-> 9, b |-> 8, lo |-> 1, hi |-> 3, vehicles |-> FALSE]}
Street == [c \in 0..12 |-> 0]
Stairs == [c \in 0..12 |-> IF c <= 6 THEN 0 ELSE IF c = 7 THEN 1 ELSE 2]
MCFootprints ==
  {[x |-> 5, radius |-> 2, floor |-> Stairs, lo |-> 1, hi |-> 2, inflate |-> 1,
    kinds |-> {"object", "vehicle"}, budget |-> 5],
   [x |-> 9, radius |-> 2, floor |-> Street, lo |-> 1, hi |-> 2, inflate |-> 0,
    kinds |-> {"object"}, budget |-> 100]}

\* What neighbours are called is nobody else's name, and no more messages are under way
\* at once than are remembered.  Sectors, windows and their ages are numbers, the margins
\* leave some of a window, whatever stands or moves is somewhere, and a footprint stays
\* within the margin, its bodies reaching no further than a sector.
Somewhere(t) == {t.at, t.z0, t.z1} \subseteq Int /\ t.z0 <= t.z1 /\ t.reach \in Nat
Square(f) ==
  /\ {f.x, f.lo, f.hi, f.budget} \subseteq Int /\ {f.radius, f.inflate} \subseteq Nat
  /\ \A c \in (f.x - f.radius)..(f.x + f.radius) : f.floor[c] \in Int
  /\ f.kinds \subseteq {"object", "vehicle"}
  /\ f.inflate <= SectorCells /\ f.radius + f.inflate <= kWindowMargin * SectorCells
ASSUME FrameAssumption ==
  /\ {"ours", "game", "nobody"} \cap Neighbours = {}
  /\ kFrames \in Nat /\ MaxNested \in Nat \ {0} /\ MaxNested <= kFrames
ASSUME WorldAssumption ==
  /\ SectorCells \in Nat \ {0} /\ kRebuildEvery \in Nat \ {0}
  /\ kWindow \in Nat /\ kWindowMargin \in Nat /\ 2 * kWindowMargin < kWindow
  /\ kMaxSpread \in Nat /\ IsFiniteSet(Slots)
  /\ \A t \in Standings : Somewhere(t)
  /\ \A m \in Movers : Somewhere(m.thing)
  /\ Places \subseteq Int
  /\ \A q \in Questions : {q.a, q.b, q.lo, q.hi} \subseteq Int
  /\ \A f \in Footprints : Square(f)

VARIABLES
  what,
  initialised, mode, front,                                \* Procs and Panel
  registered, behind, previous, headNext, rehooks,         \* Procs
  typing, background, under, pressed, held, excused,
  device, full, another, hooks, adopted, config, styled,   \* Panel
  disabled, believed, live, made, freed, fresh, switching,
  disarming, told, raced,
  pool, mover, index                                       \* Solid

panelvars == <<initialised, mode, front>>
procvars ==
  <<registered, behind, previous, headNext, rehooks, typing, background, under,
    pressed, held, excused>>
devicevars ==
  <<device, full, another, hooks, adopted, config, styled, disabled, believed, live,
    made, freed, fresh, switching, disarming, told, raced>>
worldvars == <<pool, mover, index>>

W == INSTANCE Procs
P == INSTANCE Panel
S == INSTANCE Solid

\* What does not run begins in one way.
FrameInit ==
  /\ Init /\ W!Init /\ P!Init /\ S!Init /\ what \in {"tasks", "window", "device", "world"}
  /\ what # "window" => ~background
  /\ what # "device" => hooks = {"present"} /\ config = P!ReadConfig(<<>>)

FrameNext ==
  /\ UNCHANGED what
  /\ \/ what = "tasks" /\ UNCHANGED <<panelvars, procvars, devicevars, worldvars>> /\ Next
     \/ what = "window" /\ UNCHANGED <<vars, devicevars, worldvars>> /\ W!Next
     \/ what = "device" /\ UNCHANGED <<vars, procvars, worldvars>> /\ P!Next
     \/ what = "world" /\ UNCHANGED <<vars, panelvars, procvars, devicevars>> /\ S!Next

FrameSpec ==
  /\ FrameInit /\ [][FrameNext]_<<what, vars, panelvars, procvars, devicevars, worldvars>>
  /\ Scheduled

\* A message is handled once, and the game hears what it should (Procs).
GameHearsWhatItShould == what = "window" => W!GameHearsWhatItShould

\* Nothing of the panel's is on a device that is to be reset (Panel).
NothingHeldAtReset == what = "device" => P!NothingHeldAtReset

\* The mouse is the panel's only while it is interactive (Panel).
PointerChangesHands == what = "device" => P!PointerChangesHands

\* Lines and the ground are of what stands in the world (Solid).
LinesMatchTheWorld == what = "world" => S!LinesMatchTheWorld

\* A footprint is of what stands in the world (Solid).
FootprintsMatchTheWorld == what = "world" => S!FootprintsMatchTheWorld
===============================================================================
