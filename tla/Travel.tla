-------------------------------- MODULE Travel --------------------------------
(***************************************************************************)
(* Getting somewhere (actions/travel.cpp): a journey keeps a destination,  *)
(* has routes toward it worked out, hands them to the walker, looks again  *)
(* while he walks, and gives up when nothing gets him nearer.              *)
(*                                                                         *)
(* All of it runs on the game thread: TravelTick once a frame, PadFrame    *)
(* (the walker) after it.  The planner takes a few milliseconds of each    *)
(* frame and answers when it is done; routes come from it, from the map    *)
(* of the room he is in, from where he has walked before, or are felt      *)
(* out.  What these find is not modelled, only whether they find anything. *)
(* Short pauses (g_next_plan_ms, g_rescan_ms, g_room_next_ms) are a free   *)
(* choice of this frame or a later one; two long ones are counted: the     *)
(* time without getting nearer, and the time since a walk began.           *)
(***************************************************************************)
EXTENDS Naturals

CONSTANTS
  MaxDistance,          \* bound of the model: steps of 1.5 m to the goal
  kNoGainForMs,         \* in beats of the model's clock
  kWalkLimitMs,         \* in beats
  kMaxExploringStages,
  MaxJourneys,          \* bound of the model: journeys asked for
  MaxCarried            \* bound of the model: times he is carried elsewhere

\* What the numbers have to be; the modules that instantiate this one assume it.
Bounds ==
  /\ MaxDistance \in Nat \ {0}
  /\ kNoGainForMs \in Nat /\ kWalkLimitMs \in Nat \ {0}
  /\ kMaxExploringStages \in Nat \ {0}
  /\ MaxJourneys \in Nat /\ MaxCarried \in Nat

VARIABLES
  travelling,   \* g_travelling
  note,         \* g_note, where it says why a journey ended
  phase,        \* g_phase
  planning,     \* g_planner.active()
  lookingOut,   \* g_planner.result() is ok and exploring
  bridged,      \* g_bridged, read only while a plan is worked out
  indoors,      \* g_indoors
  best,         \* g_best_straight, 0 when it is not set
  exploring,    \* g_exploring
  quiet,        \* time since g_gained_ms
  walk,         \* the walker: "none", a "leg" of a journey, or an "other" walk
  walked,       \* time since the walk began
  distance,     \* how far the goal is, 0 when it is within g_arrived
  carried,      \* something moved him further than a person walks in a tick
  input,        \* InputLegitimatelyOff: "free", "held", or "taken" by SA-MP
  trusted,      \* game::CallsTrusted()
  journeys, carries,
  planHere,     \* history: the plan was asked for by this journey, from about here
  legHere       \* history: so was the leg he walks

leg == <<walk, walked, phase, legHere>>
plan == <<planning, lookingOut, bridged, planHere>>
gain == <<best, exploring, quiet>>
around == <<distance, carried, input, trusted, journeys, carries>>
vars == <<travelling, note, indoors, leg, plan, gain, around>>

Reasons == {"none", "arrived", "unreadable", "taken", "shut in", "gave up", "cancelled"}
Walking == walk # "none"

Init ==
  /\ travelling = FALSE /\ note = "none" /\ phase = "idle"
  /\ planning = FALSE /\ lookingOut = FALSE /\ bridged = FALSE /\ planHere = FALSE
  /\ indoors = FALSE /\ best = 0 /\ exploring = 0 /\ quiet = 0
  /\ walk = "none" /\ walked = 0 /\ legHere = FALSE
  /\ distance = MaxDistance /\ carried = FALSE
  /\ input = "free" /\ trusted \in BOOLEAN
  /\ journeys = 0 /\ carries = 0

-----------------------------------------------------------------------------
(* What the tools, the panel and the chain ask for.                        *)

\* Mutated form: the planner goes on with what it was asked before.
KeepPlan == UNCHANGED <<planning, lookingOut, bridged>> /\ planHere' = FALSE
\* Planner::Cancel.  The last result stays.
DropPlan == planning' = FALSE /\ bridged' = FALSE /\ UNCHANGED <<lookingOut, planHere>>

\* Mutated form: the walk goes on.
WalkOn == UNCHANGED <<walk, walked, legHere>>
\* Stop.
StandStill == walk' = "none" /\ walked' = 0 /\ legHere' = FALSE

TravelTo ==
  /\ journeys < MaxJourneys /\ journeys' = journeys + 1
  /\ StandStill /\ phase' = "idle" /\ DropPlan
  /\ travelling' = TRUE /\ note' = "none" /\ indoors' = FALSE
  /\ best' = 0 /\ exploring' = 0 /\ quiet' = 0
  /\ distance' \in 0..MaxDistance /\ carried' = FALSE
  /\ UNCHANGED <<input, trusted, carries>>

\* StopLocked.
End(why) == travelling' = FALSE /\ phase' = "idle" /\ note' = why /\ DropPlan

CancelTravel ==
  /\ End("cancelled") /\ StandStill
  /\ UNCHANGED <<indoors, gain, around>>

\* The move_to tool and the panel have him walk a route of its own, and the
\* panel stops whatever walk there is.  Either leaves a journey be.
WalkByHand ==
  /\ \/ walk' = "other" /\ walked' = 0 /\ legHere' = FALSE
     \/ Walking /\ StandStill
  /\ UNCHANGED <<travelling, note, indoors, phase, plan, gain, around>>

-----------------------------------------------------------------------------
(* One tick of the journey.                                                *)

\* He can be read, is where he walked to himself, and is not there yet.
OnHisWay == travelling /\ ~carried /\ distance > 0

\* WalkTo, and the phase with it.
SetOff(here) ==
  walk' = "leg" /\ walked' = 0 /\ phase' = "walking" /\ legHere' = here

\* StartPlan.
StartPlan ==
  planning' = TRUE /\ lookingOut' = FALSE /\ bridged' = FALSE /\ planHere' = TRUE

\* Decide: inside, along what he has walked before or across the room, or
\* nothing, because it is too soon to feel the room out or it leads nowhere -
\* or ends where he stands, which leaves g_indoors set.  Outside, the planner
\* is asked.  No plan is being worked out before.
Decide(still, inside) ==
  \/ SetOff(TRUE) /\ indoors' = TRUE /\ DropPlan
  \/ still /\ indoors' \in {inside, TRUE} /\ DropPlan
  \/ still /\ indoors' = inside /\ StartPlan

\* The character cannot be read.  The walker, later in the same frame, finds
\* it out too - unless input is off, and then it does not look.
Unreadable ==
  /\ travelling /\ End("unreadable")
  /\ IF input = "free" THEN StandStill ELSE UNCHANGED <<walk, walked, legHere>>
  /\ UNCHANGED <<indoors, gain, around>>

\* Carried somewhere else: everything worked out on the way is dropped and, in
\* the same tick, the next decision made.
StartAgain ==
  IF ~trusted
  THEN StandStill /\ phase' = "idle" /\ indoors' = FALSE /\ DropPlan
       /\ best' = 0 /\ UNCHANGED quiet
  ELSE Decide(StandStill /\ phase' = "idle", FALSE) /\ best' = distance /\ quiet' = 0
PutDown ==
  /\ travelling /\ carried /\ carried' = FALSE /\ distance > 0
  /\ StartAgain
  /\ UNCHANGED <<travelling, note, exploring, distance, input, trusted, journeys, carries>>

Arrive ==
  /\ travelling /\ distance = 0
  /\ End("arrived") /\ StandStill /\ carried' = FALSE
  /\ indoors' = (indoors /\ ~carried) /\ best' = IF carried THEN 0 ELSE best
  /\ UNCHANGED <<exploring, quiet, distance, input, trusted, journeys, carries>>

\* OnPlanFinished: the route found is walked; failing one the room is felt
\* out, and failing that the best of the ways out of here is taken.
PlanFinished ==
  /\ OnHisWay /\ planning
  /\ planning' = FALSE /\ bridged' = FALSE /\ UNCHANGED planHere
  /\ \/ trusted /\ lookingOut' \in BOOLEAN /\ indoors' \in BOOLEAN /\ SetOff(planHere)
     \/ /\ lookingOut' = FALSE /\ indoors' \in {indoors, TRUE}
        /\ SetOff(TRUE) \/ UNCHANGED leg
  /\ UNCHANGED <<travelling, note, gain, around>>

\* He stands and the plan takes long: he is given somewhere to go meanwhile,
\* once, if there is anywhere.
Bridge ==
  /\ OnHisWay /\ planning /\ ~Walking /\ ~bridged /\ ~indoors
  /\ bridged' = TRUE
  /\ SetOff(TRUE) \/ UNCHANGED leg
  /\ UNCHANGED <<travelling, note, indoors, planning, lookingOut, planHere, gain, around>>

\* SA-MP has the keyboard: the journey is over, and not resumed.  While input
\* is off for any other reason nothing is decided.
KeyboardTaken ==
  /\ OnHisWay /\ Walking /\ input = "taken"
  /\ End("taken") /\ StandStill
  /\ UNCHANGED <<indoors, gain, around>>

\* He has just stopped: there, or against something.
JustStopped ==
  /\ OnHisWay /\ ~planning /\ ~Walking /\ phase = "walking"
  /\ phase' = "idle"
  /\ UNCHANGED <<travelling, note, indoors, walk, walked, legHere, plan, gain, around>>

\* Progress, in the order the code asks.
AlongTheRoom == indoors /\ Walking
Nearer == ~AlongTheRoom /\ (best = 0 \/ distance < best)
OneTooMany == exploring + 1 >= kMaxExploringStages
NoNearer == ~AlongTheRoom /\ ~Nearer

\* Mutated form: any route at all counts as getting nearer.
GoOnForgiving ==
  \/ AlongTheRoom /\ UNCHANGED gain
  \/ ~AlongTheRoom /\ best' = distance /\ quiet' = 0 /\ UNCHANGED exploring
GoOn ==
  \/ AlongTheRoom /\ UNCHANGED gain
  \/ Nearer /\ best' = distance /\ quiet' = 0 /\ UNCHANGED exploring
  \/ /\ NoNearer /\ lookingOut /\ ~OneTooMany
     /\ exploring' = exploring + 1 /\ UNCHANGED <<best, quiet>>
  \/ NoNearer /\ ~lookingOut /\ quiet <= kNoGainForMs /\ UNCHANGED gain

\* Time to look again, walking or standing.  Standing, the world has to be
\* readable: until it is, nothing is decided.
Looking ==
  /\ OnHisWay /\ ~planning
  /\ \/ Walking /\ input = "free"
     \/ ~Walking /\ phase = "idle" /\ trusted

LookAgain ==
  /\ Looking /\ GoOn
  /\ Decide(UNCHANGED leg, indoors)
  /\ UNCHANGED <<travelling, note, around>>

GiveUp ==
  /\ Looking /\ NoNearer
  /\ \/ lookingOut /\ OneTooMany /\ exploring' = exploring + 1 /\ End("shut in")
     \/ ~lookingOut /\ quiet > kNoGainForMs /\ UNCHANGED exploring /\ End("gave up")
  /\ StandStill
  /\ UNCHANGED <<indoors, best, quiet, around>>

TravelTick ==
  \/ Unreadable \/ PutDown \/ Arrive
  \/ PlanFinished \/ Bridge
  \/ KeyboardTaken \/ JustStopped
  \/ LookAgain \/ GiveUp

-----------------------------------------------------------------------------
(* The walker and the world.                                               *)

\* The walk is over: at the end of its route, stuck, blocked or out of time.
\* The walker decides nothing while input is off.
WalkEnds ==
  /\ Walking /\ input = "free" /\ StandStill
  /\ UNCHANGED <<travelling, note, indoors, phase, plan, gain, around>>
WalkRunsOut == walked = kWalkLimitMs /\ WalkEnds

\* He gets about: the walk takes him, or a hand on the keyboard.  A tick comes
\* before he is away again from where he was going.
GetAbout ==
  /\ travelling => distance > 0
  /\ distance' \in {distance - 1, distance + 1} \cap (0..MaxDistance)
  /\ UNCHANGED <<travelling, note, indoors, leg, plan, gain,
                 carried, input, trusted, journeys, carries>>

\* A staircase, a lift, the door of a shop.
Carry ==
  /\ travelling /\ carries < MaxCarried /\ carries' = carries + 1
  /\ carried' = TRUE /\ distance' \in 0..MaxDistance
  /\ planHere' = FALSE /\ legHere' = FALSE
  /\ UNCHANGED <<travelling, note, indoors, walk, walked, phase, planning, lookingOut,
                 bridged, gain, input, trusted, journeys>>

\* A dialog, a freeze, the game's menu; movement switched on and off.
Surroundings ==
  /\ \/ input' \in {"free", "held", "taken"} /\ UNCHANGED trusted
     \/ trusted' = ~trusted /\ UNCHANGED input
  /\ UNCHANGED <<travelling, note, indoors, leg, plan, gain,
                 distance, carried, journeys, carries>>

Clock ==
  /\ travelling
  /\ quiet' = IF quiet <= kNoGainForMs THEN quiet + 1 ELSE quiet
  /\ walked' = IF Walking /\ walked < kWalkLimitMs THEN walked + 1 ELSE walked
  /\ UNCHANGED <<travelling, note, indoors, walk, phase, legHere, plan, best, exploring,
                 around>>

Next ==
  \/ TravelTo \/ CancelTravel \/ WalkByHand
  \/ TravelTick
  \/ WalkEnds \/ GetAbout \/ Carry \/ Surroundings \/ Clock

Spec == Init /\ [][Next]_vars

\* Frames come, pauses pass, and no walk outlasts its limit.  Plans get done and
\* decisions made although others, and being carried, keep interrupting them.
Fairness ==
  /\ WF_vars(PutDown \/ Arrive \/ JustStopped \/ KeyboardTaken)
  /\ SF_vars(PlanFinished) /\ SF_vars(LookAgain \/ GiveUp)
  /\ WF_vars(WalkRunsOut) /\ WF_vars(Clock)
FairSpec == Spec /\ Fairness

-----------------------------------------------------------------------------
(* Properties.                                                             *)

Flags ==
  /\ travelling \in BOOLEAN /\ planning \in BOOLEAN /\ lookingOut \in BOOLEAN
  /\ bridged \in BOOLEAN /\ indoors \in BOOLEAN /\ carried \in BOOLEAN
  /\ trusted \in BOOLEAN /\ planHere \in BOOLEAN /\ legHere \in BOOLEAN
Words ==
  /\ note \in Reasons /\ phase \in {"idle", "walking"}
  /\ walk \in {"none", "leg", "other"} /\ input \in {"free", "held", "taken"}
Numbers ==
  /\ best \in 0..MaxDistance /\ distance \in 0..MaxDistance
  /\ exploring \in 0..kMaxExploringStages
  /\ quiet \in 0..(kNoGainForMs + 1) /\ walked \in 0..kWalkLimitMs
  /\ journeys \in 0..MaxJourneys /\ carries \in 0..MaxCarried

\* One more stage that looks for a way out may begin.
StagesLeft == travelling => exploring < kMaxExploringStages

\* Every variable keeps its type.
TypeOK == Flags /\ Words /\ Numbers

\* He never walks a route, nor is one worked out for him, that was asked for
\* by an earlier journey or before he was carried somewhere else: the tick
\* that sees it drops them all (travel.cpp:656-677).
RouteBelongsHere ==
  travelling /\ ~carried => (planning => planHere) /\ (walk = "leg" => legHere)

\* The journey keeps what it promises (travel.hpp).
T == INSTANCE Trip WITH underWay <- travelling, ending <- note,
                        walking <- walk = "leg", there <- distance = 0
IsATrip == T!Spec

\* From some time on nobody takes the character's input or movement away, or
\* sends him on a walk of another kind.
LeftAlone == <>[](input = "free" /\ trusted /\ walk # "other")

\* A journey that is left alone ends, unless he walks through rooms again and
\* again (travel.cpp:405-452).
EndsInTheOpen == LeftAlone /\ <>[]~AlongTheRoom => (travelling ~> ~travelling)

(* What a comment says of the module and it does not do.                   *)

\* travel.cpp:83-85: he walks only so long without ever getting nearer "before
\* the journey is called hopeless".
GivesUp == LeftAlone => (travelling ~> ~travelling)
=============================================================================
