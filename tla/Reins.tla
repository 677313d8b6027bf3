--------------------------------- MODULE Reins ---------------------------------
(***************************************************************************)
(* Who moves the character.  A journey with its legs, a walk asked for by  *)
(* itself, a drive, a chain of actions, a walk through menus and an        *)
(* experiment each press keys for him; tools on the game thread, the menu  *)
(* and the panel, and two hotkeys read by the worker start and stop them,  *)
(* one by one.  What each of them does on its own is modelled elsewhere    *)
(* (Travel, Walk, Drive, Chain, DialogPath, Keys); here they act together. *)
(*                                                                         *)
(* A frame is a sequence of stations on the game thread: tools, script,    *)
(* menus, chain, journey, drive, pad - which decides under its lock and    *)
(* presses after it - experiment, picture.  The worker's steps fall in     *)
(* between.                                                                *)
(* Held keys are one set that its last writer replaces (KeysHold).         *)
(***************************************************************************)
EXTENDS Naturals, Sequences

CONSTANTS
  Chains,     \* chains of actions asked for: sequences of "go" and "press"
  MaxQueued,  \* bound of the model: keystrokes in the script
  MaxAsked    \* bound of the model: things asked for

VARIABLES
  armed,      \* game::g_enabled
  trusted,    \* game::g_trusted
  journey,    \* g_travelling
  planning,   \* g_planner.active()
  walk,       \* the walker: "none", a "leg" of the journey, or one of its "own"
  drive,      \* g_driving
  steps,      \* the chain's steps from g_at on and its "end", none when it does
              \* not run
  begun,      \* g_started_step
  queued,     \* keystrokes of the script not played yet
  menus,      \* g_walking of the menu walk
  test,       \* the experiment: g_kind
  wasArmed,   \* g_was_enabled
  held,       \* whose keys KeysHold was last given: "nothing", "walk", "drive"
  mine,       \* the walker's g_held is not 0
  station,    \* where the frame is
  press,      \* DecideStick said to press, and the keys are not out yet
  disarming,  \* how far Disarm is: 0 when it is not under way
  asked,      \* things asked for
  told,       \* history: "nothing" once something was asked for, else who let go
  left        \* history: what was running then and was not told to stop

arming == <<armed, trusted, wasArmed>>
trip == <<journey, planning, walk>>
chain == <<steps, begun, menus>>
keys == <<queued, held, mine, press>>
history == <<asked, told, left>>
vars == <<arming, trip, drive, chain, test, keys, station, disarming, history>>

CallsTrusted == armed /\ trusted
KeysBusy == queued > 0
Walking == walk # "none"

Init ==
  /\ armed = FALSE /\ trusted = FALSE /\ wasArmed = FALSE
  /\ journey = FALSE /\ planning = FALSE /\ walk = "none" /\ drive = FALSE
  /\ steps = <<>> /\ begun = FALSE /\ menus = FALSE /\ test = "none"
  /\ queued = 0 /\ held = "nothing" /\ mine = FALSE /\ press = FALSE
  /\ station = "tools" /\ disarming = 0
  /\ asked = 0 /\ told = "nothing" /\ left = {}

-----------------------------------------------------------------------------
(* Starting and stopping, as each part does it.                            *)

\* Stop of the walker.  On the game thread the keys come up with it, but only
\* those it knows to hold; elsewhere the next frame sees to it.
Stop == walk' = "none"
ClearStick ==
  IF mine THEN held' = "nothing" /\ mine' = FALSE ELSE UNCHANGED <<held, mine>>

\* CancelTravel: the planner and the walk stop with the journey.
CancelTravel == journey' = FALSE /\ planning' = FALSE /\ Stop

\* TravelTo, which stops the walk and drops the plan of the journey before.
TravelTo == journey' = TRUE /\ planning' = FALSE /\ Stop

\* Mutated form: the keys stay as they are.
KeysLeft == UNCHANGED <<held, mine>>
\* StopLocked of the drive: whatever is held comes up, whoever holds it.
KeysReleaseAll == held' = "nothing" /\ UNCHANGED mine
DriveStop == drive' = FALSE /\ KeysReleaseAll

\* A piece of script is queued behind what there is.
Queue(n) == queued' = IF queued + n > MaxQueued THEN MaxQueued ELSE queued + n

\* Finish of an experiment.
Finish ==
  /\ test' = "none"
  /\ armed' = (armed /\ ~(test = "world" /\ ~wasArmed))
  /\ IF test = "keys" THEN ClearStick ELSE UNCHANGED <<held, mine>>

Ask == asked < MaxAsked /\ asked' = asked + 1 /\ told' = "nothing" /\ left' = {}

Running ==
  {w \in {"drive", "chain", "menus"} :
     \/ w = "drive" /\ drive
     \/ w = "chain" /\ steps # <<>>
     \/ w = "menus" /\ menus}

\* Whoever lets go leaves running what he does not stop.
LetGo(who, leaves) ==
  told' = who /\ left' = Running \cap leaves /\ UNCHANGED asked

-----------------------------------------------------------------------------
(* The tools, run between two frames' work.                                *)

AtTools == station = "tools"

MoveToTool ==
  /\ CallsTrusted /\ Ask
  /\ walk' = "own" /\ UNCHANGED <<journey, planning, held, mine>>
  /\ UNCHANGED <<arming, drive, chain, test, queued, press>>

TravelToTool ==
  /\ CallsTrusted /\ Ask
  /\ TravelTo /\ ClearStick
  /\ UNCHANGED <<arming, drive, chain, test, queued, press>>

\* The act tool: RunChain.
Act ==
  /\ Ask /\ steps' \in {Append(c, "end") : c \in Chains} /\ begun' = FALSE
  /\ CancelTravel /\ ClearStick
  /\ UNCHANGED <<arming, drive, menus, test, queued, press>>

FollowDialogTool ==
  /\ Ask /\ menus' = TRUE /\ \E n \in {0, 1} : Queue(n)
  /\ UNCHANGED <<arming, trip, drive, steps, begun, test, held, mine, press>>

\* Keystrokes are queued; whether movement is on is not asked.
Play ==
  /\ Ask /\ Queue(1)
  /\ UNCHANGED <<arming, trip, drive, chain, test, held, mine, press>>
PressKey == ~KeysBusy /\ Play
UseVehicle == ~KeysBusy /\ Play
SendChat == ~KeysBusy /\ Play
\* These do not ask whether keys are being played.
AnswerDialog == Play
LoginNow == Play

\* He sits in a car and there is a road.  Whether movement is on is not asked.
DriveToTool ==
  /\ Ask /\ drive' = TRUE
  /\ UNCHANGED <<arming, trip, chain, test, queued, held, mine, press>>

\* The checks of set_movement: the ground may read under him or not.
SelfCheck == trusted' \in {trusted, TRUE}

SetMovement(on) ==
  IF on
  THEN /\ Ask /\ armed' = TRUE /\ SelfCheck
       /\ UNCHANGED <<wasArmed, trip, drive, chain, test, queued, held, mine, press>>
  ELSE /\ CancelTravel /\ ClearStick /\ armed' = FALSE
       /\ LetGo("set_movement", {"drive", "chain", "menus"})
       /\ UNCHANGED <<trusted, wasArmed, drive, chain, test, queued, press>>

\* Mutated form: the drive is forgotten.
StopToolOnFoot ==
  /\ CancelTravel /\ ClearStick /\ UNCHANGED drive
  /\ LetGo("stop", {"chain", "menus"})
  /\ UNCHANGED <<arming, chain, test, queued, press>>
StopTool ==
  /\ CancelTravel /\ drive' = FALSE /\ held' = "nothing" /\ mine' = FALSE
  /\ LetGo("stop", {"chain", "menus"})
  /\ UNCHANGED <<arming, chain, test, queued, press>>

Tools ==
  /\ AtTools
  /\ \/ MoveToTool \/ TravelToTool \/ Act \/ FollowDialogTool \/ DriveToTool
     \/ PressKey \/ UseVehicle \/ SendChat \/ AnswerDialog \/ LoginNow
     \/ \E on \in BOOLEAN : SetMovement(on)
     \/ StopTool
  /\ UNCHANGED <<station, disarming>>

-----------------------------------------------------------------------------
(* One frame: what is under way does its share.                            *)

GoesOn(from, to) == station = from /\ station' = to

KeysTick ==
  /\ GoesOn("tools", "menus")
  /\ queued' = IF KeysBusy THEN queued - 1 ELSE 0
  /\ UNCHANGED <<arming, trip, drive, chain, test, held, mine, press, disarming, history>>

\* FinishLocked of the chain.
ChainEnds == steps' = <<>> /\ begun' = FALSE /\ CancelTravel /\ ClearStick

\* A step of the chain: a journey that is over without having arrived is
\* begun again at the next look but one; keys are queued, and waited for.
ChainStep ==
  \/ ChainEnds /\ UNCHANGED queued
  \/ /\ Head(steps) = "go" \/ (Head(steps) = "press" /\ begun /\ ~KeysBusy)
     /\ steps' = Tail(steps) /\ begun' = FALSE /\ UNCHANGED <<trip, queued, held, mine>>
  \/ /\ Head(steps) = "go" /\ UNCHANGED <<steps, queued>>
     /\ \/ ~begun /\ begun' = TRUE /\ TravelTo /\ ClearStick
        \/ begun /\ begun' = journey /\ UNCHANGED <<trip, held, mine>>
  \/ /\ Head(steps) = "press" /\ ~begun
     /\ begun' = TRUE /\ Queue(1) /\ UNCHANGED <<steps, trip, held, mine>>

\* DialogPathTick and ChainTick, of a frame that looks.
DialogPathTick ==
  /\ GoesOn("menus", "chain")
  /\ IF menus /\ ~KeysBusy
     THEN menus' \in BOOLEAN /\ queued' \in {queued, queued + 1}
     ELSE UNCHANGED <<menus, queued>>
  /\ UNCHANGED <<arming, trip, drive, steps, begun, test, held, mine, press, disarming, history>>
ChainTick ==
  /\ GoesOn("chain", "journey")
  /\ \/ steps # <<>> /\ ChainStep
     \/ UNCHANGED <<trip, steps, begun, queued, held, mine>>
  /\ UNCHANGED <<arming, drive, menus, test, press, disarming, history>>

\* TravelTick, by its outcomes: the journey ends, and the walk with it unless
\* he could not be read while input was off; a plan begins, or is done; he is
\* given a leg.  Standing, nothing begins unless the world can be read.
TravelTick ==
  /\ GoesOn("journey", "drive")
  /\ \/ UNCHANGED <<trip, held, mine>>
     \/ journey /\ CancelTravel /\ ClearStick
     \/ journey /\ journey' = FALSE /\ planning' = FALSE /\ UNCHANGED <<walk, held, mine>>
     \/ /\ journey /\ ~planning /\ (Walking \/ CallsTrusted)
        /\ planning' = TRUE /\ UNCHANGED <<journey, walk, held, mine>>
     \/ /\ journey /\ (planning \/ Walking \/ CallsTrusted)
        /\ walk' = "leg" /\ planning' \in {planning, FALSE} /\ UNCHANGED <<journey, held, mine>>
  /\ UNCHANGED <<arming, drive, chain, test, queued, press, disarming, history>>

\* DriveTick: over, not allowed to press, or pressing.
DriveTick ==
  /\ GoesOn("drive", "pad")
  /\ \/ ~drive /\ UNCHANGED <<drive, held, mine>>
     \/ drive /\ DriveStop
     \/ drive /\ KeysReleaseAll /\ UNCHANGED drive
     \/ drive /\ held' = "drive" /\ UNCHANGED <<drive, mine>>
  /\ UNCHANGED <<arming, trip, chain, test, queued, press, disarming, history>>

\* PadFrame up to the decision: the walk goes on, is over, or waits.
DecideStick ==
  /\ GoesOn("pad", "hold")
  /\ IF test = "keys" THEN press' \in BOOLEAN /\ UNCHANGED <<walk, held, mine>>
     ELSE \/ Walking /\ press' = TRUE /\ UNCHANGED <<walk, held, mine>>
          \/ Walking /\ Stop /\ ClearStick /\ press' = FALSE
          \/ press' = FALSE /\ UNCHANGED <<walk, held, mine>>
  /\ UNCHANGED <<arming, journey, planning, drive, chain, test, queued, disarming, history>>

\* The rest of it: the keys go out, or what the walker holds comes up.
Hold ==
  /\ GoesOn("hold", "test") /\ press' = FALSE
  /\ IF press THEN held' = "walk" /\ mine' = TRUE ELSE ClearStick
  /\ UNCHANGED <<arming, trip, drive, chain, test, queued, disarming, history>>

\* ExperimentTick: over, or the world's checks are made on its account.
ExperimentTick ==
  /\ GoesOn("test", "picture")
  /\ \/ test # "none" /\ Finish /\ UNCHANGED trusted
     \/ test = "world" /\ armed /\ trusted' = TRUE /\ UNCHANGED <<armed, test, held, mine>>
     \/ UNCHANGED <<armed, trusted, test, held, mine>>
  /\ UNCHANGED <<wasArmed, trip, drive, chain, queued, press, disarming, history>>

-----------------------------------------------------------------------------
(* The menu and the panel, while the picture is drawn.                     *)

GoToMarker ==
  /\ Ask /\ armed' = TRUE /\ TravelTo /\ ClearStick
  /\ UNCHANGED <<trusted, wasArmed, drive, chain, test, queued, press>>

\* The menu's stop, and its switch turned off.
StopEverything(off) ==
  /\ CancelTravel /\ ClearStick /\ armed' = (armed /\ ~off)
  /\ LetGo("menu", {"drive", "chain", "menus"})
  /\ UNCHANGED <<trusted, wasArmed, drive, chain, test, queued, press>>

SwitchOn ==
  /\ Ask /\ armed' = TRUE
  /\ UNCHANGED <<trusted, wasArmed, trip, drive, chain, test, keys>>

\* An experiment: the walk and the journey stop, another one is replaced.
StartExperiment(kind) ==
  /\ Ask /\ test = "none" /\ test' = kind /\ CancelTravel /\ ClearStick
  /\ IF kind = "world" THEN wasArmed' = armed /\ armed' = TRUE ELSE UNCHANGED <<armed, wasArmed>>
  /\ UNCHANGED <<trusted, drive, chain, queued, press>>
StopExperiments ==
  /\ test # "none" /\ Finish
  /\ UNCHANGED <<trusted, wasArmed, trip, drive, chain, queued, press, history>>

\* The panel's buttons.  None asks whether movement is on.
WalkThePlan ==
  /\ Ask /\ walk' = "own"
  /\ UNCHANGED <<arming, journey, planning, drive, chain, test, keys>>
TravelThere ==
  /\ Ask /\ TravelTo /\ ClearStick
  /\ UNCHANGED <<arming, drive, chain, test, queued, press>>
CancelJourney ==
  /\ CancelTravel /\ ClearStick
  /\ UNCHANGED <<arming, drive, chain, test, queued, press, history>>
StopWalking ==
  /\ Stop /\ ClearStick
  /\ UNCHANGED <<arming, journey, planning, drive, chain, test, queued, press, history>>

Menu ==
  /\ station = "picture"
  /\ \/ GoToMarker \/ SwitchOn \/ StopExperiments
     \/ WalkThePlan \/ TravelThere \/ CancelJourney \/ StopWalking
     \/ \E off \in BOOLEAN : StopEverything(off)
     \/ \E kind \in {"keys", "world"} : StartExperiment(kind)
  /\ UNCHANGED <<station, disarming>>

FrameEnds == GoesOn("picture", "tools") /\ UNCHANGED <<arming, trip, drive, chain, test, keys, disarming, history>>

Frame ==
  \/ KeysTick \/ DialogPathTick \/ ChainTick \/ TravelTick \/ DriveTick \/ DecideStick \/ Hold
  \/ ExperimentTick \/ FrameEnds

-----------------------------------------------------------------------------
(* The other threads, at any moment of a frame.                            *)

\* Disarm, step by step: the journey with its walk, the walk, the switch.
Disarm ==
  /\ disarming' = (disarming + 1) % 3
  /\ \/ /\ disarming = 0 /\ CancelTravel /\ LetGo("disarm", {"drive", "chain", "menus"})
        /\ UNCHANGED armed
     \/ disarming = 1 /\ Stop /\ UNCHANGED <<journey, planning, armed, history>>
     \/ disarming = 2 /\ armed' = FALSE /\ UNCHANGED <<trip, history>>
  /\ UNCHANGED <<trusted, wasArmed, drive, chain, test, keys, station>>

\* Ctrl+F11, which leaves everything running.
Toggle ==
  /\ disarming = 0 /\ Ask /\ armed' = ~armed
  /\ UNCHANGED <<trusted, wasArmed, trip, drive, chain, test, keys, station, disarming>>

\* act_stop, on the transport's thread.
ActStop ==
  /\ steps # <<>> /\ steps' = <<>> /\ begun' = FALSE /\ CancelTravel
  /\ UNCHANGED <<arming, drive, menus, test, keys, station, disarming, history>>

Next == Tools \/ Frame \/ Menu \/ Disarm \/ Toggle \/ ActStop

Spec == Init /\ [][Next]_vars

\* Frames go on.
FairSpec == Spec /\ WF_vars(Frame)

-----------------------------------------------------------------------------
(* Properties.                                                             *)

\* Once he has been let go of, by a tool, the menu or the hotkey, and nothing
\* was asked since, he walks only for a chain that was running then and is
\* still, and drives only where letting go does not stop a drive: no part that
\* was stopped comes back by itself, whatever it was in the middle of
\* (travel.cpp:617, walker.cpp:2244, driver.cpp:158, overlay.cpp:2365).
OnlyWhatWasLeft ==
  told # "nothing" =>
    /\ journey \/ Walking => "chain" \in left
    /\ drive => "drive" \in left
    /\ steps # <<>> => "chain" \in left
    /\ journey \/ Walking => steps # <<>>

\* Keys held for something that is over come up, whichever part wrote the set
\* last and wherever in a frame it was stopped, unless another takes the keys
\* over (walker.cpp:562-586, 2043-2051, driver.cpp:108-114).
KeysComeUp ==
  held # "nothing" /\ ~Walking /\ ~drive /\ test # "keys"
    ~> held = "nothing" \/ Walking \/ drive \/ test = "keys"

=============================================================================
