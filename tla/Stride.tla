-------------------------------- MODULE Stride --------------------------------
(***************************************************************************)
(* The keys a walk holds (actions/walker.cpp, from WantJump to HoldKeys):  *)
(* one of eight directions for the way to press, sprint, and jump, once a  *)
(* frame.  What the walk decides in between - whether there is a way to    *)
(* press and which, whether he could sprint, whether a jump is wanted, and *)
(* whether keys may go out - is a free choice every frame; Walk has that.  *)
(***************************************************************************)
EXTENDS Integers

CONSTANTS
  Ways,                         \* bound of the model: the ways to press, in degrees
  kFramesSprintUpBeforeJump,
  kJumpHold,                    \* frames a jump key is down for
  kJumpTakes                    \* frames in the air, at least
\* Not bounds: a circle in degrees, the sectors of it and where one is left.
kSector == 45
kSwitchBeyond == 30

VARIABLES
  countdown,    \* g_jump_countdown: -1, or frames until the jump
  since,        \* frames since g_last_jump_ms
  hold,         \* frames until g_jump_release_ms
  direction,    \* g_direction: -1, or the sector held
  held,         \* g_held
  off           \* history: frames the sprint key has been up

jumping == <<countdown, since, hold>>
keys == <<direction, held>>
vars == <<jumping, keys, off>>

Init ==
  /\ countdown = -1 /\ since = kJumpTakes /\ hold = 0
  /\ direction = -1 /\ held = {}
  /\ off = kFramesSprintUpBeforeJump

-----------------------------------------------------------------------------
\* From the middle of sector k to the way, the short way round.
Off(degrees, k) ==
  LET x == (degrees - k * kSector + 720) % 360 IN IF x > 180 THEN x - 360 ELSE x

Nearest(degrees) == ((2 * degrees + kSector) \div (2 * kSector)) % 8

\* The sector held is left only when the way is well into the next, a step a frame.
Turned(degrees) ==
  IF direction = -1 THEN Nearest(degrees)
  ELSE IF Off(degrees, direction) > kSwitchBeyond THEN (direction + 1) % 8
  ELSE IF Off(degrees, direction) < -kSwitchBeyond THEN (direction + 7) % 8
  ELSE direction

KeysOf(k) ==
  {x \in {"fwd", "back", "left", "right"} :
     CASE x = "fwd" -> k \in {1, 2, 3} [] x = "back" -> k \in {5, 6, 7}
       [] x = "right" -> k \in {0, 1, 7} [] x = "left" -> k \in {3, 4, 5}}

HoldKeys(want) ==
  /\ held' = want
  /\ off' = IF "sprint" \in want THEN 0
            ELSE IF off = kFramesSprintUpBeforeJump THEN off ELSE off + 1

Less(x) == IF x > 0 THEN x - 1 ELSE 0

\* What a frame decides of jumping, given the countdown and the time since the
\* last as WantJump may have left them: the countdown, whether to jump now,
\* whether to sprint.
SprintUntilTheLast(at, could) ==
  [countdown |-> IF at = -1 THEN -1 ELSE at - 1, jump |-> at = 0, sprint |-> at # 0 /\ could]
Pace(at, could) ==
  [countdown |-> IF at = -1 THEN -1 ELSE at - 1, jump |-> at = 0, sprint |-> at = -1 /\ could]

\* What DecideStick leaves of it, a jump wanted somewhere in the deciding or not.
\* Some of its cases are over, with a way to press or without, before they count.
Decide(Then(_)) ==
  \E want \in BOOLEAN, could \in BOOLEAN, early \in BOOLEAN :
    LET fresh == want /\ countdown = -1
        at == IF fresh THEN kFramesSprintUpBeforeJump ELSE countdown
        pace == IF early THEN [countdown |-> at, jump |-> FALSE, sprint |-> FALSE]
                ELSE Pace(at, could /\ since = kJumpTakes)
    IN /\ countdown' = pace.countdown
       /\ since' = (IF fresh \/ pace.jump THEN 0
                    ELSE IF since = kJumpTakes THEN since ELSE since + 1)
       /\ Then([jump |-> pace.jump, sprint |-> pace.sprint, still |-> early])

\* DirectionKeys, and jump and sprint with them.
Press(pace) ==
  \E degrees \in IF pace.still THEN {-1} ELSE Ways \cup {-1} :
    /\ direction' = (IF degrees = -1 THEN -1 ELSE Turned(degrees))
    /\ hold' = (IF pace.jump THEN kJumpHold ELSE Less(hold))
    /\ HoldKeys((IF degrees = -1 THEN {} ELSE KeysOf(direction'))
                \cup (IF hold' > 0 THEN {"jump"} ELSE IF pace.sprint THEN {"sprint"} ELSE {}))

\* PadFrame with a way to press, which may be none.
Pressing == Decide(Press)

Idle(pace) == HoldKeys({}) /\ hold' = Less(hold)

\* Keys may not go out, but the frame is decided; a jump it takes is lost.
NotPressing == Decide(Idle) /\ UNCHANGED direction

\* Held still: nothing is decided.
Waiting ==
  /\ Idle(0)
  /\ since' = (IF since = kJumpTakes THEN since ELSE since + 1)
  /\ UNCHANGED <<countdown, direction>>

\* StopLocked and WalkTo.
Stopped ==
  /\ countdown' = -1 /\ HoldKeys({})
  /\ UNCHANGED <<since, hold, direction>>

Next == Pressing \/ NotPressing \/ Waiting \/ Stopped

Spec == Init /\ [][Next]_vars

-----------------------------------------------------------------------------
\* The jump key goes down only when sprint has been up for the frames before: a
\* server looks for the two together (walker.cpp:222-226).
SprintIsUpForAJump ==
  [][("jump" \in held' /\ "jump" \notin held)
       => "sprint" \notin held' /\ off = kFramesSprintUpBeforeJump]_vars
===============================================================================
