--------------------------------- MODULE Drive ---------------------------------
(***************************************************************************)
(* Driving (actions/driver.cpp): a route of road nodes followed with the   *)
(* wheel, the throttle and the brake, every frame, on the game thread.     *)
(* Whether the keys may go out, whether he is still at the wheel, how fast *)
(* it goes and how far it has come are free choices every tick.            *)
(***************************************************************************)
EXTENDS Integers

CONSTANTS
  MaxNodes,              \* bound of the model: nodes of a route
  MaxDrives,             \* bound of the model: drives begun
  kStuckAfter,           \* ticks of hardly moving that count as wedged
  kReverseFor,           \* ticks backing out takes
  kGiveUpAfterStuck

VARIABLES
  d,         \* the drive: driving, note, leg, legs, stuck, still (ticks since
             \* it last moved), backing (ticks of it left)
  pressed,   \* what the drive holds
  drives,
  last       \* history: how the last tick found the car

vars == <<d, pressed, drives, last>>

Parked == [driving |-> FALSE, note |-> "idle", leg |-> 1, legs |-> 0, stuck |-> 0,
           still |-> 0, backing |-> 0]

Init == d = Parked /\ pressed = "nothing" /\ drives = 0 /\ last = "slow"

Aged == [d EXCEPT !.still = IF @ > kStuckAfter THEN @ ELSE @ + 1,
                  !.backing = IF @ = 0 THEN 0 ELSE @ - 1]

\* StopLocked.  The counts stay as they are, and mean nothing between drives.
Stopped(why) ==
  /\ d' = [Parked EXCEPT !.note = why] /\ pressed' = "nothing"

\* DriveTo: at the wheel, and with a road to follow.  One under way is replaced.
DriveTo ==
  /\ drives < MaxDrives /\ drives' = drives + 1
  /\ \E n \in 2..MaxNodes :
       d' = [Parked EXCEPT !.driving = TRUE, !.note = "driving", !.legs = n]
  /\ UNCHANGED <<pressed, last>>

\* DriveStop, whether or not he drives.
DriveStop == Stopped("stopped") /\ UNCHANGED <<drives, last>>

\* Keys may not go out: another window, the panel's menu, a dialog.
MayNot == d' = Aged /\ pressed' = "nothing"

\* Mutated form: each try at backing out counts as the first.
WedgedAgain(at) ==
  d' = [at EXCEPT !.stuck = 1, !.still = 0, !.backing = kReverseFor]
\* Hardly moving for too long: back out, and the fifth time give up.
Wedged(at) ==
  IF at.stuck < kGiveUpAfterStuck
  THEN d' = [at EXCEPT !.stuck = @ + 1, !.still = 0, !.backing = kReverseFor]
  ELSE d' = [Parked EXCEPT !.note = "stuck"]

\* At the wheel and free to press, moving or not, with `passed` nodes behind.
Steer(moving, leg) ==
  LET at == [Aged EXCEPT !.leg = leg, !.still = IF moving THEN 0 ELSE @]
  IN IF at.backing > 0 THEN d' = at /\ pressed' = "brake"
     ELSE IF at.still > kStuckAfter
          THEN /\ Wedged(at)
               /\ pressed' = IF d'.driving THEN pressed ELSE "nothing"
     ELSE d' = at /\ pressed' \in {"nothing", "brake", "throttle"}

\* DriveTick, every frame.
DriveTick ==
  /\ d.driving
  /\ \/ Stopped("unreadable") /\ UNCHANGED last
     \/ Stopped("left the vehicle") /\ UNCHANGED last
     \/ MayNot /\ last' = "held"
     \/ \E moving \in BOOLEAN : last' = (IF moving THEN "moving" ELSE "slow")
          /\ \/ \E leg \in d.leg..d.legs : Steer(moving, leg)
             \/ Stopped("arrived")
  /\ UNCHANGED drives

Next == DriveTo \/ DriveStop \/ DriveTick

Spec == Init /\ [][Next]_vars
FairSpec == Spec /\ WF_vars(DriveTick)

-----------------------------------------------------------------------------
\* A car that does not come free does not keep the drive for ever: backing out
\* is tried so often and no more, unless the car moves or the keys are held
\* back again and again.
WedgedDriveEnds == <>[](d.driving) => []<>(last # "slow")
===============================================================================
