-------------------------------- MODULE MCMoves --------------------------------
\* What moves him, each on its own from the start: a walk's course, the way it
\* goes round things, the keys it holds, and a drive; and all of them together,
\* each by no more than whether it is under way (Reins).  What they share is the
\* keyboard, which Keys has.
EXTENDS Walk, FiniteSets, Sequences

CONSTANTS
  Ranks, kCentreClearProbes, kDeadEndProbes, kFollowGiveUp, MaxDetours,
  Ways, kFramesSprintUpBeforeJump, kJumpHold, kJumpTakes,
  MaxNodes, MaxDrives, kStuckAfter, kReverseFor, kGiveUpAfterStuck,
  Chains, MaxQueued, MaxAsked

\* A journey by itself, and one that begins once keys have been played.
MCChains == {<<"go">>, <<"press", "go">>}

\* Frames and tries are counted in whole numbers; a chain is made of steps.
ASSUME MovesAssumption ==
  /\ kFramesSprintUpBeforeJump \in Nat /\ kJumpHold \in Nat
  /\ \A c \in Chains : c \in Seq({"go", "press"})

VARIABLES
  what,                                                     \* what moves him
  l, walking, backouts, detours, seen,                      \* Lean
  countdown, since, hold, direction, held, off,             \* Stride
  d, pressed, drives, last,                                 \* Drive
  armed, trusted, wasArmed, journey, planning, walk, drive, \* Reins
  steps, begun, menus, test, queued, grip, mine, press,
  station, disarming, asked, told, left

leanvars == <<l, walking, backouts, detours, seen>>
stridevars == <<countdown, since, hold, direction, held, off>>
drivevars == <<d, pressed, drives, last>>
reinvars ==
  <<armed, trusted, wasArmed, journey, planning, walk, drive, steps, begun, menus,
    test, queued, grip, mine, press, station, disarming, asked, told, left>>

L == INSTANCE Lean WITH MaxWalks <- MaxDetours, walks <- detours
S == INSTANCE Stride
D == INSTANCE Drive
R == INSTANCE Reins WITH held <- grip

MovesInit ==
  /\ Init /\ L!Init /\ S!Init /\ D!Init /\ R!Init
  /\ what \in {"walk", "lean", "stride", "drive", "reins"}

MovesNext ==
  /\ UNCHANGED what
  /\ \/ what = "walk" /\ UNCHANGED <<leanvars, stridevars, drivevars, reinvars>> /\ Next
     \/ what = "lean" /\ UNCHANGED <<vars, stridevars, drivevars, reinvars>> /\ L!Next
     \/ what = "stride" /\ UNCHANGED <<vars, leanvars, drivevars, reinvars>> /\ S!Next
     \/ what = "drive" /\ UNCHANGED <<vars, leanvars, stridevars, reinvars>> /\ D!Next
     \/ what = "reins" /\ UNCHANGED <<vars, leanvars, stridevars, drivevars>> /\ R!Next

MovesSpec ==
  /\ MovesInit /\ [][MovesNext]_<<what, vars, leanvars, stridevars, drivevars, reinvars>>
  /\ FairFrames /\ WF_leanvars(what = "lean" /\ L!Probe)
  /\ WF_drivevars(what = "drive" /\ D!DriveTick) /\ WF_reinvars(what = "reins" /\ R!Frame)

\* Whatever stands across the way for good is handed back (Lean).
WallIsHandedBack == L!WallIsHandedBack

\* Sprint is up for a jump (Stride).
SprintIsUpForAJump == S!SprintIsUpForAJump

\* A car that does not come free does not keep the drive (Drive).
WedgedDriveEnds == D!WedgedDriveEnds

\* Let go of, he is moved only by what was left running (Reins).
OnlyWhatWasLeft == R!OnlyWhatWasLeft

\* What is held for something that is over comes up (Reins).
KeysComeUp == R!KeysComeUp
===============================================================================
