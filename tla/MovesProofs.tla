------------------------------ MODULE MovesProofs ------------------------------
(***************************************************************************)
(* What moves him, for every number of frames, tries and chains:           *)
(*   LetGoOfHeStays     let go of, he is moved only by what was left       *)
(*                      running;                                           *)
(*   SprintIsUpFirst    sprint is up for the frames before a jump;         *)
(*   HandedBackForReason  a walk given up for getting no closer had been   *)
(*                      free to move all the while.                        *)
(***************************************************************************)
EXTENDS MCMoves, SequenceTheorems, TLAPS

everything == <<what, vars, leanvars, stridevars, drivevars, reinvars>>

-----------------------------------------------------------------------------
(* Who moves the character (Reins).                                        *)

\* A chain that runs has its end before it.
EndAhead ==
  steps # <<>> => steps \in Seq({"go", "press", "end"}) /\ steps[Len(steps)] = "end"
ReinsInv == OnlyWhatWasLeft /\ EndAhead

\* The chain of an act tool ends.
LEMMA Ended ==
  ASSUME NEW c \in Chains
  PROVE  /\ Append(c, "end") \in Seq({"go", "press", "end"})
         /\ Append(c, "end")[Len(Append(c, "end"))] = "end"
<1>1. c \in Seq({"go", "press"})
  BY MovesAssumption DEF MovesAssumption
<1>2. c \in Seq({"go", "press", "end"}) /\ "end" \in {"go", "press", "end"}
  BY <1>1
<1>3. /\ Append(c, "end") \in Seq({"go", "press", "end"})
      /\ Len(Append(c, "end")) = Len(c) + 1 /\ Append(c, "end")[Len(c) + 1] = "end"
  BY <1>2, AppendProperties
<1> QED  BY <1>3

\* A step that is no end has the end behind it.
LEMMA MoreToDo ==
  ASSUME EndAhead, steps # <<>>, Head(steps) # "end"
  PROVE  /\ Tail(steps) # <<>> /\ Tail(steps) \in Seq({"go", "press", "end"})
         /\ Tail(steps)[Len(Tail(steps))] = "end"
<1>1. /\ steps \in Seq({"go", "press", "end"}) /\ steps[Len(steps)] = "end"
      /\ Len(steps) \in Nat /\ Len(steps) > 0 /\ Head(steps) = steps[1]
  BY DEF EndAhead
<1>2. Len(steps) > 1
  BY <1>1
<1>3. /\ Tail(steps) \in Seq({"go", "press", "end"}) /\ Len(Tail(steps)) = Len(steps) - 1
      /\ \A i \in 1..Len(Tail(steps)) : Tail(steps)[i] = steps[i + 1]
  BY <1>1, HeadTailProperties
<1>4. Tail(steps)[Len(steps) - 1] = steps[Len(steps)]
  <2>1. Len(steps) - 1 \in 1..Len(Tail(steps)) /\ (Len(steps) - 1) + 1 = Len(steps)
    BY <1>1, <1>2, <1>3
  <2>2. Tail(steps)[Len(steps) - 1] = steps[(Len(steps) - 1) + 1]
    BY <1>3, <2>1, Zenon
  <2> QED  BY <2>1, <2>2
<1>5. Tail(steps) # <<>>
  <2>1. Len(Tail(steps)) # 0
    BY <1>1, <1>2, <1>3
  <2>2. Len(<<>>) = 0
    BY EmptySeq
  <2> QED  BY <2>1, <2>2, Zenon
<1> QED  BY <1>1, <1>3, <1>4, <1>5

LEMMA EndStaysAhead ==
  ASSUME EndAhead, R!Next
  PROVE  EndAhead'
<1>1. CASE steps' = steps \/ steps' = <<>>
  BY <1>1 DEF EndAhead
<1>2. ASSUME NEW c \in Chains, steps' = Append(c, "end")
      PROVE  EndAhead'
  BY <1>2, Ended DEF EndAhead
<1>3. CASE steps # <<>> /\ Head(steps) # "end" /\ steps' = Tail(steps)
  BY <1>3, MoreToDo DEF EndAhead
<1> QED
  <2>1. CASE R!Tools
    BY <1>1, <1>2, <2>1 DEF R!Tools, R!MoveToTool, R!TravelToTool, R!Act, R!FollowDialogTool,
       R!DriveToTool, R!PressKey, R!UseVehicle, R!SendChat, R!AnswerDialog, R!LoginNow, R!Play,
       R!SetMovement, R!StopTool, R!chain
  <2>2. CASE R!ChainTick
    BY <1>1, <1>3, <2>2 DEF R!ChainTick, R!ChainStep, R!ChainEnds
  <2>3. CASE R!Frame /\ ~R!ChainTick
    BY <1>1, <2>3 DEF R!Frame, R!KeysTick, R!DialogPathTick, R!TravelTick, R!DriveTick,
       R!DecideStick, R!Hold, R!ExperimentTick, R!FrameEnds, R!chain
  <2>4. CASE R!Menu
    BY <1>1, <2>4 DEF R!Menu, R!GoToMarker, R!SwitchOn, R!StopExperiments, R!WalkThePlan,
       R!TravelThere, R!CancelJourney, R!StopWalking, R!StopEverything, R!StartExperiment, R!chain
  <2>5. CASE R!Disarm \/ R!Toggle \/ R!ActStop
    BY <1>1, <2>5 DEF R!Disarm, R!Toggle, R!ActStop, R!chain
  <2> QED  BY <2>1, <2>2, <2>3, <2>4, <2>5 DEF R!Next

\* He is still: nothing walks him, and a drive or a chain was left.
Still == ~journey /\ ~R!Walking

LEMMA AskedIsNothing == ASSUME R!Ask PROVE OnlyWhatWasLeft'
BY DEF R!Ask, OnlyWhatWasLeft, R!OnlyWhatWasLeft

\* Whoever lets go stops the walk and the journey, and what he does not stop he
\* is known to have left.
LEMMA LeftIsKnown ==
  ASSUME NEW who, NEW leaves \in SUBSET {"drive", "chain", "menus"}, R!LetGo(who, leaves),
         R!CancelTravel, "chain" \in leaves, steps' = steps, drive' => drive,
         "drive" \in leaves \/ ~drive'
  PROVE  OnlyWhatWasLeft'
<1>1. ~journey' /\ walk' = "none"
  BY DEF R!CancelTravel, R!Stop
<1>2. drive' => "drive" \in left'
  BY DEF R!LetGo, R!Running
<1>3. steps' # <<>> => "chain" \in left'
  BY DEF R!LetGo, R!Running
<1> QED  BY <1>1, <1>2, <1>3 DEF OnlyWhatWasLeft, R!OnlyWhatWasLeft, R!Walking

\* Stopping more, or keeping things as they are, spoils nothing.
LEMMA NothingComesBack ==
  ASSUME OnlyWhatWasLeft, told' = told, left' = left,
         journey' => journey \/ R!Walking, walk' # "none" => journey \/ R!Walking,
         drive' => drive, steps' # <<>> => steps # <<>>,
         journey' \/ walk' # "none" => steps' # <<>> \/ steps = <<>>
  PROVE  OnlyWhatWasLeft'
BY DEF OnlyWhatWasLeft, R!OnlyWhatWasLeft, R!Walking

LEMMA FrameBringsNothingBack ==
  ASSUME ReinsInv, R!Frame
  PROVE  OnlyWhatWasLeft'
<1>1. CASE R!KeysTick \/ R!DialogPathTick \/ R!Hold \/ R!ExperimentTick \/ R!FrameEnds
  <2>1. UNCHANGED <<journey, walk, drive, steps, told, left>>
    BY <1>1 DEF R!KeysTick, R!DialogPathTick, R!Hold, R!ExperimentTick, R!FrameEnds,
       R!trip, R!chain, R!history
  <2> QED  BY <2>1, NothingComesBack DEF ReinsInv, R!Walking
<1>2. CASE R!ChainTick
  <2>1. UNCHANGED <<drive, told, left>>
    BY <1>2 DEF R!ChainTick, R!history
  <2>2. CASE steps # <<>> /\ R!ChainStep
    <3>1. CASE R!ChainEnds
      BY <2>1, <3>1, NothingComesBack DEF R!ChainEnds, R!CancelTravel, R!Stop, ReinsInv
    <3>2. CASE steps' # <<>>
      BY <2>1, <2>2, <3>2 DEF ReinsInv, OnlyWhatWasLeft, R!OnlyWhatWasLeft
    <3>3. CASE Head(steps) # "end" /\ steps' = Tail(steps)
      BY <2>1, <2>2, <3>2, <3>3, MoreToDo DEF ReinsInv
    <3> QED  BY <2>2, <3>1, <3>2, <3>3 DEF R!ChainStep
  <2>3. CASE UNCHANGED <<journey, walk, steps>>
    BY <2>1, <2>3, NothingComesBack DEF R!trip, ReinsInv, R!Walking
  <2> QED  BY <1>2, <2>2, <2>3 DEF R!ChainTick, R!trip
<1>3. CASE R!TravelTick
  <2>1. UNCHANGED <<drive, steps, told, left>>
    BY <1>3 DEF R!TravelTick, R!chain, R!history
  <2>2. \/ UNCHANGED <<journey, walk>>
        \/ ~journey' /\ walk' = "none"
        \/ ~journey' /\ walk' = walk
        \/ journey /\ UNCHANGED <<journey, walk>>
        \/ journey /\ walk' = "leg" /\ journey' = journey
    BY <1>3 DEF R!TravelTick, R!CancelTravel, R!Stop, R!trip
  <2> QED  BY <2>1, <2>2, NothingComesBack DEF ReinsInv, R!Walking
<1>4. CASE R!DriveTick \/ R!DecideStick
  <2>1. UNCHANGED <<journey, steps, told, left>>
    BY <1>4 DEF R!DriveTick, R!DecideStick, R!trip, R!chain, R!history
  <2>2. (drive' => drive) /\ (walk' # "none" => R!Walking)
    BY <1>4 DEF R!DriveTick, R!DecideStick, R!DriveStop, R!Stop, R!trip, R!Walking
  <2> QED  BY <2>1, <2>2, NothingComesBack DEF ReinsInv
<1> QED  BY <1>1, <1>2, <1>3, <1>4 DEF R!Frame

LEMMA OthersBringNothingBack ==
  ASSUME ReinsInv, R!Disarm \/ R!Toggle \/ R!ActStop
  PROVE  OnlyWhatWasLeft'
<1>1. CASE R!Toggle
  BY <1>1, AskedIsNothing DEF R!Toggle
<1>2. CASE R!ActStop
  BY <1>2, NothingComesBack DEF R!ActStop, R!CancelTravel, R!Stop, R!history, ReinsInv
<1>3. CASE /\ R!CancelTravel /\ R!LetGo("disarm", {"drive", "chain", "menus"})
           /\ UNCHANGED <<drive, steps>>
  BY <1>3, LeftIsKnown DEF R!chain
<1>4. CASE R!Stop /\ UNCHANGED <<journey, drive, steps, told, left>>
  BY <1>4, NothingComesBack DEF R!Stop, R!chain, R!history, ReinsInv
<1>5. CASE UNCHANGED <<journey, walk, drive, steps, told, left>>
  BY <1>5, NothingComesBack DEF R!trip, R!chain, R!history, ReinsInv, R!Walking
<1> QED  BY <1>1, <1>2, <1>3, <1>4, <1>5 DEF R!Disarm, R!trip, R!chain, R!history

LEMMA ToolsBringNothingBack ==
  ASSUME ReinsInv, R!Tools \/ R!Menu
  PROVE  OnlyWhatWasLeft'
<1>1. CASE R!Ask
  BY <1>1, AskedIsNothing
<1>2. CASE /\ \E who : R!LetGo(who, {"drive", "chain", "menus"})
           /\ R!CancelTravel /\ UNCHANGED <<drive, steps>>
  BY <1>2, LeftIsKnown DEF R!chain
<1>3. CASE R!StopTool
  BY <1>3, LeftIsKnown DEF R!StopTool, R!chain
<1>4. CASE R!StopExperiments
  BY <1>4, NothingComesBack DEF R!StopExperiments, R!trip, R!chain, R!history, ReinsInv, R!Walking
<1>5. CASE R!CancelJourney \/ R!StopWalking
  BY <1>5, NothingComesBack
     DEF R!CancelJourney, R!StopWalking, R!CancelTravel, R!Stop, R!chain, R!history, ReinsInv
<1>6. CASE R!Tools
  BY <1>1, <1>2, <1>3, <1>6
     DEF R!Tools, R!MoveToTool, R!TravelToTool, R!Act, R!FollowDialogTool, R!DriveToTool,
         R!PressKey, R!UseVehicle, R!SendChat, R!AnswerDialog, R!LoginNow, R!Play, R!SetMovement,
         R!chain
<1>7. CASE R!Menu
  BY <1>1, <1>2, <1>4, <1>5, <1>7
     DEF R!Menu, R!GoToMarker, R!SwitchOn, R!WalkThePlan, R!TravelThere, R!StopEverything,
         R!StartExperiment, R!chain
<1> QED  BY <1>6, <1>7

LEMMA ReinsKeepInv ==
  ASSUME ReinsInv, R!Next \/ UNCHANGED reinvars
  PROVE  ReinsInv'
<1>1. CASE R!Next
  BY <1>1, EndStaysAhead, FrameBringsNothingBack, OthersBringNothingBack, ToolsBringNothingBack
     DEF R!Next, ReinsInv
<1>2. CASE UNCHANGED reinvars
  <2>1. UNCHANGED <<journey, walk, drive, steps, told, left>>
    BY <1>2 DEF reinvars
  <2> QED  BY <2>1, NothingComesBack DEF ReinsInv, R!Walking, EndAhead
<1> QED  BY <1>1, <1>2

\* Once he has been let go of he walks only for a chain that was left running
\* (travel.cpp:617, walker.cpp:2244, driver.cpp:158, overlay.cpp:2365), for every
\* chain and every number of things asked for.
THEOREM LetGoOfHeStays == MovesSpec => []OnlyWhatWasLeft
<1>1. MovesInit => ReinsInv
  BY DEF MovesInit, R!Init, ReinsInv, OnlyWhatWasLeft, R!OnlyWhatWasLeft, EndAhead
<1>2. ReinsInv /\ [MovesNext]_everything => ReinsInv'
  <2> SUFFICES ASSUME ReinsInv, [MovesNext]_everything
               PROVE  ReinsInv'
    OBVIOUS
  <2>1. R!Next \/ UNCHANGED reinvars
    BY DEF MovesNext, everything
  <2> QED  BY <2>1, ReinsKeepInv
<1>3. ReinsInv => OnlyWhatWasLeft
  BY DEF ReinsInv
<1> QED  BY <1>1, <1>2, <1>3, PTL DEF MovesSpec, everything

-----------------------------------------------------------------------------
(* The keys a walk holds (Stride).                                         *)

\* Sprint has been up at least since the jump was wanted, and as long as the jump
\* key is down for.
CountedUp ==
  /\ countdown \in -1..kFramesSprintUpBeforeJump /\ hold \in 0..kJumpHold
  /\ off \in 0..kFramesSprintUpBeforeJump
  /\ countdown # -1 => off >= kFramesSprintUpBeforeJump - countdown
  /\ hold > 0 => off = kFramesSprintUpBeforeJump

\* What a frame decides, from the countdown it finds.
Paced(pace) ==
  /\ pace.jump \in BOOLEAN /\ pace.sprint \in BOOLEAN
  /\ pace.jump => ~pace.sprint /\ off = kFramesSprintUpBeforeJump
  /\ countdown' \in -1..kFramesSprintUpBeforeJump
  /\ countdown' # -1 => /\ ~pace.sprint
                        /\ off + 1 >= kFramesSprintUpBeforeJump - countdown'

LEMMA PacedAsCounted ==
  ASSUME CountedUp, NEW fresh \in BOOLEAN, fresh => countdown = -1,
         NEW early \in BOOLEAN, NEW could \in BOOLEAN,
         NEW at, at = IF fresh THEN kFramesSprintUpBeforeJump ELSE countdown,
         NEW pace, pace = IF early THEN [countdown |-> at, jump |-> FALSE, sprint |-> FALSE]
                          ELSE S!Pace(at, could),
         countdown' = pace.countdown
  PROVE  Paced(pace)
<1>1. /\ kFramesSprintUpBeforeJump \in Nat /\ off \in Nat /\ countdown \in Int
      /\ at \in -1..kFramesSprintUpBeforeJump
      /\ at # -1 => off >= kFramesSprintUpBeforeJump - at
      /\ off <= kFramesSprintUpBeforeJump
  BY MovesAssumption DEF MovesAssumption, CountedUp
<1>2. CASE early
  <2>1. countdown' = at /\ pace.jump = FALSE /\ pace.sprint = FALSE
    BY <1>2
  <2>2. /\ pace.jump \in BOOLEAN /\ pace.sprint \in BOOLEAN /\ ~pace.sprint /\ ~pace.jump
    BY <2>1
  <2>3. /\ countdown' \in -1..kFramesSprintUpBeforeJump
        /\ countdown' # -1 => off + 1 >= kFramesSprintUpBeforeJump - countdown'
    BY <1>1, <2>1
  <2> QED  BY <2>2, <2>3 DEF Paced
<1>3. CASE ~early
  <2>1. /\ countdown' = IF at = -1 THEN -1 ELSE at - 1
        /\ pace.jump = (at = 0) /\ pace.sprint = (at = -1 /\ could)
    BY <1>3 DEF S!Pace
  <2>2. CASE at = -1
    <3>1. countdown' = -1
      BY <2>1, <2>2
    <3>0. pace.jump = FALSE
      <4>1. at # 0
        BY <1>1, <2>2
      <4> QED  BY ONLY <2>1, <4>1
    <3>2. pace.sprint = TRUE \/ pace.sprint = FALSE
      BY <2>1
    <3>3. -1 \in -1..kFramesSprintUpBeforeJump
      BY <1>1
    <3> QED  BY <3>0, <3>1, <3>2, <3>3 DEF Paced
  <2>3. CASE at # -1
    <3>1. pace.sprint = FALSE
      BY <2>1, <2>3
    <3>2. /\ countdown' \in -1..kFramesSprintUpBeforeJump
          /\ off + 1 >= kFramesSprintUpBeforeJump - countdown'
      BY <1>1, <2>1, <2>3
    <3>3. at = 0 => off = kFramesSprintUpBeforeJump
      BY <1>1
    <3>4. pace.jump = TRUE \/ pace.jump = FALSE
      BY <2>1
    <3> QED  BY <2>1, <3>1, <3>2, <3>3, <3>4 DEF Paced
  <2> QED  BY <2>2, <2>3
<1> QED  BY <1>2, <1>3

\* The frame's deciding, and what is held by it.
LEMMA PressesPaced ==
  ASSUME CountedUp, S!Pressing
  PROVE  \E pace : Paced(pace) /\ S!Press(pace)
<1>1. PICK want \in BOOLEAN, could \in BOOLEAN, early \in BOOLEAN :
        LET fresh == want /\ countdown = -1
            at == IF fresh THEN kFramesSprintUpBeforeJump ELSE countdown
            pace == IF early THEN [countdown |-> at, jump |-> FALSE, sprint |-> FALSE]
                    ELSE S!Pace(at, could /\ since = kJumpTakes)
        IN /\ countdown' = pace.countdown
           /\ since' = (IF fresh \/ pace.jump THEN 0
                        ELSE IF since = kJumpTakes THEN since ELSE since + 1)
           /\ S!Press([jump |-> pace.jump, sprint |-> pace.sprint, still |-> early])
  BY Zenon DEF S!Pressing, S!Decide
<1> DEFINE fresh == want /\ countdown = -1
           at == IF fresh THEN kFramesSprintUpBeforeJump ELSE countdown
           spare == could /\ since = kJumpTakes
           pace == IF early THEN [countdown |-> at, jump |-> FALSE, sprint |-> FALSE]
                   ELSE S!Pace(at, spare)
           shown == [jump |-> pace.jump, sprint |-> pace.sprint, still |-> early]
<1>2. countdown' = pace.countdown /\ S!Press(shown)
  BY <1>1
<1>3. fresh \in BOOLEAN /\ spare \in BOOLEAN /\ (fresh => countdown = -1)
  OBVIOUS
<1>4. Paced(pace)
  <2> HIDE DEF fresh, spare
  <2> QED  BY <1>2, <1>3, PacedAsCounted
<1>5. shown.jump = pace.jump /\ shown.sprint = pace.sprint
  OBVIOUS
<1> HIDE DEF pace, shown
<1>6. Paced(shown)
  BY <1>4, <1>5 DEF Paced
<1> QED  BY <1>2, <1>6

LEMMA IdlesPaced ==
  ASSUME CountedUp, S!NotPressing
  PROVE  S!Idle(0) /\ \E pace : Paced(pace)
<1>1. PICK want \in BOOLEAN, could \in BOOLEAN, early \in BOOLEAN :
        LET fresh == want /\ countdown = -1
            at == IF fresh THEN kFramesSprintUpBeforeJump ELSE countdown
            pace == IF early THEN [countdown |-> at, jump |-> FALSE, sprint |-> FALSE]
                    ELSE S!Pace(at, could /\ since = kJumpTakes)
        IN countdown' = pace.countdown /\ S!Idle(0)
  BY DEF S!NotPressing, S!Decide, S!Idle
<1> DEFINE fresh == want /\ countdown = -1
           at == IF fresh THEN kFramesSprintUpBeforeJump ELSE countdown
           spare == could /\ since = kJumpTakes
           pace == IF early THEN [countdown |-> at, jump |-> FALSE, sprint |-> FALSE]
                   ELSE S!Pace(at, spare)
<1>2. countdown' = pace.countdown /\ S!Idle(0)
  BY <1>1
<1>3. fresh \in BOOLEAN /\ spare \in BOOLEAN /\ (fresh => countdown = -1)
  OBVIOUS
<1>4. Paced(pace)
  <2> HIDE DEF fresh, spare
  <2> QED  BY <1>2, <1>3, PacedAsCounted
<1> QED  BY <1>2, <1>4

\* The jump key goes down only when sprint has been up.
JumpsRight ==
  ("jump" \in held' /\ "jump" \notin held)
    => "sprint" \notin held' /\ off = kFramesSprintUpBeforeJump

\* What is counted down leaves no more than there was.
LEMMA Remaining ==
  ASSUME NEW all \in Nat, NEW at \in -1..all, at # -1
  PROVE  all - at \in Int /\ all - at <= all
OBVIOUS

\* Sprint not held is up one frame more.
LEMMA HeldCounts ==
  ASSUME CountedUp, NEW keys, S!HoldKeys(keys)
  PROVE  /\ held' = keys /\ off' \in 0..kFramesSprintUpBeforeJump
         /\ "sprint" \notin keys =>
              /\ off = kFramesSprintUpBeforeJump => off' = kFramesSprintUpBeforeJump
              /\ \A n \in Int : n <= kFramesSprintUpBeforeJump /\ off + 1 >= n => off' >= n
<1>1. kFramesSprintUpBeforeJump \in Nat /\ off \in 0..kFramesSprintUpBeforeJump
  BY MovesAssumption DEF MovesAssumption, CountedUp
<1>2. CASE "sprint" \in keys
  <2>1. held' = keys /\ off' = 0
    BY <1>2 DEF S!HoldKeys
  <2> QED  BY <1>1, <1>2, <2>1
<1>3. CASE "sprint" \notin keys
  <2>1. /\ held' = keys
        /\ off' = IF off = kFramesSprintUpBeforeJump THEN off ELSE off + 1
    BY <1>3 DEF S!HoldKeys
  <2> QED  BY <1>1, <2>1
<1> QED  BY <1>2, <1>3

LEMMA StrideKeeps ==
  ASSUME CountedUp, S!Next
  PROVE  CountedUp' /\ JumpsRight
<1> DEFINE kF == kFramesSprintUpBeforeJump
<1>1. /\ kF \in Nat /\ kJumpHold \in Nat /\ off \in 0..kF /\ hold \in 0..kJumpHold
      /\ hold > 0 => off = kF
      /\ countdown # -1 => off >= kF - countdown
      /\ countdown \in -1..kF
  BY MovesAssumption DEF MovesAssumption, CountedUp
<1>2. CASE S!Pressing
  <2>1. PICK pace : Paced(pace) /\ S!Press(pace)
    BY <1>2, PressesPaced
  <2>2. PICK degrees : /\ hold' = (IF pace.jump THEN kJumpHold ELSE S!Less(hold))
          /\ S!HoldKeys((IF degrees = -1 THEN {} ELSE S!KeysOf(direction'))
                \cup (IF hold' > 0 THEN {"jump"} ELSE IF pace.sprint THEN {"sprint"} ELSE {}))
    BY <2>1 DEF S!Press
  <2> DEFINE some == (IF degrees = -1 THEN {} ELSE S!KeysOf(direction'))
                \cup (IF hold' > 0 THEN {"jump"} ELSE IF pace.sprint THEN {"sprint"} ELSE {})
  <2>3. /\ "sprint" \in some <=> ~(hold' > 0) /\ pace.sprint
        /\ "jump" \in some <=> hold' > 0
    BY DEF S!KeysOf
  <2>4. S!HoldKeys(some)
    BY <2>2
  <2> HIDE DEF some
  <2>5. /\ held' = some /\ off' \in 0..kF
        /\ "sprint" \notin some =>
              /\ off = kF => off' = kF
              /\ \A n \in Int : n <= kF /\ off + 1 >= n => off' >= n
    BY <2>4, HeldCounts
  <2>6. hold' \in 0..kJumpHold /\ (hold' > 0 => off = kF)
    BY <1>1, <2>1, <2>2 DEF Paced, S!Less
  <2>7. hold' > 0 => off' = kF
    BY <2>3, <2>5, <2>6
  <2>8. countdown' \in -1..kF /\ (countdown' # -1 => off' >= kF - countdown')
    <3>1. countdown' \in -1..kF
      BY <2>1 DEF Paced
    <3>2. ASSUME countdown' # -1
          PROVE  off' >= kF - countdown'
      <4>1. "sprint" \notin some /\ off + 1 >= kF - countdown'
        BY <2>1, <2>3, <3>2 DEF Paced
      <4>2. kF - countdown' \in Int /\ kF - countdown' <= kF
        BY <1>1, <3>1, <3>2, Remaining
      <4> QED  BY <2>5, <4>1, <4>2
    <3> QED  BY <3>1, <3>2
  <2>9. CountedUp'
    BY <2>5, <2>6, <2>7, <2>8 DEF CountedUp
  <2> QED  BY <2>3, <2>5, <2>6, <2>9 DEF JumpsRight
<1>3. ASSUME S!Idle(0), countdown' \in -1..kF,
             countdown' # -1 => off + 1 >= kF - countdown'
      PROVE  CountedUp' /\ JumpsRight
  <2>1. S!HoldKeys({}) /\ hold' = S!Less(hold)
    BY <1>3 DEF S!Idle
  <2>2. /\ held' = {} /\ off' \in 0..kF /\ (off = kF => off' = kF)
        /\ \A n \in Int : n <= kF /\ off + 1 >= n => off' >= n
    BY <2>1, HeldCounts
  <2>3. hold' \in 0..kJumpHold /\ (hold' > 0 => off' = kF)
    BY <1>1, <2>1, <2>2 DEF S!Less
  <2>4. countdown' # -1 => off' >= kF - countdown'
    <3> SUFFICES ASSUME countdown' # -1
                 PROVE  off' >= kF - countdown'
      OBVIOUS
    <3>1. kF - countdown' \in Int /\ kF - countdown' <= kF
      BY <1>1, <1>3, Remaining
    <3> QED  BY <1>3, <2>2, <3>1
  <2> QED  BY <1>3, <2>2, <2>3, <2>4 DEF CountedUp, JumpsRight
<1>4. CASE S!NotPressing
  <2>1. S!Idle(0) /\ \E pace : Paced(pace)
    BY <1>4, IdlesPaced
  <2> QED  BY <1>3, <2>1 DEF Paced
<1>5. CASE S!Waiting
  <2>1. S!Idle(0) /\ countdown' = countdown
    BY <1>5 DEF S!Waiting
  <2>2. countdown # -1 => off + 1 >= kF - countdown
    BY <1>1
  <2> QED  BY <1>1, <1>3, <2>1, <2>2
<1>6. CASE S!Stopped
  <2>1. S!HoldKeys({}) /\ countdown' = -1 /\ hold' = hold
    BY <1>6 DEF S!Stopped
  <2>2. held' = {} /\ off' \in 0..kF /\ (off = kF => off' = kF)
    BY <2>1, HeldCounts
  <2>3. -1 \in -1..kF
    BY <1>1
  <2> QED  BY <1>1, <2>1, <2>2, <2>3 DEF CountedUp, JumpsRight
<1> QED  BY <1>2, <1>4, <1>5, <1>6 DEF S!Next

\* The jump key goes down only when sprint has been up for the frames before
\* (walker.cpp:222-226), whatever the walk wants in between.
THEOREM SprintIsUpFirst == MovesSpec => SprintIsUpForAJump
<1>1. MovesInit => CountedUp
  BY MovesAssumption DEF MovesAssumption, MovesInit, S!Init, CountedUp
<1>2. CountedUp /\ [MovesNext]_everything => CountedUp' /\ [JumpsRight]_(S!vars)
  <2> SUFFICES ASSUME CountedUp, [MovesNext]_everything
               PROVE  CountedUp' /\ [JumpsRight]_(S!vars)
    OBVIOUS
  <2>1. CASE S!Next
    BY <2>1, StrideKeeps
  <2>2. CASE UNCHANGED stridevars
    BY <2>2 DEF stridevars, CountedUp, S!vars, S!jumping, S!keys
  <2> QED  BY <2>1, <2>2 DEF MovesNext, everything
<1> QED  BY <1>1, <1>2, PTL DEF MovesSpec, everything, SprintIsUpForAJump, S!SprintIsUpForAJump,
            JumpsRight

-----------------------------------------------------------------------------
(* The course of a walk (Walk).                                            *)

\* What is asked of a walker here.
Fields == {"walking", "note", "closer"}
\* Under way, and no longer without getting closer than he has been free to move.
Going(v, n) ==
  /\ Fields \subseteq DOMAIN v /\ v.walking = TRUE /\ v.note = "walking"
  /\ v.closer \in 0..(kNoCloser + 1) /\ v.closer <= n
\* Under way like that, or over, and for want of getting closer only after having
\* been free to.
Told(v, n) ==
  /\ Fields \subseteq DOMAIN v /\ v.walking \in BOOLEAN
  /\ v.walking = TRUE => Going(v, n)
  /\ v.note = "no closer" => n > kNoCloser
\* So for every outcome of a case.
AllTold(outcomes, n) ==
  \A o \in outcomes : o.over \in BOOLEAN /\ Told(o.w, n) /\ (o.over = FALSE => Going(o.w, n))

FreeInv == Told(w, free) /\ free \in 0..(kNoCloser + 2)

LEMMA StoppedTells ==
  ASSUME NEW v, NEW why, NEW n \in Nat, why = "no closer" => n > kNoCloser
  PROVE  Told(Stopped(v, why), n) /\ AllTold({Stop(v, why)}, n)
<1>1. Stopped(v, why).walking = FALSE /\ Stopped(v, why).note = why
  BY DEF Stopped, Idle
<1>2. Fields \subseteq DOMAIN Stopped(v, why)
  BY DEF Stopped, Idle, Fields
<1>3. Told(Stopped(v, why), n)
  BY <1>1, <1>2 DEF Told
<1>4. Stop(v, why).w = Stopped(v, why) /\ Stop(v, why).over = TRUE
  BY DEF Stop, Return
<1> QED  BY <1>3, <1>4 DEF AllTold

\* Nothing is claimed when a walk stops for another reason.
LEMMA StopsTell ==
  ASSUME NEW v, NEW n \in Nat
  PROVE  /\ AllTold({Stop(v, "out of time")}, n) /\ AllTold({Stop(v, "unreadable")}, n)
         /\ AllTold({Stop(v, "arrived")}, n) /\ AllTold({Stop(v, "not moving")}, n)
         /\ AllTold({Stop(v, "stuck")}, n) /\ AllTold({Stop(v, "blocked")}, n)
         /\ Told(Stopped(v, "stopped"), n)
<1>1. ASSUME NEW why, why # "no closer"
      PROVE  Told(Stopped(v, why), n) /\ AllTold({Stop(v, why)}, n)
  BY <1>1, StoppedTells
<1>2. /\ "out of time" # "no closer" /\ "unreadable" # "no closer" /\ "arrived" # "no closer"
      /\ "not moving" # "no closer" /\ "stuck" # "no closer" /\ "blocked" # "no closer"
      /\ "stopped" # "no closer"
  OBVIOUS
<1> QED  BY <1>1, <1>2, Zenon

LEMMA GoingTells ==
  ASSUME NEW n \in Nat, NEW v, Going(v, n)
  PROVE  Told(v, n) /\ AllTold({On(v)}, n) /\ AllTold({Return(v)}, n)
<1>1. Told(v, n)
  BY DEF Going, Told
<1>2. /\ On(v).w = v /\ On(v).over = FALSE
      /\ Return(v).w = v /\ Return(v).over = TRUE
  BY DEF On, Return
<1> QED  BY <1>1, <1>2 DEF AllTold

LEMMA LimitsTell ==
  ASSUME NEW n \in Nat, NEW v, Going(v, n)
  PROVE  AllTold(Limits(v), n)
<1>1. /\ AllTold({Stop(v, "out of time")}, n)
      /\ AllTold({Stop(v, "unreadable")}, n)
  BY StopsTell, Zenon
<1>2. AllTold({On(v)}, n)
  BY GoingTells
<1>3. Limits(v) \subseteq {On(v)} \cup {Stop(v, "out of time")} \cup {Stop(v, "unreadable")}
  BY DEF Limits
<1> QED  BY <1>1, <1>2, <1>3 DEF AllTold

LEMMA NextLegGoes ==
  ASSUME NEW n \in Nat, NEW v, Going(v, n), NEW i
  PROVE  Going(NextLeg(v, i), n)
BY WalkAssumption DEF WalkAssumption, Going, Fields, NextLeg

LEMMA LegsTell ==
  ASSUME NEW n \in Nat, NEW v, Going(v, n)
  PROVE  AllTold(Reach(v), n) /\ AllTold(InsideSomething(v), n)
<1>2. AllTold({Stop(v, "arrived")}, n)
  BY StopsTell
<1>3. \A i : AllTold({On(NextLeg(v, i))}, n)
  BY NextLegGoes, GoingTells
<1>4. AllTold(Reach(v), n)
  <2> QED  BY <1>2, <1>3, GoingTells DEF Reach, AllTold
<1>5. AllTold(InsideSomething(v), n)
  BY <1>3, GoingTells DEF InsideSomething, AllTold
<1> QED  BY <1>4, <1>5

LEMMA HangingTells ==
  ASSUME NEW n \in Nat, NEW v, Going(v, n)
  PROVE  AllTold(HangOn(v), n)
<1>1. Going([v EXCEPT !.letting = kLetGo], n)
  BY WalkAssumption DEF WalkAssumption, Going, Fields
<1> QED  BY <1>1, GoingTells DEF HangOn, AllTold

LEMMA GettingCloserTells ==
  ASSUME NEW n \in Nat, NEW v, Going(v, n)
  PROVE  AllTold(GettingCloser(v), n)
<1>1. Going([v EXCEPT !.best = v.away, !.closer = 0], n)
  BY WalkAssumption DEF WalkAssumption, Going, Fields
<1>2. ASSUME v.closer > kNoCloser
      PROVE  AllTold({Stop(v, "no closer")}, n)
  <2>1. n > kNoCloser
    BY <1>2, WalkAssumption DEF WalkAssumption, Going
  <2> QED  BY <2>1, StoppedTells
<1> QED  BY <1>1, <1>2, GoingTells DEF GettingCloser, AllTold

LEMMA WaitingGoes ==
  ASSUME NEW n \in Nat, NEW v, Going(v, n)
  PROVE  Going(Waiting(v), n)
BY WalkAssumption DEF WalkAssumption, Going, Fields, Waiting

LEMMA HopTells ==
  ASSUME NEW n \in Nat, NEW v, Going(v, n)
  PROVE  AllTold(Hop(v), n)
<1>1. ASSUME NEW i \in {0, v.hops} \cap 0..(kJumpsWhenWedged - 1)
      PROVE  AllTold({Return(Waiting([v EXCEPT !.hops = i + 1]))}, n)
  <2>1. Going([v EXCEPT !.hops = i + 1], n)
    BY WalkAssumption DEF WalkAssumption, Going, Fields
  <2> QED  BY <2>1, WaitingGoes, GoingTells
<1> QED  BY <1>1 DEF Hop, AllTold

LEMMA PushTells ==
  ASSUME NEW n \in Nat, NEW v, Going(v, n)
  PROVE  AllTold(Push(v), n)
<1>1. Going(LeanOn(v), n)
  BY WalkAssumption DEF WalkAssumption, Going, Fields, LeanOn
<1>2. \A u \in Through(LeanOn(v)) : Going(u, n)
  <2> SUFFICES ASSUME NEW z, Going(z, n) PROVE \A u \in Through(z) : Going(u, n)
    BY <1>1
  <2> QED  BY WalkAssumption DEF WalkAssumption, Going, Fields, Through
<1> QED  BY <1>1, <1>2, GoingTells DEF Push, AllTold

LEMMA HeldUpTells ==
  ASSUME NEW n \in Nat, NEW v, Going(v, n)
  PROVE  AllTold(HeldUp(v), n)
<1>1. Going([v EXCEPT !.pushes = @ + 1, !.busy = kBusy], n)
  BY WalkAssumption DEF WalkAssumption, Going, Fields
<1>2. AllTold({Return(Waiting([v EXCEPT !.pushes = @ + 1, !.busy = kBusy]))}, n)
  BY <1>1, WaitingGoes, GoingTells
<1>3. AllTold({Stop(v, "not moving")}, n)
  BY StopsTell
<1> QED  BY <1>2, <1>3, HopTells, GoingTells DEF HeldUp, AllTold

LEMMA GetRoundTells ==
  ASSUME NEW n \in Nat, NEW v, Going(v, n)
  PROVE  AllTold(GetRound(v), n)
<1>1. /\ Going([v EXCEPT !.changes = @ + 1], n)
      /\ Going([v EXCEPT !.sidesteps = @ + 1, !.busy = kBusy], n)
  BY WalkAssumption DEF WalkAssumption, Going, Fields
<1>2. AllTold({Stop(v, "stuck")}, n)
  BY StopsTell
<1> QED  BY <1>1, <1>2, GoingTells DEF GetRound, AllTold

LEMMA StuckTells ==
  ASSUME NEW n \in Nat, NEW v, Going(v, n)
  PROVE  AllTold(Stuck(v), n)
<1>1. AllTold({Stop(v, "arrived")}, n)
  BY StopsTell
<1> QED  BY <1>1, PushTells, HeldUpTells, GetRoundTells DEF Stuck, AllTold

LEMMA BlockedTells ==
  ASSUME NEW n \in Nat, NEW v, Going(v, n)
  PROVE  AllTold(Blocked(v), n)
<1> DEFINE u == IF v.blocked = None THEN [v EXCEPT !.blocked = 0, !.went = FALSE] ELSE v
<1>1. Going(u, n)
  BY WalkAssumption DEF WalkAssumption, Going, Fields
<1> HIDE DEF u
<1>2. Going([u EXCEPT !.blocked = 0, !.went = FALSE], n)
  BY WalkAssumption, <1>1 DEF WalkAssumption, Going, Fields
<1>3. AllTold({Stop(u, "blocked")}, n)
  BY StopsTell
<1>4. AllTold({Return(Waiting(u))}, n) /\ AllTold(Hop(u), n) /\ AllTold({On(u)}, n)
      /\ AllTold({On([u EXCEPT !.blocked = 0, !.went = FALSE])}, n)
  BY <1>1, <1>2, WaitingGoes, GoingTells, HopTells
<1>5. Blocked(v) \subseteq {Return(Waiting(u))} \cup {On(u)} \cup Hop(u)
        \cup {On([u EXCEPT !.blocked = 0, !.went = FALSE])} \cup {Stop(u, "blocked")}
  BY DEF Blocked, u
<1> QED  BY <1>3, <1>4, <1>5 DEF AllTold

LEMMA WallTells ==
  ASSUME NEW n \in Nat, NEW v, Going(v, n)
  PROVE  AllTold(Wall(v), n)
<1>1. Going([v EXCEPT !.backouts = @ + 1, !.busy = kBusy, !.following = FALSE], n)
  BY WalkAssumption DEF WalkAssumption, Going, Fields
<1>2. AllTold({Return(Waiting([v EXCEPT !.backouts = @ + 1, !.busy = kBusy,
                                        !.following = FALSE]))}, n)
  BY <1>1, WaitingGoes, GoingTells
<1>3. AllTold({Stop(v, "blocked")}, n)
  BY StopsTell
<1> QED  BY <1>2, <1>3 DEF Wall, AllTold

LEMMA LookAheadTells ==
  ASSUME NEW n \in Nat, NEW v, Going(v, n)
  PROVE  AllTold(LookAhead(v), n)
<1>1. /\ Going([v EXCEPT !.following = FALSE, !.closer = 0], n)
      /\ Going([v EXCEPT !.blocked = None], n)
      /\ \A f \in BOOLEAN : Going([v EXCEPT !.following = f], n)
  BY WalkAssumption DEF WalkAssumption, Going, Fields, None
<1> QED  BY <1>1, GoingTells, BlockedTells, WallTells DEF LookAhead, AllTold

LEMMA TrafficTells ==
  ASSUME NEW n \in Nat, NEW v, Going(v, n)
  PROVE  AllTold(Traffic(v), n)
<1>1. /\ Going([v EXCEPT !.waiting = None], n)
      /\ Going([v EXCEPT !.waiting = IF @ = None THEN 0 ELSE @], n)
  BY WalkAssumption DEF WalkAssumption, Going, Fields, None
<1> QED  BY <1>1, GoingTells, WaitingGoes DEF Traffic, AllTold

\* Whatever a frame decides of a walk is told rightly.
LEMMA DecisionTells ==
  ASSUME NEW n \in Nat, NEW v, Going(v, n), NEW moved \in BOOLEAN,
         NEW o \in DecideStick(v, moved)
  PROVE  Told(o.w, n)
<1> DEFINE Moving(u) ==
             IF moved THEN {On([u EXCEPT !.pushes = 0])}
             ELSE {On(u)} \cup IF u.busy > 0 THEN {} ELSE Stuck(u)
           reached == Then(Limits(v), Reach)
           legs == Then(reached, InsideSomething)
           hung == Then(legs, HangOn)
           nearer == Then(hung, GettingCloser)
           getting == Then(nearer, Moving)
           ahead == Then(getting, LookAhead)
           traffic == Then(ahead, Traffic)
<1>1. o \in Then(traffic, Steer)
  BY DEF DecideStick
<1>2. AllTold(reached, n)
  <2> DEFINE starting == Limits(v)
  <2>1. AllTold(starting, n)
    BY LimitsTell
  <2> HIDE DEF starting
  <2>2. AllTold(Then(starting, Reach), n)
    BY <2>1, LegsTell DEF Then, AllTold
  <2> QED  BY <2>2 DEF starting
<1> HIDE DEF reached
<1>3. AllTold(legs, n)
  BY <1>2, LegsTell DEF Then, AllTold
<1> HIDE DEF legs
<1>4. AllTold(hung, n)
  BY <1>3, HangingTells DEF Then, AllTold
<1> HIDE DEF hung
<1>5. AllTold(nearer, n)
  BY <1>4, GettingCloserTells DEF Then, AllTold
<1> HIDE DEF nearer
<1>6. \A u : Going(u, n) => AllTold(Moving(u), n)
  <2> SUFFICES ASSUME NEW u, Going(u, n) PROVE AllTold(Moving(u), n)
    OBVIOUS
  <2>1. Going([u EXCEPT !.pushes = 0], n)
    BY WalkAssumption DEF WalkAssumption, Going, Fields
  <2> QED  BY <2>1, GoingTells, StuckTells DEF AllTold
<1> HIDE DEF Moving
<1>7. AllTold(getting, n)
  BY <1>5, <1>6 DEF Then, AllTold
<1> HIDE DEF getting
<1>8. AllTold(ahead, n)
  BY <1>7, LookAheadTells DEF Then, AllTold
<1> HIDE DEF ahead
<1>9. AllTold(traffic, n)
  BY <1>8, TrafficTells DEF Then, AllTold
<1> HIDE DEF traffic
<1> QED  BY <1>1, <1>9 DEF Then, AllTold, Steer

LEMMA FrameTells ==
  ASSUME FreeInv, Frame
  PROVE  FreeInv'
<1>1. PICK n : n = free'
  OBVIOUS
<1>2. n \in 0..(kNoCloser + 2) /\ Going(Aged(w), n)
  <2>1. /\ Going(w, free) /\ w.closer \in 0..(kNoCloser + 1) /\ w.closer <= free
        /\ free \in 0..(kNoCloser + 2) /\ kNoCloser \in Nat
    BY WalkAssumption DEF WalkAssumption, Frame, FreeInv, Told, Going
  <2>2. n = IF free > kNoCloser + 1 THEN kNoCloser + 1 ELSE free + 1
    BY <1>1 DEF Frame, Counted
  <2>3. /\ n \in 0..(kNoCloser + 2)
        /\ Older(w.closer, kNoCloser) \in 0..(kNoCloser + 1) /\ Older(w.closer, kNoCloser) <= n
    BY <2>1, <2>2 DEF Older, None
  <2>4. /\ Aged(w).walking = w.walking /\ Aged(w).note = w.note
        /\ Aged(w).closer = Older(w.closer, kNoCloser) /\ Fields \subseteq DOMAIN Aged(w)
    BY <2>1 DEF Going, Fields, Aged
  <2> QED  BY <2>1, <2>3, <2>4 DEF Going
<1>3. ASSUME NEW at \in Moved(Aged(w))
      PROVE  Going(at.at, n) /\ at.moved \in BOOLEAN
  <2> SUFFICES ASSUME NEW v, Going(v, n), at \in Moved(v)
               PROVE  Going(at.at, n) /\ at.moved \in BOOLEAN
    BY <1>2, <1>3
  <2>1. CASE at = [at |-> v, moved |-> FALSE]
    BY <2>1
  <2>2. ASSUME NEW a, at = [at |-> [v EXCEPT !.away = a, !.went = v.blocked # None],
                            moved |-> TRUE]
        PROVE  Going(at.at, n) /\ at.moved \in BOOLEAN
    <3>1. Going([v EXCEPT !.away = a, !.went = v.blocked # None], n)
      BY WalkAssumption DEF WalkAssumption, Going, Fields
    <3> QED  BY <2>2, <3>1
  <2> QED  BY <2>1, <2>2 DEF Moved
<1>4. PICK at \in Moved(Aged(w)) : \E o \in DecideStick(at.at, at.moved) : w' = o.w
  BY DEF Frame
<1>5. Told(w', n)
  BY <1>2, <1>3, <1>4, DecisionTells
<1> QED  BY <1>1, <1>2, <1>5 DEF FreeInv

LEMMA WalkKeepsFree ==
  ASSUME FreeInv, Next
  PROVE  FreeInv'
<1>1. /\ kNoCloser \in Nat /\ free \in 0..(kNoCloser + 2) /\ Told(w, free)
      /\ w.walking = TRUE => Going(w, free)
  BY WalkAssumption DEF WalkAssumption, FreeInv, Told
<1>0. ASSUME NEW n \in 0..(kNoCloser + 2), Going(w', n), free' = n
      PROVE  FreeInv'
  <2>1. n \in Nat
    BY <1>1
  <2>2. Told(w', n)
    BY <1>0, <2>1, GoingTells
  <2> QED  BY <1>0, <2>2 DEF FreeInv
<1>2. CASE HeldFrame
  <2>1. Going(w, free) /\ free' = 0 /\ w' = Held(Aged(w))
    BY <1>1, <1>2 DEF HeldFrame, Told
  <2>2. w'.walking = TRUE /\ w'.note = "walking" /\ w'.closer = 0 /\ Fields \subseteq DOMAIN w'
    BY <2>1 DEF Held, Aged, Going, Fields
  <2>3. Going(w', 0) /\ 0 \in 0..(kNoCloser + 2)
    BY <1>1, <2>2 DEF Going
  <2> QED  BY <1>0, <2>1, <2>3
<1>3. CASE WalkTo
  <2>1. PICK n, closely, sent :
          w' = [Stopped(w, "walking") EXCEPT !.walking = TRUE, !.precise = closely,
                  !.sentTo = sent, !.leg = 1, !.legs = n, !.away = LegLength]
    BY <1>3 DEF WalkTo
  <2>2. PICK v : v = Stopped(w, "walking")
    OBVIOUS
  <2>3. v.note = "walking" /\ v.closer = 0 /\ Fields \subseteq DOMAIN v
    BY <2>2 DEF Stopped, Idle, Fields
  <2>4. /\ w'.walking = TRUE /\ w'.note = "walking" /\ w'.closer = 0
        /\ Fields \subseteq DOMAIN w'
    BY <2>1, <2>2, <2>3 DEF Fields
  <2>5. free' = free
    BY <1>3 DEF WalkTo
  <2>6. Going(w', free)
    BY <1>1, <2>4 DEF Going
  <2> QED  BY <1>0, <1>1, <2>5, <2>6
<1>4. CASE StopWalk
  <2>1. free' = free /\ w' = Stopped(w, "stopped")
    BY <1>4 DEF StopWalk
  <2>0. Told(Stopped(w, "stopped"), free)
    <3>1. free \in Nat
      BY <1>1
    <3> QED  BY <3>1, StopsTell, Zenon
  <2> QED  BY <1>1, <2>1, <2>0 DEF FreeInv
<1>5. CASE CutTo
  <2>1. free' = free /\ \E n : w' = [NextLeg(w, n) EXCEPT !.busy = 0, !.following = FALSE]
    BY <1>5 DEF CutTo
  <2>2. Going(w, free)
    BY <1>1, <1>5 DEF CutTo, Told
  <2>3. Going(w', free)
    BY <1>1, <2>1, <2>2 DEF Going, Fields, NextLeg
  <2> QED  BY <1>0, <1>1, <2>1, <2>3
<1> QED  BY <1>2, <1>3, <1>4, <1>5, FrameTells DEF Next

\* A walk that is handed back for getting no closer had been free to move all the
\* while (walker.cpp:1986-1990), for every route, every limit and every count.
THEOREM HandedBackForReason == MovesSpec => []HeldIsNotStuck
<1>1. MovesInit => FreeInv
  <2> SUFFICES ASSUME MovesInit
               PROVE  FreeInv
    OBVIOUS
  <2>1. w = Idle /\ free = 0
    BY DEF MovesInit, Init
  <2>2. w.walking = FALSE /\ w.note = "idle" /\ Fields \subseteq DOMAIN w
    BY <2>1 DEF Idle, Fields
  <2>3. free \in 0..(kNoCloser + 2)
    BY <2>1, WalkAssumption DEF WalkAssumption
  <2> QED  BY <2>2, <2>3 DEF FreeInv, Told
<1>2. FreeInv /\ [MovesNext]_everything => FreeInv'
  <2> SUFFICES ASSUME FreeInv, [MovesNext]_everything
               PROVE  FreeInv'
    OBVIOUS
  <2>1. CASE Next
    BY <2>1, WalkKeepsFree
  <2>2. CASE UNCHANGED vars
    BY <2>2 DEF vars, FreeInv
  <2> QED  BY <2>1, <2>2 DEF MovesNext, everything
<1>3. FreeInv => HeldIsNotStuck
  BY DEF FreeInv, Told, HeldIsNotStuck
<1> QED  BY <1>1, <1>2, <1>3, PTL DEF MovesSpec, everything
===============================================================================
