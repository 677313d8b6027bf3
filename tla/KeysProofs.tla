----------------------------- MODULE KeysProofs -----------------------------
(***************************************************************************)
(* The safety properties of the key player, for every set of keys, every   *)
(* length of script and every timing.  KeysInv says enough about the calls *)
(* of SendKey still to be made for a step to preserve it: which road they  *)
(* take, in which order the two halves of one key go, and where in the     *)
(* script the release of a pressed key stands.                             *)
(***************************************************************************)
EXTENDS Keys, TLAPS

HoldOnly == HoldKeys \ Shared
ScriptOnly == ScriptKeys \ Shared

\* A call of SendKey(k, down) of the game thread that has not gone out.
Pending(k, down) ==
  \/ [key |-> k, down |-> down] \in todo["game"]
  \/ \E s \in mid["game"] : s.key = k /\ s.down = down

\* The worker sends nothing but the releases of a panic, one call at a time.
WorkerQuiet ==
  /\ todo["worker"] = {}
  /\ \A s \in mid["worker"] : ~s.down /\ worker = "panic"
  /\ \A t \in Threads : \A s1, s2 \in mid[t] : s1 = s2

\* Every call of the game takes the road remembered for its key, and a press
\* is made only of a key that is up, or that goes up first.
Roaded ==
  \A k \in Keys \ Shared :
    /\ \A r \in Roads : <<k, r>> \in pressed => r = RoadOf(k)
    /\ \A s \in mid["game"] : s.key = k => s.roads = {RoadOf(k)}
    /\ [key |-> k, down |-> TRUE] \in todo["game"] /\ IsDown(k) => Pending(k, FALSE)
    /\ \A s \in mid["game"] : s.key = k /\ s.down =>
         \A d \in BOOLEAN : [key |-> k, down |-> d] \notin todo["game"]

\* What is down is marked, or is being let go of by the road it is down by.
Found ==
  \A k \in Keys \ Shared :
    /\ IsDown(k) => \/ k \in marked \cup raced
                    \/ \E d \in BOOLEAN : Pending(k, d)
                    \/ \E s \in mid["worker"] : s.key = k /\ RoadOf(k) \in s.roads
    /\ \A s \in mid["game"] : s.key = k /\ s.down => k \in marked \cup raced

\* A key only KeysHold presses is down exactly when it was asked for, once the
\* calls pending for it are made.
Holding ==
  \A k \in HoldOnly :
    /\ k \notin held => ~Pending(k, TRUE)
    /\ k \notin held /\ ~Pending(k, FALSE) => ~IsDown(k)
    /\ k \in held /\ Pending(k, FALSE) => Pending(k, TRUE)
    /\ k \in held /\ ~Pending(k, TRUE) => IsDown(k) \/ k \in panicked

\* The release of k stands in the script at j, and no press of it comes first.
ReleaseAt(k, from, j) ==
  script[j] = Up(k) /\ \A m \in from..(j - 1) : script[m] # Down(k)

\* Every press of a script is followed by its release before the next press.
Scripted ==
  \A k \in ScriptOnly :
    /\ \A i \in at..Len(script) : script[i] = Down(k) =>
         \E j \in (i + 1)..Len(script) : ReleaseAt(k, i + 1, j)
    /\ (IsDown(k) \/ Pending(k, TRUE)) /\ ~Pending(k, FALSE) =>
         \E j \in at..Len(script) : ReleaseAt(k, at, j)
    /\ ~(Pending(k, TRUE) /\ Pending(k, FALSE))

Core == WorkerQuiet /\ Roaded /\ Found /\ Holding /\ Scripted

KeysInv == TypeOK /\ (Running => Core)

-----------------------------------------------------------------------------
(* Types.                                                                  *)

\* What KeysPress and KeysPressFor append is a script of presses of one key.
LEMMA PressingType ==
  ASSUME NEW k \in ScriptKeys, NEW n \in Nat, NEW tail \in Nat
  PROVE  /\ Pressing(k, n, tail) \in Seq(Step)
         /\ Len(Pressing(k, n, tail)) = n + 2 + tail
         /\ \A i \in 1..(n + 2 + tail) : Pressing(k, n, tail)[i] =
              IF i = 1 THEN Down(k) ELSE IF i = n + 2 THEN Up(k) ELSE Wait
<1>1. Down(k) \in Step /\ Up(k) \in Step /\ Wait \in Step
  BY DEF Step, Down, Up, Wait, Keys
<1>2. Pressing(k, n, tail) \in [1..(n + 2 + tail) -> Step]
  BY <1>1 DEF Pressing
<1>3. n + 2 + tail \in Nat
  OBVIOUS
<1> QED BY <1>2, <1>3 DEF Pressing

\* Appending keeps what is there and the place in it.
LEMMA EnqueueType ==
  ASSUME TypeOK, NEW steps \in Seq(Step), Enqueue(steps)
  PROVE  TypeOK'
<1>1. script' \in Seq(Step) /\ Len(script') = Len(script) + Len(steps)
  BY DEF TypeOK, Enqueue
<1>2. at' \in 1..(Len(script') + 1)
  BY <1>1 DEF TypeOK, Enqueue
<1> QED BY <1>1, <1>2 DEF TypeOK, Enqueue, sends, input, history

LEMMA HoldType ==
  ASSUME TypeOK, NEW t \in Threads, NEW keys \in SUBSET HoldKeys, Hold(t, keys)
  PROVE  TypeOK' <=> late' \in BOOLEAN /\ frame' \in {"tasks", "drive", "pad"}
                     /\ worker' \in {"loop", "panic", "letting_go", "ticked",
                                     "uninstalled", "gone"}
                     /\ sweep' \subseteq Keys
<1>1. Calls(keys) \subseteq Call
  BY DEF Calls, Crossed, Call, Keys, TypeOK
<1>2. todo' \in [Threads -> SUBSET Call] /\ lock' \in Threads \cup {"free"}
  BY <1>1 DEF Hold, TypeOK
<1> QED BY <1>2 DEF TypeOK, Hold, input, history

LEMMA KeysTickType ==
  ASSUME TypeOK, NEW t \in Threads, KeysTick(t)
  PROVE  TypeOK' <=> late' \in BOOLEAN /\ frame' \in {"tasks", "drive", "pad"}
                     /\ worker' \in {"loop", "panic", "letting_go", "ticked",
                                     "uninstalled", "gone"}
                     /\ sweep' \subseteq Keys
<1>1. CASE ~Busy
  <2>1. script' \in Seq(Step) /\ at' \in 1..(Len(script') + 1)
    BY <1>1 DEF KeysTick, Wipe
  <2> QED BY <1>1, <2>1 DEF TypeOK, KeysTick, history
<1>2. CASE Busy
  <2>1. at \in 1..Len(script) /\ script[at] \in Step
    BY <1>2 DEF Busy, TypeOK
  <2>2. at' \in 1..(Len(script') + 1) /\ script' = script
    BY <1>2, <2>1 DEF KeysTick, TypeOK
  <2>3. letterAge' \in 0..LetterFrames
    BY <1>2, <2>1, KeysAssumption DEF KeysTick, TypeOK
  <2>4. todo' \in [Threads -> SUBSET Call]
    <3>1. script[at].kind \in {"down", "up"} =>
            [key |-> script[at].key, down |-> script[at].kind = "down"] \in Call
      BY <2>1 DEF Call, Step, Keys
    <3> QED BY <1>2, <3>1 DEF KeysTick, TypeOK
  <2> QED BY <1>2, <2>2, <2>3, <2>4 DEF TypeOK, KeysTick, history
<1> QED BY <1>1, <1>2

LEMMA TypeNext == TypeOK /\ [Next]_vars => TypeOK'
<1> SUFFICES ASSUME TypeOK, [Next]_vars PROVE TypeOK'
  OBVIOUS
<1> USE DEF input, memory, sends, history
<1>1. CASE KeysPress
  BY <1>1, PressingType, EnqueueType, KeysAssumption DEF KeysPress
<1>2. CASE KeysPressFor
  BY <1>2, PressingType, EnqueueType, KeysAssumption DEF KeysPressFor
<1>3. CASE KeysType
  <2>1. <<Char>> \in Seq(Step)
    BY DEF Char, Step
  <2> QED BY <1>3, <2>1, EnqueueType DEF KeysType
<1>4. CASE FrameTick
  <2>1. KeysTick("game") /\ "game" \in Threads
    BY <1>4 DEF FrameTick, Threads
  <2> QED BY <1>4, <2>1, KeysTickType DEF FrameTick, TypeOK
<1>5. CASE DrivePart
  <2>1. CASE \E keys \in SUBSET HoldKeys : Hold("game", keys)
    <3>1. late' = late
      BY <2>1 DEF Hold
    <3> QED BY <1>5, <2>1, <3>1, HoldType DEF DrivePart, TypeOK, Threads
  <2>2. CASE Idle("game") /\ UNCHANGED <<memory, sends, input, history>>
    BY <1>5, <2>2 DEF DrivePart, TypeOK
  <2> QED BY <1>5, <2>1, <2>2 DEF DrivePart
<1>6. CASE PadPart
  <2>1. CASE \E keys \in SUBSET HoldKeys : Hold("game", keys)
    <3>1. late' = late
      BY <2>1 DEF Hold
    <3> QED BY <1>6, <2>1, <3>1, HoldType DEF PadPart, TypeOK, Threads
  <2>2. CASE Idle("game") /\ UNCHANGED <<memory, sends, input, history>>
    BY <1>6, <2>2 DEF PadPart, TypeOK
  <2> QED BY <1>6, <2>1, <2>2 DEF PadPart
<1>7. ASSUME NEW t \in Threads, Mark(t) PROVE TypeOK'
  <2>1. PICK c \in todo[t] :
          /\ todo' = [todo EXCEPT ![t] = @ \ {c}]
          /\ marked' = Marking(c) /\ byMessage' = Routing(c)
          /\ mid' = [mid EXCEPT ![t] = {[key |-> c.key, down |-> c.down,
                                         roads |-> {RoadIn(c.key, Routing(c))}]}]
          /\ raced' = raced \ {c.key}
    BY <1>7 DEF Mark
  <2>2. c \in Call
    BY DEF TypeOK
  <2>3. marked' \subseteq Keys /\ byMessage' \subseteq Keys /\ raced' \subseteq Keys
    BY <2>1, <2>2 DEF TypeOK, Marking, Routing, Call
  <2>4. [key |-> c.key, down |-> c.down, roads |-> {RoadIn(c.key, Routing(c))}] \in Sent
    BY <2>2 DEF Call, Sent, RoadIn, Roads
  <2>5. mid' \in [Threads -> SUBSET Sent] /\ todo' \in [Threads -> SUBSET Call]
    BY <2>1, <2>4 DEF TypeOK
  <2> QED BY <1>7, <2>3, <2>5 DEF TypeOK, Mark
<1>8. ASSUME NEW t \in Threads, Deliver(t) PROVE TypeOK'
  <2>1. PICK s \in mid[t] :
          /\ pressed' = IF s.down THEN pressed \cup ({s.key} \X s.roads)
                                  ELSE pressed \ ({s.key} \X s.roads)
          /\ panicked' \subseteq panicked \cup {s.key}
    BY <1>8 DEF Deliver
  <2>2. s \in Sent
    BY DEF TypeOK
  <2>3. pressed' \subseteq Keys \X Roads /\ panicked' \subseteq Keys
    BY <2>1, <2>2 DEF TypeOK, Sent
  <2>4. mid' \in [Threads -> SUBSET Sent] /\ lock' \in Threads \cup {"free"}
    BY <1>8 DEF Deliver, TypeOK
  <2> QED BY <1>8, <2>3, <2>4 DEF TypeOK, Deliver
<1>9. CASE PanicBegin
  BY <1>9 DEF PanicBegin, TypeOK
<1>10. CASE PanicKey
  <2>1. PICK k \in sweep :
          /\ sweep' = sweep \ {k}
          /\ marked' \subseteq marked /\ raced' \subseteq raced \cup {k}
          /\ mid' = [mid EXCEPT !["worker"] =
                      {[key |-> k, down |-> FALSE, roads |-> {RoadOf(k), "system"}]}]
             \/ mid' = mid
    BY <1>10 DEF PanicKey
  <2>2. [key |-> k, down |-> FALSE, roads |-> {RoadOf(k), "system"}] \in Sent
    BY DEF Sent, RoadOf, RoadIn, Roads, TypeOK
  <2>3. mid' \in [Threads -> SUBSET Sent]
    BY <2>1, <2>2 DEF TypeOK
  <2> QED BY <1>10, <2>1, <2>3 DEF TypeOK, PanicKey
<1>11. CASE PanicEnd
  BY <1>11 DEF PanicEnd, TypeOK
<1>12. CASE ShutdownRelease
  <2>1. Hold("worker", {}) /\ "worker" \in Threads /\ late' = late
    BY <1>12 DEF ShutdownRelease, Threads, Hold
  <2> QED BY <1>12, <2>1, HoldType DEF ShutdownRelease, TypeOK
<1>13. CASE ShutdownTick
  <2>1. KeysTick("worker") /\ "worker" \in Threads
    BY <1>13 DEF ShutdownTick, Threads
  <2> QED BY <1>13, <2>1, KeysTickType DEF ShutdownTick, TypeOK
<1>14. CASE ShutdownUninstall
  BY <1>14 DEF ShutdownUninstall, TypeOK
<1>15. CASE AltTab \/ FramesStop
  BY <1>15 DEF AltTab, FramesStop, TypeOK
<1>16. CASE LetterPause
  BY <1>16, KeysAssumption DEF LetterPause, TypeOK
<1>17. CASE UNCHANGED vars
  BY <1>17 DEF vars, TypeOK
<1> QED
  BY <1>1, <1>2, <1>3, <1>4, <1>5, <1>6, <1>7, <1>8, <1>9, <1>10, <1>11, <1>12,
     <1>13, <1>14, <1>15, <1>16, <1>17
  DEF Next, GameFrame, GameSend, Panic, Shutdown, WorkerSend, Threads

LEMMA InitType == Init => TypeOK
<1> SUFFICES ASSUME Init PROVE TypeOK
  OBVIOUS
<1>1. script \in Seq(Step) /\ at \in 1..(Len(script) + 1)
  BY DEF Init
<1>2. letterAge \in 0..LetterFrames
  BY KeysAssumption DEF Init, KeysAssumption
<1>3. todo \in [Threads -> SUBSET Call] /\ mid \in [Threads -> SUBSET Sent]
  BY DEF Init
<1> QED BY <1>1, <1>2, <1>3 DEF Init, TypeOK

\* The state of the key player keeps its shape (keys.cpp, the globals).
THEOREM TypeCorrect == Spec => []TypeOK
<1> QED BY InitType, TypeNext, PTL DEF Spec

-----------------------------------------------------------------------------
(* The inductive invariant, one kind of step at a time.                    *)

\* A step that sends nothing and plays nothing.
LEMMA IdleStep ==
  ASSUME Core, WorkerQuiet',
         UNCHANGED <<script, at, held, marked, byMessage, pressed, todo, mid,
                     panicked, raced>>
  PROVE  Core'
<1>1. \A k : /\ RoadOf(k)' = RoadOf(k) /\ IsDown(k)' = IsDown(k)
             /\ \A d : Pending(k, d)' = Pending(k, d)
  BY DEF RoadOf, RoadIn, IsDown, Pending
<1>2. Roaded' /\ Found' /\ Holding'
  BY <1>1 DEF Core, Roaded, Found, Holding
<1>3. Scripted'
  BY <1>1 DEF Core, Scripted, ReleaseAt
<1> QED BY <1>2, <1>3 DEF Core

\* KeysHold: the calls it makes are a release of what is down and a press of
\* what is up, or both in that order.
LEMMA HoldStep ==
  ASSUME TypeOK, Core, NEW keys \in SUBSET HoldKeys, Hold("game", keys),
         worker' = worker
  PROVE  Core'
<1> DEFINE ups == Crossed(keys) \cup (held \ keys)
           downs == Crossed(keys) \cup (keys \ held)
<1>1. /\ todo["game"] = {} /\ mid["game"] = {}
      /\ todo' = [todo EXCEPT !["game"] = Calls(keys)]
      /\ held' = keys /\ mid' = mid
      /\ UNCHANGED <<script, at, marked, byMessage, pressed, panicked, raced>>
  BY DEF Hold, Idle, history
<1>2. /\ todo'["game"] = Calls(keys) /\ todo'["worker"] = todo["worker"]
  BY <1>1 DEF TypeOK, Threads
<1>3. \A k \in Keys : /\ Pending(k, TRUE)' <=> k \in downs
                      /\ Pending(k, FALSE)' <=> k \in ups
                      /\ ~Pending(k, TRUE) /\ ~Pending(k, FALSE)
  BY <1>1, <1>2 DEF Pending, Calls
<1>4. ups \subseteq HoldKeys /\ downs \subseteq HoldKeys
  BY DEF Crossed, TypeOK
<1>5. WorkerQuiet'
  BY <1>1, <1>2 DEF Core, WorkerQuiet
<1>6. Holding'
  BY <1>1, <1>3 DEF Core, Holding, HoldOnly, IsDown, Crossed, Keys
<1>7. Scripted'
  <2>1. \A k \in ScriptOnly : k \in Keys /\ ~Pending(k, TRUE)' /\ ~Pending(k, FALSE)'
    BY <1>3, <1>4 DEF ScriptOnly, Shared, Keys
  <2> QED BY <1>1, <1>3, <2>1 DEF Core, Scripted, ReleaseAt, IsDown
<1>8. Roaded'
  <2> SUFFICES ASSUME NEW k \in Keys \ Shared
               PROVE  /\ \A r \in Roads : <<k, r>> \in pressed' => r = RoadOf(k)'
                      /\ \A s \in mid'["game"] : s.key = k => s.roads = {RoadOf(k)'}
                      /\ [key |-> k, down |-> TRUE] \in todo'["game"] /\ IsDown(k)'
                           => Pending(k, FALSE)'
                      /\ \A s \in mid'["game"] : s.key = k /\ s.down =>
                           \A d \in BOOLEAN : [key |-> k, down |-> d] \notin todo'["game"]
    BY DEF Roaded
  <2>1. RoadOf(k)' = RoadOf(k) /\ IsDown(k)' = IsDown(k)
    BY <1>1 DEF RoadOf, RoadIn, IsDown
  <2>2. [key |-> k, down |-> TRUE] \in todo'["game"] /\ IsDown(k)'
          => Pending(k, FALSE)'
    <3>1. ASSUME [key |-> k, down |-> TRUE] \in todo'["game"] PROVE k \in downs
      BY <1>2, <3>1 DEF Calls
    <3>2. k \in keys \ held => ~IsDown(k)
      BY <1>3 DEF Core, Holding, HoldOnly
    <3> QED BY <1>3, <2>1, <3>1, <3>2
  <2> QED BY <1>1, <2>1, <2>2 DEF Core, Roaded
<1>9. Found'
  <2> SUFFICES ASSUME NEW k \in Keys \ Shared
               PROVE  /\ IsDown(k)' => \/ k \in marked' \cup raced'
                                       \/ \E d \in BOOLEAN : Pending(k, d)'
                                       \/ \E s \in mid'["worker"] :
                                            s.key = k /\ RoadOf(k)' \in s.roads
                      /\ \A s \in mid'["game"] :
                           s.key = k /\ s.down => k \in marked' \cup raced'
    BY DEF Found
  <2>1. RoadOf(k)' = RoadOf(k) /\ IsDown(k)' = IsDown(k)
    BY <1>1 DEF RoadOf, RoadIn, IsDown
  <2>2. \A d \in BOOLEAN : ~Pending(k, d)
    BY <1>3
  <2> QED BY <1>1, <2>1, <2>2 DEF Core, Found
<1> QED BY <1>5, <1>6, <1>7, <1>8, <1>9 DEF Core

\* KeysTick: the step it takes from the script becomes the game's only call.
LEMMA TickStep ==
  ASSUME TypeOK, Core, KeysTick("game"), worker' = worker
  PROVE  Core'
<1> DEFINE Advances == Busy /\ at' = at + 1 /\ script' = script
           Plays(q, d) == /\ script[at] = (IF d THEN Down(q) ELSE Up(q))
                          /\ todo' = [todo EXCEPT !["game"] = {[key |-> q, down |-> d]}]
<1>1. /\ todo["game"] = {} /\ mid["game"] = {}
      /\ UNCHANGED <<held, marked, byMessage, pressed, mid, panicked, raced>>
  BY DEF KeysTick, Idle, history
<1>2. \A k \in Keys : /\ ~Pending(k, TRUE) /\ ~Pending(k, FALSE)
                      /\ IsDown(k)' = IsDown(k) /\ RoadOf(k)' = RoadOf(k)
  BY <1>1 DEF Pending, IsDown, RoadOf, RoadIn
<1>3. \/ todo' = todo /\ script' = script /\ at' = at
      \/ todo' = todo /\ Wipe /\ ~Busy
      \/ todo' = todo /\ Advances /\ script[at].kind \notin {"down", "up"}
      \/ Advances /\ \E q \in ScriptKeys, d \in BOOLEAN : Plays(q, d)
  <2>1. CASE Busy /\ script[at].kind \in {"down", "up"}
    <3>1. script[at] \in Step
      BY <2>1 DEF Busy, TypeOK
    <3>2. PICK q \in ScriptKeys : script[at].key = q
      BY <2>1, <3>1 DEF Step
    <3>3. script[at] = IF script[at].kind = "down" THEN Down(q) ELSE Up(q)
      BY <2>1, <3>1, <3>2 DEF Step, Down, Up
    <3> QED BY <2>1, <3>2, <3>3 DEF KeysTick
  <2> QED BY <2>1 DEF KeysTick
<1>4. ASSUME Advances
      PROVE  \A k \in ScriptOnly, i \in at'..Len(script') : script'[i] = Down(k) =>
               \E j \in (i + 1)..Len(script') : ReleaseAt(k, i + 1, j)'
  <2>1. at \in Nat /\ Len(script) \in Nat
    BY <1>4 DEF TypeOK
  <2>2. \A i \in at'..Len(script') : i \in at..Len(script)
    BY <1>4, <2>1
  <2>3. \A k \in ScriptOnly, i \in at..Len(script) : script[i] = Down(k) =>
          \E j \in (i + 1)..Len(script) : ReleaseAt(k, i + 1, j)
    BY DEF Core, Scripted
  <2> QED BY <1>4, <2>2, <2>3 DEF ReleaseAt
<1>5. CASE todo' = todo
  <2>1. \A k \in Keys : ~Pending(k, TRUE)' /\ ~Pending(k, FALSE)'
    BY <1>1, <1>5 DEF Pending
  <2>2. WorkerQuiet' /\ Holding'
    BY <1>1, <1>2, <1>5, <2>1 DEF Core, WorkerQuiet, Holding, HoldOnly, Keys
  <2>3. Roaded'
    BY <1>1, <1>2, <1>5, <2>1 DEF Core, Roaded
  <2>4. Found'
    <3>1. \A k \in Keys : ~\E d \in BOOLEAN : Pending(k, d)
      BY <1>2
    <3> QED BY <1>1, <1>2, <1>5, <3>1 DEF Core, Found
  <2>5. Scripted'
    <3>1. CASE script' = script /\ at' = at
      BY <1>2, <2>1, <3>1 DEF Core, Scripted, ReleaseAt, ScriptOnly, Keys
    <3>2. CASE Wipe /\ ~Busy
      <4>1. at..Len(script) = {}
        BY <3>2 DEF Busy, TypeOK
      <4>2. \A k \in ScriptOnly : ~IsDown(k)
        BY <1>2, <4>1 DEF Core, Scripted, ScriptOnly, Keys
      <4>3. script' = <<>> /\ at' = 1
        BY <3>2 DEF Wipe
      <4>4. at'..Len(script') = {}
        BY <4>3
      <4> QED BY <1>2, <2>1, <4>2, <4>4 DEF Scripted, ScriptOnly, Keys
    <3>3. CASE Advances /\ script[at].kind \notin {"down", "up"}
      <4>1. \A k \in ScriptOnly : script[at] # Up(k)
        BY <3>3 DEF Up
      <4>2. at \in 1..Len(script) /\ Len(script) \in Nat
        BY <3>3 DEF Busy, TypeOK
      <4>3. ASSUME NEW k \in ScriptOnly, IsDown(k)
            PROVE  \E j \in at'..Len(script') : ReleaseAt(k, at, j)'
        <5>1. PICK j \in at..Len(script) : ReleaseAt(k, at, j)
          BY <1>2, <4>3 DEF Core, Scripted, ScriptOnly, Keys
        <5>2. j \in (at + 1)..Len(script) /\ ReleaseAt(k, at + 1, j)
          BY <4>1, <4>2, <5>1 DEF ReleaseAt
        <5> QED BY <3>3, <5>2 DEF ReleaseAt
      <4> QED BY <1>2, <1>4, <2>1, <3>3, <4>3 DEF Scripted, ScriptOnly, Keys
    <3>4. ~\E q \in ScriptKeys, d \in BOOLEAN : Plays(q, d)
      BY <1>1, <1>5 DEF TypeOK, Threads
    <3> QED BY <1>3, <3>1, <3>2, <3>3, <3>4
  <2> QED BY <2>2, <2>3, <2>4, <2>5 DEF Core
<1>6. ASSUME Advances, NEW q \in ScriptKeys, NEW d \in BOOLEAN, Plays(q, d)
      PROVE  Core'
  <2>1. /\ todo'["game"] = {[key |-> q, down |-> d]}
        /\ todo'["worker"] = todo["worker"]
    BY <1>6 DEF TypeOK, Threads
  <2>2. \A k \in Keys : /\ Pending(k, TRUE)' <=> k = q /\ d = TRUE
                        /\ Pending(k, FALSE)' <=> k = q /\ d = FALSE
    BY <1>1, <2>1 DEF Pending
  <2>3. at \in 1..Len(script) /\ Len(script) \in Nat
    BY <1>6 DEF Busy, TypeOK
  <2>4. q \in ScriptOnly /\ d = TRUE => ~IsDown(q)
    <3>1. SUFFICES ASSUME q \in ScriptOnly, d = TRUE, IsDown(q) PROVE FALSE
      OBVIOUS
    <3>2. PICK j \in at..Len(script) : ReleaseAt(q, at, j)
      BY <1>2, <3>1 DEF Core, Scripted, ScriptOnly, Keys
    <3>3. script[at] = Down(q) /\ Down(q) # Up(q)
      BY <1>6, <3>1 DEF Down, Up
    <3> QED BY <2>3, <3>2, <3>3 DEF ReleaseAt
  <2>5. WorkerQuiet'
    BY <1>1, <2>1 DEF Core, WorkerQuiet
  <2>6. Holding'
    <3>1. \A k \in HoldOnly : k \in Keys /\ k # q
      BY DEF HoldOnly, Shared, Keys
    <3> QED BY <1>1, <1>2, <2>2, <3>1 DEF Core, Holding
  <2>7. Roaded'
    <3>1. ASSUME NEW k \in Keys \ Shared,
                 [key |-> k, down |-> TRUE] \in todo'["game"], IsDown(k)'
          PROVE  FALSE
      <4>1. k = q /\ d = TRUE
        BY <2>1, <3>1
      <4> QED BY <1>2, <2>4, <3>1, <4>1 DEF ScriptOnly
    <3> QED BY <1>1, <1>2, <3>1 DEF Core, Roaded
  <2>8. Found'
    <3>1. \A k \in Keys : ~\E e \in BOOLEAN : Pending(k, e)
      BY <1>2
    <3> QED BY <1>1, <1>2, <3>1 DEF Core, Found
  <2>9. Scripted'
    <3>1. ASSUME NEW k \in ScriptOnly, IsDown(k)' \/ Pending(k, TRUE)', ~Pending(k, FALSE)'
          PROVE  \E j \in at'..Len(script') : ReleaseAt(k, at, j)'
      <4>0. k \in Keys
        BY DEF ScriptOnly, Keys
      <4>1. CASE k = q
        <5>1. script[at] = Down(k)
          BY <1>6, <2>2, <3>1, <4>0, <4>1
        <5>2. PICK j \in (at + 1)..Len(script) : ReleaseAt(k, at + 1, j)
          <6>1. at \in at..Len(script)
            BY <2>3
          <6> QED BY <5>1, <6>1 DEF Core, Scripted
        <5> QED BY <1>6, <5>2 DEF ReleaseAt
      <4>2. CASE k # q
        <5>1. IsDown(k)
          BY <1>2, <2>2, <3>1, <4>0, <4>2
        <5>2. PICK j \in at..Len(script) : ReleaseAt(k, at, j)
          BY <1>2, <4>0, <5>1 DEF Core, Scripted
        <5>3. script[at] # Up(k)
          BY <1>6, <4>2 DEF Up, Down
        <5>4. j \in (at + 1)..Len(script) /\ ReleaseAt(k, at + 1, j)
          BY <2>3, <5>2, <5>3 DEF ReleaseAt
        <5> QED BY <1>6, <5>4 DEF ReleaseAt
      <4> QED BY <4>1, <4>2
    <3>2. \A k \in ScriptOnly : ~(Pending(k, TRUE)' /\ Pending(k, FALSE)')
      BY <2>2 DEF ScriptOnly, Keys
    <3> QED BY <1>4, <1>6, <3>1, <3>2 DEF Scripted
  <2> QED BY <2>5, <2>6, <2>7, <2>8, <2>9 DEF Core
<1> QED BY <1>3, <1>5, <1>6

\* The first half of a call of the game.
LEMMA MarkStep ==
  ASSUME TypeOK, Core, Mark("game")
  PROVE  Core'
<1>1. PICK c \in todo["game"] :
        /\ c.down => [key |-> c.key, down |-> FALSE] \notin todo["game"]
        /\ todo' = [todo EXCEPT !["game"] = @ \ {c}]
        /\ marked' = Marking(c) /\ byMessage' = Routing(c)
        /\ mid' = [mid EXCEPT !["game"] = {[key |-> c.key, down |-> c.down,
                                            roads |-> {RoadIn(c.key, Routing(c))}]}]
        /\ raced' = raced \ {c.key}
  BY DEF Mark
<1>2. /\ mid["game"] = {}
      /\ UNCHANGED <<script, at, held, pressed, panicked, worker>>
  BY DEF Mark, memory
<1>3. c \in Call /\ c = [key |-> c.key, down |-> c.down] /\ c.key \in Keys
  BY DEF TypeOK, Call, Threads
<1>4. /\ todo'["game"] = todo["game"] \ {c} /\ todo'["worker"] = todo["worker"]
      /\ mid'["game"] = {[key |-> c.key, down |-> c.down, roads |-> {RoadOf(c.key)'}]}
      /\ mid'["worker"] = mid["worker"]
  BY <1>1 DEF TypeOK, Threads, RoadOf
<1>5. \A k \in Keys, d \in BOOLEAN : Pending(k, d)' = Pending(k, d)
  BY <1>2, <1>3, <1>4 DEF Pending
<1>6. \A k \in Keys : /\ IsDown(k)' = IsDown(k)
                      /\ k # c.key \/ ~c.down => RoadOf(k)' = RoadOf(k)
  BY <1>1, <1>2 DEF IsDown, RoadOf, RoadIn, Routing
<1>7. c.key \notin Shared /\ c.down => ~IsDown(c.key)
  <2>1. c.down => ~Pending(c.key, FALSE)
    BY <1>1, <1>2 DEF Pending
  <2>2. c.down => [key |-> c.key, down |-> TRUE] \in todo["game"]
    BY <1>3 DEF Call
  <2> QED BY <1>3, <2>1, <2>2 DEF Core, Roaded
<1>8. WorkerQuiet'
  BY <1>2, <1>4 DEF Core, WorkerQuiet, Threads
<1>9. Roaded'
  <2> SUFFICES ASSUME NEW k \in Keys \ Shared
               PROVE  /\ \A r \in Roads : <<k, r>> \in pressed' => r = RoadOf(k)'
                      /\ \A s \in mid'["game"] : s.key = k => s.roads = {RoadOf(k)'}
                      /\ [key |-> k, down |-> TRUE] \in todo'["game"] /\ IsDown(k)'
                           => Pending(k, FALSE)'
                      /\ \A s \in mid'["game"] : s.key = k /\ s.down =>
                           \A d \in BOOLEAN : [key |-> k, down |-> d] \notin todo'["game"]
    BY DEF Roaded
  <2>1. \A r \in Roads : <<k, r>> \in pressed' => r = RoadOf(k)'
    BY <1>2, <1>6, <1>7 DEF Core, Roaded, IsDown
  <2>2. \A s \in mid'["game"] : s.key = k => s.roads = {RoadOf(k)'}
    BY <1>4
  <2>3. [key |-> k, down |-> TRUE] \in todo'["game"] /\ IsDown(k)' => Pending(k, FALSE)'
    BY <1>4, <1>5, <1>6 DEF Core, Roaded
  <2>4. ASSUME NEW s \in mid'["game"], s.key = k, s.down,
               NEW d \in BOOLEAN, [key |-> k, down |-> d] \in todo'["game"]
        PROVE  FALSE
    <3>1. k = c.key /\ c.down
      BY <1>4, <2>4
    <3>2. c = [key |-> k, down |-> TRUE]
      BY <1>3, <3>1 DEF Call
    <3> QED BY <1>1, <1>4, <2>4, <3>1, <3>2
  <2> QED BY <2>1, <2>2, <2>3, <2>4
<1>10. Found'
  <2> SUFFICES ASSUME NEW k \in Keys \ Shared
               PROVE  /\ IsDown(k)' => \/ k \in marked' \cup raced'
                                       \/ \E d \in BOOLEAN : Pending(k, d)'
                                       \/ \E s \in mid'["worker"] :
                                            s.key = k /\ RoadOf(k)' \in s.roads
                      /\ \A s \in mid'["game"] :
                           s.key = k /\ s.down => k \in marked' \cup raced'
    BY DEF Found
  <2>1. CASE k = c.key
    <3>1. c.down => k \in marked'
      BY <1>1, <2>1 DEF Marking
    <3>2. Pending(k, c.down)'
      BY <1>4, <2>1 DEF Pending
    <3> QED BY <1>3, <1>4, <3>1, <3>2 DEF Call
  <2>2. CASE k # c.key
    <3>1. (k \in marked' <=> k \in marked) /\ (k \in raced' <=> k \in raced)
      BY <1>1, <2>2 DEF Marking
    <3> QED BY <1>4, <1>5, <1>6, <2>2, <3>1 DEF Core, Found
  <2> QED BY <2>1, <2>2
<1>11. Holding'
  BY <1>2, <1>5, <1>6 DEF Core, Holding, HoldOnly, Keys
<1>12. Scripted'
  BY <1>2, <1>5, <1>6 DEF Core, Scripted, ScriptOnly, Keys, ReleaseAt
<1> QED BY <1>8, <1>9, <1>10, <1>11, <1>12 DEF Core

\* The second half of a call of the game.
LEMMA DeliverStep ==
  ASSUME TypeOK, Core, Deliver("game")
  PROVE  Core'
<1>1. PICK s \in mid["game"] :
        /\ pressed' = IF s.down THEN pressed \cup ({s.key} \X s.roads)
                                ELSE pressed \ ({s.key} \X s.roads)
        /\ panicked' = IF s.down THEN panicked \ {s.key} ELSE panicked
        /\ mid' = [mid EXCEPT !["game"] = {}]
  BY DEF Deliver
<1>2. UNCHANGED <<script, at, held, marked, byMessage, todo, worker, raced>>
  BY DEF Deliver, memory
<1>3. s \in Sent /\ mid["game"] = {s}
  BY DEF TypeOK, Threads, Core, WorkerQuiet
<1>4. mid'["game"] = {} /\ mid'["worker"] = mid["worker"]
  BY <1>1 DEF TypeOK, Threads
<1>5. \A k \in Keys : RoadOf(k)' = RoadOf(k)
  BY <1>2 DEF RoadOf, RoadIn
<1>6. \A k \in Keys : k # s.key =>
        /\ IsDown(k)' = IsDown(k)
        /\ \A r \in Roads : <<k, r>> \in pressed' <=> <<k, r>> \in pressed
        /\ \A d \in BOOLEAN : Pending(k, d)' = Pending(k, d)
        /\ k \in panicked' <=> k \in panicked
  BY <1>1, <1>2, <1>3, <1>4 DEF IsDown, Pending
<1>7. s.key \notin Shared => s.roads = {RoadOf(s.key)}
  BY <1>3 DEF Core, Roaded, Sent
<1>8. s.key \notin Shared =>
        /\ IsDown(s.key)' <=> s.down
        /\ \A r \in Roads : <<s.key, r>> \in pressed' => r = RoadOf(s.key)
  <2>1. RoadOf(s.key) \in Roads
    BY DEF RoadOf, RoadIn, Roads
  <2> QED BY <1>1, <1>3, <1>7, <2>1 DEF Core, Roaded, IsDown, Sent
<1>9. \A d \in BOOLEAN : Pending(s.key, d)' <=> [key |-> s.key, down |-> d] \in todo["game"]
  BY <1>2, <1>4 DEF Pending
<1>10. s.down /\ s.key \notin Shared => ~Pending(s.key, TRUE)' /\ ~Pending(s.key, FALSE)'
  BY <1>3, <1>9 DEF Core, Roaded, Sent
<1>11. Pending(s.key, s.down)
  BY <1>3 DEF Pending
<1>12. \A d \in BOOLEAN : d # s.down => (Pending(s.key, d)' <=> Pending(s.key, d))
  BY <1>3, <1>9 DEF Pending
<1>13. WorkerQuiet'
  BY <1>2, <1>4 DEF Core, WorkerQuiet, Threads
<1>14. Roaded'
  <2> SUFFICES ASSUME NEW k \in Keys \ Shared
               PROVE  /\ \A r \in Roads : <<k, r>> \in pressed' => r = RoadOf(k)'
                      /\ [key |-> k, down |-> TRUE] \in todo'["game"] /\ IsDown(k)'
                           => Pending(k, FALSE)'
    BY <1>4 DEF Roaded
  <2>1. CASE k = s.key
    <3>1. s.down => [key |-> k, down |-> TRUE] \notin todo'["game"]
      BY <1>3, <1>2, <2>1 DEF Core, Roaded, Sent
    <3> QED BY <1>5, <1>8, <2>1, <3>1
  <2>2. CASE k # s.key
    BY <1>2, <1>5, <1>6, <2>2 DEF Core, Roaded
  <2> QED BY <2>1, <2>2
<1>15. Found'
  <2> SUFFICES ASSUME NEW k \in Keys \ Shared
               PROVE  IsDown(k)' => \/ k \in marked' \cup raced'
                                    \/ \E d \in BOOLEAN : Pending(k, d)'
                                    \/ \E w \in mid'["worker"] :
                                         w.key = k /\ RoadOf(k)' \in w.roads
    BY <1>4 DEF Found
  <2>1. CASE k = s.key
    BY <1>2, <1>3, <1>8, <2>1 DEF Core, Found
  <2>2. CASE k # s.key
    BY <1>2, <1>4, <1>5, <1>6, <2>2 DEF Core, Found
  <2> QED BY <2>1, <2>2
<1>16. Holding'
  <2> SUFFICES ASSUME NEW k \in HoldOnly
               PROVE  /\ k \notin held' => ~Pending(k, TRUE)'
                      /\ k \notin held' /\ ~Pending(k, FALSE)' => ~IsDown(k)'
                      /\ k \in held' /\ Pending(k, FALSE)' => Pending(k, TRUE)'
                      /\ k \in held' /\ ~Pending(k, TRUE)' => IsDown(k)' \/ k \in panicked'
    BY DEF Holding
  <2>1. CASE k = s.key
    BY <1>2, <1>3, <1>8, <1>10, <1>11, <1>12, <2>1 DEF Core, Holding, HoldOnly, Sent
  <2>2. CASE k # s.key
    BY <1>2, <1>6, <2>2 DEF Core, Holding, HoldOnly, Keys
  <2> QED BY <2>1, <2>2
<1>17. Scripted'
  <2> SUFFICES ASSUME NEW k \in ScriptOnly
               PROVE  /\ IsDown(k)' \/ Pending(k, TRUE)' => IsDown(k) \/ Pending(k, TRUE)
                      /\ ~Pending(k, FALSE)' =>
                           ~Pending(k, FALSE) \/ ~(IsDown(k)' \/ Pending(k, TRUE)')
                      /\ ~(Pending(k, TRUE)' /\ Pending(k, FALSE)')
    BY <1>2 DEF Core, Scripted, ReleaseAt
  <2>1. CASE k = s.key
    BY <1>3, <1>8, <1>9, <1>10, <1>11, <1>12, <2>1 DEF Core, Scripted, ScriptOnly, Sent, Pending
  <2>2. CASE k # s.key
    BY <1>6, <2>2 DEF Core, Scripted, ScriptOnly, Keys
  <2> QED BY <2>1, <2>2
<1> QED BY <1>13, <1>14, <1>15, <1>16, <1>17 DEF Core

\* The release of one key by the panic goes out.
LEMMA PanicDeliverStep ==
  ASSUME TypeOK, Core, Deliver("worker")
  PROVE  Core'
<1>1. PICK s \in mid["worker"] :
        /\ pressed' = IF s.down THEN pressed \cup ({s.key} \X s.roads)
                                ELSE pressed \ ({s.key} \X s.roads)
        /\ panicked' = IF s.down THEN panicked \ {s.key}
                       ELSE IF worker = "panic" THEN panicked \cup {s.key} ELSE panicked
        /\ mid' = [mid EXCEPT !["worker"] = {}]
  BY DEF Deliver
<1>2. UNCHANGED <<script, at, held, marked, byMessage, todo, worker, raced>>
  BY DEF Deliver, memory
<1>3. s \in Sent /\ mid["worker"] = {s} /\ ~s.down /\ worker = "panic"
  BY DEF TypeOK, Threads, Core, WorkerQuiet
<1>4. mid'["worker"] = {} /\ mid'["game"] = mid["game"]
  BY <1>1 DEF TypeOK, Threads
<1>5. pressed' = pressed \ ({s.key} \X s.roads) /\ panicked' = panicked \cup {s.key}
  BY <1>1, <1>3
<1>6. \A k \in Keys : /\ RoadOf(k)' = RoadOf(k)
                      /\ \A d \in BOOLEAN : Pending(k, d)' = Pending(k, d)
                      /\ IsDown(k)' => IsDown(k)
                      /\ k # s.key => IsDown(k)' = IsDown(k)
                      /\ \A r \in Roads : <<k, r>> \in pressed' => <<k, r>> \in pressed
  BY <1>2, <1>4, <1>5 DEF RoadOf, RoadIn, Pending, IsDown
<1>7. WorkerQuiet'
  BY <1>2, <1>4 DEF Core, WorkerQuiet, Threads
<1>8. Roaded'
  BY <1>2, <1>4, <1>6 DEF Core, Roaded
<1>9. Found'
  <2> SUFFICES ASSUME NEW k \in Keys \ Shared, IsDown(k)'
               PROVE  k \in marked \cup raced \/ \E d \in BOOLEAN : Pending(k, d)
    BY <1>2, <1>4, <1>6 DEF Core, Found
  <2>1. ASSUME k = s.key, RoadOf(k) \in s.roads PROVE FALSE
    BY <1>5, <1>6, <2>1 DEF Core, Roaded, IsDown
  <2> QED BY <1>3, <1>6, <2>1 DEF Core, Found
<1>10. Holding'
  BY <1>2, <1>5, <1>6 DEF Core, Holding, HoldOnly, Keys
<1>11. Scripted'
  BY <1>2, <1>6 DEF Core, Scripted, ScriptOnly, Keys, ReleaseAt
<1> QED BY <1>7, <1>8, <1>9, <1>10, <1>11 DEF Core

\* The panic release looks at one key.
LEMMA PanicKeyStep ==
  ASSUME TypeOK, Core, PanicKey
  PROVE  Core'
<1>1. /\ worker = "panic" /\ mid["worker"] = {}
      /\ UNCHANGED <<script, at, held, byMessage, pressed, todo, worker, panicked>>
  BY DEF PanicKey, memory
<1>2. CASE UNCHANGED <<marked, mid, raced>>
  BY <1>1, <1>2, IdleStep DEF Core, WorkerQuiet
<1>3. ASSUME NEW k \in sweep,
             marked' = marked \ {k},
             mid' = [mid EXCEPT !["worker"] =
                      {[key |-> k, down |-> FALSE, roads |-> {RoadOf(k), "system"}]}],
             raced' = IF \E s \in mid["game"] : s.key = k /\ s.down
                      THEN raced \cup {k} ELSE raced
      PROVE  Core'
  <2>1. /\ mid'["game"] = mid["game"]
        /\ mid'["worker"] = {[key |-> k, down |-> FALSE, roads |-> {RoadOf(k), "system"}]}
    BY <1>3 DEF TypeOK, Threads
  <2>2. \A q \in Keys : /\ RoadOf(q)' = RoadOf(q) /\ IsDown(q)' = IsDown(q)
                        /\ Pending(q, TRUE)' = Pending(q, TRUE)
                        /\ Pending(q, FALSE)' = Pending(q, FALSE)
    BY <1>1, <2>1 DEF RoadOf, RoadIn, IsDown, Pending
  <2>3. WorkerQuiet'
    <3>1. \A s \in mid'["worker"] : ~s.down
      BY <2>1
    <3>2. \A t \in Threads : \A s1, s2 \in mid'[t] : s1 = s2
      <4>1. \A s1, s2 \in mid'["game"] : s1 = s2
        BY <2>1 DEF Core, WorkerQuiet, Threads
      <4>2. \A s1, s2 \in mid'["worker"] : s1 = s2
        BY <2>1
      <4> QED BY <4>1, <4>2 DEF Threads
    <3> QED BY <1>1, <3>1, <3>2 DEF Core, WorkerQuiet
  <2>4. Roaded'
    BY <1>1, <2>1, <2>2 DEF Core, Roaded
  <2>5. Found'
    <3> SUFFICES ASSUME NEW q \in Keys \ Shared
                 PROVE  /\ IsDown(q)' => \/ q \in marked' \cup raced'
                                         \/ \E d \in BOOLEAN : Pending(q, d)'
                                         \/ \E s \in mid'["worker"] :
                                              s.key = q /\ RoadOf(q)' \in s.roads
                        /\ \A s \in mid'["game"] :
                             s.key = q /\ s.down => q \in marked' \cup raced'
      BY DEF Found
    <3>1. CASE q = k
      <4>1. [key |-> k, down |-> FALSE, roads |-> {RoadOf(k), "system"}] \in mid'["worker"]
        BY <2>1
      <4>2. \A s \in mid'["game"] : s.key = q /\ s.down => q \in raced'
        BY <1>3, <2>1, <3>1
      <4> QED BY <2>2, <3>1, <4>1, <4>2
    <3>2. CASE q # k
      <4>1. (q \in marked' <=> q \in marked) /\ (q \in raced' <=> q \in raced)
        BY <1>3, <3>2
      <4>2. \A d \in BOOLEAN : Pending(q, d)' = Pending(q, d)
        BY <2>2
      <4>3. mid["worker"] = {}
        BY <1>1
      <4> QED BY <2>1, <2>2, <4>1, <4>2, <4>3 DEF Core, Found
    <3> QED BY <3>1, <3>2
  <2>6. Holding' /\ Scripted'
    BY <1>1, <2>2 DEF Core, Holding, HoldOnly, Scripted, ScriptOnly, Keys, ReleaseAt
  <2> QED BY <2>3, <2>4, <2>5, <2>6 DEF Core
<1> QED BY <1>2, <1>3 DEF PanicKey

\* Appending a whole press, or a letter, to the script.
LEMMA EnqueueStep ==
  ASSUME TypeOK, Core, NEW steps \in Seq(Step), Enqueue(steps),
         \A k \in ScriptOnly, i \in 1..Len(steps) : steps[i] = Down(k) =>
           \E j \in (i + 1)..Len(steps) :
             steps[j] = Up(k) /\ \A m \in (i + 1)..(j - 1) : steps[m] # Down(k)
  PROVE  Core'
<1>1. /\ script' = script \o steps /\ at' = at
      /\ UNCHANGED <<held, marked, byMessage, pressed, todo, mid, worker, panicked, raced>>
  BY DEF Enqueue, sends, history
<1>2. WorkerQuiet' /\ Roaded' /\ Found' /\ Holding'
  <2>1. \A k : /\ RoadOf(k)' = RoadOf(k) /\ IsDown(k)' = IsDown(k)
               /\ \A d : Pending(k, d)' = Pending(k, d)
    BY <1>1 DEF RoadOf, RoadIn, IsDown, Pending
  <2>2. WorkerQuiet'
    BY <1>1 DEF Core, WorkerQuiet
  <2>3. Roaded'
    BY <1>1, <2>1 DEF Core, Roaded
  <2>4. Found'
    BY <1>1, <2>1 DEF Core, Found
  <2>5. Holding'
    BY <1>1, <2>1 DEF Core, Holding
  <2> QED BY <2>2, <2>3, <2>4, <2>5
<1>3. /\ Len(script) \in Nat /\ Len(steps) \in Nat /\ at \in Nat /\ at >= 1
      /\ at <= Len(script) + 1
      /\ Len(script') = Len(script) + Len(steps)
      /\ \A i \in 1..Len(script) : script'[i] = script[i]
      /\ \A i \in 1..Len(steps) : script'[Len(script) + i] = steps[i]
  BY <1>1 DEF TypeOK
<1>4. \A k \in ScriptOnly, x \in at..(Len(script) + 1), j \in at..Len(script) :
        ReleaseAt(k, x, j) => ReleaseAt(k, x, j)'
  <2> SUFFICES ASSUME NEW k \in ScriptOnly, NEW x \in at..(Len(script) + 1),
                      NEW j \in at..Len(script), ReleaseAt(k, x, j)
               PROVE  ReleaseAt(k, x, j)'
    OBVIOUS
  <2>1. script'[j] = script[j]
    BY <1>3
  <2>2. \A m \in x..(j - 1) : script'[m] = script[m]
    BY <1>3
  <2> QED BY <2>1, <2>2 DEF ReleaseAt
<1>5. ASSUME NEW k \in ScriptOnly, NEW i \in at..Len(script'), script'[i] = Down(k)
      PROVE  \E j \in (i + 1)..Len(script') : ReleaseAt(k, i + 1, j)'
  <2>1. CASE i <= Len(script)
    <3>1. i \in at..Len(script) /\ script[i] = Down(k)
      BY <1>3, <1>5, <2>1
    <3>2. PICK j \in (i + 1)..Len(script) : ReleaseAt(k, i + 1, j)
      BY <3>1 DEF Core, Scripted
    <3>3. i + 1 \in at..(Len(script) + 1) /\ j \in at..Len(script)
      BY <1>3, <3>1, <3>2
    <3>4. ReleaseAt(k, i + 1, j)'
      BY <1>4, <3>2, <3>3
    <3>5. j \in (i + 1)..Len(script')
      BY <1>3, <3>2
    <3> QED BY <3>4, <3>5
  <2>2. CASE i > Len(script)
    <3> DEFINE n == i - Len(script)
    <3>1. n \in 1..Len(steps) /\ steps[n] = Down(k)
      <4>1. n \in 1..Len(steps) /\ Len(script) + n = i
        BY <1>3, <2>2
      <4>2. script'[Len(script) + n] = steps[n]
        BY <1>3, <4>1
      <4> HIDE DEF n
      <4> QED BY <1>5, <4>1, <4>2
    <3>2. PICK j \in (n + 1)..Len(steps) :
            steps[j] = Up(k) /\ \A m \in (n + 1)..(j - 1) : steps[m] # Down(k)
      BY <3>1
    <3>3. script'[Len(script) + j] = Up(k)
      BY <1>3, <3>1, <3>2
    <3>4. \A m \in (i + 1)..(Len(script) + j - 1) : script'[m] # Down(k)
      <4> SUFFICES ASSUME NEW m \in (i + 1)..(Len(script) + j - 1)
                   PROVE  script'[m] # Down(k)
        OBVIOUS
      <4>1. m - Len(script) \in (n + 1)..(j - 1) /\ m - Len(script) \in 1..Len(steps)
        BY <1>3, <3>1, <3>2
      <4>2. script'[Len(script) + (m - Len(script))] = steps[m - Len(script)]
        BY <1>3, <4>1
      <4> QED BY <1>3, <3>2, <4>1, <4>2
    <3>5. Len(script) + j \in (i + 1)..Len(script')
      BY <1>3, <3>1, <3>2
    <3>6. PICK e \in (i + 1)..Len(script') : e = Len(script) + j
      BY <3>5
    <3>7. ReleaseAt(k, i + 1, e)'
      BY <3>3, <3>4, <3>6 DEF ReleaseAt
    <3> QED BY <3>6, <3>7
  <2> QED BY <1>3, <2>1, <2>2
<1>6. \A k \in ScriptOnly : (\E j \in at..Len(script) : ReleaseAt(k, at, j)) =>
        \E j \in at'..Len(script') : ReleaseAt(k, at, j)'
  BY <1>1, <1>3, <1>4
<1>7. \A k \in Keys, d \in BOOLEAN : Pending(k, d)' = Pending(k, d) /\ IsDown(k)' = IsDown(k)
  BY <1>1 DEF Pending, IsDown
<1>8. Scripted'
  BY <1>1, <1>5, <1>6, <1>7 DEF Core, Scripted, ScriptOnly, Keys
<1> QED BY <1>2, <1>8 DEF Core

\* A press appended by KeysPress or KeysPressFor ends with its release.
LEMMA PressingReleases ==
  ASSUME NEW q \in ScriptKeys, NEW n \in Nat, NEW tail \in Nat,
         NEW k \in ScriptOnly, NEW i \in 1..Len(Pressing(q, n, tail)),
         Pressing(q, n, tail)[i] = Down(k)
  PROVE  \E j \in (i + 1)..Len(Pressing(q, n, tail)) :
           /\ Pressing(q, n, tail)[j] = Up(k)
           /\ \A m \in (i + 1)..(j - 1) : Pressing(q, n, tail)[m] # Down(k)
<1>1. Len(Pressing(q, n, tail)) = n + 2 + tail
  BY PressingType
<1>2. \A m \in 1..(n + 2 + tail) : Pressing(q, n, tail)[m] =
         IF m = 1 THEN Down(q) ELSE IF m = n + 2 THEN Up(q) ELSE Wait
  BY PressingType
<1>3. i = 1 /\ q = k
  BY <1>1, <1>2 DEF Down, Up, Wait
<1>4. n + 2 \in (i + 1)..Len(Pressing(q, n, tail)) /\ Pressing(q, n, tail)[n + 2] = Up(k)
  BY <1>1, <1>2, <1>3
<1>5. \A m \in (i + 1)..(n + 2 - 1) : Pressing(q, n, tail)[m] # Down(k)
  BY <1>2, <1>3 DEF Down, Up, Wait
<1> QED BY <1>4, <1>5

LEMMA KeysInvNext == KeysInv /\ [Next]_vars => KeysInv'
<1> SUFFICES ASSUME KeysInv, [Next]_vars, Running' PROVE Core'
  BY TypeNext DEF KeysInv
<1>1. TypeOK
  BY DEF KeysInv
<1>2. Running /\ (worker' = worker \/ PanicBegin \/ PanicEnd)
  BY DEF Next, vars, KeysPress, KeysPressFor, KeysType, Enqueue, GameFrame, FrameTick,
         DrivePart, PadPart, GameSend, WorkerSend, Mark, Deliver, Panic, PanicBegin,
         PanicKey, PanicEnd, Shutdown, ShutdownRelease, ShutdownTick,
         ShutdownUninstall, AltTab, FramesStop, LetterPause, Running
<1>3. Core
  BY <1>2 DEF KeysInv
<1> USE <1>1, <1>3
<1>4. CASE KeysPress \/ KeysPressFor
  <2>1. PICK k \in ScriptKeys, n \in Nat, tail \in Nat : Enqueue(Pressing(k, n, tail))
    BY <1>4, KeysAssumption DEF KeysPress, KeysPressFor, KeysAssumption
  <2> QED BY <2>1, EnqueueStep, PressingType, PressingReleases
<1>5. CASE KeysType
  <2>1. <<Char>> \in Seq(Step) /\ Len(<<Char>>) = 1
    BY DEF Char, Step
  <2>2. \A k \in ScriptOnly, i \in 1..Len(<<Char>>) : <<Char>>[i] # Down(k)
    BY DEF Char, Down
  <2> QED BY <1>5, <2>1, <2>2, EnqueueStep DEF KeysType
<1>6. CASE FrameTick
  BY <1>6, TickStep DEF FrameTick
<1>7. CASE DrivePart \/ PadPart
  <2>1. CASE \E keys \in SUBSET HoldKeys : Hold("game", keys)
    BY <1>7, <2>1, HoldStep DEF DrivePart, PadPart
  <2>2. CASE UNCHANGED <<memory, sends, input, history>>
    <3>1. worker' = worker
      BY <1>7 DEF DrivePart, PadPart
    <3> QED BY <2>2, <3>1, IdleStep DEF memory, sends, history, Core, WorkerQuiet
  <2> QED BY <1>7, <2>1, <2>2 DEF DrivePart, PadPart
<1>8. CASE Mark("game")
  BY <1>8, MarkStep
<1>9. CASE Deliver("game")
  BY <1>9, DeliverStep
<1>10. CASE Mark("worker")
  BY <1>10 DEF Mark, Core, WorkerQuiet
<1>11. CASE Deliver("worker")
  BY <1>11, PanicDeliverStep
<1>12. CASE PanicBegin
  BY <1>12, IdleStep DEF PanicBegin, memory, sends, history, Core, WorkerQuiet
<1>13. CASE PanicKey
  BY <1>13, PanicKeyStep
<1>14. CASE PanicEnd
  <2>1. WorkerQuiet'
    BY <1>14 DEF PanicEnd, sends, Idle, Core, WorkerQuiet
  <2> QED BY <1>14, <2>1, IdleStep DEF PanicEnd, memory, sends, history
<1>15. CASE Shutdown
  BY <1>15 DEF Shutdown, ShutdownRelease, ShutdownTick, ShutdownUninstall, Running
<1>16. CASE AltTab \/ FramesStop \/ LetterPause
  <2>1. worker' = worker
    BY <1>16 DEF AltTab, FramesStop, LetterPause
  <2>2. UNCHANGED <<script, at, held, sends, history>>
    BY <1>16 DEF AltTab, FramesStop, LetterPause, memory
  <2> QED BY <2>1, <2>2, IdleStep DEF sends, history, Core, WorkerQuiet
<1>17. CASE UNCHANGED vars
  BY <1>17, IdleStep DEF vars, memory, sends, history, Core, WorkerQuiet
<1> QED
  BY <1>4, <1>5, <1>6, <1>7, <1>8, <1>9, <1>10, <1>11, <1>12, <1>13, <1>14, <1>15,
     <1>16, <1>17
  DEF Next, GameFrame, GameSend, Panic, WorkerSend

\* The invariant the safety properties follow from.
LEMMA KeysInvariant == Spec => []KeysInv
<1>1. Init => KeysInv
  <2> SUFFICES ASSUME Init PROVE Core
    BY InitType DEF KeysInv
  <2>1. \A k \in Keys, d \in BOOLEAN : ~Pending(k, d) /\ ~IsDown(k)
    BY DEF Init, Pending, IsDown, Threads
  <2>2. at..Len(script) = {}
    BY DEF Init
  <2>3. WorkerQuiet
    BY DEF Init, WorkerQuiet, Threads
  <2>4. mid["game"] = {} /\ todo["game"] = {}
    BY DEF Init, Threads
  <2>5. Roaded /\ Found
    BY <2>1, <2>4 DEF Init, Roaded, Found
  <2>6. Holding /\ Scripted
    BY <2>1, <2>2 DEF Init, Holding, HoldOnly, Scripted, ScriptOnly, Keys
  <2> QED BY <2>3, <2>5, <2>6 DEF Core
<1> QED BY <1>1, KeysInvNext, PTL DEF Spec

\* The panic release finds every key that is down (KeysPanicRelease reads
\* g_down), but for one caught between the halves of its press.
THEOREM PanicFinds == Spec => []PanicFindsEveryKey
<1>1. KeysInv => PanicFindsEveryKey
  <2> SUFFICES ASSUME Core, NEW k \in Keys \ Shared, IsDown(k)
               PROVE  k \in marked \cup raced \/ \E t \in Threads : InFlight(t, k)
    BY DEF KeysInv, PanicFindsEveryKey
  <2>1. \A d \in BOOLEAN : Pending(k, d) => InFlight("game", k)
    BY DEF Pending, InFlight
  <2>2. (\E s \in mid["worker"] : s.key = k) => InFlight("worker", k)
    BY DEF InFlight
  <2> QED BY <2>1, <2>2 DEF Core, Found, Threads
<1> QED BY <1>1, KeysInvariant, PTL

\* What is down is down by the road SendKey will release it by.
THEOREM RoadKept == Spec => []ReleaseReachesThePress
<1>1. KeysInv => ReleaseReachesThePress
  BY DEF KeysInv, Core, Roaded, ReleaseReachesThePress
<1> QED BY <1>1, KeysInvariant, PTL

\* A key a script has put down has its release still to come.
THEOREM ReleaseOwed == Spec => []ScriptOwesTheRelease
<1>1. KeysInv => ScriptOwesTheRelease
  <2> SUFFICES ASSUME Core, NEW k \in ScriptOnly, IsDown(k)
               PROVE  \/ \E i \in at..Len(script) : script[i] = Up(k)
                      \/ InFlight("game", k)
    BY DEF KeysInv, ScriptOwesTheRelease, ScriptOnly
  <2>1. Pending(k, FALSE) => InFlight("game", k)
    BY DEF Pending, InFlight
  <2> QED BY <2>1 DEF Core, Scripted, ReleaseAt
<1> QED BY <1>1, KeysInvariant, PTL

\* KeysHold holds exactly what it was last asked for, but for keys a panic
\* release has let go of since.
THEOREM HeldExactly == Spec => []HoldsExactlyUnlessPanicked
<1>1. KeysInv => HoldsExactlyUnlessPanicked
  <2> SUFFICES ASSUME Core, NEW k \in HoldOnly, ~InFlight("game", k)
               PROVE  (k \in held <=> IsDown(k)) \/ k \in held \cap panicked
    BY DEF KeysInv, HoldsExactlyUnlessPanicked, HoldOnly
  <2>1. ~Pending(k, TRUE) /\ ~Pending(k, FALSE)
    BY DEF Pending, InFlight
  <2> QED BY <2>1 DEF Core, Holding
<1> QED BY <1>1, KeysInvariant, PTL
=============================================================================
