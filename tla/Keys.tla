-------------------------------- MODULE Keys --------------------------------
(***************************************************************************)
(* The key player (samp/keys.cpp): a script of keystrokes played one step  *)
(* a frame, a set of keys held down for the walk and the drive, and the    *)
(* panic release of the worker thread.                                     *)
(*                                                                         *)
(* Three parties touch it.  The game thread runs OnFrame once a frame: it  *)
(* queues keystrokes, plays one step (KeysTick), lets the drive and then   *)
(* the walk say which keys they hold (KeysHold).  The worker thread looks  *)
(* every quarter of a second whether frames have stopped and, if they      *)
(* have, releases every key it finds down without taking the lock.  The    *)
(* person at the machine brings the window to the front and sends it back, *)
(* which changes the road a keystroke takes.                               *)
(*                                                                         *)
(* One call of SendKey is two steps, Mark (the two arrays of atomics) and  *)
(* Deliver (the message or the system event), because the panic release    *)
(* may run between them.  Each key event takes effect when it is           *)
(* delivered: PostMessage and SendInput keep the order of one key.         *)
(***************************************************************************)
EXTENDS Naturals, Sequences, FiniteSets

CONSTANTS
  ScriptKeys,     \* keys that scripts press: T, Enter, the arrows, a binding
  HoldKeys,       \* keys the walk and the drive hold
  HoldFrames,     \* kHoldFrames
  LetterFrames,   \* kBetweenLettersMs, in frames
  PressFrames,    \* how long a KeysPressFor of the model holds its key
  MaxScript,      \* bound of the model: length of the script
  NoKey           \* the key of a step that has none

Keys == ScriptKeys \cup HoldKeys

ASSUME KeysAssumption ==
  /\ NoKey \notin ScriptKeys \cup HoldKeys
  /\ HoldFrames \in Nat /\ LetterFrames \in Nat /\ MaxScript \in Nat
  /\ PressFrames \subseteq Nat

Threads == {"game", "worker"}
Roads   == {"message", "system"}
\* A key in both sets can be down for two reasons at once.
Shared  == ScriptKeys \cap HoldKeys

VARIABLES
  script,     \* g_script: the steps queued
  at,         \* g_at: the step played next
  held,       \* g_held: the keys of the last KeysHold
  marked,     \* g_down: the keys believed down
  byMessage,  \* g_by_message: the keys whose last press was posted
  pressed,    \* what the window and the system have been told: <<key, road>>
  post,       \* WouldPost(): a key pressed now would go as a message
  todo,       \* calls of SendKey a thread has still to make
  mid,        \* the call of SendKey a thread is inside of, marked, undelivered
  lock,       \* g_mutex, when a KeysHold keeps it across its calls of SendKey
  frame,      \* how far OnFrame has come: "tasks", "drive", "pad"
  late,       \* FrameHook::idle_ms() is above four seconds
  letterAge,  \* time since the last letter went, in frames, up to LetterFrames
  worker,     \* what the worker thread is doing
  sweep,      \* the keys a panic release has still to look at
  panicked,   \* history: keys a panic release let go of and nobody pressed again
  raced       \* history: keys a panic release marked up inside a press of theirs

input == <<post, late>>
memory == <<script, at, held, letterAge>>
sends == <<marked, byMessage, pressed, todo, mid, lock>>
history == <<panicked, raced>>
vars == <<memory, sends, input, frame, worker, sweep, history>>

Step == [kind : {"char", "wait"}, key : {NoKey}]
          \cup [kind : {"down", "up"}, key : ScriptKeys]
Call == [key : Keys, down : BOOLEAN]
Sent == [key : Keys, down : BOOLEAN, roads : SUBSET Roads]

Wait == [kind |-> "wait", key |-> NoKey]
Char == [kind |-> "char", key |-> NoKey]
Down(k) == [kind |-> "down", key |-> k]
Up(k) == [kind |-> "up", key |-> k]

Idle(t) == todo[t] = {} /\ mid[t] = {}
Busy == at <= Len(script)
RoadIn(k, posted) == IF k \in posted THEN "message" ELSE "system"
RoadOf(k) == RoadIn(k, byMessage)
IsDown(k) == \E r \in Roads : <<k, r>> \in pressed

Init ==
  /\ script = <<>> /\ at = 1
  /\ held = {}
  /\ marked = {} /\ byMessage = {} /\ pressed = {}
  /\ post \in BOOLEAN
  /\ todo = [t \in Threads |-> {}]
  /\ mid = [t \in Threads |-> {}]
  /\ lock = "free"
  /\ frame = "tasks"
  /\ late = FALSE
  /\ letterAge = LetterFrames
  /\ worker = "loop" /\ sweep = {}
  /\ panicked = {} /\ raced = {}

-----------------------------------------------------------------------------
(* Sending one key.                                                        *)

\* What SendKey leaves in g_down.
Marking(c) == IF c.down THEN marked \cup {c.key} ELSE marked \ {c.key}

\* What it leaves in g_by_message: the road is picked afresh for a press and
\* remembered for a release.
Routing(c) ==
  IF ~c.down THEN byMessage
  ELSE IF post THEN byMessage \cup {c.key} ELSE byMessage \ {c.key}

\* The first half of SendKey: the two marks.  A release and a press of the
\* same key asked for together (KeysHold changing roads) go in that order.
Mark(t) ==
  /\ mid[t] = {}
  /\ \E c \in todo[t] :
       /\ c.down => [key |-> c.key, down |-> FALSE] \notin todo[t]
       /\ todo' = [todo EXCEPT ![t] = @ \ {c}]
       /\ marked' = Marking(c) /\ byMessage' = Routing(c)
       /\ mid' = [mid EXCEPT ![t] = {[key |-> c.key, down |-> c.down,
                                      roads |-> {RoadIn(c.key, Routing(c))}]}]
       /\ raced' = raced \ {c.key}
  /\ UNCHANGED <<memory, input, pressed, lock, frame, worker, sweep, panicked>>

\* The second half: the event goes out.  The last one of a KeysHold gives the
\* lock back.
Deliver(t) ==
  \E s \in mid[t] :
    /\ pressed' = IF s.down THEN pressed \cup ({s.key} \X s.roads)
                            ELSE pressed \ ({s.key} \X s.roads)
    /\ panicked' = IF s.down THEN panicked \ {s.key}
                   ELSE IF t = "worker" /\ worker = "panic"
                   THEN panicked \cup {s.key} ELSE panicked
    /\ mid' = [mid EXCEPT ![t] = {}]
    /\ lock' = IF lock = t /\ todo[t] = {} THEN "free" ELSE lock
    /\ UNCHANGED <<memory, input, marked, byMessage, todo, frame, worker,
                   sweep, raced>>

\* The held keys whose road has changed since they went down.
Crossed(keys) == {k \in held \cap keys : (k \in byMessage) # post}

\* What KeysHold(keys) sends: what has changed roads is let go of and pressed
\* again, what is not wanted any more goes up, what is newly wanted goes down.
CallsLettingGo(keys) ==
  [key : Crossed(keys) \cup (held \ keys), down : {FALSE}]
    \cup [key : keys \ held, down : {TRUE}]
Calls(keys) ==
  [key : Crossed(keys) \cup (held \ keys), down : {FALSE}]
    \cup [key : Crossed(keys) \cup (keys \ held), down : {TRUE}]

\* KeysHold(keys).  The caller keeps the lock until the last call is sent, so
\* nobody sees g_held before it is assigned.
Hold(t, keys) ==
  /\ lock = "free" /\ Idle(t)
  /\ todo' = [todo EXCEPT ![t] = Calls(keys)]
  /\ lock' = IF Calls(keys) = {} THEN "free" ELSE t
  /\ held' = keys
  /\ UNCHANGED <<script, at, letterAge, input, marked, byMessage, pressed, mid,
                 history>>

Wipe == script' = <<>> /\ at' = 1

\* KeysTick: one step of the script.  A letter waits until a hand would have
\* typed it; a finished script is wiped.  The step is sent after the lock is
\* given back.
KeysTick(t) ==
  /\ lock = "free" /\ Idle(t)
  /\ IF ~Busy
     THEN Wipe /\ UNCHANGED <<todo, letterAge>>
     ELSE LET step == script[at] IN
          IF step.kind = "char" /\ letterAge < LetterFrames
          THEN UNCHANGED <<script, at, todo, letterAge>>
          ELSE /\ at' = at + 1
               /\ letterAge' = IF step.kind = "char" THEN 0 ELSE letterAge
               /\ todo' = IF step.kind \in {"down", "up"}
                          THEN [todo EXCEPT ![t] =
                                 {[key |-> step.key, down |-> step.kind = "down"]}]
                          ELSE todo
               /\ UNCHANGED script
  /\ UNCHANGED <<held, marked, byMessage, pressed, mid, lock, post, history>>

-----------------------------------------------------------------------------
(* The game thread.                                                        *)

\* g_script.push_back under the lock: OnFrame does it while it runs the queued
\* calls of the tools, and from the chain, the dialog path and the login.
Enqueue(steps) ==
  /\ lock = "free" /\ Idle("game") /\ frame \in {"tasks", "drive"}
  /\ Len(script) + Len(steps) <= MaxScript
  /\ script' = script \o steps
  /\ UNCHANGED <<at, held, letterAge, sends, input, frame, worker, sweep, history>>

\* The steps that press k: down, n frames of waiting, up, and a tail of pauses.
Pressing(k, n, tail) ==
  [i \in 1..(n + 2 + tail) |->
     IF i = 1 THEN Down(k) ELSE IF i = n + 2 THEN Up(k) ELSE Wait]

\* KeysPress(k): as long as the game needs to see it, and a pause.
KeysPress == \E k \in ScriptKeys : Enqueue(Pressing(k, HoldFrames, 1))
\* KeysPressFor(k, n).
KeysPressFor ==
  \E k \in ScriptKeys, n \in PressFrames : Enqueue(Pressing(k, n, 0))
\* KeysType: one letter of it.
KeysType == Enqueue(<<Char>>)

\* A frame begins: the hook notes that frames are coming, and the key player
\* takes its step.  No frame begins once the hook is gone.
FrameTick ==
  /\ frame = "tasks" /\ worker # "gone"
  /\ KeysTick("game")
  /\ frame' = "drive" /\ late' = FALSE
  /\ UNCHANGED <<worker, sweep>>

\* DriveTick: the drive holds some keys, or lets go of all of them, or is not
\* driving and says nothing.
DrivePart ==
  /\ frame = "drive" /\ frame' = "pad"
  /\ \/ \E keys \in SUBSET HoldKeys : Hold("game", keys)
     \/ Idle("game") /\ UNCHANGED <<memory, sends, input, history>>
  /\ UNCHANGED <<worker, sweep>>

\* PadFrame: the same for the walk, which act::Uninstall silences.
PadPart ==
  /\ frame = "pad" /\ frame' = "tasks"
  /\ \/ /\ worker \notin {"uninstalled", "gone"}
        /\ \E keys \in SUBSET HoldKeys : Hold("game", keys)
     \/ Idle("game") /\ UNCHANGED <<memory, sends, input, history>>
  /\ UNCHANGED <<worker, sweep>>

GameFrame == FrameTick \/ DrivePart \/ PadPart
GameSend == Mark("game") \/ Deliver("game")

-----------------------------------------------------------------------------
(* The worker thread.                                                      *)

\* Frames have stopped: look at every key of the array.
PanicBeginUnderLock ==
  /\ worker = "loop" /\ late /\ lock = "free"
  /\ worker' = "panic" /\ sweep' = Keys
  /\ UNCHANGED <<memory, sends, input, frame, history>>
PanicBegin ==
  /\ worker = "loop" /\ late
  /\ worker' = "panic" /\ sweep' = Keys
  /\ UNCHANGED <<memory, sends, input, frame, history>>

\* KeysPanicRelease, one key: what is marked is let go of by its own road and
\* through the system as well.
PanicKey ==
  /\ worker = "panic" /\ mid["worker"] = {}
  /\ \E k \in sweep :
       /\ sweep' = sweep \ {k}
       /\ IF k \in marked
          THEN /\ marked' = marked \ {k}
               /\ mid' = [mid EXCEPT !["worker"] =
                           {[key |-> k, down |-> FALSE,
                             roads |-> {RoadOf(k), "system"}]}]
               /\ raced' = IF \E s \in mid["game"] : s.key = k /\ s.down
                           THEN raced \cup {k} ELSE raced
          ELSE UNCHANGED <<marked, mid, raced>>
  /\ UNCHANGED <<memory, input, byMessage, pressed, todo, lock, frame, worker,
                 panicked>>

PanicEnd ==
  /\ worker = "panic" /\ sweep = {} /\ Idle("worker")
  /\ worker' = "loop"
  /\ UNCHANGED <<memory, sends, input, frame, sweep, history>>

\* The way out: KeysReleaseAll, one KeysTick, then the walk and at last the
\* frame hook are taken away.
ShutdownRelease ==
  /\ worker = "loop" /\ worker' = "letting_go"
  /\ Hold("worker", {})
  /\ UNCHANGED <<frame, sweep>>

ShutdownTick ==
  /\ worker = "letting_go" /\ worker' = "ticked"
  /\ KeysTick("worker")
  /\ UNCHANGED <<late, frame, sweep>>

ShutdownUninstall ==
  /\ Idle("worker")
  /\ \/ worker = "ticked" /\ worker' = "uninstalled"
     \/ worker = "uninstalled" /\ worker' = "gone"
  /\ UNCHANGED <<memory, sends, input, frame, sweep, history>>

WorkerSend == Mark("worker") \/ Deliver("worker")
Panic == PanicBegin \/ PanicKey \/ PanicEnd
Shutdown == ShutdownRelease \/ ShutdownTick \/ ShutdownUninstall

-----------------------------------------------------------------------------
(* The surroundings.                                                       *)

\* The person brings the window to the front or sends it to the back.
AltTab ==
  /\ post' = ~post
  /\ UNCHANGED <<memory, sends, late, frame, worker, sweep, history>>

\* Four seconds without a frame, wherever the game thread is.
FramesStop ==
  /\ ~late /\ late' = TRUE
  /\ UNCHANGED <<memory, sends, post, frame, worker, sweep, history>>

\* A frame's worth of time since the last letter.
LetterPause ==
  /\ letterAge < LetterFrames /\ letterAge' = letterAge + 1
  /\ UNCHANGED <<script, at, held, sends, input, frame, worker, sweep, history>>

Next ==
  \/ KeysPress \/ KeysPressFor \/ KeysType
  \/ GameFrame \/ GameSend
  \/ Panic \/ Shutdown \/ WorkerSend
  \/ AltTab \/ FramesStop \/ LetterPause

Spec == Init /\ [][Next]_vars

\* The worker thread is scheduled, and time passes.  The game thread goes on
\* only as long as frames keep coming: it may stop for good anywhere.
Fairness ==
  /\ WF_vars(Panic) /\ WF_vars(WorkerSend) /\ WF_vars(LetterPause)
  /\ WF_vars(~late /\ GameFrame) /\ WF_vars(~late /\ GameSend)

FairSpec == Spec /\ Fairness

-----------------------------------------------------------------------------
(* Properties.                                                             *)

TypeOK ==
  /\ script \in Seq(Step) /\ at \in 1..(Len(script) + 1)
  /\ held \subseteq HoldKeys
  /\ marked \subseteq Keys /\ byMessage \subseteq Keys
  /\ pressed \subseteq Keys \X Roads
  /\ post \in BOOLEAN /\ late \in BOOLEAN
  /\ todo \in [Threads -> SUBSET Call]
  /\ mid \in [Threads -> SUBSET Sent]
  /\ lock \in Threads \cup {"free"}
  /\ frame \in {"tasks", "drive", "pad"}
  /\ letterAge \in 0..LetterFrames
  /\ worker \in {"loop", "panic", "letting_go", "ticked", "uninstalled", "gone"}
  /\ sweep \subseteq Keys
  /\ panicked \subseteq Keys /\ raced \subseteq Keys

\* The module is not on its way out.
Running == worker \in {"loop", "panic"}

\* A call of SendKey for k that has not gone out yet.
InFlight(t, k) == \/ \E c \in todo[t] : c.key = k
                  \/ \E s \in mid[t] : s.key = k

\* The panic release finds whatever is down: a key somebody was told is down
\* is in g_down, or its release is on its way - unless the panic caught the
\* very press of it between its two halves.
PanicFindsEveryKey ==
  Running => \A k \in Keys \ Shared :
    IsDown(k) => k \in marked \cup raced \/ \E t \in Threads : InFlight(t, k)

\* A key goes up by the road it went down: whatever is down is down by the
\* road that g_by_message remembers for it, so that SendKey(k, false) will
\* reach it.  Holding and scripting the same key is what breaks this.
ReleaseReachesThePress ==
  Running => \A k \in Keys \ Shared, r \in Roads :
    <<k, r>> \in pressed => r = RoadOf(k)

\* Whatever a script puts down it still has to let go of: a script's key that
\* is down has its release ahead of it in the script or on its way.
ScriptOwesTheRelease ==
  Running => \A k \in ScriptKeys \ Shared :
    IsDown(k) =>
      \/ \E i \in at..Len(script) : script[i] = Up(k)
      \/ InFlight("game", k)

\* KeysHold "holds exactly these keys and no others", scripts apart and but
\* for what a panic release has let go of since.
HoldsExactlyUnlessPanicked ==
  Running => \A k \in HoldKeys \ Shared :
    InFlight("game", k) \/ (k \in held <=> IsDown(k)) \/ k \in held \cap panicked

\* The game thread is inside the call of SendKey for k: the panic release may
\* have looked at the mark of k before, or after, the event goes out.
Inside(k) == k \in raced \/ \E s \in mid["game"] : s.key = k

\* When frames stop for good the worker lets go of everything that was down,
\* wherever the game thread stands and whatever lock it holds - the one key it
\* may be sending just then excepted.
PanicReleases ==
  late ~> ~late \/ ~Running \/ \A k \in Keys \ Shared : IsDown(k) => Inside(k)

=============================================================================
