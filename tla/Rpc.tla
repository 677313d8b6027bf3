-------------------------------- MODULE Rpc --------------------------------
(***************************************************************************)
(* The road from an agent's request to the game thread and back:           *)
(* mcp/http.cpp serves one connection at a time on one thread,             *)
(* mcp/server.cpp handles the messages of a request one by one,            *)
(* mcp/rpc.cpp posts the work of a tool and waits for it, bridge.cpp       *)
(* queues it, and RunPending runs a few tasks at the start of a frame.     *)
(* The worker thread posts work of its own, for which nobody waits, and on *)
(* the way out stops the transport first and the frame hook after it.      *)
(*                                                                         *)
(* Posts are numbered in the order they are made, under the lock of the    *)
(* queue.  A message is what the transport tells apart: whether its tool   *)
(* needs the game thread, and whether the message has an id, that is       *)
(* whether it is to be answered.                                           *)
(***************************************************************************)
EXTENDS Naturals, Sequences, FiniteSets

CONSTANTS
  kMaxTasks,       \* bound of the queue
  kTasksPerFrame,  \* tasks one frame runs
  MaxPosts,        \* bound of the model: posts in all
  MaxBatch         \* bound of the model: messages of one request

ASSUME RpcAssumption ==
  /\ kMaxTasks \in Nat \ {0} /\ kTasksPerFrame \in Nat \ {0}
  /\ MaxPosts \in Nat /\ MaxBatch \in Nat

Posts == 1..MaxPosts
Messages == [game : BOOLEAN, id : BOOLEAN]

VARIABLES
  \* bridge.cpp
  tasks,      \* g_tasks: the posts waiting, oldest first
  dropped,    \* g_dropped
  \* rpc.cpp
  slots,      \* the Slot of each call
  inFlight, timedOut,
  \* http.cpp and server.cpp
  http,       \* where the transport's thread is
  request,    \* the messages of the request being served
  current,    \* the message being handled
  call,       \* the post whose end the thread waits for
  replies,    \* the responses of this request so far
  stopping,   \* stopping_
  \* the game thread
  budget,     \* tasks this frame may still run
  running,    \* the post being run, if any
  hooked,     \* the frame hook is in place
  worker,     \* how far the worker thread has come
  \* history
  posted,     \* posts made so far
  calls,      \* those somebody waits for
  lost,       \* those dropped
  ran,        \* those that have been run
  heard       \* what the caller of a post was told

bridge == <<tasks, dropped, posted, lost>>
rpc == <<slots, inFlight, timedOut, call, calls, heard>>
transport == <<http, request, current, replies>>
game == <<budget, running, ran>>
way == <<stopping, hooked, worker>>
vars == <<bridge, rpc, transport, game, way>>

Empty == [finished |-> FALSE, by |-> 0, kind |-> "none"]
Contents == [finished : BOOLEAN, by : 0..MaxPosts,
             kind : {"none", "result", "error"}]
Reply == [to : 1..MaxBatch, kind : {"own", "result", "error", "late"}]
InQueue == {tasks[i] : i \in DOMAIN tasks}

Init ==
  /\ tasks = <<>> /\ dropped = 0 /\ posted = 0 /\ lost = {}
  /\ slots = [p \in Posts |-> Empty]
  /\ inFlight = 0 /\ timedOut = 0 /\ call = 0 /\ calls = {}
  /\ heard = [p \in Posts |-> "nothing"]
  /\ http = "poll" /\ request = <<>> /\ current = 0 /\ replies = <<>>
  /\ budget = 0 /\ running = {} /\ ran = {}
  /\ stopping = FALSE /\ hooked = TRUE /\ worker = "loop"

-----------------------------------------------------------------------------
(* The queue.                                                              *)

\* PostToGameThread: the newest post is the one a full queue refuses, and
\* nobody is told.
Full == Len(tasks) >= kMaxTasks

PostToGameThread(p) ==
  /\ posted' = p
  /\ IF Full
     THEN /\ dropped' = dropped + 1 /\ lost' = lost \cup {p}
          /\ UNCHANGED tasks
     ELSE /\ tasks' = Append(tasks, p)
          /\ UNCHANGED <<dropped, lost>>

\* The tasks nobody waits for: the worker's probe at the start, its structure
\* report, taking the mouse back, the buttons of the panel.
PostAside ==
  /\ hooked /\ posted < MaxPosts
  \* Room for the calls still to come, so that the bound stops no request.
  /\ posted + Cardinality({m \in DOMAIN request : m >= current}) < MaxPosts
  /\ PostToGameThread(posted + 1)
  /\ UNCHANGED <<rpc, transport, game, way>>

FrameBegin ==
  /\ hooked /\ budget = 0 /\ running = {}
  /\ budget' = kTasksPerFrame
  /\ UNCHANGED <<bridge, rpc, transport, running, ran, way>>

\* One turn of the loop of RunPending up to the unlock.
Take ==
  /\ running' = {Head(tasks)}
  /\ tasks' = Tail(tasks)

RunPending ==
  /\ budget > 0 /\ running = {}
  /\ IF tasks = <<>>
     THEN budget' = 0 /\ UNCHANGED <<tasks, running>>
     ELSE budget' = budget - 1 /\ Take
  /\ UNCHANGED <<dropped, posted, lost, rpc, transport, ran, way>>

-----------------------------------------------------------------------------
(* A call and its slot.                                                    *)

SlotOf(p) == p

\* The rest of a task: the work, which may throw, and the slot of whoever
\* waits for it.  A task nobody waits for is swallowed either way.
Finish ==
  \E p \in running, kind \in {"result", "error"} :
    /\ running' = {} /\ ran' = ran \cup {p}
    /\ slots' = IF p \in calls
                THEN [slots EXCEPT ![SlotOf(p)] =
                        [finished |-> TRUE, by |-> p, kind |-> kind]]
                ELSE slots
    /\ UNCHANGED <<bridge, inFlight, timedOut, call, calls, heard, transport,
                   budget, way>>

Entered == inFlight + 1

\* RunOnGameThread up to the wait.
RunOnGameThread ==
  LET p == posted + 1 IN
    /\ http = "handle" /\ current <= Len(request) /\ request[current].game
    /\ posted < MaxPosts
    /\ PostToGameThread(p)
    /\ slots' = [slots EXCEPT ![SlotOf(p)] = Empty]
    /\ calls' = calls \cup {p} /\ call' = p
    /\ inFlight' = Entered
    /\ http' = "wait"
    /\ UNCHANGED <<timedOut, heard, request, current, replies, budget,
                   running, ran, way>>

\* Server::Handle gives a message without an id an empty response, whatever
\* its tool came to.
Replies(kind) == IF request[current].id
                 THEN Append(replies, [to |-> current, kind |-> kind])
                 ELSE replies

Respond(kind) ==
  /\ replies' = Replies(kind)
  /\ current' = current + 1

Leave(kind) ==
  /\ http' = "handle" /\ call' = 0
  /\ inFlight' = inFlight - 1
  /\ Respond(kind)
  /\ UNCHANGED <<bridge, slots, calls, request, game, way>>

\* The wait ends because the work has finished ...
Answered ==
  LET slot == slots[SlotOf(call)] IN
    /\ http = "wait" /\ slot.finished
    /\ heard' = [heard EXCEPT ![call] =
                   IF slot.by = call THEN "own" ELSE "others"]
    /\ timedOut' = timedOut
    /\ Leave(slot.kind)

\* ... or because the time is up and it has not.  The task stays where it is.
WaitForEver == FALSE
WaitForUnchecked == TRUE
WaitFor == ~slots[SlotOf(call)].finished
TimedOut ==
  /\ http = "wait" /\ WaitFor
  /\ heard' = [heard EXCEPT ![call] = "late"]
  /\ timedOut' = timedOut + 1
  /\ Leave("late")

-----------------------------------------------------------------------------
(* The transport.                                                          *)

Accept ==
  /\ http = "poll" /\ ~stopping
  /\ http' = "read"
  /\ UNCHANGED <<bridge, rpc, request, current, replies, game, way>>

\* A request to handle: one message, or a batch of them.
ReadRequest ==
  /\ http = "read"
  /\ \E n \in 1..MaxBatch : \E r \in [1..n -> Messages] :
       /\ posted + n <= MaxPosts
       /\ request' = r
  /\ http' = "handle" /\ current' = 1 /\ replies' = <<>>
  /\ UNCHANGED <<bridge, rpc, game, way>>

\* Whatever is answered without the server: GET, OPTIONS, another method or
\* another target, a body that does not parse, a request cut short.
ReadNothing ==
  /\ http = "read" /\ http' = "poll"
  /\ UNCHANGED <<bridge, rpc, request, current, replies, game, way>>

\* A message whose tool stays off the game thread, and the methods that are
\* not tools.
HandleHere ==
  /\ http = "handle" /\ current <= Len(request) /\ ~request[current].game
  /\ Respond("own")
  /\ UNCHANGED <<bridge, rpc, http, request, game, way>>

\* The responses go out in one piece and the connection is closed.
Send ==
  /\ http = "handle" /\ current > Len(request)
  /\ http' = "poll" /\ request' = <<>> /\ current' = 0 /\ replies' = <<>>
  /\ UNCHANGED <<bridge, rpc, game, way>>

\* The transport's thread sees stopping_ between two connections.
Leaves ==
  /\ http = "poll" /\ stopping
  /\ http' = "gone"
  /\ UNCHANGED <<bridge, rpc, request, current, replies, game, way>>

-----------------------------------------------------------------------------
(* The way out.                                                            *)

StopTransportSilently ==
  /\ worker = "loop"
  /\ worker' = "join" /\ stopping' = FALSE
  /\ UNCHANGED <<bridge, rpc, transport, game, hooked>>
StopTransport ==
  /\ worker = "loop"
  /\ worker' = "join" /\ stopping' = TRUE
  /\ UNCHANGED <<bridge, rpc, transport, game, hooked>>

Unhook ==
  /\ worker = "join" /\ http = "gone"
  /\ worker' = "done" /\ hooked' = FALSE
  /\ UNCHANGED <<bridge, rpc, transport, game, stopping>>

-----------------------------------------------------------------------------
Transport == \/ ReadNothing \/ HandleHere \/ RunOnGameThread \/ Answered
             \/ Send \/ Leaves
Frame == FrameBegin \/ RunPending \/ Finish
Next == \/ PostAside \/ Frame \/ Transport \/ TimedOut
        \/ Accept \/ ReadRequest \/ StopTransport \/ Unhook

Spec == Init /\ [][Next]_vars

\* The threads of the module are scheduled and its clock runs.  A frame, the
\* end of a task, a connection and a complete request are owed by nobody:
\* ReadNothing stands for a client that goes away.
Scheduled == WF_vars(Transport) /\ WF_vars(TimedOut) /\ WF_vars(Unhook)
FairSpec == Spec /\ Scheduled

-----------------------------------------------------------------------------
TypeOK ==
  /\ tasks \in Seq(Posts) /\ dropped \in Nat /\ posted \in 0..MaxPosts
  /\ lost \subseteq Posts
  /\ slots \in [Posts -> Contents]
  /\ inFlight \in Nat /\ timedOut \in Nat
  /\ call \in 0..MaxPosts /\ calls \subseteq Posts
  /\ heard \in [Posts -> {"nothing", "own", "others", "late"}]
  /\ http \in {"poll", "read", "handle", "wait", "gone"}
  /\ request \in Seq(Messages) /\ Len(request) <= MaxBatch
  /\ current \in 0..(MaxBatch + 1) /\ replies \in Seq(Reply)
  /\ budget \in 0..kTasksPerFrame
  /\ running \subseteq Posts /\ Cardinality(running) <= 1
  /\ ran \subseteq Posts
  /\ stopping \in BOOLEAN /\ hooked \in BOOLEAN
  /\ worker \in {"loop", "join", "done"}

\* A post is waiting, being run, run or dropped, and never two of these: none
\* is run twice and none goes without a trace, though its caller gave up on
\* it.  What the module reports agrees: dropped_tasks() with the dropped,
\* pending_tasks() with a queue within its bound, in_flight() and timed_out()
\* with the callers.
EveryPostAccountedFor ==
  /\ 1..posted = InQueue \cup running \cup ran \cup lost
  /\ Cardinality(InQueue) = Len(tasks) /\ Len(tasks) <= kMaxTasks
  /\ InQueue \cap (running \cup ran \cup lost) = {}
  /\ running \cap (ran \cup lost) = {} /\ ran \cap lost = {}
  /\ dropped = Cardinality(lost)
  /\ timedOut = Cardinality({p \in Posts : heard[p] = "late"})
  /\ inFlight = IF http = "wait" THEN 1 ELSE 0

\* "Tasks run in posting order" (bridge.hpp), whichever thread posted them and
\* however many were dropped in between: a task being run comes after all
\* that have been and before all that wait.
RunsInPostingOrder ==
  \A p \in running :
    (\A q \in ran : q < p) /\ (\A q \in InQueue : p < q)

\* A caller never gets what another call came to, in particular not the late
\* end of one that gave up before it, and is told of a timeout only about work
\* that has not ended.
AnswersAreTheirOwn ==
  /\ \A p \in Posts : heard[p] # "others"
  /\ http = "wait" /\ slots[SlotOf(call)].finished
       => slots[SlotOf(call)].by = call /\ call \in ran

\* When a request is sent its answer, it has one response for each message
\* with an id and none for another, in the order of the messages, whichever
\* of them timed out or failed.
EachMessageAnsweredOnce ==
  http = "handle" /\ current > Len(request) =>
    /\ {replies[i].to : i \in DOMAIN replies}
         = {m \in DOMAIN request : request[m].id}
    /\ \A i, j \in DOMAIN replies : i < j => replies[i].to < replies[j].to

\* The frame hook goes after the transport: nobody is left waiting for a frame
\* that will not come.
NobodyWaitsForDeadFrames == ~hooked => http = "gone" /\ inFlight = 0

\* No caller waits for good, whatever becomes of the frames and of his task.
EveryCallReturns == http = "wait" ~> http # "wait"

\* Closing the game is never held up for good by a request being served.
TheWayOutEnds == worker = "join" ~> worker = "done"

\* What the callers see is what the channel promises.
Promise == INSTANCE Errand WITH
  Errands <- MaxPosts, handed <- posted, done <- ran, heard <- heard
KeepsThePromise == Promise!Spec
=============================================================================
