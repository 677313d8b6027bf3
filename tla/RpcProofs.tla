----------------------------- MODULE RpcProofs -----------------------------
(***************************************************************************)
(* What runs on the game's thread, for every size of what bounds it.       *)
(* The road to it: RpcInv ties the numbers of the posts to where they are, *)
(* the queue is sorted, what runs is older than what waits and younger     *)
(* than what has run, and the slot of a call is finished exactly when its  *)
(* work has been done.  The calls to the device: PanelInv tells when the   *)
(* panel has something on a device and whose the pointer is.  The world:   *)
(* WorldInv is the types of what is read, and what a footprint paints is   *)
(* followed thing by thing.  The window: WindowInv tells where each        *)
(* message that is under way may be, and whose business the outermost is.  *)
(***************************************************************************)
EXTENDS MCRpc, FiniteSetTheorems, SequenceTheorems, WellFoundedInduction, TLAPS

Sorted == \A i, j \in DOMAIN tasks : i < j => tasks[i] < tasks[j]

\* Where the posts are, by number.
Placed ==
  /\ 1..posted = InQueue \cup running \cup ran \cup lost
  /\ \A q \in InQueue : q \notin lost
  /\ \A p \in running : p \notin lost
  /\ \A r \in ran : r \notin lost
  /\ \A p \in running, q \in InQueue : p < q
  /\ \A r \in ran, q \in InQueue : r < q
  /\ \A r \in ran, p \in running : r < p
  /\ \A p1, p2 \in running : p1 = p2

\* What a slot says of its call.
Slotted ==
  /\ calls \subseteq 1..posted
  /\ \A p \in calls : slots[p].finished <=> p \in ran
  /\ \A p \in calls : slots[p].finished => slots[p].by = p
  /\ http = "wait" => call \in calls /\ heard[call] = "nothing"
  /\ \A p \in Posts : heard[p] # "others"
  /\ \A p \in Posts : heard[p] # "nothing" => p \in calls

Types ==
  /\ tasks \in Seq(Posts) /\ posted \in 0..MaxPosts
  /\ running \subseteq Posts /\ ran \subseteq Posts /\ lost \subseteq Posts
  /\ slots \in [Posts -> Contents]
  /\ call \in 0..MaxPosts /\ calls \subseteq Posts
  /\ heard \in [Posts -> {"nothing", "own", "others", "late"}]
  /\ http \in {"poll", "read", "handle", "wait", "gone"}

RpcInv == Types /\ Sorted /\ Placed /\ Slotted

-----------------------------------------------------------------------------
LEMMA Bounds == MaxPosts \in Nat /\ MaxBatch \in Nat /\ kTasksPerFrame \in Nat
BY RpcAssumption DEF RpcAssumption

\* Everything about the queue in terms of numbers.
LEMMA Numbers ==
  ASSUME Types
  PROVE  /\ posted \in Nat /\ posted <= MaxPosts /\ Posts \subseteq Nat
         /\ Len(tasks) \in Nat /\ DOMAIN tasks = 1..Len(tasks)
         /\ \A i \in DOMAIN tasks : tasks[i] \in Posts
         /\ InQueue \subseteq Posts
BY Bounds DEF Types, Posts, InQueue

\* A post goes to the end of the queue or is dropped: either way everything
\* stays in its place.
LEMMA PostKeepsPlaces ==
  ASSUME Types, Sorted, Placed, posted < MaxPosts,
         PostToGameThread(posted + 1), UNCHANGED <<running, ran>>
  PROVE  /\ Sorted' /\ Placed' /\ posted' \in 0..MaxPosts
         /\ tasks' \in Seq(Posts) /\ lost' \subseteq Posts
<1>. DEFINE p == posted + 1
<1>1. p \in Posts /\ posted' = p /\ 1..posted' = 1..posted \cup {p}
  BY RpcAssumption DEF RpcAssumption, Types, Posts, PostToGameThread
<1>2. CASE Full
  <2>1. tasks' = tasks /\ lost' = lost \cup {p} /\ InQueue' = InQueue
    BY <1>2 DEF PostToGameThread, InQueue
  <2>2. Sorted'
    BY <2>1 DEF Sorted
  <2>3. \A q \in InQueue \cup running \cup ran : q # p
    <3>1. \A q \in InQueue \cup running \cup ran : q \in 1..posted
      BY DEF Placed
    <3>. QED  BY <3>1 DEF Types
  <2>4. Placed'
    BY <1>1, <2>1, <2>3 DEF Placed
  <2>. QED  BY <1>1, <2>1, <2>2, <2>4 DEF Types, Posts
<1>3. CASE ~Full
  <2>1. tasks' = Append(tasks, p) /\ lost' = lost
    BY <1>3 DEF PostToGameThread
  <2>2. /\ tasks' \in Seq(Posts) /\ Len(tasks') = Len(tasks) + 1
        /\ tasks'[Len(tasks) + 1] = p
        /\ \A i \in DOMAIN tasks : tasks'[i] = tasks[i]
        /\ DOMAIN tasks = 1..Len(tasks) /\ DOMAIN tasks' = 1..(Len(tasks) + 1)
    BY <1>1, <2>1 DEF Types
  <2>3. InQueue' = InQueue \cup {p}
    BY <2>2 DEF InQueue
  <2>4. \A q \in InQueue \cup running \cup ran \cup lost : q \in 1..posted
    BY DEF Placed
  <2>5. Sorted'
    <3>1. \A i \in DOMAIN tasks : tasks[i] < p
      <4>1. \A i \in DOMAIN tasks : tasks[i] \in 1..posted
        BY <2>4 DEF InQueue
      <4>. QED  BY <4>1, Numbers
    <3>. QED  BY <2>2, <3>1 DEF Sorted, Types
  <2>6. \A q \in running \cup ran \cup lost : q < p
    BY <2>4 DEF Types
  <2>7. Placed'
    BY <1>1, <2>1, <2>3, <2>6 DEF Placed, Types
  <2>. QED  BY <1>1, <2>1, <2>2, <2>5, <2>7 DEF Types, Posts
<1>. QED  BY <1>2, <1>3

\* Taking the head of the queue leaves the rest in order behind it.
LEMMA TakeKeepsPlaces ==
  ASSUME Types, Sorted, Placed, tasks # <<>>, running = {}, Take,
         UNCHANGED <<posted, ran, lost>>
  PROVE  /\ Sorted' /\ Placed' /\ tasks' \in Seq(Posts)
         /\ running' \subseteq Posts
<1>. DEFINE h == Head(tasks)
<1>1. /\ tasks' = Tail(tasks) /\ running' = {h}
      /\ h = tasks[1] /\ 1 \in DOMAIN tasks /\ h \in Posts
      /\ Len(tasks) \in Nat /\ DOMAIN tasks = 1..Len(tasks)
      /\ tasks' \in Seq(Posts) /\ DOMAIN tasks' = 1..(Len(tasks) - 1)
      /\ \A i \in 1..(Len(tasks) - 1) : tasks'[i] = tasks[i + 1]
  BY DEF Types, Take
<1>2. InQueue = InQueue' \cup {h}
  <2>1. \A i \in DOMAIN tasks : i # 1 =>
          (i - 1) \in DOMAIN tasks' /\ tasks[i] = tasks'[i - 1]
    <3>. SUFFICES ASSUME NEW i \in 1..Len(tasks), i # 1
                  PROVE  i - 1 \in 1..(Len(tasks) - 1) /\ tasks[i] = tasks'[i - 1]
      BY <1>1
    <3>1. i - 1 \in 1..(Len(tasks) - 1) /\ (i - 1) + 1 = i
      BY <1>1
    <3>. QED  BY <1>1, <3>1
  <2>2. \A i \in DOMAIN tasks' : i + 1 \in DOMAIN tasks /\ tasks'[i] = tasks[i + 1]
    BY <1>1
  <2>3. InQueue \subseteq InQueue' \cup {h}
    <3>. SUFFICES ASSUME NEW i \in DOMAIN tasks
                  PROVE  tasks[i] \in InQueue' \cup {h}
      BY DEF InQueue
    <3>. QED  BY <1>1, <2>1 DEF InQueue
  <2>4. InQueue' \cup {h} \subseteq InQueue
    BY <1>1, <2>2 DEF InQueue
  <2>. QED  BY <2>3, <2>4
<1>3. \A q \in InQueue' : h < q
  BY <1>1 DEF InQueue, Sorted
<1>4. Sorted'
  BY <1>1 DEF Sorted
<1>5. Placed'
  BY <1>1, <1>2, <1>3 DEF Placed
<1>. QED  BY <1>1, <1>4, <1>5

\* The queue holds each post once.
LEMMA QueueIsASet ==
  ASSUME Types, Sorted
  PROVE  IsFiniteSet(InQueue) /\ Cardinality(InQueue) = Len(tasks)
<1>1. Len(tasks) \in Nat /\ DOMAIN tasks = 1..Len(tasks) /\ tasks \in [1..Len(tasks) -> Posts]
  BY DEF Types
<1>2. \A i, j \in 1..Len(tasks) : tasks[i] = tasks[j] => i = j
  BY <1>1 DEF Sorted, Posts
<1>3. tasks \in Bijection(1..Len(tasks), InQueue)
  <2>1. tasks \in [1..Len(tasks) -> InQueue]
    BY <1>1 DEF InQueue
  <2>2. \A q \in InQueue : \E i \in 1..Len(tasks) : tasks[i] = q
    BY <1>1 DEF InQueue
  <2>. QED  BY <1>2, <2>1, <2>2 DEF Bijection, Injection, IsInjective, Surjection
<1>4. ExistsBijection(1..Len(tasks), InQueue)
  BY <1>3 DEF ExistsBijection
<1>5. IsFiniteSet(1..Len(tasks)) /\ Cardinality(1..Len(tasks)) = Len(tasks)
  BY <1>1, FS_Interval
<1>. QED  BY <1>4, <1>5, FS_Bijection

-----------------------------------------------------------------------------
LEMMA RpcInvInit == ASSUME Init PROVE RpcInv
<1>1. InQueue = {} /\ DOMAIN tasks = {}
  BY DEF Init, InQueue
<1>2. Types
  BY RpcAssumption DEF RpcAssumption, Init, Types, Contents, Empty
<1>3. Sorted /\ Placed
  BY <1>1 DEF Init, Sorted, Placed
<1>4. Slotted
  BY DEF Init, Slotted, Posts
<1>. QED  BY <1>2, <1>3, <1>4 DEF RpcInv

\* What a step that touches neither the queue nor a slot has to leave alone.
LEMMA RpcInvStutter ==
  ASSUME RpcInv, UNCHANGED <<tasks, posted, lost, running, ran, slots, calls>>,
         UNCHANGED <<call, heard>>,
         http' \in {"poll", "read", "handle", "wait", "gone"},
         http' = "wait" => http = "wait"
  PROVE  RpcInv'
<1>1. Types'  BY DEF RpcInv, Types
<1>2. Sorted'  BY DEF RpcInv, Sorted
<1>3. Placed'  BY DEF RpcInv, Placed, InQueue
<1>4. Slotted'  BY DEF RpcInv, Slotted
<1>. QED  BY <1>1, <1>2, <1>3, <1>4 DEF RpcInv

\* A call that is over, whatever its caller heard of his own work.
LEMMA RpcInvLeave ==
  ASSUME RpcInv, http = "wait", NEW words \in {"own", "late"}, NEW kind,
         heard' = [heard EXCEPT ![call] = words], Leave(kind)
  PROVE  RpcInv'
<1>1. call \in Posts /\ call \in calls
  BY DEF RpcInv, Slotted, Types
<1>2. UNCHANGED <<tasks, posted, lost, running, ran, slots, calls>> /\ call' = 0
      /\ http' = "handle"
  BY DEF Leave, bridge, game
<1>3. Types'
  BY <1>1, <1>2, Bounds DEF RpcInv, Types
<1>4. Sorted'  BY <1>2 DEF RpcInv, Sorted
<1>5. Placed'  BY <1>2 DEF RpcInv, Placed, InQueue
<1>6. Slotted'
  BY <1>1, <1>2 DEF RpcInv, Slotted, Types
<1>. QED  BY <1>3, <1>4, <1>5, <1>6 DEF RpcInv

LEMMA RpcInvNext ==
  ASSUME RpcInv, [Next]_vars
  PROVE  RpcInv'
<1>0. Types /\ Sorted /\ Placed /\ Slotted
  BY DEF RpcInv
<1>1. CASE PostAside
  <2>1. posted < MaxPosts /\ PostToGameThread(posted + 1)
        /\ UNCHANGED <<running, ran, slots, call, calls, heard, http>>
    BY <1>1 DEF PostAside, rpc, transport, game
  <2>2. Sorted' /\ Placed' /\ posted' \in 0..MaxPosts /\ tasks' \in Seq(Posts)
        /\ lost' \subseteq Posts /\ posted' = posted + 1
    BY <1>0, <2>1, PostKeepsPlaces DEF PostToGameThread
  <2>3. Types'  BY <1>0, <2>1, <2>2 DEF Types
  <2>4. Slotted'
    <3>1. 1..posted \subseteq 1..posted'
      BY <1>0, <2>2 DEF Types
    <3>. QED  BY <1>0, <2>1, <3>1 DEF Slotted
  <2>. QED  BY <2>2, <2>3, <2>4 DEF RpcInv
<1>2. CASE FrameBegin
  BY <1>2, RpcInvStutter, <1>0 DEF FrameBegin, bridge, rpc, transport, Types
<1>3. CASE RunPending
  <2>1. UNCHANGED <<posted, lost, ran, slots, call, calls, heard, http>>
        /\ running = {}
    BY <1>3 DEF RunPending, rpc, transport
  <2>2. CASE tasks = <<>>
    BY <1>0, <1>3, <2>1, <2>2, RpcInvStutter DEF RunPending, Types
  <2>3. CASE tasks # <<>>
    <3>1. Take
      BY <1>3, <2>3 DEF RunPending
    <3>2. Sorted' /\ Placed' /\ tasks' \in Seq(Posts) /\ running' \subseteq Posts
      BY <1>0, <2>1, <2>3, <3>1, TakeKeepsPlaces
    <3>3. Types'  BY <1>0, <2>1, <3>2 DEF Types
    <3>4. Slotted'  BY <1>0, <2>1 DEF Slotted
    <3>. QED  BY <3>2, <3>3, <3>4 DEF RpcInv
  <2>. QED  BY <2>2, <2>3
<1>4. CASE Finish
  <2>. PICK p \in running, kind \in {"result", "error"} :
         /\ running' = {} /\ ran' = ran \cup {p}
         /\ slots' = IF p \in calls
                     THEN [slots EXCEPT ![SlotOf(p)] =
                             [finished |-> TRUE, by |-> p, kind |-> kind]]
                     ELSE slots
         /\ UNCHANGED <<tasks, posted, lost, call, calls, heard, http>>
    BY <1>4 DEF Finish, bridge, transport
  <2>1. p \in Posts /\ p \in 0..MaxPosts /\ p \notin ran /\ running = {p}
    BY <1>0 DEF Types, Placed, Posts
  <2>2. Types'
    <3>1. [finished |-> TRUE, by |-> p, kind |-> kind] \in Contents
      BY <2>1 DEF Contents
    <3>. QED  BY <1>0, <2>1, <3>1 DEF Types, SlotOf
  <2>3. Sorted'  BY <1>0 DEF Sorted
  <2>4. Placed'  BY <1>0, <2>1 DEF Placed, InQueue
  <2>5. Slotted'  BY <1>0, <2>1 DEF Slotted, SlotOf, Types
  <2>. QED  BY <2>2, <2>3, <2>4, <2>5 DEF RpcInv
<1>5. CASE RunOnGameThread
  <2>. DEFINE p == posted + 1
  <2>1. /\ posted < MaxPosts /\ PostToGameThread(p)
        /\ slots' = [slots EXCEPT ![p] = Empty]
        /\ calls' = calls \cup {p} /\ call' = p /\ http' = "wait"
        /\ UNCHANGED <<heard, running, ran>>
    BY <1>5 DEF RunOnGameThread, SlotOf
  <2>2. Sorted' /\ Placed' /\ posted' \in 0..MaxPosts /\ tasks' \in Seq(Posts)
        /\ lost' \subseteq Posts /\ posted' = p
    BY <1>0, <2>1, PostKeepsPlaces DEF PostToGameThread
  <2>3. p \in Posts /\ p \notin 1..posted /\ 1..posted' = 1..posted \cup {p}
    BY <1>0, <2>1, <2>2 DEF Types, Posts
  <2>4. p \notin ran /\ p \notin calls /\ heard[p] = "nothing"
    BY <1>0, <2>3 DEF Placed, Slotted
  <2>5. Types'
    <3>1. Empty \in Contents
      BY RpcAssumption DEF Empty, Contents, RpcAssumption
    <3>2. p \in 0..MaxPosts
      BY <2>2
    <3>. QED  BY <1>0, <2>1, <2>2, <2>3, <3>1, <3>2 DEF Types
  <2>6. Slotted'
    BY <1>0, <2>1, <2>2, <2>3, <2>4 DEF Slotted, Types, Empty
  <2>. QED  BY <2>2, <2>5, <2>6 DEF RpcInv
<1>6. CASE Answered
  <2>1. slots[call].by = call
    BY <1>0, <1>6 DEF Answered, SlotOf, Slotted
  <2>2. /\ http = "wait" /\ Leave(slots[call].kind)
        /\ heard' = [heard EXCEPT ![call] = "own"]
    BY <1>6, <2>1 DEF Answered, SlotOf
  <2>. QED  BY <2>2, RpcInvLeave
<1>7. CASE TimedOut
  BY <1>7, RpcInvLeave DEF TimedOut
<1>8. CASE \/ Accept \/ ReadRequest \/ ReadNothing \/ HandleHere \/ Send \/ Leaves
           \/ StopTransport \/ Unhook
  <2>1. UNCHANGED <<tasks, posted, lost, running, ran, slots, calls, call, heard>>
    BY <1>8 DEF Accept, ReadRequest, ReadNothing, HandleHere, Send, Leaves,
                StopTransport, Unhook, bridge, rpc, game
  <2>2. http' \in {"poll", "read", "handle", "gone"} \/ http' = http
    BY <1>8 DEF Accept, ReadRequest, ReadNothing, HandleHere, Send, Leaves,
                StopTransport, Unhook, transport
  <2>. QED  BY <1>0, <2>1, <2>2, RpcInvStutter DEF Types
<1>9. CASE UNCHANGED vars
  BY <1>0, <1>9, RpcInvStutter DEF vars, bridge, rpc, transport, game, Types
<1>. QED
  BY <1>1, <1>2, <1>3, <1>4, <1>5, <1>6, <1>7, <1>8, <1>9 DEF Next, Frame, Transport

\* RpcInv holds in every state: the places of the posts and the slots of the
\* calls agree throughout.
THEOREM RpcInvariant == Spec => []RpcInv
<1>1. Init => RpcInv
  BY RpcInvInit
<1>2. RpcInv /\ [Next]_vars => RpcInv'
  BY RpcInvNext
<1>. QED  BY <1>1, <1>2, PTL DEF Spec

\* Tasks run in the order they were posted, whatever the queue dropped.
THEOREM PostingOrder == Spec => []RunsInPostingOrder
<1>1. RpcInv => RunsInPostingOrder
  BY DEF RpcInv, Placed, RunsInPostingOrder
<1>. QED  BY <1>1, RpcInvariant, PTL

\* Every caller hears of his own work, and of no other's.
THEOREM OwnAnswers == Spec => []AnswersAreTheirOwn
<1>1. RpcInv => AnswersAreTheirOwn
  BY DEF RpcInv, Slotted, AnswersAreTheirOwn, SlotOf
<1>. QED  BY <1>1, RpcInvariant, PTL
-----------------------------------------------------------------------------
(* The messages of a request and the responses to them.                    *)

Responded ==
  /\ request \in Seq(Messages) /\ Len(request) <= MaxBatch
  /\ current \in 0..(MaxBatch + 1) /\ replies \in Seq(Reply)
  /\ http \in {"handle", "wait"} => current \in 1..(Len(request) + 1)
  /\ http = "wait" => current <= Len(request)
  /\ \A p \in Posts : slots[p].finished => slots[p].kind # "none"
  /\ \A i \in DOMAIN replies : replies[i].to < current /\ replies[i].to <= Len(request)
  /\ \A i, j \in DOMAIN replies : i < j => replies[i].to < replies[j].to
  /\ \A i \in DOMAIN replies : request[replies[i].to].id
  /\ \A m \in 1..(current - 1) : m <= Len(request) /\ request[m].id =>
       \E i \in DOMAIN replies : replies[i].to = m

LEMMA RepliesTyped ==
  ASSUME Responded
  PROVE  \A i \in DOMAIN replies :
           replies[i].to \in 1..MaxBatch /\ replies[i].to \in Nat
<1>1. \A i \in DOMAIN replies : replies[i] \in Reply
  BY DEF Responded
<1>. QED  BY <1>1, Bounds DEF Reply

LEMMA RespondKeeps ==
  ASSUME Responded, http \in {"handle", "wait"}, current <= Len(request),
         NEW kind \in {"own", "result", "error", "late"}, Respond(kind),
         http' = "handle", UNCHANGED request,
         \A p \in Posts : slots'[p].finished => slots'[p].kind # "none"
  PROVE  Responded'
<1>1. /\ current \in 1..Len(request) /\ current' = current + 1
      /\ Len(request) \in Nat /\ Len(replies) \in Nat
      /\ DOMAIN replies = 1..Len(replies) /\ current \in 1..MaxBatch
  BY Bounds DEF Responded, Respond
<1>2. CASE request[current].id
  <2>. DEFINE one == [to |-> current, kind |-> kind]
  <2>1. replies' = Append(replies, one) /\ one \in Reply
    BY <1>1, <1>2 DEF Respond, Replies, Reply
  <2>2. /\ replies' \in Seq(Reply) /\ DOMAIN replies' = 1..(Len(replies) + 1)
        /\ replies'[Len(replies) + 1] = one
        /\ \A i \in DOMAIN replies : replies'[i] = replies[i]
    BY <1>1, <2>1 DEF Responded
  <2>3. \A i \in DOMAIN replies' : i \in DOMAIN replies \/ replies'[i].to = current
    BY <1>1, <2>2
  <2>4. \A i \in DOMAIN replies' : replies'[i].to < current' /\ replies'[i].to <= Len(request)
    <3>. SUFFICES ASSUME NEW i \in DOMAIN replies'
                  PROVE  replies'[i].to < current + 1 /\ replies'[i].to <= Len(request)
      BY <1>1
    <3>1. CASE replies'[i].to = current
      BY <1>1, <3>1
    <3>2. CASE i \in DOMAIN replies
      <4>1. replies[i].to < current /\ replies[i].to <= Len(request) /\ replies[i].to \in Nat
        BY <3>2, RepliesTyped DEF Responded
      <4>. QED  BY <1>1, <2>2, <3>2, <4>1
    <3>. QED  BY <2>3, <3>1, <3>2
  <2>5. \A i, j \in DOMAIN replies' : i < j => replies'[i].to < replies'[j].to
    <3>. SUFFICES ASSUME NEW i \in DOMAIN replies', NEW j \in DOMAIN replies', i < j
                  PROVE  replies'[i].to < replies'[j].to
      OBVIOUS
    <3>1. i \in DOMAIN replies
      BY <1>1, <2>2
    <3>2. CASE j \in DOMAIN replies
      BY <2>2, <3>1, <3>2 DEF Responded
    <3>3. CASE j = Len(replies) + 1
      BY <2>2, <3>1, <3>3 DEF Responded
    <3>. QED  BY <1>1, <2>2, <3>2, <3>3
  <2>6. \A i \in DOMAIN replies' : request[replies'[i].to].id
    BY <1>2, <2>2, <2>3 DEF Responded
  <2>7. \A m \in 1..(current' - 1) : m <= Len(request) /\ request[m].id =>
          \E i \in DOMAIN replies' : replies'[i].to = m
    <3>. SUFFICES ASSUME NEW m \in 1..current, m <= Len(request), request[m].id
                  PROVE  \E i \in DOMAIN replies' : replies'[i].to = m
      BY <1>1
    <3>1. CASE m = current
      <4>1. Len(replies) + 1 \in DOMAIN replies'
        BY <1>1, <2>2
      <4>. QED  BY <2>2, <3>1, <4>1
    <3>2. CASE m \in 1..(current - 1)
      <4>. PICK i \in DOMAIN replies : replies[i].to = m
        BY <3>2 DEF Responded
      <4>1. i \in DOMAIN replies'
        BY <1>1, <2>2
      <4>. QED  BY <2>2, <4>1
    <3>. QED  BY <1>1, <3>1, <3>2
  <2>. QED
    BY <1>1, <2>2, <2>4, <2>5, <2>6, <2>7, Bounds DEF Responded
<1>3. CASE ~request[current].id
  <2>1. replies' = replies
    BY <1>3 DEF Respond, Replies
  <2>2. \A m \in 1..(current' - 1) : m = current \/ m \in 1..(current - 1)
    BY <1>1
  <2>3. \A m \in 1..(current' - 1) : m <= Len(request) /\ request[m].id =>
          \E i \in DOMAIN replies' : replies'[i].to = m
    BY <1>3, <2>1, <2>2 DEF Responded
  <2>4. \A i \in DOMAIN replies : replies[i].to \in Nat
    BY RepliesTyped
  <2>5. \A i \in DOMAIN replies' : replies'[i].to < current' /\ replies'[i].to <= Len(request)
    BY <1>1, <2>1, <2>4 DEF Responded
  <2>. QED
    BY <1>1, <2>1, <2>3, <2>5, Bounds DEF Responded
<1>. QED  BY <1>2, <1>3

LEMMA RespondedStutter ==
  ASSUME Responded, UNCHANGED <<request, current, replies, slots>>,
         http' \in {"handle", "wait"} => http' = http
  PROVE  Responded'
BY DEF Responded

LEMMA RespondedNext ==
  ASSUME RpcInv, Responded, [Next]_vars
  PROVE  Responded'
<1>0. Types
  BY DEF RpcInv
<1>1. CASE PostAside \/ FrameBegin \/ RunPending \/ StopTransport \/ Unhook \/ UNCHANGED vars
  BY <1>1, RespondedStutter
  DEF PostAside, FrameBegin, RunPending, StopTransport, Unhook, vars, rpc, transport
<1>2. CASE Accept \/ ReadNothing \/ Leaves
  BY <1>2, RespondedStutter DEF Accept, ReadNothing, Leaves, rpc
<1>3. CASE Finish
  <2>. PICK p \in running, kind \in {"result", "error"} :
         /\ slots' = IF p \in calls
                     THEN [slots EXCEPT ![SlotOf(p)] =
                             [finished |-> TRUE, by |-> p, kind |-> kind]]
                     ELSE slots
         /\ UNCHANGED <<request, current, replies, http>>
    BY <1>3 DEF Finish, transport
  <2>1. \A q \in Posts : slots'[q].finished => slots'[q].kind # "none"
    BY <1>0 DEF Types, Responded, SlotOf
  <2>. QED  BY <2>1 DEF Responded
<1>4. CASE RunOnGameThread
  <2>1. /\ slots' = [slots EXCEPT ![posted + 1] = Empty]
        /\ UNCHANGED <<request, current, replies>>
        /\ current <= Len(request) /\ http = "handle" /\ http' = "wait"
    BY <1>4 DEF RunOnGameThread, SlotOf
  <2>2. \A q \in Posts : slots'[q].finished => slots'[q].kind # "none"
    BY <1>0, <2>1 DEF Types, Responded, Empty
  <2>. QED  BY <2>1, <2>2 DEF Responded
<1>5. CASE Answered
  <2>1. call \in Posts /\ slots[call].finished /\ slots[call] \in Contents
    BY <1>0, <1>5 DEF Answered, SlotOf, RpcInv, Slotted, Types
  <2>2. slots[call].kind \in {"result", "error"}
    BY <2>1 DEF Responded, Contents
  <2>3. /\ http = "wait" /\ http' = "handle" /\ Respond(slots[call].kind)
        /\ UNCHANGED <<request, slots>>
    BY <1>5 DEF Answered, Leave, SlotOf
  <2>. QED  BY <2>2, <2>3, RespondKeeps DEF Responded
<1>6. CASE TimedOut
  <2>1. /\ http = "wait" /\ http' = "handle" /\ Respond("late")
        /\ UNCHANGED <<request, slots>>
    BY <1>6 DEF TimedOut, Leave
  <2>. QED  BY <2>1, RespondKeeps DEF Responded
<1>7. CASE HandleHere
  <2>1. /\ http = "handle" /\ http' = "handle" /\ Respond("own")
        /\ current <= Len(request) /\ UNCHANGED <<request, slots>>
    BY <1>7 DEF HandleHere, rpc
  <2>. QED  BY <2>1, RespondKeeps DEF Responded
<1>8. CASE ReadRequest
  <2>. PICK n \in 1..MaxBatch : \E r \in [1..n -> Messages] :
         /\ request' = r /\ current' = 1 /\ replies' = <<>> /\ http' = "handle"
         /\ slots' = slots
    BY <1>8 DEF ReadRequest, rpc
  <2>1. request' \in Seq(Messages) /\ Len(request') = n /\ n \in Nat /\ n <= MaxBatch
    BY Bounds
  <2>. QED  BY <2>1, Bounds DEF Responded
<1>9. CASE Send
  <2>1. request' = <<>> /\ current' = 0 /\ replies' = <<>> /\ http' = "poll"
        /\ slots' = slots
    BY <1>9 DEF Send, rpc
  <2>. QED  BY <2>1, Bounds DEF Responded
<1>. QED
  BY <1>1, <1>2, <1>3, <1>4, <1>5, <1>6, <1>7, <1>8, <1>9 DEF Next, Frame, Transport

THEOREM Responses == Spec => []Responded
<1>1. Init => Responded
  BY Bounds DEF Init, Responded, Empty
<1>2. RpcInv /\ Responded /\ [Next]_vars => Responded'
  BY RespondedNext
<1>. QED  BY <1>1, <1>2, RpcInvariant, PTL DEF Spec

\* The answer to a request holds one response for each message with an id.
THEOREM OneResponseEach == Spec => []EachMessageAnsweredOnce
<1>1. Responded => EachMessageAnsweredOnce
  <2>. SUFFICES ASSUME Responded, http = "handle", current > Len(request)
                PROVE  /\ {replies[i].to : i \in DOMAIN replies}
                            = {m \in DOMAIN request : request[m].id}
                       /\ \A i, j \in DOMAIN replies : i < j => replies[i].to < replies[j].to
    BY DEF EachMessageAnsweredOnce
  <2>1. Len(request) \in Nat /\ DOMAIN request = 1..Len(request)
        /\ current = Len(request) + 1
    BY DEF Responded
  <2>2. \A i \in DOMAIN replies : replies[i].to \in DOMAIN request /\ request[replies[i].to].id
    <3>1. \A i \in DOMAIN replies : replies[i].to \in 1..MaxBatch
      BY RepliesTyped
    <3>. QED  BY <2>1, <3>1, Bounds DEF Responded
  <2>3. \A m \in DOMAIN request : request[m].id =>
          \E i \in DOMAIN replies : replies[i].to = m
    BY <2>1 DEF Responded
  <2>. QED  BY <2>2, <2>3 DEF Responded
<1>. QED  BY <1>1, Responses, PTL

-----------------------------------------------------------------------------
(* The counts the module reports.                                          *)

Counted ==
  /\ budget \in 0..kTasksPerFrame
  /\ dropped \in Nat /\ dropped = Cardinality(lost)
  /\ timedOut \in Nat /\ timedOut = Cardinality({p \in Posts : heard[p] = "late"})
  /\ inFlight = IF http = "wait" THEN 1 ELSE 0
  /\ Len(tasks) <= kMaxTasks
  /\ stopping \in BOOLEAN /\ hooked \in BOOLEAN
  /\ worker \in {"loop", "join", "done"}
  /\ ~hooked => worker = "done"
  /\ worker = "done" => http = "gone"
  /\ http = "gone" => stopping

LEMMA PostCounts ==
  ASSUME Types, Placed, Counted, posted < MaxPosts, PostToGameThread(posted + 1)
  PROVE  dropped' \in Nat /\ dropped' = Cardinality(lost') /\ Len(tasks') <= kMaxTasks
<1>1. kMaxTasks \in Nat
  BY RpcAssumption DEF RpcAssumption
<1>2. CASE Full
  <2>1. posted + 1 \notin lost
    BY Numbers DEF Placed
  <2>2. IsFiniteSet(Posts)
    BY Bounds, FS_Interval DEF Posts
  <2>3. IsFiniteSet(lost)
    BY <2>2, FS_Subset DEF Types
  <2>4. Cardinality(lost \cup {posted + 1}) = Cardinality(lost) + 1
    BY <2>1, <2>3, FS_AddElement
  <2>5. dropped' = dropped + 1 /\ lost' = lost \cup {posted + 1} /\ tasks' = tasks
    BY <1>2 DEF PostToGameThread
  <2>6. dropped \in Nat /\ dropped = Cardinality(lost) /\ Len(tasks) <= kMaxTasks
    BY DEF Counted
  <2>. QED  BY <2>4, <2>5, <2>6
<1>3. CASE ~Full
  <2>1. tasks' = Append(tasks, posted + 1) /\ UNCHANGED <<dropped, lost>>
    BY <1>3 DEF PostToGameThread
  <2>2. Len(tasks') = Len(tasks) + 1 /\ Len(tasks) \in Nat
    BY <2>1, Numbers DEF Types
  <2>3. Len(tasks) < kMaxTasks
    BY <1>1, <1>3, <2>2 DEF Full
  <2>. QED  BY <1>1, <2>1, <2>2, <2>3 DEF Counted
<1>. QED  BY <1>2, <1>3

LEMMA LateIsFinite ==
  ASSUME NEW f PROVE IsFiniteSet({p \in Posts : f[p] = "late"})
<1>1. IsFiniteSet(Posts)
  BY Bounds, FS_Interval DEF Posts
<1>. QED  BY <1>1, FS_Subset

LEMMA CountedNext ==
  ASSUME RpcInv, Counted, [Next]_vars
  PROVE  Counted'
<1>0. Types /\ Placed /\ Slotted
  BY DEF RpcInv
<1>1. CASE PostAside
  <2>1. dropped' \in Nat /\ dropped' = Cardinality(lost') /\ Len(tasks') <= kMaxTasks
    BY <1>0, <1>1, PostCounts DEF PostAside
  <2>. QED  BY <1>1, <2>1 DEF PostAside, Counted, rpc, transport, game, way
<1>2. CASE FrameBegin
  BY <1>2, Bounds DEF FrameBegin, Counted, bridge, rpc, transport, way
<1>3. CASE RunPending
  <2>1. budget' \in 0..kTasksPerFrame
    BY <1>3, Bounds DEF RunPending, Counted
  <2>2. Len(tasks') <= kMaxTasks
    <3>1. CASE tasks = <<>>
      BY <1>3, <3>1 DEF RunPending, Counted
    <3>2. CASE tasks # <<>>
      <4>1. Len(tasks') = Len(tasks) - 1 /\ Len(tasks) \in Nat
        BY <1>0, <1>3, <3>2 DEF RunPending, Take, Types
      <4>. QED  BY <4>1, RpcAssumption DEF RpcAssumption, Counted
    <3>. QED  BY <3>1, <3>2
  <2>. QED  BY <1>3, <2>1, <2>2 DEF RunPending, Counted, rpc, transport, way
<1>4. CASE Finish
  BY <1>4 DEF Finish, Counted, bridge, transport, way
<1>5. CASE RunOnGameThread
  <2>1. dropped' \in Nat /\ dropped' = Cardinality(lost') /\ Len(tasks') <= kMaxTasks
    BY <1>0, <1>5, PostCounts DEF RunOnGameThread
  <2>2. /\ inFlight' = 1 /\ http' = "wait" /\ http = "handle"
        /\ UNCHANGED <<timedOut, heard, budget, way>>
    BY <1>5 DEF RunOnGameThread, Entered, Counted
  <2>. QED  BY <2>1, <2>2 DEF Counted, way
<1>6. CASE Answered
  <2>0. /\ http = "wait" /\ call \in Posts /\ heard[call] = "nothing"
        /\ slots[call].by = call
    BY <1>0, <1>6 DEF Answered, SlotOf, Slotted, Types
  <2>1. /\ http = "wait" /\ http' = "handle" /\ inFlight' = 0 /\ timedOut' = timedOut
        /\ UNCHANGED <<bridge, game, way>>
        /\ heard' = [heard EXCEPT ![call] = "own"]
    BY <1>6, <2>0 DEF Answered, Leave, SlotOf, Counted
  <2>2. {p \in Posts : heard'[p] = "late"} = {p \in Posts : heard[p] = "late"}
    BY <1>0, <2>0, <2>1 DEF Types
  <2>. QED  BY <2>1, <2>2 DEF Counted, bridge, game, way
<1>7. CASE TimedOut
  <2>1. /\ http = "wait" /\ http' = "handle" /\ inFlight' = 0
        /\ timedOut' = timedOut + 1
        /\ UNCHANGED <<bridge, game, way>>
        /\ heard' = [heard EXCEPT ![call] = "late"] /\ heard[call] = "nothing"
        /\ call \in Posts
    BY <1>0, <1>7 DEF TimedOut, Leave, Slotted, Types, Counted
  <2>2. {p \in Posts : heard'[p] = "late"} = {p \in Posts : heard[p] = "late"} \cup {call}
    BY <1>0, <2>1 DEF Types
  <2>3. Cardinality({p \in Posts : heard'[p] = "late"}) = timedOut + 1
    <3>. DEFINE L == {p \in Posts : heard[p] = "late"}
    <3>1. IsFiniteSet(L) /\ call \notin L
      BY <2>1, LateIsFinite
    <3>2. Cardinality(L \cup {call}) = Cardinality(L) + 1
      BY <3>1, FS_AddElement
    <3>. QED  BY <2>2, <3>2 DEF Counted
  <2>. QED  BY <2>1, <2>3 DEF Counted, bridge, game, way
<1>8. CASE Accept \/ ReadNothing \/ HandleHere \/ Send \/ ReadRequest
  <2>1. /\ UNCHANGED <<bridge, rpc, game, way>>
        /\ http # "wait" /\ http' # "wait" /\ http' # "gone" /\ http # "gone"
    BY <1>8 DEF Accept, ReadNothing, HandleHere, Send, ReadRequest
  <2>. QED  BY <2>1 DEF Counted, bridge, rpc, game, way
<1>9. CASE Leaves
  BY <1>9 DEF Leaves, Counted, bridge, rpc, game, way
<1>10. CASE StopTransport
  BY <1>10 DEF StopTransport, Counted, bridge, rpc, transport, game
<1>11. CASE Unhook
  BY <1>11 DEF Unhook, Counted, bridge, rpc, transport, game
<1>12. CASE UNCHANGED vars
  BY <1>12 DEF vars, Counted, bridge, rpc, transport, game, way
<1>. QED
  BY <1>1, <1>2, <1>3, <1>4, <1>5, <1>6, <1>7, <1>8, <1>9, <1>10, <1>11, <1>12
  DEF Next, Frame, Transport

THEOREM Counts == Spec => []Counted
<1>1. Init => Counted
  <2>. SUFFICES ASSUME Init PROVE Counted
    OBVIOUS
  <2>1. {p \in Posts : heard[p] = "late"} = {}
    BY DEF Init
  <2>2. Len(tasks) = 0 /\ kMaxTasks \in Nat
    BY RpcAssumption DEF Init, RpcAssumption
  <2>3. Cardinality({}) = 0
    BY FS_EmptySet
  <2>4. dropped = Cardinality(lost) /\ timedOut = Cardinality({p \in Posts : heard[p] = "late"})
    BY <2>1, <2>3 DEF Init
  <2>5. Len(tasks) <= kMaxTasks /\ budget \in 0..kTasksPerFrame
    BY <2>2, Bounds DEF Init
  <2>6. /\ dropped = 0 /\ timedOut = 0 /\ inFlight = 0 /\ http = "poll"
        /\ stopping = FALSE /\ hooked = TRUE /\ worker = "loop"
    BY DEF Init
  <2>7. /\ stopping \in BOOLEAN /\ hooked \in BOOLEAN
        /\ ~hooked => worker = "done"
    BY <2>6
  <2>8. /\ dropped \in Nat /\ timedOut \in Nat
        /\ inFlight = IF http = "wait" THEN 1 ELSE 0
        /\ worker \in {"loop", "join", "done"}
        /\ worker = "done" => http = "gone"
        /\ http = "gone" => stopping
    BY <2>6
  <2>. QED  BY <2>4, <2>5, <2>7, <2>8 DEF Counted
<1>2. RpcInv /\ Counted /\ [Next]_vars => Counted'
  BY CountedNext
<1>. QED  BY <1>1, <1>2, RpcInvariant, PTL DEF Spec

\* Every variable keeps its type.
THEOREM RpcTypes == Spec => []TypeOK
<1>1. RpcInv /\ Responded /\ Counted => TypeOK
  <2>. SUFFICES ASSUME RpcInv, Responded, Counted PROVE TypeOK
    OBVIOUS
  <2>1. Cardinality(running) <= 1
    <3>1. CASE running = {}
      BY <3>1, FS_EmptySet
    <3>2. CASE running # {}
      <4>. PICK p \in running : TRUE
        BY <3>2
      <4>1. running = {p}
        BY DEF RpcInv, Placed
      <4>. QED  BY <4>1, FS_Singleton
    <3>. QED  BY <3>1, <3>2
  <2>2. inFlight \in Nat
    BY DEF Counted
  <2>. QED  BY <2>1, <2>2 DEF TypeOK, RpcInv, Types, Responded, Counted
<1>. QED  BY <1>1, RpcInvariant, Responses, Counts, PTL

\* No post is run twice, none is lost without being counted, and the counters
\* tell the truth.
THEOREM Accounted == Spec => []EveryPostAccountedFor
<1>1. RpcInv /\ Counted => EveryPostAccountedFor
  <2>. SUFFICES ASSUME RpcInv, Counted PROVE EveryPostAccountedFor
    OBVIOUS
  <2>1. Types /\ Sorted /\ Placed
    BY DEF RpcInv
  <2>2. Cardinality(InQueue) = Len(tasks)
    BY <2>1, QueueIsASet
  <2>3. InQueue \subseteq Nat /\ running \subseteq Nat /\ ran \subseteq Nat
    BY <2>1, Numbers DEF Types
  <2>4. /\ InQueue \cap (running \cup ran \cup lost) = {}
        /\ running \cap (ran \cup lost) = {} /\ ran \cap lost = {}
    BY <2>1, <2>3 DEF Placed
  <2>. QED  BY <2>1, <2>2, <2>4 DEF EveryPostAccountedFor, Placed, Counted
<1>. QED  BY <1>1, RpcInvariant, Counts, PTL

\* The frame hook is taken away only when the transport's thread is gone.
THEOREM HookGoesLast == Spec => []NobodyWaitsForDeadFrames
<1>1. Counted => NobodyWaitsForDeadFrames
  BY DEF Counted, NobodyWaitsForDeadFrames
<1>. QED  BY <1>1, Counts, PTL

-----------------------------------------------------------------------------
\* The road implements what it promises: each step of it is a step of Errand
\* or leaves what Errand sees alone.
THEOREM PromiseKept == Spec => KeepsThePromise
<1>1. Init => Promise!Init
  BY DEF Init, Promise!Init, Posts
<1>2. RpcInv /\ [Next]_vars => [Promise!Next]_Promise!vars
  <2>. SUFFICES ASSUME RpcInv, [Next]_vars
                PROVE  Promise!Next \/ UNCHANGED <<posted, ran, heard>>
    BY DEF Promise!vars
  <2>0. Types /\ Placed /\ Slotted
    BY DEF RpcInv
  <2>1. CASE PostAside
    BY <2>1 DEF PostAside, PostToGameThread, Promise!Next, Promise!HandOver, rpc, game
  <2>2. CASE RunOnGameThread
    BY <2>2 DEF RunOnGameThread, PostToGameThread, Promise!Next, Promise!HandOver
  <2>3. CASE Finish
    <3>. PICK p \in running : ran' = ran \cup {p} /\ UNCHANGED <<posted, heard>>
      BY <2>3 DEF Finish, bridge
    <3>1. p \in 1..posted /\ \A d \in ran : d < p
      BY <2>0 DEF Placed
    <3>. QED  BY <3>1 DEF Promise!Next, Promise!Run
  <2>4. CASE Answered
    <3>1. /\ call \in 1..posted /\ heard[call] = "nothing" /\ call \in ran
          /\ heard' = [heard EXCEPT ![call] = "own"]
          /\ UNCHANGED <<posted, ran>>
      BY <2>0, <2>4 DEF Answered, Leave, SlotOf, Slotted, bridge, game
    <3>. QED  BY <3>1 DEF Promise!Next, Promise!Answer, Promise!Hear
  <2>5. CASE TimedOut
    <3>1. /\ call \in 1..posted /\ heard[call] = "nothing" /\ call \notin ran
          /\ heard' = [heard EXCEPT ![call] = "late"]
          /\ UNCHANGED <<posted, ran>>
      BY <2>0, <2>5 DEF TimedOut, WaitFor, Leave, SlotOf, Slotted, bridge, game
    <3>. QED  BY <3>1 DEF Promise!Next, Promise!Answer, Promise!HearLate
  <2>6. CASE \/ FrameBegin \/ RunPending \/ Accept \/ ReadRequest \/ ReadNothing
             \/ HandleHere \/ Send \/ Leaves \/ StopTransport \/ Unhook \/ UNCHANGED vars
    BY <2>6 DEF FrameBegin, RunPending, Accept, ReadRequest, ReadNothing, HandleHere,
                Send, Leaves, StopTransport, Unhook, vars, bridge, rpc, game
  <2>. QED
    BY <2>1, <2>2, <2>3, <2>4, <2>5, <2>6 DEF Next, Frame, Transport
<1>. QED  BY <1>1, <1>2, RpcInvariant, PTL DEF Spec, KeepsThePromise, Promise!Spec

-----------------------------------------------------------------------------
(* The panel and the device it draws on.                                   *)

PanelTypes ==
  /\ {initialised, disabled, live, made, full, front, another, told} \subseteq BOOLEAN
  /\ {freed, fresh, raced, disarming} \subseteq BOOLEAN
  /\ device \in {"ok", "lost"} /\ believed \in {"unasked", "fullscreen", "windowed"}
  /\ switching \in {"none", "take", "give"}

PanelInv == PanelTypes /\ P!NothingHeldAtReset /\ P!PointerChangesHands

\* A step that leaves the device alone, or that after which no hook has looked.
LEMMA DeviceKeeps ==
  ASSUME PanelInv, UNCHANGED <<device, full, another, front, believed, initialised, live, made>>,
         UNCHANGED told \/ told' = FALSE
  PROVE  P!NothingHeldAtReset'
BY DEF PanelInv, P!NothingHeldAtReset

\* A step that leaves the mouse and the mode alone.
LEMMA PointerKeeps ==
  ASSUME PanelInv, UNCHANGED <<mode, switching, disarming, raced>>,
         \/ UNCHANGED <<freed, fresh>> \/ freed' = FALSE \/ (UNCHANGED freed /\ (freed => fresh'))
  PROVE  P!PointerChangesHands'
BY DEF PanelInv, P!PointerChangesHands

\* A look at the device: what is held is let go of when it is lost, or when it is a
\* fullscreen one behind another window.
LEMMA LookLetsGo ==
  ASSUME PanelInv, P!LetGoIf(P!ReleaseIfUnfocused \/ (device = "lost" /\ P!OnLostDevice)),
         made'
  PROVE  /\ made /\ initialised /\ live' /\ device # "lost"
         /\ front \/ ~full \/ believed' = "windowed"
<1>1. ~P!ReleaseIfUnfocused /\ ~(device = "lost" /\ P!OnLostDevice) /\ made /\ live' = live
  BY DEF P!LetGoIf
<1>2. initialised /\ live
  BY <1>1 DEF PanelInv, P!NothingHeldAtReset
<1>3. device # "lost"
  BY <1>1, <1>2 DEF P!OnLostDevice
<1>4. ASSUME ~front, full
      PROVE  believed' = "windowed"
  <2>1. P!Asks /\ believed' = P!DeviceIsWindowed /\ P!DeviceIsWindowed # "fullscreen"
    BY <1>1, <1>2, <1>4 DEF P!Asks, P!ReleaseIfUnfocused, P!LetGoIf
  <2> QED  BY <1>4, <2>1 DEF P!DeviceIsWindowed, PanelInv, PanelTypes
<1> QED  BY <1>1, <1>2, <1>3, <1>4

LEMMA PanelNext ==
  ASSUME PanelInv, P!Next
  PROVE  PanelInv'
<1> USE DEF PanelInv, PanelTypes
<1>1. CASE P!HookedPresent
  <2>1. P!PointerChangesHands'
    BY <1>1, PointerKeeps DEF P!HookedPresent, P!threads, P!pointer
  <2>2. P!NothingHeldAtReset'
    BY <1>1, LookLetsGo DEF P!HookedPresent, P!game, P!panel, P!NothingHeldAtReset
  <2>3. PanelTypes'
    BY <1>1 DEF P!HookedPresent, P!game, P!panel, P!LetGoIf, P!Asks, P!DeviceIsWindowed,
                P!threads, P!pointer
  <2> QED  BY <2>1, <2>2, <2>3
<1>2. CASE P!HookedEndScene
  <2>1. CASE P!RenderDisabled
    <3>1. UNCHANGED <<device, full, another, front, hooks, believed, live, made, initialised, told,
                      freed, fresh, disarming, raced>>
      BY <1>2, <2>1 DEF P!HookedEndScene, P!RenderDisabled, P!game, P!setup, P!held, P!pointer
    <3>2. /\ disabled' \in BOOLEAN /\ switching' \in {"none", "take", "give"}
          /\ \/ UNCHANGED <<mode, switching>> \/ (switching = "none" /\ switching' = "give")
      BY <1>2, <2>1 DEF P!HookedEndScene, P!GameThread, P!RenderDisabled, P!SetMode
    <3> QED  BY <3>1, <3>2 DEF P!NothingHeldAtReset, P!PointerChangesHands
  <2>2. CASE P!RenderNothing
    <3>1. P!PointerChangesHands'
      BY <2>2, PointerKeeps DEF P!RenderNothing, P!threads, P!pointer
    <3>2. P!NothingHeldAtReset'
      BY <2>2, LookLetsGo DEF P!RenderNothing, P!game, P!panel, P!NothingHeldAtReset
    <3>3. PanelTypes'
      BY <1>2, <2>2 DEF P!HookedEndScene, P!RenderNothing, P!game, P!panel, P!LetGoIf, P!Asks,
         P!DeviceIsWindowed, P!threads, P!pointer
    <3> QED  BY <3>1, <3>2, <3>3
  <2>3. CASE P!Render
    <3>1. P!PointerChangesHands'
      BY <1>2, <2>3 DEF P!HookedEndScene, P!GameThread, P!Render, P!SetMode, P!DisableAfterFault,
         P!PointerChangesHands
    <3>2. P!NothingHeldAtReset'
      BY <1>2, <2>3 DEF P!HookedEndScene, P!Render, P!setup, P!NothingHeldAtReset
    <3>3. PanelTypes'
      BY <1>2, <2>3 DEF P!HookedEndScene, P!Render, P!SetMode, P!DisableAfterFault
    <3> QED  BY <3>1, <3>2, <3>3
  <2> QED  BY <1>2, <2>1, <2>2, <2>3 DEF P!HookedEndScene
<1>3. CASE P!HookedReset \/ P!ResetElsewhere
  <2>1. P!PointerChangesHands'
    BY <1>3, PointerKeeps DEF P!HookedReset, P!ResetElsewhere, P!threads, P!pointer
  <2>2. PanelTypes' /\ told' = FALSE /\ (made' => initialised' /\ live')
    <3>1. PanelTypes' /\ told' = FALSE
      BY <1>3 DEF P!HookedReset, P!ResetElsewhere, P!Reset, P!threads, P!pointer, P!panel
    <3>2. CASE P!HookedReset
      <4> SUFFICES ASSUME made' PROVE FALSE
        BY <3>1, Zenon
      <4>1. made /\ ~P!OnLostDevice
        BY <3>2, Zenon DEF P!HookedReset
      <4> QED  BY <4>1 DEF P!OnLostDevice, P!NothingHeldAtReset
    <3>3. CASE P!ResetElsewhere
      <4>1. UNCHANGED <<made, live, initialised>>
        BY <3>3 DEF P!ResetElsewhere, P!panel
      <4> QED  BY <3>1, <4>1, Zenon DEF P!NothingHeldAtReset
    <3> QED  BY <1>3, <3>1, <3>2, <3>3
  <2> QED  BY <2>1, <2>2 DEF P!NothingHeldAtReset
<1>4. CASE P!SwitchEnds
  <2>1. P!NothingHeldAtReset'
    BY <1>4, DeviceKeeps DEF P!SwitchEnds, P!game, P!setup, P!held, P!panel
  <2> QED  BY <1>4, <2>1 DEF P!SwitchEnds, P!SetFreed, P!game, P!setup, P!held, P!panel,
              P!PointerChangesHands
<1>5. CASE P!HookedSetCursorPos \/ P!Hand
  <2>1. P!NothingHeldAtReset'
    BY <1>5, DeviceKeeps DEF P!HookedSetCursorPos, P!Hand, P!game, P!setup, P!held, P!panel
  <2>2. /\ UNCHANGED <<freed, mode, switching, disarming, raced>> /\ fresh' \in BOOLEAN
        /\ freed => fresh'
    BY <1>5 DEF P!HookedSetCursorPos, P!Hand, P!AnswerInstead, P!threads
  <2> QED  BY <1>5, <2>1, <2>2 DEF P!HookedSetCursorPos, P!Hand, P!game, P!setup, P!held, P!panel,
              P!PointerChangesHands
<1>6. CASE P!AdoptGameDevice
  BY <1>6, DeviceKeeps, PointerKeeps
     DEF P!AdoptGameDevice, P!game, P!held, P!panel, P!pointer, P!threads
<1>7. CASE P!Disarm \/ P!DisarmEnds
  <2>1. P!NothingHeldAtReset'
    BY <1>7, DeviceKeeps DEF P!Disarm, P!DisarmEnds, P!game, P!setup, P!held, P!panel
  <2>2. P!PointerChangesHands'
    BY <1>7 DEF P!Disarm, P!DisarmEnds, P!SetFreed, P!pointer, P!PointerChangesHands
  <2>3. PanelTypes'
    BY <1>7 DEF P!Disarm, P!DisarmEnds, P!SetFreed, P!game, P!held, P!panel, P!pointer
  <2> QED  BY <2>1, <2>2, <2>3
<1>8. CASE P!Uninstall
  <2>1. P!PointerChangesHands'
    BY <1>8, PointerKeeps DEF P!Uninstall, P!SetFreed, P!threads
  <2> QED  BY <1>8, <2>1 DEF P!Uninstall, P!SetFreed, P!game, P!threads, P!NothingHeldAtReset
<1>9. CASE P!Lose \/ P!Recreate \/ P!Look
  <2>1. P!PointerChangesHands'
    BY <1>9, PointerKeeps DEF P!Lose, P!Recreate, P!Look, P!threads, P!pointer
  <2>2. P!NothingHeldAtReset'
    BY <1>9 DEF P!Lose, P!Recreate, P!Look, P!held, P!panel, P!NothingHeldAtReset
  <2>3. PanelTypes'
    BY <1>9 DEF P!Lose, P!Recreate, P!Look, P!threads, P!pointer, P!held, P!panel
  <2> QED  BY <2>1, <2>2, <2>3
<1> QED  BY <1>1, <1>2, <1>3, <1>4, <1>5, <1>6, <1>7, <1>8, <1>9 DEF P!Next

everything == <<what, vars, panelvars, procvars, devicevars, worldvars>>

\* The panel's steps are its own: while anything else is looked at, it stands still.
LEMMA PanelInvariant == FrameSpec => [](what = "device" => PanelInv)
<1>1. FrameInit => (what = "device" => PanelInv)
  BY DEF FrameInit, P!Init, PanelInv, PanelTypes, P!NothingHeldAtReset, P!PointerChangesHands
<1>2. (what = "device" => PanelInv) /\ [FrameNext]_everything => (what = "device" => PanelInv)'
  <2> SUFFICES ASSUME what = "device" => PanelInv, [FrameNext]_everything, what' = "device"
               PROVE  PanelInv'
    OBVIOUS
  <2>1. PanelInv /\ (P!Next \/ UNCHANGED <<panelvars, devicevars>>)
    BY DEF FrameNext, everything
  <2>2. CASE UNCHANGED <<panelvars, devicevars>>
    BY <2>1, <2>2 DEF panelvars, devicevars, PanelInv, PanelTypes, P!NothingHeldAtReset,
       P!PointerChangesHands
  <2> QED  BY <2>1, <2>2, PanelNext
<1> QED  BY <1>1, <1>2, PTL DEF FrameSpec, everything

\* Nothing of the panel's is on a device that is to be reset, once a hook has had
\* a look at it (overlay.cpp:2147-2160), for every bot.cfg.
THEOREM DeviceIsLetGo == FrameSpec => []NothingHeldAtReset
<1>1. (what = "device" => PanelInv) => NothingHeldAtReset
  BY DEF PanelInv, NothingHeldAtReset
<1> QED  BY <1>1, PanelInvariant, PTL

\* The mouse is the panel's only while it is interactive, and the game is told of a
\* pointer no older than the taking (cursor.cpp:151-163), for every bot.cfg.
THEOREM PointerIsGivenBack == FrameSpec => []PointerChangesHands
<1>1. (what = "device" => PanelInv) => PointerChangesHands
  BY DEF PanelInv, PointerChangesHands
<1> QED  BY <1>1, PanelInvariant, PTL
-----------------------------------------------------------------------------
(* The solid world.                                                        *)

Things == Standings \cup {S!Nothing}

WorldInv ==
  /\ pool \in [Slots -> [in : BOOLEAN, bytes : Things]]
  /\ \A s \in Slots : pool[s].in => pool[s].bytes \in Standings
  /\ mover \in Movers \cup {S!Nobody}
  /\ {"built", "x0", "age", "at"} \subseteq DOMAIN index
  /\ index.x0 \in Int /\ index.age \in Int /\ index.at \in [Slots -> Things]

LEMMA DivUp ==
  ASSUME NEW c \in Nat \ {0}, NEW a \in Int, NEW b \in Int, a <= b
  PROVE  a \div c \in Int /\ b \div c \in Int /\ a \div c <= b \div c
BY SMT

LEMMA SectorsInOrder ==
  ASSUME NEW a \in Int, NEW b \in Int, a <= b
  PROVE  S!SectorX(a) \in Int /\ S!SectorX(b) \in Int /\ S!SectorX(a) <= S!SectorX(b)
BY DivUp, WorldAssumption DEF WorldAssumption, S!SectorX

LEMMA ThingsAreSomewhere ==
  ASSUME NEW t \in Things
  PROVE  {t.at, t.z0, t.z1, t.reach} \subseteq Int
BY WorldAssumption DEF WorldAssumption, Somewhere, Things, S!Nothing

LEMMA Half ==
  ASSUME NEW w \in Nat, NEW m \in Nat, 2 * m < w
  PROVE  w \div 2 \in Int /\ w \div 2 >= m /\ w \div 2 + m <= w - 1
BY SMT

\* The index that is asked is fresh enough, and whoever asks is well within its
\* window.
LEMMA WindowIsAbout ==
  ASSUME WorldInv, NEW x \in Int, NEW i, i = S!EnsureWindow(x)
  PROVE  /\ i.x0 \in Int /\ i.at \in [Slots -> Things] /\ i.age < kRebuildEvery
         /\ S!SectorX(x) - i.x0 \in kWindowMargin..(kWindow - kWindowMargin - 1)
<1>1. S!SectorX(x) \in Int
  BY SectorsInOrder
<1>2. CASE S!Stands(x)
  <2>1. i = index
    BY <1>2 DEF S!EnsureWindow
  <2> QED  BY <1>2, <2>1 DEF WorldInv, S!Stands
<1>3. CASE ~S!Stands(x)
  <2>1. PICK n \in Int : n = S!SectorX(x)
    BY <1>1
  <2>2. /\ i.x0 = n - kWindow \div 2 /\ i.age = 0
        /\ i.at = [s \in Slots |-> IF pool[s].in THEN pool[s].bytes ELSE S!Nothing]
    BY <1>3, <2>1 DEF S!EnsureWindow, S!Rebuild
  <2>3. i.at \in [Slots -> Things]
    BY <2>2 DEF WorldInv, Things
  <2>4. PICK h \in Int : h = kWindow \div 2 /\ h >= kWindowMargin /\ h + kWindowMargin <= kWindow - 1
    BY Half, WorldAssumption DEF WorldAssumption
  <2>5. i.x0 \in Int /\ n - i.x0 = h
    BY <2>2, <2>4
  <2>6. n - i.x0 \in kWindowMargin..(kWindow - kWindowMargin - 1)
    BY <2>4, <2>5, WorldAssumption DEF WorldAssumption
  <2> QED  BY <2>1, <2>2, <2>3, <2>5, <2>6, WorldAssumption DEF WorldAssumption
<1> QED  BY <1>2, <1>3

\* What is looked at in a sector stands in the world, or did when the index was
\* made.
LEMMA LookedAtIsThere ==
  ASSUME WorldInv, NEW x \in Int, NEW i, i = S!EnsureWindow(x), NEW sector, NEW fault, NEW kinds,
         NEW t \in S!StaticIn(i, sector, fault) \cup S!MovingIn(sector, kinds, fault)
  PROVE  t \in S!There(kinds) \cup S!Ghosts(i) /\ {t.at, t.z0, t.z1, t.reach} \subseteq Int
<1>1. CASE t \in S!StaticIn(i, sector, fault)
  <2>1. PICK s \in Slots : t = pool[s].bytes /\ S!Reaches(i.at[s], sector)
    BY <1>1 DEF S!StaticIn, S!Bucket
  <2>2. i.at[s] # S!Nothing
    BY <2>1 DEF S!Reaches, S!Nothing
  <2>3. i.age < kRebuildEvery
    BY WindowIsAbout
  <2>4. t \in S!There(kinds) \cup S!Ghosts(i)
    BY <2>1, <2>2, <2>3 DEF S!There, S!Ghosts
  <2> QED  BY <2>1, <2>4, ThingsAreSomewhere DEF WorldInv
<1>2. CASE t \in S!MovingIn(sector, kinds, fault)
  <2>1. mover.kind \in kinds /\ t = mover.thing
    BY <1>2 DEF S!MovingIn
  <2>2. {t.at, t.z0, t.z1, t.reach} \subseteq Int
    BY <2>1, WorldAssumption DEF WorldInv, WorldAssumption, Somewhere, S!Nobody, S!Nothing
  <2> QED  BY <2>1, <2>2 DEF S!There
<1> QED  BY <1>1, <1>2

LEMMA SweptIsThere ==
  ASSUME WorldInv, NEW x \in Int, NEW i, i = S!EnsureWindow(x), NEW fault, NEW kinds, NEW q,
         NEW t \in S!Sweep(i, q, kinds, fault)
  PROVE  /\ t \in S!There(kinds) \cup S!Ghosts(i) /\ {t.at, t.z0, t.z1, t.reach} \subseteq Int
         /\ S!TestEntity(t, q)
<1>1. PICK sector : t \in S!StaticIn(i, sector, fault) \cup S!MovingIn(sector, kinds, fault)
  BY DEF S!Sweep
<1> QED  BY <1>1, LookedAtIsThere DEF S!Sweep

\* A thing that lies across a line has a sector with it in common.
LEMMA SectorInCommon ==
  ASSUME NEW t, {t.at, t.reach} \subseteq Int, t.reach >= 0, NEW q, {q.a, q.b} \subseteq Int,
         S!TestEntity(t, q)
  PROVE  \E sector \in S!Across(q) :
           sector \in S!SectorX(t.at - t.reach)..S!SectorX(t.at + t.reach)
<1>1. PICK from \in Int, to \in Int : /\ from = S!Lesser(q.a, q.b) /\ to = S!Greater(q.a, q.b)
                                      /\ from <= to
  BY DEF S!Lesser, S!Greater
<1>2. PICK first \in Int, last \in Int : /\ first = t.at - t.reach /\ last = t.at + t.reach
                                         /\ first <= last
  OBVIOUS
<1>3. first <= to /\ from <= last
  BY <1>1, <1>2 DEF S!TestEntity
<1>4. PICK c \in Int : from <= c /\ c <= to /\ first <= c /\ c <= last
  <2>1. CASE from <= first
    BY <1>2, <1>3, <2>1
  <2>2. CASE first <= from
    BY <1>1, <1>3, <2>2
  <2> QED  BY <2>1, <2>2
<1>5. /\ S!SectorX(c) \in S!SectorX(from)..S!SectorX(to)
      /\ S!SectorX(c) \in S!SectorX(first)..S!SectorX(last)
  BY <1>4, SectorsInOrder
<1> QED  BY <1>1, <1>2, <1>5 DEF S!Across

\* What stands or moves near whoever asks is looked at.
LEMMA SettledIsSwept ==
  ASSUME WorldInv, NEW x \in Int, NEW i, i = S!EnsureWindow(x), NEW fault, NEW kinds, NEW q,
         {q.a, q.b} \subseteq Int, fault.at \notin S!Across(q), S!Nobody.kind \notin kinds,
         \A sector \in S!Across(q) : sector - S!SectorX(x) \in -kWindowMargin..kWindowMargin,
         NEW t \in S!Settled(i, kinds), S!TestEntity(t, q)
  PROVE  t \in S!Sweep(i, q, kinds, fault)
<1>1. t \in S!There(kinds) /\ t.reach <= kMaxSpread
  BY DEF S!Settled
<1>2. t # S!Nothing /\ {t.at, t.reach} \subseteq Int /\ t.reach >= 0
  BY <1>1, WorldAssumption
     DEF S!There, WorldInv, WorldAssumption, Somewhere, S!Nobody, S!Nothing
<1>3. PICK sector \in S!Across(q) : sector \in S!SectorX(t.at - t.reach)..S!SectorX(t.at + t.reach)
  BY <1>2, SectorInCommon
<1>4. fault.at # sector
  BY <1>3
<1>5. CASE mover.kind \in kinds /\ t = mover.thing
  <2>1. S!Listed(mover.thing, sector)
    BY <1>3, <1>5 DEF S!Listed
  <2>2. t \in S!MovingIn(sector, kinds, fault)
    BY <1>4, <1>5, <2>1 DEF S!MovingIn
  <2> QED  BY <1>3, <2>2 DEF S!Sweep
<1>6. ASSUME NEW s \in Slots, pool[s].in, t = pool[s].bytes
      PROVE  t \in S!Sweep(i, q, kinds, fault)
  <2>1. i.at[s] = t
    BY <1>6, WindowIsAbout DEF S!Settled
  <2>2. S!Spread(t) = t.reach
    BY <1>1, <1>2, WorldAssumption DEF WorldAssumption, S!Spread, S!Lesser
  <2>3. S!Reaches(i.at[s], sector)
    BY <1>2, <1>3, <2>1, <2>2 DEF S!Reaches
  <2>4. S!InWindow(i, sector)
    <3>1. PICK n \in Int : n = S!SectorX(x)
      BY SectorsInOrder
    <3>2. PICK o \in Int : o = i.x0 /\ n - o \in kWindowMargin..(kWindow - kWindowMargin - 1)
      BY <3>1, WindowIsAbout
    <3>3. sector \in Int /\ sector - n \in -kWindowMargin..kWindowMargin
      <4>1. sector \in Int
        BY <1>3
      <4> QED  BY <1>3, <3>1, <4>1
    <3>4. sector - o \in 0..(kWindow - 1)
      BY <3>2, <3>3, WorldAssumption DEF WorldAssumption
    <3> QED  BY <3>2, <3>4 DEF S!InWindow
  <2>5. t \in S!StaticIn(i, sector, fault)
    BY <1>2, <1>4, <1>6, <2>3, <2>4 DEF S!StaticIn, S!Bucket
  <2> QED  BY <1>3, <2>5 DEF S!Sweep
<1> QED  BY <1>1, <1>5, <1>6 DEF S!There

\* Numbers that are bounded have a greatest.
LEMMA GreatestBelow ==
  ASSUME NEW T, T \subseteq Int, T # {}, NEW bound \in Int, \A n \in T : n <= bound
  PROVE  \E n \in T : \A m \in T : m <= n
<1>1. PICK R : R = OpToRel(<, Nat)
  OBVIOUS
<1>2. IsWellFoundedOn(R, Nat)
  BY <1>1, NatLessThanWellFounded
<1>3. PICK D : D = {bound - n : n \in T}
  OBVIOUS
<1>4. D \subseteq Nat /\ D # {}
  <2>1. ASSUME NEW n \in T
        PROVE  bound - n \in Nat
    BY n \in Int, n <= bound
  <2> QED  BY <1>3, <2>1
<1>5. PICK d \in D : \A e \in D : ~(<<e, d>> \in R)
  BY <1>2, <1>4, WFMin
<1>6. \A e \in D : ~(e < d)
  BY <1>1, <1>4, <1>5 DEF OpToRel
<1>7. PICK n \in T : d = bound - n
  BY <1>3, <1>5
<1>8. ASSUME NEW m \in T
      PROVE  m <= n
  <2>1. ~(bound - m < bound - n)
    BY <1>3, <1>6, <1>7
  <2> QED  BY <2>1
<1> QED  BY <1>7, <1>8

\* The ground is what is highest below, and there is some where anything is below.
LEMMA GroundIsTheHighest ==
  ASSUME WorldInv, NEW x \in Int, NEW i, i = S!EnsureWindow(x), NEW fault, NEW kinds,
         NEW z \in Int, NEW t \in S!Sweep(i, S!Below(x, z), kinds, fault)
  PROVE  \E top \in S!GroundBelow(i, x, z, kinds, fault) : top >= S!Top(t, z)
<1>1. PICK T : T = {S!Top(o, z) : o \in S!Sweep(i, S!Below(x, z), kinds, fault)}
  OBVIOUS
<1>2. \A o \in S!Sweep(i, S!Below(x, z), kinds, fault) : S!Top(o, z) \in Int /\ S!Top(o, z) <= z
  BY SweptIsThere DEF S!Top, S!Lesser
<1>3. T \subseteq Int /\ S!Top(t, z) \in T /\ \A n \in T : n <= z
  BY <1>1, <1>2
<1>4. PICK n \in T : \A m \in T : m <= n
  BY <1>3, GreatestBelow
<1>5. n \in S!GroundBelow(i, x, z, kinds, fault)
  BY <1>1, <1>4 DEF S!GroundBelow
<1>6. n >= S!Top(t, z)
  BY <1>3, <1>4
<1> QED  BY <1>5, <1>6

LEMMA LinesMatch ==
  ASSUME WorldInv
  PROVE  S!LinesMatchTheWorld
<1> SUFFICES ASSUME NEW q \in Questions, NEW fault \in S!LineFaults
             PROVE  LET i == S!EnsureWindow(q.a)
                        ground == S!GroundBelow(i, q.a, q.hi, S!Kinds(q), fault)
                        near == \A sector \in S!Across(q) :
                                  sector - S!SectorX(q.a) \in -kWindowMargin..kWindowMargin
                    IN  /\ S!LineClear(i, q, fault)
                             \/ \E t \in S!There(S!Kinds(q)) \cup S!Ghosts(i) : S!TestEntity(t, q)
                        /\ near /\ fault.at \notin S!Across(q) =>
                             /\ S!LineClear(i, q, fault) =>
                                  \A t \in S!Settled(i, S!Kinds(q)) : ~S!TestEntity(t, q)
                             /\ \A t \in S!Settled(i, S!Kinds(q)) :
                                  S!TestEntity(t, S!Below(q.a, q.hi)) =>
                                    \E z \in ground : z >= S!Top(t, q.hi)
                             /\ \A z \in ground :
                                  \E t \in S!There(S!Kinds(q)) \cup S!Ghosts(i) : z = S!Top(t, q.hi)
  BY DEF S!LinesMatchTheWorld
<1>1. PICK i, kinds : i = S!EnsureWindow(q.a) /\ kinds = S!Kinds(q)
  OBVIOUS
<1>2. PICK below : below = S!Below(q.a, q.hi)
  OBVIOUS
<1>3. PICK ground : ground = S!GroundBelow(i, q.a, q.hi, kinds, fault)
  OBVIOUS
<1>4. q.a \in Int /\ q.b \in Int /\ q.hi \in Int /\ S!Nobody.kind \notin kinds
  BY <1>1, WorldAssumption DEF WorldAssumption, S!Kinds, S!Nobody
<1>5. S!LineClear(i, q, fault) \/ \E t \in S!There(kinds) \cup S!Ghosts(i) : S!TestEntity(t, q)
  BY <1>1, <1>4, SweptIsThere DEF S!LineClear
<1>6. ASSUME \A sector \in S!Across(q) : sector - S!SectorX(q.a) \in -kWindowMargin..kWindowMargin,
             fault.at \notin S!Across(q)
      PROVE  /\ S!LineClear(i, q, fault) => \A t \in S!Settled(i, kinds) : ~S!TestEntity(t, q)
             /\ \A t \in S!Settled(i, kinds) : S!TestEntity(t, below) =>
                  \E z \in ground : z >= S!Top(t, q.hi)
  <2>1. ASSUME NEW t \in S!Settled(i, kinds), S!TestEntity(t, q)
        PROVE  ~S!LineClear(i, q, fault)
    <3>1. t \in S!Sweep(i, q, kinds, fault)
      BY <1>1, <1>4, <1>6, <2>1, SettledIsSwept
    <3> QED  BY <1>1, <3>1 DEF S!LineClear
  <2>2. ASSUME NEW t \in S!Settled(i, kinds), S!TestEntity(t, below)
        PROVE  \E z \in ground : z >= S!Top(t, q.hi)
    <3>1. PICK n \in Int : n = S!SectorX(q.a)
      BY <1>4, SectorsInOrder
    <3>2. below.a = q.a /\ below.b = q.a /\ S!Across(below) = {n}
      BY <1>2, <1>4, <3>1 DEF S!Below, S!Across, S!Lesser, S!Greater
    <3>3. n \in S!Across(q)
      BY <1>4, <3>1, SectorsInOrder DEF S!Across, S!Lesser, S!Greater
    <3>4. fault.at \notin S!Across(below)
      BY <1>6, <3>2, <3>3
    <3>5. \A sector \in S!Across(below) :
            sector - S!SectorX(q.a) \in -kWindowMargin..kWindowMargin
      BY <3>1, <3>2, WorldAssumption DEF WorldAssumption
    <3>6. t \in S!Sweep(i, below, kinds, fault)
      BY <1>1, <1>4, <2>2, <3>2, <3>4, <3>5, SettledIsSwept
    <3> QED  BY <1>1, <1>2, <1>3, <1>4, <3>6, GroundIsTheHighest
  <2> QED  BY <2>1, <2>2
<1>7. ASSUME NEW z \in ground
      PROVE  \E t \in S!There(kinds) \cup S!Ghosts(i) : z = S!Top(t, q.hi)
  <2>1. PICK t \in S!Sweep(i, below, kinds, fault) : z = S!Top(t, q.hi)
    BY <1>2, <1>3, <1>7 DEF S!GroundBelow
  <2> QED  BY <1>1, <1>4, <2>1, SweptIsThere
<1> QED  BY <1>1, <1>2, <1>3, <1>5, <1>6, <1>7

LEMMA WorldNext ==
  ASSUME WorldInv, S!Next
  PROVE  WorldInv'
<1> USE DEF WorldInv
<1>1. ASSUME NEW s \in Slots, NEW t \in Standings, S!StreamIn(s, t)
      PROVE  WorldInv'
  <2>1. [in |-> TRUE, bytes |-> t] \in [in : BOOLEAN, bytes : Things]
    BY DEF Things
  <2> QED  BY <1>1, <2>1 DEF S!StreamIn
<1>2. ASSUME NEW s \in Slots, S!StreamOut(s)
      PROVE  WorldInv'
  <2>1. PICK b \in Things : pool' = [pool EXCEPT ![s] = [in |-> FALSE, bytes |-> b]]
    BY <1>2 DEF S!StreamOut, Things
  <2>2. [in |-> FALSE, bytes |-> b] \in [in : BOOLEAN, bytes : Things]
    OBVIOUS
  <2> QED  BY <1>2, <2>1, <2>2 DEF S!StreamOut
<1>3. ASSUME NEW m \in Movers \cup {S!Nobody}, S!Moves(m)
      PROVE  WorldInv'
  BY <1>3 DEF S!Moves
<1>4. ASSUME NEW x \in Places, S!Asked(x)
      PROVE  WorldInv'
  <2>1. x \in Int
    BY WorldAssumption DEF WorldAssumption
  <2>2. PICK i : i = S!EnsureWindow(x)
    OBVIOUS
  <2>3. i.x0 \in Int /\ i.at \in [Slots -> Things]
    BY <2>1, <2>2, WindowIsAbout
  <2>4. {"built", "x0", "age", "at"} \subseteq DOMAIN i /\ i.age \in Int
    BY <2>2 DEF S!EnsureWindow, S!Rebuild
  <2> QED  BY <1>4, <2>2, <2>3, <2>4 DEF S!Asked
<1>5. CASE S!Second
  BY <1>5 DEF S!Second
<1> QED  BY <1>1, <1>2, <1>3, <1>4, <1>5 DEF S!Next

LEMMA WorldInvariant == FrameSpec => [](what = "world" => WorldInv)
<1>1. FrameInit => (what = "world" => WorldInv)
  BY DEF FrameInit, S!Init, WorldInv, Things
<1>2. (what = "world" => WorldInv) /\ [FrameNext]_everything => (what = "world" => WorldInv)'
  <2> SUFFICES ASSUME what = "world" => WorldInv, [FrameNext]_everything, what' = "world"
               PROVE  WorldInv'
    OBVIOUS
  <2>1. WorldInv /\ (S!Next \/ UNCHANGED worldvars)
    BY DEF FrameNext, everything
  <2> QED  BY <2>1, WorldNext DEF worldvars, WorldInv
<1> QED  BY <1>1, <1>2, PTL DEF FrameSpec, everything

\* A line is met by what stands in the world and by nothing else, and the ground is
\* the top of the highest of it (collision.hpp, "The answers are what the game would
\* give for buildings, dummies and objects"), for every size of a sector, of the
\* window and of its margin, and every world.
THEOREM LinesAreOfTheWorld == FrameSpec => []LinesMatchTheWorld
<1>1. (what = "world" => WorldInv) => LinesMatchTheWorld
  BY LinesMatch DEF LinesMatchTheWorld
<1> QED  BY <1>1, WorldInvariant, PTL

-----------------------------------------------------------------------------
(* Numbers, folds and sequences.                                           *)

\* Induction over numbers, of a set.
LEMMA AllNumbers ==
  ASSUME NEW T, T \subseteq Nat, 0 \in T, \A n \in T : n + 1 \in T
  PROVE  T = Nat
<1> SUFFICES ASSUME NEW k \in Nat, k \notin T PROVE FALSE
  OBVIOUS
<1> DEFINE U == Nat \ T
<1>1. PICK R : R = OpToRel(<, Nat)
  OBVIOUS
<1>2. IsWellFoundedOn(R, Nat)
  BY <1>1, NatLessThanWellFounded
<1>3. U \subseteq Nat /\ U # {}
  OBVIOUS
<1>4. PICK n \in U : \A m \in U : ~(<<m, n>> \in R)
  <2> HIDE DEF U
  <2> QED  BY <1>2, <1>3, WFMin
<1>5. n \in Nat /\ n \notin T /\ n # 0
  BY <1>4
<1>6. n - 1 \in Nat /\ n - 1 < n /\ (n - 1) + 1 = n
  BY <1>5
<1>7. n - 1 \in T
  BY <1>1, <1>4, <1>5, <1>6 DEF OpToRel
<1> QED  BY <1>5, <1>6, <1>7

\* A step for every set of numbers up to n, the greatest taken last.
FoldsUp(h, n, V, base, F) ==
  /\ h \in [SUBSET (1..n) -> V]
  /\ \A D \in SUBSET (1..n) : h[D] = IF D = {} THEN base ELSE F[<<h[D \ {S!Max(D)}], S!Max(D)>>]

LEMMA FoldExists ==
  ASSUME NEW V, NEW base \in V, NEW F, \A v \in V : \A i \in Nat : F[<<v, i>>] \in V, NEW n \in Nat
  PROVE  \E h : FoldsUp(h, n, V, base, F)
<1> DEFINE Folds(h, m) ==
      /\ h \in [SUBSET (1..m) -> V]
      /\ \A D \in SUBSET (1..m) : h[D] = IF D = {} THEN base ELSE F[<<h[D \ {S!Max(D)}], S!Max(D)>>]
           T == {m \in Nat : \E h : Folds(h, m)}
<1>1. 0 \in T
  <2>1. PICK h : h = [D \in SUBSET (1..0) |-> base]
    OBVIOUS
  <2>2. SUBSET (1..0) = {{}}
    <3>1. 1..0 = {}
      OBVIOUS
    <3> QED  BY <3>1
  <2>3. Folds(h, 0)
    BY <2>1, <2>2
  <2> QED  BY <2>3
<1>2. ASSUME NEW m \in T
      PROVE  m + 1 \in T
  <2>1. PICK h : Folds(h, m)
    BY <1>2
  <2>2. PICK g : g = [D \in SUBSET (1..(m + 1)) |->
                        IF m + 1 \in D THEN F[<<h[D \ {m + 1}], m + 1>>] ELSE h[D]]
    OBVIOUS
  <2>3. \A D \in SUBSET (1..(m + 1)) : D \ {m + 1} \in SUBSET (1..m) /\ (m + 1 \notin D => D \in SUBSET (1..m))
    <3>1. \A x \in 1..(m + 1) : x # m + 1 => x \in 1..m
      OBVIOUS
    <3> QED  BY <3>1
  <2>4. m \in Nat /\ m + 1 \in Nat
    OBVIOUS
  <2>5. g \in [SUBSET (1..(m + 1)) -> V]
    BY <2>1, <2>2, <2>3, <2>4
  <2>6. ASSUME NEW D \in SUBSET (1..(m + 1))
        PROVE  g[D] = IF D = {} THEN base ELSE F[<<g[D \ {S!Max(D)}], S!Max(D)>>]
    <3>1. CASE m + 1 \in D
      <4>1. S!Max(D) = m + 1
        <5>1. \A y \in D : m + 1 >= y
          BY <2>4
        <5>2. \A x \in D : (\A y \in D : x >= y) => x = m + 1
          BY <2>4, <3>1
        <5> QED  BY <3>1, <5>1, <5>2 DEF S!Max
      <4>2. D \ {m + 1} \in SUBSET (1..(m + 1)) /\ m + 1 \notin D \ {m + 1}
        OBVIOUS
      <4>3. g[D \ {m + 1}] = h[D \ {m + 1}]
        BY <2>2, <4>2
      <4>4. g[D] = F[<<h[D \ {m + 1}], m + 1>>]
        BY <2>2, <3>1
      <4> QED  BY <3>1, <4>1, <4>3, <4>4
    <3>2. CASE m + 1 \notin D
      <4>1. D \in SUBSET (1..m) /\ g[D] = h[D]
        BY <2>2, <2>3, <3>2
      <4>2. D \ {S!Max(D)} \in SUBSET (1..(m + 1)) /\ m + 1 \notin D \ {S!Max(D)}
        BY <3>2
      <4>3. g[D \ {S!Max(D)}] = h[D \ {S!Max(D)}]
        BY <2>2, <4>2
      <4> QED  BY <2>1, <4>1, <4>3
    <3> QED  BY <3>1, <3>2
  <2>7. Folds(g, m + 1)
    BY <2>5, <2>6
  <2> QED  BY <2>4, <2>7
<1>3. T = Nat
  <2>1. T \subseteq Nat
    OBVIOUS
  <2> HIDE DEF T
  <2> QED  BY <1>1, <1>2, <2>1, AllNumbers
<1>4. \E h : Folds(h, n)
  BY <1>3
<1> QED  BY <1>4 DEF FoldsUp

\* The greatest of the first so many numbers is the last.
LEMMA LastTaken ==
  ASSUME NEW k \in Nat
  PROVE  S!Max(1..(k + 1)) = k + 1 /\ (1..(k + 1)) \ {k + 1} = 1..k
<1>1. k + 1 \in 1..(k + 1) /\ \A y \in 1..(k + 1) : k + 1 >= y
  OBVIOUS
<1>2. \A x \in 1..(k + 1) : (\A y \in 1..(k + 1) : x >= y) => x = k + 1
  BY <1>1
<1>3. S!Max(1..(k + 1)) = k + 1
  BY <1>1, <1>2 DEF S!Max
<1>4. \A x : x \in (1..(k + 1)) \ {k + 1} <=> x \in 1..k
  OBVIOUS
<1> QED  BY <1>3, <1>4

\* What Max chooses is one of them.
LEMMA GreatestIsOne ==
  ASSUME NEW n \in Nat, NEW D \in SUBSET (1..n), D # {}
  PROVE  S!Max(D) \in D
<1> DEFINE Has(m) == \A X \in SUBSET (1..m) : X # {} => \E x \in X : \A y \in X : x >= y
           T == {m \in Nat : Has(m)}
<1>1. 0 \in T
  <2>1. 1..0 = {}
    OBVIOUS
  <2> QED  BY <2>1
<1>2. ASSUME NEW m \in T
      PROVE  m + 1 \in T
  <2> SUFFICES ASSUME NEW X \in SUBSET (1..(m + 1)), X # {}
               PROVE  \E x \in X : \A y \in X : x >= y
    OBVIOUS
  <2>1. CASE m + 1 \in X
    BY <2>1
  <2>2. CASE m + 1 \notin X
    <3>1. \A x \in 1..(m + 1) : x # m + 1 => x \in 1..m
      OBVIOUS
    <3>2. X \in SUBSET (1..m)
      BY <2>2, <3>1
    <3> QED  BY <1>2, <3>2
  <2> QED  BY <2>1, <2>2
<1>3. T = Nat
  <2>1. T \subseteq Nat
    OBVIOUS
  <2> HIDE DEF T
  <2> QED  BY <1>1, <1>2, <2>1, AllNumbers
<1> QED  BY <1>3 DEF S!Max
-----------------------------------------------------------------------------
(* Sequences.                                                              *)

Among(s) == {s[i] : i \in DOMAIN s}

LEMMA CountedAlike ==
  ASSUME NEW A
  PROVE  S!Cardinality(A) = Cardinality(A)
BY Zenon DEF S!Cardinality, Cardinality

\* A set is put into a sequence whole.
LEMMA SetInSequence ==
  ASSUME NEW A, IsFiniteSet(A)
  PROVE  S!SetToSeq(A) \in Seq(A) /\ Among(S!SetToSeq(A)) = A
<1>1. PICK n \in Nat : n = Cardinality(A) /\ ExistsBijection(1..n, A)
  BY FS_CardinalityType
<1>2. PICK e \in [1..n -> A] : S!IsInjective(e)
  BY <1>1 DEF ExistsBijection, Bijection, Injection, IsInjective, S!IsInjective
<1>3. PICK s : s = S!SetToSeq(A)
  OBVIOUS
<1>4. s \in [1..n -> A] /\ S!IsInjective(s)
  <2>1. s = CHOOSE f \in [1..n -> A] : S!IsInjective(f)
    BY <1>1, <1>3, CountedAlike, Zenon DEF S!SetToSeq
  <2> QED  BY <1>2, <2>1, Zenon
<1>5. s \in Injection(1..n, A)
  BY <1>4 DEF Injection, IsInjective, S!IsInjective
<1>6. Cardinality(1..n) = n
  BY FS_Interval
<1>7. s \in Surjection(1..n, A)
  BY <1>1, <1>5, <1>6, FS_Injection
<1>8. Among(s) = A
  BY <1>4, <1>7 DEF Surjection, Among
<1> QED  BY <1>3, <1>4, <1>8

LEMMA JoinedAmong ==
  ASSUME NEW N, NEW s \in Seq(N), NEW t \in Seq(N)
  PROVE  s \o t \in Seq(N) /\ Among(s \o t) = Among(s) \cup Among(t)
<1>1. PICK u : u = s \o t
  OBVIOUS
<1>2. PICK m \in Nat, n \in Nat : m = Len(s) /\ n = Len(t)
  OBVIOUS
<1>3. DOMAIN s = 1..m /\ DOMAIN t = 1..n
  BY <1>2
<1>4. /\ u \in Seq(N) /\ DOMAIN u = 1..(m + n)
      /\ \A i \in 1..(m + n) : u[i] = IF i <= m THEN s[i] ELSE t[i - m]
  BY <1>1, <1>2
<1>5. \A i \in 1..m : i \in 1..(m + n) /\ u[i] = s[i]
  BY <1>4
<1>6. \A j \in 1..n : j + m \in 1..(m + n) /\ u[j + m] = t[j]
  BY <1>4
<1>7. \A i \in 1..(m + n) : i \in 1..m \/ \E j \in 1..n : i = j + m
  <2> SUFFICES ASSUME NEW i \in 1..(m + n), i \notin 1..m
               PROVE  i - m \in 1..n /\ i = (i - m) + m
    OBVIOUS
  <2> QED  OBVIOUS
<1>8. Among(u) = Among(s) \cup Among(t)
  <2>1. Among(u) = {u[i] : i \in 1..(m + n)}
    BY <1>4 DEF Among
  <2>2. Among(s) = {s[i] : i \in 1..m} /\ Among(t) = {t[j] : j \in 1..n}
    BY <1>3 DEF Among
  <2>3. ASSUME NEW x \in Among(u)
        PROVE  x \in Among(s) \/ x \in Among(t)
    <3>1. PICK i \in 1..(m + n) : x = u[i]
      BY <2>1
    <3>2. CASE i \in 1..m
      BY <1>5, <2>2, <3>1, <3>2
    <3>3. ASSUME NEW j \in 1..n, i = j + m
          PROVE  x \in Among(t)
      BY <1>6, <2>2, <3>1, <3>3
    <3> QED  BY <1>7, <3>2, <3>3
  <2>4. \A x \in Among(s) \cup Among(t) : x \in Among(u)
    BY ONLY <1>5, <1>6, <2>1, <2>2, Zenon
  <2> QED  BY <2>3, <2>4, Zenon
<1> QED  BY <1>1, <1>4, <1>8

\* Sequences laid one after another.
LEMMA LaidInOrder ==
  ASSUME NEW N, NEW n \in Nat, n > 0, NEW Q \in [1..n -> Seq(N)]
  PROVE  S!FlattenSeq(Q) \in Seq(N) /\ Among(S!FlattenSeq(Q)) = UNION {Among(Q[i]) : i \in 1..n}
<1> DEFINE Goes(g, m) == /\ g \in [1..m -> Seq(N)]
                         /\ \A i \in 1..m : g[i] = IF i = 1 THEN Q[i] ELSE g[i - 1] \o Q[i]
           T == {m \in Nat : m <= n => \E g : Goes(g, m)}
           Solves(g) == g = [i \in 1..Len(Q) |-> IF i = 1 THEN Q[i] ELSE g[i - 1] \o Q[i]]
<1>1. Len(Q) = n /\ n # 0
  OBVIOUS
<1>2. 0 \in T
  <2>1. PICK g : g = [i \in 1..0 |-> <<>>]
    OBVIOUS
  <2>2. 1..0 = {}
    OBVIOUS
  <2>3. Goes(g, 0)
    BY <2>1, <2>2
  <2> QED  BY <2>3
<1>3. ASSUME NEW m \in T
      PROVE  m + 1 \in T
  <2> SUFFICES ASSUME m + 1 <= n
               PROVE  \E g : Goes(g, m + 1)
    <3> HIDE DEF Goes
    <3> QED  OBVIOUS
  <2>0. m \in Nat /\ m <= n
    OBVIOUS
  <2>1. PICK h : Goes(h, m)
    BY <2>0
  <2>2. PICK x : x = IF m = 0 THEN Q[m + 1] ELSE h[m] \o Q[m + 1]
    OBVIOUS
  <2>3. x \in Seq(N)
    <3>1. Q[m + 1] \in Seq(N)
      BY <2>0
    <3>2. m # 0 => h[m] \in Seq(N)
      BY <2>0, <2>1
    <3> QED  BY <2>2, <3>1, <3>2, JoinedAmong
  <2>4. PICK g : g = [i \in 1..(m + 1) |-> IF i = m + 1 THEN x ELSE h[i]]
    OBVIOUS
  <2>5. \A i \in 1..(m + 1) : i # m + 1 => i \in 1..m
    BY <2>0
  <2>6. g \in [1..(m + 1) -> Seq(N)]
    BY <2>1, <2>3, <2>4, <2>5
  <2>7. ASSUME NEW i \in 1..(m + 1)
        PROVE  g[i] = IF i = 1 THEN Q[i] ELSE g[i - 1] \o Q[i]
    <3>1. CASE i = m + 1
      <4>1. m # 0 => g[m] = h[m]
        BY <2>0, <2>4
      <4>2. i - 1 = m /\ (i = 1 <=> m = 0)
        BY <2>0, <3>1
      <4> QED  BY <2>2, <2>4, <3>1, <4>1, <4>2
    <3>2. CASE i # m + 1
      <4>1. i \in 1..m /\ g[i] = h[i]
        BY <2>4, <2>5, <3>2
      <4>2. i # 1 => i - 1 \in 1..(m + 1) /\ i - 1 # m + 1
        BY <2>0
      <4>3. i # 1 => g[i - 1] = h[i - 1]
        BY <2>4, <4>2
      <4> QED  BY <2>1, <4>1, <4>3
    <3> QED  BY <3>1, <3>2
  <2>8. Goes(g, m + 1)
    BY <2>6, <2>7
  <2> QED  BY <2>8
<1>4. T = Nat
  <2>1. T \subseteq Nat
    OBVIOUS
  <2> HIDE DEF T
  <2> QED  BY <1>2, <1>3, <2>1, AllNumbers
<1>5. \E g : Solves(g)
  <2>1. PICK g : Goes(g, n)
    <3> HIDE DEF Goes
    <3>1. n \in T => \E g : Goes(g, n)
      OBVIOUS
    <3> HIDE DEF T
    <3> QED  BY <1>4, <3>1
  <2>2. Solves(g)
    BY <1>1, <2>1
  <2> QED  BY <2>2
<1>6. PICK g : Solves(g) /\ S!FlattenSeq(Q) = g[n]
  <2>1. S!FlattenSeq(Q) = (CHOOSE g : Solves(g))[n]
    BY <1>1 DEF S!FlattenSeq
  <2> HIDE DEF Solves
  <2> QED  BY <1>5, <2>1
<1>7. /\ g[1] = Q[1]
      /\ \A i \in 1..n : i # 1 => g[i] = g[i - 1] \o Q[i]
  <2>1. DOMAIN g = 1..n /\ \A i \in 1..n : g[i] = IF i = 1 THEN Q[i] ELSE g[i - 1] \o Q[i]
    BY <1>1, <1>6
  <2>2. 1 \in 1..n
    OBVIOUS
  <2> QED  BY <2>1, <2>2
<1> HIDE DEF Solves, Goes, T
<1> DEFINE Joined(m) == g[m] \in Seq(N) /\ Among(g[m]) = UNION {Among(Q[i]) : i \in 1..m}
           U == {m \in Nat : m + 1 <= n => Joined(m + 1)}
<1>8. 0 \in U
  <2>1. 1..1 = {1} /\ Q[1] \in Seq(N)
    OBVIOUS
  <2>2. 0 + 1 = 1 /\ 0 \in Nat
    OBVIOUS
  <2>3. UNION {Among(Q[i]) : i \in 1..1} = Among(Q[1])
    BY <2>1
  <2>4. Joined(1)
    BY <1>7, <2>1, <2>3, Zenon
  <2> HIDE DEF Joined
  <2> QED  BY <2>2, <2>4
<1>9. ASSUME NEW m \in U
      PROVE  m + 1 \in U
  <2> SUFFICES ASSUME m + 2 <= n
               PROVE  Joined(m + 2)
    <3>1. (m + 1) + 1 = m + 2
      OBVIOUS
    <3> HIDE DEF Joined
    <3> QED  BY <3>1
  <2>0. /\ m \in Nat /\ m + 1 <= n /\ m + 2 \in 1..n /\ m + 2 # 1 /\ (m + 2) - 1 = m + 1
        /\ Q[m + 2] \in Seq(N)
    OBVIOUS
  <2>1. Joined(m + 1)
    BY <2>0
  <2>2. g[m + 2] = g[m + 1] \o Q[m + 2]
    BY <1>7, <2>0
  <2>3. g[m + 2] \in Seq(N) /\ Among(g[m + 2]) = Among(g[m + 1]) \cup Among(Q[m + 2])
    BY <2>0, <2>1, <2>2, JoinedAmong
  <2>4. 1..(m + 2) = 1..(m + 1) \cup {m + 2}
    BY <2>0
  <2>5. UNION {Among(Q[i]) : i \in 1..(m + 2)} = (UNION {Among(Q[i]) : i \in 1..(m + 1)}) \cup Among(Q[m + 2])
    <3>1. PICK A, B, z : A = 1..(m + 1) /\ B = 1..(m + 2) /\ z = m + 2
      OBVIOUS
    <3>2. B = A \cup {z}
      BY <2>4, <3>1
    <3>3. UNION {Among(Q[i]) : i \in B} = (UNION {Among(Q[i]) : i \in A}) \cup Among(Q[z])
      BY ONLY <3>2, Zenon
    <3> QED  BY <3>1, <3>3
  <2> QED  BY <2>1, <2>3, <2>5, Zenon
<1>10. U = Nat
  <2>1. U \subseteq Nat
    OBVIOUS
  <2> HIDE DEF U
  <2> QED  BY <1>8, <1>9, <2>1, AllNumbers
<1>11. Joined(n)
  <2>1. n - 1 \in U /\ (n - 1) + 1 = n
    BY <1>10
  <2> HIDE DEF Joined
  <2> QED  BY <2>1
<1> QED  BY <1>6, <1>11

-----------------------------------------------------------------------------
(* Footprints.                                                             *)

Paints(f) == [blocked : SUBSET S!Cells(f), budget : Int, starved : BOOLEAN]
Blank(f) == [blocked |-> {}, budget |-> f.budget, starved |-> FALSE]
Painting(ts, f) ==
  S!FoldLeft(LAMBDA p, t : S!Once(LAMBDA v : S!PaintEntity(v, t, f), p), Blank(f), ts)

LEMMA SquareIsFinite ==
  ASSUME NEW f, Square(f)
  PROVE  /\ S!Cells(f) \subseteq Int /\ IsFiniteSet(S!Cells(f))
         /\ \A c \in S!Cells(f) : f.x - f.radius <= c /\ c <= f.x + f.radius /\ f.floor[c] \in Int
<1>1. PICK a \in Int, b \in Int : a = f.x - f.radius /\ b = f.x + f.radius
  BY DEF Square
<1>2. S!Cells(f) = a..b /\ \A c \in a..b : f.floor[c] \in Int
  BY <1>1 DEF Square, S!Cells
<1>3. IsFiniteSet(a..b)
  BY FS_Interval
<1> QED  BY <1>1, <1>2, <1>3

LEMMA PaintedIsPaint ==
  ASSUME NEW f, Square(f), NEW p \in Paints(f), NEW t
  PROVE  S!PaintEntity(p, t, f) \in Paints(f)
<1>1. PICK within : within = {c \in S!Tests(t, f) :
                              S!Cardinality({o \in S!Tests(t, f) : o <= c}) <= p.budget}
  OBVIOUS
<1>2. within \subseteq S!Cells(f)
  BY <1>1 DEF S!Tests
<1>3. S!Cardinality(within) \in Int
  BY <1>2, SquareIsFinite, FS_Subset, FS_CardinalityType, CountedAlike
<1>4. CASE S!Near(t, f)
  <2>1. S!PaintEntity(p, t, f) =
          [blocked |-> p.blocked \cup {c \in within : S!InBand(t, f, c)},
           budget |-> p.budget - S!Cardinality(within),
           starved |-> p.starved \/ within # S!Tests(t, f)]
    BY <1>1, <1>4 DEF S!PaintEntity
  <2>2. p.blocked \cup {c \in within : S!InBand(t, f, c)} \in SUBSET S!Cells(f)
    BY <1>2 DEF Paints
  <2>3. p.budget - S!Cardinality(within) \in Int
    BY <1>3 DEF Paints
  <2>4. (p.starved \/ within # S!Tests(t, f)) \in BOOLEAN
    OBVIOUS
  <2>5. PICK b, u, s : /\ b = p.blocked \cup {c \in within : S!InBand(t, f, c)}
                       /\ u = p.budget - S!Cardinality(within)
                       /\ s = (p.starved \/ within # S!Tests(t, f))
    OBVIOUS
  <2>6. b \in SUBSET S!Cells(f) /\ u \in Int /\ s \in BOOLEAN
    BY <2>2, <2>3, <2>4, <2>5, Zenon
  <2>7. S!PaintEntity(p, t, f) = [blocked |-> b, budget |-> u, starved |-> s]
    BY <2>1, <2>5, Zenon
  <2> QED  BY <2>6, <2>7 DEF Paints
<1>5. CASE ~S!Near(t, f)
  BY <1>5 DEF S!PaintEntity
<1> QED  BY <1>4, <1>5

\* One thing is painted after another.
LEMMA PaintedInOrder ==
  ASSUME NEW f, Square(f), NEW n \in Nat, NEW ts, DOMAIN ts = 1..n
  PROVE  \E laid \in [0..n -> Paints(f)] :
           /\ laid[0] = Blank(f) /\ laid[n] = Painting(ts, f)
           /\ \A k \in 0..(n - 1) : laid[k + 1] = S!PaintEntity(laid[k], ts[k + 1], f)
<1> DEFINE V == Paints(f)
           F == [q \in V \X Nat |-> S!PaintEntity(q[1], ts[q[2]], f)]
           One(p, t) == CHOOSE next \in {S!PaintEntity(v, t, f) : v \in {p}} : TRUE
           Solves(g) == g = [D \in SUBSET DOMAIN ts |->
                               IF D = {} THEN Blank(f)
                               ELSE One(g[D \ {S!Max(D)}], ts[S!Max(D)])]
<1>1. \A v \in V : \A i \in Nat : F[<<v, i>>] = S!PaintEntity(v, ts[i], f) /\ F[<<v, i>>] \in V
  BY PaintedIsPaint
<1>2. \A p, t : One(p, t) = S!PaintEntity(p, t, f)
  OBVIOUS
<1>3. Blank(f) \in V
  BY DEF Blank, Paints, Square
<1>4. PICK h \in [SUBSET (1..n) -> V] : \A D \in SUBSET (1..n) :
         h[D] = IF D = {} THEN Blank(f) ELSE F[<<h[D \ {S!Max(D)}], S!Max(D)>>]
  <2> HIDE DEF V, F
  <2>1. PICK N, e, G : N = V /\ e = Blank(f) /\ G = F
    OBVIOUS
  <2>2. e \in N /\ \A v \in N : \A i \in Nat : G[<<v, i>>] \in N
    BY <1>1, <1>3, <2>1
  <2>3. \E h : FoldsUp(h, n, N, e, G)
    BY <2>2, FoldExists, Zenon
  <2> QED  BY <2>1, <2>3 DEF FoldsUp
<1>5. ASSUME NEW D \in SUBSET (1..n), D # {}
      PROVE  h[D] = One(h[D \ {S!Max(D)}], ts[S!Max(D)])
  <2>1. S!Max(D) \in D
    BY <1>5, GreatestIsOne, Zenon
  <2> HIDE DEF V, F, One
  <2>2. S!Max(D) \in Nat /\ D \ {S!Max(D)} \in SUBSET (1..n)
    <3>1. PICK x : x = S!Max(D) /\ x \in D
      BY <2>1
    <3>2. x \in Nat
      BY <3>1
    <3>3. D \ {x} \in SUBSET (1..n)
      OBVIOUS
    <3> QED  BY <3>1, <3>2, <3>3
  <2>3. h[D \ {S!Max(D)}] \in V
    BY <1>4, <2>2
  <2> QED  BY <1>1, <1>2, <1>4, <1>5, <2>2, <2>3
<1>6. Solves(h)
  <2> HIDE DEF V, F, One
  <2> QED  BY <1>4, <1>5
<1>7. Painting(ts, f) = (CHOOSE g : Solves(g))[DOMAIN ts]
  BY DEF Painting, S!FoldLeft, S!MapThenFoldSet, S!Once
<1>8. PICK g : Solves(g) /\ Painting(ts, f) = g[1..n]
  <2> HIDE DEF Solves
  <2> QED  BY <1>6, <1>7
<1>9. /\ g[{}] = Blank(f)
      /\ \A D \in SUBSET (1..n) : D # {} =>
           g[D] = S!PaintEntity(g[D \ {S!Max(D)}], ts[S!Max(D)], f)
  <2> HIDE DEF One
  <2> QED  BY <1>2, <1>8
<1> HIDE DEF Solves, F, One
<1>10. ASSUME NEW k \in Nat, k + 1 <= n
       PROVE  g[1..(k + 1)] = S!PaintEntity(g[1..k], ts[k + 1], f)
  <2>1. PICK D, m : D = 1..(k + 1) /\ m = k + 1
    OBVIOUS
  <2>2. S!Max(D) = m /\ D \ {m} = 1..k
    BY <2>1, LastTaken
  <2>3. D \in SUBSET (1..n) /\ D # {}
    BY <1>10, <2>1
  <2>4. g[D] = S!PaintEntity(g[1..k], ts[m], f)
    BY <1>9, <2>2, <2>3
  <2> QED  BY <2>1, <2>4
<1> DEFINE T == {k \in Nat : k <= n => g[1..k] \in V}
<1>11. T = Nat
  <2>1. 0 \in T
    <3>1. 1..0 = {}
      OBVIOUS
    <3> HIDE DEF V
    <3> QED  BY <1>3, <1>9, <3>1
  <2>2. ASSUME NEW k \in T
        PROVE  k + 1 \in T
    <3> SUFFICES ASSUME k + 1 <= n
                 PROVE  g[1..(k + 1)] \in V
      <4> HIDE DEF V
      <4> QED  OBVIOUS
    <3>1. k \in Nat /\ g[1..k] \in V
      <4> HIDE DEF V
      <4> QED  OBVIOUS
    <3> QED  BY <1>10, <3>1, PaintedIsPaint
  <2>3. T \subseteq Nat
    OBVIOUS
  <2> HIDE DEF T
  <2> QED  BY <2>1, <2>2, <2>3, AllNumbers
<1>12. PICK laid : laid = [k \in 0..n |-> g[1..k]]
  OBVIOUS
<1>13. laid \in [0..n -> V]
  <2>1. ASSUME NEW k \in 0..n
        PROVE  g[1..k] \in V
    <3>1. k \in T /\ k <= n
      BY <1>11
    <3> HIDE DEF V
    <3> QED  BY <3>1
  <2> HIDE DEF V
  <2> QED  BY <1>12, <2>1
<1>14. laid[0] = Blank(f) /\ laid[n] = Painting(ts, f)
  <2>1. 1..0 = {} /\ 0 \in 0..n /\ n \in 0..n
    OBVIOUS
  <2> QED  BY <1>8, <1>9, <1>12, <2>1
<1>15. ASSUME NEW k \in 0..(n - 1)
       PROVE  laid[k + 1] = S!PaintEntity(laid[k], ts[k + 1], f)
  <2>1. k \in Nat /\ k + 1 <= n /\ k \in 0..n /\ k + 1 \in 0..n
    OBVIOUS
  <2> QED  BY <1>10, <1>12, <2>1
<1> HIDE DEF V
<1> QED  BY <1>13, <1>14, <1>15 DEF V

\* Of finitely many numbers one is the greatest.
LEMMA HasGreatest ==
  ASSUME NEW n \in Nat, NEW F, \A j \in 0..n : F[j] \in Int
  PROVE  \E k \in 0..n : \A j \in 0..n : F[j] <= F[k]
<1> DEFINE T == {m \in Nat : m <= n => \E k \in 0..m : \A j \in 0..m : F[j] <= F[k]}
<1>1. 0 \in T
  <2>1. 0..0 = {0} /\ F[0] \in Int
    OBVIOUS
  <2> QED  BY <2>1
<1>2. ASSUME NEW m \in T
      PROVE  m + 1 \in T
  <2> SUFFICES ASSUME m + 1 <= n
               PROVE  \E k \in 0..(m + 1) : \A j \in 0..(m + 1) : F[j] <= F[k]
    OBVIOUS
  <2>1. m \in Nat /\ \A j \in 0..(m + 1) : F[j] \in Int /\ (j \in 0..m \/ j = m + 1)
    OBVIOUS
  <2>2. PICK k \in 0..m : \A j \in 0..m : F[j] <= F[k]
    BY <2>1
  <2>3. CASE F[m + 1] <= F[k]
    BY <2>1, <2>2, <2>3
  <2>4. CASE F[k] <= F[m + 1]
    <3>1. \A j \in 0..(m + 1) : F[j] <= F[m + 1]
      <4> SUFFICES ASSUME NEW j \in 0..(m + 1) PROVE F[j] <= F[m + 1]
        OBVIOUS
      <4>1. k \in 0..(m + 1) /\ m + 1 \in 0..(m + 1)
        BY <2>1
      <4>2. F[j] \in Int /\ F[k] \in Int /\ F[m + 1] \in Int
        BY <2>1, <4>1
      <4>3. j \in 0..m => F[j] <= F[k]
        BY <2>2
      <4> QED  BY <2>1, <2>4, <4>2, <4>3
    <3> QED  BY <2>1, <3>1
  <2> QED  BY <2>1, <2>2, <2>3, <2>4
<1>3. T = Nat
  <2>1. T \subseteq Nat
    OBVIOUS
  <2> HIDE DEF T
  <2> QED  BY <1>1, <1>2, <2>1, AllNumbers
<1> QED  BY <1>3

\* The floor of a square has a lowest and a highest.
LEMMA FloorIsBetween ==
  ASSUME NEW f, Square(f)
  PROVE  /\ S!Lowest(f) \in Int /\ S!Highest(f) \in Int
         /\ \A c \in S!Cells(f) : S!Lowest(f) <= f.floor[c] /\ f.floor[c] <= S!Highest(f)
<1>1. PICK a \in Int, n \in Nat : /\ S!Cells(f) = a..(a + n)
                                  /\ \A c \in a..(a + n) : f.floor[c] \in Int
  <2>1. PICK a \in Int, n \in Nat : a = f.x - f.radius /\ n = f.radius + f.radius
    BY DEF Square
  <2>2. f.x + f.radius = a + n
    BY <2>1 DEF Square
  <2> QED  BY <2>1, <2>2, SquareIsFinite DEF S!Cells
<1>2. PICK F, G : F = [j \in 0..n |-> f.floor[a + j]] /\ G = [j \in 0..n |-> -f.floor[a + j]]
  OBVIOUS
<1>3. \A j \in 0..n : F[j] = f.floor[a + j] /\ F[j] \in Int /\ G[j] = -f.floor[a + j] /\ G[j] \in Int
  BY <1>1, <1>2
<1>4. \A c \in a..(a + n) : c - a \in 0..n /\ a + (c - a) = c
  OBVIOUS
<1>5. PICK k \in 0..n : \A j \in 0..n : F[j] <= F[k]
  BY <1>3, HasGreatest
<1>6. PICK l \in 0..n : \A j \in 0..n : G[j] <= G[l]
  BY <1>3, HasGreatest
<1>7. a + k \in a..(a + n) /\ a + l \in a..(a + n)
  OBVIOUS
<1>8. \A c \in a..(a + n) : f.floor[c] <= f.floor[a + k] /\ f.floor[a + l] <= f.floor[c]
  <2> SUFFICES ASSUME NEW c \in a..(a + n)
               PROVE  f.floor[c] <= f.floor[a + k] /\ f.floor[a + l] <= f.floor[c]
    OBVIOUS
  <2>1. PICK j \in 0..n : a + j = c
    BY <1>4
  <2>2. F[j] <= F[k] /\ G[j] <= G[l]
    BY <1>5, <1>6
  <2>3. PICK y \in Int, v \in Int, w \in Int :
          y = f.floor[c] /\ v = f.floor[a + k] /\ w = f.floor[a + l]
    BY <1>1, <1>7
  <2>4. y <= v /\ -y <= -w
    BY <1>3, <2>1, <2>2, <2>3
  <2> QED  BY <2>3, <2>4
<1>9. PICK low, high : low = S!Lowest(f) /\ high = S!Highest(f)
  OBVIOUS
<1>10. low \in {f.floor[c] : c \in S!Cells(f)} /\ \A c \in S!Cells(f) : low <= f.floor[c]
  BY <1>1, <1>7, <1>8, <1>9 DEF S!Lowest
<1>11. high \in {f.floor[c] : c \in S!Cells(f)} /\ \A c \in S!Cells(f) : high >= f.floor[c]
  BY <1>1, <1>7, <1>8, <1>9 DEF S!Highest
<1> QED  BY <1>1, <1>9, <1>10, <1>11

\* Whatever blocks a cell is near the square.
Body(t) == {t.at, t.z0, t.z1, t.reach} \subseteq Int /\ t.z0 <= t.z1

LEMMA BlocksNear ==
  ASSUME NEW f, Square(f), NEW t, Body(t), NEW c \in S!Cells(f), S!Blocks(t, f, c)
  PROVE  S!Near(t, f)
<1>1. PICK a \in Int, r \in Int, l \in Int, u \in Int, z \in Int :
        a = t.at /\ r = t.reach /\ l = t.z0 /\ u = t.z1 /\ z = f.floor[c]
  BY SquareIsFinite DEF Body
<1>2. PICK x \in Int, d \in Int, e \in Int, lo \in Int, hi \in Int :
        x = f.x /\ d = f.radius /\ e = f.inflate /\ lo = f.lo /\ hi = f.hi
  BY DEF Square
<1>3. c \in Int /\ x - d <= c /\ c <= x + d
  BY <1>2, SquareIsFinite
<1>4. c - a \in -(r + e)..(r + e)
  BY <1>1, <1>2 DEF S!Blocks
<1>5. a + r >= x - d - e /\ a - r <= x + d + e
  BY <1>3, <1>4
<1>6. u >= z + lo /\ l <= z + hi
  <2>1. l <= u
    BY <1>1 DEF Body
  <2>2. CASE t.leans /\ t.data
    <3>1. PICK h \in Int : h = S!HeightOn(t, c) /\ h >= l /\ h <= u
      <4>1. S!HeightOn(t, c) = S!Lesser(S!Greater(l + (c - (a - r)), l), u)
        BY <1>1 DEF S!HeightOn
      <4>2. S!Lesser(S!Greater(l + (c - (a - r)), l), u) \in l..u
        BY <1>3, <2>1 DEF S!Lesser, S!Greater
      <4> QED  BY <4>1, <4>2
    <3>2. h - z \in lo..hi
      BY <1>1, <1>2, <2>2, <3>1 DEF S!Blocks, S!InBand
    <3> QED  BY <3>1, <3>2
  <2>3. CASE ~(t.leans /\ t.data)
    BY <1>1, <1>2, <2>3 DEF S!Blocks, S!InBand
  <2> QED  BY <2>2, <2>3
<1>7. PICK low \in Int, high \in Int : low = S!Lowest(f) /\ high = S!Highest(f) /\ low <= z /\ z <= high
  BY <1>1, FloorIsBetween
<1>8. u >= low + lo /\ l <= high + hi
  BY <1>6, <1>7
<1> QED  BY <1>1, <1>2, <1>5, <1>7, <1>8 DEF S!Near

\* A thing painted blocks the cells it should, if there is budget for all of them.
LEMMA ThingPainted ==
  ASSUME NEW f, Square(f), NEW p \in Paints(f), NEW t, Body(t), NEW q, q = S!PaintEntity(p, t, f)
  PROVE  /\ p.blocked \subseteq q.blocked /\ q.blocked \subseteq p.blocked \cup S!BlockedBy({t}, f)
         /\ p.starved => q.starved
         /\ q.starved \/ S!BlockedBy({t}, f) \subseteq q.blocked
         /\ p.budget >= S!Cardinality(S!Cells(f)) => S!BlockedBy({t}, f) \subseteq q.blocked
<1>1. S!BlockedBy({t}, f) = {c \in S!Tests(t, f) : S!InBand(t, f, c)}
  BY DEF S!BlockedBy, S!Blocks, S!Tests
<1>2. CASE ~S!Near(t, f)
  <2>1. S!BlockedBy({t}, f) = {}
    BY <1>2, BlocksNear DEF S!BlockedBy
  <2>2. q = p
    BY <1>2 DEF S!PaintEntity
  <2> QED  BY <2>1, <2>2
<1>3. CASE S!Near(t, f)
  <2>1. PICK within : within = {c \in S!Tests(t, f) :
                                S!Cardinality({o \in S!Tests(t, f) : o <= c}) <= p.budget}
    OBVIOUS
  <2>2. q = [blocked |-> p.blocked \cup {c \in within : S!InBand(t, f, c)},
             budget |-> p.budget - S!Cardinality(within),
             starved |-> p.starved \/ within # S!Tests(t, f)]
    BY <1>3, <2>1 DEF S!PaintEntity
  <2>3. /\ q.blocked = p.blocked \cup {c \in within : S!InBand(t, f, c)}
        /\ q.starved <=> p.starved \/ within # S!Tests(t, f)
    <3>1. PICK b, u, s : /\ b = p.blocked \cup {c \in within : S!InBand(t, f, c)}
                         /\ u = p.budget - S!Cardinality(within)
                         /\ s = (p.starved \/ within # S!Tests(t, f))
      OBVIOUS
    <3>2. q = [blocked |-> b, budget |-> u, starved |-> s]
      BY <2>2, <3>1, Zenon
    <3>3. q.blocked = b /\ q.starved = s
      BY <3>2
    <3> QED  BY <3>1, <3>3, Zenon
  <2>4. within \subseteq S!Tests(t, f)
    BY <2>1
  <2>5. within = S!Tests(t, f) => S!BlockedBy({t}, f) \subseteq q.blocked
    BY <1>1, <2>3
  <2>6. p.budget >= S!Cardinality(S!Cells(f)) => within = S!Tests(t, f)
    <3> SUFFICES ASSUME p.budget >= S!Cardinality(S!Cells(f)), NEW c \in S!Tests(t, f)
                 PROVE  S!Cardinality({o \in S!Tests(t, f) : o <= c}) <= p.budget
      BY <2>1
    <3>1. PICK U : U = {o \in S!Tests(t, f) : o <= c}
      OBVIOUS
    <3>2. U \in SUBSET S!Cells(f)
      BY <3>1 DEF S!Tests
    <3>3. /\ Cardinality(U) <= Cardinality(S!Cells(f))
          /\ Cardinality(U) \in Int /\ Cardinality(S!Cells(f)) \in Int
      BY <3>2, SquareIsFinite, FS_Subset, FS_CardinalityType
    <3>4. p.budget \in Int
      BY DEF Paints
    <3> QED  BY <3>1, <3>3, <3>4, CountedAlike
  <2> QED  BY <1>1, <2>3, <2>4, <2>5, <2>6
<1> QED  BY <1>2, <1>3

\* What is painted is what the things block, but for what there was no budget
\* for; and the first of them is painted whole if there is budget for a square.
LEMMA ThingsPainted ==
  ASSUME NEW f, Square(f), NEW n \in Nat, NEW ts, DOMAIN ts = 1..n, \A k \in 1..n : Body(ts[k])
  PROVE  LET q == Painting(ts, f)
         IN  /\ q.blocked \subseteq S!BlockedBy(Among(ts), f)
             /\ q.starved \/ S!BlockedBy(Among(ts), f) \subseteq q.blocked
             /\ n > 0 /\ f.budget >= S!Cardinality(S!Cells(f)) =>
                  S!BlockedBy({ts[1]}, f) \subseteq q.blocked
<1>1. PICK laid \in [0..n -> Paints(f)] :
        /\ laid[0] = Blank(f) /\ laid[n] = Painting(ts, f)
        /\ \A k \in 0..(n - 1) : laid[k + 1] = S!PaintEntity(laid[k], ts[k + 1], f)
  BY PaintedInOrder
<1> DEFINE Upto(k) == {ts[j] : j \in 1..k}
           Enough == f.budget >= S!Cardinality(S!Cells(f))
           Good(k) == /\ laid[k].blocked \subseteq S!BlockedBy(Upto(k), f)
                      /\ laid[k].starved \/ S!BlockedBy(Upto(k), f) \subseteq laid[k].blocked
                      /\ k > 0 /\ Enough => S!BlockedBy({ts[1]}, f) \subseteq laid[k].blocked
           T == {k \in Nat : k <= n => Good(k)}
<1>2. \A A, B : S!BlockedBy(A \cup B, f) = S!BlockedBy(A, f) \cup S!BlockedBy(B, f)
  BY DEF S!BlockedBy
<1>3. 0 \in T
  <2>1. Upto(0) = {}
    OBVIOUS
  <2>2. S!BlockedBy({}, f) = {}
    BY DEF S!BlockedBy
  <2>3. laid[0].blocked = {}
    BY <1>1 DEF Blank
  <2>4. Good(0)
    <3> HIDE DEF Upto
    <3>1. laid[0].blocked \subseteq S!BlockedBy(Upto(0), f) /\ S!BlockedBy(Upto(0), f) \subseteq laid[0].blocked
      BY <2>1, <2>2, <2>3
    <3>2. ~(0 > 0)
      OBVIOUS
    <3> QED  BY <3>1, <3>2, Zenon
  <2> HIDE DEF Good
  <2> QED  BY <2>4
<1>4. ASSUME NEW k \in T
      PROVE  k + 1 \in T
  <2> SUFFICES ASSUME k + 1 <= n
               PROVE  Good(k + 1)
    <3> HIDE DEF Good
    <3> QED  OBVIOUS
  <2>1. k \in Nat /\ k <= n /\ k \in 0..(n - 1) /\ k \in 0..n /\ k + 1 \in 1..n
    OBVIOUS
  <2>2. Good(k)
    <3> HIDE DEF Good
    <3> QED  BY <2>1
  <2>3. PICK t, p, q : t = ts[k + 1] /\ p = laid[k] /\ q = laid[k + 1]
    OBVIOUS
  <2>4. Body(t) /\ p \in Paints(f) /\ q = S!PaintEntity(p, t, f)
    BY <1>1, <2>1, <2>3
  <2>5. /\ p.blocked \subseteq q.blocked /\ q.blocked \subseteq p.blocked \cup S!BlockedBy({t}, f)
        /\ p.starved => q.starved
        /\ q.starved \/ S!BlockedBy({t}, f) \subseteq q.blocked
        /\ p.budget >= S!Cardinality(S!Cells(f)) => S!BlockedBy({t}, f) \subseteq q.blocked
    BY <2>4, ThingPainted
  <2>6. Upto(k + 1) = Upto(k) \cup {t}
    <3>1. \A j : j \in 1..(k + 1) <=> j \in 1..k \/ j = k + 1
      BY <2>1
    <3> HIDE DEF T
    <3> QED  BY <2>3, <3>1
  <2>7. S!BlockedBy(Upto(k + 1), f) = S!BlockedBy(Upto(k), f) \cup S!BlockedBy({t}, f)
    <3> HIDE DEF Upto
    <3> QED  BY <1>2, <2>6
  <2>8. k = 0 => p.budget = f.budget /\ t = ts[1]
    BY <1>1, <2>3 DEF Blank
  <2> HIDE DEF Upto, T
  <2>9. q.blocked \subseteq S!BlockedBy(Upto(k + 1), f)
    BY <2>2, <2>3, <2>5, <2>7
  <2>10. q.starved \/ S!BlockedBy(Upto(k + 1), f) \subseteq q.blocked
    <3>1. p.starved \/ S!BlockedBy(Upto(k), f) \subseteq p.blocked
      BY <2>2, <2>3
    <3> QED  BY <2>5, <2>7, <3>1, Zenon
  <2>11. Enough => S!BlockedBy({ts[1]}, f) \subseteq q.blocked
    <3>1. CASE k = 0
      BY <2>5, <2>8, <3>1
    <3>2. CASE k > 0
      BY <2>2, <2>3, <2>5, <3>2
    <3>3. k = 0 \/ k > 0
      BY <2>1
    <3> QED  BY <3>1, <3>2, <3>3, Zenon
  <2> QED  BY <2>3, <2>9, <2>10, <2>11
<1>5. T = Nat
  <2>1. T \subseteq Nat
    OBVIOUS
  <2> HIDE DEF T
  <2> QED  BY <1>3, <1>4, <2>1, AllNumbers
<1>6. Good(n)
  <2>1. n \in T /\ n <= n
    <3> HIDE DEF T
    <3> QED  BY <1>5
  <2> HIDE DEF Good
  <2> QED  BY <2>1
<1>7. Upto(n) = Among(ts)
  BY DEF Among
<1> QED  BY <1>1, <1>6, <1>7

LEMMA DivFurther ==
  ASSUME NEW d \in Nat \ {0}, NEW a \in Int, NEW k \in Int
  PROVE  (a + k * d) \div d = a \div d + k
<1>1. PICK q \in Int, r \in Int : q = a \div d /\ a = q * d + r /\ 0 <= r /\ r < d
  BY SMT
<1>2. ((q + k) * d + r) \div d = q + k
  BY <1>1, SMT
<1>3. a + k * d = (q + k) * d + r
  BY <1>1
<1> QED  BY <1>1, <1>2, <1>3

LEMMA SectorsFurther ==
  ASSUME NEW a \in Int, NEW k \in Int, NEW b \in Int, b = a + k * SectorCells
  PROVE  S!SectorX(b) = S!SectorX(a) + k
<1>1. PICK d \in Nat \ {0} : d = SectorCells
  BY WorldAssumption DEF WorldAssumption
<1>2. (a + k * d) \div d = a \div d + k
  BY DivFurther
<1> QED  BY <1>1, <1>2 DEF S!SectorX

\* A body that reaches into a square has a sector in common with those looked at,
\* and within the window.
LEMMA SectorAbout ==
  ASSUME NEW f, Square(f), NEW t, {t.at, t.reach} \subseteq Int, t.reach >= 0,
         NEW c \in S!Cells(f), S!Blocks(t, f, c)
  PROVE  \E sector \in S!SectorX(t.at - t.reach)..S!SectorX(t.at + t.reach) :
           /\ sector \in (S!SectorX(f.x - f.radius) - 1)..(S!SectorX(f.x + f.radius) + 1)
           /\ sector - S!SectorX(f.x) \in -kWindowMargin..kWindowMargin
<1>1. PICK x \in Int, d \in Nat, e \in Nat, a \in Int, r \in Nat, sc \in Nat \ {0}, mg \in Nat :
        /\ x = f.x /\ d = f.radius /\ e = f.inflate /\ a = t.at /\ r = t.reach
        /\ sc = SectorCells /\ mg = kWindowMargin
  BY WorldAssumption DEF WorldAssumption, Square
<1>2. c \in Int /\ x - d <= c /\ c <= x + d /\ c - a \in -(r + e)..(r + e)
  BY <1>1, SquareIsFinite DEF S!Blocks
<1>3. PICK y \in Int : a - r <= y /\ y <= a + r /\ x - d - e <= y /\ y <= x + d + e
  <2>1. CASE c < a - r
    <3>1. a - r <= c + e
      BY <1>2
    <3>2. a - r \in Int /\ a - r <= a + r /\ x - d - e <= a - r /\ a - r <= x + d + e
      BY <1>2, <2>1, <3>1
    <3> QED  BY <3>2
  <2>2. CASE c > a + r
    <3>1. a + r >= c - e
      BY <1>2
    <3>2. a + r \in Int /\ a - r <= a + r /\ x - d - e <= a + r /\ a + r <= x + d + e
      BY <1>2, <2>2, <3>1
    <3> QED  BY <3>2
  <2>3. CASE a - r <= c /\ c <= a + r
    BY <1>2, <2>3
  <2> QED  BY <1>2, <2>1, <2>2, <2>3
<1>4. PICK w \in Nat : w = mg * sc
  OBVIOUS
<1>5. e <= sc /\ d + e <= w
  BY <1>1, <1>4 DEF Square
<1>6. PICK b \in Int, g \in Int, from \in Int, to \in Int :
        /\ b = (x - d) - 1 * sc /\ g = (x + d) + 1 * sc /\ from = x - mg * sc /\ to = x + mg * sc
        /\ b <= y /\ y <= g /\ from <= y /\ y <= to
  BY <1>3, <1>4, <1>5
<1>7. \A z \in Int : S!SectorX(z) \in Int
  BY SectorsInOrder
<1>8. PICK near \in Int, far \in Int : near = x - d /\ far = x + d
  OBVIOUS
<1>9. PICK s \in Int, l \in Int, u \in Int, m \in Int :
        /\ s = S!SectorX(y) /\ l = S!SectorX(near) /\ u = S!SectorX(far) /\ m = S!SectorX(x)
  BY <1>7
<1>10. /\ S!SectorX(b) = l - 1 /\ S!SectorX(g) = u + 1
       /\ S!SectorX(from) = m - mg /\ S!SectorX(to) = m + mg
  <2>1. PICK k \in Int : k = -1 /\ b = near + k * SectorCells
    BY <1>1, <1>6, <1>8
  <2>2. PICK j \in Int : j = 1 /\ g = far + j * SectorCells
    BY <1>1, <1>6, <1>8
  <2>3. PICK h \in Int : h = -mg /\ from = x + h * SectorCells
    BY <1>1, <1>6
  <2>4. to = x + mg * SectorCells
    BY <1>1, <1>6
  <2>5. S!SectorX(b) = S!SectorX(near) + k
    BY <2>1, SectorsFurther
  <2>6. S!SectorX(g) = S!SectorX(far) + j
    BY <2>2, SectorsFurther
  <2>7. S!SectorX(from) = S!SectorX(x) + h
    BY <2>3, SectorsFurther
  <2>8. S!SectorX(to) = S!SectorX(x) + mg
    BY <2>4, SectorsFurther
  <2> QED  BY <1>9, <2>1, <2>2, <2>3, <2>5, <2>6, <2>7, <2>8
<1>11. l - 1 <= s /\ s <= u + 1
  BY <1>6, <1>9, <1>10, SectorsInOrder
<1>12. m - mg <= s /\ s <= m + mg
  BY <1>6, <1>9, <1>10, SectorsInOrder
<1>13. S!SectorX(a - r) <= s /\ s <= S!SectorX(a + r) /\ S!SectorX(a - r) \in Int /\ S!SectorX(a + r) \in Int
  BY <1>3, <1>7, <1>9, SectorsInOrder
<1>14. s \in (l - 1)..(u + 1) /\ s - m \in -mg..mg
  BY <1>11, <1>12
<1> QED  BY <1>1, <1>8, <1>9, <1>13, <1>14

\* What moves is painted first, then what stands, sector by sector.
First(f) == S!SectorX(f.x - f.radius) - 1
Last(f) == S!SectorX(f.x + f.radius) + 1
MovingAbout(f, fault) == UNION {S!MovingIn(sector, f.kinds, fault) : sector \in First(f)..Last(f)}
StandingAbout(i, f, fault) == UNION {S!StaticIn(i, sector, fault) : sector \in First(f)..Last(f)}

LEMMA SectorsNumbered ==
  ASSUME NEW f, Square(f)
  PROVE  /\ First(f) \in Int /\ Last(f) \in Int /\ Last(f) - First(f) + 1 \in Nat \ {0}
         /\ First(f)..Last(f) = {First(f) + k - 1 : k \in 1..(Last(f) - First(f) + 1)}
<1>1. PICK a \in Int, b \in Int : a = f.x - f.radius /\ b = f.x + f.radius /\ a <= b
  BY DEF Square
<1>2. PICK m \in Int, n \in Int : /\ m = S!SectorX(a) - 1 /\ n = S!SectorX(b) + 1 /\ m < n
                                  /\ m = First(f) /\ n = Last(f)
  BY <1>1, SectorsInOrder DEF First, Last
<1>3. \A s \in m..n : s - m + 1 \in 1..(n - m + 1) /\ s = m + (s - m + 1) - 1
  OBVIOUS
<1>4. \A k \in 1..(n - m + 1) : m + k - 1 \in m..n
  OBVIOUS
<1>5. n - m + 1 \in Nat \ {0}
  BY <1>2
<1>6. m..n = {m + k - 1 : k \in 1..(n - m + 1)}
  BY <1>3, <1>4
<1> QED  BY <1>2, <1>5, <1>6

LEMMA FewIn ==
  ASSUME WorldInv, NEW i, NEW sector, NEW kinds, NEW fault
  PROVE  IsFiniteSet(S!MovingIn(sector, kinds, fault)) /\ IsFiniteSet(S!StaticIn(i, sector, fault))
<1>1. IsFiniteSet(S!MovingIn(sector, kinds, fault))
  <2>1. S!MovingIn(sector, kinds, fault) \in {{}, {mover.thing}}
    BY DEF S!MovingIn
  <2>2. IsFiniteSet({}) /\ IsFiniteSet({mover.thing})
    BY FS_EmptySet, FS_Singleton, Zenon
  <2> QED  BY <2>1, <2>2
<1>2. PICK b, A : b = [s \in Slots |-> pool[s].bytes] /\ A = {b[s] : s \in Slots}
  OBVIOUS
<1>3. b \in Surjection(Slots, A)
  BY <1>2 DEF Surjection
<1>4. IsFiniteSet(A)
  BY <1>3, FS_Surjection, WorldAssumption DEF WorldAssumption
<1>5. S!StaticIn(i, sector, fault) \in SUBSET A
  BY <1>2 DEF S!StaticIn, S!Bucket
<1> QED  BY <1>1, <1>4, <1>5, FS_Subset

LEMMA FootprintIsPainted ==
  ASSUME WorldInv, NEW i, NEW f, Square(f), NEW fault
  PROVE  LET N == MovingAbout(f, fault) \cup StandingAbout(i, f, fault)
         IN  \E ms \in Seq(N), ss \in Seq(N) :
               /\ S!PaintFootprint(i, f, fault) = Painting(ms \o ss, f)
               /\ Among(ms) = MovingAbout(f, fault) /\ Among(ss) = StandingAbout(i, f, fault)
<1>1. PICK N, n, first : /\ N = MovingAbout(f, fault) \cup StandingAbout(i, f, fault)
                         /\ first = First(f) /\ n = Last(f) - First(f) + 1
  OBVIOUS
<1>2. n \in Nat \ {0} /\ First(f)..Last(f) = {first + k - 1 : k \in 1..n}
  BY <1>1, SectorsNumbered
<1>3. PICK M, R : /\ M = [k \in 1..n |-> S!SetToSeq(S!MovingIn(first + k - 1, f.kinds, fault))]
                  /\ R = [k \in 1..n |-> S!SetToSeq(S!StaticIn(i, first + k - 1, fault))]
  OBVIOUS
<1>4. ASSUME NEW k \in 1..n
      PROVE  /\ M[k] \in Seq(N) /\ Among(M[k]) = S!MovingIn(first + k - 1, f.kinds, fault)
             /\ R[k] \in Seq(N) /\ Among(R[k]) = S!StaticIn(i, first + k - 1, fault)
  <2>1. PICK A, B : /\ A = S!MovingIn(first + k - 1, f.kinds, fault)
                    /\ B = S!StaticIn(i, first + k - 1, fault)
    OBVIOUS
  <2>2. first + k - 1 \in First(f)..Last(f)
    BY <1>2
  <2>3. A \subseteq N /\ B \subseteq N
    BY <1>1, <2>1, <2>2 DEF MovingAbout, StandingAbout
  <2>4. IsFiniteSet(A) /\ IsFiniteSet(B)
    BY <2>1, FewIn
  <2>5. /\ S!SetToSeq(A) \in Seq(A) /\ Among(S!SetToSeq(A)) = A
        /\ S!SetToSeq(B) \in Seq(B) /\ Among(S!SetToSeq(B)) = B
    BY <2>4, SetInSequence
  <2>6. M[k] = S!SetToSeq(A) /\ R[k] = S!SetToSeq(B)
    BY <1>3, <2>1
  <2>7. M[k] \in Seq(N) /\ R[k] \in Seq(N)
    BY <2>3, <2>5, <2>6
  <2> QED  BY <2>1, <2>5, <2>6, <2>7
<1>5. PICK ms, ss : ms = S!FlattenSeq(M) /\ ss = S!FlattenSeq(R)
  OBVIOUS
<1>6. M \in [1..n -> Seq(N)] /\ R \in [1..n -> Seq(N)]
  BY <1>3, <1>4
<1>7. /\ ms \in Seq(N) /\ Among(ms) = UNION {Among(M[k]) : k \in 1..n}
      /\ ss \in Seq(N) /\ Among(ss) = UNION {Among(R[k]) : k \in 1..n}
  <2>1. n \in Nat /\ n > 0
    BY <1>2
  <2> QED  BY <1>5, <1>6, <2>1, LaidInOrder
<1>8. Among(ms) = MovingAbout(f, fault) /\ Among(ss) = StandingAbout(i, f, fault)
  <2>1. UNION {Among(M[k]) : k \in 1..n} = UNION {S!MovingIn(first + k - 1, f.kinds, fault) : k \in 1..n}
    BY <1>4
  <2>2. UNION {Among(R[k]) : k \in 1..n} = UNION {S!StaticIn(i, first + k - 1, fault) : k \in 1..n}
    BY <1>4
  <2>3. PICK D, B : D = First(f)..Last(f) /\ B = 1..n /\ D = {first + k - 1 : k \in B}
    BY <1>2
  <2>4. /\ \A k \in B : first + k - 1 \in D
        /\ \A sector \in D : \E k \in B : sector = first + k - 1
    BY <2>3
  <2>5. UNION {S!MovingIn(first + k - 1, f.kinds, fault) : k \in B} = MovingAbout(f, fault)
    <3>1. MovingAbout(f, fault) = UNION {S!MovingIn(sector, f.kinds, fault) : sector \in D}
      BY <2>3 DEF MovingAbout
    <3> QED  BY ONLY <2>4, <3>1
  <2>6. UNION {S!StaticIn(i, first + k - 1, fault) : k \in B} = StandingAbout(i, f, fault)
    <3>1. StandingAbout(i, f, fault) = UNION {S!StaticIn(i, sector, fault) : sector \in D}
      BY <2>3 DEF StandingAbout
    <3> QED  BY ONLY <2>4, <3>1
  <2> QED  BY <1>7, <2>1, <2>2, <2>3, <2>5, <2>6
<1>9. S!PaintFootprint(i, f, fault) = Painting(ms \o ss, f)
  <2>1. M = [k \in 1..n |-> S!SetToSeq(IF "moving" = "moving"
                                       THEN S!MovingIn(first + k - 1, f.kinds, fault)
                                       ELSE S!StaticIn(i, first + k - 1, fault))]
    BY <1>3
  <2>2. R = [k \in 1..n |-> S!SetToSeq(IF "static" = "moving"
                                       THEN S!MovingIn(first + k - 1, f.kinds, fault)
                                       ELSE S!StaticIn(i, first + k - 1, fault))]
    BY <1>3
  <2>3. S!Passes[1] = "moving" /\ S!Passes[2] = "static"
    BY DEF S!Passes
  <2> QED  BY <1>1, <1>5, <2>1, <2>2, <2>3, Zenon
           DEF S!PaintFootprint, Painting, Blank, First, Last
<1> QED  BY <1>1, <1>7, <1>8, <1>9

LEMMA BodiesAreThere ==
  ASSUME WorldInv, NEW kinds, NEW i, NEW t \in S!There(kinds) \cup S!Ghosts(i)
  PROVE  Body(t)
<1>1. \A s \in Slots : Body(pool[s].bytes)
  <2>1. \A o \in Things : Body(o)
    BY WorldAssumption DEF WorldAssumption, Somewhere, Things, S!Nothing, Body
  <2> QED  BY <2>1 DEF WorldInv
<1>2. Body(mover.thing)
  BY WorldAssumption DEF WorldAssumption, Somewhere, WorldInv, S!Nobody, S!Nothing, Body
<1> HIDE DEF Body
<1> QED  BY <1>1, <1>2 DEF S!There, S!Ghosts

\* What reaches into a square is among what is painted: what moves unless it is
\* lost, what stands unless anything is.
LEMMA ReachesIn ==
  ASSUME WorldInv, NEW f, Square(f), NEW i, i = S!EnsureWindow(f.x), NEW fault, NEW t,
         {t.at, t.reach} \subseteq Int, t.reach >= 0, NEW c \in S!Cells(f), S!Blocks(t, f, c)
  PROVE  /\ t = mover.thing /\ mover.kind \in f.kinds /\ "moving" \notin fault.lost =>
              t \in MovingAbout(f, fault)
         /\ fault.lost = {} /\ t.reach <= kMaxSpread =>
              \A s \in Slots : t = pool[s].bytes /\ i.at[s] = t => t \in StandingAbout(i, f, fault)
<1>1. PICK sector \in S!SectorX(t.at - t.reach)..S!SectorX(t.at + t.reach) :
        /\ sector \in First(f)..Last(f)
        /\ sector - S!SectorX(f.x) \in -kWindowMargin..kWindowMargin
  BY SectorAbout DEF First, Last
<1>2. ASSUME t = mover.thing, mover.kind \in f.kinds, "moving" \notin fault.lost
      PROVE  t \in MovingAbout(f, fault)
  <2>1. S!Listed(mover.thing, sector)
    BY <1>1, <1>2 DEF S!Listed
  <2>2. t \in S!MovingIn(sector, f.kinds, fault)
    BY <1>2, <2>1 DEF S!MovingIn
  <2> QED  BY <1>1, <2>2 DEF MovingAbout
<1>3. ASSUME fault.lost = {}, t.reach <= kMaxSpread, NEW s \in Slots, t = pool[s].bytes, i.at[s] = t
      PROVE  t \in StandingAbout(i, f, fault)
  <2>1. S!Spread(t) = t.reach
    BY <1>3, WorldAssumption DEF WorldAssumption, S!Spread, S!Lesser
  <2>2. S!Reaches(i.at[s], sector)
    BY <1>1, <1>3, <2>1 DEF S!Reaches
  <2>3. S!InWindow(i, sector)
    <3>1. PICK n \in Int : n = S!SectorX(f.x) /\ f.x \in Int
      BY SectorsInOrder DEF Square
    <3>2. PICK o \in Int : o = i.x0 /\ n - o \in kWindowMargin..(kWindow - kWindowMargin - 1)
      BY <3>1, WindowIsAbout
    <3>3. sector \in Int /\ sector - n \in -kWindowMargin..kWindowMargin
      <4>1. sector \in Int
        BY <1>1
      <4> QED  BY <1>1, <3>1, <4>1
    <3>4. sector - o \in 0..(kWindow - 1)
      BY <3>2, <3>3, WorldAssumption DEF WorldAssumption
    <3> QED  BY <3>2, <3>4 DEF S!InWindow
  <2>4. t # S!Nothing
    BY DEF S!Nothing
  <2>5. t \in S!StaticIn(i, sector, fault)
    BY <1>3, <2>2, <2>3, <2>4 DEF S!StaticIn, S!Bucket
  <2> QED  BY <1>1, <2>5 DEF StandingAbout
<1> QED  BY <1>2, <1>3

LEMMA FootprintsMatch ==
  ASSUME WorldInv
  PROVE  S!FootprintsMatchTheWorld
<1> SUFFICES ASSUME NEW f \in Footprints, NEW fault \in S!FootFaults
             PROVE  LET i == S!EnsureWindow(f.x)
                        p == S!PaintFootprint(i, f, fault)
                    IN  /\ p.blocked \subseteq S!BlockedBy(S!There(f.kinds) \cup S!Ghosts(i), f)
                        /\ \/ p.starved \/ fault # S!NoFault
                           \/ S!BlockedBy(S!Settled(i, f.kinds), f) \subseteq p.blocked
                        /\ /\ mover.kind \in f.kinds /\ "moving" \notin fault.lost
                           /\ f.budget >= S!Cardinality(S!Cells(f))
                           => S!BlockedBy({mover.thing}, f) \subseteq p.blocked
  BY DEF S!FootprintsMatchTheWorld
<1>1. Square(f) /\ f.x \in Int /\ S!Nobody.kind \notin f.kinds
  BY WorldAssumption DEF WorldAssumption, Square, S!Nobody
<1>2. PICK i : i = S!EnsureWindow(f.x)
  OBVIOUS
<1>3. PICK N, seen : N = MovingAbout(f, fault) \cup StandingAbout(i, f, fault)
                     /\ seen = S!There(f.kinds) \cup S!Ghosts(i)
  OBVIOUS
<1>4. N \subseteq seen
  <2> SUFFICES ASSUME NEW t \in N PROVE t \in seen
    OBVIOUS
  <2>1. PICK sector : t \in S!StaticIn(i, sector, fault) \cup S!MovingIn(sector, f.kinds, fault)
    BY <1>3 DEF MovingAbout, StandingAbout
  <2> QED  BY <1>1, <1>2, <1>3, <2>1, LookedAtIsThere
<1>5. \A t \in seen : Body(t)
  BY <1>3, BodiesAreThere
<1>6. PICK ms \in Seq(N), ss \in Seq(N) :
        /\ S!PaintFootprint(i, f, fault) = Painting(ms \o ss, f)
        /\ Among(ms) = MovingAbout(f, fault) /\ Among(ss) = StandingAbout(i, f, fault)
  BY <1>1, <1>3, FootprintIsPainted
<1>i. PICK ts : ts = ms \o ss
  OBVIOUS
<1>7. PICK n \in Nat : ts \in Seq(N) /\ DOMAIN ts = 1..n /\ Among(ts) = N
  <2>1. ts \in Seq(N) /\ Among(ts) = N
    BY <1>3, <1>6, <1>i, JoinedAmong
  <2> QED  BY <2>1
<1>8. \A k \in 1..n : Body(ts[k])
  BY <1>4, <1>5, <1>7
<1>9. PICK p : p = S!PaintFootprint(i, f, fault) /\ p = Painting(ts, f)
  BY <1>6, <1>i
<1>10. /\ p.blocked \subseteq S!BlockedBy(N, f)
       /\ p.starved \/ S!BlockedBy(N, f) \subseteq p.blocked
       /\ n > 0 /\ f.budget >= S!Cardinality(S!Cells(f)) => S!BlockedBy({ts[1]}, f) \subseteq p.blocked
  BY <1>1, <1>7, <1>8, <1>9, ThingsPainted
<1>11. p.blocked \subseteq S!BlockedBy(seen, f)
  <2>1. S!BlockedBy(N, f) \subseteq S!BlockedBy(seen, f)
    BY <1>4 DEF S!BlockedBy
  <2> QED  BY <1>10, <2>1
<1>12. ASSUME fault = S!NoFault
       PROVE  S!BlockedBy(S!Settled(i, f.kinds), f) \subseteq S!BlockedBy(N, f)
  <2> SUFFICES ASSUME NEW c \in S!Cells(f), NEW t \in S!Settled(i, f.kinds), S!Blocks(t, f, c)
               PROVE  t \in N
    BY DEF S!BlockedBy
  <2>1. t \in S!There(f.kinds) /\ t.reach <= kMaxSpread /\ fault.lost = {} /\ "moving" \notin fault.lost
    BY <1>12 DEF S!Settled, S!NoFault
  <2>2. {t.at, t.reach} \subseteq Int /\ t.reach >= 0
    BY <1>1, <2>1, WorldAssumption
       DEF S!There, WorldInv, WorldAssumption, Somewhere
  <2>3. CASE mover.kind \in f.kinds /\ t = mover.thing
    BY <1>1, <1>2, <1>3, <2>1, <2>2, <2>3, ReachesIn
  <2>4. ASSUME NEW s \in Slots, pool[s].in, t = pool[s].bytes
        PROVE  t \in N
    <3>1. i.at[s] = t
      BY <1>1, <1>2, <2>4, WindowIsAbout DEF S!Settled
    <3> QED  BY <1>1, <1>2, <1>3, <2>1, <2>2, <2>4, <3>1, ReachesIn
  <2> QED  BY <2>1, <2>3, <2>4 DEF S!There
<1>13. ASSUME mover.kind \in f.kinds, "moving" \notin fault.lost,
              f.budget >= S!Cardinality(S!Cells(f))
       PROVE  S!BlockedBy({mover.thing}, f) \subseteq p.blocked
  <2>1. CASE S!BlockedBy({mover.thing}, f) = {}
    BY <2>1
  <2>2. CASE S!BlockedBy({mover.thing}, f) # {}
    <3>1. PICK c \in S!Cells(f) : S!Blocks(mover.thing, f, c)
      BY <2>2 DEF S!BlockedBy
    <3>2. {mover.thing.at, mover.thing.reach} \subseteq Int /\ mover.thing.reach >= 0
      BY <1>1, <1>13, WorldAssumption DEF WorldInv, WorldAssumption, Somewhere
    <3>3. mover.thing \in Among(ms)
      BY <1>1, <1>2, <1>6, <1>13, <3>1, <3>2, ReachesIn
    <3>4. PICK k \in DOMAIN ms : ms[k] = mover.thing
      BY <3>3 DEF Among
    <3>5. 1 \in DOMAIN ms /\ ts[1] = ms[1] /\ n > 0
        BY <1>6, <1>i, <1>7, <3>4
    <3>6. ms[1] \in MovingAbout(f, fault)
      BY <1>6, <3>5 DEF Among
    <3>7. ms[1] = mover.thing
      BY <3>6 DEF MovingAbout, S!MovingIn
    <3> QED  BY <1>10, <1>13, <3>5, <3>7
  <2> QED  BY <2>1, <2>2
<1>14. \/ p.starved \/ fault # S!NoFault
       \/ S!BlockedBy(S!Settled(i, f.kinds), f) \subseteq p.blocked
  BY <1>10, <1>12
<1> QED  BY <1>2, <1>3, <1>9, <1>11, <1>13, <1>14

\* A footprint shows what stands in its band and nothing else, owns to what is
\* missing, and does not miss what moves while there is budget (collision.hpp, "what
\* came after the cut is missing from the square, and the caller should know"),
\* for every square within the margin of the window and every world.
THEOREM FootprintsAreOfTheWorld == FrameSpec => []FootprintsMatchTheWorld
<1>1. (what = "world" => WorldInv) => FootprintsMatchTheWorld
  BY FootprintsMatch DEF FootprintsMatchTheWorld
<1> QED  BY <1>1, WorldInvariant, PTL

-----------------------------------------------------------------------------
(* The procedures of the window.                                           *)

Callees == Neighbours \cup {"ours", "game", "nobody"}
Names == {"down", "enter", "up", "lost", "alt", "paint", "probe"}
UnderWay == [m : Names, at : Callees, heads : 0..1]

\* A message that is beyond the head of the chain has been handled there, or one like
\* it is being handled there, and none of these is kept from the game.
Passed ==
  /\ initialised => \A n \in 1..Len(under) :
       \/ under[n].m = "probe" \/ under[n].at \in {"ours", registered}
       \/ \E k \in 1..n : under[k].m = under[n].m /\ under[k].heads = 1
  /\ \A n \in 1..Len(under) : under[n].heads = 1 =>
       /\ under[n].m # "alt" /\ ~(under[n].m = "lost" /\ background)
       /\ ~(under[n].m \in W!Presses /\ mode = "menu")

\* What is sent while another message is handled is of no key, and the first of them
\* all tells what has just been done to it.
Keyed ==
  /\ \A n \in 2..Len(under) : under[n].m \in {"alt", "paint"}
  /\ Len(under) > 0 /\ under[1].m = "down" => pressed /\ front
  /\ held /\ ~front => excused \/ (Len(under) > 0 /\ under[1].m = "lost")
  /\ held /\ ~pressed => excused \/ (Len(under) > 0 /\ under[1].m = "up")

WindowTypes ==
  /\ under \in Seq(UnderWay) /\ Len(under) <= MaxNested
  /\ {registered, previous, headNext} \subseteq Callees /\ behind \in [Neighbours -> Callees]
  /\ {initialised, front, pressed, held, excused, background} \subseteq BOOLEAN

\* Whoever hooked, the head of the chain is called first, or by who is.
AtTheHead ==
  initialised => \/ registered = "ours"
                 \/ registered \in Neighbours /\ behind[registered] = "ours"

WindowInv == WindowTypes /\ AtTheHead /\ Passed /\ Keyed

-----------------------------------------------------------------------------
(* What the head is handling.                                              *)

LEMMA LeastNat ==
  ASSUME NEW T, T \subseteq Nat, T # {}
  PROVE  \E n \in T : \A m \in T : n <= m
<1>1. PICK R : R = OpToRel(<, Nat)
  OBVIOUS
<1>2. IsWellFoundedOn(R, Nat)
  BY <1>1, NatLessThanWellFounded
<1>3. PICK n \in T : \A m \in T : ~(<<m, n>> \in R)
  BY <1>2, WFMin
<1>4. \A m \in T : ~(m < n)
  BY <1>1, <1>3 DEF OpToRel
<1> QED  BY <1>3, <1>4

\* The recursion of Handling has a solution, however much is under way.
LEMMA HandlingExists ==
  ASSUME NEW L \in Nat, NEW u
  PROVE  \E f : f = [n \in 0..L |-> IF n = 0 THEN <<>>
                                    ELSE f[n - 1] \o [i \in 1..u[n].heads |-> u[n].m]]
<1> DEFINE And(s, n) == s \o [i \in 1..u[n].heads |-> u[n].m]
           Solves(f, l) == f = [n \in 0..l |-> IF n = 0 THEN <<>> ELSE And(f[n - 1], n)]
           T == {l \in Nat : ~\E f : Solves(f, l)}
<1> SUFFICES ASSUME T # {} PROVE FALSE
  OBVIOUS
<1> HIDE DEF And
<1>1. PICK l \in T : \A m \in T : l <= m
  <2>1. T \subseteq Nat
    OBVIOUS
  <2> HIDE DEF T
  <2> QED  BY <2>1, LeastNat
<1>2. CASE l = 0
  <2>1. PICK f : f = [n \in 0..0 |-> <<>>]
    OBVIOUS
  <2>2. Solves(f, 0)
    BY <2>1
  <2> QED  BY <1>1, <1>2, <2>2
<1>3. CASE l > 0
  <2>1. PICK f : Solves(f, l - 1)
    <3>1. l - 1 \in Nat /\ ~(l <= l - 1)
      BY <1>1, <1>3
    <3>2. l - 1 \notin T
      BY <1>1, <3>1
    <3> QED  BY <3>1, <3>2
  <2>2. PICK h : h = [n \in 0..l |-> IF n < l THEN f[n] ELSE And(f[l - 1], l)]
    OBVIOUS
  <2>3. \A n \in 0..l - 1 : h[n] = f[n]
    BY <1>1, <2>2
  <2>4. \A n \in 0..l : h[n] = IF n = 0 THEN <<>> ELSE And(h[n - 1], n)
    <3>1. ASSUME NEW n \in 0..l, n = 0
          PROVE  h[n] = <<>>
      BY <1>1, <1>3, <2>1, <2>3, <3>1
    <3>2. ASSUME NEW n \in 1..l, n < l
          PROVE  h[n] = And(h[n - 1], n)
      <4>1. h[n] = f[n] /\ h[n - 1] = f[n - 1] /\ n \in 0..l - 1 /\ n # 0
        BY <1>1, <2>3, <3>2
      <4>2. f[n] = And(f[n - 1], n)
        BY <2>1, <4>1
      <4> QED  BY <4>1, <4>2
    <3>3. h[l] = And(h[l - 1], l)
      <4>1. l \in 0..l /\ l - 1 \in 0..l - 1 /\ l # 0
        BY <1>1, <1>3
      <4>2. h[l] = And(f[l - 1], l) /\ h[l - 1] = f[l - 1]
        BY <2>2, <2>3, <4>1
      <4> QED  BY <4>2
    <3>4. \A n \in 0..l : n = 0 \/ n = l \/ (n \in 1..l /\ n < l)
      BY <1>1
    <3> QED  BY <1>3, <3>1, <3>2, <3>3, <3>4
  <2>5. h = [n \in 0..l |-> h[n]]
    BY <2>2
  <2>6. Solves(h, l)
    BY <2>4, <2>5
  <2> QED  BY <1>1, <2>6
<1> QED  BY <1>1, <1>2, <1>3

LEMMA HandlingSolves ==
  ASSUME Len(under) \in Nat
  PROVE  W!Handling = [n \in 0..Len(under) |->
                         IF n = 0 THEN <<>>
                         ELSE W!Handling[n - 1] \o [i \in 1..under[n].heads |-> under[n].m]]
BY HandlingExists DEF W!Handling

LEMMA HandlingStarts ==
  ASSUME Len(under) \in Nat
  PROVE  W!Handling[0] = <<>>
<1>1. 0 \in 0..Len(under)
  OBVIOUS
<1>2. PICK g : g = [n \in 0..Len(under) |->
                     IF n = 0 THEN <<>>
                     ELSE W!Handling[n - 1] \o [i \in 1..under[n].heads |-> under[n].m]]
  OBVIOUS
<1>3. g[0] = <<>>
  BY <1>1, <1>2
<1>4. W!Handling = g
  BY <1>2, HandlingSolves, Zenon
<1> QED  BY <1>3, <1>4

LEMMA HandlingGoesOn ==
  ASSUME Len(under) \in Nat, NEW n \in 1..Len(under)
  PROVE  W!Handling[n] = W!Handling[n - 1] \o [i \in 1..under[n].heads |-> under[n].m]
<1>1. n \in 0..Len(under) /\ n # 0
  OBVIOUS
<1>2. PICK g : g = [k \in 0..Len(under) |->
                     IF k = 0 THEN <<>>
                     ELSE W!Handling[k - 1] \o [i \in 1..under[k].heads |-> under[k].m]]
  OBVIOUS
<1>3. g[n] = W!Handling[n - 1] \o [i \in 1..under[n].heads |-> under[n].m]
  BY <1>1, <1>2
<1>4. W!Handling = g
  BY <1>2, HandlingSolves, Zenon
<1> QED  BY <1>3, <1>4

\* The names that are remembered are of messages the head is handling, and a message it
\* is handling is the last remembered.
Recalled(n) ==
  /\ W!Handling[n] \in Seq(Names) /\ Len(W!Handling[n]) <= n
  /\ \A i \in 1..Len(W!Handling[n]) :
       \E k \in 1..n : W!Handling[n][i] = under[k].m /\ under[k].heads = 1
  /\ n > 0 => (under[n].heads = 1 =>
       \E i \in 1..Len(W!Handling[n]) : W!Handling[n][i] = under[n].m)

LEMMA RecalledNone ==
  ASSUME WindowTypes
  PROVE  Recalled(0)
<1>1. Len(under) \in Nat
  BY DEF WindowTypes
<1>2. W!Handling[0] = <<>>
  BY <1>1, HandlingStarts
<1> QED  BY <1>2 DEF Recalled

LEMMA RecalledFurther ==
  ASSUME WindowTypes, NEW n \in 1..Len(under), Recalled(n - 1)
  PROVE  Recalled(n)
<1>1. Len(under) \in Nat /\ under[n] \in UnderWay
  BY DEF WindowTypes
<1>2. PICK s, x, h : s = W!Handling[n - 1] /\ x = under[n].m /\ h = under[n].heads
  OBVIOUS
<1>3. x \in Names /\ h \in 0..1
  BY <1>1, <1>2 DEF UnderWay
<1>4. PICK t : t = [i \in 1..h |-> x]
  OBVIOUS
<1>5. PICK u : u = s \o t
  OBVIOUS
<1>6. W!Handling[n] = u
  <2>1. W!Handling[n] = W!Handling[n - 1] \o [i \in 1..under[n].heads |-> under[n].m]
    BY <1>1, HandlingGoesOn
  <2> QED  BY <1>2, <1>4, <1>5, <2>1
<1>7. /\ s \in Seq(Names) /\ Len(s) \in Nat /\ Len(s) <= n - 1
      /\ \A i \in 1..Len(s) : \E k \in 1..n - 1 : s[i] = under[k].m /\ under[k].heads = 1
  <2>1. s \in Seq(Names) /\ Len(s) <= n - 1
    BY <1>2 DEF Recalled
  <2>2. \A i \in 1..Len(s) : \E k \in 1..n - 1 : s[i] = under[k].m /\ under[k].heads = 1
    BY <1>2 DEF Recalled
  <2> QED  BY <2>1, <2>2
<1>8. CASE h = 0
  <2>1. t = <<>>
    BY <1>4, <1>8
  <2>2. u = s
    BY <1>5, <1>7, <2>1
  <2>3. \A i \in 1..Len(s) : \E k \in 1..n : s[i] = under[k].m /\ under[k].heads = 1
    BY <1>7
  <2> QED  BY <1>2, <1>6, <1>7, <1>8, <2>2, <2>3 DEF Recalled
<1>9. CASE h = 1
  <2>1. t = <<x>>
    BY <1>4, <1>9
  <2>2. u = Append(s, x)
    BY <1>3, <1>5, <1>7, <2>1
  <2>3. /\ u \in Seq(Names) /\ Len(u) = Len(s) + 1 /\ u[Len(s) + 1] = x
        /\ \A i \in 1..Len(s) : u[i] = s[i]
    BY <1>3, <1>7, <2>2
  <2>4. ASSUME NEW i \in 1..Len(u)
        PROVE  \E k \in 1..n : u[i] = under[k].m /\ under[k].heads = 1
    <3>1. CASE i \in 1..Len(s)
      BY <1>7, <2>3, <3>1
    <3>2. CASE i = Len(s) + 1
      <4>1. u[i] = under[n].m /\ under[n].heads = 1 /\ n \in 1..n
        BY <1>2, <1>9, <2>3, <3>2
      <4> QED  BY <4>1
    <3> QED  BY <1>7, <2>3, <3>1, <3>2
  <2>5. Len(s) + 1 \in 1..Len(u) /\ Len(u) <= n
    BY <1>7, <2>3
  <2>6. \E i \in 1..Len(u) : u[i] = under[n].m
    BY <1>2, <2>3, <2>5
  <2> QED  BY <1>6, <2>3, <2>4, <2>5, <2>6 DEF Recalled
<1> QED  BY <1>3, <1>8, <1>9

LEMMA AllRecalled ==
  ASSUME WindowTypes
  PROVE  Recalled(Len(under))
<1>1. Len(under) \in Nat
  BY DEF WindowTypes
<1> DEFINE T == {n \in 0..Len(under) : ~Recalled(n)}
<1> SUFFICES ASSUME T # {} PROVE FALSE
  BY <1>1
<1>2. PICK n \in T : \A m \in T : n <= m
  <2>1. T \subseteq Nat
    BY <1>1
  <2> HIDE DEF T
  <2> QED  BY <2>1, LeastNat
<1>3. n # 0
  BY <1>2, RecalledNone
<1>4. n \in 1..Len(under) /\ n - 1 \in 0..Len(under) /\ ~(n <= n - 1)
  BY <1>1, <1>2, <1>3
<1>5. Recalled(n - 1)
  BY <1>2, <1>4
<1> QED  BY <1>2, <1>4, <1>5, RecalledFurther

\* A message is known again exactly by one of its name being handled.
LEMMA KnownAgain ==
  ASSUME WindowTypes, Len(under) > 0
  PROVE  /\ under[Len(under)].heads = 1 => W!Handled
         /\ W!Handled => \E k \in 1..Len(under) :
              under[k].m = under[Len(under)].m /\ under[k].heads = 1
<1>1. PICK L \in Nat : L = Len(under)
  BY DEF WindowTypes
<1>2. PICK s : s = W!Handling[L]
  OBVIOUS
<1>3. /\ s \in Seq(Names) /\ Len(s) <= L /\ Len(s) \in Nat
      /\ \A i \in 1..Len(s) : \E k \in 1..L : s[i] = under[k].m /\ under[k].heads = 1
      /\ under[L].heads = 1 => \E i \in 1..Len(s) : s[i] = under[L].m
  BY <1>1, <1>2, AllRecalled DEF Recalled
<1>4. Len(s) <= kFrames /\ kFrames \in Nat
  BY <1>1, <1>3, FrameAssumption DEF FrameAssumption, WindowTypes
<1>5. W!Frames = SubSeq(s, 1, Len(s))
  <2>1. W!Frames = SubSeq(s, 1, IF Len(s) < kFrames THEN Len(s) ELSE kFrames)
    BY <1>1, <1>2 DEF W!Frames
  <2>2. (IF Len(s) < kFrames THEN Len(s) ELSE kFrames) = Len(s)
    BY <1>3, <1>4
  <2> QED  BY <2>1, <2>2
<1>6. W!Frames = s
  BY <1>3, <1>5
<1>7. DOMAIN s = 1..Len(s)
  BY <1>3
<1> QED  BY <1>1, <1>3, <1>6, <1>7 DEF W!Handled, W!Top

-----------------------------------------------------------------------------
(* A message on its way.                                                   *)

LEMMA InnermostEnds ==
  ASSUME WindowTypes, Len(under) > 0, W!Ends
  PROVE  /\ under' \in Seq(UnderWay) /\ Len(under') = Len(under) - 1
         /\ \A n \in 1..Len(under') : under'[n] = under[n]
<1>1. PICK L \in Nat : L = Len(under) /\ L > 0
  BY DEF WindowTypes
<1>2. PICK s : s = SubSeq(under, 1, L - 1)
  OBVIOUS
<1>3. 1 \in 1..Len(under) + 1 /\ L - 1 \in 1 - 1..Len(under)
  BY <1>1
<1>4. /\ s \in Seq(UnderWay) /\ Len(s) = IF 1 <= L - 1 THEN (L - 1) - 1 + 1 ELSE 0
      /\ \A n \in 1..(L - 1) - 1 + 1 : s[n] = under[1 + n - 1]
  BY <1>2, <1>3, SubSeqProperties DEF WindowTypes
<1>5. Len(s) = L - 1 /\ \A n \in 1..Len(s) : s[n] = under[n]
  <2>1. Len(s) = L - 1
    BY <1>1, <1>4
  <2>2. ASSUME NEW n \in 1..L - 1
        PROVE  s[n] = under[n]
    <3>1. n \in 1..(L - 1) - 1 + 1 /\ 1 + n - 1 = n
      BY <1>1
    <3> QED  BY <1>4, <3>1
  <2> QED  BY <2>1, <2>2
<1>6. under' = s
  BY <1>1, <1>2 DEF W!Ends
<1> QED  BY <1>1, <1>4, <1>5, <1>6

LEMMA InnermostGoes ==
  ASSUME WindowTypes, Len(under) > 0, NEW x \in Callees, W!GoTo(x)
  PROVE  /\ under' \in Seq(UnderWay) /\ Len(under') = Len(under)
         /\ \A n \in 1..Len(under) : /\ under'[n].m = under[n].m /\ under'[n].heads = under[n].heads
                                     /\ n # Len(under) => under'[n].at = under[n].at
         /\ under'[Len(under)].at = x
<1>1. PICK L \in Nat : L = Len(under) /\ L > 0
  BY DEF WindowTypes
<1>2. under[L] \in UnderWay /\ L \in 1..L
  BY <1>1 DEF WindowTypes
<1>3. PICK r : r = [under[L] EXCEPT !.at = x]
  OBVIOUS
<1>4. r \in UnderWay /\ r.m = under[L].m /\ r.heads = under[L].heads /\ r.at = x
  BY <1>2, <1>3 DEF UnderWay
<1>5. under' = [under EXCEPT ![L] = r]
  BY <1>1, <1>3 DEF W!GoTo
<1> QED  BY <1>1, <1>2, <1>4, <1>5 DEF WindowTypes

\* The head handles it, and hands it on.
LEMMA InnermostIsHandled ==
  ASSUME WindowTypes, Len(under) > 0, under[Len(under)].heads = 0, NEW x \in Callees,
         under' = [under EXCEPT ![Len(under)].heads = @ + 1, ![Len(under)].at = x]
  PROVE  /\ under' \in Seq(UnderWay) /\ Len(under') = Len(under)
         /\ \A n \in 1..Len(under) : /\ under'[n].m = under[n].m
                                     /\ n # Len(under) => under'[n] = under[n]
         /\ under'[Len(under)].heads = 1
<1>1. PICK L \in Nat : L = Len(under) /\ L > 0
  BY DEF WindowTypes
<1>2. under[L] \in UnderWay /\ L \in 1..L /\ under[L].heads = 0
  BY <1>1 DEF WindowTypes
<1>3. PICK r, h : r = [h EXCEPT !.at = x] /\ h = [under[L] EXCEPT !.heads = @ + 1]
  OBVIOUS
<1>4. r \in UnderWay /\ r.m = under[L].m /\ r.heads = 1
  <2>1. h \in UnderWay /\ h.m = under[L].m /\ h.heads = 1
    BY <1>2, <1>3 DEF UnderWay
  <2> QED  BY <1>2, <1>3, <2>1 DEF UnderWay
<1>5. under' = [under EXCEPT ![L] = r]
  BY <1>1, <1>3 DEF WindowTypes
<1> QED  BY <1>1, <1>2, <1>4, <1>5 DEF WindowTypes

LEMMA OneMore ==
  ASSUME WindowTypes, NEW m \in Names, W!Arrive(m)
  PROVE  /\ under' \in Seq(UnderWay) /\ Len(under') = Len(under) + 1
         /\ \A n \in 1..Len(under) : under'[n] = under[n]
         /\ under'[Len(under) + 1].m = m /\ under'[Len(under) + 1].at = registered
         /\ under'[Len(under) + 1].heads = 0
<1>1. PICK r : r = W!Message(m, registered)
  OBVIOUS
<1>2. r \in UnderWay /\ r.m = m /\ r.at = registered /\ r.heads = 0
  BY <1>1 DEF W!Message, UnderWay, WindowTypes
<1>3. under' = Append(under, r)
  BY <1>1 DEF W!Arrive
<1> QED  BY <1>2, <1>3 DEF WindowTypes

\* What is under way is where it was, or has gone where it may.
LEMMA PassedKeeps ==
  ASSUME WindowTypes, Passed, UNCHANGED <<initialised, registered, background, mode>>,
         Len(under') \in Nat, Len(under') <= Len(under),
         \A n \in 1..Len(under') :
           /\ under'[n].m = under[n].m /\ under'[n].heads = under[n].heads
           /\ \/ under'[n].at = under[n].at
              \/ initialised => \/ under[n].m = "probe" \/ under'[n].at \in {"ours", registered}
                                \/ \E k \in 1..n : under[k].m = under[n].m /\ under[k].heads = 1
  PROVE  Passed'
<1>1. \A n \in 1..Len(under') : n \in 1..Len(under) /\ \A k \in 1..n : k \in 1..Len(under')
  BY DEF WindowTypes
<1>2. ASSUME initialised', NEW n \in 1..Len(under')
      PROVE  \/ under'[n].m = "probe" \/ under'[n].at \in {"ours", registered'}
             \/ \E k \in 1..n : under'[k].m = under'[n].m /\ under'[k].heads = 1
  <2>1. \/ under[n].m = "probe" \/ under'[n].at \in {"ours", registered}
        \/ \E k \in 1..n : under[k].m = under[n].m /\ under[k].heads = 1
    BY <1>1, <1>2 DEF Passed
  <2>2. \A k \in 1..n : under'[k].m = under[k].m /\ under'[k].heads = under[k].heads
    BY <1>1
  <2>3. n \in 1..n
    OBVIOUS
  <2> QED  BY <2>1, <2>2, <2>3
<1>3. ASSUME NEW n \in 1..Len(under'), under'[n].heads = 1
      PROVE  /\ under'[n].m # "alt" /\ ~(under'[n].m = "lost" /\ background')
             /\ ~(under'[n].m \in W!Presses' /\ mode' = "menu")
  BY <1>1, <1>3 DEF Passed, W!Presses
<1> QED  BY <1>2, <1>3 DEF Passed

LEMMA PassedHandled ==
  ASSUME WindowTypes, Passed, UNCHANGED <<initialised, registered, background, mode>>,
         Len(under) > 0, ~W!Kept(under[Len(under)].m),
         Len(under') = Len(under), under'[Len(under)].heads = 1,
         \A n \in 1..Len(under) : under'[n].m = under[n].m /\ (n # Len(under) => under'[n] = under[n])
  PROVE  Passed'
<1>1. PICK L \in Nat : L = Len(under) /\ L > 0
  BY DEF WindowTypes
<1>2. ASSUME initialised', NEW n \in 1..Len(under')
      PROVE  \/ under'[n].m = "probe" \/ under'[n].at \in {"ours", registered'}
             \/ \E k \in 1..n : under'[k].m = under'[n].m /\ under'[k].heads = 1
  <2>1. CASE n = L
    <3>1. n \in 1..n /\ under'[n].heads = 1
      BY <1>1, <2>1
    <3> QED  BY <3>1
  <2>2. CASE n # L
    <3>1. n \in 1..L /\ \A k \in 1..n : k \in 1..L /\ k # L
      BY <1>1, <2>2
    <3>2. under'[n] = under[n] /\ \A k \in 1..n : under'[k] = under[k]
      BY <1>1, <2>2, <3>1
    <3>3. \/ under[n].m = "probe" \/ under[n].at \in {"ours", registered}
          \/ \E k \in 1..n : under[k].m = under[n].m /\ under[k].heads = 1
      BY <1>1, <1>2, <3>1 DEF Passed
    <3> QED  BY <3>2, <3>3
  <2> QED  BY <2>1, <2>2
<1>3. ASSUME NEW n \in 1..Len(under'), under'[n].heads = 1
      PROVE  /\ under'[n].m # "alt" /\ ~(under'[n].m = "lost" /\ background')
             /\ ~(under'[n].m \in W!Presses' /\ mode' = "menu")
  <2>1. CASE n = L
    BY <1>1, <2>1 DEF W!Kept, W!Presses
  <2>2. CASE n # L
    BY <1>1, <1>3, <2>2 DEF Passed, W!Presses
  <2> QED  BY <2>1, <2>2
<1> QED  BY <1>2, <1>3 DEF Passed

LEMMA KeyedStays ==
  ASSUME WindowTypes, Keyed, Len(under') = Len(under),
         \A n \in 1..Len(under) : under'[n].m = under[n].m, UNCHANGED <<front, pressed, held, excused>>
  PROVE  Keyed'
<1>1. Len(under) \in Nat
  BY DEF WindowTypes
<1>2. Len(under) > 0 => under'[1].m = under[1].m
  BY <1>1
<1>3. \A n \in 2..Len(under) : n \in 1..Len(under)
  BY <1>1
<1> QED  BY <1>2, <1>3 DEF Keyed

\* A message is over, and what the game holds for good is excused with it.
LEMMA KeyedLeaves ==
  ASSUME WindowTypes, Keyed, Len(under) > 0, Len(under') = Len(under) - 1,
         \A n \in 1..Len(under') : under'[n] = under[n], UNCHANGED <<front, pressed>>,
         held' => held,
         held' => (excused \/ under[Len(under)].m \in {"up", "lost"} => excused')
  PROVE  Keyed'
<1>1. PICK L \in Nat : L = Len(under) /\ L > 0
  BY DEF WindowTypes
<1>2. \A n \in 2..L - 1 : n \in 2..L /\ n \in 1..L - 1
  BY <1>1
<1>3. \A n \in 2..Len(under') : under'[n].m \in {"alt", "paint"}
  BY <1>1, <1>2 DEF Keyed
<1>4. L > 1 => Len(under') > 0 /\ under'[1] = under[1]
  BY <1>1
<1>5. L = 1 => Len(under') = 0
  BY <1>1
<1>6. L = 1 \/ L > 1
  BY <1>1
<1>7. Len(under') > 0 => L > 1
  BY <1>1
<1>8. Len(under') > 0 /\ under'[1].m = "down" => pressed' /\ front'
  BY <1>1, <1>4, <1>7 DEF Keyed
<1>9. held' /\ ~front' => excused' \/ (Len(under') > 0 /\ under'[1].m = "lost")
  <2> SUFFICES ASSUME held', ~front', ~excused'
               PROVE  Len(under') > 0 /\ under'[1].m = "lost"
    OBVIOUS
  <2>1. ~excused /\ under[L].m # "lost"
    BY <1>1
  <2>2. under[1].m = "lost"
    BY <2>1 DEF Keyed
  <2> QED  BY <1>4, <1>6, <2>1, <2>2
<1>10. held' /\ ~pressed' => excused' \/ (Len(under') > 0 /\ under'[1].m = "up")
  <2> SUFFICES ASSUME held', ~pressed', ~excused'
               PROVE  Len(under') > 0 /\ under'[1].m = "up"
    OBVIOUS
  <2>1. ~excused /\ under[L].m # "up"
    BY <1>1
  <2>2. under[1].m = "up"
    BY <2>1 DEF Keyed
  <2> QED  BY <1>4, <1>6, <2>1, <2>2
<1> QED  BY <1>3, <1>8, <1>9, <1>10 DEF Keyed

LEMMA HeadKeeps ==
  ASSUME WindowInv, W!AtOurs
  PROVE  WindowInv'
<1>1. PICK L \in Nat : L = Len(under) /\ L > 0
  BY EmptySeq DEF WindowInv, WindowTypes, W!AtOurs, W!Quiet
<1>2. /\ UNCHANGED <<registered, behind, previous, headNext, initialised, mode, background, front,
                     pressed, held>>
      /\ W!Top = under[L] /\ {previous, headNext} \subseteq Callees
  BY <1>1 DEF W!AtOurs, W!chain, W!Top, WindowInv, WindowTypes
<1>3. AtTheHead'
  BY <1>2 DEF WindowInv, AtTheHead
<1>4. ASSUME W!Ends, excused' \in BOOLEAN,
             held => (excused \/ under[L].m \in {"up", "lost"} => excused')
      PROVE  WindowInv'
  <2>1. /\ under' \in Seq(UnderWay) /\ Len(under') = L - 1
        /\ \A n \in 1..Len(under') : under'[n] = under[n]
    BY <1>1, <1>4, InnermostEnds DEF WindowInv
  <2>2. Keyed'
    BY <1>1, <1>2, <1>4, <2>1, KeyedLeaves DEF WindowInv
  <2>3. Passed'
    <3>1. Len(under') \in Nat /\ Len(under') <= Len(under)
      BY <1>1, <2>1
    <3> QED  BY <1>2, <2>1, <3>1, PassedKeeps DEF WindowInv
  <2>4. Len(under') <= MaxNested
    BY <1>1, <2>1, FrameAssumption DEF FrameAssumption, WindowInv, WindowTypes
  <2> QED  BY <1>2, <1>3, <1>4, <2>1, <2>2, <2>3, <2>4 DEF WindowInv, WindowTypes
<1>5. CASE W!Top.m = "probe"
  <2>1. W!Ends /\ UNCHANGED excused
    BY <1>5 DEF W!AtOurs
  <2>2. excused \in BOOLEAN
    BY DEF WindowInv, WindowTypes
  <2> QED  BY <1>2, <1>4, <1>5, <2>1, <2>2
<1>6. CASE W!Top.m # "probe" /\ W!Handled
  <2>1. W!GoTo(previous) /\ UNCHANGED excused
    BY <1>6 DEF W!AtOurs
  <2>2. /\ under' \in Seq(UnderWay) /\ Len(under') = L
        /\ \A n \in 1..L : /\ under'[n].m = under[n].m /\ under'[n].heads = under[n].heads
                           /\ n # L => under'[n].at = under[n].at
    BY <1>1, <1>2, <2>1, InnermostGoes DEF WindowInv
  <2>3. Keyed'
    BY <1>1, <1>2, <2>1, <2>2, KeyedStays DEF WindowInv
  <2>4. \E k \in 1..L : under[k].m = under[L].m /\ under[k].heads = 1
    BY <1>1, <1>6, KnownAgain DEF WindowInv
  <2>5. Passed'
    <3>1. Len(under') \in Nat /\ Len(under') <= Len(under)
      BY <1>1, <2>2
    <3>2. \A n \in 1..Len(under') :
            /\ under'[n].m = under[n].m /\ under'[n].heads = under[n].heads
            /\ \/ under'[n].at = under[n].at
               \/ \E k \in 1..n : under[k].m = under[n].m /\ under[k].heads = 1
      BY <2>2, <2>4
    <3> QED  BY <1>2, <3>1, <3>2, PassedKeeps DEF WindowInv
  <2> QED  BY <1>1, <1>2, <1>3, <2>1, <2>2, <2>3, <2>5 DEF WindowInv, WindowTypes
<1>7. CASE W!Top.m # "probe" /\ ~W!Handled
  <2>1. CASE W!Kept(W!Top.m)
    <3>1. W!Ends /\ W!Excuse
      BY <1>7, <2>1 DEF W!AtOurs
    <3>2. excused' \in BOOLEAN /\ (held => (excused \/ under[L].m \in {"up", "lost"} => excused'))
      BY <1>2, <3>1 DEF W!Excuse
    <3> QED  BY <1>4, <3>1, <3>2
  <2>2. CASE ~W!Kept(W!Top.m)
    <3>1. PICK x \in Callees :
            under' = [under EXCEPT ![Len(under)].heads = @ + 1, ![Len(under)].at = x]
      BY <1>2, <1>7, <2>2 DEF W!AtOurs
    <3>2. under[L].heads = 0
      <4>1. under[L].heads # 1
        BY <1>1, <1>7, KnownAgain DEF WindowInv
      <4>2. under[L] \in UnderWay
        BY <1>1 DEF WindowInv, WindowTypes
      <4> QED  BY <4>1, <4>2 DEF UnderWay
    <3>3. /\ under' \in Seq(UnderWay) /\ Len(under') = Len(under)
          /\ \A n \in 1..Len(under) : /\ under'[n].m = under[n].m
                                      /\ n # Len(under) => under'[n] = under[n]
          /\ under'[Len(under)].heads = 1
      BY <1>1, <3>1, <3>2, InnermostIsHandled DEF WindowInv
    <3>4. UNCHANGED excused
      BY <1>7, <2>2 DEF W!AtOurs
    <3>5. Keyed'
      BY <1>2, <3>3, <3>4, KeyedStays DEF WindowInv
    <3>6. Passed'
      BY <1>1, <1>2, <2>2, <3>3, PassedHandled DEF WindowInv
    <3> QED  BY <1>2, <1>3, <3>3, <3>4, <3>5, <3>6 DEF WindowInv, WindowTypes
  <2> QED  BY <2>1, <2>2
<1> QED  BY <1>5, <1>6, <1>7

LEMMA NeighbourKeeps ==
  ASSUME WindowInv, W!AtNeighbour
  PROVE  WindowInv'
<1>1. PICK L \in Nat : L = Len(under) /\ L > 0
  BY EmptySeq DEF WindowInv, WindowTypes, W!AtNeighbour, W!Quiet
<1>2. /\ UNCHANGED <<registered, behind, previous, headNext, initialised, mode, background, front,
                     pressed, held>>
      /\ W!Top = under[L] /\ under[L].at \in Neighbours
  BY <1>1 DEF W!AtNeighbour, W!chain, W!panel, W!Top, WindowInv, WindowTypes
<1>3. AtTheHead'
  BY <1>2 DEF WindowInv, AtTheHead
<1>4. CASE W!Ends /\ W!Excuse
  <2>1. /\ under' \in Seq(UnderWay) /\ Len(under') = L - 1
        /\ \A n \in 1..Len(under') : under'[n] = under[n]
    BY <1>1, <1>4, InnermostEnds DEF WindowInv
  <2>2. excused' \in BOOLEAN /\ (held => (excused \/ under[L].m \in {"up", "lost"} => excused'))
    BY <1>2, <1>4 DEF W!Excuse
  <2>3. Keyed'
    BY <1>1, <1>2, <2>1, <2>2, KeyedLeaves DEF WindowInv
  <2>4. Passed'
    <3>1. Len(under') \in Nat /\ Len(under') <= Len(under)
      BY <1>1, <2>1
    <3> QED  BY <1>2, <2>1, <3>1, PassedKeeps DEF WindowInv
  <2>5. Len(under') <= MaxNested
    BY <1>1, <2>1, FrameAssumption DEF FrameAssumption, WindowInv, WindowTypes
  <2> QED  BY <1>2, <1>3, <2>1, <2>2, <2>3, <2>4, <2>5 DEF WindowInv, WindowTypes
<1>5. CASE W!GoTo(behind[W!Top.at]) /\ UNCHANGED excused
  <2>1. PICK x \in Callees : x = behind[under[L].at]
    BY <1>2 DEF WindowInv, WindowTypes
  <2>2. W!GoTo(x)
    BY <1>2, <1>5, <2>1
  <2>3. /\ under' \in Seq(UnderWay) /\ Len(under') = L /\ under'[L].at = x
        /\ \A n \in 1..L : /\ under'[n].m = under[n].m /\ under'[n].heads = under[n].heads
                           /\ n # L => under'[n].at = under[n].at
    BY <1>1, <2>2, InnermostGoes DEF WindowInv
  <2>4. Keyed'
    BY <1>1, <1>2, <1>5, <2>3, KeyedStays DEF WindowInv
  <2>5. initialised => \/ under[L].m = "probe" \/ x = "ours"
                       \/ \E k \in 1..L : under[k].m = under[L].m /\ under[k].heads = 1
    <3>1. CASE initialised /\ under[L].at = registered
      BY <1>2, <2>1, <3>1, FrameAssumption DEF FrameAssumption, WindowInv, AtTheHead
    <3>2. CASE initialised /\ under[L].at # registered
      <4>1. under[L].at # "ours" /\ L \in 1..Len(under)
        BY <1>1, <1>2, FrameAssumption DEF FrameAssumption
      <4> QED  BY <3>2, <4>1 DEF WindowInv, Passed
    <3> QED  BY <3>1, <3>2
  <2>6. Passed'
    <3>1. Len(under') \in Nat /\ Len(under') <= Len(under)
      BY <1>1, <2>3
    <3>2. \A n \in 1..Len(under') :
            /\ under'[n].m = under[n].m /\ under'[n].heads = under[n].heads
            /\ \/ under'[n].at = under[n].at
               \/ initialised => \/ under[n].m = "probe" \/ under'[n].at \in {"ours", registered}
                                 \/ \E k \in 1..n : under[k].m = under[n].m /\ under[k].heads = 1
      BY <2>3, <2>5
    <3> QED  BY <1>2, <3>1, <3>2, PassedKeeps DEF WindowInv
  <2> QED  BY <1>1, <1>2, <1>3, <1>5, <2>3, <2>4, <2>6 DEF WindowInv, WindowTypes
<1> QED  BY <1>4, <1>5 DEF W!AtNeighbour

LEMMA GameKeeps ==
  ASSUME WindowInv, W!AtTheGame
  PROVE  WindowInv'
<1>1. PICK L \in Nat : L = Len(under) /\ L > 0
  BY EmptySeq DEF WindowInv, WindowTypes, W!AtTheGame, W!Quiet
<1>2. /\ UNCHANGED <<registered, behind, previous, headNext, initialised, mode, background, front,
                     pressed>>
      /\ W!Top = under[L] /\ W!Ends
      /\ held' = (under[L].m = "down" \/ (held /\ under[L].m \notin {"up", "lost"}))
      /\ excused' = (excused /\ held' /\ under[L].m # "down")
  BY <1>1 DEF W!AtTheGame, W!chain, W!panel, W!Top
<1>3. AtTheHead'
  BY <1>2 DEF WindowInv, AtTheHead
<1>4. /\ under' \in Seq(UnderWay) /\ Len(under') = L - 1
      /\ \A n \in 1..Len(under') : under'[n] = under[n]
  BY <1>1, <1>2, InnermostEnds DEF WindowInv
<1>5. Passed'
  <2>1. Len(under') \in Nat /\ Len(under') <= Len(under)
    BY <1>1, <1>4
  <2> QED  BY <1>2, <1>4, <2>1, PassedKeeps DEF WindowInv
<1>6. Len(under') <= MaxNested
  BY <1>1, <1>4, FrameAssumption DEF FrameAssumption, WindowInv, WindowTypes
<1>7. Keyed'
  <2>1. CASE under[L].m = "down"
    <3>1. L = 1
      BY <1>1, <2>1 DEF WindowInv, Keyed
    <3>2. pressed /\ front
      BY <1>1, <2>1, <3>1 DEF WindowInv, Keyed
    <3>3. Len(under') = 0
      BY <1>4, <3>1
    <3> QED  BY <1>2, <3>2, <3>3 DEF Keyed
  <2>2. CASE under[L].m # "down"
    <3>1. held' => held /\ under[L].m \notin {"up", "lost"}
      BY <1>2, <2>2
    <3>2. held' /\ excused => excused'
      BY <1>2, <2>2
    <3>3. held' => (excused \/ under[Len(under)].m \in {"up", "lost"} => excused')
      BY <1>1, <3>1, <3>2
    <3>4. held' => held
      BY <3>1
    <3> QED  BY <1>1, <1>2, <1>4, <3>3, <3>4, KeyedLeaves DEF WindowInv
  <2> QED  BY <2>1, <2>2
<1>8. held' \in BOOLEAN /\ excused' \in BOOLEAN
  BY <1>2
<1> QED  BY <1>2, <1>3, <1>4, <1>5, <1>6, <1>7, <1>8 DEF WindowInv, WindowTypes

-----------------------------------------------------------------------------
(* Hands, and the chain itself.                                            *)

\* One more message, which is with the head of the chain.
LEMMA PassedMore ==
  ASSUME WindowInv, NEW m \in Names, W!Arrive(m),
         UNCHANGED <<initialised, registered, background, mode>>
  PROVE  Passed'
<1>1. /\ Len(under') = Len(under) + 1 /\ Len(under) \in Nat
      /\ \A n \in 1..Len(under) : under'[n] = under[n]
      /\ under'[Len(under) + 1].at = registered /\ under'[Len(under) + 1].heads = 0
  BY OneMore DEF WindowInv, WindowTypes
<1>2. ASSUME initialised', NEW n \in 1..Len(under')
      PROVE  \/ under'[n].m = "probe" \/ under'[n].at \in {"ours", registered'}
             \/ \E k \in 1..n : under'[k].m = under'[n].m /\ under'[k].heads = 1
  <2>1. CASE n = Len(under) + 1
    BY <1>1, <2>1
  <2>2. CASE n # Len(under) + 1
    <3>1. n \in 1..Len(under) /\ \A k \in 1..n : k \in 1..Len(under)
      BY <1>1, <2>2
    <3>2. \/ under[n].m = "probe" \/ under[n].at \in {"ours", registered}
          \/ \E k \in 1..n : under[k].m = under[n].m /\ under[k].heads = 1
      BY <1>2, <3>1 DEF WindowInv, Passed
    <3>3. under'[n] = under[n] /\ \A k \in 1..n : under'[k] = under[k]
      BY <1>1, <3>1
    <3> QED  BY <3>2, <3>3
  <2> QED  BY <2>1, <2>2
<1>3. ASSUME NEW n \in 1..Len(under'), under'[n].heads = 1
      PROVE  /\ under'[n].m # "alt" /\ ~(under'[n].m = "lost" /\ background')
             /\ ~(under'[n].m \in W!Presses' /\ mode' = "menu")
  <2>1. n # Len(under) + 1 /\ n \in 1..Len(under)
    BY <1>1, <1>3
  <2> QED  BY <1>1, <1>3, <2>1 DEF WindowInv, Passed, W!Presses
<1> QED  BY <1>2, <1>3 DEF Passed

LEMMA HandsKeep ==
  ASSUME WindowInv, W!Hands
  PROVE  WindowInv'
<1>1. UNCHANGED <<registered, behind, previous, headNext, initialised, mode, background>>
  BY DEF W!Hands, W!chain, W!panel
<1>2. AtTheHead'
  BY <1>1 DEF WindowInv, AtTheHead
<1>3. Len(under) \in Nat /\ (W!Quiet => Len(under) = 0) /\ (~W!Quiet => Len(under) > 0)
  BY EmptySeq DEF WindowInv, WindowTypes, W!Quiet
<1>4. ASSUME NEW m \in Names, W!Arrive(m), W!Quiet \/ Len(under) < MaxNested,
             {front', pressed', held', excused'} \subseteq BOOLEAN, Keyed'
      PROVE  WindowInv'
  <2>1. Passed'
    BY <1>1, <1>4, PassedMore
  <2>2. under' \in Seq(UnderWay) /\ Len(under') = Len(under) + 1
    BY <1>4, OneMore DEF WindowInv
  <2>3. Len(under') <= MaxNested
    BY <1>3, <1>4, <2>2, FrameAssumption DEF FrameAssumption
  <2> QED  BY <1>1, <1>2, <1>4, <2>1, <2>2, <2>3 DEF WindowInv, WindowTypes
<1>5. ASSUME NEW m \in Names, W!Arrive(m), W!Quiet
      PROVE  Len(under') = 1 /\ under'[1].m = m
  BY <1>3, <1>5, OneMore DEF WindowInv
<1>6. /\ {front, pressed, held, excused} \subseteq BOOLEAN
      /\ held /\ ~front /\ W!Quiet => excused
      /\ held /\ ~pressed /\ W!Quiet => excused
  BY <1>3 DEF WindowInv, WindowTypes, Keyed
<1>7. CASE W!Press
  <2>1. W!Arrive("down") /\ W!Quiet /\ pressed' = TRUE /\ front /\ UNCHANGED <<front, held, excused>>
    BY <1>7 DEF W!Press
  <2>2. Len(under') = 1 /\ under'[1].m = "down"
    BY <1>5, <2>1 DEF Names
  <2>3. Keyed'
    BY <1>6, <2>1, <2>2 DEF Keyed
  <2> QED  BY <1>4, <1>6, <2>1, <2>3 DEF Names
<1>8. CASE W!LetGo
  <2>1. W!Quiet /\ pressed' = FALSE /\ UNCHANGED <<front, held, excused>>
    BY <1>8 DEF W!LetGo
  <2>2. CASE front
    <3>1. W!Arrive("up")
      BY <1>8, <2>2 DEF W!LetGo
    <3>2. Len(under') = 1 /\ under'[1].m = "up"
      BY <1>5, <2>1, <3>1 DEF Names
    <3>3. Keyed'
      BY <1>6, <2>1, <2>2, <3>2 DEF Keyed
    <3> QED  BY <1>4, <1>6, <2>1, <3>1, <3>3 DEF Names
  <2>3. CASE ~front
    <3>1. UNCHANGED under
      BY <1>8, <2>3 DEF W!LetGo
    <3>2. Keyed'
      BY <1>3, <1>6, <2>1, <2>3, <3>1 DEF Keyed
    <3> QED  BY <1>1, <1>2, <1>6, <2>1, <3>1, <3>2
             DEF WindowInv, WindowTypes, Passed, W!Presses
  <2> QED  BY <2>2, <2>3
<1>9. CASE W!Write
  <2>1. W!Arrive("enter") /\ W!Quiet /\ UNCHANGED <<front, pressed, held, excused>>
    BY <1>9 DEF W!Write, W!key
  <2>2. Len(under') = 1 /\ under'[1].m = "enter"
    BY <1>5, <2>1 DEF Names
  <2>3. Keyed'
    BY <1>6, <2>1, <2>2 DEF Keyed
  <2> QED  BY <1>4, <1>6, <2>1, <2>3 DEF Names
<1>10. CASE W!LookAway
  <2>1. W!Arrive("lost") /\ W!Quiet /\ front' = FALSE /\ UNCHANGED <<pressed, held, excused>>
    BY <1>10 DEF W!LookAway
  <2>2. Len(under') = 1 /\ under'[1].m = "lost"
    BY <1>5, <2>1 DEF Names
  <2>3. Keyed'
    BY <1>6, <2>1, <2>2 DEF Keyed
  <2> QED  BY <1>4, <1>6, <2>1, <2>3 DEF Names
<1>11. CASE W!LookBack
  <2>1. W!Quiet /\ front' = TRUE /\ UNCHANGED <<under, pressed, held, excused>>
    BY <1>11 DEF W!LookBack
  <2>2. Keyed'
    BY <1>3, <1>6, <2>1 DEF Keyed
  <2> QED  BY <1>1, <1>2, <1>6, <2>1, <2>2 DEF WindowInv, WindowTypes, Passed, W!Presses
<1>12. CASE W!Sent
  <2>1. PICK m \in {"alt", "paint"} : W!Arrive(m)
    BY <1>12 DEF W!Sent
  <2>2. Len(under) > 0 /\ Len(under) < MaxNested /\ UNCHANGED <<front, pressed, held, excused>>
    BY <1>3, <1>12 DEF W!Sent, W!key
  <2>3. m \in Names
    BY DEF Names
  <2>4. /\ Len(under') = Len(under) + 1 /\ under'[Len(under) + 1].m = m
        /\ \A n \in 1..Len(under) : under'[n] = under[n]
    BY <2>1, <2>3, OneMore DEF WindowInv
  <2>5. Keyed'
    <3>1. under'[1] = under[1] /\ Len(under') > 0
      BY <1>3, <2>2, <2>4
    <3>2. ASSUME NEW n \in 2..Len(under')
          PROVE  under'[n].m \in {"alt", "paint"}
      <4>1. CASE n = Len(under) + 1
        BY <2>4, <4>1
      <4>2. CASE n # Len(under) + 1
        <5>1. n \in 1..Len(under) /\ n \in 2..Len(under)
          BY <1>3, <2>4, <4>2
        <5> QED  BY <2>4, <5>1 DEF WindowInv, Keyed
      <4> QED  BY <4>1, <4>2
    <3> QED  BY <2>2, <3>1, <3>2 DEF WindowInv, Keyed
  <2> QED  BY <1>4, <1>6, <2>1, <2>2, <2>3, <2>5
<1> QED  BY <1>7, <1>8, <1>9, <1>10, <1>11, <1>12 DEF W!Hands

\* Nothing is under way when somebody hooks, or the menu opens or closes.
LEMMA QuietKeeps ==
  ASSUME WindowInv, W!Quiet, UNCHANGED <<front, pressed, held, excused, background>>,
         Len(under') = 0 \/ (Len(under') = 1 /\ under'[1].m = "probe" /\ under'[1].heads = 0)
  PROVE  Passed' /\ Keyed'
<1>1. Len(under) = 0
  BY DEF WindowInv, WindowTypes, W!Quiet
<1>2. {front, pressed, held, excused} \subseteq BOOLEAN
  BY DEF WindowInv, WindowTypes
<1>3. (held /\ ~front => excused) /\ (held /\ ~pressed => excused)
  BY <1>1 DEF WindowInv, Keyed
<1>4. CASE Len(under') = 0
  <2>1. 1..Len(under') = {} /\ 2..Len(under') = {}
    BY <1>4
  <2> QED  BY <1>3, <1>4, <2>1 DEF Passed, Keyed
<1>5. CASE Len(under') = 1 /\ under'[1].m = "probe" /\ under'[1].heads = 0
  <2>1. 1..Len(under') = {1} /\ 2..Len(under') = {}
    BY <1>5
  <2> QED  BY <1>3, <1>5, <2>1 DEF Passed, Keyed
<1> QED  BY <1>4, <1>5

LEMMA ChainKeeps ==
  ASSUME WindowInv,
         W!Initialise \/ W!Teardown \/ W!StepBack \/ W!Menu \/ \E n \in Neighbours : W!Hook(n)
  PROVE  WindowInv'
<1>1. W!Quiet /\ UNCHANGED <<under, front, pressed, held, excused, background>>
  BY DEF W!Initialise, W!Teardown, W!StepBack, W!Menu, W!Hook, W!key
<1>2. Len(under') = 0
  BY <1>1 DEF W!Quiet
<1>3. Passed' /\ Keyed'
  BY <1>1, <1>2, QuietKeeps
<1>4. CASE W!Initialise
  BY <1>1, <1>3, <1>4 DEF WindowInv, WindowTypes, AtTheHead, W!Initialise, Callees
<1>5. CASE W!Teardown
  BY <1>1, <1>3, <1>5 DEF WindowInv, WindowTypes, AtTheHead, W!Teardown, Callees
<1>6. CASE W!StepBack
  BY <1>1, <1>3, <1>6 DEF WindowInv, WindowTypes, AtTheHead, W!StepBack, Callees
<1>7. CASE W!Menu
  BY <1>1, <1>3, <1>7 DEF WindowInv, WindowTypes, AtTheHead, W!Menu, W!chain
<1>8. ASSUME NEW n \in Neighbours, W!Hook(n)
      PROVE  WindowInv'
  <2>1. /\ behind' = [behind EXCEPT ![n] = registered] /\ registered' = n
        /\ registered \notin Neighbours /\ UNCHANGED <<previous, headNext, initialised>>
    BY <1>8 DEF W!Hook
  <2>2. behind' \in [Neighbours -> Callees] /\ behind'[n] = registered /\ registered' \in Callees
    BY <2>1 DEF WindowInv, WindowTypes, Callees
  <2>3. AtTheHead'
    BY <2>1, <2>2 DEF WindowInv, AtTheHead
  <2> QED  BY <1>1, <1>3, <2>1, <2>2, <2>3 DEF WindowInv, WindowTypes
<1> QED  BY <1>4, <1>5, <1>6, <1>7, <1>8

LEMMA ProbeKeeps ==
  ASSUME WindowInv, W!Probe
  PROVE  WindowInv'
<1>1. /\ W!Quiet /\ UNCHANGED <<front, pressed, held, excused, background>>
      /\ UNCHANGED <<registered, behind, previous, headNext, initialised>>
  BY DEF W!Probe, W!key, W!chain
<1>2. PICK r : r = W!Message("probe", headNext)
  OBVIOUS
<1>3. r \in UnderWay /\ r.m = "probe" /\ r.heads = 0
  BY <1>2 DEF W!Message, UnderWay, WindowInv, WindowTypes, Names
<1>4. under' = <<r>>
  BY <1>2 DEF W!Probe
<1>5. under' \in Seq(UnderWay) /\ Len(under') = 1 /\ under'[1] = r
  BY <1>3, <1>4
<1>6. Passed' /\ Keyed'
  BY <1>1, <1>3, <1>5, QuietKeeps
<1>7. Len(under') <= MaxNested
  BY <1>5, FrameAssumption DEF FrameAssumption
<1> QED  BY <1>1, <1>5, <1>6, <1>7 DEF WindowInv, WindowTypes, AtTheHead

LEMMA WindowNext ==
  ASSUME WindowInv, W!Next
  PROVE  WindowInv'
BY ChainKeeps, ProbeKeeps, HeadKeeps, NeighbourKeeps, GameKeeps, HandsKeep, Zenon DEF W!Next

LEMMA WindowInit ==
  ASSUME W!Init
  PROVE  WindowInv
<1>1. under = <<>> /\ under \in Seq(UnderWay) /\ Len(under) = 0
  BY DEF W!Init
<1>2. 0 <= MaxNested
  BY FrameAssumption DEF FrameAssumption
<1>3. WindowTypes
  BY <1>1, <1>2 DEF W!Init, WindowTypes, Callees
<1>4. AtTheHead
  BY DEF W!Init, AtTheHead
<1>5. 1..Len(under) = {} /\ 2..Len(under) = {}
  BY <1>1
<1>6. Passed /\ Keyed
  BY <1>1, <1>5 DEF W!Init, Passed, Keyed
<1> QED  BY <1>3, <1>4, <1>6 DEF WindowInv

LEMMA WindowHears ==
  ASSUME WindowInv
  PROVE  W!GameHearsWhatItShould
<1>1. Len(under) \in Nat /\ DOMAIN under = 1..Len(under) /\ (W!Quiet => Len(under) = 0)
      /\ (~W!Quiet => Len(under) > 0)
  BY EmptySeq DEF WindowInv, WindowTypes, W!Quiet
<1>2. \A n \in DOMAIN under : under[n].heads <= 1
  <2>1. \A n \in 1..Len(under) : under[n] \in UnderWay
    BY DEF WindowInv, WindowTypes
  <2> QED  BY <1>1, <2>1 DEF UnderWay
<1>3. ASSUME initialised, ~W!Quiet, W!Top.at = "game"
      PROVE  /\ mode = "menu" => W!Top.m \notin W!Presses
             /\ background => W!Top.m # "lost"
             /\ W!Top.m # "alt"
  <2>1. PICK L \in Nat : L = Len(under) /\ L > 0
    BY <1>1, <1>3
  <2>2. W!Top = under[L] /\ L \in 1..Len(under) /\ under[L].at = "game"
    BY <1>3, <2>1 DEF W!Top
  <2>3. "game" \notin {"ours", registered}
    BY <1>3, FrameAssumption DEF FrameAssumption, WindowInv, AtTheHead
  <2>4. \/ under[L].m = "probe"
        \/ \E k \in 1..L : under[k].m = under[L].m /\ under[k].heads = 1
    BY <1>3, <2>2, <2>3 DEF WindowInv, Passed
  <2>5. CASE under[L].m = "probe"
    BY <2>2, <2>5 DEF W!Presses
  <2>6. ASSUME NEW k \in 1..L, under[k].m = under[L].m, under[k].heads = 1
        PROVE  /\ mode = "menu" => W!Top.m \notin W!Presses
               /\ background => W!Top.m # "lost"
               /\ W!Top.m # "alt"
    <3>1. k \in 1..Len(under)
      BY <2>1
    <3> QED  BY <2>2, <2>6, <3>1 DEF WindowInv, Passed
  <2> QED  BY <2>4, <2>5, <2>6
<1>4. W!Quiet /\ held /\ ~pressed => excused
  BY <1>1 DEF WindowInv, Keyed
<1> QED  BY <1>2, <1>3, <1>4 DEF W!GameHearsWhatItShould

\* However many messages are under way at once, and whoever hooks the window whenever,
\* each is handled once at the head of the chain, and the game hears what it should
\* (overlay.cpp:493-537, 601-610).
THEOREM GameHearsRight == FrameSpec => []GameHearsWhatItShould
<1> DEFINE Inv == what = "window" => WindowInv
<1>1. FrameInit => Inv
  BY WindowInit DEF FrameInit
<1>2. Inv /\ [FrameNext]_everything => Inv'
  <2> SUFFICES ASSUME Inv, [FrameNext]_everything, what' = "window"
               PROVE  WindowInv'
    OBVIOUS
  <2>1. what = "window" /\ WindowInv
    BY DEF FrameNext, everything
  <2>2. CASE UNCHANGED everything
    BY <2>1, <2>2 DEF everything, panelvars, procvars, WindowInv, WindowTypes, AtTheHead, Passed,
                      Keyed, W!Presses
  <2>3. CASE FrameNext
    <3>1. W!Next
      BY <2>1, <2>3 DEF FrameNext
    <3> QED  BY <2>1, <3>1, WindowNext
  <2> QED  BY <2>2, <2>3
<1>3. Inv => GameHearsWhatItShould
  BY WindowHears DEF GameHearsWhatItShould
<1> QED  BY <1>1, <1>2, <1>3, PTL DEF FrameSpec, everything
===============================================================================
