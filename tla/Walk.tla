--------------------------------- MODULE Walk ---------------------------------
(***************************************************************************)
(* Walking a route (actions/walker.cpp): which leg he is on, whether he is *)
(* getting anywhere, what to try when he is not, and when to hand the      *)
(* route back.  Once a frame, on the game thread.  What keys come of it is *)
(* in Stride.                                                              *)
(*                                                                         *)
(* DecideStick is a long run of cases, each of which may end the frame's   *)
(* deciding, with a way to press or without.  Here each case is an operator*)
(* from the walker as the case finds it to the walkers it may leave, and a *)
(* frame is the cases one after another.  What the ground, the picture,    *)
(* the doors and the traffic have to say is a free choice every frame; of  *)
(* where he is a model keeps how far the leg's end is.  A frame of the     *)
(* model is as long as kStuckMs, so he has moved in it or he is stuck.  The*)
(* route is never strict: no caller turns that on.                         *)
(***************************************************************************)
EXTENDS Integers

CONSTANTS
  MaxLegs,              \* bound of the model: legs of a route
  LegLength,            \* bound of the model: units of kCloser to a leg's end
  MaxWalks,             \* bound of the model: routes given to the walker
  Closely,              \* how the routes are followed: g_precise
  kWalkLimit, kNoCloser, kGrace, kLetGo, kBusy, kBlockedNoProgress,
  kWaitForPerson, kWaitForTraffic, kMaxBackOuts, kPushesPerPlace, kDoorPushes,
  kMaxSidesteps, kMaxSideChanges, kJumpsWhenWedged

ASSUME WalkAssumption ==
  /\ MaxLegs \in Nat \ {0} /\ LegLength \in Nat \ {0} /\ MaxWalks \in Nat
  /\ Closely \subseteq BOOLEAN
  /\ {kWalkLimit, kNoCloser, kGrace, kLetGo, kBusy, kBlockedNoProgress,
      kWaitForPerson, kWaitForTraffic, kMaxBackOuts, kPushesPerPlace, kDoorPushes,
      kMaxSidesteps, kMaxSideChanges, kJumpsWhenWedged} \subseteq Nat

VARIABLES
  w,       \* the walker
  goes,    \* he was made to go: a way was pressed and the keys went out
  walks,
  free     \* history: frames since he was last held still

vars == <<w, goes, walks, free>>

None == -1
\* Fields: walking, note, precise, sentTo (g_last_leg_is_the_destination); the
\* route (leg, legs, away, best with 0 for none); clocks that count up from
\* what they are named for (started, closer; blocked and waiting may be None);
\* clocks that run out (busy: stepping aside or leaning on something, letting
\* go); went, whether he moved since blocked; what was tried (backouts, pushes,
\* sidesteps, hops, changes); and following (g_follow_side).
Idle ==
  [walking |-> FALSE, note |-> "idle", precise |-> FALSE, sentTo |-> FALSE,
   leg |-> 0, legs |-> 0, away |-> 0, best |-> 0,
   started |-> 0, closer |-> 0, blocked |-> None, waiting |-> None,
   busy |-> 0, letting |-> 0, went |-> FALSE,
   backouts |-> 0, pushes |-> 0, sidesteps |-> 0, hops |-> 0, changes |-> 0,
   following |-> FALSE]

Init == w = Idle /\ goes = FALSE /\ walks = 0 /\ free = 0

-----------------------------------------------------------------------------
(* A frame goes by.                                                        *)

Older(x, most) == IF x = None \/ x > most THEN x ELSE x + 1
Less(x) == IF x = 0 THEN 0 ELSE x - 1

Aged(v) ==
  [v EXCEPT !.started = Older(@, kWalkLimit), !.closer = Older(@, kNoCloser),
     !.blocked = Older(@, kBlockedNoProgress), !.waiting = Older(@, kWaitForTraffic),
     !.busy = Less(@), !.letting = Less(@)]

\* Where the keys held have brought him: nowhere, along, nearer or further.
Moved(v) ==
  {[at |-> v, moved |-> FALSE]}
  \cup IF goes
       THEN {[at |-> [v EXCEPT !.away = a, !.went = v.blocked # None], moved |-> TRUE] :
               a \in {v.away - 1, v.away, v.away + 1} \cap 0..LegLength}
       ELSE {}

-----------------------------------------------------------------------------
(* The cases.  An outcome is a walker, whether that decides the frame, and *)
(* whether there is a way to press.                                        *)

On(v) == [w |-> v, over |-> FALSE, way |-> FALSE]
Return(v) == [w |-> v, over |-> TRUE, way |-> FALSE]

\* StopLocked.  Between walks the clocks and counts mean nothing.
Stopped(v, why) ==
  [Idle EXCEPT !.note = why, !.hops = v.hops, !.waiting = v.waiting]
Stop(v, why) == Return(Stopped(v, why))

Limits(v) ==
  IF v.started > kWalkLimit THEN {Stop(v, "out of time")}
  ELSE {On(v), Stop(v, "unreadable")}

NextLeg(v, n) == [v EXCEPT !.leg = n, !.away = LegLength, !.best = 0, !.closer = 0]
IsLast(v) == v.leg = v.legs

\* A leg is done near its end, or on the way past it to the next.
Reach(v) ==
  IF v.away = 0
  THEN IF IsLast(v) THEN {Stop(v, "arrived")} ELSE {On(NextLeg(v, v.leg + 1))}
  ELSE {On(v)} \cup IF v.away = 1 /\ ~IsLast(v) THEN {On(NextLeg(v, v.leg + 1))} ELSE {}

\* The picture shows a leg's end to be inside something, unless it is the last.
InsideSomething(v) ==
  {On(v)} \cup {On(NextLeg(v, n)) : n \in IF v.precise THEN (v.leg + 1)..v.legs ELSE {}}

\* Hanging off something for long enough: nothing is pressed for a while.
HangOn(v) ==
  IF v.letting > 0 THEN {Return(v)} ELSE {On(v), Return([v EXCEPT !.letting = kLetGo])}

GettingCloser(v) ==
  IF v.best = 0 \/ v.away < v.best THEN {On([v EXCEPT !.best = v.away, !.closer = 0])}
  ELSE IF v.closer > kNoCloser THEN {Stop(v, "no closer")}
  ELSE {On(v)}

\* Mutated form: the walk as a whole is put off as well.
WaitingAfresh(v) == [v EXCEPT !.closer = 0, !.started = 0]
Waiting(v) == [v EXCEPT !.closer = 0]

\* A hop out of where he is wedged, if he stands and the last is over.  The last
\* ones are forgotten half a minute after, which here may be at any time.
Hop(v) ==
  {Return(Waiting([v EXCEPT !.hops = n + 1])) :
     n \in {0, v.hops} \cap 0..(kJumpsWhenWedged - 1)}

LeanOn(v) == [v EXCEPT !.pushes = @ + 1, !.busy = kBusy, !.closer = 0, !.following = FALSE]
\* A door not seen before is walked through: a point beyond it comes first.
Through(v) ==
  IF v.legs < MaxLegs THEN {[v EXCEPT !.legs = @ + 1, !.best = 0, !.away = LegLength]} ELSE {}
Push(v) == {Return(u) : u \in {LeanOn(v)} \cup Through(LeanOn(v))}

\* Held up on a route that is followed closely.
HeldUp(v) ==
  IF v.started < kGrace THEN {Return(v)}
  ELSE (IF v.pushes < kDoorPushes
        THEN {Return(Waiting([v EXCEPT !.pushes = @ + 1, !.busy = kBusy]))} ELSE {})
       \cup Hop(v) \cup {Stop(v, "not moving")}

\* Held up on any other: over it, round the other side, or out to one side.
GetRound(v) ==
  {On(v)}
  \cup IF v.following /\ v.changes < kMaxSideChanges
       THEN {On([v EXCEPT !.changes = @ + 1])}
       ELSE IF v.sidesteps >= kMaxSidesteps THEN {Stop(v, "stuck")}
       ELSE {On([v EXCEPT !.sidesteps = @ + 1, !.busy = kBusy])}

Stuck(v) ==
  IF v.sentTo /\ IsLast(v) /\ v.away <= 1 THEN {Stop(v, "arrived")}
  ELSE (IF v.pushes < kPushesPerPlace THEN Push(v) ELSE {})
       \cup (IF v.precise THEN HeldUp(v) ELSE GetRound(v))

\* Somebody in the way is waited for; then it counts whether he moved at all.
Blocked(v) ==
  LET u == IF v.blocked = None THEN [v EXCEPT !.blocked = 0, !.went = FALSE] ELSE v
  IN (IF u.blocked < kWaitForPerson THEN {Return(Waiting(u))} ELSE {})
     \cup IF u.blocked <= kBlockedNoProgress THEN {On(u)}
          ELSE IF u.went THEN {On([u EXCEPT !.blocked = 0, !.went = FALSE])}
          ELSE Hop(u) \cup {Stop(u, "blocked")}

\* Nothing ahead is open: back out of it first, if he stands.
Wall(v) ==
  (IF v.backouts < kMaxBackOuts
   THEN {Return(Waiting([v EXCEPT !.backouts = @ + 1, !.busy = kBusy, !.following = FALSE]))}
   ELSE {})
  \cup {Stop(v, "blocked")}

\* The probe: a door the route goes through is no wall.
LookAhead(v) ==
  {On(v), On([v EXCEPT !.following = FALSE, !.closer = 0])}
  \cup IF v.precise THEN {On([v EXCEPT !.blocked = None])} \cup Blocked(v)
       ELSE {On([v EXCEPT !.following = f]) : f \in BOOLEAN} \cup Wall(v)

\* Something is coming: only so long, and not before it was noticed once.
Traffic(v) ==
  IF ~v.precise \/ (IsLast(v) /\ v.away <= 1) THEN {On(v)}
  ELSE {On([v EXCEPT !.waiting = None]),
        IF v.waiting \in 0..(kWaitForTraffic - 1) THEN Return(Waiting(v))
        ELSE On([v EXCEPT !.waiting = IF @ = None THEN 0 ELSE @])}

Steer(v) == {[w |-> v, over |-> TRUE, way |-> TRUE]}

Then(outcomes, Case(_)) == UNION {IF o.over THEN {o} ELSE Case(o.w) : o \in outcomes}

DecideStick(v, moved) ==
  LET Moving(u) ==
        IF moved THEN {On([u EXCEPT !.pushes = 0])}
        ELSE {On(u)} \cup IF u.busy > 0 THEN {} ELSE Stuck(u)
      legs == Then(Then(Limits(v), Reach), InsideSomething)
      getting == Then(Then(Then(legs, HangOn), GettingCloser), Moving)
  IN Then(Then(Then(getting, LookAhead), Traffic), Steer)

-----------------------------------------------------------------------------
(* The frame, the tools and the journey.                                   *)

\* One more frame; a count high enough goes on between two values.
Counted == free' = IF free > kNoCloser + 1 THEN kNoCloser + 1 ELSE free + 1

\* PadFrame, when there may be a way to press.
Frame ==
  /\ w.walking
  /\ \E at \in Moved(Aged(w)) : \E o \in DecideStick(at.at, at.moved) :
       w' = o.w /\ goes' \in {FALSE, o.way}
  /\ Counted
  /\ UNCHANGED walks

\* Mutated form: the clocks go on.
HeldGoingOn(v) == v
\* The clocks of being stuck wait.
Held(v) == [v EXCEPT !.closer = 0]

\* PadFrame, while a dialog is up, the server has frozen him and so on.
HeldFrame ==
  /\ w.walking /\ w' = Held(Aged(w)) /\ goes' = FALSE /\ free' = 0
  /\ UNCHANGED walks

\* WalkTo and what its caller sets after it.  What was tried against a place he
\* was wedged in, and since when he waits for traffic, stay.
WalkTo ==
  /\ walks < MaxWalks /\ walks' = walks + 1
  /\ \E n \in 1..MaxLegs, closely \in Closely, sent \in BOOLEAN :
       w' = [Stopped(w, "walking") EXCEPT !.walking = TRUE, !.precise = closely,
               !.sentTo = sent, !.leg = 1, !.legs = n, !.away = LegLength]
  /\ UNCHANGED <<goes, free>>

\* Stop.
StopWalk ==
  /\ w.walking /\ w' = Stopped(w, "stopped") /\ goes' = FALSE
  /\ UNCHANGED <<walks, free>>

\* TryCut: a later leg is within a straight line.
CutTo ==
  /\ w.walking
  /\ \E n \in (w.leg + 1)..w.legs :
       w' = [NextLeg(w, n) EXCEPT !.busy = 0, !.following = FALSE]
  /\ UNCHANGED <<goes, walks, free>>

Next == Frame \/ HeldFrame \/ WalkTo \/ StopWalk \/ CutTo

Spec == Init /\ [][Next]_vars

\* Frames go on coming, and he is not held still for good: WF_vars(Frame), said
\* of the frame's count, which Frame alone counts up, and always can while he walks.
FairFrames == WF_free(w.walking /\ Counted)
FairSpec == Spec /\ FairFrames

-----------------------------------------------------------------------------
\* Standing still because he is held is not read as getting no closer
\* (walker.cpp:1986-1990): a walk handed back for that had been free to move
\* all the while.
HeldIsNotStuck == w.note = "no closer" => free > kNoCloser

\* Every walk ends, however often something to wait for, lean on, hop out of or
\* walk round puts off the clock that would hand it back, as long as he is not
\* held still for good.
WalksEnd == [](w.walking => <>~w.walking)
===============================================================================
