--------------------------------- MODULE Lean ---------------------------------
(***************************************************************************)
(* Going round what stands across the way, on a walk that feels its way    *)
(* (actions/walker.cpp, DecideLean and what becomes of its verdict): ten   *)
(* times a second the whiskers are cast, a side is chosen and kept, given  *)
(* up in a dead end, and after all that the thing is a wall, which he      *)
(* backs out of a few times before the route is handed back.               *)
(*                                                                         *)
(* A whisker is its rank from the line outwards, positive to the left and  *)
(* negative to the right, 0 the line itself.  What the whiskers see is a   *)
(* free choice at every probe, and so is a doorway ahead.                  *)
(***************************************************************************)
EXTENDS Integers, FiniteSets, FiniteSetsExt

CONSTANTS
  Ranks,               \* whiskers on each side
  kCentreClearProbes, kDeadEndProbes, kMaxSideChanges, kMaxBackOuts,
  kFollowGiveUp,       \* in probes
  MaxWalks             \* bound of the model: walks begun and sides dropped

VARIABLES
  l,        \* side (g_follow_side), last, since, centre, dead, changes, wall,
            \* lean (the whisker he leans along, or the line)
  walking, backouts, walks,
  seen      \* history: what the last probe made of the line

vars == <<l, walking, backouts, walks, seen>>

Upright == [side |-> 0, last |-> 1, since |-> 0, centre |-> 0, dead |-> 0,
            changes |-> 0, wall |-> FALSE, lean |-> 0]

Init == l = Upright /\ walking = FALSE /\ backouts = 0 /\ walks = 0 /\ seen = "open"

Whiskers == -Ranks..Ranks
Abs(x) == IF x < 0 THEN -x ELSE x
OnSide(clear, side) == {i \in clear : i * side > 0}
NearestClear(clear, side) == Min({Abs(i) : i \in OnSide(clear, side)})

\* The side of the nearest clear whisker, then the one with more of them clear,
\* then the one taken last.
ChosenSide(clear) ==
  LET rank == [s \in {1, -1} |-> IF OnSide(clear, s) = {} THEN Ranks + 1
                                 ELSE NearestClear(clear, s)]
      count == [s \in {1, -1} |-> Cardinality(OnSide(clear, s))]
  IN IF OnSide(clear, 1) \cup OnSide(clear, -1) = {} THEN 0
     ELSE IF rank[1] # rank[-1] THEN IF rank[1] < rank[-1] THEN 1 ELSE -1
     ELSE IF count[1] # count[-1] THEN IF count[1] > count[-1] THEN 1 ELSE -1
     ELSE l.last

\* The line is open: twice running, and the detour is over.  What the far look
\* leans him by then is a free choice.
LineOpen(at) ==
  IF at.centre + 1 < kCentreClearProbes
  THEN {[at EXCEPT !.centre = @ + 1, !.wall = FALSE]}
  ELSE {[at EXCEPT !.centre = kCentreClearProbes, !.wall = FALSE, !.side = 0, !.lean = lean,
           !.last = IF at.side = 0 THEN @ ELSE at.side] : lean \in {-1, 0, 1}}

Along(at, clear) ==
  [at EXCEPT !.dead = 0, !.wall = FALSE, !.lean = at.side * NearestClear(clear, at.side)]

\* Nothing clear on the side he follows: held to for a while, then the other.
DeadEnd(at, clear) ==
  IF at.dead + 1 < kDeadEndProbes THEN [at EXCEPT !.dead = @ + 1]
  ELSE LET turned == [at EXCEPT !.changes = @ + 1, !.side = -@, !.dead = 0]
       IN IF at.changes >= kMaxSideChanges
          THEN [at EXCEPT !.changes = kMaxSideChanges + 1, !.dead = kDeadEndProbes, !.wall = TRUE]
          ELSE IF OnSide(clear, turned.side) = {} THEN turned ELSE Along(turned, clear)

Follow(at, clear) ==
  IF at.since > kFollowGiveUp THEN [at EXCEPT !.wall = TRUE]
  ELSE IF OnSide(clear, at.side) # {} THEN Along(at, clear)
  ELSE DeadEnd(at, clear)

\* Mutated form: a side that is still clear is not given up.
AgedAfresh(clear) ==
  [l EXCEPT !.since = IF OnSide(clear, l.side) # {} THEN 0
                      ELSE IF @ > kFollowGiveUp THEN @ ELSE @ + 1]
Aged(clear) == [l EXCEPT !.since = IF @ > kFollowGiveUp THEN @ ELSE @ + 1]

DecideLean(clear) ==
  LET at == [Aged(clear) EXCEPT !.centre = 0]
      begun == [at EXCEPT !.side = ChosenSide(clear), !.since = 0, !.dead = 0, !.changes = 0]
  IN IF 0 \in clear THEN LineOpen(Aged(clear))
     ELSE IF at.side # 0 THEN {Follow(at, clear)}
     ELSE IF begun.side = 0 THEN {[at EXCEPT !.wall = TRUE]}
     ELSE {Follow(begun, clear)}

\* A door is not a wall to be got round.
AtTheDoor(at) == [at EXCEPT !.lean = 0, !.wall = FALSE, !.side = 0]

\* StopLocked, and what a walk begun sets back.
Stopped == [l EXCEPT !.lean = 0, !.side = 0, !.wall = FALSE]
Begun == [Upright EXCEPT !.last = l.last, !.since = l.since]

\* The whiskers are cast while he walks; a wall is backed out of or handed back.
Probe ==
  /\ walking
  /\ \E clear \in SUBSET Whiskers, door \in BOOLEAN : \E at \in DecideLean(clear) :
       LET now == IF door THEN AtTheDoor(at) ELSE at IN
       /\ seen' = IF 0 \in clear \/ door THEN "open" ELSE "shut"
       /\ IF ~now.wall THEN l' = now /\ UNCHANGED <<walking, backouts>>
          ELSE \/ /\ backouts < kMaxBackOuts /\ backouts' = backouts + 1
                  /\ l' = AtTheDoor(now) /\ UNCHANGED walking
               \/ l' = Stopped /\ walking' = FALSE /\ UNCHANGED backouts
  /\ UNCHANGED walks

\* Going round it and not moving: that side is a dead end.
NotMoving ==
  /\ walking /\ l.side # 0 /\ l.changes < kMaxSideChanges
  /\ l' = [l EXCEPT !.side = -@, !.since = 0, !.changes = @ + 1, !.dead = 0]
  /\ UNCHANGED <<walking, backouts, walks, seen>>

\* A push at something, or a cut: the side is dropped.
Dropped ==
  /\ walking /\ l.side # 0 /\ walks' = walks + 1 /\ walks < MaxWalks
  /\ l' \in {[l EXCEPT !.side = 0, !.lean = 0], [l EXCEPT !.side = 0]}
  /\ UNCHANGED <<walking, backouts, seen>>

\* WalkTo, whether or not he is walking.
WalkTo ==
  /\ walks < MaxWalks /\ walks' = walks + 1
  /\ walking' = TRUE /\ backouts' = 0 /\ l' = Begun /\ UNCHANGED seen

Stop == walking /\ walking' = FALSE /\ l' = Stopped /\ UNCHANGED <<backouts, walks, seen>>

Next == Probe \/ NotMoving \/ Dropped \/ WalkTo \/ Stop

Spec == Init /\ [][Next]_vars
FairSpec == Spec /\ WF_vars(Probe)

-----------------------------------------------------------------------------
\* Whatever stands across the way for good is handed back as a wall: no side is
\* followed, changed and taken up again for ever, even where it stays open and
\* he keeps moving along it.
WallIsHandedBack == <>[](walking) => []<>(seen = "open")
===============================================================================
