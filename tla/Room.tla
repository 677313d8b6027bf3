--------------------------------- MODULE Room ---------------------------------
(***************************************************************************)
(* The room he is in, drawn in squares and flooded from under his feet      *)
(* (nav/indoors.cpp).  Walls, frames and people are painted solid, the      *)
(* leaves of doors are not; doorways are opened by hand, pickups painted    *)
(* except the one he was sent to, and the first metre round him is not      *)
(* asked.  Lengths are in squares; the cap on floor reads is not reached.   *)
(***************************************************************************)
EXTENDS Integers, SequencesExt

CONSTANTS
  Side,         \* squares of a side of the map
  Rooms,        \* rooms: [solid, noFloor, doors, pickups, from, towards]
  kDoorOpen, kPickupDisc, kSqueezeOut,  \* squared, in squares
  kBeside,      \* half a metre beyond a pickup's reach, squared
  kThinned      \* of how many squares of a way one is kept

VARIABLES
  room,         \* the room as it is
  blocked,      \* fp.blocked
  reached, cameFrom, queue,
  best,         \* the square nearest to where he was going
  points        \* room.points

vars == <<room, blocked, reached, cameFrom, queue, best, points>>

Tiles == (0..(Side - 1)) \X (0..(Side - 1))
Away(a, b) == (a[1] - b[1]) * (a[1] - b[1]) + (a[2] - b[2]) * (a[2] - b[2])
Within(p, radius) == {c \in Tiles : Away(c, p) <= radius}

\* Doorways are opened before pickups are painted, and what is round him after.
Opened == room.solid \ UNION {Within(d, kDoorOpen) : d \in room.doors}
InTheWay ==
  {p \in room.pickups : Away(p, room.towards) > kBeside /\ Away(p, room.from) > kSqueezeOut}
Painted ==
  (Opened \cup UNION {Within(p, kPickupDisc) : p \in InTheWay}) \ Within(room.from, kSqueezeOut)

HasFloor(c) == c = room.from \/ c \notin room.noFloor

\* Eight ways, a diagonal only between two free squares.
Ways == <<<<1, 0>>, <<-1, 0>>, <<0, 1>>, <<0, -1>>, <<1, 1>>, <<1, -1>>, <<-1, 1>>, <<-1, -1>>>>
Beyond(here, step) == <<here[1] + step[1], here[2] + step[2]>>
\* Mutated form: a diagonal passes between two walls that meet.
AnyWay(here, step) ==
  Beyond(here, step) \in Tiles \ (reached \cup blocked) /\ HasFloor(Beyond(here, step))
Free(here, step) ==
  /\ Beyond(here, step) \in Tiles \ (reached \cup blocked)
  /\ <<here[1] + step[1], here[2]>> \notin blocked
  /\ <<here[1], here[2] + step[2]>> \notin blocked
  /\ HasFloor(Beyond(here, step))
Found(here) ==
  FoldLeft(LAMBDA found, step : IF Free(here, step) THEN Append(found, Beyond(here, step)) ELSE found,
           <<>>, Ways)

Init ==
  /\ room \in Rooms
  /\ blocked = Painted
  /\ reached = {room.from} /\ queue = <<room.from>> /\ cameFrom = <<>>
  /\ best = room.from /\ points = <<>>

\* One square of the flood.
Flood ==
  /\ queue # <<>>
  /\ \E found \in {Found(Head(queue))} :
       /\ queue' = Tail(queue) \o found
       /\ reached' = reached \cup Range(found)
       /\ cameFrom' = [c \in DOMAIN cameFrom \cup Range(found) |->
                         IF c \in DOMAIN cameFrom THEN cameFrom[c] ELSE Head(queue)]
  /\ UNCHANGED <<room, blocked, best, points>>

\* The way back along the flood, and every so many of its squares.
WayTo(c) ==
  LET back[d \in reached] == IF d = room.from THEN <<d>> ELSE Append(back[cameFrom[d]], d)
  IN  back[c]
Thinned(way) ==
  LET kept == SelectSeq([n \in DOMAIN way |-> n],
                        LAMBDA n : n = 1 \/ n = Len(way) \/ (n - 1) % kThinned = 0)
  IN  [n \in DOMAIN kept |-> way[kept[n]]]

Finish ==
  /\ queue = <<>> /\ points = <<>>
  /\ best' \in {c \in reached : \A d \in reached : Away(c, room.towards) <= Away(d, room.towards)}
  /\ points' = Thinned(WayTo(best'))
  /\ UNCHANGED <<room, blocked, reached, cameFrom, queue>>

Next == Flood \/ Finish

Spec == Init /\ [][Next]_vars

-----------------------------------------------------------------------------
(* Properties.                                                             *)

\* He is taken as near to where he was going as the room allows, over floor
\* and past every corner: no square he could have walked to is nearer, each
\* square of the way lies beside the one before with nothing solid at either
\* corner between them, and a pickup he was not sent to is crossed only where he
\* stands on its edge (indoors.cpp:211-247, 253-262).  What he could walk to is
\* worked out afresh here, square by square from the best one.
Beside(c) == {d \in Tiles : Away(c, d) \in {1, 2}}
Clear(c, d) == {c, d, <<c[1], d[2]>>, <<d[1], c[2]>>} \cap blocked = {}
RoomIsUsed ==
  points # <<>> =>
    /\ \A c \in reached : \A d \in Beside(c) : Clear(c, d) /\ HasFloor(d) => d \in reached
    /\ \A d \in reached : Away(best, room.towards) <= Away(d, room.towards)
    /\ \E way \in {WayTo(best)} :
         /\ \A n \in 2..Len(way) : way[n] \in Beside(way[n - 1]) /\ Clear(way[n - 1], way[n])
         /\ \A n \in DOMAIN way : \A p \in room.pickups :
              Away(way[n], p) <= kPickupDisc =>
                \/ Away(p, room.towards) <= kBeside
                \/ Away(way[n], room.from) <= kSqueezeOut \/ Away(p, room.from) <= kSqueezeOut
===============================================================================
