--------------------------------- MODULE Trip ---------------------------------
(***************************************************************************)
(* What a journey promises whoever asks for one (actions/travel.hpp): it   *)
(* is under way until it ends for one reason; it says "arrived" only of a  *)
(* character who is there, and gives up only on one who is not; the walk   *)
(* it gave him ends with it.  Only of a character it cannot read it knows  *)
(* nothing more, and his walk may go on.                                   *)
(***************************************************************************)
VARIABLES
  underWay,  \* a journey was asked for and has not ended
  ending,    \* why the last one ended; "none" while it is under way
  walking,   \* he walks a route of the journey
  there      \* he is as near the goal as was asked

trip == <<underWay, ending, walking, there>>

Init == ~underWay /\ ending = "none" /\ ~walking /\ there \in BOOLEAN

\* Asked for, whatever was under way.
Begin ==
  /\ underWay' = TRUE /\ ending' = "none" /\ walking' = FALSE
  /\ there' \in BOOLEAN

\* He is given a route, or comes to the end of one, and gets about.
GetAbout ==
  /\ walking' \in BOOLEAN /\ (walking' => underWay \/ walking)
  /\ there' \in BOOLEAN
  /\ UNCHANGED <<underWay, ending>>

End(why) == underWay' = FALSE /\ ending' = why /\ UNCHANGED there

Arrive == underWay /\ there /\ End("arrived") /\ walking' = FALSE
GiveUp ==
  /\ underWay /\ ~there /\ walking' = FALSE
  /\ \E why \in {"taken", "shut in", "gave up"} : End(why)
LoseSight == underWay /\ End("unreadable") /\ walking' \in {FALSE, walking}
Cancel == End("cancelled") /\ walking' = FALSE

Next == Begin \/ GetAbout \/ Arrive \/ GiveUp \/ LoseSight \/ Cancel

Spec == Init /\ [][Next]_trip
=============================================================================
