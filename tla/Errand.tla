------------------------------- MODULE Errand -------------------------------
(***************************************************************************)
(* What the channel to the game thread promises a caller (bridge.hpp and   *)
(* mcp/rpc.hpp): an errand is handed over, is run at most once and never   *)
(* after one that was handed over later, and its caller hears either what  *)
(* his own errand came to or that it had not been run in time.  Hearing    *)
(* that it was late does not call it back.                                 *)
(***************************************************************************)
EXTENDS Naturals

CONSTANT Errands   \* how many are handed over at most

VARIABLES
  handed,   \* errands are numbered in the order they are handed over
  done,     \* those that have been run
  heard     \* what the caller of each has heard

vars == <<handed, done, heard>>

Init ==
  /\ handed = 0
  /\ done = {}
  /\ heard = [e \in 1..Errands |-> "nothing"]

HandOver ==
  /\ handed < Errands
  /\ handed' = handed + 1
  /\ UNCHANGED <<done, heard>>

Run ==
  \E e \in 1..handed :
    /\ \A d \in done : d < e
    /\ done' = done \cup {e}
    /\ UNCHANGED <<handed, heard>>

Hear(e) ==
  /\ e \in done
  /\ heard' = [heard EXCEPT ![e] = "own"]

HearLate(e) ==
  /\ e \notin done
  /\ heard' = [heard EXCEPT ![e] = "late"]

Answer ==
  \E e \in 1..handed :
    /\ heard[e] = "nothing"
    /\ Hear(e) \/ HearLate(e)
    /\ UNCHANGED <<handed, done>>

Next == HandOver \/ Run \/ Answer

Spec == Init /\ [][Next]_vars
=============================================================================
