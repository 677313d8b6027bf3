------------------------------- MODULE MCKeys -------------------------------
(* The key player on two keys: one that scripts press, one that is held.  *)
EXTENDS Keys

CONSTANTS enter, forward

MCScriptKeys == {enter}
MCHoldKeys == {forward}
=============================================================================
