------------------------------ MODULE MCPlanner ------------------------------
(* Two pavements: one edge to be believed, and to be given up.             *)
EXTENDS Planner

CONSTANTS n1, n2

MCNodes == {n1, n2}
=============================================================================
