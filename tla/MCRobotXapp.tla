------------------------------ MODULE MCRobotXapp ------------------------------
(* RobotXapp with one policy and four requests: two rounds of a creation and a deletion. *)
EXTENDS RobotXapp
CONSTANTS p1
================================================================================
