------------------------------- MODULE MCRobot -------------------------------
(***************************************************************************)
(* Instances of RobotServer for TLC.                                       *)
(***************************************************************************)
EXTENDS RobotProperties

(* An image of one byte more than a message. *)
ImageOfTwo == [kind \in Kinds |-> IF kind = "IMAGE" THEN {985} ELSE {20}]

(* In tenths of a second: MOVE for one second, TURN for 2.2. *)
Durations == [kind \in {"MOVE", "TURN"} |-> IF kind = "MOVE" THEN 10 ELSE 22]

(***************************************************************************)
(* The only digit of MOVE's length, and the first of TURN's angle: what is *)
(* left of 1.5707963268 for a robot ID of four characters is 1, or 1.4 s.  *)
(***************************************************************************)
WhatIsLeft == [kind \in {"MOVE", "TURN"} |-> IF kind = "MOVE" THEN {10} ELSE {14}]
=============================================================================
