----------------------------- MODULE MCSegments -----------------------------
(* Segments with two moves that differ in length, in direction, and in     *)
(* whether Y takes part.                                                   *)
EXTENDS Segments

Move(x, y) == [a \in Axis |-> IF a = "X" THEN x ELSE y]
MCMoves == {Move(1, 0), Move(-2, 1)}
=============================================================================
