----------------------------- MODULE MCVisibility -----------------------------
(***************************************************************************)
(* A world of 4 x 3 regions of 4 x 4 units, scaled down from 160 x 241 of  *)
(* 2048 x 2048.  Players stand in the last region or outside the grid; o1  *)
(* is in the first region, at its upper edge, o2 in the last one.          *)
(***************************************************************************)
EXTENDS Visibility

CONSTANTS o1, o2

MCPositions == {<<11, 7>>, <<-90, 2>>}
MCInside    == {<<11, 7>>}
MCSpot == [o \in Objects |-> IF o = o1 THEN <<-1, -1>> ELSE <<8, 4>>]
=============================================================================
