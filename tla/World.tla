-------------------------------- MODULE World --------------------------------
(***************************************************************************)
(* world.World: the grid of regions, the region of a coordinate and the    *)
(* windows of regions that visibility queries visit.  Operators only; the  *)
(* grid is built once, before anything uses it, and never changes.         *)
(***************************************************************************)
EXTENDS Integers

CONSTANTS
    RegionSize,         \* 1 << ShiftBy
    OffsetX, OffsetY,   \* index of the region that starts at coordinate 0
    RegionsX, RegionsY, \* size of the grid
    NoRegion            \* a nil *Region

Regions == (0 .. RegionsX - 1) \X (0 .. RegionsY - 1)

\* The origin is in the grid, and no region index is as large as a region:
\* 160 x 241 regions of 2048 units.
ASSUME WorldAssumption ==
    /\ RegionSize \in Nat \ {0}
    /\ RegionsX \in 1 .. RegionSize /\ RegionsY \in 1 .. RegionSize
    /\ OffsetX \in 0 .. RegionsX - 1 /\ OffsetY \in 0 .. RegionsY - 1
    /\ NoRegion \notin Regions

\* Changed form, for the checks of the properties: the shift of a negative coordinate
\* rounds towards zero.
TruncatedIndex(x, y) ==
    LET Shift(c) == IF c < 0 THEN - ((- c) \div RegionSize) ELSE c \div RegionSize
    IN  <<Shift(x) + OffsetX, Shift(y) + OffsetY>>

\* An arithmetic shift is a division that rounds down.
CoordToRegionIndex(x, y) ==
    <<(x \div RegionSize) + OffsetX, (y \div RegionSize) + OffsetY>>

IsValidRegionIndex(r) == r \in Regions

GetRegion(x, y) ==
    LET r == CoordToRegionIndex(x, y)
    IN  IF IsValidRegionIndex(r) THEN r ELSE NoRegion

\* The centre of a region.
RegionIndexToCoord(r) ==
    <<(r[1] - OffsetX) * RegionSize + (RegionSize \div 2),
      (r[2] - OffsetY) * RegionSize + (RegionSize \div 2)>>

\* The k-th of the 3x3 indices that getSurroundingRegions goes through, dx
\* outside and dy inside.  The region itself is among them.
Neighbour(r, k) == <<r[1] + (k \div 3) - 1, r[2] + (k % 3) - 1>>

\* The positions in the window of r at which region s is visited; those
\* outside the grid hold no region.
Visits(r, s) == {k \in 0 .. 8 : Neighbour(r, k) = s}

\* Reference: the regions that touch r, and r.
InWindow(r, s) == /\ r[1] - s[1] \in -1 .. 1
                  /\ r[2] - s[2] \in -1 .. 1
=============================================================================
