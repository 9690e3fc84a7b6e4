------------------------------ MODULE MCLayout ------------------------------
(* Layout, Geometry and Placement on a small set of windows, which are     *)
(* interchangeable, in areas with odd and even sides, one of them tiny and *)
(* one of negative width, which a gap on both sides leaves of a thin one.  *)
(* In the smaller of the rooms not every way to split leaves all windows a *)
(* place.                                                                  *)
EXTENDS Placement, TLC

Area(w, h) == [x |-> 1, y |-> 2, width |-> w, height |-> h]
MCAreas == {Area(17, 12), Area(3, 7), Area(-1, 4)}

MCRooms == {[area |-> Area(17, 12), gap |-> 2], [area |-> Area(3, 7), gap |-> 0]}

Symmetry == Permutations(Windows)
=============================================================================
