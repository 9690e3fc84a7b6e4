-------------------------------- MODULE MCSeat --------------------------------
(***************************************************************************)
(* The instance of Seat that TLC checks.                                   *)
(***************************************************************************)
EXTENDS Seat, TLC

\* Windows, layer surfaces and workspaces do not differ from each other.
Symmetry ==
    Permutations(Windows) \cup Permutations(Layers) \cup Permutations(Workspaces)
=============================================================================
