------------------------------ MODULE MCOutputs ------------------------------
(***************************************************************************)
(* The instance of Outputs that TLC checks.                                *)
(***************************************************************************)
EXTENDS Outputs, TLC

\* No zone, a panel at either edge, and one that leaves the smaller output
\* no room.
MCClaims == {NoClaim, [near |-> 1, far |-> 0], [near |-> 0, far |-> 2], [near |-> 4, far |-> 0]}

\* Monitors and panels do not differ from each other.
Symmetry == Permutations(Displays) \cup Permutations(Panels)
=============================================================================
