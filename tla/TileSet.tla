------------------------------ MODULE TileSet ------------------------------
(***************************************************************************)
(* What the layout of one workspace promises to the rest of buzzay, with   *)
(* the tree forgotten: the set of windows that own a tile (hosted) and the *)
(* set of windows in the workspace's window list (listed).                 *)
(*                                                                         *)
(* A window enters both sets at once.  It leaves the list when its surface *)
(* is unmapped and the layout when it is destroyed, or both at once when   *)
(* the user sends it to another workspace.  Layout implements this         *)
(* specification with a tree of split nodes, and Desktop implements it     *)
(* once per workspace.                                                     *)
(***************************************************************************)
CONSTANT Windows

VARIABLES hosted, listed

vars == <<hosted, listed>>

TypeOK ==
    /\ hosted \in SUBSET Windows
    /\ listed \in SUBSET Windows

Init ==
    /\ hosted = {}
    /\ listed = {}

\* The window is listed and given a tile.
Host(w) ==
    /\ w \notin listed
    /\ hosted' = hosted \cup {w}
    /\ listed' = listed \cup {w}

\* The window is unmapped: it leaves the list and keeps its tile.
Delist(w) ==
    /\ w \in listed
    /\ listed' = listed \ {w}
    /\ UNCHANGED hosted

\* An unlisted window is destroyed: its tile goes.
Evict(w) ==
    /\ w \notin listed
    /\ hosted' = hosted \ {w}
    /\ UNCHANGED listed

\* The window is sent to another workspace.
Leave(w) ==
    /\ w \in listed
    /\ listed' = listed \ {w}
    /\ hosted' = hosted \ {w}

\* The last listed window was sent away: the layout starts afresh, and the
\* tiles of unmapped windows go with it.
Reset ==
    /\ \/ listed = {}
       \/ \E w \in Windows : listed = {w}
    /\ listed' = {}
    /\ hosted' = {}

Next ==
    \/ Reset
    \/ \E w \in Windows : Host(w) \/ Delist(w) \/ Evict(w) \/ Leave(w)

Spec == Init /\ [][Next]_vars

\* Every listed window owns a tile, so that no window of a workspace is left
\* out when the workspace is arranged.
ListedAreHosted == listed \subseteq hosted
=============================================================================
