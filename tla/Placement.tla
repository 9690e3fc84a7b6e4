----------------------------- MODULE Placement -----------------------------
(***************************************************************************)
(* The box and the split_type that every node of a workspace's layout      *)
(* tree keeps from one handler to the next, and the arrangement that       *)
(* refreshes the boxes (src/tiling.c, src/workspace.c, src/config.c).      *)
(*                                                                         *)
(* A handler that changes the tree copies whole nodes, boxes included, and *)
(* decides the way of a split by the box its target has kept; a new leaf   *)
(* has an empty box.  Only the arrangement in the tile mode sets boxes: it *)
(* ends every handler but Unmap while the workspace is on display, the     *)
(* mode is tile and there is an output (one, here).  In the monocle mode,  *)
(* or out of sight, the tree changes and its boxes are left as they are.   *)
(***************************************************************************)
EXTENDS Geometry

CONSTANTS
    Rooms,      \* what an arrangement may find: an area and a gap
    NoRoom,     \* no room
    MaxUnarranged   \* bound on the leaves of a tree that grows unarranged

ASSUME PlacementAssumption ==
    /\ Rooms \subseteq [area : Areas, gap : Gaps]
    /\ NoRoom \notin Rooms

VARIABLES
    node,           \* path -> [box, split]: node->box and node->split_type,
                    \* of which the latter counts where there are children
    room            \* what an arrangement at the end of a handler finds, and
                    \* NoRoom while there is none

placed == <<node, room>>
pvars == <<tree, listed, aborted, node, room>>

NoBox == [x |-> 0, y |-> 0, width |-> 0, height |-> 0]
NewNode == [box |-> NoBox, split |-> "horiz"]

----------------------------------------------------------------------------
(* Copying nodes *)

\* The way the code splits a box
SplitType(box) == IF box.width >= box.height THEN "horiz" ELSE "vert"

\* SplitNode at p, seen from the boxes: p keeps its own and its first child
\* gets a copy of it.
SplitBoxes(nd, p) ==
    LET first     == p \o <<1>>
        Pulled(r) == p \o SubSeq(r, Len(p) + 2, Len(r))
    IN  [r \in DOMAIN tree' |->
            CASE r = p              -> [nd[p] EXCEPT !.split = SplitType(nd[p].box)]
              [] r = p \o <<2>>     -> NewNode
              [] IsPrefix(first, r) -> nd[Pulled(r)]
              [] OTHER              -> nd[r]]

\* workspace_insert_toplevel
InsertedBoxes(focused) ==
    IF IsEmptyTree(tree) THEN node ELSE SplitBoxes(node, FindTargetNode(tree, focused))

\* The root that is left when no window is
RootOnly(nd) == [p \in {Root} |-> [nd[Root] EXCEPT !.split = "horiz"]]

\* workspace_remove_toplevel: the nodes that stay take their boxes along.
RemovedBoxes(w) ==
    LET kept == Survivors(tree, w)
        at   == Collapsed(tree, kept)
    IN  IF kept = {} THEN RootOnly(node)
        ELSE [r \in {at[n] : n \in kept} |-> node[CHOOSE n \in kept : at[n] = r]]

----------------------------------------------------------------------------
(* Arrangement *)

IsOpen(box) == box.width > 0 /\ box.height > 0

\* The boxes the nodes get if no box is empty
FreshBoxes(nd, r) ==
    Boxes(DOMAIN nd, [p \in DOMAIN nd \ Ends(DOMAIN nd) |-> nd[p].split], r.area, r.gap)

\* arrange_node_recursive: an empty box stops the descent and the nodes from
\* there on keep the boxes they had.
Arrange(nd, r) ==
    LET fresh == FreshBoxes(nd, r)
    IN  [p \in DOMAIN nd |->
            IF \A q \in DOMAIN nd : IsPrefix(q, p) => IsOpen(fresh[q])
            THEN [nd[p] EXCEPT !.box = fresh[p]] ELSE nd[p]]

\* Mutant of Arranged: what the workspace was decides, not what it becomes.
ArrangedBefore(nd) == IF room = NoRoom THEN nd ELSE Arrange(nd, room)

\* arrange_workspaces
Arranged(nd) == IF room' = NoRoom THEN nd ELSE Arrange(nd, room')

----------------------------------------------------------------------------
(* Handlers *)

PInit ==
    /\ Init
    /\ node = [p \in {Root} |-> NewNode]
    /\ room = NoRoom

Settles(nd) ==
    /\ UNCHANGED room
    /\ node' = IF aborted' THEN node ELSE Arranged(nd)

\* The workspace comes on display or leaves it, the mode is toggled, an output
\* comes or the last one goes, or a panel, an output or the configuration
\* leaves other room.
Turn(r) ==
    /\ room' = r
    /\ UNCHANGED vars
    /\ node' = Arranged(node)

PNext ==
    /\ ~aborted
    /\ \/ \E w \in Windows :
            \/ \E focused \in Windows \cup {NoWindow} :
                  /\ room = NoRoom => Cardinality(Leaves(tree)) < MaxUnarranged
                  /\ Insert(w, focused)
                  /\ Settles(InsertedBoxes(focused))
            \/ Unmap(w) /\ UNCHANGED placed
            \/ Destroy(w) /\ Settles(RemovedBoxes(w))
            \/ /\ SendAway(w)
               /\ Settles(IF listed = {w} THEN RootOnly(RemovedBoxes(w)) ELSE RemovedBoxes(w))
            \/ \E q \in Leaves(tree) : MoveWindow(w, q) /\ Settles(node)
       \/ \E r \in (Rooms \cup {NoRoom}) \ {room} : Turn(r)

PSpec == PInit /\ [][PNext]_pvars
----------------------------------------------------------------------------
(* Properties *)

\* While the workspace is arranged and every tile has room, the boxes that the
\* nodes have kept through splits, collapses and moves, and through any time
\* spent unarranged, lead focus-window and move-window from any window to a
\* nearest one of those that lie in the direction, and to none only if none
\* does (src/config.c:399-435, src/workspace.c:136-170, src/tiling.c:57-117).
\* In the monocle mode the boxes are old or empty and nothing is claimed.
AllOpen(fresh) == \A p \in DOMAIN fresh : IsOpen(fresh[p])

DirectionFindsNearest ==
    room # NoRoom /\ AllOpen(FreshBoxes(node, room)) =>
        FindsNearest(DOMAIN tree, [p \in DOMAIN tree |-> node[p].box])
=============================================================================
