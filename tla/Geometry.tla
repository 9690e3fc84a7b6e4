------------------------------- MODULE Geometry -------------------------------
(***************************************************************************)
(* Where the leaves of a layout tree are put, and which one a direction    *)
(* leads to: arrange_node_recursive of src/tiling.c and                    *)
(* find_node_in_direction of src/workspace.c, for the trees of Layout.     *)
(*                                                                         *)
(* A split halves its box (split_ratio is 0.5 wherever it is set).  The    *)
(* partition is stated for every combination of directions of the splits   *)
(* and every shape, the set of paths of a tree; Placement says which way   *)
(* a split goes and which boxes a search finds.                            *)
(***************************************************************************)
EXTENDS Layout, Integers, FiniteSets, Functions

CONSTANTS
    Areas,      \* boxes the root may get, the gap around it taken off, which
                \* may leave less than nothing
    Gaps        \* values of candy.gap

ASSUME GeometryAssumption ==
    /\ Areas \subseteq [x : Int, y : Int, width : Int, height : Int]
    /\ Gaps \subseteq Nat

Ends(shape) == {p \in shape : p \o <<1>> \notin shape}
Directions(shape) == [shape \ Ends(shape) -> {"horiz", "vert"}]

\* Every shape a tree can have: that of a full binary tree
Paths == UNION {[1 .. n -> {1, 2}] : n \in 0 .. (MaxLeaves - 1)}
Shapes ==
    {s \in SUBSET Paths :
        /\ Root \in s
        /\ \A p \in s \ {Root} : {Front(p), Front(p) \o <<1>>, Front(p) \o <<2>>} \subseteq s
        /\ Cardinality(s) < 2 * MaxLeaves}

Abs(n) == IF n < 0 THEN -n ELSE n

\* Division by two that rounds towards zero, as in C
Half(n) == IF n < 0 THEN -((-n) \div 2) ELSE n \div 2

\* Mutant of ChildBox: both halves are rounded down.
ChildBoxHalved(box, child, direction, gap) ==
    LET w == Half(box.width - gap)
        h == Half(box.height - gap)
    IN  CASE direction = "horiz" /\ child = 1 -> [box EXCEPT !.width = w]
          [] direction = "horiz" /\ child = 2 ->
                [box EXCEPT !.x = @ + w + gap, !.width = w]
          [] direction = "vert" /\ child = 1 -> [box EXCEPT !.height = h]
          [] direction = "vert" /\ child = 2 ->
                [box EXCEPT !.y = @ + h + gap, !.height = h]

\* The second child gets what the first and the gap leave.
ChildBox(box, child, direction, gap) ==
    LET w == Half(box.width - gap)
        h == Half(box.height - gap)
    IN  CASE direction = "horiz" /\ child = 1 -> [box EXCEPT !.width = w]
          [] direction = "horiz" /\ child = 2 ->
                [box EXCEPT !.x = @ + w + gap, !.width = @ - w - gap]
          [] direction = "vert" /\ child = 1 -> [box EXCEPT !.height = h]
          [] direction = "vert" /\ child = 2 ->
                [box EXCEPT !.y = @ + h + gap, !.height = @ - h - gap]

\* arrange_node_recursive: the box of every node
Boxes(shape, split, area, gap) ==
    LET box[p \in shape] ==
            IF p = Root THEN area
            ELSE ChildBox(box[Front(p)], Last(p), split[Front(p)], gap)
    IN  box

\* Nodes whose box is empty are passed over, with all that is below them.
Placed(shape, box) == {p \in Ends(shape) : box[p].width > 0 /\ box[p].height > 0}
----------------------------------------------------------------------------
(* find_node_in_direction *)

Beyond(b, from, direction) ==
    CASE direction = "left"  -> b.x + b.width <= from.x
      [] direction = "right" -> b.x >= from.x + from.width
      [] direction = "up"    -> b.y + b.height <= from.y
      [] direction = "down"  -> b.y >= from.y + from.height

Distance(b, from) ==
    Abs((b.x + b.width \div 2) - (from.x + from.width \div 2))
        + Abs((b.y + b.height \div 2) - (from.y + from.height \div 2))

Nowhere == <<0>>

\* Of the leaves found below the two children, the second if they tie
Nearer(box, first, second, from) ==
    CASE first = Nowhere  -> second
      [] second = Nowhere -> first
      [] OTHER -> IF Distance(box[first], from) < Distance(box[second], from)
                  THEN first ELSE second

FindNodeInDirection(shape, box, from, direction) ==
    LET found[p \in shape] ==
            IF p \notin Ends(shape)
            THEN Nearer(box, found[p \o <<1>>], found[p \o <<2>>], from)
            ELSE IF /\ <<box[p].x, box[p].y>> # <<from.x, from.y>>
                    /\ Beyond(box[p], from, direction)
                 THEN p ELSE Nowhere
    IN  found[Root]
----------------------------------------------------------------------------
(* Properties *)

Within(b, area) ==
    /\ b.x >= area.x /\ b.x + b.width <= area.x + area.width
    /\ b.y >= area.y /\ b.y + b.height <= area.y + area.height

Apart(b, c, gap) ==
    \/ b.x + b.width + gap <= c.x \/ c.x + c.width + gap <= b.x
    \/ b.y + b.height + gap <= c.y \/ c.y + c.height + gap <= b.y

\* However a tree came about and whichever way its splits run, the windows that
\* are placed lie inside the area and a gap apart, also in an area smaller than
\* the gap, and without a gap they fill it to the last column
\* (src/tiling.c:57-117, rounding at src/tiling.c:101-112).
Partitions(shape, area, gap, box) ==
    LET placed == Placed(shape, box) IN
    /\ \A p \in placed : Within(box[p], area)
    /\ \A p \in placed : \A q \in placed \ {p} : Apart(box[p], box[q], gap)
    /\ gap = 0 /\ area.width >= 0 /\ area.height >= 0 =>
          SumFunction([p \in placed |-> box[p].width * box[p].height])
            = area.width * area.height

Misplaced ==
    UNION {IF \A split \in Directions(shape), area \in Areas, gap \in Gaps :
                Partitions(shape, area, gap, Boxes(shape, split, area, gap))
           THEN {} ELSE {shape} : shape \in Shapes}

TilesPartition == DOMAIN tree \notin Misplaced

\* From any leaf a direction leads to another one exactly if one lies there,
\* and to none that is farther than it need be.
FindsNearest(shape, box) ==
    \A p \in Ends(shape), d \in {"left", "right", "up", "down"} :
        LET there == {q \in Ends(shape) : Beyond(box[q], box[p], d)}
            found == FindNodeInDirection(shape, box, box[p], d)
        IN  IF there = {} THEN found = Nowhere
            ELSE /\ found \in there
                 /\ \A q \in there : Distance(box[found], box[p]) <= Distance(box[q], box[p])
=============================================================================
