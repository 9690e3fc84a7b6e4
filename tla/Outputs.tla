-------------------------------- MODULE Outputs --------------------------------
(***************************************************************************)
(* Outputs, the layer surfaces (panels) on them and the area that is left  *)
(* for windows: src/output.c, the allocations of src/layershell.c and      *)
(* server_output_layout_changed of src/tiling.c.                           *)
(*                                                                         *)
(* Space has one dimension here: an area starts "at" and has a "len", and  *)
(* a panel claims room at the near edge (top, left) or at the far edge     *)
(* (bottom, right).  Windows are tiled.  What focus a panel takes or gives *)
(* back is the subject of Seat.                                            *)
(***************************************************************************)
EXTENDS Integers, FiniteSets, Functions, Lists

CONSTANTS
    Displays,   \* monitors that may be plugged in
    NoDisplay,  \* no monitor
    Lost,       \* where a panel is whose output has been freed
    Panels,     \* layer surfaces
    Sizes,      \* sizes an output may have
    Claims,     \* exclusive zones a panel may ask for, with the edge
    Gap         \* candy.gap

NoClaim == [near |-> 0, far |-> 0]

ASSUME OutputsAssumption ==
    /\ NoDisplay \notin Displays /\ Lost \notin Displays /\ Lost # NoDisplay
    /\ IsFiniteSet(Panels)
    /\ Sizes \subseteq Nat \ {0}
    /\ Claims \subseteq [near : Nat, far : Nat]
    /\ Gap \in Nat

VARIABLES
    outputs,    \* server->outputs, head first
    size,       \* the size of each output
    usable,     \* output->usable_area
    panel,      \* the state of each layer surface
    tiled,      \* the box of the root of the layout tree, set by an arrangement
    fault       \* freed memory or a null pointer has been used

outputsVars == <<outputs, size, usable, panel, tiled, fault>>

(* panel[p].stage  "none", "new" before the initial commit, "committed"    *)
(* panel[p].home   the output it is linked to                              *)
(* panel[p].claim  the exclusive zone in force                             *)
NoPanel == [stage |-> "none", home |-> NoDisplay, claim |-> NoClaim]

\* usable_area as calloc leaves it
Unset == [at |-> 0, len |-> 0]

\* What each panel claims at one edge of output o, and what they claim together
Zones(pan, o, edge) ==
    [p \in Panels |-> IF pan[p].home = o THEN pan[p].claim[edge] ELSE 0]
Near(pan, o) == SumFunction(Zones(pan, o, "near"))
Far(pan, o) == SumFunction(Zones(pan, o, "far"))

\* What panels leave of an output of size n: the zones add up in any order.
Remaining(n, pan, o) ==
    LET used == Near(pan, o) + Far(pan, o)
    IN  [at |-> Near(pan, o), len |-> IF used < n THEN n - used ELSE 0]

\* layershell_do_allocations, without an effect for a null output
Allocated(use, sz, pan, o) ==
    IF o \in Displays THEN [use EXCEPT ![o] = Remaining(sz[o], pan, o)] ELSE use

\* Where an arrangement puts windows on output o: the usable area, of which an
\* empty length stands for the whole output, without a gap on either side.
Box(use, sz, o) ==
    [at |-> use[o].at + Gap,
     len |-> (IF use[o].len > 0 THEN use[o].len ELSE sz[o]) - 2 * Gap]

\* Outputs whose box is empty are passed over; the tree and what it shows stay.
HasRoom(use, sz, o) == Box(use, sz, o).len > 0

\* arrange_workspaces sets the same tree once for every output, so that the
\* last in the list that has room decides.
Deciding(outs, use, sz) ==
    {i \in DOMAIN outs :
        /\ HasRoom(use, sz, outs[i])
        /\ \A j \in DOMAIN outs : j > i => ~HasRoom(use, sz, outs[j])}

Arranged(outs, use, sz) ==
    IF Deciding(outs, use, sz) = {} THEN tiled
    ELSE Box(use, sz, outs[CHOOSE i \in Deciding(outs, use, sz) : TRUE])

\* Mutant of LayoutChanged: a resize makes every allocation start afresh.
LayoutChangedForgets(outs, use, sz) ==
    /\ tiled' = Arranged(outs, use, sz)
    /\ \E o \in Range(outs) \cup {NoDisplay} :
        usable' = Allocated([d \in Displays |-> Unset], sz, panel, o)

\* server_output_layout_changed: windows first, then the layer surfaces of the
\* output the cursor is over, which any change may move under it.
LayoutChanged(outs, use, sz) ==
    /\ tiled' = Arranged(outs, use, sz)
    /\ \E o \in Range(outs) \cup {NoDisplay} : usable' = Allocated(use, sz, panel, o)

\* Mutant of Reallocate: the windows are arranged before the panels.
ReallocateLate(pan, o) ==
    /\ usable' = Allocated(usable, size, pan, o)
    /\ tiled' = Arranged(outputs, usable, size)

\* What follows a change of panels on output o: do_allocations, then arrange.
Reallocate(pan, o) ==
    /\ usable' = Allocated(usable, size, pan, o)
    /\ tiled' = Arranged(outputs, usable', size)
----------------------------------------------------------------------------
Init ==
    /\ outputs = << >>
    /\ size = [o \in Displays |-> 0]
    /\ usable = [o \in Displays |-> Unset]
    /\ panel = [p \in Panels |-> NoPanel]
    /\ tiled = Unset
    /\ fault = FALSE

\* server_new_output
NewOutput(o, n) ==
    /\ o \notin Range(outputs)
    /\ outputs' = Cons(o, outputs)
    /\ size' = [size EXCEPT ![o] = n]
    /\ LayoutChanged(outputs', usable, size')
    /\ UNCHANGED <<panel, fault>>

\* output_request_state, or a "monitor" of the configuration, changes the size.
ResizeOutput(o, n) ==
    /\ o \in Range(outputs) /\ n # size[o]
    /\ size' = [size EXCEPT ![o] = n]
    /\ LayoutChanged(outputs, usable, size')
    /\ UNCHANGED <<outputs, panel, fault>>

\* The configuration positions an output.
MoveOutput ==
    /\ outputs # << >>
    /\ LayoutChanged(outputs, usable, size)
    /\ UNCHANGED <<outputs, size, panel, fault>>

\* output_destroy, followed by the change of the layout.  The panels of the
\* output stay, linked to a list in freed memory.
OutputDestroy(o) ==
    /\ o \in Range(outputs)
    /\ outputs' = Unlink(outputs, o)
    /\ size' = [size EXCEPT ![o] = 0]
    /\ panel' = [p \in Panels |->
                    IF panel[p].home = o THEN [panel[p] EXCEPT !.home = Lost] ELSE panel[p]]
    /\ LayoutChanged(outputs', [usable EXCEPT ![o] = Unset], size')
    /\ UNCHANGED fault

\* server_new_layer_surface: without a wish, on the newest output; without an
\* output, the surface is destroyed at once.
NewLayerSurface(p, wish) ==
    /\ panel[p].stage = "none"
    /\ wish \in Range(outputs) \cup {NoDisplay}
    /\ wish # NoDisplay \/ outputs # << >>
    /\ panel' = [panel EXCEPT ![p] = [stage |-> "new", claim |-> NoClaim,
                    home |-> IF wish = NoDisplay THEN Head(outputs) ELSE wish]]
    /\ UNCHANGED <<outputs, size, usable, tiled, fault>>

\* A handler of panel p uses its output, which may be no more.
UsesOutput(p) == fault' = (panel[p].home = Lost)

\* layershell_commit, initial or with another exclusive zone: only the output
\* of the panel is allocated again.
LayerCommit(p, c) ==
    /\ \/ panel[p].stage = "new"
       \/ panel[p].stage = "committed" /\ panel[p].claim # c
    /\ panel' = [panel EXCEPT ![p].stage = "committed", ![p].claim = c]
    /\ UsesOutput(p)
    /\ Reallocate(panel', panel[p].home)
    /\ UNCHANGED <<outputs, size>>

\* layershell_destroy
LayerDestroy(p) ==
    /\ panel[p].stage # "none"
    /\ panel' = [panel EXCEPT ![p] = NoPanel]
    /\ UsesOutput(p)
    /\ Reallocate(panel', panel[p].home)
    /\ UNCHANGED <<outputs, size>>

Next ==
    /\ ~fault
    /\ \/ \E o \in Displays, n \in Sizes : NewOutput(o, n) \/ ResizeOutput(o, n)
       \/ MoveOutput
       \/ \E o \in Displays : OutputDestroy(o)
       \/ \E p \in Panels, o \in Displays \cup {NoDisplay} : NewLayerSurface(p, o)
       \/ \E p \in Panels, c \in Claims : LayerCommit(p, c)
       \/ \E p \in Panels : LayerDestroy(p)

Spec == Init /\ [][Next]_outputsVars
----------------------------------------------------------------------------
(* Properties *)

\* Every variable has its type.
TypeOK ==
    LET Areas == [at : Nat, len : Nat] IN
    /\ outputs \in Seq(Displays) /\ IsInjective(outputs)
    /\ size \in [Displays -> Sizes \cup {0}]
    /\ usable \in [Displays -> Areas]
    /\ panel \in [Panels -> [stage : {"none", "new", "committed"}, claim : Claims \cup {NoClaim},
                             home : Displays \cup {NoDisplay, Lost}]]
    /\ tiled \in Areas
    /\ fault \in BOOLEAN

\* The usable area of every output leaves out exactly what the panels on it
\* claim, whatever panels and outputs came, changed and went in between, and
\* although only one output is allocated at a time (src/layershell.c:55-108,
\* src/tiling.c:19-29): no claim is lost, counted twice or charged to another
\* output.  The size it was cut from may be an earlier one, and an output
\* without claims may never have been allocated.
PanelsHoldTheirSpace ==
    /\ TypeOK
    /\ ~fault => \A o \in Range(outputs) :
            \/ \E n \in Sizes : usable[o] = Remaining(n, panel, o)
            \/ usable[o] = Unset /\ Near(panel, o) = 0 /\ Far(panel, o) = 0

\* A panel that comes, goes or claims another room moves the windows out of the
\* way of all panels at both edges, though only its own output is allocated and
\* all of them are arranged: where they are shown they start a gap behind the
\* near panels and end a gap before the far ones, measured from the size the
\* output has if the panel is on it, and otherwise from one it had
\* (src/layershell.c:145-150, src/layershell.c:184-185, src/tiling.c:119-145).
\* An output whose panels leave it nothing is excepted, and so is every change
\* of the layout, which arranges before it allocates (src/tiling.c:23-28).
ClaimsChangeOn(o) ==
    \E p \in Panels : panel[p].home = o /\ panel'[p].claim # panel[p].claim

WindowsClearOfPanels ==
    [][\A o \in Displays : ClaimsChangeOn(o) =>
        \A i \in Deciding(outputs', usable', size') :
            LET shown == outputs'[i]
                end   == tiled'.at + tiled'.len + Gap + Far(panel', shown)
            IN  usable'[shown].len > 0 =>
                    /\ tiled'.at = Near(panel', shown) + Gap
                    /\ end \in Sizes
                    /\ shown = o => end = size'[shown]]_outputsVars
=============================================================================
