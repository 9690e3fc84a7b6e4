--------------------------------- MODULE Seat ---------------------------------
(***************************************************************************)
(* Who has the keyboard and the pointer when there are layer surfaces      *)
(* (panels, launchers, lock screens) beside the windows, and what the      *)
(* cursor looks like: src/layershell.c and src/cursor.c with the parts of  *)
(* src/xdg.c and src/config.c that move a focus.                           *)
(*                                                                         *)
(* Two structures claim the keyboard.  A workspace remembers the window it *)
(* focused last; the server remembers the layer surface it focused last,   *)
(* focused_layersehll, which also turns focus-follows-mouse off.  Neither  *)
(* knows of the other: a layer surface is forgotten only when it is        *)
(* destroyed.                                                              *)
(*                                                                         *)
(* A keyboard is attached, no drag is under way and the layout mode is     *)
(* tiling.  Windows are mapped in the workspace they were made in and are  *)
(* not sent elsewhere (Desktop has that).  What is under the pointer is    *)
(* any visible surface, the error bar or nothing, since positions are left *)
(* out; surfaces belong to different clients.                              *)
(***************************************************************************)
EXTENDS Lists

CONSTANTS
    Windows,        \* toplevels
    Layers,         \* layer surfaces
    NoSurface,      \* the null surface
    Overlay,        \* the error bar, a drawing of the compositor
    Workspaces,     \* the workspaces
    NoWorkspace,    \* where a window is that does not exist
    Shapes,         \* names of cursor shapes
    ClientImage,    \* the cursor image is a surface of some client
    Policies        \* values of core.focus-on

ASSUME SeatAssumption ==
    /\ Windows \cap Layers = {}
    /\ {NoSurface, Overlay} \cap (Windows \cup Layers) = {}
    /\ NoSurface # Overlay
    /\ NoWorkspace \notin Workspaces
    /\ Workspaces # {}
    /\ "default" \in Shapes
    /\ ClientImage \notin Shapes
    /\ Policies \subseteq {"click", "hover"}

Surfaces == Windows \cup Layers

VARIABLES
    home,       \* the workspace of each window
    order,      \* workspace->toplevels, head first
    layer,      \* the life of each layer surface
    wants,      \* layer surfaces whose keyboard_interactive is not "none"
    current,    \* server->current_workspace
    policy,     \* server->window_active_on
    seat        \* who has the keyboard and the pointer, and the cursor's looks

vars == <<home, order, layer, wants, current, policy, seat>>

(* seat.kb         the surface with keyboard focus                         *)
(* seat.pointer    the surface with pointer focus                          *)
(* seat.last       workspace->focused_window of each workspace             *)
(* seat.layer      server->focused_layersehll                              *)
(* seat.hovered    server->hovered_toplevel                                *)
(* seat.shape      server->current_cursor_shape                            *)
(* seat.image      the shape on the screen, or ClientImage                 *)
SeatState == [kb : Surfaces \cup {NoSurface}, pointer : Surfaces \cup {NoSurface},
              last : [Workspaces -> Windows \cup {NoSurface}],
              layer : Layers \cup {NoSurface}, hovered : Windows \cup {NoSurface},
              shape : Shapes, image : Shapes \cup {ClientImage}]

\* none, created, committed (configured for the first time), shown (mapped),
\* hidden (unmapped); roleless is a surface that outlives its role.
LayerLives == {"none", "created", "committed", "shown", "hidden", "roleless"}

HasRole(l) == layer[l] \in {"created", "committed", "shown", "hidden"}

----------------------------------------------------------------------------
(* Cursor and focus.  Each operator maps the seat to the next one.         *)

\* Mutant of SetShapeForced: the image is set, but not remembered.
SetShapeUncached(f, n) == [f EXCEPT !.image = n]

\* set_cursor_shape_forced
SetShapeForced(f, n) == [f EXCEPT !.shape = n, !.image = n]

\* set_cursor_shape: nothing is done for the shape that was named last, though
\* a client's own image may be on the screen by now.
SetShape(f, n) == IF f.shape = n THEN f ELSE SetShapeForced(f, n)

\* wlr_seat_pointer_clear_focus, and seat_pointer_focus_change if there was one.
ClearPointer(f) ==
    IF f.pointer = NoSurface THEN f
    ELSE SetShape([f EXCEPT !.pointer = NoSurface], "default")

ClearKeyboard(f) == [f EXCEPT !.kb = NoSurface]

\* focus_toplevel
FocusToplevel(f, w) ==
    IF w \in {NoSurface, f.kb} THEN f
    ELSE [f EXCEPT !.kb = w, !.last = [@ EXCEPT ![home'[w]] = w]]

\* focus_layershell
FocusLayer(f, l) ==
    IF l \notin wants' \/ f.kb = l THEN f
    ELSE [f EXCEPT !.kb = l, !.layer = l]

\* The window or layer surface u that is entered gets the keyboard.
FocusEntered(f, u) ==
    CASE u \in Layers -> [FocusLayer(f, u) EXCEPT !.hovered = NoSurface]
      [] u \in Windows -> IF u = f.hovered THEN f
                          ELSE [FocusToplevel(f, u) EXCEPT !.hovered = u]
      [] u \in {NoSurface, Overlay} -> [f EXCEPT !.hovered = NoSurface]

\* Mutant of Hover: a focused layer surface does not turn hovering off.
HoverAlways(f, u) == IF policy' = "click" THEN f ELSE FocusEntered(f, u)

\* The keyboard focus follows the pointer, unless a layer surface is focused.
Hover(f, u) ==
    IF policy' = "click" \/ f.layer # NoSurface THEN f ELSE FocusEntered(f, u)

\* The pointer enters the surface under it; over the error bar nothing
\* changes, and over nothing both focuses go if the keyboard follows.
EnterOrLeave(f, u) ==
    CASE u \in Surfaces -> [f EXCEPT !.pointer = u]
      [] u = Overlay -> f
      [] u = NoSurface -> IF policy' = "click" \/ f.layer # NoSurface THEN f
                          ELSE ClearKeyboard(ClearPointer(f))

\* process_cursor_motion with u under the pointer.
Motion(f, u) ==
    LET shaped == IF u \in Surfaces THEN f ELSE SetShape(f, "default")
    IN  EnterOrLeave(Hover(shaped, u), u)

Visible == {w \in Windows : home'[w] = current'} \cup {l \in Layers : layer'[l] = "shown"}

\* arrange_workspaces, as far as the focus is concerned.
Rearrange(f) == \E u \in Visible \cup {NoSurface, Overlay} : seat' = Motion(f, u)

HeadOf(s) == IF s = << >> THEN NoSurface ELSE s[1]

----------------------------------------------------------------------------
(* Windows and workspaces *)

Init ==
    /\ home = [w \in Windows |-> NoWorkspace]
    /\ order = [ws \in Workspaces |-> << >>]
    /\ layer = [l \in Layers |-> "none"]
    /\ wants = {}
    /\ current \in Workspaces
    /\ policy \in Policies
    /\ seat = [kb |-> NoSurface, pointer |-> NoSurface,
               last |-> [ws \in Workspaces |-> NoSurface],
               layer |-> NoSurface, hovered |-> NoSurface,
               shape |-> "default", image |-> "default"]

\* xdg_toplevel_map
MapWindow(w) ==
    /\ home[w] = NoWorkspace
    /\ home' = [home EXCEPT ![w] = current]
    /\ order' = [order EXCEPT ![current] = Cons(w, @)]
    /\ UNCHANGED <<layer, wants, current, policy>>
    /\ Rearrange(FocusToplevel(seat, w))

\* Mutant of CloseWindow: the pointer focus is not cleared.
CloseKeepsPointer(w) ==
    LET ws == home[w]
        f  == [ClearKeyboard(seat) EXCEPT
                 !.last = IF @[ws] = w THEN [@ EXCEPT ![ws] = NoSurface] ELSE @]
    IN  /\ ws # NoWorkspace
        /\ home' = [home EXCEPT ![w] = NoWorkspace]
        /\ order' = [order EXCEPT ![ws] = Unlink(@, w)]
        /\ UNCHANGED <<layer, wants, current, policy>>
        /\ Rearrange(FocusToplevel(f, HeadOf(order'[ws])))

\* A client destroys a mapped toplevel: xdg_toplevel_unmap is called and then
\* xdg_toplevel_destroy.  Whoever has the pointer or the keyboard loses it,
\* and the head of the window's workspace gets the keyboard.
CloseWindow(w) ==
    LET ws == home[w]
        f  == [ClearKeyboard(ClearPointer(seat)) EXCEPT
                 !.last = IF @[ws] = w THEN [@ EXCEPT ![ws] = NoSurface] ELSE @]
    IN  /\ ws # NoWorkspace
        /\ home' = [home EXCEPT ![w] = NoWorkspace]
        /\ order' = [order EXCEPT ![ws] = Unlink(@, w)]
        /\ UNCHANGED <<layer, wants, current, policy>>
        /\ Rearrange(FocusToplevel(f, HeadOf(order'[ws])))

\* focus-window: the keyboard moves, and focused_layersehll stays.
FocusWindow(w) ==
    /\ home[w] = current
    /\ UNCHANGED <<home, order, layer, wants, current, policy>>
    /\ seat' = FocusToplevel(seat, w)

\* switch-workspace takes both focuses away first.
SwitchWorkspace(ws) ==
    LET wanted == IF seat.last[ws] # NoSurface THEN seat.last[ws] ELSE HeadOf(order[ws])
    IN  /\ ws # current
        /\ current' = ws
        /\ UNCHANGED <<home, order, layer, wants, policy>>
        /\ Rearrange(FocusToplevel(ClearPointer(ClearKeyboard(seat)), wanted))

\* A reload may change core.focus-on, and unless it fails behind that it
\* arranges the windows.
Reload(p) ==
    /\ policy' = p
    /\ UNCHANGED <<home, order, layer, wants, current>>
    /\ Rearrange(seat) \/ UNCHANGED seat

----------------------------------------------------------------------------
(* Layer surfaces (src/layershell.c) *)

LayerBecomes(l, life) ==
    /\ layer' = [layer EXCEPT ![l] = life]
    /\ UNCHANGED <<home, order, current, policy>>

\* server_new_layer_surface, while there is an output.
NewLayer(l) ==
    /\ layer[l] = "none"
    /\ LayerBecomes(l, "created")
    /\ UNCHANGED <<wants, seat>>

\* The state that is committed says whether the surface wants the keyboard.
WantsMayChange(l) == \E S \in {wants \cup {l}, wants \ {l}} : wants' = S

\* layershell_commit, the first one since the surface was made or unmapped.
InitialCommit(l) ==
    /\ layer[l] \in {"created", "hidden"}
    /\ LayerBecomes(l, "committed")
    /\ WantsMayChange(l)
    /\ Rearrange(FocusLayer(seat, l))

\* layershell_commit, a later one: the first with a buffer maps the surface.
\* The windows are arranged again if its size, anchor or zone changed.
LayerCommit(l) ==
    /\ layer[l] \in {"committed", "shown"}
    /\ LayerBecomes(l, "shown")
    /\ WantsMayChange(l)
    /\ \/ UNCHANGED seat
       \/ Rearrange(seat)

\* layershell_unmap: the surface is hidden and keeps every focus.
LayerUnmap(l) ==
    /\ layer[l] = "shown"
    /\ LayerBecomes(l, "hidden")
    /\ UNCHANGED <<wants, seat>>

\* Mutant of GiveBack: the surface goes on being remembered.
GiveBackKeepsLayer(f, l) ==
    IF f.layer = l THEN FocusToplevel(f, f.last[current]) ELSE f

\* Mutant of GiveBack: the keyboard is not given to anybody.
GiveBackNothing(f, l) ==
    IF f.layer = l THEN [f EXCEPT !.layer = NoSurface] ELSE f

\* The window remembered by the current workspace gets the keyboard from the
\* focused layer surface.
GiveBack(f, l) ==
    IF f.layer = l
    THEN FocusToplevel([f EXCEPT !.layer = NoSurface], f.last[current])
    ELSE f

\* layershell_destroy: the surface loses its role, and may go on for a while.
DestroyLayer(l) ==
    /\ HasRole(l)
    /\ LayerBecomes(l, "roleless")
    /\ wants' = wants \ {l}
    /\ Rearrange(GiveBack(seat, l))

\* The surface itself is destroyed, and the seat lets go of it.
SurfaceDestroyed(l) ==
    LET f == IF seat.kb = l THEN ClearKeyboard(seat) ELSE seat
    IN  /\ layer[l] = "roleless"
        /\ LayerBecomes(l, "none")
        /\ UNCHANGED wants
        /\ seat' = (IF seat.pointer = l THEN ClearPointer(f) ELSE f)

----------------------------------------------------------------------------
(* The pointer (src/cursor.c) *)

\* A motion event, or the first commit of a window's contents.
PointerMotion(u) ==
    /\ UNCHANGED <<home, order, layer, wants, current, policy>>
    /\ u \in Visible \cup {NoSurface, Overlay}
    /\ seat' = Motion(seat, u)

\* server_cursor_button, a press over a surface.
ButtonPress(u) ==
    /\ policy = "click"
    /\ UNCHANGED <<home, order, layer, wants, current, policy>>
    /\ u \in Visible
    /\ seat' = (IF u \in Windows THEN FocusToplevel(seat, u) ELSE FocusLayer(seat, u))

\* seat_request_cursor: the client under the pointer shows its own surface.
RequestCursor(c) ==
    /\ c = seat.pointer
    /\ c # NoSurface
    /\ seat' = [seat EXCEPT !.image = ClientImage]
    /\ UNCHANGED <<home, order, layer, wants, current, policy>>

\* server_new_request_cursor_set_shape: it names a shape.
RequestShape(c, n) ==
    /\ c = seat.pointer
    /\ c # NoSurface
    /\ seat' = SetShapeForced(seat, n)
    /\ UNCHANGED <<home, order, layer, wants, current, policy>>

Next ==
    \/ \E w \in Windows : MapWindow(w) \/ CloseWindow(w) \/ FocusWindow(w)
    \/ \E ws \in Workspaces : SwitchWorkspace(ws)
    \/ \E p \in Policies : Reload(p)
    \/ \E l \in Layers :
        \/ NewLayer(l) \/ InitialCommit(l) \/ LayerCommit(l) \/ LayerUnmap(l)
        \/ DestroyLayer(l) \/ SurfaceDestroyed(l)
    \/ \E u \in Surfaces \cup {NoSurface, Overlay} : PointerMotion(u) \/ ButtonPress(u)
    \/ \E c \in Surfaces : RequestCursor(c) \/ \E n \in Shapes : RequestShape(c, n)

Spec == Init /\ [][Next]_vars
----------------------------------------------------------------------------
(* Properties *)

\* Every variable has its type.
TypeOK ==
    /\ home \in [Windows -> Workspaces \cup {NoWorkspace}]
    /\ order \in [Workspaces -> Seq(Windows)]
    /\ layer \in [Layers -> LayerLives]
    /\ wants \in SUBSET Layers
    /\ current \in Workspaces
    /\ policy \in Policies
    /\ seat \in SeatState

\* The layer surface that is remembered as focused exists, even while another
\* or none has the keyboard, and the one that has it is the one remembered, so
\* that its end gives the keyboard back and hovering does not take it away
\* (src/layershell.c:19-53, src/layershell.c:176-182, src/cursor.c:182).
LayerFocusSound ==
    /\ seat.layer # NoSurface => HasRole(seat.layer)
    /\ (seat.kb \in Layers /\ HasRole(seat.kb)) => seat.layer = seat.kb

\* The pointer is never left in a window that is gone or of a workspace that
\* was left, and the keyboard's window exists and is remembered, also after a
\* layer surface has given it back (src/xdg.c:170-192, src/config.c:466-478,
\* src/layershell.c:181).  The keyboard may be elsewhere: a window closed in
\* another workspace passes it on there.
InputIsSound ==
    /\ TypeOK
    /\ seat.pointer \in Windows => home[seat.pointer] = current
    /\ seat.kb \in Windows => home[seat.kb] # NoWorkspace /\ seat.last[home[seat.kb]] = seat.kb

\* When the focused layer surface goes, the window that the current workspace
\* remembers has the keyboard, even if another window or workspace had it in
\* the meantime (src/layershell.c:176-182).  With focus on hover the pointer
\* may move it on at once.
KeyboardHandedBack ==
    [][\A l \in Layers :
        (/\ DestroyLayer(l)
         /\ seat.layer = l
         /\ policy = "click"
         /\ seat.last[current] # NoSurface) => seat'.kb = seat.last[current]]_vars

\* A layer surface with the keyboard does not lose it to the pointer, to a
\* reload or to other layer surfaces that are changed, hidden or destroyed
\* (src/cursor.c:182, src/cursor.c:215; all of them end in a pointer motion).
LayerKeepsKeyboard ==
    [][(/\ seat.kb \in Layers
        /\ HasRole(seat.kb)
        /\ \/ \E u \in Surfaces \cup {NoSurface, Overlay} : PointerMotion(u)
           \/ \E p \in Policies : Reload(p)
           \/ \E l \in Layers : LayerCommit(l) \/ LayerUnmap(l)
           \/ \E l \in Layers \ {seat.kb} : DestroyLayer(l))
            => seat'.kb = seat.kb]_vars

\* When the pointer is moved off every surface, or the surface that had it is
\* gone, no shape that a client named is left on the screen, however often
\* shapes were named, remembered and skipped (src/cursor.c:175-180,
\* src/cursor.c:324-334, src/cursor.c:412-427).  A client's own image may be: it
\* is not remembered, and a default shape that was named before it is skipped,
\* against the comments of src/cursor.c:176-178 and src/cursor.c:327-329.
NoShapeLeftBehind ==
    [][(seat'.pointer = NoSurface \/ \E u \in {NoSurface, Overlay} : PointerMotion(u))
        => seat'.image \in {"default", ClientImage}]_vars
=============================================================================
