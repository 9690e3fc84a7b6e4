------------------------------ MODULE Desktop ------------------------------
(***************************************************************************)
(* Windows, workspaces and keyboard focus: the life of every toplevel      *)
(* (src/xdg.c), the workspaces it can be in (src/workspace.c), the         *)
(* arrangement of the current workspace (src/tiling.c), the pointer        *)
(* (src/cursor.c) and the keybinding actions on windows and workspaces     *)
(* (src/config.c).                                                         *)
(*                                                                         *)
(* A workspace refers to windows in three independent ways: a linked list  *)
(* of the mapped ones, the leaves of its layout tree and a pointer to the  *)
(* window focused last.  The layout is kept here as the set of windows     *)
(* that own a leaf (Layout models the tree).  A window refers back to one  *)
(* workspace, its home, chosen when the window is created.                 *)
(*                                                                         *)
(* A keyboard is attached, there is no layer surface and no error bar, and *)
(* every tile has a positive size.  "A keybinding is bound" is a constant. *)
(***************************************************************************)
EXTENDS Lists

CONSTANTS
    Windows,        \* the addresses of toplevels
    NoWindow,       \* the null toplevel
    NumWorkspaces,  \* main() makes ten
    SwitchTargets,  \* the arguments of the bound switch-workspace actions
    SendTargets,    \* the arguments of the bound window-to-workspace actions
    Modes,          \* the layout modes that are configured or bound
    Policies,       \* the values of focus-on that the user configures
    Outputs,        \* the number of outputs, at most two
    LateMap         \* may a window be mapped after the user left its home?

ASSUME DesktopAssumption ==
    /\ NoWindow \notin Windows
    /\ NumWorkspaces \in Nat \ {0, 1}
    /\ SwitchTargets \subseteq Nat
    /\ SendTargets \subseteq Nat
    /\ Modes \subseteq {"tile", "monocle"}
    /\ Policies \subseteq {"click", "hover"}
    /\ Outputs \in 0..2
    /\ LateMap \in BOOLEAN

Workspaces == 0..(NumWorkspaces - 1)
AnyWindow == Windows \cup {NoWindow}

VARIABLES
    win,        \* life of each toplevel: none, created, mapped, unmapped
    home,       \* toplevel->in_workspace
    list,       \* workspace->toplevels, head first
    tiles,      \* the windows that own a leaf of workspace->layout
    current,    \* server->current_workspace
    mode,       \* server->window_layout_mode
    policy,     \* server->window_active_on
    shown,      \* windows whose scene node is enabled
    focus,      \* who has the keyboard, and what is remembered about it
    fault,      \* a null or freed toplevel or workspace was dereferenced
    aborted     \* free() was called on the layout embedded in a workspace

vars == <<win, home, list, tiles, current, mode, policy, shown, focus, fault, aborted>>

(* focus.kb        the toplevel with keyboard focus                        *)
(* focus.active    the toplevels last told that they are activated         *)
(* focus.last      workspace->focused_window of each workspace             *)
(* focus.hovered   server->hovered_toplevel                                *)
Focus == [kb : AnyWindow, active : SUBSET Windows,
          last : [Workspaces -> AnyWindow], hovered : AnyWindow]

Listed(ws) == ToSet(list[ws])
Mapped == {w \in Windows : win[w] = "mapped"}

\* The toplevel was freed; its address may still be around.
Dead(w) == w \in Windows /\ win[w] = "none"
DeadNow(w) == w \in Windows /\ win'[w] = "none"

HeadOf(s) == IF s = << >> THEN NoWindow ELSE s[1]

----------------------------------------------------------------------------
(* Focus and arrangement *)

\* Mutant of FocusToplevel: only a change of focus activates the window.
FocusWithoutActivation(f, w) ==
    IF w \in {NoWindow, f.kb} THEN f
    ELSE [f EXCEPT !.kb = w,
                   !.active = IF f.kb = NoWindow THEN @ ELSE (@ \ {f.kb}) \cup {w},
                   !.last = [@ EXCEPT ![home'[w]] = w]]

\* Mutant of FocusToplevel: the workspace on display remembers the window.
FocusRememberedHere(f, w) ==
    IF w \in {NoWindow, f.kb} THEN f
    ELSE [f EXCEPT !.kb = w,
                   !.active = (@ \ {f.kb}) \cup {w},
                   !.last = [@ EXCEPT ![current'] = w]]

\* focus_toplevel.  Only the surface that has the keyboard is deactivated.
FocusToplevel(f, w) ==
    IF w \in {NoWindow, f.kb} THEN f
    ELSE [f EXCEPT !.kb = w,
                   !.active = (@ \ {f.kb}) \cup {w},
                   !.last = [@ EXCEPT ![home'[w]] = w]]

ClearKeyboard(f) == [f EXCEPT !.kb = NoWindow]

\* arrange_workspaces_tiling on every output.
ArrangeTiling(sh) == sh \cup tiles'[current']

\* arrange_workspaces_monocle on every output: the window focused last is
\* shown and the other windows of the list are hidden.
ArrangeMonocle(f, sh) ==
    (sh \ ToSet(list'[current'])) \cup ({f.last[current']} \cap Mapped')

Arranged(f, sh) ==
    CASE Outputs = 0                        -> sh
      [] Outputs > 0 /\ mode' = "tile"    -> ArrangeTiling(sh)
      [] Outputs > 0 /\ mode' = "monocle" -> ArrangeMonocle(f, sh)

\* The arrangement reads every tile, or the window focused last.
ArrangeFaults(f) ==
    /\ Outputs > 0
    /\ \/ mode' = "tile" /\ \E w \in tiles'[current'] : DeadNow(w)
       \/ mode' = "monocle" /\ DeadNow(f.last[current'])

\* What process_cursor_motion may find under the pointer.
UnderPointer(sh) == (sh \cap Mapped') \cup {NoWindow}

\* process_cursor_motion with u under the pointer.  The window hovered is only
\* kept up to date while the focus follows the pointer.
PointAt(f, u) ==
    CASE policy' = "click" -> f
      [] policy' = "hover" /\ u = NoWindow -> [ClearKeyboard(f) EXCEPT !.hovered = NoWindow]
      [] policy' = "hover" /\ u = f.hovered /\ u # NoWindow -> f
      [] OTHER -> [FocusToplevel(f, u) EXCEPT !.hovered = u]

\* arrange_workspaces, with which most handlers end.
Rearrange(f, sh) ==
    /\ shown' = Arranged(f, sh)
    /\ \E u \in UnderPointer(Arranged(f, sh)) : focus' = PointAt(f, u)
    /\ fault' = ArrangeFaults(f)

----------------------------------------------------------------------------
(* The life of a toplevel (src/xdg.c) *)

Init ==
    /\ win = [w \in Windows |-> "none"]
    /\ home = [w \in Windows |-> 1]
    /\ list = [ws \in Workspaces |-> << >>]
    /\ tiles = [ws \in Workspaces |-> {}]
    /\ current = 1
    /\ mode \in Modes
    /\ policy \in Policies
    /\ shown = {}
    /\ focus = [kb |-> NoWindow, active |-> {},
                last |-> [ws \in Workspaces |-> NoWindow], hovered |-> NoWindow]
    /\ fault = FALSE
    /\ aborted = FALSE

\* server_new_xdg_toplevel.  The allocator may return a freed address.
NewToplevel(w) ==
    /\ win[w] = "none"
    /\ win' = [win EXCEPT ![w] = "created"]
    /\ home' = [home EXCEPT ![w] = current]
    /\ UNCHANGED <<list, tiles, current, mode, policy, shown, focus, fault, aborted>>

\* Mutant of Map: the tile is made in the window's home.
MapTilesHome(w) ==
    /\ win[w] \in {"created", "unmapped"}
    /\ LateMap \/ home[w] = current
    /\ win' = [win EXCEPT ![w] = "mapped"]
    /\ list' = [list EXCEPT ![current] = Cons(w, @)]
    /\ tiles' = [tiles EXCEPT ![home[w]] = @ \cup {w}]
    /\ UNCHANGED <<home, current, mode, policy, aborted>>
    /\ Rearrange(FocusToplevel(focus, w), shown \cup {w})

\* xdg_toplevel_map: the window joins the workspace on display.
Map(w) ==
    /\ win[w] \in {"created", "unmapped"}
    /\ LateMap \/ home[w] = current
    /\ win' = [win EXCEPT ![w] = "mapped"]
    /\ list' = [list EXCEPT ![current] = Cons(w, @)]
    /\ tiles' = [tiles EXCEPT ![current] = @ \cup {w}]
    /\ UNCHANGED <<home, current, mode, policy, aborted>>
    /\ Rearrange(FocusToplevel(focus, w), shown \cup {w})

\* Mutant of Unmap: the window stays in its list.
UnmapKeepsLink(w) ==
    /\ win[w] = "mapped"
    /\ win' = [win EXCEPT ![w] = "unmapped"]
    /\ shown' = shown \ {w}
    /\ UNCHANGED <<home, list, tiles, current, mode, policy, focus, fault, aborted>>

\* xdg_toplevel_unmap: only the list is updated.
Unmap(w) ==
    /\ win[w] = "mapped"
    /\ win' = [win EXCEPT ![w] = "unmapped"]
    /\ list' = [ws \in Workspaces |-> Unlink(list[ws], w)]
    /\ shown' = shown \ {w}
    /\ UNCHANGED <<home, tiles, current, mode, policy, focus, fault, aborted>>

\* Mutant of Evict: the tile is looked for in the workspace on display.
EvictHere(ts, w) == [ts EXCEPT ![current] = @ \ {w}]

\* workspace_remove_toplevel: w leaves the layout of its home.
Evict(ts, w) == [ts EXCEPT ![home[w]] = @ \ {w}]

\* Mutant of Forget: the keyboard focus is not cleared.
ForgetKeepsKeyboard(f, w) ==
    [f EXCEPT
        !.active = @ \ {w},
        !.last = IF @[home[w]] = w THEN [@ EXCEPT ![home[w]] = NoWindow] ELSE @]

\* Mutant of Forget: the workspace goes on remembering the window.
ForgetKeepsLast(f, w) == [ClearKeyboard(f) EXCEPT !.active = @ \ {w}]

\* What the destruction of w leaves of the focus.
Forget(f, w) ==
    [ClearKeyboard(f) EXCEPT
        !.active = @ \ {w},
        !.last = IF @[home[w]] = w THEN [@ EXCEPT ![home[w]] = NoWindow] ELSE @]

\* workspace_remove_toplevel may free the root of the layout, when the flag
\* that protects it was lost with an earlier window (Layout says when).
FreesRoot(w) ==
    /\ w \in tiles[home[w]]
    /\ aborted' = TRUE
    /\ UNCHANGED <<win, home, list, tiles, current, mode, policy, shown, focus, fault>>

\* xdg_toplevel_destroy: the head of the window's own workspace gets the
\* keyboard, wherever the user is.
Destroy(w) ==
    /\ win[w] \in {"created", "unmapped"}
    /\ \/ FreesRoot(w)
       \/ /\ win' = [win EXCEPT ![w] = "none"]
          /\ tiles' = Evict(tiles, w)
          /\ UNCHANGED <<home, list, current, mode, policy, aborted>>
          /\ Rearrange(FocusToplevel(Forget(focus, w), HeadOf(list[home[w]])), shown \ {w})

----------------------------------------------------------------------------
(* Keybinding actions (src/config.c) *)

LastHere == focus.last[current]

\* close-active-window asks the client to close; the client may or may not
\* unmap and destroy the window later.
CloseActive ==
    /\ LastHere # NoWindow
    /\ fault' = Dead(LastHere)
    /\ UNCHANGED <<win, home, list, tiles, current, mode, policy, shown, focus, aborted>>

\* focus-window finds the leaf of v in the direction of its argument.  A
\* window that was mapped twice owns two leaves, so v may be the same window.
FocusDirection(v) ==
    /\ LastHere \in tiles[current]
    /\ v \in tiles[current]
    /\ UNCHANGED <<win, home, list, tiles, current, mode, policy, shown, aborted>>
    /\ focus' = FocusToplevel(focus, v)
    /\ fault' = Dead(v)

\* move-window exchanges the windows of two leaves.
MoveDirection(v) ==
    /\ LastHere \in tiles[current]
    /\ v \in tiles[current]
    /\ UNCHANGED <<win, home, list, tiles, current, mode, policy, aborted>>
    /\ Rearrange(focus, shown)

\* Mutant of HideListed: only the focused window is hidden.
HideFocused(sh) == sh \ {LastHere}

\* The windows of the workspace that is left are hidden.
HideListed(sh) == sh \ Listed(current)

\* The rest of switch-workspace, for a workspace that exists: it focuses the
\* window focused last there, or else the head of its list.
EnterWorkspace(i) ==
    LET wanted == IF focus.last[i] # NoWindow THEN focus.last[i] ELSE HeadOf(list[i])
        f      == FocusToplevel(ClearKeyboard(focus), wanted)
    IN  /\ current' = i
        /\ IF Dead(wanted)
           THEN /\ fault' = TRUE
                /\ focus' = f
                /\ shown' = HideListed(shown)
           ELSE Rearrange(f, HideListed(shown))

\* switch-workspace.  An index without a workspace is not noticed.
SwitchWorkspace(i) ==
    /\ i \notin {0, current}
    /\ UNCHANGED <<win, home, list, tiles, mode, policy, aborted>>
    /\ IF i \notin Workspaces
       THEN fault' = TRUE /\ UNCHANGED <<current, shown, focus>>
       ELSE EnterWorkspace(i)

\* Mutant of ResetIfEmptied: the layout is always reset.
ResetAlways(ts, left) == [ts EXCEPT ![current] = {}]

\* The layout of a workspace whose list has become empty starts afresh.
ResetIfEmptied(ts, left) ==
    IF left = << >> THEN [ts EXCEPT ![current] = {}] ELSE ts

\* The focused window c goes to t.  When nothing is left in the list the
\* layout is reset, but the workspace goes on remembering the window that was
\* sent away.
SendTo(t, c) ==
    LET left == Unlink(list[current], c)
        next == IF left = << >> THEN c ELSE left[1]
        f    == [focus EXCEPT !.last = [@ EXCEPT ![current] = next, ![t] = c]]
    IN  /\ home' = [home EXCEPT ![c] = t]
        /\ list' = [ws \in Workspaces |->
                      IF ws = t THEN Cons(c, Unlink(list[ws], c)) ELSE Unlink(list[ws], c)]
        /\ tiles' = [ResetIfEmptied(Evict(tiles, c), left) EXCEPT ![t] = @ \cup {c}]
        /\ UNCHANGED <<win, current, mode, policy, aborted>>
        /\ Rearrange(FocusToplevel(f, next), shown \ {c})

\* window-to-workspace, for a target other than the current workspace.  The
\* window remembered may be one that is no longer linked in a list.
WindowToWorkspace(t) ==
    /\ LastHere # NoWindow
    /\ t \in Workspaces \ {current}
    /\ \/ LastHere \in Mapped /\ (FreesRoot(LastHere) \/ SendTo(t, LastHere))
       \/ /\ LastHere \notin Mapped
          /\ fault' = TRUE
          /\ UNCHANGED <<win, home, list, tiles, current, mode, policy, shown, focus, aborted>>

\* toggle-monocle
ToggleMonocle ==
    /\ Modes = {"tile", "monocle"}
    /\ mode' = IF mode = "monocle" THEN "tile" ELSE "monocle"
    /\ UNCHANGED <<win, home, list, tiles, current, policy, aborted>>
    /\ Rearrange(focus, shown)

\* handle_config, when the configuration files changed: focus-on is read, and
\* with no error after it the workspaces are arranged.  layout-mode only
\* counts when the program starts.
Reload(p) ==
    /\ policy' = p
    /\ UNCHANGED <<win, home, list, tiles, current, mode, aborted>>
    /\ \/ Rearrange(focus, shown)
       \/ UNCHANGED <<shown, focus, fault>>

----------------------------------------------------------------------------
(* cycle-monocle (src/tiling.c) *)

\* Mutant of Neighbour: the cycle does not wrap.
NeighbourNoWrap(s, w, reverse) ==
    LET k == CHOOSE i \in DOMAIN s : s[i] = w
    IN  IF reverse THEN IF k = 1 THEN s[1] ELSE s[k - 1]
                   ELSE IF k = Len(s) THEN s[k] ELSE s[k + 1]

\* The neighbour of w in its list, the other end of the list at an end.
Neighbour(s, w, reverse) ==
    LET k == CHOOSE i \in DOMAIN s : s[i] = w
    IN  IF reverse THEN IF k = 1 THEN s[Len(s)] ELSE s[k - 1]
                   ELSE IF k = Len(s) THEN s[1] ELSE s[k + 1]

\* At the end of another workspace's list the code steps onto the head of
\* that list, which is no toplevel.
StepsOffList(ws, w, reverse) ==
    /\ ws # current
    /\ w = list[ws][IF reverse THEN 1 ELSE Len(list[ws])]

\* One round of the loop over the outputs.  The window focused last, or the
\* head of the list where there is none, passes the focus to its neighbour;
\* an unmapped one has no neighbour and the focus stays.
CycleOnce(s, reverse) ==
    LET last    == s.focus.last[current]
        base    == IF last = NoWindow THEN HeadOf(list[current]) ELSE last
        ws      == CHOOSE x \in Workspaces : base \in Listed(x)
        Go(f)   == [s EXCEPT !.focus = f, !.shown = ArrangeMonocle(f, @)]
    IN  IF \/ s.fault
           \/ base = NoWindow
           \/ Dead(base)
           \/ base \in Mapped /\ StepsOffList(ws, base, reverse)
        THEN [s EXCEPT !.fault = TRUE]
        ELSE IF base \in Mapped
             THEN Go(FocusToplevel(s.focus, Neighbour(list[ws], base, reverse)))
             ELSE Go(s.focus)

\* All rounds: one for each output.
Cycled(reverse) ==
    LET start == [focus |-> focus, shown |-> shown, fault |-> FALSE]
    IN  CASE Outputs = 0 -> start
          [] Outputs = 1 -> CycleOnce(start, reverse)
          [] Outputs = 2 -> CycleOnce(CycleOnce(start, reverse), reverse)

CycleMonocle(reverse) ==
    /\ mode = "monocle"
    /\ UNCHANGED <<win, home, list, tiles, current, mode, policy, aborted>>
    /\ focus' = Cycled(reverse).focus
    /\ shown' = Cycled(reverse).shown
    /\ fault' = Cycled(reverse).fault

----------------------------------------------------------------------------
(* Pointer and outputs *)

\* The pointer moves, or a client's commit makes the server look again at
\* what is under it.
PointerMotion(u) ==
    /\ u \in (shown \cap Mapped) \cup {NoWindow}
    /\ UNCHANGED <<win, home, list, tiles, current, mode, policy, shown, fault, aborted>>
    /\ focus' = PointAt(focus, u)

\* A button is pressed over a window.
ButtonPress(v) ==
    /\ policy = "click"
    /\ v \in shown \cap Mapped
    /\ UNCHANGED <<win, home, list, tiles, current, mode, policy, shown, fault, aborted>>
    /\ focus' = FocusToplevel(focus, v)

\* server_output_layout_changed
OutputLayoutChanged ==
    /\ UNCHANGED <<win, home, list, tiles, current, mode, policy, aborted>>
    /\ Rearrange(focus, shown)

Next ==
    /\ ~fault
    /\ ~aborted
    /\ \/ \E w \in Windows : NewToplevel(w) \/ Map(w) \/ Unmap(w) \/ Destroy(w)
       \/ CloseActive
       \/ \E v \in Windows : FocusDirection(v) \/ MoveDirection(v)
       \/ \E i \in SwitchTargets : SwitchWorkspace(i)
       \/ \E t \in SendTargets : WindowToWorkspace(t)
       \/ ToggleMonocle
       \/ \E p \in Policies : Reload(p)
       \/ \E reverse \in BOOLEAN : CycleMonocle(reverse)
       \/ \E u \in AnyWindow : PointerMotion(u)
       \/ \E v \in Windows : ButtonPress(v)
       \/ OutputLayoutChanged

Spec == Init /\ [][Next]_vars
----------------------------------------------------------------------------
(* Properties *)

\* Every variable has its type.
TypeOK ==
    /\ win \in [Windows -> {"none", "created", "mapped", "unmapped"}]
    /\ home \in [Windows -> Workspaces]
    /\ list \in [Workspaces -> Seq(Windows)]
    /\ tiles \in [Workspaces -> SUBSET Windows]
    /\ current \in Workspaces
    /\ mode \in Modes
    /\ policy \in Policies
    /\ shown \in SUBSET Windows
    /\ focus \in Focus
    /\ fault \in BOOLEAN
    /\ aborted \in BOOLEAN

\* A window is linked in one list while it is mapped and in none otherwise,
\* whatever maps, unmaps and moves it goes through.  toplevel->link is one
\* node: a window linked twice, or destroyed while linked, corrupts the list
\* (src/xdg.c:105, src/xdg.c:127, src/config.c:496-499).
LinkedOnce ==
    /\ \A ws \in Workspaces : IsInjective(list[ws])
    /\ \A ws \in Workspaces : Listed(ws) \subseteq Mapped
    /\ \A w \in Mapped : \E ws \in Workspaces : w \in Listed(ws)
    /\ \A ws1, ws2 \in Workspaces : ws1 # ws2 => Listed(ws1) \cap Listed(ws2) = {}

\* Every window of a workspace's list owns a tile of that workspace, although
\* list and tree are updated by different handlers (src/workspace.c:36-125,
\* src/config.c:496-538): no mapped window is left out of the arrangement.
ListedTiled == \A ws \in Workspaces : Listed(ws) \subseteq tiles[ws]

\* A tile belongs to a window that is alive and at home in that workspace, so
\* that its destruction finds it (src/workspace.c:105-125, src/xdg.c:157).
\* This relies on windows being mapped while their home is on display.
TilesLiveAtHome ==
    \A ws \in Workspaces : \A w \in tiles[ws] : ~Dead(w) /\ home[w] = ws

\* The window with the keyboard is the one its workspace remembers as focused
\* (src/xdg.c:36-78, src/config.c:532-542): the border colours, the actions
\* and a later return to the workspace agree with where keys go.  This too
\* relies on windows being mapped while their home is on display.
KeyboardIsRemembered ==
    focus.kb # NoWindow => focus.last[home[focus.kb]] = focus.kb

\* The window with the keyboard was told that it is activated, through every
\* path by which it got the keyboard (src/xdg.c:36-78).
KeyboardIsActivated == focus.kb # NoWindow => focus.kb \in focus.active

\* As long as nothing has gone wrong, the window with the keyboard and those
\* that were told they are activated are not freed, whatever closes, moves or
\* changes the policy (src/xdg.c:36-78, src/xdg.c:173-192, src/cursor.c:182-195,
\* src/config.c:532-542).  The window hovered may be: after a change from
\* "hover" to "click" nothing clears it, and it is only compared with others.
FocusIsLive == ~fault => \A w \in focus.active \cup {focus.kb} : ~Dead(w)

\* After every handler the mapped windows on the screen are, in the tiling mode,
\* those of the current workspace, and in the monocle mode at most one
\* (src/tiling.c:119-204, src/config.c:451-478, src/config.c:545-552).
ScreenShowsWorkspace ==
    (Outputs > 0 /\ ~fault) =>
        CASE mode = "tile"    -> shown \cap Mapped = Listed(current)
          [] mode = "monocle" -> \A v, w \in shown \cap Mapped : v = w

\* While each window is mapped at home, none is sent elsewhere and only
\* workspaces that exist are switched to, the one way to dereference a freed
\* or null toplevel or workspace is to cycle through a workspace without
\* windows (src/tiling.c:232-236; src/xdg.c:173-192, src/config.c:450-478).
\* The other end such a session can come to is aborted, the free() of a
\* layout's root, which RootNeverFreed of Layout is about.
NoOtherFault == fault => (mode = "monocle" /\ list[current] = << >>)

\* cycle-monocle advances by one in the list of the workspace, and starts
\* again at the other end (src/tiling.c:220-260;
\* docs/source/user/config/bindings.md:144, "Cycle to the next window in the
\* monocle"): no window of the list is left out of the round.
Successor(s, v, w) ==
    \E k \in DOMAIN s : s[k] = v /\ s[(k % Len(s)) + 1] = w

CycleVisitsNext ==
    [][\A reverse \in BOOLEAN :
        (CycleMonocle(reverse) /\ Outputs > 0 /\ LastHere \in Listed(current)) =>
            IF reverse THEN Successor(list[current], focus'.last[current], LastHere)
                       ELSE Successor(list[current], LastHere, focus'.last[current])]_vars

\* The tiles and the list of each workspace behave as TileSet says, however
\* the windows travel between workspaces (src/workspace.c, src/config.c).
Tiles(ws) == INSTANCE TileSet WITH hosted <- tiles[ws], listed <- Listed(ws)

ImplementsTileSets ==
    /\ \A ws \in Workspaces : Tiles(ws)!Init
    /\ [][\A ws \in Workspaces : [Tiles(ws)!Next]_<<tiles[ws], Listed(ws)>>]_vars
=============================================================================
