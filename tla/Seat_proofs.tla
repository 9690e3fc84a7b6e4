------------------------------ MODULE Seat_proofs ------------------------------
(***************************************************************************)
(* The keyboard, the pointer and the focused layer surface agree, for any  *)
(* windows, layer surfaces, workspaces, shapes and focus policies.         *)
(***************************************************************************)
EXTENDS Seat, Data_proofs

(* What a seat f has to do with windows at h, layer surfaces with lives y  *)
(* and the current workspace c.                                            *)
KeyboardOK(f, h) ==
    f.kb \in Windows => h[f.kb] # NoWorkspace /\ f.last[h[f.kb]] = f.kb

\* A workspace only remembers windows of its own.
LastOK(f, h) ==
    \A ws \in Workspaces : f.last[ws] # NoSurface => h[f.last[ws]] = ws

PointerOK(f, h, c) == f.pointer \in Windows => h[f.pointer] = c

Role(y, l) == y[l] \in {"created", "committed", "shown", "hidden"}

\* A surface with the keyboard exists, with or without its role.
LayerOK(f, y) ==
    /\ f.layer # NoSurface => Role(y, f.layer)
    /\ f.kb \in Layers => y[f.kb] # "none" /\ (Role(y, f.kb) => f.layer = f.kb)

\* A shape on the screen is the one remembered as set last, and the default
\* one is remembered while no surface has the pointer.
ImageOK(f) == f.image \in Shapes => f.image = f.shape
NeutralOK(f) == f.pointer = NoSurface => f.shape = "default"

\* All of it but the shape, which is set after the pointer has left.
Placed(f, h, y, c) ==
    /\ f \in SeatState
    /\ KeyboardOK(f, h) /\ LastOK(f, h) /\ PointerOK(f, h, c)
    /\ LayerOK(f, y) /\ ImageOK(f)

Good(f, h, y, c) == Placed(f, h, y, c) /\ NeutralOK(f)

\* The lists hold the windows of each workspace, each of them once.
OrderOK ==
    \A ws \in Workspaces :
        /\ IsInjective(order[ws])
        /\ \A w \in ToSet(order[ws]) : home[w] = ws

PlacesOK ==
    /\ home \in [Windows -> Workspaces \cup {NoWorkspace}]
    /\ order \in [Workspaces -> Seq(Windows)]
    /\ layer \in [Layers -> LayerLives]
    /\ wants \in SUBSET Layers
    /\ current \in Workspaces
    /\ policy \in Policies
    /\ OrderOK

IInv == PlacesOK /\ Good(seat, home, layer, current)

\* The same after a step, for a seat on the way to the next one
GoodNext(f) == Good(f, home', layer', current')

LEMMA Kinds ==
    /\ NoSurface \notin Windows /\ NoSurface \notin Layers
    /\ Windows \cap Layers = {}
    /\ Overlay \notin Surfaces /\ Overlay # NoSurface
    /\ ClientImage \notin Shapes /\ "default" \in Shapes
    /\ NoWorkspace \notin Workspaces
BY SeatAssumption DEF Surfaces
----------------------------------------------------------------------------
(* The seat's fields *)

\* One field or two are set without touching the others.
LEMMA SetKeyboard ==
    ASSUME NEW f \in SeatState, NEW x \in Surfaces \cup {NoSurface},
           NEW g, g = [f EXCEPT !.kb = x]
    PROVE  /\ g \in SeatState /\ g.kb = x
           /\ g.pointer = f.pointer /\ g.last = f.last /\ g.layer = f.layer
           /\ g.hovered = f.hovered /\ g.shape = f.shape /\ g.image = f.image
BY DEF SeatState

LEMMA SetPointer ==
    ASSUME NEW f \in SeatState, NEW x \in Surfaces \cup {NoSurface},
           NEW g, g = [f EXCEPT !.pointer = x]
    PROVE  /\ g \in SeatState /\ g.pointer = x
           /\ g.kb = f.kb /\ g.last = f.last /\ g.layer = f.layer
           /\ g.hovered = f.hovered /\ g.shape = f.shape /\ g.image = f.image
BY DEF SeatState

LEMMA SetHovered ==
    ASSUME NEW f \in SeatState, NEW x \in Windows \cup {NoSurface},
           NEW g, g = [f EXCEPT !.hovered = x]
    PROVE  /\ g \in SeatState
           /\ g.kb = f.kb /\ g.pointer = f.pointer /\ g.last = f.last
           /\ g.layer = f.layer /\ g.shape = f.shape /\ g.image = f.image
BY DEF SeatState

LEMMA SetLayer ==
    ASSUME NEW f \in SeatState, NEW x \in Layers \cup {NoSurface},
           NEW g, g = [f EXCEPT !.layer = x]
    PROVE  /\ g \in SeatState /\ g.layer = x
           /\ g.kb = f.kb /\ g.pointer = f.pointer /\ g.last = f.last
           /\ g.hovered = f.hovered /\ g.shape = f.shape /\ g.image = f.image
BY DEF SeatState

LEMMA SetLast ==
    ASSUME NEW f \in SeatState, NEW r \in [Workspaces -> Windows \cup {NoSurface}],
           NEW g, g = [f EXCEPT !.last = r]
    PROVE  /\ g \in SeatState /\ g.last = r
           /\ g.kb = f.kb /\ g.pointer = f.pointer /\ g.layer = f.layer
           /\ g.hovered = f.hovered /\ g.shape = f.shape /\ g.image = f.image
BY DEF SeatState

LEMMA SetImage ==
    ASSUME NEW f \in SeatState, NEW x \in Shapes \cup {ClientImage},
           NEW g, g = [f EXCEPT !.image = x]
    PROVE  /\ g \in SeatState /\ g.image = x
           /\ g.kb = f.kb /\ g.pointer = f.pointer /\ g.last = f.last
           /\ g.layer = f.layer /\ g.hovered = f.hovered /\ g.shape = f.shape
BY DEF SeatState

LEMMA SetShapes ==
    ASSUME NEW f \in SeatState, NEW n \in Shapes
    PROVE  LET g == SetShapeForced(f, n) IN
           /\ g \in SeatState /\ g.shape = n /\ g.image = n
           /\ g.kb = f.kb /\ g.pointer = f.pointer /\ g.last = f.last
           /\ g.layer = f.layer /\ g.hovered = f.hovered
BY DEF SeatState, SetShapeForced

\* The keyboard and what is remembered with it, set together
WindowFocus(f, w, r) == [f EXCEPT !.kb = w, !.last = r]

LEMMA SetWindowFocus ==
    ASSUME NEW f \in SeatState, NEW w \in Windows,
           NEW r \in [Workspaces -> Windows \cup {NoSurface}]
    PROVE  LET g == WindowFocus(f, w, r) IN
           /\ g \in SeatState /\ g.kb = w /\ g.last = r
           /\ g.pointer = f.pointer /\ g.layer = f.layer
           /\ g.hovered = f.hovered /\ g.shape = f.shape /\ g.image = f.image
BY DEF SeatState, Surfaces, WindowFocus

LayerFocus(f, l) == [f EXCEPT !.kb = l, !.layer = l]

LEMMA SetLayerFocus ==
    ASSUME NEW f \in SeatState, NEW l \in Layers
    PROVE  LET g == LayerFocus(f, l) IN
           /\ g \in SeatState /\ g.kb = l /\ g.layer = l
           /\ g.pointer = f.pointer /\ g.last = f.last
           /\ g.hovered = f.hovered /\ g.shape = f.shape /\ g.image = f.image
BY DEF SeatState, Surfaces, LayerFocus

LEMMA FieldTypes ==
    ASSUME NEW f \in SeatState
    PROVE  /\ f.kb \in Surfaces \cup {NoSurface} /\ f.pointer \in Surfaces \cup {NoSurface}
           /\ f.last \in [Workspaces -> Windows \cup {NoSurface}]
           /\ f.layer \in Layers \cup {NoSurface} /\ f.hovered \in Windows \cup {NoSurface}
           /\ f.shape \in Shapes /\ f.image \in Shapes \cup {ClientImage}
BY DEF SeatState
----------------------------------------------------------------------------
(* The operators on the seat.  What is good stays good, and what a handler *)
(* relies on stays as it is.                                               *)

LEMMA SetShapeForcedGood ==
    ASSUME NEW f, NEW h, NEW y, NEW c, Placed(f, h, y, c), NEW n \in Shapes,
           n = "default" \/ f.pointer # NoSurface
    PROVE  /\ Good(SetShapeForced(f, n), h, y, c)
           /\ SetShapeForced(f, n).kb = f.kb
           /\ SetShapeForced(f, n).pointer = f.pointer
           /\ SetShapeForced(f, n).layer = f.layer
           /\ SetShapeForced(f, n).last = f.last
<1> DEFINE g == SetShapeForced(f, n)
<1>1. f \in SeatState
  BY DEF Good, Placed
<1>2. /\ g \in SeatState /\ g.shape = n /\ g.image = n
      /\ g.kb = f.kb /\ g.pointer = f.pointer /\ g.last = f.last /\ g.layer = f.layer
  BY <1>1, SetShapes
<1> HIDE DEF g
<1>3. Good(g, h, y, c)
  BY <1>2 DEF Good, Placed, KeyboardOK, LastOK, PointerOK, LayerOK, ImageOK, NeutralOK
<1> QED BY <1>2, <1>3 DEF g

LEMMA SetShapeGood ==
    ASSUME NEW f, NEW h, NEW y, NEW c, Placed(f, h, y, c)
    PROVE  LET g == SetShape(f, "default") IN
           /\ Good(g, h, y, c) /\ g.shape = "default"
           /\ g.kb = f.kb /\ g.pointer = f.pointer /\ g.layer = f.layer /\ g.last = f.last
<1>1. "default" \in Shapes /\ f \in SeatState
  BY Kinds DEF Placed
<1>2. CASE f.shape = "default"
  BY <1>2 DEF SetShape, Good, NeutralOK
<1>3. CASE f.shape # "default"
  <2>1. SetShape(f, "default") = SetShapeForced(f, "default")
    BY <1>3 DEF SetShape
  <2> QED BY <1>1, <2>1, SetShapeForcedGood, SetShapes
<1> QED BY <1>2, <1>3

LEMMA ClearPointerGood ==
    ASSUME NEW f, NEW h, NEW y, NEW c, Good(f, h, y, c)
    PROVE  /\ Good(ClearPointer(f), h, y, c)
           /\ ClearPointer(f).kb = f.kb
           /\ ClearPointer(f).pointer = NoSurface
           /\ ClearPointer(f).layer = f.layer
           /\ ClearPointer(f).last = f.last
<1> DEFINE g == [f EXCEPT !.pointer = NoSurface]
<1>0. g = [f EXCEPT !.pointer = NoSurface]
  OBVIOUS
<1>3. ClearPointer(f) = IF f.pointer = NoSurface THEN f ELSE SetShape(g, "default")
  BY DEF ClearPointer
<1> HIDE DEF g
<1>1. f \in SeatState
  BY DEF Good, Placed
<1>2. /\ g \in SeatState /\ g.pointer = NoSurface /\ g.shape = f.shape /\ g.image = f.image
      /\ g.kb = f.kb /\ g.last = f.last /\ g.layer = f.layer
  BY <1>0, <1>1, SetPointer
<1>4. Placed(g, h, y, c)
  BY <1>2, Kinds DEF Good, Placed, KeyboardOK, LastOK, PointerOK, LayerOK, ImageOK
<1> QED BY <1>2, <1>3, <1>4, SetShapeGood

LEMMA ClearKeyboardGood ==
    ASSUME NEW f, NEW h, NEW y, NEW c, Good(f, h, y, c)
    PROVE  /\ Good(ClearKeyboard(f), h, y, c)
           /\ ClearKeyboard(f).kb = NoSurface
           /\ ClearKeyboard(f).pointer = f.pointer
           /\ ClearKeyboard(f).layer = f.layer
           /\ ClearKeyboard(f).last = f.last
<1> DEFINE g == ClearKeyboard(f)
<1>0. g = [f EXCEPT !.kb = NoSurface]
  BY DEF ClearKeyboard
<1> HIDE DEF g
<1>1. f \in SeatState
  BY DEF Good, Placed
<1>2. /\ g \in SeatState /\ g.kb = NoSurface /\ g.shape = f.shape /\ g.image = f.image
      /\ g.pointer = f.pointer /\ g.last = f.last /\ g.layer = f.layer
  BY <1>0, <1>1, SetKeyboard
<1>3. Good(g, h, y, c)
  BY <1>2, Kinds DEF Good, Placed, KeyboardOK, LastOK, PointerOK, LayerOK, ImageOK, NeutralOK
<1> QED BY <1>2, <1>3 DEF g

\* A window that is mapped, or none, gets the keyboard and is remembered.
LEMMA FocusToplevelGood ==
    ASSUME NEW f, GoodNext(f), home' \in [Windows -> Workspaces \cup {NoWorkspace}],
           NEW w \in Windows \cup {NoSurface}, w # NoSurface => home'[w] # NoWorkspace
    PROVE  /\ GoodNext(FocusToplevel(f, w))
           /\ FocusToplevel(f, w).kb = IF w = NoSurface THEN f.kb ELSE w
           /\ FocusToplevel(f, w).pointer = f.pointer
           /\ FocusToplevel(f, w).layer = f.layer
<1>1. CASE w \in {NoSurface, f.kb}
  BY <1>1 DEF FocusToplevel
<1>2. CASE w \notin {NoSurface, f.kb}
  <2> DEFINE r == [f.last EXCEPT ![home'[w]] = w]
             g == FocusToplevel(f, w)
  <2>1. f \in SeatState /\ w \in Windows /\ home'[w] \in Workspaces
    BY <1>2 DEF GoodNext, Good, Placed
  <2>2. f.last \in [Workspaces -> Windows \cup {NoSurface}]
    BY <2>1, FieldTypes
  <2>3. /\ r \in [Workspaces -> Windows \cup {NoSurface}]
        /\ \A ws \in Workspaces : r[ws] = IF ws = home'[w] THEN w ELSE f.last[ws]
    BY <2>1, <2>2
  <2>4. g = WindowFocus(f, w, r)
    BY <1>2 DEF FocusToplevel, WindowFocus
  <2> HIDE DEF r
  <2>5. /\ g \in SeatState /\ g.kb = w /\ g.last = r
        /\ g.pointer = f.pointer /\ g.layer = f.layer
        /\ g.hovered = f.hovered /\ g.shape = f.shape /\ g.image = f.image
    BY <2>1, <2>3, <2>4, SetWindowFocus
  <2> HIDE DEF g
  <2>6. KeyboardOK(g, home') /\ LastOK(g, home')
    BY <2>1, <2>3, <2>5, Kinds DEF GoodNext, Good, Placed, KeyboardOK, LastOK
  <2>7. PointerOK(g, home', current') /\ LayerOK(g, layer') /\ ImageOK(g) /\ NeutralOK(g)
    BY <2>1, <2>5, Kinds DEF GoodNext, Good, Placed, PointerOK, LayerOK, ImageOK, NeutralOK
  <2> QED BY <2>1, <2>5, <2>6, <2>7, Kinds DEF GoodNext, Good, Placed, g
<1> QED BY <1>1, <1>2

\* A layer surface with its role that has the keyboard is remembered.
LEMMA FocusLayerGood ==
    ASSUME NEW f, GoodNext(f), NEW l \in Layers, Role(layer', l)
    PROVE  /\ GoodNext(FocusLayer(f, l))
           /\ FocusLayer(f, l).pointer = f.pointer
<1>1. CASE l \notin wants' \/ f.kb = l
  BY <1>1 DEF FocusLayer
<1>2. CASE ~(l \notin wants' \/ f.kb = l)
  <2> DEFINE g == FocusLayer(f, l)
  <2>1. g = LayerFocus(f, l)
    BY <1>2 DEF FocusLayer, LayerFocus
  <2>2. f \in SeatState
    BY DEF GoodNext, Good, Placed
  <2> HIDE DEF g
  <2>3. /\ g \in SeatState /\ g.kb = l /\ g.layer = l
        /\ g.pointer = f.pointer /\ g.last = f.last
        /\ g.hovered = f.hovered /\ g.shape = f.shape /\ g.image = f.image
    BY <2>1, <2>2, SetLayerFocus
  <2>4. GoodNext(g)
    BY <2>3, Kinds DEF GoodNext, Good, Placed, KeyboardOK, LastOK, PointerOK, LayerOK, ImageOK, NeutralOK, Role
  <2> QED BY <2>3, <2>4 DEF g
<1> QED BY <1>1, <1>2

LEMMA SetHoveredGood ==
    ASSUME NEW f, GoodNext(f), NEW x \in Windows \cup {NoSurface}
    PROVE  /\ GoodNext([f EXCEPT !.hovered = x])
           /\ [f EXCEPT !.hovered = x].pointer = f.pointer
           /\ [f EXCEPT !.hovered = x].kb = f.kb
           /\ [f EXCEPT !.hovered = x].layer = f.layer
<1> DEFINE g == [f EXCEPT !.hovered = x]
<1>1. f \in SeatState
  BY DEF GoodNext, Good, Placed
<1>0. g = [f EXCEPT !.hovered = x]
  OBVIOUS
<1> HIDE DEF g
<1>2. /\ g \in SeatState
      /\ g.kb = f.kb /\ g.pointer = f.pointer /\ g.last = f.last
      /\ g.layer = f.layer /\ g.shape = f.shape /\ g.image = f.image
  BY <1>0, <1>1, SetHovered
<1>3. GoodNext(g)
  BY <1>2 DEF GoodNext, Good, Placed, KeyboardOK, LastOK, PointerOK, LayerOK, ImageOK, NeutralOK
<1> QED BY <1>2, <1>3 DEF g

LEMMA HoverGood ==
    ASSUME NEW f, GoodNext(f), home' \in [Windows -> Workspaces \cup {NoWorkspace}],
           NEW u \in Surfaces \cup {NoSurface, Overlay},
           u \in Windows => home'[u] # NoWorkspace, u \in Layers => Role(layer', u)
    PROVE  GoodNext(Hover(f, u))
<1> SUFFICES GoodNext(FocusEntered(f, u))
  BY DEF Hover
<1>1. CASE u \in Layers
  <2> DEFINE g == FocusLayer(f, u)
  <2>1. FocusEntered(f, u) = [g EXCEPT !.hovered = NoSurface]
    BY <1>1, Kinds DEF FocusEntered, Surfaces
  <2>2. GoodNext(g)
    BY <1>1, FocusLayerGood
  <2> HIDE DEF g
  <2> QED BY <2>1, <2>2, SetHoveredGood
<1>2. CASE u \in Windows
  <2> DEFINE g == FocusToplevel(f, u)
  <2>1. FocusEntered(f, u) = IF u = f.hovered THEN f ELSE [g EXCEPT !.hovered = u]
    BY <1>2, Kinds DEF FocusEntered, Surfaces
  <2>2. GoodNext(g)
    BY <1>2, FocusToplevelGood
  <2> HIDE DEF g
  <2> QED BY <1>2, <2>1, <2>2, SetHoveredGood
<1>3. CASE u \in {NoSurface, Overlay}
  <2>1. FocusEntered(f, u) = [f EXCEPT !.hovered = NoSurface]
    BY <1>3, Kinds DEF FocusEntered, Surfaces
  <2> QED BY <2>1, SetHoveredGood
<1> QED BY <1>1, <1>2, <1>3 DEF Surfaces

LEMMA EnterOrLeaveGood ==
    ASSUME NEW f, GoodNext(f), NEW u \in Surfaces \cup {NoSurface, Overlay},
           u \in Windows => home'[u] = current'
    PROVE  GoodNext(EnterOrLeave(f, u))
<1>1. CASE u \in Surfaces
  <2> DEFINE g == [f EXCEPT !.pointer = u]
  <2>1. EnterOrLeave(f, u) = g
    BY <1>1, Kinds DEF EnterOrLeave, Surfaces
  <2>2. f \in SeatState
    BY DEF GoodNext, Good, Placed
  <2>3. g = [f EXCEPT !.pointer = u]
    OBVIOUS
  <2> HIDE DEF g
  <2>4. /\ g \in SeatState /\ g.pointer = u
        /\ g.kb = f.kb /\ g.last = f.last /\ g.layer = f.layer
        /\ g.hovered = f.hovered /\ g.shape = f.shape /\ g.image = f.image
    BY <1>1, <2>2, <2>3, SetPointer
  <2>5. GoodNext(g)
    BY <1>1, <2>4, Kinds DEF Surfaces, GoodNext, Good, Placed, KeyboardOK, LastOK, PointerOK, LayerOK, ImageOK, NeutralOK
  <2> QED BY <2>1, <2>5
<1>2. CASE u = Overlay
  BY <1>2, Kinds DEF EnterOrLeave, Surfaces
<1>3. CASE u = NoSurface
  <2> DEFINE g == ClearKeyboard(ClearPointer(f))
  <2>1. EnterOrLeave(f, u) = IF policy' = "click" \/ f.layer # NoSurface THEN f ELSE g
    BY <1>3, Kinds DEF EnterOrLeave, Surfaces
  <2>2. GoodNext(g)
    BY ClearPointerGood, ClearKeyboardGood DEF GoodNext
  <2> HIDE DEF g
  <2> QED BY <2>1, <2>2
<1> QED BY <1>1, <1>2, <1>3

\* The surface under the pointer is one that is shown, the bar or nothing.
LEMMA MotionGood ==
    ASSUME NEW f, GoodNext(f), home' \in [Windows -> Workspaces \cup {NoWorkspace}],
           current' \in Workspaces, NEW u \in Visible \cup {NoSurface, Overlay}
    PROVE  GoodNext(Motion(f, u))
<1> DEFINE s == IF u \in Surfaces THEN f ELSE SetShape(f, "default")
<1>1. GoodNext(s)
  BY Kinds, SetShapeGood DEF GoodNext, Good
<1>2. Motion(f, u) = EnterOrLeave(Hover(s, u), u)
  BY DEF Motion
<1> HIDE DEF s
<1>3. /\ u \in Surfaces \cup {NoSurface, Overlay}
      /\ u \in Windows => home'[u] = current' /\ home'[u] # NoWorkspace
      /\ u \in Layers => Role(layer', u)
  BY Kinds DEF Visible, Role, Surfaces
<1>4. GoodNext(Hover(s, u))
  BY <1>1, <1>3, HoverGood
<1> QED BY <1>2, <1>3, <1>4, EnterOrLeaveGood

\* Off every surface the pointer's shape is the default one.
LEMMA MotionOffShape ==
    ASSUME NEW f, GoodNext(f), NEW u \in {NoSurface, Overlay}
    PROVE  Motion(f, u).shape = "default"
<1> DEFINE s == SetShape(f, "default")
           g == IF policy' = "click" \/ s.layer # NoSurface
                THEN s ELSE [s EXCEPT !.hovered = NoSurface]
<1>1. u \notin Surfaces /\ u \notin Windows /\ u \notin Layers
  BY Kinds DEF Surfaces
<1>2. GoodNext(s) /\ s.shape = "default" /\ s \in SeatState
  BY SetShapeGood DEF GoodNext, Good, Placed
<1> HIDE DEF s
<1>3. Motion(f, u) = EnterOrLeave(g, u)
  BY <1>1 DEF Motion, Hover, FocusEntered, s
<1>4. GoodNext(g) /\ g.shape = "default"
  BY <1>2, SetHoveredGood, SetHovered
<1> HIDE DEF g
<1>5. CASE u = Overlay
  BY <1>1, <1>3, <1>4, <1>5, Kinds DEF EnterOrLeave
<1>6. CASE u = NoSurface
  <2> DEFINE b == ClearPointer(g)
             k == ClearKeyboard(b)
  <2>1. GoodNext(b) /\ b.pointer = NoSurface
    BY <1>4, ClearPointerGood DEF GoodNext
  <2>2. GoodNext(k) /\ k.pointer = NoSurface
    BY <2>1, ClearKeyboardGood DEF GoodNext
  <2>3. k.shape = "default"
    BY <2>2 DEF GoodNext, Good, NeutralOK
  <2>4. Motion(f, u) \in {g, k}
    BY <1>1, <1>3, <1>6, Kinds DEF EnterOrLeave
  <2> QED BY <1>4, <2>3, <2>4
<1> QED BY <1>5, <1>6

LEMMA RearrangeGood ==
    ASSUME NEW f, GoodNext(f), home' \in [Windows -> Workspaces \cup {NoWorkspace}],
           current' \in Workspaces, Rearrange(f)
    PROVE  GoodNext(seat')
BY MotionGood DEF Rearrange
----------------------------------------------------------------------------
(* The actions *)

LEMMA InitHolds == Init => IInv
<1> SUFFICES ASSUME Init PROVE IInv
  OBVIOUS
<1>1. \A ws \in Workspaces : order[ws] = << >>
  BY DEF Init
<1>2. OrderOK
  BY <1>1 DEF OrderOK, IsInjective, ToSet
<1>3. PlacesOK
  BY <1>2 DEF Init, PlacesOK, LayerLives
<1>4. seat \in SeatState
  BY Kinds DEF Init, SeatState
<1>5. /\ seat.kb = NoSurface /\ seat.pointer = NoSurface /\ seat.layer = NoSurface
      /\ seat.image = seat.shape /\ seat.shape = "default" /\ \A ws \in Workspaces : seat.last[ws] = NoSurface
  BY DEF Init
<1>6. Good(seat, home, layer, current)
  BY <1>4, <1>5, Kinds DEF Good, Placed, KeyboardOK, LastOK, PointerOK, LayerOK, ImageOK, NeutralOK
<1> QED BY <1>3, <1>6 DEF IInv

\* The steps that only move a focus keep every window and surface in place.
Standing == UNCHANGED <<home, order, layer, wants, current, policy>>

LEMMA StandingKeeps ==
    ASSUME IInv, Standing
    PROVE  PlacesOK' /\ GoodNext(seat)
BY DEF IInv, PlacesOK, OrderOK, Standing, GoodNext

LEMMA HeadIsIn ==
    ASSUME NEW s \in Seq(Windows), HeadOf(s) # NoSurface
    PROVE  HeadOf(s) \in ToSet(s) /\ HeadOf(s) \in Windows
<1>1. s # << >> /\ HeadOf(s) = s[1]
  BY DEF HeadOf
<1> QED BY <1>1 DEF ToSet

LEMMA MapWindowKeeps ==
    ASSUME IInv, NEW w \in Windows, MapWindow(w)
    PROVE  PlacesOK' /\ GoodNext(seat')
<1>1. /\ home[w] = NoWorkspace /\ current \in Workspaces /\ current' = current
      /\ home \in [Windows -> Workspaces \cup {NoWorkspace}]
      /\ order \in [Workspaces -> Seq(Windows)]
      /\ home' = [home EXCEPT ![w] = current]
      /\ order' = [order EXCEPT ![current] = Cons(w, @)]
  BY DEF IInv, PlacesOK, MapWindow
<1>2. /\ home' \in [Windows -> Workspaces \cup {NoWorkspace}]
      /\ \A v \in Windows : home'[v] = IF v = w THEN current ELSE home[v]
  BY <1>1
<1>3. w \notin ToSet(order[current])
  BY <1>1, Kinds DEF IInv, PlacesOK, OrderOK
<1>4. /\ order' \in [Workspaces -> Seq(Windows)]
      /\ \A ws \in Workspaces :
           order'[ws] = IF ws = current THEN Cons(w, order[ws]) ELSE order[ws]
  BY <1>1, ConsFacts
<1>5. OrderOK'
  <2> SUFFICES ASSUME NEW ws \in Workspaces
               PROVE  /\ IsInjective(order'[ws])
                      /\ \A v \in ToSet(order'[ws]) : home'[v] = ws
    BY DEF OrderOK
  <2>1. /\ order[ws] \in Seq(Windows) /\ IsInjective(order[ws])
        /\ \A v \in ToSet(order[ws]) : home[v] = ws /\ v \in Windows
    BY <1>1 DEF IInv, PlacesOK, OrderOK, ToSet
  <2>2. CASE ws = current
    <3>1. /\ order'[ws] = Cons(w, order[ws])
          /\ ToSet(Cons(w, order[ws])) = ToSet(order[ws]) \cup {w}
          /\ IsInjective(Cons(w, order[ws]))
      BY <1>3, <1>4, <2>1, <2>2, ConsFacts
    <3> QED BY <3>1, <1>2, <2>1, <2>2
  <2>3. CASE ws # current
    <3>1. w \notin ToSet(order[ws])
      BY <2>1, <1>1, Kinds
    <3> QED BY <3>1, <1>2, <1>4, <2>1, <2>3
  <2> QED BY <2>2, <2>3
<1>6. PlacesOK'
  BY <1>1, <1>2, <1>4, <1>5 DEF IInv, PlacesOK, MapWindow
<1>7. GoodNext(seat)
  <2>1. /\ seat \in SeatState /\ layer' = layer
        /\ seat.last \in [Workspaces -> Windows \cup {NoSurface}]
    BY FieldTypes DEF IInv, Good, Placed, MapWindow
  <2>2. KeyboardOK(seat, home')
    BY <1>1, <1>2 DEF IInv, Good, Placed, KeyboardOK
  <2>3. LastOK(seat, home')
    BY <1>1, <1>2, <2>1, Kinds DEF IInv, Good, Placed, LastOK
  <2>4. PointerOK(seat, home', current')
    BY <1>1, <1>2, Kinds DEF IInv, Good, Placed, PointerOK
  <2> QED BY <2>1, <2>2, <2>3, <2>4 DEF IInv, Good, Placed, GoodNext
<1>8. GoodNext(FocusToplevel(seat, w))
  BY <1>1, <1>2, <1>7, Kinds, FocusToplevelGood
<1> QED BY <1>1, <1>2, <1>6, <1>8, RearrangeGood DEF MapWindow

LEMMA CloseWindowKeeps ==
    ASSUME IInv, NEW w \in Windows, CloseWindow(w)
    PROVE  PlacesOK' /\ GoodNext(seat')
<1> DEFINE ws == home[w]
           f == ClearKeyboard(ClearPointer(seat))
           r == IF f.last[ws] = w THEN [f.last EXCEPT ![ws] = NoSurface] ELSE f.last
           g == [f EXCEPT !.last = r]
           h == HeadOf(order'[ws])
<1>1. /\ home \in [Windows -> Workspaces \cup {NoWorkspace}]
      /\ order \in [Workspaces -> Seq(Windows)]
      /\ ws \in Workspaces /\ current \in Workspaces /\ current' = current /\ layer' = layer
      /\ home' = [home EXCEPT ![w] = NoWorkspace]
      /\ order' = [order EXCEPT ![ws] = Unlink(@, w)]
  BY DEF IInv, PlacesOK, CloseWindow
<1>2. /\ home' \in [Windows -> Workspaces \cup {NoWorkspace}]
      /\ \A v \in Windows : home'[v] = IF v = w THEN NoWorkspace ELSE home[v]
  BY <1>1
<1>3. /\ order' \in [Workspaces -> Seq(Windows)]
      /\ \A x \in Workspaces :
           order'[x] = IF x = ws THEN Unlink(order[x], w) ELSE order[x]
  BY <1>1, UnlinkType
<1>4. \A x \in Workspaces :
        /\ IsInjective(order'[x])
        /\ \A v \in ToSet(order'[x]) : v \in Windows /\ v # w /\ home[v] = x
  <2> SUFFICES ASSUME NEW x \in Workspaces
               PROVE  /\ IsInjective(order'[x])
                      /\ \A v \in ToSet(order'[x]) : v \in Windows /\ v # w /\ home[v] = x
    OBVIOUS
  <2>1. /\ order[x] \in Seq(Windows) /\ IsInjective(order[x])
        /\ \A v \in ToSet(order[x]) : home[v] = x /\ v \in Windows
    BY <1>1 DEF IInv, PlacesOK, OrderOK, ToSet
  <2>2. CASE x = ws
    <3>1. /\ order'[x] = Unlink(order[x], w)
          /\ IsInjective(Unlink(order[x], w))
          /\ ToSet(Unlink(order[x], w)) = ToSet(order[x]) \ {w}
      BY <1>3, <2>1, <2>2, UnlinkFacts
    <3> QED BY <3>1, <2>1
  <2>3. CASE x # ws
    BY <1>3, <2>1, <2>3
  <2> QED BY <2>2, <2>3
<1>5. PlacesOK'
  BY <1>1, <1>2, <1>3, <1>4 DEF IInv, PlacesOK, OrderOK, CloseWindow
<1>6. Good(f, home, layer, current) /\ f.kb = NoSurface /\ f.pointer = NoSurface
  BY ClearPointerGood, ClearKeyboardGood DEF IInv
<1>7. Rearrange(FocusToplevel(g, h))
  BY DEF CloseWindow
<1> HIDE DEF f
<1>8. GoodNext(g)
  <2>1. f \in SeatState /\ f.last \in [Workspaces -> Windows \cup {NoSurface}]
    BY <1>6, FieldTypes DEF Good, Placed
  <2>2. /\ r \in [Workspaces -> Windows \cup {NoSurface}]
        /\ \A x \in Workspaces :
             r[x] = IF x = ws /\ f.last[ws] = w THEN NoSurface ELSE f.last[x]
    BY <1>1, <2>1
  <2>3. g = [f EXCEPT !.last = r]
    OBVIOUS
  <2> HIDE DEF r, g
  <2>4. /\ g \in SeatState /\ g.last = r
        /\ g.kb = f.kb /\ g.pointer = f.pointer /\ g.layer = f.layer
        /\ g.hovered = f.hovered /\ g.shape = f.shape /\ g.image = f.image
    BY <2>1, <2>2, <2>3, SetLast
  <2>5. LastOK(g, home')
    <3> SUFFICES ASSUME NEW x \in Workspaces, g.last[x] # NoSurface
                 PROVE  home'[g.last[x]] = x
      BY DEF LastOK
    <3>1. g.last[x] = f.last[x] /\ f.last[x] \in Windows /\ home[f.last[x]] = x
      BY <1>6, <2>1, <2>2, <2>4 DEF Good, Placed, LastOK
    <3>2. f.last[x] # w
      BY <3>1, <2>2, <2>4
    <3> QED BY <3>1, <3>2, <1>2
  <2>6. KeyboardOK(g, home') /\ PointerOK(g, home', current')
    BY <1>6, <2>4, Kinds DEF KeyboardOK, PointerOK
  <2>7. LayerOK(g, layer') /\ ImageOK(g) /\ NeutralOK(g)
    BY <1>1, <1>6, <2>4 DEF Good, Placed, LayerOK, ImageOK, NeutralOK
  <2> QED BY <2>4, <2>5, <2>6, <2>7 DEF GoodNext, Good, Placed
<1>9. h \in Windows \cup {NoSurface} /\ (h # NoSurface => home'[h] # NoWorkspace)
  <2>1. ASSUME h # NoSurface PROVE h \in ToSet(order'[ws])
    BY <1>1, <1>3, <2>1, HeadIsIn
  <2> QED BY <1>1, <1>2, <1>4, <2>1, Kinds
<1> HIDE DEF g, h
<1> QED BY <1>1, <1>2, <1>5, <1>7, <1>8, <1>9, FocusToplevelGood, RearrangeGood

LEMMA FocusWindowKeeps ==
    ASSUME IInv, NEW w \in Windows, FocusWindow(w)
    PROVE  PlacesOK' /\ GoodNext(seat')
<1>1. Standing /\ home[w] = current /\ seat' = FocusToplevel(seat, w)
  BY DEF FocusWindow, Standing
<1>2. PlacesOK' /\ GoodNext(seat)
  BY <1>1, StandingKeeps
<1>3. home' \in [Windows -> Workspaces \cup {NoWorkspace}] /\ home'[w] # NoWorkspace
  BY <1>1, <1>2, Kinds DEF PlacesOK, Standing, IInv
<1> QED BY <1>1, <1>2, <1>3, FocusToplevelGood

LEMMA SwitchWorkspaceKeeps ==
    ASSUME IInv, NEW ws \in Workspaces, SwitchWorkspace(ws)
    PROVE  PlacesOK' /\ GoodNext(seat')
<1> DEFINE f == ClearPointer(ClearKeyboard(seat))
           wanted == IF seat.last[ws] # NoSurface THEN seat.last[ws] ELSE HeadOf(order[ws])
<1>1. /\ Rearrange(FocusToplevel(f, wanted))
      /\ current' = ws /\ UNCHANGED <<home, order, layer, wants, policy>>
  BY DEF SwitchWorkspace
<1>2. PlacesOK'
  BY <1>1 DEF IInv, PlacesOK, OrderOK
<1>3. Good(f, home, layer, current) /\ f.pointer = NoSurface
  BY ClearKeyboardGood, ClearPointerGood DEF IInv
<1>4. wanted \in Windows \cup {NoSurface} /\ (wanted # NoSurface => home[wanted] = ws)
  <2>1. CASE seat.last[ws] # NoSurface
    BY <2>1, FieldTypes DEF IInv, Good, Placed, LastOK
  <2>2. CASE seat.last[ws] = NoSurface /\ HeadOf(order[ws]) # NoSurface
    <3>1. order[ws] \in Seq(Windows) /\ \A v \in ToSet(order[ws]) : home[v] = ws
      BY DEF IInv, PlacesOK, OrderOK
    <3> QED BY <2>2, <3>1, HeadIsIn
  <2> QED BY <2>1, <2>2
<1> HIDE DEF f, wanted
<1>5. GoodNext(f)
  BY <1>1, <1>3, Kinds DEF GoodNext, Good, Placed, PointerOK
<1>6. home' \in [Windows -> Workspaces \cup {NoWorkspace}] /\ current' \in Workspaces
  BY <1>2 DEF PlacesOK
<1> QED BY <1>1, <1>2, <1>4, <1>5, <1>6, Kinds, FocusToplevelGood, RearrangeGood

LEMMA ReloadKeeps ==
    ASSUME IInv, NEW p \in Policies, Reload(p)
    PROVE  PlacesOK' /\ GoodNext(seat')
<1>1. PlacesOK' /\ GoodNext(seat)
  BY DEF IInv, PlacesOK, OrderOK, Reload, GoodNext
<1> QED BY <1>1, RearrangeGood DEF Reload, PlacesOK

\* A life of a layer surface changes, and nothing is moved.
LEMMA LayerPlaces ==
    ASSUME IInv, NEW l \in Layers, NEW life \in LayerLives, LayerBecomes(l, life),
           wants' \in SUBSET Layers
    PROVE  /\ PlacesOK' /\ home' = home /\ current' = current
           /\ home' \in [Windows -> Workspaces \cup {NoWorkspace}] /\ current' \in Workspaces
           /\ \A m \in Layers : layer'[m] = IF m = l THEN life ELSE layer[m]
<1>1. layer' \in [Layers -> LayerLives] /\ \A m \in Layers : layer'[m] = IF m = l THEN life ELSE layer[m]
  BY DEF IInv, PlacesOK, LayerBecomes
<1> QED BY <1>1 DEF IInv, PlacesOK, OrderOK, LayerBecomes

\* A seat that is good stays so when a surface without a role gets one that
\* did not exist, or goes on having it.
LEMMA LayerGains ==
    ASSUME IInv, NEW l \in Layers,
           NEW life \in {"created", "committed", "shown", "hidden"}, LayerBecomes(l, life),
           wants' \in SUBSET Layers, layer[l] = "none" \/ Role(layer, l)
    PROVE  PlacesOK' /\ GoodNext(seat) /\ Role(layer', l)
<1>1. life \in LayerLives
  BY DEF LayerLives
<1>2. /\ PlacesOK' /\ home' = home /\ current' = current
      /\ \A m \in Layers : layer'[m] = IF m = l THEN life ELSE layer[m]
  BY <1>1, LayerPlaces
<1>3. seat.layer \in Layers \cup {NoSurface}
  BY FieldTypes DEF IInv, Good, Placed
<1>4. LayerOK(seat, layer')
  BY <1>2, <1>3 DEF IInv, Good, Placed, LayerOK, Role
<1> QED BY <1>2, <1>4 DEF IInv, Good, Placed, GoodNext, Role

LEMMA NewLayerKeeps ==
    ASSUME IInv, NEW l \in Layers, NewLayer(l)
    PROVE  PlacesOK' /\ GoodNext(seat')
<1>1. wants' \in SUBSET Layers /\ seat' = seat /\ layer[l] = "none" /\ LayerBecomes(l, "created")
  BY DEF IInv, PlacesOK, NewLayer
<1> QED BY <1>1, LayerGains

LEMMA InitialCommitKeeps ==
    ASSUME IInv, NEW l \in Layers, InitialCommit(l)
    PROVE  PlacesOK' /\ GoodNext(seat')
<1>1. wants' \in SUBSET Layers /\ Role(layer, l) /\ LayerBecomes(l, "committed")
  BY DEF IInv, PlacesOK, InitialCommit, WantsMayChange, Role
<1>2. PlacesOK' /\ GoodNext(seat) /\ Role(layer', l)
  BY <1>1, LayerGains
<1>3. GoodNext(FocusLayer(seat, l))
  BY <1>2, FocusLayerGood
<1> QED BY <1>2, <1>3, RearrangeGood DEF InitialCommit, PlacesOK

LEMMA LayerCommitKeeps ==
    ASSUME IInv, NEW l \in Layers, LayerCommit(l)
    PROVE  PlacesOK' /\ GoodNext(seat')
<1>1. wants' \in SUBSET Layers /\ Role(layer, l) /\ LayerBecomes(l, "shown")
  BY DEF IInv, PlacesOK, LayerCommit, WantsMayChange, Role
<1>2. PlacesOK' /\ GoodNext(seat)
  BY <1>1, LayerGains
<1>3. seat' = seat \/ Rearrange(seat)
  BY DEF LayerCommit
<1> QED BY <1>2, <1>3, RearrangeGood DEF PlacesOK

LEMMA LayerUnmapKeeps ==
    ASSUME IInv, NEW l \in Layers, LayerUnmap(l)
    PROVE  PlacesOK' /\ GoodNext(seat')
<1>1. wants' \in SUBSET Layers /\ seat' = seat /\ Role(layer, l) /\ LayerBecomes(l, "hidden")
  BY DEF IInv, PlacesOK, LayerUnmap, Role
<1> QED BY <1>1, LayerGains

\* The role is lost while the surface may have the keyboard: the window that
\* the current workspace remembers gets it.
LEMMA GiveBackGood ==
    ASSUME IInv, NEW l \in Layers, HasRole(l), LayerBecomes(l, "roleless"),
           wants' \in SUBSET Layers
    PROVE  /\ PlacesOK' /\ GoodNext(GiveBack(seat, l))
           /\ (seat.layer = l /\ seat.last[current] # NoSurface) =>
                GiveBack(seat, l).kb = seat.last[current]
<1>1. "roleless" \in LayerLives
  BY DEF LayerLives
<1>2. /\ PlacesOK' /\ home' = home /\ current' = current
      /\ home' \in [Windows -> Workspaces \cup {NoWorkspace}]
      /\ \A m \in Layers : layer'[m] = IF m = l THEN "roleless" ELSE layer[m]
  BY <1>1, LayerPlaces
<1>3. Role(layer, l) /\ current \in Workspaces
  BY DEF HasRole, Role, IInv, PlacesOK
<1>4. /\ seat \in SeatState /\ seat.layer \in Layers \cup {NoSurface}
      /\ seat.last \in [Workspaces -> Windows \cup {NoSurface}]
  BY FieldTypes DEF IInv, Good, Placed
<1>5. CASE seat.layer # l
  <2>1. seat.kb # l
    BY <1>3, <1>5 DEF IInv, Good, Placed, LayerOK
  <2>2. LayerOK(seat, layer')
    BY <1>2, <1>4, <1>5, <2>1 DEF IInv, Good, Placed, LayerOK, Role
  <2> QED BY <1>2, <1>5, <2>2 DEF IInv, Good, Placed, GoodNext, GiveBack
<1>6. CASE seat.layer = l
  <2> DEFINE g == [seat EXCEPT !.layer = NoSurface]
             w == seat.last[current]
  <2>1. GiveBack(seat, l) = FocusToplevel(g, w)
    BY <1>6 DEF GiveBack
  <2>2. g = [seat EXCEPT !.layer = NoSurface]
    OBVIOUS
  <2> HIDE DEF g
  <2>3. /\ g \in SeatState /\ g.layer = NoSurface
        /\ g.kb = seat.kb /\ g.pointer = seat.pointer /\ g.last = seat.last
        /\ g.hovered = seat.hovered /\ g.shape = seat.shape /\ g.image = seat.image
    BY <1>4, <2>2, SetLayer
  <2>4. LayerOK(g, layer')
    BY <1>2, <1>6, <2>3 DEF IInv, Good, Placed, LayerOK, Role
  <2>5. GoodNext(g)
    BY <1>2, <2>3, <2>4
      DEF IInv, Good, Placed, GoodNext, KeyboardOK, LastOK, PointerOK, ImageOK, NeutralOK
  <2>6. w \in Windows \cup {NoSurface} /\ (w # NoSurface => home'[w] # NoWorkspace)
    BY <1>2, <1>3, <1>4, Kinds DEF IInv, Good, Placed, LastOK
  <2> HIDE DEF w
  <2>7. GoodNext(FocusToplevel(g, w)) /\ (w # NoSurface => FocusToplevel(g, w).kb = w)
    BY <1>2, <2>5, <2>6, FocusToplevelGood
  <2> QED BY <1>2, <2>1, <2>7 DEF w
<1> QED BY <1>5, <1>6

LEMMA DestroyLayerKeeps ==
    ASSUME IInv, NEW l \in Layers, DestroyLayer(l)
    PROVE  PlacesOK' /\ GoodNext(seat')
<1>1. wants' \in SUBSET Layers /\ HasRole(l) /\ LayerBecomes(l, "roleless")
  BY DEF IInv, PlacesOK, DestroyLayer
<1>2. PlacesOK' /\ GoodNext(GiveBack(seat, l))
  BY <1>1, GiveBackGood
<1> QED BY <1>2, RearrangeGood DEF DestroyLayer, PlacesOK

LEMMA SurfaceDestroyedKeeps ==
    ASSUME IInv, NEW l \in Layers, SurfaceDestroyed(l)
    PROVE  PlacesOK' /\ GoodNext(seat')
<1> DEFINE f == IF seat.kb = l THEN ClearKeyboard(seat) ELSE seat
<1>1. /\ wants' \in SUBSET Layers /\ layer[l] = "roleless" /\ LayerBecomes(l, "none")
      /\ seat' = IF seat.pointer = l THEN ClearPointer(f) ELSE f
      /\ "none" \in LayerLives
  BY DEF IInv, PlacesOK, SurfaceDestroyed, LayerLives
<1>2. /\ PlacesOK' /\ home' = home /\ current' = current
      /\ \A m \in Layers : layer'[m] = IF m = l THEN "none" ELSE layer[m]
  BY <1>1, LayerPlaces
<1>3. Good(f, home, layer, current) /\ f.kb # l
  BY ClearKeyboardGood, Kinds DEF IInv
<1> HIDE DEF f
<1>4. f.layer # l /\ f.layer \in Layers \cup {NoSurface}
  BY <1>1, <1>3, Kinds, FieldTypes DEF Good, Placed, LayerOK, Role
<1>5. LayerOK(f, layer')
  BY <1>2, <1>3, <1>4 DEF Good, Placed, LayerOK, Role
<1>6. GoodNext(f)
  BY <1>2, <1>3, <1>5 DEF Good, Placed, GoodNext
<1> QED BY <1>1, <1>2, <1>6, ClearPointerGood DEF GoodNext

LEMMA PointerMotionKeeps ==
    ASSUME IInv, NEW u, PointerMotion(u)
    PROVE  PlacesOK' /\ GoodNext(seat')
<1>1. PlacesOK' /\ GoodNext(seat)
  BY StandingKeeps DEF PointerMotion, Standing
<1> QED BY <1>1, MotionGood DEF PointerMotion, PlacesOK, Visible

LEMMA ButtonPressKeeps ==
    ASSUME IInv, NEW u, ButtonPress(u)
    PROVE  PlacesOK' /\ GoodNext(seat')
<1>1. PlacesOK' /\ GoodNext(seat)
  BY StandingKeeps DEF ButtonPress, Standing
<1>2. \/ u \in Windows /\ home'[u] # NoWorkspace /\ seat' = FocusToplevel(seat, u)
      \/ u \in Layers /\ Role(layer', u) /\ seat' = FocusLayer(seat, u)
  BY <1>1, Kinds DEF ButtonPress, Visible, PlacesOK, Role
<1> QED BY <1>1, <1>2, FocusToplevelGood, FocusLayerGood DEF PlacesOK

LEMMA RequestCursorKeeps ==
    ASSUME IInv, NEW x, RequestCursor(x)
    PROVE  PlacesOK' /\ GoodNext(seat')
<1>1. PlacesOK' /\ GoodNext(seat)
  BY StandingKeeps DEF RequestCursor, Standing
<1>2. seat \in SeatState /\ seat' = [seat EXCEPT !.image = ClientImage]
  BY DEF RequestCursor, IInv, Good, Placed
<1>3. /\ seat' \in SeatState /\ seat'.image = ClientImage
      /\ seat'.kb = seat.kb /\ seat'.pointer = seat.pointer /\ seat'.last = seat.last
      /\ seat'.layer = seat.layer /\ seat'.hovered = seat.hovered /\ seat'.shape = seat.shape
  BY <1>2, SetImage
<1>4. GoodNext(seat')
  BY <1>1, <1>3, Kinds DEF Good, Placed, GoodNext, KeyboardOK, LastOK, PointerOK, LayerOK, ImageOK, NeutralOK
<1> QED BY <1>1, <1>4

LEMMA RequestShapeKeeps ==
    ASSUME IInv, NEW x, NEW n \in Shapes, RequestShape(x, n)
    PROVE  PlacesOK' /\ GoodNext(seat')
<1>1. PlacesOK' /\ GoodNext(seat)
  BY StandingKeeps DEF RequestShape, Standing
<1>2. seat.pointer # NoSurface /\ seat' = SetShapeForced(seat, n)
  BY DEF RequestShape
<1> QED BY <1>1, <1>2, SetShapeForcedGood DEF GoodNext, Good

LEMMA StepKeeps ==
    ASSUME IInv, [Next]_vars
    PROVE  IInv'
<1>1. IInv' <=> PlacesOK' /\ GoodNext(seat')
  BY DEF IInv, GoodNext
<1>2. CASE UNCHANGED vars
  BY <1>2 DEF vars, IInv, PlacesOK, OrderOK
<1>3. ASSUME NEW w \in Windows, MapWindow(w) \/ CloseWindow(w) \/ FocusWindow(w) PROVE IInv'
  BY <1>1, <1>3, MapWindowKeeps, CloseWindowKeeps, FocusWindowKeeps
<1>4. ASSUME NEW ws \in Workspaces, SwitchWorkspace(ws) PROVE IInv'
  BY <1>1, <1>4, SwitchWorkspaceKeeps
<1>5. ASSUME NEW p \in Policies, Reload(p) PROVE IInv'
  BY <1>1, <1>5, ReloadKeeps
<1>6. ASSUME NEW l \in Layers,
             \/ NewLayer(l) \/ InitialCommit(l) \/ LayerCommit(l) \/ LayerUnmap(l)
             \/ DestroyLayer(l) \/ SurfaceDestroyed(l)
      PROVE  IInv'
  BY <1>1, <1>6, NewLayerKeeps, InitialCommitKeeps, LayerCommitKeeps, LayerUnmapKeeps,
     DestroyLayerKeeps, SurfaceDestroyedKeeps
<1>7. ASSUME NEW u, PointerMotion(u) \/ ButtonPress(u) PROVE IInv'
  BY <1>1, <1>7, PointerMotionKeeps, ButtonPressKeeps
<1>8. ASSUME NEW x, RequestCursor(x) \/ \E n \in Shapes : RequestShape(x, n) PROVE IInv'
  BY <1>1, <1>8, RequestCursorKeeps, RequestShapeKeeps
<1> QED BY <1>2, <1>3, <1>4, <1>5, <1>6, <1>7, <1>8 DEF Next
----------------------------------------------------------------------------
(* The theorems *)

\* The invariant below the others: beyond what they say, a workspace only
\* remembers windows of its own, the lists agree with the windows' homes, and
\* a surface that has the keyboard still exists.
THEOREM FocusIsInductive == Spec => []IInv
<1> QED BY InitHolds, StepKeeps, PTL DEF Spec

\* The layer surface remembered as focused exists, although a window may have
\* taken the keyboard from it; and if a layer surface has the keyboard it is
\* the one remembered (src/layershell.c:19-53).
THEOREM LayerFocusAlwaysSound == Spec => []LayerFocusSound
<1>1. IInv => LayerFocusSound
  BY FieldTypes DEF IInv, Good, Placed, LayerOK, LayerFocusSound, HasRole, Role
<1> QED BY <1>1, FocusIsInductive, PTL

\* A window with the pointer is one of the current workspace, and a window with
\* the keyboard exists and is the one its workspace remembers
\* (src/xdg.c:170-192, src/config.c:466-478).
THEOREM InputAlwaysSound == Spec => []InputIsSound
<1>1. IInv => InputIsSound
  BY DEF IInv, PlacesOK, Good, Placed, PointerOK, KeyboardOK, InputIsSound, TypeOK
<1> QED BY <1>1, FocusIsInductive, PTL

\* When the pointer is moved off every surface, or no surface has it any more,
\* no shape that a client named is left on the screen: it is the default one,
\* or an image of a client's own (src/cursor.c:175-180, src/cursor.c:324-334).
THEOREM NoShapeEverLeft == Spec => NoShapeLeftBehind
<1> DEFINE A ==
        (seat'.pointer = NoSurface \/ \E u \in {NoSurface, Overlay} : PointerMotion(u))
            => seat'.image \in {"default", ClientImage}
<1>1. IInv /\ [Next]_vars => A
  <2> SUFFICES ASSUME IInv, [Next]_vars,
                      seat'.pointer = NoSurface \/ \E u \in {NoSurface, Overlay} : PointerMotion(u)
               PROVE  seat'.image \in {"default", ClientImage}
    OBVIOUS
  <2>1. seat' \in SeatState /\ ImageOK(seat') /\ NeutralOK(seat')
    BY StepKeeps DEF IInv, Good, Placed
  <2>2. ASSUME NEW u \in {NoSurface, Overlay}, PointerMotion(u) PROVE seat'.shape = "default"
    <3>1. PlacesOK' /\ GoodNext(seat) /\ seat' = Motion(seat, u) /\ u \notin Surfaces
      BY <2>2, StandingKeeps, Kinds DEF PointerMotion, Standing, Surfaces
    <3> QED BY <3>1, MotionOffShape
  <2>3. seat'.shape = "default"
    BY <2>1, <2>2 DEF NeutralOK
  <2> QED BY <2>1, <2>3, FieldTypes DEF ImageOK
<1> HIDE DEF A
<1>2. Spec => [][A]_vars
  BY <1>1, FocusIsInductive, PTL DEF Spec
<1> QED BY <1>2 DEF NoShapeLeftBehind, A

\* With a layer surface focused, or focus on click, the pointer does not move
\* the keyboard.
LEMMA MotionKeepsKeyboard ==
    ASSUME NEW f, GoodNext(f), NEW u \in Surfaces \cup {NoSurface, Overlay},
           policy' = "click" \/ f.layer # NoSurface
    PROVE  Motion(f, u).kb = f.kb
<1> DEFINE s == IF u \in Surfaces THEN f ELSE SetShape(f, "default")
           g == [s EXCEPT !.pointer = u]
<1>1. GoodNext(s) /\ s.kb = f.kb /\ s.layer = f.layer
  BY Kinds, SetShapeGood DEF GoodNext, Good
<1>2. Motion(f, u) = EnterOrLeave(Hover(s, u), u)
  BY DEF Motion
<1>3. g = [s EXCEPT !.pointer = u]
  OBVIOUS
<1> HIDE DEF s, g
<1>4. Hover(s, u) = s
  BY <1>1 DEF Hover
<1>5. EnterOrLeave(s, u) = IF u \in Surfaces THEN g ELSE s
  BY <1>1, <1>3, Kinds DEF EnterOrLeave, Surfaces
<1>6. s \in SeatState
  BY <1>1 DEF GoodNext, Good, Placed
<1>7. u \in Surfaces => g.kb = s.kb
  BY <1>3, <1>6, SetPointer
<1> QED BY <1>1, <1>2, <1>4, <1>5, <1>7

LEMMA RearrangeKeepsKeyboard ==
    ASSUME NEW f, GoodNext(f), policy' = "click" \/ f.layer # NoSurface, Rearrange(f)
    PROVE  seat'.kb = f.kb
BY MotionKeepsKeyboard DEF Rearrange, Visible, Surfaces

\* When the focused layer surface goes, the focus is on click and the current
\* workspace remembers a window, that window gets the keyboard
\* (src/layershell.c:176-182).
THEOREM KeyboardAlwaysHandedBack == Spec => KeyboardHandedBack
<1> DEFINE A ==
        \A l \in Layers :
            (/\ DestroyLayer(l)
             /\ seat.layer = l
             /\ policy = "click"
             /\ seat.last[current] # NoSurface) => seat'.kb = seat.last[current]
<1>1. IInv /\ [Next]_vars => A
  <2> SUFFICES ASSUME IInv, NEW l \in Layers, DestroyLayer(l), seat.layer = l,
                      policy = "click", seat.last[current] # NoSurface
               PROVE  seat'.kb = seat.last[current]
    OBVIOUS
  <2>1. wants' \in SUBSET Layers /\ HasRole(l) /\ LayerBecomes(l, "roleless")
    BY DEF IInv, PlacesOK, DestroyLayer
  <2>2. GoodNext(GiveBack(seat, l)) /\ GiveBack(seat, l).kb = seat.last[current]
    BY <2>1, GiveBackGood
  <2>3. policy' = "click"
    BY <2>1 DEF LayerBecomes
  <2> QED BY <2>2, <2>3, RearrangeKeepsKeyboard DEF DestroyLayer
<1> HIDE DEF A
<1>2. Spec => [][A]_vars
  BY <1>1, FocusIsInductive, PTL DEF Spec
<1> QED BY <1>2 DEF KeyboardHandedBack, A

\* No motion of the pointer, reload, commit, unmapping or end of another layer
\* surface takes the keyboard from a layer surface that has it
\* (src/cursor.c:182, src/cursor.c:215, src/layershell.c:176).  A click on a
\* window does (src/cursor.c:275-288), and is not among these.
THEOREM LayerAlwaysKeepsKeyboard == Spec => LayerKeepsKeyboard
<1> DEFINE A ==
        (/\ seat.kb \in Layers
         /\ HasRole(seat.kb)
         /\ \/ \E u \in Surfaces \cup {NoSurface, Overlay} : PointerMotion(u)
            \/ \E p \in Policies : Reload(p)
            \/ \E l \in Layers : LayerCommit(l) \/ LayerUnmap(l)
            \/ \E l \in Layers \ {seat.kb} : DestroyLayer(l))
             => seat'.kb = seat.kb
<1>1. IInv /\ [Next]_vars => A
  <2> SUFFICES ASSUME IInv, seat.kb \in Layers, HasRole(seat.kb)
               PROVE  /\ \A u \in Surfaces \cup {NoSurface, Overlay} :
                           PointerMotion(u) => seat'.kb = seat.kb
                      /\ \A p \in Policies : Reload(p) => seat'.kb = seat.kb
                      /\ \A l \in Layers : LayerCommit(l) \/ LayerUnmap(l) => seat'.kb = seat.kb
                      /\ \A l \in Layers \ {seat.kb} : DestroyLayer(l) => seat'.kb = seat.kb
    OBVIOUS
  <2>1. seat.layer = seat.kb /\ seat.layer # NoSurface
    BY Kinds DEF IInv, Good, Placed, LayerOK, HasRole, Role
  <2>2. ASSUME NEW u \in Surfaces \cup {NoSurface, Overlay}, PointerMotion(u)
        PROVE  seat'.kb = seat.kb
    <3>1. GoodNext(seat)
      BY <2>2, StandingKeeps DEF PointerMotion, Standing
    <3> QED BY <2>1, <2>2, <3>1, MotionKeepsKeyboard DEF PointerMotion
  <2>3. ASSUME NEW p \in Policies, Reload(p) PROVE seat'.kb = seat.kb
    <3>1. GoodNext(seat)
      BY <2>3 DEF IInv, Reload, GoodNext
    <3> QED BY <2>1, <2>3, <3>1, RearrangeKeepsKeyboard DEF Reload
  <2>4. ASSUME NEW l \in Layers, LayerCommit(l) PROVE seat'.kb = seat.kb
    <3>1. wants' \in SUBSET Layers /\ Role(layer, l) /\ LayerBecomes(l, "shown")
      BY <2>4 DEF IInv, PlacesOK, LayerCommit, WantsMayChange, Role
    <3>2. GoodNext(seat)
      BY <3>1, LayerGains
    <3>3. seat' = seat \/ Rearrange(seat)
      BY <2>4 DEF LayerCommit
    <3> QED BY <2>1, <3>2, <3>3, RearrangeKeepsKeyboard
  <2>5. ASSUME NEW l \in Layers, LayerUnmap(l) PROVE seat'.kb = seat.kb
    BY <2>5 DEF LayerUnmap
  <2>6. ASSUME NEW l \in Layers \ {seat.kb}, DestroyLayer(l) PROVE seat'.kb = seat.kb
    <3>1. wants' \in SUBSET Layers /\ HasRole(l) /\ LayerBecomes(l, "roleless")
      BY <2>6 DEF IInv, PlacesOK, DestroyLayer
    <3>2. GoodNext(GiveBack(seat, l))
      BY <3>1, GiveBackGood
    <3>3. GiveBack(seat, l) = seat
      BY <2>1, <2>6 DEF GiveBack
    <3> QED BY <2>1, <2>6, <3>2, <3>3, RearrangeKeepsKeyboard DEF DestroyLayer
  <2> QED BY <2>2, <2>3, <2>4, <2>5, <2>6
<1> HIDE DEF A
<1>2. Spec => [][A]_vars
  BY <1>1, FocusIsInductive, PTL DEF Spec
<1> QED BY <1>2 DEF LayerKeepsKeyboard, A
=============================================================================
