--------------------------- MODULE Desktop_proofs ---------------------------
(* Theorems about Desktop, for any number of windows and workspaces. *)
EXTENDS Desktop, Data_proofs
----------------------------------------------------------------------------
(* Focus records *)

\* The part of the type invariant that handlers do not get from an arrangement.
PlacesOK ==
    /\ win \in [Windows -> {"none", "created", "mapped", "unmapped"}]
    /\ home \in [Windows -> Workspaces]
    /\ list \in [Workspaces -> Seq(Windows)]
    /\ tiles \in [Workspaces -> SUBSET Windows]
    /\ current \in Workspaces
    /\ mode \in Modes
    /\ policy \in Policies
    /\ aborted \in BOOLEAN

\* The invariants about focus, as predicates on a focus record.
Activated(f) == f.kb # NoWindow => f.kb \in f.active
Remembered(f, h) == f.kb # NoWindow => f.last[h[f.kb]] = f.kb
Keys(f) == f.active \cup {f.kb}

\* focus_toplevel gives the keyboard to w and nothing else becomes focused.
LEMMA FocusToplevelFacts ==
    ASSUME NEW f \in Focus, NEW w \in AnyWindow, home' \in [Windows -> Workspaces]
    PROVE  /\ FocusToplevel(f, w) \in Focus
           /\ Activated(f) => Activated(FocusToplevel(f, w))
           /\ Remembered(f, home') => Remembered(FocusToplevel(f, w), home')
           /\ FocusToplevel(f, w).hovered = f.hovered
           /\ Keys(FocusToplevel(f, w)) \subseteq Keys(f) \cup {w}
<1>1. CASE w \in {NoWindow, f.kb}
  BY <1>1 DEF FocusToplevel
<1>2. CASE w \notin {NoWindow, f.kb}
  <2> DEFINE g == FocusToplevel(f, w)
  <2>1. w \in Windows /\ home'[w] \in Workspaces
    BY <1>2 DEF AnyWindow
  <2>2. g = [f EXCEPT !.kb = w,
                      !.active = (@ \ {f.kb}) \cup {w},
                      !.last = [@ EXCEPT ![home'[w]] = w]]
    BY <1>2 DEF FocusToplevel
  <2>3. /\ g.kb = w
        /\ g.active = (f.active \ {f.kb}) \cup {w}
        /\ g.last = [f.last EXCEPT ![home'[w]] = w]
        /\ g.hovered = f.hovered
    BY <2>2 DEF Focus
  <2>4. g \in Focus
    <3> DEFINE act == (f.active \ {f.kb}) \cup {w}
               rem == [f.last EXCEPT ![home'[w]] = w]
    <3>1. act \in SUBSET Windows /\ rem \in [Workspaces -> AnyWindow]
      BY <2>1 DEF Focus
    <3>2. g = [f EXCEPT !.kb = w, !.active = act, !.last = rem]
      BY <2>2 DEF Focus
    <3> HIDE DEF act, rem, g
    <3> QED BY <3>1, <3>2 DEF Focus
  <2>5. g.last[home'[w]] = w
    BY <2>1, <2>3 DEF Focus
  <2> QED
    BY <2>3, <2>4, <2>5 DEF Activated, Remembered, Keys
<1> QED BY <1>1, <1>2

\* ClearKeyboard only takes the keyboard away.
LEMMA ClearKeyboardFacts ==
    ASSUME NEW f \in Focus
    PROVE  /\ ClearKeyboard(f) \in Focus
           /\ ClearKeyboard(f).kb = NoWindow
           /\ ClearKeyboard(f).active = f.active
           /\ ClearKeyboard(f).last = f.last
           /\ ClearKeyboard(f).hovered = f.hovered
BY DEF ClearKeyboard, Focus, AnyWindow

\* process_cursor_motion focuses what is under the pointer or nothing new.
LEMMA PointAtFacts ==
    ASSUME NEW f \in Focus, NEW u \in AnyWindow, home' \in [Windows -> Workspaces],
           policy' \in Policies
    PROVE  /\ PointAt(f, u) \in Focus
           /\ Activated(f) => Activated(PointAt(f, u))
           /\ Remembered(f, home') => Remembered(PointAt(f, u), home')
           /\ Keys(PointAt(f, u)) \subseteq Keys(f) \cup {u, NoWindow}
<1> policy' \in {"click", "hover"}
  BY DesktopAssumption DEF DesktopAssumption
<1>1. CASE policy' = "click"
  BY <1>1 DEF PointAt
<1>2. CASE policy' = "hover" /\ u = NoWindow
  <2>1. PointAt(f, u) = [ClearKeyboard(f) EXCEPT !.hovered = NoWindow]
    BY <1>2 DEF PointAt
  <2> QED
    BY <1>2, <2>1, ClearKeyboardFacts DEF Focus, AnyWindow, Activated, Remembered, Keys
<1>3. CASE policy' = "hover" /\ u = f.hovered /\ u # NoWindow
  <2>1. PointAt(f, u) = f
    BY <1>3 DEF PointAt
  <2> QED BY <1>3, <2>1
<1>4. CASE policy' = "hover" /\ u # f.hovered /\ u # NoWindow
  <2> DEFINE g == FocusToplevel(f, u)
  <2>1. PointAt(f, u) = [g EXCEPT !.hovered = u]
    BY <1>4 DEF PointAt
  <2>2. /\ g \in Focus
        /\ Activated(f) => Activated(g)
        /\ Remembered(f, home') => Remembered(g, home')
        /\ Keys(g) \subseteq Keys(f) \cup {u}
    BY FocusToplevelFacts
  <2> HIDE DEF g
  <2> QED
    BY <1>4, <2>1, <2>2 DEF Focus, Activated, Remembered, Keys
<1> QED BY <1>1, <1>2, <1>3, <1>4

\* arrange_workspaces shows windows and may move the focus to one of them.
LEMMA RearrangeFacts ==
    ASSUME NEW f \in Focus, NEW sh \in SUBSET Windows, PlacesOK', Rearrange(f, sh)
    PROVE  /\ shown' \in SUBSET Windows
           /\ focus' \in Focus
           /\ fault' \in BOOLEAN
           /\ Activated(f) => Activated(focus')
           /\ Remembered(f, home') => Remembered(focus', home')
           /\ Keys(focus') \subseteq Keys(f) \cup Mapped' \cup {NoWindow}
<1>1. home' \in [Windows -> Workspaces] /\ policy' \in Policies /\ Mapped' \subseteq Windows
  BY DEF PlacesOK, Mapped
<1>2. shown' \in SUBSET Windows
  <2>1. Outputs \in 0..2 /\ Modes \subseteq {"tile", "monocle"}
    BY DesktopAssumption DEF DesktopAssumption
  <2>2. shown' = Arranged(f, sh)
    BY DEF Rearrange
  <2>3. tiles'[current'] \subseteq Windows /\ mode' \in {"tile", "monocle"}
    BY <2>1 DEF PlacesOK
  <2>4. ArrangeTiling(sh) \subseteq Windows /\ ArrangeMonocle(f, sh) \subseteq Windows
    BY <1>1, <2>3 DEF ArrangeTiling, ArrangeMonocle
  <2> QED BY <2>1, <2>2, <2>3, <2>4 DEF Arranged
<1>3. PICK u \in (Arranged(f, sh) \cap Mapped') \cup {NoWindow} : focus' = PointAt(f, u)
  BY DEF Rearrange, UnderPointer
<1>4. u \in AnyWindow /\ u \in Mapped' \cup {NoWindow}
  BY <1>1, <1>3 DEF AnyWindow
<1>5. fault' \in BOOLEAN
  BY DEF Rearrange, ArrangeFaults
<1> QED
  BY <1>1, <1>2, <1>3, <1>4, <1>5, PointAtFacts
----------------------------------------------------------------------------
(* The inductive invariant *)

\* A window that may be referred to: null, or not freed.
Live(life, x) == x \in Windows => life[x] # "none"

LinksOK ==
    /\ LinkedOnce
    /\ ListedTiled
    /\ ~LateMap => TilesLiveAtHome

\* Liveness of the focused windows is what keeps Remembered from being
\* disturbed when a freed address is used for a new window.
FocusOK ==
    /\ focus \in Focus
    /\ Activated(focus)
    /\ ~fault => \A x \in Keys(focus) : Live(win, x)
    /\ ~LateMap => Remembered(focus, home)

IInv ==
    /\ PlacesOK
    /\ shown \in SUBSET Windows
    /\ fault \in BOOLEAN
    /\ LinksOK
    /\ FocusOK

\* The inductive invariant contains the invariants the runs check.
LEMMA IInvImplies ==
    IInv => /\ TypeOK /\ LinkedOnce /\ ListedTiled
            /\ KeyboardIsActivated /\ FocusIsLive
            /\ ~LateMap => TilesLiveAtHome /\ KeyboardIsRemembered
BY DEF IInv, PlacesOK, LinksOK, FocusOK, TypeOK, KeyboardIsActivated, FocusIsLive,
       KeyboardIsRemembered, Activated, Remembered, Keys, Live, Dead

LEMMA InitIInv == Init => IInv
<1> SUFFICES ASSUME Init PROVE IInv
  OBVIOUS
<1>1. 1 \in Workspaces
  BY DesktopAssumption DEF DesktopAssumption, Workspaces
<1>2. PlacesOK /\ shown \in SUBSET Windows /\ fault \in BOOLEAN
  <2>1. list \in [Workspaces -> Seq(Windows)]
    <3>1. << >> \in Seq(Windows)
      OBVIOUS
    <3> QED BY <3>1 DEF Init
  <2> QED BY <1>1, <2>1 DEF Init, PlacesOK
<1>3. \A ws \in Workspaces : ToSet(list[ws]) = {} /\ IsInjective(list[ws])
  BY DEF Init, ToSet, IsInjective
<1>4. Mapped = {}
  BY DEF Init, Mapped
<1>5. LinksOK
  BY <1>3, <1>4 DEF Init, LinksOK, LinkedOnce, ListedTiled, TilesLiveAtHome, Listed
<1>6. NoWindow \notin Windows
  BY DesktopAssumption DEF DesktopAssumption
<1>7. focus \in Focus /\ focus.kb = NoWindow /\ focus.active = {} /\ focus.hovered = NoWindow
  BY DEF Init, Focus, AnyWindow
<1>8. FocusOK
  BY <1>6, <1>7 DEF FocusOK, Activated, Remembered, Keys, Live
<1> QED BY <1>2, <1>5, <1>8 DEF IInv

\* What every listed window is, and the head of every list.
LEMMA HeadFacts ==
    ASSUME IInv, NEW ws \in Workspaces
    PROVE  /\ Listed(ws) \subseteq Mapped
           /\ HeadOf(list[ws]) \in Listed(ws) \cup {NoWindow}
           /\ HeadOf(list[ws]) \in AnyWindow
<1>1. list[ws] \in Seq(Windows) /\ Listed(ws) \subseteq Mapped
  BY DEF IInv, PlacesOK, LinksOK, LinkedOnce
<1>2. CASE list[ws] = << >>
  BY <1>1, <1>2 DEF HeadOf, AnyWindow
<1>3. CASE list[ws] # << >>
  <2>1. 1 \in DOMAIN list[ws] /\ list[ws][1] \in Windows
    BY <1>1, <1>3
  <2> QED BY <1>1, <1>3, <2>1 DEF HeadOf, Listed, ToSet, AnyWindow
<1> QED BY <1>2, <1>3, <1>1

\* Handlers that move no window keep the links.
LEMMA LinksKept ==
    ASSUME LinksOK, UNCHANGED <<win, home, list, tiles>>
    PROVE  LinksOK'
BY DEF LinksOK, LinkedOnce, ListedTiled, TilesLiveAtHome, Listed, Mapped, Dead

\* A handler that ends in arrange_workspaces keeps the focus invariants, if
\* they hold of the focus it arranges with.
LEMMA ArrangedFocusOK ==
    ASSUME NEW f \in Focus, NEW sh \in SUBSET Windows, PlacesOK', Rearrange(f, sh),
           Activated(f),
           \A x \in Keys(f) : Live(win', x),
           ~LateMap => Remembered(f, home')
    PROVE  shown' \in SUBSET Windows /\ fault' \in BOOLEAN /\ FocusOK'
<1>1. NoWindow \notin Windows /\ \A x \in Mapped' : Live(win', x)
  BY DesktopAssumption DEF DesktopAssumption, Mapped, Live
<1>2. \A x \in Keys(focus') : Live(win', x)
  BY <1>1, RearrangeFacts DEF Live
<1>3. ~LateMap => Remembered(focus', home')
  BY RearrangeFacts
<1> QED
  BY <1>2, <1>3, RearrangeFacts DEF FocusOK, Activated, Remembered, Keys
----------------------------------------------------------------------------
(* One lemma per handler *)

\* A handler that frees the root of a layout gets no further.
LEMMA FreesRootStep ==
    ASSUME IInv, NEW w, FreesRoot(w)
    PROVE  IInv'
<1>1. PlacesOK' /\ LinksOK' /\ shown' \in SUBSET Windows /\ fault' \in BOOLEAN
  BY LinksKept DEF FreesRoot, IInv, PlacesOK
<1>2. FocusOK'
  BY DEF FreesRoot, IInv, FocusOK
<1> QED BY <1>1, <1>2 DEF IInv

LEMMA NewToplevelStep ==
    ASSUME IInv, ~fault, NEW w \in Windows, NewToplevel(w)
    PROVE  IInv'
<1>1. PlacesOK' /\ shown' \in SUBSET Windows /\ fault' \in BOOLEAN
  BY DEF IInv, PlacesOK, NewToplevel
<1>2. /\ win[w] = "none"
      /\ \A x \in Windows : x # w => win'[x] = win[x] /\ home'[x] = home[x]
      /\ win'[w] = "created"
      /\ UNCHANGED <<list, tiles, focus, fault>>
  BY DEF IInv, PlacesOK, NewToplevel
<1>3. Mapped' = Mapped
  BY <1>2 DEF Mapped
<1>4. LinksOK'
  <2>1. LinkedOnce' /\ ListedTiled'
    BY <1>2, <1>3 DEF IInv, LinksOK, LinkedOnce, ListedTiled, Listed
  <2>2. ASSUME ~LateMap PROVE TilesLiveAtHome'
    BY <1>2, <2>2 DEF IInv, LinksOK, PlacesOK, TilesLiveAtHome, Dead
  <2> QED BY <2>1, <2>2 DEF LinksOK
<1>5. FocusOK'
  <2>1. \A x : Live(win, x) => Live(win', x)
    BY <1>2 DEF Live
  <2>2. Live(win, focus.kb)
    BY DEF IInv, FocusOK, Keys
  <2>3. focus.kb \in AnyWindow
    BY DEF IInv, FocusOK, Focus
  <2>4. Remembered(focus, home) => Remembered(focus, home')
    BY <1>2, <2>2, <2>3 DEF Live, Remembered, AnyWindow
  <2> QED BY <1>2, <2>1, <2>4 DEF IInv, FocusOK
<1> QED BY <1>1, <1>4, <1>5 DEF IInv

\* Focusing a live window is a good focus to arrange with.
LEMMA FocusLive ==
    ASSUME NEW f \in Focus, NEW w \in AnyWindow, home' \in [Windows -> Workspaces],
           Activated(f), Live(win', w),
           \A x \in Keys(f) : Live(win', x),
           ~LateMap => Remembered(f, home')
    PROVE  LET g == FocusToplevel(f, w)
           IN  /\ g \in Focus /\ Activated(g)
               /\ \A x \in Keys(g) : Live(win', x)
               /\ ~LateMap => Remembered(g, home')
BY FocusToplevelFacts

LEMMA MapStep ==
    ASSUME IInv, ~fault, NEW w \in Windows, Map(w)
    PROVE  IInv'
<1>1. /\ w \notin Mapped
      /\ Mapped' = Mapped \cup {w}
      /\ win' = [win EXCEPT ![w] = "mapped"]
      /\ list' = [list EXCEPT ![current] = Cons(w, list[current])]
      /\ tiles' = [tiles EXCEPT ![current] = tiles[current] \cup {w}]
      /\ LateMap \/ home[w] = current
      /\ UNCHANGED <<home, current, mode, policy, aborted>>
      /\ current \in Workspaces
      /\ \A ws \in Workspaces : list[ws] \in Seq(Windows)
  BY DEF IInv, PlacesOK, Map, Mapped
<1>2. \A ws \in Workspaces : w \notin Listed(ws) /\ IsInjective(list[ws])
  BY <1>1 DEF IInv, LinksOK, LinkedOnce
<1>3. /\ Cons(w, list[current]) \in Seq(Windows)
      /\ ToSet(Cons(w, list[current])) = Listed(current) \cup {w}
      /\ IsInjective(Cons(w, list[current]))
  BY <1>1, <1>2, ConsFacts DEF Listed
<1>4. PlacesOK'
  BY <1>1, <1>3 DEF IInv, PlacesOK
<1>5. \A ws \in Workspaces : list'[ws] = IF ws = current THEN Cons(w, list[current]) ELSE list[ws]
  BY <1>1 DEF IInv, PlacesOK
<1>6. \A ws \in Workspaces : Listed(ws)' = IF ws = current THEN Listed(ws) \cup {w} ELSE Listed(ws)
  BY <1>3, <1>5 DEF Listed
<1>7. LinkedOnce'
  <2>1. \A ws \in Workspaces : IsInjective(list'[ws])
    BY <1>2, <1>3, <1>5
  <2>2. \A ws \in Workspaces : Listed(ws) \subseteq Mapped
    BY DEF IInv, LinksOK, LinkedOnce
  <2>3. \A x \in Mapped : \E ws \in Workspaces : x \in Listed(ws)
    BY DEF IInv, LinksOK, LinkedOnce
  <2>4. \A ws1, ws2 \in Workspaces : ws1 # ws2 => Listed(ws1) \cap Listed(ws2) = {}
    BY DEF IInv, LinksOK, LinkedOnce
  <2>5. \A ws \in Workspaces : Listed(ws)' \subseteq Mapped'
    BY <1>1, <1>6, <2>2
  <2>6. \A x \in Mapped' : \E ws \in Workspaces : x \in Listed(ws)'
    BY <1>1, <1>6, <2>3
  <2>7. \A ws1, ws2 \in Workspaces : ws1 # ws2 => Listed(ws1)' \cap Listed(ws2)' = {}
    BY <1>2, <1>6, <2>4
  <2> QED BY <2>1, <2>5, <2>6, <2>7 DEF LinkedOnce
<1>8. ListedTiled'
  BY <1>1, <1>6 DEF IInv, PlacesOK, LinksOK, ListedTiled
<1>9. ASSUME ~LateMap PROVE TilesLiveAtHome'
  BY <1>1, <1>9 DEF IInv, PlacesOK, LinksOK, TilesLiveAtHome, Dead
<1>10. shown' \in SUBSET Windows /\ fault' \in BOOLEAN /\ FocusOK'
  <2> DEFINE f == FocusToplevel(focus, w)
             sh == shown \cup {w}
  <2>1. Rearrange(f, sh)
    BY DEF Map
  <2>2. \A x : Live(win, x) => Live(win', x)
    BY <1>1 DEF IInv, PlacesOK, Live
  <2>3. Live(win', w) /\ w \in AnyWindow /\ home' \in [Windows -> Workspaces] /\ sh \in SUBSET Windows
    BY <1>1 DEF IInv, PlacesOK, Live, AnyWindow
  <2>4. /\ focus \in Focus /\ Activated(focus)
        /\ \A x \in Keys(focus) : Live(win', x)
        /\ ~LateMap => Remembered(focus, home')
    BY <1>1, <2>2 DEF IInv, FocusOK
  <2> HIDE DEF f, sh
  <2>5. /\ f \in Focus /\ Activated(f)
        /\ \A x \in Keys(f) : Live(win', x)
        /\ ~LateMap => Remembered(f, home')
    BY <2>3, <2>4, FocusLive DEF f
  <2> QED BY <1>4, <2>1, <2>3, <2>5, ArrangedFocusOK
<1> QED BY <1>4, <1>7, <1>8, <1>9, <1>10 DEF IInv, LinksOK

\* wl_list_remove of w, applied to every list.
LEMMA UnlinkedLists ==
    ASSUME IInv, NEW ws \in Workspaces, NEW w
    PROVE  /\ Unlink(list[ws], w) \in Seq(Windows)
           /\ IsInjective(Unlink(list[ws], w))
           /\ ToSet(Unlink(list[ws], w)) = Listed(ws) \ {w}
BY UnlinkType, UnlinkFacts DEF IInv, PlacesOK, LinksOK, LinkedOnce, Listed

LEMMA UnmapStep ==
    ASSUME IInv, ~fault, NEW w \in Windows, Unmap(w)
    PROVE  IInv'
<1>1. /\ Mapped' = Mapped \ {w}
      /\ win' = [win EXCEPT ![w] = "unmapped"]
      /\ list' = [ws \in Workspaces |-> Unlink(list[ws], w)]
      /\ shown' = shown \ {w}
      /\ UNCHANGED <<home, tiles, current, mode, policy, focus, fault, aborted>>
  BY DEF IInv, PlacesOK, Unmap, Mapped
<1>2. \A ws \in Workspaces :
        /\ list'[ws] \in Seq(Windows)
        /\ IsInjective(list'[ws])
        /\ Listed(ws)' = Listed(ws) \ {w}
  BY <1>1, UnlinkedLists DEF Listed
<1>3. PlacesOK' /\ shown' \in SUBSET Windows /\ fault' \in BOOLEAN
  BY <1>1, <1>2 DEF IInv, PlacesOK
<1>4. LinkedOnce'
  BY <1>1, <1>2 DEF IInv, LinksOK, LinkedOnce
<1>5. ListedTiled'
  BY <1>1, <1>2 DEF IInv, LinksOK, ListedTiled
<1>6. \A x : Live(win, x) => Live(win', x)
  BY <1>1 DEF IInv, PlacesOK, Live
<1>7. ASSUME ~LateMap PROVE TilesLiveAtHome'
  BY <1>1, <1>7 DEF IInv, PlacesOK, LinksOK, TilesLiveAtHome, Dead
<1>8. FocusOK'
  BY <1>1, <1>6 DEF IInv, FocusOK
<1> QED BY <1>3, <1>4, <1>5, <1>7, <1>8 DEF IInv, LinksOK

\* What is left of the focus does not mention the destroyed window.
LEMMA ForgetFacts ==
    ASSUME NEW f \in Focus, NEW w \in Windows, home \in [Windows -> Workspaces]
    PROVE  /\ Forget(f, w) \in Focus
           /\ Forget(f, w).kb = NoWindow
           /\ Forget(f, w).active = f.active \ {w}
           /\ Forget(f, w).hovered = f.hovered
<1> DEFINE g   == ClearKeyboard(f)
           act == g.active \ {w}
           rem == IF g.last[home[w]] = w THEN [g.last EXCEPT ![home[w]] = NoWindow] ELSE g.last
<1>1. g \in Focus /\ g.kb = NoWindow /\ g.active = f.active /\ g.hovered = f.hovered
  BY ClearKeyboardFacts
<1> HIDE DEF g
<1>2. act \in SUBSET Windows /\ rem \in [Workspaces -> AnyWindow]
  BY <1>1 DEF Focus, AnyWindow
<1>3. Forget(f, w) = [g EXCEPT !.active = act, !.last = rem]
  BY <1>1 DEF Forget, Focus, g
<1> HIDE DEF act, rem
<1>4. [g EXCEPT !.active = act, !.last = rem] \in Focus
  BY <1>1, <1>2 DEF Focus
<1> QED BY <1>1, <1>3, <1>4 DEF Focus, act

LEMMA DestroyStep ==
    ASSUME IInv, ~fault, NEW w \in Windows, Destroy(w), ~FreesRoot(w)
    PROVE  IInv'
<1>1. /\ w \notin Mapped
      /\ Mapped' = Mapped
      /\ win' = [win EXCEPT ![w] = "none"]
      /\ tiles' = [tiles EXCEPT ![home[w]] = tiles[home[w]] \ {w}]
      /\ UNCHANGED <<home, list, current, mode, policy, aborted>>
      /\ home[w] \in Workspaces
  BY DEF IInv, PlacesOK, Destroy, Evict, Mapped
<1>2. PlacesOK'
  BY <1>1 DEF IInv, PlacesOK
<1>3. \A ws \in Workspaces : Listed(ws)' = Listed(ws) /\ w \notin Listed(ws)
  BY <1>1 DEF IInv, LinksOK, LinkedOnce, Listed
<1>4. LinkedOnce'
  BY <1>1, <1>3 DEF IInv, LinksOK, LinkedOnce
<1>5. ListedTiled'
  BY <1>1, <1>3 DEF IInv, PlacesOK, LinksOK, ListedTiled
<1>6. ASSUME ~LateMap PROVE TilesLiveAtHome'
  BY <1>1, <1>6 DEF IInv, PlacesOK, LinksOK, TilesLiveAtHome, Dead
<1>7. shown' \in SUBSET Windows /\ fault' \in BOOLEAN /\ FocusOK'
  <2> DEFINE h  == HeadOf(list[home[w]])
             g  == Forget(focus, w)
             f  == FocusToplevel(g, h)
             sh == shown \ {w}
  <2>1. Rearrange(f, sh) /\ sh \in SUBSET Windows
    BY DEF IInv, Destroy
  <2>2. focus \in Focus /\ \A x \in Keys(focus) : Live(win, x)
    BY DEF IInv, FocusOK
  <2>3. NoWindow \notin Windows /\ home \in [Windows -> Workspaces]
    BY DesktopAssumption DEF DesktopAssumption, IInv, PlacesOK
  <2>4. \A x : (Live(win, x) /\ x # w) => Live(win', x)
    BY <1>1 DEF IInv, PlacesOK, Live
  <2>5. /\ g \in Focus /\ g.kb = NoWindow
        /\ g.active = focus.active \ {w} /\ g.hovered = focus.hovered
    BY <2>2, <2>3, ForgetFacts
  <2>6. h \in AnyWindow /\ Live(win', h)
    <3>1. h \in AnyWindow /\ h \in Mapped \cup {NoWindow}
      BY <1>1, HeadFacts
    <3> QED BY <1>1, <2>3, <3>1 DEF Live, Mapped
  <2> HIDE DEF h, g
  <2>7. /\ Activated(g) /\ Remembered(g, home')
        /\ \A x \in Keys(g) : Live(win', x)
    BY <2>2, <2>3, <2>4, <2>5 DEF Activated, Remembered, Keys, Live
  <2>8. /\ f \in Focus /\ Activated(f)
        /\ \A x \in Keys(f) : Live(win', x)
        /\ ~LateMap => Remembered(f, home')
    BY <1>1, <2>3, <2>5, <2>6, <2>7, FocusLive
  <2> HIDE DEF f, sh
  <2> QED BY <1>2, <2>1, <2>8, ArrangedFocusOK
<1> QED BY <1>2, <1>4, <1>5, <1>6, <1>7 DEF IInv, LinksOK

\* Handlers that move no window and focus none before they arrange.
LEMMA OnlyRearrangeStep ==
    ASSUME IInv, ~fault, UNCHANGED <<win, home, list, tiles, current, aborted>>,
           mode' \in Modes, policy' \in Policies, Rearrange(focus, shown)
    PROVE  IInv'
<1>1. PlacesOK' /\ LinksOK'
  BY LinksKept DEF IInv, PlacesOK
<1>2. /\ focus \in Focus /\ Activated(focus)
      /\ \A x \in Keys(focus) : Live(win', x)
      /\ ~LateMap => Remembered(focus, home')
  BY DEF IInv, FocusOK
<1>3. shown \in SUBSET Windows
  BY DEF IInv
<1>4. shown' \in SUBSET Windows /\ fault' \in BOOLEAN /\ FocusOK'
  BY <1>1, <1>2, <1>3, ArrangedFocusOK
<1> QED BY <1>1, <1>4 DEF IInv

LEMMA ToggleMonocleStep ==
    ASSUME IInv, ~fault, ToggleMonocle
    PROVE  IInv'
<1>1. mode' \in Modes /\ policy' \in Policies
  BY DEF ToggleMonocle, IInv, PlacesOK
<1> QED BY <1>1, OnlyRearrangeStep DEF ToggleMonocle

LEMMA ReloadStep ==
    ASSUME IInv, ~fault, NEW p \in Policies, Reload(p)
    PROVE  IInv'
<1>1. mode' \in Modes /\ policy' \in Policies
  BY DEF Reload, IInv, PlacesOK
<1>2. CASE Rearrange(focus, shown)
  BY <1>1, <1>2, OnlyRearrangeStep DEF Reload
<1>3. CASE UNCHANGED <<shown, focus, fault>>
  <2>1. PlacesOK' /\ LinksOK' /\ FocusOK'
    BY <1>1, <1>3, LinksKept DEF Reload, IInv, PlacesOK, FocusOK
  <2> QED BY <1>3, <2>1 DEF IInv
<1> QED BY <1>2, <1>3 DEF Reload

LEMMA MoveOrLayoutStep ==
    ASSUME IInv, ~fault, OutputLayoutChanged \/ \E v \in Windows : MoveDirection(v)
    PROVE  IInv'
<1>1. mode' \in Modes /\ policy' \in Policies
  BY DEF OutputLayoutChanged, MoveDirection, IInv, PlacesOK
<1> QED BY <1>1, OnlyRearrangeStep DEF OutputLayoutChanged, MoveDirection

LEMMA CloseActiveStep ==
    ASSUME IInv, ~fault, CloseActive
    PROVE  IInv'
<1>1. PlacesOK' /\ LinksOK' /\ shown' \in SUBSET Windows /\ fault' \in BOOLEAN
  BY LinksKept DEF IInv, PlacesOK, CloseActive, Dead
<1>2. FocusOK'
  BY DEF IInv, FocusOK, CloseActive
<1> QED BY <1>1, <1>2 DEF IInv

\* Handlers that only focus a window, which may turn out to be freed.
LEMMA OnlyFocusStep ==
    ASSUME IInv, ~fault, NEW v \in Windows,
           UNCHANGED <<win, home, list, tiles, current, mode, policy, shown, aborted>>,
           focus' = FocusToplevel(focus, v),
           fault' \in BOOLEAN, ~fault' => Live(win, v)
    PROVE  IInv'
<1>1. PlacesOK' /\ LinksOK' /\ shown' \in SUBSET Windows
  BY LinksKept DEF IInv, PlacesOK
<1>2. /\ focus \in Focus /\ Activated(focus)
      /\ \A x \in Keys(focus) : Live(win, x)
      /\ ~LateMap => Remembered(focus, home')
  BY DEF IInv, FocusOK
<1>3. v \in AnyWindow /\ home' \in [Windows -> Workspaces]
  BY <1>1 DEF PlacesOK, AnyWindow
<1>4. FocusOK'
  BY <1>2, <1>3, FocusToplevelFacts DEF FocusOK, Activated, Remembered, Keys
<1> QED BY <1>1, <1>4 DEF IInv

LEMMA FocusDirectionStep ==
    ASSUME IInv, ~fault, NEW v \in Windows, FocusDirection(v)
    PROVE  IInv'
<1>1. fault' \in BOOLEAN /\ (~fault' => Live(win, v))
  BY DEF FocusDirection, Dead, Live
<1> QED BY <1>1, OnlyFocusStep DEF FocusDirection

LEMMA ButtonPressStep ==
    ASSUME IInv, ~fault, NEW v \in Windows, ButtonPress(v)
    PROVE  IInv'
<1>1. fault' \in BOOLEAN /\ Live(win, v)
  BY DEF ButtonPress, Mapped, Live, IInv
<1> QED BY <1>1, OnlyFocusStep DEF ButtonPress

LEMMA PointerMotionStep ==
    ASSUME IInv, ~fault, NEW u \in AnyWindow, PointerMotion(u)
    PROVE  IInv'
<1>1. PlacesOK' /\ LinksOK' /\ shown' \in SUBSET Windows /\ fault' \in BOOLEAN
  BY LinksKept DEF IInv, PlacesOK, PointerMotion
<1>2. /\ focus \in Focus /\ Activated(focus)
      /\ \A x \in Keys(focus) : Live(win, x)
      /\ ~LateMap => Remembered(focus, home')
  BY DEF IInv, FocusOK, PointerMotion
<1>3. /\ focus' = PointAt(focus, u) /\ home' \in [Windows -> Workspaces] /\ win' = win
      /\ policy' \in Policies
  BY <1>1 DEF PointerMotion, PlacesOK
<1>4. Live(win, u) /\ Live(win, NoWindow)
  BY DesktopAssumption DEF DesktopAssumption, PointerMotion, Mapped, Live
<1>6. \A x \in Keys(focus') : Live(win', x)
  BY <1>2, <1>3, <1>4, PointAtFacts
<1>7. ~LateMap => Remembered(focus', home')
  BY <1>2, <1>3, PointAtFacts
<1>8. FocusOK'
  BY <1>2, <1>3, <1>6, <1>7, PointAtFacts DEF FocusOK, Activated, Remembered, Keys
<1> QED BY <1>1, <1>8 DEF IInv

LEMMA SwitchWorkspaceStep ==
    ASSUME IInv, ~fault, NEW i, SwitchWorkspace(i)
    PROVE  IInv'
<1>1. UNCHANGED <<win, home, list, tiles, mode, policy, aborted>> /\ LinksOK'
  BY LinksKept DEF IInv, SwitchWorkspace
<1>2. CASE i \notin Workspaces
  <2>1. fault' = TRUE /\ UNCHANGED <<current, shown, focus>>
    BY <1>2 DEF SwitchWorkspace
  <2> QED BY <1>1, <2>1 DEF IInv, PlacesOK, FocusOK
<1>3. CASE i \in Workspaces
  <2> DEFINE wanted == IF focus.last[i] # NoWindow THEN focus.last[i] ELSE HeadOf(list[i])
             g  == ClearKeyboard(focus)
             f  == FocusToplevel(g, wanted)
             sh == HideListed(shown)
  <2>1. /\ current' = i
        /\ IF Dead(wanted) THEN fault' = TRUE /\ focus' = f /\ shown' = sh
                           ELSE Rearrange(f, sh)
    BY <1>3 DEF SwitchWorkspace, EnterWorkspace
  <2>2. PlacesOK' /\ home' \in [Windows -> Workspaces] /\ sh \in SUBSET Windows
    BY <1>1, <1>3, <2>1 DEF IInv, PlacesOK, HideListed
  <2>3. wanted \in AnyWindow
    BY <1>3, HeadFacts DEF IInv, FocusOK, Focus
  <2>4. /\ focus \in Focus
        /\ \A x \in Keys(focus) : Live(win', x)
    BY <1>1 DEF IInv, FocusOK
  <2>5. NoWindow \notin Windows
    BY DesktopAssumption DEF DesktopAssumption
  <2>6. /\ g \in Focus /\ Activated(g) /\ Remembered(g, home')
        /\ \A x \in Keys(g) : Live(win', x)
    BY <2>4, <2>5, ClearKeyboardFacts DEF Activated, Remembered, Keys, Live
  <2>7. Dead(wanted) <=> ~Live(win', wanted)
    BY <1>1 DEF Dead, Live
  <2> HIDE DEF wanted, g, sh
  <2>8. CASE Dead(wanted)
    <3>1. /\ focus' \in Focus /\ Activated(focus')
          /\ Remembered(focus', home')
      BY <2>1, <2>2, <2>3, <2>6, <2>8, FocusToplevelFacts
    <3>2. FocusOK'
      BY <2>1, <2>8, <3>1 DEF FocusOK, Activated, Remembered
    <3> QED BY <1>1, <2>1, <2>2, <2>8, <3>2 DEF IInv
  <2>9. CASE ~Dead(wanted)
    <3>1. /\ f \in Focus /\ Activated(f)
          /\ \A x \in Keys(f) : Live(win', x)
          /\ ~LateMap => Remembered(f, home')
      BY <2>2, <2>3, <2>6, <2>7, <2>9, FocusLive
    <3> HIDE DEF f
    <3>2. shown' \in SUBSET Windows /\ fault' \in BOOLEAN /\ FocusOK'
      BY <2>1, <2>2, <2>9, <3>1, ArrangedFocusOK
    <3> QED BY <1>1, <2>2, <3>2 DEF IInv
  <2> QED BY <2>8, <2>9
<1> QED BY <1>2, <1>3

\* The neighbour of a listed window is listed.
LEMMA NeighbourFacts ==
    ASSUME NEW s \in Seq(Windows), NEW w \in ToSet(s), NEW reverse \in BOOLEAN
    PROVE  Neighbour(s, w, reverse) \in ToSet(s)
<1> DEFINE k == CHOOSE i \in DOMAIN s : s[i] = w
<1>1. k \in DOMAIN s
  BY DEF ToSet
<1> HIDE DEF k
<1> DEFINE n == Len(s)
<1>2. n \in Nat /\ k \in 1..n /\ DOMAIN s = 1..n
  BY <1>1
<1> HIDE DEF n
<1>3. /\ 1 \in 1..n /\ n \in 1..n
      /\ (k # 1 => k - 1 \in 1..n)
      /\ (k # n => k + 1 \in 1..n)
  BY <1>2
<1>4. Neighbour(s, w, reverse) = IF reverse THEN IF k = 1 THEN s[Len(s)] ELSE s[k - 1]
                                            ELSE IF k = Len(s) THEN s[1] ELSE s[k + 1]
  BY DEF Neighbour, k
<1> QED BY <1>2, <1>3, <1>4 DEF ToSet, n

CycleStates == [focus : Focus, shown : SUBSET Windows, fault : BOOLEAN]

\* The focus invariants of the loop of cycle-monocle.
CycleOK(s) ==
    /\ s \in CycleStates
    /\ Activated(s.focus)
    /\ \A x \in Keys(s.focus) : Live(win, x)
    /\ ~LateMap => Remembered(s.focus, home')

LEMMA CycleOnceStep ==
    ASSUME IInv, UNCHANGED <<win, home, list, current>>,
           NEW s, CycleOK(s), NEW reverse \in BOOLEAN
    PROVE  CycleOK(CycleOnce(s, reverse))
<1> DEFINE last  == s.focus.last[current]
           base  == IF last = NoWindow THEN HeadOf(list[current]) ELSE last
           ws    == CHOOSE x \in Workspaces : base \in Listed(x)
           Go(f) == [s EXCEPT !.focus = f, !.shown = ArrangeMonocle(f, s.shown)]
           fails == \/ s.fault
                    \/ base = NoWindow
                    \/ Dead(base)
                    \/ base \in Mapped /\ StepsOffList(ws, base, reverse)
           n     == Neighbour(list[ws], base, reverse)
<1>1. CycleOnce(s, reverse) =
        IF fails THEN [s EXCEPT !.fault = TRUE]
        ELSE IF base \in Mapped THEN Go(FocusToplevel(s.focus, n)) ELSE Go(s.focus)
  BY DEF CycleOnce
<1>2. s \in CycleStates /\ s.focus \in Focus /\ s.shown \in SUBSET Windows /\ s.fault \in BOOLEAN
  BY DEF CycleOK, CycleStates
<1>3. home' \in [Windows -> Workspaces] /\ list' = list /\ current' = current
  BY DEF IInv, PlacesOK
<1>4. CASE fails
  <2>1. CycleOnce(s, reverse) = [s EXCEPT !.fault = TRUE]
    BY <1>1, <1>4
  <2> HIDE DEF fails
  <2> QED BY <1>2, <2>1 DEF CycleOK, CycleStates
<1>5. ASSUME NEW f \in Focus, Activated(f),
             \A x \in Keys(f) : Live(win, x),
             ~LateMap => Remembered(f, home')
      PROVE  CycleOK(Go(f))
  <2>1. ArrangeMonocle(f, s.shown) \subseteq Windows
    BY <1>2 DEF ArrangeMonocle, Mapped
  <2>2. /\ Go(f) \in CycleStates
        /\ Go(f).focus = f
    BY <1>2, <2>1 DEF CycleStates
  <2> HIDE DEF Go
  <2> QED BY <1>5, <2>2 DEF CycleOK
<1>6. CASE ~fails /\ base \notin Mapped
  <2>1. CycleOnce(s, reverse) = Go(s.focus)
    BY <1>1, <1>6
  <2>2. CycleOK(Go(s.focus))
    <3> HIDE DEF Go, fails
    <3> QED BY <1>2, <1>5 DEF CycleOK
  <2> QED BY <2>1, <2>2
<1>7. CASE ~fails /\ base \in Mapped
  <2>1. CycleOnce(s, reverse) = Go(FocusToplevel(s.focus, n))
    BY <1>1, <1>7
  <2> HIDE DEF fails, base
  <2>2. /\ \A x \in Mapped : \E y \in Workspaces : x \in Listed(y)
        /\ \A y \in Workspaces : Listed(y) \subseteq Mapped /\ list[y] \in Seq(Windows)
    BY DEF IInv, LinksOK, LinkedOnce, PlacesOK
  <2>3. ws \in Workspaces /\ base \in Listed(ws)
    BY <1>7, <2>2
  <2> HIDE DEF ws
  <2>4. n \in Listed(ws)
    BY <2>2, <2>3, NeighbourFacts DEF Listed
  <2>5. n \in AnyWindow /\ Live(win, n)
    BY <2>2, <2>3, <2>4 DEF Mapped, AnyWindow, Live
  <2> HIDE DEF n, Go
  <2>6. CycleOK(Go(FocusToplevel(s.focus, n)))
    <3> DEFINE f == FocusToplevel(s.focus, n)
    <3>1. /\ f \in Focus /\ Activated(f) /\ f.hovered = s.focus.hovered
          /\ Keys(f) \subseteq Keys(s.focus) \cup {n}
          /\ ~LateMap => Remembered(f, home')
      BY <1>2, <1>3, <2>5, FocusToplevelFacts DEF CycleOK
    <3> HIDE DEF f
    <3>2. \A x \in Keys(f) : Live(win, x)
      BY <2>5, <3>1 DEF CycleOK
    <3> QED BY <1>5, <3>1, <3>2 DEF f
  <2> QED BY <2>1, <2>6
<1> QED BY <1>4, <1>6, <1>7

LEMMA CycleMonocleStep ==
    ASSUME IInv, ~fault, NEW reverse \in BOOLEAN, CycleMonocle(reverse)
    PROVE  IInv'
<1> DEFINE s0 == [focus |-> focus, shown |-> shown, fault |-> FALSE]
           s1 == CycleOnce(s0, reverse)
           s2 == CycleOnce(s1, reverse)
<1>1. UNCHANGED <<win, home, list, tiles, current, mode, policy, aborted>>
  BY DEF CycleMonocle
<1>2. CycleOK(s0)
  <2>1. s0 \in CycleStates /\ s0.focus = focus
    BY DEF CycleStates, IInv, FocusOK
  <2> HIDE DEF s0
  <2> QED BY <1>1, <2>1 DEF CycleOK, IInv, FocusOK
<1> HIDE DEF s0
<1>3. CycleOK(s1)
  BY <1>1, <1>2, CycleOnceStep
<1> HIDE DEF s1
<1>4. CycleOK(s2)
  BY <1>1, <1>3, CycleOnceStep
<1> HIDE DEF s2
<1>5. PICK s \in {s0, s1, s2} : focus' = s.focus /\ shown' = s.shown /\ fault' = s.fault
  <2>1. Outputs \in {0, 1, 2}
    BY DesktopAssumption DEF DesktopAssumption
  <2>2. Cycled(reverse) \in {s0, s1, s2}
    BY <2>1 DEF Cycled, s2, s1, s0
  <2> QED BY <2>2 DEF CycleMonocle
<1>6. CycleOK(s)
  BY <1>2, <1>3, <1>4
<1>7. focus' \in Focus /\ shown' \in SUBSET Windows /\ fault' \in BOOLEAN
  BY <1>5, <1>6 DEF CycleOK, CycleStates
<1>8. FocusOK'
  BY <1>1, <1>5, <1>6, <1>7 DEF FocusOK, CycleOK
<1>9. PlacesOK' /\ LinksOK'
  BY <1>1, LinksKept DEF IInv, PlacesOK
<1> QED BY <1>7, <1>8, <1>9 DEF IInv

\* Where window-to-workspace leaves a mapped window c: it is linked in t only
\* and has a tile there, and its home and a workspace that it emptied lose
\* their tiles.
LEMMA SentPlaces ==
    ASSUME IInv, NEW t, WindowToWorkspace(t), SendTo(t, LastHere), LastHere \in Mapped
    PROVE  LET c    == LastHere
               left == Unlink(list[current], c)
           IN  /\ c \in Windows /\ win[c] = "mapped" /\ home[c] \in Workspaces
               /\ current \in Workspaces /\ t \in Workspaces /\ t # current
               /\ left \in Seq(Windows) /\ ToSet(left) = Listed(current) \ {c}
               /\ left = << >> => Listed(current) \subseteq {c}
               /\ tiles' \in [Workspaces -> SUBSET Windows]
               /\ \A ws \in Workspaces :
                    /\ list'[ws] \in Seq(Windows)
                    /\ IsInjective(list'[ws])
                    /\ Listed(ws)' = IF ws = t THEN Listed(ws) \cup {c} ELSE Listed(ws) \ {c}
                    /\ tiles'[ws] =
                         IF ws = t THEN (IF ws = home[c] THEN tiles[ws] \ {c} ELSE tiles[ws]) \cup {c}
                         ELSE IF ws = current /\ left = << >> THEN {}
                         ELSE IF ws = home[c] THEN tiles[ws] \ {c} ELSE tiles[ws]
<1> DEFINE c       == LastHere
           left    == Unlink(list[current], c)
           evicted == Evict(tiles, c)
           reset   == ResetIfEmptied(evicted, left)
<1>1. /\ list' = [ws \in Workspaces |->
                    IF ws = t THEN Cons(c, Unlink(list[ws], c)) ELSE Unlink(list[ws], c)]
      /\ tiles' = [reset EXCEPT ![t] = reset[t] \cup {c}]
  BY DEF SendTo
<1>2. /\ c \in Windows /\ win[c] = "mapped" /\ home[c] \in Workspaces
      /\ current \in Workspaces /\ t \in Workspaces /\ t # current
  BY DEF WindowToWorkspace, Mapped, IInv, PlacesOK
<1>3. left \in Seq(Windows) /\ ToSet(left) = Listed(current) \ {c}
  BY <1>2, UnlinkedLists
<1>4. left = << >> => Listed(current) \subseteq {c}
  <2>1. ToSet(<< >>) = {}
    BY DEF ToSet
  <2> QED BY <1>3, <2>1
<1> HIDE DEF c, left
<1>5. \A ws \in Workspaces :
        /\ Unlink(list[ws], c) \in Seq(Windows)
        /\ IsInjective(Unlink(list[ws], c))
        /\ ToSet(Unlink(list[ws], c)) = Listed(ws) \ {c}
  BY UnlinkedLists
<1>6. /\ Cons(c, Unlink(list[t], c)) \in Seq(Windows)
      /\ IsInjective(Cons(c, Unlink(list[t], c)))
      /\ ToSet(Cons(c, Unlink(list[t], c))) = Listed(t) \cup {c}
  <2>1. c \notin ToSet(Unlink(list[t], c))
    BY <1>2, <1>5
  <2> QED BY <1>2, <1>5, <2>1, ConsFacts
<1>7. \A ws \in Workspaces :
        /\ list'[ws] \in Seq(Windows)
        /\ IsInjective(list'[ws])
        /\ Listed(ws)' = IF ws = t THEN Listed(ws) \cup {c} ELSE Listed(ws) \ {c}
  BY <1>1, <1>5, <1>6 DEF Listed
<1>8. \A ws \in Workspaces :
        tiles'[ws] =
          IF ws = t THEN (IF ws = home[c] THEN tiles[ws] \ {c} ELSE tiles[ws]) \cup {c}
          ELSE IF ws = current /\ left = << >> THEN {}
          ELSE IF ws = home[c] THEN tiles[ws] \ {c} ELSE tiles[ws]
  <2>1. tiles \in [Workspaces -> SUBSET Windows]
    BY DEF IInv, PlacesOK
  <2>2. evicted \in [Workspaces -> SUBSET Windows]
        /\ \A ws \in Workspaces : evicted[ws] = IF ws = home[c] THEN tiles[ws] \ {c} ELSE tiles[ws]
    BY <1>2, <2>1 DEF Evict
  <2> HIDE DEF evicted
  <2>3. reset \in [Workspaces -> SUBSET Windows]
        /\ \A ws \in Workspaces :
             reset[ws] = IF ws = current /\ left = << >> THEN {} ELSE evicted[ws]
    BY <1>2, <2>2 DEF ResetIfEmptied
  <2> HIDE DEF reset
  <2> QED BY <1>1, <1>2, <2>2, <2>3
<1>9. tiles' \in [Workspaces -> SUBSET Windows]
  <2>1. reset \in [Workspaces -> SUBSET Windows]
    BY <1>2 DEF IInv, PlacesOK, Evict, ResetIfEmptied
  <2> HIDE DEF reset
  <2> QED BY <1>1, <1>2, <2>1
<1> QED BY <1>2, <1>3, <1>4, <1>7, <1>8, <1>9 DEF c, left

LEMMA WindowToWorkspaceStep ==
    ASSUME IInv, ~fault, NEW t, WindowToWorkspace(t)
    PROVE  IInv'
<1> DEFINE c       == LastHere
           left    == Unlink(list[current], c)
           next    == IF left = << >> THEN c ELSE left[1]
           f       == [focus EXCEPT !.last = [focus.last EXCEPT ![current] = next, ![t] = c]]
           sh      == shown \ {c}
<1>1. c # NoWindow /\ t \in Workspaces \ {current}
  BY DEF WindowToWorkspace
<1>2. CASE c \notin Mapped
  <2>1. /\ fault' = TRUE
        /\ UNCHANGED <<win, home, list, tiles, current, mode, policy, shown, focus, aborted>>
    BY <1>2 DEF WindowToWorkspace
  <2> QED BY <2>1, LinksKept DEF IInv, PlacesOK, FocusOK
<1>4. CASE FreesRoot(c)
  BY <1>4, FreesRootStep
<1>3. CASE c \in Mapped /\ SendTo(t, c)
  <2>1. /\ home' = [home EXCEPT ![c] = t]
        /\ list' = [ws \in Workspaces |->
                      IF ws = t THEN Cons(c, Unlink(list[ws], c)) ELSE Unlink(list[ws], c)]
        /\ UNCHANGED <<win, current, mode, policy, aborted>>
        /\ Rearrange(FocusToplevel(f, next), sh)
    BY <1>3 DEF SendTo
  <2>2. /\ c \in Windows /\ win[c] = "mapped" /\ current \in Workspaces /\ t \in Workspaces
        /\ t # current /\ home[c] \in Workspaces /\ c \in AnyWindow
    BY <1>1, <1>3 DEF Mapped, IInv, PlacesOK, AnyWindow
  <2>3. left \in Seq(Windows) /\ ToSet(left) = Listed(current) \ {c}
    BY <2>2, UnlinkedLists
  <2>4. next \in Windows /\ win[next] = "mapped"
        /\ (left # << >> => next \in Listed(current) \ {c})
    <3>1. CASE left = << >>
      BY <2>2, <3>1
    <3>2. CASE left # << >>
      <4>1. left[1] \in ToSet(left)
        BY <2>3, <3>2 DEF ToSet
      <4>2. Listed(current) \subseteq Mapped
        BY <2>2, HeadFacts
      <4> QED BY <2>3, <3>2, <4>1, <4>2 DEF Mapped
    <3> QED BY <3>1, <3>2
  <2> HIDE DEF c, left, next
  <2>5. /\ left = << >> => Listed(current) \subseteq {c}
        /\ tiles' \in [Workspaces -> SUBSET Windows]
    BY <1>3, SentPlaces DEF c, left
  <2>8. \A ws \in Workspaces :
          /\ list'[ws] \in Seq(Windows)
          /\ IsInjective(list'[ws])
          /\ Listed(ws)' = IF ws = t THEN Listed(ws) \cup {c} ELSE Listed(ws) \ {c}
    BY <1>3, SentPlaces DEF c
  <2>9. \A ws \in Workspaces :
          tiles'[ws] =
            IF ws = t THEN (IF ws = home[c] THEN tiles[ws] \ {c} ELSE tiles[ws]) \cup {c}
            ELSE IF ws = current /\ left = << >> THEN {}
            ELSE IF ws = home[c] THEN tiles[ws] \ {c} ELSE tiles[ws]
    BY <1>3, SentPlaces DEF c, left
  <2>10. PlacesOK'
    <3>1. home' \in [Windows -> Workspaces]
      BY <2>1, <2>2 DEF IInv, PlacesOK
    <3>2. list' \in [Workspaces -> Seq(Windows)]
      BY <2>1, <2>8
    <3> QED BY <2>1, <2>5, <3>1, <3>2 DEF IInv, PlacesOK
  <2>11. Mapped' = Mapped
    BY <2>1 DEF Mapped
  <2>12. LinkedOnce'
    <3>1. \A ws1, ws2 \in Workspaces : ws1 # ws2 => Listed(ws1) \cap Listed(ws2) = {}
      BY DEF IInv, LinksOK, LinkedOnce
    <3>2. \A x \in Mapped : \E ws \in Workspaces : x \in Listed(ws)
      BY DEF IInv, LinksOK, LinkedOnce
    <3>3. \A ws \in Workspaces : Listed(ws) \subseteq Mapped
      BY DEF IInv, LinksOK, LinkedOnce
    <3>4. \A ws1, ws2 \in Workspaces : ws1 # ws2 => Listed(ws1)' \cap Listed(ws2)' = {}
      BY <2>8, <3>1
    <3>5. \A x \in Mapped' : \E ws \in Workspaces : x \in Listed(ws)'
      BY <2>2, <2>8, <2>11, <3>2
    <3>6. \A ws \in Workspaces : Listed(ws)' \subseteq Mapped'
      BY <1>3, <2>8, <2>11, <3>3
    <3> QED BY <2>8, <3>4, <3>5, <3>6 DEF LinkedOnce
  <2>13. ListedTiled'
    <3>1. \A ws \in Workspaces : Listed(ws) \subseteq tiles[ws]
      BY DEF IInv, LinksOK, ListedTiled
    <3>2. ASSUME NEW ws \in Workspaces PROVE Listed(ws)' \subseteq tiles'[ws]
      <4>1. CASE ws = t
        BY <2>8, <2>9, <3>1, <4>1
      <4>2. CASE ws = current /\ left = << >>
        BY <2>2, <2>5, <2>8, <4>2
      <4>3. CASE ws # t /\ ~(ws = current /\ left = << >>)
        BY <2>8, <2>9, <3>1, <4>3
      <4> QED BY <4>1, <4>2, <4>3
    <3> QED BY <3>2 DEF ListedTiled
  <2>14. ASSUME ~LateMap PROVE TilesLiveAtHome'
    <3>1. \A ws \in Workspaces : \A w \in tiles[ws] : w \in Windows /\ ~Dead(w) /\ home[w] = ws
      BY <2>14 DEF IInv, LinksOK, PlacesOK, TilesLiveAtHome
    <3>2. \A w \in Windows : w # c => home'[w] = home[w]
      BY <2>1 DEF IInv, PlacesOK
    <3>3. home'[c] = t /\ ~Dead(c)
      BY <2>1, <2>2 DEF IInv, PlacesOK, Dead
    <3>4. \A w : Dead(w)' <=> Dead(w)
      BY <2>1 DEF Dead
    <3>5. ASSUME NEW ws \in Workspaces, NEW w \in tiles'[ws]
          PROVE  (w = c /\ ws = t) \/ (w # c /\ w \in tiles[ws])
      <4>1. CASE ws = t
        <5>1. w = c \/ w \in tiles[ws]
          BY <2>9, <4>1
        <5> QED BY <4>1, <5>1
      <4>2. CASE ws # t
        <5>1. w \in tiles[ws] /\ (ws = home[c] => w # c)
          BY <2>9, <4>2
        <5> QED BY <3>1, <5>1
      <4> QED BY <4>1, <4>2
    <3> QED BY <3>1, <3>2, <3>3, <3>4, <3>5 DEF TilesLiveAtHome
  <2>15. /\ f \in Focus /\ f.kb = focus.kb /\ f.active = focus.active
         /\ f.hovered = focus.hovered
         /\ f.last[current] = next /\ f.last[t] = c
         /\ \A ws \in Workspaces \ {current, t} : f.last[ws] = focus.last[ws]
    <3> DEFINE rem == [focus.last EXCEPT ![current] = next, ![t] = c]
    <3>1. focus \in Focus
      BY DEF IInv, FocusOK
    <3>2. /\ rem \in [Workspaces -> AnyWindow]
          /\ rem[current] = next /\ rem[t] = c
          /\ \A ws \in Workspaces \ {current, t} : rem[ws] = focus.last[ws]
      BY <2>2, <2>4, <3>1 DEF Focus, AnyWindow
    <3>3. f = [focus EXCEPT !.last = rem]
      OBVIOUS
    <3> HIDE DEF rem, f
    <3> QED BY <3>1, <3>2, <3>3 DEF Focus
  <2> HIDE DEF f
  <2>16. ASSUME ~LateMap PROVE Remembered(FocusToplevel(f, next), home')
    <3>1. next # NoWindow /\ next \in AnyWindow /\ home' \in [Windows -> Workspaces]
      BY <2>4, <2>10, DesktopAssumption DEF DesktopAssumption, PlacesOK, AnyWindow
    <3>2. CASE next # f.kb
      <4> DEFINE g == FocusToplevel(f, next)
      <4>1. g.kb = next /\ g.last = [f.last EXCEPT ![home'[next]] = next]
        BY <2>15, <3>1, <3>2 DEF FocusToplevel, Focus
      <4>2. home'[next] \in Workspaces /\ f.last \in [Workspaces -> AnyWindow]
        BY <2>4, <2>15, <3>1 DEF Focus
      <4> HIDE DEF g
      <4>3. g.last[home'[g.kb]] = g.kb
        BY <4>1, <4>2
      <4> QED BY <4>3 DEF Remembered, g
    <3>3. CASE next = f.kb
      <4>1. FocusToplevel(f, next) = f
        BY <3>3 DEF FocusToplevel
      <4>2. CASE left = << >>
        <5>1. next = c /\ home'[next] = t
          BY <2>1, <2>2, <4>2 DEF next, IInv, PlacesOK
        <5> QED BY <2>15, <3>3, <4>1, <5>1 DEF Remembered
      <4>3. CASE left # << >>
        <5>1. next # c /\ next \in tiles[current]
          BY <2>2, <2>4, <4>3 DEF IInv, LinksOK, ListedTiled
        <5>2. home[next] = current
          BY <2>2, <2>16, <5>1 DEF IInv, LinksOK, TilesLiveAtHome
        <5>3. home'[next] = current
          BY <2>1, <2>4, <5>1, <5>2 DEF IInv, PlacesOK
        <5> QED BY <2>15, <3>3, <4>1, <5>3 DEF Remembered
      <4> QED BY <4>2, <4>3
    <3> QED BY <3>2, <3>3
  <2>17. shown' \in SUBSET Windows /\ fault' \in BOOLEAN /\ FocusOK'
    <3> DEFINE g == FocusToplevel(f, next)
    <3>1. home' \in [Windows -> Workspaces] /\ next \in AnyWindow /\ Live(win, next)
      BY <2>4, <2>10 DEF PlacesOK, AnyWindow, Live
    <3>2. Activated(f) /\ \A x \in Keys(f) : Live(win, x)
      BY <2>15 DEF IInv, FocusOK, Activated, Keys
    <3>3. g \in Focus /\ Activated(g) /\ Keys(g) \subseteq Keys(f) \cup {next}
      BY <2>15, <3>1, <3>2, FocusToplevelFacts
    <3>4. \A x \in Keys(g) : Live(win', x)
      BY <2>1, <3>1, <3>2, <3>3
    <3>5. sh \in SUBSET Windows /\ Rearrange(g, sh)
      BY <2>1 DEF IInv
    <3>6. ~LateMap => Remembered(g, home')
      BY <2>16
    <3> HIDE DEF g, sh
    <3> QED BY <2>10, <3>3, <3>4, <3>5, <3>6, ArrangedFocusOK
  <2> QED BY <2>10, <2>12, <2>13, <2>14, <2>17 DEF IInv, LinksOK
<1> QED BY <1>2, <1>3, <1>4 DEF WindowToWorkspace
----------------------------------------------------------------------------
(* Theorems *)

LEMMA NextIInv == IInv /\ [Next]_vars => IInv'
<1> SUFFICES ASSUME IInv, [Next]_vars PROVE IInv'
  OBVIOUS
<1>1. CASE UNCHANGED vars
  <2>1. PlacesOK' /\ LinksOK' /\ shown' \in SUBSET Windows /\ fault' \in BOOLEAN
    BY <1>1, LinksKept DEF vars, IInv, PlacesOK
  <2>2. FocusOK'
    BY <1>1 DEF vars, IInv, FocusOK
  <2> QED BY <2>1, <2>2 DEF IInv
<1>2. CASE Next
  <2>1. ~fault
    BY <1>2 DEF Next
  <2>2. CASE \E w \in Windows : NewToplevel(w) \/ Map(w) \/ Unmap(w) \/ Destroy(w)
    BY <2>1, <2>2, NewToplevelStep, MapStep, UnmapStep, DestroyStep, FreesRootStep
  <2>3. CASE CloseActive
    BY <2>1, <2>3, CloseActiveStep
  <2>4. CASE \E v \in Windows : FocusDirection(v) \/ MoveDirection(v)
    BY <2>1, <2>4, FocusDirectionStep, MoveOrLayoutStep
  <2>5. CASE \E i \in SwitchTargets : SwitchWorkspace(i)
    BY <2>1, <2>5, SwitchWorkspaceStep
  <2>6. CASE \E t \in SendTargets : WindowToWorkspace(t)
    BY <2>1, <2>6, WindowToWorkspaceStep
  <2>7. CASE ToggleMonocle
    BY <2>1, <2>7, ToggleMonocleStep
  <2>8. CASE \E reverse \in BOOLEAN : CycleMonocle(reverse)
    BY <2>1, <2>8, CycleMonocleStep
  <2>9. CASE \E u \in AnyWindow : PointerMotion(u)
    BY <2>1, <2>9, PointerMotionStep
  <2>10. CASE \E v \in Windows : ButtonPress(v)
    BY <2>1, <2>10, ButtonPressStep
  <2>11. CASE OutputLayoutChanged
    BY <2>1, <2>11, MoveOrLayoutStep
  <2>12. CASE \E p \in Policies : Reload(p)
    BY <2>1, <2>12, ReloadStep
  <2> QED
    BY <1>2, <2>2, <2>3, <2>4, <2>5, <2>6, <2>7, <2>8, <2>9, <2>10, <2>11, <2>12 DEF Next
<1> QED BY <1>1, <1>2

\* The inductive invariant holds in every reachable state.
THEOREM Inductive == Spec => []IInv
<1> QED BY InitIInv, NextIInv, PTL DEF Spec

\* Type correctness of the desktop.
THEOREM TypeCorrect == Spec => []TypeOK
<1> QED BY Inductive, IInvImplies, PTL

\* A window is linked in exactly one list while it is mapped and in none
\* otherwise, for any number of windows and workspaces and whatever the
\* bindings, the modes and the moment of mapping.
THEOREM AlwaysLinkedOnce == Spec => []LinkedOnce
<1> QED BY Inductive, IInvImplies, PTL

\* Every listed window owns a tile of its workspace, again without any
\* assumption on when windows are mapped.
THEOREM AlwaysListedTiled == Spec => []ListedTiled
<1> QED BY Inductive, IInvImplies, PTL

\* The window with the keyboard was told that it is activated.
THEOREM KeyboardAlwaysActivated == Spec => []KeyboardIsActivated
<1> QED BY Inductive, IInvImplies, PTL

\* Until something else goes wrong, the window with the keyboard and those that
\* were told they are activated are not freed, also when a reload changes what
\* moves the focus.
THEOREM FocusAlwaysLive == Spec => []FocusIsLive
<1> QED BY Inductive, IInvImplies, PTL

\* If windows are only mapped while their home is on display, every tile
\* belongs to a live window at home in its workspace ...
THEOREM TilesStayHome == ~LateMap /\ Spec => []TilesLiveAtHome
<1> SUFFICES ASSUME ~LateMap PROVE Spec => []TilesLiveAtHome
  OBVIOUS
<1>1. IInv => TilesLiveAtHome
  BY IInvImplies
<1> QED BY <1>1, Inductive, PTL

\* ... and the window with the keyboard is the one its workspace remembers.
THEOREM KeyboardAlwaysRemembered == ~LateMap /\ Spec => []KeyboardIsRemembered
<1> SUFFICES ASSUME ~LateMap PROVE Spec => []KeyboardIsRemembered
  OBVIOUS
<1>1. IInv => KeyboardIsRemembered
  BY IInvImplies
<1> QED BY <1>1, Inductive, PTL
----------------------------------------------------------------------------
(* Each workspace behaves as a TileSet. *)

\* What a step does to the tiles and the list of a workspace, as a step of
\* its TileSet.
TileStep(ws) == [Tiles(ws)!Next]_<<tiles[ws], Listed(ws)>>

LEMMA NothingMoves ==
    ASSUME NEW ws \in Workspaces, UNCHANGED <<list, tiles>>
    PROVE  TileStep(ws)
BY DEF TileStep, Listed

LEMMA MapTiles ==
    ASSUME IInv, NEW w \in Windows, Map(w), NEW ws \in Workspaces
    PROVE  TileStep(ws)
<1>1. /\ w \notin Mapped /\ current \in Workspaces
      /\ list' = [list EXCEPT ![current] = Cons(w, list[current])]
      /\ tiles' = [tiles EXCEPT ![current] = tiles[current] \cup {w}]
      /\ list \in [Workspaces -> Seq(Windows)] /\ tiles \in [Workspaces -> SUBSET Windows]
  BY DEF IInv, PlacesOK, Map, Mapped
<1>2. CASE ws = current
  <2>1. w \notin Listed(ws)
    BY <1>1 DEF IInv, LinksOK, LinkedOnce
  <2>2. ToSet(Cons(w, list[ws])) = Listed(ws) \cup {w}
    BY <1>1, ConsFacts DEF Listed
  <2>3. Listed(ws)' = Listed(ws) \cup {w} /\ tiles'[ws] = tiles[ws] \cup {w}
    BY <1>1, <1>2, <2>2 DEF Listed
  <2>4. Tiles(ws)!Host(w)
    BY <2>1, <2>3 DEF Tiles!Host
  <2> QED BY <2>4 DEF TileStep, Tiles!Next
<1>3. CASE ws # current
  BY <1>1, <1>3 DEF TileStep, Listed
<1> QED BY <1>2, <1>3

LEMMA UnmapTiles ==
    ASSUME IInv, NEW w \in Windows, Unmap(w), NEW ws \in Workspaces
    PROVE  TileStep(ws)
<1>1. Listed(ws)' = Listed(ws) \ {w} /\ tiles'[ws] = tiles[ws]
  BY UnlinkedLists DEF Unmap, Listed
<1>2. CASE w \in Listed(ws)
  <2>1. Tiles(ws)!Delist(w)
    BY <1>1, <1>2 DEF Tiles!Delist
  <2> QED BY <2>1 DEF TileStep, Tiles!Next
<1>3. CASE w \notin Listed(ws)
  BY <1>1, <1>3 DEF TileStep
<1> QED BY <1>2, <1>3

LEMMA DestroyTiles ==
    ASSUME IInv, NEW w \in Windows, Destroy(w), ~FreesRoot(w), NEW ws \in Workspaces
    PROVE  TileStep(ws)
<1>1. /\ w \notin Listed(ws) /\ Listed(ws)' = Listed(ws)
      /\ tiles'[ws] = IF ws = home[w] THEN tiles[ws] \ {w} ELSE tiles[ws]
  <2>1. win[w] # "mapped" /\ tiles' = Evict(tiles, w) /\ list' = list
    BY DEF Destroy
  <2>2. w \notin Mapped /\ tiles \in [Workspaces -> SUBSET Windows] /\ home[w] \in Workspaces
    BY <2>1 DEF IInv, PlacesOK, Mapped
  <2>3. w \notin Listed(ws) /\ Listed(ws)' = Listed(ws)
    BY <2>1, <2>2 DEF IInv, LinksOK, LinkedOnce, Listed
  <2> QED BY <2>1, <2>2, <2>3 DEF Evict
<1>2. CASE ws = home[w]
  <2>1. Tiles(ws)!Evict(w)
    BY <1>1, <1>2 DEF Tiles!Evict
  <2> QED BY <2>1 DEF TileStep, Tiles!Next
<1>3. CASE ws # home[w]
  BY <1>1, <1>3 DEF TileStep
<1> QED BY <1>2, <1>3

\* The window enters t, leaves the workspace where it was listed and takes
\* its tile from its home, or all tiles go from a workspace that it emptied.
LEMMA SendTiles ==
    ASSUME IInv, NEW t, WindowToWorkspace(t), NEW ws \in Workspaces
    PROVE  TileStep(ws)
<1> DEFINE c    == LastHere
           left == Unlink(list[current], c)
<1>1. CASE c \notin Mapped \/ FreesRoot(c)
  BY <1>1, NothingMoves DEF WindowToWorkspace, FreesRoot
<1>2. CASE c \in Mapped /\ SendTo(t, c)
  <2>1. /\ c \in Windows
        /\ left = << >> => Listed(current) \subseteq {c}
        /\ Listed(ws)' = IF ws = t THEN Listed(ws) \cup {c} ELSE Listed(ws) \ {c}
        /\ tiles'[ws] =
             IF ws = t THEN (IF ws = home[c] THEN tiles[ws] \ {c} ELSE tiles[ws]) \cup {c}
             ELSE IF ws = current /\ left = << >> THEN {}
             ELSE IF ws = home[c] THEN tiles[ws] \ {c} ELSE tiles[ws]
    BY <1>2, SentPlaces
  <2>2. Listed(ws) \subseteq tiles[ws] /\ Listed(ws) \subseteq Windows
    BY DEF IInv, LinksOK, LinkedOnce, ListedTiled, Mapped
  <2> HIDE DEF c, left
  <2>3. CASE ws = t
    <3>1. Listed(ws)' = Listed(ws) \cup {c} /\ tiles'[ws] = tiles[ws] \cup {c}
      BY <2>1, <2>3
    <3>2. CASE c \in Listed(ws)
      BY <2>2, <3>1, <3>2 DEF TileStep
    <3>3. CASE c \notin Listed(ws)
      <4>1. Tiles(ws)!Host(c)
        BY <3>1, <3>3 DEF Tiles!Host
      <4> QED BY <2>1, <4>1 DEF TileStep, Tiles!Next
    <3> QED BY <3>2, <3>3
  <2>4. CASE ws # t /\ ws = current /\ left = << >>
    <3>1. Listed(ws) \subseteq {c} /\ Listed(ws)' = {} /\ tiles'[ws] = {}
      BY <2>1, <2>4
    <3>2. Listed(ws) = {} \/ \E w \in Windows : Listed(ws) = {w}
      BY <2>1, <3>1
    <3>3. Tiles(ws)!Reset
      BY <3>1, <3>2 DEF Tiles!Reset
    <3> QED BY <3>3 DEF TileStep, Tiles!Next
  <2>5. CASE ws # t /\ ~(ws = current /\ left = << >>)
    <3>1. /\ Listed(ws)' = Listed(ws) \ {c}
          /\ tiles'[ws] = IF ws = home[c] THEN tiles[ws] \ {c} ELSE tiles[ws]
      BY <2>1, <2>5
    <3>2. CASE c \in Listed(ws) /\ ws = home[c]
      <4>1. Tiles(ws)!Leave(c)
        BY <3>1, <3>2 DEF Tiles!Leave
      <4> QED BY <2>1, <4>1 DEF TileStep, Tiles!Next
    <3>3. CASE c \in Listed(ws) /\ ws # home[c]
      <4>1. Tiles(ws)!Delist(c)
        BY <3>1, <3>3 DEF Tiles!Delist
      <4> QED BY <2>1, <4>1 DEF TileStep, Tiles!Next
    <3>4. CASE c \notin Listed(ws) /\ ws = home[c]
      <4>1. Tiles(ws)!Evict(c)
        BY <3>1, <3>4 DEF Tiles!Evict
      <4> QED BY <2>1, <4>1 DEF TileStep, Tiles!Next
    <3>5. CASE c \notin Listed(ws) /\ ws # home[c]
      BY <3>1, <3>5 DEF TileStep
    <3> QED BY <3>2, <3>3, <3>4, <3>5
  <2> QED BY <2>3, <2>4, <2>5
<1> QED BY <1>1, <1>2 DEF WindowToWorkspace

LEMMA NextTiles ==
    ASSUME IInv, [Next]_vars, NEW ws \in Workspaces
    PROVE  TileStep(ws)
<1>1. CASE UNCHANGED <<list, tiles>>
  BY <1>1, NothingMoves
<1>2. ASSUME Next, ~UNCHANGED <<list, tiles>> PROVE TileStep(ws)
  <2>1. \/ \E w \in Windows : Map(w) \/ Unmap(w) \/ Destroy(w)
        \/ \E t \in SendTargets : WindowToWorkspace(t)
    BY <1>2 DEF Next, NewToplevel, CloseActive, FocusDirection, MoveDirection,
                SwitchWorkspace, ToggleMonocle, CycleMonocle, PointerMotion, ButtonPress,
                OutputLayoutChanged, Reload
  <2>2. \A w : ~FreesRoot(w)
    BY <1>2 DEF FreesRoot
  <2> QED BY <2>1, <2>2, MapTiles, UnmapTiles, DestroyTiles, SendTiles
<1> QED BY <1>1, <1>2 DEF vars

\* Desktop implements TileSet once per workspace: every handler is, for every
\* workspace, a step of its TileSet or none (src/workspace.c, src/config.c).
THEOREM EveryWorkspaceIsATileSet == Spec => ImplementsTileSets
<1>1. Init => \A ws \in Workspaces : Tiles(ws)!Init
  <2>1. ToSet(<< >>) = {}
    BY DEF ToSet
  <2> QED BY <2>1 DEF Init, Tiles!Init, Listed
<1> DEFINE A == \A ws \in Workspaces : [Tiles(ws)!Next]_<<tiles[ws], Listed(ws)>>
<1>2. IInv /\ [Next]_vars => A
  BY NextTiles DEF TileStep
<1> HIDE DEF A
<1>3. Spec => [][A]_vars
  BY <1>2, Inductive, PTL DEF Spec
<1>4. Spec => \A ws \in Workspaces : Tiles(ws)!Init
  BY <1>1 DEF Spec
<1> QED BY <1>3, <1>4 DEF ImplementsTileSets, A
----------------------------------------------------------------------------
(* The round of cycle-monocle. *)
\* Each window of a list is followed by its neighbour, in both directions.
LEMMA NeighbourFollows ==
    ASSUME NEW s \in Seq(Windows), NEW w \in ToSet(s), NEW reverse \in BOOLEAN
    PROVE  IF reverse THEN Successor(s, Neighbour(s, w, reverse), w)
                      ELSE Successor(s, w, Neighbour(s, w, reverse))
<1> DEFINE k == CHOOSE i \in DOMAIN s : s[i] = w
           n == Len(s)
<1>1. k \in DOMAIN s /\ s[k] = w
  BY DEF ToSet
<1>2. Neighbour(s, w, reverse) = IF reverse THEN IF k = 1 THEN s[n] ELSE s[k - 1]
                                           ELSE IF k = n THEN s[1] ELSE s[k + 1]
  BY DEF Neighbour
<1> HIDE DEF k
<1>3. n \in Nat /\ k \in 1..n /\ DOMAIN s = 1..n
  BY <1>1
<1> HIDE DEF n
<1>4. (n % n) + 1 = 1
  BY <1>3
<1>5. \A i \in 1..n : i < n => (i % n) + 1 = i + 1
  BY <1>3
<1>6. /\ Successor(s, s[n], s[1])
      /\ \A i \in 1..n : i < n => Successor(s, s[i], s[i + 1])
  <2>1. n \in 1..n
    BY <1>3
  <2>2. s[n] = s[n] /\ s[(n % n) + 1] = s[1]
    BY <1>4
  <2>3. \A i \in 1..n : i < n => s[(i % n) + 1] = s[i + 1]
    BY <1>5
  <2> QED BY <1>3, <2>1, <2>2, <2>3 DEF Successor, n
<1> QED BY <1>1, <1>2, <1>3, <1>6

\* One round from a listed window passes the focus to its neighbour.
LEMMA CycleOnceNext ==
    ASSUME IInv, ~LateMap, home' = home, NEW reverse \in BOOLEAN, LastHere \in Listed(current)
    PROVE  LET s0 == [focus |-> focus, shown |-> shown, fault |-> FALSE]
           IN  CycleOnce(s0, reverse).focus.last[current]
                 = Neighbour(list[current], LastHere, reverse)
<1> DEFINE s0 == [focus |-> focus, shown |-> shown, fault |-> FALSE]
           w  == LastHere
           n  == Neighbour(list[current], w, reverse)
           f  == FocusToplevel(focus, n)
<1>1. /\ current \in Workspaces /\ list[current] \in Seq(Windows)
      /\ home \in [Windows -> Workspaces] /\ focus \in Focus
      /\ Listed(current) \subseteq Mapped /\ Listed(current) \subseteq tiles[current]
      /\ \A x \in tiles[current] : home[x] = current
      /\ NoWindow \notin Windows
  BY DesktopAssumption
     DEF DesktopAssumption, IInv, PlacesOK, LinksOK, LinkedOnce, ListedTiled, TilesLiveAtHome, FocusOK
<1>2. w \in Mapped /\ w \in Windows /\ w # NoWindow /\ ~Dead(w)
  BY <1>1 DEF Mapped, Dead
<1>3. (CHOOSE x \in Workspaces : w \in Listed(x)) = current
  BY <1>1 DEF IInv, LinksOK, LinkedOnce
<1>4. CycleOnce(s0, reverse) = [s0 EXCEPT !.focus = f, !.shown = ArrangeMonocle(f, s0.shown)]
  BY <1>2, <1>3 DEF CycleOnce, StepsOffList, LastHere
<1>5. CycleOnce(s0, reverse).focus = f
  BY <1>4
<1>6. n \in Listed(current) /\ n \in Windows /\ home[n] = current
  BY <1>1, NeighbourFacts DEF Listed, Mapped
<1> HIDE DEF n
<1>7. f.last[current] = n
  <2>1. CASE n = focus.kb
    <3>1. f = focus /\ focus.last[home[n]] = n
      BY <1>1, <1>6, <2>1 DEF FocusToplevel, IInv, FocusOK, Remembered
    <3> QED BY <1>6, <3>1
  <2>2. CASE n # focus.kb
    <3>1. f.last = [focus.last EXCEPT ![home'[n]] = n]
      BY <1>1, <1>6, <2>2 DEF FocusToplevel, Focus
    <3> QED BY <1>1, <1>6, <3>1 DEF Focus
  <2> QED BY <2>1, <2>2
<1> QED BY <1>5, <1>7 DEF n

\* With one output, and each window mapped at home, cycle-monocle goes round the
\* list of the workspace.  A second output makes it skip a window, against the
\* words of docs/source/user/config/bindings.md:144 (src/tiling.c:220-260).
THEOREM CycleAlwaysVisitsNext == ~LateMap /\ Outputs # 2 /\ Spec => CycleVisitsNext
<1> SUFFICES ASSUME ~LateMap, Outputs # 2 PROVE Spec => CycleVisitsNext
  OBVIOUS
<1> DEFINE A ==
        \A reverse \in BOOLEAN :
            (CycleMonocle(reverse) /\ Outputs > 0 /\ LastHere \in Listed(current)) =>
                IF reverse THEN Successor(list[current], focus'.last[current], LastHere)
                           ELSE Successor(list[current], LastHere, focus'.last[current])
<1>1. IInv => A
  <2> SUFFICES ASSUME IInv, NEW reverse \in BOOLEAN, CycleMonocle(reverse), Outputs > 0,
                      LastHere \in Listed(current)
               PROVE  IF reverse THEN Successor(list[current], focus'.last[current], LastHere)
                                 ELSE Successor(list[current], LastHere, focus'.last[current])
    OBVIOUS
  <2>1. Outputs = 1
    BY DesktopAssumption DEF DesktopAssumption
  <2>2. focus'.last[current] = Neighbour(list[current], LastHere, reverse)
    BY <2>1, CycleOnceNext DEF CycleMonocle, Cycled
  <2>3. list[current] \in Seq(Windows) /\ LastHere \in ToSet(list[current])
    BY DEF IInv, PlacesOK, Listed
  <2> QED BY <2>2, <2>3, NeighbourFollows
<1> HIDE DEF A
<1>2. Spec => [][A]_vars
  BY <1>1, Inductive, PTL DEF Spec
<1> QED BY <1>2 DEF CycleVisitsNext, A
----------------------------------------------------------------------------
(* A session in which windows are mapped while their home is on display    *)
(* and none is sent elsewhere, with all the workspaces that are bound.     *)

Session ==
    /\ ~LateMap
    /\ SendTargets = {}
    /\ SwitchTargets \subseteq Workspaces

\* A workspace only remembers live windows that are at home in it.
LastHome(f, life, h) ==
    \A ws \in Workspaces :
        f.last[ws] # NoWindow => life[f.last[ws]] # "none" /\ h[f.last[ws]] = ws

\* No window of another workspace is on the screen.
NoneElsewhere(sh) == sh \cap Mapped \subseteq Listed(current)

ScreenOK ==
    /\ NoneElsewhere(shown)
    /\ mode = "tile" => Listed(current) \subseteq shown
    /\ mode = "monocle" => \A v, w \in shown \cap Mapped : v = w

SessionInv ==
    /\ IInv
    /\ LastHome(focus, win, home)
    /\ NoOtherFault
    /\ (Outputs > 0 /\ ~fault) => ScreenOK

\* Listed, mapped and tiled windows are at home.
LEMMA AtHome ==
    ASSUME IInv, ~LateMap
    PROVE  /\ \A ws \in Workspaces : \A w \in tiles[ws] :
                w \in Windows /\ ~Dead(w) /\ home[w] = ws
           /\ \A ws \in Workspaces : \A w \in Listed(ws) : w \in Mapped /\ home[w] = ws
           /\ \A w \in Mapped : home[w] \in Workspaces /\ w \in Listed(home[w])
           /\ NoWindow \notin Windows
BY DesktopAssumption
   DEF DesktopAssumption, IInv, PlacesOK, LinksOK, LinkedOnce, ListedTiled, TilesLiveAtHome, Mapped

LEMMA AtHomeNext ==
    ASSUME IInv', ~LateMap
    PROVE  /\ \A ws \in Workspaces : \A w \in tiles'[ws] :
                w \in Windows /\ ~DeadNow(w) /\ home'[w] = ws
           /\ \A ws \in Workspaces : \A w \in Listed(ws)' : w \in Mapped' /\ home'[w] = ws
           /\ \A w \in Mapped' : home'[w] \in Workspaces /\ w \in Listed(home[w])'
           /\ NoWindow \notin Windows
<1>1. NoWindow \notin Windows
  BY DesktopAssumption DEF DesktopAssumption
<1>2. /\ \A ws \in Workspaces : tiles'[ws] \subseteq Windows /\ Listed(ws)' \subseteq tiles'[ws]
      /\ \A ws \in Workspaces : Listed(ws)' \subseteq Mapped'
      /\ \A w \in Mapped' : \E ws \in Workspaces : w \in Listed(ws)'
      /\ \A ws \in Workspaces : \A w \in tiles'[ws] : ~Dead(w)' /\ home'[w] = ws
  BY DEF IInv, PlacesOK, LinksOK, LinkedOnce, ListedTiled, TilesLiveAtHome
<1>3. \A w : Dead(w)' <=> DeadNow(w)
  BY DEF Dead, DeadNow
<1>4. \A ws \in Workspaces : \A w \in Listed(ws)' : w \in Mapped' /\ home'[w] = ws
  BY <1>2
<1>5. \A w \in Mapped' : home'[w] \in Workspaces /\ w \in Listed(home[w])'
  <2> SUFFICES ASSUME NEW w \in Mapped'
               PROVE  home'[w] \in Workspaces /\ w \in Listed(home[w])'
    OBVIOUS
  <2>1. PICK ws \in Workspaces : w \in Listed(ws)'
    BY <1>2
  <2>2. home'[w] = ws
    BY <1>4, <2>1
  <2> QED BY <2>1, <2>2
<1> QED BY <1>1, <1>2, <1>3, <1>4, <1>5

\* Focusing a live window leaves every workspace with a window of its own.
LEMMA FocusHome ==
    ASSUME NEW f \in Focus, NEW w \in AnyWindow, home' \in [Windows -> Workspaces],
           NoWindow \notin Windows,
           LastHome(f, win', home'), w \in Windows => win'[w] # "none"
    PROVE  LastHome(FocusToplevel(f, w), win', home')
<1>1. CASE w \in {NoWindow, f.kb}
  BY <1>1 DEF FocusToplevel
<1>2. CASE w \notin {NoWindow, f.kb}
  <2>1. w \in Windows /\ home'[w] \in Workspaces
    BY <1>2 DEF AnyWindow
  <2>2. FocusToplevel(f, w).last = [f.last EXCEPT ![home'[w]] = w]
    BY <1>2 DEF FocusToplevel, Focus
  <2>3. \A ws \in Workspaces :
          FocusToplevel(f, w).last[ws] = IF ws = home'[w] THEN w ELSE f.last[ws]
    BY <2>1, <2>2 DEF Focus
  <2> QED BY <2>1, <2>3 DEF LastHome
<1> QED BY <1>1, <1>2

LEMMA PointHome ==
    ASSUME NEW f \in Focus, NEW u \in Mapped' \cup {NoWindow},
           home' \in [Windows -> Workspaces], policy' \in Policies, NoWindow \notin Windows,
           LastHome(f, win', home')
    PROVE  LastHome(PointAt(f, u), win', home')
<1>1. policy' \in {"click", "hover"} /\ u \in AnyWindow /\ (u \in Windows => win'[u] # "none")
  BY DesktopAssumption DEF DesktopAssumption, AnyWindow, Mapped
<1>2. CASE policy' = "click"
  BY <1>2 DEF PointAt
<1>3. CASE policy' = "hover" /\ u = NoWindow
  <2> DEFINE g == ClearKeyboard(f)
  <2>1. PointAt(f, u) = [g EXCEPT !.hovered = NoWindow]
    BY <1>3 DEF PointAt
  <2>2. g \in Focus /\ g.last = f.last
    BY ClearKeyboardFacts
  <2> HIDE DEF g
  <2>3. PointAt(f, u).last = f.last
    BY <2>1, <2>2 DEF Focus
  <2> QED BY <2>3 DEF LastHome
<1>4. CASE policy' = "hover" /\ u = f.hovered /\ u # NoWindow
  BY <1>4 DEF PointAt
<1>5. CASE policy' = "hover" /\ u # NoWindow /\ u # f.hovered
  <2> DEFINE g == FocusToplevel(f, u)
  <2>1. PointAt(f, u) = [g EXCEPT !.hovered = u]
    BY <1>5 DEF PointAt
  <2>2. g \in Focus /\ LastHome(g, win', home')
    BY <1>1, FocusHome, FocusToplevelFacts
  <2> HIDE DEF g
  <2>3. PointAt(f, u).last = g.last
    BY <2>1, <2>2 DEF Focus
  <2> QED BY <2>2, <2>3 DEF LastHome
<1> QED BY <1>1, <1>2, <1>3, <1>4, <1>5

\* A handler that ends in arrange_workspaces leaves the screen right and
\* dereferences nothing that is gone.
LEMMA ArrangedScreen ==
    ASSUME Session, IInv', NEW f \in Focus, NEW sh \in SUBSET Windows, Rearrange(f, sh),
           LastHome(f, win', home'),
           Outputs > 0 => sh \cap Mapped' \subseteq Listed(current)'
    PROVE  SessionInv'
<1>1. /\ home' \in [Windows -> Workspaces] /\ current' \in Workspaces
      /\ mode' \in {"tile", "monocle"} /\ Outputs \in 0..2 /\ ~LateMap
      /\ f.last[current'] \in AnyWindow /\ policy' \in Policies
  BY DesktopAssumption DEF DesktopAssumption, IInv, PlacesOK, Session, Focus
<1>2. /\ \A w \in tiles'[current'] : w \in Windows /\ ~DeadNow(w) /\ home'[w] = current'
      /\ \A w \in Listed(current)' : w \in Mapped'
      /\ \A w \in Mapped' : w \in Listed(home[w])'
      /\ NoWindow \notin Windows
      /\ Listed(current)' \subseteq tiles'[current']
  BY <1>1, AtHomeNext DEF IInv, LinksOK, ListedTiled
<1>3. fault' = FALSE
  BY <1>1, <1>2 DEF Rearrange, ArrangeFaults, LastHome, DeadNow, AnyWindow
<1>4. LastHome(focus', win', home')
  <2>1. PICK u \in (Arranged(f, sh) \cap Mapped') \cup {NoWindow} : focus' = PointAt(f, u)
    BY DEF Rearrange, UnderPointer
  <2> QED BY <1>1, <1>2, <2>1, PointHome
<1>5. ASSUME Outputs > 0 PROVE ScreenOK'
  <2>1. sh \cap Mapped' \subseteq Listed(current)'
    BY <1>5
  <2>2. CASE mode' = "tile"
    <3>1. shown' = sh \cup tiles'[current']
      BY <1>1, <1>5, <2>2 DEF Rearrange, Arranged, ArrangeTiling
    <3>2. shown' \cap Mapped' \subseteq Listed(current)'
      BY <1>2, <2>1, <3>1
    <3>3. Listed(current)' \subseteq shown'
      BY <1>2, <3>1
    <3> QED BY <2>2, <3>2, <3>3 DEF ScreenOK, NoneElsewhere
  <2>3. CASE mode' = "monocle"
    <3>1. shown' = (sh \ Listed(current)') \cup ({f.last[current']} \cap Mapped')
      BY <1>1, <1>5, <2>3 DEF Rearrange, Arranged, ArrangeMonocle, Listed
    <3>2. shown' \cap Mapped' \subseteq {f.last[current']}
      BY <2>1, <3>1
    <3>3. \A w \in shown' \cap Mapped' : w \in Listed(current)'
      BY <1>1, <1>2, <3>2 DEF LastHome, Mapped
    <3> QED BY <2>3, <3>2, <3>3 DEF ScreenOK, NoneElsewhere
  <2> QED BY <1>1, <2>2, <2>3
<1> QED BY <1>3, <1>4, <1>5 DEF SessionInv, NoOtherFault

\* Handlers that only focus a window, one that is alive, or none.
LEMMA FocusedScreen ==
    ASSUME Session, IInv', ScreenOK \/ Outputs = 0,
           UNCHANGED <<win, home, list, tiles, current, mode, shown>>, fault' = FALSE,
           LastHome(focus', win', home')
    PROVE  SessionInv'
BY DEF SessionInv, NoOtherFault, ScreenOK, NoneElsewhere, Listed, Mapped

\* What a handler of a session starts from
Starting ==
    /\ Session
    /\ SessionInv
    /\ ~fault

LEMMA StartingFacts ==
    ASSUME Starting
    PROVE  /\ IInv /\ ~LateMap /\ NoWindow \notin Windows
           /\ LastHome(focus, win, home)
           /\ Outputs \in 0..2 /\ (ScreenOK \/ Outputs = 0)
           /\ focus \in Focus /\ shown \in SUBSET Windows
           /\ home \in [Windows -> Workspaces] /\ current \in Workspaces
           /\ LastHere \in AnyWindow
BY DesktopAssumption
   DEF DesktopAssumption, Starting, Session, SessionInv, IInv, FocusOK, PlacesOK, LastHere, Focus

LEMMA NewToplevelScreen ==
    ASSUME Starting, IInv', NEW w \in Windows, NewToplevel(w)
    PROVE  SessionInv'
<1>1. /\ win[w] = "none" /\ UNCHANGED <<list, current, mode, shown, focus, fault>>
      /\ \A x \in Windows : x # w => win'[x] = win[x] /\ home'[x] = home[x]
      /\ win'[w] = "created"
  BY DEF NewToplevel, Starting, SessionInv, IInv, PlacesOK
<1>2. Mapped' = Mapped
  BY <1>1 DEF Mapped
<1>3. LastHome(focus', win', home')
  <2>1. focus.last \in [Workspaces -> AnyWindow]
    BY StartingFacts DEF Focus
  <2> QED BY <1>1, <2>1, StartingFacts DEF LastHome, AnyWindow
<1>4. ScreenOK' \/ Outputs = 0
  BY <1>1, <1>2, StartingFacts DEF ScreenOK, NoneElsewhere, Listed
<1> QED BY <1>1, <1>3, <1>4, StartingFacts DEF SessionInv, NoOtherFault, Starting

LEMMA MapScreen ==
    ASSUME Starting, IInv', NEW w \in Windows, Map(w)
    PROVE  SessionInv'
<1> DEFINE g  == FocusToplevel(focus, w)
           sh == shown \cup {w}
<1>1. /\ Rearrange(g, sh) /\ UNCHANGED <<home, current>>
      /\ win' = [win EXCEPT ![w] = "mapped"]
      /\ list' = [list EXCEPT ![current] = Cons(w, list[current])]
      /\ Mapped' = Mapped \cup {w}
  BY StartingFacts DEF Map, Mapped, IInv, PlacesOK
<1>2. Listed(current)' = Listed(current) \cup {w}
  <2>1. list[current] \in Seq(Windows) /\ list \in [Workspaces -> Seq(Windows)]
    BY StartingFacts DEF IInv, PlacesOK
  <2> QED BY <1>1, <2>1, StartingFacts, ConsFacts DEF Listed
<1>3. /\ \A x \in Windows : win[x] # "none" => win'[x] # "none"
      /\ win'[w] # "none" /\ w \in AnyWindow /\ home' \in [Windows -> Workspaces]
  BY <1>1, StartingFacts DEF IInv, PlacesOK, AnyWindow
<1>4. LastHome(focus, win', home')
  <2>1. focus.last \in [Workspaces -> AnyWindow]
    BY StartingFacts DEF Focus
  <2> QED BY <1>1, <1>3, <2>1, StartingFacts DEF LastHome, AnyWindow
<1>5. g \in Focus /\ LastHome(g, win', home')
  BY <1>3, <1>4, StartingFacts, FocusHome, FocusToplevelFacts
<1>6. Outputs > 0 => sh \cap Mapped' \subseteq Listed(current)'
  BY <1>1, <1>2, StartingFacts DEF ScreenOK, NoneElsewhere
<1>7. sh \in SUBSET Windows
  BY StartingFacts
<1> HIDE DEF g, sh
<1> QED BY <1>1, <1>5, <1>6, <1>7, ArrangedScreen DEF Starting

LEMMA UnmapScreen ==
    ASSUME Starting, IInv', NEW w \in Windows, Unmap(w)
    PROVE  SessionInv'
<1>1. /\ Mapped' = Mapped \ {w} /\ shown' = shown \ {w}
      /\ \A x \in Windows : win[x] # "none" => win'[x] # "none"
      /\ UNCHANGED <<home, current, mode, focus, fault>>
  BY StartingFacts DEF Unmap, Mapped, IInv, PlacesOK
<1>2. Listed(current)' = Listed(current) \ {w}
  BY StartingFacts, UnlinkedLists DEF Unmap, Listed
<1>3. ScreenOK' \/ Outputs = 0
  BY <1>1, <1>2, StartingFacts DEF ScreenOK, NoneElsewhere
<1>4. LastHome(focus', win', home')
  <2>1. focus.last \in [Workspaces -> AnyWindow]
    BY StartingFacts DEF Focus
  <2> QED BY <1>1, <2>1, StartingFacts DEF LastHome, AnyWindow
<1> QED BY <1>1, <1>3, <1>4, StartingFacts DEF SessionInv, NoOtherFault, Starting

\* The workspace of a destroyed window forgets it, and no other remembers it.
LEMMA ForgetHome ==
    ASSUME Starting, NEW w \in Windows
    PROVE  \A ws \in Workspaces :
             Forget(focus, w).last[ws] # NoWindow =>
                Forget(focus, w).last[ws] = focus.last[ws] /\ focus.last[ws] # w
<1> DEFINE g   == ClearKeyboard(focus)
           act == g.active \ {w}
           rem == IF g.last[home[w]] = w THEN [g.last EXCEPT ![home[w]] = NoWindow] ELSE g.last
<1>1. g \in Focus /\ g.last = focus.last /\ g.last \in [Workspaces -> AnyWindow]
  BY StartingFacts, ClearKeyboardFacts DEF Focus
<1>2. Forget(focus, w) = [g EXCEPT !.active = act, !.last = rem]
  BY <1>1 DEF Forget, Focus
<1> HIDE DEF g
<1>3. \A ws \in Workspaces :
        rem[ws] = IF ws = home[w] /\ focus.last[ws] = w THEN NoWindow ELSE focus.last[ws]
  BY <1>1, StartingFacts
<1> HIDE DEF act, rem
<1>4. Forget(focus, w).last = rem
  BY <1>1, <1>2 DEF Focus
<1> QED BY <1>3, <1>4, StartingFacts DEF LastHome

LEMMA DestroyScreen ==
    ASSUME Starting, IInv', NEW w \in Windows, Destroy(w), ~FreesRoot(w)
    PROVE  SessionInv'
<1> DEFINE h  == HeadOf(list[home[w]])
           g  == Forget(focus, w)
           f  == FocusToplevel(g, h)
           sh == shown \ {w}
<1>1. /\ Rearrange(f, sh) /\ UNCHANGED <<home, list, current>>
      /\ win' = [win EXCEPT ![w] = "none"] /\ w \notin Mapped /\ Mapped' = Mapped
  BY StartingFacts DEF Destroy, Mapped, IInv, PlacesOK
<1>2. g \in Focus /\ home' \in [Windows -> Workspaces]
  BY <1>1, StartingFacts, ForgetFacts
<1>3. h \in AnyWindow /\ (h \in Windows => win'[h] # "none")
  <2>1. h \in AnyWindow /\ h \in Mapped \cup {NoWindow}
    BY StartingFacts, HeadFacts
  <2> QED BY <1>1, <2>1, StartingFacts DEF Mapped, IInv, PlacesOK
<1>4. LastHome(g, win', home')
  <2>1. focus.last \in [Workspaces -> AnyWindow] /\ \A x \in Windows : x # w => win'[x] = win[x]
    BY <1>1, StartingFacts DEF Focus, IInv, PlacesOK
  <2>2. SUFFICES ASSUME NEW ws \in Workspaces, g.last[ws] # NoWindow
                 PROVE  win'[g.last[ws]] # "none" /\ home'[g.last[ws]] = ws
    BY DEF LastHome
  <2>3. g.last[ws] = focus.last[ws] /\ focus.last[ws] # w
    BY <2>2, ForgetHome
  <2> HIDE DEF g
  <2> QED BY <1>1, <2>1, <2>2, <2>3, StartingFacts DEF LastHome, AnyWindow
<1> HIDE DEF g, h
<1>5. f \in Focus /\ LastHome(f, win', home')
  BY <1>2, <1>3, <1>4, StartingFacts, FocusHome, FocusToplevelFacts
<1>6. sh \in SUBSET Windows /\ (Outputs > 0 => sh \cap Mapped' \subseteq Listed(current)')
  BY <1>1, StartingFacts DEF ScreenOK, NoneElsewhere, Listed
<1> HIDE DEF f, sh
<1> QED BY <1>1, <1>5, <1>6, ArrangedScreen DEF Starting

LEMMA RearrangeScreen ==
    ASSUME Starting, IInv', Rearrange(focus, shown),
           UNCHANGED <<win, home, list, tiles, current>>
    PROVE  SessionInv'
<1>1. Outputs > 0 => shown \cap Mapped' \subseteq Listed(current)'
  BY StartingFacts DEF ScreenOK, NoneElsewhere, Listed, Mapped
<1> QED BY <1>1, StartingFacts, ArrangedScreen DEF Starting

LEMMA FocusScreen ==
    ASSUME Starting, IInv', NEW v \in Windows, win[v] # "none",
           UNCHANGED <<win, home, list, tiles, current, mode, shown>>, fault' = FALSE,
           focus' = FocusToplevel(focus, v)
    PROVE  SessionInv'
<1>1. LastHome(focus, win', home') /\ home' \in [Windows -> Workspaces] /\ v \in AnyWindow
  BY StartingFacts DEF AnyWindow
<1>2. LastHome(focus', win', home')
  BY <1>1, StartingFacts, FocusHome
<1> QED BY <1>2, StartingFacts, FocusedScreen DEF Starting

LEMMA PointerScreen ==
    ASSUME Starting, IInv', NEW u \in AnyWindow, PointerMotion(u)
    PROVE  SessionInv'
<1>1. /\ UNCHANGED <<win, home, list, tiles, current, mode, shown, fault>>
      /\ focus' = PointAt(focus, u) /\ u \in Mapped' \cup {NoWindow}
  BY DEF PointerMotion, Mapped
<1>2. /\ LastHome(focus, win', home') /\ home' \in [Windows -> Workspaces]
      /\ policy' \in Policies
  BY <1>1, StartingFacts DEF IInv, PlacesOK
<1>3. LastHome(focus', win', home')
  BY <1>1, <1>2, StartingFacts, PointHome
<1> QED BY <1>1, <1>3, StartingFacts, FocusedScreen DEF Starting, SessionInv, IInv

LEMMA CloseActiveScreen ==
    ASSUME Starting, IInv', CloseActive
    PROVE  SessionInv'
<1>1. ~Dead(LastHere)
  BY StartingFacts DEF CloseActive, LastHere, LastHome, Dead
<1>2. /\ UNCHANGED <<win, home, list, tiles, current, mode, shown, focus>> /\ fault' = FALSE
  BY <1>1 DEF CloseActive, Dead
<1> QED BY <1>2, StartingFacts, FocusedScreen DEF Starting

LEMMA FocusDirectionScreen ==
    ASSUME Starting, IInv', NEW v \in Windows, FocusDirection(v)
    PROVE  SessionInv'
<1>1. ~Dead(v)
  BY StartingFacts, AtHome DEF FocusDirection
<1>2. win[v] # "none" /\ fault' = FALSE
  BY <1>1 DEF FocusDirection, Dead
<1> QED BY <1>2, FocusScreen DEF FocusDirection

LEMMA ButtonScreen ==
    ASSUME Starting, IInv', NEW v \in Windows, ButtonPress(v)
    PROVE  SessionInv'
<1>1. win[v] # "none" /\ fault' = FALSE
  BY DEF ButtonPress, Mapped, Starting, SessionInv, IInv
<1> QED BY <1>1, FocusScreen DEF ButtonPress

\* switch-workspace hides what is listed, and nothing else is on the screen.
LEMMA SwitchScreen ==
    ASSUME Starting, IInv', NEW i \in SwitchTargets, SwitchWorkspace(i)
    PROVE  SessionInv'
<1> DEFINE wanted == IF focus.last[i] # NoWindow THEN focus.last[i] ELSE HeadOf(list[i])
           g  == ClearKeyboard(focus)
           f  == FocusToplevel(g, wanted)
           sh == HideListed(shown)
<1>1. i \in Workspaces /\ UNCHANGED <<win, home, list, tiles, mode>>
  BY DEF SwitchWorkspace, Starting, Session
<1>2. wanted \in AnyWindow /\ (wanted \in Windows => win[wanted] # "none")
  <2>1. CASE focus.last[i] # NoWindow
    BY <1>1, <2>1, StartingFacts DEF LastHome, Focus
  <2>2. CASE focus.last[i] = NoWindow
    <3>1. HeadOf(list[i]) \in AnyWindow /\ HeadOf(list[i]) \in Mapped \cup {NoWindow}
      BY <1>1, StartingFacts, HeadFacts
    <3> QED BY <2>2, <3>1, StartingFacts DEF Mapped
  <2> QED BY <2>1, <2>2
<1>3. current' = i /\ Rearrange(f, sh)
  BY <1>1, <1>2 DEF SwitchWorkspace, EnterWorkspace, Dead
<1>4. g \in Focus /\ g.last = focus.last
  BY StartingFacts, ClearKeyboardFacts
<1> HIDE DEF g, wanted
<1>5. LastHome(g, win', home') /\ home' \in [Windows -> Workspaces]
  BY <1>1, <1>4, StartingFacts DEF LastHome
<1>6. f \in Focus /\ LastHome(f, win', home')
  BY <1>1, <1>2, <1>4, <1>5, StartingFacts, FocusHome, FocusToplevelFacts
<1>7. sh \in SUBSET Windows /\ (Outputs > 0 => sh \cap Mapped' = {})
  BY <1>1, StartingFacts DEF HideListed, ScreenOK, NoneElsewhere, Mapped
<1> HIDE DEF f, sh
<1> QED BY <1>3, <1>6, <1>7, ArrangedScreen DEF Starting

\* The loop of cycle-monocle: a fault only for want of windows, otherwise no
\* window of another workspace on the screen.
CycleScreen(s) ==
    /\ LastHome(s.focus, win, home)
    /\ s.fault => list[current] = << >>
    /\ ~s.fault => NoneElsewhere(s.shown)

LEMMA CycleOnceScreen ==
    ASSUME Starting, UNCHANGED <<win, home, list, current>>,
           NEW s, CycleOK(s), CycleScreen(s), NEW reverse \in BOOLEAN
    PROVE  LET r == CycleOnce(s, reverse)
           IN  CycleScreen(r) /\ (~r.fault => \A v, w \in r.shown \cap Mapped : v = w)
<1> DEFINE r     == CycleOnce(s, reverse)
           last  == s.focus.last[current]
           base  == IF last = NoWindow THEN HeadOf(list[current]) ELSE last
           ws    == CHOOSE x \in Workspaces : base \in Listed(x)
           Go(f) == [s EXCEPT !.focus = f, !.shown = ArrangeMonocle(f, s.shown)]
           fails == \/ s.fault
                    \/ base = NoWindow
                    \/ Dead(base)
                    \/ base \in Mapped /\ StepsOffList(ws, base, reverse)
           n     == Neighbour(list[ws], base, reverse)
<1>1. r = IF fails THEN [s EXCEPT !.fault = TRUE]
          ELSE IF base \in Mapped THEN Go(FocusToplevel(s.focus, n)) ELSE Go(s.focus)
  BY DEF CycleOnce
<1>2. /\ s \in CycleStates /\ s.focus \in Focus /\ s.shown \in SUBSET Windows
      /\ s.fault \in BOOLEAN /\ last \in AnyWindow
  BY StartingFacts DEF CycleOK, CycleStates, Focus
<1>3. /\ home' \in [Windows -> Workspaces] /\ current \in Workspaces
      /\ list' = list /\ current' = current /\ win' = win /\ home' = home
      /\ NoWindow \notin Windows
  BY StartingFacts
<1>4. base # NoWindow => base \in Windows /\ win[base] # "none" /\ home[base] = current
  <2>1. CASE last # NoWindow
    BY <1>2, <1>3, <2>1 DEF CycleScreen, LastHome, AnyWindow
  <2>2. CASE last = NoWindow
    <3>1. base = HeadOf(list[current]) /\ base \in Listed(current) \cup {NoWindow}
      BY <1>3, <2>2, StartingFacts, HeadFacts
    <3> HIDE DEF base
    <3>2. base # NoWindow => base \in Mapped /\ home[base] = current
      BY <1>3, <3>1, StartingFacts, AtHome
    <3> QED BY <3>2 DEF Mapped
  <2> QED BY <2>1, <2>2
<1>5. base = NoWindow => list[current] = << >>
  <2>1. list[current] # << >> => HeadOf(list[current]) \in Windows
    <3>1. list[current] \in Seq(Windows)
      BY <1>3, StartingFacts DEF IInv, PlacesOK
    <3> QED BY <3>1 DEF HeadOf
  <2> QED BY <1>3, <2>1
<1>6. base \in Mapped => ws = current /\ base \in Listed(current)
  <2>1. ASSUME base \in Mapped PROVE ws = current /\ base \in Listed(current)
    <3>1. home[base] = current /\ base \in Listed(home[base])
      BY <1>3, <1>4, <2>1, StartingFacts, AtHome DEF Mapped
    <3>2. \A x \in Workspaces : base \in Listed(x) => x = current
      BY <3>1, StartingFacts, AtHome
    <3> QED BY <1>3, <3>1, <3>2
  <2> QED BY <2>1
<1> HIDE DEF base, ws
<1>7. fails => (s.fault \/ base = NoWindow)
  BY <1>3, <1>4, <1>6 DEF Dead, StepsOffList
<1>8. ASSUME NEW f \in Focus, LastHome(f, win, home), ~s.fault
      PROVE  /\ CycleScreen(Go(f)) /\ \A v, w \in Go(f).shown \cap Mapped : v = w
             /\ Go(f).fault = FALSE
  <2> DEFINE sh == ArrangeMonocle(f, s.shown)
  <2>1. sh = (s.shown \ Listed(current)) \cup ({f.last[current]} \cap Mapped)
    BY <1>3 DEF ArrangeMonocle, Listed, Mapped
  <2>2. s.shown \cap Mapped \subseteq Listed(current)
    BY <1>8 DEF CycleScreen, NoneElsewhere
  <2>3. sh \cap Mapped \subseteq {f.last[current]}
    BY <2>1, <2>2
  <2>4. \A w \in sh \cap Mapped : w \in Listed(current)
    <3>1. \A w \in Mapped : w \in Windows /\ w \in Listed(home[w])
      BY StartingFacts, AtHome DEF Mapped
    <3> QED BY <1>3, <1>8, <2>3, <3>1 DEF LastHome
  <2>5. Go(f).focus = f /\ Go(f).shown = sh /\ Go(f).fault = FALSE
    BY <1>2, <1>8 DEF CycleStates
  <2> HIDE DEF Go, sh
  <2> QED BY <1>8, <2>3, <2>4, <2>5 DEF CycleScreen, NoneElsewhere
<1>9. CASE fails
  <2>1. r = [s EXCEPT !.fault = TRUE]
    BY <1>1, <1>9
  <2>2. r.focus = s.focus /\ r.fault = TRUE
    BY <1>2, <2>1 DEF CycleStates
  <2>3. list[current] = << >>
    BY <1>5, <1>7, <1>9 DEF CycleScreen
  <2> HIDE DEF r
  <2> QED BY <2>2, <2>3 DEF CycleScreen, r
<1>10. CASE ~fails /\ base \notin Mapped
  <2>1. r = Go(s.focus) /\ ~s.fault
    BY <1>1, <1>10
  <2> HIDE DEF r, Go, fails
  <2>2. LastHome(s.focus, win, home)
    BY DEF CycleScreen
  <2> QED BY <1>2, <1>8, <2>1, <2>2 DEF r
<1>11. CASE ~fails /\ base \in Mapped
  <2>1. r = Go(FocusToplevel(s.focus, n)) /\ ~s.fault
    BY <1>1, <1>11
  <2>2. n \in Listed(current)
    <3>1. list[current] \in Seq(Windows) /\ base \in ToSet(list[current]) /\ ws = current
      BY <1>3, <1>6, <1>11, StartingFacts DEF IInv, PlacesOK, Listed
    <3> QED BY <3>1, NeighbourFacts DEF Listed
  <2>3. n \in Windows /\ win'[n] # "none"
    BY <1>3, <2>2, StartingFacts, AtHome DEF Mapped
  <2> HIDE DEF n, r, fails, Go
  <2> DEFINE f == FocusToplevel(s.focus, n)
  <2>4. f \in Focus /\ LastHome(f, win, home)
    <3>1. n \in AnyWindow /\ LastHome(s.focus, win', home')
      BY <1>3, <2>3 DEF CycleScreen, AnyWindow
    <3>2. f \in Focus /\ LastHome(f, win', home')
      BY <1>2, <1>3, <2>3, <3>1, FocusHome, FocusToplevelFacts
    <3> HIDE DEF f
    <3> QED BY <1>3, <3>2
  <2> HIDE DEF f
  <2> QED BY <1>8, <2>1, <2>4 DEF r, f
<1> QED BY <1>9, <1>10, <1>11

LEMMA CycleScreenStep ==
    ASSUME Starting, IInv', NEW reverse \in BOOLEAN, CycleMonocle(reverse)
    PROVE  SessionInv'
<1> DEFINE s0 == [focus |-> focus, shown |-> shown, fault |-> FALSE]
           s1 == CycleOnce(s0, reverse)
           s2 == CycleOnce(s1, reverse)
           Single(s) == ~s.fault => \A v, w \in s.shown \cap Mapped : v = w
<1>1. UNCHANGED <<win, home, list, tiles, current, mode>> /\ mode = "monocle"
  BY DEF CycleMonocle
<1>2. /\ s0.focus = focus /\ s0.shown = shown /\ s0.fault = FALSE /\ s0 \in CycleStates
  BY StartingFacts DEF CycleStates
<1>3. CycleOK(s0) /\ (Outputs > 0 => CycleScreen(s0))
  <2> HIDE DEF s0
  <2> QED BY <1>1, <1>2, StartingFacts
        DEF CycleOK, IInv, FocusOK, Starting, CycleScreen, ScreenOK
<1> HIDE DEF s0
<1>4. CycleOK(s1) /\ (Outputs > 0 => CycleScreen(s1) /\ Single(s1))
  BY <1>1, <1>3, StartingFacts, CycleOnceStep, CycleOnceScreen
<1> HIDE DEF s1
<1>5. CycleOK(s2) /\ (Outputs > 0 => CycleScreen(s2) /\ Single(s2))
  BY <1>1, <1>3, <1>4, StartingFacts, CycleOnceStep, CycleOnceScreen
<1> HIDE DEF s2
<1>6. CASE Outputs = 0
  <2>1. focus' = focus /\ fault' = FALSE
    BY <1>2, <1>6 DEF CycleMonocle, Cycled, s0
  <2> QED BY <1>1, <1>6, <2>1, StartingFacts DEF SessionInv, NoOtherFault
<1>7. CASE Outputs # 0
  <2>1. PICK s \in {s1, s2} : focus' = s.focus /\ shown' = s.shown /\ fault' = s.fault
    <3>1. Outputs \in {1, 2}
      BY <1>7, StartingFacts
    <3>2. Cycled(reverse) \in {s1, s2}
      BY <3>1 DEF Cycled, s2, s1, s0
    <3> QED BY <3>2 DEF CycleMonocle
  <2>2. CycleScreen(s) /\ Single(s)
    BY <1>4, <1>5, <1>7, <2>1, StartingFacts
  <2>3. LastHome(focus', win', home') /\ NoOtherFault'
    BY <1>1, <2>1, <2>2 DEF CycleScreen, NoOtherFault
  <2>4. ASSUME ~fault' PROVE ScreenOK'
    BY <1>1, <2>1, <2>2, <2>4 DEF CycleScreen, ScreenOK, NoneElsewhere, Listed, Mapped
  <2> QED BY <2>3, <2>4 DEF SessionInv
<1> QED BY <1>6, <1>7

LEMMA SessionStep ==
    ASSUME Session, SessionInv, [Next]_vars
    PROVE  SessionInv'
<1>1. IInv'
  BY NextIInv DEF SessionInv
<1>2. CASE UNCHANGED vars
  BY <1>1, <1>2 DEF vars, SessionInv, NoOtherFault, ScreenOK, NoneElsewhere, Listed, Mapped
<1>3. CASE Next
  <2>1. Starting
    BY <1>3 DEF Next, Starting
  <2>2. CASE \E w \in Windows : NewToplevel(w) \/ Map(w) \/ Unmap(w) \/ Destroy(w)
    <3>1. CASE UNCHANGED <<win, home, list, tiles, current, mode, policy, shown, focus, fault>>
      BY <1>1, <3>1 DEF SessionInv, NoOtherFault, ScreenOK, NoneElsewhere, Listed, Mapped
    <3>2. (\E w : FreesRoot(w)) =>
            UNCHANGED <<win, home, list, tiles, current, mode, policy, shown, focus, fault>>
      BY DEF FreesRoot
    <3> QED
      BY <1>1, <2>1, <2>2, <3>1, <3>2,
         NewToplevelScreen, MapScreen, UnmapScreen, DestroyScreen
  <2>3. CASE CloseActive
    BY <1>1, <2>1, <2>3, CloseActiveScreen
  <2>4. CASE \E v \in Windows : FocusDirection(v) \/ MoveDirection(v)
    BY <1>1, <2>1, <2>4, FocusDirectionScreen, RearrangeScreen DEF MoveDirection
  <2>5. CASE \E i \in SwitchTargets : SwitchWorkspace(i)
    BY <1>1, <2>1, <2>5, SwitchScreen
  <2>6. CASE \E t \in SendTargets : WindowToWorkspace(t)
    BY <2>6 DEF Session
  <2>7. CASE ToggleMonocle \/ OutputLayoutChanged
    BY <1>1, <2>1, <2>7, RearrangeScreen DEF ToggleMonocle, OutputLayoutChanged
  <2>8. CASE \E reverse \in BOOLEAN : CycleMonocle(reverse)
    BY <1>1, <2>1, <2>8, CycleScreenStep
  <2>9. CASE \E u \in AnyWindow : PointerMotion(u)
    BY <1>1, <2>1, <2>9, PointerScreen
  <2>10. CASE \E v \in Windows : ButtonPress(v)
    BY <1>1, <2>1, <2>10, ButtonScreen
  <2>11. CASE \E p \in Policies : Reload(p)
    <3>1. UNCHANGED <<win, home, list, tiles, current, mode, aborted>>
      BY <2>11 DEF Reload
    <3>2. CASE Rearrange(focus, shown)
      BY <1>1, <2>1, <3>1, <3>2, RearrangeScreen
    <3>3. CASE UNCHANGED <<shown, focus, fault>>
      BY <1>1, <3>1, <3>3 DEF SessionInv, NoOtherFault, ScreenOK, NoneElsewhere, Listed, Mapped
    <3> QED BY <2>11, <3>2, <3>3 DEF Reload
  <2> QED
    BY <1>3, <2>2, <2>3, <2>4, <2>5, <2>6, <2>7, <2>8, <2>9, <2>10, <2>11 DEF Next
<1> QED BY <1>2, <1>3

LEMMA SessionStart == Init => SessionInv
<1> SUFFICES ASSUME Init PROVE SessionInv
  OBVIOUS
<1>1. IInv
  BY InitIInv
<1>2. LastHome(focus, win, home) /\ NoOtherFault
  BY DEF Init, LastHome, NoOtherFault
<1>3. ScreenOK
  <2>1. Mapped = {} /\ Listed(current) = {}
    BY <1>1, HeadFacts DEF Init, Mapped, IInv, PlacesOK
  <2> QED BY <2>1 DEF ScreenOK, NoneElsewhere
<1> QED BY <1>1, <1>2, <1>3 DEF SessionInv

\* In such a session nothing that is freed or null is dereferenced but by
\* cycling through a workspace without windows (src/tiling.c:232-236).  That
\* is no claim about free(): the session may still end in aborted ...
THEOREM OnlyCyclingFaults == Session /\ Spec => []NoOtherFault
<1> SUFFICES ASSUME Session PROVE Spec => []NoOtherFault
  OBVIOUS
<1>1. SessionInv /\ [Next]_vars => SessionInv'
  BY SessionStep
<1>2. SessionInv => NoOtherFault
  BY DEF SessionInv
<1> QED BY <1>1, <1>2, SessionStart, PTL DEF Spec

\* ... and the screen shows the current workspace, all of it when tiling and
\* one window in the monocle (src/tiling.c:119-204, src/config.c:451-478).
THEOREM ScreenAlwaysRight == Session /\ Spec => []ScreenShowsWorkspace
<1> SUFFICES ASSUME Session PROVE Spec => []ScreenShowsWorkspace
  OBVIOUS
<1>1. SessionInv /\ [Next]_vars => SessionInv'
  BY SessionStep
<1>2. SessionInv => ScreenShowsWorkspace
  <2> SUFFICES ASSUME SessionInv, Outputs > 0, ~fault
               PROVE  CASE mode = "tile"    -> shown \cap Mapped = Listed(current)
                        [] mode = "monocle" -> \A v, w \in shown \cap Mapped : v = w
    BY DEF ScreenShowsWorkspace
  <2>1. mode \in {"tile", "monocle"} /\ Listed(current) \subseteq Mapped
    BY DesktopAssumption, HeadFacts DEF DesktopAssumption, SessionInv, IInv, PlacesOK
  <2>2. ScreenOK
    BY DEF SessionInv
  <2> QED BY <2>1, <2>2 DEF ScreenOK, NoneElsewhere
<1> QED BY <1>1, <1>2, SessionStart, PTL DEF Spec
=============================================================================
