---------------------------- MODULE Outputs_proofs ----------------------------
(***************************************************************************)
(* The room that panels claim is left free, for any outputs, panels, sizes *)
(* and claims.                                                             *)
(***************************************************************************)
EXTENDS Outputs, Data_proofs

Areas == [at : Nat, len : Nat]
PanelStates ==
    [Panels -> [stage : {"none", "new", "committed"}, claim : Claims \cup {NoClaim},
                home : Displays \cup {NoDisplay, Lost}]]

\* Area a of output o is what the panels pan leave of some size, or untouched.
Holds(a, pan, o) ==
    \/ \E n \in Sizes : a = Remaining(n, pan, o)
    \/ a = Unset /\ Near(pan, o) = 0 /\ Far(pan, o) = 0

\* A panel that lives on a display is linked to one that is there, and an
\* output that is not there has neither panels nor an area.
HomeOK(p) ==
    /\ panel[p].stage = "none" => panel[p] = NoPanel
    /\ panel[p].home \in Displays => panel[p].home \in ToSet(outputs)

DisplayOK(o) ==
    IF o \in ToSet(outputs) THEN size[o] \in Sizes /\ Holds(usable[o], panel, o)
    ELSE usable[o] = Unset

\* The inductive invariant
IInv ==
    /\ TypeOK
    /\ \A p \in Panels : HomeOK(p)
    /\ \A o \in Displays : DisplayOK(o)
----------------------------------------------------------------------------
(* What panels claim *)

LEMMA ZonesType ==
    ASSUME NEW pan \in PanelStates, NEW o, NEW e \in {"near", "far"}
    PROVE  /\ Zones(pan, o, e) \in [Panels -> Nat]
           /\ (\A p \in Panels : pan[p].home # o) => Zones(pan, o, e) \in [Panels -> {0}]
<1>1. ASSUME NEW p \in Panels PROVE pan[p].claim[e] \in Nat
  <2>1. pan[p].claim \in [near : Nat, far : Nat]
    BY OutputsAssumption DEF PanelStates, NoClaim
  <2> QED BY <2>1
<1> QED BY <1>1 DEF Zones

LEMMA ClaimsAreNaturals ==
    ASSUME NEW pan \in PanelStates, NEW o
    PROVE  /\ Near(pan, o) \in Nat /\ Far(pan, o) \in Nat
           /\ (\A p \in Panels : pan[p].home # o) => Near(pan, o) = 0 /\ Far(pan, o) = 0
<1>1. IsFiniteSet(Panels)
  BY OutputsAssumption
<1>2. /\ Zones(pan, o, "near") \in [Panels -> Nat]
      /\ Zones(pan, o, "far") \in [Panels -> Nat]
      /\ (\A p \in Panels : pan[p].home # o) =>
           /\ Zones(pan, o, "near") \in [Panels -> {0}]
           /\ Zones(pan, o, "far") \in [Panels -> {0}]
  BY ZonesType
<1> HIDE DEF Zones
<1> QED BY <1>1, <1>2, SumOfNaturals, SumOfZeros DEF Near, Far

\* A panel without a claim, and a panel elsewhere, change nothing.
LEMMA SameClaims ==
    ASSUME NEW pan, NEW new, NEW o,
           \A p \in Panels :
               \/ new[p].home = pan[p].home /\ new[p].claim = pan[p].claim
               \/ /\ pan[p].home # o \/ pan[p].claim = NoClaim
                  /\ new[p].home # o \/ new[p].claim = NoClaim
    PROVE  /\ Near(new, o) = Near(pan, o) /\ Far(new, o) = Far(pan, o)
           /\ \A n : Remaining(n, new, o) = Remaining(n, pan, o)
           /\ \A a : Holds(a, pan, o) => Holds(a, new, o)
<1>1. Zones(new, o, "near") = Zones(pan, o, "near") /\ Zones(new, o, "far") = Zones(pan, o, "far")
  BY DEF Zones, NoClaim
<1>2. Near(new, o) = Near(pan, o) /\ Far(new, o) = Far(pan, o)
  BY <1>1 DEF Near, Far
<1>3. \A n : Remaining(n, new, o) = Remaining(n, pan, o)
  BY <1>2 DEF Remaining
<1> QED BY <1>2, <1>3 DEF Holds

LEMMA RemainingType ==
    ASSUME NEW pan \in PanelStates, NEW o, NEW n \in Nat
    PROVE  Remaining(n, pan, o) \in Areas /\ Remaining(n, pan, o).at = Near(pan, o)
BY ClaimsAreNaturals DEF Remaining, Areas

LEMMA HoldsAtNear ==
    ASSUME NEW pan \in PanelStates, NEW o, NEW a, Holds(a, pan, o)
    PROVE  a.at = Near(pan, o)
BY RemainingType, OutputsAssumption DEF Holds, Unset
----------------------------------------------------------------------------
(* Allocations and arrangements *)

\* Use holds what panels pan claim on outputs outs, whose sizes are sz.
AllHeld(use, sz, pan, outs) ==
    /\ use \in [Displays -> Areas] /\ sz \in [Displays -> Sizes \cup {0}]
    /\ outs \in Seq(Displays)
    /\ \A o \in ToSet(outs) : sz[o] \in Sizes /\ Holds(use[o], pan, o)

LEMMA InListIsDisplay ==
    ASSUME NEW outs \in Seq(Displays)
    PROVE  \A o \in ToSet(outs) : o \in Displays
BY DEF ToSet

\* The same, but for output o
HeldBut(use, sz, pan, outs, o) ==
    /\ use \in [Displays -> Areas] /\ sz \in [Displays -> Sizes \cup {0}]
    /\ outs \in Seq(Displays)
    /\ \A d \in ToSet(outs) : sz[d] \in Sizes /\ (d # o => Holds(use[d], pan, d))

\* An allocation makes up for what an output lacked and leaves the others.
LEMMA AllocatedHolds ==
    ASSUME NEW use, NEW sz, NEW pan \in PanelStates, NEW outs, NEW o,
           HeldBut(use, sz, pan, outs, o), o \in Displays => o \in ToSet(outs)
    PROVE  /\ AllHeld(Allocated(use, sz, pan, o), sz, pan, outs)
           /\ \A d \in Displays : d # o => Allocated(use, sz, pan, o)[d] = use[d]
<1>1. CASE o \notin Displays
  BY <1>1, InListIsDisplay DEF Allocated, AllHeld, HeldBut
<1>2. CASE o \in Displays
  <2> DEFINE r == Remaining(sz[o], pan, o)
  <2>1. sz[o] \in Sizes /\ sz[o] \in Nat
    BY <1>2, OutputsAssumption DEF HeldBut
  <2>2. r \in Areas /\ Holds(r, pan, o)
    BY <2>1, RemainingType DEF Holds
  <2>3. Allocated(use, sz, pan, o) = [use EXCEPT ![o] = r]
    BY <1>2 DEF Allocated
  <2> HIDE DEF r
  <2>4. \A d \in ToSet(outs) : d \in Displays
    BY InListIsDisplay DEF HeldBut
  <2> QED BY <1>2, <2>2, <2>3, <2>4 DEF AllHeld, HeldBut
<1> QED BY <1>1, <1>2

LEMMA NumbersAreNaturals == Gap \in Nat /\ \A n \in Sizes \cup {0} : n \in Nat
BY OutputsAssumption

\* At most one place in the list decides.
LEMMA OneDecides ==
    ASSUME NEW use, NEW sz, NEW outs \in Seq(Displays),
           NEW i \in Deciding(outs, use, sz), NEW j \in Deciding(outs, use, sz)
    PROVE  i = j
<1>1. i \in Int /\ j \in Int
  BY DEF Deciding
<1>2. ~(i < j) /\ ~(j < i)
  BY DEF Deciding
<1> QED BY <1>1, <1>2

\* Where an arrangement puts windows: at the box of the output that decides
LEMMA ArrangedFacts ==
    ASSUME NEW use, NEW sz, NEW pan \in PanelStates, NEW outs, AllHeld(use, sz, pan, outs),
           tiled \in Areas
    PROVE  /\ Arranged(outs, use, sz) \in Areas
           /\ \A i \in Deciding(outs, use, sz) : Arranged(outs, use, sz) = Box(use, sz, outs[i])
<1>1. CASE Deciding(outs, use, sz) = {}
  BY <1>1 DEF Arranged
<1>2. CASE Deciding(outs, use, sz) # {}
  <2>1. PICK i \in Deciding(outs, use, sz) : i = CHOOSE k \in Deciding(outs, use, sz) : TRUE
    BY <1>2
  <2>2. Arranged(outs, use, sz) = Box(use, sz, outs[i])
    BY <1>2, <2>1 DEF Arranged
  <2>3. outs[i] \in Displays /\ HasRoom(use, sz, outs[i])
    BY DEF Deciding, AllHeld
  <2>4. Box(use, sz, outs[i]) \in Areas
    <3>1. use[outs[i]] \in Areas /\ sz[outs[i]] \in Nat /\ Gap \in Nat
      <4>1. use[outs[i]] \in Areas /\ sz[outs[i]] \in Sizes \cup {0}
        BY <2>3 DEF AllHeld
      <4> QED BY <4>1, NumbersAreNaturals
    <3> QED BY <2>3, <3>1 DEF Box, HasRoom, Areas
  <2>5. outs \in Seq(Displays)
    BY DEF AllHeld
  <2> QED BY <2>2, <2>4, <2>5, OneDecides
<1> QED BY <1>1, <1>2

\* With the room that panels leave, windows are a gap away from all of them.
LEMMA BoxIsClear ==
    ASSUME NEW use, NEW sz, NEW pan \in PanelStates, NEW outs, AllHeld(use, sz, pan, outs),
           NEW o \in ToSet(outs), use[o].len > 0
    PROVE  \E n \in Sizes :
                /\ use[o] = Remaining(n, pan, o)
                /\ Box(use, sz, o).at = Near(pan, o) + Gap
                /\ Box(use, sz, o).at + Box(use, sz, o).len + Gap + Far(pan, o) = n
<1>1. PICK n \in Sizes : use[o] = Remaining(n, pan, o)
  BY DEF AllHeld, Holds, Unset
<1>2. n \in Nat /\ Gap \in Nat /\ Near(pan, o) \in Nat /\ Far(pan, o) \in Nat
  BY ClaimsAreNaturals, OutputsAssumption
<1>3. Near(pan, o) + Far(pan, o) < n /\ use[o].at = Near(pan, o)
      /\ use[o].len = n - (Near(pan, o) + Far(pan, o))
  BY <1>1, <1>2 DEF Remaining
<1>4. /\ Box(use, sz, o).at = Near(pan, o) + Gap
      /\ Box(use, sz, o).len = n - (Near(pan, o) + Far(pan, o)) - 2 * Gap
  BY <1>3 DEF Box
<1> HIDE DEF Box
<1> QED BY <1>1, <1>2, <1>4

LEMMA Fields ==
    ASSUME IInv
    PROVE  /\ panel \in PanelStates /\ AllHeld(usable, size, panel, outputs)
           /\ tiled \in Areas /\ outputs \in Seq(Displays) /\ IsInjective(outputs)
           /\ fault \in BOOLEAN /\ ToSet(outputs) = Range(outputs)
<1>1. TypeOK
  BY DEF IInv
<1>2. panel \in PanelStates /\ outputs \in Seq(Displays) /\ tiled \in Areas
  BY <1>1 DEF TypeOK, PanelStates, Areas
<1>3. AllHeld(usable, size, panel, outputs)
  BY <1>1, <1>2, InListIsDisplay DEF IInv, TypeOK, DisplayOK, AllHeld, Areas
<1> QED BY <1>1, <1>2, <1>3 DEF TypeOK, ToSet, Range

\* A change of the layout, of outputs outs with areas use and sizes sz
LEMMA LayoutStep ==
    ASSUME IInv, NEW outs, NEW use, NEW sz, AllHeld(use, sz, panel', outs), IsInjective(outs),
           panel' \in PanelStates, outputs' = outs, size' = sz, LayoutChanged(outs, use, sz),
           \A o \in ToSet(outs) : Zones(panel, o, "near") = Zones(panel', o, "near")
                                  /\ Zones(panel, o, "far") = Zones(panel', o, "far"),
           \A p \in Panels : HomeOK(p)', fault' \in BOOLEAN,
           \A d \in Displays : d \notin ToSet(outs) => use[d] = Unset
    PROVE  IInv'
<1>1. PICK o \in Range(outs) \cup {NoDisplay} : usable' = Allocated(use, sz, panel, o)
  BY DEF LayoutChanged
<1>2. (o \in Displays => o \in ToSet(outs)) /\ (o \notin Displays \/ o \in ToSet(outs))
  BY OutputsAssumption DEF Range, ToSet
<1>3. usable' = Allocated(use, sz, panel', o)
  BY <1>1, <1>2 DEF Allocated, Remaining, Near, Far
<1>4. /\ AllHeld(usable', sz, panel', outs)
      /\ \A d \in Displays : d # o => usable'[d] = use[d]
  BY <1>2, <1>3, AllocatedHolds DEF AllHeld, HeldBut
<1>5. tiled' = Arranged(outs, use, sz)
  BY DEF LayoutChanged
<1>6. tiled' \in Areas
  BY <1>5, Fields, ArrangedFacts
<1>7. TypeOK'
  BY <1>4, <1>6 DEF TypeOK, AllHeld, PanelStates, Areas
<1>8. \A d \in Displays : DisplayOK(d)'
  BY <1>2, <1>4 DEF DisplayOK, AllHeld
<1> QED BY <1>7, <1>8 DEF IInv

\* What follows a change of one panel on output o
LEMMA ReallocateStep ==
    ASSUME IInv, NEW o, o \in Displays => o \in ToSet(outputs), panel' \in PanelStates,
           Reallocate(panel', o), outputs' = outputs, size' = size,
           \A p \in Panels : HomeOK(p)', fault' \in BOOLEAN,
           \A d \in ToSet(outputs) : d # o =>
               \A a : Holds(a, panel, d) => Holds(a, panel', d)
    PROVE  /\ IInv'
           /\ AllHeld(usable', size, panel', outputs)
           /\ o \in Displays => usable'[o] = Remaining(size[o], panel', o)
           /\ \A i \in Deciding(outputs, usable', size) : tiled' = Box(usable', size, outputs[i])
<1>1. HeldBut(usable, size, panel', outputs, o)
  BY Fields DEF AllHeld, HeldBut
<1>2. usable' = Allocated(usable, size, panel', o) /\ tiled' = Arranged(outputs, usable', size)
  BY DEF Reallocate
<1>3. /\ AllHeld(usable', size, panel', outputs)
      /\ \A d \in Displays : d # o => usable'[d] = usable[d]
  <2>1. PICK pan \in PanelStates : pan = panel'
    OBVIOUS
  <2>2. HeldBut(usable, size, pan, outputs, o) /\ usable' = Allocated(usable, size, pan, o)
    BY <1>1, <1>2, <2>1
  <2>3. /\ AllHeld(Allocated(usable, size, pan, o), size, pan, outputs)
        /\ \A d \in Displays : d # o => Allocated(usable, size, pan, o)[d] = usable[d]
    BY <2>1, <2>2, AllocatedHolds
  <2> QED BY <2>1, <2>2, <2>3
<1>4. /\ tiled' \in Areas
      /\ \A i \in Deciding(outputs, usable', size) : tiled' = Box(usable', size, outputs[i])
  <2>1. PICK pan \in PanelStates : pan = panel'
    OBVIOUS
  <2>2. AllHeld(usable', size, pan, outputs) /\ tiled \in Areas
    BY <1>3, <2>1, Fields
  <2> QED BY <1>2, <2>2, ArrangedFacts
<1>5. TypeOK'
  BY <1>3, <1>4, Fields DEF TypeOK, AllHeld, PanelStates, Areas
<1>6. \A d \in Displays : DisplayOK(d)'
  BY <1>3 DEF IInv, DisplayOK, AllHeld
<1>7. o \in Displays => usable'[o] = Remaining(size[o], panel', o)
  BY <1>2, Fields DEF Allocated, AllHeld
<1> QED BY <1>3, <1>4, <1>5, <1>6, <1>7 DEF IInv
----------------------------------------------------------------------------
(* The steps *)

LEMMA ListNow == IInv => \A o : o \in Range(outputs) <=> o \in ToSet(outputs)
BY Fields

LEMMA NewOutputStep ==
    ASSUME IInv, NEW o \in Displays, NEW n \in Sizes, NewOutput(o, n)
    PROVE  IInv'
<1> DEFINE outs == Cons(o, outputs)
           sz == [size EXCEPT ![o] = n]
<1>1. /\ o \notin ToSet(outputs) /\ outputs' = outs /\ size' = sz
      /\ LayoutChanged(outs, usable, sz) /\ panel' = panel /\ fault' = fault
  BY ListNow DEF NewOutput
<1>2. outs \in Seq(Displays) /\ IsInjective(outs) /\ ToSet(outs) = ToSet(outputs) \cup {o}
  BY <1>1, Fields, ConsFacts
<1>3. Holds(usable[o], panel, o)
  <2>1. usable[o] = Unset
    BY <1>1 DEF IInv, DisplayOK
  <2>2. \A p \in Panels : panel[p].home # o
    BY <1>1 DEF IInv, HomeOK
  <2> QED BY <2>1, <2>2, Fields, ClaimsAreNaturals DEF Holds
<1> HIDE DEF outs
<1>4. AllHeld(usable, sz, panel, outs)
  BY <1>2, <1>3, Fields DEF AllHeld
<1>5. \A d \in Displays : d \notin ToSet(outs) => usable[d] = Unset
  BY <1>2 DEF IInv, DisplayOK
<1>6. \A p \in Panels : HomeOK(p)'
  BY <1>1, <1>2 DEF IInv, HomeOK
<1> HIDE DEF sz
<1> QED BY <1>1, <1>2, <1>4, <1>5, <1>6, Fields, LayoutStep

LEMMA SizeStep ==
    ASSUME IInv, NEW sz, AllHeld(usable, sz, panel, outputs), size' = sz,
           LayoutChanged(outputs, usable, sz), UNCHANGED <<outputs, panel, fault>>
    PROVE  IInv'
<1>1. \A d \in Displays : d \notin ToSet(outputs) => usable[d] = Unset
  BY DEF IInv, DisplayOK
<1>2. \A p \in Panels : HomeOK(p)'
  BY DEF IInv, HomeOK
<1> QED BY <1>1, <1>2, Fields, LayoutStep

LEMMA ResizeOutputStep ==
    ASSUME IInv, NEW o \in Displays, NEW n \in Sizes, ResizeOutput(o, n)
    PROVE  IInv'
<1> DEFINE sz == [size EXCEPT ![o] = n]
<1>1. size' = sz /\ LayoutChanged(outputs, usable, sz) /\ UNCHANGED <<outputs, panel, fault>>
  BY DEF ResizeOutput
<1>2. AllHeld(usable, sz, panel, outputs)
  BY Fields DEF AllHeld
<1> HIDE DEF sz
<1> QED BY <1>1, <1>2, SizeStep

LEMMA MoveOutputStep ==
    ASSUME IInv, MoveOutput
    PROVE  IInv'
BY Fields, SizeStep DEF MoveOutput

LEMMA OutputDestroyStep ==
    ASSUME IInv, NEW o \in Displays, OutputDestroy(o)
    PROVE  IInv'
<1> DEFINE outs == Unlink(outputs, o)
           sz == [size EXCEPT ![o] = 0]
           use == [usable EXCEPT ![o] = Unset]
           pan == [p \in Panels |->
                    IF panel[p].home = o THEN [panel[p] EXCEPT !.home = Lost] ELSE panel[p]]
<1>1. /\ outputs' = outs /\ size' = sz /\ panel' = pan /\ fault' = fault
      /\ LayoutChanged(outs, use, sz)
  BY DEF OutputDestroy
<1>2. outs \in Seq(Displays) /\ IsInjective(outs) /\ ToSet(outs) = ToSet(outputs) \ {o}
  BY Fields, UnlinkType, UnlinkFacts
<1> HIDE DEF outs
<1>3. pan \in PanelStates
  BY Fields DEF PanelStates
<1>4. \A p \in Panels : IF panel[p].home = o
                        THEN pan[p].home = Lost /\ pan[p].stage = panel[p].stage
                        ELSE pan[p] = panel[p]
  BY Fields DEF PanelStates
<1> HIDE DEF pan
<1>5. Lost \notin Displays /\ NoDisplay \notin Displays
  BY OutputsAssumption
<1>6. \A p \in Panels : HomeOK(p)'
  BY <1>1, <1>2, <1>4, <1>5 DEF IInv, HomeOK, NoPanel
<1>7. \A d \in ToSet(outs) : d # o /\ d # Lost
  BY <1>2, <1>5, InListIsDisplay
<1>8. ASSUME NEW d \in ToSet(outs)
      PROVE  /\ Zones(panel, d, "near") = Zones(pan, d, "near")
             /\ Zones(panel, d, "far") = Zones(pan, d, "far")
             /\ \A a : Holds(a, panel, d) => Holds(a, pan, d)
  <2>1. \A p \in Panels : \/ pan[p] = panel[p]
                          \/ panel[p].home # d /\ pan[p].home # d
    BY <1>4, <1>7
  <2>2. \A a : Holds(a, panel, d) => Holds(a, pan, d)
    BY <2>1, SameClaims
  <2> QED BY <2>1, <2>2 DEF Zones
<1>9. AllHeld(use, sz, pan, outs)
  BY <1>2, <1>7, <1>8, Fields DEF AllHeld, Areas, Unset
<1>10. \A d \in Displays : d \notin ToSet(outs) => use[d] = Unset
  BY <1>2, Fields DEF IInv, DisplayOK, AllHeld
<1> HIDE DEF sz, use
<1> QED BY <1>1, <1>2, <1>3, <1>6, <1>8, <1>9, <1>10, Fields, LayoutStep

\* A new panel claims nothing yet.
LEMMA NewLayerSurfaceStep ==
    ASSUME IInv, NEW p \in Panels, NEW o \in Displays \cup {NoDisplay}, NewLayerSurface(p, o)
    PROVE  IInv'
<1> DEFINE h == IF o = NoDisplay THEN Head(outputs) ELSE o
           k == [stage |-> "new", claim |-> NoClaim, home |-> h]
<1>1. /\ panel[p].stage = "none" /\ panel' = [panel EXCEPT ![p] = k]
      /\ UNCHANGED <<outputs, size, usable, tiled, fault>>
      /\ o # NoDisplay \/ outputs # << >>
      /\ o \in ToSet(outputs) \cup {NoDisplay}
  BY ListNow DEF NewLayerSurface
<1>2. h \in ToSet(outputs) /\ h \in Displays
  <2>1. outputs # << >> => Head(outputs) \in ToSet(outputs)
    BY Fields DEF ToSet
  <2> QED BY <1>1, <2>1, ListNow, Fields, InListIsDisplay DEF NewLayerSurface
<1> HIDE DEF h
<1>3. panel' \in PanelStates /\ panel'[p] = k /\ \A q \in Panels : q # p => panel'[q] = panel[q]
  BY <1>1, <1>2, Fields DEF PanelStates
<1>4. \A q \in Panels : HomeOK(q)'
  BY <1>1, <1>2, <1>3 DEF IInv, HomeOK
<1>5. panel[p].claim = NoClaim
  BY <1>1 DEF IInv, HomeOK, NoPanel
<1>6. \A d : /\ Near(panel', d) = Near(panel, d)
             /\ \A a : Holds(a, panel, d) => Holds(a, panel', d)
  <2>1. \A q \in Panels : \/ panel'[q] = panel[q]
                          \/ panel[q].claim = NoClaim /\ panel'[q].claim = NoClaim
    BY <1>3, <1>5
  <2> QED BY <2>1, SameClaims
<1>7. \A d \in Displays : DisplayOK(d)'
  BY <1>1, <1>6 DEF IInv, DisplayOK
<1>9. TypeOK'
  BY <1>1, <1>3 DEF IInv, TypeOK, PanelStates
<1> QED BY <1>4, <1>7, <1>9 DEF IInv

\* What windows and areas are like when the claims on an output have changed
Moved ==
    /\ AllHeld(usable', size, panel', outputs) /\ UNCHANGED <<outputs, size>>
    /\ panel' \in PanelStates
    /\ \A o \in Displays : ClaimsChangeOn(o) => usable'[o] = Remaining(size[o], panel', o)
    /\ \A i \in Deciding(outputs, usable', size) : tiled' = Box(usable', size, outputs[i])

\* A panel at home on o gets another state there, or goes.
LEMMA PanelStep ==
    ASSUME IInv, NEW p \in Panels, NEW k, panel' = [panel EXCEPT ![p] = k],
           k \in [stage : {"none", "new", "committed"}, claim : Claims \cup {NoClaim},
                  home : Displays \cup {NoDisplay, Lost}],
           k = NoPanel \/ (k.stage # "none" /\ k.home = panel[p].home),
           UsesOutput(p), Reallocate(panel', panel[p].home), UNCHANGED <<outputs, size>>
    PROVE  IInv' /\ Moved
<1>1. panel' \in PanelStates /\ panel'[p] = k /\ \A q \in Panels : q # p => panel'[q] = panel[q]
  BY Fields DEF PanelStates
<1>2. PICK o : o = panel[p].home
  OBVIOUS
<1>3. o \in Displays => o \in ToSet(outputs)
  BY <1>2 DEF IInv, HomeOK
<1>4. \A q \in Panels : HomeOK(q)'
  BY <1>1, <1>2, OutputsAssumption DEF IInv, HomeOK, NoPanel
<1>5. fault' \in BOOLEAN
  BY DEF UsesOutput
<1>6. ASSUME NEW d \in ToSet(outputs), NEW a, d # o, Holds(a, panel, d)
      PROVE  Holds(a, panel', d)
  <2>1. d # NoDisplay
    BY <1>6, Fields, InListIsDisplay, OutputsAssumption
  <2>2. k.home # d
    BY <1>2, <1>6, <2>1 DEF NoPanel
  <2>3. \A q \in Panels : \/ panel'[q] = panel[q]
                          \/ panel[q].home # d /\ panel'[q].home # d
    BY <1>1, <1>2, <1>6, <2>2
  <2> QED BY <1>6, <2>3, SameClaims
<1>7. /\ IInv' /\ AllHeld(usable', size, panel', outputs)
      /\ o \in Displays => usable'[o] = Remaining(size[o], panel', o)
      /\ \A i \in Deciding(outputs, usable', size) : tiled' = Box(usable', size, outputs[i])
  BY <1>1, <1>2, <1>3, <1>4, <1>5, <1>6, ReallocateStep
<1>8. \A d \in Displays : ClaimsChangeOn(d) => d = o
  BY <1>1, <1>2 DEF ClaimsChangeOn
<1> QED BY <1>1, <1>7, <1>8 DEF Moved

LEMMA LayerCommitStep ==
    ASSUME IInv, NEW p \in Panels, NEW c \in Claims, LayerCommit(p, c)
    PROVE  IInv' /\ Moved
<1> DEFINE k == [panel[p] EXCEPT !.stage = "committed", !.claim = c]
<1>1. /\ panel' = [panel EXCEPT ![p] = k]
      /\ UsesOutput(p) /\ Reallocate(panel', panel[p].home) /\ UNCHANGED <<outputs, size>>
  BY Fields DEF LayerCommit, PanelStates
<1>2. /\ k \in [stage : {"none", "new", "committed"}, claim : Claims \cup {NoClaim},
               home : Displays \cup {NoDisplay, Lost}]
      /\ k.stage # "none" /\ k.home = panel[p].home
  BY Fields DEF PanelStates
<1> HIDE DEF k
<1> QED BY <1>1, <1>2, PanelStep

LEMMA LayerDestroyStep ==
    ASSUME IInv, NEW p \in Panels, LayerDestroy(p)
    PROVE  IInv' /\ Moved
<1>1. NoPanel \in [stage : {"none", "new", "committed"}, claim : Claims \cup {NoClaim},
                   home : Displays \cup {NoDisplay, Lost}]
  BY DEF NoPanel
<1>2. /\ panel' = [panel EXCEPT ![p] = NoPanel]
      /\ UsesOutput(p) /\ Reallocate(panel', panel[p].home) /\ UNCHANGED <<outputs, size>>
  BY DEF LayerDestroy
<1> QED BY <1>1, <1>2, PanelStep
----------------------------------------------------------------------------
(* The theorems *)

LEMMA InitIInv == Init => IInv
<1> SUFFICES ASSUME Init PROVE IInv
  OBVIOUS
<1>1. outputs = << >> /\ ToSet(outputs) = {} /\ IsInjective(outputs) /\ outputs \in Seq(Displays)
  BY DEF Init, ToSet, IsInjective
<1>2. TypeOK
  BY <1>1 DEF Init, TypeOK, NoPanel, Unset
<1> QED BY <1>1, <1>2, OutputsAssumption DEF Init, IInv, HomeOK, DisplayOK, NoPanel

LEMMA NextIInv == IInv /\ [Next]_outputsVars => IInv'
<1> SUFFICES ASSUME IInv, [Next]_outputsVars PROVE IInv'
  OBVIOUS
<1>1. CASE \E o \in Displays, n \in Sizes : NewOutput(o, n) \/ ResizeOutput(o, n)
  BY <1>1, NewOutputStep, ResizeOutputStep
<1>2. CASE MoveOutput
  BY <1>2, MoveOutputStep
<1>3. CASE \E o \in Displays : OutputDestroy(o)
  BY <1>3, OutputDestroyStep
<1>4. CASE \E p \in Panels, o \in Displays \cup {NoDisplay} : NewLayerSurface(p, o)
  BY <1>4, NewLayerSurfaceStep
<1>5. CASE \E p \in Panels, c \in Claims : LayerCommit(p, c)
  BY <1>5, LayerCommitStep
<1>6. CASE \E p \in Panels : LayerDestroy(p)
  BY <1>6, LayerDestroyStep
<1>7. CASE UNCHANGED outputsVars
  BY <1>7 DEF outputsVars, IInv, TypeOK, HomeOK, DisplayOK
<1> QED BY <1>1, <1>2, <1>3, <1>4, <1>5, <1>6, <1>7 DEF Next

\* The invariant below the others: a panel that has a display is linked to one
\* that is there, and an output that has gone keeps neither panels nor an area
\* (src/output.c:90-100, src/layershell.c:55-108).
THEOREM PanelsAreInductive == Spec => []IInv
<1> QED BY InitIInv, NextIInv, PTL DEF Spec

\* In every reachable state the usable area of each output leaves out exactly
\* what the panels on it claim (src/layershell.c:55-108), and every variable
\* has its type.
THEOREM PanelsAlwaysHoldTheirSpace == Spec => []PanelsHoldTheirSpace
<1>1. IInv => PanelsHoldTheirSpace
  BY ListNow, Fields, InListIsDisplay DEF IInv, DisplayOK, Holds, PanelsHoldTheirSpace
<1> QED BY <1>1, PanelsAreInductive, PTL

\* Only a panel's commit and its end change what panels claim.
LEMMA OthersClaimTheSame ==
    ASSUME IInv, [Next]_outputsVars,
           ~\E p \in Panels, c \in Claims : LayerCommit(p, c),
           ~\E p \in Panels : LayerDestroy(p)
    PROVE  \A o \in Displays : ~ClaimsChangeOn(o)
<1> SUFFICES \A p \in Panels : panel[p].home \in Displays => panel'[p].claim = panel[p].claim
  BY DEF ClaimsChangeOn
<1>1. CASE UNCHANGED panel
  BY <1>1
<1>2. ASSUME NEW o \in Displays, OutputDestroy(o)
      PROVE  \A p \in Panels : panel'[p].claim = panel[p].claim
  <2>1. \A p \in Panels : panel'[p] = IF panel[p].home = o
                                      THEN [panel[p] EXCEPT !.home = Lost] ELSE panel[p]
    BY <1>2 DEF OutputDestroy
  <2> QED BY <2>1, Fields DEF PanelStates
<1>3. ASSUME NEW p \in Panels, NEW o \in Displays \cup {NoDisplay}, NewLayerSurface(p, o)
      PROVE  \A q \in Panels : panel[q].home \in Displays => panel'[q].claim = panel[q].claim
  <2>1. /\ panel[p].home = NoDisplay
        /\ \A q \in Panels : q # p => panel'[q] = panel[q]
    BY <1>3, Fields DEF NewLayerSurface, IInv, HomeOK, NoPanel, PanelStates
  <2> QED BY <2>1, OutputsAssumption
<1> QED BY <1>1, <1>2, <1>3
    DEF Next, outputsVars, NewOutput, ResizeOutput, MoveOutput

\* Whenever a panel has changed what it claims, windows are a gap away from all
\* panels of the output they are shown on, at both edges.
THEOREM WindowsAlwaysClear == Spec => WindowsClearOfPanels
<1> DEFINE Clear ==
        \A o \in Displays : ClaimsChangeOn(o) =>
            \A i \in Deciding(outputs', usable', size') :
                LET shown == outputs'[i]
                    end   == tiled'.at + tiled'.len + Gap + Far(panel', shown)
                IN  usable'[shown].len > 0 =>
                        /\ tiled'.at = Near(panel', shown) + Gap
                        /\ end \in Sizes
                        /\ shown = o => end = size'[shown]
<1>1. ASSUME IInv, [Next]_outputsVars PROVE Clear
  <2>1. SUFFICES ASSUME NEW o \in Displays, ClaimsChangeOn(o),
                        NEW i \in Deciding(outputs', usable', size'),
                        usable'[outputs'[i]].len > 0
                 PROVE  /\ tiled'.at = Near(panel', outputs'[i]) + Gap
                        /\ LET end == tiled'.at + tiled'.len + Gap + Far(panel', outputs'[i])
                           IN  end \in Sizes /\ (outputs'[i] = o => end = size'[outputs'[i]])
    OBVIOUS
  <2>2. Moved
    BY <1>1, <2>1, OthersClaimTheSame, LayerCommitStep, LayerDestroyStep
  <2>3. /\ outputs' = outputs /\ size' = size /\ tiled' = Box(usable', size, outputs[i])
        /\ AllHeld(usable', size, panel', outputs) /\ panel' \in PanelStates
        /\ usable'[o] = Remaining(size[o], panel', o)
    BY <2>1, <2>2 DEF Moved
  <2>4. PICK d : d = outputs[i] /\ d \in ToSet(outputs)
    BY <2>1, <2>3 DEF Deciding, ToSet
  <2>5. PICK n \in Sizes :
            /\ usable'[d] = Remaining(n, panel', d)
            /\ Box(usable', size, d).at = Near(panel', d) + Gap
            /\ Box(usable', size, d).at + Box(usable', size, d).len + Gap + Far(panel', d) = n
    BY <2>1, <2>3, <2>4, BoxIsClear
  <2>6. d = o => n = size[o]
    <3>1. n \in Nat /\ size[o] \in Nat /\ Near(panel', o) \in Nat /\ Far(panel', o) \in Nat
      <4>1. size[o] \in Sizes \cup {0} /\ n \in Sizes
        BY <2>3 DEF AllHeld
      <4>2. Near(panel', o) \in Nat /\ Far(panel', o) \in Nat
        BY <2>3, ClaimsAreNaturals
      <4> QED BY <4>1, <4>2, NumbersAreNaturals
    <3>2. d = o => Remaining(n, panel', o).len = Remaining(size[o], panel', o).len
                   /\ Remaining(n, panel', o).len > 0
      BY <2>1, <2>3, <2>4, <2>5
    <3> QED BY <3>1, <3>2 DEF Remaining
  <2> QED BY <2>3, <2>4, <2>5, <2>6
<1>2. Spec => [][Clear]_outputsVars
  <2> HIDE DEF Clear
  <2> QED BY <1>1, PanelsAreInductive, PTL DEF Spec
<1> QED BY <1>2 DEF WindowsClearOfPanels
=============================================================================
