---------------------------- MODULE Services_proofs ----------------------------
(***************************************************************************)
(* What holds of the services, each by itself and side by side: changed    *)
(* colours have an owner, idling is inhibited exactly while it should be,  *)
(* an error bar goes on time, and the IPC server holds a connection only   *)
(* while it serves it, for any outputs, clients, clocks, durations,        *)
(* plugins and backlogs.                                                   *)
(***************************************************************************)
EXTENDS MCServices, Ipc, SequenceTheorems, FiniteSetTheorems, TLAPS

(* Colours *)

ScreenType == [power : {"on", "off", "gone"}, ramp : BOOLEAN, kept : BOOLEAN]
ControlType == [screen : Screens \cup {NoScreen}, live : BOOLEAN, sets : Nat]

GammaTypes ==
    /\ screen \in [Screens -> ScreenType]
    /\ control \in [Controls -> ControlType]
    /\ gammaFault \in BOOLEAN

\* Control c will reset the colours of output s.
Owns(ctl, c, s) == ctl[c].screen = s /\ ctl[c].sets > 0

Owned(scr, ctl) ==
    \A s \in Screens : (scr[s].ramp /\ ~scr[s].kept) => \E c \in Controls : Owns(ctl, c, s)

\* A control that wlroots still has is a control of some output.
LiveHaveScreens == \A c \in Controls : control[c].live => control[c].screen \in Screens

GammaInv == GammaTypes /\ LiveHaveScreens /\ RampHasOwner

\* Records that differ in one field have the same type.
LEMMA ScreenFieldTypes ==
    ASSUME NEW r \in ScreenType, NEW b \in BOOLEAN, NEW p \in {"on", "off"}
    PROVE  /\ [r EXCEPT !.ramp = b] \in ScreenType
           /\ [r EXCEPT !.kept = b] \in ScreenType
           /\ [r EXCEPT !.ramp = b, !.kept = b] \in ScreenType
           /\ [r EXCEPT !.power = p] \in ScreenType
<1>1. r = [power |-> r.power, ramp |-> r.ramp, kept |-> r.kept]
      /\ r.power \in {"on", "off", "gone"} /\ r.ramp \in BOOLEAN /\ r.kept \in BOOLEAN
  BY DEF ScreenType
<1>2. [r EXCEPT !.ramp = b] \in ScreenType
  BY <1>1 DEF ScreenType
<1>3. [r EXCEPT !.kept = b] \in ScreenType
  BY <1>1 DEF ScreenType
<1>4. [r EXCEPT !.ramp = b, !.kept = b] \in ScreenType
  BY <1>1 DEF ScreenType
<1>5. [r EXCEPT !.power = p] \in ScreenType
  BY <1>1 DEF ScreenType
<1> QED BY <1>2, <1>3, <1>4, <1>5

LEMMA ControlFieldTypes ==
    ASSUME NEW q \in ControlType
    PROVE  /\ [q EXCEPT !.sets = q.sets + 1] \in ControlType
           /\ [q EXCEPT !.live = FALSE] \in ControlType
<1>1. q = [screen |-> q.screen, live |-> q.live, sets |-> q.sets]
      /\ q.screen \in Screens \cup {NoScreen} /\ q.live \in BOOLEAN /\ q.sets \in Nat
  BY DEF ControlType
<1>2. [q EXCEPT !.sets = q.sets + 1] \in ControlType
  BY <1>1 DEF ControlType
<1>3. [q EXCEPT !.live = FALSE] \in ControlType
  BY <1>1 DEF ControlType
<1> QED BY <1>2, <1>3

LEMMA StartTypes ==
    /\ FreshScreen \in ScreenType /\ ~FreshScreen.ramp
    /\ NoControl \in ControlType /\ ~NoControl.live
BY DEF FreshScreen, ScreenType, NoControl, ControlType

\* A control that changes without giving up its output or its listeners goes
\* on owning what it owned.
LEMMA OwnersStay ==
    ASSUME NEW ctl, NEW new, NEW scr, Owned(scr, ctl),
           \A c \in Controls : new[c].screen = ctl[c].screen /\ new[c].sets = ctl[c].sets
    PROVE  Owned(scr, new)
BY DEF Owned, Owns

LEMMA GammaStep == GammaInv /\ [GammaNext]_gammaVars => GammaInv'
<1> SUFFICES ASSUME GammaInv, [GammaNext]_gammaVars
             PROVE  GammaInv'
  OBVIOUS
<1>0. /\ GammaTypes /\ LiveHaveScreens
      /\ ~gammaFault => Owned(screen, control)
  BY DEF GammaInv, RampHasOwner, Owned, Owns
<1>g. ASSUME GammaTypes', LiveHaveScreens', ~gammaFault' => Owned(screen', control')
      PROVE  GammaInv'
  BY <1>g DEF GammaInv, RampHasOwner, Owned, Owns
<1>u. CASE UNCHANGED gammaVars
  BY <1>u DEF gammaVars, GammaInv, GammaTypes, LiveHaveScreens, RampHasOwner
<1> SUFFICES ASSUME GammaNext
             PROVE  GammaInv'
  BY <1>u
<1>f. ~gammaFault /\ Owned(screen, control)
  BY <1>0 DEF GammaNext
<1>1. ASSUME NEW c \in Controls, NEW s \in Screens, CreateControl(c, s)
      PROVE  GammaInv'
  <2>1. PICK l \in BOOLEAN : control' = [control EXCEPT ![c] = [screen |-> s, sets |-> 0, live |-> l]]
    BY <1>1 DEF CreateControl
  <2>2. /\ screen' = screen /\ gammaFault' = gammaFault /\ control[c].sets = 0
    BY <1>1 DEF CreateControl, NoControl
  <2>3. GammaTypes' /\ LiveHaveScreens'
    BY <1>0, <2>1, <2>2 DEF GammaTypes, ControlType, LiveHaveScreens
  <2>4. \A d \in Controls : control[d].sets > 0 => control'[d] = control[d]
    BY <1>0, <2>1, <2>2 DEF GammaTypes, ControlType
  <2>5. Owned(screen', control')
    BY <1>f, <2>2, <2>4 DEF Owned, Owns
  <2> QED BY <2>3, <2>5, <1>g
<1>2. ASSUME NEW c \in Controls,
             control' = [control EXCEPT ![c].live = FALSE],
             screen' = screen, gammaFault' \in BOOLEAN
      PROVE  GammaInv'
  <2>1. GammaTypes' /\ LiveHaveScreens'
    BY <1>0, <1>2 DEF GammaTypes, ControlType, LiveHaveScreens
  <2>2. \A d \in Controls : control'[d].screen = control[d].screen
                            /\ control'[d].sets = control[d].sets
    BY <1>0, <1>2 DEF GammaTypes, ControlType
  <2>3. Owned(screen', control')
    BY <1>f, <1>2, <2>2 DEF Owned, Owns
  <2> QED BY <2>1, <2>3, <1>g
<1>3. ASSUME NEW c \in Controls, RampAccepted(c)
      PROVE  GammaInv'
  <2> DEFINE s == control[c].screen
  <2>1. /\ s \in Screens
        /\ screen' = [screen EXCEPT ![s].ramp = TRUE]
        /\ control' = [control EXCEPT ![c].sets = @ + 1]
        /\ gammaFault' = gammaFault
    BY <1>0, <1>3 DEF RampAccepted, LiveHaveScreens
  <2>2. GammaTypes' /\ LiveHaveScreens'
    <3>1. [screen[s] EXCEPT !.ramp = TRUE] \in ScreenType
      BY <1>0, <2>1, ScreenFieldTypes DEF GammaTypes
    <3>2. [control[c] EXCEPT !.sets = control[c].sets + 1] \in ControlType
      BY <1>0, ControlFieldTypes DEF GammaTypes
    <3>3. screen' \in [Screens -> ScreenType] /\ control' \in [Controls -> ControlType]
      BY <1>0, <2>1, <3>1, <3>2 DEF GammaTypes
    <3>4. \A d \in Controls : control'[d].live = control[d].live
                              /\ control'[d].screen = control[d].screen
      BY <1>0, <2>1 DEF GammaTypes, ControlType
    <3> QED BY <1>0, <2>1, <3>3, <3>4 DEF GammaTypes, LiveHaveScreens
  <2>3. Owns(control', c, s)
    BY <1>0, <2>1 DEF GammaTypes, ControlType, Owns
  <2>4. ASSUME NEW d \in Controls, NEW t \in Screens, Owns(control, d, t)
        PROVE  Owns(control', d, t)
    BY <1>0, <2>1, <2>4 DEF GammaTypes, ControlType, Owns
  <2>5. \A t \in Screens : t # s => screen'[t] = screen[t]
    BY <1>0, <2>1 DEF GammaTypes
  <2>6. Owned(screen', control')
    BY <1>f, <2>3, <2>4, <2>5 DEF Owned
  <2> QED BY <2>2, <2>6, <1>g
<1>4. ASSUME NEW c \in Controls, NEW accepted \in BOOLEAN, ControlGoes(c, accepted)
      PROVE  GammaInv'
  <2> DEFINE s == control[c].screen
  <2>1. /\ control' = [control EXCEPT ![c] = NoControl]
        /\ gammaFault' \in BOOLEAN
        /\ \/ screen' = screen /\ control[c].sets = 0
           \/ screen' = screen /\ gammaFault'
           \/ screen' = ResetColours(s, accepted)
    BY <1>4 DEF ControlGoes
  <2>2. NoControl \in ControlType /\ ~NoControl.live
    BY StartTypes
  <2>3. screen' \in [Screens -> ScreenType]
    <3>1. CASE screen' = screen
      BY <1>0, <3>1 DEF GammaTypes
    <3>2. CASE screen' = ResetColours(s, accepted) /\ s \in Screens
      <4>1. /\ [screen[s] EXCEPT !.ramp = FALSE, !.kept = FALSE] \in ScreenType
            /\ [screen[s] EXCEPT !.kept = TRUE] \in ScreenType
        BY <1>0, <3>2, ScreenFieldTypes DEF GammaTypes
      <4> QED BY <1>0, <3>2, <4>1 DEF ResetColours, GammaTypes
    <3>3. CASE screen' = ResetColours(s, accepted) /\ s \notin Screens
      BY <1>0, <3>3 DEF ResetColours, GammaTypes
    <3> QED BY <2>1, <3>1, <3>2, <3>3
  <2>4. GammaTypes' /\ LiveHaveScreens'
    BY <1>0, <2>1, <2>2, <2>3 DEF GammaTypes, LiveHaveScreens
  <2>5. ASSUME ~gammaFault', control[c].sets > 0
        PROVE  \A t \in Screens : screen'[t].ramp /\ ~screen'[t].kept =>
                    t # s /\ screen[t].ramp /\ ~screen[t].kept
    <3>1. screen' = ResetColours(s, accepted)
      BY <2>1, <2>5, <1>0 DEF GammaTypes, ControlType
    <3>2. SUFFICES ASSUME NEW t \in Screens, screen'[t].ramp, ~screen'[t].kept
                   PROVE  t # s /\ screen[t].ramp /\ ~screen[t].kept
      OBVIOUS
    <3>3. CASE t = s
      <4>1. /\ screen[s] \in ScreenType
            /\ \/ screen'[s] = [screen[s] EXCEPT !.ramp = FALSE, !.kept = FALSE]
               \/ screen'[s] = [screen[s] EXCEPT !.kept = TRUE]
        BY <1>0, <3>1, <3>3 DEF ResetColours, GammaTypes
      <4>2. ~screen'[s].ramp \/ screen'[s].kept
        BY <4>1 DEF ScreenType
      <4> QED BY <3>2, <3>3, <4>2
    <3>4. CASE t # s
      <4>1. screen'[t] = screen[t]
        BY <1>0, <3>1, <3>4 DEF ResetColours, GammaTypes
      <4> QED BY <3>2, <3>4, <4>1
    <3> QED BY <3>3, <3>4
  <2>6. ASSUME NEW d \in Controls, NEW t \in Screens, Owns(control, d, t),
               t # s \/ control[c].sets = 0
        PROVE  Owns(control', d, t)
    BY <1>0, <2>1, <2>6 DEF Owns, GammaTypes, ControlType
  <2>7. CASE control[c].sets = 0
    <3>1. screen' = screen
      BY <1>4, <2>7 DEF ControlGoes
    <3>2. Owned(screen', control')
      BY <1>f, <2>6, <2>7, <3>1 DEF Owned
    <3> QED BY <2>4, <3>2, <1>g
  <2>8. CASE control[c].sets # 0
    <3>1. control[c].sets > 0
      BY <1>0, <2>8 DEF GammaTypes, ControlType
    <3>2. ~gammaFault' => Owned(screen', control')
      BY <1>f, <2>5, <2>6, <3>1 DEF Owned
    <3> QED BY <2>4, <3>2, <1>g
  <2> QED BY <2>7, <2>8
<1>5. ASSUME NEW s \in Screens, ScreenGoes(s)
      PROVE  GammaInv'
  <2> DEFINE gone == [power |-> "gone", ramp |-> FALSE, kept |-> FALSE]
  <2>1. /\ screen' = [screen EXCEPT ![s] = gone]
        /\ control' = [c \in Controls |->
                        IF control[c].screen = s THEN [control[c] EXCEPT !.live = FALSE]
                        ELSE control[c]]
        /\ gammaFault' = gammaFault
    BY <1>5 DEF ScreenGoes
  <2>2. gone \in ScreenType /\ ~gone.ramp
    BY DEF ScreenType
  <2>3. ASSUME NEW c \in Controls
        PROVE  /\ control'[c] \in ControlType
               /\ control'[c].live => control[c].live
               /\ control'[c].screen = control[c].screen
               /\ control'[c].sets = control[c].sets
    BY <1>0, <2>1 DEF GammaTypes, ControlType
  <2>4. GammaTypes' /\ LiveHaveScreens'
    BY <1>0, <2>1, <2>2, <2>3 DEF GammaTypes, LiveHaveScreens
  <2>5. Owned(screen', control)
    BY <1>0, <1>f, <2>1, <2>2 DEF Owned, GammaTypes
  <2>6. Owned(screen', control')
    BY <2>3, <2>5, OwnersStay
  <2> QED BY <2>4, <2>6, <1>g
<1>6. ASSUME NEW s \in Screens, ScreenComes(s) \/ SwitchPower(s)
      PROVE  GammaInv'
  <2>1. /\ control' = control /\ gammaFault' = gammaFault
        /\ \E p \in {"on", "off"} :
            screen' = [screen EXCEPT ![s] = FreshScreen] \/ screen' = [screen EXCEPT ![s].power = p]
    BY <1>6 DEF ScreenComes, SwitchPower
  <2>2. PICK new \in ScreenType : /\ screen' = [screen EXCEPT ![s] = new]
                                  /\ new.ramp /\ ~new.kept => screen[s].ramp /\ ~screen[s].kept
    <3>1. CASE screen' = [screen EXCEPT ![s] = FreshScreen]
      BY <3>1, StartTypes
    <3>2. ASSUME NEW p \in {"on", "off"}, screen' = [screen EXCEPT ![s].power = p]
          PROVE  \E new \in ScreenType :
                    /\ screen' = [screen EXCEPT ![s] = new]
                    /\ new.ramp /\ ~new.kept => screen[s].ramp /\ ~screen[s].kept
      <4> DEFINE new == [screen[s] EXCEPT !.power = p]
      <4>1. new \in ScreenType
        BY <1>0, <3>2, ScreenFieldTypes DEF GammaTypes
      <4>2. new.ramp = screen[s].ramp /\ new.kept = screen[s].kept
        BY <1>0 DEF GammaTypes, ScreenType
      <4>3. screen' = [screen EXCEPT ![s] = new]
        BY <3>2
      <4> QED BY <4>1, <4>2, <4>3
    <3> QED BY <2>1, <3>1, <3>2
  <2>3. GammaTypes' /\ LiveHaveScreens'
    BY <1>0, <2>1, <2>2 DEF GammaTypes, LiveHaveScreens
  <2>4. Owned(screen', control')
    BY <1>0, <1>f, <2>1, <2>2 DEF Owned, GammaTypes
  <2> QED BY <2>3, <2>4, <1>g
<1>7. CASE SwitchVT
  BY <1>0, <1>f, <1>7, <1>g DEF SwitchVT, GammaTypes, LiveHaveScreens
<1>8. ASSUME NEW c \in Controls, CommitRefused(c)
      PROVE  GammaInv'
  BY <1>2, <1>8 DEF CommitRefused
<1>9. ASSUME NEW c \in Controls, RampRefused(c)
      PROVE  GammaInv'
  BY <1>0, <1>2, <1>9 DEF RampRefused, GammaTypes
<1> QED
  BY <1>1, <1>3, <1>4, <1>5, <1>6, <1>7, <1>8, <1>9 DEF GammaNext

\* For any outputs and controls, colours that were changed have a listener
\* that puts them back, except on an output where the reset of an earlier
\* client was skipped while the session was away, or refused
\* (src/gamma.c:14-70).
THEOREM RampsAlwaysOwned == GammaSpec => []RampHasOwner
<1>1. GammaInit => GammaInv
  BY StartTypes DEF GammaInit, GammaInv, GammaTypes, LiveHaveScreens, RampHasOwner
<1>2. GammaInv => RampHasOwner
  BY DEF GammaInv
<1> QED
  BY <1>1, <1>2, GammaStep, PTL DEF GammaSpec

----------------------------------------------------------------------------
(* Idling *)

IdleInv ==
    /\ alive \subseteq Inhibitors
    /\ idle \in [count : Int, inhibited : BOOLEAN]
    /\ InhibitedWhileAny

\* One inhibitor more is one more to count, one less is one less.
LEMMA CountStep ==
    ASSUME alive \subseteq Inhibitors, NEW i \in Inhibitors
    PROVE  /\ Cardinality(alive) \in Nat
           /\ i \notin alive => Cardinality(alive \cup {i}) = Cardinality(alive) + 1
           /\ i \in alive => Cardinality(alive \ {i}) = Cardinality(alive) - 1
           /\ Cardinality(alive) > 0 <=> alive # {}
<1>1. IsFiniteSet(alive)
  BY FS_Subset, IdleAssumption
<1>2. Cardinality(alive) \in Nat
  BY <1>1, FS_CardinalityType
<1>3. i \notin alive => Cardinality(alive \cup {i}) = Cardinality(alive) + 1
  BY <1>1, FS_AddElement
<1>4. i \in alive => Cardinality(alive \ {i}) = Cardinality(alive) - 1
  BY <1>1, FS_RemoveElement
<1>5. Cardinality(alive) > 0 <=> alive # {}
  BY <1>1, <1>2, FS_EmptySet
<1> QED
  BY <1>2, <1>3, <1>4, <1>5

\* Both handlers keep the count.
LEMMA IdleStep == IdleInv /\ [IdleNext]_idleVars => IdleInv'
<1> SUFFICES ASSUME IdleInv, [IdleNext]_idleVars
             PROVE  IdleInv'
  OBVIOUS
<1>1. ASSUME NEW i \in Inhibitors, NewInhibitor(i)
      PROVE  IdleInv'
  <2>1. alive' = alive \cup {i} /\ i \notin alive /\ alive' \subseteq Inhibitors
    BY <1>1 DEF IdleInv, NewInhibitor
  <2>2. Cardinality(alive') = idle.count + 1 /\ idle.count \in Nat
    BY <2>1, CountStep DEF IdleInv, InhibitedWhileAny
  <2>3. idle' = [count |-> idle.count + 1, inhibited |-> idle.count + 1 > 0]
    BY <1>1 DEF NewInhibitor, Recount
  <2>4. idle'.inhibited <=> alive' # {}
    <3>1. idle'.inhibited <=> idle.count + 1 > 0
      BY <2>3
    <3>2. idle.count + 1 > 0
      BY <2>2
    <3>3. alive' # {}
      BY <2>1
    <3> QED
      BY <3>1, <3>2, <3>3
  <2>5. idle' \in [count : Int, inhibited : BOOLEAN] /\ idle'.count = Cardinality(alive')
    BY <2>2, <2>3
  <2> QED
    BY <2>1, <2>4, <2>5 DEF IdleInv, InhibitedWhileAny
<1>2. ASSUME NEW i \in Inhibitors, InhibitorDestroy(i)
      PROVE  IdleInv'
  <2>1. alive' = alive \ {i} /\ i \in alive /\ alive' \subseteq Inhibitors
    BY <1>2 DEF IdleInv, InhibitorDestroy
  <2>2. Cardinality(alive') = idle.count - 1 /\ idle.count \in Nat
    BY <2>1, CountStep DEF IdleInv, InhibitedWhileAny
  <2>3. idle' = [count |-> idle.count - 1, inhibited |-> idle.count - 1 > 0]
    BY <1>2 DEF InhibitorDestroy, Recount
  <2>4. Cardinality(alive') > 0 <=> alive' # {}
    BY <2>1, FS_Subset, IdleAssumption, FS_CardinalityType, FS_EmptySet
  <2>5. idle'.inhibited <=> alive' # {}
    BY <2>2, <2>3, <2>4
  <2>6. idle' \in [count : Int, inhibited : BOOLEAN]
    BY <2>2, <2>3
  <2>7. idle'.count = Cardinality(alive')
    BY <2>2, <2>3
  <2> QED
    BY <2>1, <2>5, <2>6, <2>7 DEF IdleInv, InhibitedWhileAny
<1>3. CASE UNCHANGED idleVars
  BY <1>3 DEF IdleInv, InhibitedWhileAny, idleVars
<1> QED
  BY <1>1, <1>2, <1>3 DEF IdleNext

\* For any set of inhibitors, the notifier is inhibited exactly while one of
\* them exists (src/idle.c:9-38).
THEOREM InhibitionIsExact == IdleSpec => []InhibitedWhileAny
<1>1. IdleInit => IdleInv
  BY FS_EmptySet DEF IdleInit, IdleInv, InhibitedWhileAny
<1>2. IdleInv => InhibitedWhileAny
  BY DEF IdleInv
<1> QED
  BY <1>1, <1>2, IdleStep, PTL DEF IdleSpec

----------------------------------------------------------------------------
(* The error bar *)

Record == [shown : BOOLEAN, start : 0 .. Width - 1, due : Int, age : Nat]

\* What the handler has to know about a bar on the screen: when its timer
\* fired last it was younger than Duration, and the clock has moved from its
\* start by its age, around the end at most once.
Sound(r, now) ==
    r.shown =>
        /\ -MaxLate <= r.due /\ r.due <= Period
        /\ r.age - (Period - r.due) < Duration
        /\ now = r.start + r.age \/ now = r.start + r.age - Width

BarInv ==
    /\ clock \in 0 .. Width - 1
    /\ bar \in [Bars -> Record]
    /\ \A b \in Bars : Sound(bar[b], clock)

LEMMA NoBarFacts == NoBar \in Record /\ ~NoBar.shown
BY ErrorBarAssumption DEF NoBar, Record, ErrorBarAssumption

\* The unsigned difference is the age of the bar.
LEMMA ElapsedIsAge ==
    ASSUME NEW r \in Record, NEW now \in 0 .. Width - 1, Sound(r, now), r.shown
    PROVE  Elapsed(now, r.start) = r.age /\ r.age < Duration + Period + MaxLate
<1>1. /\ r.start \in 0 .. Width - 1 /\ r.age \in Nat /\ r.due \in Int
      /\ Width \in Nat /\ Duration \in Nat /\ Period \in Nat /\ MaxLate \in Nat
      /\ Duration + Period + MaxLate < Width
  BY ErrorBarAssumption DEF Record, ErrorBarAssumption
<1>2. /\ -MaxLate <= r.due
      /\ r.age - (Period - r.due) < Duration
      /\ now = r.start + r.age \/ now = r.start + r.age - Width
  BY DEF Sound
<1>3. r.age < Duration + Period + MaxLate
  BY <1>1, <1>2
<1>4. Elapsed(now, r.start) = r.age
  BY <1>1, <1>2, <1>3 DEF Elapsed
<1> QED
  BY <1>3, <1>4

\* One tick later the clock is ahead of the start by one more; it cannot wrap
\* around twice.
LEMMA TickArithmetic ==
    ASSUME NEW w \in Nat, NEW start \in 0 .. w - 1, NEW age \in Nat,
           NEW now \in 0 .. w - 1, NEW next \in 0 .. w - 1,
           next = now + 1 \/ next = now + 1 - w,
           now = start + age \/ now = start + age - w,
           age + 1 < w
    PROVE  next = start + (age + 1) \/ next = start + (age + 1) - w
OBVIOUS

\* Every step keeps the invariant and takes no bar away too early.
LEMMA BarStep ==
    ASSUME BarInv, BarNext
    PROVE  /\ BarInv'
           /\ \A b \in Bars : bar[b].shown /\ ~bar'[b].shown => bar[b].age >= Duration
<1> USE ErrorBarAssumption DEF ErrorBarAssumption
<1>1. CASE Tick
  <2>1. /\ clock' \in 0 .. Width - 1
        /\ clock' = clock + 1 \/ clock' = clock + 1 - Width
    <3>1. clock \in 0 .. Width - 1
      BY DEF BarInv
    <3>2. clock' = IF clock = Width - 1 THEN 0 ELSE clock + 1
      BY <1>1 DEF Tick
    <3> QED BY <3>1, <3>2
  <2>2. ASSUME NEW b \in Bars
        PROVE  /\ bar'[b] \in Record /\ Sound(bar'[b], clock')
               /\ bar'[b].shown = bar[b].shown
    <3> DEFINE r == bar[b]
    <3>1. r \in Record /\ Sound(r, clock) /\ clock \in 0 .. Width - 1
      BY DEF BarInv
    <3>2. CASE ~r.shown
      BY <1>1, <3>1, <3>2 DEF Tick, Sound
    <3>3. CASE r.shown
      <4>1. bar'[b] = [r EXCEPT !.due = @ - 1, !.age = @ + 1] /\ r.due > -MaxLate
        BY <1>1, <3>3 DEF Tick
      <4>2. /\ r.start \in 0 .. Width - 1 /\ r.age \in Nat /\ r.due \in Int
            /\ r.due <= Period
            /\ r.age - (Period - r.due) < Duration
            /\ clock = r.start + r.age \/ clock = r.start + r.age - Width
        BY <3>1, <3>3 DEF Record, Sound
      <4>3. bar'[b] = [shown |-> r.shown, start |-> r.start,
                       due |-> r.due - 1, age |-> r.age + 1]
        BY <3>1, <4>1 DEF Record
      <4>4. r.age + 1 < Width
        BY <4>1, <4>2
      <4>5. clock' = r.start + (r.age + 1) \/ clock' = r.start + (r.age + 1) - Width
        BY <2>1, <4>2, <4>4, <3>1, TickArithmetic
      <4>6. bar'[b] \in Record
        BY <3>1, <4>2, <4>3 DEF Record
      <4>7. Sound(bar'[b], clock')
        BY <4>1, <4>2, <4>3, <4>5 DEF Sound
      <4> QED
        BY <3>3, <4>3, <4>6, <4>7
    <3> QED BY <3>2, <3>3
  <2>3. bar' \in [Bars -> Record]
    BY <1>1, <2>2 DEF Tick
  <2> QED
    BY <2>1, <2>2, <2>3 DEF BarInv
<1>2. ASSUME NEW b \in Bars, ShowBar(b)
      PROVE  BarInv' /\ \A c \in Bars : bar[c].shown => bar'[c].shown
  <2> DEFINE new == [shown |-> TRUE, start |-> clock, due |-> Period, age |-> 0]
  <2>1. bar' = [bar EXCEPT ![b] = new] /\ clock' = clock /\ ~bar[b].shown
    BY <1>2 DEF ShowBar
  <2>2. new \in Record /\ Sound(new, clock)
    BY DEF BarInv, Record, Sound
  <2> QED
    BY <2>1, <2>2 DEF BarInv
<1>3. ASSUME NEW b \in Bars, BarTimer(b)
      PROVE  /\ BarInv'
             /\ \A c \in Bars : bar[c].shown /\ ~bar'[c].shown => bar[c].age >= Duration
  <2> DEFINE r == bar[b]
  <2>1. /\ r \in Record /\ Sound(r, clock) /\ clock \in 0 .. Width - 1
        /\ r.shown /\ clock' = clock
    BY <1>3 DEF BarInv, BarTimer
  <2>2. Elapsed(clock, r.start) = r.age
    BY <2>1, ElapsedIsAge
  <2>3. CASE r.age >= Duration
    <3>1. bar' = [bar EXCEPT ![b] = NoBar]
      BY <1>3, <2>2, <2>3 DEF BarTimer
    <3> QED
      BY <2>1, <2>3, <3>1, NoBarFacts DEF BarInv, Sound
  <2>4. CASE ~(r.age >= Duration)
    <3> DEFINE new == [r EXCEPT !.due = Period]
    <3>1. bar' = [bar EXCEPT ![b] = new]
      BY <1>3, <2>2, <2>4 DEF BarTimer
    <3>2. new \in Record /\ new.shown /\ Sound(new, clock)
      BY <2>1, <2>4 DEF Record, Sound
    <3> QED
      BY <2>1, <3>1, <3>2 DEF BarInv
  <2> QED BY <2>3, <2>4
<1> QED
  BY <1>1, <1>2, <1>3 DEF BarNext, Tick, BarInv, Record

\* For every clock, however late handlers run within MaxLate, a bar stays for
\* Duration and is gone a period and a delay later (src/error.c:113-129).
THEOREM BarAlwaysOnTime == BarSpec => BarOnTime
<1>1. BarInit => BarInv
  BY NoBarFacts, ErrorBarAssumption DEF BarInit, BarInv, Sound, ErrorBarAssumption
<1>2. BarInv /\ [BarNext]_barVars => BarInv'
  BY BarStep DEF BarInv, barVars
<1>3. ASSUME BarInv, BarInv', [BarNext]_barVars
      PROVE  [\A b \in Bars :
                /\ bar'[b].shown => bar'[b].age < Duration + Period + MaxLate
                /\ bar[b].shown /\ ~bar'[b].shown => bar[b].age >= Duration]_barVars
  <2>1. CASE UNCHANGED barVars
    BY <2>1
  <2>2. CASE BarNext
    <3>1. \A b \in Bars : bar[b].shown /\ ~bar'[b].shown => bar[b].age >= Duration
      BY <1>3, <2>2, BarStep
    <3>2. ASSUME NEW b \in Bars, bar'[b].shown
          PROVE  bar'[b].age < Duration + Period + MaxLate
      BY <1>3, <3>2, ElapsedIsAge DEF BarInv
    <3> QED BY <3>1, <3>2
  <2> QED BY <1>3, <2>1, <2>2
<1> QED
  BY <1>1, <1>2, <1>3, PTL DEF BarSpec, BarOnTime

----------------------------------------------------------------------------
(* The composition *)

\* Side by side, each service behaves as it does alone: no step of one touches
\* another's state.
THEOREM ServicesAreIndependent == Spec => GammaSpec /\ IdleSpec /\ BarSpec
<1>1. Init => GammaInit /\ IdleInit /\ BarInit
  BY DEF Init
<1>2. [Next]_vars => [GammaNext]_gammaVars /\ [IdleNext]_idleVars /\ [BarNext]_barVars
  BY DEF Next, vars, gammaVars, idleVars, barVars
<1> QED BY <1>1, <1>2, PTL DEF Spec, GammaSpec, IdleSpec, BarSpec
----------------------------------------------------------------------------
(* The IPC socket *)

Connections == [client : {"none", "silent", "sent", "left"}, request : Requests \cup {"none"},
                answers : 0 .. 2, fd : {"none", "open", "closed"}]

\* An open end is the one that is served, and has had an answer only between
\* a version mismatch and the end of the load.  A connection that waits has
\* no end yet.
ConnOK(c) ==
    /\ conn[c].fd = "open" <=> (server.step # "idle" /\ server.serving = c)
    /\ conn[c].fd = "open" => conn[c].answers = IF server.step = "init" THEN 1 ELSE 0
    /\ c \in ToSet(queue) =>
         conn[c].fd = "none" /\ conn[c].client # "none" /\ conn[c].answers = 0

IpcInv ==
    /\ IpcTypeOK
    /\ server.step # "idle" => server.serving \in Clients
    /\ \A c \in Clients : ConnOK(c)
    /\ RegistryFits

\* The fields of the server and of the registry
LEMMA Fields ==
    ASSUME IpcInv
    PROVE  /\ conn \in [Clients -> Connections] /\ queue \in Seq(Clients) /\ IsInjective(queue)
           /\ server.state \in {"up", "down", "stopped"}
           /\ server.serving \in Clients \cup {NoClient}
           /\ server.step \in {"idle", "read", "load", "init", "msg"}
           /\ registry.count \in Nat /\ registry.capacity \in Nat
           /\ \A c \in Clients :
                /\ conn[c].client \in {"none", "silent", "sent", "left"}
                /\ conn[c].request \in Requests \cup {"none"}
                /\ conn[c].answers \in 0 .. 2 /\ conn[c].fd \in {"none", "open", "closed"}
BY DEF IpcInv, IpcTypeOK, Connections
----------------------------------------------------------------------------
(* Queues and connections *)

LEMMA Enqueued ==
    ASSUME NEW S, NEW s \in Seq(S), IsInjective(s), NEW x \in S, x \notin ToSet(s)
    PROVE  /\ Append(s, x) \in Seq(S) /\ Len(Append(s, x)) = Len(s) + 1
           /\ IsInjective(Append(s, x)) /\ ToSet(Append(s, x)) = ToSet(s) \cup {x}
<1> DEFINE a == Append(s, x)
<1>1. /\ a \in Seq(S) /\ Len(a) = Len(s) + 1 /\ Len(s) \in Nat
      /\ a[Len(s) + 1] = x /\ \A i \in 1 .. Len(s) : a[i] = s[i]
  OBVIOUS
<1> HIDE DEF a
<1>2. DOMAIN a = 1 .. (Len(s) + 1) /\ DOMAIN s = 1 .. Len(s)
  BY <1>1
<1>3. \A i \in DOMAIN a : i \in DOMAIN s \/ i = Len(s) + 1
  BY <1>1, <1>2
<1>4. ToSet(a) = ToSet(s) \cup {x}
  <2>1. Len(s) + 1 \in DOMAIN a /\ DOMAIN s \subseteq DOMAIN a
    BY <1>1, <1>2
  <2> QED BY <1>1, <1>2, <1>3, <2>1 DEF ToSet
<1>5. \A i \in DOMAIN s : s[i] # x
  BY DEF ToSet
<1>6. \A i, j \in DOMAIN s : s[i] = s[j] => i = j
  BY DEF IsInjective
<1>7. \A i, j \in DOMAIN a : a[i] = a[j] => i = j
  BY <1>1, <1>2, <1>3, <1>5, <1>6
<1> QED BY <1>1, <1>4, <1>7 DEF a, IsInjective

LEMMA Dequeued ==
    ASSUME NEW S, NEW s \in Seq(S), IsInjective(s), s # << >>
    PROVE  /\ Head(s) \in S /\ Head(s) \in ToSet(s)
           /\ Tail(s) \in Seq(S) /\ Len(Tail(s)) <= Len(s)
           /\ IsInjective(Tail(s)) /\ ToSet(Tail(s)) \subseteq ToSet(s) \ {Head(s)}
<1> DEFINE t == Tail(s)
<1>1. /\ t \in Seq(S) /\ Len(t) = Len(s) - 1 /\ Len(s) \in Nat \ {0}
      /\ \A i \in 1 .. Len(t) : t[i] = s[i + 1]
      /\ Head(s) = s[1]
  OBVIOUS
<1> HIDE DEF t
<1>2. DOMAIN t = 1 .. (Len(s) - 1) /\ DOMAIN s = 1 .. Len(s)
  BY <1>1
<1>3. \A i \in DOMAIN t : i + 1 \in DOMAIN s /\ i + 1 # 1 /\ t[i] = s[i + 1]
  BY <1>1, <1>2
<1>4. 1 \in DOMAIN s
  BY <1>1, <1>2
<1>5. \A i, j \in DOMAIN s : s[i] = s[j] => i = j
  BY DEF IsInjective
<1>6. \A i, j \in DOMAIN t : t[i] = t[j] => i = j
  BY <1>2, <1>3, <1>5
<1>7. ToSet(t) \subseteq ToSet(s) \ {s[1]}
  BY <1>3, <1>4, <1>5 DEF ToSet
<1> QED BY <1>1, <1>4, <1>6, <1>7 DEF t, IsInjective, ToSet

LEMMA NoConnType ==
    /\ NoConn \in Connections /\ NoConn.client = "none" /\ NoConn.request = "none"
    /\ NoConn.answers = 0 /\ NoConn.fd = "none"
BY DEF NoConn, Connections

LEMMA LeftType ==
    ASSUME NEW k \in Connections
    PROVE  /\ Left(k) \in Connections
           /\ k.fd # "closed" => /\ Left(k).client = "left" /\ Left(k).request = k.request
                                 /\ Left(k).fd = k.fd /\ Left(k).answers = k.answers
           /\ k.fd = "closed" => Left(k) = NoConn
BY NoConnType DEF Left, Connections

LEMMA ClosedType ==
    ASSUME NEW k \in Connections
    PROVE  Closed(k) \in Connections /\ Closed(k).fd \in {"none", "closed"}
BY NoConnType DEF Closed, Connections

\* A step of one client's process leaves the queue and the server alone.
LEMMA OneClient ==
    ASSUME IpcInv, NEW c \in Clients, NEW k \in Connections,
           conn' = [conn EXCEPT ![c] = k], UNCHANGED <<queue, server, registry>>,
           conn[c].fd \in {"none", "open"} =>
             k.fd = conn[c].fd /\ k.answers = conn[c].answers /\ k.client # "none",
           conn[c].fd = "closed" => k.fd \in {"none", "closed"}
    PROVE  IpcInv'
<1>1. /\ conn' \in [Clients -> Connections] /\ conn'[c] = k
      /\ \A d \in Clients : d # c => conn'[d] = conn[d]
  BY Fields
<1>2. IpcTypeOK'
  BY <1>1 DEF IpcInv, IpcTypeOK, Connections
<1>3. conn[c].fd \in {"none", "open", "closed"} /\ ConnOK(c)
  BY Fields DEF IpcInv
<1>4. ConnOK(c)'
  BY <1>1, <1>3 DEF ConnOK
<1>5. \A d \in Clients : d # c => ConnOK(d)'
  BY <1>1 DEF IpcInv, ConnOK
<1> QED BY <1>2, <1>4, <1>5 DEF IpcInv, RegistryFits
----------------------------------------------------------------------------
(* The client *)

LEMMA ConnectStep ==
    ASSUME IpcInv, NEW c \in Clients, Connect(c)
    PROVE  IpcInv'
<1> DEFINE k == [conn[c] EXCEPT !.client = "silent"]
<1>1. conn[c] = NoConn /\ conn' = [conn EXCEPT ![c] = k] /\ queue' = Append(queue, c)
      /\ UNCHANGED <<server, registry>> /\ Len(queue) < Backlog
  BY DEF Connect
<1>2. k \in Connections /\ k.client = "silent" /\ k.answers = 0 /\ k.fd = "none"
  BY <1>1, NoConnType DEF Connections
<1> HIDE DEF k
<1>3. /\ conn' \in [Clients -> Connections] /\ conn'[c] = k
      /\ \A d \in Clients : d # c => conn'[d] = conn[d]
  BY <1>1, <1>2, Fields
<1>4. c \notin ToSet(queue) /\ ~(server.step # "idle" /\ server.serving = c)
  BY <1>1, NoConnType DEF IpcInv, ConnOK
<1>5. /\ queue' \in Seq(Clients) /\ Len(queue') = Len(queue) + 1 /\ Len(queue) \in Nat
      /\ IsInjective(queue') /\ ToSet(queue') = ToSet(queue) \cup {c}
  BY <1>1, <1>4, Fields, Enqueued
<1>6. IpcTypeOK'
  BY <1>1, <1>3, <1>5, IpcAssumption DEF IpcInv, IpcTypeOK, Connections
<1>7. ConnOK(c)'
  BY <1>1, <1>2, <1>3, <1>4 DEF ConnOK
<1>8. \A d \in Clients : d # c => ConnOK(d)'
  BY <1>1, <1>3, <1>5 DEF IpcInv, ConnOK
<1> QED BY <1>1, <1>6, <1>7, <1>8 DEF IpcInv, RegistryFits

LEMMA SendStep ==
    ASSUME IpcInv, NEW c \in Clients, NEW r \in Requests, Send(c, r)
    PROVE  IpcInv'
<1> DEFINE k == [conn[c] EXCEPT !.client = "sent", !.request = r]
<1>1. conn' = [conn EXCEPT ![c] = k] /\ UNCHANGED <<queue, server, registry>>
  BY Fields DEF Send
<1>2. /\ k \in Connections /\ k.client = "sent" /\ k.fd = conn[c].fd
      /\ k.answers = conn[c].answers
  BY Fields DEF Connections
<1> HIDE DEF k
<1> QED BY <1>1, <1>2, OneClient

LEMMA LeavingStep ==
    ASSUME IpcInv, NEW c \in Clients, Receive(c) \/ HangUp(c)
    PROVE  IpcInv'
<1> DEFINE k == Left(conn[c])
<1>1. conn' = [conn EXCEPT ![c] = k] /\ UNCHANGED <<queue, server, registry>>
  BY DEF Receive, HangUp
<1>2. /\ k \in Connections
      /\ conn[c].fd # "closed" =>
           k.client = "left" /\ k.fd = conn[c].fd /\ k.answers = conn[c].answers
      /\ conn[c].fd = "closed" => k.fd = "none"
  BY Fields, LeftType, NoConnType
<1> HIDE DEF k
<1> QED BY <1>1, <1>2, OneClient
----------------------------------------------------------------------------
(* The compositor.  Each of its steps leaves the registry in order.        *)

RegistryOK(r) == r \in [count : Nat, capacity : Nat] /\ r.count <= r.capacity

LEMMA RegistryIs == IpcInv => RegistryOK(registry)
BY DEF IpcInv, IpcTypeOK, RegistryFits, RegistryOK

LEMMA AbortedFits ==
    ASSUME NEW q, RegistryOK(q), NEW r \in Aborted(q)
    PROVE  RegistryOK(r)
BY DEF RegistryOK, Aborted

\* The array has room for the entry that is written.
LEMMA SavedFits ==
    ASSUME NEW q, RegistryOK(q)
    PROVE  RegistryOK(Saved(q))
<1> DEFINE g == Grown(q)
<1>1. /\ g \in [count : Nat, capacity : Nat] /\ g.count = q.count /\ g.count < g.capacity
  BY DEF RegistryOK, Grown
<1> HIDE DEF g
<1>2. Saved(q) = [g EXCEPT !.count = q.count + 1]
  BY DEF Saved, g
<1> QED BY <1>1, <1>2 DEF RegistryOK

LEMMA EndsStep ==
    ASSUME IpcInv, NEW s \in {"down", "stopped"}, Ends(s), RegistryOK(registry')
    PROVE  IpcInv'
<1>1. conn' = [c \in Clients |-> IF conn[c] = NoConn THEN NoConn ELSE Closed(conn[c])]
      /\ queue' = << >> /\ server' = [Idle EXCEPT !.state = s]
  BY DEF Ends
<1>2. /\ server' \in [state : {"up", "down", "stopped"}, serving : Clients \cup {NoClient},
                      step : {"idle", "read", "load", "init", "msg"}]
      /\ server'.step = "idle"
  BY <1>1 DEF Idle
<1>3. \A c \in Clients : conn'[c] \in Connections /\ conn'[c].fd \in {"none", "closed"}
  BY <1>1, Fields, ClosedType, NoConnType
<1>4. conn' \in [Clients -> Connections]
  BY <1>1, <1>3
<1>5. queue' \in Seq(Clients) /\ Len(queue') = 0 /\ IsInjective(queue') /\ ToSet(queue') = {}
  BY <1>1 DEF IsInjective, ToSet
<1>6. IpcTypeOK'
  BY <1>2, <1>4, <1>5, IpcAssumption DEF IpcTypeOK, Connections, RegistryOK
<1>7. \A c \in Clients : ConnOK(c)'
  BY <1>2, <1>3, <1>5 DEF ConnOK
<1> QED BY <1>2, <1>6, <1>7 DEF IpcInv, RegistryFits, RegistryOK

\* The connection that is served changes, and the server moves on or is done.
LEMMA Served ==
    ASSUME IpcInv, RegistryOK(registry'), server.step # "idle", queue' = queue,
           NEW k \in Connections, conn' = [conn EXCEPT ![server.serving] = k],
           NEW next \in {"idle", "read", "load", "init", "msg"},
           server' = IF next = "idle" THEN Idle ELSE [server EXCEPT !.step = next],
           next = "idle" => k.fd \in {"none", "closed"},
           next # "idle" => k.fd = "open" /\ k.answers = IF next = "init" THEN 1 ELSE 0
    PROVE  IpcInv'
<1>0. PICK c \in Clients : c = server.serving
  BY DEF IpcInv
<1>1. c \in Clients /\ conn[c].fd = "open"
  BY <1>0 DEF IpcInv, ConnOK
<1>2. /\ conn' \in [Clients -> Connections] /\ conn'[c] = k
      /\ \A d \in Clients : d # c => conn'[d] = conn[d]
  BY <1>0, <1>1, Fields
<1>3. /\ server' \in [state : {"up", "down", "stopped"}, serving : Clients \cup {NoClient},
                      step : {"idle", "read", "load", "init", "msg"}]
      /\ server'.step = next /\ (next # "idle" => server'.serving = c)
  <2>1. CASE next = "idle"
    BY <2>1 DEF Idle
  <2>2. CASE next # "idle"
    BY <2>2, <1>0 DEF IpcInv, IpcTypeOK
  <2> QED BY <2>1, <2>2
<1>4. IpcTypeOK'
  BY <1>2, <1>3 DEF IpcInv, IpcTypeOK, Connections, RegistryOK
<1>5. c \notin ToSet(queue)
  BY <1>1 DEF IpcInv, ConnOK
<1>6. ConnOK(c)'
  BY <1>2, <1>3, <1>5 DEF ConnOK
<1>7. \A d \in Clients : d # c => ConnOK(d)'
  BY <1>0, <1>2, <1>3 DEF IpcInv, ConnOK
<1> QED BY <1>1, <1>3, <1>4, <1>6, <1>7 DEF IpcInv, RegistryFits, RegistryOK

\* The served connection, before a step
LEMMA Serving ==
    ASSUME IpcInv, server.step # "idle"
    PROVE  /\ server.serving \in Clients /\ conn[server.serving] \in Connections
           /\ conn[server.serving].fd = "open"
           /\ conn[server.serving].answers = IF server.step = "init" THEN 1 ELSE 0
BY Fields DEF IpcInv, ConnOK

LEMMA FinishStep ==
    ASSUME IpcInv, RegistryOK(registry'), server.step # "idle", Finish
    PROVE  IpcInv'
<1> DEFINE k == Closed(conn[server.serving])
<1>1. k \in Connections /\ k.fd \in {"none", "closed"}
  BY Serving, ClosedType
<1>2. conn' = [conn EXCEPT ![server.serving] = k] /\ server' = Idle /\ queue' = queue
  BY DEF Finish
<1> HIDE DEF k
<1> QED BY <1>1, <1>2, Served

LEMMA AnswerAndFinishStep ==
    ASSUME IpcInv, RegistryOK(registry'), server.step # "idle", AnswerAndFinish
    PROVE  IpcInv'
<1> DEFINE c == server.serving
           a == [conn[c] EXCEPT !.answers = conn[c].answers + 1]
           k == Closed(a)
<1>1. CASE conn[c].client = "left"
  BY <1>1, EndsStep DEF AnswerAndFinish
<1>2. CASE conn[c].client # "left"
  <2>1. a \in Connections
    BY Serving DEF Connections
  <2>2. conn' = [conn EXCEPT ![c] = k] /\ server' = Idle /\ queue' = queue
    BY <1>2 DEF AnswerAndFinish
  <2> HIDE DEF a
  <2>3. k \in Connections /\ k.fd \in {"none", "closed"}
    BY <2>1, ClosedType
  <2> HIDE DEF k
  <2> QED BY <2>2, <2>3, Served DEF c
<1> QED BY <1>1, <1>2

LEMMA MismatchStep ==
    ASSUME IpcInv, LoadMismatch
    PROVE  IpcInv'
<1> DEFINE c == server.serving
           a == [conn[c] EXCEPT !.answers = conn[c].answers + 1]
<1>1. server.step = "load" /\ RegistryOK(registry') /\ Answer("init")
  BY RegistryIs, AbortedFits DEF LoadMismatch
<1>2. CASE conn[c].client = "left"
  BY <1>1, <1>2, EndsStep DEF Answer
<1>3. CASE conn[c].client # "left"
  <2>1. a \in Connections /\ a.fd = "open" /\ a.answers = 1
    BY <1>1, Serving DEF Connections
  <2>2. /\ conn' = [conn EXCEPT ![c] = a]
        /\ server' = [server EXCEPT !.step = "init"] /\ queue' = queue
    BY <1>1, <1>3, Serving DEF Answer
  <2> HIDE DEF a
  <2> QED BY <1>1, <2>1, <2>2, Served DEF c
<1> QED BY <1>2, <1>3

LEMMA ReadRequestStep ==
    ASSUME IpcInv, ReadRequest
    PROVE  IpcInv'
<1> DEFINE k == conn[server.serving]
<1>1. /\ server.step = "read" /\ k.request \in {"load", "msg"}
      /\ server' = [server EXCEPT !.step = k.request]
      /\ UNCHANGED <<conn, queue, registry>> /\ RegistryOK(registry')
  BY RegistryIs DEF ReadRequest
<1>2. k \in Connections /\ k.fd = "open" /\ k.answers = 0 /\ server.serving \in Clients
  BY <1>1, Serving
<1>3. conn' = [conn EXCEPT ![server.serving] = k]
  BY <1>1, <1>2, Fields
<1> HIDE DEF k
<1> QED BY <1>1, <1>2, <1>3, Served

LEMMA AcceptStep ==
    ASSUME IpcInv, Accept
    PROVE  IpcInv'
<1>0. PICK c \in Clients : queue # << >> /\ c = Head(queue) /\ c \in ToSet(queue)
  BY Fields, Dequeued DEF Accept
<1> DEFINE k == [conn[c] EXCEPT !.fd = "open"]
<1>1. /\ server.step = "idle" /\ queue # << >> /\ queue' = Tail(queue) /\ registry' = registry
      /\ server' = [server EXCEPT !.serving = c, !.step = "read"]
      /\ conn' = [conn EXCEPT ![c] = k]
  BY <1>0 DEF Accept
<1>2. /\ c \in Clients /\ c \in ToSet(queue)
      /\ queue' \in Seq(Clients) /\ Len(queue') <= Len(queue)
      /\ IsInjective(queue') /\ ToSet(queue') \subseteq ToSet(queue) \ {c}
  BY <1>0, <1>1, Fields, Dequeued
<1>3. k \in Connections /\ k.fd = "open" /\ k.answers = 0
  <2>1. conn[c] \in Connections /\ conn[c].answers = 0
    BY <1>2, Fields DEF IpcInv, ConnOK
  <2> QED BY <2>1 DEF Connections
<1> HIDE DEF k
<1>4. /\ conn' \in [Clients -> Connections] /\ conn'[c] = k
      /\ \A d \in Clients : d # c => conn'[d] = conn[d]
  BY <1>1, <1>2, <1>3, Fields
<1>5. /\ server' \in [state : {"up", "down", "stopped"}, serving : Clients \cup {NoClient},
                      step : {"idle", "read", "load", "init", "msg"}]
      /\ server'.step = "read" /\ server'.serving = c
  BY <1>1, <1>2 DEF IpcInv, IpcTypeOK
<1>6. IpcTypeOK'
  <2>1. Len(queue') \in Nat /\ Len(queue) \in Nat /\ Len(queue) <= Backlog /\ Backlog \in Nat
    BY <1>2, IpcAssumption, Fields DEF IpcInv, IpcTypeOK
  <2> QED BY <1>1, <1>2, <1>4, <1>5, <2>1 DEF IpcInv, IpcTypeOK, Connections
<1>7. ConnOK(c)'
  BY <1>2, <1>3, <1>4, <1>5 DEF ConnOK
<1>8. \A d \in Clients : d # c => ConnOK(d)'
  BY <1>1, <1>2, <1>4, <1>5 DEF IpcInv, ConnOK
<1> QED BY <1>1, <1>2, <1>5, <1>6, <1>7, <1>8 DEF IpcInv, RegistryFits

\* What the registry may be after an answer
LEMMA RequestSteps ==
    ASSUME IpcInv,
           \/ ReadNothing \/ LoadFails \/ LoadSucceeds \/ InitFails
           \/ MsgFails \/ MsgAnswered \/ MsgIgnored
    PROVE  IpcInv'
<1>1. server.step # "idle"
  BY DEF ReadNothing, LoadFails, LoadSucceeds, InitFails, MsgFails, MsgAnswered, MsgIgnored
<1>2. CASE ReadNothing
  BY <1>1, <1>2, RegistryIs, FinishStep DEF ReadNothing
<1>3. CASE LoadFails \/ InitFails \/ MsgFails
  BY <1>1, <1>3, RegistryIs, AbortedFits, AnswerAndFinishStep DEF LoadFails, InitFails, MsgFails
<1>4. CASE LoadSucceeds
  <2>1. PICK r \in Aborted(registry) : registry' = Saved(r)
    BY <1>4 DEF LoadSucceeds
  <2>2. RegistryOK(registry')
    BY <2>1, RegistryIs, AbortedFits, SavedFits
  <2> QED BY <1>1, <1>4, <2>2, AnswerAndFinishStep DEF LoadSucceeds
<1>5. CASE MsgAnswered
  BY <1>1, <1>5, RegistryIs, AbortedFits, AnswerAndFinishStep DEF MsgAnswered
<1>6. CASE MsgIgnored
  BY <1>1, <1>6, RegistryIs, AbortedFits, FinishStep DEF MsgIgnored
<1> QED BY <1>2, <1>3, <1>4, <1>5, <1>6

LEMMA EndingSteps ==
    ASSUME IpcInv, ReadBlank \/ LookUpCrashes \/ LoadCrashes \/ Quit
    PROVE  IpcInv'
<1>1. RegistryOK(registry')
  BY RegistryIs DEF ReadBlank, LookUpCrashes, LoadCrashes, Quit
<1> QED BY <1>1, EndsStep DEF ReadBlank, LookUpCrashes, LoadCrashes, Quit
----------------------------------------------------------------------------
LEMMA InitHolds == IpcInit => IpcInv
<1> SUFFICES ASSUME IpcInit PROVE IpcInv
  OBVIOUS
<1>1. conn \in [Clients -> Connections] /\ \A c \in Clients : conn[c].fd = "none"
  BY NoConnType DEF IpcInit
<1>2. queue \in Seq(Clients) /\ Len(queue) = 0 /\ IsInjective(queue) /\ ToSet(queue) = {}
  BY DEF IpcInit, IsInjective, ToSet
<1>3. IpcTypeOK /\ server.step = "idle" /\ RegistryFits
  BY <1>1, <1>2, IpcAssumption DEF IpcInit, Idle, IpcTypeOK, RegistryFits, Connections
<1> QED BY <1>1, <1>2, <1>3 DEF IpcInv, ConnOK

LEMMA StepKeeps == IpcInv /\ [IpcNext]_ipcVars => IpcInv'
<1> SUFFICES ASSUME IpcInv, [IpcNext]_ipcVars PROVE IpcInv'
  OBVIOUS
<1>1. CASE UNCHANGED ipcVars
  BY <1>1 DEF ipcVars, IpcInv, IpcTypeOK, ConnOK, RegistryFits
<1>2. ASSUME NEW c \in Clients, Connect(c) \/ Receive(c) \/ HangUp(c) PROVE IpcInv'
  BY <1>2, ConnectStep, LeavingStep
<1>3. ASSUME NEW c \in Clients, NEW r \in Requests, Send(c, r) PROVE IpcInv'
  BY <1>3, SendStep
<1>4. CASE ServerStep
  BY <1>4, AcceptStep, ReadRequestStep, MismatchStep, RequestSteps, EndingSteps DEF ServerStep
<1>5. CASE LookUpCrashes \/ LoadCrashes \/ Quit
  BY <1>5, EndingSteps
<1> QED BY <1>1, <1>2, <1>3, <1>4, <1>5 DEF IpcNext

\* Whatever the clients send and whenever they leave, the compositor has an
\* open end only for the connection it serves, and the registry's entries fit
\* its array (src/ipc.c:55-113, src/plugin.c:155-172, src/plugin.c:235-258).
THEOREM ServerAlwaysSound == IpcSpec => []ServerSound
<1>1. IpcInv => ServerSound
  BY DEF IpcInv, ConnOK, ServerSound, NothingLeaks
<1> QED BY <1>1, InitHolds, StepKeeps, PTL DEF IpcSpec
=============================================================================
