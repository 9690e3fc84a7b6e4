--------------------------------- MODULE Gamma ---------------------------------
(***************************************************************************)
(* Gamma control (src/gamma.c): a client changes the colours of an output  *)
(* through a control object, and the compositor puts them back when that   *)
(* object goes.                                                            *)
(*                                                                         *)
(* Every accepted ramp adds a listener to the resource of the control, and *)
(* all of them fire when the resource goes.  The control inside wlroots    *)
(* may go before the resource does, and so may the output.                 *)
(***************************************************************************)
EXTENDS Integers

CONSTANTS
    Screens,    \* outputs
    NoScreen,   \* the output of a control that does not exist
    Controls,   \* resources of clients
    MaxSets     \* bound: listeners on one resource

ASSUME GammaAssumption == NoScreen \notin Screens /\ MaxSets \in Nat

VARIABLES
    screen,     \* the state of each output
    session,    \* session->active: this is the VT on display
    control,    \* the state of each control
    gammaFault  \* freed memory has been used

gammaVars == <<screen, session, control, gammaFault>>

(* screen[s].power    "on", "off", or "gone" once the output is freed       *)
(* screen[s].ramp     a client's colours are in force                       *)
(* screen[s].kept     the last reset was skipped or refused                 *)
(* control[c].screen  its output                                            *)
(* control[c].live    wlroots' control exists                               *)
(* control[c].sets    listeners on its resource                             *)
NoControl == [screen |-> NoScreen, live |-> FALSE, sets |-> 0]
FreshScreen == [power |-> "on", ramp |-> FALSE, kept |-> FALSE]

GammaInit ==
    /\ screen = [s \in Screens |-> FreshScreen]
    /\ session = TRUE
    /\ control = [c \in Controls |-> NoControl]
    /\ gammaFault = FALSE

\* A client asks for a control; wlroots has one live control per output.
CreateControl(c, s) ==
    /\ control[c] = NoControl /\ screen[s].power # "gone"
    /\ control' = [control EXCEPT ![c] = [screen |-> s, sets |-> 0,
                    live |-> \A d \in Controls : ~(control[d].live /\ control[d].screen = s)]]
    /\ UNCHANGED <<screen, session, gammaFault>>

\* Mutant of RampRefused: a refused ramp takes the listeners away.
RampRefusedUnlistens(c) ==
    /\ control[c].live
    /\ control' = [control EXCEPT ![c].live = FALSE, ![c].sets = 0]
    /\ UNCHANGED <<screen, session, gammaFault>>

\* server_new_set_gamma, when the ramp cannot be applied: the client is told
\* and wlroots' control goes, which leads to another event without a control
\* that changes nothing.  The listeners stay.
RampRefused(c) ==
    /\ control[c].live
    /\ control' = [control EXCEPT ![c].live = FALSE]
    /\ UNCHANGED <<screen, session, gammaFault>>

\* server_new_set_gamma, when the output accepts the ramp
RampAccepted(c) ==
    LET s == control[c].screen IN
    /\ control[c].live /\ control[c].sets < MaxSets
    /\ screen' = [screen EXCEPT ![s].ramp = TRUE]
    /\ control' = [control EXCEPT ![c].sets = @ + 1]
    /\ UNCHANGED <<session, gammaFault>>

\* server_new_set_gamma, when the commit fails: the control has been destroyed
\* when the listener is added to its resource.
CommitRefused(c) ==
    /\ control[c].live
    /\ control' = [control EXCEPT ![c].live = FALSE]
    /\ gammaFault' = TRUE
    /\ UNCHANGED <<screen, session>>

\* handle_gamma_control_destroy, once for every listener: on a screen that is
\* off or a VT that is away nothing is reset, and the driver may refuse.
ResetColours(s, accepted) ==
    IF screen[s].power = "on" /\ session /\ accepted
    THEN [screen EXCEPT ![s].ramp = FALSE, ![s].kept = FALSE]
    ELSE [screen EXCEPT ![s].kept = TRUE]

\* The resource of a control goes, with its client or before.
ControlGoes(c, accepted) ==
    LET s == control[c].screen IN
    /\ control[c] # NoControl
    /\ control' = [control EXCEPT ![c] = NoControl]
    /\ gammaFault' = (control[c].sets > 0 /\ screen[s].power = "gone")
    /\ screen' = IF control[c].sets = 0 \/ gammaFault' THEN screen
                 ELSE ResetColours(s, accepted)
    /\ UNCHANGED session

\* An output is freed; wlroots' controls for it go, their resources stay.
ScreenGoes(s) ==
    /\ screen[s].power # "gone"
    /\ screen' = [screen EXCEPT ![s] = [power |-> "gone", ramp |-> FALSE, kept |-> FALSE]]
    /\ control' = [c \in Controls |->
                    IF control[c].screen = s THEN [control[c] EXCEPT !.live = FALSE]
                    ELSE control[c]]
    /\ UNCHANGED <<session, gammaFault>>

\* A new output; no control refers to it.
ScreenComes(s) ==
    /\ screen[s].power = "gone"
    /\ \A c \in Controls : control[c].screen # s
    /\ screen' = [screen EXCEPT ![s] = FreshScreen]
    /\ UNCHANGED <<session, control, gammaFault>>

\* The configuration turns an output on or off.
SwitchPower(s) ==
    /\ screen[s].power # "gone"
    /\ screen' = [screen EXCEPT ![s].power = IF @ = "on" THEN "off" ELSE "on"]
    /\ UNCHANGED <<session, control, gammaFault>>

\* The user goes to another VT and comes back.
SwitchVT ==
    /\ session' = ~session
    /\ UNCHANGED <<screen, control, gammaFault>>

GammaNext ==
    /\ ~gammaFault
    /\ \/ \E c \in Controls, s \in Screens : CreateControl(c, s)
       \/ \E c \in Controls : RampRefused(c) \/ RampAccepted(c) \/ CommitRefused(c)
       \/ \E c \in Controls, accepted \in BOOLEAN : ControlGoes(c, accepted)
       \/ \E s \in Screens : ScreenGoes(s) \/ ScreenComes(s) \/ SwitchPower(s)
       \/ SwitchVT

GammaSpec == GammaInit /\ [][GammaNext]_gammaVars
----------------------------------------------------------------------------
\* A screen with changed colours has somebody who will put them back: a
\* resource with a listener, whatever controls failed, were replaced or lost
\* their output in the meantime, unless the reset of an earlier client was
\* skipped or refused (src/gamma.c:14-35, src/gamma.c:37-70).
RampHasOwner ==
    ~gammaFault => \A s \in Screens :
        (screen[s].ramp /\ ~screen[s].kept) =>
            \E c \in Controls : control[c].screen = s /\ control[c].sets > 0
=============================================================================
