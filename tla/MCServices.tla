------------------------------ MODULE MCServices ------------------------------
(***************************************************************************)
(* The services that keep something for a while: the colours of a client,  *)
(* the inhibition of idling, and the error bar, side by side.              *)
(***************************************************************************)
EXTENDS Gamma, Idle, ErrorBar

vars == <<gammaVars, idleVars, barVars>>

Init == GammaInit /\ IdleInit /\ BarInit

Next ==
    \/ GammaNext /\ UNCHANGED <<idleVars, barVars>>
    \/ IdleNext /\ UNCHANGED <<gammaVars, barVars>>
    \/ BarNext /\ UNCHANGED <<gammaVars, idleVars>>

\* Time passes, and the event loop runs the handlers of expired timers.
Fairness ==
    /\ WF_vars(Tick /\ UNCHANGED <<gammaVars, idleVars>>)
    /\ \A b \in Bars : WF_vars(BarTimer(b) /\ UNCHANGED <<gammaVars, idleVars>>)

Spec == Init /\ [][Next]_vars /\ Fairness
=============================================================================
