--------------------------------- MODULE Idle ---------------------------------
(***************************************************************************)
(* Idle inhibition (src/idle.c): clients create and destroy inhibitors at  *)
(* any moment, and the compositor keeps only their number.                 *)
(***************************************************************************)
EXTENDS Integers, FiniteSets

CONSTANT Inhibitors     \* the inhibitor objects that clients may create

ASSUME IdleAssumption == IsFiniteSet(Inhibitors)

VARIABLES
    alive,      \* the inhibitors that exist
    idle        \* what the compositor knows about them

(* idle.count      server->idle_inhibit_count                              *)
(* idle.inhibited  what the idle notifier was told last                    *)
idleVars == <<alive, idle>>

IdleInit ==
    /\ alive = {}
    /\ idle = [count |-> 0, inhibited |-> FALSE]

\* The counter changes and the notifier is told.
Recount(n) == idle' = [count |-> n, inhibited |-> n > 0]

\* server_new_idle_new_inhibitor
NewInhibitor(i) ==
    /\ i \notin alive
    /\ alive' = alive \cup {i}
    /\ Recount(idle.count + 1)

\* Mutant of InhibitorDestroy: the end of any inhibitor ends the inhibition.
InhibitorDestroyResets(i) ==
    /\ i \in alive
    /\ alive' = alive \ {i}
    /\ idle' = [count |-> idle.count - 1, inhibited |-> FALSE]

\* handle_inhibitor_destroy
InhibitorDestroy(i) ==
    /\ i \in alive
    /\ alive' = alive \ {i}
    /\ Recount(idle.count - 1)

IdleNext == \E i \in Inhibitors : NewInhibitor(i) \/ InhibitorDestroy(i)

IdleSpec == IdleInit /\ [][IdleNext]_idleVars
----------------------------------------------------------------------------
\* The screen may go idle exactly while no inhibitor exists, in whatever order
\* overlapping inhibitors come and go (src/idle.c:9-38): a count that drifts
\* by one would inhibit for ever or not at all.
InhibitedWhileAny ==
    /\ idle.count = Cardinality(alive)
    /\ idle.inhibited <=> alive # {}
=============================================================================
