------------------------------- MODULE ErrorBar -------------------------------
(***************************************************************************)
(* The error bar (src/error.c): a drawing that goes by itself after a      *)
(* while.  Its timer is armed again and again; every time it fires the     *)
(* handler compares the time that has passed with the duration, in         *)
(* unsigned arithmetic on a clock of limited width that wraps around.      *)
(*                                                                         *)
(* The event loop may be busy when a timer expires.  MaxLate bounds the    *)
(* delay; the code has no such bound, and its arithmetic needs one.        *)
(***************************************************************************)
EXTENDS Integers

CONSTANTS
    Bars,       \* bars that may be on the screen at once
    Width,      \* the clock counts modulo this: 2^32 ms in the code
    Duration,   \* duration_ms: 5000 in the code
    Period,     \* the timer's delay: 16 ms in the code
    MaxLate     \* bound: how late a handler may run

ASSUME ErrorBarAssumption ==
    /\ Width \in Nat /\ Duration \in Nat /\ Period \in Nat /\ MaxLate \in Nat
    /\ Period > 0 /\ Duration > 0
    /\ Duration + Period + MaxLate < Width

VARIABLES
    clock,      \* get_current_time_ms()
    bar         \* the state of each bar

barVars == <<clock, bar>>

(* bar[b].shown     it is on the screen                                    *)
(* bar[b].start     start_time_ms                                          *)
(* bar[b].due       time until its timer expires; negative when late       *)
(* bar[b].age       how long it has been there (history: not in the code)  *)
NoBar == [shown |-> FALSE, start |-> 0, due |-> 0, age |-> 0]

\* now - start of two uint32_t
Elapsed(now, start) == IF now >= start THEN now - start ELSE now - start + Width

BarInit ==
    /\ clock \in 0 .. Width - 1
    /\ bar = [b \in Bars |-> NoBar]

\* create_error_bar, with an output under the cursor; without one nothing is
\* shown.
ShowBar(b) ==
    /\ ~bar[b].shown
    /\ bar' = [bar EXCEPT ![b] = [shown |-> TRUE, start |-> clock, due |-> Period,
                                  age |-> 0]]
    /\ UNCHANGED clock

\* Mutant of BarTimer: the clock is compared with the end of the duration.
BarTimerDeadline(b) ==
    /\ bar[b].shown /\ bar[b].due <= 0
    /\ bar' = [bar EXCEPT ![b] = IF clock >= bar[b].start + Duration THEN NoBar
                                 ELSE [bar[b] EXCEPT !.due = Period]]
    /\ UNCHANGED clock

\* Mutant of BarTimer: the timer is armed once.
BarTimerOnce(b) ==
    /\ bar[b].shown /\ bar[b].due = 0
    /\ bar' = [bar EXCEPT ![b] = IF Elapsed(clock, bar[b].start) >= Duration THEN NoBar
                                 ELSE bar[b]]
    /\ UNCHANGED clock

\* error_bar_timer_handler; the progress line is left out.
BarTimer(b) ==
    /\ bar[b].shown /\ bar[b].due <= 0
    /\ bar' = [bar EXCEPT ![b] = IF Elapsed(clock, bar[b].start) >= Duration THEN NoBar
                                 ELSE [bar[b] EXCEPT !.due = Period]]
    /\ UNCHANGED clock

\* A millisecond passes, unless a timer is already as late as it may be.
Tick ==
    /\ \A b \in Bars : bar[b].shown => bar[b].due > -MaxLate
    /\ clock' = IF clock = Width - 1 THEN 0 ELSE clock + 1
    /\ bar' = [b \in Bars |->
                IF bar[b].shown THEN [bar[b] EXCEPT !.due = @ - 1, !.age = @ + 1] ELSE bar[b]]

BarNext == Tick \/ \E b \in Bars : ShowBar(b) \/ BarTimer(b)

BarSpec == BarInit /\ [][BarNext]_barVars

\* Time passes, and the event loop runs the handlers of expired timers.
FairBarSpec ==
    /\ BarSpec
    /\ WF_barVars(Tick)
    /\ \A b \in Bars : WF_barVars(BarTimer(b))
----------------------------------------------------------------------------
\* A bar stays for its whole duration and is gone at most one period and one
\* delay later, also when the clock wraps around while it is there
\* (src/error.c:113-129): it is neither cut short nor left for 49 days.
BarOnTime ==
    [][\A b \in Bars :
        /\ bar'[b].shown => bar'[b].age < Duration + Period + MaxLate
        /\ bar[b].shown /\ ~bar'[b].shown => bar[b].age >= Duration]_barVars

\* Every bar goes (src/error.c:119-122).
BarGoes == \A b \in Bars : bar[b].shown ~> ~bar[b].shown
=============================================================================
