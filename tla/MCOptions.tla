------------------------------- MODULE MCOptions -------------------------------
(***************************************************************************)
(* The instance of Options that TLC checks.                                *)
(***************************************************************************)
EXTENDS Options, TLC

CONSTANTS k1, d1, w1

Text(says, illtyped, unknown) ==
    [broken |-> FALSE, says |-> says, illtyped |-> illtyped, unknown |-> unknown]
Good(says) == Text(says, {}, {})
Broken == [Good(<< >>) EXCEPT !.broken = TRUE]
Monitor(size, rate, place) ==
    "monitor" :> [id |-> d1, size |-> size, rate |-> rate, place |-> place]
Include == "include" :> 1

\* Options before and after core.include, in either file or both, that apply,
\* that have a wrong type or that are unknown
A == Good("focus-on" :> 2 @@ Include @@ "strength" :> 2)
B == Good(Include @@ "corner-radius" :> 2 @@ "layout" :> 1 @@ "variant" :> 1)
C == Good("focus-on" :> 1 @@ "layout-mode" :> 2 @@ Include @@ Monitor(1, 60000, 1))
D == Text("focus-on" :> 1 @@ Include @@ "corner-radius" :> 1 @@ "thickness" :> 2,
          {"thickness"}, {})
E == Text("focus-on" :> 2 @@ "layout-mode" :> 1 @@ Include @@ "passes" :> 25,
          {}, {"layout-mode"})
P == Good("focus-on" :> 2 @@ "corner-radius" :> 1 @@ "layout" :> 1 @@ "variant" :> 1)
Q == Good("strength" :> 1 @@ Monitor(2, 0, 0))
R == Text("xdg-interactive" :> 1 @@ "focus-on" :> 1, {}, {"focus-on"})
S == Text("corner-radius" :> 2 @@ "strength" :> 2 @@ "noise" :> 2, {"noise"}, {})
T == Good(Monitor(1, 75000, 0))
\* A layout nobody knows, over one that the included file asks for or over none
U == Good(Include @@ "layout" :> 2)
MCUncompilable == {[Unset EXCEPT !["layout"] = 2]}

MCTexts == {[main |-> pair[1], sub |-> pair[2]] :
    pair \in {<<A, P>>, <<A, T>>, <<B, P>>, <<B, R>>, <<C, Q>>, <<D, Q>>,
              <<B, S>>, <<E, T>>, <<Broken, P>>, <<A, Broken>>, <<U, P>>, <<U, Q>>}}

\* Two nearly equal rates, two ties, and rates out of reach
Mode(size, rate) == [size |-> size, rate |-> rate]
MCModes == d1 :> << Mode(2, 0), Mode(1, 59940), Mode(1, 60060), Mode(1, 59000),
                    Mode(1, 144000), Mode(2, 0) >>
=============================================================================
