\* One output with two controls, two inhibitors, and an error bar on a clock
\* that wraps around every 8 ticks.
CONSTANTS
    s1 = s1
    c1 = c1
    c2 = c2
    i1 = i1
    i2 = i2
    b1 = b1
    Screens = {s1}
    NoScreen = NoScreen
    Controls = {c1, c2}
    MaxSets = 1
    Inhibitors = {i1, i2}
    Bars = {b1}
    Width = 8
    Duration = 4
    Period = 2
    MaxLate = 1
SPECIFICATION Spec
INVARIANTS InhibitedWhileAny RampHasOwner
PROPERTIES BarOnTime BarGoes
