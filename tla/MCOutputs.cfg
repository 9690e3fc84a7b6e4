\* Two outputs of two sizes and three panels.
CONSTANTS
    d1 = d1
    d2 = d2
    p1 = p1
    p2 = p2
    p3 = p3
    Displays = {d1, d2}
    NoDisplay = NoDisplay
    Lost = Lost
    Panels = {p1, p2, p3}
    Sizes = {3, 6}
    Claims <- MCClaims
    Gap = 1
SPECIFICATION Spec
INVARIANTS PanelsHoldTheirSpace
PROPERTIES WindowsClearOfPanels
SYMMETRY Symmetry
\* Nothing is modelled after a fault.
CHECK_DEADLOCK FALSE
