\* Three windows, both modes, the focus following the pointer, each window
\* mapped while its home is on display and none sent to another workspace.
CONSTANTS
    w1 = w1
    w2 = w2
    w3 = w3
    Windows = {w1, w2, w3}
    NoWindow = NoWindow
    NumWorkspaces = 3
    SwitchTargets = {1, 2}
    SendTargets = {}
    Modes = {"tile", "monocle"}
    Policies = {"click", "hover"}
    Outputs = 1
    LateMap = FALSE
SPECIFICATION Spec
INVARIANTS TilesLiveAtHome KeyboardIsRemembered ScreenShowsWorkspace NoOtherFault
PROPERTIES CycleVisitsNext
SYMMETRY Symmetry
\* Nothing is modelled after a fault.
CHECK_DEADLOCK FALSE
