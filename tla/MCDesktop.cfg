\* Two windows and three workspaces, with everything bound: every window may
\* also be mapped in a workspace that is not its home.
CONSTANTS
    w1 = w1
    w2 = w2
    Windows = {w1, w2}
    NoWindow = NoWindow
    NumWorkspaces = 3
    SwitchTargets = {1, 2, 3}
    SendTargets = {1, 2}
    Modes = {"tile", "monocle"}
    Policies = {"click", "hover"}
    Outputs = 1
    LateMap = TRUE
SPECIFICATION Spec
INVARIANTS LinkedOnce ListedTiled KeyboardIsActivated FocusIsLive
PROPERTIES ImplementsTileSets
SYMMETRY Symmetry
\* Nothing is modelled after a fault.
CHECK_DEADLOCK FALSE
