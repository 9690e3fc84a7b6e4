\* Two windows, two layer surfaces and two workspaces; every reload may change
\* the focus policy.
CONSTANTS
    w1 = w1
    w2 = w2
    l1 = l1
    l2 = l2
    ws1 = ws1
    ws2 = ws2
    Windows = {w1, w2}
    Layers = {l1, l2}
    NoSurface = NoSurface
    Overlay = Overlay
    Workspaces = {ws1, ws2}
    NoWorkspace = NoWorkspace
    Shapes = {"default", "text"}
    ClientImage = ClientImage
    Policies = {"click", "hover"}
SPECIFICATION Spec
INVARIANTS LayerFocusSound InputIsSound
PROPERTIES KeyboardHandedBack LayerKeepsKeyboard NoShapeLeftBehind
SYMMETRY Symmetry
