\* One output with six modes, one keyboard and one window in two workspaces.
CONSTANTS
    k1 = k1
    d1 = d1
    w1 = w1
    Gone = Gone
    Keyboards = {k1}
    Displays = {d1}
    Windows = {w1}
    Texts <- MCTexts
    Modes <- MCModes
    Uncompilable <- MCUncompilable
SPECIFICATION Spec
PROPERTIES ModeIsClosest
