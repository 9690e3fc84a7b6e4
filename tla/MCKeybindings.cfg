\* Two keyboards, and any reload between two key events.  Four entries bound
\* the number of failed reloads that follow each other.
CONSTANTS
    kbd1 = kbd1
    kbd2 = kbd2
    e1 = e1
    e2 = e2
    e3 = e3
    e4 = e4
    k1 = k1
    k2 = k2
    super_a = super_a
    super_b = super_b
    close = close
    cycle = cycle
    Keyboards = {kbd1, kbd2}
    Codes = {k1, k2}
    BindingKeys = {super_a, super_b}
    Commands = {close, cycle}
    Entries = {e1, e2, e3, e4}
    None = None
    Lookups <- MCLookups
    VTCodes = {k2}
    SilentCodes = {k1}
    Configs <- MCConfigs
    Failures = {"parse", "late"}
SPECIFICATION Spec
INVARIANTS TableOwnsHeap RepeatWhileHeld ClientKeysHeld
PROPERTIES FailedReloadKeeps GoodReloadHeals
SYMMETRY Symmetry
\* Nothing is modelled after a fault.
CHECK_DEADLOCK FALSE
