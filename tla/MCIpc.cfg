\* Three clients of which two may wait, and up to three plugins.
CONSTANTS
    Clients = {c1, c2, c3}
    NoClient = NoClient
    Backlog = 2
    MaxPlugins = 3
    HangUps = TRUE
\* The compositor may be told to quit.
CHECK_DEADLOCK FALSE
SPECIFICATION IpcSpec
INVARIANTS ServerSound
PROPERTIES ClientsReleased
