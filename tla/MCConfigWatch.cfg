\* Three files, changed in every way between any two steps of the handler.
CONSTANTS
    main = main
    colors = colors
    keys = keys
    Main = main
    Includes <- MCIncludes
    MaxVersion = 4
    Editors = {"write", "replace", "remove"}
SPECIFICATION FairSpec
INVARIANTS NoMissedChange OneWatchPerMention
PROPERTIES ConfigSettles
\* The editors may have finished.
CHECK_DEADLOCK FALSE
