SPECIFICATION Spec
CONSTANTS
    Windows <- MCWindows
    Kind <- MCKind
    Class <- MCClass
    Desktops <- MCDesktops
    Configs <- MCConfigs
    Changes <- MCChanges
    Foreign <- MCForeign
    NoKey = NoKey
    NoLayout = NoLayout
    MaxPending = 0
INVARIANTS
    TypeOK
    AppletChoosesWhatItShows
PROPERTIES
    QuitKeepsLayouts
    OwnLayoutsSpec
CHECK_DEADLOCK FALSE
