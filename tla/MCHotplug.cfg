SPECIFICATION FairSpec
CONSTANTS
    FileA = FileA
    FileB = FileB
    Junk = Junk
    Desktop = Desktop
    Other = Other
    NoPath = NoPath
    Left = Left
    Right = Right
    Screens <- MCScreens
    Views <- MCViews
    Urls <- MCOneUrl
    Paths <- MCPaths
    Below <- MCBelowOne
    ScreenOf <- MCScreenOf
    FolderOf <- MCFolderOfOne
    Hotplug = TRUE
INVARIANTS
    OneScreenPerFile
PROPERTIES
    PlacedFilesStay
    PlacedFilesGetShown
