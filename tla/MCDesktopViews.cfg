SPECIFICATION FairSpec
CONSTANTS
    FileA = FileA
    FileB = FileB
    Junk = Junk
    Desktop = Desktop
    Other = Other
    NoPath = NoPath
    Left = Left
    Right = Right
    Screens <- MCScreens
    Views <- MCViews
    Urls <- MCUrls
    Paths <- MCPaths
    Below <- MCBelow
    ScreenOf <- MCScreenOf
    FolderOf <- MCFolderOf
    Hotplug = FALSE
INVARIANTS
    TypeOK
    OneScreenPerFile
    AttachedViewsRegistered
    NoFileHidden
PROPERTIES
    PlacedFilesStay
    PlacedFilesGetShown
