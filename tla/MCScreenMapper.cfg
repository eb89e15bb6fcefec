SPECIFICATION MapperSpec
CONSTANTS
    FileA = FileA
    Junk = Junk
    Desktop = Desktop
    NoPath = NoPath
    Screens <- MCScreens
    Urls <- MCUrls
    Paths <- MCPaths
    Below <- MCBelow
INVARIANTS
    MapperTypeOK
    ParkedForOneScreen
    NothingForgottenWhenIdle
PROPERTIES
    HomesSurviveScreenChanges
