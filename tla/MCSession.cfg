SPECIFICATION SessionSpec
CONSTANTS
    Letter = Letter
    Modifier = Modifier
    Mouse = Mouse
    Shell = Shell
    NoPad = NoPad
    Letters <- MCLetters
    Modifiers <- MCModifiers
    Mice <- MCMice
    Services <- MCServices
    Settings <- MCSettings
    MaxEvents = 2
    Options <- MCOptions
    MaxNotices = 2
    Features = {1, 2}
    MaxChanges = 2
    MaxReads = 4
    Activities = {1, 2, 3}
    MaxWaiting = 2
    Values = {0, 1}
    Pinyin = Pinyin
    Anthy = Anthy
    Engines <- MCEngines
    Preloads <- MCPreloads
    Contexts = {Editor, Mail}
    NoEngine = NoEngine
    NoContext = NoContext
    Threshold = 1
    MaxHistory = 1
INVARIANTS
    SessionTypeOK
    BelievedIsReal
    MouseNoticed
    UserDecides
    AskedFeaturesOnly
    YesIsForWhatIsNamed
    CommittedWhenHidden
    ShownAsAllowed
    RememberedAreInHistory
PROPERTIES
    TouchpadComesBack
    ListedIsRemembered
    NoMountWhenDisabled
    BadgesStayRight
    BackIsOnePressAway
    WalkShowsItsChoice
    SwitcherHides
CHECK_DEADLOCK FALSE
