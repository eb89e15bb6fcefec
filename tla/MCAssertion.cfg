SPECIFICATION Spec
CONSTANTS
    Pinyin = Pinyin
    Anthy = Anthy
    Engines = {Pinyin, Anthy}
    Contexts = {Editor, Mail}
    Preloads <- MCPreloads
    NoEngine = NoEngine
    NoContext = NoContext
    Threshold = 1
    MaxHistory = 1
PROPERTIES
    HistoryIsOfMap
CHECK_DEADLOCK FALSE
