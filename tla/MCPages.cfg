\* Two pages, one text with scripts, and clicks in any order.
CONSTANTS
    Data = {"", "app"}
    Scripts <- MCScripts
    MaxEmbeds = 2
    PageID = {"home", "post"}
    Home = "home"
    Attached <- MCAttached
    Editable = {"home", "post"}
    Evictable = {"home"}
    NoPage = NoPage
    Empty = ""
    Template = ""
    Typed = {""}
    Posted = {"app"}
    Ace = TRUE
    MaxVersion = 1
    MaxClicks = 3
    MaxQueue = 1
SPECIFICATION FairSpec
INVARIANTS
    EditorConsistent
    ViewHasOwnUpdates
    InlineScriptsLast
PROPERTIES
    AlertedNeverRuns
    UpdateStoresTheText
    EveryPageDecided
CHECK_DEADLOCK FALSE
