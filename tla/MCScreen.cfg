SPECIFICATION Spec
CONSTANTS
    Procs = {"printer", "drawer"}
    PageOf <- MCPageOf
    FdType <- MCFdType
    Writes <- MCWrites
    CantPages = 2
    Rows = 2
    Cols = 2
    TabSpace = 2
    BSize = 3
    Chars = {"a", "NL", "CR", "TAB"}
    MaxCalls = 4
INVARIANTS TypeOK ScreenIsPage
PROPERTY OnlyUnseenTabsRunOver
