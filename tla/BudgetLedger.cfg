SPECIFICATION LedgerSpec
CONSTANTS
    f1 = f1
    f2 = f2
    f3 = f3
    Families <- MCFamilies
    NoFamily = NoFamily
    NoRound = NoRound
    RoundIds <- MCRoundIds
    Limits <- MCLimits
    LedgerRequests <- MCRequests
SYMMETRY Symmetry
INVARIANTS
    BooksAgree
PROPERTIES
    RoundsKeepOwner
CHECK_DEADLOCK FALSE
