CONSTANTS
    None = None
    Requests = {c1, c2, c3}
    Browsers = {b1, b2}
    Mixes <- SmallMixes
    Names = {c1, c2, c3}
    Slots = {b1, b2}
    Stories <- SmallStories
SYMMETRY Symmetry
SPECIFICATION AccountsSpec
INVARIANTS
    StaleOnlyByOverlap
    AnsweredOnce
    BackupFollowsItsOwner
PROPERTIES
    KeyLeavesSigned
    AccountsComeAndGo
CHECK_DEADLOCK FALSE
