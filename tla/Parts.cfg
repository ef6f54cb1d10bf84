CONSTANTS
    MaxSent = 3
    MaxTime = 2
    MaxSkip = 1
    MaxStored = 1
    MaxAge = 1
    Commands = {c1, c2}
    Plans <- SmallPlans
    Days = 1
    Keep = 1
    MaxParts = 4
    MaxBoxes = 3
    MaxItems = 2
    Owners = {u1, u2}
    Asks = {c1, c2}
    Passes = {c1, c2}
    Schemes <- SmallSchemes
    Amounts = {1, 2, 3}
    Fees = {0, 1}
    MinPico = 2
    FastCreditMax = 2
    MinConfirmations = 2
    MaxListings = 3
    Texts <- SmallTexts
    Words = {"a"}
    Ranks = {1, 2}
    Servers = {c1, c2}
    MaxTerms = 2
    PageLimit = 1
    Visits <- SmallVisits
    Everything = Everything
    Nobody = Nobody
    SellerTabs = {c1, c2}
    Deals <- SmallDeals
SYMMETRY Symmetry
SPECIFICATION PartsSpec
INVARIANTS
    KeysLiveUntilRead
    BackupsAreKept
    OnlyMetadataGoes
    DepositsAddUp
    WalkShowsAll
PROPERTIES
    ReadsOnce
    GoodsReachTheBuyer
CHECK_DEADLOCK FALSE
