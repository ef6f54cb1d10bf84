CONSTANTS
    Nil = Nil
    Requests = {c1, c2}
    Traffics <- SmallTraffics
    MaxTime = 4
    Patience = 2
    DayTicks = 2
    CacheTicks = 2
    GraceTicks = 1
    LifeTicks = 4
    IdleDays = 1
    Burst = 1
    PerTick = 1
    UploadCost = 1
    PowTicks = 1
    SpaceTicks = 2
    FailuresBeforeUnavailable = 2
    MaxRows = 2
    CountTicks = 2
    KeepTicks = 1
    MaxRaises = 1
    MaxDiskChanges = 1
    Nobody = Nobody
    Handlers = {c1, c2}
    Digests = {d1, d2}
    MaxPerParty = 2
    MaxRequests = 3
    MaxMoment = 3
    Admins = {c1, c2}
    Keys = {k1, k2}
    Pinned = k1
    MaxDay = 3
    MaxAgeDays = 1
    MaxInterval = 1
    P1 = p1
    P2 = p2
    P3 = p3
    F1 = f1
    F2 = f2
    People = {p1, p2, p3}
    Calls = {c1, c2}
    Papers = {f1, f2}
    Names = {"shop", "yard"}
    Shifts <- SmallShifts
    Listings = {f1}
    Tasks = {c1, c2}
    Levels <- SmallLevels
    Earnings = 2
    DecayDays = 1
    MaxPenalty = 2
    Seasons <- SmallSeasons
SYMMETRY Symmetry
SPECIFICATION ServerSpec
INVARIANTS
    CookieStaysGood
    SwitchesHold
    LimitsHold
    BeforeDisputeIsTrue
    DecisionsStand
    StatusTakesEffect
    StandingIsEarned
PROPERTIES
    SilenceShows
    RemovedStays
CHECK_DEADLOCK FALSE
