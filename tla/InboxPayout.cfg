CONSTANTS
    None = None
    Ends = {a, b}
    Messages <- AllMessages
    Mixes <- SmallMixes
    MaxKeys = 2
    LowWater = 1
    Devices <- AllDevices
    First = k1
    Later = {k2, k3}
    Notes <- AllNotes
    MaxMoment = 3
    Scenes <- SmallScenes
    Writers = {a, b}
    Retention = 1
    InboxLimit = 1
    Feeds <- SmallFeeds
SYMMETRY Symmetry
SPECIFICATION WireSpec
PROPERTY
    OwnersAreTold
CHECK_DEADLOCK FALSE
