SPECIFICATION AccountSpec
CONSTANTS
    p1 = p1  p2 = p2  wu = wu  wd = wd  w3 = w3
    Pools = {p1, p2}
    Wallets = {wu, wd, w3}
    UserWallet = wu
    DevWallet = wd
    AnyPool = AnyPool
    None = None
    UrlDocuments <- Urls
    FileDocuments <- Files
    AppDocument <- Installed
    Announcements <- Extensions
    Minute = 2
    Period = 2
    Hour = 3
    MaxTime = 8
    Checksums = {c1, c2}
    NoJob = NoJob
    Interval = 1
    Setup = 1
INVARIANTS
    AccountTypeOK
    ExtensionsOfPool
    FeeShare
    SavedSettingsRestored
    PauseFollowsAccount
PROPERTY
    SharesFollowAccount
SYMMETRY
    ChecksumSymmetry
