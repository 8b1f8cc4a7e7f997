SPECIFICATION FairSpec
CONSTANTS
    m1 = m1
    r1 = r1  r2 = r2
    d1 = d1  d2 = d2
    None = None
    Msgs <- OneMsg
    Rcpts <- TwoRcpts
    Domains <- TwoDomains
    DomainOf <- Split2
    MaxAttempts = 2
    MaxMX = 2
    MaxCrashes = 1
    MaxIoErrors = 1
    MaxShutdowns = 1
    MaxLostAnswers = 1
INVARIANTS
    TypeOK
    NothingLost
    SpoolExact
    CopiesAccounted
    AttemptsBounded
    NoSilentDrop
    NoLostWakeup
PROPERTIES
    ImplementsDelivery
    ShutdownReturns
