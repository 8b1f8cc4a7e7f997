SPECIFICATION Spec
CONSTANTS
    m1 = m1
    r1 = r1  r2 = r2
    d1 = d1  d2 = d2
    None = None
    Msgs <- OneMsg
    Rcpts <- TwoRcpts
    Domains <- TwoDomains
    DomainOf <- Split2
    MaxAttempts = 2
    MaxMX = 1
    MaxCrashes = 1
    MaxIoErrors = 0
    MaxShutdowns = 0
    MaxLostAnswers = 0
INVARIANTS
    AcceptedSurvivesCrash
