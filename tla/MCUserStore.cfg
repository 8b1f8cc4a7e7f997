\* The requests are bounded, so the run may stop.
CHECK_DEADLOCK FALSE
SPECIFICATION Spec
CONSTANTS
    t1 = t1  t2 = t2
    id1 = id1  id2 = id2
    e1 = e1  e2 = e2
    None = None
    Threads <- TwoThreads
    Ids <- TwoIds
    Emails <- TwoEmails
    MaxUsers = 2
    MaxSerial = 3
    MaxFaults = 1
SYMMETRY Symmetry
INVARIANTS
    TypeOK
    AccountsDistinct
    TotpConsistent
    SerialWhenAlone
