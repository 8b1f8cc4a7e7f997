SPECIFICATION FairSpec
CONSTANTS
    mx = mx  user = user
    bob = bob  Bob = Bob
    bobAddr = bobAddr  BobAddr = BobAddr  BOBAddr = BOBAddr  away = away
    q1 = q1  q2 = q2
    None = None
    Clients <- TwoClients
    RoleOf <- ClientRole
    Submission <- Submitting
    Accounts <- TwoAccounts
    AddressOf <- Addresses
    Fold <- LowerCase
    Locals <- LocalAddrs
    Remotes <- RemoteAddrs
    Nobody = BOBAddr
    Senders <- MailFrom
    Envelope <- Envelopes
    RelayOn = TRUE
    QIds <- TwoIds
    MaxTroubles = 1
    Roles <- Listeners
    SmtpRoles <- SmtpListeners
    PopRoles <- Pop3Listeners
INVARIANTS
    AckedIsKept
    CopiesPaidFor
    NoForgedRelay
    DrainedBeforeQueueStops
PROPERTIES
    ShutdownEnds
    AckedMailArrives
