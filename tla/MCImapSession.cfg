\* A torn INBOX answers no command, and the deliveries are bounded.
CHECK_DEADLOCK FALSE
SPECIFICATION ImapSpec
CONSTANTS
    inbox = inbox
    recent = recent
    s1 = s1  s2 = s2
    deletedFlag = deletedFlag
    None = None
    Inbox = inbox
    Recent = recent
    Holds <- InMailRoot
    Boxes <- InboxOnly
    Flags <- DeletedOnly
    Sessions <- TwoSessions
    Deleted = deletedFlag
    MaxAppends = 2
    MaxTime = 0
    MaxFaults = 1
SYMMETRY SessionSymmetry
INVARIANTS
    OnlyFlaggedExpunged
    ExpungeEffective
    HitsWhatWasShown
    FetchFaithful
