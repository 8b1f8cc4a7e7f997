\* Every session ends and the deliveries are bounded, so the run may stop.
CHECK_DEADLOCK FALSE
SPECIFICATION PopSpec
CONSTANTS
    inbox = inbox
    s1 = s1  s2 = s2
    seenFlag = seenFlag  recent = recent
    None = None
    Inbox = inbox
    Recent = recent
    Seen = seenFlag
    Holds <- InMailRoot
    Boxes <- InboxOnly
    Flags <- SeenOnly
    Sessions <- TwoSessions
    MaxAppends = 3
    MaxTime = 0
    MaxFaults = 1
SYMMETRY SessionSymmetry
INVARIANTS
    OnlyMarkedRemoved
    InboxIsDeliveredMinusRemoved
    RetrFaithful
