SPECIFICATION Spec
CONSTANTS
    inbox = inbox  a = a  b = b  dot = dot
    recent = recent
    None = None
    Inbox = inbox
    Recent = recent
    Holds <- InMailRoot
    Boxes <- InboxAndDot
    Flags <- NoFlags
    MaxAppends = 2
    MaxTime = 1
    MaxFaults = 2
INVARIANTS
    Inv
    IndexedHasBody
    AckedKept
    InboxUidForever
    CopyFromInboxFaithful
