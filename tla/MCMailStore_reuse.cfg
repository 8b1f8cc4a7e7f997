SPECIFICATION Spec
CONSTANTS
    inbox = inbox  a = a  b = b  dot = dot
    recent = recent
    None = None
    Inbox = inbox
    Recent = recent
    Holds <- InMailRoot
    Boxes <- InboxAndOne
    Flags <- NoFlags
    MaxAppends = 2
    MaxTime = 0
    MaxFaults = 0
INVARIANTS
    UidValidityChangesOnReuse
