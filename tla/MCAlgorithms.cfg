\* An input of full length grows no further.
CHECK_DEADLOCK FALSE
SPECIFICATION Spec
CONSTANTS
    Alphabet <- Characters
    Bound <- Lengths
INVARIANTS
    ListedNameOpens
    ClientReadsMessage
    GroupsPartition
    LoginTakesTwo
    LookupUnambiguous
    TokenRoundTrip
    SchemaGuards
