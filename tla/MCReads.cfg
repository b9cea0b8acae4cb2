CONSTANTS
    MaxChar = 3
    Scripts <- MCScripts
    MaxWrites = 2
SPECIFICATION Spec
INVARIANTS
    TypeOK
    ReadConsistent
    CopyGuarded
    CompletionGuarded
    ListingComplete
    TenantIsolation
PROPERTY
    EveryRequestEnds
CHECK_DEADLOCK FALSE
