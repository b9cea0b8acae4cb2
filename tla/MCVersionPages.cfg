CONSTANTS
    MaxChar = 3
    Scripts <- MCVersionPages
    MaxWrites = 0
SPECIFICATION Spec
INVARIANT
    ListingComplete
CHECK_DEADLOCK FALSE
