\* A body of 4, chunks of 2, sizes of 3 digits, lines of 5, heads of 14 bytes and two trailers.
SPECIFICATION Spec
CONSTANTS
    Streams <- MCStreams
    MaxHead = 14
    MaxHeaders = 3
    MaxDigits = 3
    MaxLine = 5
    MaxBody = 4
    MaxChunk = 2
    MaxTrailerBytes = 14
    MaxTrailers = 2
    MaxWire = 28
INVARIANTS TypeOK FramingExact Authentic HonestAccepted
CHECK_DEADLOCK FALSE
