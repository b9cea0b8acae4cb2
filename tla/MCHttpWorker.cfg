\* One socket at a time, a batch of up to two requests on a connection, and one
\* replacement process.
SPECIFICATION FairSpec
CONSTANTS
    Conns = {c1}
    MaxConnections = 1
    Requests <- AllRequests
    Batches <- AllBatches
    Operations = {"InvalidRequest", "PutObject"}
    MaxBatches = 1
    MaxPids = 2
INVARIANTS TypeOK InFlightExact SessionSettled InStep
PROPERTIES RequestEnds
