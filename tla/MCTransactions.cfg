CONSTANTS
    putter = putter
    completer = completer
    stager = stager
    copier = copier
    marker = marker
    remover = remover
    purger = purger
    collector = collector
    sweeper = sweeper
    aborter = aborter
    beginner = beginner
    creator = creator
    dropper = dropper
    forker = forker
    x = x
    y = y
    Session = {putter, completer, stager, copier, marker, remover, purger, collector, sweeper, aborter, beginner, creator, dropper, forker}
    Call <- MCCall
    Unreliable = {putter}
    Name = {1, 2}
    Body = {x, y}
    EmptyBody = y
    Scenario <- MCTransactions
    GcLimit = 2
SPECIFICATION FairSpec
INVARIANTS RefcountExact NoDangling LatestIsNewest
PROPERTIES CreateOnlyNeverCovers ActsAtomically EveryCallEnds
CHECK_DEADLOCK FALSE
