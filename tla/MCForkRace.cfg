CONSTANTS
    putter = putter
    completer = completer
    stager = stager
    copier = copier
    marker = marker
    remover = remover
    purger = purger
    collector = collector
    sweeper = sweeper
    aborter = aborter
    beginner = beginner
    creator = creator
    dropper = dropper
    forker = forker
    x = x
    y = y
    Session = {forker, remover, collector}
    Call <- MCCall
    Unreliable = {}
    Name = {1, 2}
    Body = {x, y}
    EmptyBody = y
    Scenario <- MCForkRace
    GcLimit = 1
SPECIFICATION Spec
INVARIANTS NoDangling
CHECK_DEADLOCK FALSE
