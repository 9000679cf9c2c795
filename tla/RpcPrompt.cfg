CONSTANTS
    runner = runner
    worker = worker
    main = main
    Callers = {runner, worker, main}
    NumEvents = 2
    NumUpdates = 2
    Capacity = 2
    Events <- MCEvents
    QUEUE_UPDATE = 0
    SESSION_END <- MCSessionEnd
    ERROR <- MCError
SPECIFICATION PFairSpec
INVARIANTS WaitersSeeLastLine NoEventLostInPrintMode
           LastLineMatchesOutcome
PROPERTIES ImplementsOneShot EverybodyReturns
