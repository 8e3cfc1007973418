SPECIFICATION FairSpec
CONSTANTS
    Methods <- MCMethods
    Responses <- MCResponses
    MaxSets = 2
    MaxRows = 2
CHECK_DEADLOCK FALSE
INVARIANTS SuccessIsComplete NoPartialResult CancellationStops CancellationReported ClosedOnEveryExit
PROPERTY Ends
