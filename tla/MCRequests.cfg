\* Three requests, two good values and one that cannot be converted, two events.
CONSTANTS
    Request <- ToRequest
    Listener <- ToRequest
    Setup <- SomeSetups
    Input <- ToInput
    Value = {0, 1, 2}
    Bad = 2
    Initial = 0
    MaxEvents = 2
    MaxReads = 1
SPECIFICATION FairSpec
INVARIANTS TypeOK OnlyDueRequestsServed ChangesTrackValue EachToldInOrder FinishedObservationsStop
PROPERTIES FailedWriteKeepsValue EveryRequestAnswered
CHECK_DEADLOCK FALSE
