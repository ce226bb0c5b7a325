\* Three requests, both clients, with and without credentials.
CONSTANTS
    Request <- ToRequest
    Kind <- ToKind
    Identity <- ToIdentity
    OtherMethod <- ToOtherMethod
SPECIFICATION FairSpec
INVARIANTS TypeOK OneOpener
PROPERTIES ImplementsOnDemandSession EveryRequestEnds
CHECK_DEADLOCK FALSE
