\* Three calls of one thing, of one of thirteen Thing Descriptions.
CONSTANTS
    Call <- ToCall
    Thing <- Things
    Href <- ToHref
    MaxValue = 1
    MaxReads = 2
SPECIFICATION FairSpec
INVARIANTS TypeOK UnindexedSecured UnsubscribedEnds OneIntervalPerId DoneIsDone
PROPERTIES ImplementsSubscription EveryCallSettles
CHECK_DEADLOCK FALSE
