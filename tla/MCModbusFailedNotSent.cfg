\* Two writes and a device that cannot be dialled for one connect loop.
CONSTANTS
    Forms <- CombinableForms
    MaxOps = 2
    maxRetries = 2
SPECIFICATION FairSpec
PROPERTIES FailedNotSent
