\* Three requests over neighbouring registers, two attempts per connect loop.
CONSTANTS
    Forms <- CombinableForms
    MaxOps = 3
    maxRetries = 2
SPECIFICATION FairSpec
INVARIANTS TypeOK Serialized NoStranded AnswersOwn
PROPERTIES FirstComeFirstServed EveryRequestSettles
