\* Two neighbouring registers written with function 6.
CONSTANTS
    Forms <- SingleForms
    MaxOps = 2
    maxRetries = 2
SPECIFICATION FairSpec
INVARIANTS AnswersOwn
