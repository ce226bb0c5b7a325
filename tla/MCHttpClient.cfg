\* Three calls that share a credential, three tokens, and a clock that lets
\* the first token expire.
CONSTANTS
    Calls = {c1, c2, c3}
    Schemes <- BothSchemes
    Lifetime = 1
    MaxTokens = 3
    MaxTime = 2
SPECIFICATION FairSpec
INVARIANTS TypeOK NeverUninitialized
PROPERTIES SignedInTime RetryIsNewer EveryCallSettles
CHECK_DEADLOCK FALSE
