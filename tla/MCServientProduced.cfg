\* One thing, and a server that listens before it is added.
CONSTANTS
    a = a
    b = b
    Ids = {a}
    slug <- OwnSlugs
    Server = {s1}
    Https = {}
    MaxThings = 1
SPECIFICATION FairSpec
INVARIANTS ServedWhenExposed
CHECK_DEADLOCK FALSE
