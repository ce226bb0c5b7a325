\* Two things with the same title.
CONSTANTS
    a = a
    b = b
    Ids = {a, b}
    slug <- SameSlugs
    Server = {s1}
    Https = {}
    MaxThings = 2
SPECIFICATION FairSpec
INVARIANTS FormsLead
CHECK_DEADLOCK FALSE
