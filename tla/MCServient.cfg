\* Two things with two ids and paths of their own, and two servers, one of which
\* fills in a security scheme.
CONSTANTS
    a = a
    b = b
    Ids = {a, b}
    slug <- OwnSlugs
    Server = {s1, s2}
    Https = {s2}
    MaxThings = 2
SPECIFICATION FairSpec
INVARIANTS TypeOK RoutesRegistered FormsLead
PROPERTIES SubjectsComplete
CHECK_DEADLOCK FALSE
