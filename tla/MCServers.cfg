\* Two things with one title, up to three calls of expose(), two channels, up to two events.
CONSTANTS
    Thing <- ToThing
    title <- ToTitle
    Modelled <- ToModelled
    MaxChannels = 2
    MaxExposures <- ToMaxExposures
    MaxEvents <- ToMaxEvents
SPECIFICATION FairSpec
INVARIANTS TypeOK DestroyedNotReached EachHearsAll
PROPERTIES EveryPromiseSettles
CHECK_DEADLOCK FALSE
