\* Any server, any interleaving of the three threads.
SPECIFICATION FairSpec
CONSTANTS
    Song = {s1, s2, s3}
    UNKNOWN = UNKNOWN
    Missing = {s3}
    StopPostsEnd = TRUE
    NetworkFails = TRUE
    MaxQueue = 2
    MaxEvents = 1
INVARIANTS
    TypeOK
    SongIsOnItsWay
PROPERTIES
    NextIsFetched
