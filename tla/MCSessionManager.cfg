\* Three threads, two sessions, and a statement that throws.
SPECIFICATION FairSpec
CONSTANTS
    Thread = {t1, t2, t3}
    NoThread = NoThread
    MaxSessions = 2
    MaxFailures = 1
CHECK_DEADLOCK FALSE
INVARIANTS
    TypeOK
    OwnSession
    MapHasRow
    OneGhostPerFailure
PROPERTIES
    DestroyedStaysGone
    RequestsEnd
