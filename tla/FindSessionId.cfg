\* Two threads; a rating may come between the INSERT of a session and the
\* SELECT of its id.
SPECIFICATION Spec
CONSTANTS
    Thread = {t1, t2}
    NoThread = NoThread
    MaxSessions = 2
    MaxFailures = 0
CHECK_DEADLOCK FALSE
INVARIANT
    AtomicCreation
