\* Two logins, one vote, one request failed by the network.
SPECIFICATION FairSpec
CONSTANTS
    MaxLogins = 2
    MaxVotes = 1
    MaxFailures = 1
    MaxClosed = 1
CHECK_DEADLOCK FALSE
INVARIANTS
    TypeOK
    PollingIsReal
    LoopsBounded
PROPERTIES
    LoopsEnd
    ShowsLatest
