\* One rating, so that a song may be skipped, or one transaction that fails.
SPECIFICATION PartySpec
CONSTANTS
    Song = {s1, s2}
    TooShort = {}
    User = {u1}
    Speaker = {p1}
    NoSong = NoSong
    DatabaseFails = TRUE
    MaxRatings = 1
    MaxOrphans = 1
    Missing = {}
    StopPostsEnd = FALSE
    MaxQueue = 2
    MaxEvents = 2
    MaxTimeouts = 0
SYMMETRY SongSymmetry
VIEW PartyView
CONSTRAINTS
    NotOvertaken
    RatingOrFailure
    UsersAreThere
INVARIANTS
    SpeakerPlaysChosen
    PlayingIsExpected
    NotWedged
    ReadyIsOnDisk
    EndIsReported
\* A lost update or a failure may stop the music for good.
CHECK_DEADLOCK FALSE
