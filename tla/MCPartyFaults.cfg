\* A poll that times out and a speaker that is restarted.
SPECIFICATION PartySpec
CONSTANTS
    Song = {s1, s2, s3}
    TooShort = {}
    User = {}
    Speaker = {p1, p2}
    NoSong = NoSong
    DatabaseFails = FALSE
    MaxRatings = 0
    MaxOrphans = 1
    Missing = {}
    StopPostsEnd = FALSE
    MaxQueue = 2
    MaxEvents = 2
    MaxTimeouts = 1
SYMMETRY SongSymmetry
VIEW PartyView
CONSTRAINT NotOvertaken
INVARIANTS
    SpeakerPlaysChosen
    PlayingIsExpected
    ReadyIsOnDisk
    EndIsReported
\* A lost update may stop the music for good.
CHECK_DEADLOCK FALSE
