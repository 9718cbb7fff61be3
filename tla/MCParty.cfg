\* The undisturbed party: no ratings, no timeouts, no restarts.
SPECIFICATION FairPartySpec
CONSTANTS
    Song = {s1, s2}
    TooShort = {}
    User = {}
    Speaker = {p1}
    NoSong = NoSong
    DatabaseFails = FALSE
    MaxRatings = 0
    MaxOrphans = 1
    Missing = {}
    StopPostsEnd = FALSE
    MaxQueue = 3
    MaxEvents = 2
    MaxTimeouts = 0
PROPERTIES
    MusicGoesOnInTime
CONSTRAINT NotOvertaken
