\* One dislike: the Stop of the skip takes the place of a Play.
SPECIFICATION FairPartySpec
CONSTANTS
    Song = {s1, s2}
    TooShort = {}
    User = {u1}
    Speaker = {p1}
    NoSong = NoSong
    DatabaseFails = FALSE
    MaxRatings = 1
    MaxOrphans = 1
    Missing = {}
    StopPostsEnd = FALSE
    MaxQueue = 3
    MaxEvents = 2
    MaxTimeouts = 0
PROPERTIES
    MusicGoesOnInTime
CONSTRAINT NotOvertaken
CHECK_DEADLOCK FALSE
