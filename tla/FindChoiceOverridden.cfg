\* The reminder stores the song it got, whatever has been chosen since.
SPECIFICATION Spec
CONSTANTS
    Song = {s1, s2}
    TooShort = {}
    User = {}
    Speaker = {p1}
    NoSong = NoSong
    DatabaseFails = FALSE
    MaxRatings = 0
    MaxOrphans = 1
PROPERTIES
    NeverOverridden
