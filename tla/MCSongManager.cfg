\* Two speakers, a song shorter than 20 seconds, a timer thread that may be
\* suspended anywhere in the reminder, and a transaction that may fail.
SPECIFICATION Spec
CONSTANTS
    Song = {s1, s2, s3}
    TooShort = {s3}
    User = {u1}
    Speaker = {p1, p2}
    NoSong = NoSong
    DatabaseFails = TRUE
    MaxRatings = 1
    MaxOrphans = 1
SYMMETRY GuestSymmetry
INVARIANTS
    TypeOK
    
    NextSongIsAnother
    NextSongWillBeChosen
    TornIsNext

    
