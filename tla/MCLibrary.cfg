\* Two folders with up to two files each, one change of a folder.
SPECIFICATION Spec
CONSTANTS
    Folders = 2
    Last <- LastFolder
    File = {a, b, t}
    Mp3 = {a, b}
    MaxFiles = 2
    MaxChanges = 1
    NoTable = NoTable
    NoFile = NoFile
SYMMETRY Mp3Symmetry
INVARIANTS
    TypeOK
    LoadIsWhole
    CacheMatches
