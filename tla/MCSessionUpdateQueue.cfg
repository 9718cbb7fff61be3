SPECIFICATION Spec
CONSTANTS
    UpdateType = {votes, likes}
    Channel = {c1, c2, c3}
    MaxUpdates = 3
SYMMETRY Symmetry
INVARIANTS
    TypeOK
    NobodyWaitsInVain
    QueueListsMap
    NewestKept
PROPERTIES
    OnlyNewerWritten
    NeverOvertaken
    ImplementsMailbox
