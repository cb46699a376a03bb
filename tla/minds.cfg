SPECIFICATION FairSpec
CONSTANTS
    mara = mara
    other = other
    NoMind = NoMind
    chat = chat
    make = make
    again = again
    Turns <- MCTurns
    KindOf <- MCKindOf
    MindOf <- MCMindOf
    Minds <- MCMinds
    HistoryLimit = 3
    MaxOpen = 2
    MaxFaults = 1
INVARIANTS
    TypeOK
    RepliesRepeatOnlyUnfiltered
    QuietTurnsGetTheirReply
    RepliesOfOwnMind
PROPERTY
    TurnsEnd
CHECK_DEADLOCK FALSE
