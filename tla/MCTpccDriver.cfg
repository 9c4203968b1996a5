SPECIFICATION FairSpec
CONSTANTS
    numConn = 2
    Mixes <- TwoMixes
    Randoms <- Numbers
    ResponseTimes <- Times
    MAX_RETRY = 2
    MaxCalls = 2
    Nil = Nil
INVARIANTS
    TypeOK DeckMix AttemptsCounted TotalNeverAhead
PROPERTIES
    WorkersStop
CHECK_DEADLOCK FALSE
