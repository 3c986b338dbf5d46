SPECIFICATION FairSpec
CONSTANTS
    alpha = alpha
    beta = beta
    long = long
    short = short
    here = here
    there = there
    i1 = i1
    i2 = i2
    NullText = NullText
    NoRow = NoRow
    NoPut = NoPut
    NoConnection = NoConnection
    Text = {long, short}
    Term = {alpha, beta}
    Scope = {here, there}
    Tokens <- MCTokens
    Connection = {c1, c2}
    MemoryId = {i1, i2}
    Memory <- MCMemoryOrNull
    InitialRows <- MCLegacyRows
    MaxEvents = 1
    MaxRollbacks = 1
INVARIANTS
    TypeOK
    Inv
    CandidatesMatchPort
    OpenFindsTables
    IndexedRowsHaveText
PROPERTIES
    OpenReachesLatest
    NothingLost
    EveryStepAdvances
    ImplementsPort
    CallsEnd
