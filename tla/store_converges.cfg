SPECIFICATION OpenSpec
CONSTANTS
    alpha = alpha
    beta = beta
    long = long
    short = short
    here = here
    there = there
    i1 = i1
    i2 = i2
    NullText = NullText
    NoRow = NoRow
    NoPut = NoPut
    NoConnection = NoConnection
    Text = {long, short}
    Term = {alpha, beta}
    Scope = {here, there}
    Tokens <- MCTokens
    Connection = {c1, c2, c3}
    MemoryId = {i1, i2}
    Memory <- MCMemoryOrNull
    InitialRows <- MCLegacyRows
    MaxEvents = 0
    MaxRollbacks = 0
INVARIANTS
    RegressUnderRepair
PROPERTIES
    Converges
CHECK_DEADLOCK FALSE
