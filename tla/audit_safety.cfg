SPECIFICATION Spec
CONSTANTS
    ann = ann
    null = null
    m = m
    authorization = authorization
    NoQuery = NoQuery
    Anything = Anything
    Scope = {ann, null}
    NullScopes = {null}
    Name = {m, authorization}
    Writer = {w1, w2}
    Reader = {r1}
    Plans <- MCPlans
    Queries <- MCQueries
    MaxLimit = 4
    MaxTime = 1
SYMMETRY Symmetry
INVARIANTS
    Inv
    LedgerCovers
    EffectsShownWithDecision
PROPERTIES
    MostRecentKept
    AuditsGrow
    SettledIsFinal
