SPECIFICATION SerialSpec
CONSTANTS
    pa = pa
    pd = pd
    ann = ann
    bob = bob
    alpha = alpha
    beta = beta
    long = long
    short = short
    old = old
    draft = draft
    NoProject = NoProject
    NoAgent = NoAgent
    BlankAgent = BlankAgent
    Sentinel = Sentinel
    AnyFactor = AnyFactor
    NoRequest = NoRequest
    NoMemory = NoMemory
    NewId = NewId
    Project = {pa, pd}
    AgentName = {ann, bob}
    DefaultProject = pd
    Text = {long, short}
    Term = {alpha, beta}
    Tokens <- MCTokens
    Known = {old, draft}
    InitialMemories <- MCWithDraft
    Call = {k1, k2, k3}
    Requests <- MCFewRequests
SYMMETRY Symmetry
INVARIANTS
    LogAlignedUnlessFailed
PROPERTIES
    LifecycleRespected
    RetrieveExact
CHECK_DEADLOCK FALSE
