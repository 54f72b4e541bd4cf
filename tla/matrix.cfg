\* Every scenario under both policies, at every pace, with failing calls.
SPECIFICATION Spec
CONSTANTS
    None = None
    Unissued = Unissued
    Wiped = Wiped
    Free = Free
    Resetter = Resetter
    Calls <- MCCalls
    ApprovalIds <- MCApprovalIds
    Subjects <- MCSubjects
    Accounts <- MCAccounts
    MaxInt4 = 1
    WindowSeconds = 2
    MaxTime = 3
    Issuer = "authority"
    KeyId = "demo"
    OwnKey = "own"
    ForeignKey = "foreign"
    JwksByIssuer <- MCJwks
    MaxTokenBytes = 1
    MaxChainLinks = 2
    Agent = Agent
    Audience = "this-server"
    TokenLifetime = 2
    ApprovalTtl = 3
INVARIANTS
    GatePassesExactlyInTime
    NothingBorrowed
    TrailAgreesWithTheCount
