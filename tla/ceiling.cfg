\* The ceiling, without resets.
SPECIFICATION Spec
CONSTANTS
    None = None
    Unissued = Unissued
    Wiped = Wiped
    Free = Free
    Resetter = Resetter
    Calls = {c1, c2, c3}
    ApprovalIds = {a1}
    Subjects <- MCSubjects
    Accounts <- MCAccounts
    MaxInt4 = 2
    WindowSeconds = 3
    MaxTime = 3
    Issuer = "authority"
    KeyId = "demo"
    OwnKey = "own"
    ForeignKey = "foreign"
    JwksByIssuer <- MCJwks
    MaxTokenBytes = 1
    MaxChainLinks = 2
    Requests <- CeilingRequests
    Policy <- MCPolicy
    ThisServer = "this-server"
    Limit = 1
    GrantBodies <- OneBody
    Credentials <- MCCredentials
    ApproverToken = "approver"
    AdminResetToken = "operator"
    MaxResets = 0
SYMMETRY CallSymmetry
INVARIANTS
    AtMostLimitPerWindow
    CounterIsCommittedClaims
    RateLimitedOnlyPastCeiling
    AtMostTwiceLimit
