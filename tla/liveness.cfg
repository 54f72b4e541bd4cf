\* Every request, call and reset that starts ends.
SPECIFICATION McFairSpec
CONSTANTS
    None = None
    Unissued = Unissued
    Wiped = Wiped
    Free = Free
    Resetter = Resetter
    Calls = {c1, c2}
    ApprovalIds = {a1}
    Subjects <- MCSubjects
    Accounts <- MCAccounts
    MaxInt4 = 2
    WindowSeconds = 2
    MaxTime = 0
    Issuer = "authority"
    KeyId = "demo"
    OwnKey = "own"
    ForeignKey = "foreign"
    JwksByIssuer <- MCJwks
    MaxTokenBytes = 1
    MaxChainLinks = 2
    Messages <- WayMessages
    Requests <- WayRequests
    Policy <- MCPolicy
    ThisServer = "this-server"
    Limit = 2
    GrantBodies <- TwoBodies
    Credentials <- MCCredentials
    ApproverToken = "approver"
    AdminResetToken = "operator"
    MaxResets = 1
PROPERTIES
    EveryRequestEnds
    EveryResetEnds
