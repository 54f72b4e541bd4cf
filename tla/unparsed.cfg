\* A row of the transport, on the audit screen.
SPECIFICATION McSpec
CONSTANTS
    None = None
    Unissued = Unissued
    Wiped = Wiped
    Free = Free
    Resetter = Resetter
    Calls = {c1, c2}
    ApprovalIds = {a1}
    Subjects <- MCSubjects
    Accounts <- MCAccounts
    MaxInt4 = 2
    WindowSeconds = 2
    MaxTime = 2
    Issuer = "authority"
    KeyId = "demo"
    OwnKey = "own"
    ForeignKey = "foreign"
    JwksByIssuer <- MCJwks
    MaxTokenBytes = 1
    MaxChainLinks = 2
    Messages <- RowMessages
    Requests <- RowRequests
    Policy <- MCPolicy
    ThisServer = "this-server"
    Limit = 1
    GrantBodies <- TwoBodies
    Credentials <- MCCredentials
    ApproverToken = "approver"
    AdminResetToken = "operator"
    MaxResets = 0
SYMMETRY CallSymmetry
INVARIANTS
    AuditPageRenders
