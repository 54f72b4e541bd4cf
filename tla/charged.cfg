\* Which calls are charged quota.
SPECIFICATION Spec
CONSTANTS
    None = None
    Unissued = Unissued
    Wiped = Wiped
    Free = Free
    Resetter = Resetter
    Calls = {c1, c2}
    ApprovalIds = {a1}
    Subjects <- MCSubjects
    Accounts <- MCAccounts
    MaxInt4 = 2
    WindowSeconds = 2
    MaxTime = 1
    Issuer = "authority"
    KeyId = "demo"
    OwnKey = "own"
    ForeignKey = "foreign"
    JwksByIssuer <- MCJwks
    MaxTokenBytes = 1
    MaxChainLinks = 2
    Requests <- CreditRequests
    Policy <- MCPolicy
    ThisServer = "this-server"
    Limit = 2
    GrantBodies <- OneBody
    Credentials <- MCCredentials
    ApproverToken = "approver"
    AdminResetToken = "operator"
    MaxResets = 0
INVARIANTS
    OnlyAllowedCallsAreCharged
