\* Calls, grants, resets and failures over two approvals.
SPECIFICATION Spec
CONSTANTS
    None = None
    Unissued = Unissued
    Wiped = Wiped
    Free = Free
    Resetter = Resetter
    Calls = {c1, c2}
    ApprovalIds = {a1, a2}
    Subjects <- MCSubjects
    Accounts <- MCAccounts
    MaxInt4 = 2
    WindowSeconds = 1
    MaxTime = 1
    Issuer = "authority"
    KeyId = "demo"
    OwnKey = "own"
    ForeignKey = "foreign"
    JwksByIssuer <- MCJwks
    MaxTokenBytes = 1
    MaxChainLinks = 2
    Requests <- CoreRequests
    Policy <- MCPolicy
    ThisServer = "this-server"
    Limit = 2
    GrantBodies <- CoreBodies
    Credentials <- MCCredentials
    ApproverToken = "approver"
    AdminResetToken = "operator"
    MaxResets = 1
SYMMETRY Symmetry
INVARIANTS
    FullInv
    OneApprovalOneEffect
    EffectWithinApproval
    BackstopUnreached
    LosersHaveAWinner
    EffectAuthorised
    EffectsAudited
PROPERTIES
    NoApprovalIsOverlooked
    ImplementsLedger
