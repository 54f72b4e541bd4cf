\* What the two doors make of a token, and what the trail keeps of it.
SPECIFICATION McSpec
CONSTANTS
    None = None
    Unissued = Unissued
    Wiped = Wiped
    Free = Free
    Resetter = Resetter
    Calls = {c1, c2}
    ApprovalIds = {a1}
    Subjects <- MCSubjects
    Accounts <- MCAccounts
    MaxInt4 = 2
    WindowSeconds = 2
    MaxTime = 1
    Issuer = "authority"
    KeyId = "demo"
    OwnKey = "own"
    ForeignKey = "foreign"
    JwksByIssuer <- MCJwks
    MaxTokenBytes = 1
    MaxChainLinks = 2
    Messages <- DoorMessages
    Requests <- DoorRequests
    Policy <- MCPolicy
    ThisServer = "this-server"
    Limit = 1
    GrantBodies <- TwoBodies
    Credentials <- MCCredentials
    ApproverToken = "approver"
    AdminResetToken = "operator"
    MaxResets = 1
SYMMETRY CallSymmetry
INVARIANTS
    DoorsAgree
    ScopesReportedAreScopesDecided
    AuditSubjectsAreVerified
    NothingForStrangers
    RefusedOnceAndForAll
    ConsoleOnlyLags
    MarksAreTrue
PROPERTIES
    ImplementsBroker
