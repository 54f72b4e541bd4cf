\* The script and a stranger at the server, after others have left approvals
\* behind or not.
SPECIFICATION SmokeSpec
CONSTANTS
    None = None
    Unissued = Unissued
    Wiped = Wiped
    Free = Free
    Resetter = Resetter
    Calls <- MCCalls
    Probes = 23
    ProbeCalls <- MCProbeCalls
    ApprovalIds <- MCApprovalIds
    Subjects <- MCSubjects
    Accounts <- MCAccounts
    MaxInt4 = 1
    WindowSeconds = 1
    MaxTime = 0
    Issuer = "authority"
    KeyId = "demo"
    OwnKey = "own"
    ForeignKey = "foreign"
    JwksByIssuer <- MCJwks
    MaxTokenBytes = 1
    MaxChainLinks = 2
    Messages <- SmokeMessages
    Requests <- MCRequests
    VisitorMessages <- AStranger
    Policy <- MCPolicy
    ThisServer = "this-server"
    Limit = 8
    Agent = Agent
    Agents = Agents
    GrantBodies <- MCBodies
    Credentials <- MCCredentials
    ApproverToken = Approver
    AdminResetToken = None
    MaxResets = 0
    MaxDrains = 3
    Surplus = 1
    MaxLeftover = 3
INVARIANTS
    PassesExactlyFromACleanStart
    DrainedBeforeTheRace
