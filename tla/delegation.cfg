\* A chain of up to three hops over two scopes, cap two.
SPECIFICATION DelegationSpec
CONSTANTS
    None = None
    Issuer = "authority"
    KeyId = "demo"
    OwnKey = "own"
    ForeignKey = "foreign"
    JwksByIssuer <- MCJwks
    MaxTokenBytes = 1
    MaxChainLinks = 2
    Holders = {"agent-7"}
    Names = {"account:read", "credit:issue"}
    Here = "here"
    Elsewhere = "elsewhere"
    Lifetime = 2
    LastSecond = 2
INVARIANTS
    HardenedIsNaiveLessTwo
PROPERTIES
    AuthorityOnlyShrinks
CHECK_DEADLOCK FALSE
