------------------------------- MODULE MCServer -------------------------------
(***************************************************************************)
(* Constants for model checking the MCP server and the console.            *)
(***************************************************************************)
EXTENDS ConsoleReads, TestAuthority, TLC

MCJwks == [i \in {Issuer} |-> [k \in {KeyId} |-> OwnKey]]
MCPolicy == HARDENED
MCSubjects == {"agent-7", "agent-8"}
MCAccounts == {"ACC-1"}
MCCredentials == {"approver", "operator", "agent-bearer"}

Carries(subject, audience, lifetime) ==
    MintDelegated(<<[subject |-> "alice", scopes |-> {"account:read", "credit:issue"}]>>,
                  subject, audience, {"account:read", "account:flag", "credit:issue"},
                  lifetime, 0)

\* agent-7's token; it lapses at 1; it is for another server; it is signed by
\* a stranger; its chain cannot be read; it claims what its delegator lacked;
\* it is somebody else's.
GoodToken      == Carries("agent-7", ThisServer, 9)
LapsingToken   == Carries("agent-7", ThisServer, 1)
MisdirectedToken == Carries("agent-7", "other-server", 9)
ForgedToken    == Forged(GoodToken)
BrokenToken    == WithBrokenLink(GoodToken, 1)
AmplifiedToken ==
    MintDelegated(<<[subject |-> "alice", scopes |-> {"account:read"}]>>,
                  "agent-7", ThisServer, {"account:read", "credit:issue"}, 9, 0)
OthersToken    == Carries("agent-8", ThisServer, 9)

Post(token, tool, a) ==
    [token |-> token, tool |-> tool, account |-> "ACC-1", amount |-> 1, approval_id |-> a]

AnApproval == CHOOSE a \in ApprovalIds : TRUE

\* Every token at the irreversible tool, and some at the others.
DoorMessages ==
    { Post(token, "issue_credit", AnApproval) :
        token \in {GoodToken, LapsingToken, MisdirectedToken, ForgedToken, BrokenToken,
                  AmplifiedToken} }
    \cup { Post(GoodToken, "flag_account", AnApproval),
           Post(GoodToken, "request_approval", AnApproval),
           Post(MisdirectedToken, "request_approval", AnApproval),
           Post(ForgedToken, "ping", AnApproval) }

\* One message for each way through the server.
WayMessages ==
    { Post(GoodToken, "issue_credit", AnApproval), Post(GoodToken, "read_approval", AnApproval),
      Post(GoodToken, "ping", AnApproval), Post(MisdirectedToken, "ping", AnApproval) }

\* An agent that pays, and agents that watch the approval.
ReadMessages ==
    { Post(GoodToken, "issue_credit", AnApproval), Post(GoodToken, "read_approval", AnApproval),
      Post(OthersToken, "read_approval", AnApproval) }

\* A row call_tool writes, and one the transport writes.
RowMessages ==
    { Post(GoodToken, "issue_credit", AnApproval),
      Post(MisdirectedToken, "issue_credit", AnApproval) }

RequestsOf(messages) == {CallOf(m) : m \in {n \in messages : n.tool \in Tools}}
DoorRequests == RequestsOf(DoorMessages)
WayRequests == RequestsOf(WayMessages)
RowRequests == RequestsOf(RowMessages)
ReadRequests == RequestsOf(ReadMessages)

\* The approved act, and one too large for the column.
TwoBodies ==
    { [subject |-> "agent-7", account |-> "ACC-1", amount |-> n, ttl_seconds |-> 1] : n \in {1, 3} }

CallSymmetry == Permutations(Calls)
===============================================================================
