------------------------------ MODULE MCBroker ------------------------------
(***************************************************************************)
(* Constants for model checking the broker: one subject, two accounts, and *)
(* tokens that differ from a good one in one way each.                     *)
(***************************************************************************)
EXTENDS BrokerInv, TestAuthority, TLC

MCJwks == [i \in {Issuer} |-> [k \in {KeyId} |-> OwnKey]]

\* agent-7's token, delegated by alice; and one that claims what alice lacked.
DelegatedBy(scopes) ==
    MintDelegated(<<[subject |-> "alice", scopes |-> scopes]>>, "agent-7", ThisServer,
                  {"account:read", "credit:issue"}, 3, 0)
GoodToken == DelegatedBy({"account:read", "account:flag", "credit:issue"})
AmplifiedToken == DelegatedBy({"account:read", "account:flag"})

Ask(token, tool, account, amount) ==
    [token |-> token, tool |-> tool, account |-> account, amount |-> amount]
Credit(token, account, amount) == Ask(token, "issue_credit", account, amount)

Approve(account, amount, ttl) ==
    [subject |-> "agent-7", account |-> account, amount |-> amount, ttl_seconds |-> ttl]

MCSubjects == {"agent-7"}
MCAccounts == {"ACC-1", "ACC-2"}
MCCredentials == {"approver", "operator", "agent-bearer"}
MCPolicy == HARDENED

\* A credit, the same credit with too much claimed, a reversible call, and an
\* amount the column cannot hold.
CoreRequests ==
    { Credit(GoodToken, "ACC-1", 1), Credit(AmplifiedToken, "ACC-1", 1),
      Ask(GoodToken, "read_account", "ACC-1", 1), Credit(GoodToken, "ACC-1", 3) }
\* The approved act, the same for another account, and one too large.
CoreBodies == { Approve("ACC-1", 1, 1), Approve("ACC-1", 1, 2), Approve("ACC-2", 1, 2),
                Approve("ACC-1", 3, 2) }

\* For the ceiling: one act, one approval for it, and a tool
\* that needs none.
CeilingRequests == { Credit(GoodToken, "ACC-1", 1), Ask(GoodToken, "read_account", "ACC-1", 1) }
CreditRequests == { Credit(GoodToken, "ACC-1", 1) }
OneBody == { Approve("ACC-1", 1, 2) }

CallSymmetry == Permutations(Calls)
Symmetry == Permutations(Calls) \cup Permutations(ApprovalIds)
=============================================================================
