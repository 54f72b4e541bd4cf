------------------------------ MODULE Approvals ------------------------------
(***************************************************************************)
(* Durable approvals and their one-time consumption (approvals.py).        *)
(***************************************************************************)
EXTENDS Store

\* The row create_approval inserts.
NewApproval(subject, tool, account, amount, ttl, now) ==
    [ subject |-> subject, tool |-> tool, account |-> account, amount |-> amount,
      expires_at |-> now + ttl, consumed_at |-> None ]

\* The unconsumed approvals bound to exactly this act.
Matching(subject, tool, account, amount) ==
    { a \in ApprovalRows :
        /\ approval[a].subject = subject
        /\ approval[a].tool = tool
        /\ approval[a].account = account
        /\ approval[a].amount = amount
        /\ approval[a].consumed_at = None }

\* Those still live, the ones that expire last first (ORDER BY expires_at
\* DESC): when two expire together the database may return either.
LatestLive_ExpiryIgnored(rows, moment) ==
    { a \in rows : \A b \in rows : approval[b].expires_at <= approval[a].expires_at }

LatestLive(rows, moment) ==
    { a \in rows :
        /\ approval[a].expires_at > moment
        /\ \A b \in rows : approval[b].expires_at <= approval[a].expires_at }

\* A row that somebody is consuming is passed over (FOR UPDATE SKIP LOCKED).
FindMatchingApproval_SkipsLocked(subject, tool, account, amount, moment) ==
    LET rows == {a \in Matching(subject, tool, account, amount) : rowLock[a] = Free}
    IN  [ approvals |-> LatestLive(rows, moment),
          expired   |-> rows # {} /\ LatestLive(rows, moment) = {} ]

\* The approvals find_matching_approval may return, and whether it saw only
\* expired ones.
FindMatchingApproval(subject, tool, account, amount, moment) ==
    LET rows == Matching(subject, tool, account, amount)
    IN  [ approvals |-> LatestLive(rows, moment),
          expired   |-> rows # {} /\ LatestLive(rows, moment) = {} ]

\* Whether the conditional UPDATE of consume_approval matches a row, once it
\* has the row's lock (UPDATE ... WHERE consumed_at IS NULL).
Consumable_NullCheckDropped(a) == a \in ApprovalRows
Consumable(a) == a \in ApprovalRows /\ approval[a].consumed_at = None
==============================================================================
