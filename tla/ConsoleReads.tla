----------------------------- MODULE ConsoleReads -----------------------------
(***************************************************************************)
(* The console's reads (app.py) and the screens that show them, over       *)
(* everything the MCP server and the broker have committed.  A read is one *)
(* SELECT of committed rows, so it is a function of the state; the list of *)
(* approvals is judged by a clock read before it.                          *)
(***************************************************************************)
EXTENDS McServer, AuditScreen

\* GET /api/v1/audit: a row call_tool wrote, and one the transport wrote.
AuditEntry(c) ==
    [ subject |-> audit[c].subject, policy |-> Policy.name, decision |-> audit[c].decision,
      reason |-> audit[c].reason, required_scope |-> Verdict(c).required_scope ]

TransportEntry(c) ==
    [ subject |-> refused[c].subject, policy |-> HARDENED.name, decision |-> "denied",
      reason |-> refused[c].reason, required_scope |-> None ]

AuditJson ==
    {AuditEntry(c) : c \in {d \in Calls : audit[d] # None}}
    \cup {TransportEntry(c) : c \in {d \in Calls : refused[d] # None}}

\* Expiry is looked at first.
ApprovalState_ExpiryFirst(a, now) ==
    IF approval[a].expires_at <= now THEN "expired"
    ELSE IF approval[a].consumed_at # None THEN "consumed"
    ELSE "pending"

\* GET /api/v1/approvals: the state shown of an approval, for a now that was
\* read before list_approvals ran.
ApprovalState(a, now) ==
    IF approval[a].consumed_at # None THEN "consumed"
    ELSE IF approval[a].expires_at <= now THEN "expired"
    ELSE "pending"

-----------------------------------------------------------------------------
Rank(state) == CHOOSE i \in DOMAIN Lifecycle : Lifecycle[i] = state

\* The human's list and the agent's read_approval tell one story: the list,
\* judged by an older clock, may lag behind what the agent would be told now,
\* never run ahead of it, and both agree on what has been spent.
ConsoleOnlyLags ==
    \A a \in ApprovalRows, now \in 0..clock :
        LET toTheHuman == ApprovalState(a, now)
            toTheAgent == StateOf(approval[a], approval[a].subject, clock)
        IN  /\ Rank(toTheHuman) <= Rank(toTheAgent)
            /\ toTheHuman = "consumed" <=> toTheAgent = "consumed"

\* Whether a check holds of a call, judged from the token and the tables rather than
\* from the reason that was given.
Holds(check, c) ==
    LET token == req[c].token IN
      CASE check = "token"    -> /\ NoCandidateKey(token) = None
                                 /\ JwtDecodeFailure(token, moment[c]) = None
        [] check = "audience" -> ThisServer \in token.aud.names
        [] check = "scope"    -> /\ Chain(token).failure = None
                                 /\ TOOL_SCOPES[req[c].tool]
                                      \in EffectiveScopes(VerifyToken(token, 0).claims, TRUE)
        [] check = "approval" -> effect[c] # None

Audited == {c \in Calls : audit[c] # None}

\* The screen's marks are true: a stage marked as the one that refused does not
\* hold, one marked as passed does, but for the approval of a tool that asks
\* for none, and a refused row has the former unless the ceiling refused it.
MarksAreTrue ==
    \A c \in Audited :
        /\ \A i \in DOMAIN STAGES :
              LET mark == Mark(AuditEntry(c), i) IN
                /\ mark = "refused" => ~Holds(STAGES[i], c)
                /\ mark = "passed" =>
                     \/ Holds(STAGES[i], c)
                     \/ STAGES[i] = "approval" /\ req[c].tool \notin IRREVERSIBLE_TOOLS
        /\ audit[c].reason \notin {None, "rate_limited"} =>
              \E i \in DOMAIN STAGES : Mark(AuditEntry(c), i) = "refused"

\* What the README says of the audit screen: "every decision, refusals
\* included", the transport's among them (README.md:188).
AuditPageRenders == Parses(AuditJson)
===============================================================================
