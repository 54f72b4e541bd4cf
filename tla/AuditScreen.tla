----------------------------- MODULE AuditScreen -----------------------------
(***************************************************************************)
(* What the console front end makes of an audit row: the shape it demands  *)
(* (parse.ts) and the four checks it draws (components/audit.tsx).  An     *)
(* entry is a record of the columns it looks at; None is JSON's null.      *)
(***************************************************************************)
EXTENDS Domain

STAGES == <<"token", "audience", "scope", "approval">>

\* A refusal for scope is drawn as one for audience.
RefusedAt_ScopeTakenForAudience(reason) ==
    { i \in DOMAIN STAGES :
        CASE STAGES[i] = "token"    -> reason \in {"signature_invalid", "issuer_unknown",
                                         "token_expired", "token_malformed", "unknown_tool"}
          [] STAGES[i] = "audience" -> reason \in {"audience_mismatch",
                                                   "insufficient_effective_scope"}
          [] STAGES[i] = "scope"    -> reason = "delegation_malformed"
          [] STAGES[i] = "approval" -> reason \in {"approval_required", "approval_expired",
                                                   "approval_already_consumed"} }

\* STAGE_OF_REASON: the position of the stage a refusal comes from, as a set of
\* at most one.
RefusedAt(reason) ==
    { i \in DOMAIN STAGES :
        CASE STAGES[i] = "token"    -> reason \in {"signature_invalid", "issuer_unknown",
                                         "token_expired", "token_malformed", "unknown_tool"}
          [] STAGES[i] = "audience" -> reason = "audience_mismatch"
          [] STAGES[i] = "scope"    -> reason \in {"delegation_malformed",
                                                   "insufficient_effective_scope"}
          [] STAGES[i] = "approval" -> reason \in {"approval_required", "approval_expired",
                                                   "approval_already_consumed"} }

\* PERFORMED: the stages each policy is said to perform.
Performs(policy, stage) == policy = "naive" => stage # "audience"

\* marks: how stage i of an entry is drawn.
Mark(entry, i) ==
    LET stop == RefusedAt(entry.reason)
    IN  IF ~Performs(entry.policy, STAGES[i]) THEN "unchecked"
        ELSE IF entry.reason = None THEN "passed"
        ELSE IF stop = {} THEN "unknown"
        ELSE IF \E s \in stop : i < s THEN "passed"
        ELSE IF i \in stop THEN "refused"
        ELSE "unreached"

\* parseAudit demands text for the subject and the required scope; the one
\* entry that has none throws, and the whole page with it.
Parses(entries) ==
    \A entry \in entries : entry.subject # None /\ entry.required_scope # None
==============================================================================
