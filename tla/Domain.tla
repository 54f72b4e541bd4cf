------------------------------- MODULE Domain -------------------------------
(***************************************************************************)
(* The vocabulary of the authorization decision (domain.py): the closed    *)
(* set of refusal reasons, the scope each tool requires and the tools      *)
(* whose effect cannot be undone.                                          *)
(***************************************************************************)
EXTENDS Integers, Sequences, FiniteSets

CONSTANT None       \* Python's None: no reason, no subject, not consumed

Decisions == {"allowed", "denied"}

DENIAL_REASONS ==
    { "signature_invalid", "issuer_unknown", "token_expired", "token_malformed",
      "audience_mismatch", "insufficient_effective_scope", "delegation_malformed",
      "approval_required", "approval_expired", "approval_already_consumed",
      "unknown_tool", "rate_limited" }

TOOL_SCOPES ==
    [ tool \in {"read_account", "flag_account", "issue_credit"} |->
        CASE tool = "read_account" -> "account:read"
          [] tool = "flag_account" -> "account:flag"
          [] tool = "issue_credit" -> "credit:issue" ]

IRREVERSIBLE_TOOLS == {"issue_credit"}

\* None is not a value of any other kind.
ASSUME NoneAssumption ==
    /\ None \notin DENIAL_REASONS
    /\ None \notin {TOOL_SCOPES[tool] : tool \in DOMAIN TOOL_SCOPES}
    /\ None \notin Int
=============================================================================
