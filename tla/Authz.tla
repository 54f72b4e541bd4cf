-------------------------------- MODULE Authz --------------------------------
(***************************************************************************)
(* The authorization decision (authz.py): pure, and the only place where   *)
(* authority is computed.                                                  *)
(***************************************************************************)
EXTENDS Tokens

HARDENED == [name |-> "hardened", check_audience |-> TRUE, attenuate_chain |-> TRUE]
NAIVE    == [name |-> "naive", check_audience |-> FALSE, attenuate_chain |-> FALSE]

EffectiveScopes_ForgetsRoot(claims, attenuate) ==
    { s \in claims.scopes :
        attenuate => \A i \in DOMAIN claims.chain : i > 1 => s \in claims.chain[i].scopes }

EffectiveScopes_DirectDelegatorOnly(claims, attenuate) ==
    { s \in claims.scopes :
        attenuate => \A i \in DOMAIN claims.chain :
                        i = Len(claims.chain) => s \in claims.chain[i].scopes }

\* The intersection of the leaf's claim with every link of the chain.
EffectiveScopes(claims, attenuate) ==
    { s \in claims.scopes :
        attenuate => \A i \in DOMAIN claims.chain : s \in claims.chain[i].scopes }

\* The reason authorize refuses verified claims, or None. Expiry before
\* audience, audience before scope.
Refusal(policy, claims, tool, audience, now) ==
    IF tool \notin DOMAIN TOOL_SCOPES THEN "unknown_tool"
    ELSE IF claims.expires_at <= now THEN "token_expired"
    ELSE IF policy.check_audience /\ audience \notin claims.audience THEN "audience_mismatch"
    ELSE IF TOOL_SCOPES[tool] \notin EffectiveScopes(claims, policy.attenuate_chain)
         THEN "insufficient_effective_scope"
    ELSE None

\* verified is what VerifyToken returned: a failed verification has no claims
\* to reason about and its reason is passed through.
Authorize(policy, verified, tool, audience, now) ==
    LET claims == verified.claims
        reason == IF verified.failure # None
                  THEN verified.failure
                  ELSE Refusal(policy, claims, tool, audience, now)
        known  == verified.failure = None
        routed == known /\ tool \in DOMAIN TOOL_SCOPES
    IN  [ decision         |-> IF reason = None THEN "allowed" ELSE "denied",
          reason           |-> reason,
          subject          |-> IF known THEN claims.subject ELSE None,
          token_id         |-> IF known THEN claims.token_id ELSE None,
          effective_scopes |-> IF routed
                               THEN EffectiveScopes(claims, policy.attenuate_chain) ELSE {},
          required_scope   |-> IF routed THEN TOOL_SCOPES[tool] ELSE None ]
==============================================================================
