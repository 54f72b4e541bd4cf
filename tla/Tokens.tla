------------------------------- MODULE Tokens -------------------------------
(***************************************************************************)
(* verify_token (tokens.py): from a bearer string to claims, or to the     *)
(* reason it is not authentic.                                             *)
(*                                                                         *)
(* A bearer string is abstracted to a record of what the verifier can tell *)
(* apart about it:                                                         *)
(*   bytes     its length in UTF-8 bytes                                   *)
(*   parses    the header and the payload can be decoded as JSON           *)
(*   iss, kid  the issuer claim (None: absent or not text), the header kid *)
(*   alg, key  the signing algorithm, and the key that really signed it    *)
(*   missing   the required claims the payload lacks                       *)
(*   iat, exp, sub, jti   the registered claims                            *)
(*   aud, scope   claims in one of three shapes: [shape, names], the shape *)
(*             "text" or "list" (of text), or "other"                      *)
(*   act       the nested act claims as a sequence, outermost first: each  *)
(*             [well_formed, sub, scope]                                   *)
(***************************************************************************)
EXTENDS Domain

CONSTANTS
    JwksByIssuer,       \* trusted issuer -> (kid -> verification key)
    MaxTokenBytes,      \* MAX_TOKEN_BYTES, 16 KiB in the code
    MaxChainLinks       \* the depth cap of _chain, 10 in the code

ASSUME TokensAssumption ==
    /\ MaxTokenBytes \in Nat \ {0}
    /\ MaxChainLinks \in Nat \ {0}

ALGORITHMS == {"EdDSA", "RS256"}

\* A claim that is neither text nor a list of text yields the empty set:
\* an unreadable scope never becomes a wide one.
Scopes(raw) == IF raw.shape \in {"text", "list"} THEN raw.names ELSE {}

\* The chain is refused as a whole when a link cannot be read or when there
\* are too many; no link is ever skipped.
Chain_SkipsMalformedLinks(token) ==
    [ failure |-> IF Len(token.act) > MaxChainLinks THEN "delegation_malformed" ELSE None,
      links |-> LET readable == SelectSeq(token.act, LAMBDA node : node.well_formed)
                IN  [ i \in DOMAIN readable |->
                        LET node == readable[Len(readable) + 1 - i]
                        IN  [subject |-> node.sub, scopes |-> Scopes(node.scope)] ] ]

Chain(token) ==
    [ failure |-> IF \/ Len(token.act) > MaxChainLinks
                     \/ \E i \in DOMAIN token.act : ~token.act[i].well_formed
                  THEN "delegation_malformed" ELSE None,
      links |-> [ i \in DOMAIN token.act |->
                    LET node == token.act[Len(token.act) + 1 - i]
                    IN  [subject |-> node.sub, scopes |-> Scopes(node.scope)] ] ]

\* jwt.decode with the signature, required claims, iat, exp and iss checked,
\* in that order, and its exceptions mapped to reasons as the handlers do.
JwtDecodeFailure(token, now) ==
    IF \/ token.alg \notin ALGORITHMS
       \/ token.key # JwksByIssuer[token.iss][token.kid] THEN "signature_invalid"
    ELSE IF token.missing # {}  THEN "token_malformed"
    ELSE IF token.iat > now     THEN "signature_invalid"  \* ImmatureSignatureError
    ELSE IF token.exp <= now    THEN "token_expired"
    ELSE None

\* What verify_token refuses before it has a candidate key.
NoCandidateKey(token) ==
    IF token.bytes > MaxTokenBytes THEN "token_malformed"
    ELSE IF ~token.parses THEN "token_malformed"
    ELSE IF token.iss \notin DOMAIN JwksByIssuer THEN "issuer_unknown"
    ELSE IF token.kid \notin DOMAIN JwksByIssuer[token.iss] THEN "signature_invalid"
    ELSE None

VerificationFailure(token, now) ==
    IF NoCandidateKey(token) # None THEN NoCandidateKey(token)
    ELSE IF JwtDecodeFailure(token, now) # None THEN JwtDecodeFailure(token, now)
    ELSE IF token.aud.shape \notin {"text", "list"} THEN "token_malformed"
    ELSE Chain(token).failure

\* failure is None exactly when claims is meaningful.
VerifyToken(token, now) ==
    [ failure |-> VerificationFailure(token, now),
      claims  |-> [ issuer     |-> token.iss,
                    subject    |-> token.sub,
                    audience   |-> token.aud.names,
                    expires_at |-> token.exp,
                    issued_at  |-> token.iat,
                    token_id   |-> token.jti,
                    scopes     |-> Scopes(token.scope),
                    chain      |-> Chain(token).links ] ]
=============================================================================
