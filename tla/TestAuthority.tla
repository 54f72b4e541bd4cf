---------------------------- MODULE TestAuthority ----------------------------
(***************************************************************************)
(* The lab's token mint (testauthority.py): really signed tokens, correct  *)
(* but for what the caller asks to be wrong.                               *)
(***************************************************************************)
EXTENDS Authz

CONSTANTS Issuer, KeyId, OwnKey, ForeignKey

\* The server knows no issuer by the foreign key.
ASSUME TestAuthorityAssumption ==
    \A iss \in DOMAIN JwksByIssuer : \A kid \in DOMAIN JwksByIssuer[iss] :
        JwksByIssuer[iss][kid] # ForeignKey

Text(names) == [shape |-> "text", names |-> names]

\* One act node; scopes are sorted into one space-separated text.
Node(sub, names) == [well_formed |-> TRUE, sub |-> sub, scope |-> Text(names)]

\* mint: issued directly to its subject.
Mint(subject, audience, scopes, lifetime, now) ==
    [ bytes |-> 1, parses |-> TRUE, iss |-> Issuer, kid |-> KeyId, alg |-> "EdDSA",
      key |-> OwnKey, missing |-> {}, iat |-> now, exp |-> now + lifetime,
      sub |-> subject, jti |-> "jti", aud |-> Text({audience}),
      scope |-> Text(scopes), act |-> <<>> ]

\* mint_delegated: chain is root first, act nests the other way round.
MintDelegated(chain, subject, audience, scopes, lifetime, now) ==
    [ Mint(subject, audience, scopes, lifetime, now) EXCEPT
        !.act = [i \in DOMAIN chain |->
                   LET link == chain[Len(chain) + 1 - i]
                   IN  Node(link.subject, link.scopes)] ]

\* mint_flawed(bad_signature): a real signature by a key the server does not
\* know, under the trusted kid.
Forged(token) == [token EXCEPT !.key = ForeignKey]

\* mint_malformed: a real signature over claims that make no sense.
WithOddAudience(token) == [token EXCEPT !.aud.shape = "other"]
WithBrokenLink(token, i) == [token EXCEPT !.act[i].well_formed = FALSE]
WithOddScope(token, i) == [token EXCEPT !.act[i].scope.shape = "other"]
==============================================================================
