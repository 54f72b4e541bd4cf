----------------------------- MODULE Delegation -----------------------------
(***************************************************************************)
(* A token on its way from the root principal to the agent that presents   *)
(* it.  Each holder may have a token minted for the next one, claiming any *)
(* scopes it likes; the result may be damaged or forged; time passes.  The *)
(* server's answer to the final token is what tokens.py and authz.py say.  *)
(***************************************************************************)
EXTENDS TestAuthority

CONSTANTS
    Holders,        \* principals a token can be minted for
    Names,          \* scope names that get claimed
    Here, Elsewhere, \* audiences: this server and another one
    Lifetime,
    LastSecond      \* bound: the clock stops here

ASSUME DelegationAssumption == Lifetime \in Int

VARIABLES token, now

delegationVars == <<token, now>>

\* The root's own token, claiming anything, for either server.
DelegationInit ==
    /\ now = 0
    /\ \E h \in Holders, claimed \in SUBSET Names, aud \in {Here, Elsewhere} :
         token = Mint(h, aud, claimed, Lifetime, 0)

ChainOf(t) ==
    [i \in DOMAIN t.act |->
        LET node == t.act[Len(t.act) + 1 - i]
        IN  [subject |-> node.sub, scopes |-> node.scope.names]]

Intact(t) ==
    /\ t.key = OwnKey
    /\ \A i \in DOMAIN t.act : t.act[i].well_formed /\ t.act[i].scope.shape = "text"

\* The holder delegates: it becomes the last link of the chain, with what its
\* own token claimed, and the new leaf claims whatever is asked for.
Delegate(h, claimed) ==
    /\ Intact(token)
    /\ Len(token.act) <= MaxChainLinks
    /\ token' = [ MintDelegated(Append(ChainOf(token),
                                       [subject |-> token.sub, scopes |-> token.scope.names]),
                                h, Here, claimed, Lifetime, 0)
                    EXCEPT !.aud = token.aud ]
    /\ UNCHANGED now

Damage ==
    /\ Intact(token)
    /\ \/ token' = Forged(token)
       \/ token' = WithOddAudience(token)
       \/ \E i \in DOMAIN token.act : token' \in {WithBrokenLink(token, i), WithOddScope(token, i)}
    /\ UNCHANGED now

Second == now < LastSecond /\ now' = now + 1 /\ UNCHANGED token

DelegationNext ==
    \/ \E h \in Holders, claimed \in SUBSET Names : Delegate(h, claimed)
    \/ Damage
    \/ Second

DelegationSpec == DelegationInit /\ [][DelegationNext]_delegationVars

\* The tools the server would let this token use.
Permitted(policy, t, at) ==
    {tool \in DOMAIN TOOL_SCOPES :
        Authorize(policy, VerifyToken(t, at), tool, Here, at).decision = "allowed"}

\* Authority only shrinks on the way: no further hop, whatever its leaf
\* claims, no damage to the chain and no passing of time permits a tool that
\* was not permitted before (authz.py: "it is monotone", tokens.py: a
\* malformed link must not drop out of the intersection).
AuthorityOnlyShrinks ==
    [][Permitted(HARDENED, token, now)' \subseteq Permitted(HARDENED, token, now)]_delegationVars

\* The hardened policy permits what the naive one does, less the tokens that
\* are addressed elsewhere or claim what an ancestor lacked, and nothing else
\* (authz.py: the comparison is a difference in the policy).
HardenedIsNaiveLessTwo ==
    Permitted(HARDENED, token, now) =
        {tool \in Permitted(NAIVE, token, now) :
            /\ Here \in token.aud.names
            /\ \A i \in DOMAIN token.act : TOOL_SCOPES[tool] \in Scopes(token.act[i].scope)}
=============================================================================
