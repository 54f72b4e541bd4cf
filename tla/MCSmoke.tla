------------------------------- MODULE MCSmoke -------------------------------
(***************************************************************************)
(* Constants for model checking the deployed smoke.                        *)
(***************************************************************************)
EXTENDS Smoke

CONSTANT Probes     \* how many requests the script may need

MCJwks == [i \in {Issuer} |-> [k \in {KeyId} |-> OwnKey]]
MCPolicy == HARDENED
MCSubjects == {Agent}
MCAccounts == {"ACC-1"}
MCCredentials == {ApproverToken, Agents}
MCBodies == {Body(ttl) : ttl \in 1..DefaultTtl}
MCApprovalIds == 1..6
MCCalls == 1..(Probes + 1)
MCProbeCalls == [i \in 1..Probes |-> i]
MCRequests == {CallOf(m) : m \in SmokeMessages}
\* A visitor without a token.
AStranger == {Posted("garbage", "issue_credit")}
==============================================================================
