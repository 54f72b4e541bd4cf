------------------------------- MODULE MCMatrix -------------------------------
(***************************************************************************)
(* Constants for model checking the security matrix: fourteen calls,       *)
(* twelve approval ids, and a clock that can outrun a token.               *)
(***************************************************************************)
EXTENDS Matrix

MCCalls == 1..14
MCApprovalIds == 1..12
MCSubjects == {Agent}
MCAccounts == {"ACC-1"}
MCJwks == [i \in {Issuer} |-> [k \in {KeyId} |-> OwnKey]]
===============================================================================
