---------------------------- MODULE MCDelegation ----------------------------
(***************************************************************************)
(* Constants for model checking delegation: one trusted issuer, one key.   *)
(***************************************************************************)
EXTENDS Delegation

MCJwks == [i \in {Issuer} |-> [k \in {KeyId} |-> OwnKey]]
=============================================================================
