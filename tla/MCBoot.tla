-------------------------------- MODULE MCBoot --------------------------------
(***************************************************************************)
(* Constants for model checking a boot: three containers and one process   *)
(* that runs create_all.                                                   *)
(***************************************************************************)
EXTENDS Boot, TLC

CONSTANTS one, another, third, lab

MCTrio == {one, another, third}
MCLab  == {lab}
===============================================================================
