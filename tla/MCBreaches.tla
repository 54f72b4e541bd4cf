------------------------------ MODULE MCBreaches ------------------------------
(***************************************************************************)
(* Constants for model checking the planted breaches: two of one source    *)
(* file, one of them needing the database and one of a file of the tests.  *)
(***************************************************************************)
EXTENDS Breaches

MCNumbers == {1, 2, 10}
===============================================================================
