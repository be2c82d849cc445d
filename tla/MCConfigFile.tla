---------------------------- MODULE MCConfigFile ----------------------------
(***************************************************************************)
(* A small instance of ConfigFile for TLC: no file at first, or one whose  *)
(* only policy is the default.                                             *)
(***************************************************************************)
EXTENDS ConfigFile, TLC

CONSTANTS k1, k2, n1

FirstFiles == {Absent, [key |-> k1, default |-> n1, policies |-> {n1}]}
Symm == Permutations(Commands)
=============================================================================
