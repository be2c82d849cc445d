----------------------------- MODULE MCProfiles -----------------------------
(***************************************************************************)
(* Small instances of Profiles for TLC.                                    *)
(***************************************************************************)
EXTENDS Profiles, TLC

Symm == Permutations(Handlers) \cup Permutations(Sessions) \cup Permutations(Jars)
=============================================================================
