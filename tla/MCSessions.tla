----------------------------- MODULE MCSessions -----------------------------
(***************************************************************************)
(* Small instances of SessionsProperties for TLC.                          *)
(***************************************************************************)
EXTENDS SessionsProperties, TLC

\* Workers are interchangeable; so are sessions, and grants
Symm == Permutations(Workers) \cup Permutations(Sessions) \cup Permutations(Grants)
=============================================================================
