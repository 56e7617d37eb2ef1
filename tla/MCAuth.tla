------------------------------- MODULE MCAuth -------------------------------
(* Auth for TLC: profiles, calls and logins are interchangeable.  The       *)
(* digests are a small positive number, the same one negated, and the most  *)
(* negative one, whose hash overflows.                                      *)
EXTENDS Auth, TLC

Symmetry == Permutations(Calls) \cup Permutations(Profiles \ Offline) \cup Permutations(Logins)
SomeDigests == {<<0, 3, 5>>, <<15, 12, 11>>, <<8, 0, 0>>}
=============================================================================
