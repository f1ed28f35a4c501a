---------------------------- MODULE MCUserSessions ----------------------------
(* UserSessions for TLC: users and requests are interchangeable.           *)
EXTENDS UserSessions, TLC

Symmetry == Permutations(Users) \cup Permutations(Requests)
===============================================================================
