---------------------------- MODULE MCAccountTokens ----------------------------
(* AccountTokens for TLC: users, tokens and requests are interchangeable.  *)
EXTENDS AccountTokens, TLC

Symmetry == Permutations(Users) \cup Permutations(Tokens) \cup Permutations(Requests)
===============================================================================
