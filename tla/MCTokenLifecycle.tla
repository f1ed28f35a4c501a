--------------------------- MODULE MCTokenLifecycle ---------------------------
(* TokenLifecycle for TLC: users, families and requests are interchangeable. *)
EXTENDS TokenLifecycle, TLC

Symmetry == Permutations(Users) \cup Permutations(Families) \cup Permutations(Requests)
===============================================================================
