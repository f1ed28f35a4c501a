-------------------------------- MODULE MCSignIn -------------------------------
(* SignIn for TLC: accounts and calls are interchangeable.                 *)
EXTENDS SignIn, TLC

Symmetry == Permutations(Accounts) \cup Permutations(Calls)
===============================================================================
