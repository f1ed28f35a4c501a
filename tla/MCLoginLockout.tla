---------------------------- MODULE MCLoginLockout ----------------------------
(* LoginLockout for TLC.  The account "failed" stands for a name that the  *)
(* textual replacement changes, "lockout" for what it becomes.             *)
EXTENDS LoginLockout, TLC

RenamedNone == [k \in Keys |-> k]
RenamedFailed == [k \in Keys |-> IF k = "failed" THEN "lockout" ELSE k]

Symmetry == Permutations(Requests)
===============================================================================
