---------------------------- MODULE FamilyContract ----------------------------
(***************************************************************************)
(* What the service promises about refresh-token families, said without    *)
(* requests, transactions or tokens in flight.  A family is issued to one  *)
(* owner, is live until it is revoked, and is dead for ever after.  While  *)
(* it is live each exchange replaces the current token by a newer one.     *)
(* A revocation takes families of a single owner: one family when a stale  *)
(* token is presented, any set of the owner's families when the password   *)
(* is reset.                                                               *)
(*                                                                         *)
(* TokenLifecycle is shown to implement this contract.                     *)
(***************************************************************************)
EXTENDS Naturals

CONSTANTS Families, Users, NoUser

VARIABLES
  status,   \* the life of each family
  owner,    \* the user it was issued to, NoUser while it is unborn
  current   \* serial number of the one token that can be exchanged, 0 if none

contractVars == <<status, owner, current>>

ContractTypeOK ==
  /\ status \in [Families -> {"unborn", "live", "dead"}]
  /\ owner \in [Families -> Users \cup {NoUser}]
  /\ current \in [Families -> Nat]

Init ==
  /\ status = [f \in Families |-> "unborn"]
  /\ owner = [f \in Families |-> NoUser]
  /\ current = [f \in Families |-> 0]

Issue(f, u) ==
  /\ status[f] = "unborn"
  /\ status' = [status EXCEPT ![f] = "live"]
  /\ owner' = [owner EXCEPT ![f] = u]
  /\ current' = [current EXCEPT ![f] = 1]

Exchange(f) ==
  /\ status[f] = "live"
  /\ current' = [current EXCEPT ![f] = @ + 1]
  /\ UNCHANGED <<status, owner>>

\* S is not "all live families of u": see PasswordResetRevokesAll in
\* TokenLifecycle for why the code does not promise that.
Revoke(u, S) ==
  /\ \A f \in S : status[f] # "unborn" /\ owner[f] = u
  /\ status' = [f \in Families |-> IF f \in S THEN "dead" ELSE status[f]]
  /\ current' = [f \in Families |-> IF f \in S THEN 0 ELSE current[f]]
  /\ UNCHANGED owner

Next ==
  \/ \E f \in Families, u \in Users : Issue(f, u)
  \/ \E f \in Families : Exchange(f)
  \/ \E u \in Users, S \in SUBSET Families : Revoke(u, S)

Spec == Init /\ [][Next]_contractVars
===============================================================================
