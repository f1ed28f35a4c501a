------------------------------ MODULE MailedToken ------------------------------
(***************************************************************************)
(* What a column of users that holds the hash of a mailed token promises:  *)
(* it only ever holds a token that was mailed to that user, and a token    *)
(* that left the column, used or replaced, never comes back.  AccountTokens*)
(* implements this twice, with verification_token and with reset_token     *)
(* (src/app/models/user.py:33-34).                                         *)
(***************************************************************************)
CONSTANTS Users, Tokens, NoToken

VARIABLES
  mailed,   \* pairs of a user and a token handed to the mail queue
  stored,   \* the column: the token whose hash it holds, or NoToken
  known     \* the tokens the column has held so far

slot == <<mailed, stored, known>>

Init ==
  /\ mailed = {}
  /\ stored = [u \in Users |-> NoToken]
  /\ known = {}

Mail(u, t) ==
  /\ \A m \in mailed : m[2] # t
  /\ mailed' = mailed \cup {<<u, t>>}
  /\ UNCHANGED <<stored, known>>

Store(u, t) ==
  /\ <<u, t>> \in mailed
  /\ t \notin known
  /\ stored' = [stored EXCEPT ![u] = t]
  /\ known' = known \cup {t}
  /\ UNCHANGED mailed

Clear(u) ==
  /\ stored' = [stored EXCEPT ![u] = NoToken]
  /\ UNCHANGED <<mailed, known>>

Next ==
  \/ \E u \in Users, t \in Tokens : Mail(u, t) \/ Store(u, t)
  \/ \E u \in Users : Clear(u)

Spec == Init /\ [][Next]_slot
===============================================================================
