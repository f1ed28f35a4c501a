----------------------------- MODULE AccountTokens -----------------------------
(***************************************************************************)
(* The tokens an account receives by mail: registering, verifying the      *)
(* address, asking for the mail again, forgetting and resetting the        *)
(* password (src/app/services/auth_service.py).                            *)
(*                                                                         *)
(* A request draws a token, hands the mail to the broker and only then     *)
(* writes the row, which others see at its commit.  So a mail may exist    *)
(* whose token is not stored yet, or never will be.  Every handler reads   *)
(* the user's row first and writes, some awaits later, the columns it      *)
(* changed and no other.  Passwords, families and is_active only take      *)
(* behaviours away from these columns and are left out (TokenLifecycle).   *)
(***************************************************************************)
EXTENDS Naturals, FiniteSets

CONSTANTS
  Users,      \* accounts, identified by e-mail
  Tokens,     \* values secrets.token_urlsafe may draw
  NoToken,    \* NULL
  Requests    \* slots for requests in flight

ASSUME TokensAssumption ==
  /\ NoToken \notin Tokens
  /\ IsFiniteSet(Requests)

VARIABLES
  users,      \* table users; verification and reset hold a token or NULL
  mails,      \* tasks handed to the broker: delivered late, twice or never
  requests,   \* what each request in flight has read and drawn
  known,      \* history: the tokens that have been stored in either column
  spends      \* history: how many resets have used each token

vars == <<users, mails, requests, known, spends>>

-------------------------------------------------------------------------------
Columns == {"verification", "reset"}

UserRows ==
  [registered: BOOLEAN, verified: BOOLEAN, verification: Tokens \cup {NoToken},
   reset: Tokens \cup {NoToken}, unexpired: BOOLEAN]

NoUser == [registered |-> FALSE, verified |-> FALSE, verification |-> NoToken,
           reset |-> NoToken, unexpired |-> FALSE]

Mails == [to: Users, for: Columns, token: Tokens]

Idle == [at |-> "idle"]

RequestStates ==
  {Idle} \cup [at: {"register", "verify", "resend", "forgot", "reset"},
               user: Users, token: Tokens]

TypeOK ==
  /\ users \in [Users -> UserRows]
  /\ mails \subseteq Mails
  /\ requests \in [Requests -> RequestStates]
  /\ known \subseteq Tokens
  /\ spends \in [Tokens -> Nat]

Init ==
  /\ users = [u \in Users |-> NoUser]
  /\ mails = {}
  /\ requests = [p \in Requests |-> Idle]
  /\ known = {}
  /\ spends = [t \in Tokens |-> 0]

-------------------------------------------------------------------------------
\* Mutant: a second mail carries the token that is stored already.
ReuseStored(u, column, t) ==
  IF users[u][column] = NoToken THEN \A m \in mails : m.token # t
  ELSE t = users[u][column]

Draw(u, column, t) == \A m \in mails : m.token # t

\* Mutant: an error of the broker is swallowed.
QueueOrLose(u, column, t) ==
  mails' \in {mails, mails \cup {[to |-> u, for |-> column, token |-> t]}}

Queue(u, column, t) ==
  mails' = mails \cup {[to |-> u, for |-> column, token |-> t]}

(* A request of the user begins: read, draw and queue run without an await *)
(* after the read.                                                         *)
Begin(p, place, u, t) ==
  /\ requests[p] = Idle
  /\ requests' = [requests EXCEPT ![p] = [at |-> place, user |-> u, token |-> t]]
  /\ UNCHANGED <<users, known, spends>>

(* The handler returned and its row is committed.                          *)
Commit(p, place, row) ==
  /\ requests[p].at = place
  /\ users' = [users EXCEPT ![requests[p].user] = row]
  /\ requests' = [requests EXCEPT ![p] = Idle]
  /\ UNCHANGED mails

Row(p) == users[requests[p].user]

(* The row is inserted before the mail is queued.  A second INSERT of the  *)
(* address waits for the first to end.                                     *)
RegisterInsert(p, u, t) ==
  /\ ~users[u].registered
  /\ \A q \in Requests : ~(requests[q].at = "register" /\ requests[q].user = u)
  /\ Draw(u, "verification", t)
  /\ Queue(u, "verification", t)
  /\ Begin(p, "register", u, t)

RegisterCommit(p) ==
  LET t == requests[p].token
  IN  /\ Commit(p, "register",
                [NoUser EXCEPT !.registered = TRUE, !.verification = t])
      /\ known' = known \cup {t}
      /\ UNCHANGED spends

VerifyRead(p, u, t) ==
  /\ users[u].verification = t
  /\ Begin(p, "verify", u, t)
  /\ UNCHANGED mails

VerifyCommit(p) ==
  /\ Commit(p, "verify", [Row(p) EXCEPT !.verified = TRUE, !.verification = NoToken])
  /\ UNCHANGED <<known, spends>>

ResendRead(p, u, t) ==
  /\ users[u].registered
  /\ ~users[u].verified
  /\ Draw(u, "verification", t)
  /\ Queue(u, "verification", t)
  /\ Begin(p, "resend", u, t)

\* Mutants: the mail is stored instead of its token; the row is written as it
\* was read, is_verified included.
ResentMail(row, t) == [row EXCEPT !.verification = [token |-> t]]
ResentFromSnapshot(row, t) == [row EXCEPT !.verification = t, !.verified = FALSE]

Resent(row, t) == [row EXCEPT !.verification = t]

ResendCommit(p) ==
  LET t == requests[p].token
  IN  /\ Commit(p, "resend", Resent(Row(p), t))
      /\ known' = known \cup {t}
      /\ UNCHANGED spends

ForgotRead(p, u, t) ==
  /\ users[u].registered
  /\ Draw(u, "reset", t)
  /\ Queue(u, "reset", t)
  /\ Begin(p, "forgot", u, t)

ForgotCommit(p) ==
  LET t == requests[p].token
  IN  /\ Commit(p, "forgot", [Row(p) EXCEPT !.reset = t, !.unexpired = TRUE])
      /\ known' = known \cup {t}
      /\ UNCHANGED spends

ResetExpires(u) ==
  /\ users[u].unexpired
  /\ users' = [users EXCEPT ![u].unexpired = FALSE]
  /\ UNCHANGED <<mails, requests, known, spends>>

ResetRead(p, u, t) ==
  /\ users[u].reset = t
  /\ users[u].unexpired
  /\ Begin(p, "reset", u, t)
  /\ UNCHANGED mails

\* Mutant: the token stays until it expires.
KeepToken(row) == row

WasReset(row) == [row EXCEPT !.reset = NoToken, !.unexpired = FALSE]

ResetCommit(p) ==
  /\ Commit(p, "reset", WasReset(Row(p)))
  /\ spends' = [spends EXCEPT ![requests[p].token] = @ + 1]
  /\ UNCHANGED known

(* A crash, an error of the database or the broker, or a password that the *)
(* policy refuses: get_db rolls back, what was queued stays queued.        *)
Abort(p) ==
  /\ requests[p] # Idle
  /\ requests' = [requests EXCEPT ![p] = Idle]
  /\ UNCHANGED <<users, mails, known, spends>>

Finish(p) ==
  \/ RegisterCommit(p)
  \/ VerifyCommit(p)
  \/ ResendCommit(p)
  \/ ForgotCommit(p)
  \/ ResetCommit(p)
  \/ Abort(p)

Next ==
  \/ \E p \in Requests, u \in Users, t \in Tokens :
       \/ RegisterInsert(p, u, t)
       \/ ResendRead(p, u, t)
       \/ ForgotRead(p, u, t)
  \/ \E p \in Requests, m \in mails :
       VerifyRead(p, m.to, m.token) \/ ResetRead(p, m.to, m.token)
  \/ \E u \in Users : ResetExpires(u)
  \/ \E p \in Requests : Finish(p)

Spec == Init /\ [][Next]_vars

-------------------------------------------------------------------------------
(* Whoever has not verified the address yet can: the row holds a token and *)
(* that token was mailed to this address, whatever resends, verifications  *)
(* and rollbacks went on (auth_service.py:92-93, 163-165).                 *)
UnverifiedCanVerify ==
  \A u \in Users : users[u].registered /\ ~users[u].verified =>
    [to |-> u, for |-> "verification", token |-> users[u].verification] \in mails

(* Resets find the row without locking it, so one token may reset the      *)
(* password more than once, but only by requests that had found it before  *)
(* the first of them committed (auth_service.py:309).                      *)
SpentBound == \A t \in Tokens : spends[t] <= Cardinality(Requests)

(* A resend that read the row before it was verified does not undo the     *)
(* verification (auth_service.py:162-174).                                 *)
VerificationIsPermanent ==
  [][\A u \in Users : users[u].verified => users'[u].verified]_vars

(* The two columns keep what MailedToken promises: neither a stale resend  *)
(* nor a stale forgot brings back a token that was used or replaced, and   *)
(* no token gets into another account's row.                               *)
MailedFor(column) == {<<m.to, m.token>> : m \in {m \in mails : m.for = column}}
KnownFor(column) == {t \in known : \E m \in mails : m.for = column /\ m.token = t}

VerificationSlot == INSTANCE MailedToken WITH
  mailed <- MailedFor("verification"), known <- KnownFor("verification"),
  stored <- [u \in Users |-> users[u].verification]

ResetSlot == INSTANCE MailedToken WITH
  mailed <- MailedFor("reset"), known <- KnownFor("reset"),
  stored <- [u \in Users |-> users[u].reset]

VerificationSlotSpec == VerificationSlot!Spec
ResetSlotSpec == ResetSlot!Spec
===============================================================================
