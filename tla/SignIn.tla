--------------------------------- MODULE SignIn --------------------------------
(***************************************************************************)
(* What one call leaves behind: login_user and verify_mfa_challenge        *)
(* (src/app/services/auth_service.py) and the three calls of               *)
(* mfa_service.py, each from its arrival to its answer.                    *)
(*                                                                         *)
(* A call writes rows of several tables and an audit event in one          *)
(* transaction, counts failures in Redis outside of it, and a refusal      *)
(* commits its event before it raises, because raising rolls back.  A call *)
(* may die at every step below.  A step is one await, with one exception:  *)
(* the flush of the event of a refusal or of a challenge is part of the    *)
(* step that decides on it, because a call that dies before it and one     *)
(* that dies after it, before the commit, leave the same.                  *)
(*                                                                         *)
(* The rows of a call are named by the call.  Of Redis there are the two   *)
(* keys of an account; those of the client's address, the commands in      *)
(* which EXPIRE comes apart from INCR, and the lifetimes are LoginLockout. *)
(* What becomes of tokens and sessions later is TokenLifecycle and         *)
(* UserSessions.                                                           *)
(***************************************************************************)
EXTENDS Naturals, FiniteSets

CONSTANTS
  Accounts,     \* registered users
  Calls,        \* calls that clients make, each once
  NoSecret,     \* a call that shows no secret, an account without a row
  MaxFailed     \* settings.max_failed_attempts

ASSUME SignInAssumption ==
  NoSecret \notin Calls /\ IsFiniteSet(Calls) /\ MaxFailed \in Nat \ {0}

VARIABLES
  mfa,          \* table mfa_configs; a secret is named by the call that drew it
  failures,     \* Redis: the calls an account's counter has counted; its value
                \*   is their number
  lockouts,     \* Redis: the accounts whose lockout key exists
  committed,    \* the rows each call has committed
  calls,        \* where each call is, and its uncommitted rows
  tried,        \* history: calls that found the password wrong since the
                \*   account's counter was last deleted
  locked,       \* history: accounts whose lockout was set since then
  ungated       \* history: calls during which the account's MFA was once off

vars == <<mfa, failures, lockouts, committed, calls, tried, locked, ungated>>

-------------------------------------------------------------------------------
Effects == {"family", "session", "config", "enable", "disable"}

Successes == {"auth.login.success", "mfa.challenge.success", "mfa.challenge.issued",
              "mfa.setup.started", "mfa.enabled", "mfa.disabled"}

(* The events of mfa.challenge.failure, one for each reason.               *)
ChallengeFailures == {"challenge.undecodable", "challenge.invalid_token_type",
                      "challenge.invalid_user", "challenge.invalid_code"}

Refusals == {"auth.login.locked", "auth.login.failure", "auth.login.inactive",
             "mfa.verify.failure", "mfa.disable.failure"} \cup ChallengeFailures

Rows == Effects \cup Successes \cup Refusals

Kinds == {"login", "challenge", "setup", "verify", "disable"}

InFlight == {"password", "count", "lock", "clear", "gate", "user", "code", "config",
             "insert", "issue", "session", "audit", "return", "refuse", "raise"}
Ended == {"answered", "refused", "dead"}

(* NotYet is a call that no client has made.                               *)
NotYet == [at |-> "not yet"]

CallStates ==
  {NotYet} \cup [at: InFlight \cup Ended, kind: Kinds, user: Accounts,
                 rows: SUBSET Rows, secret: Calls \cup {NoSecret}]

TypeOK ==
  /\ mfa \in [Accounts -> [secret: Calls \cup {NoSecret}, enabled: BOOLEAN]]
  /\ failures \in [Accounts -> SUBSET Calls]
  /\ lockouts \subseteq Accounts
  /\ committed \in [Calls -> SUBSET Rows]
  /\ calls \in [Calls -> CallStates]
  /\ tried \in [Accounts -> SUBSET Calls]
  /\ locked \subseteq Accounts
  /\ ungated \subseteq Calls

Init ==
  /\ mfa = [u \in Accounts |-> [secret |-> NoSecret, enabled |-> FALSE]]
  /\ failures = [u \in Accounts |-> {}]
  /\ lockouts = {}
  /\ committed = [p \in Calls |-> {}]
  /\ calls = [p \in Calls |-> NotYet]
  /\ tried = [u \in Accounts |-> {}]
  /\ locked = {}
  /\ ungated = {}

-------------------------------------------------------------------------------
User(p) == calls[p].user
Running(p) == calls[p].at \in InFlight

(* The step of p from one place to the next, with the row it adds to its   *)
(* transaction and the secret it will answer with.                         *)
Shows(p, secret, place, new) ==
  calls' = [calls EXCEPT ![p] = [at |-> place, kind |-> @.kind, user |-> @.user,
                                 rows |-> @.rows \cup new, secret |-> secret]]

GoesTo(p, place, new) == Shows(p, calls[p].secret, place, new)

Arrives(p, kind, u, place, new) ==
  /\ calls[p] = NotYet
  /\ calls' = [calls EXCEPT ![p] = [at |-> place, kind |-> kind, user |-> u,
                                    rows |-> new, secret |-> NoSecret]]
  /\ ungated' = IF mfa[u].enabled THEN ungated ELSE ungated \cup {p}

database == <<mfa, committed>>
redis == <<failures, lockouts>>
history == <<tried, locked, ungated>>

-------------------------------------------------------------------------------
(* login_user.                                                             *)

(* The lockout of the client's address refuses logins to any account.      *)
Login(p, u) ==
  /\ \/ u \notin lockouts /\ Arrives(p, "login", u, "password", {})
     \/ Arrives(p, "login", u, "refuse", {"auth.login.locked"})
  /\ UNCHANGED <<database, redis, tried, locked>>

AcceptPassword(p) ==
  /\ calls[p].at = "password"
  /\ GoesTo(p, "clear", {})
  /\ UNCHANGED <<database, redis, history>>

(* The password is right, the user is not active.                          *)
RejectInactive(p) ==
  /\ calls[p].at = "password"
  /\ GoesTo(p, "refuse", {"auth.login.inactive"})
  /\ UNCHANGED <<database, redis, history>>

\* Mutant: the event is written and committed before record_failed_login.
RejectPasswordLogged(p) ==
  /\ calls[p].at = "password"
  /\ GoesTo(p, "count", {"auth.login.failure"})
  /\ committed' = [committed EXCEPT ![p] = @ \cup {"auth.login.failure"}]
  /\ tried' = [tried EXCEPT ![User(p)] = @ \cup {p}]
  /\ UNCHANGED <<mfa, redis, locked, ungated>>

RejectPassword(p) ==
  /\ calls[p].at = "password"
  /\ GoesTo(p, "count", {})
  /\ tried' = [tried EXCEPT ![User(p)] = @ \cup {p}]
  /\ UNCHANGED <<database, redis, locked, ungated>>

(* record_failed_login: INCR, and SET if the counter has reached the limit *)
CountFailure(p) ==
  LET counted == failures[User(p)] \cup {p}
  IN  /\ calls[p].at = "count"
      /\ failures' = [failures EXCEPT ![User(p)] = counted]
      /\ IF Cardinality(counted) >= MaxFailed THEN GoesTo(p, "lock", {})
         ELSE GoesTo(p, "refuse", {"auth.login.failure"})
      /\ UNCHANGED <<database, lockouts, history>>

SetLockout(p) ==
  /\ calls[p].at = "lock"
  /\ lockouts' = lockouts \cup {User(p)}
  /\ locked' = locked \cup {User(p)}
  /\ GoesTo(p, "refuse", {"auth.login.failure"})
  /\ UNCHANGED <<database, failures, tried, ungated>>

(* The counter is gone, and the history kept for it.                       *)
CounterDeleted(u) ==
  /\ failures' = [failures EXCEPT ![u] = {}]
  /\ tried' = [tried EXCEPT ![u] = {}]
  /\ locked' = locked \ {u}

ClearFailures(p) ==
  /\ calls[p].at = "clear"
  /\ CounterDeleted(User(p))
  /\ lockouts' = lockouts \ {User(p)}
  /\ GoesTo(p, "gate", {})
  /\ UNCHANGED <<database, ungated>>

\* Mutant: the filter on is_enabled is inverted.
GateInverted(u) == mfa[u].secret # NoSecret /\ ~mfa[u].enabled

GateClosed(u) == mfa[u].enabled

Gate(p) ==
  /\ calls[p].at = "gate"
  /\ IF GateClosed(User(p)) THEN GoesTo(p, "return", {"mfa.challenge.issued"})
     ELSE GoesTo(p, "issue", {})
  /\ UNCHANGED <<database, redis, history>>

-------------------------------------------------------------------------------
(* verify_mfa_challenge.                                                   *)

(* The token that the login q was answered with, perhaps expired.          *)
Challenge(p, q) ==
  /\ calls[q].at = "answered"
  /\ "mfa.challenge.issued" \in committed[q]
  /\ \/ Arrives(p, "challenge", User(q), "user", {})
     \/ Arrives(p, "challenge", User(q), "refuse", {"challenge.undecodable"})
  /\ UNCHANGED <<database, redis, tried, locked>>

(* Something else in its place: no token of the service, one of another    *)
(* type, or one whose subject is no UUID, which _parse_uuid_claim refuses  *)
(* without an event (u is the account the client means).                   *)
ChallengeMisused(p, u) ==
  /\ \/ Arrives(p, "challenge", u, "refuse", {"challenge.undecodable"})
     \/ Arrives(p, "challenge", u, "refuse", {"challenge.invalid_token_type"})
     \/ Arrives(p, "challenge", u, "raise", {})
  /\ UNCHANGED <<database, redis, tried, locked>>

ReadUser(p) ==
  /\ calls[p].at = "user"
  /\ \/ GoesTo(p, "code", {})
     \/ GoesTo(p, "refuse", {"challenge.invalid_user"})
  /\ UNCHANGED <<database, redis, history>>

CheckCode(p) ==
  /\ calls[p].at = "code"
  /\ \/ mfa[User(p)].enabled /\ GoesTo(p, "issue", {})
     \/ GoesTo(p, "refuse", {"challenge.invalid_code"})
  /\ UNCHANGED <<database, redis, history>>

-------------------------------------------------------------------------------
(* Both: token family, session, event.                                     *)

\* Mutant: _issue_token_pair commits the family.
IssueAndCommit(p) ==
  /\ calls[p].at = "issue"
  /\ GoesTo(p, "session", {"family"})
  /\ committed' = [committed EXCEPT ![p] = @ \cup {"family"}]
  /\ UNCHANGED <<mfa, redis, history>>

Issue(p) ==
  /\ calls[p].at = "issue"
  /\ GoesTo(p, "session", {"family"})
  /\ UNCHANGED <<database, redis, history>>

OpenSession(p) ==
  /\ calls[p].at = "session"
  /\ GoesTo(p, "audit", {"session"})
  /\ UNCHANGED <<database, redis, history>>

-------------------------------------------------------------------------------
(* setup_mfa, verify_mfa_setup, disable_mfa.                               *)

Enrol(p, u, kind) ==
  /\ Arrives(p, kind, u, "config", {})
  /\ UNCHANGED <<database, redis, tried, locked>>

(* A row that is not enabled yet is shown again, with its secret; 409 if   *)
(* it is enabled.                                                          *)
SetupConfig(p) ==
  LET row == mfa[User(p)]
  IN  /\ calls[p].at = "config" /\ calls[p].kind = "setup"
      /\ \/ row.enabled /\ GoesTo(p, "refused", {})
         \/ row.secret = NoSecret /\ GoesTo(p, "insert", {})
         \/ /\ ~row.enabled /\ row.secret # NoSecret
            /\ Shows(p, row.secret, "audit", {})
      /\ UNCHANGED <<database, redis, history>>

\* Mutant: mfa_configs.user_id is not unique.
NeverTaken(u) == FALSE

(* The unique index on user_id.                                            *)
Taken(u) == mfa[u].secret # NoSecret

(* The INSERT waits for a row of the same user that is not committed yet;  *)
(* IntegrityError if there is one that is.                                 *)
InsertConfig(p) ==
  /\ calls[p].at = "insert"
  /\ \A q \in Calls \ {p} :
       ~(Running(q) /\ User(q) = User(p) /\ "config" \in calls[q].rows)
  /\ \/ Taken(User(p)) /\ GoesTo(p, "dead", {})
     \/ ~Taken(User(p)) /\ Shows(p, p, "audit", {"config"})
  /\ UNCHANGED <<database, redis, history>>

(* 404 without a row; a row that is already as wanted is answered without  *)
(* an event; the code may be wrong.                                        *)
SwitchConfig(p) ==
  LET row == mfa[User(p)]
      enabling == calls[p].kind = "verify"
  IN  /\ calls[p].at = "config" /\ calls[p].kind \in {"verify", "disable"}
      /\ \/ /\ row.secret = NoSecret
            /\ GoesTo(p, "refused", {})
         \/ /\ row.secret # NoSecret /\ row.enabled = enabling
            /\ GoesTo(p, "answered", {})
         \/ /\ row.secret # NoSecret /\ row.enabled # enabling
            /\ \/ GoesTo(p, "audit", {IF enabling THEN "enable" ELSE "disable"})
               \/ GoesTo(p, "refuse", {IF enabling THEN "mfa.verify.failure"
                                       ELSE "mfa.disable.failure"})
      /\ UNCHANGED <<database, redis, history>>

-------------------------------------------------------------------------------
(* The end of every call.                                                  *)

Event(kind) ==
  CASE kind = "login" -> "auth.login.success"
    [] kind = "challenge" -> "mfa.challenge.success"
    [] kind = "setup" -> "mfa.setup.started"
    [] kind = "verify" -> "mfa.enabled"
    [] kind = "disable" -> "mfa.disabled"

RecordSuccess(p) ==
  /\ calls[p].at = "audit"
  /\ GoesTo(p, "return", {Event(calls[p].kind)})
  /\ UNCHANGED <<database, redis, history>>

\* Mutant: the row is replaced by the column that changed.
ConfigReplaced(p) ==
  CASE "config" \in calls[p].rows -> [secret |-> p, enabled |-> FALSE]
    [] "enable" \in calls[p].rows -> [enabled |-> TRUE]
    [] OTHER -> mfa[User(p)]

(* The row of mfa_configs after the transaction of p.                      *)
ConfigAfter(p) ==
  LET new == calls[p].rows
      row == mfa[User(p)]
  IN  CASE "config" \in new -> [secret |-> p, enabled |-> FALSE]
        [] "enable" \in new -> [row EXCEPT !.enabled = TRUE]
        [] "disable" \in new -> [row EXCEPT !.enabled = FALSE]
        [] OTHER -> row

(* get_db commits after the handler has returned.  Switching MFA off opens *)
(* the gate for every call that is running.                                *)
Return(p) ==
  /\ calls[p].at = "return"
  /\ committed' = [committed EXCEPT ![p] = @ \cup calls[p].rows]
  /\ mfa' = [mfa EXCEPT ![User(p)] = ConfigAfter(p)]
  /\ ungated' = IF ConfigAfter(p).enabled THEN ungated
                ELSE ungated \cup {q \in Calls : Running(q) /\ User(q) = User(p)}
  /\ GoesTo(p, "answered", {})
  /\ UNCHANGED <<redis, tried, locked>>

(* session.commit() of the path that refuses with this event; every one    *)
(* has its own.                                                            *)
CommitRefusal(p, event) ==
  /\ calls[p].at = "refuse"
  /\ event \in calls[p].rows
  /\ committed' = [committed EXCEPT ![p] = @ \cup calls[p].rows]
  /\ GoesTo(p, "raise", {})
  /\ UNCHANGED <<mfa, redis, history>>

RefuseLocked(p) == CommitRefusal(p, "auth.login.locked")
RefusePassword(p) == CommitRefusal(p, "auth.login.failure")
RefuseInactive(p) == CommitRefusal(p, "auth.login.inactive")
RefuseUndecodable(p) == CommitRefusal(p, "challenge.undecodable")
RefuseTokenType(p) == CommitRefusal(p, "challenge.invalid_token_type")

\* Mutant: this one path leaves it to get_db to keep its event.
RefuseUserUncommitted(p) ==
  /\ calls[p].at = "refuse"
  /\ "challenge.invalid_user" \in calls[p].rows
  /\ GoesTo(p, "raise", {})
  /\ UNCHANGED <<database, redis, history>>

RefuseUser(p) == CommitRefusal(p, "challenge.invalid_user")
RefuseCode(p) == CommitRefusal(p, "challenge.invalid_code")
RefuseVerify(p) == CommitRefusal(p, "mfa.verify.failure")
RefuseDisable(p) == CommitRefusal(p, "mfa.disable.failure")

(* raise HTTPException: get_db rolls back what is not committed.           *)
Raise(p) ==
  /\ calls[p].at = "raise"
  /\ GoesTo(p, "refused", {})
  /\ UNCHANGED <<database, redis, history>>

(* A crash, or an error of Postgres or Redis, at any await.                *)
Die(p) ==
  /\ Running(p)
  /\ GoesTo(p, "dead", {})
  /\ UNCHANGED <<database, redis, history>>

CounterExpires(u) ==
  /\ failures[u] # {}
  /\ CounterDeleted(u)
  /\ UNCHANGED <<database, calls, lockouts, ungated>>

LockoutExpires(u) ==
  /\ u \in lockouts
  /\ lockouts' = lockouts \ {u}
  /\ UNCHANGED <<database, calls, failures, history>>

Refuse(p) ==
  \/ RefuseLocked(p)
  \/ RefusePassword(p)
  \/ RefuseInactive(p)
  \/ RefuseUndecodable(p)
  \/ RefuseTokenType(p)
  \/ RefuseUser(p)
  \/ RefuseCode(p)
  \/ RefuseVerify(p)
  \/ RefuseDisable(p)

Step(p) ==
  \/ AcceptPassword(p)
  \/ RejectInactive(p)
  \/ RejectPassword(p)
  \/ CountFailure(p)
  \/ SetLockout(p)
  \/ ClearFailures(p)
  \/ Gate(p)
  \/ ReadUser(p)
  \/ CheckCode(p)
  \/ Issue(p)
  \/ OpenSession(p)
  \/ SetupConfig(p)
  \/ InsertConfig(p)
  \/ SwitchConfig(p)
  \/ RecordSuccess(p)
  \/ Return(p)
  \/ Refuse(p)
  \/ Raise(p)
  \/ Die(p)

Next ==
  \/ \E p \in Calls, u \in Accounts : Login(p, u)
  \/ \E p, q \in Calls : Challenge(p, q)
  \/ \E p \in Calls, u \in Accounts : ChallengeMisused(p, u)
  \/ \E p \in Calls, u \in Accounts, kind \in {"setup", "verify", "disable"} :
       Enrol(p, u, kind)
  \/ \E p \in Calls : Step(p)
  \/ \E u \in Accounts : CounterExpires(u)
  \/ \E u \in Accounts : LockoutExpires(u)

Spec == Init /\ [][Next]_vars

-------------------------------------------------------------------------------
(* No call leaves half of its work, wherever it dies: a family comes with  *)
(* its session and with the event of the success, a change of mfa_configs  *)
(* with its event, and never with the event of a refusal                   *)
(* (auth_service.py:252-267, mfa_service.py:68-74).                        *)
NothingHalfDone ==
  \A p \in Calls :
    LET has(row) == row \in committed[p]
    IN  /\ has("family") <=> has("session")
        /\ has("family") <=> has("auth.login.success") \/ has("mfa.challenge.success")
        /\ has("config") => has("mfa.setup.started")
        /\ has("enable") <=> has("mfa.enabled")
        /\ has("disable") <=> has("mfa.disabled")
        /\ committed[p] \cap Refusals # {} => committed[p] \subseteq Refusals

(* README: "Failure audit events are explicitly committed to Postgres      *)
(* before raising the exception, so the transaction rollback cannot        *)
(* silently erase the record."  What a refused call has written to the log *)
(* is there after the rollback, on every path that refuses                 *)
(* (auth_service.py:200, 215, 232, 381, 397, 417, 435, mfa_service.py:62,  *)
(* 95), and every refused login has written something.  A refusal without  *)
(* an event there is only of a challenge token whose subject is no UUID    *)
(* (auth_service.py:404) and with a 404 or 409 of mfa_service.py.          *)
RefusalsAreRecorded ==
  \A p \in Calls :
    calls[p].at = "refused" =>
      /\ calls[p].rows \subseteq committed[p]
      /\ calls[p].kind = "login" => committed[p] \cap Refusals # {}

(* The log never runs ahead of the lockout: as soon as it shows as many    *)
(* failed logins of an account as the limit, all tried since the account's *)
(* counter was last deleted, the account has been locked, wherever calls   *)
(* died between Redis and Postgres and whatever cleared the counter        *)
(* meanwhile (auth_service.py:205-215).                                    *)
LoggedFailuresLock ==
  \A u \in Accounts :
    Cardinality({p \in tried[u] : "auth.login.failure" \in committed[p]}) >= MaxFailed
      => u \in locked

(* README: "When MFA is enabled, a correct password does not issue bearer  *)
(* tokens."  A login that gets tokens without a challenge was running at a *)
(* moment when MFA was not enabled (auth_service.py:239).                  *)
GateHolds ==
  \A p \in Calls :
    calls[p] # NotYet /\ calls[p].kind = "login" /\ "family" \in committed[p]
      => p \in ungated

(* Every secret that setup_mfa has shown to a user is the one codes are    *)
(* checked against: two setups at the same time never leave the user with  *)
(* a secret that is not stored (mfa_service.py:20-30).                     *)
ShownSecretIsStored ==
  \A p \in Calls :
    calls[p] # NotYet /\ calls[p].kind = "setup" /\ calls[p].at = "answered"
      => calls[p].secret = mfa[User(p)].secret
===============================================================================
