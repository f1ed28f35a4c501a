# Verification of authcore-service

TLA+ models of the identity service in this repository (`src/app`, FastAPI on
PostgreSQL and Redis), TLC configurations that check them on small instances,
and TLAPS proofs. Every definition is translated from the code; `PROJECT.json`
maps each one to its lines.

## 1. The system

One asyncio process per worker serves HTTP requests. A request gets its own
SQLAlchemy session from `get_db` (`app/db/database.py:19-26`): the handler runs,
the transaction commits after it returns and before the response is sent; any
exception rolls it back. Paths that must leave a trace of a failure commit
explicitly before they raise. PostgreSQL runs at READ COMMITTED, no row carries
a version number and the ORM's UPDATE writes only the columns the request
changed. So the unit of atomicity is the code between two awaits, and what a
request read at one await may be stale at the next. Lockout state lives in Redis,
one command at a time, outside any transaction.

| Component | State | Operations | Hard behaviour | What makes it correct |
|---|---|---|---|---|
| Token lifecycle (`auth_service.py`, `security.py`) | `refresh_token_families` (owner, `is_revoked`, `last_token_hash`), `users.hashed_password`, JWTs held by clients | register, login, MFA challenge, refresh, forgot and reset password | concurrent exchanges of one token, exchange against revocation, login against reset, lost responses | one current token per live family; a revocation is permanent and has a reason; old passwords leave nothing live |
| MFA enrolment (`mfa_service.py`) | `mfa_configs` (secret, `is_enabled`) | setup, verify, disable | enabling races with a login past the gate; two setups draw two secrets | tokens without a challenge only if MFA was off while the login ran; the secret shown is the one stored |
| Brute-force lockout (`bruteforce_service.py`) | Redis counters and lockout keys per account and address, with TTLs | check, record a failure, clear | each Redis command is an await: requests pass the check before the lockout is set, crash between INCR and EXPIRE, key names derived by text replacement | a failure at the limit locks for a whole lifetime, few guesses while a lockout stands, a lockout ends |
| User sessions (`session_service.py`) | `sessions` (owner, `last_active`, `expires_at`) | create and prune, list, delete | prunings that do not see each other's inserts, victims chosen from stale snapshots | recent sessions survive; the number of sessions stays near the limit |
| Account tokens (`auth_service.py`, `email_task.py`) | `verification_token`, `reset_token`, expiry, `is_verified` | register, verify, resend, forgot, reset; mail queued before commit | mail for a transaction that rolls back, two resends, two requests with one reset token | an unverified user holds a mailed token; verified stays verified; a used token never comes back |
| RBAC (`rbac_service.py`, `dependencies.py`, `api/v1/admin.py`) | roles, permissions, two link tables | create, assign, check | check, then insert on unique indexes; insert and event in one transaction | no twins, one event per row, a permission iff a chain of links |
| Audit log (`audit_service.py`) | `audit_logs` | record, list | events of successes share the transaction of the change, events of refusals commit on their own | a refusal leaves its event, a success and its event go together |
| Sign-in (`login_user`, `verify_mfa_challenge`, `mfa_service.py`) | none of its own | the order of lockout, password, gate, tokens, session and event | the call dies between two of them; other calls change what it has read | whole or nothing, in Postgres and Redis |
| Rate limiting (`rate_limit.py`, decorators in `api/v1`) | fixed-window counters in process memory | hit | restart, several workers | at most N per window and process |
| Password policy (`password_policy.py`) | none | validate, breach check | breach service times out | strength rules; fail-open or fail-closed as configured |
| Admin queries, `main.py`, `config.py`, migration, demo client | none of their own | read-only, wiring | none | not modelled |

The components meet in `login_user` (lockout check, password, MFA gate, token
issue, session creation, audit, in that order; module `SignIn`) and in the tables
`users` and `refresh_token_families`.

## 2. Plan

Modules, most important behaviour first:

1. `FamilyContract`, `TokenLifecycle`, `MCTokenLifecycle`, `TokenLifecycleProofs` (done).
2. `LoginLockout`, `MCLoginLockout`, `LoginLockoutProofs` (done).
3. `UserSessions`, `MCUserSessions`, `UserSessionsProofs` (done).
4. `MailedToken`, `AccountTokens`, `MCAccountTokens`, `AccountTokensProofs` (done).
5. `Catalogue`, `Rbac`, `MCRbac`, `RbacProofs` (done).
6. `SignIn`, `MCSignIn`, `SignInProofs`: login, challenge and MFA enrolment as
   one composition, with their audit events (done).

Left: a refinement from `SignIn` to the gate and issue steps of `TokenLifecycle`.
An abstract lockout (open, counting, locked) is left out on purpose: a request
that is about to lock a key can still do so after a success has cleared it, so
the contract would allow every step and say less than `LimitLocks` and
`LateGuessBound` do.

## 3. Modules and code

| Module | Code | Kind |
|---|---|---|
| `FamilyContract` | what `refresh_token_families` promises | abstract specification: a family is unborn, live with one current token, or dead for ever |
| `TokenLifecycle` | `auth_service.py`, the gate of `mfa_service.py` | concurrent requests over committed rows |
| `LoginLockout` | `bruteforce_service.py` as `login_user` calls it | concurrent requests over Redis keys with lifetimes |
| `UserSessions` | `session_service.py` | concurrent requests over committed rows |
| `MailedToken` | what a column with the hash of a mailed token promises | abstract specification: only mailed tokens, none twice |
| `AccountTokens` | `auth_service.py`, `email_task.py` | concurrent requests over committed rows and queued mail |
| `Catalogue` | what the tables of roles, permissions and links promise | abstract specification: a row and its event appear in one step, under a fresh key and id, after what the row refers to, and stay |
| `Rbac` | `rbac_service.py`, `dependencies.py`, `api/v1/admin.py` | concurrent requests over four tables with unique indexes, and their events |
| `SignIn` | `login_user`, `verify_mfa_challenge`, `mfa_service.py`, `audit_service.py`, `get_db` | one step per await, each of which may be the last |
| `MC...` | | symmetry sets and constant values for TLC |
| `...Proofs` | | theorems and their proofs |

### TokenLifecycle

`users`, `mfa` and `families` are the tables; `requests` holds what each request
in flight has read; `challenges` and `delivered` the tokens that reached a
client. `locks` holds the row locks of each transaction. `shown`, `replayed` and
`exchanged` are history, as are the columns `pw` and `via` of a family.

An action is the code of one request from one committed read to the next, or to
its commit. `login_user` is `LoginCheckPassword` (reads the user), then
`LoginChallenge` or `LoginPass` (reads `mfa_configs`), then `IssueCommit`.
`verify_mfa_challenge` is `ChallengeReadUser`, then `ChallengeAccept` or
`ChallengeReject`, then `IssueCommit`. `refresh_tokens` is `RefreshReadUser`,
`RefreshReadFamily` (which decides) and `RefreshRotate` or `RefreshRevoke`.
`reset_password` is `ResetReadToken`, `ResetWrite` and `ResetCommit`. `setup_mfa`
is one step, `verify_mfa_setup` and `disable_mfa` are a read and `MfaWrite`.

Modelling decisions:

* A token is the family and a number, counted in the order in which hashes are
  stored; every token has its own `jti`, so hashes never collide.
* `pw` stands for the stored bcrypt hash: each reset stores a new one, even for
  the same password.
* The ORM writes only changed columns, so a rotation leaves `is_revoked` as it
  finds it. The mutants that write the whole row break the contract.
* An UPDATE locks its rows one by one (`LockRow`), in no fixed order, each as soon
  as no other transaction has it, and the transaction keeps them until it ends.
  `Needs` says which rows the statements so far lock: an exchange or a revocation
  its family's, a reset first the user's (autoflush) and then, from `ResetWrite`
  on, those of the families in `hit`, which is what its bulk UPDATE saw when it
  started. So a reset waits for some rows while it holds others, and nobody
  writes or commits before it has all it needs. Inserting a family takes a KEY
  SHARE lock on the user's row, which an UPDATE of non-key columns does not block:
  a login commits through a reset.
* `ForgotPassword` and `SetActive` lock one row and commit in the same step, as
  soon as it is free; of two forgots the later token is stored. `Register` is one step: of two registrations in
  flight the unique index lets one commit.
* A TOTP code may be right or wrong at any time (`ChallengeReject`). Tokens and
  challenges do not expire in the model; the code refuses expired ones, which
  removes behaviours and adds none.
* Requests may end at any await (`Abort`): get_db rolls back.

### LoginLockout

`counters` and `lockouts` are the keys in Redis with their remaining lifetimes,
`logins` the requests. Redis runs commands one at a time, so each action ends
with one command: `Arrive` and `CheckNext` are EXISTS, `CountFailure` INCR,
`ExpireCounter` EXPIRE, `SetLockout` SET with EX, `ClearFailures` the one DEL of
up to four keys. A request handles the account's key and then the address's, if
it has one. Whether the password is right is a choice.

`Renamed` stands for `counter_key.replace("failed", "lockout")`: the prefix
always becomes that of the lockouts, and an account name that contains the word
changes too. The assumption says that doing it twice changes nothing more.

Lifetimes count ticks, and time may pass between any two commands (`Age`), also
between INCR and EXPIRE: a lockout can start before the counter's lifetime does
and end before it. `Spec` is without failures of the system, `FaultySpec` lets
requests die at any command. A count is not followed beyond `MaxCount`: the code
compares it with 1 and with the limit only. `due`, `extra` and `late` are history:
how much longer the last failure at the limit must lock a key, how many failures
were counted for it while it was locked, and which logins were admitted though
their account had to be locked.

### UserSessions

`rows` is the table `sessions`, `logins` the requests that are opening one.
`CreateSession` draws `last_active`, `SelectVictims` is the SELECT with OFFSET
over the committed rows and the request's own, `Commit` makes its row appear and
its victims disappear. The DELETE locks rows until the commit; another DELETE
that waits for them finds them gone, so deleting at the commit is the same.
`opened` and `ended` are history. Equal `last_active` values (same microsecond)
are left out: Postgres would order them either way.

### AccountTokens

`users` holds the two token columns, `is_verified` and whether the reset token is
unexpired; `mails` what was handed to the broker, which may deliver it late,
twice or never, so it never shrinks; `requests` what each request drew or found.
`known` and `spends` are history. A request is one step up to the mail or to the
read that decides, and one for its commit; it may roll back in between, and then
the mail is out and its token nowhere.

* Tokens are drawn among those never mailed: `token_urlsafe(32)` does not repeat.
* Clients only present tokens of mails. The one unit test that presents an
  invented token finds no row, which changes nothing.
* A commit writes the columns the request changed over the row as it then is,
  not as it was read. The mutant `ResentFromSnapshot` is what full-row updates
  would do.
* Whether the password of a reset passes the policy is part of `Abort`.

`VerificationSlot` and `ResetSlot` are two instances of `MailedToken`, for the two
columns.

### Rbac

`rows` are the committed rows of roles, permissions and the two link tables, each
with its unique key; `events` the committed audit events; `requests` what was
admitted and what was inserted. `Admit` is the SELECTs and the checks, `Insert` the
flush, `Commit` the event and the end of `get_db`. An INSERT waits for an uncommitted
row with the same key and fails if the key is committed. Nothing in `src/app`
deletes from these tables, so `rows` grows only. No endpoint makes a superuser;
`SetSuperuser` is the operator's change in the database, and `appointed` is
history. Names differ only as far as `str.lower` does. `Atomic` is the instance of
`Catalogue`: `Commit` is its `Create`, `SetSuperuser` its `Appoint`, and every other
step changes nothing the catalogue has.

### SignIn

A call is followed from its arrival to its answer, one step per await, and may
die at each (`Die`): `rows` of a call is what it has flushed, `committed` what survives
it. Only the event of a refusal or of a challenge is flushed in the step that decides
on it: dying before that flush or after it leaves the same. `Return` is the commit
of `get_db`, `Raise` an exception, which keeps what is committed. A path that refuses
commits its own event before it raises, nine paths in all, each an action
(`RefuseLocked` to `RefuseDisable`); a challenge token without a UUID as its subject
is refused without an event (`ChallengeMisused`), as is what mfa_service.py answers
with 404 or 409.

`failures` and `lockouts` are the two keys of an account in Redis. A failed login is
`RejectPassword`, `CountFailure` (INCR), at the limit `SetLockout` (SET), then the
event and its commit; `ClearFailures` is the DEL of a success. A counter is the set
of the calls it has counted, its value their number. The keys of addresses, the
EXPIRE after INCR and the lifetimes are in `LoginLockout`. What the other modules
follow is reduced here to what the calls leave: a family and a session are one row
each, and passwords and codes may be right or wrong at any time; a login with an
unknown address ends like one with a wrong password. A secret is named by the setup
that drew it. `tried`, `locked` and `ungated` are history. Each call is made once, so
a run ends when all calls have.

## 4. Runs

| Run | Instance | Shows |
|---|---|---|
| `one_account` | 1 user, 2 families, 2 requests, 3 tokens a family, 2 passwords | types; outside its window a reset leaves nothing live (`OldPasswordOnlyByRace`); revocations have a reason (`NoSpuriousRevocation`) and last (`RevocationIsPermanent`); the tables implement `FamilyContract` (`ContractSpec`) |
| `exchanges` | 1 user, 1 family, 2 requests, 4 tokens, 3 passwords | a token is exchanged at most once per request in flight (`ExchangeBound`), and once it has been, no request that reads the row later accepts it (`ExchangedIsRefused`); transactions never wait in a circle (`NoCircularWait`), and every request ends under the fairness below (`RequestsComplete`) |
| `lockout` | 2 accounts, one renamed to the other, 1 address, 2 requests, limit 2, lifetime 2 | types; a failure at the limit locks for a whole lifetime unless a success deletes the lockout (`LimitLocks`); while a lockout stands only the other requests that were in flight count a failure (`LateGuessBound`); counters expire (`NoImmortalCounter`) |
| `lockout_ends` | 1 account, 1 address, 2 requests, limit 2, lifetime 2, with failures | every lockout ends (`LockoutEnds`) |
| `sessions` | 2 users, 3 requests, limit 2, 6 sessions | types; recent sessions survive, the other user's too (`RecentSessionsSurvive`); the overflow does not add up (`OverflowBound`) |
| `account_tokens` | 2 users, 4 tokens, 3 requests | types; whoever is unverified can verify (`UnverifiedCanVerify`); a token resets no more often than requests had found it (`SpentBound`); verified stays verified (`VerificationIsPermanent`); both columns implement `MailedToken` (`VerificationSlotSpec`, `ResetSlotSpec`) |
| `rbac` | 2 users, one name in two spellings, 2 ids, 2 requests | types; no twins (`NoTwins`); one event per row (`AuditMatchesRows`); a permission iff it was granted, in any spelling (`PermissionIffGranted`); the tables implement `Catalogue` (`CatalogueSpec`) |
| `sign_in` | 1 account, 4 calls, 2 failures to a lockout | types; a call commits a whole transaction or one refusal (`NothingHalfDone`); refusals leave their events, on every path (`RefusalsAreRecorded`); the log never shows more failures than the lockout has acted on (`LoggedFailuresLock`); the MFA gate (`GateHolds`); a secret that was shown is stored (`ShownSecretIsStored`) |

Bounds. Two requests are enough for a read and a write that makes it stale;
three for two stale readers and the writer between them, so `OverflowBound` and
`SpentBound` have three. `ExchangeBound` has two, a stale reader and the writer,
which leaves room for a fourth token and a third password in the same run. Two
families let one be revoked while the other lives; that a reset or a replay on
one account never touches a family of another is part of `RevocationHasAReason`,
proved for any number of accounts. A family needs three tokens to have a
superseded, a current and a next one, and a reset needs two passwords; the
bounds are checked when a request is admitted and count the requests in flight,
so no admitted request waits for room. A limit and a lifetime of two let a
counter be below, at and past its limit, and let it and the lockout expire at
different times; `MaxCount` is one more than the limit, or the limit where only
that is told apart, and no guard waits for it: a count stays there. Two requests are
one that sets a lockout and one that still guesses. Four tokens are one
that was replaced, one stored and two in flight. Two ids and two spellings make
a role and a permission of one name, and two requests that look for it in
different spellings. Four calls are a login, the setup and the verification that
switch MFA on under it, and a challenge, or two setups and two verifications, or
two failed logins to the limit with a third whose success deletes the counter
between them.

The runs `sessions`, `account_tokens` and `sign_in` do not check deadlock: they
stop when all stamps, tokens or calls are used up and no client has to go on.

Runs that show where a document and the code differ (each a finding in
`PROJECT.json`):

| Run | Statement | What happens |
|---|---|---|
| `reuse_revokes_family` | README: reuse of an older token revokes the family | two exchanges read the family before either commits; both succeed and it stays live |
| `reset_revokes_all` | README: a reset revokes all existing families | a login commits its family between the bulk UPDATE and the commit |
| `lockout_renamed` | README: account and IP lockout | an account whose name contains "failed" has its lockout stored under another key; failures from two addresses, each below its own limit, do not lock it and the next login gets to its password |
| `counter_crash` | README: counters have a TTL | a request dies between INCR and EXPIRE |

Two logins that do not see each other's session can also leave an account with
more sessions than `max_concurrent_sessions`; `OverflowBound` says by how many.

## 5. Fairness

`TokenLifecycle!FairSpec`: weak fairness for each request's next step, because
the event loop runs every task that is ready; strong fairness for `LockRow`,
because Postgres queues the waiters of a row and grants the lock in turn. No
fairness for clients, failures or the operator. `RequestsComplete` then says that
the locks taken by resets, exchanges and revocations never starve a request. That
they never close a circle is `NoCircularWait`, which needs no fairness.

`LoginLockout!FairFaultySpec`: weak fairness for time and for each request's next
command. Requests may die at any command and new ones may always come.
`LockoutEnds` excepts a key under which other accounts' lockouts are stored.

## 6. Proofs

All theorems hold for every value of the constants that satisfies the `ASSUME`
of the module: finitely many requests, bounds that are numbers, disjoint names,
an idempotent renaming, an idempotent `str.lower`.

| Theorem | Statement |
|---|---|
| `TokenLifecycleProofs!TypeCorrect` | `Spec => []TypeOK` |
| `TokenLifecycleProofs!RevocationPermanent` | `Spec => RevocationIsPermanent` |
| `TokenLifecycleProofs!ImplementsContract` | `Spec => ContractSpec` |
| `TokenLifecycleProofs!OldPasswordTokensDie` | `Spec => []OldPasswordOnlyByRace` |
| `TokenLifecycleProofs!RevocationHasAReason` | `Spec => []NoSpuriousRevocation` |
| `TokenLifecycleProofs!NoDeadlock` | `Spec => []NoCircularWait` |
| `TokenLifecycleProofs!ExchangesAreBounded` | `Spec => []ExchangeBound` |
| `TokenLifecycleProofs!ExchangedStaysRefused` | `Spec => ExchangedIsRefused` |
| `LoginLockoutProofs!TypeCorrect` | `(Spec => []TypeOK) /\ (FaultySpec => []TypeOK)` |
| `LoginLockoutProofs!CountersExpire` | `Spec => []NoImmortalCounter` |
| `LoginLockoutProofs!LimitAlwaysLocks` | `Spec => []LimitLocks` |
| `LoginLockoutProofs!LateGuessesAreBounded` | `(Spec => []LateGuessBound) /\ (FaultySpec => []LateGuessBound)` |
| `LoginLockoutProofs!UnchangedNamesAreRefused` | `Spec => []LimitRefusesLogin` if no account name is renamed |
| `UserSessionsProofs!TypeCorrect` | `Spec => []TypeOK` |
| `UserSessionsProofs!PruningSparesRecent` | `Spec => []RecentSessionsSurvive` |
| `UserSessionsProofs!OverflowIsBounded` | `Spec => []OverflowBound` |
| `AccountTokensProofs!TypeCorrect` | `Spec => []TypeOK` |
| `AccountTokensProofs!TokensAreSpent` | `Spec => []SpentBound` |
| `AccountTokensProofs!UnverifiedAlwaysCan` | `Spec => []UnverifiedCanVerify` |
| `AccountTokensProofs!VerificationStays` | `Spec => VerificationIsPermanent` |
| `AccountTokensProofs!VerificationSlotKept` | `Spec => VerificationSlotSpec` |
| `AccountTokensProofs!ResetSlotKept` | `Spec => ResetSlotSpec` |
| `RbacProofs!TypeCorrect` | `Spec => []TypeOK` |
| `RbacProofs!NamesAreUnique` | `Spec => []NoTwins` |
| `RbacProofs!EventsMatchRows` | `Spec => []AuditMatchesRows` |
| `RbacProofs!PermissionsAreGranted` | `Spec => []PermissionIffGranted` |
| `RbacProofs!ImplementsCatalogue` | `Spec => CatalogueSpec` |
| `SignInProofs!TypeCorrect` | `Spec => []TypeOK` |
| `SignInProofs!WholeOrNothing` | `Spec => []NothingHalfDone` |
| `SignInProofs!RefusalsLeaveEvents` | `Spec => []RefusalsAreRecorded` |
| `SignInProofs!LogNeverRunsAhead` | `Spec => []LoggedFailuresLock` |
| `SignInProofs!GateIsKept` | `Spec => []GateHolds` |
| `SignInProofs!ShownIsStored` | `Spec => []ShownSecretIsStored` |

The arguments:

* Families. `KnownInv` says that every token a request or a client holds belongs
  to a family whose row exists and is not newer than its last token. With it each
  step maps to a step of `FamilyContract` or to a stutter, and rotations leave
  `revoked` alone.
* Old passwords. `OldPasswordOnlyByRace` is not inductive: nothing in it speaks of
  logins still in flight. `ResetInv` adds that a login not marked as raced carries
  the current password and that an open reset's `hit` holds every live family
  that was not raced; only one reset of a user is past its write.
* Reasons for revocation. `PresentInv` says that, unless one of the family's
  tokens was presented twice, every superseded token has been presented, no two
  requests present the same token, and a request presents the current one: the
  row cannot make it revoke.
* Exchanges. `ExchangeBound` is not inductive: requests past the reading of the
  row will exchange again. `ExchangeInv` counts them in: the exchanges of a token
  and the requests about to make one are together at most the requests there are,
  and the token of an exchange that committed is below the last of its family.
  The second part makes the first inductive, since nobody joins once an exchange
  has committed, and gives `ExchangedIsRefused` by itself.
* Row locks. `LocksInv` says that a row is locked by one transaction, that a
  transaction locks only what its statements need, and that a reset past its
  autoflush has the user's row. In any set of requests, one that has all it needs
  waits for nobody. If all of them lack some row, those that hold one are resets past
  the autoflush: the others need a single row. Such a reset then lacks families of
  its user, which could only be held by another such reset, of another user, which
  has none of them. If none of the set holds a row, none waits for another.
* Lockout. `LimitLocks` is inductive: with the last failure at the limit a request
  stands between INCR and SET, its SET gives the whole lifetime, a later SET only
  renews it, and time takes one tick from what is required and from the key alike.
  For `LateGuessBound` one has to count: `GuessesBounded` adds the failures counted
  while a lockout stands and the requests that may still count one without looking
  at it, and `KeysInOrder`, that a request does not come back to a key it has
  counted. `UnchangedNamesAreRefused` bounds the divergence of the run
  `lockout_renamed`: without a name that the replacement changes, no login gets past
  a lockout that has to be there.
* Sessions. The victims of a request in flight come from a stale snapshot.
  `VictimsAreOld` says that each had enough newer sessions among those ever
  opened, which is a set that only grows, so it still has at the commit.
  `OverflowBound` has to know what the requests in flight will add and delete.
  `OverflowInv` orders those that have selected their victims by when they did:
  at most `MaxSessions` of the sessions that one saw are not its victims, and the
  rows it did not see come from requests that selected before it, as long as none
  that selected later has committed; one that was overtaken so counts as a row to
  come. The order is said with an existential quantifier (`rank` and
  `seen`), so that the model needs no history for it.
* Mailed tokens. The properties do not speak of the requests that will store what
  they drew. `MailsInv` says that such a request has a mail of its own and a token
  that was never stored, `RowsInv` that an address is registered by one request at
  a time, `StoredInv` that a used token is in no row. `SpentBound` needs to count:
  `SpentInv` says that the uses of a token and the requests that still hold it
  are together at most the requests there are.
* RBAC. `KeysInv` joins the committed rows with the inserted ones that wait for
  their commit: no two of them share a key and all are in lower case. With
  `LinksInv` (what a link refers to is committed, and stays) and `AuditInv`
  (the events of a row are one) a chain of rows is a chain of events. The same facts about the request
  that commits, with `IdsInv` (its id is no other row's), make its commit a
  step of `Catalogue`.
* Sign-in. `CallFits` says for each place of a handler which rows the call can have
  flushed and which are committed: nothing before the end, a whole transaction
  after `Return`, one event after the commit of a refusal. `GateInv` and `SecretsInv` relate calls in
  flight to the row of `mfa_configs` that others commit: a running call either is
  in `ungated` or MFA is on, and an uncommitted row is the only one of its user.
  `LoggedFailuresLock` compares Postgres with Redis. `CountInv` says that a call
  that has written its event and whose counter still stands is in it, and that as
  long as no lockout was set fewer calls than the limit are counted and have written
  their event: the call that reaches the limit is between INCR and SET without one.

TLC has checked these strengthenings, too, on the instances above; `OverflowInv`
with its `rank` and `seen` as history variables, since TLC cannot search for them.

Every invariant and every step property that a passing run checks is proved. Only
model-checked are the liveness properties `RequestsComplete` and `LockoutEnds`,
which are beyond the prover: it has no rule for fairness and ENABLED.

## 7. Not modelled

What the code does and no property states: `expires_at` of a session is written
and never read, so the list of sessions and the limit include expired ones. The
audit log is sorted by `created_at`, which is the start of a transaction, so its
order may differ from the order of commits. A client that loses the response of
an exchange and retries with the token it has is taken for a thief and loses the
family; `NoSpuriousRevocation` excuses it. A login that read the gate open commits
its tokens although MFA is enabled by then; `GateHolds` excuses it. A request that
dies between INCR and SET leaves a full counter and no lockout until the next
failure. A counter whose lifetime began after the lockout's outlives it, and the
first failure after the lockout locks again.

* Rate limiting: the counting is in slowapi; the repository holds one constructor
  call and the limits. The counters live in the memory of one process.
* Password policy: a pure function of one password and of the answer of an
  outside service. It keeps no state and no step of another request changes what
  it says; the models take its refusal as one of the ways a request ends.
* Admin queries, the HTTP surface and the wiring keep no state. Status codes and
  bodies are left out: a refusal that changes nothing is the end of the request.
* The migration appears as the unique indexes and foreign keys that guards state.
* bcrypt, JWT and TOTP are taken at their word.
* In `SignIn` a lockout has no lifetime and a family is one row: their own
  concurrency is in `LoginLockout` and `TokenLifecycle`, and no refinement between
  these and `SignIn` is checked.
