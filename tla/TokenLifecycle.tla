---------------------------- MODULE TokenLifecycle ----------------------------
(***************************************************************************)
(* The tokens of authcore-service: who obtains a pair, how a refresh token *)
(* is exchanged, and what revokes it (src/app/services/auth_service.py,    *)
(* mfa_service.py).                                                        *)
(*                                                                         *)
(* Requests run concurrently on one event loop.  Each has its own          *)
(* transaction (get_db), Postgres runs at READ COMMITTED and no row is     *)
(* versioned, so a request reads committed rows at one await and commits   *)
(* what it made of them at a later one.  An action below is therefore the  *)
(* code of one request from one committed read to the next, or to its      *)
(* commit; what a request remembers between its actions is its record in   *)
(* requests.  A rejection that changes no modelled row is the request's    *)
(* way back to Idle, or no step at all when nothing was read before it.    *)
(*                                                                         *)
(* A statement that changes rows of users or refresh_token_families locks  *)
(* them one after another, each as soon as nobody else has it locked, and  *)
(* its transaction keeps them until it ends (locks, LockRow).  Reads and   *)
(* INSERTs do not wait: a foreign key's FOR KEY SHARE does not conflict    *)
(* with an UPDATE that changes no key.                                     *)
(***************************************************************************)
EXTENDS Naturals, FiniteSets

CONSTANTS
  Users,        \* accounts, identified by e-mail
  NoUser,       \* the owner of a family whose row does not exist
  Families,     \* family ids that uuid4 may draw
  Requests,     \* slots for requests in flight
  MaxSerial,    \* bound: tokens issued in one family
  MaxPassword   \* bound: passwords an account has had

ASSUME LifecycleAssumption ==
  /\ NoUser \notin Users
  /\ Users \cap Families = {}
  /\ IsFiniteSet(Requests)
  /\ MaxSerial \in Nat \ {0}
  /\ MaxPassword \in Nat \ {0}

VARIABLES
  users,        \* table users: pw is the version of hashed_password, 0 = no row
  mfa,          \* table mfa_configs: no row, row not enabled, row enabled
  families,     \* table refresh_token_families: last = 0 means no row
  requests,     \* what each request in flight has read
  locks,        \* the row locks its transaction holds
  challenges,   \* MFA challenge tokens that reached a client
  delivered,    \* refresh tokens that reached a client
  shown,        \* history: the refresh tokens presented so far
  replayed,     \* history: families of which one token was presented twice
  exchanged     \* history: which token each exchange consumed and produced

tables == <<users, mfa, families>>
clients == <<challenges, delivered>>
history == <<shown, replayed, exchanged>>
vars == <<tables, requests, locks, clients, history>>

-------------------------------------------------------------------------------
(* A refresh token is <<f, n>>: the n-th token of family f in the order in *)
(* which their hashes were committed to last_token_hash (each has its own  *)
(* jti, so two tokens never share a hash).                                 *)
Tokens == Families \X Nat

(* Two columns of a family are history, not columns of the table: pw is    *)
(* the password version that was verified to obtain it, and via says how.  *)
(* "raced" is a password login that was in flight while a reset of the     *)
(* same account was between its bulk UPDATE and its commit.                *)
Origins == {"login", "raced", "challenge"}

NoFamily ==
  [user |-> NoUser, revoked |-> FALSE, last |-> 0, pw |-> 0, via |-> "login"]

Idle == [at |-> "idle"]

RequestStates ==
  {Idle}
    \cup [at: {"gate", "issue"}, user: Users, pw: Nat, via: Origins]
    \cup [at: {"code"}, user: Users, pw: Nat]
    \cup [at: {"family", "rotate", "revoke"}, token: Tokens]
    \cup [at: {"write"}, user: Users]
    \cup [at: {"commit"}, user: Users, hit: SUBSET Families]
    \cup [at: {"mfa"}, user: Users, to: {"pending", "enabled"}]

UserRows == [pw: Nat, active: BOOLEAN, reset: BOOLEAN]
FamilyRows ==
  [user: Users \cup {NoUser}, revoked: BOOLEAN, last: Nat, pw: Nat, via: Origins]

TypeOK ==
  /\ users \in [Users -> UserRows]
  /\ mfa \in [Users -> {"absent", "pending", "enabled"}]
  /\ families \in [Families -> FamilyRows]
  /\ requests \in [Requests -> RequestStates]
  /\ locks \in [Requests -> SUBSET (Users \cup Families)]
  /\ challenges \subseteq [user: Users, pw: Nat]
  /\ delivered \subseteq Tokens
  /\ shown \subseteq Tokens
  /\ replayed \subseteq Families
  /\ exchanged \subseteq [token: Tokens, heir: Nat]

Init ==
  /\ users = [u \in Users |-> [pw |-> 0, active |-> TRUE, reset |-> FALSE]]
  /\ mfa = [u \in Users |-> "absent"]
  /\ families = [f \in Families |-> NoFamily]
  /\ requests = [p \in Requests |-> Idle]
  /\ locks = [p \in Requests |-> {}]
  /\ challenges = {}
  /\ delivered = {}
  /\ shown = {}
  /\ replayed = {}
  /\ exchanged = {}

-------------------------------------------------------------------------------
(* Shared by the actions.                                                  *)

Registered(u) == users[u].pw > 0
Exists(f) == families[f].last > 0

Becomes(p, r) ==
  /\ requests' = [requests EXCEPT ![p] = r]
  /\ UNCHANGED locks

(* Commit and rollback release the row locks.                              *)
Ends(p) ==
  /\ requests' = [requests EXCEPT ![p] = Idle]
  /\ locks' = [locks EXCEPT ![p] = {}]

\* Mutants: the session does not flush before the bulk UPDATE, which then
\* comes first; an exchange also writes a column of its owner's row.
NeedsWithoutAutoflush(r) ==
  CASE r.at \in {"rotate", "revoke"} -> {r.token[1]}
    [] r.at = "commit" -> {r.user} \cup r.hit
    [] OTHER -> {}
NeedsOwnerToo(r) ==
  CASE r.at \in {"rotate", "revoke"} -> {r.token[1], families[r.token[1]].user}
    [] r.at = "write" -> {r.user}
    [] r.at = "commit" -> {r.user} \cup r.hit
    [] OTHER -> {}

(* The rows that the request's statements so far lock: its family's, or    *)
(* the user's by the autoflush and then the families' by the bulk UPDATE.  *)
Needs(r) ==
  CASE r.at \in {"rotate", "revoke"} -> {r.token[1]}
    [] r.at = "write" -> {r.user}
    [] r.at = "commit" -> {r.user} \cup r.hit
    [] OTHER -> {}

Free(row) == \A p \in Requests : row \notin locks[p]
ToLock(p) == Needs(requests[p]) \ locks[p]

(* An UPDATE locks its next row, in whatever order it finds them.          *)
LockRow(p) ==
  /\ \E row \in ToLock(p) : Free(row) /\ locks' = [locks EXCEPT ![p] = @ \cup {row}]
  /\ UNCHANGED <<tables, requests, clients, history>>

(* A reset of u has begun its bulk UPDATE.                                 *)
ResetOpen(u) == \E p \in Requests : requests[p].at = "commit" /\ requests[p].user = u

(* A bearer token of u was handed out.  It is not bound to a family: it    *)
(* outlives a revocation, until it expires.                                *)
HasBearer(u) == \E t \in delivered : families[t[1]].user = u

(* A response reaches the client or is lost after the commit.              *)
Deliver(token) == delivered' \in {delivered, delivered \cup {token}}

(* Bounds.  They are checked when a request is admitted and count the      *)
(* requests in flight, so that no admitted request ever waits for room.    *)
InFlight(places, Concerns(_)) ==
  Cardinality({p \in Requests : requests[p].at \in places /\ Concerns(requests[p])})

RoomToIssue ==
  LET any(r) == TRUE
  IN  Cardinality({f \in Families : ~Exists(f)}) > InFlight({"gate", "code", "issue"}, any)

RoomToRotate(f) ==
  LET ofFamily(r) == r.token[1] = f
  IN  families[f].last + InFlight({"family", "rotate"}, ofFamily) < MaxSerial

RoomToReset(u) ==
  LET ofUser(r) == r.user = u
  IN  users[u].pw + InFlight({"write", "commit"}, ofUser) < MaxPassword

-------------------------------------------------------------------------------
(* Issuing tokens: registration, password login, MFA challenge.            *)

NewFamily(u, version, origin) ==
  [user |-> u, revoked |-> FALSE, last |-> 1, pw |-> version, via |-> origin]

\* Mutant: a family id that is not fresh, its row replaced.
IssueTokenPairAgain(u, f, version, origin) ==
  /\ families' = [families EXCEPT ![f] = NewFamily(u, version, origin)]
  /\ Deliver(<<f, 1>>)

IssueTokenPair(u, f, version, origin) ==
  /\ ~Exists(f)
  /\ families' = [families EXCEPT ![f] = NewFamily(u, version, origin)]
  /\ Deliver(<<f, 1>>)

(* The unique index on users.email makes check and INSERT one step: of two *)
(* registrations in flight the second fails with IntegrityError.           *)
Register(u, f) ==
  /\ RoomToIssue
  /\ ~Registered(u)
  /\ users' = [users EXCEPT ![u] = [pw |-> 1, active |-> TRUE, reset |-> FALSE]]
  /\ IssueTokenPair(u, f, 1, "login")
  /\ UNCHANGED <<mfa, requests, locks, challenges, history>>

LoginCheckPassword(p, u) ==
  /\ requests[p] = Idle
  /\ RoomToIssue
  /\ Registered(u)
  /\ users[u].active
  /\ Becomes(p, [at |-> "gate", user |-> u, pw |-> users[u].pw,
                 via |-> IF ResetOpen(u) THEN "raced" ELSE "login"])
  /\ UNCHANGED <<tables, clients, history>>

(* The SELECT on mfa_configs finds an enabled row.                         *)
LoginChallenge(p) ==
  LET r == requests[p]
  IN  /\ r.at = "gate"
      /\ mfa[r.user] = "enabled"
      /\ challenges' \in {challenges, challenges \cup {[user |-> r.user, pw |-> r.pw]}}
      /\ Ends(p)
      /\ UNCHANGED <<tables, delivered, history>>

(* It finds none.                                                          *)
LoginPass(p) ==
  /\ requests[p].at = "gate"
  /\ mfa[requests[p].user] # "enabled"
  /\ Becomes(p, [requests[p] EXCEPT !.at = "issue"])
  /\ UNCHANGED <<tables, clients, history>>

IssueCommit(p, f) ==
  LET r == requests[p]
  IN  /\ r.at = "issue"
      /\ IssueTokenPair(r.user, f, r.pw, r.via)
      /\ Ends(p)
      /\ UNCHANGED <<users, mfa, challenges, history>>

(* A challenge token is a signed JWT that nothing marks as used, so it may *)
(* be presented again until it expires.                                    *)
ChallengeReadUser(p, c) ==
  /\ requests[p] = Idle
  /\ RoomToIssue
  /\ users[c.user].active
  /\ Becomes(p, [at |-> "code", user |-> c.user, pw |-> c.pw])
  /\ UNCHANGED <<tables, clients, history>>

ChallengeAccept(p) ==
  LET r == requests[p]
  IN  /\ r.at = "code"
      /\ mfa[r.user] = "enabled"
      /\ Becomes(p, [at |-> "issue", user |-> r.user, pw |-> r.pw, via |-> "challenge"])
      /\ UNCHANGED <<tables, clients, history>>

(* No enabled configuration any more, or a wrong TOTP code.                *)
ChallengeReject(p) ==
  /\ requests[p].at = "code"
  /\ Ends(p)
  /\ UNCHANGED <<tables, clients, history>>

-------------------------------------------------------------------------------
(* Exchanging a refresh token (refresh_tokens).                            *)

RefreshReadUser(p, t) ==
  /\ requests[p] = Idle
  /\ RoomToRotate(t[1])
  /\ users[families[t[1]].user].active
  /\ Becomes(p, [at |-> "family", token |-> t])
  /\ shown' = shown \cup {t}
  /\ replayed' = IF t \in shown THEN replayed \cup {t[1]} ELSE replayed
  /\ UNCHANGED <<tables, clients, exchanged>>

\* Mutant: any token of the family that was ever current is accepted.
VerdictLenient(row, n) ==
  IF row.revoked THEN "refuse" ELSE IF row.last >= n THEN "rotate" ELSE "revoke"

(* What the row of the family says about the presented token.              *)
Verdict(row, n) ==
  IF row.revoked THEN "refuse" ELSE IF row.last = n THEN "rotate" ELSE "revoke"

RefreshReadFamily(p) ==
  LET t == requests[p].token
      verdict == Verdict(families[t[1]], t[2])
  IN  /\ requests[p].at = "family"
      /\ IF verdict = "refuse" THEN Ends(p)
         ELSE Becomes(p, [at |-> verdict, token |-> t])
      /\ UNCHANGED <<tables, clients, history>>

\* Mutants: the hash of the new token is not stored; the whole row is
\* written as it was read; a revocation also clears last_token_hash.
RowRotatedWithoutHash(row) == row
RowRotatedFromSnapshot(row) == [row EXCEPT !.last = @ + 1, !.revoked = FALSE]
RowRevokedAndCleared(row) == [row EXCEPT !.revoked = TRUE, !.last = NoUser]

(* The ORM writes the columns the request changed and no other: a rotation *)
(* leaves is_revoked as it finds it, whatever the request had read.        *)
RowRotated(row) == [row EXCEPT !.last = @ + 1]
RowRevoked(row) == [row EXCEPT !.revoked = TRUE]

RefreshRotate(p) ==
  LET t == requests[p].token
      f == t[1]
      heir == families[f].last + 1
  IN  /\ requests[p].at = "rotate"
      /\ ToLock(p) = {}
      /\ families' = [families EXCEPT ![f] = RowRotated(@)]
      /\ Deliver(<<f, heir>>)
      /\ exchanged' = exchanged \cup {[token |-> t, heir |-> heir]}
      /\ Ends(p)
      /\ UNCHANGED <<users, mfa, challenges, shown, replayed>>

RefreshRevoke(p) ==
  LET f == requests[p].token[1]
  IN  /\ requests[p].at = "revoke"
      /\ ToLock(p) = {}
      /\ families' = [families EXCEPT ![f] = RowRevoked(@)]
      /\ Ends(p)
      /\ UNCHANGED <<users, mfa, clients, history>>

-------------------------------------------------------------------------------
(* Resetting the password (forgot_password, reset_password).               *)

(* reset says that the user's row holds the hash of an unexpired token.    *)
(* The row is the only one locked, so that UPDATE and commit are one step. *)
ForgotPassword(u) ==
  /\ Registered(u)
  /\ users[u].active
  /\ Free(u)
  /\ users' = [users EXCEPT ![u].reset = TRUE]
  /\ UNCHANGED <<mfa, families, requests, locks, clients, history>>

ResetTokenExpires(u) ==
  /\ users[u].reset
  /\ users' = [users EXCEPT ![u].reset = FALSE]
  /\ UNCHANGED <<mfa, families, requests, locks, clients, history>>

(* is_active is not looked at, and the row is not locked: two requests may *)
(* find the same reset token.                                              *)
ResetReadToken(p, u) ==
  /\ requests[p] = Idle
  /\ RoomToReset(u)
  /\ users[u].reset
  /\ Becomes(p, [at |-> "write", user |-> u])
  /\ UNCHANGED <<tables, clients, history>>

\* Mutant: the bulk UPDATE is missing.
NoFamilies(u) == {}

(* The rows the bulk UPDATE reaches: the families committed so far.        *)
FamiliesOf(u) == {f \in Families : Exists(f) /\ families[f].user = u}

(* The autoflush has locked the user's row and the bulk UPDATE starts: its *)
(* snapshot decides which families it reaches, and logins of u that are in *)
(* flight from here on race with the reset.                                *)
ResetWrite(p) ==
  LET u == requests[p].user
      raced(r) == IF r.at \in {"gate", "issue"} /\ r.user = u /\ r.via = "login"
                  THEN [r EXCEPT !.via = "raced"] ELSE r
  IN  /\ requests[p].at = "write"
      /\ ToLock(p) = {}
      /\ requests' = [q \in Requests |->
                       IF q = p THEN [at |-> "commit", user |-> u, hit |-> FamiliesOf(u)]
                       ELSE raced(requests[q])]
      /\ UNCHANGED <<tables, locks, clients, history>>

ResetCommit(p) ==
  LET r == requests[p]
  IN  /\ r.at = "commit"
      /\ ToLock(p) = {}
      /\ users' = [users EXCEPT ![r.user] =
                     [pw |-> @.pw + 1, active |-> @.active, reset |-> FALSE]]
      /\ families' = [f \in Families |->
                       IF f \in r.hit THEN RowRevoked(families[f]) ELSE families[f]]
      /\ Ends(p)
      /\ UNCHANGED <<mfa, clients, history>>

-------------------------------------------------------------------------------
(* MFA enrolment, as far as the login gate depends on it.                  *)

MfaSetup(u) ==
  /\ HasBearer(u)
  /\ users[u].active
  /\ mfa[u] = "absent"
  /\ mfa' = [mfa EXCEPT ![u] = "pending"]
  /\ UNCHANGED <<users, families, requests, locks, clients, history>>

MfaVerify(p, u) ==
  /\ requests[p] = Idle
  /\ HasBearer(u)
  /\ users[u].active
  /\ mfa[u] = "pending"
  /\ Becomes(p, [at |-> "mfa", user |-> u, to |-> "enabled"])
  /\ UNCHANGED <<tables, clients, history>>

MfaDisable(p, u) ==
  /\ requests[p] = Idle
  /\ HasBearer(u)
  /\ users[u].active
  /\ mfa[u] = "enabled"
  /\ Becomes(p, [at |-> "mfa", user |-> u, to |-> "pending"])
  /\ UNCHANGED <<tables, clients, history>>

MfaWrite(p) ==
  /\ requests[p].at = "mfa"
  /\ mfa' = [mfa EXCEPT ![requests[p].user] = requests[p].to]
  /\ Ends(p)
  /\ UNCHANGED <<users, families, clients, history>>

-------------------------------------------------------------------------------
(* The environment.                                                        *)

(* No code of the service sets is_active; an operator does, in the         *)
(* database.                                                               *)
SetActive(u, active) ==
  /\ Registered(u)
  /\ Free(u)
  /\ users[u].active # active
  /\ users' = [users EXCEPT ![u].active = active]
  /\ UNCHANGED <<mfa, families, requests, locks, clients, history>>

(* An exception or a crash at any await: get_db rolls the transaction back *)
(* and its locks are released.  A password the policy refuses (422) ends a *)
(* reset this way too.                                                     *)
Abort(p) ==
  /\ requests[p] # Idle
  /\ Ends(p)
  /\ UNCHANGED <<tables, clients, history>>

Continue(p) ==
  \/ LockRow(p)
  \/ LoginChallenge(p)
  \/ LoginPass(p)
  \/ \E f \in Families : IssueCommit(p, f)
  \/ ChallengeAccept(p)
  \/ ChallengeReject(p)
  \/ RefreshReadFamily(p)
  \/ RefreshRotate(p)
  \/ RefreshRevoke(p)
  \/ ResetWrite(p)
  \/ ResetCommit(p)
  \/ MfaWrite(p)

Next ==
  \/ \E u \in Users, f \in Families : Register(u, f)
  \/ \E p \in Requests, u \in Users : LoginCheckPassword(p, u)
  \/ \E p \in Requests, c \in challenges : ChallengeReadUser(p, c)
  \/ \E p \in Requests, t \in delivered : RefreshReadUser(p, t)
  \/ \E u \in Users : ForgotPassword(u)
  \/ \E u \in Users : ResetTokenExpires(u)
  \/ \E p \in Requests, u \in Users : ResetReadToken(p, u)
  \/ \E u \in Users : MfaSetup(u)
  \/ \E p \in Requests, u \in Users : MfaVerify(p, u)
  \/ \E p \in Requests, u \in Users : MfaDisable(p, u)
  \/ \E u \in Users, active \in BOOLEAN : SetActive(u, active)
  \/ \E p \in Requests : Abort(p)
  \/ \E p \in Requests : Continue(p)

Spec == Init /\ [][Next]_vars

(* The event loop runs every request that is ready, and Postgres queues    *)
(* the waiters of a row lock: who waits is not overtaken for ever by later *)
(* transactions.  No client has to send anything, and nothing has to abort.*)
FairSpec ==
  Spec /\ \A p \in Requests : WF_vars(Continue(p)) /\ SF_vars(LockRow(p))

-------------------------------------------------------------------------------
(* Properties.                                                             *)

(* After a reset no token obtained with the old password can still be      *)
(* exchanged, except by a password login that was in flight between the    *)
(* reset's bulk UPDATE and its commit (auth_service.py:345) or through an  *)
(* MFA challenge.  The window is the only way a login escapes: reading the *)
(* user before the reset begins, or committing after it ends, is not       *)
(* enough by itself.                                                       *)
OldPasswordOnlyByRace ==
  \A f \in Families :
    Exists(f) /\ ~families[f].revoked /\ families[f].via = "login"
      => families[f].pw = users[families[f].user].pw

(* A family is revoked for a reason: one of its tokens was presented twice *)
(* or the owner's password was reset since the password it was obtained    *)
(* with.  However requests interleave, a client that presents each token   *)
(* once is never signed out by somebody else's exchange                    *)
(* (auth_service.py:546).                                                  *)
NoSpuriousRevocation ==
  \A f \in Families :
    families[f].revoked =>
      f \in replayed \/ families[f].pw < users[families[f].user].pw

(* A revoked family stays revoked: no exchange that read the row before    *)
(* the revocation and commits after it brings the family back              *)
(* (auth_service.py:565).                                                  *)
RevocationIsPermanent ==
  [][\A f \in Families : families[f].revoked => families'[f].revoked]_vars

(* How far README's "only the latest issued token is valid" can be missed: *)
(* a token is exchanged at most once by each request that had read the row *)
(* before the first exchange committed.                                    *)
ExchangeBound ==
  \A t \in delivered :
    Cardinality({x \in exchanged : x.token = t}) <= Cardinality(Requests)

(* What is left of "only the latest issued token is valid": once an        *)
(* exchange has committed, its token is never accepted again by a request  *)
(* that reads the row after it, whatever stale exchanges commit in between *)
(* (auth_service.py:546).                                                  *)
ExchangedIsRefused ==
  [][\A p \in Requests :
       requests[p].at = "family" /\ requests'[p].at = "rotate" =>
         \A x \in exchanged : x.token # requests[p].token]_vars

(* A request whose statement still has to lock a row that q has locked.    *)
WaitsFor(p, q) == p # q /\ ToLock(p) \cap locks[q] # {}

(* No circular wait: among any requests there is one that waits for none   *)
(* of the others.  Exchanges and revocations lock one row, and a reset     *)
(* locks families only after the user's row (auth_service.py:343), so that *)
(* two resets of one user never hold families of which the other needs one.*)
NoCircularWait ==
  \A S \in SUBSET Requests :
    S # {} => \E p \in S : \A q \in S : ~WaitsFor(p, q)

(* Every request comes to an end, whichever rows others lock meanwhile and *)
(* however many of them come after it (auth_service.py:343).               *)
RequestsComplete ==
  \A p \in Requests : requests[p] # Idle ~> requests[p] = Idle

(* The contract of FamilyContract, read off the table of families.         *)
Contract == INSTANCE FamilyContract WITH
  status <- [f \in Families |-> IF ~Exists(f) THEN "unborn"
                                ELSE IF families[f].revoked THEN "dead" ELSE "live"],
  owner <- [f \in Families |-> families[f].user],
  current <- [f \in Families |-> IF families[f].revoked THEN 0 ELSE families[f].last]

ContractSpec == Contract!Spec

-------------------------------------------------------------------------------
(* Statements of the documentation that the code does not keep.            *)

(* README: "Only the latest issued token in a family is valid.  If an      *)
(* older token is reused, ... the entire family is revoked."  Two          *)
(* exchanges of one token would leave the family revoked.                  *)
ReuseRevokesFamily ==
  \A x, y \in exchanged :
    x.token = y.token /\ x.heir # y.heir => families[x.token[1]].revoked

(* README: "Password reset revokes all existing refresh token families for *)
(* the user."  A step that replaces the password leaves every family of    *)
(* the user revoked.                                                       *)
PasswordResetRevokesAll ==
  [][\A u \in Users :
       users'[u].pw # users[u].pw /\ users[u].pw > 0 =>
         \A f \in FamiliesOf(u) : families'[f].revoked]_vars
===============================================================================
