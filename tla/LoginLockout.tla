------------------------------ MODULE LoginLockout ------------------------------
(***************************************************************************)
(* The brute-force lockout of authcore-service                             *)
(* (src/app/services/bruteforce_service.py) as login_user calls it.        *)
(*                                                                         *)
(* The state is in Redis, outside any transaction.  Redis runs one command *)
(* at a time and every command is an await, so an action below is the code *)
(* of one login request up to and including its next Redis command.  Time  *)
(* may pass between any two of them.                                       *)
(***************************************************************************)
EXTENDS Naturals, FiniteSets

CONSTANTS
  Accounts,     \* normalized e-mail addresses
  Addresses,    \* client IP addresses
  NoAddress,    \* the request came without one
  Renamed,      \* what replace("failed", "lockout") makes of a key's suffix
  Requests,     \* slots for login requests in flight
  MaxFailed,    \* settings.max_failed_attempts
  Lifetime,     \* settings.lockout_ttl_seconds, in ticks of the clock
  MaxCount      \* bound: counts from here on are not told apart

Keys == Accounts \cup Addresses

(* replace() leaves no "failed" behind and keeps the prefix that names the *)
(* kind of key; an IP address contains no "failed".                        *)
ASSUME LockoutAssumption ==
  /\ Accounts \cap Addresses = {}
  /\ NoAddress \notin Keys
  /\ Renamed \in [Keys -> Keys]
  /\ \A k \in Keys : Renamed[Renamed[k]] = Renamed[k]
  /\ \A a \in Accounts : Renamed[a] \in Accounts
  /\ \A i \in Addresses : Renamed[i] = i
  /\ IsFiniteSet(Requests) /\ Requests # {}
  /\ MaxFailed \in Nat \ {0}
  /\ Lifetime \in Nat \ {0}
  /\ MaxCount \in Nat /\ MaxCount > 1 /\ MaxCount >= MaxFailed

VARIABLES
  counters,     \* "authcore:login:failed:...": value and remaining lifetime
  lockouts,     \* "authcore:login:lockout:...": remaining lifetime, 0 = no key
  logins,       \* the login requests in flight
  (* History, read by the properties only.                                 *)
  due,          \* how much longer the last failure at the limit must lock
  extra,        \* failures counted for a key since its lockout was set
  late          \* logins admitted although their account had to be locked

history == <<due, extra, late>>
vars == <<counters, lockouts, logins, history>>

-------------------------------------------------------------------------------
(* n = 0 means that the key does not exist, ttl = 0 that it never expires. *)
NoCounter == [n |-> 0, ttl |-> 0]
Counters == [n: 0..MaxCount, ttl: 0..Lifetime]

Idle == [at |-> "idle"]

(* A login handles the account's key and then the address's; key is the    *)
(* one it is at.                                                           *)
LoginStates ==
  {Idle}
    \cup [at: {"check", "password", "count"}, account: Accounts,
          address: Addresses \cup {NoAddress}, key: Keys]
    \cup [at: {"expire", "lock"}, account: Accounts,
          address: Addresses \cup {NoAddress}, key: Keys, n: 1..MaxCount]

TypeOK ==
  /\ counters \in [Keys -> Counters]
  /\ lockouts \in [Keys -> 0..Lifetime]
  /\ logins \in [Requests -> LoginStates]
  /\ due \in [Keys -> 0..Lifetime]
  /\ extra \in [Keys -> Nat]
  /\ late \subseteq Requests

Init ==
  /\ counters = [k \in Keys |-> NoCounter]
  /\ lockouts = [k \in Keys |-> 0]
  /\ logins = [p \in Requests |-> Idle]
  /\ due = [k \in Keys |-> 0]
  /\ extra = [k \in Keys |-> 0]
  /\ late = {}

Locked(k) == lockouts[k] > 0

(* A request has counted a failure of k at the limit and is at the commands*)
(* that follow.                                                            *)
AboutToLock(k) ==
  \E p \in Requests :
    /\ logins[p].at \in {"expire", "lock"}
    /\ logins[p].key = k
    /\ logins[p].n >= MaxFailed

(* Failures are counted from the moment a lockout begins until it ends.    *)
Forgotten == [k \in Keys |-> IF lockouts'[k] > 0 THEN extra[k] ELSE 0]

Goto(p, place, r, k) ==
  logins' = [logins EXCEPT ![p] =
    [at |-> place, account |-> r.account, address |-> r.address, key |-> k]]

Finish(p) == logins' = [logins EXCEPT ![p] = Idle]

\* Mutant: the address's key is used even when there is no address.
LastKeyBlindly(r) == r.key = r.address

LastKey(r) == r.key = r.address \/ r.address = NoAddress

-------------------------------------------------------------------------------
(* check_login_lockout.                                                    *)

(* EXISTS on the key r.key: refused with 423, on to the next key, or on to *)
(* the password.                                                           *)
\* Mutant: only the account's lockout is looked up.
ExistsForAccount(r) == r.key = r.account /\ Locked(r.key)

Exists(r) == Locked(r.key)

Check(p, r) ==
  /\ IF Exists(r) THEN Finish(p)
     ELSE IF LastKey(r) THEN Goto(p, "password", r, r.account)
     ELSE Goto(p, "check", r, r.address)
  /\ UNCHANGED <<counters, lockouts>>

Arrive(p, a, i) ==
  /\ logins[p] = Idle
  /\ Check(p, [account |-> a, address |-> i, key |-> a])
  /\ late' = IF due[a] > 0 /\ ~AboutToLock(a) /\ logins'[p] # Idle
             THEN late \cup {p} ELSE late \ {p}
  /\ UNCHANGED <<due, extra>>

CheckNext(p) ==
  /\ logins[p].at = "check"
  /\ Check(p, logins[p])
  /\ UNCHANGED history

-------------------------------------------------------------------------------
(* record_failed_login.  The password check itself has no await; its       *)
(* outcome is which of the next actions happens.                           *)

(* After the last command for one key.                                     *)
NextKey(p, r) ==
  IF LastKey(r) THEN Finish(p) ELSE Goto(p, "count", r, r.address)

At(place, r, n) ==
  [at |-> place, account |-> r.account, address |-> r.address, key |-> r.key, n |-> n]

ReachesLimit(n) == n >= MaxFailed

\* Mutant: the lifetime is set when the key already existed.
StartsCounterLate(n) == n = 2

StartsCounter(n) == n = 1

AfterExpire(p, r, n) ==
  IF ReachesLimit(n) THEN logins' = [logins EXCEPT ![p] = At("lock", r, n)]
  ELSE NextKey(p, r)

(* The code compares a count with 1 and with the limit only.               *)
Incremented(n) == IF n < MaxCount THEN n + 1 ELSE MaxCount

(* INCR keeps the lifetime of a key that exists.                           *)
CountFailure(p) ==
  LET r == logins[p]
      n == Incremented(counters[r.key].n)
  IN  /\ r.at \in {"password", "count"}
      /\ counters' = [counters EXCEPT ![r.key].n = n]
      /\ IF StartsCounter(n) THEN logins' = [logins EXCEPT ![p] = At("expire", r, n)]
         ELSE AfterExpire(p, r, n)
      /\ due' = IF n >= MaxFailed THEN [due EXCEPT ![r.key] = Lifetime] ELSE due
      /\ extra' = IF Locked(r.key) THEN [extra EXCEPT ![r.key] = @ + 1] ELSE extra
      /\ UNCHANGED <<lockouts, late>>

(* EXPIRE does nothing to a key that is gone.                              *)
ExpireCounter(p) ==
  LET r == logins[p]
  IN  /\ r.at = "expire"
      /\ counters' = IF counters[r.key].n = 0 THEN counters
                     ELSE [counters EXCEPT ![r.key].ttl = Lifetime]
      /\ AfterExpire(p, r, r.n)
      /\ UNCHANGED <<lockouts, history>>

\* Mutant: SET with nx=True.
SetIfAbsent(ttl) == IF ttl = 0 THEN Lifetime ELSE ttl

SetFor(ttl) == Lifetime

(* The name of the lockout key is derived from the counter's by a textual  *)
(* replacement over the whole key.                                         *)
SetLockout(p) ==
  LET r == logins[p]
  IN  /\ r.at = "lock"
      /\ lockouts' = [lockouts EXCEPT ![Renamed[r.key]] = SetFor(@)]
      /\ NextKey(p, r)
      /\ UNCHANGED <<counters, history>>

-------------------------------------------------------------------------------
(* The other outcomes of login_user.                                       *)

(* The right password: one DEL of the counters and lockouts of both keys   *)
(* (clear_failed_login).                                                   *)
ClearFailures(p) ==
  LET r == logins[p]
      cleared == {r.account, r.address}
  IN  /\ r.at = "password"
      /\ counters' = [k \in Keys |-> IF k \in cleared THEN NoCounter ELSE counters[k]]
      /\ lockouts' = [k \in Keys |-> IF k \in cleared THEN 0 ELSE lockouts[k]]
      /\ Finish(p)
      /\ due' = [k \in Keys |-> IF k \in cleared THEN 0 ELSE due[k]]
      /\ extra' = Forgotten
      /\ UNCHANGED late

(* The right password of an inactive account: 403, nothing recorded and    *)
(* nothing cleared.                                                        *)
RefuseInactive(p) ==
  /\ logins[p].at = "password"
  /\ Finish(p)
  /\ UNCHANGED <<counters, lockouts, history>>

-------------------------------------------------------------------------------
(* Time and failures.                                                      *)

Aged(c) ==
  IF c.ttl = 0 THEN c ELSE IF c.ttl = 1 THEN NoCounter ELSE [c EXCEPT !.ttl = @ - 1]

\* Mutant: the lockout is SET without ex=.
AgedNever(ttl) == ttl

AgedLockout(ttl) == IF ttl = 0 THEN 0 ELSE ttl - 1

Age ==
  /\ counters' = [k \in Keys |-> Aged(counters[k])]
  /\ lockouts' = [k \in Keys |-> AgedLockout(lockouts[k])]
  /\ due' = [k \in Keys |-> IF due[k] = 0 THEN 0 ELSE due[k] - 1]
  /\ extra' = Forgotten
  /\ UNCHANGED <<logins, late>>

(* The process dies, or Redis fails a command, between two commands.       *)
Crash(p) ==
  /\ logins[p] # Idle
  /\ Finish(p)
  /\ UNCHANGED <<counters, lockouts, history>>

Continue(p) ==
  \/ CheckNext(p)
  \/ CountFailure(p)
  \/ ExpireCounter(p)
  \/ SetLockout(p)
  \/ ClearFailures(p)
  \/ RefuseInactive(p)

Serve ==
  \/ \E p \in Requests, a \in Accounts, i \in Addresses \cup {NoAddress} : Arrive(p, a, i)
  \/ \E p \in Requests : Continue(p)

Next == Serve \/ Age

Spec == Init /\ [][Next]_vars

FaultyNext == Next \/ \E p \in Requests : Crash(p)

FaultySpec == Init /\ [][FaultyNext]_vars

(* Time passes, and requests that can go on do.                            *)
FairFaultySpec ==
  FaultySpec /\ WF_vars(Age) /\ \A p \in Requests : WF_vars(Continue(p))

-------------------------------------------------------------------------------
(* Properties.                                                             *)

(* The keys whose lockout is looked up where it is set.                    *)
Plain == {k \in Keys : Renamed[k] = k}

(* A failure counted at the limit locks its key from then on for the       *)
(* lockout's lifetime (bruteforce_service.py:24), unless a success deletes *)
(* it: whatever failures, successes and expiries come between INCR and SET *)
(* or after them, it is locked for as long as that failure requires.  Only *)
(* a request between its commands for this very key excuses it.            *)
LimitLocks ==
  \A k \in Plain : due[k] > 0 => lockouts[k] >= due[k] \/ AboutToLock(k)

(* Logins that passed the check before the lockout was set still count     *)
(* their failures (bruteforce_service.py:10).  While a lockout stands,     *)
(* however often it is set again, they are at most the other requests that *)
(* were in flight when it began: each is one more password tried.          *)
LateGuessBound ==
  \A k \in Keys : extra[k] <= Cardinality(Requests) - 1

(* README: "Failed login attempts increment a Redis key with a TTL."  No   *)
(* counter is without one except between INCR and EXPIRE                   *)
(* (bruteforce_service.py:20-22).                                          *)
NoImmortalCounter ==
  \A k \in Keys :
    counters[k].n > 0 /\ counters[k].ttl = 0 =>
      \E p \in Requests : logins[p].at = "expire" /\ logins[p].key = k

(* A lockout ends, even if logins keep coming and requests die at any      *)
(* command.  A key that others' lockouts are stored under is excepted: it  *)
(* can be set again by logins that it does not stop.                       *)
LockoutEnds ==
  \A k \in Plain :
    (\A j \in Keys : Renamed[j] = k => j = k) => (Locked(k) ~> ~Locked(k))

-------------------------------------------------------------------------------
(* A statement of the README that the code does not keep.                  *)

(* README: "account/IP brute-force lockout".  A login that arrives while   *)
(* its account has to be locked, because of a failure counted at the limit *)
(* less than a lifetime ago, does not get to have its password checked,    *)
(* whatever the account's name and from wherever the failures came.        *)
LimitRefusesLogin ==
  \A p \in Requests : logins[p].at = "password" => p \notin late
===============================================================================
