--------------------------- MODULE LoginLockoutProofs ---------------------------
(***************************************************************************)
(* Proofs about LoginLockout, for every set of accounts, addresses and     *)
(* requests, every limit, lifetime and renaming of keys, with time passing *)
(* between any two commands.                                               *)
(*                                                                         *)
(* NoImmortalCounter and LimitLocks are inductive given the type.          *)
(* LateGuessBound is not: what must be bounded are the failures counted    *)
(* while a lockout stands together with the requests that may still count  *)
(* one without another check (GuessesBounded), and that no request comes   *)
(* back to a key it has counted follows from the order of its two keys     *)
(* (KeysInOrder).                                                          *)
(***************************************************************************)
EXTENDS LoginLockout, FiniteSetTheorems, TLAPS

-------------------------------------------------------------------------------
(* Type correctness.                                                       *)

AddressOf == Addresses \cup {NoAddress}

LEMMA LoginFields ==
  ASSUME NEW r \in LoginStates
  PROVE  /\ r.at # "idle" =>
              r.account \in Accounts /\ r.address \in AddressOf /\ r.key \in Keys
         /\ r.at \in {"expire", "lock"} => r.n \in 1..MaxCount
  BY DEF LoginStates, Idle, AddressOf

CommandsTyped ==
  /\ counters \in [Keys -> Counters]
  /\ lockouts \in [Keys -> 0..Lifetime]
  /\ logins \in [Requests -> LoginStates]

(* The ways a request goes on: to a state without a command pending for a  *)
(* counter it has incremented, the other requests being left alone.        *)
QuietMove(p) ==
  /\ logins' \in [Requests -> LoginStates]
  /\ logins'[p].at \notin {"expire", "lock"}
  /\ \A q \in Requests \ {p} : logins'[q] = logins[q]

LEMMA FinishQuiet ==
  ASSUME TypeOK, NEW p \in Requests, Finish(p)
  PROVE  QuietMove(p)
  BY DEF TypeOK, Finish, QuietMove, LoginStates, Idle

LEMMA GotoQuiet ==
  ASSUME TypeOK, NEW p \in Requests, NEW r, NEW k \in Keys,
         NEW place \in {"check", "password", "count"},
         r.account \in Accounts, r.address \in AddressOf,
         Goto(p, place, r, k)
  PROVE  QuietMove(p)
  BY DEF TypeOK, Goto, QuietMove, LoginStates, AddressOf

LEMMA NextKeyQuiet ==
  ASSUME TypeOK, NEW p \in Requests, NEW r,
         r.account \in Accounts, r.address \in AddressOf,
         NextKey(p, r)
  PROVE  QuietMove(p)
<1>1. CASE LastKey(r)
  BY <1>1, FinishQuiet DEF NextKey
<1>2. CASE ~LastKey(r)
  <2>1. r.address \in Keys
    BY <1>2 DEF LastKey, AddressOf, Keys
  <2> QED
    BY <1>2, <2>1, GotoQuiet DEF NextKey
<1> QED
  BY <1>1, <1>2

LEMMA CheckQuiet ==
  ASSUME TypeOK, NEW p \in Requests, NEW r,
         r.account \in Accounts, r.address \in AddressOf,
         Check(p, r)
  PROVE  QuietMove(p)
<1>1. CASE Locked(r.key)
  BY <1>1, FinishQuiet DEF Check, Exists
<1>2. CASE ~Locked(r.key) /\ LastKey(r)
  BY <1>2, GotoQuiet DEF Check, Exists, Keys
<1>3. CASE ~Locked(r.key) /\ ~LastKey(r)
  <2>1. r.address \in Keys
    BY <1>3 DEF LastKey, AddressOf, Keys
  <2> QED
    BY <1>3, <2>1, GotoQuiet DEF Check, Exists
<1> QED
  BY <1>1, <1>2, <1>3

(* The request goes on to set the lockout it has found to be due.          *)
LockMove(p, r, n) ==
  /\ logins' = [logins EXCEPT ![p] = At("lock", r, n)]
  /\ n >= MaxFailed

LEMMA AfterExpireMoves ==
  ASSUME TypeOK, NEW p \in Requests, NEW r, NEW n \in 1..MaxCount,
         r.account \in Accounts, r.address \in AddressOf,
         AfterExpire(p, r, n)
  PROVE  LockMove(p, r, n) \/ (n < MaxFailed /\ QuietMove(p))
<1>1. CASE ReachesLimit(n)
  BY <1>1 DEF AfterExpire, ReachesLimit, LockMove
<1>2. CASE ~ReachesLimit(n)
  <2>1. QuietMove(p)
    BY <1>2, NextKeyQuiet DEF AfterExpire
  <2> QED
    BY <1>2, <2>1, LockoutAssumption DEF ReachesLimit
<1> QED
  BY <1>1, <1>2

LEMMA AtTyped ==
  ASSUME NEW r \in LoginStates, r.at # "idle", NEW n \in 1..MaxCount,
         NEW place \in {"expire", "lock"}
  PROVE  At(place, r, n) \in LoginStates
  BY LoginFields DEF At, LoginStates, AddressOf

LEMMA IncrementedTyped ==
  ASSUME NEW c \in Counters
  PROVE  /\ Incremented(c.n) \in 1..MaxCount
         /\ Incremented(c.n) # 1 => c.n > 0
  BY LockoutAssumption DEF Incremented, Counters

LEMMA AgedTyped ==
  ASSUME NEW c \in Counters
  PROVE  /\ Aged(c) \in Counters
         /\ c.ttl = 0 => Aged(c) = c
         /\ c.ttl = 1 => Aged(c).n = 0
         /\ c.ttl > 1 => Aged(c).n = c.n /\ Aged(c).ttl = c.ttl - 1
<1>1. c.n \in 0..MaxCount /\ c.ttl \in 0..Lifetime /\ c = [n |-> c.n, ttl |-> c.ttl]
  BY DEF Counters
<1>2. CASE c.ttl = 0
  BY <1>1, <1>2 DEF Aged
<1>3. CASE c.ttl = 1
  BY <1>1, <1>3, LockoutAssumption DEF Aged, NoCounter, Counters
<1>4. CASE c.ttl > 1
  <2>1. Aged(c) = [n |-> c.n, ttl |-> c.ttl - 1]
    BY <1>1, <1>4 DEF Aged
  <2>2. c.ttl - 1 \in 0..Lifetime
    BY <1>1, <1>4, LockoutAssumption
  <2> QED
    BY <1>1, <1>4, <2>1, <2>2 DEF Counters
<1> QED
  BY <1>1, <1>2, <1>3, <1>4, LockoutAssumption

LEMMA CommandsKeepType == TypeOK /\ [FaultyNext]_vars => CommandsTyped'
<1> SUFFICES ASSUME TypeOK, [FaultyNext]_vars
             PROVE  CommandsTyped'
  OBVIOUS
<1> USE LockoutAssumption
<1>1. ASSUME NEW p \in Requests, QuietMove(p), UNCHANGED <<counters, lockouts>>
      PROVE  CommandsTyped'
  BY <1>1 DEF TypeOK, CommandsTyped, QuietMove
<1>2. ASSUME NEW p \in Requests, NEW a \in Accounts, NEW i \in AddressOf, Arrive(p, a, i)
      PROVE  CommandsTyped'
  BY <1>1, <1>2, CheckQuiet DEF Arrive, Check
<1>3. ASSUME NEW p \in Requests, Continue(p)
      PROVE  CommandsTyped'
  <2> DEFINE r == logins[p]
  <2>1. r \in LoginStates
    BY DEF TypeOK
  <2>2. CASE CheckNext(p)
    BY <1>1, <2>1, <2>2, LoginFields, CheckQuiet DEF CheckNext, Check
  <2>3. CASE CountFailure(p)
    <3> DEFINE n == Incremented(counters[r.key].n)
    <3>1. r.at # "idle" /\ r.key \in Keys /\ n \in 1..MaxCount
      BY <2>1, <2>3, LoginFields, IncrementedTyped DEF CountFailure, TypeOK
    <3>2. counters' \in [Keys -> Counters]
      BY <2>3, <3>1 DEF CountFailure, TypeOK, Counters
    <3>3. logins' \in [Requests -> LoginStates]
      <4>1. CASE StartsCounter(n)
        BY <2>1, <2>3, <3>1, <4>1, AtTyped DEF CountFailure, TypeOK
      <4>2. CASE ~StartsCounter(n)
        <5>1. AfterExpire(p, r, n)
          BY <2>3, <4>2 DEF CountFailure
        <5>2. LockMove(p, r, n) \/ QuietMove(p)
          BY <2>1, <3>1, <5>1, LoginFields, AfterExpireMoves
        <5> QED
          BY <2>1, <3>1, <5>2, AtTyped DEF LockMove, QuietMove, TypeOK
      <4> QED
        BY <4>1, <4>2
    <3> QED
      BY <2>3, <3>2, <3>3 DEF CountFailure, CommandsTyped, TypeOK
  <2>4. CASE ExpireCounter(p)
    <3>1. r.at # "idle" /\ r.key \in Keys /\ r.n \in 1..MaxCount
      BY <2>1, <2>4, LoginFields DEF ExpireCounter
    <3>2. counters' \in [Keys -> Counters]
      BY <2>4, <3>1 DEF ExpireCounter, TypeOK, Counters
    <3>3. LockMove(p, r, r.n) \/ QuietMove(p)
      BY <2>1, <2>4, <3>1, LoginFields, AfterExpireMoves DEF ExpireCounter
    <3> QED
      BY <2>1, <2>4, <3>1, <3>2, <3>3, AtTyped DEF ExpireCounter, LockMove, QuietMove, TypeOK, CommandsTyped
  <2>5. CASE SetLockout(p)
    <3>1. r.at # "idle" /\ QuietMove(p)
      BY <2>1, <2>5, LoginFields, NextKeyQuiet DEF SetLockout
    <3>2. lockouts' \in [Keys -> 0..Lifetime]
      BY <2>1, <2>5, LoginFields DEF SetLockout, SetFor, TypeOK
    <3> QED
      BY <2>5, <3>1, <3>2 DEF SetLockout, QuietMove, TypeOK, CommandsTyped
  <2>6. CASE ClearFailures(p)
    BY <2>6, FinishQuiet DEF ClearFailures, NoCounter, Counters, QuietMove, TypeOK, CommandsTyped
  <2>7. CASE RefuseInactive(p)
    BY <1>1, <2>7, FinishQuiet DEF RefuseInactive
  <2> QED
    BY <1>3, <2>2, <2>3, <2>4, <2>5, <2>6, <2>7 DEF Continue
<1>4. CASE Age
  <2>1. \A k \in Keys : Aged(counters[k]) \in Counters
    BY AgedTyped DEF TypeOK
  <2>2. \A k \in Keys : AgedLockout(lockouts[k]) \in 0..Lifetime
    BY DEF TypeOK, AgedLockout
  <2> QED
    BY <1>4, <2>1, <2>2 DEF Age, TypeOK, CommandsTyped
<1>5. ASSUME NEW p \in Requests, Crash(p)
      PROVE  CommandsTyped'
  BY <1>1, <1>5, FinishQuiet DEF Crash
<1>6. CASE UNCHANGED vars
  BY <1>6 DEF vars, TypeOK, CommandsTyped
<1> QED
  BY <1>2, <1>3, <1>4, <1>5, <1>6 DEF FaultyNext, Next, Serve, AddressOf

LEMMA NextTyped == TypeOK /\ [FaultyNext]_vars => TypeOK'
<1> SUFFICES ASSUME TypeOK, [FaultyNext]_vars
             PROVE  TypeOK'
  OBVIOUS
<1>1. ASSUME UNCHANGED history
      PROVE  due' \in [Keys -> 0..Lifetime] /\ extra' \in [Keys -> Nat] /\ late' \subseteq Requests
  BY <1>1 DEF TypeOK, history
<1>2. Forgotten \in [Keys -> Nat]
  BY DEF TypeOK, Forgotten
<1>3. due' \in [Keys -> 0..Lifetime] /\ extra' \in [Keys -> Nat] /\ late' \subseteq Requests
  <2>1. ASSUME NEW p \in Requests, NEW a \in Accounts, NEW i \in AddressOf, Arrive(p, a, i)
        PROVE  due' \in [Keys -> 0..Lifetime] /\ extra' \in [Keys -> Nat] /\ late' \subseteq Requests
    BY <2>1 DEF Arrive, TypeOK
  <2>2. ASSUME NEW p \in Requests, CountFailure(p)
        PROVE  due' \in [Keys -> 0..Lifetime] /\ extra' \in [Keys -> Nat] /\ late' \subseteq Requests
    <3>1. logins[p].key \in Keys
      BY <2>2, LoginFields DEF CountFailure, TypeOK
    <3> QED
      BY <2>2, <3>1, LockoutAssumption DEF CountFailure, TypeOK
  <2>3. ASSUME NEW p \in Requests, ClearFailures(p)
        PROVE  due' \in [Keys -> 0..Lifetime] /\ extra' \in [Keys -> Nat] /\ late' \subseteq Requests
    BY <1>2, <2>3, LockoutAssumption DEF ClearFailures, TypeOK
  <2>4. CASE Age
    BY <1>2, <2>4, LockoutAssumption DEF Age, TypeOK
  <2>5. ASSUME NEW p \in Requests,
               \/ CheckNext(p) \/ ExpireCounter(p) \/ SetLockout(p)
               \/ RefuseInactive(p) \/ Crash(p)
        PROVE  UNCHANGED history
    BY <2>5 DEF CheckNext, ExpireCounter, SetLockout, RefuseInactive, Crash
  <2>6. CASE UNCHANGED vars
    BY <1>1, <2>6 DEF vars
  <2> QED
    BY <1>1, <2>1, <2>2, <2>3, <2>4, <2>5, <2>6
       DEF FaultyNext, Next, Serve, Continue, AddressOf
<1> QED
  BY <1>3, CommandsKeepType DEF TypeOK, CommandsTyped

LEMMA InitTyped == Init => TypeOK
  BY LockoutAssumption DEF Init, TypeOK, Counters, NoCounter, LoginStates, Idle

(* Every reachable state has the shape TypeOK gives to the counters, the   *)
(* lockouts and the logins in flight, with and without failures.           *)
THEOREM TypeCorrect == (Spec => []TypeOK) /\ (FaultySpec => []TypeOK)
<1>1. [Next]_vars => [FaultyNext]_vars
  BY DEF FaultyNext
<1>2. Spec => []TypeOK
  BY <1>1, NextTyped, InitTyped, PTL DEF Spec
<1>3. FaultySpec => []TypeOK
  BY NextTyped, InitTyped, PTL DEF FaultySpec
<1> QED
  BY <1>2, <1>3

-------------------------------------------------------------------------------
(* Counters expire.                                                        *)

(* A quiet move of a request that has no EXPIRE to send takes no support   *)
(* from a counter.                                                         *)
LEMMA QuietKeepsFresh ==
  ASSUME TypeOK, NoImmortalCounter, NEW p \in Requests, QuietMove(p),
         logins[p].at # "expire", UNCHANGED counters
  PROVE  NoImmortalCounter'
  BY DEF NoImmortalCounter, QuietMove

LEMMA NextFresh == TypeOK /\ NoImmortalCounter /\ [Next]_vars => NoImmortalCounter'
<1> SUFFICES ASSUME TypeOK, NoImmortalCounter, [Next]_vars
             PROVE  NoImmortalCounter'
  OBVIOUS
<1>1. ASSUME NEW p \in Requests, NEW a \in Accounts, NEW i \in AddressOf, Arrive(p, a, i)
      PROVE  NoImmortalCounter'
  <2>1. QuietMove(p)
    BY <1>1, CheckQuiet DEF Arrive
  <2> QED
    BY <1>1, <2>1, QuietKeepsFresh DEF Arrive, Check, Idle
<1>2. ASSUME NEW p \in Requests, Continue(p)
      PROVE  NoImmortalCounter'
  <2> DEFINE r == logins[p]
  <2>1. r \in LoginStates
    BY DEF TypeOK
  <2>2. CASE CheckNext(p)
    <3>1. QuietMove(p)
      BY <2>1, <2>2, LoginFields, CheckQuiet DEF CheckNext
    <3> QED
      BY <2>2, <3>1, QuietKeepsFresh DEF CheckNext, Check
  <2>3. CASE CountFailure(p)
    <3> DEFINE n == Incremented(counters[r.key].n)
    <3>1. /\ r.at \notin {"idle", "expire"} /\ r.key \in Keys
          /\ n \in 1..MaxCount
          /\ n # 1 => counters[r.key].n > 0
      BY <2>1, <2>3, LoginFields, IncrementedTyped DEF CountFailure, TypeOK
    <3>2. \A q \in Requests \ {p} : logins'[q] = logins[q]
      <4>1. CASE StartsCounter(n)
        BY <2>3, <4>1 DEF CountFailure, TypeOK
      <4>2. CASE ~StartsCounter(n)
        <5>1. LockMove(p, r, n) \/ QuietMove(p)
          BY <2>1, <2>3, <3>1, <4>2, LoginFields, AfterExpireMoves DEF CountFailure
        <5> QED
          BY <5>1 DEF LockMove, QuietMove, TypeOK
      <4> QED
        BY <4>1, <4>2
    <3>3. \A k \in Keys \ {r.key} : counters'[k] = counters[k]
      BY <2>3 DEF CountFailure, TypeOK
    <3>4. counters'[r.key].n = n /\ counters'[r.key].ttl = counters[r.key].ttl
      BY <2>3, <3>1 DEF CountFailure, TypeOK, Counters
    <3>5. SUFFICES ASSUME NEW k \in Keys, counters'[k].n > 0, counters'[k].ttl = 0
                   PROVE  \E q \in Requests : logins'[q].at = "expire" /\ logins'[q].key = k
      BY DEF NoImmortalCounter
    <3>6. CASE k = r.key /\ n = 1
      <4>1. logins'[p] = At("expire", r, n)
        BY <2>3, <3>6 DEF CountFailure, StartsCounter, TypeOK
      <4> QED
        BY <3>6, <4>1 DEF At
    <3>7. CASE ~(k = r.key /\ n = 1)
      <4>1. counters[k].n > 0 /\ counters[k].ttl = 0
        BY <3>1, <3>3, <3>4, <3>5, <3>7 DEF TypeOK, Counters
      <4>2. PICK q \in Requests : logins[q].at = "expire" /\ logins[q].key = k
        BY <4>1 DEF NoImmortalCounter
      <4> QED
        BY <3>1, <3>2, <4>2
    <3> QED
      BY <3>6, <3>7
  <2>4. CASE ExpireCounter(p)
    <3>1. r.at = "expire" /\ r.key \in Keys /\ r.n \in 1..MaxCount
      BY <2>1, <2>4, LoginFields DEF ExpireCounter
    <3>2. \A q \in Requests \ {p} : logins'[q] = logins[q]
      <4>1. LockMove(p, r, r.n) \/ QuietMove(p)
        BY <2>1, <2>4, <3>1, LoginFields, AfterExpireMoves DEF ExpireCounter
      <4> QED
        BY <4>1 DEF LockMove, QuietMove, TypeOK
    <3>3. \A k \in Keys \ {r.key} : counters'[k] = counters[k]
      BY <2>4 DEF ExpireCounter, TypeOK
    <3>4. counters'[r.key].n = 0 \/ counters'[r.key].ttl = Lifetime
      BY <2>4, <3>1 DEF ExpireCounter, TypeOK, Counters
    <3> QED
      BY <3>1, <3>2, <3>3, <3>4, LockoutAssumption DEF NoImmortalCounter
  <2>5. CASE SetLockout(p)
    <3>1. r.at = "lock" /\ QuietMove(p)
      BY <2>1, <2>5, LoginFields, NextKeyQuiet DEF SetLockout
    <3> QED
      BY <2>5, <3>1, QuietKeepsFresh DEF SetLockout
  <2>6. CASE ClearFailures(p)
    <3>1. r.at = "password" /\ QuietMove(p)
      BY <2>6, FinishQuiet DEF ClearFailures
    <3>2. \A k \in Keys : counters'[k].n = 0 \/ counters'[k] = counters[k]
      BY <2>6 DEF ClearFailures, NoCounter
    <3> QED
      BY <3>1, <3>2 DEF NoImmortalCounter, QuietMove
  <2>7. CASE RefuseInactive(p)
    <3>1. r.at = "password" /\ QuietMove(p)
      BY <2>7, FinishQuiet DEF RefuseInactive
    <3> QED
      BY <2>7, <3>1, QuietKeepsFresh DEF RefuseInactive
  <2> QED
    BY <1>2, <2>2, <2>3, <2>4, <2>5, <2>6, <2>7 DEF Continue
<1>3. CASE Age
  <2>1. SUFFICES ASSUME NEW k \in Keys, counters'[k].n > 0, counters'[k].ttl = 0
                 PROVE  counters[k].n > 0 /\ counters[k].ttl = 0
    BY <1>3 DEF NoImmortalCounter, Age
  <2>2. counters[k] \in Counters /\ counters'[k] = Aged(counters[k])
    BY <1>3 DEF Age, TypeOK
  <2>3. counters[k].ttl = 0 \/ counters[k].ttl = 1 \/ counters[k].ttl > 1
    BY <2>2, LockoutAssumption DEF Counters
  <2> QED
    BY <2>1, <2>2, <2>3, AgedTyped DEF Counters
<1>4. CASE UNCHANGED vars
  BY <1>4 DEF vars, NoImmortalCounter
<1> QED
  BY <1>1, <1>2, <1>3, <1>4 DEF Next, Serve, AddressOf

(* Without failures every counter has a lifetime as soon as the request    *)
(* that created it has sent its EXPIRE.                                    *)
THEOREM CountersExpire == Spec => []NoImmortalCounter
<1>1. Init => NoImmortalCounter
  BY DEF Init, NoImmortalCounter, NoCounter
<1>2. Spec => []TypeOK
  BY TypeCorrect
<1> QED
  BY <1>1, <1>2, NextFresh, PTL DEF Spec

-------------------------------------------------------------------------------
(* The limit locks.                                                        *)

LimitLocksKey(k) == due[k] > 0 => lockouts[k] >= due[k] \/ AboutToLock(k)

(* A request that has counted a failure at the limit stays about to lock   *)
(* if it is not the one that moves.                                        *)
LEMMA OthersStillAboutToLock ==
  ASSUME NEW k, NEW p \in Requests, AboutToLock(k),
         \A q \in Requests \ {p} : logins'[q] = logins[q],
         ~(/\ logins[p].at \in {"expire", "lock"}
           /\ logins[p].key = k
           /\ logins[p].n >= MaxFailed)
  PROVE  AboutToLock(k)'
  BY DEF AboutToLock

LEMMA QuietKeepsLimit ==
  ASSUME TypeOK, NEW k \in Keys, LimitLocksKey(k), NEW p \in Requests, QuietMove(p),
         logins[p].at \notin {"expire", "lock"},
         due'[k] = 0 \/ (due'[k] = due[k] /\ lockouts'[k] = lockouts[k])
  PROVE  LimitLocksKey(k)'
<1>1. AboutToLock(k) => AboutToLock(k)'
  BY OthersStillAboutToLock DEF QuietMove
<1> QED
  BY <1>1 DEF LimitLocksKey

LEMMA NextLimit == TypeOK /\ LimitLocks /\ [Next]_vars => LimitLocks'
<1> SUFFICES ASSUME TypeOK, LimitLocks, [Next]_vars, NEW k \in Plain
             PROVE  LimitLocksKey(k)'
  BY DEF LimitLocks, LimitLocksKey, Plain
<1>0. k \in Keys /\ Renamed[k] = k /\ LimitLocksKey(k)
  BY DEF LimitLocks, LimitLocksKey, Plain
<1>1. ASSUME NEW p \in Requests, NEW a \in Accounts, NEW i \in AddressOf, Arrive(p, a, i)
      PROVE  LimitLocksKey(k)'
  <2>1. QuietMove(p)
    BY <1>1, CheckQuiet DEF Arrive
  <2> QED
    BY <1>0, <1>1, <2>1, QuietKeepsLimit DEF Arrive, Check, Idle
<1>2. ASSUME NEW p \in Requests, Continue(p)
      PROVE  LimitLocksKey(k)'
  <2> DEFINE r == logins[p]
  <2>1. r \in LoginStates
    BY DEF TypeOK
  <2>2. CASE CheckNext(p)
    <3>1. QuietMove(p)
      BY <2>1, <2>2, LoginFields, CheckQuiet DEF CheckNext
    <3> QED
      BY <1>0, <2>2, <3>1, QuietKeepsLimit DEF CheckNext, Check, history
  <2>3. CASE CountFailure(p)
    <3> DEFINE n == Incremented(counters[r.key].n)
    <3>1. r.at \in {"password", "count"} /\ r.key \in Keys /\ n \in 1..MaxCount
      BY <2>1, <2>3, LoginFields, IncrementedTyped DEF CountFailure, TypeOK
    <3>2. \/ \E place \in {"expire", "lock"} :
               logins' = [logins EXCEPT ![p] = At(place, r, n)]
          \/ n < MaxFailed /\ QuietMove(p)
      <4>1. CASE StartsCounter(n)
        BY <2>3, <4>1 DEF CountFailure
      <4>2. CASE ~StartsCounter(n)
        BY <2>1, <2>3, <3>1, <4>2, LoginFields, AfterExpireMoves DEF CountFailure, LockMove
      <4> QED
        BY <4>1, <4>2
    <3>3. \A q \in Requests \ {p} : logins'[q] = logins[q]
      BY <3>2 DEF QuietMove, TypeOK
    <3>4. AboutToLock(k) => AboutToLock(k)'
      BY <3>1, <3>3, OthersStillAboutToLock
    <3>5. lockouts' = lockouts
      BY <2>3 DEF CountFailure
    <3>6. CASE n >= MaxFailed /\ r.key = k
      <4>1. PICK place \in {"expire", "lock"} :
               logins' = [logins EXCEPT ![p] = At(place, r, n)]
        BY <3>1, <3>2, <3>6, LockoutAssumption
      <4>2. logins'[p].at = place /\ logins'[p].key = k /\ logins'[p].n = n
        BY <3>6, <4>1 DEF At, TypeOK
      <4>3. AboutToLock(k)'
        BY <3>6, <4>2 DEF AboutToLock
      <4> QED
        BY <4>3 DEF LimitLocksKey
    <3>7. CASE ~(n >= MaxFailed /\ r.key = k)
      <4>1. due'[k] = due[k]
        BY <1>0, <2>3, <3>7 DEF CountFailure, TypeOK
      <4> QED
        BY <1>0, <3>4, <3>5, <4>1 DEF LimitLocksKey
    <3> QED
      BY <3>6, <3>7
  <2>4. CASE ExpireCounter(p)
    <3>1. r.at = "expire" /\ r.key \in Keys /\ r.n \in 1..MaxCount
      BY <2>1, <2>4, LoginFields DEF ExpireCounter
    <3>2. LockMove(p, r, r.n) \/ (r.n < MaxFailed /\ QuietMove(p))
      BY <2>1, <2>4, <3>1, LoginFields, AfterExpireMoves DEF ExpireCounter
    <3>3. \A q \in Requests \ {p} : logins'[q] = logins[q]
      BY <3>2 DEF LockMove, QuietMove, TypeOK
    <3>4. AboutToLock(k) => AboutToLock(k)'
      <4>1. CASE r.key = k /\ r.n >= MaxFailed
        <5>1. LockMove(p, r, r.n)
          BY <3>1, <3>2, <4>1, LockoutAssumption
        <5>2. logins'[p].at = "lock" /\ logins'[p].key = k /\ logins'[p].n = r.n
          BY <4>1, <5>1 DEF LockMove, At, TypeOK
        <5> QED
          BY <4>1, <5>2 DEF AboutToLock
      <4>2. CASE ~(r.key = k /\ r.n >= MaxFailed)
        BY <3>3, <4>2, OthersStillAboutToLock
      <4> QED
        BY <4>1, <4>2
    <3>5. due' = due /\ lockouts' = lockouts
      BY <2>4 DEF ExpireCounter, history
    <3> QED
      BY <1>0, <3>4, <3>5 DEF LimitLocksKey
  <2>5. CASE SetLockout(p)
    <3>1. r.at = "lock" /\ r.key \in Keys /\ QuietMove(p)
      BY <2>1, <2>5, LoginFields, NextKeyQuiet DEF SetLockout
    <3>2. due' = due /\ due[k] \in 0..Lifetime /\ lockouts[k] \in 0..Lifetime
      BY <1>0, <2>5 DEF SetLockout, history, TypeOK
    <3>3. CASE Renamed[r.key] = k
      <4>1. lockouts'[k] = Lifetime
        BY <1>0, <2>5, <3>3 DEF SetLockout, SetFor, TypeOK
      <4> QED
        BY <3>2, <4>1, LockoutAssumption DEF LimitLocksKey
    <3>4. CASE Renamed[r.key] # k
      <4>1. lockouts'[k] = lockouts[k]
        BY <1>0, <2>5, <3>4 DEF SetLockout, TypeOK
      <4>2. AboutToLock(k) => AboutToLock(k)'
        BY <1>0, <3>1, <3>4, OthersStillAboutToLock DEF QuietMove
      <4> QED
        BY <1>0, <3>2, <4>1, <4>2 DEF LimitLocksKey
    <3> QED
      BY <3>3, <3>4
  <2>6. CASE ClearFailures(p)
    <3>1. r.at = "password" /\ QuietMove(p)
      BY <2>6, FinishQuiet DEF ClearFailures
    <3>2. due'[k] = 0 \/ (due'[k] = due[k] /\ lockouts'[k] = lockouts[k])
      BY <1>0, <2>6 DEF ClearFailures
    <3> QED
      BY <1>0, <3>1, <3>2, QuietKeepsLimit
  <2>7. CASE RefuseInactive(p)
    <3>1. r.at = "password" /\ QuietMove(p)
      BY <2>7, FinishQuiet DEF RefuseInactive
    <3> QED
      BY <1>0, <2>7, <3>1, QuietKeepsLimit DEF RefuseInactive, history
  <2> QED
    BY <1>2, <2>2, <2>3, <2>4, <2>5, <2>6, <2>7 DEF Continue
<1>3. CASE Age
  <2>1. /\ due[k] \in 0..Lifetime /\ lockouts[k] \in 0..Lifetime
        /\ due'[k] = IF due[k] = 0 THEN 0 ELSE due[k] - 1
        /\ lockouts'[k] = IF lockouts[k] = 0 THEN 0 ELSE lockouts[k] - 1
    BY <1>0, <1>3 DEF Age, AgedLockout, TypeOK
  <2>2. AboutToLock(k)' = AboutToLock(k)
    BY <1>3 DEF Age, AboutToLock
  <2>3. due[k] > 0 /\ lockouts[k] >= due[k] => lockouts'[k] >= due'[k]
    BY <2>1, LockoutAssumption
  <2>4. due'[k] > 0 => due[k] > 0
    BY <2>1
  <2> QED
    BY <1>0, <2>2, <2>3, <2>4 DEF LimitLocksKey
<1>4. CASE UNCHANGED vars
  BY <1>0, <1>4 DEF vars, history, LimitLocksKey, AboutToLock
<1> QED
  BY <1>1, <1>2, <1>3, <1>4 DEF Next, Serve, AddressOf

LEMMA InitLimit == Init => LimitLocks
  BY DEF Init, LimitLocks, Plain

(* A failure counted at the limit locks its key for a whole lifetime from  *)
(* then on, unless a success deletes the lockout, for every interleaving   *)
(* of failures, successes and expiries, if no request dies.                *)
THEOREM LimitAlwaysLocks == Spec => []LimitLocks
<1>1. Spec => []TypeOK
  BY TypeCorrect
<1> QED
  BY <1>1, InitLimit, NextLimit, PTL DEF Spec

(* If the renaming leaves the names of accounts alone, a login that        *)
(* arrives while its account has to be locked never gets to its password,  *)
(* whatever other logins do to the account's keys at the same time.        *)
THEOREM UnchangedNamesAreRefused ==
  ASSUME \A a \in Accounts : Renamed[a] = a
  PROVE  Spec => []LimitRefusesLogin
<1> DEFINE NoneLate == late = {}
<1>1. TypeOK /\ LimitLocks /\ NoneLate /\ [Next]_vars => NoneLate'
  <2> SUFFICES ASSUME TypeOK, LimitLocks, late = {}, [Next]_vars
               PROVE  late' = {}
    OBVIOUS
  <2>1. ASSUME NEW p \in Requests, NEW a \in Accounts, NEW i \in AddressOf, Arrive(p, a, i)
        PROVE  late' = {}
    <3>1. CASE due[a] > 0 /\ ~AboutToLock(a)
      <4>1. a \in Plain /\ a \in Keys
        BY DEF Plain, Keys
      <4>2. lockouts[a] >= due[a]
        BY <3>1, <4>1 DEF LimitLocks
      <4>3. due[a] \in Nat /\ lockouts[a] \in Nat
        BY <4>1, LockoutAssumption DEF TypeOK
      <4>4. Locked(a)
        BY <3>1, <4>2, <4>3 DEF Locked
      <4>5. logins'[p] = Idle
        BY <2>1, <4>4 DEF Arrive, Check, Exists, Finish, TypeOK
      <4> QED
        BY <2>1, <4>5 DEF Arrive
    <3>2. CASE ~(due[a] > 0 /\ ~AboutToLock(a))
      BY <2>1, <3>2 DEF Arrive
    <3> QED
      BY <3>1, <3>2
  <2>2. ASSUME NEW p \in Requests, Continue(p)
        PROVE  late' = {}
    BY <2>2 DEF Continue, CheckNext, CountFailure, ExpireCounter, SetLockout,
                ClearFailures, RefuseInactive, history
  <2>3. CASE Age \/ UNCHANGED vars
    BY <2>3 DEF Age, vars, history
  <2> QED
    BY <2>1, <2>2, <2>3 DEF Next, Serve, AddressOf
<1>2. Init => NoneLate
  BY DEF Init
<1>3. NoneLate => LimitRefusesLogin
  BY DEF LimitRefusesLogin
<1>4. Spec => []TypeOK
  BY TypeCorrect
<1>5. Spec => []LimitLocks
  BY LimitAlwaysLocks
<1> QED
  BY <1>1, <1>2, <1>3, <1>4, <1>5, PTL DEF Spec

-------------------------------------------------------------------------------
(* Late guesses.  A request that may still count a failure of k without    *)
(* finding out first whether k is locked.                                  *)

Admits(r, k) ==
  \/ r.at \in {"check", "password"} /\ r.account = k
  \/ r.at = "password" /\ r.address = k
  \/ r.at = "count" /\ r.key = k
  \/ r.at \in {"expire", "lock"} /\ r.key # k /\ r.address = k

Admitted(k) == {p \in Requests : Admits(logins[p], k)}

GuessesOf(k) ==
  IF Locked(k) THEN extra[k] + Cardinality(Admitted(k)) <= Cardinality(Requests) - 1
  ELSE extra[k] = 0

GuessesBounded == \A k \in Keys : GuessesOf(k)

LEMMA Counting ==
  ASSUME NEW L, NEW M, L \subseteq M, M \subseteq Requests
  PROVE  /\ IsFiniteSet(L) /\ IsFiniteSet(M)
         /\ Cardinality(L) \in Nat /\ Cardinality(M) \in Nat
         /\ Cardinality(L) <= Cardinality(M)
<1>1. IsFiniteSet(M)
  BY LockoutAssumption, FS_Subset
<1> QED
  BY <1>1, FS_Subset, FS_CardinalityType

(* The account's key comes first, then the address's.                      *)
InOrder(r) ==
  /\ r.at = "check" => r.key = r.address /\ r.address # NoAddress
  /\ r.at = "password" => r.key = r.account
  /\ r.at = "count" => r.key = r.address
  /\ r.at \in {"expire", "lock"} => r.key \in {r.account, r.address}

KeysInOrder == \A p \in Requests : InOrder(logins[p])

(* The request goes from r to a state in which it has only the address's   *)
(* key to count, and only if r is at the account's.                        *)
Advances(p, r) ==
  /\ \A q \in Requests \ {p} : logins'[q] = logins[q]
  /\ InOrder(logins'[p])
  /\ \A k \in Keys : Admits(logins'[p], k) => k = r.address /\ k # r.key

LEMMA FinishAdvances ==
  ASSUME TypeOK, NEW p \in Requests, NEW r, Finish(p)
  PROVE  Advances(p, r)
<1>1. logins'[p] = Idle /\ \A q \in Requests \ {p} : logins'[q] = logins[q]
  BY DEF Finish, TypeOK
<1> QED
  BY <1>1 DEF Advances, InOrder, Admits, Idle

LEMMA AtAdvances ==
  ASSUME TypeOK, NEW p \in Requests, NEW r, r.key \in {r.account, r.address},
         NEW n, NEW place \in {"expire", "lock"},
         logins' = [logins EXCEPT ![p] = At(place, r, n)]
  PROVE  Advances(p, r)
<1>1. /\ logins'[p] = At(place, r, n)
      /\ \A q \in Requests \ {p} : logins'[q] = logins[q]
  BY DEF TypeOK
<1>2. /\ logins'[p].at \in {"expire", "lock"} /\ logins'[p].account = r.account
      /\ logins'[p].address = r.address /\ logins'[p].key = r.key
  BY <1>1 DEF At
<1> QED
  BY <1>1, <1>2 DEF Advances, InOrder, Admits

LEMMA NextKeyAdvances ==
  ASSUME TypeOK, NEW p \in Requests, NEW r, NextKey(p, r)
  PROVE  Advances(p, r)
<1>1. CASE LastKey(r)
  BY <1>1, FinishAdvances DEF NextKey
<1>2. CASE ~LastKey(r)
  <2>1. /\ logins'[p].at = "count" /\ logins'[p].account = r.account
        /\ logins'[p].address = r.address /\ logins'[p].key = r.address
        /\ \A q \in Requests \ {p} : logins'[q] = logins[q]
    BY <1>2 DEF NextKey, Goto, TypeOK
  <2>2. r.key # r.address
    BY <1>2 DEF LastKey
  <2> QED
    BY <2>1, <2>2 DEF Advances, InOrder, Admits
<1> QED
  BY <1>1, <1>2

LEMMA AfterExpireAdvances ==
  ASSUME TypeOK, NEW p \in Requests, NEW r, r.key \in {r.account, r.address},
         NEW n, AfterExpire(p, r, n)
  PROVE  Advances(p, r)
<1>1. CASE ReachesLimit(n)
  BY <1>1, AtAdvances DEF AfterExpire
<1>2. CASE ~ReachesLimit(n)
  BY <1>2, NextKeyAdvances DEF AfterExpire
<1> QED
  BY <1>1, <1>2

(* A check admits the request to the key it looked at, if that is not      *)
(* locked; to the account's key it has been admitted before the address's. *)
Admitting(p, r) ==
  /\ \A q \in Requests \ {p} : logins'[q] = logins[q]
  /\ InOrder(logins'[p])
  /\ logins'[p].at \notin {"expire", "lock"}
  /\ \A k \in Keys :
       Admits(logins'[p], k) =>
         (k = r.key /\ ~Locked(k)) \/ (k = r.account /\ k # r.key)

LEMMA CheckAdmits ==
  ASSUME TypeOK, NEW p \in Requests, NEW r,
         r.account \in Accounts, r.address \in AddressOf,
         r.key = r.account \/ (r.key = r.address /\ r.address # NoAddress),
         Check(p, r)
  PROVE  Admitting(p, r)
<1>1. /\ r.account \in Keys /\ r.account # r.address /\ NoAddress \notin Keys
  BY LockoutAssumption DEF Keys, AddressOf
<1>2. CASE Locked(r.key)
  <2>1. logins'[p] = Idle /\ \A q \in Requests \ {p} : logins'[q] = logins[q]
    BY <1>2 DEF Check, Exists, Finish, TypeOK
  <2> QED
    BY <2>1 DEF Admitting, InOrder, Admits, Idle
<1>3. CASE ~Locked(r.key) /\ LastKey(r)
  <2>1. /\ logins'[p].at = "password" /\ logins'[p].account = r.account
        /\ logins'[p].address = r.address /\ logins'[p].key = r.account
        /\ \A q \in Requests \ {p} : logins'[q] = logins[q]
    BY <1>3 DEF Check, Exists, Goto, TypeOK
  <2>2. ASSUME NEW k \in Keys, Admits(logins'[p], k)
        PROVE  (k = r.key /\ ~Locked(k)) \/ (k = r.account /\ k # r.key)
    <3>1. k = r.account \/ k = r.address
      BY <2>1, <2>2 DEF Admits
    <3>2. CASE r.key = r.account
      <4>1. r.address = NoAddress
        BY <1>1, <1>3, <3>2 DEF LastKey
      <4> QED
        BY <1>1, <1>3, <3>1, <3>2, <4>1
    <3>3. CASE r.key = r.address
      BY <1>1, <1>3, <3>1, <3>3
    <3> QED
      BY <3>2, <3>3
  <2> QED
    BY <2>1, <2>2 DEF Admitting, InOrder
<1>4. CASE ~Locked(r.key) /\ ~LastKey(r)
  <2>1. /\ logins'[p].at = "check" /\ logins'[p].account = r.account
        /\ logins'[p].address = r.address /\ logins'[p].key = r.address
        /\ \A q \in Requests \ {p} : logins'[q] = logins[q]
    BY <1>4 DEF Check, Exists, Goto, TypeOK
  <2>2. r.key = r.account /\ r.address # NoAddress
    BY <1>4 DEF LastKey
  <2>3. \A k \in Keys : Admits(logins'[p], k) => k = r.key /\ ~Locked(k)
    BY <1>4, <2>1, <2>2 DEF Admits
  <2> QED
    BY <2>1, <2>2, <2>3 DEF Admitting, InOrder
<1> QED
  BY <1>2, <1>3, <1>4

(* What each step does to the requests, the lockouts and the failures that *)
(* are counted while they stand.                                           *)
Lifts ==
  \A k \in Keys : \/ lockouts'[k] = lockouts[k] /\ extra'[k] = extra[k]
                  \/ lockouts'[k] = 0 /\ extra'[k] = 0

Narrows(p) ==
  /\ Advances(p, logins[p])
  /\ \A k \in Keys : Admits(logins'[p], k) => Admits(logins[p], k)

LEMMA AdvancesNarrows ==
  ASSUME KeysInOrder, NEW p \in Requests, Advances(p, logins[p]),
         logins[p].at \in {"password", "count", "expire", "lock"}
  PROVE  Narrows(p)
<1> SUFFICES ASSUME NEW k \in Keys, Admits(logins'[p], k)
             PROVE  Admits(logins[p], k)
  BY DEF Narrows
<1>1. k = logins[p].address /\ k # logins[p].key
  BY DEF Advances
<1>2. logins[p].at = "count" => logins[p].key = logins[p].address
  BY DEF KeysInOrder, InOrder
<1> QED
  BY <1>1, <1>2 DEF Admits

LEMMA NextAdvances ==
  ASSUME TypeOK, KeysInOrder, GuessesBounded, [FaultyNext]_vars
  PROVE  \/ UNCHANGED logins /\ (Age \/ UNCHANGED vars)
         \/ \E p \in Requests, a \in Accounts, i \in AddressOf :
              /\ Admitting(p, [account |-> a, address |-> i, key |-> a])
              /\ UNCHANGED <<lockouts, extra>>
         \/ \E p \in Requests :
              /\ Admitting(p, logins[p])
              /\ logins[p].at = "check"
              /\ UNCHANGED <<lockouts, extra>>
         \/ \E p \in Requests :
              /\ Narrows(p)
              /\ CountFailure(p) \/ SetLockout(p) \/ Lifts
<1>1. ASSUME NEW p \in Requests, NEW a \in Accounts, NEW i \in AddressOf, Arrive(p, a, i)
      PROVE  /\ Admitting(p, [account |-> a, address |-> i, key |-> a])
             /\ UNCHANGED <<lockouts, extra>>
  BY <1>1, CheckAdmits DEF Arrive, Check
<1>2. ASSUME NEW p \in Requests, Continue(p)
      PROVE  \/ /\ Admitting(p, logins[p])
                /\ logins[p].at = "check"
                /\ UNCHANGED <<lockouts, extra>>
             \/ /\ Narrows(p)
                /\ CountFailure(p) \/ SetLockout(p) \/ Lifts
  <2> DEFINE r == logins[p]
  <2>1. r \in LoginStates /\ InOrder(r)
    BY DEF TypeOK, KeysInOrder
  <2>2. CASE CheckNext(p)
    <3>1. /\ r.account \in Accounts /\ r.address \in AddressOf
          /\ r.key = r.address /\ r.address # NoAddress
      BY <2>1, <2>2, LoginFields DEF CheckNext, InOrder
    <3> QED
      BY <2>2, <3>1, CheckAdmits DEF CheckNext, Check, history
  <2>3. CASE CountFailure(p)
    <3>1. r.key \in {r.account, r.address} /\ r.at \in {"password", "count"}
      BY <2>1, <2>3 DEF CountFailure, InOrder
    <3>2. CASE StartsCounter(Incremented(counters[r.key].n))
      BY <2>3, <3>1, <3>2, AtAdvances, AdvancesNarrows DEF CountFailure
    <3>3. CASE ~StartsCounter(Incremented(counters[r.key].n))
      BY <2>3, <3>1, <3>3, AfterExpireAdvances, AdvancesNarrows DEF CountFailure
    <3> QED
      BY <2>3, <3>2, <3>3
  <2>4. CASE ExpireCounter(p)
    <3>1. r.key \in {r.account, r.address} /\ r.at = "expire"
      BY <2>1, <2>4 DEF ExpireCounter, InOrder
    <3>2. Narrows(p)
      BY <2>4, <3>1, AfterExpireAdvances, AdvancesNarrows DEF ExpireCounter
    <3>3. Lifts
      BY <2>4 DEF ExpireCounter, Lifts, history
    <3> QED
      BY <3>2, <3>3
  <2>5. CASE SetLockout(p)
    BY <2>5, NextKeyAdvances, AdvancesNarrows DEF SetLockout
  <2>6. CASE ClearFailures(p)
    <3>1. Narrows(p)
      BY <2>6, FinishAdvances, AdvancesNarrows DEF ClearFailures
    <3>2. ASSUME NEW k \in Keys
          PROVE  \/ lockouts'[k] = lockouts[k] /\ extra'[k] = extra[k]
                 \/ lockouts'[k] = 0 /\ extra'[k] = 0
      <4>1. /\ lockouts'[k] = 0 \/ lockouts'[k] = lockouts[k]
            /\ extra'[k] = IF lockouts'[k] > 0 THEN extra[k] ELSE 0
        BY <2>6 DEF ClearFailures, Forgotten
      <4>2. lockouts[k] \in Nat /\ (~(lockouts[k] > 0) => extra[k] = 0)
        BY LockoutAssumption DEF GuessesBounded, GuessesOf, Locked, TypeOK
      <4> QED
        BY <4>1, <4>2
    <3> QED
      BY <3>1, <3>2 DEF Lifts
  <2>7. CASE RefuseInactive(p)
    <3>1. Narrows(p)
      BY <2>7, FinishAdvances, AdvancesNarrows DEF RefuseInactive
    <3> QED
      BY <2>7, <3>1 DEF RefuseInactive, Lifts, history
  <2> QED
    BY <1>2, <2>2, <2>3, <2>4, <2>5, <2>6, <2>7 DEF Continue
<1>3. ASSUME NEW p \in Requests, Crash(p)
      PROVE  Narrows(p) /\ Lifts
  <2>1. Advances(p, logins[p])
    BY <1>3, FinishAdvances DEF Crash
  <2>2. logins'[p] = Idle
    BY <1>3 DEF Crash, Finish, TypeOK
  <2>3. \A k \in Keys : ~Admits(logins'[p], k)
    BY <2>2 DEF Admits, Idle
  <2> QED
    BY <1>3, <2>1, <2>3 DEF Crash, Narrows, Lifts, history
<1>4. CASE Age \/ UNCHANGED vars
  BY <1>4 DEF Age, vars
<1> QED
  BY <1>1, <1>2, <1>3, <1>4 DEF FaultyNext, Next, Serve, AddressOf

LEMMA NextInOrder ==
  TypeOK /\ KeysInOrder /\ GuessesBounded /\ [FaultyNext]_vars => KeysInOrder'
<1> SUFFICES ASSUME TypeOK, KeysInOrder, GuessesBounded, [FaultyNext]_vars
             PROVE  KeysInOrder'
  OBVIOUS
<1>1. \/ UNCHANGED logins
      \/ \E p \in Requests : /\ \A q \in Requests \ {p} : logins'[q] = logins[q]
                             /\ InOrder(logins'[p])
  BY NextAdvances DEF Admitting, Narrows, Advances
<1> QED
  BY <1>1 DEF KeysInOrder

LEMMA FewerAdmitted ==
  ASSUME TypeOK, NEW k \in Keys, GuessesOf(k),
         Admitted(k)' \subseteq Admitted(k),
         lockouts'[k] = lockouts[k], extra'[k] = extra[k]
  PROVE  GuessesOf(k)'
<1>1. Admitted(k) \subseteq Requests
  BY DEF Admitted
<1>2. /\ Cardinality(Admitted(k)) \in Nat /\ Cardinality(Admitted(k)') \in Nat
      /\ Cardinality(Admitted(k)') <= Cardinality(Admitted(k))
      /\ Cardinality(Requests) \in Nat
  BY <1>1, Counting, LockoutAssumption, FS_CardinalityType
<1>3. extra[k] \in Nat /\ Locked(k)' = Locked(k)
  BY DEF TypeOK, Locked
<1> QED
  BY <1>2, <1>3 DEF GuessesOf

LEMMA NextGuesses ==
  ASSUME TypeOK, KeysInOrder, GuessesBounded, [FaultyNext]_vars
  PROVE  GuessesBounded'
<1> SUFFICES ASSUME NEW k \in Keys
             PROVE  GuessesOf(k)'
  BY DEF GuessesBounded
<1>0. GuessesOf(k) /\ lockouts[k] \in Nat /\ extra[k] \in Nat
  BY LockoutAssumption DEF GuessesBounded, TypeOK
<1>1. ASSUME NEW p \in Requests, NEW r, Admitting(p, r), UNCHANGED <<lockouts, extra>>,
             r.account = r.key \/ (r = logins[p] /\ r.at = "check")
      PROVE  GuessesOf(k)'
  <2>1. CASE Locked(k)
    <3>1. Admits(logins'[p], k) => Admits(logins[p], k)
      BY <1>1, <2>1 DEF Admitting, Admits
    <3>2. Admitted(k)' \subseteq Admitted(k)
      BY <1>1, <3>1 DEF Admitting, Admitted
    <3> QED
      BY <1>0, <1>1, <3>2, FewerAdmitted
  <2>2. CASE ~Locked(k)
    BY <1>0, <1>1, <2>2 DEF GuessesOf, Locked
  <2> QED
    BY <2>1, <2>2
<1>2. ASSUME NEW p \in Requests, Narrows(p)
      PROVE  Admitted(k)' \subseteq Admitted(k)
  BY <1>2 DEF Narrows, Advances, Admitted
<1>3. ASSUME NEW p \in Requests, Narrows(p), CountFailure(p)
      PROVE  GuessesOf(k)'
  <2>1. /\ logins[p].at \in {"password", "count"} /\ logins[p].key \in Keys
        /\ lockouts' = lockouts
    BY <1>3, LoginFields DEF CountFailure, TypeOK
  <2>2. CASE logins[p].key = k /\ Locked(k)
    <3>1. extra'[k] = extra[k] + 1
      BY <1>3, <2>2 DEF CountFailure, TypeOK
    <3>2. Admits(logins[p], k) /\ ~Admits(logins'[p], k)
      <4>1. logins[p].at = "password" => logins[p].key = logins[p].account
        BY DEF KeysInOrder, InOrder
      <4> QED
        BY <1>3, <2>1, <2>2, <4>1 DEF Narrows, Advances, Admits
    <3>3. Admitted(k)' \subseteq Admitted(k) \ {p} /\ p \in Admitted(k)
      BY <1>2, <1>3, <3>2 DEF Admitted
    <3>4. /\ Cardinality(Admitted(k)) \in Nat /\ Cardinality(Admitted(k)') \in Nat
          /\ Cardinality(Admitted(k)') <= Cardinality(Admitted(k)) - 1
          /\ Cardinality(Requests) \in Nat
      <4>1. Admitted(k) \subseteq Requests /\ Admitted(k) \ {p} \subseteq Requests
        BY DEF Admitted
      <4>2. IsFiniteSet(Admitted(k)) /\ Cardinality(Admitted(k)) \in Nat
        BY <4>1, Counting
      <4>3. Cardinality(Admitted(k) \ {p}) = Cardinality(Admitted(k)) - 1
        BY <3>3, <4>2, FS_RemoveElement
      <4>4. /\ Cardinality(Admitted(k)') \in Nat
            /\ Cardinality(Admitted(k)') <= Cardinality(Admitted(k) \ {p})
        BY <3>3, <4>1, Counting
      <4> QED
        BY <4>2, <4>3, <4>4, LockoutAssumption, FS_CardinalityType
    <3>5. Locked(k)' = Locked(k)
      BY <2>1 DEF Locked
    <3> QED
      BY <1>0, <2>2, <3>1, <3>4, <3>5 DEF GuessesOf
  <2>3. CASE ~(logins[p].key = k /\ Locked(k))
    <3>1. extra'[k] = extra[k]
      BY <1>3, <2>3 DEF CountFailure, TypeOK
    <3> QED
      BY <1>0, <1>2, <1>3, <2>1, <3>1, FewerAdmitted
  <2> QED
    BY <2>2, <2>3
<1>4. ASSUME NEW p \in Requests, Narrows(p), SetLockout(p)
      PROVE  GuessesOf(k)'
  <2>1. /\ logins[p].at = "lock" /\ logins[p].key \in Keys
        /\ logins[p].account \in Accounts /\ logins[p].address \in AddressOf
        /\ extra' = extra
    BY <1>4, LoginFields DEF SetLockout, TypeOK, history
  <2>2. CASE Renamed[logins[p].key] = k /\ ~Locked(k)
    <3>1. lockouts'[k] = Lifetime
      BY <1>4, <2>2 DEF SetLockout, SetFor, TypeOK
    <3>2. ~Admits(logins'[p], k)
      <4>1. SUFFICES ASSUME k = logins[p].address, k # logins[p].key
                     PROVE  FALSE
        BY <1>4 DEF Narrows, Advances
      <4>2. logins[p].key = logins[p].account
        BY <2>1, <4>1 DEF KeysInOrder, InOrder
      <4>3. k \in Accounts
        BY <2>1, <2>2, <4>2, LockoutAssumption
      <4> QED
        BY <2>1, <4>1, <4>3, LockoutAssumption DEF AddressOf, Keys
    <3>3. Admitted(k)' \subseteq Requests \ {p}
      BY <3>2 DEF Admitted
    <3>4. /\ Cardinality(Admitted(k)') \in Nat
          /\ Cardinality(Admitted(k)') <= Cardinality(Requests \ {p})
      BY <3>3, Counting
    <3>5. Cardinality(Requests \ {p}) = Cardinality(Requests) - 1
      BY LockoutAssumption, FS_RemoveElement
    <3>6. Cardinality(Requests) \in Nat /\ Lifetime > 0
      BY LockoutAssumption, FS_CardinalityType
    <3>7. Locked(k)'
      BY <3>1, <3>6 DEF Locked
    <3> QED
      BY <1>0, <2>1, <2>2, <3>4, <3>5, <3>6, <3>7 DEF GuessesOf
  <2>3. CASE Renamed[logins[p].key] = k /\ Locked(k)
    <3>1. Locked(k)'
      BY <1>4, <2>3, LockoutAssumption DEF SetLockout, SetFor, TypeOK, Locked
    <3>2. Admitted(k) \subseteq Requests /\ Admitted(k)' \subseteq Admitted(k)
      BY <1>2, <1>4 DEF Admitted
    <3>3. /\ Cardinality(Admitted(k)) \in Nat /\ Cardinality(Admitted(k)') \in Nat
          /\ Cardinality(Admitted(k)') <= Cardinality(Admitted(k))
          /\ Cardinality(Requests) \in Nat
      BY <3>2, Counting, LockoutAssumption, FS_CardinalityType
    <3> QED
      BY <1>0, <2>1, <2>3, <3>1, <3>3 DEF GuessesOf
  <2>4. CASE Renamed[logins[p].key] # k
    <3>1. lockouts'[k] = lockouts[k]
      BY <1>4, <2>4 DEF SetLockout, TypeOK
    <3> QED
      BY <1>0, <1>2, <1>4, <2>1, <3>1, FewerAdmitted
  <2> QED
    BY <2>2, <2>3, <2>4
<1>5. ASSUME NEW p \in Requests, Narrows(p), Lifts
      PROVE  GuessesOf(k)'
  <2>1. CASE lockouts'[k] = lockouts[k] /\ extra'[k] = extra[k]
    BY <1>0, <1>2, <1>5, <2>1, FewerAdmitted
  <2>2. CASE lockouts'[k] = 0 /\ extra'[k] = 0
    BY <2>2 DEF GuessesOf, Locked
  <2> QED
    BY <1>5, <2>1, <2>2 DEF Lifts
<1>6. ASSUME UNCHANGED logins, Age
      PROVE  GuessesOf(k)'
  <2>1. /\ lockouts'[k] = IF lockouts[k] = 0 THEN 0 ELSE lockouts[k] - 1
        /\ extra'[k] = IF lockouts'[k] > 0 THEN extra[k] ELSE 0
    BY <1>6 DEF Age, AgedLockout, Forgotten
  <2>2. Admitted(k)' = Admitted(k)
    BY <1>6 DEF Admitted
  <2>3. CASE lockouts'[k] > 0
    <3>1. Locked(k) /\ Locked(k)' /\ extra'[k] = extra[k]
      BY <1>0, <2>1, <2>3 DEF Locked
    <3> QED
      BY <1>0, <2>2, <3>1 DEF GuessesOf
  <2>4. CASE ~(lockouts'[k] > 0)
    BY <2>1, <2>4 DEF GuessesOf, Locked
  <2> QED
    BY <2>3, <2>4
<1>7. ASSUME UNCHANGED vars
      PROVE  GuessesOf(k)'
  BY <1>0, <1>7 DEF vars, history, GuessesOf, Locked, Admitted
<1>8. ASSUME NEW p \in Requests, NEW a \in Accounts, NEW i \in AddressOf,
             Admitting(p, [account |-> a, address |-> i, key |-> a]),
             UNCHANGED <<lockouts, extra>>
      PROVE  GuessesOf(k)'
  <2> DEFINE r == [account |-> a, address |-> i, key |-> a]
  <2>1. r.account = r.key
    OBVIOUS
  <2> HIDE DEF r
  <2> QED
    BY <1>1, <1>8, <2>1 DEF r
<1> QED
  BY <1>1, <1>3, <1>4, <1>5, <1>6, <1>7, <1>8, NextAdvances

(* While a lockout stands, the failures still counted for its key are at   *)
(* most as many as the other requests there can be, whether requests die   *)
(* or not: nobody who arrives after it adds to them.                       *)
THEOREM LateGuessesAreBounded == (Spec => []LateGuessBound) /\ (FaultySpec => []LateGuessBound)
<1> DEFINE IInv == KeysInOrder /\ GuessesBounded
<1>1. Init => IInv
  BY DEF Init, KeysInOrder, InOrder, Idle, GuessesBounded, GuessesOf, Locked
<1>2. TypeOK /\ IInv /\ [FaultyNext]_vars => IInv'
  BY NextInOrder, NextGuesses
<1>3. [Next]_vars => [FaultyNext]_vars
  BY DEF FaultyNext
<1>4. TypeOK /\ IInv => LateGuessBound
  <2> SUFFICES ASSUME TypeOK, GuessesBounded, NEW k \in Keys
               PROVE  extra[k] <= Cardinality(Requests) - 1
    BY DEF LateGuessBound
  <2>1. Admitted(k) \subseteq Requests /\ extra[k] \in Nat /\ GuessesOf(k)
    BY DEF Admitted, TypeOK, GuessesBounded
  <2>2. Cardinality(Admitted(k)) \in Nat /\ Cardinality(Requests) \in Nat
    BY <2>1, Counting, LockoutAssumption, FS_CardinalityType
  <2>3. Cardinality(Requests) # 0
    BY LockoutAssumption, FS_EmptySet
  <2> QED
    BY <2>1, <2>2, <2>3 DEF GuessesOf
<1>5. (Spec => []TypeOK) /\ (FaultySpec => []TypeOK)
  BY TypeCorrect
<1>6. Spec => []LateGuessBound
  BY <1>1, <1>2, <1>3, <1>4, <1>5, PTL DEF Spec
<1>7. FaultySpec => []LateGuessBound
  BY <1>1, <1>2, <1>4, <1>5, PTL DEF FaultySpec
<1> QED
  BY <1>6, <1>7
===============================================================================
