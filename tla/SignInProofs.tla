------------------------------ MODULE SignInProofs -----------------------------
(***************************************************************************)
(* Proofs about SignIn, for every set of accounts and calls and every      *)
(* limit of failed logins.                                                 *)
(*                                                                         *)
(* CallFits says which rows a call can have added at each place of its     *)
(* handler and which of them are committed: whole transactions, single     *)
(* refusals or nothing.  SecretsInv and GateInv relate calls in flight to  *)
(* the committed row of mfa_configs, which other calls change; CountInv    *)
(* relates the events they have written to the counters in Redis, which    *)
(* other calls count on and delete.                                        *)
(***************************************************************************)
EXTENDS SignIn, FiniteSetTheorems, TLAPS

(* What a transaction that ends well commits.                              *)
Wholes ==
  {{"mfa.challenge.issued"},
   {"family", "session", "auth.login.success"},
   {"family", "session", "mfa.challenge.success"},
   {"mfa.setup.started"},
   {"config", "mfa.setup.started"},
   {"enable", "mfa.enabled"},
   {"disable", "mfa.disabled"}}

Single(S) == \E refusal \in Refusals : S = {refusal}

RowsFit(r) ==
  \/ /\ r.at \in {"password", "clear", "gate", "count", "lock"}
     /\ r.kind = "login" /\ r.rows = {}
  \/ r.at \in {"user", "code"} /\ r.kind = "challenge" /\ r.rows = {}
  \/ r.at = "issue" /\ r.kind \in {"login", "challenge"} /\ r.rows = {}
  \/ r.at = "session" /\ r.kind \in {"login", "challenge"} /\ r.rows = {"family"}
  \/ r.at = "audit" /\ r.kind \in {"login", "challenge"} /\ r.rows = {"family", "session"}
  \/ r.at = "audit" /\ r.kind = "setup" /\ r.rows \in {{}, {"config"}}
  \/ r.at = "audit" /\ r.kind = "verify" /\ r.rows = {"enable"}
  \/ r.at = "audit" /\ r.kind = "disable" /\ r.rows = {"disable"}
  \/ r.at = "config" /\ r.kind \in {"setup", "verify", "disable"} /\ r.rows = {}
  \/ r.at = "insert" /\ r.kind = "setup" /\ r.rows = {}
  \/ r.at = "return" /\ r.rows \in Wholes
  \/ r.at = "answered" /\ r.rows \in Wholes \cup {{}}
  \/ r.at \in {"refuse", "raise", "refused"} /\ Single(r.rows)
  \/ r.at \in {"raise", "refused"} /\ r.kind = "challenge" /\ r.rows = {}
  \/ r.at = "refused" /\ r.kind \in {"setup", "verify", "disable"} /\ r.rows = {}
  \/ r.at = "dead"

CommittedFit(r, kept) ==
  \/ r.at \in InFlight \ {"raise"} /\ kept = {}
  \/ r.at \in {"raise", "refused", "answered"} /\ kept = r.rows
  \/ r.at = "dead" /\ kept = {}
  \/ r.at = "dead" /\ kept = r.rows /\ Single(r.rows)

CallFits(r, kept) ==
  \/ r = NotYet /\ kept = {}
  \/ r # NotYet /\ RowsFit(r) /\ CommittedFit(r, kept)

CallsInv == \A p \in Calls : CallFits(calls[p], committed[p])

(* The steps of Refuse do the same, each for its own event.                *)
Refused(p) ==
  /\ calls[p].at = "refuse"
  /\ committed' = [committed EXCEPT ![p] = @ \cup calls[p].rows]
  /\ GoesTo(p, "raise", {})
  /\ UNCHANGED <<mfa, redis, history>>

LEMMA RefusalStep == \A p \in Calls : Refuse(p) => Refused(p)
  BY DEF Refuse, RefuseLocked, RefusePassword, RefuseInactive, RefuseUndecodable,
         RefuseTokenType, RefuseUser, RefuseCode, RefuseVerify, RefuseDisable,
         CommitRefusal, Refused

-------------------------------------------------------------------------------
(* Type correctness.                                                       *)

LEMMA CallFields ==
  ASSUME NEW r \in CallStates, r # NotYet
  PROVE  /\ r.at \in InFlight \cup Ended /\ r.kind \in Kinds /\ r.user \in Accounts
         /\ r.rows \subseteq Rows /\ r.secret \in Calls \cup {NoSecret}
         /\ r = [at |-> r.at, kind |-> r.kind, user |-> r.user, rows |-> r.rows,
                 secret |-> r.secret]
  BY DEF CallStates

LEMMA NotYetIsNowhere ==
  ASSUME NEW r, r.at \in InFlight \cup Ended
  PROVE  r # NotYet
<1>1. NotYet.at = "not yet"
  BY DEF NotYet
<1>2. r.at # "not yet"
  BY DEF InFlight, Ended
<1> QED
  BY <1>1, <1>2

LEMMA MoveStep ==
  ASSUME TypeOK, NEW p \in Calls, NEW place, NEW new, NEW secret, Running(p),
         Shows(p, secret, place, new)
  PROVE  /\ calls[p] \in CallStates /\ calls[p] # NotYet
         /\ calls'[p] = [at |-> place, kind |-> calls[p].kind, user |-> calls[p].user,
                         rows |-> calls[p].rows \cup new, secret |-> secret]
         /\ \A q \in Calls \ {p} : calls'[q] = calls[q]
         /\ place \in InFlight \cup Ended /\ new \subseteq Rows
              /\ secret \in Calls \cup {NoSecret} => calls' \in [Calls -> CallStates]
<1>1. calls[p] \in CallStates /\ calls[p] # NotYet
  BY NotYetIsNowhere DEF TypeOK, Running
<1>2. ASSUME place \in InFlight \cup Ended, new \subseteq Rows, secret \in Calls \cup {NoSecret}
      PROVE  calls' \in [Calls -> CallStates]
  <2>1. [at |-> place, kind |-> calls[p].kind, user |-> calls[p].user,
         rows |-> calls[p].rows \cup new, secret |-> secret] \in CallStates
    BY <1>1, <1>2, CallFields DEF CallStates
  <2> QED
    BY <2>1 DEF TypeOK, Shows
<1> QED
  BY <1>1, <1>2 DEF TypeOK, Shows

LEMMA ArrivalStep ==
  ASSUME TypeOK, NEW p \in Calls, NEW u \in Accounts, NEW kind \in Kinds,
         NEW place \in InFlight, NEW new, new \subseteq Rows,
         Arrives(p, kind, u, place, new)
  PROVE  /\ calls[p] = NotYet
         /\ calls'[p] = [at |-> place, kind |-> kind, user |-> u, rows |-> new,
                         secret |-> NoSecret]
         /\ \A q \in Calls \ {p} : calls'[q] = calls[q]
         /\ calls' \in [Calls -> CallStates]
         /\ ungated' = IF mfa[u].enabled THEN ungated ELSE ungated \cup {p}
         /\ ungated' \subseteq Calls
<1>1. [at |-> place, kind |-> kind, user |-> u, rows |-> new, secret |-> NoSecret] \in CallStates
  BY DEF CallStates
<1> QED
  BY <1>1 DEF Arrives, TypeOK

(* The rows and places that steps name.                                    *)
LEMMA Names ==
  /\ {"password", "count", "lock", "clear", "gate", "user", "code", "config", "insert", "issue", "session",
      "audit", "return", "refuse", "raise"} \subseteq InFlight
  /\ {"answered", "refused", "dead"} \subseteq Ended
  /\ {"family", "session", "config", "enable", "disable", "mfa.challenge.issued"} \subseteq Rows
  /\ Refusals \subseteq Rows
  /\ \A kind \in Kinds : Event(kind) \in Rows
  /\ {"login", "challenge", "setup", "verify", "disable"} = Kinds
  BY DEF InFlight, Ended, Rows, Effects, Successes, Refusals, ChallengeFailures, Kinds, Event

LEMMA RefusalNames ==
  {"auth.login.locked", "auth.login.failure", "auth.login.inactive",
   "challenge.undecodable", "challenge.invalid_token_type", "challenge.invalid_user",
   "challenge.invalid_code", "mfa.verify.failure", "mfa.disable.failure"} = Refusals
  BY DEF Refusals, ChallengeFailures

LEMMA NextTyped == TypeOK /\ [Next]_vars => TypeOK'
<1> SUFFICES ASSUME TypeOK, [Next]_vars
             PROVE  TypeOK'
  OBVIOUS
<1>1. ASSUME NEW p \in Calls, NEW u \in Accounts, Login(p, u)
      PROVE  TypeOK'
  <2>1. PICK place \in InFlight, new \in SUBSET Rows, kind \in Kinds : Arrives(p, kind, u, place, new)
    BY <1>1, Names, RefusalNames DEF Login
  <2> QED
    BY <1>1, <2>1, ArrivalStep DEF Login, TypeOK, database, redis
<1>2. ASSUME NEW p \in Calls, NEW q \in Calls, Challenge(p, q)
      PROVE  TypeOK'
  <2>1. calls[q] # NotYet /\ User(q) \in Accounts
    BY <1>2, NotYetIsNowhere, CallFields, Names DEF Challenge, TypeOK, User
  <2> QED
    <3>1. PICK place \in InFlight, new \in SUBSET Rows, kind \in Kinds :
            Arrives(p, kind, User(q), place, new)
      BY <1>2, Names, RefusalNames DEF Challenge
    <3> QED
      BY <1>2, <2>1, <3>1, ArrivalStep DEF Challenge, TypeOK, database, redis
<1>3. ASSUME NEW p \in Calls, NEW u \in Accounts, NEW kind \in {"setup", "verify", "disable"},
             Enrol(p, u, kind)
      PROVE  TypeOK'
  <2>1. PICK place \in InFlight, new \in SUBSET Rows, k \in Kinds : Arrives(p, k, u, place, new)
    BY <1>3, Names DEF Enrol
  <2> QED
    BY <1>3, <2>1, ArrivalStep DEF Enrol, TypeOK, database, redis
<1>7. ASSUME NEW p \in Calls, NEW u \in Accounts, ChallengeMisused(p, u)
      PROVE  TypeOK'
  <2>1. PICK place \in InFlight, new \in SUBSET Rows, kind \in Kinds : Arrives(p, kind, u, place, new)
    BY <1>7, Names, RefusalNames DEF ChallengeMisused
  <2> QED
    BY <1>7, <2>1, ArrivalStep DEF ChallengeMisused, TypeOK, database, redis
<1>4. ASSUME NEW p \in Calls, Step(p)
      PROVE  TypeOK'
  <2>0. ASSUME Running(p)
        PROVE  /\ User(p) \in Accounts
               /\ calls[p].rows \subseteq Rows
               /\ calls[p].kind \in Kinds
               /\ calls[p].secret \in Calls \cup {NoSecret}
               /\ mfa[User(p)] \in [secret: Calls \cup {NoSecret}, enabled: BOOLEAN]
    BY <2>0, NotYetIsNowhere, CallFields DEF Running, TypeOK, User
  <2>1. CASE AcceptPassword(p) \/ RejectInactive(p) \/ Gate(p) \/ ReadUser(p) \/ CheckCode(p)
              \/ Issue(p) \/ OpenSession(p)
              \/ RecordSuccess(p) \/ Raise(p) \/ Die(p)
    <3>1. Running(p) /\ UNCHANGED <<database, redis, history>>
      BY <2>1, Names DEF AcceptPassword, RejectInactive, Gate, ReadUser, CheckCode, Issue, OpenSession, RecordSuccess,
         Raise, Die, Running
    <3>2. PICK place \in InFlight \cup Ended, new \in SUBSET Rows : GoesTo(p, place, new)
      BY <2>0, <2>1, <3>1, Names, RefusalNames DEF AcceptPassword, RejectInactive, Gate, ReadUser, CheckCode, Issue, OpenSession,
         RecordSuccess, Raise, Die
    <3>3. calls' \in [Calls -> CallStates]
      BY <2>0, <3>1, <3>2, MoveStep DEF GoesTo
    <3> QED
      BY <3>1, <3>3 DEF TypeOK, database, redis, history
  <2>2. CASE RejectPassword(p)
    <3>1. Running(p)
      BY <2>2, Names DEF RejectPassword, Running
    <3>2. calls' \in [Calls -> CallStates]
      <4>1. PICK place \in InFlight \cup Ended, new \in SUBSET Rows : GoesTo(p, place, new)
        BY <2>2, Names, RefusalNames DEF RejectPassword
      <4> QED
        BY <2>0, <3>1, <4>1, MoveStep DEF GoesTo
    <3> QED
      BY <2>0, <2>2, <3>1, <3>2 DEF RejectPassword, TypeOK, database, redis
  <2>7. CASE CountFailure(p)
    <3>1. Running(p)
      BY <2>7, Names DEF CountFailure, Running
    <3>2. calls' \in [Calls -> CallStates]
      <4>1. PICK place \in InFlight \cup Ended, new \in SUBSET Rows : GoesTo(p, place, new)
        BY <2>7, Names, RefusalNames DEF CountFailure
      <4> QED
        BY <2>0, <3>1, <4>1, MoveStep DEF GoesTo
    <3> QED
      BY <2>0, <2>7, <3>1, <3>2 DEF CountFailure, TypeOK, database, history
  <2>8. CASE SetLockout(p)
    <3>1. Running(p)
      BY <2>8, Names DEF SetLockout, Running
    <3>2. calls' \in [Calls -> CallStates]
      <4>1. PICK place \in InFlight \cup Ended, new \in SUBSET Rows : GoesTo(p, place, new)
        BY <2>8, Names, RefusalNames DEF SetLockout
      <4> QED
        BY <2>0, <3>1, <4>1, MoveStep DEF GoesTo
    <3> QED
      BY <2>0, <2>8, <3>1, <3>2 DEF SetLockout, TypeOK, database
  <2>3. CASE ClearFailures(p)
    <3>1. Running(p)
      BY <2>3, Names DEF ClearFailures, Running
    <3>2. calls' \in [Calls -> CallStates]
      <4>1. PICK place \in InFlight \cup Ended, new \in SUBSET Rows : GoesTo(p, place, new)
        BY <2>3, Names, RefusalNames DEF ClearFailures
      <4> QED
        BY <2>0, <3>1, <4>1, MoveStep DEF GoesTo
    <3> QED
      BY <2>0, <2>3, <3>1, <3>2 DEF ClearFailures, TypeOK, CounterDeleted, database
  <2>4. CASE SetupConfig(p) \/ InsertConfig(p) \/ SwitchConfig(p)
    <3>1. Running(p) /\ UNCHANGED <<database, redis, history>>
      BY <2>4, Names DEF SetupConfig, InsertConfig, SwitchConfig, Running
    <3>2. PICK place \in InFlight \cup Ended, new \in SUBSET Rows,
               secret \in Calls \cup {NoSecret} : Shows(p, secret, place, new)
      BY <2>0, <2>4, <3>1, Names, RefusalNames DEF SetupConfig, InsertConfig, SwitchConfig, GoesTo
    <3>3. calls' \in [Calls -> CallStates]
      BY <3>1, <3>2, MoveStep
    <3> QED
      BY <3>1, <3>3 DEF TypeOK, database, redis, history
  <2>5. CASE Return(p)
    <3>1. Running(p)
      BY <2>5, Names DEF Return, Running
    <3>2. calls' \in [Calls -> CallStates]
      <4>1. PICK place \in InFlight \cup Ended, new \in SUBSET Rows : GoesTo(p, place, new)
        BY <2>5, Names, RefusalNames DEF Return
      <4> QED
        BY <2>0, <3>1, <4>1, MoveStep DEF GoesTo
    <3>3. ConfigAfter(p) \in [secret: Calls \cup {NoSecret}, enabled: BOOLEAN]
      BY <2>0, <3>1 DEF ConfigAfter
    <3> QED
      BY <2>0, <2>5, <3>1, <3>2, <3>3 DEF Return, TypeOK, redis
  <2>6. CASE Refused(p)
    <3>1. Running(p)
      BY <2>6, Names DEF Refused, Running
    <3>2. calls' \in [Calls -> CallStates]
      <4>1. PICK place \in InFlight \cup Ended, new \in SUBSET Rows : GoesTo(p, place, new)
        BY <2>6, Names, RefusalNames DEF Refused
      <4> QED
        BY <2>0, <3>1, <4>1, MoveStep DEF GoesTo
    <3> QED
      BY <2>0, <2>6, <3>1, <3>2 DEF Refused, TypeOK, redis, history
  <2> QED
    BY <1>4, <2>1, <2>2, <2>3, <2>4, <2>5, <2>6, <2>7, <2>8, RefusalStep DEF Step
<1>5. ASSUME NEW u \in Accounts, CounterExpires(u) \/ LockoutExpires(u)
      PROVE  TypeOK'
  BY <1>5 DEF CounterExpires, CounterDeleted, LockoutExpires, TypeOK, database, history
<1>6. CASE UNCHANGED vars
  BY <1>6 DEF vars, TypeOK
<1> QED
  BY <1>1, <1>2, <1>3, <1>4, <1>5, <1>6, <1>7 DEF Next

LEMMA InitTyped == Init => TypeOK
  BY SignInAssumption DEF Init, TypeOK, CallStates

(* Every reachable state has the shape TypeOK gives to the tables, the     *)
(* counters and the calls.                                                 *)
THEOREM TypeCorrect == Spec => []TypeOK
  BY InitTyped, NextTyped, PTL DEF Spec

-------------------------------------------------------------------------------
(* What each call has added and committed.                                 *)

LEMMA RunningFits ==
  ASSUME TypeOK, CallsInv, NEW p \in Calls, Running(p)
  PROVE  /\ calls[p] \in CallStates /\ calls[p] # NotYet
         /\ RowsFit(calls[p])
         /\ CommittedFit(calls[p], committed[p])
         /\ calls[p].at # "raise" => committed[p] = {}
<1>1. /\ calls[p] \in CallStates /\ calls[p] # NotYet
      /\ CallFits(calls[p], committed[p])
  BY NotYetIsNowhere DEF TypeOK, Running, CallsInv
<1>2. RowsFit(calls[p]) /\ CommittedFit(calls[p], committed[p])
  BY <1>1 DEF CallFits
<1>3. calls[p].at \notin Ended
  BY DEF Running, InFlight, Ended
<1>4. calls[p].at # "raise" => committed[p] = {}
  BY <1>2, <1>3 DEF CommittedFit, Ended
<1> QED
  BY <1>1, <1>2, <1>4

(* Only the call that moves has to be looked at.                           *)
LEMMA OneCallMoves ==
  ASSUME CallsInv, NEW p \in Calls,
         calls'[p].at \in InFlight \cup Ended,
         \A q \in Calls \ {p} : calls'[q] = calls[q] /\ committed'[q] = committed[q],
         RowsFit(calls'[p]), CommittedFit(calls'[p], committed'[p])
  PROVE  CallsInv'
<1>1. calls'[p] # NotYet
  BY NotYetIsNowhere
<1>2. CallFits(calls'[p], committed'[p])
  BY <1>1 DEF CallFits
<1>3. \A q \in Calls \ {p} : CallFits(calls'[q], committed'[q])
  BY DEF CallsInv, CallFits
<1> QED
  BY <1>2, <1>3 DEF CallsInv

(* A call that goes on and has committed nothing.                          *)
LEMMA GoesOn ==
  ASSUME TypeOK, CallsInv, NEW p \in Calls, Running(p), calls[p].at # "raise",
         calls'[p].at \in InFlight \ {"raise"},
         \A q \in Calls \ {p} : calls'[q] = calls[q],
         committed' = committed, RowsFit(calls'[p])
  PROVE  CallsInv'
<1>1. committed[p] = {}
  BY RunningFits
<1>2. CommittedFit(calls'[p], committed'[p])
  BY <1>1 DEF CommittedFit
<1> QED
  BY <1>2, OneCallMoves

LEMMA Arrivals ==
  ASSUME TypeOK, CallsInv, NEW p \in Calls, NEW u \in Accounts, NEW kind \in Kinds,
         NEW place \in InFlight, NEW new \in SUBSET Rows,
         Arrives(p, kind, u, place, new),
         place = "raise" => new = {},
         committed' = committed,
         RowsFit([at |-> place, kind |-> kind, user |-> u, rows |-> new, secret |-> NoSecret])
  PROVE  CallsInv'
<1>1. /\ calls[p] = NotYet
      /\ calls'[p] = [at |-> place, kind |-> kind, user |-> u, rows |-> new,
                      secret |-> NoSecret]
      /\ \A q \in Calls \ {p} : calls'[q] = calls[q]
  BY ArrivalStep
<1>2. committed[p] = {}
  BY <1>1 DEF CallsInv, CallFits
<1>3. CommittedFit(calls'[p], committed'[p])
  BY <1>1, <1>2 DEF CommittedFit
<1> QED
  BY <1>1, <1>3, OneCallMoves

LEMMA CallsKept == TypeOK /\ CallsInv /\ [Next]_vars => CallsInv'
<1> SUFFICES ASSUME TypeOK, CallsInv, [Next]_vars
             PROVE  CallsInv'
  OBVIOUS
<1>1. ASSUME NEW p \in Calls, NEW u \in Accounts, Login(p, u)
      PROVE  CallsInv'
  <2>1. PICK place \in InFlight \ {"raise"}, new \in SUBSET Rows, kind \in Kinds :
          /\ Arrives(p, kind, u, place, new)
          /\ kind = "login"
          /\ \/ place = "refuse" /\ new = {"auth.login.locked"}
             \/ place = "password" /\ new = {}
    BY <1>1, Names, RefusalNames DEF Login
  <2>2. RowsFit([at |-> place, kind |-> kind, user |-> u, rows |-> new, secret |-> NoSecret])
    BY <2>1 DEF RowsFit, Single, Refusals, ChallengeFailures
  <2> QED
    BY <1>1, <2>1, <2>2, Arrivals DEF Login, database
<1>2. ASSUME NEW p \in Calls, NEW q \in Calls, Challenge(p, q)
      PROVE  CallsInv'
  <2>1. User(q) \in Accounts
    BY <1>2, NotYetIsNowhere, CallFields, Names DEF Challenge, TypeOK, User
  <2>2. PICK place \in InFlight \ {"raise"}, new \in SUBSET Rows, kind \in Kinds :
          /\ Arrives(p, kind, User(q), place, new)
          /\ kind = "challenge"
          /\ \/ place = "refuse" /\ new = {"challenge.undecodable"}
             \/ place = "user" /\ new = {}
    BY <1>2, Names, RefusalNames DEF Challenge
  <2>3. RowsFit([at |-> place, kind |-> kind, user |-> User(q), rows |-> new,
                 secret |-> NoSecret])
    BY <2>2 DEF RowsFit, Single, Refusals, ChallengeFailures
  <2> QED
    BY <1>2, <2>1, <2>2, <2>3, Arrivals DEF Challenge, database
<1>3. ASSUME NEW p \in Calls, NEW u \in Accounts, NEW kind \in {"setup", "verify", "disable"},
             Enrol(p, u, kind)
      PROVE  CallsInv'
  <2>1. PICK place \in InFlight \ {"raise"}, new \in SUBSET Rows, k \in Kinds :
          /\ Arrives(p, k, u, place, new)
          /\ k = kind /\ place = "config" /\ new = {}
    BY <1>3, Names DEF Enrol
  <2>2. RowsFit([at |-> place, kind |-> k, user |-> u, rows |-> new, secret |-> NoSecret])
    BY <2>1 DEF RowsFit
  <2> QED
    BY <1>3, <2>1, <2>2, Arrivals DEF Enrol, database
<1>6. ASSUME NEW p \in Calls, NEW u \in Accounts, ChallengeMisused(p, u)
      PROVE  CallsInv'
  <2>1. PICK place \in InFlight, new \in SUBSET Rows, kind \in Kinds :
          /\ Arrives(p, kind, u, place, new)
          /\ kind = "challenge"
          /\ \/ /\ place = "refuse"
                /\ new \in {{"challenge.undecodable"}, {"challenge.invalid_token_type"}}
             \/ place = "raise" /\ new = {}
    BY <1>6, Names, RefusalNames DEF ChallengeMisused
  <2>2. RowsFit([at |-> place, kind |-> kind, user |-> u, rows |-> new, secret |-> NoSecret])
    BY <2>1 DEF RowsFit, Single, Refusals, ChallengeFailures
  <2> QED
    BY <1>6, <2>1, <2>2, Arrivals DEF ChallengeMisused, database
<1>4. ASSUME NEW p \in Calls, Step(p)
      PROVE  CallsInv'
  <2> DEFINE at == calls[p].at
             new == calls'[p]
  <2>0. ASSUME Running(p)
        PROVE  /\ RowsFit(calls[p])
               /\ CommittedFit(calls[p], committed[p])
               /\ at # "raise" => committed[p] = {}
    BY <2>0, RunningFits
  <2>1. CASE AcceptPassword(p) \/ RejectInactive(p) \/ RejectPassword(p)
    <3>1. /\ Running(p) /\ at = "password" /\ new.kind = calls[p].kind
          /\ \/ new.at \in {"clear", "count"} /\ new.rows = calls[p].rows
             \/ new.at = "refuse" /\ new.rows = calls[p].rows \cup {"auth.login.inactive"}
          /\ \A q \in Calls \ {p} : calls'[q] = calls[q]
          /\ committed' = committed
      BY <2>1 DEF AcceptPassword, RejectInactive, RejectPassword, GoesTo, Shows, TypeOK,
         database, Running, InFlight
    <3>2. calls[p].kind = "login" /\ calls[p].rows = {}
      BY <2>0, <3>1 DEF RowsFit
    <3>3. RowsFit(new) /\ new.at \in InFlight \ {"raise"}
      BY <3>1, <3>2 DEF RowsFit, Single, Refusals, ChallengeFailures, InFlight
    <3> QED
      BY <3>1, <3>3, GoesOn
  <2>2. CASE CountFailure(p) \/ SetLockout(p)
    <3>1. /\ Running(p) /\ at \in {"count", "lock"} /\ new.kind = calls[p].kind
          /\ \/ new.at = "lock" /\ new.rows = calls[p].rows
             \/ new.at = "refuse" /\ new.rows = calls[p].rows \cup {"auth.login.failure"}
          /\ \A q \in Calls \ {p} : calls'[q] = calls[q]
          /\ committed' = committed
      BY <2>2 DEF CountFailure, SetLockout, GoesTo, Shows, TypeOK, database, Running, InFlight
    <3>2. calls[p].kind = "login" /\ calls[p].rows = {}
      BY <2>0, <3>1 DEF RowsFit
    <3>3. RowsFit(new) /\ new.at \in InFlight \ {"raise"}
      BY <3>1, <3>2 DEF RowsFit, Single, Refusals, ChallengeFailures, InFlight
    <3> QED
      BY <3>1, <3>3, GoesOn
  <2>3. CASE ClearFailures(p) \/ Gate(p) \/ ReadUser(p) \/ CheckCode(p) \/ Issue(p)
              \/ OpenSession(p)
    <3>1. /\ Running(p) /\ at \in {"clear", "gate", "user", "code", "issue", "session"}
          /\ new.kind = calls[p].kind
          /\ at = "clear" => new.at = "gate" /\ new.rows = calls[p].rows
          /\ at = "gate" =>
               \/ new.at = "issue" /\ new.rows = calls[p].rows
               \/ new.at = "return" /\ new.rows = calls[p].rows \cup {"mfa.challenge.issued"}
          /\ at = "user" =>
               \/ new.at = "code" /\ new.rows = calls[p].rows
               \/ new.at = "refuse" /\ new.rows = calls[p].rows \cup {"challenge.invalid_user"}
          /\ at = "code" =>
               \/ new.at = "issue" /\ new.rows = calls[p].rows
               \/ new.at = "refuse" /\ new.rows = calls[p].rows \cup {"challenge.invalid_code"}
          /\ at = "issue" => new.at = "session" /\ new.rows = calls[p].rows \cup {"family"}
          /\ at = "session" => new.at = "audit" /\ new.rows = calls[p].rows \cup {"session"}
          /\ \A q \in Calls \ {p} : calls'[q] = calls[q]
          /\ committed' = committed
      BY <2>3 DEF ClearFailures, Gate, ReadUser, CheckCode, Issue, OpenSession, GoesTo, Shows, TypeOK,
         database, history, Running, InFlight
    <3>2. RowsFit(new) /\ new.at \in InFlight \ {"raise"}
      BY <2>0, <3>1 DEF RowsFit, Single, Refusals, ChallengeFailures, InFlight, Wholes
    <3> QED
      BY <3>1, <3>2, GoesOn
  <2>4. CASE SetupConfig(p)
    <3>1. /\ Running(p) /\ at = "config" /\ new.kind = "setup"
          /\ new.at \in {"refused", "insert", "audit"} /\ new.rows = calls[p].rows
          /\ \A q \in Calls \ {p} : calls'[q] = calls[q]
          /\ committed' = committed
      BY <2>4 DEF SetupConfig, GoesTo, Shows, TypeOK, database, history, Running, InFlight
    <3>2. new.rows = {}
      BY <2>0, <3>1 DEF RowsFit
    <3>3. RowsFit(new) /\ CommittedFit(new, committed'[p])
          /\ new.at \in InFlight \cup Ended
      BY <2>0, <3>1, <3>2 DEF RowsFit, CommittedFit, InFlight, Ended
    <3> QED
      BY <3>1, <3>3, OneCallMoves
  <2>5. CASE InsertConfig(p)
    <3>1. /\ Running(p) /\ at = "insert" /\ new.kind = calls[p].kind
          /\ \/ new.at = "dead" /\ new.rows = calls[p].rows
             \/ new.at = "audit" /\ new.rows = calls[p].rows \cup {"config"}
          /\ \A q \in Calls \ {p} : calls'[q] = calls[q]
          /\ committed' = committed
      BY <2>5 DEF InsertConfig, GoesTo, Shows, TypeOK, database, history, Running, InFlight
    <3>2. calls[p].rows = {} /\ calls[p].kind = "setup"
      BY <2>0, <3>1 DEF RowsFit
    <3>3. RowsFit(new) /\ CommittedFit(new, committed'[p])
          /\ new.at \in InFlight \cup Ended
      BY <2>0, <3>1, <3>2 DEF RowsFit, CommittedFit, InFlight, Ended
    <3> QED
      BY <3>1, <3>3, OneCallMoves
  <2>6. CASE SwitchConfig(p)
    <3>1. /\ Running(p) /\ at = "config" /\ new.kind = calls[p].kind
          /\ calls[p].kind \in {"verify", "disable"}
          /\ \/ new.at \in {"refused", "answered"} /\ new.rows = calls[p].rows
             \/ /\ new.at = "audit" /\ calls[p].kind = "verify"
                /\ new.rows = calls[p].rows \cup {"enable"}
             \/ /\ new.at = "audit" /\ calls[p].kind = "disable"
                /\ new.rows = calls[p].rows \cup {"disable"}
             \/ new.at = "refuse" /\ new.rows = calls[p].rows \cup {"mfa.verify.failure"}
             \/ new.at = "refuse" /\ new.rows = calls[p].rows \cup {"mfa.disable.failure"}
          /\ \A q \in Calls \ {p} : calls'[q] = calls[q]
          /\ committed' = committed
      BY <2>6 DEF SwitchConfig, GoesTo, Shows, TypeOK, database, history, Running, InFlight
    <3>2. calls[p].rows = {}
      BY <2>0, <3>1 DEF RowsFit
    <3>3. RowsFit(new) /\ CommittedFit(new, committed'[p])
          /\ new.at \in InFlight \cup Ended
      BY <2>0, <3>1, <3>2
         DEF RowsFit, CommittedFit, InFlight, Ended, Single, Refusals, ChallengeFailures
    <3> QED
      BY <3>1, <3>3, OneCallMoves
  <2>7. CASE RecordSuccess(p)
    <3>1. /\ Running(p) /\ at = "audit" /\ new.at = "return"
          /\ new.rows = calls[p].rows \cup {Event(calls[p].kind)}
          /\ \A q \in Calls \ {p} : calls'[q] = calls[q]
          /\ committed' = committed
      BY <2>7 DEF RecordSuccess, GoesTo, Shows, TypeOK, database, history, Running, InFlight
    <3>2. new.rows \in Wholes
      BY <2>0, <3>1 DEF RowsFit, Event, Wholes
    <3>3. RowsFit(new) /\ new.at \in InFlight \ {"raise"}
      BY <3>1, <3>2 DEF RowsFit, InFlight, Wholes
    <3> QED
      BY <3>1, <3>3, GoesOn
  <2>8. CASE Return(p)
    <3>1. /\ Running(p) /\ at = "return" /\ new.at = "answered" /\ new.rows = calls[p].rows
          /\ committed'[p] = committed[p] \cup calls[p].rows
          /\ \A q \in Calls \ {p} : calls'[q] = calls[q] /\ committed'[q] = committed[q]
      BY <2>8 DEF Return, GoesTo, Shows, TypeOK, Running, InFlight
    <3>2. calls[p].rows \in Wholes /\ committed'[p] = calls[p].rows
      BY <2>0, <3>1 DEF RowsFit
    <3>3. RowsFit(new) /\ CommittedFit(new, committed'[p])
          /\ new.at \in Ended
      BY <2>0, <3>1, <3>2 DEF RowsFit, CommittedFit, Ended
    <3> QED
      BY <3>1, <3>3, OneCallMoves
  <2>9. CASE Refused(p)
    <3>1. /\ Running(p) /\ at = "refuse" /\ new.at = "raise" /\ new.rows = calls[p].rows
          /\ committed'[p] = committed[p] \cup calls[p].rows
          /\ \A q \in Calls \ {p} : calls'[q] = calls[q] /\ committed'[q] = committed[q]
      BY <2>9 DEF Refused, GoesTo, Shows, TypeOK, Running, InFlight, history
    <3>2. Single(calls[p].rows) /\ committed'[p] = calls[p].rows
      BY <2>0, <3>1 DEF RowsFit
    <3>3. RowsFit(new) /\ CommittedFit(new, committed'[p])
          /\ new.at \in InFlight
      BY <2>0, <3>1, <3>2 DEF RowsFit, CommittedFit, InFlight
    <3> QED
      BY <3>1, <3>3, OneCallMoves
  <2>10. CASE Raise(p)
    <3>1. /\ Running(p) /\ at = "raise" /\ new.at = "refused" /\ new.rows = calls[p].rows
          /\ new.kind = calls[p].kind
          /\ committed' = committed
          /\ \A q \in Calls \ {p} : calls'[q] = calls[q]
      BY <2>10 DEF Raise, GoesTo, Shows, TypeOK, Running, InFlight, history, database
    <3>2. /\ Single(calls[p].rows) \/ (calls[p].kind = "challenge" /\ calls[p].rows = {})
          /\ committed[p] = calls[p].rows
      BY <2>0, <3>1 DEF RowsFit, CommittedFit
    <3>3. RowsFit(new) /\ CommittedFit(new, committed'[p])
          /\ new.at \in Ended
      BY <2>0, <3>1, <3>2 DEF RowsFit, CommittedFit, Ended
    <3> QED
      BY <3>1, <3>3, OneCallMoves
  <2>11. CASE Die(p)
    <3>1. /\ Running(p) /\ new.at = "dead" /\ new.rows = calls[p].rows
          /\ committed' = committed
          /\ \A q \in Calls \ {p} : calls'[q] = calls[q]
      BY <2>11 DEF Die, GoesTo, Shows, TypeOK, history, database
    <3>2. committed[p] = {} \/ (Single(calls[p].rows) /\ committed[p] = calls[p].rows)
      <4>1. CASE at = "raise"
        BY <2>0, <3>1, <4>1 DEF RowsFit, CommittedFit
      <4>2. CASE at # "raise"
        <5>1. at \in InFlight
          BY <3>1 DEF Running
        <5>2. at \notin {"raise", "refused", "answered", "dead"}
          BY <4>2, <5>1 DEF InFlight
        <5> QED
          BY <2>0, <3>1, <5>2 DEF CommittedFit, RowsFit
      <4> QED
        BY <4>1, <4>2
    <3>3. RowsFit(new) /\ CommittedFit(new, committed'[p])
          /\ new.at \in Ended
      BY <2>0, <3>1, <3>2 DEF RowsFit, CommittedFit, Ended
    <3> QED
      BY <3>1, <3>3, OneCallMoves
  <2> QED
    BY <1>4, <2>1, <2>2, <2>3, <2>4, <2>5, <2>6, <2>7, <2>8, <2>9, <2>10, <2>11, RefusalStep DEF Step
<1>5. CASE UNCHANGED <<calls, committed>>
  BY <1>5 DEF CallsInv
<1> QED
  BY <1>1, <1>2, <1>3, <1>4, <1>5, <1>6
  DEF Next, CounterExpires, LockoutExpires, vars, database

LEMMA CallsStart == Init => CallsInv
  BY DEF Init, CallsInv, CallFits

LEMMA CallsAlways == Spec => [](TypeOK /\ CallsInv)
<1>1. Init => TypeOK /\ CallsInv
  BY InitTyped, CallsStart
<1>2. TypeOK /\ CallsInv /\ [Next]_vars => (TypeOK /\ CallsInv)'
  BY NextTyped, CallsKept
<1> QED
  BY <1>1, <1>2, PTL DEF Spec

(* What a call can have committed, whatever became of it.                  *)
LEMMA CommittedWhole ==
  ASSUME CallsInv, NEW p \in Calls
  PROVE  committed[p] \in Wholes \cup {{}} \/ Single(committed[p])
<1>1. CallFits(calls[p], committed[p])
  BY DEF CallsInv
<1>2. CASE calls[p] = NotYet
  BY <1>1, <1>2 DEF CallFits
<1>3. CASE calls[p] # NotYet
  <2>1. RowsFit(calls[p]) /\ CommittedFit(calls[p], committed[p])
    BY <1>1, <1>3 DEF CallFits
  <2>2. CASE committed[p] = {}
    BY <2>2
  <2>3. CASE committed[p] = calls[p].rows /\ calls[p].at \in {"raise", "refused", "answered"}
    BY <2>1, <2>3 DEF RowsFit
  <2>4. CASE committed[p] = calls[p].rows /\ Single(calls[p].rows)
    BY <2>4
  <2> QED
    BY <2>1, <2>2, <2>3, <2>4 DEF CommittedFit
<1> QED
  BY <1>2, <1>3

(* No call leaves half of its work: family, session and event are          *)
(* committed together or not at all, wherever the call dies                *)
(* (auth_service.py:252-267, mfa_service.py:68-74).                        *)
THEOREM WholeOrNothing == Spec => []NothingHalfDone
<1>1. CallsInv => NothingHalfDone
  <2> SUFFICES ASSUME CallsInv
               PROVE  NothingHalfDone
    OBVIOUS
  <2>1. ASSUME NEW p \in Calls, committed[p] \in Wholes \cup {{}}
        PROVE  /\ committed[p] \cap Refusals = {}
               /\ "family" \in committed[p] <=> "session" \in committed[p]
               /\ "family" \in committed[p] <=> \/ "auth.login.success" \in committed[p]
                                               \/ "mfa.challenge.success" \in committed[p]
               /\ "config" \in committed[p] => "mfa.setup.started" \in committed[p]
               /\ "enable" \in committed[p] <=> "mfa.enabled" \in committed[p]
               /\ "disable" \in committed[p] <=> "mfa.disabled" \in committed[p]
    BY <2>1 DEF Wholes, Refusals, ChallengeFailures
  <2>2. ASSUME NEW p \in Calls, Single(committed[p])
        PROVE  /\ committed[p] \subseteq Refusals
               /\ {"family", "session", "auth.login.success", "mfa.challenge.success", "config",
                   "enable", "mfa.enabled", "disable", "mfa.disabled"} \cap committed[p] = {}
    BY <2>2 DEF Single, Refusals, ChallengeFailures
  <2> QED
    BY <2>1, <2>2, CommittedWhole DEF NothingHalfDone
<1> QED
  BY <1>1, CallsAlways, PTL

(* What a refused call has written to the log is there after the rollback  *)
(* that the exception causes, on every path that refuses, and a refused    *)
(* login has written something (auth_service.py:200, 215, 232).            *)
THEOREM RefusalsLeaveEvents == Spec => []RefusalsAreRecorded
<1>1. CallsInv => RefusalsAreRecorded
  <2> SUFFICES ASSUME CallsInv, NEW p \in Calls, calls[p].at = "refused"
               PROVE  /\ calls[p].rows \subseteq committed[p]
                      /\ calls[p].kind = "login" => committed[p] \cap Refusals # {}
    BY DEF RefusalsAreRecorded
  <2>1. calls[p] # NotYet
    BY NotYetIsNowhere DEF Ended
  <2>2. RowsFit(calls[p]) /\ CommittedFit(calls[p], committed[p])
    BY <2>1 DEF CallsInv, CallFits
  <2>3. committed[p] = calls[p].rows
    BY <2>2 DEF CommittedFit, InFlight
  <2>4. calls[p].kind = "login" => Single(calls[p].rows)
    BY <2>2 DEF RowsFit
  <2> QED
    BY <2>3, <2>4 DEF Single
<1> QED
  BY <1>1, CallsAlways, PTL

-------------------------------------------------------------------------------
(* Calls in flight and the committed row of mfa_configs.                   *)

(* A login that may issue tokens was running while MFA was off.            *)
GateFit(p) ==
  calls[p] # NotYet =>
    /\ Running(p) /\ ~mfa[User(p)].enabled => p \in ungated
    /\ calls[p].kind = "login" /\ (calls[p].at = "issue" \/ "family" \in calls[p].rows)
         => p \in ungated

GateInv == \A p \in Calls : GateFit(p)

(* An uncommitted row of mfa_configs is the only one of its user, and the  *)
(* secret of a setup that has none is the stored one.                      *)
Adds(p) == Running(p) /\ "config" \in calls[p].rows

Shown(p) ==
  /\ calls[p].kind = "setup"
  /\ \/ calls[p].at \in {"audit", "return"} /\ "config" \notin calls[p].rows
     \/ calls[p].at = "answered"

SecretFit(p) ==
  calls[p] # NotYet =>
    /\ Adds(p) => /\ calls[p].secret = p /\ mfa[User(p)].secret = NoSecret
                  /\ \A q \in Calls \ {p} : ~(Adds(q) /\ User(q) = User(p))
    /\ Shown(p) => /\ calls[p].secret = mfa[User(p)].secret
                   /\ mfa[User(p)].secret # NoSecret

SecretsInv == \A p \in Calls : SecretFit(p)

(* A step that touches neither the rows of mfa_configs nor what the two    *)
(* invariants say of its call.                                             *)
Quiet(p) ==
  /\ mfa' = mfa /\ ungated' = ungated
  /\ calls'[p].secret = calls[p].secret
  /\ "config" \in calls'[p].rows <=> "config" \in calls[p].rows
  /\ calls[p].kind = "setup" /\ calls'[p].at \in {"audit", "return", "answered"}
       => calls[p].at = "audit" /\ calls'[p].at = "return"
  /\ calls[p].kind = "login" /\ (calls'[p].at = "issue" \/ "family" \in calls'[p].rows)
       => calls[p].at = "issue" \/ "family" \in calls[p].rows

LEMMA StepMoves ==
  ASSUME TypeOK, CallsInv, NEW p \in Calls, Step(p)
  PROVE  /\ Running(p)
         /\ calls[p] # NotYet /\ calls'[p] # NotYet
         /\ calls[p].kind \in Kinds /\ calls[p].user \in Accounts
         /\ \A q \in Calls \ {p} : calls'[q] = calls[q]
         /\ calls'[p].kind = calls[p].kind /\ calls'[p].user = calls[p].user
         /\ Quiet(p) \/ Gate(p) \/ SetupConfig(p) \/ InsertConfig(p) \/ Return(p)
<1>0. Running(p)
  BY RefusalStep DEF Step, Running, InFlight, AcceptPassword, RejectInactive, RejectPassword,
     CountFailure, SetLockout, ClearFailures, Gate, ReadUser, CheckCode, Issue, OpenSession,
     SetupConfig, InsertConfig, SwitchConfig, RecordSuccess, Return, Refused, Raise, Die
<1>1. /\ calls[p] \in CallStates /\ calls[p] # NotYet /\ RowsFit(calls[p])
      /\ calls[p].kind \in Kinds /\ calls[p].user \in Accounts
  BY <1>0, RunningFits, CallFields
<1>2. PICK place, new, secret :
        place \in InFlight \cup Ended /\ Shows(p, secret, place, new)
  BY Names, RefusalStep DEF Step, AcceptPassword, RejectInactive, RejectPassword, CountFailure,
     SetLockout, ClearFailures, Gate, ReadUser, CheckCode, GoesTo, Issue, OpenSession,
     SetupConfig, InsertConfig, SwitchConfig, RecordSuccess, Return, Refused, Raise, Die
<1>3. /\ calls'[p] = [at |-> place, kind |-> calls[p].kind, user |-> calls[p].user,
                      rows |-> calls[p].rows \cup new, secret |-> secret]
      /\ \A q \in Calls \ {p} : calls'[q] = calls[q]
  BY <1>2 DEF Shows, TypeOK
<1>4. calls'[p].kind = calls[p].kind /\ calls'[p].user = calls[p].user /\ calls'[p] # NotYet
  BY <1>2, <1>3, NotYetIsNowhere
<1>5. ASSUME NEW there, NEW row, GoesTo(p, there, row)
      PROVE  /\ calls'[p].at = there /\ calls'[p].rows = calls[p].rows \cup row
             /\ calls'[p].secret = calls[p].secret
  BY <1>5 DEF GoesTo, Shows, TypeOK
<1>6. CASE \/ AcceptPassword(p) \/ RejectInactive(p) \/ RejectPassword(p)
         \/ CountFailure(p) \/ SetLockout(p) \/ ClearFailures(p)
  <2>1. /\ mfa' = mfa /\ ungated' = ungated
        /\ \/ GoesTo(p, "clear", {}) \/ GoesTo(p, "gate", {}) \/ GoesTo(p, "count", {})
           \/ GoesTo(p, "lock", {})
           \/ GoesTo(p, "refuse", {"auth.login.inactive"})
           \/ GoesTo(p, "refuse", {"auth.login.failure"})
    BY <1>6 DEF AcceptPassword, RejectInactive, RejectPassword, CountFailure, SetLockout,
       ClearFailures, database, history
  <2> QED
    BY <2>1, <1>0, <1>1, <1>3, <1>4, <1>5 DEF Quiet
<1>7. CASE ReadUser(p) \/ CheckCode(p)
  <2>1. /\ mfa' = mfa /\ ungated' = ungated /\ calls[p].at \in {"user", "code"}
        /\ \/ GoesTo(p, "code", {}) \/ GoesTo(p, "issue", {})
           \/ GoesTo(p, "refuse", {"challenge.invalid_user"})
           \/ GoesTo(p, "refuse", {"challenge.invalid_code"})
    BY <1>7 DEF ReadUser, CheckCode, database, history
  <2>2. calls[p].kind = "challenge"
    BY <2>1, <1>1 DEF RowsFit
  <2> QED
    BY <2>1, <2>2, <1>0, <1>1, <1>3, <1>4, <1>5 DEF Quiet
<1>8. CASE Issue(p) \/ OpenSession(p)
  <2>1. /\ mfa' = mfa /\ ungated' = ungated
        /\ \/ calls[p].at = "issue" /\ GoesTo(p, "session", {"family"})
           \/ calls[p].at = "session" /\ GoesTo(p, "audit", {"session"})
    BY <1>8 DEF Issue, OpenSession, database, history
  <2>2. calls[p].kind \in {"login", "challenge"}
    BY <2>1, <1>1 DEF RowsFit
  <2> QED
    BY <2>1, <2>2, <1>0, <1>1, <1>3, <1>4, <1>5 DEF Quiet
<1>9. CASE SwitchConfig(p)
  <2>1. /\ mfa' = mfa /\ ungated' = ungated /\ calls[p].kind \in {"verify", "disable"}
        /\ \/ GoesTo(p, "refused", {}) \/ GoesTo(p, "answered", {})
           \/ GoesTo(p, "audit", {"enable"}) \/ GoesTo(p, "audit", {"disable"})
           \/ GoesTo(p, "refuse", {"mfa.verify.failure"})
           \/ GoesTo(p, "refuse", {"mfa.disable.failure"})
    BY <1>9 DEF SwitchConfig, database, history
  <2> QED
    BY <2>1, <1>0, <1>1, <1>3, <1>4, <1>5 DEF Quiet
<1>10. CASE RecordSuccess(p)
  <2>1. /\ mfa' = mfa /\ ungated' = ungated /\ calls[p].at = "audit"
        /\ GoesTo(p, "return", {Event(calls[p].kind)})
    BY <1>10 DEF RecordSuccess, database, history
  <2>2. Event(calls[p].kind) \notin {"config", "family"}
    BY <1>1 DEF Event, Kinds
  <2> QED
    BY <2>1, <2>2, <1>0, <1>1, <1>3, <1>4, <1>5 DEF Quiet
<1>11. CASE Refused(p) \/ Raise(p) \/ Die(p)
  <2>1. /\ mfa' = mfa /\ ungated' = ungated
        /\ GoesTo(p, "raise", {}) \/ GoesTo(p, "refused", {}) \/ GoesTo(p, "dead", {})
    BY <1>11 DEF Refused, Raise, Die, database, history
  <2> QED
    BY <2>1, <1>0, <1>1, <1>3, <1>4, <1>5 DEF Quiet
<1> QED
  BY <1>0, <1>1, <1>3, <1>4, <1>6, <1>7, <1>8, <1>9, <1>10, <1>11, RefusalStep DEF Step

(* A call that arrives changes nothing of the others.                      *)
LEMMA ArrivalMoves ==
  ASSUME TypeOK, NEW p \in Calls,
         \/ \E u \in Accounts : Login(p, u) \/ ChallengeMisused(p, u)
         \/ \E q \in Calls : Challenge(p, q)
         \/ \E u \in Accounts, kind \in {"setup", "verify", "disable"} : Enrol(p, u, kind)
  PROVE  /\ calls[p] = NotYet /\ mfa' = mfa
         /\ \A q \in Calls \ {p} : calls'[q] = calls[q]
         /\ ~mfa[calls'[p].user].enabled => p \in ungated'
         /\ ungated \subseteq ungated'
         /\ calls'[p].at \in {"password", "refuse", "user", "raise", "config"}
         /\ {"config", "family"} \cap calls'[p].rows = {}
<1>1. PICK u, kind, place, new :
        /\ Arrives(p, kind, u, place, new)
        /\ place \in {"password", "refuse", "user", "raise", "config"}
        /\ {"config", "family"} \cap new = {}
  BY DEF Login, Challenge, ChallengeMisused, Enrol
<1>2. mfa' = mfa
  BY DEF Login, Challenge, ChallengeMisused, Enrol, database
<1>3. calls'[p] = [at |-> place, kind |-> kind, user |-> u, rows |-> new, secret |-> NoSecret]
  BY <1>1 DEF Arrives, TypeOK
<1> QED
  BY <1>1, <1>2, <1>3 DEF Arrives, TypeOK

LEMMA ExpiryMoves ==
  ASSUME NEW u \in Accounts, CounterExpires(u) \/ LockoutExpires(u)
  PROVE  UNCHANGED <<mfa, calls, ungated>>
  BY DEF CounterExpires, LockoutExpires, database, history

LEMMA GateKept == TypeOK /\ CallsInv /\ GateInv /\ [Next]_vars => GateInv'
<1> SUFFICES ASSUME TypeOK, CallsInv, GateInv, [Next]_vars
             PROVE  GateInv'
  OBVIOUS
<1>1. ASSUME NEW p \in Calls,
             \/ \E u \in Accounts : Login(p, u) \/ ChallengeMisused(p, u)
             \/ \E q \in Calls : Challenge(p, q)
             \/ \E u \in Accounts, kind \in {"setup", "verify", "disable"} : Enrol(p, u, kind)
      PROVE  GateInv'
  <2>1. GateFit(p)'
    BY <1>1, ArrivalMoves DEF GateFit, User
  <2>2. \A q \in Calls \ {p} : GateFit(q)'
    BY <1>1, ArrivalMoves DEF GateInv, GateFit, User, Running
  <2> QED
    BY <2>1, <2>2 DEF GateInv
<1>2. ASSUME NEW p \in Calls, Step(p)
      PROVE  GateInv'
  <2>1. /\ Running(p) /\ calls[p] # NotYet
        /\ \A q \in Calls \ {p} : calls'[q] = calls[q]
        /\ calls'[p].kind = calls[p].kind /\ calls'[p].user = calls[p].user
        /\ calls[p].user \in Accounts
        /\ Quiet(p) \/ Gate(p) \/ SetupConfig(p) \/ InsertConfig(p) \/ Return(p)
    BY <1>2, StepMoves
  <2>2. RowsFit(calls[p])
    BY <2>1, RunningFits
  <2>3. GateFit(p)
    BY DEF GateInv
  <2>4. CASE mfa' = mfa /\ ungated' = ungated
    <3>1. \A q \in Calls \ {p} : GateFit(q)'
      BY <2>1, <2>4 DEF GateInv, GateFit, User, Running
    <3>2. \/ ~mfa[User(p)].enabled
          \/ calls[p].kind = "login" /\ (calls'[p].at = "issue" \/ "family" \in calls'[p].rows)
               => calls[p].at = "issue" \/ "family" \in calls[p].rows
      <4>1. CASE Quiet(p)
        BY <4>1 DEF Quiet
      <4>2. CASE Gate(p)
        <5>1. CASE GateClosed(User(p))
          <6>1. calls'[p].at = "return" /\ calls'[p].rows = calls[p].rows \cup {"mfa.challenge.issued"}
            BY <4>2, <5>1 DEF Gate, GoesTo, Shows, TypeOK
          <6> QED
            BY <6>1
        <5>2. CASE ~GateClosed(User(p))
          BY <5>2 DEF GateClosed
        <5> QED
          BY <5>1, <5>2
      <4>3. CASE SetupConfig(p) \/ InsertConfig(p)
        <5>1. calls[p].kind = "setup"
          BY <4>3, <2>2 DEF SetupConfig, InsertConfig, RowsFit
        <5> QED
          BY <5>1
      <4>4. CASE Return(p)
        <5>1. calls'[p].at = "answered" /\ calls'[p].rows = calls[p].rows
          BY <4>4 DEF Return, GoesTo, Shows, TypeOK
        <5> QED
          BY <5>1
      <4> QED
        BY <2>1, <4>1, <4>2, <4>3, <4>4
    <3>3. GateFit(p)'
      BY <2>1, <2>3, <2>4, <3>2 DEF GateFit, User
    <3> QED
      BY <3>1, <3>3 DEF GateInv
  <2>5. CASE Return(p)
    <3>1. /\ calls'[p].at = "answered" /\ calls'[p].rows = calls[p].rows
          /\ calls[p].at = "return"
      BY <2>5 DEF Return, GoesTo, Shows, TypeOK
    <3>2. GateFit(p)'
      BY <2>1, <2>3, <2>5, <3>1 DEF GateFit, Return, Running, InFlight
    <3>3. ASSUME NEW q \in Calls \ {p}
          PROVE  GateFit(q)'
      <4>1. GateFit(q) /\ calls'[q] = calls[q]
        BY <2>1 DEF GateInv
      <4>2. ungated \subseteq ungated'
        BY <2>5 DEF Return
      <4>3. CASE User(q) # User(p)
        <5>1. mfa'[User(q)] = mfa[User(q)]
          BY <2>5, <4>3 DEF Return, TypeOK
        <5> QED
          BY <4>1, <4>2, <5>1 DEF GateFit, User, Running
      <4>4. CASE User(q) = User(p)
        <5>1. mfa'[User(q)] = ConfigAfter(p)
          BY <2>1, <2>5, <4>4 DEF Return, TypeOK, User
        <5>2. Running(q) /\ ~ConfigAfter(p).enabled => q \in ungated'
          BY <2>5, <4>4 DEF Return
        <5> QED
          BY <4>1, <4>2, <5>1, <5>2 DEF GateFit, User, Running
      <4> QED
        BY <4>3, <4>4
    <3> QED
      BY <3>2, <3>3 DEF GateInv
  <2> QED
    BY <2>1, <2>4, <2>5 DEF Quiet, Gate, SetupConfig, InsertConfig, database, history
<1>3. CASE UNCHANGED <<mfa, calls, ungated>>
  BY <1>3 DEF GateInv, GateFit, User, Running
<1> QED
  BY <1>1, <1>2, <1>3, ExpiryMoves DEF Next, vars

LEMMA SecretsKept == TypeOK /\ CallsInv /\ SecretsInv /\ [Next]_vars => SecretsInv'
<1> SUFFICES ASSUME TypeOK, CallsInv, SecretsInv, [Next]_vars
             PROVE  SecretsInv'
  OBVIOUS
<1>1. ASSUME NEW p \in Calls,
             \/ \E u \in Accounts : Login(p, u) \/ ChallengeMisused(p, u)
             \/ \E q \in Calls : Challenge(p, q)
             \/ \E u \in Accounts, kind \in {"setup", "verify", "disable"} : Enrol(p, u, kind)
      PROVE  SecretsInv'
  <2>1. ~Adds(p)' /\ ~Shown(p)'
    BY <1>1, ArrivalMoves DEF Adds, Shown
  <2>2. \A q \in Calls \ {p} : SecretFit(q)'
    BY <1>1, <2>1, ArrivalMoves DEF SecretsInv, SecretFit, Adds, Shown, User, Running
  <2> QED
    BY <2>1, <2>2 DEF SecretsInv, SecretFit
<1>2. ASSUME NEW p \in Calls, Step(p)
      PROVE  SecretsInv'
  <2>1. /\ Running(p) /\ calls[p] # NotYet /\ calls'[p] # NotYet
        /\ \A q \in Calls \ {p} : calls'[q] = calls[q]
        /\ calls'[p].kind = calls[p].kind /\ calls'[p].user = calls[p].user
        /\ calls[p].user \in Accounts
        /\ Quiet(p) \/ Gate(p) \/ SetupConfig(p) \/ InsertConfig(p) \/ Return(p)
    BY <1>2, StepMoves
  <2>2. RowsFit(calls[p])
    BY <2>1, RunningFits
  <2>3. SecretFit(p)
    BY DEF SecretsInv
  <2>4. ASSUME mfa' = mfa, Adds(p)' => Adds(p), calls'[p].secret = calls[p].secret,
               Shown(p)' => Shown(p)
        PROVE  SecretsInv'
    <3>1. \A q \in Calls \ {p} : SecretFit(q)'
      BY <2>1, <2>4 DEF SecretsInv, SecretFit, Adds, Shown, User, Running
    <3>2. SecretFit(p)'
      BY <2>1, <2>3, <2>4 DEF SecretFit, Adds, Shown, User, Running
    <3> QED
      BY <3>1, <3>2 DEF SecretsInv
  <2>5. CASE Quiet(p)
    BY <2>1, <2>4, <2>5 DEF Quiet, Adds, Shown
  <2>6. CASE Gate(p)
    <3>1. /\ calls[p].kind = "login" /\ mfa' = mfa /\ calls[p].rows = {}
          /\ calls'[p].secret = calls[p].secret /\ "config" \notin calls'[p].rows
      BY <2>2, <2>6 DEF Gate, RowsFit, GoesTo, Shows, TypeOK, database
    <3> QED
      BY <2>1, <2>4, <3>1 DEF Adds, Shown
  <2>7. CASE SetupConfig(p)
    <3>1. /\ calls[p].kind = "setup" /\ mfa' = mfa /\ calls[p].rows = {}
          /\ calls'[p].rows = {}
          /\ \/ calls'[p].at \in {"refused", "insert"}
             \/ /\ calls'[p].secret = mfa[User(p)].secret /\ mfa[User(p)].secret # NoSecret
      BY <2>2, <2>7 DEF SetupConfig, RowsFit, GoesTo, Shows, TypeOK, database
    <3>2. \A q \in Calls \ {p} : SecretFit(q)'
      BY <2>1, <3>1 DEF SecretsInv, SecretFit, Adds, Shown, User, Running
    <3>3. SecretFit(p)'
      BY <2>1, <3>1 DEF SecretFit, Adds, Shown, User
    <3> QED
      BY <3>2, <3>3 DEF SecretsInv
  <2>8. CASE InsertConfig(p)
    <3>1. /\ calls[p].at = "insert" /\ calls[p].kind = "setup" /\ calls[p].rows = {}
          /\ mfa' = mfa
      BY <2>2, <2>8 DEF InsertConfig, RowsFit, database
    <3>2. CASE GoesTo(p, "dead", {})
      <4>1. calls'[p].at = "dead" /\ calls'[p].secret = calls[p].secret
        BY <3>2 DEF GoesTo, Shows, TypeOK
      <4> QED
        BY <2>4, <3>1, <4>1 DEF Adds, Shown, Running, InFlight
    <3>3. CASE ~Taken(User(p)) /\ Shows(p, p, "audit", {"config"})
      <4>1. calls'[p].at = "audit" /\ calls'[p].rows = {"config"} /\ calls'[p].secret = p
        BY <3>1, <3>3 DEF Shows, TypeOK
      <4>2. mfa[User(p)].secret = NoSecret
        BY <3>3 DEF Taken
      <4>3. \A q \in Calls \ {p} : ~(Adds(q) /\ User(q) = User(p))
        BY <2>8 DEF InsertConfig, Adds
      <4>4. SecretFit(p)'
        BY <2>1, <3>1, <4>1, <4>2, <4>3 DEF SecretFit, Adds, Shown, User, Running
      <4>5. \A q \in Calls \ {p} : SecretFit(q)'
        BY <2>1, <3>1, <4>3 DEF SecretsInv, SecretFit, Adds, Shown, User, Running
      <4> QED
        BY <4>4, <4>5 DEF SecretsInv
    <3> QED
      BY <2>8, <3>2, <3>3 DEF InsertConfig
  <2>9. CASE Return(p)
    <3>1. /\ calls[p].at = "return" /\ calls'[p].at = "answered"
          /\ calls'[p].rows = calls[p].rows /\ calls'[p].secret = calls[p].secret
      BY <2>9 DEF Return, GoesTo, Shows, TypeOK
    <3>2. /\ mfa'[User(p)] = ConfigAfter(p)
          /\ \A u \in Accounts \ {User(p)} : mfa'[u] = mfa[u]
          /\ mfa[User(p)] \in [secret: Calls \cup {NoSecret}, enabled: BOOLEAN]
      BY <2>1, <2>9 DEF Return, TypeOK, User
    <3>3. "config" \notin calls[p].rows => mfa'[User(p)].secret = mfa[User(p)].secret
      BY <3>2 DEF ConfigAfter
    <3>4. CASE Adds(p)
      <4>1. mfa'[User(p)].secret = p /\ p # NoSecret
        <5>0. "config" \in calls[p].rows /\ {"enable", "disable"} \cap calls[p].rows = {}
          BY <2>2, <3>1, <3>4 DEF RowsFit, Wholes, Adds
        <5>1. ConfigAfter(p) = [secret |-> p, enabled |-> FALSE]
          BY <5>0 DEF ConfigAfter
        <5>2. [secret |-> p, enabled |-> FALSE].secret = p
          OBVIOUS
        <5> QED
          BY <3>2, <5>1, <5>2, SignInAssumption
      <4>2. /\ calls[p].secret = p /\ mfa[User(p)].secret = NoSecret
            /\ \A q \in Calls \ {p} : ~(Adds(q) /\ User(q) = User(p))
        BY <2>1, <2>3, <3>4 DEF SecretFit
      <4>3. SecretFit(p)'
        BY <2>1, <3>1, <4>1, <4>2 DEF SecretFit, Adds, Shown, User, Running, InFlight
      <4>4. ASSUME NEW q \in Calls \ {p}
            PROVE  SecretFit(q)'
        <5>1. SecretFit(q) /\ calls'[q] = calls[q]
          BY <2>1 DEF SecretsInv
        <5>2. CASE calls[q] = NotYet
          BY <5>1, <5>2 DEF SecretFit
        <5>3. CASE calls[q] # NotYet /\ User(q) = User(p)
          BY <4>2, <5>1, <5>3 DEF SecretFit, Adds, Shown, User, Running
        <5>4. CASE calls[q] # NotYet /\ User(q) # User(p)
          <6>1. User(q) \in Accounts
            BY <5>4, CallFields DEF TypeOK, User
          <6>2. mfa'[User(q)] = mfa[User(q)]
            BY <3>2, <5>4, <6>1
          <6>3. ~Adds(p)'
            BY <3>1 DEF Adds, Running, InFlight
          <6>4. \A o \in Calls : Adds(o)' /\ User(o)' = User(q) => Adds(o) /\ User(o) = User(q)
            BY <2>1, <6>3 DEF Adds, User, Running
          <6> QED
            BY <5>1, <5>4, <6>2, <6>4 DEF SecretFit, Adds, Shown, User, Running
        <5> QED
          BY <5>2, <5>3, <5>4
      <4> QED
        BY <4>3, <4>4 DEF SecretsInv
    <3>5. CASE ~Adds(p)
      <4>1. mfa'[User(p)].secret = mfa[User(p)].secret
        BY <2>1, <3>3, <3>5 DEF Adds
      <4>2. calls[p].kind = "setup" => Shown(p)
        BY <2>1, <3>1, <3>5 DEF Adds, Shown
      <4>3. ~Adds(p)'
        BY <3>1 DEF Adds, Running, InFlight
      <4>4. SecretFit(p)'
        BY <2>1, <2>3, <3>1, <4>1, <4>2, <4>3 DEF SecretFit, Shown, User
      <4>5. ASSUME NEW q \in Calls \ {p}
            PROVE  SecretFit(q)'
        <5>1. SecretFit(q) /\ calls'[q] = calls[q]
          BY <2>1 DEF SecretsInv
        <5>2. CASE calls[q] = NotYet
          BY <5>1, <5>2 DEF SecretFit
        <5>3. CASE calls[q] # NotYet
          <6>1. User(q) \in Accounts
            BY <5>3, CallFields DEF TypeOK, User
          <6>2. mfa'[User(q)].secret = mfa[User(q)].secret
            BY <3>2, <4>1, <6>1
          <6>3. \A o \in Calls : Adds(o)' /\ User(o)' = User(q) => Adds(o) /\ User(o) = User(q)
            BY <2>1, <4>3 DEF Adds, User, Running
          <6> QED
            BY <5>1, <5>3, <6>2, <6>3 DEF SecretFit, Adds, Shown, User, Running
        <5> QED
          BY <5>2, <5>3
      <4> QED
        BY <4>4, <4>5 DEF SecretsInv
    <3> QED
      BY <3>4, <3>5
  <2> QED
    BY <2>1, <2>5, <2>6, <2>7, <2>8, <2>9
<1>3. CASE UNCHANGED <<mfa, calls, ungated>>
  BY <1>3 DEF SecretsInv, SecretFit, Adds, Shown, User, Running
<1> QED
  BY <1>1, <1>2, <1>3, ExpiryMoves DEF Next, vars

Inv == TypeOK /\ CallsInv /\ GateInv /\ SecretsInv

(* The inductive invariant.                                                *)
THEOREM Invariant == Spec => []Inv
<1>1. Init => Inv
  BY InitTyped, CallsStart DEF Init, Inv, GateInv, GateFit, SecretsInv, SecretFit
<1>2. Inv /\ [Next]_vars => Inv'
  BY NextTyped, CallsKept, GateKept, SecretsKept DEF Inv
<1> QED
  BY <1>1, <1>2, PTL DEF Spec

(* A login that gets tokens without a challenge was running at a moment    *)
(* when MFA was not enabled, whatever switched it meanwhile                *)
(* (auth_service.py:239).                                                  *)
THEOREM GateIsKept == Spec => []GateHolds
<1>1. Inv => GateHolds
  <2> SUFFICES ASSUME Inv, NEW p \in Calls, calls[p] # NotYet, calls[p].kind = "login",
                      "family" \in committed[p]
               PROVE  p \in ungated
    BY DEF GateHolds
  <2>1. CommittedFit(calls[p], committed[p])
    BY DEF Inv, CallsInv, CallFits
  <2>2. "family" \in calls[p].rows
    BY <2>1 DEF CommittedFit
  <2> QED
    BY <2>2 DEF Inv, GateInv, GateFit
<1> QED
  BY <1>1, Invariant, PTL

(* Every secret that setup_mfa has shown is the stored one, however many   *)
(* setups ran at the same time (mfa_service.py:20-30).                     *)
THEOREM ShownIsStored == Spec => []ShownSecretIsStored
<1>1. Inv => ShownSecretIsStored
  BY DEF Inv, SecretsInv, SecretFit, Shown, ShownSecretIsStored
<1> QED
  BY <1>1, Invariant, PTL

-------------------------------------------------------------------------------
(* The events of failed logins and the counters.  A call whose event is    *)
(* written and whose account's counter has not been deleted since it found *)
(* the password wrong is still counted; and as long as the lockout has not *)
(* been set, fewer calls than the limit are counted and have written their *)
(* event, because the one that reaches the limit writes it after SET.      *)

Logs(p) == calls[p] # NotYet /\ "auth.login.failure" \in calls[p].rows

Logged(u) == {p \in failures[u] : Logs(p)}

TriedFit(p, u) ==
  /\ calls[p] # NotYet /\ calls[p].user = u
  /\ calls[p].at = "lock" \/ Logs(p) => p \in failures[u]

(* Only calls of the account are counted.                                  *)
OwnInv ==
  \A u \in Accounts : \A p \in failures[u] : calls[p] # NotYet /\ calls[p].user = u

CountInv ==
  /\ \A u \in Accounts : \A p \in tried[u] : TriedFit(p, u)
  /\ \A u \in Accounts : u \notin locked => Cardinality(Logged(u)) < MaxFailed

(* A step that neither counts nor writes a failed login.                   *)
Counts(p) == RejectPassword(p) \/ CountFailure(p) \/ SetLockout(p) \/ ClearFailures(p)

LEMMA OtherSteps ==
  ASSUME TypeOK, CallsInv, NEW p \in Calls, Step(p), ~Counts(p)
  PROVE  /\ UNCHANGED <<failures, tried, locked>>
         /\ calls[p] # NotYet /\ calls'[p] # NotYet
         /\ calls'[p].user = calls[p].user /\ calls'[p].at # "lock"
         /\ Logs(p)' <=> Logs(p)
         /\ \A q \in Calls \ {p} : calls'[q] = calls[q]
<1>1. UNCHANGED <<failures, tried, locked>>
  BY RefusalStep DEF Step, Counts, AcceptPassword, RejectInactive, Gate, ReadUser, CheckCode,
     Issue, OpenSession, SetupConfig, InsertConfig, SwitchConfig, RecordSuccess, Return,
     Refused, Raise, Die, redis, history
<1>2. Running(p)
  BY RefusalStep DEF Step, Counts, AcceptPassword, RejectInactive, Gate, ReadUser, CheckCode,
     Issue, OpenSession, SetupConfig, InsertConfig, SwitchConfig, RecordSuccess, Return,
     Refused, Raise, Die, Running, InFlight
<1>3. calls[p] \in CallStates /\ calls[p] # NotYet /\ calls[p].kind \in Kinds
  BY <1>2, RunningFits, CallFields
<1>4. Event(calls[p].kind) # "auth.login.failure"
  BY <1>3 DEF Event, Kinds
<1>5. PICK place, new, secret :
        /\ place \in (InFlight \ {"lock"}) \cup Ended
        /\ "auth.login.failure" \notin new
        /\ Shows(p, secret, place, new)
  BY <1>4, RefusalStep DEF Step, Counts, AcceptPassword, RejectInactive, Gate, ReadUser,
     CheckCode, Issue, OpenSession, SetupConfig, InsertConfig, SwitchConfig, RecordSuccess,
     Return, Refused, Raise, Die, GoesTo, InFlight, Ended
<1>6. /\ calls'[p] = [at |-> place, kind |-> calls[p].kind, user |-> calls[p].user,
                      rows |-> calls[p].rows \cup new, secret |-> secret]
      /\ \A q \in Calls \ {p} : calls'[q] = calls[q]
  BY <1>5 DEF Shows, TypeOK
<1>7. place # "lock"
  BY <1>5 DEF InFlight, Ended
<1>8. calls'[p] # NotYet
  BY <1>5, <1>6, NotYetIsNowhere
<1> QED
  BY <1>1, <1>3, <1>5, <1>6, <1>7, <1>8 DEF Logs

(* Counters are finite, and so is what has been logged of them.            *)
LEMMA CountersFinite ==
  ASSUME TypeOK, NEW u \in Accounts
  PROVE  /\ IsFiniteSet(failures[u]) /\ Cardinality(failures[u]) \in Nat
         /\ Cardinality(Logged(u)) <= Cardinality(failures[u])
<1>1. failures[u] \subseteq Calls /\ Logged(u) \subseteq failures[u]
  BY DEF TypeOK, Logged
<1>2. IsFiniteSet(failures[u])
  BY <1>1, SignInAssumption, FS_Subset
<1> QED
  BY <1>1, <1>2, FS_Subset, FS_CardinalityType

(* One call moves and what it has logged stays as it is.                   *)
LEMMA CountKept ==
  ASSUME CountInv, NEW p \in Calls,
         UNCHANGED <<failures, tried, locked>>,
         \A q \in Calls \ {p} : calls'[q] = calls[q],
         Logs(p)' <=> Logs(p), TypeOK,
         \A u \in Accounts : p \in tried[u] => TriedFit(p, u)'
  PROVE  CountInv'
<1>1. \A q \in Calls : Logs(q)' <=> Logs(q)
  BY DEF Logs
<1>2. \A u \in Accounts : Logged(u)' = Logged(u)
  BY <1>1 DEF Logged, TypeOK
<1>3. ASSUME NEW u \in Accounts, NEW q \in tried[u]
      PROVE  TriedFit(q, u)'
  <2>1. CASE q = p
    BY <1>3, <2>1
  <2>2. CASE q # p
    <3>1. q \in Calls /\ TriedFit(q, u) /\ calls'[q] = calls[q]
      BY <1>3, <2>2 DEF CountInv, TypeOK
    <3> QED
      BY <3>1, <1>1 DEF TriedFit
  <2> QED
    BY <2>1, <2>2
<1> QED
  BY <1>2, <1>3 DEF CountInv

(* A counter is deleted: what is left of the history is empty.             *)
LEMMA DeletedFits ==
  ASSUME TypeOK, CountInv, NEW u \in Accounts, CounterDeleted(u),
         \A q \in Calls : Logs(q)' <=> Logs(q),
         \A v \in Accounts \ {u} : \A q \in tried[v] : TriedFit(q, v)'
  PROVE  CountInv'
<1>1. /\ failures'[u] = {} /\ tried'[u] = {}
      /\ \A v \in Accounts \ {u} : failures'[v] = failures[v] /\ tried'[v] = tried[v]
      /\ locked' = locked \ {u}
  BY DEF CounterDeleted, TypeOK
<1>2. Logged(u)' = {} /\ \A v \in Accounts \ {u} : Logged(v)' = Logged(v)
  BY <1>1 DEF Logged, TypeOK
<1>3. Cardinality(Logged(u)') < MaxFailed
  BY <1>2, FS_EmptySet, SignInAssumption
<1> QED
  BY <1>1, <1>2, <1>3 DEF CountInv

LEMMA OwnKept == TypeOK /\ CallsInv /\ OwnInv /\ [Next]_vars => OwnInv'
<1> SUFFICES ASSUME TypeOK, CallsInv, OwnInv, [Next]_vars
             PROVE  OwnInv'
  OBVIOUS
<1>1. ASSUME NEW p \in Calls,
             \/ \E u \in Accounts : Login(p, u) \/ ChallengeMisused(p, u)
             \/ \E q \in Calls : Challenge(p, q)
             \/ \E u \in Accounts, kind \in {"setup", "verify", "disable"} : Enrol(p, u, kind)
      PROVE  OwnInv'
  <2>1. failures' = failures
    BY <1>1 DEF Login, Challenge, ChallengeMisused, Enrol, redis
  <2>2. calls[p] = NotYet /\ \A q \in Calls \ {p} : calls'[q] = calls[q]
    BY <1>1, ArrivalMoves
  <2> QED
    BY <2>1, <2>2 DEF OwnInv, TypeOK
<1>2. ASSUME NEW p \in Calls, Step(p)
      PROVE  OwnInv'
  <2>1. /\ calls[p] # NotYet /\ calls'[p] # NotYet
        /\ calls'[p].user = calls[p].user /\ calls[p].user \in Accounts
        /\ \A q \in Calls \ {p} : calls'[q] = calls[q]
    BY <1>2, StepMoves
  <2>2. \A u \in Accounts : failures'[u] \subseteq failures[u] \cup {q \in {p} : calls[q].user = u}
    <3>1. CASE CountFailure(p)
      BY <2>1, <3>1 DEF CountFailure, TypeOK, User
    <3>2. CASE ClearFailures(p)
      BY <2>1, <3>2 DEF ClearFailures, CounterDeleted, TypeOK, User
    <3>3. CASE ~CountFailure(p) /\ ~ClearFailures(p)
      <4>1. failures' = failures
        BY <1>2, <3>3, RefusalStep DEF Step, AcceptPassword, RejectInactive, RejectPassword,
           SetLockout, Gate, ReadUser, CheckCode, Issue, OpenSession, SetupConfig,
           InsertConfig, SwitchConfig, RecordSuccess, Return, Refused, Raise, Die, redis
      <4> QED
        BY <4>1
    <3> QED
      BY <3>1, <3>2, <3>3
  <2> QED
    BY <2>1, <2>2 DEF OwnInv, TypeOK
<1>3. ASSUME NEW u \in Accounts, CounterExpires(u)
      PROVE  OwnInv'
  BY <1>3 DEF CounterExpires, CounterDeleted, OwnInv, TypeOK
<1>4. CASE UNCHANGED <<calls, failures>>
  BY <1>4 DEF OwnInv
<1> QED
  BY <1>1, <1>2, <1>3, <1>4 DEF Next, LockoutExpires, vars

LEMMA CountInductive ==
  TypeOK /\ CallsInv /\ OwnInv /\ CountInv /\ [Next]_vars => CountInv'
<1> SUFFICES ASSUME TypeOK, CallsInv, OwnInv, CountInv, [Next]_vars
             PROVE  CountInv'
  OBVIOUS
<1>1. ASSUME NEW p \in Calls,
             \/ \E u \in Accounts :
                  Login(p, u) \/ ChallengeMisused(p, u)
                    \/ \E kind \in {"setup", "verify", "disable"} : Enrol(p, u, kind)
             \/ \E q \in Calls : Challenge(p, q)
      PROVE  CountInv'
  <2>1. UNCHANGED <<failures, tried, locked>>
    BY <1>1 DEF Login, Challenge, ChallengeMisused, Enrol, redis
  <2>2. PICK u, kind, place, new :
          Arrives(p, kind, u, place, new) /\ "auth.login.failure" \notin new
    BY <1>1 DEF Login, Challenge, ChallengeMisused, Enrol
  <2>3. /\ calls[p] = NotYet /\ calls'[p].rows = new
        /\ \A q \in Calls \ {p} : calls'[q] = calls[q]
    BY <2>2 DEF Arrives, TypeOK
  <2>4. Logs(p)' <=> Logs(p)
    BY <2>2, <2>3 DEF Logs
  <2>5. \A v \in Accounts : p \notin tried[v]
    BY <2>3 DEF CountInv, TriedFit
  <2> QED
    BY <2>1, <2>3, <2>4, <2>5, CountKept
<1>2. ASSUME NEW p \in Calls, Step(p)
      PROVE  CountInv'
  <2>u. PICK u \in Accounts : u = calls[p].user
    BY <1>2, StepMoves
  <2>1. CASE ~Counts(p)
    <3>1. /\ UNCHANGED <<failures, tried, locked>>
          /\ calls[p] # NotYet /\ calls'[p] # NotYet
          /\ calls'[p].user = calls[p].user /\ calls'[p].at # "lock"
          /\ Logs(p)' <=> Logs(p)
          /\ \A q \in Calls \ {p} : calls'[q] = calls[q]
      BY <1>2, <2>1, OtherSteps
    <3>2. ASSUME NEW v \in Accounts, p \in tried[v]
          PROVE  TriedFit(p, v)'
      <4>1. TriedFit(p, v)
        BY <3>2 DEF CountInv
      <4> QED
        BY <3>1, <4>1 DEF TriedFit
    <3> QED
      BY <3>1, <3>2, CountKept
  <2>2. ASSUME Counts(p)
        PROVE  /\ Running(p) /\ calls[p] # NotYet
               /\ calls[p].at \in {"password", "count", "lock", "clear"}
               /\ calls[p].rows = {} /\ ~Logs(p)
    <3>1. calls[p].at \in {"password", "count", "lock", "clear"}
      BY <2>2 DEF Counts, RejectPassword, CountFailure, SetLockout, ClearFailures
    <3>2. Running(p)
      BY <3>1 DEF Running, InFlight
    <3>3. calls[p] # NotYet /\ RowsFit(calls[p])
      BY <3>2, RunningFits
    <3>4. calls[p].rows = {}
      BY <3>1, <3>3 DEF RowsFit
    <3> QED
      BY <3>1, <3>2, <3>3, <3>4 DEF Logs
  <2>3. ASSUME NEW place \in InFlight, NEW new, GoesTo(p, place, new), Counts(p)
        PROVE  /\ calls'[p] # NotYet /\ calls'[p].user = u
               /\ calls'[p].at = place /\ calls'[p].rows = new
               /\ Logs(p)' <=> "auth.login.failure" \in new
               /\ \A q \in Calls \ {p} : calls'[q] = calls[q] /\ (Logs(q)' <=> Logs(q))
    <3>1. /\ calls'[p] = [at |-> place, kind |-> calls[p].kind, user |-> u,
                          rows |-> calls[p].rows \cup new, secret |-> calls[p].secret]
          /\ \A q \in Calls \ {p} : calls'[q] = calls[q]
      BY <2>u, <2>3 DEF GoesTo, Shows, TypeOK
    <3>2. calls'[p] # NotYet /\ calls[p].rows = {}
      BY <2>2, <2>3, <3>1, NotYetIsNowhere
    <3> QED
      BY <3>1, <3>2 DEF Logs
  <2>4. CASE RejectPassword(p)
    <3>1. PICK place \in InFlight, new \in SUBSET Rows : place = "count" /\ new = {} /\ GoesTo(p, place, new)
      BY <2>4, Names DEF RejectPassword
    <3>2. /\ calls'[p] # NotYet /\ calls'[p].user = u /\ calls'[p].at = "count"
          /\ ~Logs(p)' /\ ~Logs(p)
          /\ \A q \in Calls \ {p} : calls'[q] = calls[q]
          /\ \A q \in Calls : Logs(q)' <=> Logs(q)
      BY <2>2, <2>3, <2>4, <3>1 DEF Counts
    <3>3. /\ UNCHANGED <<failures, locked>>
          /\ \A v \in Accounts : tried'[v] \subseteq tried[v] \cup {p}
          /\ \A v \in Accounts \ {u} : tried'[v] = tried[v]
      BY <2>u, <2>4 DEF RejectPassword, redis, TypeOK, User
    <3>4. \A v \in Accounts : Logged(v)' = Logged(v)
      BY <3>2, <3>3 DEF Logged, TypeOK
    <3>5. ASSUME NEW v \in Accounts, NEW q \in tried'[v]
          PROVE  TriedFit(q, v)'
      <4>1. CASE q = p
        <5>1. v = u
          <6>1. CASE p \in tried[v]
            BY <2>u, <6>1 DEF CountInv, TriedFit
          <6>2. CASE p \notin tried[v]
            BY <3>3, <3>5, <4>1, <6>2
          <6> QED
            BY <6>1, <6>2
        <5> QED
          BY <3>2, <4>1, <5>1 DEF TriedFit
      <4>2. CASE q # p
        <5>1. q \in tried[v] /\ q \in Calls
          BY <3>3, <3>5, <4>2 DEF TypeOK
        <5> QED
          BY <3>2, <3>3, <4>2, <5>1 DEF CountInv, TriedFit
      <4> QED
        BY <4>1, <4>2
    <3> QED
      BY <3>3, <3>4, <3>5 DEF CountInv
  <2>5. CASE CountFailure(p)
    <3> DEFINE counted == failures[u] \cup {p}
    <3>0. ~Logs(p)
      BY <2>2, <2>5 DEF Counts
    <3>1. /\ UNCHANGED <<tried, locked>>
          /\ failures'[u] = counted
          /\ \A v \in Accounts \ {u} : failures'[v] = failures[v]
      BY <2>u, <2>5 DEF CountFailure, history, TypeOK, User
    <3>2. PICK place \in InFlight, new \in SUBSET Rows :
            /\ GoesTo(p, place, new)
            /\ \/ place = "lock" /\ new = {}
               \/ /\ place = "refuse" /\ new = {"auth.login.failure"}
                  /\ ~(Cardinality(counted) >= MaxFailed)
      BY <2>u, <2>5, Names, RefusalNames DEF CountFailure, User
    <3>3. /\ calls'[p] # NotYet /\ calls'[p].user = u
          /\ Logs(p)' <=> "auth.login.failure" \in new
          /\ \A q \in Calls \ {p} : calls'[q] = calls[q] /\ (Logs(q)' <=> Logs(q))
      BY <2>3, <2>5, <3>2 DEF Counts
    <3>4. ASSUME NEW v \in Accounts, NEW q \in tried[v]
          PROVE  TriedFit(q, v)'
      <4>1. TriedFit(q, v) /\ q \in Calls
        BY <3>4 DEF CountInv, TypeOK
      <4>2. CASE q = p
        <5>1. v = u /\ p \in failures'[u]
          BY <2>u, <3>1, <4>1, <4>2 DEF TriedFit
        <5> QED
          BY <3>3, <4>2, <5>1 DEF TriedFit
      <4>3. CASE q # p
        <5>1. failures[v] \subseteq failures'[v]
          BY <3>1
        <5> QED
          BY <3>3, <4>1, <4>3, <5>1 DEF TriedFit
      <4> QED
        BY <4>2, <4>3
    <3>5. \A v \in Accounts \ {u} : Logged(v)' = Logged(v)
      <4>1. ASSUME NEW v \in Accounts \ {u}
            PROVE  Logged(v)' = Logged(v)
        <5>1. p \notin failures[v]
          BY <2>u DEF OwnInv
        <5> QED
          BY <3>1, <3>3, <5>1 DEF Logged, TypeOK
      <4> QED
        BY <4>1
    <3>6. u \notin locked => Cardinality(Logged(u)') < MaxFailed
      <4>1. CASE new = {}
        <5>1. Logged(u)' = Logged(u)
          BY <3>0, <3>1, <3>3, <4>1 DEF Logged, TypeOK
        <5> QED
          BY <5>1 DEF CountInv
      <4>2. CASE new # {}
        <5>1. Logged(u)' \subseteq counted
          BY <3>1 DEF Logged
        <5>2. IsFiniteSet(counted)
          BY CountersFinite, FS_AddElement
        <5>3. Cardinality(Logged(u)') <= Cardinality(counted)
          BY <5>1, <5>2, FS_Subset
        <5>4. Cardinality(counted) \in Nat /\ Cardinality(Logged(u)') \in Nat
          BY <5>1, <5>2, FS_Subset, FS_CardinalityType
        <5>5. ~(Cardinality(counted) >= MaxFailed)
          BY <3>2, <4>2
        <5> QED
          BY <5>3, <5>4, <5>5, SignInAssumption
      <4> QED
        BY <4>1, <4>2
    <3> QED
      BY <3>1, <3>4, <3>5, <3>6 DEF CountInv
  <2>6. CASE SetLockout(p)
    <3>0. calls[p].at = "lock"
      BY <2>6 DEF SetLockout
    <3>1. UNCHANGED <<failures, tried>> /\ locked' = locked \cup {u}
      BY <2>u, <2>6 DEF SetLockout, User
    <3>2. PICK place \in InFlight, new \in SUBSET Rows : GoesTo(p, place, new)
      BY <2>6, Names, RefusalNames DEF SetLockout
    <3>3. /\ calls'[p] # NotYet /\ calls'[p].user = u
          /\ \A q \in Calls \ {p} : calls'[q] = calls[q] /\ (Logs(q)' <=> Logs(q))
      BY <2>3, <2>6, <3>2 DEF Counts
    <3>4. ASSUME NEW v \in Accounts, NEW q \in tried[v]
          PROVE  TriedFit(q, v)'
      <4>1. TriedFit(q, v) /\ q \in Calls
        BY <3>4 DEF CountInv, TypeOK
      <4>2. CASE q = p
        <5>1. v = u /\ p \in failures'[u]
          BY <2>u, <3>0, <3>1, <4>1, <4>2 DEF TriedFit
        <5> QED
          BY <3>3, <4>2, <5>1 DEF TriedFit
      <4>3. CASE q # p
        BY <3>1, <3>3, <4>1, <4>3 DEF TriedFit
      <4> QED
        BY <4>2, <4>3
    <3>5. \A v \in Accounts \ {u} : Logged(v)' = Logged(v)
      <4>1. ASSUME NEW v \in Accounts \ {u}
            PROVE  Logged(v)' = Logged(v)
        <5>1. p \notin failures[v]
          BY <2>u DEF OwnInv
        <5> QED
          BY <3>1, <3>3, <5>1 DEF Logged, TypeOK
      <4> QED
        BY <4>1
    <3> QED
      BY <3>1, <3>4, <3>5 DEF CountInv
  <2>7. CASE ClearFailures(p)
    <3>0. ~Logs(p)
      BY <2>2, <2>7 DEF Counts
    <3>1. PICK place \in InFlight, new \in SUBSET Rows : place = "gate" /\ new = {} /\ GoesTo(p, place, new)
      BY <2>7, Names DEF ClearFailures
    <3>2. /\ calls'[p] # NotYet /\ calls'[p].user = u /\ calls'[p].at = "gate" /\ ~Logs(p)'
          /\ \A q \in Calls \ {p} : calls'[q] = calls[q]
          /\ \A q \in Calls : Logs(q)' <=> Logs(q)
      BY <2>3, <2>7, <3>0, <3>1 DEF Counts
    <3>3. CounterDeleted(u)
      BY <2>u, <2>7 DEF ClearFailures, User
    <3>4. ASSUME NEW v \in Accounts \ {u}, NEW q \in tried[v]
          PROVE  TriedFit(q, v)'
      <4>1. TriedFit(q, v) /\ q \in Calls
        BY <3>4 DEF CountInv, TypeOK
      <4>2. failures'[v] = failures[v]
        BY <3>3 DEF CounterDeleted, TypeOK
      <4>3. q # p
        BY <2>u, <3>4, <4>1 DEF TriedFit
      <4> QED
        BY <3>2, <4>1, <4>2, <4>3 DEF TriedFit
    <3> QED
      BY <3>2, <3>3, <3>4, DeletedFits
  <2> QED
    BY <2>1, <2>4, <2>5, <2>6, <2>7 DEF Counts
<1>3. ASSUME NEW u \in Accounts, CounterExpires(u)
      PROVE  CountInv'
  <2>1. UNCHANGED calls /\ CounterDeleted(u)
    BY <1>3 DEF CounterExpires
  <2>2. \A q \in Calls : Logs(q)' <=> Logs(q)
    BY <2>1 DEF Logs
  <2>3. ASSUME NEW v \in Accounts \ {u}, NEW q \in tried[v]
        PROVE  TriedFit(q, v)'
    <3>1. TriedFit(q, v) /\ q \in Calls /\ failures'[v] = failures[v]
      BY <2>1, <2>3 DEF CountInv, TypeOK, CounterDeleted
    <3> QED
      BY <2>1, <2>2, <3>1 DEF TriedFit
  <2> QED
    BY <2>1, <2>2, <2>3, DeletedFits
<1>4. CASE UNCHANGED <<calls, failures, tried, locked>>
  BY <1>4 DEF CountInv, TriedFit, Logged, Logs
<1> QED
  BY <1>1, <1>2, <1>3, <1>4 DEF Next, LockoutExpires, vars, history

(* The log never runs ahead of the lockout: once it shows as many failed   *)
(* logins of an account as the limit since its counter was last deleted,   *)
(* the account has been locked, because the event is written after INCR    *)
(* and SET (auth_service.py:205-215).                                      *)
THEOREM LogNeverRunsAhead == Spec => []LoggedFailuresLock
<1>1. Init => OwnInv /\ CountInv
  <2> SUFFICES ASSUME Init
               PROVE  OwnInv /\ CountInv
    OBVIOUS
  <2>1. \A u \in Accounts : failures[u] = {} /\ tried[u] = {} /\ Logged(u) = {}
    BY DEF Init, Logged
  <2> QED
    BY <2>1, FS_EmptySet, SignInAssumption DEF OwnInv, CountInv
<1>2. TypeOK /\ CallsInv /\ CountInv => LoggedFailuresLock
  <2> SUFFICES ASSUME TypeOK, CallsInv, CountInv, NEW u \in Accounts, u \notin locked
               PROVE  ~(Cardinality({p \in tried[u] : "auth.login.failure" \in committed[p]})
                          >= MaxFailed)
    BY DEF LoggedFailuresLock
  <2> DEFINE written == {p \in tried[u] : "auth.login.failure" \in committed[p]}
  <2>1. ASSUME NEW p \in written
        PROVE  p \in Logged(u)
    <3>1. /\ p \in Calls /\ TriedFit(p, u) /\ CallFits(calls[p], committed[p])
          /\ "auth.login.failure" \in committed[p]
      BY DEF TypeOK, CountInv, CallsInv
    <3>2. calls[p] # NotYet /\ "auth.login.failure" \in calls[p].rows
      BY <3>1 DEF CallFits, CommittedFit
    <3> QED
      BY <3>1, <3>2 DEF TriedFit, Logs, Logged
  <2>2. IsFiniteSet(Logged(u)) /\ written \subseteq Logged(u)
    <3>1. IsFiniteSet(failures[u]) /\ Logged(u) \subseteq failures[u]
      BY CountersFinite DEF Logged
    <3> QED
      BY <2>1, <3>1, FS_Subset
  <2>3. /\ Cardinality(written) <= Cardinality(Logged(u))
        /\ Cardinality(written) \in Nat /\ Cardinality(Logged(u)) \in Nat
    BY <2>2, FS_Subset, FS_CardinalityType
  <2>4. Cardinality(Logged(u)) < MaxFailed
    BY DEF CountInv
  <2> QED
    BY <2>3, <2>4, SignInAssumption
<1>3. Spec => [](OwnInv /\ CountInv)
  <2>1. /\ TypeOK /\ CallsInv /\ OwnInv /\ CountInv
        /\ [Next]_vars
        => (OwnInv /\ CountInv)'
    BY OwnKept, CountInductive
  <2> QED
    BY <1>1, <2>1, CallsAlways, PTL DEF Spec
<1> QED
  BY <1>2, <1>3, CallsAlways, PTL
===============================================================================
