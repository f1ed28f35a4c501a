------------------------------ MODULE UserSessions ------------------------------
(***************************************************************************)
(* The session records of authcore-service                                 *)
(* (src/app/services/session_service.py).  Every login, registration and   *)
(* accepted MFA challenge opens a session and prunes the user's sessions   *)
(* to the settings.max_concurrent_sessions most recent ones, inside the    *)
(* request's own transaction.                                              *)
(*                                                                         *)
(* A request draws last_active from the clock, reads which sessions to     *)
(* prune from the committed rows and its own, and commits: its row appears *)
(* and the rows it had chosen disappear.  The DELETE waits for the rows    *)
(* that another transaction is deleting and then finds them gone, so the   *)
(* end of it is the same as if it took place at the commit.                *)
(***************************************************************************)
EXTENDS Naturals, FiniteSets

CONSTANTS
  Users,
  Requests,     \* slots for requests in flight
  MaxSessions,  \* settings.max_concurrent_sessions
  MaxStamp      \* bound: sessions ever begun

ASSUME SessionsAssumption ==
  /\ IsFiniteSet(Requests)
  /\ MaxSessions \in Nat \ {0}
  /\ MaxStamp \in Nat

(* A session is its owner and last_active, which no request updates later. *)
(* Two sessions of a user never have the same microsecond.  expires_at is  *)
(* written and never read, so it has no part in what follows.              *)
Stamps == 1..MaxStamp
Sessions == [user: Users, stamp: Stamps]

VARIABLES
  clock,        \* the stamps drawn so far
  rows,         \* table sessions
  logins,       \* the requests that are opening a session
  opened,       \* history: every session that was ever committed
  ended         \* history: the sessions that their users deleted

vars == <<clock, rows, logins, opened, ended>>

-------------------------------------------------------------------------------
Idle == [at |-> "idle"]

LoginStates ==
  {Idle} \cup [at: {"insert"}, session: Sessions]
         \cup [at: {"commit"}, session: Sessions, victims: SUBSET Sessions]

TypeOK ==
  /\ clock \in 0..MaxStamp
  /\ rows \subseteq Sessions
  /\ logins \in [Requests -> LoginStates]
  /\ opened \subseteq Sessions
  /\ ended \subseteq Sessions

Init ==
  /\ clock = 0
  /\ rows = {}
  /\ logins = [p \in Requests |-> Idle]
  /\ opened = {}
  /\ ended = {}

(* The rows list_user_sessions returns, and those the pruning ranks.       *)
OfUser(sessions, u) == {s \in sessions : s.user = u}

Newer(sessions, s) == {t \in OfUser(sessions, s.user) : t.stamp > s.stamp}

-------------------------------------------------------------------------------
(* create_user_session.                                                    *)

\* Mutant: the clock is read before it is advanced.
CreateSessionEarly(p, u) ==
  /\ logins[p] = Idle
  /\ clock < MaxStamp
  /\ clock' = clock + 1
  /\ logins' = [logins EXCEPT ![p] =
                  [at |-> "insert", session |-> [user |-> u, stamp |-> clock]]]
  /\ UNCHANGED <<rows, opened, ended>>

(* The stamp is taken before the INSERT is sent.                           *)
CreateSession(p, u) ==
  /\ logins[p] = Idle
  /\ clock < MaxStamp
  /\ clock' = clock + 1
  /\ logins' = [logins EXCEPT ![p] =
                  [at |-> "insert", session |-> [user |-> u, stamp |-> clock + 1]]]
  /\ UNCHANGED <<rows, opened, ended>>

\* Mutants: one session too many is kept; the oldest are kept (no desc());
\* the WHERE on user_id is missing.
VictimsLate(visible, u) ==
  {s \in OfUser(visible, u) : Cardinality(Newer(visible, s)) > MaxSessions}
VictimsNewest(visible, u) ==
  {s \in OfUser(visible, u) :
     Cardinality({t \in OfUser(visible, u) : t.stamp < s.stamp}) >= MaxSessions}
VictimsOfAll(visible, u) ==
  {s \in visible : Cardinality({t \in visible : t.stamp > s.stamp}) >= MaxSessions}

(* ORDER BY last_active DESC OFFSET max_concurrent_sessions.               *)
Victims(visible, u) ==
  {s \in OfUser(visible, u) : Cardinality(Newer(visible, s)) >= MaxSessions}

(* _enforce_concurrent_session_limit sees what is committed and its own row.*)
SelectVictims(p) ==
  LET s == logins[p].session
  IN  /\ logins[p].at = "insert"
      /\ logins' = [logins EXCEPT ![p] =
                      [at |-> "commit", session |-> s,
                       victims |-> Victims(rows \cup {s}, s.user)]]
      /\ UNCHANGED <<clock, rows, opened, ended>>

(* The session may be among its own victims, when it was slow.             *)
Commit(p) ==
  LET r == logins[p]
  IN  /\ r.at = "commit"
      /\ rows' = (rows \cup {r.session}) \ r.victims
      /\ opened' = opened \cup {r.session}
      /\ logins' = [logins EXCEPT ![p] = Idle]
      /\ UNCHANGED <<clock, ended>>

(* The request fails and its transaction is rolled back.                   *)
Abort(p) ==
  /\ logins[p] # Idle
  /\ logins' = [logins EXCEPT ![p] = Idle]
  /\ UNCHANGED <<clock, rows, opened, ended>>

-------------------------------------------------------------------------------
(* delete_user_session: 404 and no change unless the session is the user's.*)
DeleteSession(u, s) ==
  /\ s \in rows
  /\ s.user = u
  /\ rows' = rows \ {s}
  /\ ended' = ended \cup {s}
  /\ UNCHANGED <<clock, logins, opened>>

Next ==
  \/ \E p \in Requests, u \in Users : CreateSession(p, u)
  \/ \E p \in Requests : SelectVictims(p)
  \/ \E p \in Requests : Commit(p)
  \/ \E p \in Requests : Abort(p)
  \/ \E u \in Users, s \in rows : DeleteSession(u, s)

Spec == Init /\ [][Next]_vars

-------------------------------------------------------------------------------
(* Properties.                                                             *)

(* Pruning never ends a session among the user's most recent ones: one     *)
(* with fewer than MaxSessions newer sessions ever opened is still there   *)
(* unless its user deleted it, however prunings with stale snapshots       *)
(* interleave (session_service.py:82-92).                                  *)
RecentSessionsSurvive ==
  \A s \in opened \ ended :
    Cardinality(Newer(opened, s)) < MaxSessions => s \in rows

(* Concurrent prunings do not see each other's rows, so the limit can be   *)
(* exceeded, but only by one row for each further request in flight, and   *)
(* it does not add up over time (session_service.py:82).                   *)
OverflowBound ==
  \A u \in Users :
    Cardinality(OfUser(rows, u)) <= MaxSessions + Cardinality(Requests) - 1
===============================================================================
