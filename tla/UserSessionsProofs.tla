--------------------------- MODULE UserSessionsProofs ---------------------------
(***************************************************************************)
(* Proofs about UserSessions, for every set of users and requests and      *)
(* every limit.                                                            *)
(*                                                                         *)
(* RecentSessionsSurvive says nothing of the requests in flight, whose     *)
(* victims were chosen from a snapshot that may be stale.  VictimsAreOld   *)
(* does: a victim already had MaxSessions newer sessions when it was       *)
(* chosen, and the sessions ever opened only become more.                  *)
(*                                                                         *)
(* OverflowBound counts the rows of a user and says nothing of how many    *)
(* each request in flight may still add.  OverflowInv does, with the order *)
(* in which these requests took their snapshots.                           *)
(***************************************************************************)
EXTENDS UserSessions, FiniteSetTheorems, TLAPS

RowsOpened == rows \subseteq opened /\ IsFiniteSet(opened)

VictimsAreOld ==
  \A p \in Requests :
    logins[p].at = "commit" =>
      \A v \in logins[p].victims :
        Cardinality(Newer(opened \cup {logins[p].session}, v)) >= MaxSessions

LEMMA LoginFields ==
  ASSUME NEW r \in LoginStates
  PROVE  /\ r.at # "idle" => r.session \in Sessions
         /\ r.at = "commit" => r.victims \subseteq Sessions
  BY DEF LoginStates, Idle

(* More sessions, more newer ones.                                         *)
LEMMA NewerMonotonic ==
  ASSUME NEW S, NEW T, IsFiniteSet(T), S \subseteq T, NEW s
  PROVE  /\ IsFiniteSet(Newer(S, s)) /\ IsFiniteSet(Newer(T, s))
         /\ Cardinality(Newer(S, s)) \in Nat /\ Cardinality(Newer(T, s)) \in Nat
         /\ Cardinality(Newer(S, s)) <= Cardinality(Newer(T, s))
<1>1. Newer(S, s) \subseteq Newer(T, s) /\ Newer(T, s) \subseteq T
  BY DEF Newer, OfUser
<1>2. IsFiniteSet(Newer(T, s))
  BY <1>1, FS_Subset
<1> QED
  BY <1>1, <1>2, FS_Subset, FS_CardinalityType

-------------------------------------------------------------------------------
(* Type correctness.                                                       *)

LEMMA NextTyped == TypeOK /\ [Next]_vars => TypeOK'
<1> SUFFICES ASSUME TypeOK, [Next]_vars
             PROVE  TypeOK'
  OBVIOUS
<1> USE SessionsAssumption DEF TypeOK
<1>1. ASSUME NEW p \in Requests, NEW u \in Users, CreateSession(p, u)
      PROVE  TypeOK'
  <2>1. [user |-> u, stamp |-> clock + 1] \in Sessions
    BY <1>1 DEF CreateSession, Sessions, Stamps
  <2> QED
    BY <1>1, <2>1 DEF CreateSession, LoginStates
<1>2. ASSUME NEW p \in Requests, SelectVictims(p)
      PROVE  TypeOK'
  <2> DEFINE s == logins[p].session
  <2>1. s \in Sessions
    BY <1>2, LoginFields DEF SelectVictims
  <2>2. Victims(rows \cup {s}, s.user) \subseteq Sessions
    BY <2>1 DEF Victims, OfUser
  <2> QED
    BY <1>2, <2>1, <2>2 DEF SelectVictims, LoginStates
<1>3. ASSUME NEW p \in Requests, Commit(p)
      PROVE  TypeOK'
  BY <1>3, LoginFields DEF Commit, LoginStates
<1>4. ASSUME NEW p \in Requests, Abort(p)
      PROVE  TypeOK'
  BY <1>4 DEF Abort, LoginStates
<1>5. ASSUME NEW u \in Users, NEW s \in rows, DeleteSession(u, s)
      PROVE  TypeOK'
  BY <1>5 DEF DeleteSession
<1>6. CASE UNCHANGED vars
  BY <1>6 DEF vars
<1> QED
  BY <1>1, <1>2, <1>3, <1>4, <1>5, <1>6 DEF Next

(* Every reachable state has the shape TypeOK gives to the sessions and to *)
(* the requests that are opening one.                                      *)
THEOREM TypeCorrect == Spec => []TypeOK
<1>1. Init => TypeOK
  BY SessionsAssumption DEF Init, TypeOK, LoginStates
<1> QED
  BY <1>1, NextTyped, PTL DEF Spec

-------------------------------------------------------------------------------
(* The strengthening.                                                      *)

LEMMA NextOpened ==
  ASSUME TypeOK, RowsOpened, [Next]_vars
  PROVE  RowsOpened' /\ opened \subseteq opened' /\ ended \subseteq ended'
<1>1. ASSUME NEW p \in Requests, Commit(p)
      PROVE  RowsOpened' /\ opened \subseteq opened' /\ ended \subseteq ended'
  <2>1. IsFiniteSet(opened')
    BY <1>1, FS_AddElement DEF Commit, RowsOpened
  <2> QED
    BY <1>1, <2>1 DEF Commit, RowsOpened
<1>2. ASSUME NEW u \in Users, NEW s \in rows, DeleteSession(u, s)
      PROVE  RowsOpened' /\ opened \subseteq opened' /\ ended \subseteq ended'
  BY <1>2 DEF DeleteSession, RowsOpened
<1> QED
  BY <1>1, <1>2
  DEF Next, vars, CreateSession, SelectVictims, Abort, RowsOpened

LEMMA NextVictimsOld ==
  ASSUME TypeOK, RowsOpened, VictimsAreOld, [Next]_vars
  PROVE  VictimsAreOld'
<1>0. RowsOpened' /\ opened \subseteq opened'
  BY NextOpened
<1> SUFFICES ASSUME NEW q \in Requests, logins'[q].at = "commit",
                    NEW v \in logins'[q].victims
             PROVE  Cardinality(Newer(opened' \cup {logins'[q].session}, v)) >= MaxSessions
  BY DEF VictimsAreOld
(* A request that had chosen its victims before: opened has only grown.    *)
<1>1. CASE logins'[q] = logins[q]
  <2> DEFINE s == logins[q].session
  <2>1. IsFiniteSet(opened' \cup {s})
    BY <1>0, FS_AddElement DEF RowsOpened
  <2>2. opened \cup {s} \subseteq opened' \cup {s}
    BY <1>0
  <2>3. Cardinality(Newer(opened \cup {s}, v)) >= MaxSessions
    BY <1>1 DEF VictimsAreOld
  <2>4. /\ Cardinality(Newer(opened \cup {s}, v)) \in Nat
        /\ Cardinality(Newer(opened' \cup {s}, v)) \in Nat
        /\ Cardinality(Newer(opened \cup {s}, v)) <= Cardinality(Newer(opened' \cup {s}, v))
    BY <2>1, <2>2, NewerMonotonic
  <2> QED
    BY <1>1, <2>3, <2>4, SessionsAssumption
(* The request that chooses them now, among rows and its own session.      *)
<1>2. CASE SelectVictims(q)
  <2> DEFINE s == logins[q].session
  <2>1. /\ logins'[q].session = s
        /\ v \in Victims(rows \cup {s}, s.user)
        /\ opened' = opened
    BY <1>2 DEF SelectVictims, TypeOK
  <2>2. Cardinality(Newer(rows \cup {s}, v)) >= MaxSessions
    BY <2>1 DEF Victims
  <2>3. IsFiniteSet(opened \cup {s}) /\ rows \cup {s} \subseteq opened \cup {s}
    BY FS_AddElement DEF RowsOpened
  <2>4. /\ Cardinality(Newer(rows \cup {s}, v)) \in Nat
        /\ Cardinality(Newer(opened \cup {s}, v)) \in Nat
        /\ Cardinality(Newer(rows \cup {s}, v)) <= Cardinality(Newer(opened \cup {s}, v))
    BY <2>3, NewerMonotonic
  <2> QED
    BY <2>1, <2>2, <2>4, SessionsAssumption
<1>3. logins'[q] = logins[q] \/ SelectVictims(q)
  <2>1. ASSUME NEW p \in Requests, NEW u \in Users, CreateSession(p, u)
        PROVE  logins'[q] = logins[q]
    BY <2>1 DEF CreateSession, TypeOK
  <2>2. ASSUME NEW p \in Requests, SelectVictims(p)
        PROVE  logins'[q] = logins[q] \/ SelectVictims(q)
    BY <2>2 DEF SelectVictims, TypeOK
  <2>3. ASSUME NEW p \in Requests, Commit(p) \/ Abort(p)
        PROVE  logins'[q] = logins[q]
    BY <2>3 DEF Commit, Abort, Idle, TypeOK
  <2> QED
    BY <2>1, <2>2, <2>3 DEF Next, DeleteSession, vars
<1> QED
  BY <1>1, <1>2, <1>3

LEMMA NextSurvive ==
  ASSUME TypeOK, RowsOpened, VictimsAreOld, RecentSessionsSurvive, [Next]_vars
  PROVE  RecentSessionsSurvive'
<1>0. RowsOpened' /\ opened \subseteq opened' /\ ended \subseteq ended'
  BY NextOpened
<1> SUFFICES ASSUME NEW s \in opened', s \notin ended',
                    Cardinality(Newer(opened', s)) < MaxSessions
             PROVE  s \in rows'
  BY DEF RecentSessionsSurvive
<1>1. s \in opened => s \in rows
  <2>1. /\ Cardinality(Newer(opened, s)) \in Nat
        /\ Cardinality(Newer(opened', s)) \in Nat
        /\ Cardinality(Newer(opened, s)) <= Cardinality(Newer(opened', s))
    BY <1>0, NewerMonotonic DEF RowsOpened
  <2>2. Cardinality(Newer(opened, s)) < MaxSessions
    BY <2>1, SessionsAssumption
  <2> QED
    BY <1>0, <2>2 DEF RecentSessionsSurvive
<1>2. ASSUME NEW p \in Requests, Commit(p)
      PROVE  s \in rows'
  <2> DEFINE r == logins[p]
  <2>1. opened' = opened \cup {r.session}
    BY <1>2 DEF Commit
  <2>2. s \notin r.victims
    <3>1. SUFFICES ASSUME s \in r.victims
                   PROVE  FALSE
      OBVIOUS
    <3>2. Cardinality(Newer(opened \cup {r.session}, s)) >= MaxSessions
      BY <1>2, <3>1 DEF Commit, VictimsAreOld
    <3>3. Cardinality(Newer(opened', s)) \in Nat
      BY <1>0, NewerMonotonic DEF RowsOpened
    <3> QED
      BY <2>1, <3>2, <3>3, SessionsAssumption
  <2> QED
    BY <1>1, <1>2, <2>1, <2>2 DEF Commit
<1>3. ASSUME NEW u \in Users, NEW t \in rows, DeleteSession(u, t)
      PROVE  s \in rows'
  BY <1>1, <1>3 DEF DeleteSession
<1> QED
  BY <1>1, <1>2, <1>3 DEF Next, vars, CreateSession, SelectVictims, Abort

(* However many logins prune at the same time, and however stale what they *)
(* read has become, the MaxSessions most recent sessions of a user are     *)
(* ended by nobody but the user.                                           *)
THEOREM PruningSparesRecent == Spec => []RecentSessionsSurvive
<1> DEFINE IInv == RowsOpened /\ VictimsAreOld /\ RecentSessionsSurvive
<1>1. Init => IInv
  BY FS_EmptySet DEF Init, RowsOpened, VictimsAreOld, RecentSessionsSurvive, Idle
<1>2. TypeOK /\ IInv /\ [Next]_vars => IInv'
  BY NextOpened, NextVictimsOld, NextSurvive
<1>3. Spec => []TypeOK
  BY TypeCorrect
<1>4. IInv => RecentSessionsSurvive
  OBVIOUS
<1> QED
  BY <1>1, <1>2, <1>3, <1>4, PTL DEF Spec

-------------------------------------------------------------------------------
(* OverflowBound.  A pruning leaves at most MaxSessions of the rows it saw, *)
(* and what it did not see is covered by the requests that committed since. *)

Kept(sessions, u) == OfUser(sessions, u) \ Victims(sessions, u)

(* What a pruning keeps of what it saw: the number of newer sessions is a  *)
(* different one below MaxSessions for each of them.                       *)
LEMMA KeptAtMost ==
  ASSUME NEW S, IsFiniteSet(S), NEW u, OfUser(S, u) \subseteq Sessions
  PROVE  /\ IsFiniteSet(Kept(S, u))
         /\ Cardinality(Kept(S, u)) \in Nat
         /\ Cardinality(Kept(S, u)) <= MaxSessions
<1> DEFINE K == Kept(S, u)
           f == [s \in K |-> Cardinality(Newer(S, s))]
<1>1. K \subseteq S /\ K \subseteq Sessions /\ \A s \in K : s.user = u
  BY DEF Kept, OfUser
<1>2. \A s \in K : f[s] \in 0..(MaxSessions - 1)
  <2> SUFFICES ASSUME NEW s \in K
               PROVE  f[s] \in 0..(MaxSessions - 1)
    OBVIOUS
  <2>1. Cardinality(Newer(S, s)) \in Nat
    BY NewerMonotonic
  <2>2. ~(Cardinality(Newer(S, s)) >= MaxSessions)
    BY DEF Kept, Victims
  <2> QED
    BY <2>1, <2>2, SessionsAssumption
<1>3. ASSUME NEW s \in K, NEW t \in K, s.stamp < t.stamp
      PROVE  f[s] # f[t]
  <2>1. Newer(S, t) \cup {t} \subseteq Newer(S, s)
    <3>1. s.stamp \in Nat /\ t \in S /\ s.user = u /\ t.user = u
      BY <1>1 DEF Sessions, Stamps
    <3>2. ASSUME NEW r \in Newer(S, t)
          PROVE  r \in Newer(S, s)
      <4>1. r \in OfUser(S, u) /\ r.stamp > t.stamp
        BY <3>1, <3>2 DEF Newer
      <4>2. r.stamp \in Nat /\ t.stamp \in Nat
        BY <1>1, <4>1 DEF Sessions, Stamps
      <4> QED
        BY <1>3, <3>1, <4>1, <4>2 DEF Newer
    <3> QED
      BY <1>3, <3>1, <3>2, <1>1 DEF Newer, OfUser, Sessions, Stamps
  <2>2. t \notin Newer(S, t)
    BY <1>1 DEF Newer, Sessions, Stamps
  <2>3. IsFiniteSet(Newer(S, t)) /\ IsFiniteSet(Newer(S, s))
    BY NewerMonotonic
  <2>4. Cardinality(Newer(S, t) \cup {t}) = Cardinality(Newer(S, t)) + 1
    BY <2>2, <2>3, FS_AddElement
  <2>5. Cardinality(Newer(S, t) \cup {t}) <= Cardinality(Newer(S, s))
    BY <2>1, <2>3, FS_Subset
  <2>6. Cardinality(Newer(S, t)) \in Nat /\ Cardinality(Newer(S, s)) \in Nat
    BY <2>3, FS_CardinalityType
  <2> QED
    BY <2>4, <2>5, <2>6
<1>4. ASSUME NEW s \in K, NEW t \in K, f[s] = f[t]
      PROVE  s = t
  <2>1. s.stamp \in Nat /\ t.stamp \in Nat
    BY <1>1 DEF Sessions, Stamps
  <2>2. s.stamp = t.stamp
    BY <1>3, <1>4, <2>1
  <2> QED
    BY <1>1, <2>2 DEF Sessions
<1>5. f \in Injection(K, 0..(MaxSessions - 1))
  BY <1>2, <1>4 DEF Injection, IsInjective
<1>6. IsFiniteSet(0..(MaxSessions - 1)) /\ Cardinality(0..(MaxSessions - 1)) = MaxSessions
  BY FS_Interval, SessionsAssumption
<1> HIDE DEF f, K
<1>7. IsFiniteSet(K) /\ Cardinality(K) <= MaxSessions
  BY <1>5, <1>6, FS_Injection
<1> QED
  BY <1>7, FS_CardinalityType DEF K

-------------------------------------------------------------------------------
(* The requests that are about to commit a session of u, in the order in   *)
(* which they took their snapshots: rank becomes 0 when a request with a   *)
(* later snapshot commits first, and seen is the snapshot.  rank and seen  *)
(* are not in the state and need not be: the invariant only says that      *)
(* there are such.                                                         *)
Pending(u) ==
  {p \in Requests : logins[p].at = "commit" /\ logins[p].session.user = u}

Overtaken(u, rank) == {q \in Pending(u) : rank[q] = 0}

Ahead(u, rank, p) == {q \in Pending(u) : rank[q] < rank[p]}

Counted(u, rank, seen) ==
  /\ \A p, q \in Pending(u) : p # q /\ rank[p] = rank[q] => rank[p] = 0
  /\ Cardinality(OfUser(rows, u)) + Cardinality(Overtaken(u, rank))
       <= MaxSessions + Cardinality(Requests) - 1
  /\ \A p \in Pending(u) :
       rank[p] > 0 =>
         /\ logins[p].session \in seen[p]
         /\ IsFiniteSet(OfUser(seen[p], u) \ logins[p].victims)
         /\ Cardinality(OfUser(seen[p], u) \ logins[p].victims) <= MaxSessions
         /\ Cardinality(OfUser(rows \ seen[p], u)) + Cardinality(Ahead(u, rank, p))
              <= Cardinality(Requests) - 1

OverflowInv ==
  \A u \in Users :
    \E last \in Nat :
      \E rank \in [Requests -> 0..last], seen \in [Requests -> SUBSET Sessions] :
        Counted(u, rank, seen)

LEMMA PendingFinite ==
  ASSUME NEW u, NEW P, P \subseteq Pending(u)
  PROVE  /\ P \subseteq Requests
         /\ IsFiniteSet(P)
         /\ Cardinality(P) \in Nat
         /\ Cardinality(P) <= Cardinality(Requests)
         /\ Cardinality(Requests) \in Nat
<1>1. P \subseteq Requests
  BY DEF Pending
<1> QED
  BY <1>1, SessionsAssumption, FS_Subset, FS_CardinalityType

LEMMA RowsFinite ==
  ASSUME RowsOpened, NEW S, S \subseteq rows, NEW u
  PROVE  /\ IsFiniteSet(OfUser(S, u))
         /\ Cardinality(OfUser(S, u)) \in Nat
<1>1. OfUser(S, u) \subseteq opened
  BY DEF OfUser, RowsOpened
<1> QED
  BY <1>1, FS_Subset, FS_CardinalityType DEF RowsOpened

LEMMA OneMore ==
  ASSUME NEW S, IsFiniteSet(S), NEW x, NEW T, T \subseteq S \cup {x}
  PROVE  /\ Cardinality(T) \in Nat /\ Cardinality(S) \in Nat
         /\ Cardinality(T) <= Cardinality(S) + 1
<1>1. /\ IsFiniteSet(S \cup {x})
      /\ Cardinality(S \cup {x}) = IF x \in S THEN Cardinality(S) ELSE Cardinality(S) + 1
  BY FS_AddElement
<1>2. IsFiniteSet(T) /\ Cardinality(T) <= Cardinality(S \cup {x})
  BY <1>1, FS_Subset
<1>3. Cardinality(T) \in Nat /\ Cardinality(S) \in Nat
  BY <1>2, FS_CardinalityType
<1> QED
  BY <1>1, <1>2, <1>3

(* Nothing is disturbed by a step that adds no row and no request.         *)
LEMMA ShrinkCounted ==
  ASSUME RowsOpened, NEW u, NEW last \in Nat, NEW rank \in [Requests -> 0..last],
         NEW seen \in [Requests -> SUBSET Sessions],
         Counted(u, rank, seen),
         OfUser(rows', u) \subseteq OfUser(rows, u),
         Pending(u)' \subseteq Pending(u),
         \A p \in Pending(u)' : logins'[p] = logins[p]
  PROVE  Counted(u, rank, seen)'
<1>1. Cardinality(Overtaken(u, rank)') \in Nat
      /\ Cardinality(Overtaken(u, rank)) \in Nat
      /\ Cardinality(Overtaken(u, rank)') <= Cardinality(Overtaken(u, rank))
  <2>1. Overtaken(u, rank)' \subseteq Overtaken(u, rank)
        /\ Overtaken(u, rank) \subseteq Pending(u)
    BY DEF Overtaken
  <2> QED
    BY <2>1, PendingFinite, FS_Subset, FS_CardinalityType
<1>2. /\ Cardinality(OfUser(rows', u)) \in Nat /\ Cardinality(OfUser(rows, u)) \in Nat
      /\ Cardinality(OfUser(rows', u)) <= Cardinality(OfUser(rows, u))
  BY RowsFinite, FS_Subset, FS_CardinalityType
<1>3. ASSUME NEW p \in Pending(u)', rank[p] > 0
      PROVE  /\ logins'[p].session \in seen[p]
             /\ IsFiniteSet(OfUser(seen[p], u) \ logins'[p].victims)
             /\ Cardinality(OfUser(seen[p], u) \ logins'[p].victims) <= MaxSessions
             /\ Cardinality(OfUser(rows' \ seen[p], u)) + Cardinality(Ahead(u, rank, p)')
                  <= Cardinality(Requests) - 1
  <2>1. Ahead(u, rank, p)' \subseteq Ahead(u, rank, p)
        /\ Ahead(u, rank, p) \subseteq Pending(u)
    BY DEF Ahead
  <2>2. /\ Cardinality(Ahead(u, rank, p)') \in Nat /\ Cardinality(Ahead(u, rank, p)) \in Nat
        /\ Cardinality(Ahead(u, rank, p)') <= Cardinality(Ahead(u, rank, p))
        /\ Cardinality(Requests) \in Nat
    BY <2>1, PendingFinite, FS_Subset, FS_CardinalityType
  <2>3. OfUser(rows' \ seen[p], u) \subseteq OfUser(rows \ seen[p], u)
    BY DEF OfUser
  <2>4. /\ Cardinality(OfUser(rows' \ seen[p], u)) \in Nat
        /\ Cardinality(OfUser(rows \ seen[p], u)) \in Nat
        /\ Cardinality(OfUser(rows' \ seen[p], u)) <= Cardinality(OfUser(rows \ seen[p], u))
    BY <2>3, RowsFinite, FS_Subset, FS_CardinalityType
  <2>5. /\ logins'[p] = logins[p]
        /\ logins[p].session \in seen[p]
        /\ IsFiniteSet(OfUser(seen[p], u) \ logins[p].victims)
        /\ Cardinality(OfUser(seen[p], u) \ logins[p].victims) <= MaxSessions
        /\ Cardinality(OfUser(rows \ seen[p], u)) + Cardinality(Ahead(u, rank, p))
             <= Cardinality(Requests) - 1
    BY <1>3 DEF Counted
  <2> QED
    BY <2>2, <2>4, <2>5
<1>4. Cardinality(OfUser(rows', u)) + Cardinality(Overtaken(u, rank)')
        <= MaxSessions + Cardinality(Requests) - 1
  <2>1. Cardinality(Requests) \in Nat
    BY SessionsAssumption, FS_CardinalityType
  <2>2. Cardinality(OfUser(rows, u)) + Cardinality(Overtaken(u, rank))
          <= MaxSessions + Cardinality(Requests) - 1
    BY DEF Counted
  <2> QED
    BY <1>1, <1>2, <2>1, <2>2, SessionsAssumption
<1> QED
  BY <1>3, <1>4 DEF Counted

(* A request takes its snapshot: it is the last in the order, has seen all *)
(* rows, and at most all other requests are ahead of it.                   *)
LEMMA SelectCounted ==
  ASSUME TypeOK, RowsOpened, NEW u, NEW last \in Nat, NEW rank \in [Requests -> 0..last],
         NEW seen \in [Requests -> SUBSET Sessions],
         Counted(u, rank, seen),
         NEW p \in Requests, SelectVictims(p), logins[p].session.user = u
  PROVE  \E last2 \in Nat :
           \E rank2 \in [Requests -> 0..last2], seen2 \in [Requests -> SUBSET Sessions] :
             Counted(u, rank2, seen2)'
<1>1. PICK s : s = logins[p].session
  OBVIOUS
<1>2. s \in Sessions /\ s.user = u
  BY <1>1, LoginFields DEF SelectVictims, TypeOK
<1>3. PICK V : V = Victims(rows \cup {s}, u)
  OBVIOUS
<1>4. /\ logins[p].at = "insert" /\ rows' = rows
      /\ logins'[p] = [at |-> "commit", session |-> s, victims |-> V]
      /\ \A q \in Requests : q # p => logins'[q] = logins[q]
  BY <1>1, <1>2, <1>3 DEF SelectVictims, TypeOK
<1>5. PICK rank2 : rank2 = [rank EXCEPT ![p] = last + 1]
  OBVIOUS
<1>6. PICK seen2 : seen2 = [seen EXCEPT ![p] = rows \cup {s}]
  OBVIOUS
<1>7. /\ last + 1 \in Nat
      /\ rank2 \in [Requests -> 0..(last + 1)]
      /\ rank2[p] = last + 1
      /\ \A q \in Requests : q # p => rank2[q] = rank[q] /\ rank2[q] \in 0..last
  BY <1>5
<1>8. /\ seen2 \in [Requests -> SUBSET Sessions]
      /\ seen2[p] = rows \cup {s}
      /\ \A q \in Requests : q # p => seen2[q] = seen[q]
  BY <1>2, <1>6 DEF TypeOK
<1>9. /\ Pending(u)' = Pending(u) \cup {p}
      /\ p \notin Pending(u)
  BY <1>2, <1>4 DEF Pending
<1>10. Overtaken(u, rank2)' = Overtaken(u, rank)
  BY <1>7, <1>9 DEF Overtaken, Pending
<1>11. ASSUME NEW q \in Pending(u), rank2[q] > 0
       PROVE  /\ logins'[q].session \in seen2[q]
              /\ IsFiniteSet(OfUser(seen2[q], u) \ logins'[q].victims)
              /\ Cardinality(OfUser(seen2[q], u) \ logins'[q].victims) <= MaxSessions
              /\ Cardinality(OfUser(rows' \ seen2[q], u)) + Cardinality(Ahead(u, rank2, q)')
                   <= Cardinality(Requests) - 1
  <2>1. q \in Requests /\ q # p
    BY <1>9 DEF Pending
  <2>2. Ahead(u, rank2, q)' = Ahead(u, rank, q)
    <3>1. rank2[q] = rank[q] /\ rank[q] \in 0..last
      BY <1>7, <2>1
    <3>2. ASSUME NEW r \in Pending(u)'
          PROVE  rank2[r] < rank2[q] <=> r \in Pending(u) /\ rank[r] < rank[q]
      BY <1>7, <1>9, <3>1 DEF Pending
    <3> QED
      BY <1>9, <3>2 DEF Ahead
  <2>3. rank[q] > 0 /\ logins'[q] = logins[q] /\ seen2[q] = seen[q]
    BY <1>4, <1>7, <1>8, <1>11, <2>1
  <2> QED
    BY <1>4, <2>2, <2>3 DEF Counted
<1>12. /\ logins'[p].session \in seen2[p]
       /\ IsFiniteSet(OfUser(seen2[p], u) \ logins'[p].victims)
       /\ Cardinality(OfUser(seen2[p], u) \ logins'[p].victims) <= MaxSessions
       /\ Cardinality(OfUser(rows' \ seen2[p], u)) + Cardinality(Ahead(u, rank2, p)')
            <= Cardinality(Requests) - 1
  <2>1. IsFiniteSet(rows \cup {s}) /\ OfUser(rows \cup {s}, u) \subseteq Sessions
    BY <1>2, FS_Subset, FS_AddElement DEF RowsOpened, OfUser, TypeOK
  <2>2. OfUser(seen2[p], u) \ logins'[p].victims = Kept(rows \cup {s}, u)
    BY <1>3, <1>4, <1>8 DEF Kept
  <2>3. Cardinality(OfUser(rows' \ seen2[p], u)) = 0
    <3>1. OfUser(rows' \ seen2[p], u) = {}
      BY <1>4, <1>8 DEF OfUser
    <3> QED
      BY <3>1, FS_EmptySet
  <2>4. /\ Cardinality(Ahead(u, rank2, p)') \in Nat
        /\ Cardinality(Ahead(u, rank2, p)') <= Cardinality(Requests) - 1
    <3>1. Ahead(u, rank2, p)' \subseteq Requests \ {p}
      BY <1>7 DEF Ahead, Pending
    <3>2. /\ IsFiniteSet(Requests \ {p})
          /\ Cardinality(Requests \ {p}) = Cardinality(Requests) - 1
      BY SessionsAssumption, FS_RemoveElement
    <3> QED
      BY <3>1, <3>2, FS_Subset, FS_CardinalityType
  <2>5. IsFiniteSet(Kept(rows \cup {s}, u)) /\ Cardinality(Kept(rows \cup {s}, u)) <= MaxSessions
    BY <2>1, KeptAtMost
  <2>6. Cardinality(Requests) \in Nat
    BY SessionsAssumption, FS_CardinalityType
  <2>7. logins'[p].session \in seen2[p]
    BY <1>4, <1>8
  <2>8. /\ IsFiniteSet(OfUser(seen2[p], u) \ logins'[p].victims)
        /\ Cardinality(OfUser(seen2[p], u) \ logins'[p].victims) <= MaxSessions
    BY <2>2, <2>5
  <2> QED
    BY <2>3, <2>4, <2>6, <2>7, <2>8
<1>13. \A q, r \in Pending(u)' : q # r /\ rank2[q] = rank2[r] => rank2[q] = 0
  <2> SUFFICES ASSUME NEW q \in Pending(u)', NEW r \in Pending(u)', q # r, rank2[q] = rank2[r]
               PROVE  rank2[q] = 0
    OBVIOUS
  <2>1. q # p /\ r # p
    BY <1>7 DEF Pending
  <2>2. rank2[q] = rank[q] /\ rank2[r] = rank[r] /\ q \in Pending(u) /\ r \in Pending(u)
    BY <1>7, <1>9, <2>1 DEF Pending
  <2> QED
    BY <2>2 DEF Counted
<1>14. Counted(u, rank2, seen2)'
  BY <1>4, <1>9, <1>10, <1>11, <1>12, <1>13 DEF Counted
<1> QED
  BY <1>7, <1>8, <1>14

(* A request commits.  If it was not overtaken, it leaves what it kept of  *)
(* its snapshot and what has been added since, and all requests ahead of   *)
(* it are overtaken; otherwise its row takes the place counted for it.     *)
LEMMA CommitCounted ==
  ASSUME TypeOK, RowsOpened, NEW u, NEW last \in Nat, NEW rank \in [Requests -> 0..last],
         NEW seen \in [Requests -> SUBSET Sessions],
         Counted(u, rank, seen),
         NEW p \in Requests, Commit(p), logins[p].session.user = u
  PROVE  \E rank2 \in [Requests -> 0..last] : Counted(u, rank2, seen)'
<1>1. PICK s, V : s = logins[p].session /\ V = logins[p].victims
  OBVIOUS
<1>2. /\ s \in Sessions /\ s.user = u /\ p \in Pending(u)
      /\ rows' = (rows \cup {s}) \ V
      /\ logins'[p] = Idle
      /\ \A q \in Requests : q # p => logins'[q] = logins[q]
  BY <1>1, LoginFields DEF Commit, TypeOK, Pending
<1>3. Pending(u)' = Pending(u) \ {p}
  BY <1>2 DEF Pending, Idle
<1>4. PICK rank2 : rank2 = [q \in Requests |-> IF rank[q] < rank[p] THEN 0 ELSE rank[q]]
  OBVIOUS
<1>5. /\ rank2 \in [Requests -> 0..last]
      /\ \A q \in Requests : /\ rank[q] \in 0..last
                             /\ rank[q] < rank[p] => rank2[q] = 0
                             /\ ~(rank[q] < rank[p]) => rank2[q] = rank[q]
  BY <1>4
<1>6. Cardinality(Requests) \in Nat /\ MaxSessions \in Nat /\ Pending(u) \subseteq Requests
  BY SessionsAssumption, FS_CardinalityType DEF Pending
(* The requests still ranked were behind p, and see one row more.          *)
<1>7. ASSUME NEW q \in Pending(u)', rank2[q] > 0
      PROVE  /\ logins'[q].session \in seen[q]
             /\ IsFiniteSet(OfUser(seen[q], u) \ logins'[q].victims)
             /\ Cardinality(OfUser(seen[q], u) \ logins'[q].victims) <= MaxSessions
             /\ Cardinality(OfUser(rows' \ seen[q], u)) + Cardinality(Ahead(u, rank2, q)')
                  <= Cardinality(Requests) - 1
  <2>1. q \in Pending(u) /\ q # p /\ q \in Requests
    BY <1>3, <1>6
  <2>2. rank2[q] = rank[q] /\ rank[p] < rank[q] /\ rank[q] > 0
    <3>1. rank[q] \in 0..last /\ rank[p] \in 0..last
      BY <1>5, <2>1
    <3>2. ~(rank[q] < rank[p]) /\ rank2[q] = rank[q]
      BY <1>5, <1>7, <2>1, <3>1
    <3>3. rank[q] > 0
      BY <1>7, <3>2
    <3>4. rank[p] # rank[q]
      BY <1>2, <2>1, <3>3 DEF Counted
    <3> QED
      BY <3>1, <3>2, <3>3, <3>4
  <2>3. Ahead(u, rank2, q)' = Ahead(u, rank, q) \ {p} /\ p \in Ahead(u, rank, q)
    <3>1. ASSUME NEW r \in Pending(u)'
          PROVE  rank2[r] < rank2[q] <=> rank[r] < rank[q]
      BY <1>3, <1>5, <1>6, <2>1, <2>2
    <3> QED
      BY <1>2, <1>3, <2>2, <3>1 DEF Ahead
  <2>4. /\ Cardinality(Ahead(u, rank, q)) \in Nat
        /\ Cardinality(Ahead(u, rank2, q)') = Cardinality(Ahead(u, rank, q)) - 1
    <3>1. Ahead(u, rank, q) \subseteq Pending(u)
      BY DEF Ahead
    <3>2. IsFiniteSet(Ahead(u, rank, q)) /\ Cardinality(Ahead(u, rank, q)) \in Nat
      BY <3>1, PendingFinite
    <3>3. Cardinality(Ahead(u, rank, q) \ {p}) = Cardinality(Ahead(u, rank, q)) - 1
      BY <2>3, <3>2, FS_RemoveElement
    <3> QED
      BY <2>3, <3>2, <3>3
  <2>5. /\ Cardinality(OfUser(rows' \ seen[q], u)) \in Nat
        /\ Cardinality(OfUser(rows \ seen[q], u)) \in Nat
        /\ Cardinality(OfUser(rows' \ seen[q], u)) <= Cardinality(OfUser(rows \ seen[q], u)) + 1
    <3>1. OfUser(rows' \ seen[q], u) \subseteq OfUser(rows \ seen[q], u) \cup {s}
      BY <1>2 DEF OfUser
    <3>2. IsFiniteSet(OfUser(rows \ seen[q], u))
      BY RowsFinite
    <3> QED
      BY <3>1, <3>2, OneMore
  <2>6. logins'[q] = logins[q]
    BY <1>2, <2>1
  <2>7. /\ logins[q].session \in seen[q]
        /\ IsFiniteSet(OfUser(seen[q], u) \ logins[q].victims)
        /\ Cardinality(OfUser(seen[q], u) \ logins[q].victims) <= MaxSessions
        /\ Cardinality(OfUser(rows \ seen[q], u)) + Cardinality(Ahead(u, rank, q))
             <= Cardinality(Requests) - 1
    BY <2>1, <2>2 DEF Counted
  <2> QED
    BY <1>6, <2>4, <2>5, <2>6, <2>7
<1>8. Cardinality(OfUser(rows', u)) + Cardinality(Overtaken(u, rank2)')
        <= MaxSessions + Cardinality(Requests) - 1
  <2>1. CASE rank[p] = 0
    <3>1. Overtaken(u, rank2)' = Overtaken(u, rank) \ {p} /\ p \in Overtaken(u, rank)
      BY <1>2, <1>3, <1>5, <1>6, <2>1 DEF Overtaken
    <3>2. /\ Cardinality(Overtaken(u, rank)) \in Nat
          /\ Cardinality(Overtaken(u, rank2)') = Cardinality(Overtaken(u, rank)) - 1
      <4>1. Overtaken(u, rank) \subseteq Pending(u)
        BY DEF Overtaken
      <4> QED
        BY <3>1, <4>1, PendingFinite, FS_RemoveElement
    <3>3. /\ Cardinality(OfUser(rows, u)) \in Nat
          /\ Cardinality(OfUser(rows', u)) \in Nat
          /\ Cardinality(OfUser(rows', u)) <= Cardinality(OfUser(rows, u)) + 1
      <4>1. OfUser(rows', u) \subseteq OfUser(rows, u) \cup {s}
        BY <1>2 DEF OfUser
      <4>2. IsFiniteSet(OfUser(rows, u))
        BY RowsFinite
      <4> QED
        BY <4>1, <4>2, OneMore
    <3>4. Cardinality(OfUser(rows, u)) + Cardinality(Overtaken(u, rank))
            <= MaxSessions + Cardinality(Requests) - 1
      BY DEF Counted
    <3> QED
      BY <1>6, <3>2, <3>3, <3>4
  <2>2. CASE rank[p] > 0
    <3> DEFINE kept == OfUser(seen[p], u) \ V
               added == OfUser(rows \ seen[p], u)
    <3>1. /\ s \in seen[p]
          /\ IsFiniteSet(kept) /\ Cardinality(kept) <= MaxSessions
          /\ Cardinality(added) + Cardinality(Ahead(u, rank, p)) <= Cardinality(Requests) - 1
      BY <1>1, <1>2, <2>2 DEF Counted
    <3>2. Overtaken(u, rank2)' = Ahead(u, rank, p)
      <4>1. ASSUME NEW q \in Pending(u)
            PROVE  q # p /\ rank2[q] = 0 <=> rank[q] < rank[p]
        <5>1. q \in Requests /\ rank[q] \in 0..last /\ rank[p] \in 0..last
          BY <1>5, <1>6
        <5>2. q # p /\ rank[q] = rank[p] => rank[p] = 0
          BY <1>2 DEF Counted
        <5> QED
          BY <1>5, <2>2, <5>1, <5>2
      <4> QED
        BY <1>3, <4>1 DEF Overtaken, Ahead
    <3>3. Cardinality(Ahead(u, rank, p)) \in Nat
      <4>1. Ahead(u, rank, p) \subseteq Pending(u)
        BY DEF Ahead
      <4> QED
        BY <4>1, PendingFinite
    <3>4. OfUser(rows', u) \subseteq kept \cup added
      BY <1>2, <3>1 DEF OfUser
    <3>5. IsFiniteSet(added) /\ Cardinality(added) \in Nat /\ Cardinality(kept) \in Nat
      BY <3>1, RowsFinite, FS_CardinalityType
    <3>6. /\ IsFiniteSet(kept \cup added)
          /\ Cardinality(kept \cup added) \in Nat
          /\ Cardinality(kept \cup added) <= Cardinality(kept) + Cardinality(added)
      <4>1. /\ IsFiniteSet(kept \cup added)
            /\ Cardinality(kept \cup added)
                 = Cardinality(kept) + Cardinality(added) - Cardinality(kept \cap added)
        BY <3>1, <3>5, FS_Union
      <4>2. Cardinality(kept \cap added) \in Nat /\ Cardinality(kept \cup added) \in Nat
        BY <3>1, <4>1, FS_Intersection, FS_CardinalityType
      <4> QED
        BY <3>5, <4>1, <4>2
    <3>7. /\ Cardinality(OfUser(rows', u)) \in Nat
          /\ Cardinality(OfUser(rows', u)) <= Cardinality(kept \cup added)
      BY <3>4, <3>6, FS_Subset, FS_CardinalityType
    <3> QED
      BY <1>6, <3>1, <3>2, <3>3, <3>5, <3>6, <3>7
  <2> QED
    BY <1>5, <2>1, <2>2
<1>9. \A q, r \in Pending(u)' : q # r /\ rank2[q] = rank2[r] => rank2[q] = 0
  <2> SUFFICES ASSUME NEW q \in Pending(u)', NEW r \in Pending(u)', q # r, rank2[q] = rank2[r],
                      rank2[q] # 0
               PROVE  FALSE
    OBVIOUS
  <2>1. rank2[q] = rank[q] /\ rank2[r] = rank[r] /\ q \in Pending(u) /\ r \in Pending(u)
    BY <1>3, <1>5, <1>6
  <2> QED
    BY <2>1 DEF Counted
<1>10. Counted(u, rank2, seen)'
  BY <1>7, <1>8, <1>9 DEF Counted
<1> QED
  BY <1>5, <1>10

LEMMA NextCounted ==
  ASSUME TypeOK, RowsOpened, OverflowInv, [Next]_vars
  PROVE  OverflowInv'
<1> SUFFICES ASSUME NEW u \in Users
             PROVE  \E last \in Nat :
                      \E rank \in [Requests -> 0..last], seen \in [Requests -> SUBSET Sessions] :
                        Counted(u, rank, seen)'
  BY DEF OverflowInv
<1>1. PICK last \in Nat :
        \E rank \in [Requests -> 0..last], seen \in [Requests -> SUBSET Sessions] :
          Counted(u, rank, seen)
  BY DEF OverflowInv
<1>2. PICK rank \in [Requests -> 0..last], seen \in [Requests -> SUBSET Sessions] :
        Counted(u, rank, seen)
  BY <1>1
<1>3. ASSUME OfUser(rows', u) \subseteq OfUser(rows, u),
             \A p \in Requests : p \in Pending(u)' => logins'[p] = logins[p]
      PROVE  Counted(u, rank, seen)'
  <2>1. /\ Pending(u)' \subseteq Pending(u)
        /\ \A p \in Pending(u)' : logins'[p] = logins[p]
    BY <1>3 DEF Pending
  <2> QED
    BY <1>2, <1>3, <2>1, ShrinkCounted
<1>4. ASSUME NEW p \in Requests, NEW v \in Users, CreateSession(p, v)
      PROVE  Counted(u, rank, seen)'
  <2>1. rows' = rows /\ \A q \in Requests : q \in Pending(u)' => logins'[q] = logins[q]
    BY <1>4 DEF CreateSession, Pending, TypeOK
  <2> QED
    BY <1>3, <2>1
<1>5. ASSUME NEW p \in Requests, Abort(p)
      PROVE  Counted(u, rank, seen)'
  <2>1. rows' = rows /\ \A q \in Requests : q \in Pending(u)' => logins'[q] = logins[q]
    BY <1>5 DEF Abort, Idle, Pending, TypeOK
  <2> QED
    BY <1>3, <2>1
<1>6. ASSUME NEW v \in Users, NEW s \in rows, DeleteSession(v, s)
      PROVE  Counted(u, rank, seen)'
  <2>1. OfUser(rows', u) \subseteq OfUser(rows, u) /\ logins' = logins
    BY <1>6 DEF DeleteSession, OfUser
  <2> QED
    BY <1>3, <2>1
(* A request for a session of another user.                                *)
<1>7. ASSUME NEW p \in Requests, SelectVictims(p) \/ Commit(p), logins[p].session.user # u
      PROVE  Counted(u, rank, seen)'
  <2>1. OfUser(rows', u) \subseteq OfUser(rows, u)
    BY <1>7 DEF SelectVictims, Commit, OfUser
  <2>2. \A q \in Requests : q # p => logins'[q] = logins[q]
    BY <1>7 DEF SelectVictims, Commit, TypeOK
  <2>3. p \notin Pending(u)'
    BY <1>7 DEF SelectVictims, Commit, Idle, Pending, TypeOK
  <2> QED
    BY <1>3, <2>1, <2>2, <2>3
<1>8. ASSUME NEW p \in Requests, SelectVictims(p), logins[p].session.user = u
      PROVE  \E last2 \in Nat :
               \E rank2 \in [Requests -> 0..last2], seen2 \in [Requests -> SUBSET Sessions] :
                 Counted(u, rank2, seen2)'
  BY <1>2, <1>8, SelectCounted
<1>9. ASSUME NEW p \in Requests, Commit(p), logins[p].session.user = u
      PROVE  \E rank2 \in [Requests -> 0..last] : Counted(u, rank2, seen)'
  BY <1>2, <1>9, CommitCounted
<1>10. CASE UNCHANGED vars
  <2>1. rows' = rows /\ logins' = logins
    BY <1>10 DEF vars
  <2> QED
    BY <1>2, <1>3, <2>1
<1> QED
  BY <1>2, <1>4, <1>5, <1>6, <1>7, <1>8, <1>9, <1>10 DEF Next

(* However many logins of a user prune at the same time, the user never    *)
(* has more than MaxSessions sessions and one for each further request in  *)
(* flight: the excess does not add up over time.                           *)
THEOREM OverflowIsBounded == Spec => []OverflowBound
<1>1. Init => RowsOpened /\ OverflowInv
  <2>1. Init => RowsOpened
    BY FS_EmptySet DEF Init, RowsOpened
  <2> SUFFICES ASSUME Init, NEW u \in Users
               PROVE  \E last \in Nat :
                        \E rank \in [Requests -> 0..last], seen \in [Requests -> SUBSET Sessions] :
                          Counted(u, rank, seen)
    BY <2>1 DEF OverflowInv
  <2> DEFINE rank == [p \in Requests |-> 0]
             seen == [p \in Requests |-> {}]
  <2>2. OfUser(rows, u) = {} /\ Pending(u) = {} /\ Overtaken(u, rank) = {}
    BY DEF Init, OfUser, Pending, Overtaken, Idle
  <2>3. Cardinality(Requests) \in Nat
    BY SessionsAssumption, FS_CardinalityType
  <2>4. Counted(u, rank, seen)
    BY <2>2, <2>3, SessionsAssumption, FS_EmptySet DEF Counted
  <2>5. rank \in [Requests -> 0..0] /\ seen \in [Requests -> SUBSET Sessions]
    OBVIOUS
  <2> QED
    BY <2>4, <2>5
<1>2. TypeOK /\ RowsOpened /\ OverflowInv /\ [Next]_vars => RowsOpened' /\ OverflowInv'
  BY NextOpened, NextCounted
<1>3. RowsOpened /\ OverflowInv => OverflowBound
  <2> SUFFICES ASSUME RowsOpened, OverflowInv, NEW u \in Users
               PROVE  Cardinality(OfUser(rows, u)) <= MaxSessions + Cardinality(Requests) - 1
    BY DEF OverflowBound
  <2>1. PICK rank : Cardinality(OfUser(rows, u)) + Cardinality(Overtaken(u, rank))
                      <= MaxSessions + Cardinality(Requests) - 1
    BY DEF OverflowInv, Counted
  <2>2. Overtaken(u, rank) \subseteq Pending(u)
    BY DEF Overtaken
  <2>3. Cardinality(Overtaken(u, rank)) \in Nat /\ Cardinality(Requests) \in Nat
    BY <2>2, PendingFinite
  <2>4. Cardinality(OfUser(rows, u)) \in Nat
    BY RowsFinite
  <2> QED
    BY <2>1, <2>3, <2>4, SessionsAssumption
<1> QED
  BY <1>1, <1>2, <1>3, TypeCorrect, PTL DEF Spec
===============================================================================
