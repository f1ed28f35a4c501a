------------------------- MODULE TokenLifecycleProofs -------------------------
(***************************************************************************)
(* Machine-checked proofs about TokenLifecycle, for every number of users, *)
(* families and requests and for every value of the bounds.                *)
(***************************************************************************)
EXTENDS TokenLifecycle, FiniteSetTheorems, TLAPS

-------------------------------------------------------------------------------
(* Type correctness.                                                       *)

(* A request that finishes or moves to a well-formed record keeps the      *)
(* table of requests well formed.                                          *)
LEMMA BecomesTyped ==
  ASSUME requests \in [Requests -> RequestStates],
         NEW p \in Requests, NEW r \in RequestStates, Becomes(p, r)
  PROVE  requests' \in [Requests -> RequestStates]
  BY DEF Becomes, Ends

LEMMA IdleTyped == Idle \in RequestStates
  BY DEF RequestStates

(* The fields a request carries, according to where it is.                 *)
LEMMA RequestFields ==
  ASSUME NEW r \in RequestStates
  PROVE  /\ r.at \in {"gate", "issue"} =>
              /\ r.user \in Users /\ r.pw \in Nat /\ r.via \in Origins
              /\ r \in [at: {"gate", "issue"}, user: Users, pw: Nat, via: Origins]
         /\ r.at = "code" => r.user \in Users /\ r.pw \in Nat
         /\ r.at \in {"family", "rotate", "revoke"} =>
              r.token \in Tokens /\ r.token[1] \in Families /\ r.token[2] \in Nat
         /\ r.at = "write" => r.user \in Users
         /\ r.at = "commit" => r.user \in Users /\ r.hit \subseteq Families
         /\ r.at = "mfa" => r.user \in Users /\ r.to \in {"pending", "enabled"}
  BY DEF RequestStates, Idle, Tokens

(* The rows a request locks, according to where it is.                     *)
LEMMA NeedsRows ==
  ASSUME NEW r \in RequestStates
  PROVE  /\ r.at \in {"rotate", "revoke"} => Needs(r) = {r.token[1]}
         /\ r.at = "write" => Needs(r) = {r.user}
         /\ r.at = "commit" => Needs(r) = {r.user} \cup r.hit
         /\ r.at \notin {"rotate", "revoke", "write", "commit"} => Needs(r) = {}
  BY DEF Needs

(* The rows an UPDATE leaves behind.                                       *)
LEMMA UserRowUpdated ==
  ASSUME NEW row \in UserRows, NEW b \in BOOLEAN
  PROVE  /\ [row EXCEPT !.active = b] \in UserRows
         /\ [row EXCEPT !.reset = b] \in UserRows
         /\ [pw |-> row.pw + 1, active |-> row.active, reset |-> b] \in UserRows
  BY DEF UserRows

LEMMA RowRevokedTyped ==
  ASSUME NEW row \in FamilyRows
  PROVE  /\ RowRevoked(row) \in FamilyRows
         /\ RowRevoked(row).revoked
         /\ RowRevoked(row).user = row.user
         /\ RowRevoked(row).last = row.last
         /\ RowRevoked(row).pw = row.pw
         /\ RowRevoked(row).via = row.via
  BY DEF FamilyRows, RowRevoked

LEMMA RowRotatedTyped ==
  ASSUME NEW row \in FamilyRows
  PROVE  /\ RowRotated(row) \in FamilyRows
         /\ RowRotated(row).revoked = row.revoked
         /\ RowRotated(row).user = row.user
         /\ RowRotated(row).last = row.last + 1
         /\ RowRotated(row).pw = row.pw
         /\ RowRotated(row).via = row.via
  BY DEF FamilyRows, RowRotated

LEMMA NewFamilyTyped ==
  ASSUME NEW u \in Users, NEW version \in Nat, NEW origin \in Origins
  PROVE  NewFamily(u, version, origin) \in FamilyRows
  BY DEF NewFamily, FamilyRows

(* Every reachable state has the shape TypeOK gives to the tables, to the  *)
(* requests in flight and to the histories: the base of all proofs below.  *)
LEMMA NextTyped == TypeOK /\ [Next]_vars => TypeOK'
<1> SUFFICES ASSUME TypeOK, [Next]_vars
             PROVE  TypeOK'
  OBVIOUS
<1> USE DEF TypeOK, tables, clients, history
<1>1. ASSUME NEW u \in Users, NEW f \in Families, Register(u, f)
      PROVE  TypeOK'
  BY <1>1, NewFamilyTyped DEF Register, IssueTokenPair, Deliver, Tokens, Origins, UserRows
<1>2. ASSUME NEW p \in Requests, NEW u \in Users, LoginCheckPassword(p, u)
      PROVE  TypeOK'
  BY <1>2 DEF LoginCheckPassword, Becomes, Ends, RequestStates, Origins, UserRows
<1>3. ASSUME NEW p \in Requests, NEW c \in challenges, ChallengeReadUser(p, c)
      PROVE  TypeOK'
  BY <1>3 DEF ChallengeReadUser, Becomes, Ends, RequestStates
<1>4. ASSUME NEW p \in Requests, NEW t \in delivered, RefreshReadUser(p, t)
      PROVE  TypeOK'
  <2>1. t \in Tokens /\ t[1] \in Families
    BY DEF Tokens
  <2> QED
    BY <1>4, <2>1 DEF RefreshReadUser, Becomes, Ends, RequestStates
<1>5. ASSUME NEW u \in Users, ForgotPassword(u) \/ ResetTokenExpires(u)
      PROVE  TypeOK'
  <2>1. users[u] \in UserRows
    OBVIOUS
  <2>2. CASE ForgotPassword(u)
    BY <2>1, <2>2, UserRowUpdated DEF ForgotPassword
  <2>3. CASE ResetTokenExpires(u)
    BY <2>1, <2>3, UserRowUpdated DEF ResetTokenExpires
  <2> QED
    BY <1>5, <2>2, <2>3
<1>6. ASSUME NEW p \in Requests, NEW u \in Users, ResetReadToken(p, u)
      PROVE  TypeOK'
  BY <1>6 DEF ResetReadToken, Becomes, Ends, RequestStates
<1>7. ASSUME NEW u \in Users, MfaSetup(u)
      PROVE  TypeOK'
  BY <1>7 DEF MfaSetup
<1>8. ASSUME NEW p \in Requests, NEW u \in Users, MfaVerify(p, u) \/ MfaDisable(p, u)
      PROVE  TypeOK'
  <2>1. CASE MfaVerify(p, u)
    BY <2>1 DEF MfaVerify, Becomes, Ends, RequestStates
  <2>2. CASE MfaDisable(p, u)
    BY <2>2 DEF MfaDisable, Becomes, Ends, RequestStates
  <2> QED
    BY <1>8, <2>1, <2>2
<1>9. ASSUME NEW u \in Users, NEW active \in BOOLEAN, SetActive(u, active)
      PROVE  TypeOK'
  BY <1>9, UserRowUpdated DEF SetActive
<1>10. ASSUME NEW p \in Requests, Abort(p)
       PROVE  TypeOK'
  BY <1>10, IdleTyped DEF Abort, Becomes, Ends
<1>11. ASSUME NEW p \in Requests, Continue(p)
       PROVE  TypeOK'
  <2> DEFINE r == requests[p]
  <2>0. r \in RequestStates
    OBVIOUS
  <2>1. CASE LoginChallenge(p)
    BY <2>0, <2>1, IdleTyped, RequestFields DEF LoginChallenge, Becomes, Ends
  <2>2. CASE LoginPass(p)
    BY <2>0, <2>2, RequestFields DEF LoginPass, Becomes, Ends, RequestStates
  <2>3. ASSUME NEW f \in Families, IssueCommit(p, f)
        PROVE  TypeOK'
    BY <2>0, <2>3, IdleTyped, RequestFields, NewFamilyTyped
    DEF IssueCommit, IssueTokenPair, Deliver, Becomes, Ends, Tokens
  <2>4. CASE ChallengeAccept(p)
    BY <2>0, <2>4, RequestFields DEF ChallengeAccept, Becomes, Ends, RequestStates, Origins
  <2>5. CASE ChallengeReject(p)
    BY <2>5, IdleTyped DEF ChallengeReject, Becomes, Ends
  <2>6. CASE RefreshReadFamily(p)
    BY <2>0, <2>6, IdleTyped, RequestFields
    DEF RefreshReadFamily, Verdict, Becomes, Ends, RequestStates
  <2>7. CASE RefreshRotate(p)
    BY <2>0, <2>7, IdleTyped, RequestFields, RowRotatedTyped
    DEF RefreshRotate, FamilyRows, Deliver, Becomes, Ends, Tokens
  <2>8. CASE RefreshRevoke(p)
    BY <2>0, <2>8, IdleTyped, RequestFields, RowRevokedTyped DEF RefreshRevoke, Becomes, Ends
  <2>9. CASE ResetWrite(p)
    BY <2>0, <2>9, RequestFields DEF ResetWrite, FamiliesOf, RequestStates, Origins
  <2>10. CASE ResetCommit(p)
    BY <2>0, <2>10, IdleTyped, RequestFields, RowRevokedTyped, UserRowUpdated
    DEF ResetCommit, Becomes, Ends
  <2>11. CASE MfaWrite(p)
    BY <2>0, <2>11, IdleTyped, RequestFields DEF MfaWrite, Becomes, Ends
  <2>12. CASE LockRow(p)
    <3>1. Needs(r) \subseteq Users \cup Families
      BY <2>0, NeedsRows, RequestFields
    <3> QED
      BY <2>12, <3>1 DEF LockRow, ToLock
  <2> QED
    BY <1>11, <2>1, <2>2, <2>3, <2>4, <2>5, <2>6, <2>7, <2>8, <2>9, <2>10, <2>11, <2>12
    DEF Continue
<1>12. CASE UNCHANGED vars
  BY <1>12 DEF vars
<1> QED
  BY <1>1, <1>2, <1>3, <1>4, <1>5, <1>6, <1>7, <1>8, <1>9, <1>10, <1>11, <1>12
  DEF Next

THEOREM TypeCorrect == Spec => []TypeOK
<1>1. Init => TypeOK
  BY DEF Init, TypeOK, NoFamily, Idle, RequestStates, Origins, UserRows, FamilyRows
<1> QED
  BY <1>1, NextTyped, PTL DEF Spec

-------------------------------------------------------------------------------
(* The inductive invariants.  TypeOK says what shape the rows have; the    *)
(* parts below say how the rows, the requests in flight and the tokens in  *)
(* the clients' hands depend on each other.                                *)

(* Nothing refers to a row that does not exist, and no password version is *)
(* newer than its user's.                                                  *)
Presenting(p) == requests[p].at \in {"family", "rotate", "revoke"}

KnownVersion(u, version) == 1 <= version /\ version <= users[u].pw
KnownToken(t) == 1 <= t[2] /\ t[2] <= families[t[1]].last

FamiliesKnown ==
  \A f \in Families :
    IF Exists(f)
    THEN families[f].user \in Users /\ KnownVersion(families[f].user, families[f].pw)
    ELSE ~families[f].revoked

RecordKnown(r) ==
  /\ r.at \in {"gate", "issue", "code"} => KnownVersion(r.user, r.pw)
  /\ r.at \in {"family", "rotate", "revoke"} => KnownToken(r.token)
  /\ r.at \in {"write", "commit"} => Registered(r.user)
  /\ r.at = "commit" => r.hit \subseteq FamiliesOf(r.user)

RequestsKnown == \A p \in Requests : RecordKnown(requests[p])

ClientsKnown ==
  /\ \A c \in challenges : KnownVersion(c.user, c.pw)
  /\ \A t \in delivered : KnownToken(t)
  /\ \A u \in Users : users[u].reset => Registered(u)

KnownInv == FamiliesKnown /\ RequestsKnown /\ ClientsKnown

(* Why a login escapes a reset only through the window: a login that did   *)
(* not meet a reset has verified the current password and no reset of its  *)
(* account is open, and an open reset is about to revoke all families that *)
(* such logins have left.                                                  *)
UnracedLoginsCurrent ==
  \A p \in Requests :
    requests[p].at \in {"gate", "issue"} /\ requests[p].via = "login" =>
      /\ requests[p].pw = users[requests[p].user].pw
      /\ ~ResetOpen(requests[p].user)

Unraced(f) == Exists(f) /\ ~families[f].revoked /\ families[f].via = "login"

OpenResetsCover ==
  \A p \in Requests, f \in Families :
    /\ requests[p].at = "commit"
    /\ Unraced(f)
    /\ families[f].user = requests[p].user
    => f \in requests[p].hit

ResetInv ==
  OldPasswordOnlyByRace /\ UnracedLoginsCurrent /\ OpenResetsCover

(* Why a family whose tokens were each presented once is never revoked by  *)
(* an exchange: all its superseded tokens have been presented, so the next *)
(* one to come is the current one, and one request at most carries it.     *)
PresentedAreShown ==
  \A p \in Requests : Presenting(p) => requests[p].token \in shown

SharedIsReplayed ==
  \A p, q \in Requests :
    /\ p # q
    /\ Presenting(p)
    /\ Presenting(q)
    /\ requests[p].token = requests[q].token
    => requests[p].token[1] \in replayed

PresentedIsCurrent ==
  \A p \in Requests :
    Presenting(p) =>
      LET t == requests[p].token
      IN  t[1] \in replayed
            \/ (t[2] = families[t[1]].last /\ requests[p].at # "revoke")

SupersededAreShown ==
  \A f \in Families :
    f \in replayed \/ \A n \in 1 .. (families[f].last - 1) : <<f, n>> \in shown

PresentInv ==
  PresentedAreShown /\ SharedIsReplayed /\ PresentedIsCurrent /\ SupersededAreShown

-------------------------------------------------------------------------------
(* What every step may do to the tables: passwords only get newer, the     *)
(* identity of a family never changes, its tokens only get newer and a     *)
(* revocation is never undone.                                             *)
UsersGrow == \A u \in Users : users[u].pw <= users'[u].pw

FamiliesGrow ==
  \A f \in Families :
    Exists(f) =>
      /\ families'[f].user = families[f].user
      /\ families'[f].pw = families[f].pw
      /\ families'[f].via = families[f].via
      /\ families[f].last <= families'[f].last
      /\ families[f].revoked => families'[f].revoked

LEMMA IssueGrows ==
  ASSUME TypeOK, NEW u \in Users, NEW f \in Families, NEW version, NEW origin,
         IssueTokenPair(u, f, version, origin)
  PROVE  FamiliesGrow
  BY DEF TypeOK, FamilyRows, IssueTokenPair, FamiliesGrow, Exists

LEMMA TablesGrow == TypeOK /\ [Next]_vars => UsersGrow /\ FamiliesGrow
<1> SUFFICES ASSUME TypeOK, [Next]_vars
             PROVE  UsersGrow /\ FamiliesGrow
  OBVIOUS
<1>a. \A f \in Families : families[f] \in FamilyRows /\ families[f].last \in Nat
  BY DEF TypeOK, FamilyRows
<1>b. \A u \in Users : users[u] \in UserRows /\ users[u].pw \in Nat
  BY DEF TypeOK, UserRows
<1>c. \A p \in Requests : requests[p] \in RequestStates
  BY DEF TypeOK
<1>1. UNCHANGED users => UsersGrow
  BY <1>b DEF UsersGrow
<1>2. UNCHANGED families => FamiliesGrow
  BY <1>a DEF FamiliesGrow
<1>3. ASSUME NEW u \in Users, NEW f \in Families, Register(u, f)
      PROVE  UsersGrow /\ FamiliesGrow
  <2>1. UsersGrow
    BY <1>3, <1>b DEF Register, Registered, UsersGrow, TypeOK
  <2>2. FamiliesGrow
    BY <1>3, IssueGrows DEF Register
  <2> QED
    BY <2>1, <2>2
<1>4. ASSUME NEW u \in Users, NEW b \in BOOLEAN,
             ForgotPassword(u) \/ ResetTokenExpires(u) \/ SetActive(u, b)
      PROVE  UsersGrow /\ UNCHANGED families
  BY <1>4, <1>b
  DEF ForgotPassword, ResetTokenExpires, SetActive, UsersGrow, TypeOK, UserRows
<1>5. ASSUME NEW p \in Requests, Continue(p)
      PROVE  UsersGrow /\ FamiliesGrow
  <2>1. ASSUME NEW f \in Families, IssueCommit(p, f)
        PROVE  UsersGrow /\ FamiliesGrow
    BY <1>1, <1>c, <2>1, IssueGrows, RequestFields DEF IssueCommit
  <2>2. CASE RefreshRotate(p)
    <3>1. FamiliesGrow
      BY <1>a, <2>2, RowRotatedTyped DEF RefreshRotate, FamiliesGrow, TypeOK
    <3> QED
      BY <1>1, <2>2, <3>1 DEF RefreshRotate
  <2>3. CASE RefreshRevoke(p)
    <3>1. FamiliesGrow
      BY <1>a, <2>3, RowRevokedTyped DEF RefreshRevoke, FamiliesGrow, TypeOK
    <3> QED
      BY <1>1, <2>3, <3>1 DEF RefreshRevoke
  <2>4. CASE ResetCommit(p)
    <3>1. FamiliesGrow
      BY <1>a, <2>4, RowRevokedTyped DEF ResetCommit, FamiliesGrow
    <3>2. UsersGrow
      BY <1>b, <2>4 DEF ResetCommit, UsersGrow, TypeOK
    <3> QED
      BY <3>1, <3>2
  <2>5. CASE ~(\/ \E f \in Families : IssueCommit(p, f)
               \/ RefreshRotate(p)
               \/ RefreshRevoke(p)
               \/ ResetCommit(p))
    BY <1>1, <1>2, <1>5, <2>5
    DEF Continue, LockRow, LoginChallenge, LoginPass, ChallengeAccept, ChallengeReject,
        RefreshReadFamily, ResetWrite, MfaWrite, tables
  <2> QED
    BY <2>1, <2>2, <2>3, <2>4, <2>5
<1>6. CASE UNCHANGED <<users, families>>
  BY <1>1, <1>2, <1>6
<1> QED
  BY <1>2, <1>3, <1>4, <1>5, <1>6
  DEF Next, vars, tables, LoginCheckPassword, ChallengeReadUser, RefreshReadUser,
      ResetReadToken, MfaSetup, MfaVerify, MfaDisable, Abort

(* A known version or token stays known.                                   *)
LEMMA KnownStaysKnown ==
  ASSUME TypeOK, UsersGrow, FamiliesGrow, TypeOK'
  PROVE  /\ \A u \in Users, v \in Nat : KnownVersion(u, v) => KnownVersion(u, v)'
         /\ \A t \in Tokens : KnownToken(t) => KnownToken(t)'
         /\ \A u \in Users : Registered(u) => Registered(u)'
         /\ \A f \in Families : Exists(f) => Exists(f)'
         /\ \A u \in Users : FamiliesOf(u) \subseteq FamiliesOf(u)'
<1>1. \A u \in Users : users[u].pw \in Nat /\ users'[u].pw \in Nat
  BY DEF TypeOK, UserRows
<1>2. \A f \in Families : families[f].last \in Nat /\ families'[f].last \in Nat
  BY DEF TypeOK, FamilyRows
<1>3. \A u \in Users, v \in Nat : KnownVersion(u, v) => KnownVersion(u, v)'
  BY <1>1 DEF KnownVersion, UsersGrow
<1>4. \A f \in Families : Exists(f) => Exists(f)'
  BY <1>2 DEF Exists, FamiliesGrow
<1>5. \A t \in Tokens : KnownToken(t) => KnownToken(t)'
  BY <1>2 DEF KnownToken, FamiliesGrow, Exists, Tokens
<1>6. \A u \in Users : Registered(u) => Registered(u)'
  BY <1>1 DEF Registered, UsersGrow
<1>7. \A u \in Users : FamiliesOf(u) \subseteq FamiliesOf(u)'
  BY <1>4 DEF FamiliesOf, FamiliesGrow
<1> QED
  BY <1>3, <1>4, <1>5, <1>6, <1>7

(* What a step may do to the table of families: nothing, issue one, rotate *)
(* one, or revoke some that have the same owner.                           *)
IssuesFamily(u, f) ==
  /\ \E version \in Nat, origin \in Origins :
       IssueTokenPair(u, f, version, origin) /\ KnownVersion(u, version)'

RotatesFamily(f) ==
  /\ Exists(f)
  /\ families' = [families EXCEPT ![f] = RowRotated(@)]

RevokesFamilies(u, S) ==
  /\ S \subseteq FamiliesOf(u)
  /\ families' = [f \in Families |-> IF f \in S THEN RowRevoked(families[f]) ELSE families[f]]

FamiliesStep ==
  \/ UNCHANGED families
  \/ \E u \in Users, f \in Families : IssuesFamily(u, f)
  \/ \E f \in Families : RotatesFamily(f)
  \/ \E u \in Users, S \in SUBSET Families : RevokesFamilies(u, S)

LEMMA FamiliesStepped == TypeOK /\ KnownInv /\ [Next]_vars => FamiliesStep
<1> SUFFICES ASSUME TypeOK, KnownInv, [Next]_vars
             PROVE  FamiliesStep
  OBVIOUS
<1>1. TypeOK' /\ UsersGrow /\ FamiliesGrow
  BY NextTyped, TablesGrow
<1>2. ASSUME NEW u \in Users, NEW f \in Families, Register(u, f)
      PROVE  IssuesFamily(u, f)
  BY <1>2 DEF Register, IssuesFamily, KnownVersion, Origins, TypeOK
<1>3. ASSUME NEW p \in Requests, Continue(p)
      PROVE  FamiliesStep
  <2> DEFINE r == requests[p]
  <2>0. r \in RequestStates
    BY DEF TypeOK
  <2>1. ASSUME NEW f \in Families, IssueCommit(p, f)
        PROVE  FamiliesStep
    <3>1. /\ r.user \in Users /\ r.pw \in Nat /\ r.via \in Origins
          /\ KnownVersion(r.user, r.pw)
      BY <2>0, <2>1, RequestFields DEF IssueCommit, KnownInv, RequestsKnown, RecordKnown
    <3>2. PICK u \in Users, v \in Nat : u = r.user /\ v = r.pw
      BY <3>1
    <3>3. KnownVersion(u, v)'
      BY <1>1, <3>1, <3>2, KnownStaysKnown
    <3> QED
      BY <2>1, <3>1, <3>2, <3>3 DEF IssueCommit, IssuesFamily, FamiliesStep
  <2>2. CASE RefreshRotate(p)
    <3>1. r.token[1] \in Families /\ Exists(r.token[1])
      BY <2>0, <2>2, RequestFields
      DEF RefreshRotate, KnownInv, RequestsKnown, RecordKnown, KnownToken, Exists, TypeOK,
          FamilyRows
    <3> QED
      BY <2>2, <3>1 DEF RefreshRotate, RotatesFamily, FamiliesStep
  <2>3. CASE RefreshRevoke(p)
    <3> DEFINE f == r.token[1]
    <3>1. f \in Families /\ Exists(f)
      BY <2>0, <2>3, RequestFields
      DEF RefreshRevoke, KnownInv, RequestsKnown, RecordKnown, KnownToken, Exists, TypeOK,
          FamilyRows
    <3>2. families[f].user \in Users /\ {f} \subseteq FamiliesOf(families[f].user)
      BY <3>1 DEF KnownInv, FamiliesKnown, FamiliesOf
    <3>3. families' = [g \in Families |->
                         IF g \in {f} THEN RowRevoked(families[g]) ELSE families[g]]
      BY <2>3, <3>1 DEF RefreshRevoke, TypeOK
    <3> QED
      BY <3>1, <3>2, <3>3 DEF RevokesFamilies, FamiliesStep
  <2>4. CASE ResetCommit(p)
    <3>1. r.user \in Users /\ r.hit \subseteq Families /\ r.hit \subseteq FamiliesOf(r.user)
      BY <2>0, <2>4, RequestFields DEF ResetCommit, KnownInv, RequestsKnown, RecordKnown
    <3> QED
      BY <2>4, <3>1 DEF ResetCommit, RevokesFamilies, FamiliesStep
  <2>5. CASE ~(\/ \E f \in Families : IssueCommit(p, f)
               \/ RefreshRotate(p)
               \/ RefreshRevoke(p)
               \/ ResetCommit(p))
    BY <1>3, <2>5
    DEF Continue, LockRow, LoginChallenge, LoginPass, ChallengeAccept, ChallengeReject,
        RefreshReadFamily, ResetWrite, MfaWrite, tables, FamiliesStep
  <2> QED
    BY <2>1, <2>2, <2>3, <2>4, <2>5
<1>4. CASE UNCHANGED families
  BY <1>4 DEF FamiliesStep
<1> QED
  BY <1>2, <1>3, <1>4
  DEF Next, vars, tables, LoginCheckPassword, ChallengeReadUser, RefreshReadUser,
      ForgotPassword, ResetTokenExpires, SetActive,
      ResetReadToken, MfaSetup, MfaVerify, MfaDisable, Abort, FamiliesStep

-------------------------------------------------------------------------------
(* KnownInv is inductive.                                                  *)

LEMMA RecordStaysKnown ==
  ASSUME TypeOK, TypeOK', UsersGrow, FamiliesGrow,
         NEW r \in RequestStates, RecordKnown(r)
  PROVE  RecordKnown(r)'
<1>1. r.at \in {"gate", "issue", "code"} => KnownVersion(r.user, r.pw)'
  BY KnownStaysKnown, RequestFields DEF RecordKnown
<1>2. r.at \in {"family", "rotate", "revoke"} => KnownToken(r.token)'
  BY KnownStaysKnown, RequestFields DEF RecordKnown
<1>3. r.at \in {"write", "commit"} => Registered(r.user)'
  BY KnownStaysKnown, RequestFields DEF RecordKnown
<1>4. r.at = "commit" => r.hit \subseteq FamiliesOf(r.user)'
  BY KnownStaysKnown, RequestFields DEF RecordKnown
<1> QED
  BY <1>1, <1>2, <1>3, <1>4 DEF RecordKnown

LEMMA MovedRequestKnown ==
  ASSUME TypeOK, TypeOK', UsersGrow, FamiliesGrow, RequestsKnown,
         NEW p \in Requests, NEW r \in RequestStates,
         requests' = [requests EXCEPT ![p] = r], RecordKnown(r)'
  PROVE  RequestsKnown'
<1> SUFFICES ASSUME NEW q \in Requests
             PROVE  \E s \in RequestStates : s = requests'[q] /\ RecordKnown(s)'
  BY DEF RequestsKnown
<1>1. CASE q = p
  BY <1>1 DEF TypeOK
<1>2. CASE q # p
  <2>1. PICK s \in RequestStates : s = requests[q]
    BY DEF TypeOK
  <2>2. RecordKnown(s)'
    BY <2>1, RecordStaysKnown DEF RequestsKnown
  <2> QED
    BY <1>2, <2>1, <2>2 DEF TypeOK
<1> QED
  BY <1>1, <1>2

LEMMA RequestsStayKnown ==
  ASSUME TypeOK, TypeOK', UsersGrow, FamiliesGrow, RequestsKnown,
         NEW p \in Requests, NEW r \in RequestStates, Becomes(p, r), RecordKnown(r)'
  PROVE  RequestsKnown'
  BY MovedRequestKnown DEF Becomes

LEMMA EndedRequestKnown ==
  ASSUME TypeOK, TypeOK', UsersGrow, FamiliesGrow, RequestsKnown,
         NEW p \in Requests, Ends(p)
  PROVE  RequestsKnown'
<1>1. RecordKnown(Idle)' /\ Idle \in RequestStates
  BY IdleTyped DEF RecordKnown, Idle
<1> QED
  BY <1>1, MovedRequestKnown DEF Ends

LEMMA FamiliesStayKnown ==
  TypeOK /\ KnownInv /\ [Next]_vars => FamiliesKnown'
<1> SUFFICES ASSUME TypeOK, KnownInv, [Next]_vars, NEW f \in Families
             PROVE  IF Exists(f)'
                    THEN /\ families'[f].user \in Users
                         /\ KnownVersion(families[f].user, families[f].pw)'
                    ELSE ~families'[f].revoked
  BY DEF FamiliesKnown
<1>1. TypeOK' /\ UsersGrow /\ FamiliesGrow /\ FamiliesStep
  BY NextTyped, TablesGrow, FamiliesStepped
<1>2. CASE Exists(f)
  <2>1. PICK u \in Users, v \in Nat :
          u = families[f].user /\ v = families[f].pw /\ KnownVersion(u, v)
    BY <1>2 DEF KnownInv, FamiliesKnown, TypeOK, FamilyRows
  <2>2. u = families'[f].user /\ v = families'[f].pw /\ Exists(f)'
    BY <1>1, <1>2, <2>1, KnownStaysKnown DEF FamiliesGrow
  <2>3. KnownVersion(u, v)'
    BY <1>1, <2>1, KnownStaysKnown
  <2> QED
    BY <2>2, <2>3
<1>3. CASE ~Exists(f)
  <2>1. families[f] \in FamilyRows /\ ~families[f].revoked
    BY <1>3 DEF KnownInv, FamiliesKnown, TypeOK
  <2>2. CASE UNCHANGED families
    BY <1>3, <2>1, <2>2 DEF Exists
  <2>3. ASSUME NEW u \in Users, NEW g \in Families, IssuesFamily(u, g)
        PROVE  IF Exists(f)'
               THEN /\ families'[f].user \in Users
                    /\ KnownVersion(families[f].user, families[f].pw)'
               ELSE ~families'[f].revoked
    BY <1>3, <2>1, <2>3
    DEF IssuesFamily, IssueTokenPair, NewFamily, Exists, KnownVersion, TypeOK
  <2>4. ASSUME NEW g \in Families, RotatesFamily(g)
        PROVE  ~Exists(f)' /\ ~families'[f].revoked
    BY <1>3, <2>1, <2>4 DEF RotatesFamily, Exists, TypeOK
  <2>5. ASSUME NEW u \in Users, NEW S \in SUBSET Families, RevokesFamilies(u, S)
        PROVE  ~Exists(f)' /\ ~families'[f].revoked
    BY <1>3, <2>1, <2>5 DEF RevokesFamilies, FamiliesOf, Exists, TypeOK
  <2> QED
    BY <1>1, <2>2, <2>3, <2>4, <2>5 DEF FamiliesStep
<1> QED
  BY <1>2, <1>3

(* A step that hands out nothing leaves what the clients hold known.       *)
LEMMA ClientsStayKnown ==
  ASSUME TypeOK, TypeOK', UsersGrow, FamiliesGrow, ClientsKnown
  PROVE  /\ UNCHANGED challenges => (\A c \in challenges : KnownVersion(c.user, c.pw))'
         /\ UNCHANGED delivered => (\A t \in delivered : KnownToken(t))'
         /\ UNCHANGED users => (\A u \in Users : users[u].reset => Registered(u))'
<1>1. ASSUME UNCHANGED challenges, NEW c \in challenges
      PROVE  KnownVersion(c.user, c.pw)'
  BY KnownStaysKnown DEF ClientsKnown, TypeOK
<1>2. ASSUME UNCHANGED delivered, NEW t \in delivered
      PROVE  KnownToken(t)'
  BY KnownStaysKnown DEF ClientsKnown, TypeOK
<1>3. UNCHANGED users => (\A u \in Users : users[u].reset => Registered(u))'
  BY DEF ClientsKnown, Registered
<1> QED
  BY <1>1, <1>2, <1>3

LEMMA KnownInductive == TypeOK /\ KnownInv /\ [Next]_vars => KnownInv'
<1> SUFFICES ASSUME TypeOK, KnownInv, [Next]_vars
             PROVE  RequestsKnown' /\ ClientsKnown'
  BY FamiliesStayKnown DEF KnownInv
<1>0. TypeOK' /\ UsersGrow /\ FamiliesGrow
  BY NextTyped, TablesGrow
<1>k. RequestsKnown /\ ClientsKnown
  BY DEF KnownInv
<1>i. \A p \in Requests : Ends(p) => RequestsKnown'
  BY <1>0, <1>k, EndedRequestKnown
<1>u. UNCHANGED requests => RequestsKnown'
  <2> SUFFICES ASSUME UNCHANGED requests, NEW q \in Requests
               PROVE  \E s \in RequestStates : s = requests'[q] /\ RecordKnown(s)'
    BY DEF RequestsKnown
  <2> QED
    BY <1>0, <1>k, RecordStaysKnown DEF RequestsKnown, TypeOK
<1>c. UNCHANGED <<clients, users>> => ClientsKnown'
  BY <1>0, <1>k, ClientsStayKnown DEF ClientsKnown, clients
<1>1. ASSUME NEW u \in Users, NEW f \in Families, Register(u, f)
      PROVE  RequestsKnown' /\ ClientsKnown'
  <2>1. \A t \in delivered' : t \in delivered \/ t = <<f, 1>>
    BY <1>1 DEF Register, IssueTokenPair, Deliver
  <2>2. KnownToken(<<f, 1>>)'
    BY <1>1 DEF Register, IssueTokenPair, NewFamily, KnownToken, TypeOK
  <2>3. \A t \in delivered' : KnownToken(t)'
    BY <1>0, <1>k, <2>1, <2>2, KnownStaysKnown DEF ClientsKnown, TypeOK
  <2>4. \A v \in Users : users'[v].reset => Registered(v)'
    BY <1>1, <1>k DEF Register, ClientsKnown, Registered, TypeOK, UserRows
  <2>5. (\A c \in challenges : KnownVersion(c.user, c.pw))'
    BY <1>0, <1>1, <1>k, ClientsStayKnown DEF Register
  <2> QED
    BY <1>1, <1>u, <2>3, <2>4, <2>5 DEF Register, ClientsKnown
<1>2. ASSUME NEW p \in Requests, NEW u \in Users, LoginCheckPassword(p, u)
      PROVE  RequestsKnown' /\ ClientsKnown'
  <2>1. PICK r \in RequestStates :
          /\ Becomes(p, r)
          /\ r.at = "gate" /\ r.user = u /\ r.pw = users[u].pw
    BY <1>2 DEF LoginCheckPassword, RequestStates, Origins, TypeOK, UserRows
  <2>2. RecordKnown(r)
    BY <1>2, <2>1 DEF LoginCheckPassword, Registered, RecordKnown, KnownVersion, TypeOK, UserRows
  <2> QED
    BY <1>0, <1>2, <1>c, <1>k, <2>1, <2>2, RecordStaysKnown, RequestsStayKnown
    DEF LoginCheckPassword, tables
<1>3. ASSUME NEW p \in Requests, NEW c \in challenges, ChallengeReadUser(p, c)
      PROVE  RequestsKnown' /\ ClientsKnown'
  <2>1. PICK r \in RequestStates :
          /\ Becomes(p, r)
          /\ r.at = "code" /\ r.user = c.user /\ r.pw = c.pw
    BY <1>3 DEF ChallengeReadUser, RequestStates, TypeOK
  <2>2. RecordKnown(r)
    BY <1>k, <2>1 DEF RecordKnown, ClientsKnown
  <2> QED
    BY <1>0, <1>3, <1>c, <1>k, <2>1, <2>2, RecordStaysKnown, RequestsStayKnown
    DEF ChallengeReadUser, tables
<1>4. ASSUME NEW p \in Requests, NEW t \in delivered, RefreshReadUser(p, t)
      PROVE  RequestsKnown' /\ ClientsKnown'
  <2>1. PICK r \in RequestStates : Becomes(p, r) /\ r.at = "family" /\ r.token = t
    BY <1>4 DEF RefreshReadUser, RequestStates, TypeOK
  <2>2. RecordKnown(r)
    BY <1>k, <2>1 DEF RecordKnown, ClientsKnown
  <2> QED
    BY <1>0, <1>4, <1>c, <1>k, <2>1, <2>2, RecordStaysKnown, RequestsStayKnown
    DEF RefreshReadUser, tables
<1>5. ASSUME NEW u \in Users, NEW b \in BOOLEAN,
             ForgotPassword(u) \/ ResetTokenExpires(u) \/ SetActive(u, b)
      PROVE  RequestsKnown' /\ ClientsKnown'
  <2>1. \A v \in Users : users'[v].reset => Registered(v)'
    <3>1. CASE ForgotPassword(u)
      BY <1>k, <3>1 DEF ForgotPassword, ClientsKnown, Registered, TypeOK, UserRows
    <3>2. CASE ResetTokenExpires(u)
      BY <1>k, <3>2 DEF ResetTokenExpires, ClientsKnown, Registered, TypeOK, UserRows
    <3>3. CASE SetActive(u, b)
      BY <1>k, <3>3 DEF SetActive, ClientsKnown, Registered, TypeOK, UserRows
    <3> QED
      BY <1>5, <3>1, <3>2, <3>3
  <2>2. UNCHANGED <<requests, challenges, delivered>>
    BY <1>5 DEF ForgotPassword, ResetTokenExpires, SetActive, clients
  <2> QED
    BY <1>0, <1>k, <1>u, <2>1, <2>2, ClientsStayKnown DEF ClientsKnown
<1>6. ASSUME NEW p \in Requests, NEW u \in Users, ResetReadToken(p, u)
      PROVE  RequestsKnown' /\ ClientsKnown'
  <2>1. PICK r \in RequestStates : Becomes(p, r) /\ r.at = "write" /\ r.user = u
    BY <1>6 DEF ResetReadToken, RequestStates
  <2>2. RecordKnown(r)
    BY <1>6, <1>k, <2>1 DEF ResetReadToken, RecordKnown, ClientsKnown
  <2> QED
    BY <1>0, <1>6, <1>c, <1>k, <2>1, <2>2, RecordStaysKnown, RequestsStayKnown
    DEF ResetReadToken, tables
<1>7. ASSUME NEW u \in Users, MfaSetup(u)
      PROVE  RequestsKnown' /\ ClientsKnown'
  BY <1>7, <1>c, <1>u DEF MfaSetup
<1>8. ASSUME NEW p \in Requests, NEW u \in Users, MfaVerify(p, u) \/ MfaDisable(p, u)
      PROVE  RequestsKnown' /\ ClientsKnown'
  <2>1. PICK r \in RequestStates : Becomes(p, r) /\ r.at = "mfa"
    BY <1>8 DEF MfaVerify, MfaDisable, RequestStates
  <2>2. RecordKnown(r)
    BY <2>1 DEF RecordKnown
  <2> QED
    BY <1>0, <1>8, <1>c, <1>k, <2>1, <2>2, RecordStaysKnown, RequestsStayKnown
    DEF MfaVerify, MfaDisable, tables
<1>9. ASSUME NEW p \in Requests, Abort(p)
      PROVE  RequestsKnown' /\ ClientsKnown'
  BY <1>9, <1>c, <1>i DEF Abort, tables
<1>10. ASSUME NEW p \in Requests, Continue(p)
       PROVE  RequestsKnown' /\ ClientsKnown'
  <2> DEFINE r == requests[p]
  <2>0. r \in RequestStates /\ RecordKnown(r)
    BY <1>k DEF RequestsKnown, TypeOK
  <2>i. Ends(p) => RequestsKnown'
    BY <1>i
  <2>1. CASE LoginChallenge(p)
    <3>1. ASSUME NEW c \in challenges'
          PROVE  KnownVersion(c.user, c.pw)'
      <4>1. PICK u \in Users, v \in Nat : u = r.user /\ v = r.pw /\ KnownVersion(u, v)
        BY <2>0, <2>1, RequestFields DEF LoginChallenge, RecordKnown
      <4>2. CASE c \in challenges
        BY <1>0, <1>k, <4>2, KnownStaysKnown DEF ClientsKnown, TypeOK
      <4>3. CASE c = [user |-> u, pw |-> v]
        BY <1>0, <4>1, <4>3, KnownStaysKnown
      <4> QED
        BY <2>1, <4>1, <4>2, <4>3 DEF LoginChallenge
    <3> QED
      BY <1>0, <1>k, <2>1, <2>i, <3>1, ClientsStayKnown
      DEF LoginChallenge, ClientsKnown, tables
  <2>2. CASE LoginPass(p)
    <3>1. PICK s \in RequestStates :
            /\ Becomes(p, s)
            /\ s.at = "issue" /\ s.user = r.user /\ s.pw = r.pw
      BY <2>0, <2>2, RequestFields DEF LoginPass, RequestStates
    <3>2. RecordKnown(s)
      BY <2>0, <2>2, <3>1 DEF LoginPass, RecordKnown
    <3> QED
      BY <1>0, <1>c, <1>k, <2>2, <3>1, <3>2, RecordStaysKnown, RequestsStayKnown
      DEF LoginPass, tables
  <2>3. ASSUME NEW f \in Families, IssueCommit(p, f)
        PROVE  RequestsKnown' /\ ClientsKnown'
    <3>1. \A t \in delivered' : t \in delivered \/ t = <<f, 1>>
      BY <2>3 DEF IssueCommit, IssueTokenPair, Deliver
    <3>2. KnownToken(<<f, 1>>)'
      BY <2>3 DEF IssueCommit, IssueTokenPair, NewFamily, KnownToken, TypeOK
    <3>3. \A t \in delivered' : KnownToken(t)'
      BY <1>0, <1>k, <3>1, <3>2, KnownStaysKnown DEF ClientsKnown, TypeOK
    <3> QED
      BY <1>0, <1>k, <2>3, <2>i, <3>3, ClientsStayKnown DEF IssueCommit, ClientsKnown
  <2>4. CASE ChallengeAccept(p)
    <3>1. PICK s \in RequestStates :
            /\ Becomes(p, s)
            /\ s.at = "issue" /\ s.user = r.user /\ s.pw = r.pw
      BY <2>0, <2>4, RequestFields DEF ChallengeAccept, RequestStates, Origins
    <3>2. RecordKnown(s)
      BY <2>0, <2>4, <3>1 DEF ChallengeAccept, RecordKnown
    <3> QED
      BY <1>0, <1>c, <1>k, <2>4, <3>1, <3>2, RecordStaysKnown, RequestsStayKnown
      DEF ChallengeAccept, tables
  <2>5. CASE ChallengeReject(p)
    BY <1>c, <2>5, <2>i DEF ChallengeReject, tables
  <2>6. CASE RefreshReadFamily(p)
    <3>1. \/ Ends(p)
          \/ \E s \in RequestStates :
               Becomes(p, s) /\ s.at \in {"rotate", "revoke"} /\ s.token = r.token
      BY <2>0, <2>6, RequestFields DEF RefreshReadFamily, Verdict, RequestStates
    <3>2. CASE Ends(p)
      BY <1>c, <2>6, <2>i, <3>2 DEF RefreshReadFamily, tables
    <3>3. ASSUME NEW s \in RequestStates, Becomes(p, s),
                 s.at \in {"rotate", "revoke"}, s.token = r.token
          PROVE  RequestsKnown' /\ ClientsKnown'
      <4>1. RecordKnown(s)
        BY <2>0, <2>6, <3>3 DEF RefreshReadFamily, RecordKnown
      <4> QED
        BY <1>0, <1>c, <1>k, <2>6, <3>3, <4>1, RecordStaysKnown, RequestsStayKnown
        DEF RefreshReadFamily, tables
    <3> QED
      BY <3>1, <3>2, <3>3
  <2>7. CASE RefreshRotate(p)
    <3>1. PICK f \in Families, n \in Nat :
            f = r.token[1] /\ n = families[f].last + 1 /\ families[f] \in FamilyRows
      BY <2>0, <2>7, RequestFields DEF RefreshRotate, TypeOK, FamilyRows
    <3>2. \A t \in delivered' : t \in delivered \/ t = <<f, n>>
      BY <2>7, <3>1 DEF RefreshRotate, Deliver
    <3>3. families'[f].last = n /\ 1 <= n
      BY <2>7, <3>1, RowRotatedTyped DEF RefreshRotate, TypeOK, FamilyRows
    <3>4. KnownToken(<<f, n>>)'
      BY <3>1, <3>3 DEF KnownToken
    <3>5. \A t \in delivered' : KnownToken(t)'
      BY <1>0, <1>k, <3>2, <3>4, KnownStaysKnown DEF ClientsKnown, TypeOK
    <3> QED
      BY <1>0, <1>k, <2>7, <2>i, <3>5, ClientsStayKnown DEF RefreshRotate, ClientsKnown
  <2>8. CASE RefreshRevoke(p)
    BY <1>c, <2>8, <2>i DEF RefreshRevoke
  <2>9. CASE ResetWrite(p)
    <3>1. PICK u \in Users : u = r.user /\ Registered(u)
      BY <2>0, <2>9, RequestFields DEF ResetWrite, RecordKnown
    <3>2. ASSUME NEW q \in Requests
          PROVE  \E s \in RequestStates : s = requests'[q] /\ RecordKnown(s)'
      <4>1. PICK s \in RequestStates : s = requests'[q]
        BY <1>0 DEF TypeOK
      <4>2. CASE q = p
        <5>1. s.at = "commit" /\ s.user = u /\ s.hit = FamiliesOf(u)
          BY <2>9, <3>1, <4>1, <4>2 DEF ResetWrite
        <5> QED
          BY <1>0, <3>1, <4>1, <5>1, RecordStaysKnown DEF RecordKnown
      <4>3. CASE q # p
        <5>1. requests[q] \in RequestStates /\ RecordKnown(requests[q])
          BY <1>k DEF RequestsKnown, TypeOK
        <5>2. \/ s = requests[q]
              \/ /\ s.at = requests[q].at /\ s.user = requests[q].user
                 /\ s.pw = requests[q].pw /\ s.at \in {"gate", "issue"}
          BY <2>9, <4>1, <4>3, <5>1, RequestFields DEF ResetWrite
        <5>3. RecordKnown(s)
          BY <5>1, <5>2 DEF RecordKnown
        <5> QED
          BY <1>0, <4>1, <5>3, RecordStaysKnown
      <4> QED
        BY <4>2, <4>3
    <3> QED
      BY <1>c, <2>9, <3>2 DEF ResetWrite, RequestsKnown, tables
  <2>10. CASE ResetCommit(p)
    <3>1. r.user \in Users
      BY <2>0, <2>10, RequestFields DEF ResetCommit
    <3>2. \A u \in Users : users'[u].reset => users[u].reset
      BY <2>10, <3>1 DEF ResetCommit, TypeOK
    <3>3. \A u \in Users : users'[u].reset => Registered(u)'
      BY <1>0, <1>k, <3>2, KnownStaysKnown DEF ClientsKnown
    <3> QED
      BY <1>0, <1>k, <2>10, <2>i, <3>3, ClientsStayKnown DEF ResetCommit, ClientsKnown, clients
  <2>11. CASE MfaWrite(p)
    BY <1>c, <2>11, <2>i DEF MfaWrite
  <2>12. CASE LockRow(p)
    BY <1>c, <1>u, <2>12 DEF LockRow, tables
  <2> QED
    BY <1>10, <2>1, <2>2, <2>3, <2>4, <2>5, <2>6, <2>7, <2>8, <2>9, <2>10, <2>11, <2>12
    DEF Continue
<1>11. CASE UNCHANGED vars
  BY <1>11, <1>c, <1>u DEF vars, tables
<1> QED
  BY <1>1, <1>2, <1>3, <1>4, <1>5, <1>6, <1>7, <1>8, <1>9, <1>10, <1>11 DEF Next

LEMMA KnownInvariant == Spec => [](TypeOK /\ KnownInv)
<1>1. Init => TypeOK /\ KnownInv
  <2>1. Init => TypeOK
    BY DEF Init, TypeOK, NoFamily, Idle, RequestStates, Origins, UserRows, FamilyRows
  <2>2. Init => KnownInv
    BY DEF Init, NoFamily, Idle, KnownInv, FamiliesKnown, RequestsKnown, RecordKnown,
           ClientsKnown, Exists
  <2> QED
    BY <2>1, <2>2
<1>2. TypeOK /\ KnownInv /\ [Next]_vars => (TypeOK /\ KnownInv)'
  BY NextTyped, KnownInductive
<1> QED
  BY <1>1, <1>2, PTL DEF Spec

-------------------------------------------------------------------------------
(* A revoked family is never usable again, whatever the requests that had  *)
(* read it before the revocation commit afterwards.                        *)
THEOREM RevocationPermanent == Spec => RevocationIsPermanent
<1>1. TypeOK /\ KnownInv /\ [Next]_vars =>
        [\A f \in Families : families[f].revoked => families'[f].revoked]_vars
  BY TablesGrow DEF KnownInv, FamiliesKnown, FamiliesGrow
<1> QED
  BY <1>1, KnownInvariant, PTL DEF Spec, RevocationIsPermanent

-------------------------------------------------------------------------------
(* TokenLifecycle implements FamilyContract: every step issues one unborn  *)
(* family, replaces the current token of one live family, kills families   *)
(* of one owner, or changes nothing the contract speaks of.                *)
THEOREM ImplementsContract == Spec => ContractSpec
<1>1. Init => Contract!Init
  BY DEF Init, Contract!Init, NoFamily, Exists
<1>2. TypeOK /\ KnownInv /\ [Next]_vars => [Contract!Next]_Contract!contractVars
  <2> SUFFICES ASSUME TypeOK, KnownInv, [Next]_vars
               PROVE  Contract!Next \/ UNCHANGED Contract!contractVars
    OBVIOUS
  <2>0. FamiliesStep
    BY FamiliesStepped
  <2>1. CASE UNCHANGED families
    BY <2>1 DEF Contract!contractVars, Exists
  <2>2. ASSUME NEW u \in Users, NEW f \in Families, IssuesFamily(u, f)
        PROVE  Contract!Issue(f, u)
    <3>1. PICK row : /\ row.user = u /\ row.revoked = FALSE /\ row.last = 1
                     /\ families' = [families EXCEPT ![f] = row]
      BY <2>2 DEF IssuesFamily, IssueTokenPair, NewFamily
    <3>2. \A g \in Families : families'[g] = IF g = f THEN row ELSE families[g]
      BY <3>1 DEF TypeOK
    <3>3. ~Exists(f)
      BY <2>2 DEF IssuesFamily, IssueTokenPair
    <3>4. /\ \A g \in Families \ {f} : families'[g] = families[g]
          /\ families'[f].user = u /\ ~families'[f].revoked /\ families'[f].last = 1
      BY <3>1, <3>2
    <3>5. Exists(f)' /\ \A g \in Families \ {f} : Exists(g)' <=> Exists(g)
      BY <3>4 DEF Exists
    <3>6. Contract!Issue(f, u)!1
      BY <3>3
    <3>7. Contract!Issue(f, u)!2
      BY <3>4, <3>5
    <3>8. Contract!Issue(f, u)!3
      BY <3>4
    <3>9. Contract!Issue(f, u)!4
      BY <3>4
    <3> QED
      BY <3>6, <3>7, <3>8, <3>9 DEF Contract!Issue
  <2>3. ASSUME NEW f \in Families, RotatesFamily(f), ~families[f].revoked
        PROVE  Contract!Exchange(f)
    <3>1. PICK row : /\ row = RowRotated(families[f])
                     /\ families' = [families EXCEPT ![f] = row]
      BY <2>3 DEF RotatesFamily
    <3>2. /\ families[f].last \in Nat
          /\ row.user = families[f].user /\ row.revoked = families[f].revoked
          /\ row.last = families[f].last + 1
      BY <3>1, RowRotatedTyped DEF TypeOK, FamilyRows
    <3>3. \A g \in Families : families'[g] = IF g = f THEN row ELSE families[g]
      BY <3>1 DEF TypeOK
    <3>4. /\ \A g \in Families \ {f} : families'[g] = families[g]
          /\ families'[f].user = families[f].user
          /\ ~families'[f].revoked
          /\ families'[f].last = families[f].last + 1
          /\ families[f].last > 0 /\ families'[f].last > 0
      BY <2>3, <3>2, <3>3 DEF RotatesFamily, Exists
    <3> QED
      BY <2>3, <3>4 DEF Contract!Exchange, Exists
  <2>4. ASSUME NEW f \in Families, RotatesFamily(f), families[f].revoked
        PROVE  UNCHANGED Contract!contractVars
    BY <2>4, RowRotatedTyped
    DEF RotatesFamily, Contract!contractVars, Exists, TypeOK, FamilyRows
  <2>5. ASSUME NEW u \in Users, NEW S \in SUBSET Families, RevokesFamilies(u, S)
        PROVE  Contract!Revoke(u, S)
    BY <2>5, RowRevokedTyped
    DEF RevokesFamilies, FamiliesOf, Contract!Revoke, Exists, TypeOK
  <2> QED
    BY <2>0, <2>1, <2>2, <2>3, <2>4, <2>5 DEF FamiliesStep, Contract!Next
<1> QED
  BY <1>1, <1>2, KnownInvariant, PTL DEF Spec, ContractSpec, Contract!Spec

-------------------------------------------------------------------------------
(* Row locks.  A row is locked by one transaction at a time, a transaction *)
(* locks only rows its statements need, and an open reset has locked the   *)
(* user's row.                                                             *)
LocksInv ==
  /\ \A p, q \in Requests : p # q => locks[p] \cap locks[q] = {}
  /\ \A p \in Requests :
       /\ locks[p] \subseteq Needs(requests[p])
       /\ requests[p].at = "commit" => requests[p].user \in locks[p]

(* How a step moves requests that lock rows.                               *)
LockMoves ==
  \/ UNCHANGED <<requests, locks>>
  \/ \E p \in Requests, r \in RequestStates :
       /\ Becomes(p, r)
       /\ requests[p].at \notin {"rotate", "revoke", "write", "commit"}
       /\ r.at # "commit"
  \/ \E p \in Requests : Ends(p) \/ LockRow(p) \/ ResetWrite(p)

LEMMA NextLockMoves == TypeOK /\ [Next]_vars => LockMoves
<1> SUFFICES ASSUME TypeOK, [Next]_vars
             PROVE  LockMoves
  OBVIOUS
<1>0. \A p \in Requests : requests[p] \in RequestStates
  BY DEF TypeOK
<1>1. ASSUME NEW p \in Requests, NEW r, Becomes(p, r),
             requests[p].at \notin {"rotate", "revoke", "write", "commit"},
             r.at # "commit", TypeOK'
      PROVE  LockMoves
  <2>1. r \in RequestStates
    BY <1>1 DEF Becomes, TypeOK
  <2> QED
    BY <1>1, <2>1 DEF LockMoves
<1>2. TypeOK'
  BY NextTyped
<1>3. ASSUME NEW p \in Requests, NEW u \in Users, LoginCheckPassword(p, u)
      PROVE  LockMoves
  BY <1>1, <1>2, <1>3 DEF LoginCheckPassword, Idle
<1>4. ASSUME NEW p \in Requests, NEW c \in challenges, ChallengeReadUser(p, c)
      PROVE  LockMoves
  BY <1>1, <1>2, <1>4 DEF ChallengeReadUser, Idle
<1>5. ASSUME NEW p \in Requests, NEW t \in delivered, RefreshReadUser(p, t)
      PROVE  LockMoves
  BY <1>1, <1>2, <1>5 DEF RefreshReadUser, Idle
<1>6. ASSUME NEW p \in Requests, NEW u \in Users,
             ResetReadToken(p, u) \/ MfaVerify(p, u) \/ MfaDisable(p, u)
      PROVE  LockMoves
  BY <1>1, <1>2, <1>6 DEF ResetReadToken, MfaVerify, MfaDisable, Idle
<1>7. ASSUME NEW p \in Requests, Continue(p)
      PROVE  LockMoves
  <2>1. CASE LoginPass(p)
    <3>1. [requests[p] EXCEPT !.at = "issue"].at = "issue"
      BY <1>0, <2>1, RequestFields DEF LoginPass
    <3> QED
      BY <1>1, <1>2, <2>1, <3>1 DEF LoginPass
  <2>2. CASE ChallengeAccept(p)
    BY <1>1, <1>2, <2>2 DEF ChallengeAccept
  <2>3. CASE RefreshReadFamily(p)
    <3>1. CASE Ends(p)
      BY <3>1 DEF LockMoves
    <3>2. CASE ~Ends(p)
      <4>1. PICK r : Becomes(p, r) /\ r.at \in {"rotate", "revoke"}
        BY <2>3, <3>2 DEF RefreshReadFamily, Verdict
      <4> QED
        BY <1>1, <1>2, <2>3, <4>1 DEF RefreshReadFamily
    <3> QED
      BY <3>1, <3>2
  <2>4. CASE \/ LoginChallenge(p) \/ ChallengeReject(p) \/ MfaWrite(p)
             \/ RefreshRotate(p) \/ RefreshRevoke(p) \/ ResetCommit(p)
             \/ \E f \in Families : IssueCommit(p, f)
    BY <2>4 DEF LoginChallenge, ChallengeReject, MfaWrite, RefreshRotate,
                RefreshRevoke, ResetCommit, IssueCommit, LockMoves
  <2>5. CASE LockRow(p) \/ ResetWrite(p)
    BY <2>5 DEF LockMoves
  <2> QED
    BY <1>7, <2>1, <2>2, <2>3, <2>4, <2>5 DEF Continue
<1>8. ASSUME NEW p \in Requests, Abort(p)
      PROVE  LockMoves
  BY <1>8 DEF Abort, LockMoves
<1>9. CASE \/ \E u \in Users, f \in Families : Register(u, f)
           \/ \E u \in Users : ForgotPassword(u) \/ ResetTokenExpires(u) \/ MfaSetup(u)
           \/ \E u \in Users, active \in BOOLEAN : SetActive(u, active)
           \/ UNCHANGED vars
  BY <1>9 DEF Register, ForgotPassword, ResetTokenExpires, MfaSetup, SetActive, vars, LockMoves
<1> QED
  BY <1>3, <1>4, <1>5, <1>6, <1>7, <1>8, <1>9 DEF Next

LEMMA LocksInductive == TypeOK /\ LocksInv /\ [Next]_vars => LocksInv'
<1> SUFFICES ASSUME TypeOK, LocksInv, [Next]_vars
             PROVE  LocksInv'
  OBVIOUS
<1>0. \A p \in Requests : requests[p] \in RequestStates
  BY DEF TypeOK
<1>1. CASE UNCHANGED <<requests, locks>>
  BY <1>1 DEF LocksInv, Needs
<1>2. ASSUME NEW p \in Requests, NEW r \in RequestStates, Becomes(p, r),
             requests[p].at \notin {"rotate", "revoke", "write", "commit"},
             r.at # "commit"
      PROVE  LocksInv'
  <2>1. locks[p] = {} /\ locks' = locks
    BY <1>0, <1>2, NeedsRows DEF LocksInv, Becomes
  <2>2. requests'[p] = r /\ \A q \in Requests \ {p} : requests'[q] = requests[q]
    BY <1>2 DEF Becomes, TypeOK
  <2>3. \A q \in Requests \ {p} : Needs(requests'[q]) = Needs(requests[q])
    BY <2>2
  <2> QED
    BY <1>2, <2>1, <2>2, <2>3 DEF LocksInv
<1>3. ASSUME NEW p \in Requests, Ends(p)
      PROVE  LocksInv'
  <2>1. /\ requests'[p] = Idle /\ \A q \in Requests \ {p} : requests'[q] = requests[q]
        /\ locks'[p] = {} /\ \A q \in Requests \ {p} : locks'[q] = locks[q]
    BY <1>3 DEF Ends, TypeOK
  <2>2. requests'[p].at # "commit"
    BY <2>1 DEF Idle
  <2>3. \A q \in Requests \ {p} : Needs(requests'[q]) = Needs(requests[q])
    BY <2>1
  <2> QED
    BY <2>1, <2>2, <2>3 DEF LocksInv
<1>4. ASSUME NEW p \in Requests, LockRow(p)
      PROVE  LocksInv'
  <2>1. PICK row \in ToLock(p) : Free(row) /\ locks' = [locks EXCEPT ![p] = @ \cup {row}]
    BY <1>4 DEF LockRow
  <2>2. /\ requests' = requests
        /\ locks'[p] = locks[p] \cup {row}
        /\ \A q \in Requests \ {p} : locks'[q] = locks[q]
    BY <1>4, <2>1 DEF LockRow, TypeOK
  <2>3. row \in Needs(requests[p]) /\ \A q \in Requests : row \notin locks[q]
    BY <2>1 DEF ToLock, Free
  <2>4. \A q \in Requests : Needs(requests'[q]) = Needs(requests[q])
    BY <2>2
  <2> QED
    BY <2>2, <2>3, <2>4 DEF LocksInv
<1>5. ASSUME NEW p \in Requests, ResetWrite(p)
      PROVE  LocksInv'
  <2>1. /\ requests[p].at = "write" /\ requests[p].user \in locks[p]
        /\ locks' = locks
        /\ requests'[p] = [at |-> "commit", user |-> requests[p].user,
                            hit |-> FamiliesOf(requests[p].user)]
    BY <1>0, <1>5, NeedsRows DEF ResetWrite, ToLock
  <2>2. Needs(requests[p]) = {requests[p].user}
    BY <1>0, <2>1, NeedsRows
  <2>3. requests'[p] \in RequestStates
    BY NextTyped DEF TypeOK
  <2>4. requests[p].user \in Needs(requests'[p])
    BY <2>1, <2>3, NeedsRows
  <2>5. ASSUME NEW q \in Requests \ {p}
        PROVE  /\ locks[q] \subseteq Needs(requests'[q])
               /\ requests'[q].at = "commit" => requests'[q].user \in locks[q]
    <3>1. CASE requests[q].at \in {"gate", "issue"}
      <4>1. requests'[q] = requests[q] \/ requests'[q] = [requests[q] EXCEPT !.via = "raced"]
        BY <1>5, <2>5 DEF ResetWrite
      <4>2. requests'[q].at = requests[q].at
        BY <1>0, <3>1, <4>1, RequestFields
      <4>3. Needs(requests[q]) = {}
        BY <1>0, <3>1, NeedsRows
      <4> QED
        BY <3>1, <4>2, <4>3 DEF LocksInv
    <3>2. CASE requests[q].at \notin {"gate", "issue"}
      <4>1. requests'[q] = requests[q]
        BY <1>5, <2>5, <3>2 DEF ResetWrite
      <4> QED
        BY <4>1 DEF LocksInv
    <3> QED
      BY <3>1, <3>2
  <2>6. locks[p] \subseteq {requests[p].user} /\ requests'[p].user = requests[p].user
    BY <2>1, <2>2 DEF LocksInv
  <2> QED
    BY <2>1, <2>4, <2>5, <2>6 DEF LocksInv
<1> QED
  BY <1>1, <1>2, <1>3, <1>4, <1>5, NextLockMoves DEF LockMoves

LEMMA LocksInvariant == Spec => []LocksInv
<1>1. Init => LocksInv
  BY DEF Init, LocksInv, Idle
<1> QED
  BY <1>1, TypeCorrect, LocksInductive, PTL DEF Spec

(* The reset that starts its bulk UPDATE is the only open one of its user. *)
LEMMA WriterAlone ==
  ASSUME TypeOK, LocksInv, NEW p \in Requests, ResetWrite(p)
  PROVE  ~ResetOpen(requests[p].user)
<1>1. requests[p].at = "write" /\ requests[p].user \in locks[p]
  <2>1. requests[p] \in RequestStates
    BY DEF TypeOK
  <2> QED
    BY <2>1, NeedsRows DEF ResetWrite, ToLock
<1> QED
  BY <1>1 DEF ResetOpen, LocksInv

(* However many transactions there are, some one of them waits for none of *)
(* the others.  A transaction that waits while it holds a row is a reset   *)
(* that holds its user's; what it waits for is held by exchanges, which    *)
(* have all they need, or nobody.                                          *)
THEOREM NoDeadlock == Spec => []NoCircularWait
<1>1. TypeOK /\ KnownInv /\ LocksInv => NoCircularWait
  <2> SUFFICES ASSUME TypeOK, KnownInv, LocksInv,
                      NEW S \in SUBSET Requests, S # {}
               PROVE  \E p \in S : \A q \in S : ~WaitsFor(p, q)
    BY DEF NoCircularWait
  <2>0. \A p \in Requests : requests[p] \in RequestStates /\ locks[p] \subseteq Needs(requests[p])
    BY DEF TypeOK, LocksInv
  <2>1. CASE \E p \in S : ToLock(p) = {}
    BY <2>1 DEF WaitsFor
  <2>2. CASE \A p \in S : ToLock(p) # {}
    <3>1. ASSUME NEW p \in S, locks[p] # {}
          PROVE  requests[p].at = "commit"
      <4>1. Needs(requests[p]) # {} /\ Needs(requests[p]) # locks[p]
        BY <2>0, <2>2, <3>1 DEF ToLock
      <4>2. requests[p].at \in {"rotate", "revoke", "write", "commit"}
        BY <2>0, <4>1, NeedsRows
      <4>3. CASE requests[p].at \in {"rotate", "revoke"}
        <5>1. Needs(requests[p]) = {requests[p].token[1]}
          BY <2>0, <4>3, NeedsRows
        <5> QED
          BY <2>0, <3>1, <4>1, <5>1
      <4>4. CASE requests[p].at = "write"
        <5>1. Needs(requests[p]) = {requests[p].user}
          BY <2>0, <4>4, NeedsRows
        <5> QED
          BY <2>0, <3>1, <4>1, <5>1
      <4> QED
        BY <4>2, <4>3, <4>4
    <3>2. CASE \E p \in S : locks[p] # {}
      <4>1. PICK p \in S : locks[p] # {}
        BY <3>2
      <4>2. requests[p].at = "commit"
        BY <3>1, <4>1
      <4>3. ASSUME NEW q \in S, WaitsFor(p, q)
            PROVE  FALSE
        <5>1. PICK row : row \in ToLock(p) /\ row \in locks[q] /\ p # q
          BY <4>3 DEF WaitsFor
        <5>2. requests[q].at = "commit"
          BY <3>1, <5>1
        <5>3. /\ requests[p].user \in locks[p] /\ requests[q].user \in locks[q]
              /\ requests[p].user \in Users /\ requests[q].user \in Users
              /\ requests[p].user # requests[q].user
          BY <2>0, <4>2, <5>1, <5>2, RequestFields DEF LocksInv
        <5>4. row \in requests[p].hit
          BY <2>0, <4>2, <5>1, <5>3, NeedsRows DEF ToLock
        <5>5. row \in Families /\ families[row].user = requests[p].user
          BY <4>2, <5>4 DEF KnownInv, RequestsKnown, RecordKnown, FamiliesOf
        <5>6. row \in requests[q].hit
          BY <2>0, <5>1, <5>2, <5>3, <5>5, NeedsRows, LifecycleAssumption
        <5>7. families[row].user = requests[q].user
          BY <5>2, <5>6 DEF KnownInv, RequestsKnown, RecordKnown, FamiliesOf
        <5> QED
          BY <5>3, <5>5, <5>7
      <4> QED
        BY <4>3
    <3>3. CASE \A p \in S : locks[p] = {}
      BY <3>3 DEF WaitsFor
    <3> QED
      BY <3>2, <3>3
  <2> QED
    BY <2>1, <2>2
<1> QED
  BY <1>1, KnownInvariant, LocksInvariant, PTL

-------------------------------------------------------------------------------
(* ResetInv is inductive.  All steps but the two of a reset's transaction  *)
(* keep it for the same three reasons, stated first.                       *)

(* A login in flight was in flight before, or it has just read the current *)
(* password while no reset was open.                                       *)
LoginsKept ==
  \A q \in Requests :
    requests'[q].at \in {"gate", "issue"} /\ requests'[q].via = "login" =>
      \/ /\ requests[q].at \in {"gate", "issue"} /\ requests[q].via = "login"
         /\ requests'[q].user = requests[q].user
         /\ requests'[q].pw = requests[q].pw
      \/ /\ requests'[q].pw = users'[requests'[q].user].pw
         /\ ~ResetOpen(requests'[q].user)

ResetsKept ==
  \A q \in Requests : requests'[q].at = "commit" => requests'[q] = requests[q]

PasswordsKept == \A u \in Users : Registered(u) => users'[u].pw = users[u].pw

(* A family that is live was live before, or it has just been issued for   *)
(* the current password while no reset was open.                           *)
LiveFamiliesKept ==
  \A f \in Families :
    Unraced(f)' =>
      \/ /\ Unraced(f)
         /\ families'[f].user = families[f].user
         /\ families'[f].pw = families[f].pw
      \/ /\ families'[f].pw = users'[families'[f].user].pw
         /\ ~ResetOpen(families'[f].user)

LEMMA KnownAreRegistered ==
  ASSUME TypeOK, KnownInv
  PROVE  /\ \A f \in Families :
              Exists(f) => families[f].user \in Users /\ Registered(families[f].user)
         /\ \A p \in Requests :
              requests[p].at \in {"gate", "issue", "write", "commit"} =>
                requests[p].user \in Users /\ Registered(requests[p].user)
<1>1. \A u \in Users : users[u].pw \in Nat
  BY DEF TypeOK, UserRows
<1>2. \A f \in Families : families[f].pw \in Nat
  BY DEF TypeOK, FamilyRows
<1>3. \A f \in Families :
        Exists(f) => families[f].user \in Users /\ Registered(families[f].user)
  BY <1>1, <1>2 DEF KnownInv, FamiliesKnown, KnownVersion, Registered
<1>4. ASSUME NEW p \in Requests, requests[p].at \in {"gate", "issue", "write", "commit"}
      PROVE  requests[p].user \in Users /\ Registered(requests[p].user)
  <2>1. requests[p] \in RequestStates /\ RecordKnown(requests[p])
    BY DEF TypeOK, KnownInv, RequestsKnown
  <2>2. requests[p].user \in Users
    BY <1>4, <2>1, RequestFields
  <2>3. CASE requests[p].at \in {"write", "commit"}
    BY <2>1, <2>2, <2>3 DEF RecordKnown
  <2>4. CASE requests[p].at \in {"gate", "issue"}
    BY <1>1, <2>1, <2>2, <2>4, RequestFields DEF RecordKnown, KnownVersion, Registered
  <2> QED
    BY <1>4, <2>2, <2>3, <2>4
<1> QED
  BY <1>3, <1>4

LEMMA ResetInvKept ==
  ASSUME TypeOK, KnownInv, ResetInv,
         LoginsKept, ResetsKept, PasswordsKept, LiveFamiliesKept
  PROVE  ResetInv'
<1>1. \A u : ResetOpen(u)' => ResetOpen(u)
  BY DEF ResetOpen, ResetsKept
<1>2. OldPasswordOnlyByRace'
  <2> SUFFICES ASSUME NEW f \in Families, Unraced(f)'
               PROVE  families'[f].pw = users'[families'[f].user].pw
    BY DEF OldPasswordOnlyByRace, Unraced, Exists
  <2>1. CASE /\ Unraced(f)
             /\ families'[f].user = families[f].user
             /\ families'[f].pw = families[f].pw
    BY <2>1, KnownAreRegistered
    DEF ResetInv, OldPasswordOnlyByRace, Unraced, PasswordsKept
  <2> QED
    BY <2>1 DEF LiveFamiliesKept
<1>3. UnracedLoginsCurrent'
  <2> SUFFICES ASSUME NEW q \in Requests,
                      requests'[q].at \in {"gate", "issue"}, requests'[q].via = "login"
               PROVE  /\ requests'[q].pw = users'[requests'[q].user].pw
                      /\ ~ResetOpen(requests'[q].user)
    BY <1>1 DEF UnracedLoginsCurrent, ResetOpen, ResetsKept
  <2>1. CASE /\ requests[q].at \in {"gate", "issue"} /\ requests[q].via = "login"
             /\ requests'[q].user = requests[q].user
             /\ requests'[q].pw = requests[q].pw
    BY <2>1, KnownAreRegistered DEF ResetInv, UnracedLoginsCurrent, PasswordsKept
  <2> QED
    BY <2>1 DEF LoginsKept
<1>4. OpenResetsCover'
  <2> SUFFICES ASSUME NEW q \in Requests, NEW f \in Families,
                      requests'[q].at = "commit", Unraced(f)',
                      families'[f].user = requests'[q].user
               PROVE  f \in requests'[q].hit
    BY DEF OpenResetsCover
  <2>1. requests'[q] = requests[q] /\ ResetOpen(families'[f].user)
    BY DEF ResetsKept, ResetOpen
  <2> QED
    BY <2>1 DEF LiveFamiliesKept, ResetInv, OpenResetsCover
<1> QED
  BY <1>2, <1>3, <1>4 DEF ResetInv

(* A request that moves to a state in which it is neither a login on its   *)
(* password nor an open reset keeps both kinds as they were.               *)
LEMMA QuietMove ==
  ASSUME TypeOK, NEW p \in Requests, NEW r, Becomes(p, r),
         r.at # "commit",
         r.at \in {"gate", "issue"} => r.via # "login"
  PROVE  LoginsKept /\ ResetsKept
  BY DEF TypeOK, Becomes, LoginsKept, ResetsKept

LEMMA QuietEnd ==
  ASSUME TypeOK, NEW p \in Requests, Ends(p)
  PROVE  LoginsKept /\ ResetsKept
  BY DEF TypeOK, Ends, Idle, LoginsKept, ResetsKept

LEMMA NoMove == UNCHANGED requests => LoginsKept /\ ResetsKept
  BY DEF LoginsKept, ResetsKept

LEMMA SameFamilies == UNCHANGED families => LiveFamiliesKept
  BY DEF LiveFamiliesKept, Unraced, Exists

LEMMA SamePasswords == UNCHANGED users => PasswordsKept
  BY DEF PasswordsKept

(* A family is issued for the current password, or not by a plain login.   *)
LEMMA IssueKept ==
  ASSUME TypeOK, NEW u \in Users, NEW f \in Families, NEW version, NEW origin,
         IssueTokenPair(u, f, version, origin),
         origin = "login" => version = users'[u].pw /\ ~ResetOpen(u)
  PROVE  LiveFamiliesKept
<1> SUFFICES ASSUME NEW g \in Families, Unraced(g)'
             PROVE  \/ /\ Unraced(g)
                       /\ families'[g].user = families[g].user
                       /\ families'[g].pw = families[g].pw
                    \/ /\ families'[g].pw = users'[families'[g].user].pw
                       /\ ~ResetOpen(families'[g].user)
  BY DEF LiveFamiliesKept
<1>1. CASE g = f
  BY <1>1 DEF IssueTokenPair, NewFamily, Unraced, TypeOK
<1>2. CASE g # f
  BY <1>2 DEF IssueTokenPair, Unraced, Exists, TypeOK
<1> QED
  BY <1>1, <1>2

LEMMA ResetInductive ==
  TypeOK /\ KnownInv /\ LocksInv /\ ResetInv /\ [Next]_vars => ResetInv'
<1> SUFFICES ASSUME TypeOK, KnownInv, LocksInv, ResetInv, [Next]_vars
             PROVE  ResetInv'
  OBVIOUS
<1>0. \A p \in Requests : requests[p] \in RequestStates
  BY DEF TypeOK
<1>i. \A p \in Requests : Ends(p) => LoginsKept /\ ResetsKept
  BY QuietEnd
<1>1. ASSUME NEW u \in Users, NEW f \in Families, Register(u, f)
      PROVE  ResetInv'
  <2>1. ~ResetOpen(u)
    BY <1>1, KnownAreRegistered DEF Register, ResetOpen
  <2>2. LiveFamiliesKept
    BY <1>1, <2>1, IssueKept DEF Register, TypeOK
  <2>3. PasswordsKept
    BY <1>1 DEF Register, PasswordsKept, TypeOK
  <2> QED
    BY <1>1, <2>2, <2>3, NoMove, ResetInvKept DEF Register
<1>2. ASSUME NEW p \in Requests, NEW u \in Users, LoginCheckPassword(p, u)
      PROVE  ResetInv'
  <2>1. LoginsKept /\ ResetsKept
    BY <1>2 DEF LoginCheckPassword, Becomes, LoginsKept, ResetsKept, tables, TypeOK
  <2> QED
    BY <1>2, <2>1, SameFamilies, SamePasswords, ResetInvKept DEF LoginCheckPassword, tables
<1>3. ASSUME NEW p \in Requests, NEW c \in challenges, ChallengeReadUser(p, c)
      PROVE  ResetInv'
  BY <1>3, QuietMove, SameFamilies, SamePasswords, ResetInvKept
  DEF ChallengeReadUser, tables
<1>4. ASSUME NEW p \in Requests, NEW t \in delivered, RefreshReadUser(p, t)
      PROVE  ResetInv'
  BY <1>4, QuietMove, SameFamilies, SamePasswords, ResetInvKept
  DEF RefreshReadUser, tables
<1>5. ASSUME NEW u \in Users, NEW b \in BOOLEAN,
             ForgotPassword(u) \/ ResetTokenExpires(u) \/ SetActive(u, b)
      PROVE  ResetInv'
  <2>1. PasswordsKept
    BY <1>5 DEF ForgotPassword, ResetTokenExpires, SetActive, PasswordsKept, TypeOK, UserRows
  <2>2. UNCHANGED <<families, requests>>
    BY <1>5 DEF ForgotPassword, ResetTokenExpires, SetActive
  <2> QED
    BY <2>1, <2>2, NoMove, SameFamilies, ResetInvKept
<1>6. ASSUME NEW p \in Requests, NEW u \in Users, ResetReadToken(p, u)
      PROVE  ResetInv'
  BY <1>6, QuietMove, SameFamilies, SamePasswords, ResetInvKept DEF ResetReadToken, tables
<1>7. ASSUME NEW u \in Users, MfaSetup(u)
      PROVE  ResetInv'
  BY <1>7, NoMove, SameFamilies, SamePasswords, ResetInvKept DEF MfaSetup
<1>8. ASSUME NEW p \in Requests, NEW u \in Users, MfaVerify(p, u) \/ MfaDisable(p, u)
      PROVE  ResetInv'
  BY <1>8, QuietMove, SameFamilies, SamePasswords, ResetInvKept
  DEF MfaVerify, MfaDisable, tables
<1>9. ASSUME NEW p \in Requests, Abort(p)
      PROVE  ResetInv'
  BY <1>9, <1>i, SameFamilies, SamePasswords, ResetInvKept DEF Abort, tables
<1>10. ASSUME NEW p \in Requests, Continue(p)
       PROVE  ResetInv'
  <2> DEFINE r == requests[p]
  <2>1. CASE LoginChallenge(p) \/ ChallengeReject(p) \/ MfaWrite(p)
    BY <1>i, <2>1, SameFamilies, SamePasswords, ResetInvKept
    DEF LoginChallenge, ChallengeReject, MfaWrite, tables
  <2>2. CASE LoginPass(p)
    <3>1. LoginsKept /\ ResetsKept
      <4>1. /\ requests'[p].at = "issue" /\ requests'[p].user = r.user
            /\ requests'[p].pw = r.pw /\ requests'[p].via = r.via
            /\ \A q \in Requests \ {p} : requests'[q] = requests[q]
        BY <1>0, <2>2, RequestFields DEF LoginPass, Becomes, TypeOK
      <4> QED
        BY <2>2, <4>1 DEF LoginPass, LoginsKept, ResetsKept
    <3> QED
      BY <2>2, <3>1, SameFamilies, SamePasswords, ResetInvKept DEF LoginPass, tables
  <2>3. ASSUME NEW f \in Families, IssueCommit(p, f)
        PROVE  ResetInv'
    <3>1. r.user \in Users
      BY <1>0, <2>3, RequestFields DEF IssueCommit
    <3>2. r.via = "login" => r.pw = users'[r.user].pw /\ ~ResetOpen(r.user)
      BY <2>3 DEF IssueCommit, ResetInv, UnracedLoginsCurrent
    <3>3. LiveFamiliesKept
      BY <2>3, <3>1, <3>2, IssueKept DEF IssueCommit
    <3> QED
      BY <1>i, <2>3, <3>3, SamePasswords, ResetInvKept DEF IssueCommit
  <2>4. CASE ChallengeAccept(p)
    BY <2>4, QuietMove, SameFamilies, SamePasswords, ResetInvKept
    DEF ChallengeAccept, tables
  <2>6. CASE RefreshReadFamily(p)
    <3>1. Ends(p) \/ \E s : Becomes(p, s) /\ s.at \in {"rotate", "revoke"}
      BY <2>6 DEF RefreshReadFamily, Verdict
    <3>2. LoginsKept /\ ResetsKept
      BY <1>i, <3>1, QuietMove
    <3> QED
      BY <2>6, <3>2, SameFamilies, SamePasswords, ResetInvKept
      DEF RefreshReadFamily, tables
  <2>7. CASE RefreshRotate(p) \/ RefreshRevoke(p)
    <3>1. r.token[1] \in Families
      BY <1>0, <2>7, RequestFields DEF RefreshRotate, RefreshRevoke
    <3>2. LiveFamiliesKept
      <4>1. /\ families[r.token[1]] \in FamilyRows
            /\ Exists(r.token[1])
        BY <1>0, <2>7, <3>1, RequestFields
        DEF RefreshRotate, RefreshRevoke, TypeOK, FamilyRows, KnownInv, RequestsKnown,
            RecordKnown, KnownToken, Exists
      <4>2. CASE RefreshRotate(p)
        BY <3>1, <4>1, <4>2, RowRotatedTyped
        DEF RefreshRotate, LiveFamiliesKept, Unraced, Exists, TypeOK
      <4>3. CASE RefreshRevoke(p)
        BY <3>1, <4>1, <4>3, RowRevokedTyped
        DEF RefreshRevoke, LiveFamiliesKept, Unraced, Exists, TypeOK
      <4> QED
        BY <2>7, <4>2, <4>3
    <3> QED
      BY <1>i, <2>7, <3>2, SamePasswords, ResetInvKept DEF RefreshRotate, RefreshRevoke
  <2>9. CASE ResetWrite(p)
    <3>1. PICK u \in Users : u = r.user
      BY <1>0, <2>9, RequestFields DEF ResetWrite
    <3>2. /\ UNCHANGED <<users, families>>
          /\ ~ResetOpen(u)
          /\ requests'[p].at = "commit" /\ requests'[p].user = u
          /\ requests'[p].hit = FamiliesOf(u)
      BY <2>9, <3>1, WriterAlone DEF ResetWrite, tables
    <3>3. ASSUME NEW q \in Requests \ {p}
          PROVE  /\ requests'[q].at = "commit" => requests'[q] = requests[q]
                 /\ requests'[q].at \in {"gate", "issue"} /\ requests'[q].via = "login" =>
                      requests'[q] = requests[q] /\ requests[q].user # u
      <4>1. CASE requests[q].at \in {"gate", "issue"} /\ requests[q].user = u
                   /\ requests[q].via = "login"
        <5>1. requests'[q] = [requests[q] EXCEPT !.via = "raced"]
          BY <2>9, <3>1, <4>1 DEF ResetWrite
        <5>2. requests'[q].at = requests[q].at /\ requests'[q].via = "raced"
          BY <1>0, <4>1, <5>1, RequestFields
        <5> QED
          BY <4>1, <5>2
      <4>2. CASE ~(requests[q].at \in {"gate", "issue"} /\ requests[q].user = u
                    /\ requests[q].via = "login")
        <5>1. requests'[q] = requests[q]
          BY <2>9, <3>1, <4>2 DEF ResetWrite
        <5> QED
          BY <4>2, <5>1
      <4> QED
        BY <4>1, <4>2
    <3>4. \A v : ResetOpen(v)' => v = u \/ ResetOpen(v)
      BY <3>2, <3>3 DEF ResetOpen
    <3>5. OldPasswordOnlyByRace'
      BY <3>2 DEF ResetInv, OldPasswordOnlyByRace, Exists
    <3>6. UnracedLoginsCurrent'
      <4> SUFFICES ASSUME NEW q \in Requests,
                          requests'[q].at \in {"gate", "issue"}, requests'[q].via = "login"
                   PROVE  /\ requests'[q].pw = users'[requests'[q].user].pw
                          /\ requests'[q].user # u /\ ~ResetOpen(requests'[q].user)
        BY <3>4 DEF UnracedLoginsCurrent, ResetOpen
      <4>1. q # p
        BY <3>2
      <4> QED
        BY <3>2, <3>3, <4>1 DEF ResetInv, UnracedLoginsCurrent
    <3>7. OpenResetsCover'
      BY <3>2, <3>3 DEF ResetInv, OpenResetsCover, Unraced, FamiliesOf, Exists
    <3> QED
      BY <3>5, <3>6, <3>7 DEF ResetInv
  <2>10. CASE ResetCommit(p)
    <3>1. PICK u \in Users : u = r.user /\ ResetOpen(u)
      BY <1>0, <2>10, RequestFields DEF ResetCommit, ResetOpen
    <3>2. /\ r.at = "commit"
          /\ requests'[p] = Idle /\ \A q \in Requests \ {p} : requests'[q] = requests[q]
          /\ \A v \in Users \ {u} : users'[v] = users[v]
      BY <2>10, <3>1 DEF ResetCommit, Becomes, Ends, TypeOK
    <3>3. ASSUME NEW f \in Families, Unraced(f)'
          PROVE  Unraced(f) /\ families'[f] = families[f] /\ families[f].user # u
      <4>1. families[f] \in FamilyRows
        BY DEF TypeOK
      <4>2. f \notin r.hit /\ families'[f] = families[f]
        BY <2>10, <3>3, <4>1, RowRevokedTyped DEF ResetCommit, Unraced, Exists
      <4>3. Unraced(f)
        BY <3>3, <4>2 DEF Unraced, Exists
      <4> QED
        BY <3>1, <3>2, <4>2, <4>3 DEF ResetInv, OpenResetsCover
    <3>4. ASSUME NEW q \in Requests, requests'[q].at # "idle"
          PROVE  q # p /\ requests'[q] = requests[q]
      BY <3>2, <3>4 DEF Idle
    <3>5. OldPasswordOnlyByRace'
      <4> SUFFICES ASSUME NEW f \in Families, Unraced(f)'
                   PROVE  families'[f].pw = users'[families'[f].user].pw
        BY DEF OldPasswordOnlyByRace, Unraced, Exists
      <4> QED
        BY <3>2, <3>3, KnownAreRegistered DEF ResetInv, OldPasswordOnlyByRace, Unraced
    <3>6. UnracedLoginsCurrent'
      <4> SUFFICES ASSUME NEW q \in Requests,
                          requests'[q].at \in {"gate", "issue"}, requests'[q].via = "login"
                   PROVE  /\ requests'[q].pw = users'[requests'[q].user].pw
                          /\ ~ResetOpen(requests'[q].user)
        BY <3>4 DEF UnracedLoginsCurrent, ResetOpen
      <4>1. requests'[q] = requests[q]
        BY <3>4
      <4>2. requests[q].user \in Users \ {u}
        BY <3>1, <4>1, KnownAreRegistered DEF ResetInv, UnracedLoginsCurrent
      <4> QED
        BY <3>2, <4>1, <4>2 DEF ResetInv, UnracedLoginsCurrent
    <3>7. OpenResetsCover'
      BY <3>3, <3>4 DEF ResetInv, OpenResetsCover
    <3> QED
      BY <3>5, <3>6, <3>7 DEF ResetInv
  <2>11. CASE LockRow(p)
    BY <2>11, NoMove, SameFamilies, SamePasswords, ResetInvKept DEF LockRow, tables
  <2> QED
    BY <1>10, <2>1, <2>2, <2>3, <2>4, <2>6, <2>7, <2>9, <2>10, <2>11 DEF Continue
<1>11. CASE UNCHANGED vars
  BY <1>11, NoMove, SameFamilies, SamePasswords, ResetInvKept DEF vars, tables
<1> QED
  BY <1>1, <1>2, <1>3, <1>4, <1>5, <1>6, <1>7, <1>8, <1>9, <1>10, <1>11 DEF Next

(* However logins, exchanges and resets interleave, a password login that  *)
(* did not overlap a reset's transaction leaves no live family behind once *)
(* the password it verified has been replaced.                             *)
THEOREM OldPasswordTokensDie == Spec => []OldPasswordOnlyByRace
<1>1. Init => ResetInv
  BY DEF Init, NoFamily, Idle, ResetInv, OldPasswordOnlyByRace, UnracedLoginsCurrent,
         OpenResetsCover, Exists
<1>2. ResetInv => OldPasswordOnlyByRace
  BY DEF ResetInv
<1> QED
  BY <1>1, <1>2, KnownInvariant, LocksInvariant, ResetInductive, PTL DEF Spec

-------------------------------------------------------------------------------
(* PresentInv is inductive.  It is kept by every step that neither admits  *)
(* nor advances an exchange.                                               *)

\* Who presents a token after the step presented it before, where it was.
NobodyNewPresents ==
  \A q \in Requests : Presenting(q)' => requests'[q] = requests[q]

\* Every row keeps its newest token, or is one that did not exist.
TokensKept ==
  \A f \in Families :
    families'[f].last = families[f].last \/ (~Exists(f) /\ families'[f].last = 1)

LEMMA PresentInvKept ==
  ASSUME TypeOK, KnownInv, PresentInv, NobodyNewPresents, TokensKept,
         UNCHANGED <<shown, replayed>>
  PROVE  PresentInv'
<1>1. PresentedAreShown'
  BY DEF PresentInv, PresentedAreShown, NobodyNewPresents, Presenting
<1>2. SharedIsReplayed'
  BY DEF PresentInv, SharedIsReplayed, NobodyNewPresents, Presenting
<1>3. PresentedIsCurrent'
  <2> SUFFICES ASSUME NEW p \in Requests, Presenting(p)', requests[p].token[1] \notin replayed
               PROVE  /\ requests[p].token[2] = families'[requests[p].token[1]].last
                      /\ requests[p].at # "revoke"
    BY DEF PresentedIsCurrent, NobodyNewPresents
  <2>1. requests'[p] = requests[p] /\ Presenting(p)
    BY DEF NobodyNewPresents, Presenting
  <2>2. /\ requests[p].token[2] = families[requests[p].token[1]].last
        /\ requests[p].at # "revoke"
    BY <2>1 DEF PresentInv, PresentedIsCurrent
  <2>3. requests[p].token[1] \in Families /\ Exists(requests[p].token[1])
    BY <2>1, RequestFields
    DEF Presenting, TypeOK, FamilyRows, KnownInv, RequestsKnown, RecordKnown, KnownToken, Exists
  <2> QED
    BY <2>2, <2>3 DEF TokensKept
<1>4. SupersededAreShown'
  <2> SUFFICES ASSUME NEW f \in Families, f \notin replayed,
                      NEW n \in 1 .. (families'[f].last - 1)
               PROVE  <<f, n>> \in shown
    BY DEF SupersededAreShown
  <2>1. families'[f].last = families[f].last
    BY DEF TokensKept
  <2> QED
    BY <2>1 DEF PresentInv, SupersededAreShown
<1> QED
  BY <1>1, <1>2, <1>3, <1>4 DEF PresentInv

LEMMA PresentInductive == TypeOK /\ KnownInv /\ PresentInv /\ [Next]_vars => PresentInv'
<1> SUFFICES ASSUME TypeOK, KnownInv, PresentInv, [Next]_vars
             PROVE  PresentInv'
  OBVIOUS
<1>0. /\ \A p \in Requests : requests[p] \in RequestStates /\ RecordKnown(requests[p])
      /\ \A f \in Families : families[f] \in FamilyRows /\ families[f].last \in Nat
  BY DEF TypeOK, FamilyRows, KnownInv, RequestsKnown
<1>m. ASSUME NEW p \in Requests, NEW r, Becomes(p, r),
             r.at \notin {"family", "rotate", "revoke"}
      PROVE  NobodyNewPresents
  BY <1>m DEF Becomes, NobodyNewPresents, Presenting, TypeOK
<1>i. ASSUME NEW p \in Requests, Ends(p)
      PROVE  NobodyNewPresents
  BY <1>i DEF Ends, Idle, NobodyNewPresents, Presenting, TypeOK
<1>n. UNCHANGED requests => NobodyNewPresents
  BY DEF NobodyNewPresents
<1>f. UNCHANGED families => TokensKept
  BY DEF TokensKept
<1>g. \A u, f, v, o : IssueTokenPair(u, f, v, o) => TokensKept
  BY DEF IssueTokenPair, NewFamily, TokensKept, TypeOK
<1>1. ASSUME NEW u \in Users, NEW f \in Families, Register(u, f)
      PROVE  PresentInv'
  BY <1>1, <1>n, <1>g, PresentInvKept DEF Register, history
<1>2. ASSUME NEW p \in Requests, NEW u \in Users, LoginCheckPassword(p, u)
      PROVE  PresentInv'
  BY <1>2, <1>m, <1>f, PresentInvKept DEF LoginCheckPassword, tables, history
<1>3. ASSUME NEW p \in Requests, NEW c \in challenges, ChallengeReadUser(p, c)
      PROVE  PresentInv'
  BY <1>3, <1>m, <1>f, PresentInvKept DEF ChallengeReadUser, tables, history
<1>4. ASSUME NEW p \in Requests, NEW t \in delivered, RefreshReadUser(p, t)
      PROVE  PresentInv'
  <2>1. /\ t \in Tokens /\ t[1] \in Families /\ t[2] \in Nat /\ t = <<t[1], t[2]>>
        /\ KnownToken(t)
    BY DEF TypeOK, Tokens, KnownInv, ClientsKnown
  <2>2. /\ requests'[p] = [at |-> "family", token |-> t] /\ requests[p] = Idle
        /\ \A q \in Requests \ {p} : requests'[q] = requests[q]
        /\ UNCHANGED families
        /\ shown' = shown \cup {t}
        /\ replayed' = IF t \in shown THEN replayed \cup {t[1]} ELSE replayed
    BY <1>4 DEF RefreshReadUser, Becomes, Ends, tables, TypeOK
  <2>3. replayed \subseteq replayed' /\ (t \in shown => t[1] \in replayed')
    BY <2>2
  <2>4. PresentedAreShown'
    BY <2>2 DEF PresentInv, PresentedAreShown, Presenting
  <2>5. SharedIsReplayed'
    <3>1. \A q \in Requests \ {p} : Presenting(q) /\ requests[q].token = t => t[1] \in replayed'
      BY <2>3 DEF PresentInv, PresentedAreShown
    <3> QED
      BY <2>2, <2>3, <3>1 DEF PresentInv, SharedIsReplayed, Presenting
  <2>6. t[1] \in replayed' \/ t[2] = families[t[1]].last
    <3>1. CASE t \in shown
      BY <2>3, <3>1
    <3>2. CASE t \notin shown /\ t[1] \notin replayed
      <4>1. t[2] \notin 1 .. (families[t[1]].last - 1)
        BY <2>1, <3>2 DEF PresentInv, SupersededAreShown
      <4> QED
        BY <1>0, <2>1, <4>1 DEF KnownToken
    <3> QED
      BY <2>3, <3>1, <3>2
  <2>7. PresentedIsCurrent'
    BY <2>2, <2>3, <2>6 DEF PresentInv, PresentedIsCurrent, Presenting
  <2>8. SupersededAreShown'
    BY <2>2, <2>3 DEF PresentInv, SupersededAreShown
  <2> QED
    BY <2>4, <2>5, <2>7, <2>8 DEF PresentInv
<1>5. ASSUME NEW u \in Users, NEW b \in BOOLEAN,
             ForgotPassword(u) \/ ResetTokenExpires(u) \/ SetActive(u, b) \/ MfaSetup(u)
      PROVE  PresentInv'
  BY <1>5, <1>n, <1>f, PresentInvKept
  DEF ForgotPassword, ResetTokenExpires, SetActive, MfaSetup, history
<1>6. ASSUME NEW p \in Requests, NEW u \in Users, ResetReadToken(p, u)
      PROVE  PresentInv'
  BY <1>6, <1>m, <1>f, PresentInvKept DEF ResetReadToken, tables, history
<1>8. ASSUME NEW p \in Requests, NEW u \in Users, MfaVerify(p, u) \/ MfaDisable(p, u)
      PROVE  PresentInv'
  BY <1>8, <1>m, <1>f, PresentInvKept DEF MfaVerify, MfaDisable, tables, history
<1>9. ASSUME NEW p \in Requests, Abort(p)
      PROVE  PresentInv'
  BY <1>9, <1>i, <1>f, PresentInvKept DEF Abort, tables, history
<1>10. ASSUME NEW p \in Requests, Continue(p)
       PROVE  PresentInv'
  <2> DEFINE r == requests[p]
  <2>1. CASE LoginChallenge(p) \/ ChallengeReject(p) \/ MfaWrite(p)
    BY <1>i, <1>f, <2>1, PresentInvKept
    DEF LoginChallenge, ChallengeReject, MfaWrite, tables, history
  <2>2. CASE LoginPass(p)
    <3>1. NobodyNewPresents
      <4>1. /\ requests'[p].at = "issue"
            /\ \A q \in Requests \ {p} : requests'[q] = requests[q]
        BY <1>0, <2>2, RequestFields DEF LoginPass, Becomes, TypeOK
      <4> QED
        BY <4>1 DEF NobodyNewPresents, Presenting
    <3> QED
      BY <1>f, <2>2, <3>1, PresentInvKept DEF LoginPass, tables, history
  <2>3. ASSUME NEW f \in Families, IssueCommit(p, f)
        PROVE  PresentInv'
    BY <1>i, <1>g, <2>3, PresentInvKept DEF IssueCommit, history
  <2>4. CASE ChallengeAccept(p)
    BY <1>m, <1>f, <2>4, PresentInvKept DEF ChallengeAccept, tables, history
  <2>6. CASE RefreshReadFamily(p)
    <3> DEFINE t == r.token
    <3>1. /\ Presenting(p) /\ t \in shown
          /\ UNCHANGED <<families, shown, replayed>>
          /\ \A q \in Requests \ {p} : requests'[q] = requests[q]
      BY <2>6 DEF RefreshReadFamily, Becomes, Ends, Presenting, PresentInv, PresentedAreShown,
                  tables, history, TypeOK
    <3>2. \/ requests'[p] = Idle
          \/ requests'[p] = [at |-> "rotate", token |-> t]
          \/ /\ requests'[p] = [at |-> "revoke", token |-> t]
             /\ t[2] # families[t[1]].last
      BY <2>6 DEF RefreshReadFamily, Verdict, Becomes, Ends, TypeOK
    <3>3. Presenting(p)' => requests'[p].token = t
      BY <3>2 DEF Presenting, Idle
    <3>4. PresentedAreShown'
      BY <3>1, <3>3 DEF PresentInv, PresentedAreShown, Presenting
    <3>5. SharedIsReplayed'
      BY <3>1, <3>3 DEF PresentInv, SharedIsReplayed, Presenting
    <3>6. PresentedIsCurrent'
      BY <3>1, <3>2 DEF PresentInv, PresentedIsCurrent, Presenting, Idle
    <3>7. SupersededAreShown'
      BY <3>1 DEF PresentInv, SupersededAreShown
    <3> QED
      BY <3>4, <3>5, <3>6, <3>7 DEF PresentInv
  <2>7. CASE RefreshRotate(p)
    <3> DEFINE t == r.token
               f == t[1]
    <3>1. /\ t \in Tokens /\ f \in Families /\ t = <<f, t[2]>> /\ t[2] \in Nat
          /\ Presenting(p) /\ t \in shown
      BY <1>0, <2>7, RequestFields
      DEF RefreshRotate, Presenting, Tokens, PresentInv, PresentedAreShown
    <3>2. /\ requests'[p] = Idle
          /\ \A q \in Requests \ {p} : requests'[q] = requests[q]
          /\ families'[f].last = families[f].last + 1
          /\ \A g \in Families \ {f} : families'[g] = families[g]
          /\ UNCHANGED <<shown, replayed>>
      BY <1>0, <2>7, <3>1, RowRotatedTyped DEF RefreshRotate, Becomes, Ends, TypeOK
    <3>3. ASSUME NEW q \in Requests, Presenting(q)'
          PROVE  q # p /\ requests'[q] = requests[q] /\ Presenting(q)
      BY <3>2, <3>3 DEF Presenting, Idle
    <3>4. PresentedAreShown'
      BY <3>2, <3>3 DEF PresentInv, PresentedAreShown
    <3>5. SharedIsReplayed'
      BY <3>2, <3>3 DEF PresentInv, SharedIsReplayed
    <3>6. ASSUME NEW q \in Requests, Presenting(q)', requests[q].token[1] = f
          PROVE  f \in replayed
      <4>1. q # p /\ Presenting(q) /\ requests[q].token \in Tokens
        BY <1>0, <3>3, <3>6, RequestFields DEF Presenting
      <4>2. f \in replayed \/ requests[q].token[2] = t[2]
        BY <3>1, <3>6, <4>1 DEF PresentInv, PresentedIsCurrent
      <4>3. requests[q].token[2] = t[2] => requests[q].token = t
        BY <3>1, <3>6, <4>1 DEF Tokens
      <4> QED
        BY <3>1, <3>6, <4>1, <4>2, <4>3 DEF PresentInv, SharedIsReplayed
    <3>7. PresentedIsCurrent'
      <4> SUFFICES ASSUME NEW q \in Requests, Presenting(q)',
                          requests[q].token[1] \notin replayed
                   PROVE  /\ requests[q].token[2] = families'[requests[q].token[1]].last
                          /\ requests[q].at # "revoke"
        BY <3>2, <3>3 DEF PresentedIsCurrent
      <4>1. Presenting(q) /\ requests[q].token[1] \in Families \ {f}
        BY <1>0, <3>3, <3>6, RequestFields DEF Presenting
      <4> QED
        BY <3>2, <4>1 DEF PresentInv, PresentedIsCurrent
    <3>8. SupersededAreShown'
      <4> SUFFICES ASSUME NEW g \in Families, g \notin replayed,
                          NEW n \in 1 .. (families'[g].last - 1)
                   PROVE  <<g, n>> \in shown
        BY <3>2 DEF SupersededAreShown
      <4>1. CASE g # f \/ n \in 1 .. (families[f].last - 1)
        BY <3>2, <4>1 DEF PresentInv, SupersededAreShown
      <4>2. CASE g = f /\ n \notin 1 .. (families[f].last - 1)
        <5>1. n = families[f].last
          BY <1>0, <3>1, <3>2, <4>2
        <5>2. t[2] = families[f].last
          BY <3>1, <4>2 DEF PresentInv, PresentedIsCurrent
        <5> QED
          BY <3>1, <4>2, <5>1, <5>2
      <4> QED
        BY <4>1, <4>2
    <3> QED
      BY <3>4, <3>5, <3>7, <3>8 DEF PresentInv
  <2>8. CASE RefreshRevoke(p)
    <3>1. TokensKept
      BY <1>0, <2>8, RequestFields, RowRevokedTyped DEF RefreshRevoke, TokensKept, TypeOK
    <3> QED
      BY <1>i, <2>8, <3>1, PresentInvKept DEF RefreshRevoke, history
  <2>9. CASE ResetWrite(p)
    <3>1. ASSUME NEW q \in Requests, Presenting(q)'
          PROVE  requests'[q] = requests[q]
      <4>1. q # p
        BY <2>9, <3>1 DEF ResetWrite, Presenting
      <4>2. CASE requests[q].at \in {"gate", "issue"}
        BY <1>0, <2>9, <3>1, <4>1, <4>2, RequestFields DEF ResetWrite, Presenting
      <4> QED
        BY <2>9, <4>1, <4>2 DEF ResetWrite
    <3> QED
      BY <1>f, <2>9, <3>1, PresentInvKept DEF ResetWrite, NobodyNewPresents, tables, history
  <2>10. CASE ResetCommit(p)
    <3>1. TokensKept
      BY <1>0, <2>10, RowRevokedTyped DEF ResetCommit, TokensKept
    <3> QED
      BY <1>i, <2>10, <3>1, PresentInvKept DEF ResetCommit, history
  <2>11. CASE LockRow(p)
    BY <1>n, <1>f, <2>11, PresentInvKept DEF LockRow, tables, history
  <2> QED
    BY <1>10, <2>1, <2>2, <2>3, <2>4, <2>6, <2>7, <2>8, <2>9, <2>10, <2>11 DEF Continue
<1>11. CASE UNCHANGED vars
  BY <1>11, <1>n, <1>f, PresentInvKept DEF vars, tables, history
<1> QED
  BY <1>1, <1>2, <1>3, <1>4, <1>5, <1>6, <1>8, <1>9, <1>10, <1>11 DEF Next

(* A family is revoked only after one of its tokens was presented twice or *)
(* the password it was obtained with was replaced.                         *)
LEMMA RevocationsJustified ==
  /\ TypeOK /\ KnownInv /\ PresentInv
  /\ NoSpuriousRevocation
  /\ [Next]_vars
  => NoSpuriousRevocation'
<1> SUFFICES ASSUME TypeOK, KnownInv, PresentInv, NoSpuriousRevocation, [Next]_vars,
                    NEW f \in Families, families'[f].revoked
             PROVE  f \in replayed' \/ families'[f].pw < users'[families'[f].user].pw
  BY DEF NoSpuriousRevocation
<1>0. TypeOK' /\ UsersGrow /\ FamiliesGrow
  BY NextTyped, TablesGrow
<1>1. replayed \subseteq replayed'
  BY DEF Next, vars, history, Register, LoginCheckPassword, ChallengeReadUser,
         RefreshReadUser, ForgotPassword, ResetTokenExpires, ResetReadToken, MfaSetup,
         MfaVerify, MfaDisable, SetActive, Abort, Continue, LockRow, LoginChallenge, LoginPass,
         IssueCommit, ChallengeAccept, ChallengeReject, RefreshReadFamily,
         RefreshRotate, RefreshRevoke, ResetWrite, ResetCommit, MfaWrite
<1>2. CASE families[f].revoked
  <2>1. Exists(f)
    BY <1>2 DEF KnownInv, FamiliesKnown
  <2>2. PICK u \in Users : u = families[f].user
    BY <2>1 DEF KnownInv, FamiliesKnown
  <2>3. families'[f].user = u /\ families'[f].pw = families[f].pw
    BY <1>0, <2>1, <2>2 DEF FamiliesGrow
  <2>4. users[u].pw <= users'[u].pw
    BY <1>0 DEF UsersGrow
  <2>5. users[u].pw \in Nat /\ users'[u].pw \in Nat /\ families[f].pw \in Nat
    BY <1>0 DEF TypeOK, UserRows, FamilyRows
  <2> QED
    BY <1>1, <1>2, <2>2, <2>3, <2>4, <2>5 DEF NoSpuriousRevocation
<1>3. ASSUME ~families[f].revoked, NEW p \in Requests, RefreshRevoke(p)
      PROVE  f \in replayed
  <2> DEFINE g == requests[p].token[1]
  <2>1. g \in replayed
    BY <1>3 DEF RefreshRevoke, PresentInv, PresentedIsCurrent, Presenting
  <2>2. f = g
    BY <1>3 DEF RefreshRevoke, TypeOK
  <2> QED
    BY <2>1, <2>2
<1>4. ASSUME ~families[f].revoked, NEW p \in Requests, ResetCommit(p)
      PROVE  families'[f].pw < users'[families'[f].user].pw
  <2> DEFINE r == requests[p]
  <2>1. /\ r \in RequestStates /\ r.at = "commit" /\ r.user \in Users
        /\ r.hit \subseteq FamiliesOf(r.user)
    BY <1>4, RequestFields
    DEF ResetCommit, TypeOK, KnownInv, RequestsKnown, RecordKnown
  <2>2. f \in r.hit
    BY <1>4 DEF ResetCommit
  <2>3. Exists(f) /\ families[f].user = r.user /\ families[f].pw <= users[r.user].pw
    BY <2>1, <2>2 DEF FamiliesOf, KnownInv, FamiliesKnown, KnownVersion
  <2>4. families'[f].user = r.user /\ families'[f].pw = families[f].pw
    BY <1>0, <2>3 DEF FamiliesGrow
  <2>5. users'[r.user].pw = users[r.user].pw + 1
    BY <1>4, <2>1 DEF ResetCommit, TypeOK
  <2>6. users[r.user].pw \in Nat /\ families[f].pw \in Nat
    BY <2>1 DEF TypeOK, UserRows, FamilyRows
  <2> QED
    BY <2>3, <2>4, <2>5, <2>6
<1>5. CASE /\ ~families[f].revoked
           /\ \A p \in Requests : ~RefreshRevoke(p) /\ ~ResetCommit(p)
  <2>2. ASSUME NEW p \in Requests, RefreshRotate(p)
        PROVE  FALSE
    <3>1. families'[f].revoked <=> families[f].revoked
      BY <2>2, RowRotatedTyped DEF RefreshRotate, TypeOK
    <3> QED
      BY <1>5, <3>1
  <2>3. ASSUME NEW u, NEW g, NEW v, NEW o, IssueTokenPair(u, g, v, o)
        PROVE  FALSE
    BY <1>5, <2>3 DEF IssueTokenPair, NewFamily, TypeOK
  <2>4. families' # families
    BY <1>5
  <2> QED
    BY <1>5, <2>2, <2>3, <2>4
    DEF Next, vars, tables, Register, LoginCheckPassword, ChallengeReadUser,
        RefreshReadUser, ForgotPassword, ResetTokenExpires, ResetReadToken, MfaSetup,
        MfaVerify, MfaDisable, SetActive, Abort, Continue, LockRow, LoginChallenge, LoginPass,
        IssueCommit, ChallengeAccept, ChallengeReject, RefreshReadFamily, ResetWrite, MfaWrite
<1> QED
  BY <1>1, <1>2, <1>3, <1>4, <1>5

THEOREM RevocationHasAReason == Spec => []NoSpuriousRevocation
<1>1. Init => PresentInv /\ NoSpuriousRevocation
  BY DEF Init, NoFamily, Idle, PresentInv, PresentedAreShown, SharedIsReplayed,
         PresentedIsCurrent, SupersededAreShown, Presenting, NoSpuriousRevocation
<1>2. /\ TypeOK /\ KnownInv /\ PresentInv /\ NoSpuriousRevocation /\ [Next]_vars
      => PresentInv' /\ NoSpuriousRevocation'
  BY PresentInductive, RevocationsJustified
<1> QED
  BY <1>1, <1>2, KnownInvariant, PTL DEF Spec

-------------------------------------------------------------------------------
(* ExchangeBound.  A token that has been exchanged is not the last of its  *)
(* family any more and never is again, so all requests that exchange it    *)
(* were past the reading of the row when the first of them committed.      *)

ExchangesOf(t) == {x \in exchanged : x.token = t}

Rotating(t) == {p \in Requests : requests[p].at = "rotate" /\ requests[p].token = t}

ExchangedAreSuperseded ==
  \A x \in exchanged : x.token[2] < families[x.token[1]].last

ExchangesCounted ==
  \A t \in Tokens :
    /\ IsFiniteSet(ExchangesOf(t))
    /\ Cardinality(ExchangesOf(t)) + Cardinality(Rotating(t)) <= Cardinality(Requests)

ExchangeInv == ExchangedAreSuperseded /\ ExchangesCounted

\* Who is about to rotate a family after the step was so before it.
NobodyNewRotates ==
  \A q \in Requests : requests'[q].at = "rotate" => requests'[q] = requests[q]

LEMMA RotatingFinite ==
  ASSUME NEW P, P \subseteq Requests
  PROVE  /\ IsFiniteSet(P)
         /\ Cardinality(P) \in Nat /\ Cardinality(Requests) \in Nat
         /\ Cardinality(P) <= Cardinality(Requests)
  BY LifecycleAssumption, FS_Subset, FS_CardinalityType

LEMMA SupersededForGood ==
  ASSUME TypeOK, TypeOK', FamiliesGrow, NEW t \in Tokens, t[2] < families[t[1]].last
  PROVE  t[2] < families'[t[1]].last
<1>1. t[1] \in Families /\ t[2] \in Nat
  BY DEF Tokens
<1>2. families[t[1]].last \in Nat /\ families'[t[1]].last \in Nat
  BY <1>1 DEF TypeOK, FamilyRows
<1>3. Exists(t[1])
  BY <1>1, <1>2 DEF Exists
<1> QED
  BY <1>1, <1>2, <1>3 DEF FamiliesGrow

LEMMA ExchangeInvKept ==
  ASSUME TypeOK, TypeOK', FamiliesGrow, ExchangeInv, NobodyNewRotates, UNCHANGED exchanged
  PROVE  ExchangeInv'
<1>1. ExchangedAreSuperseded'
  BY SupersededForGood DEF ExchangeInv, ExchangedAreSuperseded, TypeOK
<1>2. ASSUME NEW t \in Tokens
      PROVE  /\ IsFiniteSet(ExchangesOf(t)')
             /\ Cardinality(ExchangesOf(t)') + Cardinality(Rotating(t)')
                  <= Cardinality(Requests)
  <2>1. ExchangesOf(t)' = ExchangesOf(t)
    BY DEF ExchangesOf
  <2>2. Rotating(t)' \subseteq Rotating(t) /\ Rotating(t) \subseteq Requests
    BY DEF Rotating, NobodyNewRotates
  <2>3. IsFiniteSet(Rotating(t)) /\ Cardinality(Rotating(t)) \in Nat
        /\ Cardinality(Requests) \in Nat
    BY <2>2, RotatingFinite
  <2>4. Cardinality(Rotating(t)') \in Nat /\ Cardinality(Rotating(t)') <= Cardinality(Rotating(t))
    BY <2>2, <2>3, FS_Subset, FS_CardinalityType
  <2>5. /\ IsFiniteSet(ExchangesOf(t)) /\ Cardinality(ExchangesOf(t)) \in Nat
        /\ Cardinality(ExchangesOf(t)) + Cardinality(Rotating(t)) <= Cardinality(Requests)
    BY FS_CardinalityType DEF ExchangeInv, ExchangesCounted
  <2> QED
    BY <2>1, <2>3, <2>4, <2>5
<1> QED
  BY <1>1, <1>2 DEF ExchangeInv, ExchangesCounted

(* The row is read: to be rotated, if the token is still its last one,     *)
(* which no exchanged token is.                                            *)
LEMMA ReadFamilyCounted ==
  ASSUME TypeOK, ExchangeInv, NEW p \in Requests, RefreshReadFamily(p)
  PROVE  ExchangeInv'
<1> DEFINE s == requests[p].token
<1>1. /\ s \in Tokens
      /\ UNCHANGED <<families, exchanged>>
      /\ \A q \in Requests \ {p} : requests'[q] = requests[q]
      /\ requests[p].at = "family"
  BY RequestFields DEF RefreshReadFamily, Becomes, Ends, tables, history, TypeOK
<1>2. requests'[p].at = "rotate" =>
        requests'[p].token = s /\ s[2] = families[s[1]].last
  BY DEF RefreshReadFamily, Verdict, Becomes, Ends, Idle, TypeOK
<1>3. ASSUME NEW t \in Tokens
      PROVE  /\ IsFiniteSet(ExchangesOf(t)')
             /\ Cardinality(ExchangesOf(t)') + Cardinality(Rotating(t)')
                  <= Cardinality(Requests)
  <2>1. ExchangesOf(t)' = ExchangesOf(t)
    BY <1>1 DEF ExchangesOf
  <2>2. Rotating(t)' \subseteq Requests
    BY DEF Rotating
  <2>3. CASE t = s /\ requests'[p].at = "rotate"
    <3>1. ExchangesOf(t) = {}
      <4>1. families[t[1]].last \in Nat
        BY DEF Tokens, TypeOK, FamilyRows
      <4>2. ~(t[2] < families[t[1]].last)
        BY <1>2, <2>3, <4>1
      <4> QED
        BY <4>2 DEF ExchangesOf, ExchangeInv, ExchangedAreSuperseded
    <3>2. Cardinality(ExchangesOf(t)') = 0 /\ IsFiniteSet(ExchangesOf(t)')
      BY <2>1, <3>1, FS_EmptySet
    <3>3. /\ Cardinality(Rotating(t)') \in Nat /\ Cardinality(Requests) \in Nat
          /\ Cardinality(Rotating(t)') <= Cardinality(Requests)
      BY <2>2, RotatingFinite
    <3> QED
      BY <3>2, <3>3
  <2>4. CASE ~(t = s /\ requests'[p].at = "rotate")
    <3>1. Rotating(t)' = Rotating(t)
      BY <1>1, <1>2, <2>4 DEF Rotating
    <3> QED
      BY <2>1, <3>1 DEF ExchangeInv, ExchangesCounted
  <2> QED
    BY <2>3, <2>4
<1>4. ExchangedAreSuperseded'
  BY <1>1 DEF ExchangeInv, ExchangedAreSuperseded
<1> QED
  BY <1>3, <1>4 DEF ExchangeInv, ExchangesCounted

(* The exchange commits: one exchange more and one request fewer.          *)
LEMMA RotateCounted ==
  ASSUME TypeOK, TypeOK', KnownInv, FamiliesGrow, ExchangeInv,
         NEW p \in Requests, RefreshRotate(p)
  PROVE  ExchangeInv'
<1>1. PICK s, x : s = requests[p].token /\ x = [token |-> s, heir |-> families[s[1]].last + 1]
  OBVIOUS
<1>2. /\ s \in Tokens /\ s[1] \in Families /\ s[2] \in Nat
      /\ requests[p].at = "rotate" /\ requests'[p] = Idle
      /\ \A q \in Requests \ {p} : requests'[q] = requests[q]
      /\ exchanged' = exchanged \cup {x}
  BY <1>1, RequestFields DEF RefreshRotate, Becomes, Ends, TypeOK
<1>3. ExchangedAreSuperseded'
  <2>1. \A y \in exchanged : y.token[2] < families'[y.token[1]].last
    BY SupersededForGood DEF ExchangeInv, ExchangedAreSuperseded, TypeOK
  <2>2. s[2] < families'[s[1]].last
    <3>1. families[s[1]] \in FamilyRows /\ families[s[1]].last \in Nat
      BY <1>2 DEF TypeOK, FamilyRows
    <3>2. families'[s[1]].last = families[s[1]].last + 1
      BY <1>1, <1>2, <3>1, RowRotatedTyped DEF RefreshRotate, TypeOK
    <3>3. s[2] <= families[s[1]].last
      BY <1>1, <1>2 DEF KnownInv, RequestsKnown, RecordKnown, KnownToken
    <3> QED
      BY <1>2, <3>1, <3>2, <3>3
  <2> QED
    BY <1>1, <1>2, <2>1, <2>2 DEF ExchangedAreSuperseded
<1>4. ASSUME NEW t \in Tokens
      PROVE  /\ IsFiniteSet(ExchangesOf(t)')
             /\ Cardinality(ExchangesOf(t)') + Cardinality(Rotating(t)')
                  <= Cardinality(Requests)
  <2>1. Rotating(t) \subseteq Requests
    BY DEF Rotating
  <2>2. /\ IsFiniteSet(Rotating(t)) /\ Cardinality(Rotating(t)) \in Nat
        /\ Cardinality(Requests) \in Nat
    BY <2>1, RotatingFinite
  <2>3. /\ IsFiniteSet(ExchangesOf(t)) /\ Cardinality(ExchangesOf(t)) \in Nat
        /\ Cardinality(ExchangesOf(t)) + Cardinality(Rotating(t)) <= Cardinality(Requests)
    BY FS_CardinalityType DEF ExchangeInv, ExchangesCounted
  <2>4. CASE t = s
    <3>1. ExchangesOf(t)' = ExchangesOf(t) \cup {x}
      BY <1>1, <1>2, <2>4 DEF ExchangesOf
    <3>2. /\ IsFiniteSet(ExchangesOf(t) \cup {x})
          /\ Cardinality(ExchangesOf(t) \cup {x}) \in Nat
          /\ Cardinality(ExchangesOf(t) \cup {x}) <= Cardinality(ExchangesOf(t)) + 1
      <4>1. /\ IsFiniteSet(ExchangesOf(t) \cup {x})
            /\ Cardinality(ExchangesOf(t) \cup {x})
                 = IF x \in ExchangesOf(t) THEN Cardinality(ExchangesOf(t))
                   ELSE Cardinality(ExchangesOf(t)) + 1
        BY <2>3, FS_AddElement
      <4> QED
        BY <2>3, <4>1
    <3>3. Rotating(t)' = Rotating(t) \ {p} /\ p \in Rotating(t)
      BY <1>1, <1>2, <2>4 DEF Rotating, Idle
    <3>4. Cardinality(Rotating(t) \ {p}) = Cardinality(Rotating(t)) - 1
      BY <2>2, <3>3, FS_RemoveElement
    <3> QED
      BY <2>2, <2>3, <3>1, <3>2, <3>3, <3>4
  <2>5. CASE t # s
    <3>1. ExchangesOf(t)' = ExchangesOf(t)
      BY <1>1, <1>2, <2>5 DEF ExchangesOf
    <3>2. Rotating(t)' = Rotating(t)
      BY <1>1, <1>2, <2>5 DEF Rotating, Idle
    <3> QED
      BY <2>3, <3>1, <3>2
  <2> QED
    BY <2>4, <2>5
<1> QED
  BY <1>3, <1>4 DEF ExchangeInv, ExchangesCounted

\* The steps that concern exchanges: the row is read, the exchange commits.
ExchangeKinds ==
  \/ NobodyNewRotates /\ UNCHANGED exchanged
  \/ \E p \in Requests : RefreshReadFamily(p) \/ RefreshRotate(p)

LEMMA ExchangeSteps == TypeOK /\ [Next]_vars => ExchangeKinds
<1> SUFFICES ASSUME TypeOK, [Next]_vars
             PROVE  ExchangeKinds
  OBVIOUS
<1>0. \A p \in Requests : requests[p] \in RequestStates
  BY DEF TypeOK
<1>m. ASSUME NEW p \in Requests, NEW r, Becomes(p, r), r.at # "rotate"
      PROVE  NobodyNewRotates
  BY <1>m DEF Becomes, NobodyNewRotates, TypeOK
<1>i. ASSUME NEW p \in Requests, Ends(p)
      PROVE  NobodyNewRotates
  BY <1>i DEF Ends, Idle, NobodyNewRotates, TypeOK
<1>n. UNCHANGED requests => NobodyNewRotates
  BY DEF NobodyNewRotates
<1>k. NobodyNewRotates /\ UNCHANGED exchanged => ExchangeKinds
  BY DEF ExchangeKinds
<1>1. ASSUME NEW u \in Users, NEW f \in Families, Register(u, f)
      PROVE  ExchangeKinds
  BY <1>1, <1>n, <1>k DEF Register, history
<1>2. ASSUME NEW p \in Requests, NEW u \in Users,
             LoginCheckPassword(p, u) \/ ResetReadToken(p, u)
               \/ MfaVerify(p, u) \/ MfaDisable(p, u)
      PROVE  ExchangeKinds
  BY <1>2, <1>m, <1>k
  DEF LoginCheckPassword, ResetReadToken, MfaVerify, MfaDisable, history
<1>3. ASSUME NEW p \in Requests, NEW c \in challenges, ChallengeReadUser(p, c)
      PROVE  ExchangeKinds
  BY <1>3, <1>m, <1>k DEF ChallengeReadUser, history
<1>4. ASSUME NEW p \in Requests, NEW t \in delivered, RefreshReadUser(p, t)
      PROVE  ExchangeKinds
  BY <1>4, <1>m, <1>k DEF RefreshReadUser
<1>5. ASSUME NEW u \in Users, NEW b \in BOOLEAN,
             ForgotPassword(u) \/ ResetTokenExpires(u) \/ SetActive(u, b) \/ MfaSetup(u)
      PROVE  ExchangeKinds
  BY <1>5, <1>n, <1>k DEF ForgotPassword, ResetTokenExpires, SetActive, MfaSetup, history
<1>6. ASSUME NEW p \in Requests, Abort(p)
      PROVE  ExchangeKinds
  BY <1>6, <1>i, <1>k DEF Abort, history
<1>7. ASSUME NEW p \in Requests, Continue(p)
      PROVE  ExchangeKinds
  <2> DEFINE r == requests[p]
  <2>1. CASE LoginChallenge(p) \/ ChallengeReject(p) \/ MfaWrite(p)
              \/ RefreshRevoke(p) \/ ResetCommit(p)
    BY <1>i, <1>k, <2>1
    DEF LoginChallenge, ChallengeReject, MfaWrite, RefreshRevoke, ResetCommit, history
  <2>2. CASE LoginPass(p)
    <3>1. NobodyNewRotates
      <4>1. /\ requests'[p].at = "issue"
            /\ \A q \in Requests \ {p} : requests'[q] = requests[q]
        BY <1>0, <2>2, RequestFields DEF LoginPass, Becomes, TypeOK
      <4> QED
        BY <4>1 DEF NobodyNewRotates
    <3> QED
      BY <1>k, <2>2, <3>1 DEF LoginPass, history
  <2>3. ASSUME NEW f \in Families, IssueCommit(p, f)
        PROVE  ExchangeKinds
    BY <1>i, <1>k, <2>3 DEF IssueCommit, history
  <2>4. CASE ChallengeAccept(p)
    BY <1>m, <1>k, <2>4 DEF ChallengeAccept, history
  <2>5. CASE RefreshReadFamily(p) \/ RefreshRotate(p)
    BY <2>5 DEF ExchangeKinds
  <2>6. CASE ResetWrite(p)
    <3>1. ASSUME NEW q \in Requests, requests'[q].at = "rotate"
          PROVE  requests'[q] = requests[q]
      <4>1. q # p
        BY <2>6, <3>1 DEF ResetWrite
      <4>2. requests[q].at \notin {"gate", "issue"}
        <5> SUFFICES ASSUME requests[q].at \in {"gate", "issue"}
                     PROVE  FALSE
          OBVIOUS
        <5>1. requests'[q].at = requests[q].at
          BY <1>0, <2>6, <4>1, RequestFields DEF ResetWrite
        <5> QED
          BY <3>1, <5>1
      <4> QED
        BY <2>6, <4>1, <4>2 DEF ResetWrite
    <3> QED
      BY <1>k, <2>6, <3>1 DEF ResetWrite, history, NobodyNewRotates
  <2>7. CASE LockRow(p)
    BY <1>n, <1>k, <2>7 DEF LockRow, history
  <2> QED
    BY <1>7, <2>1, <2>2, <2>3, <2>4, <2>5, <2>6, <2>7 DEF Continue
<1>8. CASE UNCHANGED vars
  BY <1>8, <1>n, <1>k DEF vars, history
<1> QED
  BY <1>1, <1>2, <1>3, <1>4, <1>5, <1>6, <1>7, <1>8 DEF Next

LEMMA ExchangeInductive == TypeOK /\ KnownInv /\ ExchangeInv /\ [Next]_vars => ExchangeInv'
<1> SUFFICES ASSUME TypeOK, KnownInv, ExchangeInv, [Next]_vars
             PROVE  ExchangeInv'
  OBVIOUS
<1>1. TypeOK' /\ FamiliesGrow
  BY NextTyped, TablesGrow
<1>2. ASSUME NEW p \in Requests, RefreshReadFamily(p) \/ RefreshRotate(p)
      PROVE  ExchangeInv'
  BY <1>1, <1>2, ReadFamilyCounted, RotateCounted
<1> QED
  BY <1>1, <1>2, ExchangeInvKept, ExchangeSteps DEF ExchangeKinds

LEMMA InitExchange == Init => ExchangeInv
<1> SUFFICES ASSUME Init, NEW t \in Tokens
             PROVE  /\ IsFiniteSet(ExchangesOf(t))
                    /\ Cardinality(ExchangesOf(t)) + Cardinality(Rotating(t))
                         <= Cardinality(Requests)
  BY DEF Init, ExchangeInv, ExchangedAreSuperseded, ExchangesCounted
<1>1. ExchangesOf(t) = {} /\ Rotating(t) = {}
  BY DEF Init, ExchangesOf, Rotating, Idle
<1>2. Cardinality(Requests) \in Nat
  BY LifecycleAssumption, FS_CardinalityType
<1> QED
  BY <1>1, <1>2, FS_EmptySet

LEMMA ExchangeInvariant == Spec => []ExchangeInv
  BY InitExchange, ExchangeInductive, TypeCorrect, KnownInvariant, PTL DEF Spec

(* No refresh token is ever exchanged more often than there are requests   *)
(* in flight at one time, however often it is presented and however the    *)
(* exchanges, revocations and resets interleave.                           *)
THEOREM ExchangesAreBounded == Spec => []ExchangeBound
<1>1. TypeOK /\ ExchangeInv => ExchangeBound
  <2> SUFFICES ASSUME TypeOK, ExchangeInv, NEW t \in delivered
               PROVE  Cardinality(ExchangesOf(t)) <= Cardinality(Requests)
    BY DEF ExchangeBound, ExchangesOf
  <2>1. t \in Tokens /\ Rotating(t) \subseteq Requests
    BY DEF TypeOK, Rotating
  <2>2. Cardinality(ExchangesOf(t)) \in Nat /\ Cardinality(Rotating(t)) \in Nat
        /\ Cardinality(Requests) \in Nat
    BY <2>1, RotatingFinite, FS_CardinalityType DEF ExchangeInv, ExchangesCounted
  <2>3. Cardinality(ExchangesOf(t)) + Cardinality(Rotating(t)) <= Cardinality(Requests)
    BY <2>1 DEF ExchangeInv, ExchangesCounted
  <2> QED
    BY <2>2, <2>3
<1> QED
  BY <1>1, ExchangeInvariant, TypeCorrect, PTL

(* A request gets to exchange its token by reading the row, only.          *)
LEMMA AcceptIsRead ==
  ASSUME TypeOK, [Next]_vars, NEW p \in Requests,
         requests[p].at = "family", requests'[p].at = "rotate"
  PROVE  Verdict(families[requests[p].token[1]], requests[p].token[2]) = "rotate"
<1>1. ~NobodyNewRotates
  BY DEF NobodyNewRotates
<1>2. PICK q \in Requests : RefreshReadFamily(q) \/ RefreshRotate(q)
  BY <1>1, ExchangeSteps DEF ExchangeKinds
<1>3. q = p
  BY <1>2 DEF RefreshReadFamily, RefreshRotate, Becomes, Ends, TypeOK
<1>4. RefreshReadFamily(p)
  BY <1>2, <1>3 DEF RefreshRotate
<1> QED
  BY <1>4 DEF RefreshReadFamily, Becomes, Ends, Verdict, Idle, TypeOK

(* Whoever reads the row of a family after an exchange has committed does  *)
(* not accept the token that was exchanged.                                *)
THEOREM ExchangedStaysRefused == Spec => ExchangedIsRefused
<1>1. ASSUME TypeOK, ExchangeInv, [Next]_vars, NEW p \in Requests,
             requests[p].at = "family", requests'[p].at = "rotate",
             NEW x \in exchanged, x.token = requests[p].token
      PROVE  FALSE
  <2>1. x.token[2] \in Nat /\ families[x.token[1]].last \in Nat
    BY <1>1 DEF TypeOK, Tokens, FamilyRows
  <2>2. families[x.token[1]].last = x.token[2]
    BY <1>1, AcceptIsRead DEF Verdict
  <2> QED
    BY <1>1, <2>1, <2>2 DEF ExchangeInv, ExchangedAreSuperseded
<1>2. TypeOK /\ ExchangeInv /\ [Next]_vars =>
        [\A p \in Requests :
           requests[p].at = "family" /\ requests'[p].at = "rotate" =>
             \A x \in exchanged : x.token # requests[p].token]_vars
  BY <1>1
<1> QED
  BY <1>2, ExchangeInvariant, TypeCorrect, PTL DEF Spec, ExchangedIsRefused
===============================================================================
