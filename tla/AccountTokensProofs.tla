--------------------------- MODULE AccountTokensProofs --------------------------
(***************************************************************************)
(* Proofs about AccountTokens, for every set of users, tokens and          *)
(* requests.                                                               *)
(*                                                                         *)
(* Nothing in the properties speaks of the requests in flight, which will  *)
(* store what they drew.  MailsInv says that a request that has drawn a    *)
(* token has a mail of its own and its token was never stored; RowsInv     *)
(* that registering requests have the address for themselves; SpentInv     *)
(* that a token that was used is in no row, and counts its users.          *)
(***************************************************************************)
EXTENDS AccountTokens, FiniteSetTheorems, TLAPS

Drawing(r) == r.at \in {"register", "resend", "forgot"}

MailTo(u, column, t) == [to |-> u, for |-> column, token |-> t]

DrawnMail(r) ==
  MailTo(r.user, IF r.at = "forgot" THEN "reset" ELSE "verification", r.token)

MailsInv ==
  /\ \A m1, m2 \in mails : m1.token = m2.token => m1 = m2
  /\ \A t \in known : \E m \in mails : m.token = t
  /\ \A p \in Requests :
       Drawing(requests[p]) =>
         DrawnMail(requests[p]) \in mails /\ requests[p].token \notin known
  /\ \A p, q \in Requests :
       Drawing(requests[p]) /\ Drawing(requests[q])
         /\ requests[p].token = requests[q].token => p = q

RowsInv ==
  /\ \A u \in Users : ~users[u].registered => users[u] = NoUser
  /\ \A p \in Requests :
       requests[p].at = "register" =>
         /\ ~users[requests[p].user].registered
         /\ \A q \in Requests \ {p} :
              requests[q].at = "register" => requests[q].user # requests[p].user
  /\ \A p \in Requests :
       requests[p].at \in {"verify", "resend", "forgot", "reset"} =>
         users[requests[p].user].registered

(* The requests that are resetting a password with the token t.            *)
Resetting(t) == {p \in Requests : requests[p].at = "reset" /\ requests[p].token = t}

StoredInv ==
  /\ \A u \in Users :
       users[u].reset # NoToken =>
         MailTo(u, "reset", users[u].reset) \in mails /\ users[u].reset \in known
  /\ \A p \in Requests :
       requests[p].at = "reset" =>
         /\ MailTo(requests[p].user, "reset", requests[p].token) \in mails
         /\ requests[p].token \in known
  /\ \A t \in Tokens :
       spends[t] > 0 => t \in known /\ \A u \in Users : users[u].reset # t

SpentInv ==
  \A t \in Tokens : spends[t] + Cardinality(Resetting(t)) <= Cardinality(Requests)

LEMMA RequestFields ==
  ASSUME NEW r \in RequestStates, r # Idle
  PROVE  /\ r.at \in {"register", "verify", "resend", "forgot", "reset"}
         /\ r.user \in Users
         /\ r.token \in Tokens
         /\ r = [at |-> r.at, user |-> r.user, token |-> r.token]
  BY DEF RequestStates

LEMMA BusyIsNotIdle ==
  ASSUME NEW r, r.at # "idle"
  PROVE  r # Idle
  BY DEF Idle

-------------------------------------------------------------------------------
(* Type correctness.                                                       *)

LEMMA BeginTyped ==
  ASSUME TypeOK, NEW p \in Requests, NEW u \in Users, NEW t \in Tokens,
         NEW place \in {"register", "verify", "resend", "forgot", "reset"},
         Begin(p, place, u, t)
  PROVE  /\ requests' \in [Requests -> RequestStates]
         /\ users' = users /\ known' = known /\ spends' = spends
  BY DEF TypeOK, Begin, RequestStates

LEMMA CommitTyped ==
  ASSUME TypeOK, NEW p \in Requests, NEW place, place # "idle",
         NEW row \in UserRows, Commit(p, place, row)
  PROVE  /\ requests' \in [Requests -> RequestStates]
         /\ users' \in [Users -> UserRows]
         /\ mails' = mails
         /\ requests[p].user \in Users /\ requests[p].token \in Tokens
         /\ users[requests[p].user] \in UserRows
<1>1. requests[p] \in RequestStates /\ requests[p] # Idle
  BY BusyIsNotIdle DEF TypeOK, Commit
<1>2. requests[p].user \in Users /\ requests[p].token \in Tokens
  BY <1>1, RequestFields
<1> QED
  BY <1>2 DEF TypeOK, Commit, RequestStates

LEMMA QueueTyped ==
  ASSUME TypeOK, NEW u \in Users, NEW t \in Tokens, NEW column \in Columns,
         Queue(u, column, t)
  PROVE  mails' \subseteq Mails
  BY DEF TypeOK, Queue, Mails

(* The rows that the five commits write.                                   *)
LEMMA RowTyped ==
  ASSUME TypeOK, NEW p \in Requests, requests[p].at # "idle"
  PROVE  LET t == requests[p].token
         IN  /\ requests[p].user \in Users
             /\ t \in Tokens
             /\ [NoUser EXCEPT !.registered = TRUE, !.verification = t] \in UserRows
             /\ [Row(p) EXCEPT !.verified = TRUE, !.verification = NoToken] \in UserRows
             /\ Resent(Row(p), t) \in UserRows
             /\ [Row(p) EXCEPT !.reset = t, !.unexpired = TRUE] \in UserRows
             /\ WasReset(Row(p)) \in UserRows
<1>1. requests[p] \in RequestStates /\ requests[p] # Idle
  BY BusyIsNotIdle DEF TypeOK
<1>2. requests[p].user \in Users /\ requests[p].token \in Tokens
  BY <1>1, RequestFields
<1>3. users[requests[p].user] \in UserRows
  BY <1>2 DEF TypeOK
<1> QED
  BY <1>2, <1>3 DEF UserRows, NoUser, Row, Resent, WasReset

LEMMA NextTyped == TypeOK /\ [Next]_vars => TypeOK'
<1> SUFFICES ASSUME TypeOK, [Next]_vars
             PROVE  TypeOK'
  OBVIOUS
<1> USE DEF Columns
<1>1. ASSUME NEW p \in Requests, NEW u \in Users, NEW t \in Tokens,
             \/ RegisterInsert(p, u, t)
             \/ ResendRead(p, u, t)
             \/ ForgotRead(p, u, t)
      PROVE  TypeOK'
  BY <1>1, BeginTyped, QueueTyped DEF TypeOK, RegisterInsert, ResendRead, ForgotRead
<1>2. ASSUME NEW p \in Requests, NEW m \in mails,
             VerifyRead(p, m.to, m.token) \/ ResetRead(p, m.to, m.token)
      PROVE  TypeOK'
  <2>1. m.to \in Users /\ m.token \in Tokens
    BY DEF TypeOK, Mails
  <2> QED
    BY <1>2, <2>1, BeginTyped DEF TypeOK, VerifyRead, ResetRead
<1>3. ASSUME NEW u \in Users, ResetExpires(u)
      PROVE  TypeOK'
  BY <1>3 DEF TypeOK, ResetExpires, UserRows
<1>4. ASSUME NEW p \in Requests, Finish(p)
      PROVE  TypeOK'
  <2>1. CASE RegisterCommit(p)
    BY <2>1, RowTyped, CommitTyped DEF TypeOK, RegisterCommit, Commit
  <2>2. CASE VerifyCommit(p)
    BY <2>2, RowTyped, CommitTyped DEF TypeOK, VerifyCommit, Commit
  <2>3. CASE ResendCommit(p)
    BY <2>3, RowTyped, CommitTyped DEF TypeOK, ResendCommit, Commit
  <2>4. CASE ForgotCommit(p)
    BY <2>4, RowTyped, CommitTyped DEF TypeOK, ForgotCommit, Commit
  <2>5. CASE ResetCommit(p)
    <3>1. Commit(p, "reset", WasReset(Row(p))) /\ requests[p].at = "reset"
      BY <2>5 DEF ResetCommit, Commit
    <3>2. requests[p].token \in Tokens /\ WasReset(Row(p)) \in UserRows
      BY <3>1, RowTyped
    <3>3. spends' \in [Tokens -> Nat] /\ known' = known
      BY <2>5, <3>2 DEF ResetCommit, TypeOK
    <3> QED
      BY <3>1, <3>2, <3>3, CommitTyped DEF TypeOK
  <2>6. CASE Abort(p)
    BY <2>6 DEF TypeOK, Abort, RequestStates
  <2> QED
    BY <1>4, <2>1, <2>2, <2>3, <2>4, <2>5, <2>6 DEF Finish
<1>5. CASE UNCHANGED vars
  BY <1>5 DEF vars, TypeOK
<1> QED
  BY <1>1, <1>2, <1>3, <1>4, <1>5 DEF Next

LEMMA InitTyped == Init => TypeOK
  BY TokensAssumption DEF Init, TypeOK, NoUser, UserRows, RequestStates

(* Every reachable state has the shape TypeOK gives to the rows, the mails *)
(* and the requests in flight.                                             *)
THEOREM TypeCorrect == Spec => []TypeOK
  BY InitTyped, NextTyped, PTL DEF Spec

-------------------------------------------------------------------------------
(* What the kinds of steps do to the requests.                             *)

LEMMA BeginStep ==
  ASSUME TypeOK, NEW p \in Requests, NEW u, NEW t, NEW place, Begin(p, place, u, t)
  PROVE  /\ requests[p] = Idle
         /\ requests'[p] = [at |-> place, user |-> u, token |-> t]
         /\ requests[p].at = "idle" /\ requests'[p].at = place
         /\ requests'[p].user = u /\ requests'[p].token = t
         /\ \A q \in Requests \ {p} : requests'[q] = requests[q]
         /\ users' = users /\ known' = known /\ spends' = spends
<1>1. /\ requests[p] = Idle
      /\ requests'[p] = [at |-> place, user |-> u, token |-> t]
      /\ \A q \in Requests \ {p} : requests'[q] = requests[q]
      /\ users' = users /\ known' = known /\ spends' = spends
  BY DEF TypeOK, Begin
<1> QED
  BY <1>1 DEF Idle

LEMMA EndStep ==
  ASSUME TypeOK, NEW p \in Requests, Finish(p)
  PROVE  /\ requests'[p] = Idle
         /\ \A q \in Requests \ {p} : requests'[q] = requests[q]
         /\ mails' = mails
         /\ requests[p] # Idle
         /\ requests[p].user \in Users /\ requests[p].token \in Tokens
         /\ users[requests[p].user] \in UserRows
<1>1. /\ requests' = [requests EXCEPT ![p] = Idle]
      /\ mails' = mails
      /\ requests[p] # Idle
  BY BusyIsNotIdle DEF Finish, RegisterCommit, VerifyCommit, ResendCommit, ForgotCommit,
     ResetCommit, Abort, Commit
<1>2. requests[p] \in RequestStates
  BY DEF TypeOK
<1>3. requests[p].user \in Users /\ requests[p].token \in Tokens
  BY <1>1, <1>2, RequestFields
<1> QED
  BY <1>1, <1>3 DEF TypeOK

LEMMA IdleFields == Idle.at = "idle"
  BY DEF Idle

-------------------------------------------------------------------------------
(* Mails.                                                                  *)

(* A request that draws a token: the mail is queued, the token is new.     *)
LEMMA DrawKeepsMails ==
  ASSUME TypeOK, MailsInv, NEW p \in Requests, NEW u \in Users, NEW t \in Tokens,
         NEW place \in {"register", "resend", "forgot"},
         NEW column \in Columns,
         column = (IF place = "forgot" THEN "reset" ELSE "verification"),
         Draw(u, column, t), Queue(u, column, t), Begin(p, place, u, t)
  PROVE  MailsInv'
<1> DEFINE m0 == MailTo(u, column, t)
<1>1. /\ mails' = mails \cup {m0}
      /\ m0.token = t
      /\ \A m \in mails : m.token # t
  BY DEF Queue, Draw, MailTo
<1>2. /\ requests'[p] = [at |-> place, user |-> u, token |-> t]
      /\ \A q \in Requests \ {p} : requests'[q] = requests[q]
      /\ known' = known
  BY BeginStep
<1>3. t \notin known
  BY <1>1 DEF MailsInv
<1>4. \A m1, m2 \in mails' : m1.token = m2.token => m1 = m2
  BY <1>1 DEF MailsInv
<1>5. \A s \in known' : \E m \in mails' : m.token = s
  BY <1>1, <1>2 DEF MailsInv
<1>6. DrawnMail(requests'[p]) = m0 /\ requests'[p].token = t
  BY <1>2 DEF DrawnMail, MailTo
<1>7. \A q \in Requests :
        Drawing(requests'[q]) =>
          DrawnMail(requests'[q]) \in mails' /\ requests'[q].token \notin known'
  BY <1>1, <1>2, <1>3, <1>6 DEF MailsInv
<1>8. \A q \in Requests \ {p} : Drawing(requests'[q]) => requests'[q].token # t
  <2>1. \A r : DrawnMail(r).token = r.token
    BY DEF DrawnMail, MailTo
  <2> QED
    BY <1>1, <1>2, <2>1 DEF MailsInv
<1>9. \A q1, q2 \in Requests :
        Drawing(requests'[q1]) /\ Drawing(requests'[q2])
          /\ requests'[q1].token = requests'[q2].token => q1 = q2
  BY <1>2, <1>6, <1>8 DEF MailsInv
<1> QED
  BY <1>4, <1>5, <1>7, <1>9 DEF MailsInv

(* Every other step keeps the mails, and stores a token only if its        *)
(* request has drawn it and ends.                                          *)
LEMMA OthersKeepMails ==
  ASSUME MailsInv, mails' = mails, NEW p \in Requests,
         \A q \in Requests \ {p} : requests'[q] = requests[q],
         ~Drawing(requests'[p]),
         \/ known' = known
         \/ Drawing(requests[p]) /\ known' = known \cup {requests[p].token}
  PROVE  MailsInv'
<1>0. \A r : DrawnMail(r).token = r.token
  BY DEF DrawnMail, MailTo
<1>1. \A s \in known' : \E m \in mails' : m.token = s
  BY <1>0 DEF MailsInv
<1>2. \A q \in Requests :
        Drawing(requests'[q]) =>
          DrawnMail(requests'[q]) \in mails' /\ requests'[q].token \notin known'
  BY DEF MailsInv
<1>3. \A q1, q2 \in Requests :
        Drawing(requests'[q1]) /\ Drawing(requests'[q2])
          /\ requests'[q1].token = requests'[q2].token => q1 = q2
  BY DEF MailsInv
<1> QED
  BY <1>1, <1>2, <1>3 DEF MailsInv

LEMMA MailsKept == TypeOK /\ MailsInv /\ [Next]_vars => MailsInv'
<1> SUFFICES ASSUME TypeOK, MailsInv, [Next]_vars
             PROVE  MailsInv'
  OBVIOUS
<1>1. ASSUME NEW p \in Requests, NEW u \in Users, NEW t \in Tokens,
             \/ RegisterInsert(p, u, t)
             \/ ResendRead(p, u, t)
             \/ ForgotRead(p, u, t)
      PROVE  MailsInv'
  <2>1. CASE RegisterInsert(p, u, t)
    BY <2>1, DrawKeepsMails DEF RegisterInsert, Columns
  <2>2. CASE ResendRead(p, u, t)
    BY <2>2, DrawKeepsMails DEF ResendRead, Columns
  <2>3. CASE ForgotRead(p, u, t)
    BY <2>3, DrawKeepsMails DEF ForgotRead, Columns
  <2> QED
    BY <1>1, <2>1, <2>2, <2>3
<1>2. ASSUME NEW p \in Requests, NEW m \in mails,
             VerifyRead(p, m.to, m.token) \/ ResetRead(p, m.to, m.token)
      PROVE  MailsInv'
  <2>1. PICK place \in {"verify", "reset"} :
          Begin(p, place, m.to, m.token) /\ mails' = mails
    BY <1>2 DEF VerifyRead, ResetRead
  <2>2. requests'[p] = [at |-> place, user |-> m.to, token |-> m.token]
    BY <2>1, BeginStep
  <2>3. ~Drawing(requests'[p])
    BY <2>2 DEF Drawing
  <2> QED
    BY <2>1, <2>3, BeginStep, OthersKeepMails
<1>3. ASSUME NEW u \in Users, ResetExpires(u)
      PROVE  MailsInv'
  BY <1>3 DEF ResetExpires, MailsInv
<1>4. ASSUME NEW p \in Requests, Finish(p)
      PROVE  MailsInv'
  <2>1. ~Drawing(requests'[p])
    BY <1>4, EndStep, IdleFields DEF Drawing
  <2>2. \/ known' = known
        \/ Drawing(requests[p]) /\ known' = known \cup {requests[p].token}
    BY <1>4 DEF Finish, RegisterCommit, VerifyCommit, ResendCommit, ForgotCommit,
       ResetCommit, Abort, Commit, Drawing
  <2> QED
    BY <1>4, <2>1, <2>2, EndStep, OthersKeepMails
<1>5. CASE UNCHANGED vars
  BY <1>5 DEF vars, MailsInv
<1> QED
  BY <1>1, <1>2, <1>3, <1>4, <1>5 DEF Next

-------------------------------------------------------------------------------
(* Rows: which of them exist.                                              *)

(* A request begins with a row that exists, or registers one that does not.*)
LEMMA BeginKeepsRows ==
  ASSUME TypeOK, RowsInv, NEW p \in Requests, NEW u \in Users, NEW t, NEW place,
         Begin(p, place, u, t),
         place = "register" =>
           /\ ~users[u].registered
           /\ \A q \in Requests : ~(requests[q].at = "register" /\ requests[q].user = u),
         place # "register" => users[u].registered
  PROVE  RowsInv'
<1>1. /\ requests'[p] = [at |-> place, user |-> u, token |-> t]
      /\ \A q \in Requests \ {p} : requests'[q] = requests[q]
      /\ users' = users
  BY BeginStep
<1>2. requests'[p].at = place /\ requests'[p].user = u
  BY <1>1
<1>3. \A q \in Requests :
        requests'[q].at = "register" =>
          /\ ~users[requests'[q].user].registered
          /\ \A q2 \in Requests \ {q} :
               requests'[q2].at = "register" => requests'[q2].user # requests'[q].user
  BY <1>1, <1>2 DEF RowsInv
<1>4. \A q \in Requests :
        requests'[q].at \in {"verify", "resend", "forgot", "reset"} =>
          users[requests'[q].user].registered
  BY <1>1, <1>2 DEF RowsInv
<1> QED
  BY <1>1, <1>3, <1>4 DEF RowsInv

LEMMA RowsKept == TypeOK /\ RowsInv /\ [Next]_vars => RowsInv'
<1> SUFFICES ASSUME TypeOK, RowsInv, [Next]_vars
             PROVE  RowsInv'
  OBVIOUS
<1>1. ASSUME NEW p \in Requests, NEW u \in Users, NEW t \in Tokens,
             \/ RegisterInsert(p, u, t)
             \/ ResendRead(p, u, t)
             \/ ForgotRead(p, u, t)
      PROVE  RowsInv'
  <2>1. CASE RegisterInsert(p, u, t)
    BY <2>1, BeginKeepsRows DEF RegisterInsert
  <2>2. CASE ResendRead(p, u, t)
    BY <2>2, BeginKeepsRows DEF ResendRead
  <2>3. CASE ForgotRead(p, u, t)
    BY <2>3, BeginKeepsRows DEF ForgotRead
  <2> QED
    BY <1>1, <2>1, <2>2, <2>3
<1>2. ASSUME NEW p \in Requests, NEW m \in mails,
             VerifyRead(p, m.to, m.token) \/ ResetRead(p, m.to, m.token)
      PROVE  RowsInv'
  <2>1. m.to \in Users /\ m.token \in Tokens
    BY DEF TypeOK, Mails
  <2>2. users[m.to].registered
    BY <1>2, <2>1, TokensAssumption DEF VerifyRead, ResetRead, RowsInv, NoUser
  <2>3. PICK place \in {"verify", "reset"} : Begin(p, place, m.to, m.token)
    BY <1>2 DEF VerifyRead, ResetRead
  <2> QED
    BY <2>1, <2>2, <2>3, BeginKeepsRows
<1>3. ASSUME NEW u \in Users, ResetExpires(u)
      PROVE  RowsInv'
  <2>1. \A v \in Users : users'[v].registered = users[v].registered
    BY <1>3 DEF ResetExpires, TypeOK, UserRows
  <2>2. users[u] # NoUser
    BY <1>3 DEF ResetExpires, NoUser
  <2>3. \A q \in Requests : requests[q].at # "idle" => requests[q].user \in Users
    BY BusyIsNotIdle, RequestFields DEF TypeOK
  <2> QED
    BY <1>3, <2>1, <2>2, <2>3 DEF ResetExpires, TypeOK, RowsInv
<1>4. ASSUME NEW p \in Requests, Finish(p)
      PROVE  RowsInv'
  <2> DEFINE v == requests[p].user
  <2>1. /\ requests'[p].at = "idle" 
        /\ \A q \in Requests \ {p} : requests'[q] = requests[q]
        /\ v \in Users
        /\ users[v] \in UserRows
    BY <1>4, EndStep, IdleFields
  <2>2. \A q \in Requests : requests[q].at # "idle" => requests[q].user \in Users
    BY BusyIsNotIdle, RequestFields DEF TypeOK
  <2>3. CASE Abort(p)
    BY <2>1, <2>3 DEF Abort, RowsInv
  <2>4. CASE ~Abort(p)
    <3>1. PICK row \in UserRows : row.registered /\ users' = [users EXCEPT ![v] = row]
      <4>1. CASE RegisterCommit(p)
        BY <4>1, <2>1, RowTyped, EndStep, <1>4 DEF RegisterCommit, Commit, NoUser
      <4>2. CASE ~RegisterCommit(p)
        <5>1. Row(p).registered
          BY <1>4, <2>4, <4>2 DEF Finish, VerifyCommit, ResendCommit, ForgotCommit, ResetCommit,
             Commit, RowsInv, Row
        <5>2. requests[p].at # "idle"
          BY <1>4, <2>4 DEF Finish, RegisterCommit, VerifyCommit, ResendCommit, ForgotCommit,
             ResetCommit, Commit
        <5>3. Row(p) \in UserRows
          BY <2>1 DEF Row
        <5> QED
          BY <1>4, <2>4, <4>2, <5>1, <5>2, <5>3, RowTyped
             DEF Finish, VerifyCommit, ResendCommit, ForgotCommit, ResetCommit,
                 Commit, Resent, WasReset, UserRows
      <4> QED
        BY <4>1, <4>2
    <3>2. \A q \in Requests \ {p} :
            requests[q].at = "register" => requests[q].user # v
      BY <1>4, <2>4 DEF Finish, RegisterCommit, VerifyCommit, ResendCommit, ForgotCommit,
         ResetCommit, Commit, RowsInv
    <3> QED
      BY <2>1, <2>2, <3>1, <3>2 DEF RowsInv, TypeOK
  <2> QED
    BY <2>3, <2>4
<1>5. CASE UNCHANGED vars
  BY <1>5 DEF vars, RowsInv
<1> QED
  BY <1>1, <1>2, <1>3, <1>4, <1>5 DEF Next

-------------------------------------------------------------------------------
(* Stored and spent reset tokens.                                          *)

(* What a commit does to the columns of its row.                           *)
LEMMA CommitRows ==
  ASSUME TypeOK, RowsInv, NEW p \in Requests, Finish(p)
  PROVE  LET u == requests[p].user
             t == requests[p].token
         IN  /\ \A v \in Users \ {u} : users'[v] = users[v]
             /\ requests[p].at \in {"register", "resend"} /\ ~Abort(p) =>
                  /\ users'[u].verification = t /\ users'[u].reset = users[u].reset
                  /\ known' = known \cup {t} /\ spends' = spends
             /\ requests[p].at = "forgot" /\ ~Abort(p) =>
                  /\ users'[u].verification = users[u].verification /\ users'[u].reset = t
                  /\ known' = known \cup {t} /\ spends' = spends
             /\ requests[p].at = "verify" /\ ~Abort(p) =>
                  /\ users'[u].verification = NoToken /\ users'[u].reset = users[u].reset
                  /\ known' = known /\ spends' = spends
             /\ requests[p].at = "reset" /\ ~Abort(p) =>
                  /\ users'[u].verification = users[u].verification
                  /\ users'[u].reset = NoToken
                  /\ known' = known /\ spends' = [spends EXCEPT ![t] = @ + 1]
             /\ Abort(p) => users' = users /\ known' = known /\ spends' = spends
             /\ requests[p].at \in {"register", "verify", "resend", "forgot", "reset"}
<1> DEFINE u == requests[p].user
           t == requests[p].token
<1>1. /\ u \in Users /\ t \in Tokens /\ users[u] \in UserRows
      /\ requests[p] # Idle /\ requests[p] \in RequestStates
  BY EndStep DEF TypeOK
<1>2. requests[p].at \in {"register", "verify", "resend", "forgot", "reset"}
  BY <1>1, RequestFields
<1>3. CASE RegisterCommit(p)
  <2>1. requests[p].at = "register" /\ users[u] = NoUser
    BY <1>1, <1>3 DEF RegisterCommit, Commit, RowsInv
  <2>2. users' = [users EXCEPT ![u] = [NoUser EXCEPT !.registered = TRUE, !.verification = t]]
    BY <1>3 DEF RegisterCommit, Commit
  <2>3. users'[u].verification = t /\ users'[u].reset = users[u].reset
    BY <1>1, <2>1, <2>2 DEF TypeOK, NoUser
  <2> QED
    BY <1>1, <1>3, <2>1, <2>2, <2>3 DEF RegisterCommit, Abort, TypeOK
<1>4. CASE VerifyCommit(p)
  BY <1>1, <1>4 DEF VerifyCommit, Commit, Row, TypeOK, UserRows, Abort
<1>5. CASE ResendCommit(p)
  BY <1>1, <1>5 DEF ResendCommit, Commit, Row, Resent, TypeOK, UserRows, Abort
<1>6. CASE ForgotCommit(p)
  BY <1>1, <1>6 DEF ForgotCommit, Commit, Row, TypeOK, UserRows, Abort
<1>7. CASE ResetCommit(p)
  BY <1>1, <1>7 DEF ResetCommit, Commit, Row, WasReset, TypeOK, UserRows, Abort
<1>8. CASE Abort(p)
  BY <1>2, <1>8 DEF Abort
<1> QED
  BY <1>3, <1>4, <1>5, <1>6, <1>7, <1>8 DEF Finish

LEMMA StoredKept ==
  TypeOK /\ MailsInv /\ RowsInv /\ StoredInv /\ [Next]_vars => StoredInv'
<1> SUFFICES ASSUME TypeOK, MailsInv, RowsInv, StoredInv, [Next]_vars
             PROVE  StoredInv'
  OBVIOUS
<1>1. ASSUME NEW p \in Requests, NEW u \in Users, NEW t \in Tokens,
             \/ RegisterInsert(p, u, t)
             \/ ResendRead(p, u, t)
             \/ ForgotRead(p, u, t)
      PROVE  StoredInv'
  <2>1. PICK place \in {"register", "resend", "forgot"} : Begin(p, place, u, t)
    BY <1>1 DEF RegisterInsert, ResendRead, ForgotRead
  <2>2. mails \subseteq mails'
    BY <1>1 DEF RegisterInsert, ResendRead, ForgotRead, Queue
  <2>3. /\ requests'[p].at # "reset"
        /\ \A q \in Requests \ {p} : requests'[q] = requests[q]
        /\ users' = users /\ known' = known /\ spends' = spends
    BY <2>1, BeginStep
  <2> QED
    BY <2>2, <2>3 DEF StoredInv
<1>2. ASSUME NEW p \in Requests, NEW m \in mails,
             VerifyRead(p, m.to, m.token) \/ ResetRead(p, m.to, m.token)
      PROVE  StoredInv'
  <2>1. m.to \in Users /\ m.token \in Tokens
    BY DEF TypeOK, Mails
  <2>2. CASE VerifyRead(p, m.to, m.token)
    <3>1. Begin(p, "verify", m.to, m.token) /\ mails' = mails
      BY <2>2 DEF VerifyRead
    <3>2. /\ requests'[p].at # "reset"
          /\ \A q \in Requests \ {p} : requests'[q] = requests[q]
          /\ users' = users /\ known' = known /\ spends' = spends
      BY <3>1 DEF Begin, TypeOK
    <3> QED
      BY <3>1, <3>2 DEF StoredInv
  <2>3. CASE ResetRead(p, m.to, m.token)
    <3>1. Begin(p, "reset", m.to, m.token) /\ mails' = mails
      BY <2>3 DEF ResetRead
    <3>2. /\ requests'[p].user = m.to /\ requests'[p].token = m.token
          /\ \A q \in Requests \ {p} : requests'[q] = requests[q]
          /\ users' = users /\ known' = known /\ spends' = spends
      BY <3>1 DEF Begin, TypeOK
    <3>3. MailTo(m.to, "reset", m.token) \in mails /\ m.token \in known
      BY <2>1, <2>3, TokensAssumption DEF ResetRead, StoredInv
    <3> QED
      BY <3>1, <3>2, <3>3 DEF StoredInv
  <2> QED
    BY <1>2, <2>2, <2>3
<1>3. ASSUME NEW u \in Users, ResetExpires(u)
      PROVE  StoredInv'
  <2>1. \A v \in Users : users'[v].reset = users[v].reset
    BY <1>3 DEF ResetExpires, TypeOK, UserRows
  <2> QED
    BY <1>3, <2>1 DEF ResetExpires, StoredInv
<1>4. ASSUME NEW p \in Requests, Finish(p)
      PROVE  StoredInv'
  <2> DEFINE u == requests[p].user
             t == requests[p].token
  <2>1. /\ requests'[p].at = "idle"
        /\ \A q \in Requests \ {p} : requests'[q] = requests[q]
        /\ mails' = mails /\ u \in Users /\ t \in Tokens
    BY <1>4, EndStep, IdleFields
  <2>2. /\ \A v \in Users \ {u} : users'[v] = users[v]
        /\ users'[u].reset \in {users[u].reset, t, NoToken}
        /\ known \subseteq known'
    BY <1>4, CommitRows
  <2>3. \A q \in Requests :
          requests'[q].at = "reset" =>
            /\ MailTo(requests'[q].user, "reset", requests'[q].token) \in mails'
            /\ requests'[q].token \in known'
    BY <2>1, <2>2 DEF StoredInv
  <2>4. CASE ~(requests[p].at \in {"forgot", "reset"}) \/ Abort(p)
    <3>1. spends' = spends /\ users'[u].reset = users[u].reset
      BY <1>4, <2>4, CommitRows
    <3>2. \A v \in Users : users'[v].reset = users[v].reset
      BY <2>2, <3>1
    <3> QED
      BY <2>1, <2>2, <2>3, <3>1, <3>2 DEF StoredInv
  <2>5. CASE requests[p].at = "forgot" /\ ~Abort(p)
    <3>1. /\ users'[u].reset = t /\ known' = known \cup {t} /\ spends' = spends
      BY <1>4, <2>5, CommitRows
    <3>2. MailTo(u, "reset", t) \in mails /\ t \notin known
      BY <2>5 DEF MailsInv, Drawing, DrawnMail
    <3> QED
      BY <2>1, <2>2, <2>3, <3>1, <3>2 DEF StoredInv
  <2>6. CASE requests[p].at = "reset" /\ ~Abort(p)
    <3>1. /\ users'[u].reset = NoToken /\ known' = known
          /\ spends' = [spends EXCEPT ![t] = @ + 1]
      BY <1>4, <2>6, CommitRows
    <3>2. MailTo(u, "reset", t) \in mails /\ t \in known
      BY <2>6 DEF StoredInv
    <3>3. \A v \in Users \ {u} : users[v].reset # t
      <4>1. SUFFICES ASSUME NEW v \in Users \ {u}, users[v].reset = t
                     PROVE  FALSE
        OBVIOUS
      <4>2. MailTo(v, "reset", t) \in mails
        BY <2>1, <4>1, TokensAssumption DEF StoredInv
      <4>3. MailTo(v, "reset", t) = MailTo(u, "reset", t)
        BY <3>2, <4>2 DEF MailsInv, MailTo
      <4> QED
        BY <4>1, <4>3 DEF MailTo
    <3>4. \A s \in Tokens :
            spends'[s] > 0 => s \in known' /\ \A v \in Users : users'[v].reset # s
      <4>1. \A v \in Users : users'[v].reset # t
        BY <2>1, <2>2, <3>1, <3>3, TokensAssumption
      <4>2. \A s \in Tokens \ {t} : spends'[s] = spends[s]
        BY <3>1 DEF TypeOK
      <4>3. \A s \in Tokens : \A v \in Users : users[v].reset # s => users'[v].reset # s
        BY <2>1, <2>2, <3>1, TokensAssumption
      <4> QED
        BY <2>1, <3>1, <3>2, <4>1, <4>2, <4>3 DEF StoredInv
    <3> QED
      BY <2>1, <2>2, <2>3, <3>1, <3>4 DEF StoredInv
  <2> QED
    BY <2>4, <2>5, <2>6
<1>5. CASE UNCHANGED vars
  BY <1>5 DEF vars, StoredInv
<1> QED
  BY <1>1, <1>2, <1>3, <1>4, <1>5 DEF Next

LEMMA ResettingFinite ==
  ASSUME NEW S, S \subseteq Requests
  PROVE  /\ IsFiniteSet(S) /\ Cardinality(S) \in Nat
         /\ Cardinality(S) <= Cardinality(Requests)
         /\ Cardinality(Requests) \in Nat
  BY TokensAssumption, FS_Subset, FS_CardinalityType

(* Fewer requests hold the token, and none has used it.                    *)
LEMMA SpentByFewer ==
  ASSUME TypeOK, SpentInv, spends' = spends,
         \A t \in Tokens : Resetting(t)' \subseteq Resetting(t)
  PROVE  SpentInv'
<1> SUFFICES ASSUME NEW t \in Tokens
             PROVE  spends'[t] + Cardinality(Resetting(t)') <= Cardinality(Requests)
  BY DEF SpentInv
<1>1. Resetting(t) \subseteq Requests
  BY DEF Resetting
<1>2. Cardinality(Resetting(t)') <= Cardinality(Resetting(t))
  BY <1>1, ResettingFinite, FS_Subset
<1>3. /\ Cardinality(Resetting(t)) \in Nat /\ Cardinality(Resetting(t)') \in Nat
      /\ Cardinality(Requests) \in Nat /\ spends[t] \in Nat
  BY <1>1, ResettingFinite DEF TypeOK
<1> QED
  BY <1>2, <1>3 DEF SpentInv

LEMMA SpentKept ==
  TypeOK /\ MailsInv /\ RowsInv /\ StoredInv /\ SpentInv /\ [Next]_vars => SpentInv'
<1> SUFFICES ASSUME TypeOK, MailsInv, RowsInv, StoredInv, SpentInv, [Next]_vars
             PROVE  SpentInv'
  OBVIOUS
<1>1. ASSUME NEW p \in Requests, NEW u \in Users, NEW t \in Tokens,
             \/ RegisterInsert(p, u, t)
             \/ ResendRead(p, u, t)
             \/ ForgotRead(p, u, t)
      PROVE  SpentInv'
  <2>1. PICK place \in {"register", "resend", "forgot"} : Begin(p, place, u, t)
    BY <1>1 DEF RegisterInsert, ResendRead, ForgotRead
  <2>2. requests'[p].at # "reset"
    BY <2>1, BeginStep
  <2>3. \A s \in Tokens : Resetting(s)' \subseteq Resetting(s)
    BY <2>1, <2>2, BeginStep DEF Resetting
  <2> QED
    BY <2>1, <2>3, BeginStep, SpentByFewer
<1>2. ASSUME NEW p \in Requests, NEW m \in mails, VerifyRead(p, m.to, m.token)
      PROVE  SpentInv'
  <2>1. Begin(p, "verify", m.to, m.token)
    BY <1>2 DEF VerifyRead
  <2>2. /\ requests'[p].at # "reset" /\ spends' = spends
        /\ \A q \in Requests \ {p} : requests'[q] = requests[q]
    BY <2>1 DEF Begin, TypeOK
  <2>3. \A s \in Tokens : Resetting(s)' \subseteq Resetting(s)
    BY <2>2 DEF Resetting
  <2> QED
    BY <2>2, <2>3, SpentByFewer
<1>3. ASSUME NEW p \in Requests, NEW m \in mails, ResetRead(p, m.to, m.token)
      PROVE  SpentInv'
  <2>1. m.to \in Users /\ m.token \in Tokens
    BY DEF TypeOK, Mails
  <2>2. /\ requests[p] = Idle /\ requests'[p].token = m.token
        /\ \A q \in Requests \ {p} : requests'[q] = requests[q]
        /\ spends' = spends
    BY <1>3 DEF ResetRead, Begin, TypeOK
  <2>3. spends[m.token] = 0
    BY <1>3, <2>1 DEF ResetRead, StoredInv, TypeOK
  <2>4. \A s \in Tokens \ {m.token} : Resetting(s)' = Resetting(s)
    BY <2>2, IdleFields DEF Resetting
  <2>5. Resetting(m.token)' \subseteq Requests
    BY DEF Resetting
  <2>6. spends'[m.token] + Cardinality(Resetting(m.token)') <= Cardinality(Requests)
    BY <2>2, <2>3, <2>5, ResettingFinite
  <2>7. \A s \in Tokens \ {m.token} :
          spends'[s] + Cardinality(Resetting(s)') <= Cardinality(Requests)
    BY <2>2, <2>4 DEF SpentInv
  <2> QED
    BY <2>6, <2>7 DEF SpentInv
<1>4. ASSUME NEW u \in Users, ResetExpires(u)
      PROVE  SpentInv'
  BY <1>4, SpentByFewer DEF ResetExpires, Resetting
<1>5. ASSUME NEW p \in Requests, Finish(p)
      PROVE  SpentInv'
  <2>1. /\ requests'[p].at = "idle"
        /\ \A q \in Requests \ {p} : requests'[q] = requests[q]
    BY <1>5, EndStep, IdleFields
  <2>0. PICK t \in Tokens : t = requests[p].token
    BY <1>5, EndStep
  <2>2. \A s \in Tokens : Resetting(s)' \subseteq Resetting(s)
    BY <2>1 DEF Resetting
  <2>3. CASE requests[p].at # "reset" \/ Abort(p)
    <3>1. spends' = spends
      BY <1>5, <2>3, CommitRows
    <3> QED
      BY <2>2, <3>1, SpentByFewer
  <2>4. CASE requests[p].at = "reset" /\ ~Abort(p)
    <3>1. spends' = [spends EXCEPT ![t] = @ + 1]
      BY <1>5, <2>0, <2>4, CommitRows
    <3>2. p \in Resetting(t) /\ Resetting(t)' = Resetting(t) \ {p}
      BY <2>0, <2>1, <2>4 DEF Resetting
    <3>3. \A s \in Tokens \ {t} : Resetting(s)' = Resetting(s)
      BY <2>0, <2>1, <2>4 DEF Resetting
    <3>4. Resetting(t) \subseteq Requests
      BY DEF Resetting
    <3>5. Cardinality(Resetting(t)') = Cardinality(Resetting(t)) - 1
      BY <3>2, <3>4, ResettingFinite, FS_RemoveElement
    <3>6. spends'[t] = spends[t] + 1 /\ spends[t] \in Nat
      BY <2>1, <3>1 DEF TypeOK
    <3>7. spends'[t] + Cardinality(Resetting(t)') <= Cardinality(Requests)
      BY <2>1, <3>4, <3>5, <3>6, ResettingFinite DEF SpentInv
    <3>8. \A s \in Tokens \ {t} :
            spends'[s] + Cardinality(Resetting(s)') <= Cardinality(Requests)
      BY <3>1, <3>3 DEF SpentInv, TypeOK
    <3> QED
      BY <3>7, <3>8 DEF SpentInv
  <2> QED
    BY <2>3, <2>4
<1>6. CASE UNCHANGED vars
  BY <1>6, SpentByFewer DEF vars, Resetting
<1> QED
  BY <1>1, <1>2, <1>3, <1>4, <1>5, <1>6 DEF Next

-------------------------------------------------------------------------------
Inv == TypeOK /\ MailsInv /\ RowsInv /\ StoredInv /\ SpentInv

LEMMA InitInv == Init => Inv
<1> SUFFICES ASSUME Init
             PROVE  Inv
  OBVIOUS
<1>1. \A p \in Requests : requests[p].at = "idle"
  BY IdleFields DEF Init
<1>2. \A t \in Tokens : spends[t] = 0 /\ Resetting(t) = {}
  BY <1>1 DEF Init, Resetting
<1>3. MailsInv
  BY <1>1 DEF Init, MailsInv, Drawing
<1>4. RowsInv
  BY <1>1 DEF Init, RowsInv
<1>5. StoredInv
  BY <1>1, <1>2 DEF Init, StoredInv, NoUser
<1>6. Cardinality({}) = 0 /\ Cardinality(Requests) \in Nat
  BY TokensAssumption, FS_EmptySet, FS_CardinalityType
<1>7. SpentInv
  BY <1>2, <1>6 DEF SpentInv
<1> QED
  BY <1>3, <1>4, <1>5, <1>7, InitTyped DEF Inv

LEMMA InvKept == Inv /\ [Next]_vars => Inv'
  BY NextTyped, MailsKept, RowsKept, StoredKept, SpentKept DEF Inv

THEOREM Invariant == Spec => []Inv
  BY InitInv, InvKept, PTL DEF Spec

(* One token resets the password at most once for each request that may be *)
(* in flight (reset_password reads the row without a lock).                *)
THEOREM TokensAreSpent == Spec => []SpentBound
<1>1. Inv => SpentBound
  <2> SUFFICES ASSUME Inv, NEW t \in Tokens
               PROVE  spends[t] <= Cardinality(Requests)
    BY DEF SpentBound
  <2>1. Resetting(t) \subseteq Requests
    BY DEF Resetting
  <2>2. /\ Cardinality(Resetting(t)) \in Nat /\ Cardinality(Requests) \in Nat
        /\ spends[t] \in Nat
    BY <2>1, ResettingFinite DEF Inv, TypeOK
  <2> QED
    BY <2>2 DEF Inv, SpentInv
<1> QED
  BY <1>1, Invariant, PTL

-------------------------------------------------------------------------------
(* Verification.                                                           *)

LEMMA CommitFlags ==
  ASSUME Inv, NEW p \in Requests, Finish(p), ~Abort(p)
  PROVE  LET u == requests[p].user
         IN  /\ users'[u].registered
             /\ users'[u].verified = (requests[p].at = "verify" \/ users[u].verified)
<1> DEFINE u == requests[p].user
<1>1. /\ u \in Users /\ users[u] \in UserRows /\ TypeOK /\ RowsInv
  BY EndStep DEF Inv
<1>2. CASE RegisterCommit(p)
  <2>1. requests[p].at = "register" /\ users[u] = NoUser
    BY <1>1, <1>2 DEF RegisterCommit, Commit, RowsInv
  <2> QED
    <3>1. /\ users'[u].registered = TRUE
          /\ users'[u].verified = FALSE
          /\ users[u].verified = FALSE
      BY <1>1, <1>2, <2>1 DEF RegisterCommit, Commit, NoUser, TypeOK
    <3> QED
      BY <2>1, <3>1
<1>3. CASE VerifyCommit(p)
  BY <1>1, <1>3 DEF VerifyCommit, Commit, Row, TypeOK, UserRows, RowsInv
<1>4. CASE ResendCommit(p)
  BY <1>1, <1>4 DEF ResendCommit, Commit, Row, Resent, TypeOK, UserRows, RowsInv
<1>5. CASE ForgotCommit(p)
  BY <1>1, <1>5 DEF ForgotCommit, Commit, Row, TypeOK, UserRows, RowsInv
<1>6. CASE ResetCommit(p)
  BY <1>1, <1>6 DEF ResetCommit, Commit, Row, WasReset, TypeOK, UserRows, RowsInv
<1> QED
  BY <1>2, <1>3, <1>4, <1>5, <1>6 DEF Finish

(* Only the commits of requests change the flags of a row.                 *)
LEMMA OtherFlags ==
  ASSUME Inv, [Next]_vars, \A p \in Requests : Finish(p) => Abort(p)
  PROVE  /\ mails \subseteq mails'
         /\ \A u \in Users :
              /\ users'[u].registered = users[u].registered
              /\ users'[u].verified = users[u].verified
              /\ users'[u].verification = users[u].verification
<1>1. ASSUME NEW p \in Requests, NEW u \in Users, NEW t \in Tokens,
             RegisterInsert(p, u, t) \/ ResendRead(p, u, t) \/ ForgotRead(p, u, t)
      PROVE  users' = users /\ mails \subseteq mails'
  BY <1>1 DEF RegisterInsert, ResendRead, ForgotRead, Begin, Queue
<1>2. ASSUME NEW p \in Requests, NEW m \in mails,
             VerifyRead(p, m.to, m.token) \/ ResetRead(p, m.to, m.token)
      PROVE  users' = users /\ mails \subseteq mails'
  BY <1>2 DEF VerifyRead, ResetRead, Begin
<1>3. ASSUME NEW v \in Users, ResetExpires(v)
      PROVE  /\ mails' = mails
             /\ \A u \in Users :
                  /\ users'[u].registered = users[u].registered
                  /\ users'[u].verified = users[u].verified
                  /\ users'[u].verification = users[u].verification
  BY <1>3 DEF ResetExpires, Inv, TypeOK, UserRows
<1>4. ASSUME NEW p \in Requests, Finish(p)
      PROVE  users' = users /\ mails' = mails
  BY <1>4 DEF Abort
<1> QED
  BY <1>1, <1>2, <1>3, <1>4 DEF Next, vars

LEMMA CanVerifyKept ==
  Inv /\ UnverifiedCanVerify /\ [Next]_vars => UnverifiedCanVerify'
<1> SUFFICES ASSUME Inv, UnverifiedCanVerify, [Next]_vars
             PROVE  UnverifiedCanVerify'
  OBVIOUS
<1>1. ASSUME NEW p \in Requests, Finish(p), ~Abort(p)
      PROVE  UnverifiedCanVerify'
  <2> DEFINE u == requests[p].user
             t == requests[p].token
             at == requests[p].at
  <2>1. /\ mails' = mails
        /\ u \in Users /\ t \in Tokens
    BY <1>1, EndStep DEF Inv
  <2>2. /\ \A v \in Users \ {u} : users'[v] = users[v]
        /\ at \in {"register", "resend"} => users'[u].verification = t
        /\ at \in {"forgot", "reset"} => users'[u].verification = users[u].verification
        /\ at \in {"register", "verify", "resend", "forgot", "reset"}
    BY <1>1, CommitRows DEF Inv
  <2>3. users'[u].verified = (at = "verify" \/ users[u].verified)
    BY <1>1, CommitFlags
  <2>4. at \in {"register", "resend"} => MailTo(u, "verification", t) \in mails
    BY DEF Inv, MailsInv, Drawing, DrawnMail
  <2>5. at \in {"forgot", "reset"} => users[u].registered
    BY DEF Inv, RowsInv
  <2>6. users'[u].registered /\ ~users'[u].verified =>
          MailTo(u, "verification", users'[u].verification) \in mails
    BY <2>1, <2>2, <2>3, <2>4, <2>5 DEF UnverifiedCanVerify, MailTo
  <2> QED
    BY <2>1, <2>2, <2>6 DEF UnverifiedCanVerify, MailTo
<1>2. CASE \A p \in Requests : Finish(p) => Abort(p)
  BY <1>2, OtherFlags DEF UnverifiedCanVerify
<1> QED
  BY <1>1, <1>2

(* Whoever has not verified the address holds a mail with the token that   *)
(* is stored, however resends, verifications and rollbacks interleave.     *)
THEOREM UnverifiedAlwaysCan == Spec => []UnverifiedCanVerify
<1>1. Init => UnverifiedCanVerify
  BY DEF Init, UnverifiedCanVerify, NoUser
<1> QED
  BY <1>1, CanVerifyKept, Invariant, PTL DEF Spec

(* No resend, forgot or reset that read the row earlier undoes a           *)
(* verification, and registration never meets a verified row.              *)
THEOREM VerificationStays == Spec => VerificationIsPermanent
<1>1. Inv /\ [Next]_vars => [\A u \in Users : users[u].verified => users'[u].verified]_vars
  <2> SUFFICES ASSUME Inv, [Next]_vars, NEW u \in Users, users[u].verified
               PROVE  users'[u].verified
    OBVIOUS
  <2>1. ASSUME NEW p \in Requests, Finish(p), ~Abort(p)
        PROVE  users'[u].verified
    <3>1. requests[p].user # u => users'[u] = users[u]
      BY <2>1, CommitRows DEF Inv
    <3>2. requests[p].user = u => users'[u].verified
      BY <2>1, CommitFlags
    <3> QED
      BY <3>1, <3>2
  <2>2. CASE \A p \in Requests : Finish(p) => Abort(p)
    BY <2>2, OtherFlags
  <2> QED
    BY <2>1, <2>2
<1> QED
  BY <1>1, Invariant, PTL DEF Spec, VerificationIsPermanent

-------------------------------------------------------------------------------
(* Both columns implement MailedToken.                                     *)

(* A mail of one column adds nothing to what the columns have held.        *)
LEMMA MailStep ==
  ASSUME Inv, NEW u \in Users, NEW t \in Tokens, NEW c \in Columns, NEW d \in Columns,
         Draw(u, c, t), Queue(u, c, t), known' = known
  PROVE  /\ \A m \in MailedFor(d) : m[2] # t
         /\ MailedFor(d)' = IF c = d THEN MailedFor(d) \cup {<<u, t>>} ELSE MailedFor(d)
         /\ KnownFor(d)' = KnownFor(d)
<1>1. \A m \in mails : m.token # t
  BY DEF Draw
<1>2. t \notin known
  BY <1>1 DEF Inv, MailsInv
<1>3. mails' = mails \cup {MailTo(u, c, t)}
  BY DEF Queue, MailTo
<1>4. /\ MailTo(u, c, t).to = u /\ MailTo(u, c, t).for = c /\ MailTo(u, c, t).token = t
  BY DEF MailTo
<1>5. KnownFor(d)' = KnownFor(d)
  BY <1>2, <1>3, <1>4 DEF KnownFor
<1>6. \A m \in MailedFor(d) : m[2] # t
  BY <1>1 DEF MailedFor
<1>7. CASE c = d
  <2>1. \A x : x \in MailedFor(d)' <=> x \in MailedFor(d) \cup {<<u, t>>}
    BY <1>3, <1>4, <1>7 DEF MailedFor
  <2> QED
    BY <1>5, <1>6, <1>7, <2>1
<1>8. CASE c # d
  <2>1. \A x : x \in MailedFor(d)' <=> x \in MailedFor(d)
    BY <1>3, <1>4, <1>8 DEF MailedFor
  <2> QED
    BY <1>5, <1>6, <1>8, <2>1
<1> QED
  BY <1>7, <1>8

(* Storing a mailed token is news for the column it was mailed for.        *)
LEMMA StoreStep ==
  ASSUME Inv, NEW u \in Users, NEW t \in Tokens, NEW c \in Columns, NEW d \in Columns,
         MailTo(u, c, t) \in mails, t \notin known,
         mails' = mails, known' = known \cup {t}
  PROVE  /\ <<u, t>> \in MailedFor(c) /\ t \notin KnownFor(c)
         /\ MailedFor(d)' = MailedFor(d)
         /\ KnownFor(d)' = IF c = d THEN KnownFor(d) \cup {t} ELSE KnownFor(d)
<1> DEFINE m0 == MailTo(u, c, t)
<1>1. m0.to = u /\ m0.for = c /\ m0.token = t
  BY DEF MailTo
<1>2. \A m \in mails : m.token = t => m = m0
  BY <1>1 DEF Inv, MailsInv
<1>3. <<u, t>> \in MailedFor(c) /\ t \notin KnownFor(c)
  BY <1>1 DEF MailedFor, KnownFor
<1>4. MailedFor(d)' = MailedFor(d)
  BY DEF MailedFor
<1>5. KnownFor(d)' = IF c = d THEN KnownFor(d) \cup {t} ELSE KnownFor(d)
  BY <1>1, <1>2 DEF KnownFor
<1> QED
  BY <1>3, <1>4, <1>5

(* What was mailed and known stays when neither changes.                   *)
LEMMA QuietStep ==
  ASSUME mails' = mails, known' = known, NEW d
  PROVE  MailedFor(d)' = MailedFor(d) /\ KnownFor(d)' = KnownFor(d)
  BY DEF MailedFor, KnownFor

Column(row, c) == IF c = "reset" THEN row.reset ELSE row.verification

SlotQuiet(c) ==
  /\ MailedFor(c)' = MailedFor(c) /\ KnownFor(c)' = KnownFor(c)
  /\ \A v \in Users : Column(users'[v], c) = Column(users[v], c)

SlotMails(c, u, t) ==
  /\ \A m \in MailedFor(c) : m[2] # t
  /\ MailedFor(c)' = MailedFor(c) \cup {<<u, t>>} /\ KnownFor(c)' = KnownFor(c)
  /\ \A v \in Users : Column(users'[v], c) = Column(users[v], c)

SlotStores(c, u, t) ==
  /\ <<u, t>> \in MailedFor(c) /\ t \notin KnownFor(c)
  /\ MailedFor(c)' = MailedFor(c) /\ KnownFor(c)' = KnownFor(c) \cup {t}
  /\ \A v \in Users : Column(users'[v], c) = IF v = u THEN t ELSE Column(users[v], c)

SlotClears(c, u) ==
  /\ MailedFor(c)' = MailedFor(c) /\ KnownFor(c)' = KnownFor(c)
  /\ \A v \in Users : Column(users'[v], c) = IF v = u THEN NoToken ELSE Column(users[v], c)

SlotStep(c) ==
  \/ SlotQuiet(c)
  \/ \E u \in Users, t \in Tokens : SlotMails(c, u, t) \/ SlotStores(c, u, t)
  \/ \E u \in Users : SlotClears(c, u)

LEMMA SlotSteps ==
  ASSUME Inv, [Next]_vars, NEW c \in Columns
  PROVE  SlotStep(c)
<1>1. ASSUME NEW p \in Requests, NEW u \in Users, NEW t \in Tokens,
             RegisterInsert(p, u, t) \/ ResendRead(p, u, t) \/ ForgotRead(p, u, t)
      PROVE  SlotStep(c)
  <2>1. PICK d \in Columns :
          Draw(u, d, t) /\ Queue(u, d, t) /\ known' = known /\ users' = users
    BY <1>1 DEF RegisterInsert, ResendRead, ForgotRead, Begin, Columns
  <2>2. CASE d = c
    <3>1. SlotMails(c, u, t)
      BY <2>1, <2>2, MailStep DEF SlotMails
    <3> QED
      BY <3>1 DEF SlotStep
  <2>3. CASE d # c
    <3>1. SlotQuiet(c)
      BY <2>1, <2>3, MailStep DEF SlotQuiet
    <3> QED
      BY <3>1 DEF SlotStep
  <2> QED
    BY <2>2, <2>3
<1>2. ASSUME NEW p \in Requests, NEW m \in mails,
             VerifyRead(p, m.to, m.token) \/ ResetRead(p, m.to, m.token)
      PROVE  SlotStep(c)
  <2>1. mails' = mails /\ known' = known /\ users' = users
    BY <1>2 DEF VerifyRead, ResetRead, Begin
  <2>2. SlotQuiet(c)
    BY <2>1, QuietStep DEF SlotQuiet
  <2> QED
    BY <2>2 DEF SlotStep
<1>3. ASSUME NEW v \in Users, ResetExpires(v)
      PROVE  SlotStep(c)
  <2>1. mails' = mails /\ known' = known
    BY <1>3 DEF ResetExpires
  <2>2. \A w \in Users : Column(users'[w], c) = Column(users[w], c)
    BY <1>3 DEF ResetExpires, Inv, TypeOK, UserRows, Column
  <2>3. SlotQuiet(c)
    BY <2>1, <2>2, QuietStep DEF SlotQuiet
  <2> QED
    BY <2>3 DEF SlotStep
<1>4. ASSUME NEW p \in Requests, Finish(p)
      PROVE  SlotStep(c)
  <2>1. PICK u \in Users, t \in Tokens : u = requests[p].user /\ t = requests[p].token
    BY <1>4, EndStep DEF Inv
  <2>2. /\ mails' = mails
        /\ \A v \in Users \ {u} : users'[v] = users[v]
        /\ requests[p].at \in {"register", "verify", "resend", "forgot", "reset"}
    BY <1>4, <2>1, EndStep, CommitRows DEF Inv
  <2>3. ASSUME NEW d \in Columns, d = (IF requests[p].at = "forgot" THEN "reset" ELSE "verification"),
               Drawing(requests[p]), ~Abort(p)
        PROVE  SlotStep(c)
    <3>1. MailTo(u, d, t) \in mails /\ t \notin known
      BY <2>1, <2>3 DEF Inv, MailsInv, DrawnMail
    <3>2. known' = known \cup {t}
      BY <1>4, <2>1, <2>3, CommitRows DEF Inv, Drawing
    <3>3. Column(users'[u], c) = IF c = d THEN t ELSE Column(users[u], c)
      BY <1>4, <2>1, <2>3, CommitRows DEF Inv, Drawing, Column, Columns
    <3>4. CASE c = d
      <4>1. SlotStores(c, u, t)
        BY <2>2, <3>1, <3>2, <3>3, <3>4, StoreStep DEF SlotStores
      <4> QED
        BY <4>1 DEF SlotStep
    <3>5. CASE c # d
      <4>1. MailedFor(c)' = MailedFor(c) /\ KnownFor(c)' = KnownFor(c)
        <5>0. /\ \A m \in mails : m.token = t => m = MailTo(u, d, t)
              /\ MailTo(u, d, t).for = d
          BY <3>1 DEF MailTo, Inv, MailsInv
        <5>1. KnownFor(c)' = KnownFor(c)
          BY <2>2, <3>2, <3>5, <5>0 DEF KnownFor
        <5>2. MailedFor(c)' = MailedFor(c)
          BY <2>2 DEF MailedFor
        <5> QED
          BY <3>5, <5>1, <5>2
      <4>2. Column(users'[u], c) = Column(users[u], c)
        BY <3>3, <3>5
      <4>3. SlotQuiet(c)
        BY <2>2, <4>1, <4>2 DEF SlotQuiet
      <4> QED
        BY <4>3 DEF SlotStep
    <3> QED
      BY <3>4, <3>5
  <2>4. ASSUME NEW d \in Columns, d = (IF requests[p].at = "reset" THEN "reset" ELSE "verification"),
               requests[p].at \in {"verify", "reset"}, ~Abort(p)
        PROVE  SlotStep(c)
    <3>1. known' = known
      BY <1>4, <2>4, CommitRows DEF Inv
    <3>2. Column(users'[u], c) = IF c = d THEN NoToken ELSE Column(users[u], c)
      BY <1>4, <2>1, <2>4, CommitRows DEF Inv, Column, Columns
    <3>3. CASE c = d
      <4>1. SlotClears(c, u)
        BY <2>2, <3>1, <3>2, <3>3, QuietStep DEF SlotClears
      <4> QED
        BY <4>1 DEF SlotStep
    <3>4. CASE c # d
      <4>1. SlotQuiet(c)
        BY <2>2, <3>1, <3>2, <3>4, QuietStep DEF SlotQuiet
      <4> QED
        BY <4>1 DEF SlotStep
    <3> QED
      BY <3>3, <3>4
  <2>5. CASE Abort(p)
    <3>1. SlotQuiet(c)
      BY <2>2, <2>5, QuietStep DEF SlotQuiet, Abort
    <3> QED
      BY <3>1 DEF SlotStep
  <2> QED
    BY <2>2, <2>3, <2>4, <2>5 DEF Drawing, Columns
<1>5. CASE UNCHANGED vars
  <2>1. SlotQuiet(c)
    BY <1>5, QuietStep DEF SlotQuiet, vars
  <2> QED
    BY <2>1 DEF SlotStep
<1> QED
  BY <1>1, <1>2, <1>3, <1>4, <1>5 DEF Next

(* The verification column only ever holds mailed tokens, each at most     *)
(* once, in the row it was mailed for.                                     *)
THEOREM VerificationSlotKept == Spec => VerificationSlotSpec
<1>1. Init => VerificationSlot!Init
  BY DEF Init, VerificationSlot!Init, MailedFor, KnownFor, NoUser
<1>2. Inv /\ [Next]_vars => [VerificationSlot!Next]_VerificationSlot!slot
  <2> SUFFICES ASSUME Inv, [Next]_vars
               PROVE  VerificationSlot!Next \/ UNCHANGED VerificationSlot!slot
    OBVIOUS
  <2> DEFINE c == "verification"
  <2>1. ASSUME SlotQuiet(c)
        PROVE  UNCHANGED VerificationSlot!slot
    BY <2>1 DEF VerificationSlot!slot, SlotQuiet, Column
  <2>2. ASSUME NEW u \in Users, NEW t \in Tokens, SlotMails(c, u, t)
        PROVE  VerificationSlot!Mail(u, t)
    BY <2>2 DEF VerificationSlot!Mail, SlotMails, Column
  <2>3. ASSUME NEW u \in Users, NEW t \in Tokens, SlotStores(c, u, t)
        PROVE  VerificationSlot!Store(u, t)
    BY <2>3 DEF VerificationSlot!Store, SlotStores, Column
  <2>4. ASSUME NEW u \in Users, SlotClears(c, u)
        PROVE  VerificationSlot!Clear(u)
    BY <2>4 DEF VerificationSlot!Clear, SlotClears, Column
  <2>5. SlotStep(c)
    BY SlotSteps DEF Columns
  <2> QED
    BY <2>1, <2>2, <2>3, <2>4, <2>5 DEF SlotStep, VerificationSlot!Next
<1> QED
  BY <1>1, <1>2, Invariant, PTL DEF Spec, VerificationSlotSpec, VerificationSlot!Spec

(* So does the reset column: a used or replaced reset token never returns. *)
THEOREM ResetSlotKept == Spec => ResetSlotSpec
<1>1. Init => ResetSlot!Init
  BY DEF Init, ResetSlot!Init, MailedFor, KnownFor, NoUser
<1>2. Inv /\ [Next]_vars => [ResetSlot!Next]_ResetSlot!slot
  <2> SUFFICES ASSUME Inv, [Next]_vars
               PROVE  ResetSlot!Next \/ UNCHANGED ResetSlot!slot
    OBVIOUS
  <2> DEFINE c == "reset"
  <2>1. ASSUME SlotQuiet(c)
        PROVE  UNCHANGED ResetSlot!slot
    BY <2>1 DEF ResetSlot!slot, SlotQuiet, Column
  <2>2. ASSUME NEW u \in Users, NEW t \in Tokens, SlotMails(c, u, t)
        PROVE  ResetSlot!Mail(u, t)
    BY <2>2 DEF ResetSlot!Mail, SlotMails, Column
  <2>3. ASSUME NEW u \in Users, NEW t \in Tokens, SlotStores(c, u, t)
        PROVE  ResetSlot!Store(u, t)
    BY <2>3 DEF ResetSlot!Store, SlotStores, Column
  <2>4. ASSUME NEW u \in Users, SlotClears(c, u)
        PROVE  ResetSlot!Clear(u)
    BY <2>4 DEF ResetSlot!Clear, SlotClears, Column
  <2>5. SlotStep(c)
    BY SlotSteps DEF Columns
  <2> QED
    BY <2>1, <2>2, <2>3, <2>4, <2>5 DEF SlotStep, ResetSlot!Next
<1> QED
  BY <1>1, <1>2, Invariant, PTL DEF Spec, ResetSlotSpec, ResetSlot!Spec
===============================================================================
