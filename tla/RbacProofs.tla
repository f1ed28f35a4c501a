------------------------------- MODULE RbacProofs ------------------------------
(***************************************************************************)
(* Proofs about Rbac, for every set of users, names, ids and requests and  *)
(* every idempotent lower.                                                 *)
(*                                                                         *)
(* The invariant joins the committed rows with the inserted ones that wait *)
(* for their commit: no two of them have one key, all their names are in   *)
(* lower case, their links resolve, and whoever asked for them was         *)
(* superuser.                                                              *)
(*                                                                         *)
(* With it the commit of a request is one step of Catalogue; IdsInv adds   *)
(* that no two inserted rows have one id.                                  *)
(***************************************************************************)
EXTENDS Rbac, FiniteSetTheorems, TLAPS

ActorsInv ==
  /\ superusers \subseteq appointed
  /\ \A e \in events : e.actor \in appointed
  /\ \A p \in Requests : requests[p] # Idle => requests[p].actor \in appointed

KeysInv ==
  /\ \A r1, r2 \in rows : r1.key = r2.key => r1 = r2
  /\ \A row \in rows : LowerKey(row.key) = row.key
  /\ \A p \in Requests :
       Holding(p) =>
         /\ ~Stored(requests[p].row.key)
         /\ LowerKey(requests[p].row.key) = requests[p].row.key
         /\ \A q \in Requests \ {p} :
              Holding(q) => requests[q].row.key # requests[p].row.key

LinksInv ==
  /\ \A row \in rows : Resolves(row.key)
  /\ \A p \in Requests :
       /\ requests[p].at = "insert" => Resolves(requests[p].key)
       /\ Holding(p) => Resolves(requests[p].row.key)

AuditInv ==
  /\ \A e \in events : e.row \in rows
  /\ \A row \in rows :
       \E actor \in Users : {e \in events : e.row = row} = {[row |-> row, actor |-> actor]}

Inv == TypeOK /\ ActorsInv /\ KeysInv /\ LinksInv /\ AuditInv

LEMMA LowerFacts ==
  ASSUME NEW key \in Keys
  PROVE  /\ LowerKey(key) \in Keys
         /\ LowerKey(LowerKey(key)) = LowerKey(key)
         /\ LowerKey(key).table = key.table
         /\ key.table \notin NamedTables => LowerKey(key) = key
         /\ key.table \in NamedTables => LowerKey(key).name = Lower[key.name]
<1>1. CASE key \in [table: NamedTables, name: Names]
  <2>1. LowerKey(key) = [table |-> key.table, name |-> Lower[key.name]]
    BY <1>1 DEF LowerKey
  <2>2. Lower[key.name] \in Names /\ Lower[Lower[key.name]] = Lower[key.name]
    BY <1>1, RbacAssumption
  <2>3. LowerKey(key) \in [table: NamedTables, name: Names]
    BY <1>1, <2>1, <2>2
  <2>4. LowerKey(LowerKey(key)) = [table |-> key.table, name |-> Lower[Lower[key.name]]]
    BY <1>1, <2>1, <2>3 DEF LowerKey
  <2> QED
    BY <1>1, <2>1, <2>2, <2>3, <2>4 DEF Keys
<1>2. CASE key \notin [table: NamedTables, name: Names]
  <2>1. key.table \notin NamedTables
    BY <1>2 DEF Keys, NamedTables
  <2> QED
    BY <2>1 DEF LowerKey
<1> QED
  BY <1>1, <1>2

LEMMA RequestFields ==
  ASSUME NEW r \in RequestStates
  PROVE  /\ r # Idle => r.at \in {"insert", "commit"} /\ r.actor \in Users
         /\ r.at = "insert" => r # Idle /\ r.key \in Keys
         /\ r.at = "commit" => r # Idle /\ r.row \in Rows /\ r.row.key \in Keys
                                 /\ r.row.id \in Ids \cup {NoId}
                                 /\ r.row = [key |-> r.row.key, id |-> r.row.id]
  BY DEF RequestStates, Idle, Rows

-------------------------------------------------------------------------------
(* The steps, each as what it does to the state.                           *)

AdmitsRequest(p) ==
  \E actor \in superusers, key \in Keys :
    /\ requests[p] = Idle
    /\ Resolves(key)
    /\ requests' = [requests EXCEPT ![p] = [at |-> "insert", actor |-> actor, key |-> key]]
    /\ UNCHANGED <<superusers, rows, events, appointed>>

InsertsRow(p) ==
  \E key \in Keys, id \in Ids \cup {NoId} :
    /\ requests[p].at = "insert"
    /\ key = LowerKey(requests[p].key)
    /\ Free(key) /\ ~Stored(key)
    /\ id \in Ids => Fresh(id)
    /\ requests' = [requests EXCEPT ![p] =
         [at |-> "commit", actor |-> requests[p].actor, row |-> [key |-> key, id |-> id]]]
    /\ UNCHANGED <<superusers, rows, events, appointed>>

EndsRequest(p) ==
  /\ requests[p] # Idle
  /\ requests' = [requests EXCEPT ![p] = Idle]
  /\ UNCHANGED <<superusers, rows, events, appointed>>

StepKinds ==
  \/ \E p \in Requests :
       AdmitsRequest(p) \/ InsertsRow(p) \/ EndsRequest(p) \/ Commit(p)
  \/ \E u \in Users, flag \in BOOLEAN : SetSuperuser(u, flag)
  \/ UNCHANGED vars

LEMMA Steps == TypeOK /\ [Next]_vars => StepKinds
<1> SUFFICES ASSUME TypeOK, [Next]_vars
             PROVE  StepKinds
  OBVIOUS
<1>1. ASSUME NEW p \in Requests, NEW u \in Users, NEW key \in Keys, Admit(p, u, key)
      PROVE  AdmitsRequest(p)
  BY <1>1 DEF Admit, AdmitsRequest, Becomes
<1>2. ASSUME NEW p \in Requests, NEW id \in Ids \cup {NoId}, Insert(p, id)
      PROVE  InsertsRow(p)
  <2>1. requests[p].at = "insert" /\ requests[p].key \in Keys
    BY <1>2, RequestFields DEF Insert, TypeOK
  <2>2. LowerKey(requests[p].key) \in Keys
    BY <2>1, LowerFacts
  <2>3. id \in Ids => Fresh(id)
    BY <1>2, RbacAssumption DEF Insert
  <2> QED
    BY <1>2, <2>1, <2>2, <2>3 DEF Insert, InsertedKey, InsertsRow, Becomes, Taken
<1>3. ASSUME NEW p \in Requests, InsertFails(p) \/ Abort(p)
      PROVE  EndsRequest(p)
  BY <1>3, RequestFields DEF InsertFails, Abort, EndsRequest, Becomes, TypeOK
<1> QED
  BY <1>1, <1>2, <1>3 DEF Next, Continue, StepKinds

LEMMA NextTyped == TypeOK /\ [Next]_vars => TypeOK'
<1> SUFFICES ASSUME TypeOK, StepKinds
             PROVE  TypeOK'
  BY Steps
<1> USE DEF TypeOK
<1>1. ASSUME NEW p \in Requests, AdmitsRequest(p)
      PROVE  TypeOK'
  BY <1>1 DEF AdmitsRequest, RequestStates
<1>2. ASSUME NEW p \in Requests, InsertsRow(p)
      PROVE  TypeOK'
  <2>1. requests[p].actor \in Users
    BY <1>2, RequestFields DEF InsertsRow
  <2> QED
    BY <1>2, <2>1 DEF InsertsRow, RequestStates, Rows
<1>3. ASSUME NEW p \in Requests, EndsRequest(p)
      PROVE  TypeOK'
  BY <1>3 DEF EndsRequest, RequestStates
<1>4. ASSUME NEW p \in Requests, Commit(p)
      PROVE  TypeOK'
  <2>1. requests[p].actor \in Users /\ requests[p].row \in Rows
    BY <1>4, RequestFields DEF Commit
  <2> QED
    BY <1>4, <2>1 DEF Commit, Becomes, RequestStates, Events
<1>5. ASSUME NEW u \in Users, NEW flag \in BOOLEAN, SetSuperuser(u, flag)
      PROVE  TypeOK'
  BY <1>5 DEF SetSuperuser
<1>6. CASE UNCHANGED vars
  BY <1>6 DEF vars
<1> QED
  BY <1>1, <1>2, <1>3, <1>4, <1>5, <1>6 DEF StepKinds

LEMMA InitTyped == Init => TypeOK
  BY DEF Init, TypeOK, RequestStates

(* Every reachable state has the shape TypeOK gives to the tables, the     *)
(* events and the requests in flight.                                      *)
THEOREM TypeCorrect == Spec => []TypeOK
  BY InitTyped, NextTyped, PTL DEF Spec

-------------------------------------------------------------------------------
LEMMA ActorsKept == TypeOK /\ ActorsInv /\ [Next]_vars => ActorsInv'
<1> SUFFICES ASSUME TypeOK, ActorsInv, StepKinds
             PROVE  ActorsInv'
  BY Steps
<1>1. ASSUME NEW p \in Requests, AdmitsRequest(p)
      PROVE  ActorsInv'
  BY <1>1 DEF AdmitsRequest, ActorsInv, TypeOK
<1>2. ASSUME NEW p \in Requests, InsertsRow(p)
      PROVE  ActorsInv'
  <2>1. requests[p] # Idle
    BY <1>2 DEF InsertsRow, Idle
  <2> QED
    BY <1>2, <2>1 DEF InsertsRow, ActorsInv, TypeOK
<1>3. ASSUME NEW p \in Requests, EndsRequest(p)
      PROVE  ActorsInv'
  BY <1>3 DEF EndsRequest, ActorsInv, TypeOK
<1>4. ASSUME NEW p \in Requests, Commit(p)
      PROVE  ActorsInv'
  <2>1. requests[p] # Idle
    BY <1>4 DEF Commit, Idle
  <2> QED
    BY <1>4, <2>1 DEF Commit, Becomes, ActorsInv, TypeOK
<1>5. ASSUME NEW u \in Users, NEW flag \in BOOLEAN, SetSuperuser(u, flag)
      PROVE  ActorsInv'
  BY <1>5 DEF SetSuperuser, ActorsInv
<1>6. CASE UNCHANGED vars
  BY <1>6 DEF vars, ActorsInv
<1> QED
  BY <1>1, <1>2, <1>3, <1>4, <1>5, <1>6 DEF StepKinds

LEMMA KeysKept == TypeOK /\ KeysInv /\ [Next]_vars => KeysInv'
<1> SUFFICES ASSUME TypeOK, KeysInv, StepKinds
             PROVE  KeysInv'
  BY Steps
<1>0. Idle.at = "idle"
  BY DEF Idle
<1>1. ASSUME NEW p \in Requests, AdmitsRequest(p)
      PROVE  KeysInv'
  <2>1. \A q \in Requests : Holding(q)' => Holding(q) /\ requests'[q] = requests[q]
    BY <1>1 DEF AdmitsRequest, Holding, TypeOK
  <2> QED
    BY <1>1, <2>1 DEF AdmitsRequest, KeysInv, Stored
<1>2. ASSUME NEW p \in Requests, InsertsRow(p)
      PROVE  KeysInv'
  <2>1. PICK key \in Keys :
          /\ key = LowerKey(requests[p].key)
          /\ Free(key) /\ ~Stored(key)
          /\ requests'[p].row.key = key
          /\ \A q \in Requests \ {p} : requests'[q] = requests[q]
          /\ rows' = rows
    BY <1>2 DEF InsertsRow, TypeOK
  <2>2. LowerKey(key) = key
    BY <1>2, <2>1, LowerFacts, RequestFields DEF InsertsRow, TypeOK
  <2>3. \A q \in Requests \ {p} :
          /\ Holding(q)' <=> Holding(q)
          /\ Holding(q) => requests[q].row.key # key
    BY <2>1 DEF Holding, Free
  <2> QED
    BY <2>1, <2>2, <2>3 DEF KeysInv, Stored
<1>3. ASSUME NEW p \in Requests, EndsRequest(p)
      PROVE  KeysInv'
  <2>1. \A q \in Requests : Holding(q)' => Holding(q) /\ requests'[q] = requests[q]
    BY <1>0, <1>3 DEF EndsRequest, Holding, TypeOK
  <2> QED
    BY <1>3, <2>1 DEF EndsRequest, KeysInv, Stored
<1>4. ASSUME NEW p \in Requests, Commit(p)
      PROVE  KeysInv'
  <2>1. /\ Holding(p) /\ rows' = rows \cup {requests[p].row}
        /\ ~Holding(p)'
        /\ \A q \in Requests \ {p} : requests'[q] = requests[q]
    BY <1>0, <1>4 DEF Commit, Becomes, Holding, TypeOK
  <2>2. \A q \in Requests \ {p} : Holding(q)' <=> Holding(q)
    BY <2>1 DEF Holding
  <2>3. \A r1, r2 \in rows' : r1.key = r2.key => r1 = r2
    BY <2>1 DEF KeysInv, Stored
  <2>4. \A row \in rows' : LowerKey(row.key) = row.key
    BY <2>1 DEF KeysInv
  <2>5. \A q \in Requests : Holding(q)' => ~Stored(requests[q].row.key)'
    BY <2>1, <2>2 DEF KeysInv, Stored
  <2> QED
    BY <2>1, <2>2, <2>3, <2>4, <2>5 DEF KeysInv
<1>5. ASSUME NEW u \in Users, NEW flag \in BOOLEAN, SetSuperuser(u, flag)
      PROVE  KeysInv'
  BY <1>5 DEF SetSuperuser, KeysInv, Holding, Stored
<1>6. CASE UNCHANGED vars
  BY <1>6 DEF vars, KeysInv, Holding, Stored
<1> QED
  BY <1>1, <1>2, <1>3, <1>4, <1>5, <1>6 DEF StepKinds

(* Rows are never deleted, so what resolved still does.                    *)
LEMMA ResolvesKept ==
  ASSUME rows \subseteq rows', NEW key, Resolves(key)
  PROVE  Resolves(key)'
  BY DEF Resolves, Exists

LEMMA LowerResolves ==
  ASSUME NEW key \in Keys, Resolves(key)
  PROVE  Resolves(LowerKey(key))
<1>1. LowerKey(key).table = key.table
  BY LowerFacts
<1>2. key.table \in NamedTables => ~(key.table \in {"role_permissions", "user_roles"})
  BY DEF NamedTables
<1> QED
  BY <1>1, <1>2, LowerFacts DEF Resolves

LEMMA LinksKept == TypeOK /\ LinksInv /\ [Next]_vars => LinksInv'
<1> SUFFICES ASSUME TypeOK, LinksInv, StepKinds
             PROVE  LinksInv'
  BY Steps
<1>0. Idle.at = "idle"
  BY DEF Idle
<1>1. ASSUME NEW p \in Requests, AdmitsRequest(p)
      PROVE  LinksInv'
  <2>1. PICK key \in Keys :
          /\ Resolves(key) /\ requests'[p].at = "insert" /\ requests'[p].key = key
          /\ rows' = rows /\ \A q \in Requests \ {p} : requests'[q] = requests[q]
    BY <1>1 DEF AdmitsRequest, TypeOK
  <2> QED
    BY <2>1 DEF LinksInv, Resolves, Exists, Holding
<1>2. ASSUME NEW p \in Requests, InsertsRow(p)
      PROVE  LinksInv'
  <2>1. PICK key \in Keys :
          /\ key = LowerKey(requests[p].key) /\ requests[p].at = "insert"
          /\ requests'[p].at = "commit" /\ requests'[p].row.key = key
          /\ rows' = rows /\ \A q \in Requests \ {p} : requests'[q] = requests[q]
    BY <1>2 DEF InsertsRow, TypeOK
  <2>2. Resolves(key)
    BY <2>1, LowerResolves, RequestFields DEF LinksInv, TypeOK
  <2> QED
    BY <2>1, <2>2 DEF LinksInv, Resolves, Exists, Holding
<1>3. ASSUME NEW p \in Requests, EndsRequest(p)
      PROVE  LinksInv'
  BY <1>0, <1>3 DEF EndsRequest, TypeOK, LinksInv, Resolves, Exists, Holding
<1>4. ASSUME NEW p \in Requests, Commit(p)
      PROVE  LinksInv'
  <2>1. /\ Holding(p) /\ rows' = rows \cup {requests[p].row} /\ requests'[p].at = "idle"
        /\ \A q \in Requests \ {p} : requests'[q] = requests[q]
    BY <1>0, <1>4 DEF Commit, Becomes, Holding, TypeOK
  <2>2. \A row \in rows' : Resolves(row.key)'
    BY <2>1, ResolvesKept DEF LinksInv
  <2>3. \A q \in Requests \ {p} :
          /\ requests[q].at = "insert" => Resolves(requests[q].key)'
          /\ Holding(q) => Resolves(requests[q].row.key)'
    <3>1. SUFFICES ASSUME NEW q \in Requests \ {p}
                   PROVE  /\ requests[q].at = "insert" => Resolves(requests[q].key)'
                          /\ Holding(q) => Resolves(requests[q].row.key)'
      OBVIOUS
    <3>2. requests[q].at = "insert" => Resolves(requests[q].key)'
      BY <2>1 DEF LinksInv, Resolves, Exists
    <3>3. Holding(q) => Resolves(requests[q].row.key)'
      BY <2>1 DEF LinksInv, Resolves, Exists
    <3> QED
      BY <3>2, <3>3
  <2> QED
    BY <2>1, <2>2, <2>3 DEF LinksInv, Holding
<1>5. ASSUME NEW u \in Users, NEW flag \in BOOLEAN, SetSuperuser(u, flag)
      PROVE  LinksInv'
  BY <1>5 DEF SetSuperuser, LinksInv, Holding, Resolves, Exists
<1>6. CASE UNCHANGED vars
  BY <1>6 DEF vars, LinksInv, Holding, Resolves, Exists
<1> QED
  BY <1>1, <1>2, <1>3, <1>4, <1>5, <1>6 DEF StepKinds

LEMMA AuditKept == TypeOK /\ KeysInv /\ AuditInv /\ [Next]_vars => AuditInv'
<1> SUFFICES ASSUME TypeOK, KeysInv, AuditInv, StepKinds
             PROVE  AuditInv'
  BY Steps
<1>1. ASSUME NEW p \in Requests, Commit(p)
      PROVE  AuditInv'
  <2>1. PICK row, actor :
          /\ row = requests[p].row /\ actor = requests[p].actor
          /\ rows' = rows \cup {row}
          /\ events' = events \cup {[row |-> row, actor |-> actor]}
    BY <1>1 DEF Commit
  <2>2. row \notin rows /\ actor \in Users
    BY <1>1, <2>1, RequestFields DEF Commit, KeysInv, Holding, Stored, TypeOK
  <2>3. {e \in events' : e.row = row} = {[row |-> row, actor |-> actor]}
    BY <2>1, <2>2 DEF AuditInv
  <2>4. ASSUME NEW r \in rows
        PROVE  {e \in events' : e.row = r} = {e \in events : e.row = r}
    BY <2>1, <2>2
  <2>5. \A r \in rows' :
          \E a \in Users : {e \in events' : e.row = r} = {[row |-> r, actor |-> a]}
    BY <2>1, <2>2, <2>3, <2>4 DEF AuditInv
  <2>6. \A e \in events' : e.row \in rows'
    BY <2>1 DEF AuditInv
  <2> QED
    BY <2>5, <2>6 DEF AuditInv
<1>2. CASE rows' = rows /\ events' = events
  BY <1>2 DEF AuditInv
<1> QED
  BY <1>1, <1>2 DEF StepKinds, AdmitsRequest, InsertsRow, EndsRequest, SetSuperuser, vars

LEMMA InitInv == Init => Inv
<1> SUFFICES ASSUME Init
             PROVE  Inv
  OBVIOUS
<1>1. \A p \in Requests : requests[p] = Idle /\ requests[p].at = "idle"
  BY DEF Init, Idle
<1> QED
  BY <1>1, InitTyped DEF Init, Inv, ActorsInv, KeysInv, LinksInv, AuditInv, Holding, Stored

LEMMA InvKept == Inv /\ [Next]_vars => Inv'
  BY NextTyped, ActorsKept, KeysKept, LinksKept, AuditKept DEF Inv

THEOREM Invariant == Spec => []Inv
  BY InitInv, InvKept, PTL DEF Spec

(* No two requests and no two spellings make two rows of one name or link. *)
THEOREM NamesAreUnique == Spec => []NoTwins
<1>1. Inv => NoTwins
  BY DEF Inv, KeysInv, NoTwins
<1> QED
  BY <1>1, Invariant, PTL

(* Every committed row has exactly one event, every event its row.         *)
THEOREM EventsMatchRows == Spec => []AuditMatchesRows
<1>1. Inv => AuditMatchesRows
  <2> SUFFICES ASSUME Inv, NEW row \in rows
               PROVE  Cardinality({e \in events : e.row = row}) = 1
    BY DEF Inv, AuditInv, AuditMatchesRows
  <2>1. PICK actor \in Users :
          {e \in events : e.row = row} = {[row |-> row, actor |-> actor]}
    BY DEF Inv, AuditInv
  <2> QED
    BY <2>1, FS_Singleton
<1> QED
  BY <1>1, Invariant, PTL

(* A user without superuser rights has exactly the permissions that events *)
(* of superusers lead to.                                                  *)
THEOREM PermissionsAreGranted == Spec => []PermissionIffGranted
<1>1. ASSUME Inv, NEW row \in rows
      PROVE  \E e \in {e \in events : e.actor \in appointed} : e.row = row
  <2>1. PICK actor \in Users :
          {e \in events : e.row = row} = {[row |-> row, actor |-> actor]}
    BY <1>1 DEF Inv, AuditInv
  <2>2. [row |-> row, actor |-> actor] \in {e \in events : e.row = row}
    BY <2>1
  <2>3. [row |-> row, actor |-> actor] \in {e \in events : e.actor \in appointed}
    BY <1>1, <2>2 DEF Inv, ActorsInv
  <2> QED
    BY <2>3
<1>2. ASSUME Inv, NEW u \in Users, NEW n \in Names, Granted(u, n)
      PROVE  HasPermission(u, n)
  <2>1. PICK e1, e2, e3, e4 \in {e \in events : e.actor \in appointed} :
          /\ e1.row.key.table = "user_roles" /\ e1.row.key.user = u
          /\ e2.row.key.table = "roles" /\ e2.row.id = e1.row.key.role
          /\ e3.row.key.table = "role_permissions" /\ e3.row.key.role = e2.row.id
          /\ e4.row.key.table = "permissions" /\ e4.row.id = e3.row.key.permission
          /\ Lower[e4.row.key.name] = Lower[n]
    BY <1>2 DEF Granted
  <2>2. e1.row \in rows /\ e3.row \in rows /\ e4.row \in rows
    BY <1>2 DEF Inv, AuditInv
  <2>3. e4.row.key \in Keys /\ LowerKey(e4.row.key) = e4.row.key
    BY <1>2, <2>2 DEF Inv, TypeOK, Rows, KeysInv
  <2>4. e4.row.key.name = Lower[e4.row.key.name]
    BY <2>1, <2>3, LowerFacts DEF NamedTables
  <2> QED
    BY <2>1, <2>2, <2>4 DEF HasPermission
<1>3. ASSUME Inv, NEW u \in Users, NEW n \in Names, HasPermission(u, n), u \notin superusers
      PROVE  Granted(u, n)
  <2>1. PICK holds, grants, permission \in rows :
          /\ holds.key.table = "user_roles" /\ holds.key.user = u
          /\ grants.key.table = "role_permissions" /\ grants.key.role = holds.key.role
          /\ permission.key.table = "permissions" /\ permission.id = grants.key.permission
          /\ permission.key.name = Lower[n]
    BY <1>3 DEF HasPermission
  <2>2. PICK role \in rows : role.key.table = "roles" /\ role.id = holds.key.role
    BY <1>3, <2>1 DEF Inv, LinksInv, Resolves, Exists
  <2>3. Lower[permission.key.name] = Lower[n]
    BY <2>1, RbacAssumption
  <2>4. /\ \E e \in {e \in events : e.actor \in appointed} : e.row = holds
        /\ \E e \in {e \in events : e.actor \in appointed} : e.row = role
        /\ \E e \in {e \in events : e.actor \in appointed} : e.row = grants
        /\ \E e \in {e \in events : e.actor \in appointed} : e.row = permission
    BY <1>1, <1>3
  <2> QED
    BY <2>1, <2>2, <2>3, <2>4 DEF Granted
<1>4. Inv => PermissionIffGranted
  BY <1>2, <1>3 DEF PermissionIffGranted, HasPermission
<1> QED
  BY <1>4, Invariant, PTL
-------------------------------------------------------------------------------
(* The refinement of Catalogue.                                            *)

(* An id that waits for its commit is no row's and nobody else's.          *)
IdsInv ==
  \A p \in Requests :
    Holding(p) /\ requests[p].row.id \in Ids =>
      /\ \A row \in rows : row.id # requests[p].row.id
      /\ \A q \in Requests \ {p} : Holding(q) => requests[q].row.id # requests[p].row.id

LEMMA IdsKept == TypeOK /\ IdsInv /\ [Next]_vars => IdsInv'
<1> SUFFICES ASSUME TypeOK, IdsInv, StepKinds
             PROVE  IdsInv'
  BY Steps
<1>0. Idle.at = "idle"
  BY DEF Idle
<1>1. ASSUME NEW p \in Requests, AdmitsRequest(p) \/ EndsRequest(p)
      PROVE  IdsInv'
  <2>1. \A q \in Requests : Holding(q)' => Holding(q) /\ requests'[q] = requests[q]
    BY <1>0, <1>1 DEF AdmitsRequest, EndsRequest, Holding, TypeOK
  <2>2. rows' = rows
    BY <1>1 DEF AdmitsRequest, EndsRequest
  <2> QED
    BY <2>1, <2>2 DEF IdsInv
<1>2. ASSUME NEW p \in Requests, InsertsRow(p)
      PROVE  IdsInv'
  <2>1. PICK id \in Ids \cup {NoId} :
          /\ id \in Ids => Fresh(id)
          /\ requests'[p].row.id = id
          /\ \A q \in Requests \ {p} : requests'[q] = requests[q]
          /\ rows' = rows
    BY <1>2 DEF InsertsRow, TypeOK
  <2>2. \A q \in Requests \ {p} :
          /\ Holding(q)' <=> Holding(q)
          /\ Holding(q) /\ id \in Ids => requests[q].row.id # id
    BY <2>1 DEF Holding, Fresh
  <2>3. id \in Ids => \A row \in rows : row.id # id
    BY <2>1 DEF Fresh
  <2> QED
    BY <2>1, <2>2, <2>3 DEF IdsInv
<1>3. ASSUME NEW p \in Requests, Commit(p)
      PROVE  IdsInv'
  <2>1. /\ Holding(p) /\ rows' = rows \cup {requests[p].row}
        /\ ~Holding(p)'
        /\ \A q \in Requests \ {p} : requests'[q] = requests[q]
    BY <1>0, <1>3 DEF Commit, Becomes, Holding, TypeOK
  <2>2. \A q \in Requests \ {p} : Holding(q)' <=> Holding(q)
    BY <2>1 DEF Holding
  <2> QED
    BY <2>1, <2>2 DEF IdsInv
<1>4. ASSUME NEW u \in Users, NEW flag \in BOOLEAN, SetSuperuser(u, flag)
      PROVE  IdsInv'
  BY <1>4 DEF SetSuperuser, IdsInv, Holding
<1>5. CASE UNCHANGED vars
  BY <1>5 DEF vars, IdsInv, Holding
<1> QED
  BY <1>1, <1>2, <1>3, <1>4, <1>5 DEF StepKinds

(* What a key that resolves refers to is there.                            *)
LEMMA TargetsExist ==
  ASSUME NEW key, Resolves(key), NEW target \in RefersTo(key)
  PROVE  \E row \in rows : row.key.table = target[1] /\ row.id = target[2]
<1>1. CASE target = <<"roles", key.role>> /\ key.table \in {"role_permissions", "user_roles"}
  BY <1>1 DEF Resolves, Exists
<1>2. CASE target = <<"permissions", key.permission>> /\ key.table = "role_permissions"
  BY <1>2 DEF Resolves, Exists
<1> QED
  BY <1>1, <1>2 DEF RefersTo

(* The commit is the step in which a row is created.                       *)
LEMMA CommitCreates ==
  ASSUME Inv, IdsInv, NEW p \in Requests, Commit(p)
  PROVE  Atomic!Next
<1> DEFINE row == requests[p].row
           actor == requests[p].actor
           key == row.key
           id == row.id
           stored == {LowerKey(k) : k \in Keys}
<1>1. /\ Holding(p) /\ requests[p] # Idle
      /\ actor \in Users /\ key \in Keys /\ id \in Ids \cup {NoId}
      /\ row = [key |-> key, id |-> id]
  BY RequestFields DEF Commit, Holding, Inv, TypeOK
<1>2. key \in stored
  BY <1>1 DEF Inv, KeysInv
<1>3. actor \in appointed
  BY <1>1 DEF Inv, ActorsInv
<1>4. \A other \in rows : other.key # key /\ (id \in Ids => other.id # id)
  BY <1>1 DEF Inv, KeysInv, Stored, IdsInv
<1>5. \A target \in [k \in stored |-> RefersTo(k)][key] :
        \E other \in rows : other.key.table = target[1] /\ other.id = target[2]
  <2>1. Resolves(key)
    BY <1>1 DEF Inv, LinksInv
  <2> QED
    BY <1>2, <2>1, TargetsExist
<1>6. /\ rows' = rows \cup {[key |-> key, id |-> id]}
      /\ events' = events \cup {[row |-> [key |-> key, id |-> id], actor |-> actor]}
      /\ appointed' = appointed
  BY <1>1 DEF Commit
<1>7. Atomic!Create(actor, key, id)
  BY <1>3, <1>4, <1>5, <1>6 DEF Atomic!Create
<1> QED
  BY <1>1, <1>2, <1>7 DEF Atomic!Next

LEMMA StepsCreate == Inv /\ IdsInv /\ [Next]_vars => [Atomic!Next]_(Atomic!catalogue)
<1> SUFFICES ASSUME Inv, IdsInv, StepKinds
             PROVE  [Atomic!Next]_(Atomic!catalogue)
  BY Steps DEF Inv
<1>1. ASSUME NEW p \in Requests, Commit(p)
      PROVE  Atomic!Next
  BY <1>1, CommitCreates
<1>2. ASSUME NEW u \in Users, NEW flag \in BOOLEAN, SetSuperuser(u, flag)
      PROVE  Atomic!Next \/ UNCHANGED Atomic!catalogue
  BY <1>2 DEF SetSuperuser, Atomic!Next, Atomic!Appoint, Atomic!catalogue
<1>3. ASSUME NEW p \in Requests, AdmitsRequest(p) \/ InsertsRow(p) \/ EndsRequest(p)
      PROVE  UNCHANGED Atomic!catalogue
  BY <1>3 DEF AdmitsRequest, InsertsRow, EndsRequest, Atomic!catalogue
<1>4. CASE UNCHANGED vars
  BY <1>4 DEF vars, Atomic!catalogue
<1> QED
  BY <1>1, <1>2, <1>3, <1>4 DEF StepKinds

(* Every creation of a role, a permission or a link, however the requests  *)
(* interleave, is one step of Catalogue.                                   *)
THEOREM ImplementsCatalogue == Spec => CatalogueSpec
<1>1. Init => IdsInv /\ Atomic!Init
  BY DEF Init, IdsInv, Holding, Idle, Atomic!Init
<1>2. Spec => []IdsInv
  <2>1. TypeOK /\ IdsInv /\ [Next]_vars => IdsInv'
    BY IdsKept
  <2> QED
    BY <1>1, <2>1, TypeCorrect, PTL DEF Spec
<1> QED
  BY <1>1, <1>2, StepsCreate, Invariant, PTL DEF Spec, CatalogueSpec, Atomic!Spec
===============================================================================
