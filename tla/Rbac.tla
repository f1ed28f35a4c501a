---------------------------------- MODULE Rbac ---------------------------------
(***************************************************************************)
(* Roles, permissions and who holds them (src/app/services/rbac_service.py *)
(* behind the endpoints of src/app/api/v1/admin.py).                       *)
(*                                                                         *)
(* Every administrative request looks for the row it is about to create,   *)
(* inserts it, adds an audit event and commits both.  Other requests do    *)
(* the same at the same time: the SELECT sees committed rows only, and the *)
(* unique index decides at the INSERT.  Nothing in the service deletes a   *)
(* row of these tables.                                                    *)
(***************************************************************************)
EXTENDS Naturals, FiniteSets

CONSTANTS
  Users,      \* registered users
  Names,      \* names of roles and permissions as clients spell them
  Lower,      \* str.lower on Names
  Ids,        \* values uuid4 may draw for roles and permissions
  NoId,       \* rows of the link tables have no id
  Requests    \* slots for administrative requests in flight

ASSUME RbacAssumption ==
  /\ Lower \in [Names -> Names]
  /\ \A n \in Names : Lower[Lower[n]] = Lower[n]
  /\ NoId \notin Ids

VARIABLES
  superusers,   \* users whose row says is_active and is_superuser
  rows,         \* committed rows of the four tables
  events,       \* committed audit events: the row created and by whom
  requests,     \* what each request in flight does
  appointed     \* history: users that have been superuser

vars == <<superusers, rows, events, requests, appointed>>

-------------------------------------------------------------------------------
NamedTables == {"roles", "permissions"}

(* What the unique index of each table is on.                              *)
Keys ==
  [table: NamedTables, name: Names]
    \cup [table: {"role_permissions"}, role: Ids, permission: Ids]
    \cup [table: {"user_roles"}, user: Users, role: Ids]

Rows == [key: Keys, id: Ids \cup {NoId}]
Events == [row: Rows, actor: Users]

Idle == [at |-> "idle"]

RequestStates ==
  {Idle}
    \cup [at: {"insert"}, actor: Users, key: Keys]
    \cup [at: {"commit"}, actor: Users, row: Rows]

TypeOK ==
  /\ superusers \subseteq Users
  /\ rows \subseteq Rows
  /\ events \subseteq Events
  /\ requests \in [Requests -> RequestStates]
  /\ appointed \subseteq Users

Init ==
  /\ superusers = {}
  /\ rows = {}
  /\ events = {}
  /\ requests = [p \in Requests |-> Idle]
  /\ appointed = {}

-------------------------------------------------------------------------------
Becomes(p, r) == requests' = [requests EXCEPT ![p] = r]

(* An inserted row that is not committed yet.                              *)
Holding(p) == requests[p].at = "commit"

Stored(key) == \E row \in rows : row.key = key

Fresh(id) ==
  /\ \A row \in rows : row.id # id
  /\ \A p \in Requests : Holding(p) => requests[p].row.id # id

(* get_role_by_id and get_permission_by_id find the rows a link refers to. *)
Exists(table, id) == \E row \in rows : row.key.table = table /\ row.id = id

Resolves(key) ==
  /\ key.table \in {"role_permissions", "user_roles"} => Exists("roles", key.role)
  /\ key.table = "role_permissions" => Exists("permissions", key.permission)

(* Names are looked up in lower case, and stored in lower case.            *)
LowerKey(key) ==
  IF key.table \in NamedTables THEN [key EXCEPT !.name = Lower[@]] ELSE key

\* Mutants: names are stored as the client wrote them; with their table.
KeyAsGiven(key) == key
KeyQualified(key) ==
  IF key.table \in NamedTables THEN [key EXCEPT !.name = <<key.table, @>>] ELSE key

InsertedKey(key) == LowerKey(key)

-------------------------------------------------------------------------------
(* The dependency get_current_superuser, and the SELECTs of the service: a *)
(* row that is missing (404) or exists already (409, or nothing at all for *)
(* a link) ends the request before it has done anything.                   *)
Admit(p, actor, key) ==
  /\ requests[p] = Idle
  /\ actor \in superusers
  /\ Resolves(key)
  /\ ~Stored(LowerKey(key))
  /\ Becomes(p, [at |-> "insert", actor |-> actor, key |-> key])
  /\ UNCHANGED <<superusers, rows, events, appointed>>

\* Mutant: the index is not unique.
NeverTaken(key) == FALSE

(* The unique index: an INSERT waits for a transaction that inserted the   *)
(* key and has not ended, and fails if the key is committed.               *)
Free(key) == \A p \in Requests : Holding(p) => requests[p].row.key # key
Taken(key) == Stored(key)

Insert(p, id) ==
  LET r == requests[p]
      key == InsertedKey(r.key)
  IN  /\ r.at = "insert"
      /\ Free(key) /\ ~Taken(key)
      /\ IF key.table \in NamedTables THEN Fresh(id) ELSE id = NoId
      /\ Becomes(p, [at |-> "commit", actor |-> r.actor, row |-> [key |-> key, id |-> id]])
      /\ UNCHANGED <<superusers, rows, events, appointed>>

(* IntegrityError, answered 500.                                           *)
InsertFails(p) ==
  LET key == InsertedKey(requests[p].key)
  IN  /\ requests[p].at = "insert"
      /\ Free(key) /\ Taken(key)
      /\ Becomes(p, Idle)
      /\ UNCHANGED <<superusers, rows, events, appointed>>

(* record_audit_event in the same transaction, and the commit of both.     *)
Commit(p) ==
  LET r == requests[p]
  IN  /\ r.at = "commit"
      /\ rows' = rows \cup {r.row}
      /\ events' = events \cup {[row |-> r.row, actor |-> r.actor]}
      /\ Becomes(p, Idle)
      /\ UNCHANGED <<superusers, appointed>>

(* A crash or an error at any await: get_db rolls back.                    *)
Abort(p) ==
  /\ requests[p] # Idle
  /\ Becomes(p, Idle)
  /\ UNCHANGED <<superusers, rows, events, appointed>>

(* No endpoint appoints superusers; an operator does, in the database.     *)
SetSuperuser(u, flag) ==
  /\ (u \in superusers) # flag
  /\ superusers' = IF flag THEN superusers \cup {u} ELSE superusers \ {u}
  /\ appointed' = IF flag THEN appointed \cup {u} ELSE appointed
  /\ UNCHANGED <<rows, events, requests>>

Continue(p) ==
  \/ \E id \in Ids \cup {NoId} : Insert(p, id)
  \/ InsertFails(p)
  \/ Commit(p)

Next ==
  \/ \E p \in Requests, u \in Users, key \in Keys : Admit(p, u, key)
  \/ \E p \in Requests : Continue(p) \/ Abort(p)
  \/ \E u \in Users, flag \in BOOLEAN : SetSuperuser(u, flag)

Spec == Init /\ [][Next]_vars

-------------------------------------------------------------------------------
\* Mutant: the check does not lower the name it is asked for.
HasPermissionAsSpelled(u, n) ==
  \/ u \in superusers
  \/ \E holds, grants, permission \in rows :
       /\ holds.key.table = "user_roles" /\ holds.key.user = u
       /\ grants.key.table = "role_permissions" /\ grants.key.role = holds.key.role
       /\ permission.key.table = "permissions" /\ permission.id = grants.key.permission
       /\ permission.key.name = n

(* user_has_permission: superusers have every permission, others by a join *)
(* over the link tables.                                                   *)
HasPermission(u, n) ==
  \/ u \in superusers
  \/ \E holds, grants, permission \in rows :
       /\ holds.key.table = "user_roles" /\ holds.key.user = u
       /\ grants.key.table = "role_permissions" /\ grants.key.role = holds.key.role
       /\ permission.key.table = "permissions" /\ permission.id = grants.key.permission
       /\ permission.key.name = Lower[n]

(* A row is committed with exactly one event about it, and no event is     *)
(* about a row that is not there: not for the request that lost the race   *)
(* for a name, nor for one that died (rbac_service.py:19-35, 86-108).      *)
AuditMatchesRows ==
  /\ \A row \in rows : Cardinality({e \in events : e.row = row}) = 1
  /\ \A e \in events : e.row \in rows

(* Two spellings of a name, or two requests at the same time, never make   *)
(* two roles or permissions, and a link is stored once                     *)
(* (rbac_service.py:26, 54).                                               *)
NoTwins ==
  \A r1, r2 \in rows : LowerKey(r1.key) = LowerKey(r2.key) => r1 = r2

(* Whoever has a permission without being superuser has it through events  *)
(* that lead from the user to the permission, each by an actor that was    *)
(* superuser; and whoever has such events has the permission, however the  *)
(* names were spelled (rbac_service.py:145-164, dependencies.py:69).       *)
Granted(u, n) ==
  \E e1, e2, e3, e4 \in {e \in events : e.actor \in appointed} :
    /\ e1.row.key.table = "user_roles" /\ e1.row.key.user = u
    /\ e2.row.key.table = "roles" /\ e2.row.id = e1.row.key.role
    /\ e3.row.key.table = "role_permissions" /\ e3.row.key.role = e2.row.id
    /\ e4.row.key.table = "permissions" /\ e4.row.id = e3.row.key.permission
    /\ Lower[e4.row.key.name] = Lower[n]

PermissionIffGranted ==
  \A u \in Users, n \in Names :
    HasPermission(u, n) <=> u \in superusers \/ Granted(u, n)

(* Each creation looks like one step of Catalogue: however the SELECTs,    *)
(* INSERTs and commits of several requests interleave, a row and its event *)
(* appear together, under a key nobody has, after what the row refers to,  *)
(* and stay (rbac_service.py:19-35, 83-108, 132).                          *)
RefersTo(key) ==
  (IF key.table \in {"role_permissions", "user_roles"} THEN {<<"roles", key.role>>} ELSE {})
    \cup IF key.table = "role_permissions" THEN {<<"permissions", key.permission>>} ELSE {}

Atomic == INSTANCE Catalogue WITH
  Keys <- {LowerKey(key) : key \in Keys},
  Refers <- [key \in {LowerKey(key) : key \in Keys} |-> RefersTo(key)]

CatalogueSpec == Atomic!Spec
===============================================================================
