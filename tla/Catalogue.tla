------------------------------- MODULE Catalogue -------------------------------
(***************************************************************************)
(* What the tables of roles, permissions and links promise, said without   *)
(* requests, look-ups or transactions.  A row appears in one step together *)
(* with the one event that says who made it, and its maker has been        *)
(* superuser.  It has a key and an id that no row had, what it refers to   *)
(* is there already, and it never changes nor goes away.                   *)
(*                                                                         *)
(* Rbac is shown to implement this.                                        *)
(***************************************************************************)
CONSTANTS
  Users,
  Keys,     \* keys as they are stored, each with a field table
  Ids,      \* ids of the rows that can be referred to
  NoId,     \* rows that cannot have none
  Refers    \* which tables and ids the row of a key refers to

VARIABLES
  appointed,   \* users that have been superuser
  rows,
  events       \* which row was made by whom

catalogue == <<appointed, rows, events>>

Init ==
  /\ appointed = {}
  /\ rows = {}
  /\ events = {}

Appoint(u) ==
  /\ appointed' = appointed \cup {u}
  /\ UNCHANGED <<rows, events>>

Create(u, key, id) ==
  /\ u \in appointed
  /\ \A row \in rows : row.key # key /\ (id \in Ids => row.id # id)
  /\ \A target \in Refers[key] :
       \E row \in rows : row.key.table = target[1] /\ row.id = target[2]
  /\ rows' = rows \cup {[key |-> key, id |-> id]}
  /\ events' = events \cup {[row |-> [key |-> key, id |-> id], actor |-> u]}
  /\ UNCHANGED appointed

Next ==
  \/ \E u \in Users : Appoint(u)
  \/ \E u \in Users, key \in Keys, id \in Ids \cup {NoId} : Create(u, key, id)

Spec == Init /\ [][Next]_catalogue
===============================================================================
