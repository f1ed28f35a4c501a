--------------------------------- MODULE MCRbac --------------------------------
(* Rbac for TLC: one name in two spellings.                                *)
EXTENDS Rbac

LowerNames == [n \in {"Auditor", "auditor"} |-> "auditor"]
===============================================================================
