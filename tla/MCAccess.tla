------------------------------ MODULE MCAccess ------------------------------
(***************************************************************************)
(* A small instance of Access for TLC: two replicas, an operator that acts *)
(* on a catalog and on the metastore, a principal named like the admin.    *)
(***************************************************************************)
EXTENDS Access, TLC

CONSTANTS r1, r2, c1, c2, admin, op, x, metastore, catalog, OWNER, ALL, CREATE

Ask(what, sub, who, on, priv) == [op |-> what, sub |-> sub, who |-> who, on |-> on, priv |-> priv]

MCRequests ==
  { Ask("create", op, op, catalog, OWNER),
    Ask("grant", op, x, metastore, OWNER),
    Ask("revoke", op, x, metastore, OWNER),
    Ask("grant", x, admin, metastore, CREATE),
    Ask("login", admin, admin, metastore, OWNER) }

\* A user that is given the operator's subject as email and as external id.
MCProfiles == { [name |-> x, email |-> op, ext |-> op] }

MCName == {admin, op, x}
MCOperators == {op}
MCCatalog == {catalog}
MCSpecific == {CREATE}

Symmetry == Permutations({r1, r2}) \cup Permutations({c1, c2})

=============================================================================
