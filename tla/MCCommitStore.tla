--------------------------- MODULE MCCommitStore ----------------------------
(***************************************************************************)
(* Small instances of CommitStore for TLC.                                 *)
(***************************************************************************)
EXTENDS StoreImplementsRegistry, TLC

CONSTANTS t1, t2, t3, r1, r2, n1, n2

MCTask2 == {t1, t2}
MCTask3 == {t1, t2, t3}
MCReplica2 == {r1, r2}
MCName == {n1, n2}

MCId2 == 1..2
MCId3 == 1..3
MCNewId2 == (t1 :> 1 @@ t2 :> 2)
MCNewId3 == (t1 :> 1 @@ t2 :> 2 @@ t3 :> 3)

\* Both calls on one replica, the other one only follows.
MCHome2 == (t1 :> r1 @@ t2 :> r1)

\* Two calls share a replica, the third races them from another one.
MCHome3 == (t1 :> r1 @@ t2 :> r1 @@ t3 :> r2)

Req(op, name, new) == [op |-> op, name |-> name, new |-> new]

Create(n) == Req("create", n, NoName)
Rename(n, m) == Req("update", n, m)
Drop(n) == Req("delete", n, NoName)
InitMetastore == Req("init", NoName, NoName)

MCCalls == {Create(n1), Rename(n1, n2), Drop(n1), InitMetastore}

\* A call that adds a name and one that moves it away and so makes room again.
MCLive == {Create(n1), Rename(n1, n2)}

=============================================================================
