------------------------ MODULE DeltaImplementsTable ------------------------
(***************************************************************************)
(* What the objects of a Delta log stand for: the rows of CommitTable.     *)
(* A row is inserted when a conditional PUT creates its object, marked     *)
(* when a rewrite of it lands, and the highest version is the one that the *)
(* table has when a listing beyond the hint reaches its empty page.        *)
(***************************************************************************)
EXTENDS DeltaLog

RowOf(body) == [by |-> body.by, flag |-> body.flag]

T == INSTANCE CommitTable WITH
       rows <- [b \in Table |-> [v \in Versions(b) |-> RowOf(log[b][v])]],
       asks <- [t \in Task |-> IF req[t] = NoRequest THEN NoTable ELSE TableOf(t)]

\* One log per table, listed page by page from a hint, behaves as a SQL table
\* with a unique version column and an atomic MAX.  (delta_log.rs: a wrong hint
\* costs "one rejected PUT and a re-list, never correctness")
ImplementsCommitTable == T!Spec

=============================================================================
