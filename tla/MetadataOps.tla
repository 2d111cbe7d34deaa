---------------------------- MODULE MetadataOps -----------------------------
(***************************************************************************)
(* The build closures the repositories hand to the commit loop             *)
(* (crates/uc-db/src/repos): what each one refuses, when it has nothing to *)
(* write, and the action it writes otherwise.  catalog.rs stands for the   *)
(* name-unique kinds, metastore.rs for the singleton.  A closure is a pure *)
(* function of the snapshot it is given.                                   *)
(***************************************************************************)
EXTENDS Snapshot

CONSTANTS Task,    \* API calls; each runs one commit loop
          NewId    \* the id each call would give to a row it creates

ASSUME OpsAssumption ==
  /\ Patch = Task
  /\ NewId \in [Task -> Id]

Request ==
  [op : {"create", "update", "delete", "init"},
   name : Name \cup {NoName},   \* the name the call addresses
   new  : Name \cup {NoName}]   \* the new name of an update, or NoName

WellFormed(q) == (q.op = "init") <=> (q.name = NoName)

\* The closure returns Err: AlreadyExists or NotFound.
Rejects(s, q) ==
  \/ q.op = "create" /\ Lookup(s, q.name) # NoId
  \/ q.op \in {"update", "delete"} /\ Lookup(s, q.name) = NoId
  \/ /\ q.op = "update"
     /\ q.new \notin {NoName, q.name}
     /\ Lookup(s, q.new) # NoId

\* iter_by_id over a kind without a natural key.
Unnamed(s) == {i \in Id : s.rows[i] # NoRow /\ s.rows[i].name = NoName}

\* get_or_init finds the singleton and commits nothing.
NothingToDo(s, q) == q.op = "init" /\ Unnamed(s) # {}

\* The row an update writes: the present one, renamed if asked, patch merged in.
Updated(s, t, q) ==
  LET row == s.rows[Lookup(s, q.name)]
  IN  [name   |-> IF q.new = NoName THEN row.name ELSE q.new,
       merged |-> row.merged \cup {t}]

\* The action of a closure that neither refuses nor returns early.
Build(s, t, q) ==
  CASE q.op \in {"create", "init"} ->
         Upsert(NewId[t], [name |-> q.name, merged |-> {}])
    [] q.op = "update" -> Upsert(Lookup(s, q.name), Updated(s, t, q))
    [] q.op = "delete" -> Remove(Lookup(s, q.name))

\* Call t may change state s to serve q.
Accepts(s, q) == ~Rejects(s, q) /\ ~NothingToDo(s, q)

=============================================================================
