---------------------------- MODULE CommitTable ----------------------------
(***************************************************************************)
(* What the Delta logs stand in for: the SQL table of commits with its     *)
(* UNIQUE (table_id, commit_version).  An insert claims a version once and *)
(* for all; a query for the highest version is answered in one instant,    *)
(* between the request's arrival and the use of the answer.  No listing,   *)
(* no page, no hint, no process.                                           *)
(***************************************************************************)
EXTENDS Integers

CONSTANTS Table, Task, Version, NoVersion, NoTable

VARIABLES rows,   \* table -> version -> [by, flag]
          asks,   \* the table each request is about
          top     \* the answer to its query for the highest version

vars == <<rows, asks, top>>

Init ==
  /\ rows = [b \in Table |-> [v \in {} |-> [by |-> NoTable, flag |-> FALSE]]]
  /\ asks = [t \in Task |-> NoTable]
  /\ top = [t \in Task |-> NoVersion]

Begin(t, b) ==
  /\ asks[t] = NoTable
  /\ asks' = [asks EXCEPT ![t] = b]
  /\ UNCHANGED <<rows, top>>

Insert(t, v) ==
  LET b == asks[t]
  IN  /\ b # NoTable
      /\ v \notin DOMAIN rows[b]
      /\ rows' = [rows EXCEPT ![b] =
                    [u \in DOMAIN @ \cup {v} |->
                       IF u = v THEN [by |-> t, flag |-> FALSE] ELSE @[u]]]
      /\ UNCHANGED <<asks, top>>

MarkBackfilled(b, v) ==
  /\ v \in DOMAIN rows[b]
  /\ rows' = [rows EXCEPT ![b][v].flag = TRUE]
  /\ UNCHANGED <<asks, top>>

\* SELECT MAX(commit_version), NULL for a table without commits.
QueryHighest(t) ==
  LET versions == DOMAIN rows[asks[t]]
  IN  /\ asks[t] # NoTable
      /\ top' = [top EXCEPT ![t] =
                   IF versions = {} THEN NoVersion
                   ELSE CHOOSE v \in versions : \A u \in versions : u <= v]
      /\ UNCHANGED <<rows, asks>>

Next ==
  \/ \E t \in Task :
       \/ \E b \in Table : Begin(t, b)
       \/ \E v \in Version : Insert(t, v)
       \/ QueryHighest(t)
  \/ \E b \in Table, v \in Version : MarkBackfilled(b, v)

Spec == Init /\ [][Next]_vars

=============================================================================
