------------------------------ MODULE Snapshot ------------------------------
(***************************************************************************)
(* The materialised state of the metadata log (crates/uc-db/src/store/     *)
(* mod.rs, struct Snapshot): rows addressed by id, and the natural-key     *)
(* index that stands in for the SQL UNIQUE constraints.                    *)
(*                                                                         *)
(* A natural key is an opaque Name: the kind and the parent id the code    *)
(* puts in front of it are part of the name here.  Kinds without a UNIQUE  *)
(* constraint have rows whose name is NoName.  A row also carries the set  *)
(* of the updates merged into it, which is all the properties need to know *)
(* about its other columns.                                                *)
(***************************************************************************)
EXTENDS Naturals

CONSTANTS Id,      \* row ids; numbers, because checkpoints are written in id order
          Name,    \* natural keys
          Patch,   \* column changes an update may bring
          NoName,  \* the natural key of a kind that has none
          NoId,    \* "no index entry"
          NoRow    \* "no row under this id"

Row == [name : Name \cup {NoName}, merged : SUBSET Patch]

ASSUME SnapshotAssumption ==
  /\ Id \subseteq Nat
  /\ NoName \notin Name
  /\ NoId \notin Id
  /\ NoRow \notin Row

Rows == [Id -> Row \cup {NoRow}]

Snapshots == [rows : Rows, index : [Name -> Id \cup {NoId}]]

EmptySnapshot ==
  [rows  |-> [i \in Id |-> NoRow],
   index |-> [n \in Name |-> NoId]]

-----------------------------------------------------------------------------
(* One line of a commit: an upsert carries the whole row, a remove an id.  *)

Actions ==
  [op : {"upsert"}, id : Id, row : Row] \cup [op : {"remove"}, id : Id]

Upsert(i, row) == [op |-> "upsert", id |-> i, row |-> row]

Remove(i) == [op |-> "remove", id |-> i]

\* The index without the entry of row i's present name, whoever owns the entry.
Unindexed(s, i) ==
  IF s.rows[i] # NoRow /\ s.rows[i].name # NoName
  THEN [s.index EXCEPT ![s.rows[i].name] = NoId]
  ELSE s.index

\* Snapshot::apply.
Apply(s, a) ==
  IF a.op = "remove"
  THEN [rows |-> [s.rows EXCEPT ![a.id] = NoRow], index |-> Unindexed(s, a.id)]
  ELSE [rows  |-> [s.rows EXCEPT ![a.id] = a.row],
        index |-> IF a.row.name = NoName
                  THEN Unindexed(s, a.id)
                  ELSE [Unindexed(s, a.id) EXCEPT ![a.row.name] = a.id]]

\* Snapshot::get_by_natural_key, as the id of the row found.
Lookup(s, n) ==
  IF s.index[n] # NoId /\ s.rows[s.index[n]] # NoRow THEN s.index[n] ELSE NoId

-----------------------------------------------------------------------------
(* A checkpoint holds the rows alone.  Reading it back applies one upsert  *)
(* per row in id order to an empty snapshot, so a name that two rows share *)
(* ends up with the larger id.                                             *)

Encode(s) == s.rows

Named(rows, n) == {i \in Id : rows[i] # NoRow /\ rows[i].name = n}

Decode(rows) ==
  [rows  |-> rows,
   index |-> [n \in Name |->
                IF Named(rows, n) = {} THEN NoId
                ELSE CHOOSE i \in Named(rows, n) :
                       \A j \in Named(rows, n) : j <= i]]

-----------------------------------------------------------------------------

\* A name leads to the one row that bears it and to no other: the UNIQUE
\* constraint and the index that enforces it, in one formula.
IndexMatches(s) ==
  \A n \in Name, i \in Id :
    s.index[n] = i <=> s.rows[i] # NoRow /\ s.rows[i].name = n

=============================================================================
