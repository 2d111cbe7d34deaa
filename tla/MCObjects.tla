------------------------------ MODULE MCObjects -----------------------------
(***************************************************************************)
(* A small instance of Objects for TLC: two catalogs with one schema each, *)
(* both schemas of one name, a table, a model with a version, an open      *)
(* staging table.                                                          *)
(***************************************************************************)
EXTENDS Objects, TLC

CONSTANTS c1, c2

MCName == 1..3

Row(kind, name, parent, root) ==
  [kind |-> kind, name |-> name, parent |-> parent, max |-> IF kind = "model" THEN 1 ELSE 0,
   root |-> root, from |-> None]

SeedRows ==
  << Row("catalog", 1, None, TRUE), Row("catalog", 2, None, TRUE),
     Row("schema", 1, 1, FALSE), Row("schema", 1, 2, TRUE),
     Row("table", 1, 3, FALSE), Row("model", 1, 3, FALSE) >>

MCSeed ==
  [objs |-> [i \in Id |-> IF i <= 6 THEN SeedRows[i] ELSE NoObject],
   parts |-> {5}, props |-> {1, 5, 6},
   versions |-> {[model |-> 6, number |-> 1, by |-> 1]},
   staging |-> [i \in Id |-> IF i = 7 THEN "open" ELSE "none"],
   owners |-> 1..7,
   links |-> {<<i, SeedRows[i].parent>> : i \in 1..6}]

Ask(op, kind, path, to, opts) ==
  [op |-> op, kind |-> kind, path |-> path, to |-> to, staged |-> None, opts |-> opts]

Staged(path) == [Ask("create", "table", path, None, {"managed"}) EXCEPT !.staged = 7]

\* Renames, creations and drops of catalogs, tables and models, versions, two uses
\* of a staging table, a listing: what races with what, or is broken off.
MCRequests ==
  { Ask("rename", "catalog", <<1>>, 3, {}),
    Ask("rename", "catalog", <<2>>, 1, {"props"}),
    Ask("delete", "catalog", <<1>>, None, {"force"}),
    Ask("delete", "schema", <<1, 1>>, None, {}),
    Staged(<<1, 1, 2>>),
    Staged(<<2, 1, 1>>),
    Ask("stage", "table", <<1, 1, 1>>, None, {}),
    Ask("rename", "table", <<1, 1, 1>>, 2, {}),
    Ask("addVersion", "model", <<1, 1, 1>>, None, {}),
    Ask("dropVersion", "model", <<1, 1, 1>>, 1, {}),
    Ask("rename", "model", <<1, 1, 1>>, 2, {"props"}),
    Ask("list", "table", <<1, 1, 1>>, None, {}),
    Ask("delete", "table", <<1, 1, 1>>, None, {}),
    Ask("create", "table", <<1, 1, 2>>, None, {"managed", "parts", "props"}),
    Ask("create", "table", <<1, 1, 2>>, None, {"delta"}) }

Symmetry == Permutations({c1, c2})

=============================================================================
